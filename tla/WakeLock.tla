----------------------------- MODULE WakeLock ------------------------------
(***************************************************************************)
(* The wake lock of libtgm, tgm.cpp: TGM_onUnsolicitedResponse takes the    *)
(* partial wake lock, sends, cancels the timer of the notification before   *)
(* it and starts one of its own, which releases the lock a second later.    *)
(* Any thread may notify; timers fire on the dispatch thread, in order.     *)
(* s_last_wake_timeout_info and the records it points to are shared without *)
(* a lock.  The wake lock does not count: one release undoes every grab.    *)
(***************************************************************************)
EXTENDS Integers, FiniteSets, Sequences

CONSTANTS
    Notifiers,    \* threads other than the dispatch thread that notify
    Addresses,    \* where malloc may put a UserCallbackInfo
    MaxNotices,   \* bound: notifications
    MaxOthers     \* bound: timed callbacks that are not the wake lock's

Dispatch == "dispatch"
Threads == Notifiers \cup {Dispatch}
NULL == "null"
Callbacks == {"wakeTimeoutCallback", "other"}

ASSUME NamesAssumption == Dispatch \notin Notifiers /\ NULL \notin Addresses
ASSUME BoundsAssumption ==
    {MaxNotices, MaxOthers} \subseteq Nat /\ IsFiniteSet(Addresses)

VARIABLES
    wakeLock,                  \* it is held
    s_last_wake_timeout_info,
    mem,       \* the UserCallbackInfo at each address
    timers,    \* the addresses in the timer list
    pc,        \* where each thread is in TGM_onUnsolicitedResponse
    ptr,       \* the pointer it works with
    firing,    \* what userTimerCallback is doing, and to which record
    notices, others,
    overlap    \* a notification overlapped with another or with a release

vars == <<wakeLock, s_last_wake_timeout_info, mem, timers, pc, ptr, firing, notices,
          others, overlap>>

NotFiring == [step |-> "none", p_info |-> NULL, cancelled |-> FALSE]
ToTimers == {timers[i] : i \in DOMAIN timers}

TypeOK ==
    /\ {wakeLock, overlap} \subseteq BOOLEAN
    /\ s_last_wake_timeout_info \in Addresses \cup {NULL}
    /\ mem \in [Addresses -> [allocated : BOOLEAN, callback : Callbacks,
                              userParam : {0, 1}]]
    /\ timers \in Seq(Addresses)
    /\ \A p \in ToTimers : mem[p].allocated
    /\ pc \in [Threads -> {"idle", "send", "cancel", "mark", "new", "store"}]
    /\ ptr \in [Threads -> Addresses \cup {NULL}]
    /\ firing \in [step : {"none", "callback", "clear"},
                   p_info : Addresses \cup {NULL}, cancelled : BOOLEAN]
    /\ notices \in 0 .. MaxNotices /\ others \in 0 .. MaxOthers

Init ==
    /\ wakeLock = FALSE
    /\ s_last_wake_timeout_info = NULL
    /\ mem = [p \in Addresses |-> [allocated |-> FALSE, callback |-> "other",
                                   userParam |-> 0]]
    /\ timers = << >>
    /\ pc = [th \in Threads |-> "idle"]
    /\ ptr = [th \in Threads |-> NULL]
    /\ firing = NotFiring
    /\ notices = 0 /\ others = 0
    /\ overlap = FALSE

Goto(th, l) == pc' = [pc EXCEPT ![th] = l]

\* the dispatch thread fires timers or notifies, one at a time
Free(th) == pc[th] = "idle" /\ (th = Dispatch => firing = NotFiring)

-----------------------------------------------------------------------------
(* TGM_onUnsolicitedResponse.                                               *)

Grab(th) ==
    /\ Free(th) /\ notices < MaxNotices
    /\ notices' = notices + 1
    /\ wakeLock' = TRUE
    /\ overlap' = (overlap \/ firing # NotFiring \/ \E u \in Threads : pc[u] # "idle")
    /\ Goto(th, "send")
    /\ UNCHANGED <<s_last_wake_timeout_info, mem, timers, ptr, firing, others>>

Sent(th) ==
    /\ pc[th] = "send"
    /\ Goto(th, "cancel")
    /\ UNCHANGED <<wakeLock, s_last_wake_timeout_info, mem, timers, ptr, firing,
                   notices, others, overlap>>

\* the pointer is tested ...
LoadLast(th) ==
    /\ pc[th] = "cancel"
    /\ ptr' = [ptr EXCEPT ![th] = s_last_wake_timeout_info]
    /\ Goto(th, IF s_last_wake_timeout_info = NULL THEN "new" ELSE "mark")
    /\ UNCHANGED <<wakeLock, s_last_wake_timeout_info, mem, timers, firing, notices,
                   others, overlap>>

\* Mutant: the previous timer is not cancelled.
MarkNot(th) ==
    /\ pc[th] = "mark"
    /\ Goto(th, "new")
    /\ UNCHANGED <<wakeLock, s_last_wake_timeout_info, mem, timers, ptr, firing,
                   notices, others, overlap>>

\* ... and the record marked, which may be free by then, or another's
Mark(th) ==
    /\ pc[th] = "mark"
    /\ mem' = [mem EXCEPT ![ptr[th]].userParam = 1]
    /\ Goto(th, "new")
    /\ UNCHANGED <<wakeLock, s_last_wake_timeout_info, timers, ptr, firing, notices,
                   others, overlap>>

\* Mutant: userParam is left as malloc returns it.
CreateUnset(p, callback) ==
    /\ ~mem[p].allocated
    /\ mem' = [mem EXCEPT ![p].allocated = TRUE, ![p].callback = callback]
    /\ timers' = Append(timers, p)

\* internalRequestTimedCallback
Create(p, callback) ==
    /\ ~mem[p].allocated
    /\ mem' = [mem EXCEPT ![p] = [allocated |-> TRUE, callback |-> callback,
                                  userParam |-> 0]]
    /\ timers' = Append(timers, p)

StartTimer(th) ==
    /\ pc[th] = "new"
    /\ \E p \in Addresses : Create(p, "wakeTimeoutCallback")
                            /\ ptr' = [ptr EXCEPT ![th] = p]
    /\ Goto(th, "store")
    /\ UNCHANGED <<wakeLock, s_last_wake_timeout_info, firing, notices, others, overlap>>

StoreLast(th) ==
    /\ pc[th] = "store"
    /\ s_last_wake_timeout_info' = ptr[th]
    /\ ptr' = [ptr EXCEPT ![th] = NULL]
    /\ Goto(th, "idle")
    /\ UNCHANGED <<wakeLock, mem, timers, firing, notices, others, overlap>>

\* TGM_requestTimedCallback
RequestOther(th) ==
    /\ Free(th) /\ others < MaxOthers
    /\ others' = others + 1
    /\ \E p \in Addresses : Create(p, "other")
    /\ UNCHANGED <<wakeLock, s_last_wake_timeout_info, pc, ptr, firing, notices, overlap>>

NotifyStep(th) ==
    Sent(th) \/ LoadLast(th) \/ Mark(th) \/ StartTimer(th) \/ StoreLast(th)

-----------------------------------------------------------------------------
(* userTimerCallback, on the dispatch thread.                               *)

\* the first timer; userParam is read as the callback is called ...
FireFirst ==
    /\ pc[Dispatch] = "idle" /\ firing = NotFiring /\ timers # << >>
    /\ firing' = [step |-> "callback", p_info |-> Head(timers),
                  cancelled |-> mem[Head(timers)].userParam = 1]
    /\ overlap' = (overlap \/ \E th \in Threads : pc[th] # "idle")
    /\ UNCHANGED <<wakeLock, s_last_wake_timeout_info, mem, pc, ptr, notices, others>>

\* Mutant: the timer stays in the list.
FireKeep == FireFirst /\ UNCHANGED timers

Fire == FireFirst /\ timers' = Tail(timers)

\* ... wakeTimeoutCallback releases the wake lock unless it is set ...
WakeTimeoutCallback ==
    /\ firing.step = "callback"
    /\ IF mem[firing.p_info].callback = "wakeTimeoutCallback" /\ ~firing.cancelled
       THEN wakeLock' = FALSE
       ELSE UNCHANGED wakeLock
    /\ firing' = [firing EXCEPT !.step = "clear"]
    /\ UNCHANGED <<s_last_wake_timeout_info, mem, timers, pc, ptr, notices, others,
                   overlap>>

\* ... and the record is forgotten and freed, with what it held still in it
FreeInfo ==
    /\ firing.step = "clear"
    /\ s_last_wake_timeout_info' =
          IF s_last_wake_timeout_info = firing.p_info THEN NULL
          ELSE s_last_wake_timeout_info
    /\ mem' = [mem EXCEPT ![firing.p_info].allocated = FALSE]
    /\ firing' = NotFiring
    /\ UNCHANGED <<wakeLock, timers, pc, ptr, notices, others, overlap>>

FireStep == Fire \/ WakeTimeoutCallback \/ FreeInfo

Next ==
    \/ \E th \in Threads : Grab(th) \/ NotifyStep(th) \/ RequestOther(th)
    \/ FireStep

Spec == Init /\ [][Next]_vars

\* Threads go on, and timers fire.
FairSpec ==
    Spec /\ WF_vars(FireStep) /\ \A th \in Threads : WF_vars(NotifyStep(th))

-----------------------------------------------------------------------------
(* Properties.                                                              *)

\* a timer that will release the lock
Live(p) == mem[p].callback = "wakeTimeoutCallback" /\ mem[p].userParam = 0

\* The wake lock is never left held: whoever races with whom, and whichever
\* record a stale pointer cancels, a timer that will release it is waiting or
\* being fired, or a thread will start one (tgm.cpp:504-506, 556-571,
\* 1446-1476).
NotLeaked ==
    wakeLock =>
        \/ \E p \in ToTimers : Live(p)
        \/ firing.step = "callback" /\ ~firing.cancelled
               /\ mem[firing.p_info].callback = "wakeTimeoutCallback"
        \/ \E th \in Threads : pc[th] \in {"send", "cancel", "mark", "new"}

\* As long as no notification overlaps with another one or with the firing of
\* a timer, the wake lock is held until the timer of the newest notification
\* fires, and only that timer is live: a timer that was to be cancelled never
\* releases it (tgm.cpp:560-571).
HeldUntilNewest ==
    ~overlap /\ (\A th \in Threads : pc[th] = "idle") =>
        /\ \A p \in ToTimers : Live(p) => wakeLock /\ p = s_last_wake_timeout_info
        /\ Cardinality({p \in ToTimers : Live(p)}) <= 1

\* The wake lock is released at last.
WakeReleased == wakeLock ~> ~wakeLock
=============================================================================
