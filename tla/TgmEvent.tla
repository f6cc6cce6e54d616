------------------------------ MODULE TgmEvent ------------------------------
(***************************************************************************)
(* The event loop of libtgm: tgm_event.cpp (select loop, watch table,      *)
(* sorted timer list, pending list) together with the part of tgm.cpp that *)
(* drives it: the wakeup pipe, the listening socket and the one command    *)
(* socket.                                                                  *)
(*                                                                         *)
(* The loop runs on the dispatch thread.  Other threads add timers          *)
(* (TGM_requestTimedCallback, the wake timer of TGM_onUnsolicitedResponse) *)
(* and one of them, Registrar, runs TGM_register, which adds the listening *)
(* socket.  After each change they write a byte to the wakeup pipe.  The   *)
(* loop copies readFds and computes its timeout WITHOUT listMutex, so what *)
(* it sleeps on may be out of date: the byte is what makes up for it.       *)
(***************************************************************************)
EXTENDS Integers, FiniteSets, SequencesExt, FiniteSetsExt

CONSTANTS
    Threads,      \* threads other than the dispatch thread
    Registrar,    \* the one that calls TGM_register
    Timers,       \* UserCallbackInfo records that may be allocated at once
    Delays,       \* relative times given to tgm_timer_add
    MaxFdEvents,  \* MAX_FD_EVENTS of tgm_event.h
    MaxTime,      \* bound: the clock stops here
    WakeupFd, ListenFd, CommandFds   \* file descriptor numbers

WatchEvents == {"wakeup", "listen", "commands"}
NoEvent == "none"
Dispatch == "dispatch"    \* the thread that runs the loop
Nobody == "nobody"
NoFd == -1
Forever == -1             \* select is called without a timeout

ASSUME ThreadsAssumption ==
    /\ Registrar \in Threads
    /\ Dispatch \notin Threads
    /\ Nobody \notin Threads
ASSUME TimersAssumption == Timers \cap (WatchEvents \cup {NoEvent}) = {}
ASSUME DelaysAssumption == Delays \subseteq Nat
ASSUME BoundsAssumption == MaxFdEvents \in Nat /\ MaxTime \in Nat
ASSUME FdsAssumption ==
    /\ WakeupFd \in Nat /\ ListenFd \in Nat /\ CommandFds \subseteq Nat
    /\ WakeupFd # ListenFd
    /\ WakeupFd \notin CommandFds /\ ListenFd \notin CommandFds

Slots == 0 .. MaxFdEvents - 1
Fds == {WakeupFd, ListenFd} \cup CommandFds

VARIABLES
    watch_table,  \* slot -> watched event or NoEvent
    index,        \* ev->index: the event's slot, or -1
    readFds,      \* descriptors in the global fd_set
    nfds,
    timer_list,   \* timers, earliest first
    due,          \* ev->timeout of each timer
    pending_list, \* events whose callback is about to run
    listMutex,    \* its holder
    pipe,         \* wakeup pipe: "none" (not created), "empty" or "byte"
    loop,         \* where the dispatch thread is
    rfds,         \* the loop's own fd_set: what select watches, then its result
    selectNfds,   \* first argument of the select call under way
    until,        \* when that call times out
    pc,           \* where each other thread is
    s_fdCommand,
    commandsFd,   \* s_commands_event.fd
    connecting,   \* a client is waiting in the listening socket's backlog
    cmdIn,        \* what the command socket has to read
    now

tableVars  == <<watch_table, index, readFds, nfds>>
timerVars  == <<timer_list, due>>
selectVars == <<rfds, selectNfds, until>>
socketVars == <<s_fdCommand, commandsFd>>
clientVars == <<connecting, cmdIn>>
vars == <<tableVars, timerVars, pending_list, listMutex, pipe, loop,
          selectVars, pc, socketVars, clientVars, now>>

LoopPcs == {"pipe", "addWakeup", "copy", "calc", "enter", "select",
            "timeouts", "readies", "fire", "relisten"}
ThreadPcs == {"register", "nfds", "idle", "trigger"}

TypeOK ==
    /\ watch_table \in [Slots -> WatchEvents \cup {NoEvent}]
    /\ index \in [WatchEvents -> Slots \cup {-1}]
    /\ readFds \subseteq Fds
    /\ nfds \in Nat
    /\ timer_list \in Seq(Timers)
    /\ due \in [Timers -> Nat]
    /\ pending_list \in Seq(Timers \cup WatchEvents)
    /\ listMutex \in Threads \cup {Dispatch, Nobody}
    /\ pipe \in {"none", "empty", "byte"}
    /\ loop \in LoopPcs
    /\ rfds \subseteq Fds
    /\ selectNfds \in Nat
    /\ until \in Nat \cup {Forever}
    /\ pc \in [Threads -> ThreadPcs]
    /\ s_fdCommand \in CommandFds \cup {NoFd}
    /\ commandsFd \in CommandFds \cup {NoFd}
    /\ connecting \in BOOLEAN
    /\ cmdIn \in {"none", "data", "eof"}
    /\ now \in Nat

\* TGM_startEventLoop has returned: tgm_event_init ran and s_started is set,
\* but the pipe is not open yet.
Init ==
    /\ watch_table = [i \in Slots |-> NoEvent]
    /\ index = [e \in WatchEvents |-> -1]
    /\ readFds = {}
    /\ nfds = 0
    /\ timer_list = << >>
    /\ due = [t \in Timers |-> 0]
    /\ pending_list = << >>
    /\ listMutex = Nobody
    /\ pipe = "none"
    /\ loop = "pipe"
    /\ rfds = {}
    /\ selectNfds = 0
    /\ until = Forever
    /\ pc = [th \in Threads |-> IF th = Registrar THEN "register" ELSE "idle"]
    /\ s_fdCommand = NoFd
    /\ commandsFd = NoFd
    /\ connecting = FALSE
    /\ cmdIn = "none"
    /\ now = 0

-----------------------------------------------------------------------------
(* Operations of tgm_event.cpp.  Those that change the table or the timer   *)
(* list run under listMutex; LockFree is the guard of an action that takes  *)
(* and releases it.                                                         *)

LockFree == listMutex = Nobody

Fd(e) == CASE e = "wakeup" -> WakeupFd
           [] e = "listen" -> ListenFd
           [] e = "commands" -> commandsFd

\* Mutant: the listening socket is persistent
PersistAlways(e) == TRUE

\* tgm_event_set's persist argument, for each of the three events
Persist(e) == e # "listen"

Watched == {watch_table[i] : i \in Slots} \ {NoEvent}
Occupied(i) == watch_table[i] # NoEvent
FirstFree(i) == ~Occupied(i) /\ \A j \in Slots : j < i => Occupied(j)

\* Mutant: nfds is not raised
AddWatchKeepNfds(e, fd, idx) ==
    \/ \E i \in Slots :
          /\ FirstFree(i)
          /\ watch_table' = [watch_table EXCEPT ![i] = e]
          /\ index' = [idx EXCEPT ![e] = i]
          /\ readFds' = readFds \cup {fd}
          /\ UNCHANGED nfds
    \/ /\ \A i \in Slots : Occupied(i)
       /\ index' = idx
       /\ UNCHANGED <<watch_table, readFds, nfds>>

\* tgm_event_add, run in one piece; idx is index before the call.  When the
\* table is full the event is dropped without a word.
AddWatch(e, fd, idx) ==
    \/ \E i \in Slots :
          /\ FirstFree(i)
          /\ watch_table' = [watch_table EXCEPT ![i] = e]
          /\ index' = [idx EXCEPT ![e] = i]
          /\ readFds' = readFds \cup {fd}
          /\ nfds' = IF fd >= nfds THEN fd + 1 ELSE nfds
    \/ /\ \A i \in Slots : Occupied(i)
       /\ index' = idx
       /\ UNCHANGED <<watch_table, readFds, nfds>>

\* Mutant: nfds is the highest descriptor, not one more
RemoveWatchLowNfds(e, i) ==
    /\ watch_table' = [watch_table EXCEPT ![i] = NoEvent]
    /\ index' = [index EXCEPT ![e] = -1]
    /\ readFds' = readFds \ {Fd(e)}
    /\ nfds' = IF Fd(e) + 1 = nfds
               THEN Max({0} \cup {Fd(f) : f \in Watched \ {e}})
               ELSE nfds

\* Mutant: FD_CLR is forgotten
RemoveWatchKeepFd(e, i) ==
    /\ watch_table' = [watch_table EXCEPT ![i] = NoEvent]
    /\ index' = [index EXCEPT ![e] = -1]
    /\ UNCHANGED <<readFds, nfds>>

\* removeWatch: nfds is recomputed only when the highest descriptor goes
RemoveWatch(e, i) ==
    /\ watch_table' = [watch_table EXCEPT ![i] = NoEvent]
    /\ index' = [index EXCEPT ![e] = -1]
    /\ readFds' = readFds \ {Fd(e)}
    /\ nfds' = IF Fd(e) + 1 = nfds
               THEN 1 + Max({0} \cup {Fd(f) : f \in Watched \ {e}})
               ELSE nfds

InUse(t) == t \in ToSet(timer_list) \cup ToSet(pending_list)

\* Mutant: the list is not kept sorted
InsertTimerLast(t, d) ==
    /\ due' = [due EXCEPT ![t] = now + d]
    /\ timer_list' = Append(timer_list, t)

\* tgm_timer_add: before the first timer that is not earlier than t
InsertTimer(t, d) ==
    /\ due' = [due EXCEPT ![t] = now + d]
    /\ \E k \in 1 .. Len(timer_list) + 1 :
          /\ \A j \in 1 .. k - 1 : due[timer_list[j]] < now + d
          /\ k <= Len(timer_list) => due[timer_list[k]] >= now + d
          /\ timer_list' = InsertAt(timer_list, k, t)

\* A call of internalRequestTimedCallback: a fresh record is queued.  Bound:
\* the clock can still pass the timer's due time.
NewTimer ==
    /\ LockFree
    /\ \E t \in Timers, d \in Delays :
          /\ ~InUse(t)
          /\ now + d < MaxTime
          /\ InsertTimer(t, d)

-----------------------------------------------------------------------------
(* The dispatch thread.                                                     *)

\* eventLoop opens the pipe after it has announced that it is running
OpenPipe ==
    /\ loop = "pipe"
    /\ pipe' = "empty"
    /\ loop' = "addWakeup"
    /\ UNCHANGED <<tableVars, timerVars, pending_list, listMutex, selectVars,
                   pc, socketVars, clientVars, now>>

AddWakeup ==
    /\ loop = "addWakeup"
    /\ LockFree
    /\ AddWatch("wakeup", WakeupFd, index)
    /\ loop' = "copy"
    /\ UNCHANGED <<timerVars, pending_list, listMutex, pipe, selectVars, pc,
                   socketVars, clientVars, now>>

\* memcpy of readFds, without the lock
CopyReadFds ==
    /\ loop = "copy"
    /\ rfds' = readFds
    /\ loop' = "calc"
    /\ UNCHANGED <<tableVars, timerVars, pending_list, listMutex, pipe,
                   selectNfds, until, pc, socketVars, clientVars, now>>

\* Mutant: an overdue timer counts as no timer
CalcNextTimeoutOverdue ==
    /\ loop = "calc"
    /\ until' = IF timer_list = << >> \/ due[Head(timer_list)] < now
                THEN Forever ELSE due[Head(timer_list)]
    /\ loop' = "enter"
    /\ UNCHANGED <<tableVars, timerVars, pending_list, listMutex, pipe, rfds,
                   selectNfds, pc, socketVars, clientVars, now>>

\* calcNextTimeout, without the lock; a timer already due gives a zero
\* timeout, that is, an instant that has passed
CalcNextTimeout ==
    /\ loop = "calc"
    /\ until' = IF timer_list = << >> THEN Forever ELSE due[Head(timer_list)]
    /\ loop' = "enter"
    /\ UNCHANGED <<tableVars, timerVars, pending_list, listMutex, pipe, rfds,
                   selectNfds, pc, socketVars, clientVars, now>>

EnterSelect ==
    /\ loop = "enter"
    /\ selectNfds' = nfds
    /\ loop' = "select"
    /\ UNCHANGED <<tableVars, timerVars, pending_list, listMutex, pipe, rfds,
                   until, pc, socketVars, clientVars, now>>

Open(fd) == fd \in {ListenFd, s_fdCommand} \/ (fd = WakeupFd /\ pipe # "none")

Readable(fd) ==
    \/ fd = WakeupFd /\ pipe = "byte"
    \/ fd = ListenFd /\ connecting
    \/ fd = s_fdCommand /\ cmdIn # "none"

Selected == {fd \in rfds : fd < selectNfds}

\* With a closed descriptor select would fail and tgm_event_loop return, so
\* that nothing runs any more: LoopAlive says that this never happens.
SelectReturns ==
    /\ loop = "select"
    /\ \A fd \in Selected : Open(fd)
    /\ LET ready == {fd \in Selected : Readable(fd)} IN
         /\ ready # {} \/ (until # Forever /\ now >= until)
         /\ rfds' = ready
    /\ loop' = "timeouts"
    /\ UNCHANGED <<tableVars, timerVars, pending_list, listMutex, pipe,
                   selectNfds, until, pc, socketVars, clientVars, now>>

\* a signal: the loop starts over
SelectInterrupted ==
    /\ loop = "select"
    /\ loop' = "copy"
    /\ UNCHANGED <<tableVars, timerVars, pending_list, listMutex, pipe,
                   selectVars, pc, socketVars, clientVars, now>>

\* Mutant: the list is cut behind the first timer that is not expired
ProcessTimeoutsOffByOne ==
    /\ loop = "timeouts"
    /\ LockFree
    /\ \E k \in 0 .. Len(timer_list) :
          /\ \A j \in 1 .. k : now > due[timer_list[j]]
          /\ k < Len(timer_list) => ~(now > due[timer_list[k + 1]])
          /\ pending_list' = pending_list \o SubSeq(timer_list, 1, k)
          /\ timer_list' = SubSeq(timer_list, k + 2, Len(timer_list))
    /\ loop' = "readies"
    /\ UNCHANGED <<tableVars, due, listMutex, pipe, selectVars, pc,
                   socketVars, clientVars, now>>

\* processTimeouts: the leading timers strictly in the past become pending
ProcessTimeouts ==
    /\ loop = "timeouts"
    /\ LockFree
    /\ \E k \in 0 .. Len(timer_list) :
          /\ \A j \in 1 .. k : now > due[timer_list[j]]
          /\ k < Len(timer_list) => ~(now > due[timer_list[k + 1]])
          /\ pending_list' = pending_list \o SubSeq(timer_list, 1, k)
          /\ timer_list' = SubSeq(timer_list, k + 1, Len(timer_list))
    /\ loop' = "readies"
    /\ UNCHANGED <<tableVars, due, listMutex, pipe, selectVars, pc,
                   socketVars, clientVars, now>>

\* processReadReadies: in slot order; a non-persistent event (the listening
\* socket is the only one) stops being watched.  The count n that also ends
\* the walk is the number of descriptors in rfds, and no descriptor is in two
\* slots, so it stops nothing earlier.
IsReady(e) == Fd(e) \in rfds

ReadyEvents == {e \in Watched : IsReady(e)}

InSlotOrder(events) ==
    \A i, j \in DOMAIN events : i < j => index[events[i]] < index[events[j]]

ProcessReadReadies ==
    /\ loop = "readies"
    /\ LockFree
    /\ \E n \in 0 .. MaxFdEvents : \E events \in [1 .. n -> ReadyEvents] :
          /\ InSlotOrder(events)
          /\ \A e \in ReadyEvents : \E i \in 1 .. n : events[i] = e
          /\ pending_list' = pending_list \o events
    /\ \/ \E i \in Slots : /\ watch_table[i] = "listen"
                           /\ IsReady("listen") /\ ~Persist("listen")
                           /\ RemoveWatch("listen", i)
       \/ /\ \A i \in Slots : watch_table[i] = "listen" =>
                                 ~IsReady("listen") \/ Persist("listen")
          /\ UNCHANGED tableVars
    /\ loop' = "fire"
    /\ UNCHANGED <<timerVars, listMutex, pipe, selectVars, pc, socketVars,
                   clientVars, now>>

\* firePending pops the first event and calls its callback; one action per
\* callback below
Firing(e) ==
    /\ loop = "fire"
    /\ pending_list # << >> /\ Head(pending_list) = e
    /\ pending_list' = Tail(pending_list)

FireDone ==
    /\ loop = "fire"
    /\ pending_list = << >>
    /\ loop' = "copy"
    /\ UNCHANGED <<tableVars, timerVars, pending_list, listMutex, pipe,
                   selectVars, pc, socketVars, clientVars, now>>

\* userTimerCallback: the callback may ask for another timed callback, as
\* pollSIMState does; the dispatch thread needs no wakeup byte
FireTimer(t) ==
    /\ Firing(t)
    /\ NewTimer \/ UNCHANGED timerVars
    /\ UNCHANGED <<tableVars, listMutex, pipe, loop, selectVars, pc,
                   socketVars, clientVars, now>>

\* processWakeupCallback empties the pipe
FireWakeup ==
    /\ Firing("wakeup")
    /\ pipe' = "empty"
    /\ UNCHANGED <<tableVars, timerVars, listMutex, loop, selectVars, pc,
                   socketVars, clientVars, now>>

\* listenCallback, accept succeeds: s_commands_event is set up and watched;
\* onNewCommandConnect may start the wake timer
FireListenAccept ==
    /\ Firing("listen")
    /\ connecting
    /\ LockFree
    /\ \E fd \in CommandFds :
          /\ s_fdCommand' = fd
          /\ commandsFd' = fd
          /\ AddWatch("commands", fd, [index EXCEPT !["commands"] = -1])
    /\ connecting' = FALSE
    /\ cmdIn' = "none"
    /\ NewTimer \/ UNCHANGED timerVars
    /\ UNCHANGED <<listMutex, pipe, loop, selectVars, pc, now>>

\* Mutant: after a failed accept the listening socket is not watched again
FireListenFailForget ==
    /\ Firing("listen")
    /\ LockFree
    /\ s_fdCommand' = NoFd
    /\ UNCHANGED <<tableVars, timerVars, listMutex, pipe, loop, selectVars, pc,
                   commandsFd, clientVars, now>>

\* accept fails (the client went away, or no descriptor is left): s_fdCommand
\* is -1 and the listening socket is watched again
FireListenFail ==
    /\ Firing("listen")
    /\ LockFree
    /\ s_fdCommand' = NoFd
    /\ AddWatch("listen", ListenFd, index)
    /\ UNCHANGED <<timerVars, listMutex, pipe, loop, selectVars, pc,
                   commandsFd, clientVars, now>>

\* processCommandsCallback, requests up to EAGAIN: they may start timers
FireCommandsData ==
    /\ Firing("commands")
    /\ cmdIn # "eof"
    /\ cmdIn' = "none"
    /\ NewTimer \/ UNCHANGED timerVars
    /\ UNCHANGED <<tableVars, listMutex, pipe, loop, selectVars, pc,
                   socketVars, connecting, now>>

\* processCommandsCallback, end of stream: close, s_fdCommand = -1 and
\* tgm_event_del.  On an event that is not watched tgm_event_del would return
\* with listMutex held: LoopAlive says that this never happens.
FireCommandsEof ==
    /\ Firing("commands")
    /\ cmdIn = "eof"
    /\ LockFree
    /\ cmdIn' = "none"
    /\ s_fdCommand' = NoFd
    /\ index["commands"] \in Slots
    /\ RemoveWatch("commands", index["commands"])
    /\ loop' = "relisten"
    /\ UNCHANGED <<timerVars, listMutex, pipe, selectVars, pc, commandsFd,
                   connecting, now>>

\* ... and then the listening socket is watched again
Relisten ==
    /\ loop = "relisten"
    /\ LockFree
    /\ AddWatch("listen", ListenFd, index)
    /\ loop' = "fire"
    /\ UNCHANGED <<timerVars, pending_list, listMutex, pipe, selectVars, pc,
                   socketVars, clientVars, now>>

LoopStep ==
    \/ OpenPipe \/ AddWakeup \/ CopyReadFds \/ CalcNextTimeout \/ EnterSelect
    \/ SelectReturns \/ SelectInterrupted
    \/ ProcessTimeouts \/ ProcessReadReadies
    \/ FireDone \/ (\E t \in Timers : FireTimer(t)) \/ FireWakeup
    \/ FireListenAccept \/ FireListenFail \/ FireCommandsData
    \/ FireCommandsEof \/ Relisten

-----------------------------------------------------------------------------
(* The other threads.                                                       *)

\* TGM_register, tgm_event_add up to FD_SET ...
RegisterInsert ==
    /\ pc[Registrar] = "register"
    /\ LockFree
    /\ \/ \E i \in Slots :
             /\ FirstFree(i)
             /\ watch_table' = [watch_table EXCEPT ![i] = "listen"]
             /\ index' = [index EXCEPT !["listen"] = i]
             /\ readFds' = readFds \cup {ListenFd}
       \/ /\ \A i \in Slots : Occupied(i)
          /\ UNCHANGED <<watch_table, index, readFds>>
    /\ listMutex' = Registrar
    /\ pc' = [pc EXCEPT ![Registrar] = "nfds"]
    /\ UNCHANGED <<nfds, timerVars, pending_list, pipe, loop, selectVars,
                   socketVars, clientVars, now>>

\* ... then nfds, which the loop reads without the lock
RegisterNfds ==
    /\ pc[Registrar] = "nfds"
    /\ nfds' = IF index["listen"] # -1 /\ ListenFd >= nfds
               THEN ListenFd + 1 ELSE nfds
    /\ listMutex' = Nobody
    /\ pc' = [pc EXCEPT ![Registrar] = "trigger"]
    /\ UNCHANGED <<watch_table, index, readFds, timerVars, pending_list, pipe,
                   loop, selectVars, socketVars, clientVars, now>>

\* Mutant: the loop is not woken for the new timer
AddTimerQuietly(th) ==
    /\ pc[th] = "idle"
    /\ NewTimer
    /\ UNCHANGED <<tableVars, pending_list, listMutex, pipe, loop, selectVars,
                   pc, socketVars, clientVars, now>>

\* TGM_requestTimedCallback and the wake timer: queue the timer, then Trigger
AddTimer(th) ==
    /\ pc[th] = "idle"
    /\ NewTimer
    /\ pc' = [pc EXCEPT ![th] = "trigger"]
    /\ UNCHANGED <<tableVars, pending_list, listMutex, pipe, loop, selectVars,
                   socketVars, clientVars, now>>

\* triggerEvLoop: before the pipe exists the byte goes nowhere
Trigger(th) ==
    /\ pc[th] = "trigger"
    /\ pipe' = IF pipe = "none" THEN "none" ELSE "byte"
    /\ pc' = [pc EXCEPT ![th] = "idle"]
    /\ UNCHANGED <<tableVars, timerVars, pending_list, listMutex, loop,
                   selectVars, socketVars, clientVars, now>>

ThreadStep ==
    \/ RegisterInsert \/ RegisterNfds
    \/ \E th \in Threads : AddTimer(th) \/ Trigger(th)

-----------------------------------------------------------------------------
(* The environment: clients of the command socket and the clock.            *)

ClientConnects ==
    /\ connecting' = TRUE
    /\ UNCHANGED <<tableVars, timerVars, pending_list, listMutex, pipe, loop,
                   selectVars, pc, socketVars, cmdIn, now>>

ClientGivesUp ==
    /\ connecting' = FALSE
    /\ UNCHANGED <<tableVars, timerVars, pending_list, listMutex, pipe, loop,
                   selectVars, pc, socketVars, cmdIn, now>>

ClientSends ==
    /\ s_fdCommand # NoFd /\ cmdIn = "none"
    /\ cmdIn' = "data"
    /\ UNCHANGED <<tableVars, timerVars, pending_list, listMutex, pipe, loop,
                   selectVars, pc, socketVars, connecting, now>>

ClientCloses ==
    /\ s_fdCommand # NoFd
    /\ cmdIn' = "eof"
    /\ UNCHANGED <<tableVars, timerVars, pending_list, listMutex, pipe, loop,
                   selectVars, pc, socketVars, connecting, now>>

Tick ==
    /\ now < MaxTime
    /\ now' = now + 1
    /\ UNCHANGED <<tableVars, timerVars, pending_list, listMutex, pipe, loop,
                   selectVars, pc, socketVars, clientVars>>

EnvStep == ClientConnects \/ ClientGivesUp \/ ClientSends \/ ClientCloses \/ Tick

Next == LoopStep \/ ThreadStep \/ EnvStep

Spec == Init /\ [][Next]_vars

\* The kernel schedules every thread, the clock runs, signals do not
\* interrupt every select and accept does not fail every time.
Fairness ==
    /\ WF_vars(LoopStep)
    /\ SF_vars(SelectReturns)
    /\ SF_vars(FireListenAccept)
    /\ WF_vars(RegisterInsert)
    /\ WF_vars(RegisterNfds)
    /\ \A th \in Threads : WF_vars(Trigger(th))
    /\ WF_vars(Tick)

FairSpec == Spec /\ Fairness

-----------------------------------------------------------------------------
(* Properties.                                                              *)

\* threads that have changed what the loop should watch and will write a byte
Owed == \E th \in Threads : pc[th] \in {"nfds", "trigger"}

Sleeping == loop \in {"calc", "enter", "select"}

\* the select call covers fd
Heard(fd) == fd \in rfds /\ (loop = "select" => fd < selectNfds)

\* the timeout the loop computed (once it has) is not after any timer
TimersHeard ==
    loop \in {"enter", "select"} =>
        \A t \in ToSet(timer_list) : until # Forever /\ until <= due[t]

\* No lost wakeup (tgm_event.cpp:358-373, tgm.cpp:639-660).  From the unlocked
\* copy of readFds to the return of select, the loop can always be woken
\* through the pipe; and if what it sleeps on misses a descriptor or a timer,
\* a byte is in the pipe or a thread is about to write one.
NoLostWakeup ==
    Sleeping =>
        /\ Heard(WakeupFd)
        /\ \/ pipe = "byte"
           \/ Owed
           \/ (\A e \in Watched : Heard(Fd(e))) /\ TimersHeard

Before(t, u) == t # u /\ due[t] <= due[u]

PendingTimers == {i \in DOMAIN pending_list : pending_list[i] \in Timers}

\* Timers are fired in the order of their due times, never twice and never
\* early, whatever other threads and the callbacks add while a batch of them
\* is being fired: the pending ones, which are all in the past, and after them
\* the waiting ones are in order and without repetition
\* (tgm_event.cpp:161-184, 303-329).
DueOrder ==
    /\ \A i \in PendingTimers : due[pending_list[i]] < now
    /\ \A i, j \in PendingTimers :
          i < j => Before(pending_list[i], pending_list[j])
    /\ \A i \in PendingTimers, j \in DOMAIN timer_list :
          Before(pending_list[i], timer_list[j])
    /\ \A i, j \in DOMAIN timer_list :
          i < j => Before(timer_list[i], timer_list[j])

\* Slots, indexes, the fd_set and nfds agree (tgm_event.cpp:139-159, 282-345),
\* but for the new descriptor between FD_SET and the update of nfds.
TableConsistent ==
    /\ \A i \in Slots : Occupied(i) => index[watch_table[i]] = i
    /\ \A e \in WatchEvents : index[e] # -1 => watch_table[index[e]] = e
    /\ readFds = {Fd(e) : e \in Watched}
    /\ \A e \in Watched :
          Fd(e) < nfds \/ (e = "listen" /\ pc[Registrar] = "nfds")

Armed(e) == e \in Watched \/ e \in ToSet(pending_list)

\* "non-persistent so we can accept only one connection at a time"
\* (tgm.cpp:360), and the asserts of listenCallback and
\* processCommandsCallback: once registered, exactly one of the listening
\* socket and the command socket is armed, the latter with the descriptor
\* s_fdCommand, so the daemon serves one client and is never unreachable.
OneConnection ==
    pc[Registrar] # "register" /\ loop \notin {"relisten"} =>
        /\ Armed("listen") <=> s_fdCommand = NoFd
        /\ Armed("commands") <=> s_fdCommand # NoFd
        /\ Armed("commands") => commandsFd = s_fdCommand

\* The loop is never given a closed descriptor, on which select would fail and
\* tgm_event_loop return for good (tgm_event.cpp:377-383), and tgm_event_del is
\* never called on an event that is not watched, where it would leave listMutex
\* locked and stop every thread that adds a timer (tgm_event.cpp:337-339).
LoopAlive ==
    /\ loop = "select" => \A fd \in Selected : Open(fd)
    /\ "commands" \in ToSet(pending_list) =>
          index["commands"] \in Slots /\ s_fdCommand # NoFd

\* A timer waits from tgm_timer_add until firePending takes it off the pending
\* list, whichever list it is in.
Service == INSTANCE TimerService WITH waiting <- {t \in Timers : InUse(t)}

\* Whoever asks for a timed callback is served by TimerService: no timer is lost
\* or doubled on its way through the two lists, called before its time or before
\* an earlier one, whatever is added in between (tgm_event.cpp:161-184, 303-329).
TimersServed == Service!Spec

\* Every timed callback eventually runs (tgm.h:285-291).
TimerFires == \A t \in Timers : InUse(t) ~> ~InUse(t)

\* A client that keeps trying is accepted once there is no other client.
ClientAccepted ==
    (pc[Registrar] = "idle" /\ connecting /\ s_fdCommand = NoFd)
        ~> (s_fdCommand # NoFd \/ ~connecting)

\* What a client sent, and its closing, is eventually read.
CommandsRead == cmdIn # "none" ~> cmdIn = "none"

=============================================================================
