--------------------------- MODULE WakeLockProofs ---------------------------
(***************************************************************************)
(* Theorems about the wake lock of WakeLock, for every set of threads and  *)
(* of addresses and any number of notifications.                           *)
(***************************************************************************)
EXTENDS WakeLock, FiniteSetTheorems, TLAPS

-----------------------------------------------------------------------------
(* The inductive invariants.                                                *)

\* a record is in the list once
TimersDistinct ==
    \A i, j \in DOMAIN timers : timers[i] = timers[j] => i = j

\* the record being fired is out of the list and not yet free
FiringApart ==
    /\ firing.step = "none" => firing = NotFiring
    /\ firing.step # "none" =>
          /\ firing.p_info \in Addresses
          /\ mem[firing.p_info].allocated
          /\ firing.p_info \notin ToTimers

MemInv == TypeOK /\ TimersDistinct /\ FiringApart

LiveTimers == {p \in ToTimers : Live(p)}
Idle(th) == pc[th] = "idle"

\* before the first overlap, one thread at a time does anything
Alone ==
    ~overlap =>
        /\ \A th, u \in Threads : ~Idle(th) /\ ~Idle(u) => th = u
        /\ firing # NotFiring => \A th \in Threads : Idle(th)

\* where the one live timer is, as the thread that replaces it goes on
HeldInv ==
    ~overlap =>
        /\ LiveTimers # {} => wakeLock
        /\ \/ LiveTimers \subseteq {s_last_wake_timeout_info}
           \/ \E th \in Threads : pc[th] = "store"
        /\ \A th \in Threads :
              /\ ~Idle(th) => wakeLock
              /\ pc[th] = "mark" => ptr[th] = s_last_wake_timeout_info
              /\ pc[th] = "new" => LiveTimers = {}
              /\ pc[th] = "store" => LiveTimers \subseteq {ptr[th]}
        /\ (/\ firing.step = "callback" /\ ~firing.cancelled
            /\ mem[firing.p_info].callback = "wakeTimeoutCallback")
              => LiveTimers = {}

-----------------------------------------------------------------------------
(* The timer list.                                                          *)

LEMMA AppendElements ==
    ASSUME NEW S, NEW s \in Seq(S), NEW e \in S
    PROVE  /\ Append(s, e) \in Seq(S)
           /\ DOMAIN Append(s, e) = 1 .. Len(s) + 1
           /\ \A i \in DOMAIN s : Append(s, e)[i] = s[i]
           /\ Append(s, e)[Len(s) + 1] = e
  OBVIOUS

LEMMA TailElements ==
    ASSUME NEW S, NEW s \in Seq(S), s # << >>
    PROVE  /\ Tail(s) \in Seq(S)
           /\ DOMAIN Tail(s) = 1 .. Len(s) - 1
           /\ \A i \in DOMAIN Tail(s) : Tail(s)[i] = s[i + 1]
           /\ Head(s) = s[1] /\ 1 \in DOMAIN s
  OBVIOUS

\* internalRequestTimedCallback takes a record that no timer has and changes no
\* other.
LEMMA CreateAdds ==
    ASSUME MemInv, NEW p \in Addresses, NEW callback \in Callbacks,
           Create(p, callback)
    PROVE  /\ timers' \in Seq(Addresses)
           /\ p \notin ToTimers /\ ToTimers' = ToTimers \cup {p}
           /\ TimersDistinct'
           /\ mem' \in [Addresses -> [allocated : BOOLEAN, callback : Callbacks,
                                      userParam : {0, 1}]]
           /\ mem'[p] = [allocated |-> TRUE, callback |-> callback, userParam |-> 0]
           /\ \A q \in Addresses \ {p} : mem'[q] = mem[q]
  <1>1. timers \in Seq(Addresses) /\ timers' = Append(timers, p)
    BY DEF MemInv, TypeOK, Create
  <1>2. /\ timers' \in Seq(Addresses)
        /\ DOMAIN timers' = 1 .. Len(timers) + 1
        /\ \A i \in DOMAIN timers : timers'[i] = timers[i]
        /\ timers'[Len(timers) + 1] = p
    BY <1>1, AppendElements
  <1>3. DOMAIN timers = 1 .. Len(timers) /\ Len(timers) \in Nat
    BY <1>1
  <1>4. p \notin ToTimers
    BY DEF MemInv, TypeOK, Create
  <1>5. ToTimers' = ToTimers \cup {p}
    BY <1>2, <1>3 DEF ToTimers
  <1>6. TimersDistinct'
    BY <1>2, <1>3, <1>4 DEF TimersDistinct, ToTimers, MemInv
  <1>7. /\ mem' \in [Addresses -> [allocated : BOOLEAN, callback : Callbacks,
                                    userParam : {0, 1}]]
        /\ mem'[p] = [allocated |-> TRUE, callback |-> callback, userParam |-> 0]
        /\ \A q \in Addresses \ {p} : mem'[q] = mem[q]
    BY DEF MemInv, TypeOK, Create
  <1> QED  BY <1>2, <1>4, <1>5, <1>6, <1>7

\* processTimeouts takes the first timer out of the list.
LEMMA FireRemoves ==
    ASSUME MemInv, timers # << >>, timers' = Tail(timers)
    PROVE  /\ timers' \in Seq(Addresses)
           /\ Head(timers) \in Addresses
           /\ Head(timers) \notin ToTimers'
           /\ ToTimers = ToTimers' \cup {Head(timers)}
           /\ TimersDistinct'
  <1>1. timers \in Seq(Addresses)
    BY DEF MemInv, TypeOK
  <1>2. /\ timers' \in Seq(Addresses)
        /\ DOMAIN timers' = 1 .. Len(timers) - 1
        /\ \A i \in DOMAIN timers' : timers'[i] = timers[i + 1]
        /\ Head(timers) = timers[1] /\ 1 \in DOMAIN timers
    BY <1>1, TailElements
  <1>3. DOMAIN timers = 1 .. Len(timers) /\ Len(timers) \in Nat
    BY <1>1
  <1>4. Head(timers) \in Addresses
    BY <1>1, <1>2
  <1>5. \A i, j \in DOMAIN timers : timers[i] = timers[j] => i = j
    BY DEF MemInv, TimersDistinct
  <1>6. Head(timers) \notin ToTimers'
    BY <1>2, <1>3, <1>5 DEF ToTimers
  <1>7. ToTimers = ToTimers' \cup {Head(timers)}
    <2>1. \A i \in DOMAIN timers : i = 1 \/ (i - 1 \in DOMAIN timers' /\ timers[i] = timers'[i - 1])
      BY <1>2, <1>3
    <2>2. \A i \in DOMAIN timers' : i + 1 \in DOMAIN timers
      BY <1>2, <1>3
    <2> QED  BY <1>2, <2>1, <2>2 DEF ToTimers
  <1>8. TimersDistinct'
    BY <1>2, <1>3, <1>5 DEF TimersDistinct
  <1> QED  BY <1>2, <1>4, <1>6, <1>7, <1>8

\* userParam is read of the record at the head of the list, that record is in
\* the list no more, and no other changes.
LEMMA FireTakes ==
    ASSUME MemInv, Fire
    PROVE  /\ firing = NotFiring /\ pc[Dispatch] = "idle"
           /\ firing'.step = "callback" /\ firing'.p_info = Head(timers)
           /\ firing'.cancelled <=> mem[Head(timers)].userParam = 1
           /\ mem[Head(timers)].allocated
           /\ timers' \in Seq(Addresses)
           /\ Head(timers) \in Addresses
           /\ Head(timers) \notin ToTimers'
           /\ ToTimers = ToTimers' \cup {Head(timers)}
           /\ TimersDistinct'
  <1>1. timers # << >> /\ timers' = Tail(timers)
    BY DEF Fire, FireFirst
  <1>2. /\ timers' \in Seq(Addresses)
        /\ Head(timers) \in Addresses
        /\ Head(timers) \notin ToTimers'
        /\ ToTimers = ToTimers' \cup {Head(timers)}
        /\ TimersDistinct'
    BY <1>1, FireRemoves
  <1>3. mem[Head(timers)].allocated
    BY <1>2 DEF MemInv, TypeOK
  <1>4. firing' = [step |-> "callback", p_info |-> Head(timers),
                   cancelled |-> mem[Head(timers)].userParam = 1]
    BY DEF Fire, FireFirst
  <1>5. firing'.cancelled <=> mem[Head(timers)].userParam = 1
    BY <1>4, Zenon
  <1> QED  BY <1>2, <1>3, <1>4, <1>5 DEF Fire, FireFirst

-----------------------------------------------------------------------------
(* The records.                                                             *)

LEMMA InitMem == Init => MemInv
  <1> SUFFICES ASSUME Init PROVE MemInv
    OBVIOUS
  <1>1. ToTimers = {}
    BY DEF Init, ToTimers
  <1>2. TypeOK
    <2>1. mem \in [Addresses -> [allocated : BOOLEAN, callback : Callbacks,
                                 userParam : {0, 1}]]
      BY DEF Init, Callbacks
    <2>2. /\ pc \in [Threads -> {"idle", "send", "cancel", "mark", "new", "store"}]
          /\ ptr \in [Threads -> Addresses \cup {NULL}]
          /\ timers \in Seq(Addresses)
      BY DEF Init
    <2>3. firing \in [step : {"none", "callback", "clear"},
                      p_info : Addresses \cup {NULL}, cancelled : BOOLEAN]
      BY DEF Init, NotFiring
    <2>4. notices \in 0 .. MaxNotices /\ others \in 0 .. MaxOthers
      BY BoundsAssumption DEF Init
    <2> QED  BY <1>1, <2>1, <2>2, <2>3, <2>4 DEF Init, TypeOK
  <1>3. TimersDistinct
    BY DEF Init, TimersDistinct
  <1>4. FiringApart
    BY DEF Init, FiringApart, NotFiring
  <1> QED  BY <1>2, <1>3, <1>4 DEF MemInv

\* What leaves the list, the records and the one being fired alone, leaves
\* MemInv's other conjuncts alone.
LEMMA SameRecords ==
    ASSUME MemInv, UNCHANGED <<timers, firing>>,
           \A p \in Addresses : mem'[p].allocated = mem[p].allocated
    PROVE  /\ timers' \in Seq(Addresses)
           /\ \A p \in ToTimers' : mem'[p].allocated
           /\ TimersDistinct' /\ FiringApart'
  <1>1. timers \in Seq(Addresses) /\ ToTimers' = ToTimers
    BY DEF MemInv, TypeOK, ToTimers
  <1>2. ToTimers \subseteq Addresses
    BY <1>1 DEF ToTimers
  <1>3. \A p \in ToTimers' : mem'[p].allocated
    BY <1>1, <1>2 DEF MemInv, TypeOK
  <1>4. TimersDistinct'
    BY DEF MemInv, TimersDistinct
  <1>5. FiringApart'
    BY <1>1 DEF MemInv, FiringApart
  <1> QED  BY <1>1, <1>3, <1>4, <1>5

LEMMA GrabMem == ASSUME MemInv, NEW th \in Threads, Grab(th) PROVE MemInv'
  <1>1. UNCHANGED <<timers, firing, mem>>
    BY DEF Grab
  <1>2. /\ timers' \in Seq(Addresses)
        /\ \A p \in ToTimers' : mem'[p].allocated
        /\ TimersDistinct' /\ FiringApart'
    BY <1>1, SameRecords
  <1>3. wakeLock' \in BOOLEAN /\ overlap' \in BOOLEAN
    BY DEF Grab, MemInv, TypeOK
  <1>4. notices' \in 0 .. MaxNotices
    BY BoundsAssumption DEF Grab, MemInv, TypeOK
  <1>5. TypeOK'
    BY <1>2, <1>3, <1>4 DEF Grab, Goto, MemInv, TypeOK
  <1> QED  BY <1>2, <1>5 DEF MemInv

LEMMA SentMem == ASSUME MemInv, NEW th \in Threads, Sent(th) PROVE MemInv'
  <1>1. UNCHANGED <<timers, firing, mem>>
    BY DEF Sent
  <1>2. /\ timers' \in Seq(Addresses)
        /\ \A p \in ToTimers' : mem'[p].allocated
        /\ TimersDistinct' /\ FiringApart'
    BY <1>1, SameRecords
  <1>3. TypeOK'
    BY <1>2 DEF Sent, Goto, MemInv, TypeOK
  <1> QED  BY <1>2, <1>3 DEF MemInv

LEMMA LoadLastMem == ASSUME MemInv, NEW th \in Threads, LoadLast(th) PROVE MemInv'
  <1>1. UNCHANGED <<timers, firing, mem>>
    BY DEF LoadLast
  <1>2. /\ timers' \in Seq(Addresses)
        /\ \A p \in ToTimers' : mem'[p].allocated
        /\ TimersDistinct' /\ FiringApart'
    BY <1>1, SameRecords
  <1>3. TypeOK'
    BY <1>2 DEF LoadLast, Goto, MemInv, TypeOK
  <1> QED  BY <1>2, <1>3 DEF MemInv

LEMMA MarkMem == ASSUME MemInv, NEW th \in Threads, Mark(th) PROVE MemInv'
  <1>1. UNCHANGED <<timers, firing>> /\ mem' = [mem EXCEPT ![ptr[th]].userParam = 1]
    BY DEF Mark
  <1>2. /\ mem' \in [Addresses -> [allocated : BOOLEAN, callback : Callbacks,
                                    userParam : {0, 1}]]
        /\ \A p \in Addresses : mem'[p].allocated = mem[p].allocated
    <2>1. mem \in [Addresses -> [allocated : BOOLEAN, callback : Callbacks,
                                 userParam : {0, 1}]]
      BY DEF MemInv, TypeOK
    <2>2. CASE ptr[th] \in Addresses
      <3> DEFINE r == [mem[ptr[th]] EXCEPT !.userParam = 1]
      <3>1. /\ r \in [allocated : BOOLEAN, callback : Callbacks, userParam : {0, 1}]
            /\ r.allocated = mem[ptr[th]].allocated
        BY <2>1, <2>2
      <3>2. mem' = [mem EXCEPT ![ptr[th]] = r]
        BY <1>1
      <3> HIDE DEF r
      <3> QED  BY <2>1, <2>2, <3>1, <3>2
    <2>3. CASE ptr[th] \notin Addresses
      BY <1>1, <2>1, <2>3
    <2> QED  BY <2>2, <2>3
  <1>3. /\ timers' \in Seq(Addresses)
        /\ \A p \in ToTimers' : mem'[p].allocated
        /\ TimersDistinct' /\ FiringApart'
    BY <1>1, <1>2, SameRecords
  <1>4. TypeOK'
    BY <1>2, <1>3 DEF Mark, Goto, MemInv, TypeOK
  <1> QED  BY <1>3, <1>4 DEF MemInv

\* A record that is taken is neither in the list nor the one being fired.
LEMMA CreateMem ==
    ASSUME MemInv, NEW p \in Addresses, NEW callback \in Callbacks,
           Create(p, callback), UNCHANGED firing
    PROVE  /\ \A q \in ToTimers' : mem'[q].allocated
           /\ FiringApart'
  <1>1. /\ p \notin ToTimers /\ ToTimers' = ToTimers \cup {p}
        /\ mem'[p].allocated
        /\ \A q \in Addresses \ {p} : mem'[q] = mem[q]
    <2>1. /\ p \notin ToTimers /\ ToTimers' = ToTimers \cup {p}
          /\ mem'[p] = [allocated |-> TRUE, callback |-> callback, userParam |-> 0]
          /\ \A q \in Addresses \ {p} : mem'[q] = mem[q]
      BY CreateAdds
    <2> QED  BY <2>1
  <1>2. ToTimers \subseteq Addresses
    BY DEF MemInv, TypeOK, ToTimers
  <1>3. \A q \in ToTimers' : mem'[q].allocated
    BY <1>1, <1>2 DEF MemInv, TypeOK
  <1>4. ~mem[p].allocated
    BY DEF Create
  <1>5. FiringApart'
    BY <1>1, <1>4 DEF MemInv, FiringApart
  <1> QED  BY <1>3, <1>5

LEMMA StartTimerMem == ASSUME MemInv, NEW th \in Threads, StartTimer(th) PROVE MemInv'
  <1>1. PICK p \in Addresses : /\ Create(p, "wakeTimeoutCallback")
                               /\ ptr' = [ptr EXCEPT ![th] = p]
    BY DEF StartTimer
  <1>2. "wakeTimeoutCallback" \in Callbacks /\ UNCHANGED firing
    BY DEF Callbacks, StartTimer
  <1>3. /\ timers' \in Seq(Addresses) /\ TimersDistinct'
        /\ mem' \in [Addresses -> [allocated : BOOLEAN, callback : Callbacks,
                                   userParam : {0, 1}]]
    BY <1>1, <1>2, CreateAdds
  <1>4. (\A q \in ToTimers' : mem'[q].allocated) /\ FiringApart'
    BY <1>1, <1>2, CreateMem
  <1>5. TypeOK'
    BY <1>1, <1>3, <1>4 DEF StartTimer, Goto, MemInv, TypeOK
  <1> QED  BY <1>3, <1>4, <1>5 DEF MemInv

LEMMA RequestOtherMem == ASSUME MemInv, NEW th \in Threads, RequestOther(th) PROVE MemInv'
  <1>1. PICK p \in Addresses : Create(p, "other")
    BY DEF RequestOther
  <1>2. "other" \in Callbacks /\ UNCHANGED firing
    BY DEF Callbacks, RequestOther
  <1>3. /\ timers' \in Seq(Addresses) /\ TimersDistinct'
        /\ mem' \in [Addresses -> [allocated : BOOLEAN, callback : Callbacks,
                                   userParam : {0, 1}]]
    BY <1>1, <1>2, CreateAdds
  <1>4. (\A q \in ToTimers' : mem'[q].allocated) /\ FiringApart'
    BY <1>1, <1>2, CreateMem
  <1>5. others' \in 0 .. MaxOthers
    BY BoundsAssumption DEF RequestOther, MemInv, TypeOK
  <1>6. TypeOK'
    BY <1>3, <1>4, <1>5 DEF RequestOther, MemInv, TypeOK
  <1> QED  BY <1>3, <1>4, <1>6 DEF MemInv

LEMMA StoreLastMem == ASSUME MemInv, NEW th \in Threads, StoreLast(th) PROVE MemInv'
  <1>1. UNCHANGED <<timers, firing, mem>>
    BY DEF StoreLast
  <1>2. /\ timers' \in Seq(Addresses)
        /\ \A p \in ToTimers' : mem'[p].allocated
        /\ TimersDistinct' /\ FiringApart'
    BY <1>1, SameRecords
  <1>3. TypeOK'
    BY <1>2 DEF StoreLast, Goto, MemInv, TypeOK
  <1> QED  BY <1>2, <1>3 DEF MemInv

LEMMA FireMem == ASSUME MemInv, Fire PROVE MemInv'
  <1>1. /\ firing'.step = "callback" /\ firing'.p_info = Head(timers)
        /\ mem[Head(timers)].allocated
        /\ timers' \in Seq(Addresses)
        /\ Head(timers) \in Addresses
        /\ Head(timers) \notin ToTimers'
        /\ ToTimers = ToTimers' \cup {Head(timers)}
        /\ TimersDistinct'
    BY FireTakes
  <1>2. FiringApart'
    BY <1>1 DEF Fire, FireFirst, FiringApart
  <1>3. /\ \A p \in ToTimers' : mem'[p].allocated
        /\ firing' \in [step : {"none", "callback", "clear"},
                        p_info : Addresses \cup {NULL}, cancelled : BOOLEAN]
    BY <1>1 DEF Fire, FireFirst, MemInv, TypeOK
  <1>4. overlap' \in BOOLEAN
    BY DEF Fire, FireFirst, MemInv, TypeOK
  <1>5. TypeOK'
    BY <1>1, <1>3, <1>4 DEF Fire, FireFirst, MemInv, TypeOK
  <1> QED  BY <1>1, <1>2, <1>5 DEF MemInv

LEMMA WakeTimeoutCallbackMem == ASSUME MemInv, WakeTimeoutCallback PROVE MemInv'
  <1>1. /\ UNCHANGED <<timers, mem>> /\ firing.step = "callback"
        /\ firing' = [firing EXCEPT !.step = "clear"]
        /\ ToTimers' = ToTimers
    BY DEF WakeTimeoutCallback, ToTimers
  <1>2. FiringApart'
    BY <1>1 DEF MemInv, TypeOK, FiringApart
  <1>3. firing' \in [step : {"none", "callback", "clear"},
                     p_info : Addresses \cup {NULL}, cancelled : BOOLEAN]
    BY <1>1 DEF MemInv, TypeOK
  <1>4. wakeLock' \in BOOLEAN
    BY DEF WakeTimeoutCallback, MemInv, TypeOK
  <1>5. TypeOK'
    BY <1>1, <1>3, <1>4 DEF WakeTimeoutCallback, MemInv, TypeOK
  <1>6. TimersDistinct'
    BY <1>1 DEF MemInv, TimersDistinct
  <1> QED  BY <1>2, <1>5, <1>6 DEF MemInv

\* The record that is freed is not in the list.
LEMMA FreeInfoMem == ASSUME MemInv, FreeInfo PROVE MemInv'
  <1>1. /\ firing.step = "clear" /\ firing' = NotFiring
        /\ mem' = [mem EXCEPT ![firing.p_info].allocated = FALSE]
        /\ timers' = timers /\ ToTimers' = ToTimers
    BY DEF FreeInfo, ToTimers
  <1>2. firing.p_info \in Addresses /\ firing.p_info \notin ToTimers
    BY <1>1 DEF MemInv, FiringApart
  <1>3. ToTimers \subseteq Addresses
    BY DEF MemInv, TypeOK, ToTimers
  <1>4. /\ mem' \in [Addresses -> [allocated : BOOLEAN, callback : Callbacks,
                                    userParam : {0, 1}]]
        /\ \A p \in ToTimers' : mem'[p].allocated
    BY <1>1, <1>2, <1>3 DEF MemInv, TypeOK
  <1>5. firing' \in [step : {"none", "callback", "clear"},
                     p_info : Addresses \cup {NULL}, cancelled : BOOLEAN]
    BY <1>1 DEF NotFiring
  <1>6. TypeOK'
    BY <1>1, <1>4, <1>5 DEF FreeInfo, MemInv, TypeOK
  <1>7. FiringApart' /\ TimersDistinct'
    BY <1>1 DEF MemInv, FiringApart, TimersDistinct, NotFiring
  <1> QED  BY <1>6, <1>7 DEF MemInv

LEMMA NextMem == MemInv /\ [Next]_vars => MemInv'
  <1> SUFFICES ASSUME MemInv, [Next]_vars PROVE MemInv'
    OBVIOUS
  <1>1. ASSUME NEW th \in Threads, NotifyStep(th) PROVE MemInv'
    BY <1>1, SentMem, LoadLastMem, MarkMem, StartTimerMem, StoreLastMem DEF NotifyStep
  <1>2. CASE FireStep
    BY <1>2, FireMem, WakeTimeoutCallbackMem, FreeInfoMem DEF FireStep
  <1>3. CASE UNCHANGED vars
    <2>1. UNCHANGED <<timers, firing, mem>>
      BY <1>3 DEF vars
    <2>2. /\ timers' \in Seq(Addresses)
          /\ \A p \in ToTimers' : mem'[p].allocated
          /\ TimersDistinct' /\ FiringApart'
      BY <2>1, SameRecords
    <2> QED  BY <1>3, <2>2 DEF vars, MemInv, TypeOK
  <1> QED  BY <1>1, <1>2, <1>3, GrabMem, RequestOtherMem DEF Next

\* Type correctness, with it that whatever the timer list points to is
\* allocated: a timer's record is freed once, when it has fired
\* (tgm.cpp:1446-1476).
THEOREM TypeCorrect == Spec => []TypeOK
  <1>1. Spec => []MemInv
    BY InitMem, NextMem, PTL DEF Spec
  <1>2. MemInv => TypeOK
    BY DEF MemInv
  <1> QED  BY <1>1, <1>2, PTL

-----------------------------------------------------------------------------
(* A thread between Grab and StartTimer, or a timer, will release the lock. *)

LEMMA ThreadWillStart ==
    ASSUME NEW th \in Threads, pc'[th] \in {"send", "cancel", "mark", "new"}
    PROVE  NotLeaked'
  BY DEF NotLeaked

LEMMA ThreadStepNotLeaked ==
    ASSUME MemInv, NEW th \in Threads,
           Grab(th) \/ Sent(th) \/ LoadLast(th) \/ Mark(th)
    PROVE  NotLeaked'
  <1>1. pc \in [Threads -> {"idle", "send", "cancel", "mark", "new", "store"}]
    BY DEF MemInv, TypeOK
  <1>2. pc'[th] \in {"send", "cancel", "mark", "new"}
    BY <1>1 DEF Grab, Sent, LoadLast, Mark, Goto
  <1> QED  BY <1>2, ThreadWillStart

LEMMA StartTimerNotLeaked ==
    ASSUME MemInv, NEW th \in Threads, StartTimer(th) PROVE NotLeaked'
  <1>1. PICK p \in Addresses : Create(p, "wakeTimeoutCallback")
    BY DEF StartTimer
  <1>2. "wakeTimeoutCallback" \in Callbacks
    BY DEF Callbacks
  <1>3. /\ ToTimers' = ToTimers \cup {p}
        /\ mem'[p] = [allocated |-> TRUE, callback |-> "wakeTimeoutCallback",
                      userParam |-> 0]
    BY <1>1, <1>2, CreateAdds
  <1>4. p \in ToTimers' /\ Live(p)'
    BY <1>3 DEF Live
  <1> QED  BY <1>4 DEF NotLeaked

LEMMA StoreLastNotLeaked ==
    ASSUME MemInv, NotLeaked, NEW th \in Threads, StoreLast(th) PROVE NotLeaked'
  <1>1. /\ pc[th] = "store" /\ pc' = [pc EXCEPT ![th] = "idle"]
        /\ UNCHANGED <<wakeLock, mem, timers, firing>>
    BY DEF StoreLast, Goto
  <1>2. \A u \in Threads : pc[u] \in {"send", "cancel", "mark", "new"} => pc'[u] = pc[u]
    BY <1>1 DEF MemInv, TypeOK
  <1> QED  BY <1>1, <1>2 DEF NotLeaked, ToTimers, Live

LEMMA RequestOtherNotLeaked ==
    ASSUME MemInv, NotLeaked, NEW th \in Threads, RequestOther(th) PROVE NotLeaked'
  <1>1. PICK p \in Addresses : Create(p, "other")
    BY DEF RequestOther
  <1>2. "other" \in Callbacks /\ UNCHANGED <<firing, wakeLock, pc>>
    BY DEF Callbacks, RequestOther
  <1>3. /\ p \notin ToTimers /\ ToTimers' = ToTimers \cup {p}
        /\ \A q \in Addresses \ {p} : mem'[q] = mem[q]
    BY <1>1, <1>2, CreateAdds
  <1>4. ToTimers \subseteq Addresses
    BY DEF MemInv, TypeOK, ToTimers
  <1>5. \A q \in ToTimers : Live(q) => q \in ToTimers' /\ Live(q)'
    BY <1>3, <1>4 DEF Live
  <1>6. firing.step = "callback" => mem'[firing.p_info] = mem[firing.p_info]
    BY <1>1, <1>3 DEF Create, MemInv, FiringApart
  <1> QED  BY <1>2, <1>5, <1>6 DEF NotLeaked

\* The timer that is taken out of the list goes on as the one being fired.
LEMMA FireNotLeaked ==
    ASSUME MemInv, NotLeaked, Fire PROVE NotLeaked'
  <1>1. /\ firing = NotFiring
        /\ firing'.step = "callback" /\ firing'.p_info = Head(timers)
        /\ firing'.cancelled <=> mem[Head(timers)].userParam = 1
        /\ ToTimers = ToTimers' \cup {Head(timers)}
    BY FireTakes
  <1>2. UNCHANGED <<wakeLock, mem, pc>>
    BY DEF Fire, FireFirst
  <1>3. ASSUME NEW p \in ToTimers, Live(p)
        PROVE  \/ \E q \in ToTimers' : Live(q)'
               \/ firing'.step = "callback" /\ ~firing'.cancelled
                      /\ mem'[firing'.p_info].callback = "wakeTimeoutCallback"
    <2>1. CASE p = Head(timers)
      BY <1>1, <1>2, <1>3, <2>1 DEF Live
    <2>2. CASE p # Head(timers)
      BY <1>1, <1>2, <1>3, <2>2 DEF Live
    <2> QED  BY <2>1, <2>2
  <1>4. firing.step # "callback"
    BY <1>1 DEF NotFiring
  <1> QED  BY <1>2, <1>3, <1>4 DEF NotLeaked

LEMMA WakeTimeoutCallbackNotLeaked ==
    ASSUME NotLeaked, WakeTimeoutCallback PROVE NotLeaked'
  BY DEF NotLeaked, WakeTimeoutCallback, ToTimers, Live

LEMMA FreeInfoNotLeaked ==
    ASSUME MemInv, NotLeaked, FreeInfo PROVE NotLeaked'
  <1>1. /\ firing.step = "clear"
        /\ mem' = [mem EXCEPT ![firing.p_info].allocated = FALSE]
        /\ UNCHANGED <<wakeLock, timers, pc>>
    BY DEF FreeInfo
  <1>2. /\ ToTimers' = ToTimers /\ ToTimers \subseteq Addresses
        /\ firing.p_info \notin ToTimers
    BY <1>1 DEF MemInv, TypeOK, ToTimers, FiringApart
  <1>3. \A p \in ToTimers : mem'[p] = mem[p]
    BY <1>1, <1>2 DEF MemInv, TypeOK
  <1> QED  BY <1>1, <1>2, <1>3 DEF NotLeaked, Live

\* The wake lock is never left held (tgm.cpp:504-506, 556-571, 1446-1476),
\* whichever threads race for it: some timer or some thread will release it.
THEOREM WakeLockNotLeaked == Spec => []NotLeaked
  <1>1. Init => NotLeaked
    BY DEF Init, NotLeaked
  <1>2. ASSUME MemInv, NotLeaked, [Next]_vars PROVE NotLeaked'
    <2>1. ASSUME NEW th \in Threads, NotifyStep(th) PROVE NotLeaked'
      BY <1>2, <2>1, ThreadStepNotLeaked, StartTimerNotLeaked, StoreLastNotLeaked
         DEF NotifyStep
    <2>2. ASSUME NEW th \in Threads, Grab(th) \/ RequestOther(th) PROVE NotLeaked'
      BY <1>2, <2>2, ThreadStepNotLeaked, RequestOtherNotLeaked
    <2>3. CASE FireStep
      BY <1>2, <2>3, FireNotLeaked, WakeTimeoutCallbackNotLeaked, FreeInfoNotLeaked
         DEF FireStep
    <2>4. CASE UNCHANGED vars
      BY <1>2, <2>4 DEF vars, NotLeaked, ToTimers, Live
    <2> QED  BY <1>2, <2>1, <2>2, <2>3, <2>4 DEF Next
  <1> QED  BY <1>1, <1>2, InitMem, NextMem, PTL DEF Spec

-----------------------------------------------------------------------------
(* Before the first overlap.                                                *)

\* Whatever starts nothing leaves one thread at a time.
LEMMA AloneStep ==
    ASSUME Alone, overlap' = overlap,
           \A u \in Threads : ~Idle(u)' => ~Idle(u),
           firing' # NotFiring => firing # NotFiring
    PROVE  Alone'
  BY DEF Alone

LEMMA NextAlone == ASSUME MemInv, Alone, [Next]_vars PROVE Alone'
  <1>1. pc \in [Threads -> {"idle", "send", "cancel", "mark", "new", "store"}]
    BY DEF MemInv, TypeOK
  <1>2. ASSUME NEW th \in Threads, NotifyStep(th) PROVE Alone'
    <2>1. overlap' = overlap /\ firing' = firing
      BY <1>2 DEF NotifyStep, Sent, LoadLast, Mark, StartTimer, StoreLast
    <2>2. \A u \in Threads : ~Idle(u)' => ~Idle(u)
      BY <1>1, <1>2 DEF NotifyStep, Sent, LoadLast, Mark, StartTimer, StoreLast, Goto, Idle
    <2> QED  BY <2>1, <2>2, AloneStep DEF NotFiring
  <1>3. ASSUME NEW th \in Threads, Grab(th) PROVE Alone'
    <2>1. ~overlap' => firing' = NotFiring /\ \A u \in Threads : Idle(u)' \/ u = th
      BY <1>1, <1>3 DEF Grab, Goto, Idle
    <2> QED  BY <2>1 DEF Alone
  <1>4. ASSUME NEW th \in Threads, RequestOther(th) PROVE Alone'
    BY <1>4, AloneStep DEF RequestOther, Idle, NotFiring
  <1>5. CASE Fire
    <2>1. ~overlap' => \A u \in Threads : Idle(u)'
      BY <1>5 DEF Fire, FireFirst, Idle
    <2> QED  BY <2>1 DEF Alone
  <1>6. CASE WakeTimeoutCallback
    <2>1. overlap' = overlap /\ pc' = pc /\ firing # NotFiring
      BY <1>6 DEF WakeTimeoutCallback, NotFiring
    <2> QED  BY <2>1, AloneStep DEF Idle, NotFiring
  <1>7. CASE FreeInfo
    BY <1>7, AloneStep DEF FreeInfo, Idle, NotFiring
  <1>8. CASE UNCHANGED vars
    BY <1>8, AloneStep DEF vars, Idle, NotFiring
  <1> QED  BY <1>2, <1>3, <1>4, <1>5, <1>6, <1>7, <1>8 DEF Next, FireStep

-----------------------------------------------------------------------------
(* The live timer.                                                          *)

LEMMA SameLiveTimers ==
    ASSUME UNCHANGED <<timers, mem>> PROVE LiveTimers' = LiveTimers
  BY DEF LiveTimers, ToTimers, Live

\* While a thread notifies, no other thread does, nothing is fired and the one
\* live timer is the last that was stored, or the thread is storing it.
LEMMA OneThread ==
    ASSUME MemInv, Alone, HeldInv, ~overlap, NEW th \in Threads, ~Idle(th)
    PROVE  /\ firing = NotFiring /\ wakeLock
           /\ \A u \in Threads : u # th => Idle(u)
           /\ pc[th] # "store" => LiveTimers \subseteq {s_last_wake_timeout_info}
           /\ pc[th] = "mark" => ptr[th] = s_last_wake_timeout_info
           /\ pc[th] = "new" => LiveTimers = {}
           /\ pc[th] = "store" => LiveTimers \subseteq {ptr[th]}
  <1>1. firing = NotFiring /\ \A u \in Threads : u # th => Idle(u)
    BY DEF Alone
  <1>2. (\E u \in Threads : pc[u] = "store") => pc[th] = "store"
    BY <1>1 DEF Idle
  <1> QED  BY <1>1, <1>2 DEF HeldInv

\* The thread that notifies alone keeps HeldInv if it keeps the conjuncts about
\* itself.
LEMMA OneThreadStep ==
    ASSUME MemInv, Alone, HeldInv, ~overlap, NEW th \in Threads, ~Idle(th),
           UNCHANGED <<firing, wakeLock>>,
           \A u \in Threads : u # th => pc'[u] = pc[u],
           \/ LiveTimers' \subseteq {s_last_wake_timeout_info'}
           \/ pc'[th] = "store",
           pc'[th] = "mark" => ptr'[th] = s_last_wake_timeout_info',
           pc'[th] = "new" => LiveTimers' = {},
           pc'[th] = "store" => LiveTimers' \subseteq {ptr'[th]}
    PROVE  HeldInv'
  <1>1. /\ firing = NotFiring /\ wakeLock
        /\ \A u \in Threads : u # th => Idle(u)
    BY OneThread
  <1>2. firing' = NotFiring /\ wakeLock' /\ \A u \in Threads : u # th => pc'[u] = "idle"
    BY <1>1 DEF Idle
  <1> QED  BY <1>2 DEF HeldInv, Idle, NotFiring

LEMMA GrabHeld ==
    ASSUME MemInv, Alone, HeldInv, NEW th \in Threads, Grab(th) PROVE HeldInv'
  <1> SUFFICES ASSUME ~overlap' PROVE HeldInv'
    BY DEF HeldInv
  <1>1. /\ ~overlap /\ firing = NotFiring /\ \A u \in Threads : pc[u] = "idle"
        /\ wakeLock' = TRUE /\ firing' = firing
        /\ UNCHANGED <<mem, timers, s_last_wake_timeout_info>>
        /\ pc' = [pc EXCEPT ![th] = "send"]
    BY DEF Grab, Goto
  <1>2. /\ pc'[th] = "send"
        /\ \A u \in Threads : u # th => pc'[u] = "idle"
    BY <1>1 DEF MemInv, TypeOK
  <1>3. LiveTimers' = LiveTimers
    BY <1>1, SameLiveTimers
  <1>4. LiveTimers \subseteq {s_last_wake_timeout_info}
    BY <1>1 DEF HeldInv
  <1> QED  BY <1>1, <1>2, <1>3, <1>4 DEF HeldInv, Idle, NotFiring

LEMMA SentHeld ==
    ASSUME MemInv, Alone, HeldInv, NEW th \in Threads, Sent(th) PROVE HeldInv'
  <1> SUFFICES ASSUME ~overlap' PROVE HeldInv'
    BY DEF HeldInv
  <1>1. /\ ~overlap /\ pc[th] = "send" /\ ~Idle(th)
        /\ UNCHANGED <<firing, wakeLock, mem, timers, s_last_wake_timeout_info>>
        /\ pc' = [pc EXCEPT ![th] = "cancel"]
    BY DEF Sent, Goto, Idle
  <1>2. LiveTimers' = LiveTimers
    BY <1>1, SameLiveTimers
  <1>3. LiveTimers \subseteq {s_last_wake_timeout_info}
    BY <1>1, OneThread
  <1>4. pc'[th] = "cancel" /\ \A u \in Threads : u # th => pc'[u] = pc[u]
    BY <1>1 DEF MemInv, TypeOK
  <1> QED  BY <1>1, <1>2, <1>3, <1>4, OneThreadStep

LEMMA LoadLastHeld ==
    ASSUME MemInv, Alone, HeldInv, NEW th \in Threads, LoadLast(th) PROVE HeldInv'
  <1> SUFFICES ASSUME ~overlap' PROVE HeldInv'
    BY DEF HeldInv
  <1>1. /\ ~overlap /\ pc[th] = "cancel" /\ ~Idle(th)
        /\ UNCHANGED <<firing, wakeLock, mem, timers, s_last_wake_timeout_info>>
        /\ ptr' = [ptr EXCEPT ![th] = s_last_wake_timeout_info]
        /\ pc' = [pc EXCEPT ![th] = IF s_last_wake_timeout_info = NULL THEN "new"
                                    ELSE "mark"]
    BY DEF LoadLast, Goto, Idle
  <1>2. LiveTimers' = LiveTimers
    BY <1>1, SameLiveTimers
  <1>3. LiveTimers \subseteq {s_last_wake_timeout_info}
    BY <1>1, OneThread
  <1>4. /\ pc'[th] = IF s_last_wake_timeout_info = NULL THEN "new" ELSE "mark"
        /\ ptr'[th] = s_last_wake_timeout_info
        /\ \A u \in Threads : u # th => pc'[u] = pc[u]
    BY <1>1 DEF MemInv, TypeOK
  <1>5. LiveTimers \subseteq Addresses
    BY DEF LiveTimers, ToTimers, MemInv, TypeOK
  <1>6. pc'[th] = "new" => LiveTimers' = {}
    BY <1>2, <1>3, <1>4, <1>5, NamesAssumption
  <1> QED  BY <1>1, <1>2, <1>3, <1>4, <1>6, OneThreadStep

\* The record the thread marks is that of the one live timer.
LEMMA MarkHeld ==
    ASSUME MemInv, Alone, HeldInv, NEW th \in Threads, Mark(th) PROVE HeldInv'
  <1> SUFFICES ASSUME ~overlap' PROVE HeldInv'
    BY DEF HeldInv
  <1>1. /\ ~overlap /\ pc[th] = "mark" /\ ~Idle(th)
        /\ UNCHANGED <<firing, wakeLock, timers, s_last_wake_timeout_info, ptr>>
        /\ mem' = [mem EXCEPT ![ptr[th]].userParam = 1]
        /\ pc' = [pc EXCEPT ![th] = "new"]
    BY DEF Mark, Goto, Idle
  <1>2. LiveTimers \subseteq {ptr[th]}
    BY <1>1, OneThread
  <1>3. ToTimers \subseteq Addresses /\ ToTimers' = ToTimers
    BY <1>1 DEF ToTimers, MemInv, TypeOK
  <1>4. \A p \in ToTimers : p # ptr[th] => mem'[p] = mem[p]
    BY <1>1, <1>3 DEF MemInv, TypeOK
  <1>5. ptr[th] \in ToTimers => mem'[ptr[th]].userParam = 1
    <2> SUFFICES ASSUME ptr[th] \in ToTimers PROVE mem'[ptr[th]].userParam = 1
      OBVIOUS
    <2>1. mem[ptr[th]] \in [allocated : BOOLEAN, callback : Callbacks, userParam : {0, 1}]
      BY <1>3 DEF MemInv, TypeOK
    <2>2. mem'[ptr[th]] = [mem[ptr[th]] EXCEPT !.userParam = 1]
      BY <1>1, <1>3 DEF MemInv, TypeOK
    <2> QED  BY <2>1, <2>2
  <1>6. LiveTimers' = {}
    BY <1>2, <1>3, <1>4, <1>5 DEF LiveTimers, Live
  <1>7. pc'[th] = "new" /\ \A u \in Threads : u # th => pc'[u] = pc[u]
    BY <1>1 DEF MemInv, TypeOK
  <1> QED  BY <1>1, <1>6, <1>7, OneThreadStep

LEMMA StartTimerHeld ==
    ASSUME MemInv, Alone, HeldInv, NEW th \in Threads, StartTimer(th) PROVE HeldInv'
  <1> SUFFICES ASSUME ~overlap' PROVE HeldInv'
    BY DEF HeldInv
  <1>1. PICK p \in Addresses : /\ Create(p, "wakeTimeoutCallback")
                               /\ ptr' = [ptr EXCEPT ![th] = p]
    BY DEF StartTimer
  <1>2. "wakeTimeoutCallback" \in Callbacks
    BY DEF Callbacks
  <1>3. /\ ToTimers' = ToTimers \cup {p}
        /\ \A q \in Addresses \ {p} : mem'[q] = mem[q]
    BY <1>1, <1>2, CreateAdds
  <1>4. /\ ~overlap /\ pc[th] = "new" /\ ~Idle(th)
        /\ UNCHANGED <<firing, wakeLock, s_last_wake_timeout_info>>
        /\ pc' = [pc EXCEPT ![th] = "store"]
    BY DEF StartTimer, Goto, Idle
  <1>5. LiveTimers = {} /\ ToTimers \subseteq Addresses
    BY <1>4, OneThread DEF MemInv, TypeOK, ToTimers
  <1>6. LiveTimers' \subseteq {p}
    BY <1>3, <1>5 DEF LiveTimers, Live
  <1>7. /\ pc'[th] = "store" /\ ptr'[th] = p
        /\ \A u \in Threads : u # th => pc'[u] = pc[u]
    BY <1>1, <1>4 DEF MemInv, TypeOK
  <1> QED  BY <1>4, <1>6, <1>7, OneThreadStep

LEMMA StoreLastHeld ==
    ASSUME MemInv, Alone, HeldInv, NEW th \in Threads, StoreLast(th) PROVE HeldInv'
  <1> SUFFICES ASSUME ~overlap' PROVE HeldInv'
    BY DEF HeldInv
  <1>1. /\ ~overlap /\ pc[th] = "store" /\ ~Idle(th)
        /\ UNCHANGED <<firing, wakeLock, mem, timers>>
        /\ s_last_wake_timeout_info' = ptr[th]
        /\ pc' = [pc EXCEPT ![th] = "idle"]
    BY DEF StoreLast, Goto, Idle
  <1>2. LiveTimers' = LiveTimers
    BY <1>1, SameLiveTimers
  <1>3. LiveTimers \subseteq {ptr[th]}
    BY <1>1, OneThread
  <1>4. pc'[th] = "idle" /\ \A u \in Threads : u # th => pc'[u] = pc[u]
    BY <1>1 DEF MemInv, TypeOK
  <1> QED  BY <1>1, <1>2, <1>3, <1>4, OneThreadStep

LEMMA RequestOtherHeld ==
    ASSUME MemInv, HeldInv, NEW th \in Threads, RequestOther(th) PROVE HeldInv'
  <1>1. PICK p \in Addresses : Create(p, "other")
    BY DEF RequestOther
  <1>2. /\ "other" \in Callbacks
        /\ UNCHANGED <<overlap, firing, wakeLock, pc, ptr, s_last_wake_timeout_info>>
    BY DEF Callbacks, RequestOther
  <1>3. /\ p \notin ToTimers /\ ToTimers' = ToTimers \cup {p}
        /\ mem'[p] = [allocated |-> TRUE, callback |-> "other", userParam |-> 0]
        /\ \A q \in Addresses \ {p} : mem'[q] = mem[q]
    BY <1>1, <1>2, CreateAdds
  <1>4. ToTimers \subseteq Addresses
    BY DEF MemInv, TypeOK, ToTimers
  <1>5. LiveTimers' = LiveTimers
    BY <1>3, <1>4 DEF LiveTimers, Live
  <1>6. firing.step = "callback" => mem'[firing.p_info] = mem[firing.p_info]
    BY <1>1, <1>3 DEF Create, MemInv, FiringApart
  <1> QED  BY <1>2, <1>5, <1>6 DEF HeldInv, Idle

\* The live timer, when it is the one that fires, leaves no other.
LEMMA FireHeld ==
    ASSUME MemInv, HeldInv, Fire PROVE HeldInv'
  <1> SUFFICES ASSUME ~overlap' PROVE HeldInv'
    BY DEF HeldInv
  <1>1. /\ firing'.step = "callback" /\ firing'.p_info = Head(timers)
        /\ firing'.cancelled <=> mem[Head(timers)].userParam = 1
        /\ Head(timers) \in Addresses
        /\ Head(timers) \notin ToTimers'
        /\ ToTimers = ToTimers' \cup {Head(timers)}
    BY FireTakes
  <1>2. /\ ~overlap /\ \A th \in Threads : pc[th] = "idle"
        /\ UNCHANGED <<wakeLock, mem, pc, s_last_wake_timeout_info>>
    BY DEF Fire, FireFirst
  <1>3. LiveTimers \subseteq {s_last_wake_timeout_info} /\ (LiveTimers # {} => wakeLock)
    BY <1>2 DEF HeldInv
  <1>4. LiveTimers' = LiveTimers \ {Head(timers)}
    BY <1>1, <1>2 DEF LiveTimers, Live
  <1>5. ASSUME ~firing'.cancelled,
               mem'[firing'.p_info].callback = "wakeTimeoutCallback"
        PROVE  LiveTimers' = {}
    <2>1. mem[Head(timers)].userParam = 0
      BY <1>1, <1>5 DEF MemInv, TypeOK
    <2>2. Head(timers) \in LiveTimers
      BY <1>1, <1>2, <1>5, <2>1 DEF LiveTimers, Live
    <2> QED  BY <1>3, <1>4, <2>2
  <1> QED  BY <1>2, <1>3, <1>4, <1>5 DEF HeldInv, Idle

LEMMA WakeTimeoutCallbackHeld ==
    ASSUME MemInv, Alone, HeldInv, WakeTimeoutCallback PROVE HeldInv'
  <1> SUFFICES ASSUME ~overlap' PROVE HeldInv'
    BY DEF HeldInv
  <1>1. /\ ~overlap /\ firing.step = "callback"
        /\ UNCHANGED <<mem, timers, pc, ptr, s_last_wake_timeout_info>>
        /\ firing' = [firing EXCEPT !.step = "clear"]
    BY DEF WakeTimeoutCallback
  <1>2. firing'.step = "clear"
    BY <1>1 DEF MemInv, TypeOK
  <1>3. \A th \in Threads : pc[th] = "idle"
    BY <1>1 DEF Alone, Idle, NotFiring
  <1>4. LiveTimers' = LiveTimers
    BY <1>1, SameLiveTimers
  <1>5. LiveTimers \subseteq {s_last_wake_timeout_info} /\ (LiveTimers # {} => wakeLock)
    BY <1>1, <1>3 DEF HeldInv
  <1>6. LiveTimers # {} => wakeLock'
    <2>1. CASE mem[firing.p_info].callback = "wakeTimeoutCallback" /\ ~firing.cancelled
      BY <1>1, <2>1 DEF HeldInv
    <2>2. CASE ~(mem[firing.p_info].callback = "wakeTimeoutCallback"
                   /\ ~firing.cancelled)
      BY <1>5, <2>2 DEF WakeTimeoutCallback
    <2> QED  BY <2>1, <2>2
  <1> QED  BY <1>1, <1>2, <1>3, <1>4, <1>5, <1>6 DEF HeldInv, Idle

LEMMA FreeInfoHeld ==
    ASSUME MemInv, Alone, HeldInv, FreeInfo PROVE HeldInv'
  <1> SUFFICES ASSUME ~overlap' PROVE HeldInv'
    BY DEF HeldInv
  <1>1. /\ ~overlap /\ firing.step = "clear" /\ firing' = NotFiring
        /\ UNCHANGED <<wakeLock, timers, pc, ptr>>
        /\ mem' = [mem EXCEPT ![firing.p_info].allocated = FALSE]
        /\ s_last_wake_timeout_info' = IF s_last_wake_timeout_info = firing.p_info
                                       THEN NULL ELSE s_last_wake_timeout_info
    BY DEF FreeInfo
  <1>2. \A th \in Threads : pc[th] = "idle"
    BY <1>1 DEF Alone, Idle, NotFiring
  <1>3. /\ ToTimers' = ToTimers /\ ToTimers \subseteq Addresses
        /\ firing.p_info \notin ToTimers
    BY <1>1 DEF MemInv, TypeOK, ToTimers, FiringApart
  <1>4. \A p \in ToTimers : mem'[p] = mem[p]
    BY <1>1, <1>3 DEF MemInv, TypeOK
  <1>5. LiveTimers' = LiveTimers
    BY <1>3, <1>4 DEF LiveTimers, Live
  <1>6. LiveTimers \subseteq {s_last_wake_timeout_info} /\ (LiveTimers # {} => wakeLock)
    BY <1>1, <1>2 DEF HeldInv
  <1>7. LiveTimers' \subseteq {s_last_wake_timeout_info'}
    BY <1>1, <1>3, <1>5, <1>6 DEF LiveTimers
  <1> QED  BY <1>1, <1>2, <1>5, <1>6, <1>7 DEF HeldInv, Idle, NotFiring

LEMMA NextHeld == ASSUME MemInv, Alone, HeldInv, [Next]_vars PROVE HeldInv'
  <1>1. ASSUME NEW th \in Threads, NotifyStep(th) PROVE HeldInv'
    BY <1>1, SentHeld, LoadLastHeld, MarkHeld, StartTimerHeld, StoreLastHeld DEF NotifyStep
  <1>2. ASSUME NEW th \in Threads, Grab(th) \/ RequestOther(th) PROVE HeldInv'
    BY <1>2, GrabHeld, RequestOtherHeld
  <1>3. CASE FireStep
    BY <1>3, FireHeld, WakeTimeoutCallbackHeld, FreeInfoHeld DEF FireStep
  <1>4. CASE UNCHANGED vars
    <2>1. LiveTimers' = LiveTimers
      BY <1>4, SameLiveTimers DEF vars
    <2> QED  BY <1>4, <2>1 DEF vars, HeldInv, Idle
  <1> QED  BY <1>1, <1>2, <1>3, <1>4 DEF Next

LEMMA HeldSuffices == ASSUME HeldInv PROVE HeldUntilNewest
  <1> SUFFICES ASSUME ~overlap, \A th \in Threads : pc[th] = "idle"
               PROVE  /\ \A p \in ToTimers : Live(p) => wakeLock
                                                        /\ p = s_last_wake_timeout_info
                      /\ Cardinality({p \in ToTimers : Live(p)}) <= 1
    BY DEF HeldUntilNewest
  <1>1. LiveTimers \subseteq {s_last_wake_timeout_info} /\ (LiveTimers # {} => wakeLock)
    BY DEF HeldInv
  <1>2. Cardinality(LiveTimers) <= 1
    <2>1. CASE LiveTimers = {}
      BY <2>1, FS_EmptySet
    <2>2. CASE LiveTimers = {s_last_wake_timeout_info}
      BY <2>2, FS_Singleton
    <2> QED  BY <1>1, <2>1, <2>2
  <1> QED  BY <1>1, <1>2 DEF LiveTimers

\* Until a notification overlaps with another or with the firing of a timer,
\* the wake lock is held until the timer of the newest notification fires, and
\* no timer before it is live (tgm.cpp:556-571).
THEOREM WakeLockHeld == Spec => []HeldUntilNewest
  <1>1. Init => Alone /\ HeldInv
    BY DEF Init, Alone, HeldInv, Idle, LiveTimers, ToTimers, NotFiring
  <1>2. MemInv /\ Alone /\ HeldInv /\ [Next]_vars => MemInv' /\ Alone' /\ HeldInv'
    BY NextMem, NextAlone, NextHeld
  <1>3. HeldInv => HeldUntilNewest
    BY HeldSuffices
  <1> QED  BY <1>1, <1>2, <1>3, InitMem, PTL DEF Spec
=============================================================================
