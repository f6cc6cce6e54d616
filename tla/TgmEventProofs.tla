--------------------------- MODULE TgmEventProofs ---------------------------
(***************************************************************************)
(* Theorems about the event loop of TgmEvent, for every set of threads and *)
(* timers, every delay and every table size.                               *)
(***************************************************************************)
EXTENDS TgmEvent, SequenceTheorems, TLAPS

-----------------------------------------------------------------------------
(* Lemmas on the operators of the model.                                    *)

\* Where the elements of a sequence are once another is inserted.
LEMMA InsertAtProperties ==
    ASSUME NEW S, NEW s \in Seq(S), NEW e \in S, NEW k \in 1 .. Len(s) + 1
    PROVE  /\ InsertAt(s, k, e) \in Seq(S)
           /\ Len(InsertAt(s, k, e)) = Len(s) + 1
           /\ \A i \in 1 .. Len(s) + 1 :
                 InsertAt(s, k, e)[i] = IF i < k THEN s[i]
                                        ELSE IF i = k THEN e ELSE s[i - 1]
  <1> DEFINE a == SubSeq(s, 1, k - 1)
             b == a \o <<e>>
             c == SubSeq(s, k, Len(s))
  <1>1. a \in Seq(S) /\ Len(a) = k - 1 /\ \A i \in 1 .. k - 1 : a[i] = s[i]
    OBVIOUS
  <1>2. /\ c \in Seq(S) /\ Len(c) = Len(s) - k + 1
        /\ \A i \in 1 .. Len(s) - k + 1 : c[i] = s[k + i - 1]
    OBVIOUS
  <1> HIDE DEF a, c
  <1>3. /\ b \in Seq(S) /\ Len(b) = k
        /\ \A i \in 1 .. k : b[i] = IF i < k THEN s[i] ELSE e
    BY <1>1
  <1> HIDE DEF b
  <1>4. /\ b \o c \in Seq(S) /\ Len(b \o c) = Len(s) + 1
        /\ \A i \in 1 .. Len(s) + 1 :
              (b \o c)[i] = IF i <= k THEN b[i] ELSE c[i - k]
    <2>0. b \in Seq(S) /\ c \in Seq(S)
      BY <1>2, <1>3
    <2>1. Len(b) + Len(c) = Len(s) + 1
      BY <1>2, <1>3
    <2>2. /\ b \o c \in Seq(S) /\ Len(b \o c) = Len(b) + Len(c)
          /\ \A i \in 1 .. Len(b) + Len(c) :
                (b \o c)[i] = IF i <= Len(b) THEN b[i] ELSE c[i - Len(b)]
      BY <2>0, ConcatProperties, Zenon
    <2> QED  BY <1>3, <2>1, <2>2
  <1>5. InsertAt(s, k, e) = b \o c
    BY DEF InsertAt, a, b, c
  <1> QED  BY <1>2, <1>3, <1>4, <1>5

\* removeWatch computes a bound of the descriptors that stay watched.
LEMMA MaxProperties ==
    ASSUME NEW E \in SUBSET WatchEvents, commandsFd \in Int
    PROVE  /\ Max({0} \cup {Fd(e) : e \in E}) \in Nat
           /\ \A e \in E : Fd(e) <= Max({0} \cup {Fd(f) : f \in E})
  <1> DEFINE T == {0} \cup {Fd(e) : e \in E}
             v(e) == IF e \in E THEN Fd(e) ELSE 0
  <1>1. \A e \in E : Fd(e) \in Int
    BY FdsAssumption DEF Fd, WatchEvents
  <1>2. \E x \in T : \A y \in T : x >= y
    <2>1. /\ v("wakeup") \in Int /\ v("listen") \in Int /\ v("commands") \in Int
          /\ \A y \in T : y \in {0, v("wakeup"), v("listen"), v("commands")}
          /\ v("wakeup") \in T /\ v("listen") \in T /\ v("commands") \in T
          /\ 0 \in T
      BY <1>1 DEF WatchEvents
    <2> HIDE DEF v, T
    <2> QED  BY <2>1
  <1>3. Max(T) \in T /\ \A y \in T : Max(T) >= y
    BY <1>2 DEF Max
  <1> QED  BY <1>1, <1>3

\* The table operations keep the types of what they write.
LEMMA AddWatchType ==
    ASSUME TypeOK, NEW e \in WatchEvents, NEW fd \in Fds,
           NEW idx \in [WatchEvents -> Slots \cup {-1}],
           AddWatch(e, fd, idx)
    PROVE  /\ watch_table' \in [Slots -> WatchEvents \cup {NoEvent}]
           /\ index' \in [WatchEvents -> Slots \cup {-1}]
           /\ readFds' \subseteq Fds
           /\ nfds' \in Nat
  <1>1. fd \in Nat
    BY FdsAssumption DEF Fds
  <1>2. ASSUME NEW i \in Slots,
               watch_table' = [watch_table EXCEPT ![i] = e],
               index' = [idx EXCEPT ![e] = i]
        PROVE  /\ watch_table' \in [Slots -> WatchEvents \cup {NoEvent}]
               /\ index' \in [WatchEvents -> Slots \cup {-1}]
    BY <1>2 DEF TypeOK
  <1>3. CASE \A i \in Slots : Occupied(i)
    BY <1>3 DEF AddWatch, TypeOK, FirstFree
  <1>4. CASE ~ \A i \in Slots : Occupied(i)
    <2> PICK i \in Slots :
           /\ watch_table' = [watch_table EXCEPT ![i] = e]
           /\ index' = [idx EXCEPT ![e] = i]
           /\ readFds' = readFds \cup {fd}
           /\ nfds' = IF fd >= nfds THEN fd + 1 ELSE nfds
      BY <1>4 DEF AddWatch
    <2> QED  BY <1>1, <1>2 DEF TypeOK
  <1> QED  BY <1>3, <1>4

LEMMA RemoveWatchType ==
    ASSUME TypeOK, NEW e \in WatchEvents, NEW i \in Slots, RemoveWatch(e, i)
    PROVE  /\ watch_table' \in [Slots -> WatchEvents \cup {NoEvent}]
           /\ index' \in [WatchEvents -> Slots \cup {-1}]
           /\ readFds' \subseteq Fds
           /\ nfds' \in Nat
  <1>1. commandsFd \in Int
    BY FdsAssumption DEF TypeOK, NoFd
  <1>2. Watched \ {e} \in SUBSET WatchEvents
    BY DEF TypeOK, Watched
  <1>3. Max({0} \cup {Fd(f) : f \in Watched \ {e}}) \in Nat
    BY <1>1, <1>2, MaxProperties
  <1>4. nfds' \in Nat
    BY <1>3 DEF RemoveWatch, TypeOK
  <1> QED  BY <1>4 DEF RemoveWatch, TypeOK

LEMMA InsertTimerType ==
    ASSUME TypeOK, NEW t \in Timers, NEW d \in Delays, InsertTimer(t, d)
    PROVE  timer_list' \in Seq(Timers) /\ due' \in [Timers -> Nat]
  <1>1. timer_list' \in Seq(Timers)
    BY InsertAtProperties DEF InsertTimer, TypeOK
  <1>2. due' \in [Timers -> Nat]
    BY DelaysAssumption DEF InsertTimer, TypeOK
  <1> QED  BY <1>1, <1>2

LEMMA NewTimerType ==
    ASSUME TypeOK, NewTimer \/ UNCHANGED timerVars
    PROVE  timer_list' \in Seq(Timers) /\ due' \in [Timers -> Nat]
  BY InsertTimerType DEF NewTimer, timerVars, TypeOK

-----------------------------------------------------------------------------
(* Type correctness.                                                        *)

LEMMA FiringType ==
    ASSUME TypeOK, NEW e, Firing(e)
    PROVE  pending_list' \in Seq(Timers \cup WatchEvents)
  BY HeadTailProperties DEF TypeOK, Firing

LEMMA InitType == Init => TypeOK
  <1> SUFFICES ASSUME Init PROVE TypeOK
    OBVIOUS
  <1>1. /\ watch_table \in [Slots -> WatchEvents \cup {NoEvent}]
        /\ index \in [WatchEvents -> Slots \cup {-1}]
        /\ due \in [Timers -> Nat]
        /\ pc \in [Threads -> ThreadPcs]
    BY DEF Init, ThreadPcs
  <1>2. timer_list \in Seq(Timers) /\ pending_list \in Seq(Timers \cup WatchEvents)
    BY DEF Init
  <1> QED  BY <1>1, <1>2 DEF Init, TypeOK, LoopPcs

LEMMA NextType == TypeOK /\ [Next]_vars => TypeOK'
  <1> SUFFICES ASSUME TypeOK, [Next]_vars PROVE TypeOK'
    OBVIOUS
  <1> USE DEF tableVars, timerVars, selectVars, socketVars, clientVars,
              LoopPcs, ThreadPcs
  <1>1. CASE OpenPipe
    BY <1>1 DEF OpenPipe, TypeOK
  <1>2. CASE AddWakeup
    BY <1>2, AddWatchType DEF AddWakeup, TypeOK, Fds, WatchEvents
  <1>3. CASE CopyReadFds
    BY <1>3 DEF CopyReadFds, TypeOK
  <1>4. CASE CalcNextTimeout
    BY <1>4 DEF CalcNextTimeout, TypeOK
  <1>5. CASE EnterSelect
    BY <1>5 DEF EnterSelect, TypeOK
  <1>6. CASE SelectReturns
    BY <1>6 DEF SelectReturns, Selected, TypeOK
  <1>7. CASE SelectInterrupted
    BY <1>7 DEF SelectInterrupted, TypeOK
  <1>8. CASE ProcessTimeouts
    <2> PICK k \in 0 .. Len(timer_list) :
            /\ pending_list' = pending_list \o SubSeq(timer_list, 1, k)
            /\ timer_list' = SubSeq(timer_list, k + 1, Len(timer_list))
      BY <1>8 DEF ProcessTimeouts
    <2>1. /\ SubSeq(timer_list, 1, k) \in Seq(Timers)
          /\ SubSeq(timer_list, k + 1, Len(timer_list)) \in Seq(Timers)
      BY DEF TypeOK
    <2>2. pending_list' \in Seq(Timers \cup WatchEvents)
      BY <2>1 DEF TypeOK
    <2> QED  BY <1>8, <2>1, <2>2 DEF ProcessTimeouts, TypeOK
  <1>9. CASE ProcessReadReadies
    <2>1. pending_list' \in Seq(Timers \cup WatchEvents)
      <3> PICK n \in 0 .. MaxFdEvents :
              \E events \in [1 .. n -> ReadyEvents] :
                  pending_list' = pending_list \o events
        BY <1>9 DEF ProcessReadReadies
      <3> PICK events \in [1 .. n -> ReadyEvents] :
              pending_list' = pending_list \o events
        OBVIOUS
      <3>1. ReadyEvents \subseteq Timers \cup WatchEvents
        BY DEF ReadyEvents, Watched, TypeOK
      <3>2. n \in Nat /\ events \in [1 .. n -> Timers \cup WatchEvents]
        BY <3>1, BoundsAssumption
      <3>3. events \in Seq(Timers \cup WatchEvents)
        BY <3>2
      <3> QED  BY <3>3 DEF TypeOK
    <2>2. /\ watch_table' \in [Slots -> WatchEvents \cup {NoEvent}]
          /\ index' \in [WatchEvents -> Slots \cup {-1}]
          /\ readFds' \subseteq Fds
          /\ nfds' \in Nat
      BY <1>9, RemoveWatchType DEF ProcessReadReadies, TypeOK, WatchEvents
    <2> QED  BY <1>9, <2>1, <2>2 DEF ProcessReadReadies, TypeOK
  <1>10. CASE FireDone
    BY <1>10 DEF FireDone, TypeOK
  <1>11. ASSUME NEW t \in Timers, FireTimer(t) PROVE TypeOK'
    BY <1>11, FiringType, NewTimerType DEF FireTimer, TypeOK
  <1>12. CASE FireWakeup
    BY <1>12, FiringType DEF FireWakeup, TypeOK
  <1>13. CASE FireListenAccept
    <2>1. PICK fd \in CommandFds :
            /\ s_fdCommand' = fd /\ commandsFd' = fd
            /\ AddWatch("commands", fd, [index EXCEPT !["commands"] = -1])
      BY <1>13 DEF FireListenAccept
    <2>2. /\ "commands" \in WatchEvents /\ fd \in Fds
          /\ [index EXCEPT !["commands"] = -1] \in
                [WatchEvents -> Slots \cup {-1}]
      BY DEF TypeOK, WatchEvents, Fds
    <2>3. /\ watch_table' \in [Slots -> WatchEvents \cup {NoEvent}]
          /\ index' \in [WatchEvents -> Slots \cup {-1}]
          /\ readFds' \subseteq Fds
          /\ nfds' \in Nat
      BY <2>1, <2>2, AddWatchType
    <2> QED  BY <1>13, <2>1, <2>3, FiringType, NewTimerType
             DEF FireListenAccept, TypeOK
  <1>14. CASE FireListenFail
    <2>1. pending_list' \in Seq(Timers \cup WatchEvents)
      BY <1>14, FiringType DEF FireListenFail
    <2>2. /\ watch_table' \in [Slots -> WatchEvents \cup {NoEvent}]
          /\ index' \in [WatchEvents -> Slots \cup {-1}]
          /\ readFds' \subseteq Fds
          /\ nfds' \in Nat
      BY <1>14, AddWatchType DEF FireListenFail, TypeOK, Fds, WatchEvents
    <2> QED  BY <1>14, <2>1, <2>2 DEF FireListenFail, TypeOK
  <1>15. CASE FireCommandsData
    BY <1>15, FiringType, NewTimerType DEF FireCommandsData, TypeOK
  <1>16. CASE FireCommandsEof
    BY <1>16, FiringType, RemoveWatchType
    DEF FireCommandsEof, TypeOK, WatchEvents
  <1>17. CASE Relisten
    BY <1>17, AddWatchType DEF Relisten, TypeOK, Fds, WatchEvents
  <1>18. CASE RegisterInsert
    <2>1. "listen" \in WatchEvents /\ ListenFd \in Fds
      BY DEF WatchEvents, Fds
    <2>2. /\ watch_table' \in [Slots -> WatchEvents \cup {NoEvent}]
          /\ index' \in [WatchEvents -> Slots \cup {-1}]
          /\ readFds' \subseteq Fds
      <3>1. CASE \A i \in Slots : Occupied(i)
        BY <1>18, <3>1 DEF RegisterInsert, FirstFree, TypeOK
      <3>2. CASE ~ \A i \in Slots : Occupied(i)
        <4> PICK i \in Slots :
               /\ watch_table' = [watch_table EXCEPT ![i] = "listen"]
               /\ index' = [index EXCEPT !["listen"] = i]
               /\ readFds' = readFds \cup {ListenFd}
          BY <1>18, <3>2 DEF RegisterInsert
        <4> QED  BY <2>1 DEF TypeOK
      <3> QED  BY <3>1, <3>2
    <2>3. pc' \in [Threads -> ThreadPcs] /\ listMutex' \in Threads
      BY <1>18, ThreadsAssumption DEF RegisterInsert, TypeOK
    <2> QED  BY <1>18, <2>2, <2>3 DEF RegisterInsert, TypeOK
  <1>19. CASE RegisterNfds
    <2>1. nfds' \in Nat
      BY <1>19, FdsAssumption DEF RegisterNfds, TypeOK
    <2>2. pc' \in [Threads -> ThreadPcs]
      BY <1>19 DEF RegisterNfds, TypeOK
    <2> QED  BY <1>19, <2>1, <2>2 DEF RegisterNfds, TypeOK
  <1>20. ASSUME NEW th \in Threads, AddTimer(th) PROVE TypeOK'
    BY <1>20, NewTimerType DEF AddTimer, TypeOK
  <1>21. ASSUME NEW th \in Threads, Trigger(th) PROVE TypeOK'
    BY <1>21 DEF Trigger, TypeOK
  <1>22. CASE EnvStep
    <2>1. CASE ClientConnects \/ ClientGivesUp
      BY <2>1 DEF ClientConnects, ClientGivesUp, TypeOK
    <2>2. CASE ClientSends \/ ClientCloses
      BY <2>2 DEF ClientSends, ClientCloses, TypeOK
    <2>3. CASE Tick
      BY <2>3 DEF Tick, TypeOK
    <2> QED  BY <1>22, <2>1, <2>2, <2>3 DEF EnvStep
  <1>23. CASE UNCHANGED vars
    BY <1>23 DEF vars, TypeOK
  <1> QED
    BY <1>1, <1>2, <1>3, <1>4, <1>5, <1>6, <1>7, <1>8, <1>9, <1>10, <1>11,
       <1>12, <1>13, <1>14, <1>15, <1>16, <1>17, <1>18, <1>19, <1>20, <1>21,
       <1>22, <1>23
    DEF Next, LoopStep, ThreadStep

\* Every variable keeps its type, whatever the constants.
THEOREM TypeCorrect == Spec => []TypeOK
  BY InitType, NextType, PTL DEF Spec

-----------------------------------------------------------------------------
(* Timers fire in order.  Ordered is DueOrder with its four variables as    *)
(* parameters, so that what each operation does to the two lists is a fact   *)
(* about sequences.                                                         *)

Ordered(pending, list, D, n) ==
    LET P == {i \in DOMAIN pending : pending[i] \in Timers}
        B(t, u) == t # u /\ D[t] <= D[u]
    IN  /\ \A i \in P : D[pending[i]] < n
        /\ \A i, j \in P : i < j => B(pending[i], pending[j])
        /\ \A i \in P, j \in DOMAIN list : B(pending[i], list[j])
        /\ \A i, j \in DOMAIN list : i < j => B(list[i], list[j])

LEMMA DueOrderIsOrdered ==
    DueOrder <=> Ordered(pending_list, timer_list, due, now)
  BY DEF DueOrder, Ordered, PendingTimers, Before

\* firePending takes the first pending event.
LEMMA OrderedTail ==
    ASSUME NEW p \in Seq(Timers \cup WatchEvents), p # << >>,
           NEW l \in Seq(Timers), NEW D \in [Timers -> Nat], NEW n \in Nat,
           Ordered(p, l, D, n)
    PROVE  Ordered(Tail(p), l, D, n)
  <1>1. /\ Tail(p) \in Seq(Timers \cup WatchEvents)
        /\ DOMAIN Tail(p) = 1 .. Len(p) - 1
        /\ \A i \in 1 .. Len(p) - 1 : Tail(p)[i] = p[i + 1]
    OBVIOUS
  <1>2. DOMAIN p = 1 .. Len(p) /\ Len(p) \in Nat
    OBVIOUS
  <1> QED  BY <1>1, <1>2 DEF Ordered

\* tgm_timer_add puts a timer where it belongs.
LEMMA OrderedInsert ==
    ASSUME NEW p \in Seq(Timers \cup WatchEvents),
           NEW l \in Seq(Timers), NEW D \in [Timers -> Nat], NEW n \in Nat,
           Ordered(p, l, D, n),
           NEW t \in Timers,
           \A i \in DOMAIN p : p[i] # t, \A i \in DOMAIN l : l[i] # t,
           NEW x \in Nat, x >= n,
           NEW k \in 1 .. Len(l) + 1,
           \A j \in 1 .. k - 1 : D[l[j]] < x,
           k <= Len(l) => D[l[k]] >= x
    PROVE  Ordered(p, InsertAt(l, k, t), [D EXCEPT ![t] = x], n)
  <1> DEFINE m == InsertAt(l, k, t)
             E == [D EXCEPT ![t] = x]
  <1>1. /\ DOMAIN m = 1 .. Len(l) + 1
        /\ \A i \in 1 .. Len(l) + 1 :
              m[i] = IF i < k THEN l[i] ELSE IF i = k THEN t ELSE l[i - 1]
    <2>1. /\ m \in Seq(Timers)
          /\ Len(m) = Len(l) + 1
          /\ \A i \in 1 .. Len(l) + 1 :
                m[i] = IF i < k THEN l[i] ELSE IF i = k THEN t ELSE l[i - 1]
      BY InsertAtProperties
    <2> HIDE DEF m
    <2> QED  BY <2>1
  <1>2. Len(l) \in Nat /\ DOMAIN l = 1 .. Len(l) /\ \A i \in 1 .. Len(l) : l[i] \in Timers
    OBVIOUS
  <1>3. E[t] = x /\ \A u \in Timers : E[u] \in Nat /\ (u # t => E[u] = D[u])
    OBVIOUS
  <1>0. \A i, j \in 1 .. Len(l) : i < j => l[i] # l[j] /\ D[l[i]] <= D[l[j]]
    BY <1>2 DEF Ordered
  <1>4. \A j \in k .. Len(l) : D[l[j]] >= x
    <2> TAKE j \in k .. Len(l)
    <2>1. k \in 1 .. Len(l) /\ j \in 1 .. Len(l) /\ D[l[k]] >= x
      BY <1>2
    <2>2. D[l[k]] \in Nat /\ D[l[j]] \in Nat /\ (k = j \/ D[l[k]] <= D[l[j]])
      BY <2>1, <1>0, <1>2
    <2> QED  BY <2>1, <2>2
  <1> HIDE DEF m, E
  <1>5. \A i, j \in DOMAIN m : i < j => m[i] # m[j] /\ E[m[i]] <= E[m[j]]
    <2> TAKE i, j \in DOMAIN m
    <2> HAVE i < j
    <2>1. CASE j < k
      BY <2>1, <1>1, <1>2, <1>3 DEF Ordered
    <2>2. CASE j = k
      BY <2>2, <1>1, <1>2, <1>3
    <2>3. CASE i < k /\ k < j
      <3>0. i \in 1 .. Len(l) + 1 /\ j \in 1 .. Len(l) + 1 /\ Len(l) \in Nat
        BY <1>1, <1>2
      <3>1. /\ i \in 1 .. k - 1 /\ i \in 1 .. Len(l) /\ j - 1 \in k .. Len(l)
            /\ j - 1 \in 1 .. Len(l) /\ i < j - 1
        BY <2>3, <3>0
      <3>4. m[i] = l[i] /\ m[j] = l[j - 1]
        BY <2>3, <3>0, <1>1
      <3>2. l[i] # l[j - 1] /\ D[l[i]] <= D[l[j - 1]]
        BY <3>1, <1>0
      <3>3. l[i] # t /\ l[j - 1] # t /\ l[i] \in Timers /\ l[j - 1] \in Timers
        BY <3>1, <1>2
      <3> QED  BY <3>1, <3>2, <3>3, <3>4, <1>3
    <2>4. CASE i = k
      <3>1. /\ i \in 1 .. Len(l) + 1 /\ j \in 1 .. Len(l) + 1 /\ k < j
            /\ j - 1 \in k .. Len(l) /\ j - 1 \in 1 .. Len(l)
        BY <2>4, <1>1, <1>2
      <3>2. m[i] = t /\ m[j] = l[j - 1]
        BY <2>4, <3>1, <1>1
      <3>3. l[j - 1] # t /\ l[j - 1] \in Timers /\ D[l[j - 1]] >= x
        BY <3>1, <1>2, <1>4
      <3> QED  BY <3>2, <3>3, <1>3
    <2>5. CASE k < i
      <3>1. /\ m[i] = l[i - 1] /\ m[j] = l[j - 1] /\ i - 1 < j - 1
            /\ i - 1 \in 1 .. Len(l) /\ j - 1 \in 1 .. Len(l)
        BY <2>5, <1>1, <1>2
      <3>2. l[i - 1] # l[j - 1] /\ D[l[i - 1]] <= D[l[j - 1]]
        BY <3>1, <1>0
      <3>3. /\ l[i - 1] # t /\ l[j - 1] # t
            /\ l[i - 1] \in Timers /\ l[j - 1] \in Timers
        BY <3>1, <1>2
      <3> QED  BY <3>1, <3>2, <3>3, <1>3
    <2> QED  BY <1>1, <1>2, <2>1, <2>2, <2>3, <2>4, <2>5
  <1> DEFINE P == {i \in DOMAIN p : p[i] \in Timers}
  <1>6. \A i \in P : E[p[i]] = D[p[i]] /\ E[p[i]] \in Nat /\ E[p[i]] < n /\ p[i] # t
    BY <1>3 DEF Ordered
  <1>7. \A i \in P, j \in DOMAIN m : p[i] # m[j] /\ E[p[i]] <= E[m[j]]
    <2> TAKE i \in P, j \in DOMAIN m
    <2>1. CASE j = k
      BY <2>1, <1>1, <1>3, <1>6
    <2>2. CASE j # k
      <3> DEFINE q == IF j < k THEN j ELSE j - 1
      <3>1. q \in DOMAIN l /\ m[j] = l[q]
        BY <2>2, <1>1, <1>2
      <3>2. p[i] # l[q] /\ D[p[i]] <= D[l[q]]
        BY <3>1 DEF Ordered
      <3> QED  BY <1>2, <1>3, <1>6, <3>1, <3>2
    <2> QED  BY <2>1, <2>2
  <1>8. \A i, j \in P : i < j => p[i] # p[j] /\ E[p[i]] <= E[p[j]]
    BY <1>6 DEF Ordered
  <1> QED  BY <1>5, <1>6, <1>7, <1>8 DEF Ordered, m, E

\* processTimeouts moves the expired timers, a prefix of the list.
LEMMA OrderedExpire ==
    ASSUME NEW p \in Seq(Timers \cup WatchEvents),
           NEW l \in Seq(Timers), NEW D \in [Timers -> Nat], NEW n \in Nat,
           Ordered(p, l, D, n),
           NEW k \in 0 .. Len(l),
           \A j \in 1 .. k : n > D[l[j]]
    PROVE  Ordered(p \o SubSeq(l, 1, k), SubSeq(l, k + 1, Len(l)), D, n)
  <1> DEFINE a == SubSeq(l, 1, k)
             b == SubSeq(l, k + 1, Len(l))
             q == p \o a
  <1>1. /\ a \in Seq(Timers) /\ DOMAIN a = 1 .. k /\ Len(a) = k
        /\ \A i \in 1 .. k : a[i] = l[i]
    OBVIOUS
  <1>2. /\ DOMAIN b = 1 .. Len(l) - k
        /\ \A i \in 1 .. Len(l) - k : b[i] = l[i + k]
    OBVIOUS
  <1>3. /\ Len(l) \in Nat /\ DOMAIN l = 1 .. Len(l) /\ k \in Nat
        /\ \A i \in 1 .. Len(l) : l[i] \in Timers /\ D[l[i]] \in Nat
        /\ Len(p) \in Nat /\ DOMAIN p = 1 .. Len(p)
    OBVIOUS
  <1>4. /\ DOMAIN q = 1 .. Len(p) + k
        /\ \A i \in 1 .. Len(p) + k :
              q[i] = IF i <= Len(p) THEN p[i] ELSE l[i - Len(p)]
    <2>1. a \in Seq(Timers \cup WatchEvents)
      BY <1>1
    <2> HIDE DEF a
    <2>2. /\ q \in Seq(Timers \cup WatchEvents)
          /\ Len(q) = Len(p) + Len(a)
          /\ \A i \in 1 .. Len(p) + Len(a) :
                q[i] = IF i <= Len(p) THEN p[i] ELSE a[i - Len(p)]
      BY <2>1, ConcatProperties, Zenon
    <2>3. DOMAIN q = 1 .. Len(q)
      BY <2>2
    <2> HIDE DEF q
    <2>4. DOMAIN q = 1 .. Len(p) + k
      BY <1>1, <2>2, <2>3
    <2>5. ASSUME NEW i \in 1 .. Len(p) + k
          PROVE  q[i] = IF i <= Len(p) THEN p[i] ELSE l[i - Len(p)]
      <3>1. i > Len(p) => i - Len(p) \in 1 .. k
        BY <1>3
      <3> QED  BY <1>1, <1>3, <2>2, <3>1
    <2> QED  BY <2>4, <2>5
  <1> HIDE DEF a, b, q
  <1>0. \A i \in DOMAIN q :
           \/ i \in DOMAIN p /\ i <= Len(p) /\ q[i] = p[i]
           \/ /\ i > Len(p) /\ q[i] = l[i - Len(p)]
              /\ i - Len(p) \in 1 .. k /\ i - Len(p) \in DOMAIN l
    <2> TAKE i \in DOMAIN q
    <2>1. i \in Nat /\ 1 <= i /\ i <= Len(p) + k
      BY <1>3, <1>4
    <2>2. i <= Len(p) => i \in DOMAIN p
      BY <2>1, <1>3
    <2>3. i > Len(p) => i - Len(p) \in 1 .. k /\ i - Len(p) \in DOMAIN l
      BY <2>1, <1>3
    <2>4. q[i] = IF i <= Len(p) THEN p[i] ELSE l[i - Len(p)]
      BY <1>4
    <2>5. i <= Len(p) \/ i > Len(p)
      BY <2>1, <1>3
    <2> QED  BY <2>1, <2>2, <2>3, <2>4, <2>5, <1>3
  <1>5. \A i \in DOMAIN q : q[i] \in Timers => D[q[i]] < n
    <2> TAKE i \in DOMAIN q
    <2> HAVE q[i] \in Timers
    <2>1. CASE i \in DOMAIN p /\ q[i] = p[i]
      BY <2>1 DEF Ordered
    <2>2. CASE i - Len(p) \in 1 .. k /\ q[i] = l[i - Len(p)]
      BY <2>2, <1>3
    <2> QED  BY <1>0, <2>1, <2>2
  <1>6. \A i, j \in DOMAIN q : q[i] \in Timers /\ q[j] \in Timers /\ i < j
            => q[i] # q[j] /\ D[q[i]] <= D[q[j]]
    <2> TAKE i, j \in DOMAIN q
    <2> HAVE q[i] \in Timers /\ q[j] \in Timers /\ i < j
    <2>0. i \in Nat /\ j \in Nat /\ Len(p) \in Nat
      BY <1>3, <1>4
    <2>1. CASE i \in DOMAIN p /\ q[i] = p[i] /\ j \in DOMAIN p /\ q[j] = p[j]
      BY <2>1 DEF Ordered
    <2>2. CASE i \in DOMAIN p /\ q[i] = p[i] /\ j - Len(p) \in DOMAIN l /\ q[j] = l[j - Len(p)]
      BY <2>2 DEF Ordered
    <2>3. CASE /\ i - Len(p) \in DOMAIN l /\ q[i] = l[i - Len(p)]
               /\ j - Len(p) \in DOMAIN l /\ q[j] = l[j - Len(p)]
      <3>1. i - Len(p) < j - Len(p)
        BY <2>0
      <3> QED  BY <2>3, <3>1 DEF Ordered
    <2>4. ~(i > Len(p) /\ j <= Len(p))
      BY <2>0
    <2> QED  BY <1>0, <2>1, <2>2, <2>3, <2>4
  <1>7. \A i \in DOMAIN q, j \in DOMAIN b : q[i] \in Timers
            => q[i] # b[j] /\ D[q[i]] <= D[b[j]]
    <2> TAKE i \in DOMAIN q, j \in DOMAIN b
    <2> HAVE q[i] \in Timers
    <2>1. b[j] = l[j + k] /\ j + k \in DOMAIN l /\ j \in Nat /\ j >= 1
      BY <1>2, <1>3
    <2>2. CASE i \in DOMAIN p /\ q[i] = p[i]
      BY <2>1, <2>2 DEF Ordered
    <2>3. CASE i - Len(p) \in 1 .. k /\ i - Len(p) \in DOMAIN l /\ q[i] = l[i - Len(p)]
      <3>1. i - Len(p) < j + k
        BY <2>1, <2>3, <1>3
      <3> QED  BY <2>1, <2>3, <3>1 DEF Ordered
    <2> QED  BY <1>0, <2>2, <2>3
  <1>8. \A i, j \in DOMAIN b : i < j => b[i] # b[j] /\ D[b[i]] <= D[b[j]]
    <2> TAKE i, j \in DOMAIN b
    <2> HAVE i < j
    <2>1. /\ b[i] = l[i + k] /\ b[j] = l[j + k] /\ i + k < j + k
          /\ i + k \in DOMAIN l /\ j + k \in DOMAIN l
      BY <1>2, <1>3
    <2> QED  BY <2>1 DEF Ordered
  <1>9. Ordered(q, b, D, n)
    BY <1>5, <1>6, <1>7, <1>8 DEF Ordered
  <1> QED  BY <1>9 DEF q, a, b

\* processReadReadies appends events that are not timers.
LEMMA OrderedAppend ==
    ASSUME NEW p \in Seq(Timers \cup WatchEvents),
           NEW l, NEW D, NEW n,
           Ordered(p, l, D, n),
           NEW events \in Seq(WatchEvents)
    PROVE  Ordered(p \o events, l, D, n)
  <1> DEFINE q == p \o events
  <1>1. \A i \in DOMAIN q : q[i] \in Timers => i \in DOMAIN p /\ q[i] = p[i]
    <2>1. WatchEvents \cap Timers = {}
      BY TimersAssumption
    <2>2. /\ DOMAIN q = 1 .. Len(p) + Len(events)
          /\ \A i \in 1 .. Len(p) + Len(events) :
                q[i] = IF i <= Len(p) THEN p[i] ELSE events[i - Len(p)]
      OBVIOUS
    <2>3. /\ \A i \in 1 .. Len(events) : events[i] \in WatchEvents
          /\ Len(p) \in Nat /\ Len(events) \in Nat /\ DOMAIN p = 1 .. Len(p)
      OBVIOUS
    <2> HIDE DEF q
    <2> QED  BY <2>1, <2>2, <2>3
  <1> HIDE DEF q
  <1>2. Ordered(q, l, D, n)
    BY <1>1 DEF Ordered
  <1> QED  BY <1>2 DEF q

\* A timed callback asked for by another thread (p is pending_list) or by a
\* callback (p is its tail).
LEMMA OrderedNewTimer ==
    ASSUME TypeOK, NewTimer, NEW p \in Seq(Timers \cup WatchEvents),
           \A i \in DOMAIN p : p[i] \in ToSet(pending_list),
           Ordered(p, timer_list, due, now)
    PROVE  Ordered(p, timer_list', due', now)
  <1>1. PICK t \in Timers, d \in Delays : ~InUse(t) /\ InsertTimer(t, d)
    BY DEF NewTimer
  <1>2. PICK k \in 1 .. Len(timer_list) + 1 :
          /\ \A j \in 1 .. k - 1 : due[timer_list[j]] < now + d
          /\ k <= Len(timer_list) => due[timer_list[k]] >= now + d
          /\ timer_list' = InsertAt(timer_list, k, t)
    BY <1>1 DEF InsertTimer
  <1>3. due' = [due EXCEPT ![t] = now + d]
    BY <1>1 DEF InsertTimer
  <1>4. /\ \A i \in DOMAIN p : p[i] # t
        /\ \A i \in DOMAIN timer_list : timer_list[i] # t
    BY <1>1 DEF InUse, ToSet
  <1>5. now + d \in Nat /\ now + d >= now /\ now \in Nat
    BY DelaysAssumption DEF TypeOK
  <1>6. timer_list \in Seq(Timers) /\ due \in [Timers -> Nat]
    BY DEF TypeOK
  <1> QED  BY <1>2, <1>3, <1>4, <1>5, <1>6, OrderedInsert

LEMMA OrderedFiring ==
    ASSUME TypeOK, DueOrder, NEW e, Firing(e), now' = now,
           NewTimer \/ UNCHANGED timerVars
    PROVE  DueOrder'
  <1>1. /\ Tail(pending_list) \in Seq(Timers \cup WatchEvents)
        /\ \A i \in DOMAIN Tail(pending_list) :
              Tail(pending_list)[i] \in ToSet(pending_list)
    <2>1. pending_list \in Seq(Timers \cup WatchEvents) /\ pending_list # << >>
      BY DEF TypeOK, Firing
    <2>2. /\ Tail(pending_list) \in Seq(Timers \cup WatchEvents)
          /\ DOMAIN Tail(pending_list) = 1 .. Len(pending_list) - 1
          /\ \A i \in 1 .. Len(pending_list) - 1 :
                Tail(pending_list)[i] = pending_list[i + 1]
      BY <2>1
    <2>3. DOMAIN pending_list = 1 .. Len(pending_list) /\ Len(pending_list) \in Nat
      BY <2>1
    <2> QED  BY <2>2, <2>3 DEF ToSet
  <1>2. Ordered(Tail(pending_list), timer_list, due, now)
    BY OrderedTail, DueOrderIsOrdered DEF TypeOK, Firing
  <1>3. Ordered(Tail(pending_list), timer_list', due', now)
    <2>1. CASE NewTimer
      BY <1>1, <1>2, <2>1, OrderedNewTimer
    <2>2. CASE UNCHANGED timerVars
      BY <1>2, <2>2 DEF timerVars
    <2> QED  BY <2>1, <2>2
  <1>4. pending_list' = Tail(pending_list)
    BY DEF Firing
  <1> QED  BY <1>3, <1>4 DEF DueOrder, Ordered, PendingTimers, Before

\* Timers fire in the order of their due times, once, and never early.
THEOREM TimersFireInOrder == Spec => []DueOrder
  <1>1. Init => DueOrder
    BY DEF Init, DueOrder, PendingTimers
  <1>2. TypeOK /\ DueOrder /\ [Next]_vars => DueOrder'
    <2> SUFFICES ASSUME TypeOK, DueOrder, [Next]_vars PROVE DueOrder'
      OBVIOUS
    <2> USE DEF timerVars, clientVars
    <2>0. ASSUME UNCHANGED <<pending_list, timerVars, now>> PROVE DueOrder'
      BY <2>0 DEF DueOrder, PendingTimers, Before
    <2>1. CASE OpenPipe \/ AddWakeup \/ CopyReadFds \/ CalcNextTimeout
               \/ EnterSelect \/ SelectReturns \/ SelectInterrupted
      BY <2>0, <2>1 DEF OpenPipe, AddWakeup, CopyReadFds, CalcNextTimeout,
                        EnterSelect, SelectReturns, SelectInterrupted
    <2>2. CASE FireDone \/ Relisten \/ RegisterInsert \/ RegisterNfds
      BY <2>0, <2>2 DEF FireDone, Relisten, RegisterInsert, RegisterNfds
    <2>3. CASE ProcessTimeouts
      <3>1. PICK k \in 0 .. Len(timer_list) :
              /\ \A j \in 1 .. k : now > due[timer_list[j]]
              /\ pending_list' = pending_list \o SubSeq(timer_list, 1, k)
              /\ timer_list' = SubSeq(timer_list, k + 1, Len(timer_list))
        BY <2>3 DEF ProcessTimeouts
      <3>2. due' = due /\ now' = now
        BY <2>3 DEF ProcessTimeouts
      <3>3. Ordered(pending_list', timer_list', due, now)
        BY <3>1, OrderedExpire, DueOrderIsOrdered DEF TypeOK
      <3> QED  BY <3>2, <3>3 DEF DueOrder, Ordered, PendingTimers, Before
    <2>4. CASE ProcessReadReadies
      <3>1. PICK n \in 0 .. MaxFdEvents :
                \E events \in [1 .. n -> ReadyEvents] :
                    pending_list' = pending_list \o events
        BY <2>4 DEF ProcessReadReadies
      <3>2. PICK events \in [1 .. n -> ReadyEvents] :
                pending_list' = pending_list \o events
        BY <3>1
      <3>3. ReadyEvents \subseteq WatchEvents
        BY DEF ReadyEvents, Watched, TypeOK
      <3>4. n \in Nat /\ events \in [1 .. n -> WatchEvents]
        BY <3>3, BoundsAssumption
      <3>5. events \in Seq(WatchEvents)
        BY <3>4
      <3>6. Ordered(pending_list', timer_list, due, now)
        BY <3>2, <3>5, OrderedAppend, DueOrderIsOrdered DEF TypeOK
      <3>7. UNCHANGED <<timer_list, due, now>>
        BY <2>4 DEF ProcessReadReadies
      <3> QED  BY <3>6, <3>7 DEF DueOrder, Ordered, PendingTimers, Before
    <2>5. ASSUME NEW t \in Timers, FireTimer(t) PROVE DueOrder'
      BY <2>5, OrderedFiring DEF FireTimer
    <2>6. CASE FireWakeup \/ FireListenAccept \/ FireListenFail
               \/ FireCommandsData \/ FireCommandsEof
      BY <2>6, OrderedFiring DEF FireWakeup, FireListenAccept, FireListenFail,
                                 FireCommandsData, FireCommandsEof
    <2>7. ASSUME NEW th \in Threads, AddTimer(th) PROVE DueOrder'
      <3>1. /\ pending_list \in Seq(Timers \cup WatchEvents)
            /\ \A i \in DOMAIN pending_list :
                  pending_list[i] \in ToSet(pending_list)
        BY DEF TypeOK, ToSet
      <3>2. Ordered(pending_list, timer_list', due', now)
        BY <2>7, <3>1, OrderedNewTimer, DueOrderIsOrdered DEF AddTimer
      <3>3. UNCHANGED <<pending_list, now>>
        BY <2>7 DEF AddTimer
      <3> QED  BY <3>2, <3>3 DEF DueOrder, Ordered, PendingTimers, Before
    <2>8. ASSUME NEW th \in Threads, Trigger(th) PROVE DueOrder'
      BY <2>0, <2>8 DEF Trigger
    <2>9. CASE ClientConnects \/ ClientGivesUp \/ ClientSends \/ ClientCloses
      BY <2>0, <2>9 DEF ClientConnects, ClientGivesUp, ClientSends,
                        ClientCloses
    <2>10. CASE Tick
      <3>1. UNCHANGED <<pending_list, timerVars>> /\ now' = now + 1
        BY <2>10 DEF Tick
      <3>2. \A i \in PendingTimers : due[pending_list[i]] \in Nat
        BY DEF PendingTimers, TypeOK
      <3> QED  BY <3>1, <3>2 DEF DueOrder, PendingTimers, Before, TypeOK
    <2>11. CASE UNCHANGED vars
      BY <2>0, <2>11 DEF vars
    <2> QED  BY <2>1, <2>2, <2>3, <2>4, <2>5, <2>6, <2>7, <2>8, <2>9, <2>10,
                <2>11
             DEF Next, LoopStep, ThreadStep, EnvStep
  <1> QED  BY <1>1, <1>2, TypeCorrect, PTL DEF Spec

-----------------------------------------------------------------------------
(* The watch table and the two sockets.  StructInv strengthens              *)
(* TableConsistent and LoopAlive to an inductive invariant: who holds the    *)
(* lock, which of the two sockets may be armed, and where in its cycle the   *)
(* loop can have an event pending.                                           *)

MutexInv ==
    /\ \A th \in Threads : pc[th] \in {"register", "nfds"} => th = Registrar
    /\ pc[Registrar] = "nfds" => listMutex # Nobody

PipeInv ==
    /\ loop # "pipe" => pipe # "none"
    /\ "wakeup" \in Watched => loop \notin {"pipe", "addWakeup"}

InPending(e) == \E i \in DOMAIN pending_list : pending_list[i] = e

SocketInv ==
    /\ ~(Armed("listen") /\ Armed("commands"))
    /\ pc[Registrar] = "register" \/ loop = "relisten" =>
          ~Armed("listen") /\ ~Armed("commands")
    /\ pc[Registrar] = "register" => loop # "relisten"
    /\ ~(InPending("listen") /\ "listen" \in Watched)
    /\ InPending("commands") => "commands" \in Watched
    /\ Armed("commands") => commandsFd = s_fdCommand /\ commandsFd \in CommandFds
    /\ \A e \in {"listen", "commands"} : \A i, j \in DOMAIN pending_list :
          pending_list[i] = e /\ pending_list[j] = e => i = j
    /\ loop \notin {"fire", "relisten"} => ~InPending("listen") /\ ~InPending("commands")

SelectInv == Sleeping => rfds \subseteq readFds

StructInv == /\ TypeOK /\ MutexInv /\ PipeInv /\ TableConsistent
             /\ SocketInv /\ SelectInv

LEMMA FdsDiffer ==
    ASSUME "commands" \in Watched => commandsFd \in CommandFds
    PROVE  \A e, f \in Watched \cap WatchEvents : Fd(e) = Fd(f) => e = f
  BY FdsAssumption DEF WatchEvents, Fd

\* What is known of the table but for nfds.
SlotsAgree ==
    /\ \A i \in Slots : Occupied(i) => index[watch_table[i]] = i
    /\ \A f \in WatchEvents : index[f] # -1 => watch_table[index[f]] = f
    /\ readFds = {Fd(f) : f \in Watched}

\* An event that is not watched takes a free slot.
LEMMA TakeSlot ==
    ASSUME TypeOK, SlotsAgree, NEW e \in WatchEvents, e \notin Watched,
           \A f \in Watched : Fd(f)' = Fd(f),
           NEW i \in Slots, FirstFree(i),
           watch_table' = [watch_table EXCEPT ![i] = e],
           index' = [index EXCEPT ![e] = i],
           readFds' = readFds \cup {Fd(e)'}
    PROVE  SlotsAgree' /\ Watched' = Watched \cup {e}
  <1>1. watch_table[i] = NoEvent /\ e # NoEvent
    BY DEF FirstFree, Occupied, WatchEvents, NoEvent
  <1>2. Watched' = Watched \cup {e}
    BY <1>1 DEF Watched, TypeOK
  <1>3. readFds' = {Fd(f)' : f \in Watched'}
    BY <1>2 DEF SlotsAgree
  <1>4. \A j \in Slots : Occupied(j)' => index'[watch_table'[j]] = j
    <2> TAKE j \in Slots
    <2> HAVE Occupied(j)'
    <2>1. CASE j = i
      BY <2>1 DEF TypeOK
    <2>2. CASE j # i
      <3>1. watch_table'[j] = watch_table[j] /\ watch_table[j] # NoEvent
        BY <2>2 DEF Occupied, TypeOK
      <3>2. watch_table[j] # e /\ watch_table[j] \in WatchEvents
        BY <3>1 DEF Watched, TypeOK
      <3>3. index[watch_table[j]] = j
        BY <3>1 DEF SlotsAgree, Occupied
      <3> QED  BY <3>1, <3>2, <3>3 DEF TypeOK
    <2> QED  BY <2>1, <2>2
  <1>5. \A f \in WatchEvents : index'[f] # -1 => watch_table'[index'[f]] = f
    <2> TAKE f \in WatchEvents
    <2> HAVE index'[f] # -1
    <2>1. CASE f = e
      BY <2>1 DEF TypeOK
    <2>2. CASE f # e
      <3>1. index'[f] = index[f] /\ index[f] \in Slots
        BY <2>2 DEF TypeOK
      <3>2. watch_table[index[f]] = f /\ f # NoEvent
        BY <3>1, <2>2 DEF SlotsAgree, Slots, WatchEvents, NoEvent
      <3> QED  BY <1>1, <3>1, <3>2 DEF TypeOK
    <2> QED  BY <2>1, <2>2
  <1> QED  BY <1>2, <1>3, <1>4, <1>5 DEF SlotsAgree

LEMMA NotWatchedIndex ==
    ASSUME TypeOK, SlotsAgree, NEW e \in WatchEvents, e \notin Watched
    PROVE  [index EXCEPT ![e] = -1] = index
  <1>1. index[e] = -1
    BY DEF SlotsAgree, Watched, TypeOK, Slots, WatchEvents, NoEvent
  <1> QED  BY <1>1 DEF TypeOK

LEMMA WatchedFds ==
    ASSUME TypeOK
    PROVE  /\ Watched \subseteq WatchEvents
           /\ \A f \in Watched : Fd(f) \in Int
  <1>1. commandsFd \in Int
    BY FdsAssumption DEF TypeOK, NoFd
  <1>2. Watched \subseteq WatchEvents
    BY DEF Watched, TypeOK
  <1> QED  BY <1>1, <1>2, FdsAssumption DEF Fd, WatchEvents

\* tgm_event_add of an event that is not watched keeps the table consistent.
LEMMA AddWatchTable ==
    ASSUME TypeOK, TableConsistent, pc[Registrar] # "nfds",
           NEW e \in WatchEvents, e \notin Watched,
           NEW fd \in Nat, Fd(e)' = fd,
           \A f \in Watched : Fd(f)' = Fd(f),
           NEW idx, idx = [index EXCEPT ![e] = -1],
           AddWatch(e, fd, idx)
    PROVE  /\ TableConsistent'
           /\ Watched' \subseteq Watched \cup {e}
           /\ Watched \subseteq Watched'
           /\ e \in Watched' \/ \A i \in Slots : Occupied(i)
  <1>1. SlotsAgree
    BY DEF TableConsistent, SlotsAgree
  <1>2. idx = index
    BY <1>1, NotWatchedIndex
  <1>3. \A f \in Watched : Fd(f) < nfds /\ Fd(f) \in Int
    BY WatchedFds DEF TableConsistent
  <1>4. CASE \A i \in Slots : Occupied(i)
    <2>1. UNCHANGED <<watch_table, index, readFds, nfds>>
      BY <1>2, <1>4 DEF AddWatch, FirstFree
    <2>2. Watched' = Watched
      BY <2>1 DEF Watched
    <2>3. TableConsistent'
      BY <1>3, <2>1, <2>2 DEF TableConsistent, Occupied
    <2> QED  BY <1>4, <2>2, <2>3
  <1>5. CASE ~ \A i \in Slots : Occupied(i)
    <2> PICK i \in Slots :
           /\ FirstFree(i)
           /\ watch_table' = [watch_table EXCEPT ![i] = e]
           /\ index' = [index EXCEPT ![e] = i]
           /\ readFds' = readFds \cup {fd}
           /\ nfds' = IF fd >= nfds THEN fd + 1 ELSE nfds
      BY <1>2, <1>5 DEF AddWatch
    <2>1. SlotsAgree' /\ Watched' = Watched \cup {e}
      BY <1>1, TakeSlot
    <2>2. \A f \in Watched' : Fd(f)' < nfds'
      BY <1>3, <2>1 DEF TypeOK
    <2>3. TableConsistent'
      BY <2>1, <2>2 DEF SlotsAgree, TableConsistent
    <2> QED  BY <2>1, <2>3
  <1> QED  BY <1>4, <1>5

\* removeWatch keeps the table consistent.
LEMMA RemoveWatchTable ==
    ASSUME TypeOK, TableConsistent, pc[Registrar] # "nfds",
           "commands" \in Watched => commandsFd \in CommandFds,
           NEW e \in WatchEvents, NEW i \in Slots, watch_table[i] = e,
           commandsFd' = commandsFd,
           RemoveWatch(e, i)
    PROVE  TableConsistent' /\ Watched' = Watched \ {e}
  <1>1. e # NoEvent /\ index[e] = i
    BY DEF TableConsistent, Occupied, WatchEvents, NoEvent
  <1>2. \A j \in Slots : watch_table[j] = e => j = i
    BY <1>1 DEF TableConsistent, Occupied
  <1>3. Watched' = Watched \ {e}
    BY <1>1, <1>2 DEF RemoveWatch, Watched, TypeOK
  <1>4. \A f : Fd(f)' = Fd(f)
    BY DEF Fd
  <1>5. Watched \subseteq WatchEvents
    BY DEF Watched, TypeOK
  <1>6. \A f \in Watched \ {e} : Fd(f) # Fd(e)
    <2>1. e \in Watched
      BY <1>1 DEF Watched
    <2> QED  BY <1>5, <2>1, FdsDiffer
  <1>7. readFds' = {Fd(f)' : f \in Watched'}
    BY <1>3, <1>4, <1>6 DEF RemoveWatch, TableConsistent
  <1>8. \A f \in Watched' : Fd(f)' < nfds'
    <2>1. commandsFd \in Int
      BY FdsAssumption DEF TypeOK, NoFd
    <2>2. /\ Max({0} \cup {Fd(f) : f \in Watched \ {e}}) \in Nat
          /\ \A f \in Watched \ {e} :
                Fd(f) <= Max({0} \cup {Fd(g) : g \in Watched \ {e}})
      BY <1>5, <2>1, MaxProperties
    <2>3. \A f \in Watched : Fd(f) < nfds /\ Fd(f) \in Int
      BY <1>5, <2>1, FdsAssumption DEF TableConsistent, Fd, WatchEvents
    <2> DEFINE m == Max({0} \cup {Fd(f) : f \in Watched \ {e}})
    <2>4. nfds' = IF Fd(e) + 1 = nfds THEN 1 + m ELSE nfds
      BY DEF RemoveWatch
    <2>5. e \in Watched /\ nfds \in Nat
      BY <1>1 DEF Watched, TypeOK
    <2>6. m \in Nat /\ \A f \in Watched \ {e} : Fd(f) <= m
      BY <2>2
    <2> HIDE DEF m
    <2>7. \A f \in Watched \ {e} : Fd(f) < nfds'
      BY <2>3, <2>4, <2>5, <2>6
    <2> QED  BY <1>3, <1>4, <2>7
  <1>9. \A j \in Slots : Occupied(j)' => index'[watch_table'[j]] = j
    <2> TAKE j \in Slots
    <2> HAVE Occupied(j)'
    <2>1. j # i /\ watch_table'[j] = watch_table[j] /\ watch_table[j] # NoEvent
      BY DEF Occupied, RemoveWatch, TypeOK
    <2>2. watch_table[j] # e /\ watch_table[j] \in WatchEvents
      BY <1>2, <2>1 DEF TypeOK
    <2>3. index[watch_table[j]] = j
      BY <2>1 DEF TableConsistent, Occupied
    <2> QED  BY <2>1, <2>2, <2>3 DEF RemoveWatch, TypeOK
  <1>10. \A f \in WatchEvents : index'[f] # -1 => watch_table'[index'[f]] = f
    <2> TAKE f \in WatchEvents
    <2> HAVE index'[f] # -1
    <2>1. f # e /\ index'[f] = index[f] /\ index[f] \in Slots
      BY DEF RemoveWatch, TypeOK
    <2>2. watch_table[index[f]] = f
      BY <2>1 DEF TableConsistent, Slots
    <2>3. index[f] # i
      BY <2>1, <2>2
    <2> QED  BY <2>1, <2>2, <2>3 DEF RemoveWatch, TypeOK
  <1> QED  BY <1>3, <1>7, <1>8, <1>9, <1>10 DEF TableConsistent

\* A step that leaves the table alone.
LEMMA TableUnchanged ==
    ASSUME TableConsistent, UNCHANGED tableVars, UNCHANGED commandsFd,
           pc[Registrar] = "nfds" => pc'[Registrar] = "nfds"
    PROVE  TableConsistent' /\ Watched' = Watched /\ readFds' = readFds
  <1>1. Watched' = Watched /\ readFds' = readFds
    BY DEF Watched, tableVars
  <1>2. \A f : Fd(f)' = Fd(f)
    BY DEF Fd
  <1> QED  BY <1>1, <1>2 DEF TableConsistent, tableVars, Occupied

LEMMA ArmedInPending == \A e : Armed(e) <=> e \in Watched \/ InPending(e)
  BY DEF Armed, InPending, ToSet

Unique(e) == \A i, j \in DOMAIN pending_list :
                pending_list[i] = e /\ pending_list[j] = e => i = j

\* firePending takes the event off the list before it calls its callback.
LEMMA FiringPending ==
    ASSUME TypeOK, NEW e, Firing(e)
    PROVE  /\ InPending(e)
           /\ \A f : InPending(f)' => InPending(f)
           /\ \A f : Unique(f) => Unique(f)'
           /\ Unique(e) => ~InPending(e)'
  <1>1. /\ pending_list \in Seq(Timers \cup WatchEvents)
        /\ pending_list # << >>
        /\ pending_list' = Tail(pending_list)
        /\ pending_list[1] = e
    BY DEF TypeOK, Firing
  <1>2. /\ DOMAIN pending_list = 1 .. Len(pending_list)
        /\ Len(pending_list) \in Nat /\ Len(pending_list) > 0
        /\ DOMAIN pending_list' = 1 .. Len(pending_list) - 1
        /\ \A i \in 1 .. Len(pending_list) - 1 :
              pending_list'[i] = pending_list[i + 1]
    BY <1>1
  <1>3. \A i \in DOMAIN pending_list' :
           /\ i + 1 \in DOMAIN pending_list /\ i + 1 # 1
           /\ pending_list'[i] = pending_list[i + 1]
    BY <1>2
  <1>4. 1 \in DOMAIN pending_list
    BY <1>2
  <1>5. \A i, j \in DOMAIN pending_list' : i + 1 = j + 1 => i = j
    BY <1>2
  <1> QED  BY <1>1, <1>3, <1>4, <1>5 DEF InPending, Unique

\* A step that changes neither table, nor sockets, nor what is registered, and
\* at most takes an event off the pending list.
LEMMA SocketsUnchanged ==
    ASSUME SocketInv, Watched' = Watched,
           \A f : InPending(f)' => InPending(f),
           \A f : Unique(f) => Unique(f)',
           UNCHANGED socketVars,
           pc'[Registrar] = "register" => pc[Registrar] = "register",
           loop' # "relisten" \/ loop' = loop,
           loop' \in {"fire", "relisten"} \/ loop \notin {"fire", "relisten"}
           \/ \A i : i \notin DOMAIN pending_list'
    PROVE  SocketInv'
  <1>1. \A e : Armed(e)' => Armed(e)
    BY ArmedInPending DEF Armed, InPending, ToSet
  <1>2. loop' \notin {"fire", "relisten"}
           => ~InPending("listen")' /\ ~InPending("commands")'
    BY DEF SocketInv, InPending
  <1>3. \A e \in {"listen", "commands"} : Unique(e)'
    BY DEF SocketInv, Unique
  <1> QED  BY <1>1, <1>2, <1>3 DEF SocketInv, socketVars, Unique

LEMMA LockFreeRegistrar ==
    ASSUME MutexInv, LockFree
    PROVE  pc[Registrar] # "nfds"
  BY DEF MutexInv, LockFree

\* What a concatenation contains.
LEMMA ConcatElement ==
    ASSUME NEW S, NEW T, NEW p \in Seq(S), NEW q \in Seq(T)
    PROVE  /\ DOMAIN (p \o q) = 1 .. Len(p) + Len(q)
           /\ \A i \in DOMAIN (p \o q) :
                 \/ i \in DOMAIN p /\ (p \o q)[i] = p[i]
                 \/ i - Len(p) \in DOMAIN q /\ (p \o q)[i] = q[i - Len(p)]
           /\ \A i \in DOMAIN q : q[i] \in T
  <1>1. p \in Seq(S \cup T) /\ q \in Seq(S \cup T)
    OBVIOUS
  <1>2. /\ p \o q \in Seq(S \cup T)
        /\ Len(p \o q) = Len(p) + Len(q)
        /\ \A i \in 1 .. Len(p) + Len(q) :
              (p \o q)[i] = IF i <= Len(p) THEN p[i] ELSE q[i - Len(p)]
    BY <1>1, ConcatProperties, Zenon
  <1>3. /\ DOMAIN p = 1 .. Len(p) /\ DOMAIN q = 1 .. Len(q)
        /\ Len(p) \in Nat /\ Len(q) \in Nat
        /\ \A i \in DOMAIN q : q[i] \in T
    OBVIOUS
  <1> DEFINE r == p \o q
  <1>4. DOMAIN r = 1 .. Len(r)
    BY <1>2
  <1> HIDE DEF r
  <1>5. \A i \in 1 .. Len(p) + Len(q) : i > Len(p) => i - Len(p) \in 1 .. Len(q)
    BY <1>3
  <1> QED  BY <1>2, <1>3, <1>4, <1>5 DEF r

\* StructInv is inductive.
LEMMA StructInvInit == Init => StructInv
  <1> SUFFICES ASSUME Init PROVE StructInv
    OBVIOUS
  <1>1. TypeOK
    BY InitType
  <1>2. Watched = {}
    BY DEF Init, Watched
  <1>3. \A e : ~InPending(e) /\ ~Armed(e)
    BY <1>2, ArmedInPending DEF Init, InPending
  <1> QED
    BY <1>1, <1>2, <1>3, ThreadsAssumption
    DEF Init, StructInv, MutexInv, PipeInv, TableConsistent, SocketInv,
        SelectInv, InPending, Occupied, Sleeping

LEMMA StructInvNext == StructInv /\ [Next]_vars => StructInv'
  <1> SUFFICES ASSUME StructInv, [Next]_vars PROVE StructInv'
    OBVIOUS
  <1> USE DEF StructInv
  <1>0. TypeOK'
    BY NextType
  <1>a. ASSUME UNCHANGED pc, UNCHANGED listMutex PROVE MutexInv'
    BY <1>a DEF MutexInv
  <1>b. ASSUME UNCHANGED <<tableVars, pending_list, socketVars, pc>>
        PROVE  /\ TableConsistent' /\ Watched' = Watched /\ readFds' = readFds
               /\ \A f : InPending(f)' => InPending(f)
               /\ \A f : Unique(f) => Unique(f)'
    BY <1>b, TableUnchanged DEF InPending, Unique, socketVars
  <1>1. CASE OpenPipe
    <2>1. UNCHANGED <<tableVars, pending_list, socketVars, pc, listMutex>>
      BY <1>1 DEF OpenPipe
    <2>2. SocketInv'
      BY <1>1, <1>b, <2>1, SocketsUnchanged DEF OpenPipe
    <2> QED  BY <1>0, <1>1, <1>a, <1>b, <2>1, <2>2
             DEF OpenPipe, PipeInv, SelectInv, Sleeping
  <1>2. CASE AddWakeup
    <2>1. "wakeup" \in WatchEvents /\ "wakeup" \notin Watched
      BY <1>2 DEF AddWakeup, PipeInv, WatchEvents
    <2>2. [index EXCEPT !["wakeup"] = -1] = index
      BY <2>1, NotWatchedIndex DEF TableConsistent, SlotsAgree
    <2>3. \A f : Fd(f)' = Fd(f)
      BY <1>2 DEF AddWakeup, socketVars, Fd
    <2>4. Fd("wakeup")' = WakeupFd /\ WakeupFd \in Nat
      BY FdsAssumption DEF Fd
    <2>5. /\ TableConsistent'
          /\ Watched' \subseteq Watched \cup {"wakeup"}
          /\ Watched \subseteq Watched'
      BY <1>2, <2>1, <2>2, <2>3, <2>4, AddWatchTable, LockFreeRegistrar
      DEF AddWakeup
    <2>6. UNCHANGED <<pending_list, socketVars, pc, listMutex, pipe>>
      BY <1>2 DEF AddWakeup
    <2>7. SocketInv'
      <3>1. \A f : InPending(f)' <=> InPending(f)
        BY <2>6 DEF InPending
      <3>2. \A f \in {"listen", "commands"} :
               f \in Watched' <=> f \in Watched
        BY <2>5
      <3>3. \A f \in {"listen", "commands"} : Armed(f)' <=> Armed(f)
        BY <3>1, <3>2, ArmedInPending DEF Armed, ToSet, InPending
      <3> QED  BY <1>2, <2>6, <3>1, <3>2, <3>3
               DEF AddWakeup, SocketInv, socketVars
    <2> QED  BY <1>0, <1>2, <1>a, <2>5, <2>6, <2>7
             DEF AddWakeup, PipeInv, SelectInv, Sleeping
  <1>3. CASE CopyReadFds \/ CalcNextTimeout \/ EnterSelect
    <2>1. UNCHANGED <<tableVars, pending_list, socketVars, pc, listMutex, pipe>>
      BY <1>3 DEF CopyReadFds, CalcNextTimeout, EnterSelect
    <2>2. SocketInv'
      BY <1>3, <1>b, <2>1, SocketsUnchanged
      DEF CopyReadFds, CalcNextTimeout, EnterSelect
    <2>3. PipeInv' /\ SelectInv'
      BY <1>3, <1>b, <2>1
      DEF CopyReadFds, CalcNextTimeout, EnterSelect, PipeInv, SelectInv,
          Sleeping
    <2> QED  BY <1>0, <1>a, <1>b, <2>1, <2>2, <2>3
  <1>4. CASE SelectReturns \/ SelectInterrupted \/ FireDone
    <2>1. UNCHANGED <<tableVars, pending_list, socketVars, pc, listMutex, pipe>>
      BY <1>4 DEF SelectReturns, SelectInterrupted, FireDone
    <2>2. loop' \notin {"fire", "relisten"} /\ loop' \notin {"pipe", "addWakeup"}
          /\ (loop \notin {"fire", "relisten"} \/ pending_list = << >>)
          /\ loop # "pipe" /\ loop' \notin {"calc", "enter", "select"}
      BY <1>4 DEF SelectReturns, SelectInterrupted, FireDone
    <2>3. SocketInv'
      BY <1>b, <2>1, <2>2, SocketsUnchanged
    <2> QED  BY <1>0, <1>a, <1>b, <2>1, <2>2, <2>3
             DEF PipeInv, SelectInv, Sleeping
  <1>5. CASE ProcessTimeouts
    <2>1. UNCHANGED <<tableVars, socketVars, pc, listMutex, pipe>>
      BY <1>5 DEF ProcessTimeouts
    <2>2. TableConsistent' /\ Watched' = Watched
      BY <2>1, TableUnchanged DEF socketVars
    <2>3. \A e \in {"listen", "commands"} : ~InPending(e)'
      <3>1. PICK k \in 0 .. Len(timer_list) :
              pending_list' = pending_list \o SubSeq(timer_list, 1, k)
        BY <1>5 DEF ProcessTimeouts
      <3>2. \A e \in {"listen", "commands"} : ~InPending(e) /\ e \notin Timers
        BY <1>5, TimersAssumption DEF ProcessTimeouts, SocketInv, WatchEvents
      <3>3. SubSeq(timer_list, 1, k) \in Seq(Timers)
        BY DEF TypeOK
      <3>4. pending_list \in Seq(Timers \cup WatchEvents)
        BY DEF TypeOK
      <3> QED  BY <3>1, <3>2, <3>3, <3>4, ConcatElement DEF InPending
    <2>4. SocketInv'
      <3>1. \A e \in {"listen", "commands"} : Armed(e)' => Armed(e)
        BY <2>2, <2>3, ArmedInPending DEF Armed, ToSet, InPending
      <3> QED  BY <1>5, <2>1, <2>2, <2>3, <3>1
               DEF ProcessTimeouts, SocketInv, socketVars, InPending
    <2> QED  BY <1>0, <1>5, <1>a, <2>1, <2>2, <2>4
             DEF ProcessTimeouts, PipeInv, SelectInv, Sleeping
  <1>6. CASE ProcessReadReadies
    <2>1. UNCHANGED <<socketVars, pc, listMutex, pipe>> /\ loop = "readies"
          /\ loop' = "fire" /\ pc[Registrar] # "nfds"
      BY <1>6, LockFreeRegistrar DEF ProcessReadReadies
    <2>2. PICK n \in 0 .. MaxFdEvents :
            \E events \in [1 .. n -> ReadyEvents] :
              /\ InSlotOrder(events)
              /\ pending_list' = pending_list \o events
      BY <1>6 DEF ProcessReadReadies
    <2>3. PICK events \in [1 .. n -> ReadyEvents] :
              /\ InSlotOrder(events)
              /\ pending_list' = pending_list \o events
      BY <2>2
    <2>4. /\ TableConsistent'
          /\ Watched' \subseteq Watched
          /\ "commands" \in Watched => "commands" \in Watched'
          /\ "wakeup" \in Watched => "wakeup" \in Watched'
          /\ "listen" \in Watched' => "listen" \notin ReadyEvents
      <3>1. ASSUME NEW i \in Slots, watch_table[i] = "listen",
                   RemoveWatch("listen", i)
            PROVE  TableConsistent' /\ Watched' = Watched \ {"listen"}
        <4>1. "commands" \in Watched => commandsFd \in CommandFds
          BY ArmedInPending DEF SocketInv
        <4>2. "listen" \in WatchEvents /\ commandsFd' = commandsFd
          BY <2>1 DEF WatchEvents, socketVars
        <4> QED  BY <2>1, <3>1, <4>1, <4>2, RemoveWatchTable
      <3>2. CASE \E i \in Slots : /\ watch_table[i] = "listen"
                                  /\ RemoveWatch("listen", i)
        BY <3>1, <3>2
      <3>3. CASE /\ \A i \in Slots : watch_table[i] = "listen" =>
                                       ~IsReady("listen") \/ Persist("listen")
                 /\ UNCHANGED tableVars
        <4>1. TableConsistent' /\ Watched' = Watched
          BY <2>1, <3>3, TableUnchanged DEF socketVars
        <4>2. "listen" \notin ReadyEvents
          BY <3>3 DEF ReadyEvents, Watched, Persist
        <4> QED  BY <4>1, <4>2
      <3> QED  BY <1>6, <3>2, <3>3 DEF ProcessReadReadies
    <2>5. ReadyEvents \subseteq Watched
      BY DEF ReadyEvents
    <2>6. /\ \A e \in {"listen", "commands"} : ~InPending(e)
          /\ Watched \subseteq WatchEvents
      BY <2>1, WatchedFds DEF SocketInv
    <2>7. /\ pending_list \in Seq(Timers \cup WatchEvents)
          /\ n \in Nat /\ DOMAIN events = 1 .. n
          /\ events \in Seq(ReadyEvents)
      BY BoundsAssumption DEF TypeOK
    <2>8. \A e \in {"listen", "commands"} : \A i \in DOMAIN pending_list' :
             pending_list'[i] = e =>
                /\ i - Len(pending_list) \in DOMAIN events
                /\ events[i - Len(pending_list)] = e
      BY <2>3, <2>6, <2>7, ConcatElement DEF InPending
    <2>9. \A e \in {"listen", "commands"} : InPending(e)' => e \in ReadyEvents
      BY <2>7, <2>8 DEF InPending
    <2>10. \A e \in {"listen", "commands"} : Unique(e)'
      <3> TAKE e \in {"listen", "commands"}
      <3> SUFFICES ASSUME NEW i \in DOMAIN pending_list',
                          NEW j \in DOMAIN pending_list',
                          pending_list'[i] = e, pending_list'[j] = e
                   PROVE  i = j
        BY DEF Unique
      <3> DEFINE k == i - Len(pending_list)
                 m == j - Len(pending_list)
      <3>1. k \in DOMAIN events /\ m \in DOMAIN events
            /\ events[k] = e /\ events[m] = e
        BY <2>8
      <3>2. index[e] \in Int
        BY DEF TypeOK, Slots, WatchEvents
      <3>3. ~(k < m) /\ ~(m < k)
        BY <2>3, <3>1, <3>2 DEF InSlotOrder
      <3>4. k \in Int /\ m \in Int
        BY <2>7, <3>1
      <3>5. k = m
        <4> HIDE DEF k, m
        <4> QED  BY <3>3, <3>4
      <3>6. /\ DOMAIN pending_list' = 1 .. Len(pending_list) + Len(events)
            /\ Len(pending_list) \in Nat /\ Len(events) \in Nat
        BY <2>3, <2>7, ConcatElement
      <3>7. i \in Int /\ j \in Int
        BY <3>6
      <3> QED  BY <3>5, <3>6, <3>7
    <2>11. \A e \in {"listen", "commands"} : Armed(e)' => Armed(e)
      BY <2>4, <2>5, <2>9, ArmedInPending DEF Armed, ToSet, InPending
    <2>12. SocketInv'
      BY <2>1, <2>4, <2>5, <2>9, <2>10, <2>11
      DEF SocketInv, Unique, socketVars
    <2> QED  BY <1>0, <1>a, <2>1, <2>4, <2>12
             DEF PipeInv, SelectInv, Sleeping
  <1>7. ASSUME NEW e, Firing(e), UNCHANGED <<tableVars, socketVars, pc, listMutex, loop>>,
               pipe' # "none" \/ pipe' = pipe
        PROVE  StructInv'
    <2>1. TableConsistent' /\ Watched' = Watched
      BY <1>7, TableUnchanged DEF socketVars
    <2>2. SocketInv'
      BY <1>7, <2>1, FiringPending, SocketsUnchanged
    <2> QED  BY <1>0, <1>7, <1>a, <2>1, <2>2
             DEF Firing, PipeInv, SelectInv, Sleeping
  <1>8. CASE FireListenAccept
    <2>1. Firing("listen") /\ pc[Registrar] # "nfds" /\ UNCHANGED <<pc, listMutex, pipe, loop>>
      BY <1>8, LockFreeRegistrar DEF FireListenAccept
    <2>2. PICK fd \in CommandFds :
              /\ s_fdCommand' = fd /\ commandsFd' = fd
              /\ AddWatch("commands", fd, [index EXCEPT !["commands"] = -1])
      BY <1>8 DEF FireListenAccept
    <2>3. /\ InPending("listen") /\ ~InPending("listen")'
          /\ \A f : InPending(f)' => InPending(f)
          /\ \A f \in {"listen", "commands"} : Unique(f)'
      BY <2>1, FiringPending DEF SocketInv, Unique
    <2>4. /\ Armed("listen") /\ ~Armed("commands")
          /\ "listen" \notin Watched /\ "commands" \notin Watched
          /\ ~InPending("commands") /\ pc[Registrar] # "register"
      BY <2>3, ArmedInPending DEF SocketInv
    <2>5. Fd("commands")' = fd /\ fd \in Nat /\ "commands" \in WatchEvents
      BY <2>2, FdsAssumption DEF Fd, WatchEvents
    <2>6. \A f \in Watched : Fd(f)' = Fd(f)
      BY <2>4, WatchedFds DEF Fd, WatchEvents
    <2>7. /\ TableConsistent'
          /\ Watched' \subseteq Watched \cup {"commands"}
          /\ Watched \subseteq Watched'
      BY <2>1, <2>2, <2>4, <2>5, <2>6, AddWatchTable
    <2>8. ~Armed("listen")' /\ ~InPending("commands")'
      BY <2>3, <2>4, <2>7, ArmedInPending DEF Armed, ToSet, InPending
    <2>9. SocketInv'
      BY <2>1, <2>2, <2>3, <2>4, <2>8
      DEF SocketInv, Unique, Firing
    <2> QED  BY <1>0, <1>a, <2>1, <2>7, <2>9
             DEF Firing, PipeInv, SelectInv, Sleeping
  <1>9. CASE FireListenFail
    <2>1. /\ Firing("listen") /\ pc[Registrar] # "nfds"
          /\ UNCHANGED <<pc, listMutex, pipe, loop, commandsFd>>
      BY <1>9, LockFreeRegistrar DEF FireListenFail
    <2>2. /\ InPending("listen") /\ ~InPending("listen")'
          /\ \A f : InPending(f)' => InPending(f)
          /\ \A f \in {"listen", "commands"} : Unique(f)'
      BY <2>1, FiringPending DEF SocketInv, Unique
    <2>3. /\ Armed("listen") /\ ~Armed("commands")
          /\ "listen" \notin Watched /\ "commands" \notin Watched
          /\ ~InPending("commands") /\ pc[Registrar] # "register"
      BY <2>2, ArmedInPending DEF SocketInv
    <2>4. "listen" \in WatchEvents /\ Fd("listen")' = ListenFd /\ ListenFd \in Nat
      BY FdsAssumption DEF Fd, WatchEvents
    <2>5. [index EXCEPT !["listen"] = -1] = index
      BY <2>3, <2>4, NotWatchedIndex DEF TableConsistent, SlotsAgree
    <2>6. \A f : Fd(f)' = Fd(f)
      BY <2>1 DEF Fd
    <2>7. /\ TableConsistent'
          /\ Watched' \subseteq Watched \cup {"listen"}
          /\ Watched \subseteq Watched'
      BY <1>9, <2>1, <2>3, <2>4, <2>5, <2>6, AddWatchTable DEF FireListenFail
    <2>8. ~Armed("commands")' /\ ~InPending("commands")'
      BY <2>2, <2>3, <2>7, ArmedInPending DEF Armed, ToSet, InPending
    <2>9. SocketInv'
      BY <2>1, <2>2, <2>3, <2>8 DEF SocketInv, Unique, Firing
    <2> QED  BY <1>0, <1>a, <2>1, <2>7, <2>9
             DEF Firing, PipeInv, SelectInv, Sleeping
  <1>10. CASE FireCommandsEof
    <2>1. /\ Firing("commands") /\ pc[Registrar] # "nfds"
          /\ UNCHANGED <<pc, listMutex, pipe, commandsFd>>
          /\ loop' = "relisten" /\ index["commands"] \in Slots
          /\ RemoveWatch("commands", index["commands"])
      BY <1>10, LockFreeRegistrar DEF FireCommandsEof
    <2>2. /\ InPending("commands") /\ ~InPending("commands")'
          /\ \A f : InPending(f)' => InPending(f)
          /\ \A f \in {"listen", "commands"} : Unique(f)'
      BY <2>1, FiringPending DEF SocketInv, Unique
    <2>3. /\ Armed("commands") /\ ~Armed("listen") /\ pc[Registrar] # "register"
          /\ commandsFd \in CommandFds
          /\ "listen" \notin Watched /\ ~InPending("listen")
      BY <2>2, ArmedInPending DEF SocketInv
    <2>4. "commands" \in WatchEvents /\ watch_table[index["commands"]] = "commands"
      BY <2>1 DEF TableConsistent, WatchEvents, Slots
    <2>5. TableConsistent' /\ Watched' = Watched \ {"commands"}
      BY <2>1, <2>3, <2>4, RemoveWatchTable
    <2>6. ~Armed("listen")' /\ ~Armed("commands")' /\ ~InPending("listen")'
      BY <2>2, <2>3, <2>5, ArmedInPending DEF Armed, ToSet, InPending
    <2>7. SocketInv'
      BY <2>1, <2>2, <2>3, <2>6 DEF SocketInv, Unique
    <2> QED  BY <1>0, <1>a, <2>1, <2>5, <2>7
             DEF Firing, PipeInv, SelectInv, Sleeping
  <1>11. CASE Relisten
    <2>1. /\ loop = "relisten" /\ loop' = "fire" /\ pc[Registrar] # "nfds"
          /\ UNCHANGED <<pending_list, pc, listMutex, pipe, socketVars>>
      BY <1>11, LockFreeRegistrar DEF Relisten
    <2>2. /\ ~Armed("listen") /\ ~Armed("commands") /\ pc[Registrar] # "register"
          /\ "listen" \notin Watched /\ "commands" \notin Watched
          /\ ~InPending("commands") /\ ~InPending("listen")
      BY <2>1, ArmedInPending DEF SocketInv
    <2>3. "listen" \in WatchEvents /\ Fd("listen")' = ListenFd /\ ListenFd \in Nat
      BY FdsAssumption DEF Fd, WatchEvents
    <2>4. [index EXCEPT !["listen"] = -1] = index
      BY <2>2, <2>3, NotWatchedIndex DEF TableConsistent, SlotsAgree
    <2>5. \A f : Fd(f)' = Fd(f)
      BY <2>1 DEF Fd, socketVars
    <2>6. /\ TableConsistent'
          /\ Watched' \subseteq Watched \cup {"listen"}
          /\ Watched \subseteq Watched'
      BY <1>11, <2>1, <2>2, <2>3, <2>4, <2>5, AddWatchTable DEF Relisten
    <2>7. ~Armed("commands")' /\ ~InPending("commands")' /\ ~InPending("listen")'
      BY <2>1, <2>2, <2>6, ArmedInPending DEF Armed, ToSet, InPending
    <2>8. SocketInv'
      BY <2>1, <2>2, <2>7 DEF SocketInv, InPending
    <2> QED  BY <1>0, <1>a, <2>1, <2>6, <2>8
             DEF PipeInv, SelectInv, Sleeping
  <1>12. CASE RegisterInsert
    <2>1. /\ pc[Registrar] = "register" /\ pc'[Registrar] = "nfds"
          /\ listMutex' = Registrar /\ nfds' = nfds
          /\ UNCHANGED <<pending_list, pipe, loop, socketVars, rfds>>
      BY <1>12, ThreadsAssumption DEF RegisterInsert, TypeOK, selectVars
    <2>2. MutexInv'
      BY <1>12, <2>1, ThreadsAssumption DEF RegisterInsert, MutexInv, TypeOK
    <2>3. /\ ~Armed("listen") /\ ~Armed("commands") /\ loop # "relisten"
          /\ "listen" \notin Watched /\ "commands" \notin Watched
          /\ ~InPending("commands") /\ ~InPending("listen")
      BY <2>1, ArmedInPending DEF SocketInv
    <2>4. \A f : Fd(f)' = Fd(f)
      BY <2>1 DEF Fd, socketVars
    <2>5. SlotsAgree
      BY DEF TableConsistent, SlotsAgree
    <2>6. SlotsAgree' /\ Watched \subseteq Watched' /\ Watched' \subseteq Watched \cup {"listen"}
      <3>1. CASE \A i \in Slots : Occupied(i)
        <4>1. UNCHANGED <<watch_table, index, readFds>>
          BY <1>12, <3>1 DEF RegisterInsert, FirstFree
        <4>2. Watched' = Watched
          BY <4>1 DEF Watched
        <4> QED  BY <2>4, <2>5, <4>1, <4>2 DEF SlotsAgree, Occupied
      <3>2. CASE ~ \A i \in Slots : Occupied(i)
        <4> PICK i \in Slots :
             /\ FirstFree(i)
             /\ watch_table' = [watch_table EXCEPT ![i] = "listen"]
             /\ index' = [index EXCEPT !["listen"] = i]
             /\ readFds' = readFds \cup {ListenFd}
          BY <1>12, <3>2 DEF RegisterInsert
        <4>1. "listen" \in WatchEvents /\ Fd("listen")' = ListenFd
          BY DEF Fd, WatchEvents
        <4> QED  BY <2>3, <2>4, <2>5, <4>1, TakeSlot
      <3> QED  BY <3>1, <3>2
    <2>7. TableConsistent'
      <3>1. \A f \in Watched' : f \in Watched \/ f = "listen"
        BY <2>6
      <3>2. \A f \in Watched : Fd(f) < nfds \/ f = "listen"
        BY DEF TableConsistent
      <3>3. \A f \in Watched' : Fd(f)' < nfds' \/ (f = "listen" /\ pc'[Registrar] = "nfds")
        BY <2>1, <2>4, <3>1, <3>2
      <3> QED  BY <2>6, <3>3 DEF SlotsAgree, TableConsistent
    <2>8. ~Armed("commands")' /\ ~InPending("commands")' /\ ~InPending("listen")'
      BY <2>1, <2>3, <2>6, ArmedInPending DEF Armed, ToSet, InPending
    <2>9. SocketInv'
      BY <2>1, <2>3, <2>8 DEF SocketInv, InPending
    <2>10. readFds \subseteq readFds'
      BY <1>12 DEF RegisterInsert
    <2> QED  BY <1>0, <2>1, <2>2, <2>6, <2>7, <2>9, <2>10
             DEF PipeInv, SelectInv, Sleeping
  <1>13. CASE RegisterNfds
    <2>1. /\ pc[Registrar] = "nfds" /\ pc' = [pc EXCEPT ![Registrar] = "trigger"]
          /\ UNCHANGED <<watch_table, index, readFds, pending_list, pipe, loop, socketVars, rfds>>
          /\ nfds' = IF index["listen"] # -1 /\ ListenFd >= nfds
                     THEN ListenFd + 1 ELSE nfds
      BY <1>13 DEF RegisterNfds, selectVars
    <2>2. MutexInv'
      BY <2>1, ThreadsAssumption DEF MutexInv, TypeOK
    <2>3. Watched' = Watched /\ \A f : Fd(f)' = Fd(f)
      BY <2>1 DEF Watched, Fd, socketVars
    <2>4. TableConsistent'
      <3>1. \A f \in Watched : Fd(f) \in Int /\ (Fd(f) < nfds \/ f = "listen")
        BY WatchedFds DEF TableConsistent
      <3>2. "listen" \in Watched => index["listen"] # -1
        BY DEF TableConsistent, Watched, Occupied, Slots, NoEvent
      <3>3. Fd("listen") = ListenFd /\ ListenFd \in Nat /\ nfds \in Nat
        BY FdsAssumption DEF Fd, TypeOK
      <3>4. \A f \in Watched : Fd(f) < nfds'
        BY <2>1, <3>1, <3>2, <3>3
      <3> QED  BY <2>1, <2>3, <3>4 DEF TableConsistent, Occupied
    <2>5. SocketInv'
      <3>1. /\ \A f : InPending(f)' => InPending(f)
            /\ \A f : Unique(f) => Unique(f)'
        BY <2>1 DEF InPending, Unique
      <3>2. pc'[Registrar] # "register"
        BY <2>1, ThreadsAssumption DEF TypeOK
      <3> QED  BY <2>1, <2>3, <3>1, <3>2, SocketsUnchanged
    <2> QED  BY <1>0, <2>1, <2>2, <2>3, <2>4, <2>5
             DEF PipeInv, SelectInv, Sleeping
  <1>14. ASSUME NEW th \in Threads, AddTimer(th) \/ Trigger(th)
         PROVE  StructInv'
    <2>1. /\ pc[th] \in {"idle", "trigger"}
          /\ pc' = [pc EXCEPT ![th] = IF pc[th] = "idle" THEN "trigger" ELSE "idle"]
          /\ UNCHANGED <<tableVars, pending_list, listMutex, loop, socketVars, selectVars>>
          /\ pipe' = "none" => pipe = "none"
      BY <1>14 DEF AddTimer, Trigger
    <2>2. /\ pc'[Registrar] = "nfds" <=> pc[Registrar] = "nfds"
          /\ pc'[Registrar] = "register" <=> pc[Registrar] = "register"
          /\ MutexInv'
      BY <2>1, ThreadsAssumption DEF MutexInv, TypeOK
    <2>3. TableConsistent' /\ Watched' = Watched /\ readFds' = readFds
      BY <2>1, <2>2, TableUnchanged DEF socketVars
    <2>4. SocketInv'
      <3>1. /\ \A f : InPending(f)' => InPending(f)
            /\ \A f : Unique(f) => Unique(f)'
        BY <2>1 DEF InPending, Unique
      <3> QED  BY <2>1, <2>2, <2>3, <3>1, SocketsUnchanged
    <2> QED  BY <1>0, <2>1, <2>2, <2>3, <2>4
             DEF PipeInv, SelectInv, Sleeping, selectVars
  <1>15. CASE EnvStep \/ UNCHANGED vars
    <2>1. UNCHANGED <<tableVars, pending_list, listMutex, pipe, loop, rfds, pc, socketVars>>
      BY <1>15 DEF EnvStep, ClientConnects, ClientGivesUp, ClientSends,
                   ClientCloses, Tick, vars, selectVars
    <2>2. SocketInv'
      BY <1>b, <2>1, SocketsUnchanged
    <2> QED  BY <1>0, <1>a, <1>b, <2>1, <2>2 DEF PipeInv, SelectInv, Sleeping
  <1>16. ASSUME NEW t \in Timers, FireTimer(t) PROVE StructInv'
    BY <1>7, <1>16 DEF FireTimer
  <1>17. CASE FireWakeup \/ FireCommandsData
    BY <1>7, <1>17 DEF FireWakeup, FireCommandsData
  <1> QED
    BY <1>1, <1>2, <1>3, <1>4, <1>5, <1>6, <1>8, <1>9, <1>10, <1>11, <1>12,
       <1>13, <1>14, <1>15, <1>16, <1>17
    DEF Next, LoopStep, ThreadStep

LEMMA StructInvInvariant == Spec => []StructInv
  BY StructInvInit, StructInvNext, PTL DEF Spec

\* Slots, indexes, the fd_set and nfds never disagree.
THEOREM TableStaysConsistent == Spec => []TableConsistent
  <1>1. StructInv => TableConsistent
    BY DEF StructInv
  <1> QED  BY <1>1, StructInvInvariant, PTL

\* select is never given a closed descriptor, and tgm_event_del never takes the
\* early return that keeps listMutex locked.
THEOREM LoopStaysAlive == Spec => []LoopAlive
  <1>1. StructInv => LoopAlive
    <2> SUFFICES ASSUME StructInv PROVE LoopAlive
      OBVIOUS
    <2> USE DEF StructInv
    <2>1. Armed("commands") => commandsFd = s_fdCommand /\ commandsFd \in CommandFds
      BY DEF SocketInv
    <2>2. ASSUME loop = "select", NEW fd \in Selected PROVE Open(fd)
      <3>1. PICK e \in Watched : fd = Fd(e)
        BY <2>2 DEF Selected, SelectInv, Sleeping, TableConsistent
      <3>2. e \in WatchEvents
        BY <3>1, WatchedFds
      <3>3. e = "commands" => commandsFd = s_fdCommand
        BY <2>1, <3>1, ArmedInPending
      <3>4. pipe # "none"
        BY <2>2 DEF PipeInv
      <3> QED  BY <3>1, <3>2, <3>3, <3>4 DEF Open, Fd, WatchEvents
    <2>3. ASSUME "commands" \in ToSet(pending_list)
          PROVE  index["commands"] \in Slots /\ s_fdCommand # NoFd
      <3>1. Armed("commands") /\ "commands" \in Watched
        BY <2>3 DEF Armed, SocketInv, InPending, ToSet
      <3>2. index["commands"] \in Slots
        BY <3>1 DEF TableConsistent, Watched, Occupied
      <3> QED  BY <2>1, <3>1, <3>2, FdsAssumption DEF NoFd
    <2> QED  BY <2>2, <2>3 DEF LoopAlive
  <1> QED  BY <1>1, StructInvInvariant, PTL

-----------------------------------------------------------------------------
(* What holds when the table has room for two events (the code's has eight  *)
(* slots): the wakeup pipe is always watched and one of the two sockets is.  *)

ArmedInv ==
    /\ loop \notin {"pipe", "addWakeup"} => "wakeup" \in Watched
    /\ loop \in {"pipe", "addWakeup"} => ~Armed("commands")
    /\ Armed("listen") \/ pc[Registrar] = "register" \/ loop = "relisten"
          => s_fdCommand = NoFd
    /\ pc[Registrar] # "register" /\ loop # "relisten"
          => Armed("listen") \/ Armed("commands")

LEMMA RoomInTable ==
    ASSUME TypeOK, TableConsistent, MaxFdEvents >= 2,
           NEW e, Watched \subseteq {e}
    PROVE  ~ \A i \in Slots : Occupied(i)
  <1> SUFFICES ASSUME \A i \in Slots : Occupied(i) PROVE FALSE
    OBVIOUS
  <1>1. 0 \in Slots /\ 1 \in Slots
    BY BoundsAssumption DEF Slots
  <1>2. watch_table[0] = e /\ watch_table[1] = e
    BY <1>1 DEF Watched, Occupied
  <1>3. index[e] = 0 /\ index[e] = 1
    BY <1>1, <1>2 DEF TableConsistent
  <1> QED  BY <1>3

LEMMA ArmedInvInit == Init => ArmedInv
  <1> SUFFICES ASSUME Init PROVE ArmedInv
    OBVIOUS
  <1>1. Watched = {} /\ \A e : ~InPending(e)
    BY DEF Init, Watched, InPending
  <1>2. \A e : ~Armed(e)
    BY <1>1, ArmedInPending
  <1> QED  BY <1>2, ThreadsAssumption DEF Init, ArmedInv

\* Whether the two sockets are armed is all ArmedInv needs of a step that
\* neither opens nor closes the command socket.
LEMMA ArmedInvSame ==
    ASSUME ArmedInv, "wakeup" \in Watched => "wakeup" \in Watched',
           Armed("listen")' <=> Armed("listen"),
           Armed("commands")' <=> Armed("commands"),
           pc'[Registrar] = "register" <=> pc[Registrar] = "register",
           loop' = "relisten" <=> loop = "relisten",
           loop' \in {"pipe", "addWakeup"} <=> loop \in {"pipe", "addWakeup"},
           s_fdCommand' = s_fdCommand
    PROVE  ArmedInv'
  BY DEF ArmedInv

LEMMA ArmedSame ==
    ASSUME Watched' = Watched, \A e \in {"listen", "commands"} :
                                  InPending(e)' <=> InPending(e)
    PROVE  /\ Armed("listen")' <=> Armed("listen")
           /\ Armed("commands")' <=> Armed("commands")
  BY ArmedInPending DEF Armed, ToSet, InPending

\* Pending events other than the one that fires stay pending.
LEMMA FiringKeeps ==
    ASSUME TypeOK, NEW e, Firing(e)
    PROVE  \A f : f # e /\ InPending(f) => InPending(f)'
  <1>1. /\ pending_list \in Seq(Timers \cup WatchEvents)
        /\ pending_list # << >>
        /\ pending_list' = Tail(pending_list)
        /\ pending_list[1] = e
    BY DEF TypeOK, Firing
  <1>2. /\ DOMAIN pending_list = 1 .. Len(pending_list)
        /\ Len(pending_list) \in Nat /\ Len(pending_list) > 0
        /\ DOMAIN pending_list' = 1 .. Len(pending_list) - 1
        /\ \A i \in 1 .. Len(pending_list) - 1 :
              pending_list'[i] = pending_list[i + 1]
    BY <1>1
  <1>3. ASSUME NEW i \in DOMAIN pending_list, i # 1
        PROVE  i - 1 \in DOMAIN pending_list' /\ pending_list'[i - 1] = pending_list[i]
    BY <1>2, <1>3
  <1> QED  BY <1>1, <1>3 DEF InPending

LEMMA ArmedInvNext ==
    ASSUME MaxFdEvents >= 2, StructInv, StructInv', ArmedInv, [Next]_vars
    PROVE  ArmedInv'
  <1> USE DEF StructInv
  <1>a. ASSUME UNCHANGED <<tableVars, pending_list>>
        PROVE  /\ Watched' = Watched
               /\ Armed("listen")' <=> Armed("listen")
               /\ Armed("commands")' <=> Armed("commands")
    <2>1. Watched' = Watched /\ \A e : InPending(e)' <=> InPending(e)
      BY <1>a DEF Watched, InPending, tableVars
    <2> QED  BY <2>1, ArmedSame
  <1>1. CASE OpenPipe
    <2>1. UNCHANGED <<tableVars, pending_list, pc, s_fdCommand>>
      BY <1>1 DEF OpenPipe, socketVars
    <2> QED  BY <1>1, <1>a, <2>1, ArmedInvSame DEF OpenPipe
  <1>2. CASE AddWakeup
    <2>1. /\ UNCHANGED <<pending_list, pc, socketVars>> /\ loop = "addWakeup"
          /\ loop' = "copy" /\ pc[Registrar] # "nfds"
          /\ AddWatch("wakeup", WakeupFd, index)
      BY <1>2, LockFreeRegistrar DEF AddWakeup
    <2>2. "wakeup" \in WatchEvents /\ "wakeup" \notin Watched /\ "commands" \notin Watched
      BY <2>1, ArmedInPending DEF PipeInv, WatchEvents, ArmedInv
    <2>3. Watched \subseteq {"listen"}
      BY <2>2, WatchedFds DEF WatchEvents
    <2>4. ~ \A i \in Slots : Occupied(i)
      BY <2>3, RoomInTable
    <2>5. [index EXCEPT !["wakeup"] = -1] = index
      BY <2>2, NotWatchedIndex DEF TableConsistent, SlotsAgree
    <2>6. \A f : Fd(f)' = Fd(f)
      BY <2>1 DEF socketVars, Fd
    <2>7. Fd("wakeup")' = WakeupFd /\ WakeupFd \in Nat
      BY FdsAssumption DEF Fd
    <2>8. /\ Watched' \subseteq Watched \cup {"wakeup"}
          /\ Watched \subseteq Watched' /\ "wakeup" \in Watched'
      BY <2>1, <2>2, <2>4, <2>5, <2>6, <2>7, AddWatchTable
    <2>9. \A e \in {"listen", "commands"} : Armed(e)' <=> Armed(e)
      BY <2>1, <2>8, ArmedInPending DEF Armed, ToSet, InPending
    <2> QED  BY <2>1, <2>8, <2>9 DEF ArmedInv, socketVars
  <1>3. CASE \/ CopyReadFds \/ CalcNextTimeout \/ EnterSelect
             \/ SelectReturns \/ SelectInterrupted \/ FireDone
    <2>1. /\ UNCHANGED <<tableVars, pending_list, pc, s_fdCommand>>
          /\ loop \notin {"pipe", "addWakeup", "relisten"}
          /\ loop' \notin {"pipe", "addWakeup", "relisten"}
      BY <1>3 DEF CopyReadFds, CalcNextTimeout, EnterSelect, SelectReturns,
                  SelectInterrupted, FireDone, socketVars
    <2> QED  BY <1>a, <2>1, ArmedInvSame
  <1>4. CASE ProcessTimeouts
    <2>1. /\ UNCHANGED <<tableVars, pc, s_fdCommand>>
          /\ loop = "timeouts" /\ loop' = "readies"
      BY <1>4 DEF ProcessTimeouts, socketVars
    <2>2. \A e \in {"listen", "commands"} : ~InPending(e) /\ ~InPending(e)'
      BY <2>1 DEF SocketInv
    <2>3. Watched' = Watched
      BY <2>1 DEF Watched, tableVars
    <2> QED  BY <2>1, <2>2, <2>3, ArmedSame, ArmedInvSame
  <1>5. CASE ProcessReadReadies
    <2>1. /\ UNCHANGED <<pc, socketVars>> /\ loop = "readies" /\ loop' = "fire"
      BY <1>5 DEF ProcessReadReadies
    <2>2. PICK n \in 0 .. MaxFdEvents :
            \E events \in [1 .. n -> ReadyEvents] :
              /\ \A e \in ReadyEvents : \E i \in 1 .. n : events[i] = e
              /\ pending_list' = pending_list \o events
      BY <1>5 DEF ProcessReadReadies
    <2>3. PICK events \in [1 .. n -> ReadyEvents] :
              /\ \A e \in ReadyEvents : \E i \in 1 .. n : events[i] = e
              /\ pending_list' = pending_list \o events
      BY <2>2
    <2>4. \A e \in ReadyEvents : InPending(e)'
      <3> TAKE e \in ReadyEvents
      <3>1. PICK i \in 1 .. n : events[i] = e
        BY <2>3
      <3>2. /\ pending_list \in Seq(Timers \cup WatchEvents)
            /\ events \in Seq(ReadyEvents) /\ n \in Nat
            /\ Len(events) = n
        BY BoundsAssumption DEF TypeOK
      <3>3. /\ pending_list \in Seq(Timers \cup WatchEvents \cup ReadyEvents)
            /\ events \in Seq(Timers \cup WatchEvents \cup ReadyEvents)
            /\ Len(pending_list) \in Nat
        BY <3>2
      <3> DEFINE q == pending_list \o events
      <3>4. /\ q \in Seq(Timers \cup WatchEvents \cup ReadyEvents)
            /\ Len(q) = Len(pending_list) + Len(events)
            /\ \A j \in 1 .. Len(pending_list) + Len(events) :
                  q[j] = IF j <= Len(pending_list) THEN pending_list[j]
                         ELSE events[j - Len(pending_list)]
        BY <3>3, ConcatProperties, Zenon
      <3>5. DOMAIN q = 1 .. Len(q)
        BY <3>4
      <3> HIDE DEF q
      <3> DEFINE j == Len(pending_list) + i
      <3>6. /\ j \in 1 .. Len(pending_list) + Len(events)
            /\ ~(j <= Len(pending_list)) /\ j - Len(pending_list) = i
        BY <3>2, <3>3
      <3>7. j \in DOMAIN q /\ q[j] = e
        <4> HIDE DEF j
        <4> QED  BY <3>1, <3>4, <3>5, <3>6
      <3> QED  BY <2>3, <3>7 DEF InPending, q
    <2>5. \A e \in {"listen", "commands"} : e \in Watched => Armed(e)'
      <3>1. CASE UNCHANGED tableVars
        <4>1. Watched' = Watched
          BY <3>1 DEF Watched, tableVars
        <4> QED  BY <4>1 DEF Armed
      <3>2. CASE \E i \in Slots : /\ watch_table[i] = "listen"
                                  /\ IsReady("listen")
                                  /\ RemoveWatch("listen", i)
        <4>1. PICK i \in Slots : /\ watch_table[i] = "listen"
                                 /\ IsReady("listen")
                                 /\ RemoveWatch("listen", i)
          BY <3>2
        <4>2. "listen" \in ReadyEvents
          BY <4>1 DEF ReadyEvents, Watched, NoEvent
        <4>3. "commands" \in Watched => "commands" \in Watched'
          BY <4>1 DEF RemoveWatch, Watched, TypeOK
        <4> QED  BY <2>4, <4>2, <4>3, ArmedInPending
                 DEF Armed, ToSet, InPending
      <3> QED  BY <1>5, <3>1, <3>2 DEF ProcessReadReadies
    <2>6. \A e \in {"listen", "commands"} : Armed(e) => Armed(e)'
      BY <2>1, <2>5, ArmedInPending DEF SocketInv
    <2>7. Armed("listen")' => s_fdCommand = NoFd
      <3>1. CASE pc[Registrar] = "register"
        BY <2>1, <3>1 DEF ArmedInv
      <3>2. CASE Armed("listen")
        BY <3>2 DEF ArmedInv
      <3>3. CASE Armed("commands")
        BY <2>6, <3>3 DEF SocketInv
      <3> QED  BY <2>1, <3>1, <3>2, <3>3 DEF ArmedInv
    <2>8. "wakeup" \in Watched => "wakeup" \in Watched'
      <3>1. CASE UNCHANGED tableVars
        BY <3>1 DEF Watched, tableVars
      <3>2. CASE \E i \in Slots : /\ watch_table[i] = "listen"
                                  /\ RemoveWatch("listen", i)
        BY <3>2 DEF RemoveWatch, Watched, TypeOK
      <3> QED  BY <1>5, <3>1, <3>2 DEF ProcessReadReadies
    <2> QED  BY <2>1, <2>6, <2>7, <2>8 DEF ArmedInv, socketVars
  <1>6. ASSUME NEW e \in Timers \cup {"wakeup"}, Firing(e),
               UNCHANGED <<tableVars, s_fdCommand, pc, loop>>
        PROVE  ArmedInv'
    <2>1. e # "listen" /\ e # "commands"
      BY TimersAssumption DEF WatchEvents
    <2>2. \A f \in {"listen", "commands"} : InPending(f)' <=> InPending(f)
      BY <1>6, <2>1, FiringPending, FiringKeeps
    <2>3. Watched' = Watched
      BY <1>6 DEF Watched, tableVars
    <2> QED  BY <1>6, <2>2, <2>3, ArmedSame, ArmedInvSame
  <1>7. CASE FireCommandsData
    <2>1. Firing("commands") /\ UNCHANGED <<tableVars, s_fdCommand, pc, loop>>
      BY <1>7 DEF FireCommandsData, socketVars
    <2>2. Watched' = Watched
      BY <2>1 DEF Watched, tableVars
    <2>3. InPending("commands") /\ "commands" \in Watched
      BY <2>1, FiringPending DEF SocketInv
    <2>4. InPending("listen")' <=> InPending("listen")
      BY <2>1, FiringPending, FiringKeeps
    <2>5. /\ Armed("listen")' <=> Armed("listen")
          /\ Armed("commands")' <=> Armed("commands")
      BY <2>2, <2>3, <2>4, ArmedInPending DEF Armed, ToSet, InPending
    <2> QED  BY <2>1, <2>2, <2>5, ArmedInvSame
  <1>8. CASE FireListenAccept
    <2>1. Firing("listen") /\ pc[Registrar] # "nfds" /\ UNCHANGED <<pc, loop>>
      BY <1>8, LockFreeRegistrar DEF FireListenAccept
    <2>2. PICK fd \in CommandFds :
              /\ s_fdCommand' = fd /\ commandsFd' = fd
              /\ AddWatch("commands", fd, [index EXCEPT !["commands"] = -1])
      BY <1>8 DEF FireListenAccept
    <2>3. InPending("listen") /\ ~InPending("listen")'
      BY <2>1, FiringPending DEF SocketInv, Unique
    <2>4. /\ "listen" \notin Watched /\ "commands" \notin Watched
          /\ pc[Registrar] # "register"
      BY <2>3, ArmedInPending DEF SocketInv
    <2>5. Fd("commands")' = fd /\ fd \in Nat /\ "commands" \in WatchEvents
      BY <2>2, FdsAssumption DEF Fd, WatchEvents
    <2>6. \A f \in Watched : Fd(f)' = Fd(f)
      BY <2>4, WatchedFds DEF Fd, WatchEvents
    <2>7. Watched \subseteq {"wakeup"}
      BY <2>4, WatchedFds DEF WatchEvents
    <2>8. /\ Watched' \subseteq Watched \cup {"commands"}
          /\ Watched \subseteq Watched' /\ "commands" \in Watched'
      BY <2>1, <2>2, <2>4, <2>5, <2>6, <2>7, RoomInTable, AddWatchTable
    <2>9. ~Armed("listen")' /\ Armed("commands")'
      BY <2>3, <2>4, <2>8, ArmedInPending DEF Armed, ToSet, InPending
    <2> QED  BY <2>1, <2>4, <2>8, <2>9 DEF Firing, ArmedInv
  <1>9. CASE FireListenFail
    <2>1. /\ Firing("listen") /\ pc[Registrar] # "nfds"
          /\ UNCHANGED <<pc, loop, commandsFd>> /\ s_fdCommand' = NoFd
          /\ AddWatch("listen", ListenFd, index)
      BY <1>9, LockFreeRegistrar DEF FireListenFail
    <2>2. InPending("listen") /\ ~InPending("listen")'
      BY <2>1, FiringPending DEF SocketInv, Unique
    <2>3. "listen" \notin Watched /\ "commands" \notin Watched
      BY <2>2, ArmedInPending DEF SocketInv
    <2>4. "listen" \in WatchEvents /\ Fd("listen")' = ListenFd /\ ListenFd \in Nat
      BY FdsAssumption DEF Fd, WatchEvents
    <2>5. [index EXCEPT !["listen"] = -1] = index
      BY <2>3, <2>4, NotWatchedIndex DEF TableConsistent, SlotsAgree
    <2>6. \A f : Fd(f)' = Fd(f)
      BY <2>1 DEF Fd
    <2>7. Watched \subseteq {"wakeup"}
      BY <2>3, WatchedFds DEF WatchEvents
    <2>8. "listen" \in Watched' /\ Watched \subseteq Watched'
      BY <2>1, <2>3, <2>4, <2>5, <2>6, <2>7, RoomInTable, AddWatchTable
    <2> QED  BY <2>1, <2>8 DEF Firing, ArmedInv, Armed
  <1>10. CASE FireCommandsEof
    <2>1. /\ Firing("commands") /\ UNCHANGED pc /\ s_fdCommand' = NoFd
          /\ loop' = "relisten" /\ index["commands"] \in Slots
          /\ RemoveWatch("commands", index["commands"])
      BY <1>10 DEF FireCommandsEof
    <2>2. "wakeup" \in Watched
      BY <2>1 DEF Firing, ArmedInv
    <2>3. watch_table[index["commands"]] = "commands"
      BY <2>1 DEF TableConsistent, WatchEvents, Slots
    <2>4. "wakeup" \in Watched'
      BY <2>1, <2>2, <2>3 DEF RemoveWatch, Watched, TypeOK
    <2> QED  BY <2>1, <2>4 DEF ArmedInv
  <1>11. CASE Relisten
    <2>1. /\ loop = "relisten" /\ loop' = "fire" /\ pc[Registrar] # "nfds"
          /\ UNCHANGED <<pending_list, pc, socketVars>>
          /\ AddWatch("listen", ListenFd, index)
      BY <1>11, LockFreeRegistrar DEF Relisten
    <2>2. "listen" \notin Watched /\ "commands" \notin Watched
      BY <2>1, ArmedInPending DEF SocketInv
    <2>3. "listen" \in WatchEvents /\ Fd("listen")' = ListenFd /\ ListenFd \in Nat
      BY FdsAssumption DEF Fd, WatchEvents
    <2>4. [index EXCEPT !["listen"] = -1] = index
      BY <2>2, <2>3, NotWatchedIndex DEF TableConsistent, SlotsAgree
    <2>5. \A f : Fd(f)' = Fd(f)
      BY <2>1 DEF Fd, socketVars
    <2>6. Watched \subseteq {"wakeup"}
      BY <2>2, WatchedFds DEF WatchEvents
    <2>7. "listen" \in Watched' /\ Watched \subseteq Watched'
      BY <2>1, <2>2, <2>3, <2>4, <2>5, <2>6, RoomInTable, AddWatchTable
    <2> QED  BY <2>1, <2>7 DEF ArmedInv, Armed, socketVars
  <1>12. CASE RegisterInsert
    <2>1. /\ pc[Registrar] = "register" /\ pc'[Registrar] = "nfds"
          /\ UNCHANGED <<pending_list, loop, socketVars>>
      BY <1>12, ThreadsAssumption DEF RegisterInsert, TypeOK
    <2>2. "listen" \notin Watched /\ "commands" \notin Watched /\ loop # "relisten"
          /\ ~Armed("commands") /\ ~InPending("commands")
      BY <2>1, ArmedInPending DEF SocketInv
    <2>3. Watched \subseteq {"wakeup"}
      BY <2>2, WatchedFds DEF WatchEvents
    <2>4. PICK i \in Slots : FirstFree(i) /\ watch_table' = [watch_table EXCEPT ![i] = "listen"]
      BY <1>12, <2>3, RoomInTable DEF RegisterInsert
    <2>5. watch_table[i] = NoEvent
      BY <2>4 DEF FirstFree, Occupied
    <2>6. Watched' = Watched \cup {"listen"}
      BY <2>4, <2>5 DEF Watched, TypeOK, NoEvent
    <2>7. Armed("listen")' /\ ~Armed("commands")'
      BY <2>1, <2>2, <2>6, ArmedInPending DEF Armed, ToSet, InPending
    <2> QED  BY <2>1, <2>2, <2>6, <2>7 DEF ArmedInv, socketVars
  <1>13. CASE RegisterNfds
    <2>1. /\ pc[Registrar] = "nfds" /\ pc' = [pc EXCEPT ![Registrar] = "trigger"]
          /\ UNCHANGED <<watch_table, pending_list, loop, s_fdCommand>>
      BY <1>13 DEF RegisterNfds, socketVars
    <2>2. pc'[Registrar] = "trigger"
      BY <2>1, ThreadsAssumption DEF TypeOK
    <2>3. Watched' = Watched /\ \A e : InPending(e)' <=> InPending(e)
      BY <2>1 DEF Watched, InPending
    <2> QED  BY <2>1, <2>2, <2>3, ArmedSame, ArmedInvSame
  <1>14. ASSUME NEW th \in Threads, AddTimer(th) \/ Trigger(th)
         PROVE  ArmedInv'
    <2>1. /\ pc[th] \in {"idle", "trigger"}
          /\ pc' = [pc EXCEPT ![th] = IF pc[th] = "idle" THEN "trigger" ELSE "idle"]
          /\ UNCHANGED <<tableVars, pending_list, loop, s_fdCommand>>
      BY <1>14 DEF AddTimer, Trigger, socketVars
    <2>2. pc'[Registrar] = "register" <=> pc[Registrar] = "register"
      BY <2>1, ThreadsAssumption DEF TypeOK
    <2> QED  BY <1>a, <2>1, <2>2, ArmedInvSame
  <1>15. CASE EnvStep \/ UNCHANGED vars
    <2>1. UNCHANGED <<tableVars, pending_list, loop, pc, s_fdCommand>>
      BY <1>15 DEF EnvStep, ClientConnects, ClientGivesUp, ClientSends,
                   ClientCloses, Tick, vars, socketVars
    <2> QED  BY <1>a, <2>1, ArmedInvSame
  <1>16. ASSUME NEW t \in Timers, FireTimer(t) PROVE ArmedInv'
    BY <1>6, <1>16 DEF FireTimer, socketVars
  <1>17. CASE FireWakeup
    BY <1>6, <1>17 DEF FireWakeup, socketVars
  <1> QED
    BY <1>1, <1>2, <1>3, <1>4, <1>5, <1>7, <1>8, <1>9, <1>10, <1>11, <1>12,
       <1>13, <1>14, <1>15, <1>16, <1>17
    DEF Next, LoopStep, ThreadStep

\* One of the listening socket and the command socket is armed, never both.
THEOREM OneConnectionHolds ==
    ASSUME MaxFdEvents >= 2
    PROVE  Spec => []OneConnection
  <1>1. Init => StructInv /\ ArmedInv
    BY StructInvInit, ArmedInvInit
  <1>2. (StructInv /\ ArmedInv) /\ [Next]_vars => (StructInv /\ ArmedInv)'
    BY StructInvNext, ArmedInvNext
  <1>3. StructInv /\ ArmedInv => OneConnection
    BY FdsAssumption DEF StructInv, SocketInv, ArmedInv, OneConnection, NoFd
  <1> QED  BY <1>1, <1>2, <1>3, PTL DEF Spec

-----------------------------------------------------------------------------
(* No lost wakeup.  Relative to StructInv, ArmedInv and DueOrder the property *)
(* is inductive: a thread owes a byte from its change of the table or of the  *)
(* timers until it writes one, and the byte stays until the loop, awake,      *)
(* reads it and starts over.                                                 *)

LEMMA NoLostWakeupNext ==
    ASSUME StructInv, ArmedInv, DueOrder, NoLostWakeup, [Next]_vars
    PROVE  NoLostWakeup'
  <1> USE DEF StructInv
  <1>a. ASSUME loop' \notin {"calc", "enter", "select"} PROVE NoLostWakeup'
    BY <1>a DEF NoLostWakeup, Sleeping
  <1>b. Fd("wakeup") = WakeupFd
    BY DEF Fd
  <1>1. CASE \/ OpenPipe \/ AddWakeup \/ SelectReturns \/ SelectInterrupted
             \/ ProcessTimeouts \/ ProcessReadReadies \/ FireDone
             \/ (\E t \in Timers : FireTimer(t)) \/ FireWakeup
             \/ FireListenAccept \/ FireListenFail \/ FireCommandsData
             \/ FireCommandsEof \/ Relisten
    <2>1. loop' \notin {"calc", "enter", "select"}
      BY <1>1 DEF OpenPipe, AddWakeup, SelectReturns, SelectInterrupted,
                  ProcessTimeouts, ProcessReadReadies, FireDone, FireTimer,
                  FireWakeup, FireListenAccept, FireListenFail,
                  FireCommandsData, FireCommandsEof, Relisten, Firing
    <2> QED  BY <1>a, <2>1
  <1>2. CASE CopyReadFds
    <2>1. /\ UNCHANGED <<tableVars, commandsFd>> /\ loop = "copy"
          /\ loop' = "calc" /\ rfds' = readFds
      BY <1>2 DEF CopyReadFds, socketVars
    <2>2. Watched' = Watched /\ \A f : Fd(f)' = Fd(f)
      BY <2>1 DEF Watched, tableVars, Fd
    <2>3. \A e \in Watched : Fd(e) \in readFds
      BY DEF TableConsistent
    <2>4. "wakeup" \in Watched
      BY <2>1 DEF ArmedInv
    <2> QED  BY <1>b, <2>1, <2>2, <2>3, <2>4
             DEF NoLostWakeup, Heard, TimersHeard
  <1>3. CASE CalcNextTimeout
    <2>1. /\ UNCHANGED <<watch_table, commandsFd, timerVars, pipe, pc, rfds>>
          /\ loop = "calc" /\ loop' = "enter"
          /\ until' = IF timer_list = << >> THEN Forever ELSE due[Head(timer_list)]
      BY <1>3 DEF CalcNextTimeout, socketVars, tableVars
    <2>2. Watched' = Watched /\ \A f : Fd(f)' = Fd(f)
      BY <2>1 DEF Watched, Fd
    <2>3. TimersHeard'
      <3> SUFFICES ASSUME NEW t \in ToSet(timer_list)
                   PROVE  until' # Forever /\ until' <= due[t]
        BY <2>1 DEF TimersHeard, timerVars
      <3>1. timer_list \in Seq(Timers) /\ due \in [Timers -> Nat]
        BY DEF TypeOK
      <3>2. PICK i \in DOMAIN timer_list : timer_list[i] = t
        BY DEF ToSet
      <3>3. timer_list # << >> /\ 1 \in DOMAIN timer_list
            /\ Head(timer_list) = timer_list[1] /\ i \in Nat /\ i >= 1
            /\ timer_list[1] \in Timers /\ t \in Timers
        BY <3>1, <3>2
      <3>4. due[timer_list[1]] <= due[timer_list[i]]
        <4>1. CASE i = 1
          BY <4>1, <3>1, <3>3
        <4>2. CASE 1 < i
          BY <4>2, <3>2, <3>3 DEF DueOrder, Before
        <4> QED  BY <3>3, <4>1, <4>2
      <3>5. until' = due[timer_list[1]] /\ due[timer_list[1]] \in Nat
        BY <2>1, <3>1, <3>3
      <3> QED  BY <3>2, <3>4, <3>5 DEF Forever
    <2>4. Owed' <=> Owed
      BY <2>1 DEF Owed
    <2>5. \A fd : Heard(fd)' <=> Heard(fd)
      BY <2>1 DEF Heard
    <2> QED  BY <2>1, <2>2, <2>3, <2>4, <2>5 DEF NoLostWakeup, Sleeping
  <1>4. CASE EnterSelect
    <2>1. /\ UNCHANGED <<watch_table, nfds, commandsFd, timerVars, pipe, pc, rfds, until>>
          /\ loop = "enter" /\ loop' = "select" /\ selectNfds' = nfds
      BY <1>4 DEF EnterSelect, socketVars, tableVars
    <2>2. Watched' = Watched /\ \A f : Fd(f)' = Fd(f)
      BY <2>1 DEF Watched, Fd
    <2>3. Owed' <=> Owed
      BY <2>1 DEF Owed
    <2>4. TimersHeard' <=> TimersHeard
      BY <2>1 DEF TimersHeard, timerVars
    <2>5. \A e \in Watched :
             Fd(e) < nfds \/ (e = "listen" /\ pc[Registrar] = "nfds")
      BY DEF TableConsistent
    <2>6. pc[Registrar] = "nfds" => Owed
      BY ThreadsAssumption DEF Owed
    <2>7. Heard(WakeupFd)'
      <3>1. WakeupFd < nfds
        BY <1>b, <2>1, <2>5 DEF ArmedInv
      <3> QED  BY <2>1, <3>1 DEF NoLostWakeup, Sleeping, Heard
    <2>8. ~Owed => \A e \in Watched : Heard(Fd(e)) => Heard(Fd(e))'
      BY <2>1, <2>2, <2>5, <2>6 DEF Heard
    <2> QED  BY <2>1, <2>2, <2>3, <2>4, <2>7, <2>8 DEF NoLostWakeup, Sleeping
  <1>5. ASSUME UNCHANGED <<loop, rfds, selectNfds>>, Owed'
        PROVE  NoLostWakeup'
    BY <1>5 DEF NoLostWakeup, Sleeping, Heard
  <1>6. CASE RegisterInsert \/ RegisterNfds
    <2>1. UNCHANGED <<loop, rfds, selectNfds>> /\ pc'[Registrar] \in {"nfds", "trigger"}
      BY <1>6, ThreadsAssumption DEF RegisterInsert, RegisterNfds, selectVars, TypeOK
    <2> QED  BY <1>5, <2>1, ThreadsAssumption DEF Owed
  <1>7. ASSUME NEW th \in Threads, AddTimer(th) PROVE NoLostWakeup'
    <2>1. UNCHANGED <<loop, rfds, selectNfds>> /\ pc'[th] = "trigger"
      BY <1>7 DEF AddTimer, selectVars, TypeOK
    <2> QED  BY <1>5, <2>1 DEF Owed
  <1>8. ASSUME NEW th \in Threads, Trigger(th) PROVE NoLostWakeup'
    <2>1. UNCHANGED <<loop, rfds, selectNfds>>
          /\ (pipe # "none" => pipe' = "byte")
      BY <1>8 DEF Trigger, selectVars
    <2>2. Sleeping => pipe # "none"
      BY DEF Sleeping, PipeInv
    <2> QED  BY <2>1, <2>2 DEF NoLostWakeup, Sleeping, Heard
  <1>9. CASE EnvStep \/ UNCHANGED vars
    <2>1. UNCHANGED <<loop, rfds, selectNfds, until, pipe, pc, watch_table, commandsFd, timerVars>>
      BY <1>9 DEF EnvStep, ClientConnects, ClientGivesUp, ClientSends,
                  ClientCloses, Tick, vars, selectVars, tableVars, socketVars
    <2>2. Watched' = Watched /\ \A f : Fd(f)' = Fd(f)
      BY <2>1 DEF Watched, Fd
    <2>3. /\ Owed' <=> Owed
          /\ TimersHeard' <=> TimersHeard
          /\ \A fd : Heard(fd)' <=> Heard(fd)
      BY <2>1 DEF Owed, TimersHeard, Heard, timerVars
    <2> QED  BY <2>1, <2>2, <2>3 DEF NoLostWakeup, Sleeping
  <1> QED
    BY <1>1, <1>2, <1>3, <1>4, <1>6, <1>7, <1>8, <1>9
    DEF Next, LoopStep, ThreadStep

\* The loop never sleeps on an out-of-date set of descriptors or timers without
\* a wakeup on its way.
THEOREM NoWakeupIsLost ==
    ASSUME MaxFdEvents >= 2
    PROVE  Spec => []NoLostWakeup
  <1>1. Init => StructInv /\ ArmedInv /\ NoLostWakeup
    BY StructInvInit, ArmedInvInit DEF Init, NoLostWakeup, Sleeping
  <1>2. DueOrder /\ (StructInv /\ ArmedInv /\ NoLostWakeup) /\ [Next]_vars
          => (StructInv /\ ArmedInv /\ NoLostWakeup)'
    BY StructInvNext, ArmedInvNext, NoLostWakeupNext
  <1> QED  BY <1>1, <1>2, TimersFireInOrder, PTL DEF Spec


-----------------------------------------------------------------------------
(* TgmEvent implements TimerService.  The timers that wait are those in the  *)
(* two lists: what is to be shown is what each step does to their elements.  *)

\* What two sequences contain, one behind the other.
LEMMA ToSetConcat ==
    ASSUME NEW S, NEW p \in Seq(S), NEW q \in Seq(S)
    PROVE  ToSet(p \o q) = ToSet(p) \cup ToSet(q)
  <1> DEFINE r == p \o q
  <1>1. /\ Len(p) \in Nat /\ DOMAIN p = 1 .. Len(p)
        /\ Len(q) \in Nat /\ DOMAIN q = 1 .. Len(q)
    OBVIOUS
  <1>2. /\ r \in Seq(S) /\ Len(r) = Len(p) + Len(q)
        /\ \A i \in 1 .. Len(p) + Len(q) :
              r[i] = IF i <= Len(p) THEN p[i] ELSE q[i - Len(p)]
    BY ConcatProperties, Zenon
  <1> HIDE DEF r
  <1>3. DOMAIN r = 1 .. Len(p) + Len(q)
    BY <1>2
  <1>4. \A i \in DOMAIN p : i \in DOMAIN r /\ r[i] = p[i]
    BY <1>1, <1>2, <1>3
  <1>5. \A i \in DOMAIN q : i + Len(p) \in DOMAIN r /\ r[i + Len(p)] = q[i]
    <2> TAKE i \in DOMAIN q
    <2>1. /\ i + Len(p) \in 1 .. Len(p) + Len(q) /\ ~(i + Len(p) <= Len(p))
          /\ i + Len(p) - Len(p) = i
      BY <1>1
    <2> QED  BY <2>1, <1>2, <1>3
  <1>6. \A i \in DOMAIN r : \/ i \in DOMAIN p /\ r[i] = p[i]
                            \/ i - Len(p) \in DOMAIN q /\ r[i] = q[i - Len(p)]
    <2> TAKE i \in DOMAIN r
    <2>1. i <= Len(p) => i \in DOMAIN p
      BY <1>1, <1>3
    <2>2. ~(i <= Len(p)) => i - Len(p) \in DOMAIN q
      BY <1>1, <1>3
    <2> QED  BY <1>2, <1>3, <2>1, <2>2
  <1>7. ToSet(r) = ToSet(p) \cup ToSet(q)
    BY <1>4, <1>5, <1>6 DEF ToSet
  <1> QED  BY <1>7 DEF r

\* ... cut in two
LEMMA ToSetCut ==
    ASSUME NEW S, NEW s \in Seq(S), NEW k \in 0 .. Len(s)
    PROVE  /\ SubSeq(s, 1, k) \in Seq(S) /\ SubSeq(s, k + 1, Len(s)) \in Seq(S)
           /\ ToSet(s) = ToSet(SubSeq(s, 1, k)) \cup ToSet(SubSeq(s, k + 1, Len(s)))
  <1> DEFINE a == SubSeq(s, 1, k)
             b == SubSeq(s, k + 1, Len(s))
  <1>1. /\ a \in Seq(S) /\ DOMAIN a = 1 .. k
        /\ \A i \in 1 .. k : a[i] = s[i]
    OBVIOUS
  <1>2. /\ b \in Seq(S) /\ DOMAIN b = 1 .. Len(s) - k
        /\ \A i \in 1 .. Len(s) - k : b[i] = s[i + k]
    OBVIOUS
  <1>3. DOMAIN s = 1 .. Len(s) /\ Len(s) \in Nat
    OBVIOUS
  <1> HIDE DEF a, b
  <1>4. \A i \in DOMAIN s : \/ i \in DOMAIN a /\ s[i] = a[i]
                            \/ i - k \in DOMAIN b /\ s[i] = b[i - k]
    <2> TAKE i \in DOMAIN s
    <2>1. i <= k => i \in 1 .. k
      BY <1>3
    <2>2. ~(i <= k) => i - k \in 1 .. Len(s) - k /\ i - k + k = i
      BY <1>3
    <2> QED  BY <1>1, <1>2, <2>1, <2>2
  <1>5. \A i \in DOMAIN a : i \in DOMAIN s /\ a[i] = s[i]
    BY <1>1, <1>3
  <1>6. \A i \in DOMAIN b : i + k \in DOMAIN s /\ b[i] = s[i + k]
    BY <1>2, <1>3
  <1>7. ToSet(s) = ToSet(a) \cup ToSet(b)
    BY <1>4, <1>5, <1>6 DEF ToSet
  <1> QED  BY <1>1, <1>2, <1>7 DEF a, b

\* ... with another element inserted
LEMMA ToSetInsertAt ==
    ASSUME NEW S, NEW s \in Seq(S), NEW e \in S, NEW k \in 1 .. Len(s) + 1
    PROVE  ToSet(InsertAt(s, k, e)) = ToSet(s) \cup {e}
  <1> DEFINE r == InsertAt(s, k, e)
  <1>1. /\ r \in Seq(S) /\ Len(r) = Len(s) + 1
        /\ \A i \in 1 .. Len(s) + 1 :
              r[i] = IF i < k THEN s[i] ELSE IF i = k THEN e ELSE s[i - 1]
    BY InsertAtProperties
  <1> HIDE DEF r
  <1>2. DOMAIN r = 1 .. Len(s) + 1 /\ DOMAIN s = 1 .. Len(s) /\ Len(s) \in Nat
    BY <1>1
  <1>3. k \in DOMAIN r /\ r[k] = e
    BY <1>1, <1>2
  <1>4. \A i \in DOMAIN s : \/ i \in DOMAIN r /\ r[i] = s[i]
                            \/ i + 1 \in DOMAIN r /\ r[i + 1] = s[i]
    <2> TAKE i \in DOMAIN s
    <2>1. i < k => i \in 1 .. Len(s) + 1
      BY <1>2
    <2>2. ~(i < k) => /\ i + 1 \in 1 .. Len(s) + 1 /\ ~(i + 1 < k) /\ i + 1 # k
                      /\ i + 1 - 1 = i
      BY <1>2
    <2> QED  BY <1>1, <1>2, <2>1, <2>2
  <1>5. \A i \in DOMAIN r : \/ r[i] = e
                            \/ i \in DOMAIN s /\ r[i] = s[i]
                            \/ i - 1 \in DOMAIN s /\ r[i] = s[i - 1]
    <2> TAKE i \in DOMAIN r
    <2>1. i < k => i \in 1 .. Len(s)
      BY <1>2
    <2>2. ~(i < k) /\ i # k => i - 1 \in 1 .. Len(s)
      BY <1>2
    <2> QED  BY <1>1, <1>2, <2>1, <2>2
  <1>6. ToSet(r) = ToSet(s) \cup {e}
    BY <1>3, <1>4, <1>5 DEF ToSet
  <1> QED  BY <1>6 DEF r

\* firePending takes one element off the list, the only one that is this timer.
LEMMA ToSetFiring ==
    ASSUME TypeOK, DueOrder, NEW e, Firing(e)
    PROVE  /\ e \in ToSet(pending_list)
           /\ ToSet(pending_list') \subseteq ToSet(pending_list)
           /\ ToSet(pending_list) \subseteq ToSet(pending_list') \cup {e}
           /\ e \in Timers => e \notin ToSet(pending_list') /\ e \notin ToSet(timer_list)
  <1>1. /\ pending_list \in Seq(Timers \cup WatchEvents)
        /\ pending_list # << >>
        /\ pending_list' = Tail(pending_list)
        /\ pending_list[1] = e
    BY DEF TypeOK, Firing
  <1>2. /\ DOMAIN pending_list = 1 .. Len(pending_list)
        /\ Len(pending_list) \in Nat /\ Len(pending_list) > 0
        /\ DOMAIN pending_list' = 1 .. Len(pending_list) - 1
        /\ \A i \in 1 .. Len(pending_list) - 1 :
              pending_list'[i] = pending_list[i + 1]
    BY <1>1
  <1>3. \A i \in DOMAIN pending_list' :
           /\ i + 1 \in DOMAIN pending_list /\ 1 < i + 1
           /\ pending_list'[i] = pending_list[i + 1]
    BY <1>2
  <1>4. 1 \in DOMAIN pending_list
    BY <1>2
  <1>5. \A i \in DOMAIN pending_list :
           \/ i = 1
           \/ i - 1 \in DOMAIN pending_list' /\ pending_list'[i - 1] = pending_list[i]
    <2> TAKE i \in DOMAIN pending_list
    <2>1. i # 1 => i - 1 \in 1 .. Len(pending_list) - 1 /\ i - 1 + 1 = i
      BY <1>2
    <2> QED  BY <1>2, <2>1
  <1>6. ASSUME e \in Timers
        PROVE  e \notin ToSet(pending_list') /\ e \notin ToSet(timer_list)
    <2>1. 1 \in PendingTimers
      BY <1>1, <1>4, <1>6 DEF PendingTimers
    <2>2. ASSUME NEW i \in DOMAIN pending_list', pending_list'[i] = e PROVE FALSE
      <3>1. i + 1 \in PendingTimers /\ pending_list[i + 1] = e /\ 1 < i + 1
        BY <1>3, <1>6, <2>2 DEF PendingTimers
      <3> QED  BY <1>1, <2>1, <3>1 DEF DueOrder, Before
    <2>3. ASSUME NEW j \in DOMAIN timer_list, timer_list[j] = e PROVE FALSE
      BY <1>1, <2>1, <2>3 DEF DueOrder, Before
    <2> QED  BY <2>2, <2>3 DEF ToSet
  <1>7. e \in ToSet(pending_list)
    BY <1>1, <1>4 DEF ToSet
  <1>8. ToSet(pending_list') \subseteq ToSet(pending_list)
    BY <1>3 DEF ToSet
  <1>9. ToSet(pending_list) \subseteq ToSet(pending_list') \cup {e}
    BY <1>1, <1>5 DEF ToSet
  <1> QED  BY <1>6, <1>7, <1>8, <1>9

Waiting == {t \in Timers : InUse(t)}

\* a step that no one who asks for timed callbacks can see
LEMMA TimersUnseen ==
    ASSUME UNCHANGED <<due, now>>, \A t \in Timers : InUse(t)' <=> InUse(t)
    PROVE  UNCHANGED Service!vars
  <1>1. Waiting' = Waiting
    BY DEF Waiting
  <1> QED  BY <1>1 DEF Service!vars, Waiting

\* tgm_timer_add puts one timer into the list
LEMMA NewTimerWaits ==
    ASSUME TypeOK, NewTimer
    PROVE  \E t \in Timers : /\ ~InUse(t)
                             /\ ToSet(timer_list') = ToSet(timer_list) \cup {t}
                             /\ \E d \in Delays : due' = [due EXCEPT ![t] = now + d]
  <1>1. PICK t \in Timers, d \in Delays : ~InUse(t) /\ InsertTimer(t, d)
    BY DEF NewTimer
  <1>2. PICK k \in 1 .. Len(timer_list) + 1 : timer_list' = InsertAt(timer_list, k, t)
    BY <1>1 DEF InsertTimer
  <1>3. due' = [due EXCEPT ![t] = now + d]
    BY <1>1 DEF InsertTimer
  <1>4. ToSet(timer_list') = ToSet(timer_list) \cup {t}
    BY <1>2, ToSetInsertAt DEF TypeOK
  <1> QED  BY <1>1, <1>3, <1>4

\* ... which is a request, unless it is made by a callback
LEMMA NewTimerRequested ==
    ASSUME TypeOK, NewTimer,
           \A t \in Timers : t \in ToSet(pending_list') <=> t \in ToSet(pending_list),
           now' = now
    PROVE  \E t \in Timers : Service!Request(t)
  <1>1. PICK t \in Timers : /\ ~InUse(t)
                            /\ ToSet(timer_list') = ToSet(timer_list) \cup {t}
                            /\ \E d \in Delays : due' = [due EXCEPT ![t] = now + d]
    BY NewTimerWaits
  <1>2. Waiting' = Waiting \cup {t} /\ t \in Timers \ Waiting
    BY <1>1 DEF Waiting, InUse
  <1> QED  BY <1>1, <1>2 DEF Service!Request, Service!Requested, Waiting

\* The head of the pending list is the earliest timer, and is past.
LEMMA FiredIsEarliest ==
    ASSUME TypeOK, DueOrder, NEW t \in Timers, Firing(t)
    PROVE  Service!Earliest(t)
  <1>1. /\ pending_list \in Seq(Timers \cup WatchEvents)
        /\ 1 \in DOMAIN pending_list /\ pending_list[1] = t
        /\ \A i \in DOMAIN pending_list : i = 1 \/ 1 < i
    BY DEF TypeOK, Firing
  <1>2. 1 \in PendingTimers
    BY <1>1 DEF PendingTimers
  <1>3. t \in Waiting /\ due[t] < now
    BY <1>1, <1>2 DEF Waiting, InUse, ToSet, DueOrder
  <1>4. ASSUME NEW u \in Waiting PROVE due[t] <= due[u]
    <2>1. due[t] \in Nat
      BY DEF TypeOK
    <2>2. CASE u \in ToSet(pending_list)
      <3>1. PICK i \in DOMAIN pending_list : pending_list[i] = u
        BY <2>2 DEF ToSet
      <3>2. i \in PendingTimers
        BY <3>1 DEF PendingTimers, Waiting
      <3> QED  BY <1>1, <1>2, <2>1, <3>1, <3>2 DEF DueOrder, Before
    <2>3. CASE u \in ToSet(timer_list)
      <3>1. PICK j \in DOMAIN timer_list : timer_list[j] = u
        BY <2>3 DEF ToSet
      <3> QED  BY <1>1, <1>2, <3>1 DEF DueOrder, Before
    <2> QED  BY <2>2, <2>3 DEF Waiting, InUse
  <1> QED  BY <1>3, <1>4 DEF Service!Earliest, Waiting

\* userTimerCallback is the call of its timer
LEMMA FireTimerCalls ==
    ASSUME TypeOK, DueOrder, NEW t \in Timers, FireTimer(t)
    PROVE  Service!Call(t)
  <1>1. Firing(t) /\ now' = now
    BY DEF FireTimer
  <1>2. Service!Earliest(t)
    BY <1>1, FiredIsEarliest
  <1>3. /\ t \in Waiting
        /\ \A u \in Timers : u \in ToSet(pending_list')
                                <=> u \in ToSet(pending_list) /\ u # t
        /\ t \notin ToSet(timer_list)
    BY <1>1, ToSetFiring DEF Waiting, InUse
  <1>4. CASE UNCHANGED timerVars
    <2>1. Waiting' = Waiting \ {t} /\ due' = due
      BY <1>3, <1>4 DEF Waiting, InUse, timerVars
    <2> QED  BY <1>1, <1>2, <2>1 DEF Service!Call, Waiting
  <1>5. CASE NewTimer
    <2>1. PICK u \in Timers : /\ ~InUse(u)
                              /\ ToSet(timer_list') = ToSet(timer_list) \cup {u}
                              /\ \E d \in Delays : due' = [due EXCEPT ![u] = now + d]
      BY <1>5, NewTimerWaits
    <2>2. Waiting' = (Waiting \ {t}) \cup {u} /\ u \in Timers \ Waiting
      BY <1>3, <2>1 DEF Waiting, InUse
    <2> QED  BY <1>1, <1>2, <2>1, <2>2 DEF Service!Call, Service!Requested, Waiting
  <1> QED  BY <1>4, <1>5 DEF FireTimer

\* a socket's callback is no timer's; some of them may ask for a timed callback
LEMMA FireSocketServes ==
    ASSUME TypeOK, DueOrder, NEW e \in WatchEvents, Firing(e), now' = now,
           NewTimer \/ UNCHANGED timerVars
    PROVE  [Service!Next]_(Service!vars)
  <1>1. e \notin Timers
    BY TimersAssumption
  <1>2. \A t \in Timers : t \in ToSet(pending_list') <=> t \in ToSet(pending_list)
    BY <1>1, ToSetFiring
  <1>3. CASE NewTimer
    BY <1>2, <1>3, NewTimerRequested DEF Service!Next
  <1>4. CASE UNCHANGED timerVars
    <2>1. \A t \in Timers : InUse(t)' <=> InUse(t)
      BY <1>2, <1>4 DEF InUse, timerVars
    <2> QED  BY <1>4, <2>1, TimersUnseen DEF timerVars
  <1> QED  BY <1>3, <1>4

\* processTimeouts and processReadReadies only move timers, or none
LEMMA MovingUnseen ==
    ASSUME TypeOK, ProcessTimeouts \/ ProcessReadReadies
    PROVE  UNCHANGED Service!vars
  <1>1. CASE ProcessTimeouts
    <2>1. PICK k \in 0 .. Len(timer_list) :
            /\ pending_list' = pending_list \o SubSeq(timer_list, 1, k)
            /\ timer_list' = SubSeq(timer_list, k + 1, Len(timer_list))
      BY <1>1 DEF ProcessTimeouts
    <2> DEFINE expired == SubSeq(timer_list, 1, k)
    <2>2. /\ expired \in Seq(Timers)
          /\ ToSet(timer_list) = ToSet(expired) \cup ToSet(timer_list')
      BY <2>1, ToSetCut DEF TypeOK
    <2>3. pending_list' = pending_list \o expired
      BY <2>1
    <2> HIDE DEF expired
    <2>4. ToSet(pending_list') = ToSet(pending_list) \cup ToSet(expired)
      <3>1. expired \in Seq(Timers \cup WatchEvents)
        BY <2>2
      <3>2. pending_list \in Seq(Timers \cup WatchEvents)
        BY DEF TypeOK
      <3> QED  BY <2>3, <3>1, <3>2, ToSetConcat
    <2>5. \A t \in Timers : InUse(t)' <=> InUse(t)
      BY <2>2, <2>4 DEF InUse
    <2> QED  BY <1>1, <2>5, TimersUnseen DEF ProcessTimeouts
  <1>2. CASE ProcessReadReadies
    <2>1. PICK n \in 0 .. MaxFdEvents : \E events \in [1 .. n -> ReadyEvents] :
              pending_list' = pending_list \o events
      BY <1>2 DEF ProcessReadReadies
    <2>2. PICK events \in [1 .. n -> ReadyEvents] : pending_list' = pending_list \o events
      BY <2>1
    <2>3. n \in Nat /\ events \in [1 .. n -> WatchEvents]
      BY BoundsAssumption DEF ReadyEvents, Watched, TypeOK
    <2>4. events \in Seq(WatchEvents) /\ ToSet(events) \subseteq WatchEvents
      BY <2>3 DEF ToSet
    <2>5. events \in Seq(Timers \cup WatchEvents)
      BY <2>4
    <2>6. ToSet(pending_list') = ToSet(pending_list) \cup ToSet(events)
      BY <2>2, <2>5, ToSetConcat DEF TypeOK
    <2>7. \A t \in Timers : InUse(t)' <=> InUse(t)
      BY <1>2, <2>4, <2>6, TimersAssumption DEF InUse, ProcessReadReadies, timerVars
    <2> QED  BY <1>2, <2>7, TimersUnseen DEF ProcessReadReadies, timerVars
  <1> QED  BY <1>1, <1>2

LEMMA NextServes ==
    ASSUME TypeOK, DueOrder, [Next]_vars PROVE [Service!Next]_(Service!vars)
  <1> USE DEF timerVars, clientVars
  <1>0. ASSUME UNCHANGED <<pending_list, timerVars, now>>
        PROVE  [Service!Next]_(Service!vars)
    <2>1. \A t \in Timers : InUse(t)' <=> InUse(t)
      BY <1>0 DEF InUse
    <2> QED  BY <1>0, <2>1, TimersUnseen
  <1>1. CASE OpenPipe \/ AddWakeup \/ CopyReadFds \/ CalcNextTimeout
             \/ EnterSelect \/ SelectReturns \/ SelectInterrupted
    BY <1>0, <1>1 DEF OpenPipe, AddWakeup, CopyReadFds, CalcNextTimeout,
                      EnterSelect, SelectReturns, SelectInterrupted
  <1>2. CASE FireDone \/ Relisten \/ RegisterInsert \/ RegisterNfds
    BY <1>0, <1>2 DEF FireDone, Relisten, RegisterInsert, RegisterNfds
  <1>3. CASE ProcessTimeouts \/ ProcessReadReadies
    BY <1>3, MovingUnseen
  <1>4. ASSUME NEW t \in Timers, FireTimer(t) PROVE [Service!Next]_(Service!vars)
    BY <1>4, FireTimerCalls DEF Service!Next
  <1>5. CASE FireWakeup \/ FireListenAccept \/ FireListenFail
             \/ FireCommandsData \/ FireCommandsEof
    <2>1. PICK e \in WatchEvents : Firing(e) /\ now' = now
                                   /\ (NewTimer \/ UNCHANGED timerVars)
      BY <1>5 DEF FireWakeup, FireListenAccept, FireListenFail, FireCommandsData,
                  FireCommandsEof, WatchEvents
    <2> QED  BY <2>1, FireSocketServes
  <1>6. ASSUME NEW th \in Threads, AddTimer(th) PROVE [Service!Next]_(Service!vars)
    BY <1>6, NewTimerRequested DEF AddTimer, Service!Next
  <1>7. ASSUME NEW th \in Threads, Trigger(th) PROVE [Service!Next]_(Service!vars)
    BY <1>0, <1>7 DEF Trigger
  <1>8. CASE ClientConnects \/ ClientGivesUp \/ ClientSends \/ ClientCloses
    BY <1>0, <1>8 DEF ClientConnects, ClientGivesUp, ClientSends, ClientCloses
  <1>9. CASE Tick
    <2>1. UNCHANGED <<pending_list, timerVars>> /\ now' = now + 1
      BY <1>9 DEF Tick
    <2>2. Waiting' = Waiting
      BY <2>1 DEF Waiting, InUse
    <2> QED  BY <2>1, <2>2 DEF Service!Next, Service!Tick, Waiting
  <1>10. CASE UNCHANGED vars
    BY <1>0, <1>10 DEF vars
  <1> QED  BY <1>1, <1>2, <1>3, <1>4, <1>5, <1>6, <1>7, <1>8, <1>9, <1>10
           DEF Next, LoopStep, ThreadStep, EnvStep

\* Whoever asks for a timed callback is served by TimerService: once, not before
\* its time, and no later timer first (tgm_event.cpp, tgm_timer_add,
\* processTimeouts and firePending), whatever threads and callbacks add.
THEOREM TimerServiceImplemented == Spec => TimersServed
  <1>1. Init => Service!Init
    <2> SUFFICES ASSUME Init PROVE Service!Init
      OBVIOUS
    <2>1. \A t \in Timers : ~InUse(t)
      BY DEF Init, InUse, ToSet
    <2>2. Waiting = {}
      BY <2>1 DEF Waiting
    <2> QED  BY <2>2 DEF Init, Service!Init, Waiting
  <1> QED
    BY <1>1, NextServes, TypeCorrect, TimersFireInOrder, PTL
    DEF Spec, TimersServed, Service!Spec
=============================================================================
