---------------------------- MODULE PppdProofs -----------------------------
(***************************************************************************)
(* Theorems about the data connection of Pppd, for any number of dials and *)
(* of openings of the device, any limit of failures, whether fork may fail *)
(* or not, and whatever requests clients make.                             *)
(*                                                                         *)
(* The inductive invariant PppdInv is a conjunction; each part is kept by  *)
(* the steps of mainLoop, of the waiters and pppd, of the dispatch thread  *)
(* and of the AT readers, one lemma each.                                  *)
(***************************************************************************)
EXTENDS Pppd, TLAPS

-----------------------------------------------------------------------------
(* The inductive invariant.                                                 *)

\* what goes with the places of mainLoop and of the waiters
PlacesInv ==
    /\ main \in {"poll", "read", "connected", "ready"} =>
          pppd_fail_times < MAX_PPP_FAIL_LIMIT
    /\ main \in PppdPcs => dials \in Dials
    /\ \A w \in Dials : waiter[w] # "none" => pppd_process_id # 0

\* what the clients were told of the present dial, by the place of mainLoop
NotesInv ==
    /\ \A d \in Dials : d > dials => notes[d] = {}
    /\ main \in {"poll", "read", "connected", "test"} => notes[dials] = {}
    /\ main = "ready" => notes[dials] = {"CONNECTED"}
    /\ main = "after" =>
          \/ notes[dials] = {}
          \/ notes[dials] = {"CONNECTED"} /\ pppd_fail_times < MAX_PPP_FAIL_LIMIT
    /\ main \in PppdPcs \ {"leave"} => "DISCONNECTED" \notin notes[dials]
    /\ sState = "PPPD_READY" =>
          /\ main \in {"after", "wait", "enter", "sleeping", "woken", "done", "leave"}
          /\ "CONNECTED" \in notes[dials]

Dialling == dispatch \in {"dialling", "handover", "giveUp"}

\* the channel is closed before the modem is handed over, and stays closed
ClosedInv ==
    /\ Dialling => ~InPppd(sState)
    /\ main \in PppdPcs \cup {"fork"} =>
          s_closed /\ sState \notin SimStates /\ ~Dialling
    /\ main \notin {"waitClose", "asleep"} =>
          s_closed \/ (~InPppd(sState) /\ dispatch \notin {"handover", "giveUp"})
    /\ ~s_closed /\ (InPppd(sState) \/ dispatch \in {"handover", "giveUp"}) =>
          "initializeCallback" \in timers
    /\ main = "asleep" /\ InPppd(sState) => "initializeCallback" \in timers

\* each dial's pppd, its waiter and pppd_process_id, unless a fork has failed; it
\* says nothing of who reaps the pppd, which in tgmd need not be the waiter
WaitersInv ==
    /\ \A d \in Dials : d > dials => child[d] = "none" /\ waiter[d] = "none"
    /\ \A d \in Dials : d < dials =>
          child[d] = "reaped" /\ waiter[d] \in {"broadcast", "dead"}
    /\ dials \in Dials =>
          /\ \/ waiter[dials] \in {"start", "waitpid"} /\ child[dials] # "none"
             \/ waiter[dials] \in {"lock", "broadcast", "dead"}
                /\ child[dials] = "reaped"
          /\ waiter[dials] \in {"start", "waitpid", "lock"} =>
                pppd_process_id = dials /\ main \in PppdPcs \ {"done", "leave"}
          /\ waiter[dials] \in {"waitpid", "lock"} => target[dials] = dials
          /\ waiter[dials] \in {"broadcast", "dead"} => pppd_process_id = -1

PppdInv ==
    /\ TypeOK /\ PlacesInv /\ NotesInv /\ Outcome /\ ClosedInv /\ CloseNotMissed
    /\ (~ForkFailed => WaitersInv)

-----------------------------------------------------------------------------
(* Each part is kept by each thread.                                        *)

\* Types and places: each step of mainLoop; the failure count stays within the
\* limit because polling goes on only below it.
LEMMA TypeMain ==
    ASSUME TypeOK, PlacesInv, MainStep PROVE TypeOK' /\ PlacesInv'
  <1> USE BoundsAssumption DEF TypeOK, PlacesInv, PppdPcs, Dials, Sessions,
          Goto, setRadioState, Filtered, States, SimStates, stateVars,
          readers, pppdVars, waiterVars, childVars, callVars, Free, Notify,
          Notes, Terminate, MainThread
  <1>1. CASE LoopTop BY <1>1 DEF LoopTop
  <1>2. CASE Reopen
    <2>1. sessions' \in 0 .. MaxSessions
      BY <1>2 DEF Reopen
    <2>2. reader' \in [Sessions -> {"none", "reading", "test", "set", "changed",
                                 "polling", "gone"}]
      BY <1>2 DEF Reopen
    <2> QED BY <1>2, <2>1, <2>2 DEF Reopen
  <1>3. CASE OpenFails BY <1>3 DEF OpenFails
  <1>4. CASE WaitForClose BY <1>4 DEF WaitForClose
  <1>5. CASE Fork
    <2>1. dials' \in Dials /\ dials' = dials + 1
      BY <1>5 DEF Fork
    <2>2. /\ child' \in [Dials -> {"none", "alive", "termed", "zombie", "reaped"}]
          /\ waiter' \in [Dials -> {"none", "start", "waitpid", "lock", "broadcast",
                                    "dead"}]
      BY <1>5 DEF Fork
    <2>3. pppd_process_id' \in Dials \cup {0, -1}
      BY <1>5, <2>1 DEF Fork
    <2>4. 0 \in 0 .. MAX_PPP_FAIL_LIMIT + 1 /\ 0 < MAX_PPP_FAIL_LIMIT
      OBVIOUS
    <2>5. pppd_process_id' # 0
      BY <1>5 DEF Fork
    <2> HIDE DEF Dials
    <2> QED BY <1>5, <2>1, <2>2, <2>3, <2>4, <2>5 DEF Fork
  <1>6. CASE Poll BY <1>6 DEF Poll
  <1>7. CASE ReadOperstate BY <1>7 DEF ReadOperstate
  <1>8. CASE Connected BY <1>8 DEF Connected
  <1>9. CASE Ready BY <1>9 DEF Ready
  <1>10. CASE TestProcess BY <1>10 DEF TestProcess
  <1>11. CASE AfterPolling BY <1>11 DEF AfterPolling
  <1>12. CASE KillFailed BY <1>12 DEF KillFailed
  <1>13. CASE TestWait BY <1>13 DEF TestWait
  <1>14. CASE EnterWait BY <1>14 DEF EnterWait
  <1>15. CASE WakeSpuriously BY <1>15 DEF WakeSpuriously
  <1>16. CASE WaitReturns BY <1>16 DEF WaitReturns
  <1>17. CASE Disconnected BY <1>17 DEF Disconnected
  <1>18. CASE Leave BY <1>18 DEF Leave
  <1> QED BY <1>1, <1>2, <1>3, <1>4, <1>5, <1>6, <1>7, <1>8, <1>9, <1>10,
             <1>11, <1>12, <1>13, <1>14, <1>15, <1>16, <1>17, <1>18
          DEF MainStep

\* ... of a waiter or a pppd; a waiter runs only once pppd_process_id is set
LEMMA TypeWaiter ==
    ASSUME TypeOK, PlacesInv, NEW w \in Dials, WaiterStep(w) \/ PppdEnds(w)
    PROVE  TypeOK' /\ PlacesInv'
  <1> USE BoundsAssumption DEF TypeOK, PlacesInv, PppdPcs, Dials, Sessions,
          Goto, States, SimStates, stateVars, readers, pppdVars, waiterVars,
          childVars, callVars, Free, Notes
  <1>1. CASE WaiterStarts(w) BY <1>1 DEF WaiterStarts
  <1>2. CASE Waitpid(w) BY <1>2 DEF Waitpid
  <1>3. CASE WaiterLocks(w) BY <1>3 DEF WaiterLocks
  <1>4. CASE WaiterBroadcasts(w) BY <1>4 DEF WaiterBroadcasts
  <1>5. CASE PppdEnds(w) BY <1>5 DEF PppdEnds
  <1> QED BY <1>1, <1>2, <1>3, <1>4, <1>5 DEF WaiterStep

\* ... of the dispatch thread
LEMMA TypeDispatch ==
    ASSUME TypeOK, PlacesInv, DispatchStep \/ Request
    PROVE  TypeOK' /\ PlacesInv'
  <1> USE BoundsAssumption DEF TypeOK, PlacesInv, PppdPcs, Dials, Sessions,
          setRadioState, Filtered, States, SimStates, stateVars, readers,
          pppdVars, waiterVars, childVars, callVars, Free, Notes, Terminate,
          SetState, WakeMain, Wakes, RadioIsOn
  <1>1. CASE Initialize BY <1>1 DEF Initialize
  <1>2. CASE InitializeEnds BY <1>2 DEF InitializeEnds
  <1>3. CASE pollSIMState
    <2>1. timers' \subseteq {"initializeCallback", "pollSIMState"}
      BY <1>3 DEF pollSIMState
    <2>2. dispatch' \in {"asking", "idle"}
      BY <1>3 DEF pollSIMState
    <2> QED BY <1>3, <2>1, <2>2 DEF pollSIMState
  <1>4. CASE SimAnswers BY <1>4 DEF SimAnswers
  <1>5. CASE DialReturns BY <1>5 DEF DialReturns
  <1>6. CASE DialEnds BY <1>6 DEF DialEnds
  <1>7. CASE QuerySimStatus BY <1>7 DEF QuerySimStatus
  <1>8. CASE Dial BY <1>8 DEF Dial
  <1>9. CASE Disconnect BY <1>9 DEF Disconnect
  <1>10. CASE ResetStack BY <1>10 DEF ResetStack
  <1>11. CASE RadioOn BY <1>11 DEF RadioOn
  <1>12. CASE SimSets BY <1>12 DEF SimSets
  <1> QED BY <1>1, <1>2, <1>3, <1>4, <1>5, <1>6, <1>7, <1>8, <1>9, <1>10,
             <1>11, <1>12
          DEF DispatchStep, Request

\* ... of an AT reader
LEMMA TypeReader ==
    ASSUME TypeOK, PlacesInv, NEW r \in Sessions, ReaderCloses(r) \/
           ReaderStep(r)
    PROVE  TypeOK' /\ PlacesInv'
  <1> USE BoundsAssumption DEF TypeOK, PlacesInv, PppdPcs, Dials, Sessions,
          setRadioState, Filtered, States, SimStates, stateVars, readers,
          pppdVars, waiterVars, childVars, callVars, Free, Notes, WakeMain,
          Wakes
  <1>1. CASE ReaderCloses(r)
    <2>1. reader' \in [Sessions -> {"none", "reading", "test", "set", "changed",
                                    "polling", "gone"}]
      BY <1>1 DEF ReaderCloses
    <2>2. /\ s_closed' \in BOOLEAN /\ channelOpen' \in BOOLEAN
          /\ UNCHANGED <<sState, main, dispatch, timers, sessions, callVars>>
      BY <1>1 DEF ReaderCloses
    <2>3. TypeOK'
      BY <2>1, <2>2
    <2> QED BY <2>2, <2>3
  <1>2. CASE ReaderTests(r) BY <1>2 DEF ReaderTests
  <1>3. CASE ReaderSets(r)
    <2>1. reader' \in [Sessions -> {"none", "reading", "test", "set", "changed",
                                    "polling", "gone"}]
      BY <1>3 DEF ReaderSets
    <2>2. /\ sState' \in States /\ main' \in {main, "waitClose"}
          /\ UNCHANGED <<s_closed, dispatch, timers, sessions, channelOpen, callVars>>
      BY <1>3 DEF ReaderSets
    <2>3. main' = main \/ (main = "asleep" /\ main' = "waitClose")
      BY <1>3 DEF ReaderSets
    <2> QED BY <2>1, <2>2, <2>3
  <1>4. CASE ReaderTestsAgain(r)
    <2>1. reader' \in [Sessions -> {"none", "reading", "test", "set", "changed",
                                    "polling", "gone"}]
      BY <1>4 DEF ReaderTestsAgain
    <2>2. UNCHANGED <<stateVars, main, dispatch, timers, sessions, channelOpen,
                      callVars>>
      BY <1>4 DEF ReaderTestsAgain
    <2> QED BY <2>1, <2>2
  <1>5. CASE ReaderPolls(r)
    <2>1. reader' \in [Sessions -> {"none", "reading", "test", "set", "changed",
                                    "polling", "gone"}]
      BY <1>5 DEF ReaderPolls
    <2>2. /\ sState' \in States
          /\ timers' \subseteq {"initializeCallback", "pollSIMState"}
          /\ UNCHANGED <<s_closed, dispatch, sessions, channelOpen, callVars>>
      BY <1>5 DEF ReaderPolls
    <2>3. main' = main \/ (main = "asleep" /\ main' = "waitClose")
      BY <1>5 DEF ReaderPolls
    <2> QED BY <2>1, <2>2, <2>3
  <1> QED BY <1>1, <1>2, <1>3, <1>4, <1>5 DEF ReaderStep

\* What clients were told: only mainLoop notifies, and where it may say FAILED
\* it has not said CONNECTED
LEMMA NotesMain ==
    ASSUME TypeOK, PlacesInv, NotesInv, Outcome, MainStep
    PROVE  NotesInv' /\ Outcome'
  <1> USE BoundsAssumption DEF TypeOK, PlacesInv, PppdPcs, Dials, Sessions,
          Goto, setRadioState, Filtered, States, SimStates, stateVars,
          readers, pppdVars, waiterVars, childVars, callVars, Free, Notify,
          Notes, Terminate, MainThread, NotesInv, Outcome
  <1>1. CASE LoopTop BY <1>1 DEF LoopTop
  <1>2. CASE Reopen BY <1>2 DEF Reopen
  <1>3. CASE OpenFails BY <1>3 DEF OpenFails
  <1>4. CASE WaitForClose BY <1>4 DEF WaitForClose
  <1>5. CASE Fork BY <1>5 DEF Fork
  <1>6. CASE Poll BY <1>6 DEF Poll
  <1>7. CASE ReadOperstate BY <1>7 DEF ReadOperstate
  <1>8. CASE Connected BY <1>8 DEF Connected
  <1>9. CASE Ready BY <1>9 DEF Ready
  <1>10. CASE TestProcess BY <1>10 DEF TestProcess
  <1>11. CASE AfterPolling BY <1>11 DEF AfterPolling
  <1>12. CASE KillFailed BY <1>12 DEF KillFailed
  <1>13. CASE TestWait BY <1>13 DEF TestWait
  <1>14. CASE EnterWait BY <1>14 DEF EnterWait
  <1>15. CASE WakeSpuriously BY <1>15 DEF WakeSpuriously
  <1>16. CASE WaitReturns BY <1>16 DEF WaitReturns
  <1>17. CASE Disconnected BY <1>17 DEF Disconnected
  <1>18. CASE Leave BY <1>18 DEF Leave
  <1> QED BY <1>1, <1>2, <1>3, <1>4, <1>5, <1>6, <1>7, <1>8, <1>9, <1>10,
             <1>11, <1>12, <1>13, <1>14, <1>15, <1>16, <1>17, <1>18
          DEF MainStep

\* ... the waiters and pppd change neither the notes nor the state
LEMMA NotesWaiter ==
    ASSUME TypeOK, PlacesInv, NotesInv, Outcome, NEW w \in Dials,
           WaiterStep(w) \/ PppdEnds(w)
    PROVE  NotesInv' /\ Outcome'
  <1> USE BoundsAssumption DEF TypeOK, PlacesInv, PppdPcs, Dials, Sessions,
          Goto, States, SimStates, stateVars, readers, pppdVars, waiterVars,
          childVars, callVars, Free, Notes, NotesInv, Outcome
  <1>1. CASE WaiterStarts(w) BY <1>1 DEF WaiterStarts
  <1>2. CASE Waitpid(w) BY <1>2 DEF Waitpid
  <1>3. CASE WaiterLocks(w) BY <1>3 DEF WaiterLocks
  <1>4. CASE WaiterBroadcasts(w) BY <1>4 DEF WaiterBroadcasts
  <1>5. CASE PppdEnds(w) BY <1>5 DEF PppdEnds
  <1> QED BY <1>1, <1>2, <1>3, <1>4, <1>5 DEF WaiterStep

\* ... the dispatch thread never sets PPPD_READY
LEMMA NotesDispatch ==
    ASSUME TypeOK, PlacesInv, NotesInv, Outcome, DispatchStep \/ Request
    PROVE  NotesInv' /\ Outcome'
  <1> USE BoundsAssumption DEF TypeOK, PlacesInv, PppdPcs, Dials, Sessions,
          setRadioState, Filtered, States, SimStates, stateVars, readers,
          pppdVars, waiterVars, childVars, callVars, Free, Notes, Terminate,
          SetState, NotesInv, Outcome, WakeMain, Wakes, RadioIsOn
  <1>1. CASE Initialize BY <1>1 DEF Initialize
  <1>2. CASE InitializeEnds BY <1>2 DEF InitializeEnds
  <1>3. CASE pollSIMState BY <1>3 DEF pollSIMState
  <1>4. CASE SimAnswers BY <1>4 DEF SimAnswers
  <1>5. CASE DialReturns BY <1>5 DEF DialReturns
  <1>6. CASE DialEnds BY <1>6 DEF DialEnds
  <1>7. CASE QuerySimStatus BY <1>7 DEF QuerySimStatus
  <1>8. CASE Dial BY <1>8 DEF Dial
  <1>9. CASE Disconnect BY <1>9 DEF Disconnect
  <1>10. CASE ResetStack BY <1>10 DEF ResetStack
  <1>11. CASE RadioOn BY <1>11 DEF RadioOn
  <1>12. CASE SimSets BY <1>12 DEF SimSets
  <1> QED BY <1>1, <1>2, <1>3, <1>4, <1>5, <1>6, <1>7, <1>8, <1>9, <1>10,
             <1>11, <1>12
          DEF DispatchStep, Request

\* ... nor does an AT reader
LEMMA NotesReader ==
    ASSUME TypeOK, PlacesInv, NotesInv, Outcome, NEW r \in Sessions,
           ReaderCloses(r) \/ ReaderStep(r)
    PROVE  NotesInv' /\ Outcome'
  <1> USE BoundsAssumption DEF TypeOK, PlacesInv, PppdPcs, Dials, Sessions,
          setRadioState, Filtered, States, SimStates, stateVars, readers,
          pppdVars, waiterVars, childVars, callVars, Free, Notes, NotesInv,
          Outcome, WakeMain, Wakes
  <1>1. CASE ReaderCloses(r) BY <1>1 DEF ReaderCloses
  <1>2. CASE ReaderTests(r) BY <1>2 DEF ReaderTests
  <1>3. CASE ReaderSets(r) BY <1>3 DEF ReaderSets
  <1>4. CASE ReaderTestsAgain(r) BY <1>4 DEF ReaderTestsAgain
  <1>5. CASE ReaderPolls(r) BY <1>5 DEF ReaderPolls
  <1> QED BY <1>1, <1>2, <1>3, <1>4, <1>5 DEF ReaderStep

\* The closed channel: only Reopen clears s_closed, and requests the callback
\* that sets a state
LEMMA ClosedMain ==
    ASSUME TypeOK, PlacesInv, ClosedInv, CloseNotMissed, MainStep
    PROVE  ClosedInv' /\ CloseNotMissed'
  <1> USE BoundsAssumption DEF TypeOK, PlacesInv, PppdPcs, Dials, Sessions,
          Goto, setRadioState, Filtered, States, SimStates, stateVars,
          readers, pppdVars, waiterVars, childVars, callVars, Free, Notify,
          Notes, Terminate, MainThread, ClosedInv, CloseNotMissed, Dialling,
          InPppd
  <1>1. CASE LoopTop BY <1>1 DEF LoopTop
  <1>2. CASE Reopen BY <1>2 DEF Reopen
  <1>3. CASE OpenFails BY <1>3 DEF OpenFails
  <1>4. CASE WaitForClose BY <1>4 DEF WaitForClose
  <1>5. CASE Fork BY <1>5 DEF Fork
  <1>6. CASE Poll BY <1>6 DEF Poll
  <1>7. CASE ReadOperstate BY <1>7 DEF ReadOperstate
  <1>8. CASE Connected BY <1>8 DEF Connected
  <1>9. CASE Ready BY <1>9 DEF Ready
  <1>10. CASE TestProcess BY <1>10 DEF TestProcess
  <1>11. CASE AfterPolling BY <1>11 DEF AfterPolling
  <1>12. CASE KillFailed BY <1>12 DEF KillFailed
  <1>13. CASE TestWait BY <1>13 DEF TestWait
  <1>14. CASE EnterWait BY <1>14 DEF EnterWait
  <1>15. CASE WakeSpuriously BY <1>15 DEF WakeSpuriously
  <1>16. CASE WaitReturns BY <1>16 DEF WaitReturns
  <1>17. CASE Disconnected BY <1>17 DEF Disconnected
  <1>18. CASE Leave BY <1>18 DEF Leave
  <1> QED BY <1>1, <1>2, <1>3, <1>4, <1>5, <1>6, <1>7, <1>8, <1>9, <1>10,
             <1>11, <1>12, <1>13, <1>14, <1>15, <1>16, <1>17, <1>18
          DEF MainStep

\* ... a waiter wakes mainLoop at most from the wait for pppd
LEMMA ClosedWaiter ==
    ASSUME TypeOK, PlacesInv, ClosedInv, CloseNotMissed, NEW w \in Dials,
           WaiterStep(w) \/ PppdEnds(w)
    PROVE  ClosedInv' /\ CloseNotMissed'
  <1> USE BoundsAssumption DEF TypeOK, PlacesInv, PppdPcs, Dials, Sessions,
          Goto, States, SimStates, stateVars, readers, pppdVars, waiterVars,
          childVars, callVars, Free, Notes, ClosedInv, CloseNotMissed,
          Dialling, InPppd
  <1>1. CASE WaiterStarts(w) BY <1>1 DEF WaiterStarts
  <1>2. CASE Waitpid(w) BY <1>2 DEF Waitpid
  <1>3. CASE WaiterLocks(w) BY <1>3 DEF WaiterLocks
  <1>4. CASE WaiterBroadcasts(w) BY <1>4 DEF WaiterBroadcasts
  <1>5. CASE PppdEnds(w) BY <1>5 DEF PppdEnds
  <1> QED BY <1>1, <1>2, <1>3, <1>4, <1>5 DEF WaiterStep

\* ... while s_closed is set, no state but UNAVAILABLE, OFF or a PPPD one
\* follows
LEMMA ClosedDispatch ==
    ASSUME TypeOK, PlacesInv, ClosedInv, CloseNotMissed, DispatchStep \/
           Request
    PROVE  ClosedInv' /\ CloseNotMissed'
  <1> USE BoundsAssumption DEF TypeOK, PlacesInv, PppdPcs, Dials, Sessions,
          setRadioState, Filtered, States, SimStates, stateVars, readers,
          pppdVars, waiterVars, childVars, callVars, Free, Notes, Terminate,
          SetState, ClosedInv, CloseNotMissed, Dialling, InPppd, WakeMain,
          Wakes, RadioIsOn
  <1>1. CASE Initialize BY <1>1 DEF Initialize
  <1>2. CASE InitializeEnds BY <1>2 DEF InitializeEnds
  <1>3. CASE pollSIMState BY <1>3 DEF pollSIMState
  <1>4. CASE SimAnswers BY <1>4 DEF SimAnswers
  <1>5. CASE DialReturns BY <1>5 DEF DialReturns
  <1>6. CASE DialEnds BY <1>6 DEF DialEnds
  <1>7. CASE QuerySimStatus BY <1>7 DEF QuerySimStatus
  <1>8. CASE Dial BY <1>8 DEF Dial
  <1>9. CASE Disconnect BY <1>9 DEF Disconnect
  <1>10. CASE ResetStack BY <1>10 DEF ResetStack
  <1>11. CASE RadioOn BY <1>11 DEF RadioOn
  <1>12. CASE SimSets BY <1>12 DEF SimSets
  <1> QED BY <1>1, <1>2, <1>3, <1>4, <1>5, <1>6, <1>7, <1>8, <1>9, <1>10,
             <1>11, <1>12
          DEF DispatchStep, Request

\* ... a reader that finds the state to be a PPPD one leaves it
LEMMA ClosedReader ==
    ASSUME TypeOK, PlacesInv, ClosedInv, CloseNotMissed, NEW r \in Sessions,
           ReaderCloses(r) \/ ReaderStep(r)
    PROVE  ClosedInv' /\ CloseNotMissed'
  <1> USE BoundsAssumption DEF TypeOK, PlacesInv, PppdPcs, Dials, Sessions,
          setRadioState, Filtered, States, SimStates, stateVars, readers,
          pppdVars, waiterVars, childVars, callVars, Free, Notes, ClosedInv,
          CloseNotMissed, Dialling, InPppd, WakeMain, Wakes
  <1>1. CASE ReaderCloses(r) BY <1>1 DEF ReaderCloses
  <1>2. CASE ReaderTests(r) BY <1>2 DEF ReaderTests
  <1>3. CASE ReaderSets(r) BY <1>3 DEF ReaderSets
  <1>4. CASE ReaderTestsAgain(r) BY <1>4 DEF ReaderTestsAgain
  <1>5. CASE ReaderPolls(r) BY <1>5 DEF ReaderPolls
  <1> QED BY <1>1, <1>2, <1>3, <1>4, <1>5 DEF ReaderStep

\* Waiters: mainLoop leaves its pppd branch only when the waiter has reset
\* pppd_process_id, since fork has always given it a process
LEMMA WaitersMain ==
    ASSUME TypeOK, PlacesInv, ~ForkFailed => WaitersInv, ~ForkFailed',
           MainStep
    PROVE  WaitersInv'
  <1> USE BoundsAssumption DEF TypeOK, PlacesInv, PppdPcs, Dials, Sessions,
          Goto, setRadioState, Filtered, States, SimStates, stateVars,
          readers, pppdVars, waiterVars, childVars, callVars, Free, Notify,
          Notes, Terminate, MainThread, WaitersInv, Exists, ForkFailed
  <1>1. CASE LoopTop BY <1>1 DEF LoopTop
  <1>2. CASE Reopen BY <1>2 DEF Reopen
  <1>3. CASE OpenFails BY <1>3 DEF OpenFails
  <1>4. CASE WaitForClose BY <1>4 DEF WaitForClose
  <1>5. CASE Fork BY <1>5 DEF Fork
  <1>6. CASE Poll BY <1>6 DEF Poll
  <1>7. CASE ReadOperstate BY <1>7 DEF ReadOperstate
  <1>8. CASE Connected BY <1>8 DEF Connected
  <1>9. CASE Ready BY <1>9 DEF Ready
  <1>10. CASE TestProcess BY <1>10 DEF TestProcess
  <1>11. CASE AfterPolling BY <1>11 DEF AfterPolling
  <1>12. CASE KillFailed BY <1>12 DEF KillFailed
  <1>13. CASE TestWait BY <1>13 DEF TestWait
  <1>14. CASE EnterWait BY <1>14 DEF EnterWait
  <1>15. CASE WakeSpuriously BY <1>15 DEF WakeSpuriously
  <1>16. CASE WaitReturns BY <1>16 DEF WaitReturns
  <1>17. CASE Disconnected BY <1>17 DEF Disconnected
  <1>18. CASE Leave BY <1>18 DEF Leave
  <1> QED BY <1>1, <1>2, <1>3, <1>4, <1>5, <1>6, <1>7, <1>8, <1>9, <1>10,
             <1>11, <1>12, <1>13, <1>14, <1>15, <1>16, <1>17, <1>18
          DEF MainStep

\* ... each waiter waits for, reaps and reports its own dial's pppd
LEMMA WaitersWaiter ==
    ASSUME TypeOK, PlacesInv, ~ForkFailed => WaitersInv, ~ForkFailed', NEW w
           \in Dials, WaiterStep(w) \/ PppdEnds(w)
    PROVE  WaitersInv'
  <1> USE BoundsAssumption DEF TypeOK, PlacesInv, PppdPcs, Dials, Sessions,
          Goto, States, SimStates, stateVars, readers, pppdVars, waiterVars,
          childVars, callVars, Free, Notes, WaitersInv, Exists, ForkFailed
  <1>1. CASE WaiterStarts(w) BY <1>1 DEF WaiterStarts
  <1>2. CASE Waitpid(w)
    <2>1. dials' = dials /\ \A d \in Dials : child'[d] = "none" <=> child[d] = "none"
      BY <1>2 DEF Waitpid
    <2>2. WaitersInv
      BY <2>1
    <2>3. w = dials /\ target[w] = dials /\ dials # -1
      <3>1. waiter[w] = "waitpid"
        BY <1>2 DEF Waitpid
      <3>2. w \in Nat /\ dials \in Nat
        BY ONLY TypeOK, w \in Dials, BoundsAssumption DEF TypeOK, Dials
      <3>3. ~(w > dials) /\ ~(w < dials)
        BY ONLY <2>2, <3>1, w \in Dials DEF WaitersInv
      <3>4. w = dials
        BY ONLY <3>2, <3>3
      <3> QED  BY ONLY <2>2, <3>1, <3>4, w \in Dials, BoundsAssumption
                DEF WaitersInv, Dials
    <2>4. child'[w] = "reaped" /\ \A d \in Dials \ {w} : child'[d] = child[d]
      BY <1>2, <2>2, <2>3 DEF Waitpid
    <2>5. waiter' = [waiter EXCEPT ![w] = "lock"]
      BY <1>2 DEF Waitpid
    <2>6. UNCHANGED <<main, pppd_process_id, target, dials>>
      BY <1>2 DEF Waitpid
    <2> QED  BY <1>2, <2>2, <2>3, <2>4, <2>5, <2>6 DEF Waitpid
  <1>3. CASE WaiterLocks(w) BY <1>3 DEF WaiterLocks
  <1>4. CASE WaiterBroadcasts(w) BY <1>4 DEF WaiterBroadcasts
  <1>5. CASE PppdEnds(w) BY <1>5 DEF PppdEnds
  <1> QED BY <1>1, <1>2, <1>3, <1>4, <1>5 DEF WaiterStep

\* ... a disconnection at most sends SIGTERM, and never to the group
LEMMA WaitersDispatch ==
    ASSUME TypeOK, PlacesInv, ~ForkFailed => WaitersInv, ~ForkFailed',
           DispatchStep \/ Request
    PROVE  WaitersInv'
  <1> USE BoundsAssumption DEF TypeOK, PlacesInv, PppdPcs, Dials, Sessions,
          setRadioState, Filtered, States, SimStates, stateVars, readers,
          pppdVars, waiterVars, childVars, callVars, Free, Notes, Terminate,
          SetState, WaitersInv, Exists, ForkFailed, WakeMain, Wakes, RadioIsOn
  <1>1. CASE Initialize BY <1>1 DEF Initialize
  <1>2. CASE InitializeEnds BY <1>2 DEF InitializeEnds
  <1>3. CASE pollSIMState BY <1>3 DEF pollSIMState
  <1>4. CASE SimAnswers
    <2>1. /\ UNCHANGED <<pppd_process_id, waiter, target, child, dials>>
          /\ main' = main \/ (main = "asleep" /\ main' = "waitClose")
      BY <1>4 DEF SimAnswers
    <2> QED  BY <2>1
  <1>5. CASE DialReturns BY <1>5 DEF DialReturns
  <1>6. CASE DialEnds BY <1>6 DEF DialEnds
  <1>7. CASE QuerySimStatus BY <1>7 DEF QuerySimStatus
  <1>8. CASE Dial BY <1>8 DEF Dial
  <1>9. CASE Disconnect
    <2>1. /\ UNCHANGED <<main, pppd_process_id, waiter, target, dials>>
          /\ \A e \in Dials : \/ child'[e] = child[e]
                              \/ child[e] = "alive" /\ child'[e] = "termed"
      BY <1>9 DEF Disconnect
    <2> QED  BY <2>1
  <1>10. CASE ResetStack BY <1>10 DEF ResetStack
  <1>11. CASE RadioOn BY <1>11 DEF RadioOn
  <1>12. CASE SimSets BY <1>12 DEF SimSets
  <1> QED BY <1>1, <1>2, <1>3, <1>4, <1>5, <1>6, <1>7, <1>8, <1>9, <1>10,
             <1>11, <1>12
          DEF DispatchStep, Request

\* ... a reader touches none of this
LEMMA WaitersReader ==
    ASSUME TypeOK, PlacesInv, ~ForkFailed => WaitersInv, ~ForkFailed', NEW r
           \in Sessions, ReaderCloses(r) \/ ReaderStep(r)
    PROVE  WaitersInv'
  <1> USE BoundsAssumption DEF TypeOK, PlacesInv, PppdPcs, Dials, Sessions,
          setRadioState, Filtered, States, SimStates, stateVars, readers,
          pppdVars, waiterVars, childVars, callVars, Free, Notes, WaitersInv,
          Exists, ForkFailed, WakeMain, Wakes
  <1>1. CASE ReaderCloses(r) BY <1>1 DEF ReaderCloses
  <1>2. CASE ReaderTests(r) BY <1>2 DEF ReaderTests
  <1>3. CASE ReaderSets(r) BY <1>3 DEF ReaderSets
  <1>4. CASE ReaderTestsAgain(r) BY <1>4 DEF ReaderTestsAgain
  <1>5. CASE ReaderPolls(r) BY <1>5 DEF ReaderPolls
  <1> QED BY <1>1, <1>2, <1>3, <1>4, <1>5 DEF ReaderStep

-----------------------------------------------------------------------------
(* The invariant holds.                                                     *)

\* mainLoop starts without a pppd, and the state is UNAVAILABLE
LEMMA PppdInvInit == Init => PppdInv
  <1> SUFFICES ASSUME Init PROVE PppdInv
    OBVIOUS
  <1> USE BoundsAssumption DEF Init
  <1>1. TypeOK
    <2>1. 0 \in 0 .. MaxSessions /\ 0 \in 0 .. MAX_PPP_FAIL_LIMIT + 1
      OBVIOUS
    <2>2. reader \in [Sessions -> {"none", "reading", "test", "set", "changed",
                                 "polling", "gone"}]
      OBVIOUS
    <2>3. notes \in [Dials -> SUBSET Notes]
      OBVIOUS
    <2>4. sState \in States
      BY DEF States
    <2> QED  BY <2>1, <2>2, <2>3, <2>4 DEF TypeOK, Free
  <1>2. PlacesInv /\ NotesInv /\ Outcome
    BY DEF PlacesInv, NotesInv, Outcome, PppdPcs, Dials
  <1>3. ClosedInv /\ CloseNotMissed
    BY DEF ClosedInv, CloseNotMissed, Dialling, InPppd, SimStates, PppdPcs
  <1>4. WaitersInv
    BY DEF WaitersInv, Dials
  <1> QED  BY <1>1, <1>2, <1>3, <1>4 DEF PppdInv

\* a dial whose fork has failed never gets a pppd
LEMMA ForkFailedStays ==
    ASSUME TypeOK, Next, ForkFailed PROVE ForkFailed'
  <1> PICK d \in 1 .. dials : child[d] = "none"
    BY DEF ForkFailed
  <1>1. dials \in Nat /\ d \in Dials
    BY BoundsAssumption DEF TypeOK, Dials
  <1>2. CASE Fork
    <2>1. dials' = dials + 1 /\ child'[d] = "none"
      BY <1>1, <1>2 DEF Fork, TypeOK
    <2> QED  BY <1>1, <2>1 DEF ForkFailed
  <1>3. CASE KillFailed \/ Disconnect
    BY <1>1, <1>3
    DEF KillFailed, Disconnect, Terminate, ForkFailed, TypeOK, childVars
  <1>4. CASE \E w \in Dials : WaiterStep(w) \/ PppdEnds(w)
    BY <1>1, <1>4
    DEF WaiterStep, WaiterStarts, Waitpid, WaiterLocks, WaiterBroadcasts,
        PppdEnds, ForkFailed, TypeOK, childVars
  <1>5. CASE UNCHANGED <<child, dials>>
    BY <1>5 DEF ForkFailed
  <1>6. CASE MainStep /\ ~Fork /\ ~KillFailed
    <2>1. UNCHANGED <<child, dials>>
      BY <1>6
      DEF MainStep, LoopTop, Reopen, OpenFails, WaitForClose, Poll, ReadOperstate,
          Connected, Ready, TestProcess, AfterPolling, TestWait, EnterWait,
          WakeSpuriously, WaitReturns, Disconnected, Leave, callVars, childVars
    <2> QED  BY <1>5, <2>1
  <1>7. CASE (DispatchStep \/ Request) /\ ~Disconnect
    <2>1. UNCHANGED <<child, dials>>
      BY <1>7
      DEF DispatchStep, Request, Initialize, InitializeEnds, pollSIMState,
          SimAnswers, DialReturns, DialEnds, QuerySimStatus, Dial, ResetStack,
          RadioIsOn, RadioOn, SimSets, SetState, callVars, childVars
    <2> QED  BY <1>5, <2>1
  <1>8. CASE \E r \in Sessions : ReaderCloses(r) \/ ReaderStep(r)
    <2>1. UNCHANGED <<child, dials>>
      BY <1>8 DEF ReaderCloses, ReaderStep, ReaderTests, ReaderSets,
          ReaderTestsAgain, ReaderPolls, callVars, childVars
    <2> QED  BY <1>5, <2>1
  <1> QED  BY <1>2, <1>3, <1>4, <1>6, <1>7, <1>8 DEF Next

\* each step is one of the four kinds of thread, or changes nothing
LEMMA PppdInvNext ==
    ASSUME PppdInv, [Next]_vars PROVE PppdInv'
  <1> USE DEF PppdInv
  <1>1. CASE MainStep
    <2>1. /\ TypeOK' /\ PlacesInv' /\ NotesInv' /\ Outcome'
          /\ ClosedInv' /\ CloseNotMissed'
      BY <1>1, TypeMain, NotesMain, ClosedMain
    <2> QED  BY <1>1, <2>1, WaitersMain
  <1>2. CASE \E w \in Dials : WaiterStep(w) \/ PppdEnds(w)
    <2> PICK w \in Dials : WaiterStep(w) \/ PppdEnds(w)
      BY <1>2
    <2>1. /\ TypeOK' /\ PlacesInv' /\ NotesInv' /\ Outcome'
          /\ ClosedInv' /\ CloseNotMissed'
      BY TypeWaiter, NotesWaiter, ClosedWaiter
    <2> QED  BY <2>1, WaitersWaiter
  <1>3. CASE DispatchStep \/ Request
    <2>1. /\ TypeOK' /\ PlacesInv' /\ NotesInv' /\ Outcome'
          /\ ClosedInv' /\ CloseNotMissed'
      BY <1>3, TypeDispatch, NotesDispatch, ClosedDispatch
    <2> QED  BY <1>3, <2>1, WaitersDispatch
  <1>4. CASE \E r \in Sessions : ReaderCloses(r) \/ ReaderStep(r)
    <2> PICK r \in Sessions : ReaderCloses(r) \/ ReaderStep(r)
      BY <1>4
    <2>1. /\ TypeOK' /\ PlacesInv' /\ NotesInv' /\ Outcome'
          /\ ClosedInv' /\ CloseNotMissed'
      BY TypeReader, NotesReader, ClosedReader
    <2> QED  BY <2>1, WaitersReader
  <1>5. CASE UNCHANGED vars
    BY <1>5
    DEF vars, stateVars, readers, callVars, pppdVars, waiterVars, childVars,
        TypeOK, PlacesInv, NotesInv, Outcome, ClosedInv, CloseNotMissed,
        WaitersInv, ForkFailed, Dialling, Exists
  <1> QED  BY <1>1, <1>2, <1>3, <1>4, <1>5 DEF Next

LEMMA PppdInvInvariant == Spec => []PppdInv
  BY PppdInvInit, PppdInvNext, PTL DEF Spec

\* While its pppd exists a dial is the last one, its waiter has not reset
\* pppd_process_id, and so mainLoop has not left its branch.
LEMMA WaitersHandOver == PppdInv => HandedOver
  <1> SUFFICES ASSUME PppdInv, ~ForkFailed, NEW d \in Dials, Exists(d)
               PROVE  /\ main \in PppdPcs
                      /\ s_closed
                      /\ sState \notin SimStates
                      /\ dispatch \notin {"dialling", "handover", "giveUp"}
                      /\ "DISCONNECTED" \notin notes[d]
                      /\ \A e \in Dials \ {d} : ~Exists(e)
    BY DEF HandedOver
  <1>1. WaitersInv /\ TypeOK
    BY DEF PppdInv
  <1>2. d = dials /\ \A e \in Dials \ {d} : ~Exists(e)
    BY <1>1, BoundsAssumption DEF WaitersInv, TypeOK, Dials, Exists
  <1>3. main \in PppdPcs \ {"done", "leave"}
    BY <1>1, <1>2 DEF WaitersInv, Exists
  <1>4. "DISCONNECTED" \notin notes[d]
    BY <1>2, <1>3 DEF PppdInv, NotesInv
  <1>5. s_closed /\ sState \notin SimStates /\ ~Dialling
    BY <1>3 DEF PppdInv, ClosedInv
  <1> QED  BY <1>2, <1>3, <1>4, <1>5 DEF Dialling

-----------------------------------------------------------------------------
(* The theorems.                                                            *)

\* Every variable keeps its type; the count of failures never passes the limit
\* by more than one (huawei-tgm.c, checkPPPConnection).
THEOREM TypeCorrect == Spec => []TypeOK
  BY PppdInvInvariant, PTL DEF PppdInv

\* While a pppd exists the modem is its own: mainLoop stays in its branch, the
\* channel stays closed, no dial is under way and no other pppd exists
\* (huawei-tgm.c, mainLoop and waitForPPPDTerminated), until a fork fails.
THEOREM HandedOverHolds == Spec => []HandedOver
  BY PppdInvInvariant, WaitersHandOver, PTL

\* No dial is reported as connected and as failed, and none as disconnected
\* that was not connected (huawei-tgm.c, mainLoop), failed forks included.
THEOREM OutcomeHolds == Spec => []Outcome
  BY PppdInvInvariant, PTL DEF PppdInv

\* waitForClose never sleeps through the close of the channel (huawei-tgm.c,
\* waitForClose, onATReaderClosed and requestDialDataNetwork).
THEOREM CloseIsNotMissed == Spec => []CloseNotMissed
  BY PppdInvInvariant, PTL DEF PppdInv
=============================================================================
