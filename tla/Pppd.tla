------------------------------- MODULE Pppd --------------------------------
(***************************************************************************)
(* The data connection, huawei-tgm.c: mainLoop starts pppd on the modem's   *)
(* device once a dial has succeeded, polls the interface, waits for pppd to *)
(* end and goes back to AT commands; a thread per pppd waits for it;        *)
(* meanwhile the dispatch thread handles DIAL, DISCONNECT and RESET_STACK   *)
(* and the AT reader may report that its channel is closed.                 *)
(*                                                                         *)
(* A pppd process is named by the number of its dial, also its process id.  *)
(***************************************************************************)
EXTENDS Integers, FiniteSets

CONSTANTS
    MAX_PPP_FAIL_LIMIT,
    MaxDials,          \* bound: dials, and calls of fork
    MaxSessions,       \* bound: calls of at_open
    ForkMayFail,       \* whether fork may return -1
    ReadersPoll,       \* whether a reader may be so late as to find a state of
                       \* the next session after it has set its own
    Requests           \* requests clients make

ASSUME BoundsAssumption ==
    /\ MAX_PPP_FAIL_LIMIT \in Nat \ {0}
    /\ MaxDials \in Nat /\ MaxSessions \in Nat
    /\ {ForkMayFail, ReadersPoll} \subseteq BOOLEAN
    /\ Requests \subseteq {"QUERY_SIM_STATUS", "DIAL_DATA_NETWORK",
                           "DISCONNECT_DATA_NETWORK", "RESET_STACK"}

Dials == 1 .. MaxDials
Sessions == 1 .. MaxSessions
SimStates == {"SIM_NOT_READY", "SIM_LOCKED_OR_ABSENT", "SIM_READY"}
States == {"OFF", "UNAVAILABLE", "PPPD", "PPPD_READY"} \cup SimStates
InPppd(state) == state \in {"PPPD", "PPPD_READY"}
Notes == {"CONNECTED", "FAILED", "DISCONNECTED"}
Free == 0

VARIABLES
    sState,
    s_closed,
    main,             \* where mainLoop is
    dispatch,         \* where the dispatch thread is
    timers,           \* timed callbacks requested of the dispatch thread
    sessions,         \* calls of at_open so far
    reader,           \* where the AT reader of each session is
    channelOpen,      \* atchannel.c: the descriptor is open, s_readerClosed is not set
    pppd_process_id,  \* 0 before the first fork, -1 when there is no pppd
    pppd_fail_times,
    s_pppd_mutex,     \* Free, "main", or the dial of the waiter that holds it
    waiter,           \* where the waitForPPPDTerminated thread of each dial is
    target,           \* the process it waits for
    child,            \* pppd of each dial
    dials,            \* forks so far
    notes,            \* notifications sent for each dial
    ended             \* SIGTERM was sent to tgmd itself

stateVars == <<sState, s_closed>>
readers == <<sessions, reader, channelOpen>>
pppdVars == <<pppd_process_id, pppd_fail_times>>
waiterVars == <<waiter, target>>
childVars == <<child, dials, notes>>
callVars == <<pppdVars, s_pppd_mutex, waiterVars, childVars, ended>>
vars == <<stateVars, main, dispatch, timers, readers, callVars>>

\* mainLoop is in the branch that runs pppd, after the fork
PppdPcs == {"poll", "read", "connected", "ready", "test", "after", "kill",
            "wait", "enter", "sleeping", "woken", "done", "leave"}
Exists(d) == child[d] \in {"alive", "termed", "zombie"}

TypeOK ==
    /\ sState \in States
    /\ {s_closed, channelOpen, ended} \subseteq BOOLEAN
    /\ main \in PppdPcs \cup {"top", "fork", "reopen", "waitClose", "asleep"}
    /\ dispatch \in {"idle", "handshake", "radioOn", "powerOn", "asking",
                    "simReady", "simLocked", "dialling", "handover", "giveUp"}
    /\ timers \subseteq {"initializeCallback", "pollSIMState"}
    /\ sessions \in 0 .. MaxSessions
    /\ reader \in [Sessions -> {"none", "reading", "test", "set", "changed",
                                "polling", "gone"}]
    /\ pppd_process_id \in Dials \cup {0, -1}
    /\ pppd_fail_times \in 0 .. MAX_PPP_FAIL_LIMIT + 1
    /\ s_pppd_mutex \in Dials \cup {Free, -1}
    /\ waiter \in [Dials -> {"none", "start", "waitpid", "lock", "broadcast",
                             "dead"}]
    /\ target \in [Dials -> Dials \cup {-1}]
    /\ child \in [Dials -> {"none", "alive", "termed", "zombie", "reaped"}]
    /\ dials \in Dials \cup {0}
    /\ notes \in [Dials -> SUBSET Notes]

\* TGM_Init has started mainLoop
Init ==
    /\ sState = "UNAVAILABLE"
    /\ s_closed = FALSE
    /\ main = "top"
    /\ dispatch = "idle"
    /\ timers = {}
    /\ sessions = 0
    /\ reader = [r \in Sessions |-> "none"]
    /\ channelOpen = FALSE
    /\ pppd_process_id = 0
    /\ pppd_fail_times = 0
    /\ s_pppd_mutex = Free
    /\ waiter = [d \in Dials |-> "none"]
    /\ target = [d \in Dials |-> -1]
    /\ child = [d \in Dials |-> "none"]
    /\ dials = 0
    /\ notes = [d \in Dials |-> {}]
    /\ ended = FALSE

MainThread == -1     \* as the holder of s_pppd_mutex

\* setRadioState, up to the unlock of s_state_mutex: once the channel is closed
\* only some states may follow.  wakes says whether s_state_cond is broadcast.
Filtered(new) ==
    IF s_closed /\ new \notin {"PPPD", "OFF", "PPPD_READY"} THEN "UNAVAILABLE"
    ELSE new
setRadioState(new) == sState' = Filtered(new)
\* Mutant: no broadcast when the state does not change.
WakesOnChange(new) == sState # Filtered(new)

Wakes(new) == sState # Filtered(new) \/ s_closed

\* main, when another thread calls setRadioState: asleep is waitForClose's wait
WakeMain(new) ==
    main' = IF main = "asleep" /\ Wakes(new) THEN "waitClose" ELSE main

Goto(l) == main' = l

-----------------------------------------------------------------------------
(* mainLoop outside the pppd branch.                                        *)

LoopTop ==
    /\ main = "top"
    /\ Goto(IF sState = "PPPD" THEN "fork" ELSE "reopen")
    /\ UNCHANGED <<stateVars, dispatch, timers, readers, callVars>>

\* The device is open: at_open, and initializeCallback is requested.
Reopen ==
    /\ main = "reopen"
    /\ sessions < MaxSessions
    /\ s_closed' = FALSE
    /\ sessions' = sessions + 1
    /\ reader' = [reader EXCEPT ![sessions + 1] = "reading"]
    /\ channelOpen' = TRUE
    /\ timers' = timers \cup {"initializeCallback"}
    /\ Goto("waitClose")
    /\ UNCHANGED <<sState, dispatch, callVars>>

\* there is no device: mainLoop tries again in six seconds
OpenFails ==
    /\ main = "reopen"
    /\ setRadioState("OFF")
    /\ UNCHANGED <<s_closed, main, dispatch, timers, readers, callVars>>

WaitForClose ==
    /\ main = "waitClose"
    /\ Goto(IF s_closed THEN "top" ELSE "asleep")
    /\ UNCHANGED <<stateVars, dispatch, timers, readers, callVars>>

-----------------------------------------------------------------------------
(* mainLoop in the pppd branch.                                             *)

Fork ==
    /\ main = "fork"
    /\ dials < MaxDials
    /\ dials' = dials + 1
    /\ \/ pppd_process_id' = dials + 1 /\ child' = [child EXCEPT ![dials + 1] = "alive"]
       \/ ForkMayFail /\ pppd_process_id' = -1 /\ UNCHANGED child
    /\ waiter' = [waiter EXCEPT ![dials + 1] = "start"]
    /\ pppd_fail_times' = 0
    /\ Goto("poll")
    /\ UNCHANGED <<stateVars, dispatch, timers, readers, s_pppd_mutex, target, notes,
                   ended>>

\* checkPPPConnection's test of the process id; the caller adds one more
Poll ==
    /\ main = "poll"
    /\ IF pppd_process_id < 0
       THEN pppd_fail_times' = MAX_PPP_FAIL_LIMIT + 1 /\ Goto("test")
       ELSE UNCHANGED pppd_fail_times /\ Goto("read")
    /\ UNCHANGED <<stateVars, dispatch, timers, readers, pppd_process_id,
                   s_pppd_mutex, waiterVars, childVars, ended>>

\* Mutant: an absent interface is not a failure.
ReadOperstateUncounted ==
    /\ main = "read"
    /\ Goto("connected") \/ Goto("test")
    /\ UNCHANGED <<stateVars, dispatch, timers, readers, callVars>>

\* checkPPPConnection reads the interface's operstate: absent or down is one
\* failure, an empty read two
ReadOperstate ==
    /\ main = "read"
    /\ \/ /\ \E d \in Dials : child[d] \in {"alive", "termed"}
          /\ UNCHANGED pppd_fail_times
          /\ Goto("connected")
       \/ /\ pppd_fail_times' \in {pppd_fail_times + 1, pppd_fail_times + 2}
          /\ Goto("test")
    /\ UNCHANGED <<stateVars, dispatch, timers, readers, pppd_process_id,
                   s_pppd_mutex, waiterVars, childVars, ended>>

Notify(note) == notes' = [notes EXCEPT ![dials] = @ \cup {note}]

Connected ==
    /\ main = "connected"
    /\ Notify("CONNECTED")
    /\ Goto("ready")
    /\ UNCHANGED <<stateVars, dispatch, timers, readers, pppdVars, s_pppd_mutex,
                   waiterVars, child, dials, ended>>

\* Mutant: the loop is not left.
ReadyKeepsPolling ==
    /\ main = "ready"
    /\ setRadioState("PPPD_READY")
    /\ pppd_fail_times' = 0
    /\ Goto("test")
    /\ UNCHANGED <<s_closed, dispatch, timers, readers, pppd_process_id,
                   s_pppd_mutex, waiterVars, childVars, ended>>

Ready ==
    /\ main = "ready"
    /\ setRadioState("PPPD_READY")
    /\ pppd_fail_times' = 0
    /\ Goto("after")
    /\ UNCHANGED <<s_closed, dispatch, timers, readers, pppd_process_id,
                   s_pppd_mutex, waiterVars, childVars, ended>>

\* after a failure: give up when pppd has ended, else sleep(1) and go on
\* within the limit
TestProcess ==
    /\ main = "test"
    /\ Goto(IF pppd_process_id >= 0 /\ pppd_fail_times < MAX_PPP_FAIL_LIMIT
            THEN "poll" ELSE "after")
    /\ UNCHANGED <<stateVars, dispatch, timers, readers, callVars>>

AfterPolling ==
    /\ main = "after"
    /\ IF pppd_fail_times >= MAX_PPP_FAIL_LIMIT
       THEN Notify("FAILED") /\ Goto("kill")
       ELSE UNCHANGED notes /\ Goto("wait")
    /\ UNCHANGED <<stateVars, dispatch, timers, readers, pppdVars, s_pppd_mutex,
                   waiterVars, child, dials, ended>>

\* kill(pppd_process_id, SIGTERM); a process that has ended is not changed
Terminate ==
    child' = [d \in Dials |-> IF d = pppd_process_id /\ child[d] = "alive"
                              THEN "termed" ELSE child[d]]

\* Mutant: "Should we terminate pppd process here?"  No.
KillFailedNot ==
    /\ main = "kill"
    /\ Goto("wait")
    /\ UNCHANGED <<stateVars, dispatch, timers, readers, callVars>>

\* Mutant: having killed pppd, mainLoop does not wait for it.
KillFailedAndLeave ==
    /\ main = "kill"
    /\ Terminate
    /\ Goto("done")
    /\ UNCHANGED <<stateVars, dispatch, timers, readers, pppdVars, s_pppd_mutex,
                   waiterVars, dials, notes, ended>>

KillFailed ==
    /\ main = "kill"
    /\ Terminate
    /\ Goto("wait")
    /\ UNCHANGED <<stateVars, dispatch, timers, readers, pppdVars, s_pppd_mutex,
                   waiterVars, dials, notes, ended>>

\* while (pppd_process_id >= 0) pthread_cond_wait: the test ...
TestWait ==
    /\ main = "wait"
    /\ Goto(IF pppd_process_id >= 0 THEN "enter" ELSE "done")
    /\ UNCHANGED <<stateVars, dispatch, timers, readers, callVars>>

\* Mutant: waiting does not unlock the mutex.
EnterWaitLocked ==
    /\ main = "enter"
    /\ Goto("sleeping")
    /\ UNCHANGED <<stateVars, dispatch, timers, readers, callVars>>

\* ... and the wait.  Nobody has locked s_pppd_mutex for it: the wait unlocks
\* it all the same, whoever holds it, ...
EnterWait ==
    /\ main = "enter"
    /\ s_pppd_mutex' = Free
    /\ Goto("sleeping")
    /\ UNCHANGED <<stateVars, dispatch, timers, readers, pppdVars, waiterVars, childVars,
                   ended>>

WakeSpuriously ==
    /\ main \in {"sleeping", "asleep"}
    /\ Goto(IF main = "sleeping" THEN "woken" ELSE "waitClose")
    /\ UNCHANGED <<stateVars, dispatch, timers, readers, callVars>>

\* ... and returns with it locked.  It is not unlocked until the next wait.
WaitReturns ==
    /\ main = "woken"
    /\ s_pppd_mutex = Free
    /\ s_pppd_mutex' = MainThread
    /\ Goto("wait")
    /\ UNCHANGED <<stateVars, dispatch, timers, readers, pppdVars, waiterVars, childVars,
                   ended>>

Disconnected ==
    /\ main = "done"
    /\ IF sState = "PPPD_READY" THEN Notify("DISCONNECTED") ELSE UNCHANGED notes
    /\ Goto("leave")
    /\ UNCHANGED <<stateVars, dispatch, timers, readers, pppdVars, s_pppd_mutex,
                   waiterVars, child, dials, ended>>

Leave ==
    /\ main = "leave"
    /\ setRadioState("UNAVAILABLE")
    /\ Goto("top")
    /\ UNCHANGED <<s_closed, dispatch, timers, readers, callVars>>

MainStep ==
    \/ LoopTop \/ Reopen \/ OpenFails \/ WaitForClose
    \/ Fork \/ Poll \/ ReadOperstate \/ Connected \/ Ready \/ TestProcess
    \/ AfterPolling \/ KillFailed \/ TestWait \/ EnterWait \/ WakeSpuriously
    \/ WaitReturns \/ Disconnected \/ Leave

-----------------------------------------------------------------------------
(* waitForPPPDTerminated, and pppd itself.                                  *)

WaiterStarts(w) ==
    /\ waiter[w] = "start"
    /\ target' = [target EXCEPT ![w] = pppd_process_id]
    /\ waiter' = [waiter EXCEPT ![w] = "waitpid"]
    /\ UNCHANGED <<stateVars, main, dispatch, timers, readers, pppdVars, s_pppd_mutex,
                   childVars, ended>>

\* waitpid of a process, or of any when fork has failed: it reaps a zombie, or
\* fails when there is no such child
Waitpid(w) ==
    /\ waiter[w] = "waitpid"
    /\ LET mine == IF target[w] = -1 THEN Dials ELSE {target[w]} IN
         \/ \E d \in mine : /\ child[d] = "zombie"
                            /\ child' = [child EXCEPT ![d] = "reaped"]
         \/ /\ \A d \in mine : ~Exists(d)
            /\ UNCHANGED child
    /\ waiter' = [waiter EXCEPT ![w] = "lock"]
    /\ UNCHANGED <<stateVars, main, dispatch, timers, readers, pppdVars, s_pppd_mutex,
                   target, dials, notes, ended>>

WaiterLocks(w) ==
    /\ waiter[w] = "lock"
    /\ s_pppd_mutex = Free
    /\ s_pppd_mutex' = w
    /\ pppd_process_id' = -1
    /\ waiter' = [waiter EXCEPT ![w] = "broadcast"]
    /\ UNCHANGED <<stateVars, main, dispatch, timers, readers, pppd_fail_times,
                   target, childVars, ended>>

WaiterBroadcasts(w) ==
    /\ waiter[w] = "broadcast"
    /\ Goto(IF main = "sleeping" THEN "woken" ELSE main)
    /\ s_pppd_mutex' = Free
    /\ waiter' = [waiter EXCEPT ![w] = "dead"]
    /\ UNCHANGED <<stateVars, dispatch, timers, readers, pppdVars, target, childVars,
                   ended>>

WaiterStep(w) ==
    WaiterStarts(w) \/ Waitpid(w) \/ WaiterLocks(w) \/ WaiterBroadcasts(w)

PppdEnds(d) ==
    /\ child[d] \in {"alive", "termed"}
    /\ child' = [child EXCEPT ![d] = "zombie"]
    /\ UNCHANGED <<stateVars, main, dispatch, timers, readers, pppdVars, s_pppd_mutex,
                   waiterVars, dials, notes, ended>>

-----------------------------------------------------------------------------
(* The dispatch thread.                                                     *)

\* setRadioState by the dispatch thread or by a reader
SetState(new) ==
    /\ setRadioState(new) /\ WakeMain(new)
    /\ UNCHANGED <<s_closed, readers, callVars>>

\* initializeCallback, up to at_handshake
Initialize ==
    /\ dispatch = "idle" /\ "initializeCallback" \in timers
    /\ timers' = timers \ {"initializeCallback"}
    /\ SetState("UNAVAILABLE")
    /\ dispatch' = "handshake"

\* isRadioOn finds that the modem is on: only an open channel answers
RadioIsOn ==
    /\ channelOpen
    /\ dispatch' = "radioOn"
    /\ UNCHANGED <<stateVars, main, readers, callVars>>

\* the callback's AT commands end: the radio is on, or it is off or they fail
InitializeEnds ==
    /\ dispatch = "handshake"
    /\ \/ RadioIsOn
       \/ /\ dispatch' = "idle"
          /\ UNCHANGED <<stateVars, main, readers, callVars>>
    /\ UNCHANGED timers

\* TGM_REQUEST_QUERY_SIM_STATUS, which changes nothing unless the radio is on
QuerySimStatus ==
    /\ dispatch = "idle" /\ "QUERY_SIM_STATUS" \in Requests
    /\ sState \in {"OFF", "UNAVAILABLE"}
    /\ RadioIsOn
    /\ UNCHANGED timers

\* the state is set, and onRadioPowerOn follows when that has changed it
RadioOn ==
    /\ dispatch = "radioOn"
    /\ SetState("SIM_NOT_READY")
    /\ dispatch' = IF sState' # sState THEN "powerOn" ELSE "idle"
    /\ UNCHANGED timers

\* the test of pollSIMState, called or as a timed callback
pollSIMState ==
    /\ \/ dispatch = "powerOn" /\ UNCHANGED timers
       \/ /\ dispatch = "idle" /\ "pollSIMState" \in timers
          /\ timers' = timers \ {"pollSIMState"}
    /\ dispatch' = IF sState = "SIM_NOT_READY" THEN "asking" ELSE "idle"
    /\ UNCHANGED <<stateVars, main, readers, callVars>>

\* getSIMStatus: an answer of the modem, or none and another poll later.  When
\* the radio was found off since, it is asked for again, with a poll of its own
\* inside this one, which may come to nothing.
SimAnswers ==
    /\ dispatch = "asking"
    /\ \/ /\ channelOpen
          /\ dispatch' \in {"simReady", "simLocked"}
          /\ UNCHANGED <<stateVars, main, timers, readers, callVars>>
       \/ /\ sState \in {"OFF", "UNAVAILABLE"}
          /\ RadioIsOn
          /\ timers' \in {timers, timers \cup {"pollSIMState"}}
       \/ /\ dispatch' = "idle"
          /\ timers' = timers \cup {"pollSIMState"}
          /\ UNCHANGED <<stateVars, main, readers, callVars>>

\* what pollSIMState makes of the answer
SimSets ==
    /\ dispatch \in {"simReady", "simLocked"}
    /\ SetState(IF dispatch = "simReady" THEN "SIM_READY" ELSE "SIM_LOCKED_OR_ABSENT")
    /\ dispatch' = "idle"
    /\ UNCHANGED timers

\* requestDialDataNetwork: the AT command ...
Dial ==
    /\ dispatch = "idle" /\ "DIAL_DATA_NETWORK" \in Requests
    /\ sState = "SIM_READY"
    /\ dials < MaxDials
    /\ dispatch' = "dialling"
    /\ UNCHANGED <<stateVars, main, timers, readers, callVars>>

\* ... returns, without an error only on an open channel, and s_closed is set
\* without a lock ...
DialReturns ==
    /\ dispatch = "dialling"
    /\ s_closed' = TRUE
    /\ \/ channelOpen /\ dispatch' = "handover"
       \/ dispatch' = "giveUp"
    /\ UNCHANGED <<sState, main, timers, readers, callVars>>

\* ... and then the state
DialEnds ==
    /\ dispatch \in {"handover", "giveUp"}
    /\ SetState(IF dispatch = "handover" THEN "PPPD" ELSE "UNAVAILABLE")
    /\ dispatch' = "idle"
    /\ UNCHANGED timers

\* requestDisconnectDataNetwork.  kill(0) signals the whole process group.
Disconnect ==
    /\ dispatch = "idle" /\ "DISCONNECT_DATA_NETWORK" \in Requests
    /\ InPppd(sState)
    /\ IF pppd_process_id >= 0 THEN Terminate ELSE UNCHANGED child
    /\ ended' = (pppd_process_id = 0)
    /\ UNCHANGED <<stateVars, main, dispatch, timers, readers, pppdVars, s_pppd_mutex,
                   waiterVars, dials, notes>>

\* requestResetStack, in any state
ResetStack ==
    /\ dispatch = "idle" /\ "RESET_STACK" \in Requests
    /\ SetState("UNAVAILABLE")
    /\ UNCHANGED <<dispatch, timers>>

DispatchStep ==
    \/ Initialize \/ InitializeEnds \/ RadioOn \/ pollSIMState \/ SimAnswers
    \/ SimSets \/ DialReturns \/ DialEnds
Request == QuerySimStatus \/ Dial \/ Disconnect \/ ResetStack

-----------------------------------------------------------------------------
(* The AT reader: onATReaderClosed calls at_close, which closes whatever       *)
(* session is open, sets s_closed, tests the state, ...                        *)

ReaderCloses(r) ==
    /\ reader[r] = "reading"
    /\ s_closed' = TRUE
    /\ channelOpen' = FALSE
    /\ reader' = [reader EXCEPT ![r] = "test"]
    /\ UNCHANGED <<sState, main, dispatch, timers, sessions, callVars>>

ReaderTests(r) ==
    /\ reader[r] = "test"
    /\ reader' = [reader EXCEPT ![r] = IF InPppd(sState) THEN "gone" ELSE "set"]
    /\ UNCHANGED <<stateVars, main, dispatch, timers, sessions, channelOpen, callVars>>

\* ... and sets it ...
ReaderSets(r) ==
    /\ reader[r] = "set"
    /\ setRadioState("UNAVAILABLE") /\ WakeMain("UNAVAILABLE")
    /\ reader' = [reader EXCEPT ![r] = IF ReadersPoll /\ sState' # sState
                                          THEN "changed" ELSE "gone"]
    /\ UNCHANGED <<s_closed, dispatch, timers, sessions, channelOpen, callVars>>

\* ... and, if it finds a state that the dispatch thread has set since, in the
\* next session, calls pollSIMState as setRadioState does after its unlock.
\* mainLoop sets states too, but never while s_closed lets SIM states pass.
ReaderTestsAgain(r) ==
    /\ reader[r] = "changed"
    /\ reader' = [reader EXCEPT ![r] = IF sState = "SIM_NOT_READY" THEN "polling"
                                       ELSE "gone"]
    /\ UNCHANGED <<stateVars, main, dispatch, timers, sessions, channelOpen, callVars>>

ReaderPolls(r) ==
    /\ reader[r] = "polling"
    /\ reader' = [reader EXCEPT ![r] = "gone"]
    /\ \/ /\ channelOpen
          /\ \E new \in {"SIM_LOCKED_OR_ABSENT", "SIM_READY"} :
                setRadioState(new) /\ WakeMain(new)
          /\ UNCHANGED timers
       \/ /\ timers' = timers \cup {"pollSIMState"}
          /\ UNCHANGED <<sState, main>>
    /\ UNCHANGED <<s_closed, dispatch, sessions, channelOpen, callVars>>

ReaderStep(r) ==
    ReaderTests(r) \/ ReaderSets(r) \/ ReaderTestsAgain(r) \/ ReaderPolls(r)

Next ==
    /\ ~ended
    /\ \/ MainStep
       \/ \E w \in Dials : WaiterStep(w) \/ PppdEnds(w)
       \/ DispatchStep \/ Request
       \/ \E r \in Sessions : ReaderCloses(r) \/ ReaderStep(r)

Spec == Init /\ [][Next]_vars

\* Every thread runs on, but no device need be found, no client need ask for
\* anything, and pppd need only end when it was told to.  A waiter contends for
\* s_pppd_mutex with mainLoop, which may be woken spuriously again and again.
MainProgress == MainStep /\ ~(OpenFails \/ Reopen \/ WakeSpuriously)

Fairness ==
    /\ WF_vars(~ended /\ MainProgress)
    /\ WF_vars(~ended /\ DispatchStep)
    /\ \A d \in Dials :
         /\ WF_vars(~ended /\ WaiterStep(d))
         /\ SF_vars(~ended /\ WaiterLocks(d))
         /\ WF_vars(~ended /\ child[d] = "termed" /\ PppdEnds(d))
    /\ \A r \in Sessions : WF_vars(~ended /\ ReaderStep(r))

FairSpec == Spec /\ Fairness

-----------------------------------------------------------------------------
(* What holds.                                                              *)

ForkFailed == \E d \in 1 .. dials : child[d] = "none"

\* PPPD means that "the control is handover to pppd": while a pppd process
\* exists, not yet reaped included, mainLoop is in its pppd branch and does not
\* open the device, the AT channel stays marked closed, no other pppd exists,
\* no dial is under way and no disconnection has been reported, whatever
\* clients ask and whenever the channel closes.  A failed fork spoils it: its
\* waiter may reset pppd_process_id during the next dial.
HandedOver ==
    ~ForkFailed =>
        \A d \in Dials : Exists(d) =>
            /\ main \in PppdPcs
            /\ s_closed
            /\ sState \notin SimStates
            /\ dispatch \notin {"dialling", "handover", "giveUp"}
            /\ "DISCONNECTED" \notin notes[d]
            /\ \A e \in Dials \ {d} : ~Exists(e)

\* A dial is reported to the clients as connected or as failed, never as both;
\* it is reported as disconnected only after it was connected.
Outcome ==
    \A d \in Dials :
        /\ ~({"CONNECTED", "FAILED"} \subseteq notes[d])
        /\ "DISCONNECTED" \in notes[d] => "CONNECTED" \in notes[d]

\* mainLoop never misses the close of the channel: when it sleeps in
\* waitForClose with s_closed set, a thread that will broadcast s_state_cond is
\* on its way, though s_closed is set without the lock and not every close is
\* followed by setRadioState.
CloseNotMissed ==
    main = "asleep" /\ s_closed =>
        \/ dispatch \in {"handover", "giveUp"}
        \/ "initializeCallback" \in timers
        \/ \E r \in Sessions : reader[r] \in {"test", "set"}

\* Polling the interface comes to an end: by success, by the limit or because
\* pppd has ended.
PollingEnds == main = "fork" ~> main \in {"kill", "wait"} \/ ended

\* The end of a pppd is noticed: it is reaped and pppd_process_id is reset,
\* though mainLoop holds s_pppd_mutex all through a second dial.
DeathNoticed ==
    \A d \in Dials :
        (child[d] = "zombie" /\ pppd_process_id = d)
            ~> \/ child[d] = "reaped" /\ pppd_process_id # d
               \/ ended

\* A dial reported as failed leaves no pppd behind.
FailedIsGone ==
    \A d \in Dials : "FAILED" \in notes[d] ~> ~Exists(d) \/ ended

-----------------------------------------------------------------------------
(* What the comments say of the code, and it does not do.                    *)

\* "if pppd process still exists, then just wait for it": mainLoop waits while
\* there is a process, or somebody who will tell it that there is none.
WaitsForPppd ==
    main = "sleeping" /\ pppd_process_id < 0 =>
        \E d \in Dials : waiter[d] = "broadcast"
=============================================================================
