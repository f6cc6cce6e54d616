----------------------------- MODULE Requests ------------------------------
(***************************************************************************)
(* Requests and responses on the command socket: tgm.cpp from the receipt   *)
(* of a request to the two writes of its response, the unsolicited          *)
(* responses of other threads, and huawei-tgm.c's onRequest and             *)
(* setRadioState, which send them.                                          *)
(*                                                                         *)
(* The dispatch thread accepts the client, receives and handles requests    *)
(* and closes the socket; the notifiers (mainLoop and the AT readers)       *)
(* change the radio state and send notifications meanwhile.  A connection   *)
(* is named by its number; file descriptors are reused.  The assignment of  *)
(* sState and of s_fdCommand is seen by other threads at once.              *)
(***************************************************************************)
EXTENDS Integers, FiniteSets, Sequences

CONSTANTS
    Notifiers,
    Kinds,           \* the requests clients make
    NotifierStates,  \* the radio states other threads and timers set
    MaxClients,      \* bound: connections
    MaxRequests,     \* bound: requests, all connections together
    MaxNotices,      \* bound: what notifiers and timers begin to tell
    Fds              \* bound: the descriptors accept and the device may get

Dispatch == "dispatch"
Threads == Notifiers \cup {Dispatch}
Free == "free"
NoFd == 0
Device == -1
Closed == 0
Clients == 1 .. MaxClients
Requests == 1 .. MaxRequests

OffStates == {"OFF", "UNAVAILABLE"}
PppdStates == {"PPPD", "PPPD_READY"}
SimStates == {"SIM_NOT_READY", "SIM_LOCKED_OR_ABSENT", "SIM_READY"}
States == OffStates \cup PppdStates \cup SimStates

\* dispatchStrings may find a block invalid; the others read no argument
StringKinds == {"SET_PDP_CONTEXT", "SET_PIN_CODE", "SET_PPPD_AUTH"}
\* answered with a line of the modem's
LineKinds == {"QUERY_IMEI", "QUERY_IMSI", "QUERY_NUMBER", "QUERY_MANUFACTURER",
              "QUERY_MODEM_MODEL", "QUERY_OPERATOR"}
CachedKinds == {"QUERY_OPERATOR", "QUERY_MODEM_MODEL", "QUERY_MANUFACTURER"}
AllKinds == StringKinds \cup CachedKinds \cup
    {"DIAL_DATA_NETWORK", "DISCONNECT_DATA_NETWORK", "QUERY_SIGNAL_STRENGTH",
     "QUERY_IMEI", "QUERY_IMSI", "QUERY_NUMBER", "QUERY_SIM_STATUS",
     "QUERY_STATE", "QUERY_PDP_CONTEXT_LIST", "RESET_STACK"}

ASSUME NotifiersAssumption == Dispatch \notin Notifiers /\ Free \notin Threads
ASSUME KindsAssumption == Kinds \subseteq AllKinds /\ NotifierStates \subseteq States
ASSUME BoundsAssumption ==
    /\ {MaxClients, MaxRequests, MaxNotices} \subseteq Nat
    /\ Fds \subseteq Nat \ {NoFd} /\ IsFiniteSet(Fds)

VARIABLES
    sState,
    changes,           \* how often sState has changed
    s_state_mutex,     \* the thread that holds it, or Free
    s_writeMutex,
    s_fdCommand,
    s_pendingRequests, \* newest first
    handling,          \* the request in processCommandBuffer, and its kind
    todo,              \* what each thread has yet to do
    pc,                \* where it is in sending a response
    msg,               \* the response it is sending
    wfd,               \* the descriptor it sends it to
    files,             \* what each descriptor is: Closed, Device or a client
    conn,              \* each connection
    out,               \* what has been written to it
    received,          \* the client of each request
    oversized,         \* the requests whose answer was too large to be sent
    notices,           \* begun by notifiers and timers so far
    ended              \* the process has exited

stateVars == <<sState, changes, s_state_mutex>>
sendVars == <<pc, msg, wfd>>
fileVars == <<files, conn>>
vars == <<stateVars, s_writeMutex, s_fdCommand, s_pendingRequests, handling, todo,
          sendVars, fileVars, out, received, oversized, notices, ended>>

Messages ==
    [type : {"answer"}, r : Requests, large : BOOLEAN] \cup
    [type : {"state"}, v : Nat, implicit : BOOLEAN] \cup {[type |-> "event"]}
NoMessage == [type |-> "none"]

Task(do) == [do |-> do]
Complete == [do |-> "complete", large |-> FALSE]
CompleteLarge == [do |-> "complete", large |-> TRUE]
Set(state) == [do |-> "set", state |-> state]
Tasks ==
    [do : {"gate", "handle", "notify", "forget"}] \cup
    [do : {"complete"}, large : BOOLEAN] \cup
    [do : {"set"}, state : States]
NoRequest == [r |-> 0, kind |-> "none"]

TypeOK ==
    /\ sState \in States
    /\ changes \in 0 .. 2 * MaxRequests + MaxNotices
    /\ {s_state_mutex, s_writeMutex} \subseteq Threads \cup {Free}
    /\ s_fdCommand \in Fds \cup {NoFd}
    /\ s_pendingRequests \in Seq([r : Requests, cancelled : BOOLEAN])
    /\ handling \in [r : Requests, kind : AllKinds] \cup {NoRequest}
    /\ todo \in [Threads -> Seq(Tasks)] /\ \A th \in Threads : Len(todo[th]) <= 3
    /\ pc \in [Threads -> {"run", "compose", "fd", "lock", "header", "body"}]
    /\ msg \in [Threads -> Messages \cup {NoMessage}]
    /\ wfd \in [Threads -> Fds \cup {NoFd}]
    /\ files \in [Fds -> Clients \cup {Closed, Device}]
    /\ conn \in [Clients -> {"none", "open", "hungup", "closed"}]
    /\ out \in [Clients -> Seq([part : {"header", "body"}, of : Messages])]
    /\ received \in Seq(Clients) /\ Len(received) <= MaxRequests
    /\ oversized \subseteq Requests
    /\ notices \in 0 .. MaxNotices
    /\ ended \in BOOLEAN

\* TGM_register has been called; nobody is connected
Init ==
    /\ sState = "UNAVAILABLE"
    /\ changes = 0
    /\ s_state_mutex = Free
    /\ s_writeMutex = Free
    /\ s_fdCommand = NoFd
    /\ s_pendingRequests = << >>
    /\ handling = NoRequest
    /\ todo = [th \in Threads |-> << >>]
    /\ pc = [th \in Threads |-> "run"]
    /\ msg = [th \in Threads |-> NoMessage]
    /\ wfd = [th \in Threads |-> NoFd]
    /\ files = [fd \in Fds |-> Closed]
    /\ conn = [c \in Clients |-> "none"]
    /\ out = [c \in Clients |-> << >>]
    /\ received = << >>
    /\ oversized = {}
    /\ notices = 0
    /\ ended = FALSE

\* the lowest descriptor that is not in use, which accept and open return
IsFreeFd(fd) ==
    files[fd] = Closed /\ \A other \in Fds : files[other] = Closed => fd <= other
Idle(th) ==
    todo[th] = << >> /\ pc[th] = "run" /\ (th = Dispatch => handling = NoRequest)
Client == files[s_fdCommand]
Doing(th, do) == todo[th] # << >> /\ pc[th] = "run" /\ Head(todo[th]).do = do

Then(th, tasks) == todo' = [todo EXCEPT ![th] = tasks \o Tail(@)]
Begin(th, tasks) == Idle(th) /\ todo' = [todo EXCEPT ![th] = tasks]

-----------------------------------------------------------------------------
(* Sending a response.                                                      *)

Send(th, m) ==
    /\ pc' = [pc EXCEPT ![th] = "fd"]
    /\ msg' = [msg EXCEPT ![th] = m]

\* the response is sent, or there is nobody to send it to; setRadioState then
\* unlocks s_state_mutex
Sent(th) ==
    /\ pc' = [pc EXCEPT ![th] = "run"]
    /\ msg' = [msg EXCEPT ![th] = NoMessage]
    /\ wfd' = [wfd EXCEPT ![th] = NoFd]
    /\ s_state_mutex' = IF s_state_mutex = th THEN Free ELSE s_state_mutex

\* TGM_onUnsolicitedResponse adds the radio state to RADIO_STATE_CHANGED
Compose(th) ==
    /\ pc[th] = "compose"
    /\ Send(th, [type |-> "state", v |-> changes, implicit |-> s_state_mutex # th])
    /\ UNCHANGED <<stateVars, s_writeMutex, s_fdCommand, s_pendingRequests, handling, todo, wfd,
                   fileVars, out, received, oversized, notices, ended>>

\* sendResponseRaw reads s_fdCommand before it locks s_writeMutex, and gives up
\* what is longer than MAX_COMMAND_BYTES
TooLarge(m) == m.type = "answer" /\ m.large

ReadFd(th) ==
    /\ pc[th] = "fd"
    /\ IF s_fdCommand = NoFd \/ TooLarge(msg[th]) THEN Sent(th)
       ELSE /\ pc' = [pc EXCEPT ![th] = "lock"]
            /\ wfd' = [wfd EXCEPT ![th] = s_fdCommand]
            /\ UNCHANGED <<msg, s_state_mutex>>
    /\ oversized' = IF s_fdCommand # NoFd /\ TooLarge(msg[th])
                    THEN oversized \cup {msg[th].r} ELSE oversized
    /\ UNCHANGED <<sState, changes, s_writeMutex, s_fdCommand, s_pendingRequests, handling,
                   todo, fileVars, out, received, notices, ended>>

\* Mutant: the response is written without the lock.
LockNot(th) ==
    /\ pc[th] = "lock"
    /\ pc' = [pc EXCEPT ![th] = "header"]
    /\ UNCHANGED <<stateVars, s_writeMutex, s_fdCommand, s_pendingRequests, handling, todo, msg,
                   wfd, fileVars, out, received, oversized, notices, ended>>

Lock(th) ==
    /\ pc[th] = "lock"
    /\ s_writeMutex = Free
    /\ s_writeMutex' = th
    /\ pc' = [pc EXCEPT ![th] = "header"]
    /\ UNCHANGED <<stateVars, s_fdCommand, s_pendingRequests, handling, todo, msg, wfd, fileVars,
                   out, received, oversized, notices, ended>>

\* blockingWrite to a client, or to the modem when the descriptor is stale
Write(th, part) ==
    LET file == files[wfd[th]] IN
    \/ file = Device /\ UNCHANGED out
    \/ /\ file \in Clients /\ conn[file] = "open"
       /\ out' = [out EXCEPT ![file] = Append(@, [part |-> part, of |-> msg[th]])]

WriteHeader(th) ==
    /\ pc[th] = "header"
    /\ Write(th, "header")
    /\ pc' = [pc EXCEPT ![th] = "body"]
    /\ UNCHANGED <<stateVars, s_writeMutex, s_fdCommand, s_pendingRequests, handling, todo, msg,
                   wfd, fileVars, received, oversized, notices, ended>>

\* Mutant: the lock is kept.
WriteBodyKeepLock(th) ==
    /\ pc[th] = "body"
    /\ Write(th, "body")
    /\ Sent(th)
    /\ UNCHANGED <<sState, changes, s_writeMutex, s_fdCommand, s_pendingRequests, handling, todo,
                   fileVars, received, oversized, notices, ended>>

WriteBody(th) ==
    /\ pc[th] = "body"
    /\ Write(th, "body")
    /\ s_writeMutex' = Free
    /\ Sent(th)
    /\ UNCHANGED <<sState, changes, s_fdCommand, s_pendingRequests, handling, todo, fileVars,
                   received, oversized, notices, ended>>

\* The descriptor is closed, or the client is gone or does not read (the socket
\* does not block): blockingWrite ends the process.
WriteFails(th) ==
    /\ pc[th] \in {"header", "body"}
    /\ files[wfd[th]] # Device
    /\ ended' = TRUE
    /\ UNCHANGED <<stateVars, s_writeMutex, s_fdCommand, s_pendingRequests, handling, todo,
                   sendVars, fileVars, out, received, oversized, notices>>

SendStep(th) ==
    Compose(th) \/ ReadFd(th) \/ Lock(th) \/ WriteHeader(th) \/ WriteBody(th)
    \/ WriteFails(th)

-----------------------------------------------------------------------------
(* setRadioState, as it is left by the filter for a closed channel.         *)

\* Mutant: s_state_mutex is unlocked before the notification.
SetRadioStateUnlocked(th) ==
    /\ Doing(th, "set")
    /\ s_state_mutex = Free
    /\ Then(th, << >>)
    /\ LET new == Head(todo[th]).state IN
         /\ sState' = new
         /\ changes' = IF new = sState THEN changes ELSE changes + 1
         /\ IF new = sState THEN UNCHANGED <<pc, msg>>
            ELSE Send(th, [type |-> "state", v |-> changes', implicit |-> FALSE])
    /\ UNCHANGED <<s_state_mutex, s_writeMutex, s_fdCommand, s_pendingRequests, handling, wfd,
                   fileVars, out, received, oversized, notices, ended>>

setRadioState(th) ==
    /\ Doing(th, "set")
    /\ s_state_mutex = Free
    /\ Then(th, << >>)
    /\ LET new == Head(todo[th]).state IN
         IF new = sState THEN UNCHANGED <<stateVars, pc>>
         ELSE /\ sState' = new
              /\ changes' = changes + 1
              /\ s_state_mutex' = th
              /\ pc' = [pc EXCEPT ![th] = "compose"]
    /\ UNCHANGED <<s_writeMutex, s_fdCommand, s_pendingRequests, handling, msg, wfd, fileVars, out,
                   received, oversized, notices, ended>>

-----------------------------------------------------------------------------
(* The dispatch thread.                                                     *)

\* listenCallback: a client is accepted.
\* onNewCommandConnect sends the radio state, without s_state_mutex.
Accept(c) ==
    /\ s_fdCommand = NoFd
    /\ conn[c] = "none" /\ \A d \in Clients : d < c => conn[d] # "none"
    /\ \E fd \in Fds : /\ IsFreeFd(fd)
                       /\ s_fdCommand' = fd
                       /\ files' = [files EXCEPT ![fd] = c]
    /\ conn' = [conn EXCEPT ![c] = "open"]
    /\ Begin(Dispatch, <<Task("notify")>>)
    /\ UNCHANGED <<stateVars, s_writeMutex, s_pendingRequests, handling, sendVars, out, received, oversized,
                   notices, ended>>

\* Mutant: a client that connects is told nothing.
NotifyNot ==
    /\ Doing(Dispatch, "notify")
    /\ Then(Dispatch, << >>)
    /\ UNCHANGED <<stateVars, s_writeMutex, s_fdCommand, s_pendingRequests, handling, sendVars,
                   fileVars, out, received, oversized, notices, ended>>

Notify ==
    /\ Doing(Dispatch, "notify")
    /\ Then(Dispatch, << >>)
    /\ pc' = [pc EXCEPT ![Dispatch] = "compose"]
    /\ UNCHANGED <<stateVars, s_writeMutex, s_fdCommand, s_pendingRequests, handling, msg, wfd,
                   fileVars, out, received, oversized, notices, ended>>

\* processCommandBuffer: a RequestInfo at the head of the list, and dispatch.
\* A code out of range leaves no trace, and an invalid block of strings only
\* the RequestInfo.
Receive(kind) ==
    /\ s_fdCommand # NoFd
    /\ Len(received) < MaxRequests
    /\ LET r == Len(received) + 1 IN
         /\ received' = Append(received, Client)
         /\ handling' = [r |-> r, kind |-> kind]
         /\ s_pendingRequests' = <<[r |-> r, cancelled |-> FALSE]>> \o s_pendingRequests
    /\ Begin(Dispatch, <<Task("gate")>>) \/ (kind \in StringKinds /\ Begin(Dispatch, << >>))
    /\ UNCHANGED <<stateVars, s_writeMutex, s_fdCommand, sendVars, fileVars, out,
                   oversized, notices, ended>>

\* processCommandBuffer returns
Return ==
    /\ todo[Dispatch] = << >> /\ pc[Dispatch] = "run" /\ handling # NoRequest
    /\ handling' = NoRequest
    /\ UNCHANGED <<stateVars, s_writeMutex, s_fdCommand, s_pendingRequests, todo,
                   sendVars, fileVars, out, received, oversized, notices, ended>>

\* onRequest's tests of the state before its switch
Barred(kind) ==
    \/ sState \in OffStates /\ kind \notin {"QUERY_SIM_STATUS", "QUERY_STATE", "RESET_STACK"}
    \/ sState \in PppdStates /\ kind \notin {"QUERY_STATE", "RESET_STACK",
                                             "DISCONNECT_DATA_NETWORK"}

Gate ==
    /\ Doing(Dispatch, "gate")
    /\ Then(Dispatch, <<IF Barred(handling.kind) THEN Complete ELSE Task("handle")>>)
    /\ UNCHANGED <<stateVars, s_writeMutex, s_fdCommand, s_pendingRequests, handling,
                   sendVars, fileVars, out, received, oversized, notices, ended>>

\* What the handler of a request does after it has tested sState again: the
\* completions of its token and the states it sets, in order.
Handlers(kind) ==
    CASE kind = "DIAL_DATA_NETWORK" ->
           IF sState # "SIM_READY" THEN {<< >>}
           ELSE {<<Complete, Set("PPPD")>>, <<Complete, Set("UNAVAILABLE")>>}
      [] kind = "DISCONNECT_DATA_NETWORK" ->
           IF sState \notin PppdStates THEN {<< >>} ELSE {<<Complete>>}
      [] kind = "QUERY_SIM_STATUS" ->      \* may find the radio on, and then the SIM
           {<<Complete>>} \cup
           (IF sState \notin OffStates THEN {}
            ELSE {<<Set("SIM_NOT_READY"), Complete>>,
                  <<Set("SIM_NOT_READY"), Set("SIM_LOCKED_OR_ABSENT"), Complete>>,
                  <<Set("SIM_NOT_READY"), Set("SIM_READY"), Complete>>})
      [] kind = "RESET_STACK" -> {<<Set("UNAVAILABLE"), Complete>>}
      [] kind = "QUERY_SIGNAL_STRENGTH" -> \* twice when the command fails
           {<<Complete>>, <<Complete, Complete>>}
      [] kind \in {"SET_PPPD_AUTH", "QUERY_PDP_CONTEXT_LIST"} -> {<< >>}
      [] kind \in LineKinds -> {<<Complete>>, <<CompleteLarge>>}
      [] OTHER -> {<<Complete>>}

Handle ==
    /\ Doing(Dispatch, "handle")
    /\ \E tasks \in Handlers(handling.kind) : Then(Dispatch, tasks)
    /\ UNCHANGED <<stateVars, s_writeMutex, s_fdCommand, s_pendingRequests, handling,
                   sendVars, fileVars, out, received, oversized, notices, ended>>

Pending(r) == {i \in DOMAIN s_pendingRequests : s_pendingRequests[i].r = r}

\* checkAndDequeueRequestInfo, which takes the request at place i out of the list
Dequeue(i) ==
    s_pendingRequests' = [j \in 1 .. Len(s_pendingRequests) - 1 |->
                             s_pendingRequests[IF j < i THEN j ELSE j + 1]]

Answer ==
    [type |-> "answer", r |-> handling.r, large |-> Head(todo[Dispatch]) = CompleteLarge]

\* Mutant: the request need not be in the list.
CompleteUnchecked ==
    /\ Doing(Dispatch, "complete")
    /\ Then(Dispatch, << >>)
    /\ \/ \E i \in Pending(handling.r) : Dequeue(i)
       \/ Pending(handling.r) = {} /\ UNCHANGED s_pendingRequests
    /\ Send(Dispatch, Answer)
    /\ UNCHANGED <<stateVars, s_writeMutex, handling, s_fdCommand, wfd, fileVars, out, received, oversized,
                   notices, ended>>

\* TGM_onRequestComplete
OnRequestComplete ==
    /\ Doing(Dispatch, "complete")
    /\ Then(Dispatch, << >>)
    /\ \/ \E i \in Pending(handling.r) :
            /\ Dequeue(i)
            /\ IF s_pendingRequests[i].cancelled THEN UNCHANGED <<pc, msg>>
               ELSE Send(Dispatch, Answer)
       \/ Pending(handling.r) = {} /\ UNCHANGED <<s_pendingRequests, pc, msg>>
    /\ UNCHANGED <<stateVars, s_writeMutex, handling, s_fdCommand, wfd, fileVars, out, received, oversized,
                   notices, ended>>

\* processCommandsCallback at the end of the stream: close ...
CloseCommand ==
    /\ s_fdCommand # NoFd
    /\ Client \in Clients /\ conn[Client] = "hungup"
    /\ conn' = [conn EXCEPT ![Client] = "closed"]
    /\ files' = [files EXCEPT ![s_fdCommand] = Closed]
    /\ Begin(Dispatch, <<Task("forget")>>)
    /\ UNCHANGED <<stateVars, s_writeMutex, s_fdCommand, s_pendingRequests, handling, sendVars, out,
                   received, oversized, notices, ended>>

\* Mutant: the pending requests are not cancelled.
ForgetCommandOnly ==
    /\ Doing(Dispatch, "forget")
    /\ Then(Dispatch, << >>)
    /\ s_fdCommand' = NoFd
    /\ UNCHANGED <<stateVars, s_writeMutex, s_pendingRequests, handling, sendVars, fileVars, out,
                   received, oversized, notices, ended>>

\* ... s_fdCommand = -1, and onCommandsSocketClosed
ForgetCommand ==
    /\ Doing(Dispatch, "forget")
    /\ Then(Dispatch, << >>)
    /\ s_fdCommand' = NoFd
    /\ s_pendingRequests' = [i \in DOMAIN s_pendingRequests |->
                                [s_pendingRequests[i] EXCEPT !.cancelled = TRUE]]
    /\ UNCHANGED <<stateVars, s_writeMutex, handling, sendVars, fileVars, out, received, oversized, notices,
                   ended>>

\* initializeCallback and pollSIMState
TimedCallback ==
    /\ notices < MaxNotices
    /\ notices' = notices + 1
    /\ \E state \in NotifierStates \cap (SimStates \cup OffStates) :
          Begin(Dispatch, <<Set(state)>>)
    /\ UNCHANGED <<stateVars, s_writeMutex, s_fdCommand, s_pendingRequests, handling, sendVars,
                   fileVars, out, received, oversized, ended>>

DispatchStep ==
    \/ SendStep(Dispatch) \/ setRadioState(Dispatch)
    \/ Notify \/ Gate \/ Handle \/ OnRequestComplete \/ Return \/ ForgetCommand
DispatchBegins ==
    \/ \E c \in Clients : Accept(c)
    \/ \E kind \in Kinds : Receive(kind)
    \/ CloseCommand \/ TimedCallback

-----------------------------------------------------------------------------
(* mainLoop and the AT readers.                                             *)

\* setRadioState, by mainLoop and onATReaderClosed
ChangeState(th) ==
    /\ notices < MaxNotices
    /\ notices' = notices + 1
    /\ \E state \in NotifierStates : Begin(th, <<Set(state)>>)
    /\ UNCHANGED <<stateVars, s_writeMutex, s_fdCommand, s_pendingRequests, handling, sendVars,
                   fileVars, out, received, oversized, ended>>

\* DEVICE_DETECTED, DEVICE_REMOVED, PPPD_CONNECTED and so on
TellEvent(th) ==
    /\ notices < MaxNotices /\ Idle(th)
    /\ notices' = notices + 1
    /\ Send(th, [type |-> "event"])
    /\ UNCHANGED <<stateVars, s_writeMutex, s_fdCommand, s_pendingRequests, handling, todo, wfd,
                   fileVars, out, received, oversized, ended>>

\* mainLoop opens the modem and at_close closes it: its descriptor may be one
\* that the command socket had
OpenDevice(th) ==
    /\ Idle(th)
    /\ \A fd \in Fds : files[fd] # Device
    /\ \E fd \in Fds : /\ IsFreeFd(fd)
                       /\ files' = [files EXCEPT ![fd] = Device]
    /\ UNCHANGED <<stateVars, s_writeMutex, s_fdCommand, s_pendingRequests, handling, todo,
                   sendVars, conn, out, received, oversized, notices, ended>>
CloseDevice(th) ==
    /\ Idle(th)
    /\ \E fd \in Fds : /\ files[fd] = Device
                       /\ files' = [files EXCEPT ![fd] = Closed]
    /\ UNCHANGED <<stateVars, s_writeMutex, s_fdCommand, s_pendingRequests, handling, todo,
                   sendVars, conn, out, received, oversized, notices, ended>>

NotifierStep(th) == SendStep(th) \/ setRadioState(th)
NotifierBegins(th) ==
    ChangeState(th) \/ TellEvent(th) \/ OpenDevice(th) \/ CloseDevice(th)

\* the client
HangUp(c) ==
    /\ conn[c] = "open"
    /\ conn' = [conn EXCEPT ![c] = "hungup"]
    /\ UNCHANGED <<stateVars, s_writeMutex, s_fdCommand, s_pendingRequests, handling, todo,
                   sendVars, files, out, received, oversized, notices, ended>>

Next ==
    /\ ~ended
    /\ \/ DispatchStep \/ DispatchBegins
       \/ \E th \in Notifiers : NotifierStep(th) \/ NotifierBegins(th)
       \/ \E c \in Clients : HangUp(c)

Spec == Init /\ [][Next]_vars

\* A thread that is doing something goes on, and gets a lock that is free again
\* and again.
Fairness ==
    /\ WF_vars(~ended /\ DispatchStep)
    /\ SF_vars(~ended /\ Lock(Dispatch))
    /\ SF_vars(~ended /\ setRadioState(Dispatch))
    /\ \A th \in Notifiers : WF_vars(~ended /\ NotifierStep(th))
FairSpec == Spec /\ Fairness

-----------------------------------------------------------------------------
(* Properties.                                                              *)

\* The header and the body of a response are not separated by another one, on
\* any connection and whichever threads send (tgm.cpp:1283-1306).  Only the
\* first thing a connection carries may be a body without its header: a
\* descriptor that is closed and accepted again between the two writes.
Framed ==
    \A c \in Clients : \A i \in DOMAIN out[c] :
        /\ out[c][i].part = "header" /\ i < Len(out[c]) =>
              out[c][i + 1] = [part |-> "body", of |-> out[c][i].of]
        /\ out[c][i].part = "body" /\ i > 1 =>
              out[c][i - 1] = [part |-> "header", of |-> out[c][i].of]

Told(c) == {i \in DOMAIN out[c] : out[c][i].part = "body" /\ out[c][i].of.type = "state"}

\* Whoever is connected has been told the present radio state once nobody is
\* busy with a notification, and no change after it: only what a new client is
\* told of its own accord, for which s_state_mutex is not taken, can be what it
\* was told last, and be stale (tgm.cpp:536, 1206, 1232; huawei-tgm.c:880-917).
ToldNewest ==
    (/\ ~ended /\ s_fdCommand # NoFd /\ Client \in Clients
     /\ conn[Client] = "open"
     /\ \A th \in Threads : Idle(th))
        => \E i \in Told(Client) :
              /\ out[Client][i].of.v = changes
              /\ \A j \in Told(Client) : j > i => out[Client][j].of.implicit

\* The changes of the radio state that setRadioState tells are told in the
\* order in which they happened.  (The one a new client is told of its own
\* accord may come late.)
ChangesInOrder ==
    \A c \in Clients : \A i, j \in Told(c) :
        i < j /\ ~out[c][i].of.implicit /\ ~out[c][j].of.implicit =>
            out[c][i].of.v < out[c][j].of.v

\* When the dispatch thread is back in its event loop, every request received
\* is pending for good, or answered, or its answer was dropped for its size, and
\* one of these only; those pending are cancelled exactly when their client has
\* been let go (tgm.cpp:1139-1146, 1234-1259, 1296-1301).
IsAnswer(frame) == frame.part = "body" /\ frame.of.type = "answer"
AnsweredTo(c) == {i \in DOMAIN out[c] : IsAnswer(out[c][i])}
IsAnswered(r) == \E c \in Clients : \E i \in AnsweredTo(c) : out[c][i].of.r = r
PendingAccounted ==
    Idle(Dispatch) =>
        /\ \A r \in DOMAIN received :
              /\ Pending(r) = {} <=> IsAnswered(r) \/ r \in oversized
              /\ ~(IsAnswered(r) /\ r \in oversized)
        /\ \A i \in DOMAIN s_pendingRequests :
              s_pendingRequests[i].cancelled <=>
                  conn[received[s_pendingRequests[i].r]] = "closed"

\* What a client sees of all this is a service that answers each request at
\* most once, to the client that made it, in order.
SentTo(c) ==
    [i \in DOMAIN out[c] |-> IF IsAnswer(out[c][i]) THEN out[c][i].of.r ELSE 0]

Service == INSTANCE RequestService WITH
    client <- IF s_fdCommand # NoFd /\ Client \in Clients THEN Client ELSE 0,
    serving <- handling.r,
    sent <- [c \in Clients |-> SentTo(c)],
    down <- ended
ServesInOrder == Service!Spec

\* The dispatch thread always gets back to its event loop, whatever locks and
\* notifications it meets on the way.
DispatchReturns == todo[Dispatch] # << >> ~> Idle(Dispatch) \/ ended
=============================================================================
