--------------------------- MODULE RequestsProofs ---------------------------
(***************************************************************************)
(* Theorems about Requests, for every set of notifiers, of requests and of  *)
(* descriptors and any number of clients, requests and notifications.       *)
(* First, responses are not torn apart (FrameInv); then what the clients    *)
(* are served: which requests are answered, in which order the radio state  *)
(* is told, and that it all implements RequestService (ServeInv).           *)
(***************************************************************************)
EXTENDS Requests, TLAPS

-----------------------------------------------------------------------------
(* The inductive invariant.                                                 *)

AnyMessage ==
    [type : {"answer"}, r : Nat, large : BOOLEAN] \cup
    [type : {"state"}, v : Nat, implicit : BOOLEAN] \cup
    {[type |-> "event"], NoMessage}
Frames == [part : {"header", "body"}, of : AnyMessage]
Writing == {"header", "body"}

\* the variables that sending a response depends on
SendTypes ==
    /\ changes \in Nat
    /\ received \in Seq(Clients \cup {Closed, Device})
    /\ handling.r \in Nat
    /\ s_fdCommand \in Fds \cup {NoFd}
    /\ s_writeMutex \in Threads \cup {Free}
    /\ pc \in [Threads -> {"run", "compose", "fd", "lock", "header", "body"}]
    /\ msg \in [Threads -> AnyMessage]
    /\ wfd \in [Threads -> Fds \cup {NoFd}]
    /\ \A th \in Threads : pc[th] \in {"lock"} \cup Writing => wfd[th] \in Fds
    /\ files \in [Fds -> Clients \cup {Closed, Device}]
    /\ conn \in [Clients -> {"none", "open", "hungup", "closed"}]
    /\ out \in [Clients -> Seq(Frames)]

\* who writes holds s_writeMutex
Exclusive ==
    \A th \in Threads : pc[th] \in Writing <=> s_writeMutex = th

\* a connection has one descriptor, and none before accept or after close
Connected ==
    /\ \A fd, g \in Fds : files[fd] \in Clients /\ files[g] = files[fd] => g = fd
    /\ \A fd \in Fds : files[fd] \in Clients => conn[files[fd]] \in {"open", "hungup"}
    /\ \A c \in Clients : conn[c] = "none" => out[c] = << >>

LastOf(c) == out[c][Len(out[c])]

\* a response that is half written to a client is being written
HalfWritten ==
    \A c \in Clients :
        out[c] # << >> /\ LastOf(c).part = "header" /\ conn[c] = "open" =>
            \E th \in Threads : pc[th] = "body" /\ files[wfd[th]] = c

\* who writes a body to a client wrote its header last, unless the descriptor
\* has become that client's since
HeaderFirst ==
    \A th \in Threads : \A c \in Clients :
        pc[th] = "body" /\ files[wfd[th]] = c /\ out[c] # << >> =>
            LastOf(c) = [part |-> "header", of |-> msg[th]]

FrameInv == SendTypes /\ Exclusive /\ Connected /\ HalfWritten /\ HeaderFirst /\ Framed

-----------------------------------------------------------------------------
(* Sequences.                                                               *)

LEMMA AppendFrame ==
    ASSUME NEW S, NEW s \in Seq(S), NEW e \in S
    PROVE  /\ Append(s, e) \in Seq(S) /\ Append(s, e) # << >>
           /\ Len(Append(s, e)) = Len(s) + 1 /\ Len(s) \in Nat
           /\ DOMAIN Append(s, e) = 1 .. Len(s) + 1 /\ DOMAIN s = 1 .. Len(s)
           /\ \A i \in 1 .. Len(s) : Append(s, e)[i] = s[i]
           /\ Append(s, e)[Len(s) + 1] = e
           /\ s = << >> <=> Len(s) = 0
  OBVIOUS

\* what Framed says of each connection
FramedSeq(s) ==
    \A i \in DOMAIN s :
        /\ s[i].part = "header" /\ i < Len(s) =>
              s[i + 1] = [part |-> "body", of |-> s[i].of]
        /\ s[i].part = "body" /\ i > 1 =>
              s[i - 1] = [part |-> "header", of |-> s[i].of]

LEMMA HeaderFramed ==
    ASSUME NEW s \in Seq(Frames), FramedSeq(s), NEW m \in AnyMessage,
           s # << >> => s[Len(s)].part # "header"
    PROVE  FramedSeq(Append(s, [part |-> "header", of |-> m]))
  <1> DEFINE e == [part |-> "header", of |-> m]
  <1>1. e \in Frames /\ e.part = "header" /\ e.part # "body"
    BY DEF Frames
  <1> HIDE DEF e
  <1>2. /\ Len(Append(s, e)) = Len(s) + 1 /\ Len(s) \in Nat
        /\ DOMAIN Append(s, e) = 1 .. Len(s) + 1 /\ DOMAIN s = 1 .. Len(s)
        /\ \A i \in 1 .. Len(s) : Append(s, e)[i] = s[i]
        /\ Append(s, e)[Len(s) + 1] = e
        /\ s = << >> <=> Len(s) = 0
    BY <1>1, AppendFrame
  <1>3. FramedSeq(Append(s, e))
    BY <1>1, <1>2 DEF FramedSeq
  <1> QED  BY <1>3 DEF e

LEMMA BodyFramed ==
    ASSUME NEW s \in Seq(Frames), FramedSeq(s), NEW m \in AnyMessage,
           s # << >> => s[Len(s)] = [part |-> "header", of |-> m]
    PROVE  FramedSeq(Append(s, [part |-> "body", of |-> m]))
  <1> DEFINE e == [part |-> "body", of |-> m]
             t == Append(s, e)
  <1>1. e \in Frames /\ e.part = "body" /\ e.part # "header" /\ e.of = m
    BY DEF Frames
  <1>2. s # << >> => s[Len(s)].part = "header" /\ s[Len(s)].of = m
    OBVIOUS
  <1>3. e = [part |-> "body", of |-> m]
    OBVIOUS
  <1> HIDE DEF e
  <1>4. /\ Len(t) = Len(s) + 1 /\ Len(s) \in Nat
        /\ DOMAIN t = 1 .. Len(s) + 1 /\ DOMAIN s = 1 .. Len(s)
        /\ \A i \in 1 .. Len(s) : t[i] = s[i]
        /\ t[Len(s) + 1] = e
        /\ s = << >> <=> Len(s) = 0
    BY <1>1, AppendFrame
  <1> HIDE DEF t
  <1>5. ASSUME NEW i \in DOMAIN t
        PROVE  /\ t[i].part = "header" /\ i < Len(t) =>
                      t[i + 1] = [part |-> "body", of |-> t[i].of]
               /\ t[i].part = "body" /\ i > 1 =>
                      t[i - 1] = [part |-> "header", of |-> t[i].of]
    <2>1. CASE i < Len(s)
      BY <1>4, <2>1 DEF FramedSeq
    <2>2. CASE i = Len(s)
      <3>1. t[i] = s[Len(s)] /\ s # << >> /\ t[i + 1] = e
        BY <1>4, <2>2
      <3> QED  BY <1>2, <1>3, <3>1
    <2>3. CASE i = Len(s) + 1
      <3>1. t[i] = e
        BY <1>4, <2>3
      <3>2. i > 1 => s # << >> /\ t[i - 1] = s[Len(s)]
        BY <1>4, <2>3
      <3> QED  BY <1>1, <1>4, <2>3, <3>1, <3>2
    <2> QED  BY <1>4, <2>1, <2>2, <2>3
  <1>6. FramedSeq(t)
    BY <1>5 DEF FramedSeq
  <1> QED  BY <1>6 DEF t, e

LEMMA DispatchIsThread == Dispatch \in Threads /\ Notifiers \subseteq Threads
  BY DEF Threads

-----------------------------------------------------------------------------
(* Types.                                                                   *)

LEMMA InitTypes == Init => SendTypes
  <1> SUFFICES ASSUME Init PROVE SendTypes
    OBVIOUS
  <1>1. handling.r \in Nat /\ received \in Seq(Clients \cup {Closed, Device})
    BY DEF Init, NoRequest
  <1>2. /\ pc \in [Threads -> {"run", "compose", "fd", "lock", "header", "body"}]
        /\ msg \in [Threads -> AnyMessage]
        /\ wfd \in [Threads -> Fds \cup {NoFd}]
        /\ \A th \in Threads : pc[th] \notin {"lock"} \cup Writing
    BY DEF Init, AnyMessage, Writing
  <1>3. /\ files \in [Fds -> Clients \cup {Closed, Device}]
        /\ conn \in [Clients -> {"none", "open", "hungup", "closed"}]
        /\ out \in [Clients -> Seq(Frames)]
    BY DEF Init
  <1> QED  BY <1>1, <1>2, <1>3 DEF Init, SendTypes

LEMMA MessageTypes ==
    /\ [type |-> "event"] \in AnyMessage /\ NoMessage \in AnyMessage
    /\ \A r \in Nat : \A b \in BOOLEAN : [type |-> "answer", r |-> r, large |-> b] \in AnyMessage
    /\ \A v \in Nat : \A b \in BOOLEAN :
          [type |-> "state", v |-> v, implicit |-> b] \in AnyMessage
  BY DEF AnyMessage

LEMMA AnswerTypes ==
    ASSUME SendTypes
    PROVE  Answer \in AnyMessage /\ Answer.type = "answer" /\ Answer.r = handling.r
  BY MessageTypes DEF SendTypes, Answer

\* What is sent by a thread that sends nothing yet.
LEMMA SendType ==
    ASSUME SendTypes, NEW th \in Threads, NEW m \in AnyMessage, Send(th, m)
    PROVE  /\ pc' \in [Threads -> {"run", "compose", "fd", "lock", "header", "body"}]
           /\ msg' \in [Threads -> AnyMessage]
           /\ pc'[th] = "fd" /\ \A u \in Threads \ {th} : pc'[u] = pc[u] /\ msg'[u] = msg[u]
  BY DEF SendTypes, Send

LEMMA SentType ==
    ASSUME SendTypes, NEW th \in Threads, Sent(th)
    PROVE  /\ pc' \in [Threads -> {"run", "compose", "fd", "lock", "header", "body"}]
           /\ msg' \in [Threads -> AnyMessage]
           /\ wfd' \in [Threads -> Fds \cup {NoFd}]
           /\ pc'[th] = "run"
           /\ \A u \in Threads \ {th} : /\ pc'[u] = pc[u] /\ msg'[u] = msg[u]
                                        /\ wfd'[u] = wfd[u]
  BY MessageTypes DEF SendTypes, Sent

-----------------------------------------------------------------------------
(* The steps that write nothing and open and close nothing.                 *)

\* the threads that write, what they write and where it goes stay as they are
KeepsWriters ==
    /\ UNCHANGED <<files, out, s_writeMutex>>
    /\ \A th \in Threads :
          pc[th] \in Writing \/ pc'[th] \in Writing =>
              pc'[th] = pc[th] /\ msg'[th] = msg[th] /\ wfd'[th] = wfd[th]
    /\ \A c \in Clients :
          \/ conn'[c] = conn[c]
          \/ conn[c] = "open" /\ conn'[c] = "hungup"

LEMMA KeepsFrames ==
    ASSUME FrameInv, SendTypes', KeepsWriters PROVE FrameInv'
  <1> USE DEF KeepsWriters, FrameInv
  <1>1. Exclusive'
    BY DEF Exclusive
  <1>2. Connected'
    BY DEF Connected, SendTypes
  <1>3. HalfWritten'
    BY DEF HalfWritten, LastOf, Writing
  <1>4. HeaderFirst'
    BY DEF HeaderFirst, LastOf, Writing
  <1>5. Framed'
    BY DEF Framed
  <1> QED  BY <1>1, <1>2, <1>3, <1>4, <1>5

\* A thread begins to send, or to compose what it will send.
LEMMA BeginsFrames ==
    ASSUME FrameInv, NEW th \in Threads, pc[th] \in {"run", "compose"},
           UNCHANGED <<s_writeMutex, s_fdCommand, wfd, files, conn, out>>,
           changes' \in Nat, received' \in Seq(Clients \cup {Closed, Device}),
           handling'.r \in Nat,
           \/ UNCHANGED <<pc, msg>>
           \/ pc' = [pc EXCEPT ![th] = "compose"] /\ UNCHANGED msg
           \/ \E m \in AnyMessage : Send(th, m)
    PROVE  FrameInv'
  <1>1. /\ pc' \in [Threads -> {"run", "compose", "fd", "lock", "header", "body"}]
        /\ msg' \in [Threads -> AnyMessage]
        /\ pc'[th] \in {"run", "compose", "fd"}
        /\ \A u \in Threads \ {th} : pc'[u] = pc[u] /\ msg'[u] = msg[u]
    <2>1. CASE \E m \in AnyMessage : Send(th, m)
      BY <2>1, SendType DEF FrameInv
    <2>2. CASE UNCHANGED <<pc, msg>>
      BY <2>2 DEF FrameInv, SendTypes
    <2>3. CASE pc' = [pc EXCEPT ![th] = "compose"] /\ UNCHANGED msg
      BY <2>3 DEF FrameInv, SendTypes
    <2> QED  BY <2>1, <2>2, <2>3
  <1>2. SendTypes'
    BY <1>1 DEF FrameInv, SendTypes, Writing
  <1>3. KeepsWriters
    BY <1>1 DEF KeepsWriters, Writing
  <1> QED  BY <1>2, <1>3, KeepsFrames

LEMMA ComposeFrames ==
    ASSUME FrameInv, NEW th \in Threads, Compose(th) PROVE FrameInv'
  <1>1. PICK b \in BOOLEAN : Send(th, [type |-> "state", v |-> changes, implicit |-> b])
    BY DEF Compose
  <1>2. [type |-> "state", v |-> changes, implicit |-> b] \in AnyMessage
    BY MessageTypes DEF FrameInv, SendTypes
  <1> QED  BY <1>1, <1>2, BeginsFrames DEF Compose, stateVars, fileVars, FrameInv, SendTypes

LEMMA ReadFdFrames ==
    ASSUME FrameInv, NEW th \in Threads, ReadFd(th) PROVE FrameInv'
  <1>1. /\ pc[th] = "fd"
        /\ UNCHANGED <<s_writeMutex, s_fdCommand, files, conn, out, changes, received, handling>>
    BY DEF ReadFd, fileVars
  <1>2. CASE s_fdCommand = NoFd \/ TooLarge(msg[th])
    <2>1. Sent(th)
      BY <1>2 DEF ReadFd
    <2>2. SendTypes'
      BY <1>1, <2>1, SentType DEF FrameInv, SendTypes, Writing
    <2>3. KeepsWriters
      BY <1>1, <2>1, SentType DEF FrameInv, KeepsWriters, Writing
    <2> QED  BY <2>2, <2>3, KeepsFrames
  <1>3. CASE s_fdCommand # NoFd /\ ~TooLarge(msg[th])
    <2>1. /\ pc' = [pc EXCEPT ![th] = "lock"] /\ wfd' = [wfd EXCEPT ![th] = s_fdCommand]
          /\ msg' = msg /\ s_fdCommand \in Fds
      BY <1>3 DEF ReadFd, FrameInv, SendTypes
    <2>2. SendTypes'
      BY <1>1, <2>1 DEF FrameInv, SendTypes, Writing
    <2>3. KeepsWriters
      BY <1>1, <2>1 DEF FrameInv, SendTypes, KeepsWriters, Writing
    <2> QED  BY <2>2, <2>3, KeepsFrames
  <1> QED  BY <1>2, <1>3

LEMMA WriteFailsFrames ==
    ASSUME FrameInv, NEW th \in Threads, WriteFails(th) PROVE FrameInv'
  <1>1. SendTypes' /\ KeepsWriters
    BY DEF WriteFails, stateVars, sendVars, fileVars, FrameInv, SendTypes, KeepsWriters
  <1> QED  BY <1>1, KeepsFrames

LEMMA SetRadioStateFrames ==
    ASSUME FrameInv, NEW th \in Threads, setRadioState(th) PROVE FrameInv'
  <1>1. pc[th] = "run"
    BY DEF setRadioState, Doing
  <1>2. changes' \in Nat
    BY DEF setRadioState, stateVars, FrameInv, SendTypes
  <1> QED  BY <1>1, <1>2, BeginsFrames
           DEF setRadioState, stateVars, fileVars, FrameInv, SendTypes

LEMMA OnRequestCompleteFrames ==
    ASSUME FrameInv, OnRequestComplete PROVE FrameInv'
  <1>1. pc[Dispatch] = "run"
    BY DEF OnRequestComplete, Doing
  <1>2. Answer \in AnyMessage
    BY AnswerTypes DEF FrameInv
  <1>3. UNCHANGED <<pc, msg>> \/ Send(Dispatch, Answer)
    BY DEF OnRequestComplete
  <1> QED  BY <1>1, <1>2, <1>3, BeginsFrames, DispatchIsThread
           DEF OnRequestComplete, stateVars, fileVars, FrameInv, SendTypes

LEMMA ReceiveFrames ==
    ASSUME FrameInv, NEW kind \in Kinds, Receive(kind) PROVE FrameInv'
  <1>1. /\ s_fdCommand \in Fds /\ Len(received) + 1 \in Nat
        /\ Client \in Clients \cup {Closed, Device}
    BY DEF Receive, FrameInv, SendTypes, Client
  <1>2. received' \in Seq(Clients \cup {Closed, Device}) /\ handling'.r \in Nat
    BY <1>1 DEF Receive, FrameInv, SendTypes
  <1>3. pc[Dispatch] = "run"
    BY DEF Receive, Begin, Idle
  <1> QED  BY <1>2, <1>3, BeginsFrames, DispatchIsThread
           DEF Receive, stateVars, sendVars, fileVars, FrameInv, SendTypes

LEMMA DispatchFrames ==
    ASSUME FrameInv, Notify \/ Gate \/ Handle \/ TimedCallback PROVE FrameInv'
  <1>1. pc[Dispatch] = "run"
    BY DEF Notify, Gate, Handle, TimedCallback, Doing, Begin, Idle
  <1> QED  BY <1>1, BeginsFrames, DispatchIsThread
           DEF Notify, Gate, Handle, TimedCallback, stateVars, sendVars, fileVars, FrameInv,
               SendTypes

LEMMA ReturnFrames == ASSUME FrameInv, Return PROVE FrameInv'
  <1>1. pc[Dispatch] = "run" /\ handling'.r \in Nat
    BY DEF Return, NoRequest
  <1> QED  BY <1>1, BeginsFrames, DispatchIsThread
           DEF Return, stateVars, sendVars, fileVars, FrameInv, SendTypes

LEMMA ForgetCommandFrames == ASSUME FrameInv, ForgetCommand PROVE FrameInv'
  <1>1. SendTypes' /\ KeepsWriters
    BY DEF ForgetCommand, stateVars, sendVars, fileVars, FrameInv, SendTypes, KeepsWriters
  <1> QED  BY <1>1, KeepsFrames

LEMMA HangUpFrames ==
    ASSUME FrameInv, NEW c \in Clients, HangUp(c) PROVE FrameInv'
  <1>1. SendTypes' /\ KeepsWriters
    BY DEF HangUp, stateVars, sendVars, FrameInv, SendTypes, KeepsWriters
  <1> QED  BY <1>1, KeepsFrames

LEMMA NotifierFrames ==
    ASSUME FrameInv, NEW th \in Notifiers, ChangeState(th) \/ TellEvent(th) PROVE FrameInv'
  <1>1. pc[th] = "run"
    BY DEF ChangeState, TellEvent, Begin, Idle
  <1> QED  BY <1>1, BeginsFrames, DispatchIsThread, MessageTypes
           DEF ChangeState, TellEvent, stateVars, sendVars, fileVars, FrameInv, SendTypes

-----------------------------------------------------------------------------
(* The steps that write.                                                    *)

LEMMA OneWriter ==
    ASSUME FrameInv, NEW th \in Threads, NEW u \in Threads,
           pc[th] \in Writing, pc[u] \in Writing
    PROVE  th = u
  BY DEF FrameInv, Exclusive

LEMMA LockFrames ==
    ASSUME FrameInv, NEW th \in Threads, Lock(th) PROVE FrameInv'
  <1>1. /\ pc[th] = "lock" /\ s_writeMutex = Free /\ s_writeMutex' = th
        /\ pc' = [pc EXCEPT ![th] = "header"]
        /\ UNCHANGED <<changes, received, handling, s_fdCommand, msg, wfd, files, conn, out>>
    BY DEF Lock, stateVars, fileVars
  <1>2. \A u \in Threads : pc[u] \notin Writing
    BY <1>1, NotifiersAssumption DEF FrameInv, Exclusive
  <1>3. pc'[th] = "header" /\ \A u \in Threads \ {th} : pc'[u] = pc[u]
    BY <1>1 DEF FrameInv, SendTypes
  <1>4. SendTypes'
    BY <1>1, <1>3 DEF FrameInv, SendTypes, Writing
  <1>5. Exclusive'
    BY <1>1, <1>2, <1>3 DEF Exclusive, Writing
  <1>6. HalfWritten' /\ HeaderFirst'
    BY <1>1, <1>2, <1>3 DEF FrameInv, HalfWritten, HeaderFirst, LastOf, Writing
  <1>7. Connected' /\ Framed'
    BY <1>1 DEF FrameInv, Connected, Framed
  <1> QED  BY <1>4, <1>5, <1>6, <1>7 DEF FrameInv

\* What a write adds, and where.
LEMMA WriteAdds ==
    ASSUME FrameInv, NEW th \in Threads, pc[th] \in Writing,
           NEW part \in {"header", "body"}, Write(th, part)
    PROVE  LET c == files[wfd[th]]
               frame == [part |-> part, of |-> msg[th]] IN
           \/ c = Device /\ out' = out
           \/ /\ c \in Clients /\ conn[c] = "open"
              /\ out' \in [Clients -> Seq(Frames)] /\ out'[c] = Append(out[c], frame)
              /\ Len(out[c]) \in Nat /\ Len(out'[c]) = Len(out[c]) + 1
              /\ DOMAIN out[c] = 1 .. Len(out[c])
              /\ DOMAIN out'[c] = 1 .. Len(out[c]) + 1
              /\ \A i \in 1 .. Len(out[c]) : out'[c][i] = out[c][i]
              /\ out'[c][Len(out[c]) + 1] = frame
              /\ out'[c] # << >> /\ (out[c] = << >> <=> Len(out[c]) = 0)
              /\ \A d \in Clients \ {c} : out'[d] = out[d]
  <1> DEFINE c == files[wfd[th]]
             frame == [part |-> part, of |-> msg[th]]
  <1>1. CASE c = Device /\ UNCHANGED out
    BY <1>1
  <1>2. CASE c \in Clients /\ conn[c] = "open" /\ out' = [out EXCEPT ![c] = Append(@, frame)]
    <2>1. out[c] \in Seq(Frames) /\ frame \in Frames
      BY <1>2 DEF FrameInv, SendTypes, Frames
    <2>2. out'[c] = Append(out[c], frame) /\ \A d \in Clients \ {c} : out'[d] = out[d]
      BY <1>2 DEF FrameInv, SendTypes
    <2>3. /\ Append(out[c], frame) \in Seq(Frames) /\ Append(out[c], frame) # << >>
          /\ Len(Append(out[c], frame)) = Len(out[c]) + 1 /\ Len(out[c]) \in Nat
          /\ DOMAIN Append(out[c], frame) = 1 .. Len(out[c]) + 1
          /\ DOMAIN out[c] = 1 .. Len(out[c])
          /\ \A i \in 1 .. Len(out[c]) : Append(out[c], frame)[i] = out[c][i]
          /\ Append(out[c], frame)[Len(out[c]) + 1] = frame
          /\ out[c] = << >> <=> Len(out[c]) = 0
      <3> HIDE DEF c, frame
      <3> QED  BY <2>1, AppendFrame
    <2>4. out' \in [Clients -> Seq(Frames)]
      BY <1>2, <2>3 DEF FrameInv, SendTypes
    <2> QED  BY <1>2, <2>2, <2>3, <2>4
  <1> QED  BY <1>1, <1>2 DEF Write

LEMMA FramedElsewhere ==
    ASSUME FrameInv, NEW c \in Clients, FramedSeq(out'[c]),
           \A d \in Clients \ {c} : out'[d] = out[d]
    PROVE  Framed'
  <1>1. ASSUME NEW d \in Clients PROVE FramedSeq(out'[d])
    <2>1. CASE d = c
      BY <2>1
    <2>2. CASE d # c
      BY <2>2 DEF FrameInv, Framed, FramedSeq
    <2> QED  BY <2>1, <2>2
  <1> QED  BY <1>1 DEF Framed, FramedSeq

\* A header is written when no response is half written: nobody else writes.
LEMMA WriteHeaderFrames ==
    ASSUME FrameInv, NEW th \in Threads, WriteHeader(th) PROVE FrameInv'
  <1> DEFINE c == files[wfd[th]]
             header == [part |-> "header", of |-> msg[th]]
  <1>1. /\ pc[th] = "header" /\ Write(th, "header")
        /\ pc' = [pc EXCEPT ![th] = "body"]
        /\ UNCHANGED <<changes, received, handling, s_fdCommand, s_writeMutex, msg, wfd, files,
                       conn>>
    BY DEF WriteHeader, stateVars, fileVars
  <1>2. pc'[th] = "body" /\ \A u \in Threads \ {th} : pc'[u] = pc[u]
    BY <1>1 DEF FrameInv, SendTypes
  <1>3. \A u \in Threads : u # th => pc[u] \notin Writing
    BY <1>1, OneWriter DEF Writing
  <1>4. Exclusive'
    BY <1>1, <1>2 DEF FrameInv, Exclusive, Writing
  <1>5. \A d \in Clients : conn[d] = "open" /\ out[d] # << >> => LastOf(d).part # "header"
    BY <1>1, <1>3 DEF FrameInv, HalfWritten, Writing
  <1>6. CASE c = Device /\ out' = out
    <2>1. SendTypes'
      BY <1>1, <1>2, <1>6 DEF FrameInv, SendTypes, Writing
    <2>2. HalfWritten'
      BY <1>1, <1>5, <1>6 DEF HalfWritten, LastOf
    <2>3. HeaderFirst'
      BY <1>1, <1>2, <1>3, <1>6 DEF HeaderFirst, Writing, Device, Clients
    <2>4. Connected' /\ Framed'
      BY <1>1, <1>6 DEF FrameInv, Connected, Framed
    <2> QED  BY <1>4, <2>1, <2>2, <2>3, <2>4 DEF FrameInv
  <1>7. CASE c # Device
    <2>1. /\ c \in Clients /\ conn[c] = "open"
          /\ out' \in [Clients -> Seq(Frames)] /\ out'[c] = Append(out[c], header)
          /\ Len(out[c]) \in Nat /\ Len(out'[c]) = Len(out[c]) + 1
          /\ out'[c][Len(out[c]) + 1] = header
          /\ out'[c] # << >> /\ (out[c] = << >> <=> Len(out[c]) = 0)
          /\ \A d \in Clients \ {c} : out'[d] = out[d]
      BY <1>1, <1>7, WriteAdds DEF Writing
    <2> HIDE DEF header
    <2>2. SendTypes'
      BY <1>1, <1>2, <2>1 DEF FrameInv, SendTypes, Writing
    <2>3. Connected'
      BY <1>1, <2>1 DEF FrameInv, Connected
    <2>4. HalfWritten'
      BY <1>1, <1>2, <1>5, <2>1 DEF HalfWritten, LastOf
    <2>5. HeaderFirst'
      BY <1>1, <1>2, <1>3, <2>1 DEF HeaderFirst, LastOf, Writing, header
    <2>6. Framed'
      <3>1. out[c] # << >> => out[c][Len(out[c])].part # "header"
        BY <1>5, <2>1 DEF LastOf
      <3>2. FramedSeq(out[c]) /\ out[c] \in Seq(Frames) /\ msg[th] \in AnyMessage
        BY <2>1 DEF FrameInv, Framed, FramedSeq, SendTypes
      <3>3. FramedSeq(out'[c])
        BY <2>1, <3>1, <3>2, HeaderFramed DEF header
      <3> QED  BY <2>1, <3>3, FramedElsewhere
    <2> QED  BY <1>4, <2>2, <2>3, <2>4, <2>5, <2>6 DEF FrameInv
  <1>8. (c = Device /\ out' = out) \/ c # Device
    BY <1>1 DEF Write, Clients, Device
  <1> QED  BY <1>6, <1>7, <1>8

\* A body is written after its header, or first of all.
LEMMA WriteBodyFrames ==
    ASSUME FrameInv, NEW th \in Threads, WriteBody(th) PROVE FrameInv'
  <1> DEFINE c == files[wfd[th]]
             body == [part |-> "body", of |-> msg[th]]
  <1>1. /\ pc[th] = "body" /\ Write(th, "body") /\ s_writeMutex' = Free /\ Sent(th)
        /\ UNCHANGED <<changes, received, handling, s_fdCommand, files, conn>>
    BY DEF WriteBody, fileVars
  <1>2. /\ pc' \in [Threads -> {"run", "compose", "fd", "lock", "header", "body"}]
        /\ msg' \in [Threads -> AnyMessage]
        /\ wfd' \in [Threads -> Fds \cup {NoFd}]
        /\ pc'[th] = "run"
        /\ \A u \in Threads \ {th} : /\ pc'[u] = pc[u] /\ msg'[u] = msg[u]
                                     /\ wfd'[u] = wfd[u]
    BY <1>1, SentType DEF FrameInv
  <1>3. \A u \in Threads : u # th => pc[u] \notin Writing
    BY <1>1, OneWriter DEF Writing
  <1>4. \A u \in Threads : pc'[u] \notin Writing
    BY <1>2, <1>3 DEF Writing
  <1>5. Exclusive'
    BY <1>1, <1>4, NotifiersAssumption DEF Exclusive
  <1>6. HeaderFirst'
    BY <1>4 DEF HeaderFirst, Writing
  <1>7. \A d \in Clients : d # c /\ conn[d] = "open" /\ out[d] # << >> =>
            LastOf(d).part # "header"
    BY <1>3 DEF FrameInv, HalfWritten, Writing
  <1>8. CASE c = Device /\ out' = out
    <2>1. SendTypes'
      BY <1>1, <1>2, <1>8 DEF FrameInv, SendTypes, Writing
    <2>2. HalfWritten'
      BY <1>1, <1>7, <1>8 DEF HalfWritten, LastOf, Device, Clients
    <2>3. Connected' /\ Framed'
      BY <1>1, <1>8 DEF FrameInv, Connected, Framed
    <2> QED  BY <1>5, <1>6, <2>1, <2>2, <2>3 DEF FrameInv
  <1>9. CASE c # Device
    <2>1. /\ c \in Clients /\ conn[c] = "open"
          /\ out' \in [Clients -> Seq(Frames)] /\ out'[c] = Append(out[c], body)
          /\ Len(out[c]) \in Nat /\ Len(out'[c]) = Len(out[c]) + 1
          /\ out'[c][Len(out[c]) + 1] = body
          /\ out'[c] # << >> /\ (out[c] = << >> <=> Len(out[c]) = 0)
          /\ \A d \in Clients \ {c} : out'[d] = out[d]
      BY <1>1, <1>9, WriteAdds DEF Writing
    <2>2. out[c] # << >> => LastOf(c) = [part |-> "header", of |-> msg[th]]
      BY <1>1, <2>1 DEF FrameInv, HeaderFirst
    <2>3. body.part = "body" /\ body.of = msg[th] /\ body = [part |-> "body", of |-> msg[th]]
      OBVIOUS
    <2> HIDE DEF body
    <2>4. SendTypes'
      BY <1>1, <1>2, <2>1 DEF FrameInv, SendTypes, Writing
    <2>5. Connected'
      BY <1>1, <2>1 DEF FrameInv, Connected
    <2>6. HalfWritten'
      BY <1>1, <1>7, <2>1, <2>3 DEF HalfWritten, LastOf
    <2>7. Framed'
      <3>1. out[c] # << >> => out[c][Len(out[c])] = [part |-> "header", of |-> msg[th]]
        BY <2>2 DEF LastOf
      <3>2. FramedSeq(out[c]) /\ out[c] \in Seq(Frames) /\ msg[th] \in AnyMessage
        BY <2>1 DEF FrameInv, Framed, FramedSeq, SendTypes
      <3>3. FramedSeq(out'[c])
        BY <2>1, <3>1, <3>2, BodyFramed DEF body
      <3> QED  BY <2>1, <3>3, FramedElsewhere
    <2> QED  BY <1>5, <1>6, <2>4, <2>5, <2>6, <2>7 DEF FrameInv
  <1>10. (c = Device /\ out' = out) \/ c # Device
    BY <1>1 DEF Write, Clients, Device
  <1> QED  BY <1>8, <1>9, <1>10

-----------------------------------------------------------------------------
(* The steps that open and close descriptors.                               *)

\* A descriptor that becomes a client's is one that nothing has been written to.
LEMMA AcceptFrames ==
    ASSUME FrameInv, NEW c \in Clients, Accept(c) PROVE FrameInv'
  <1>1. PICK fd \in Fds : /\ IsFreeFd(fd) /\ s_fdCommand' = fd
                          /\ files' = [files EXCEPT ![fd] = c]
    BY DEF Accept
  <1>2. /\ files[fd] = Closed /\ conn[c] = "none" /\ conn' = [conn EXCEPT ![c] = "open"]
        /\ UNCHANGED <<changes, received, handling, s_writeMutex, pc, msg, wfd, out>>
    BY <1>1 DEF Accept, IsFreeFd, stateVars, sendVars
  <1>3. /\ files'[fd] = c /\ \A g \in Fds \ {fd} : files'[g] = files[g]
        /\ conn'[c] = "open" /\ \A d \in Clients \ {c} : conn'[d] = conn[d]
    BY <1>1, <1>2 DEF FrameInv, SendTypes
  <1>4. out[c] = << >>
    BY <1>2 DEF FrameInv, Connected
  <1>5. SendTypes'
    BY <1>1, <1>2 DEF FrameInv, SendTypes
  <1>6. Exclusive' /\ Framed'
    BY <1>2 DEF FrameInv, Exclusive, Framed
  <1>7. Connected'
    BY <1>2, <1>3 DEF FrameInv, Connected
  <1>8. \A th \in Threads : pc[th] = "body" => wfd[th] \in Fds
    BY DEF FrameInv, SendTypes, Writing
  <1>9. HalfWritten'
    <2> SUFFICES ASSUME NEW d \in Clients, out[d] # << >>, LastOf(d).part = "header",
                        conn'[d] = "open"
                 PROVE  \E th \in Threads : pc[th] = "body" /\ files'[wfd[th]] = d
      BY <1>2 DEF HalfWritten, LastOf
    <2>1. d # c /\ conn[d] = "open"
      BY <1>3, <1>4
    <2>2. PICK th \in Threads : pc[th] = "body" /\ files[wfd[th]] = d
      BY <2>1 DEF FrameInv, HalfWritten
    <2>3. wfd[th] # fd
      BY <1>2, <2>2 DEF Closed, Clients
    <2> QED  BY <1>3, <1>8, <2>2, <2>3
  <1>10. HeaderFirst'
    <2> SUFFICES ASSUME NEW th \in Threads, NEW d \in Clients, pc[th] = "body",
                        files'[wfd[th]] = d, out[d] # << >>
                 PROVE  LastOf(d) = [part |-> "header", of |-> msg[th]]
      BY <1>2 DEF HeaderFirst, LastOf
    <2>1. wfd[th] # fd
      BY <1>3, <1>4
    <2>2. files[wfd[th]] = d
      BY <1>3, <1>8, <2>1
    <2> QED  BY <2>2 DEF FrameInv, HeaderFirst
  <1> QED  BY <1>5, <1>6, <1>7, <1>9, <1>10 DEF FrameInv

\* A descriptor that is closed, or opened on the modem, is no client's any more;
\* nothing more is written to a client that has gone.
LEMMA FilesFrames ==
    ASSUME FrameInv, NEW fd \in Fds, NEW file \in {Closed, Device},
           files' = [files EXCEPT ![fd] = file],
           UNCHANGED <<changes, received, handling, s_fdCommand, s_writeMutex, pc, msg, wfd,
                       out>>,
           conn' \in [Clients -> {"none", "open", "hungup", "closed"}],
           \A c \in Clients : conn'[c] = conn[c] \/ (conn[c] = "hungup" /\ conn'[c] = "closed"),
           \A g \in Fds : g # fd /\ files[g] \in Clients => conn'[files[g]] = conn[files[g]],
           files[fd] \in Clients => conn'[files[fd]] = "closed"
    PROVE  FrameInv'
  <1>1. /\ files'[fd] = file /\ file \notin Clients
        /\ \A g \in Fds \ {fd} : files'[g] = files[g]
    BY DEF FrameInv, SendTypes, Clients, Closed, Device
  <1>2. SendTypes'
    BY DEF FrameInv, SendTypes
  <1>3. Exclusive' /\ Framed'
    BY DEF FrameInv, Exclusive, Framed
  <1>4. Connected'
    BY <1>1 DEF FrameInv, Connected
  <1>5. \A th \in Threads : pc[th] = "body" => wfd[th] \in Fds
    BY DEF FrameInv, SendTypes, Writing
  <1>6. HalfWritten'
    <2> SUFFICES ASSUME NEW d \in Clients, out[d] # << >>, LastOf(d).part = "header",
                        conn'[d] = "open"
                 PROVE  \E th \in Threads : pc[th] = "body" /\ files'[wfd[th]] = d
      BY DEF HalfWritten, LastOf
    <2>1. PICK th \in Threads : pc[th] = "body" /\ files[wfd[th]] = d
      BY DEF FrameInv, HalfWritten
    <2>2. wfd[th] # fd
      BY <2>1
    <2> QED  BY <1>1, <1>5, <2>1, <2>2
  <1>7. HeaderFirst'
    BY <1>1, <1>5 DEF FrameInv, HeaderFirst, LastOf
  <1> QED  BY <1>2, <1>3, <1>4, <1>6, <1>7 DEF FrameInv

LEMMA DeviceFrames ==
    ASSUME FrameInv, NEW th \in Notifiers, OpenDevice(th) \/ CloseDevice(th) PROVE FrameInv'
  <1>1. /\ UNCHANGED <<changes, received, handling, s_fdCommand, s_writeMutex, pc, msg, wfd,
                       out, conn>>
        /\ conn' \in [Clients -> {"none", "open", "hungup", "closed"}]
    BY DEF OpenDevice, CloseDevice, stateVars, sendVars, FrameInv, SendTypes
  <1>2. PICK fd \in Fds, file \in {Closed, Device} :
            files[fd] \in {Closed, Device} /\ files' = [files EXCEPT ![fd] = file]
    BY DEF OpenDevice, CloseDevice, IsFreeFd
  <1>3. files[fd] \notin Clients
    BY <1>2 DEF Clients, Closed, Device
  <1> QED  BY <1>1, <1>2, <1>3, FilesFrames

LEMMA CloseCommandFrames == ASSUME FrameInv, CloseCommand PROVE FrameInv'
  <1> DEFINE c == files[s_fdCommand]
  <1>1. /\ s_fdCommand \in Fds /\ c \in Clients /\ conn[c] = "hungup"
        /\ conn' = [conn EXCEPT ![c] = "closed"]
        /\ files' = [files EXCEPT ![s_fdCommand] = Closed]
        /\ UNCHANGED <<changes, received, handling, s_fdCommand, s_writeMutex, pc, msg, wfd,
                       out>>
    BY DEF CloseCommand, Client, stateVars, sendVars, FrameInv, SendTypes
  <1>2. /\ conn' \in [Clients -> {"none", "open", "hungup", "closed"}]
        /\ conn'[c] = "closed" /\ \A d \in Clients \ {c} : conn'[d] = conn[d]
    BY <1>1 DEF FrameInv, SendTypes
  <1>3. \A g \in Fds : g # s_fdCommand /\ files[g] \in Clients =>
            conn'[files[g]] = conn[files[g]]
    BY <1>1, <1>2 DEF FrameInv, Connected
  <1> QED  BY <1>1, <1>2, <1>3, FilesFrames

-----------------------------------------------------------------------------
(* All steps.                                                               *)

LEMMA InitFrames == Init => FrameInv
  <1> SUFFICES ASSUME Init PROVE FrameInv
    OBVIOUS
  <1>1. SendTypes
    BY InitTypes
  <1>2. Exclusive
    BY NotifiersAssumption DEF Init, Exclusive, Writing
  <1>3. Connected
    BY DEF Init, Connected, Clients, Closed
  <1>4. HalfWritten /\ HeaderFirst /\ Framed
    BY DEF Init, HalfWritten, HeaderFirst, Framed
  <1> QED  BY <1>1, <1>2, <1>3, <1>4 DEF FrameInv

LEMMA SendStepFrames ==
    ASSUME FrameInv, NEW th \in Threads, SendStep(th) PROVE FrameInv'
  BY ComposeFrames, ReadFdFrames, LockFrames, WriteHeaderFrames, WriteBodyFrames,
     WriteFailsFrames DEF SendStep

LEMMA NextFrames == FrameInv /\ [Next]_vars => FrameInv'
  <1> SUFFICES ASSUME FrameInv, [Next]_vars PROVE FrameInv'
    OBVIOUS
  <1>1. CASE DispatchStep
    BY <1>1, SendStepFrames, SetRadioStateFrames, DispatchFrames, OnRequestCompleteFrames,
       ReturnFrames, ForgetCommandFrames, DispatchIsThread DEF DispatchStep
  <1>2. CASE DispatchBegins
    BY <1>2, AcceptFrames, ReceiveFrames, CloseCommandFrames, DispatchFrames
       DEF DispatchBegins
  <1>3. ASSUME NEW th \in Notifiers, NotifierStep(th) \/ NotifierBegins(th) PROVE FrameInv'
    BY <1>3, SendStepFrames, SetRadioStateFrames, NotifierFrames, DeviceFrames,
       DispatchIsThread DEF NotifierStep, NotifierBegins
  <1>4. ASSUME NEW c \in Clients, HangUp(c) PROVE FrameInv'
    BY <1>4, HangUpFrames
  <1>5. CASE UNCHANGED vars
    <2>1. SendTypes' /\ KeepsWriters
      BY <1>5 DEF vars, stateVars, sendVars, fileVars, FrameInv, SendTypes, KeepsWriters
    <2> QED  BY <2>1, KeepsFrames
  <1> QED  BY <1>1, <1>2, <1>3, <1>4, <1>5 DEF Next

\* No response comes between the header and the body of another one
\* (tgm.cpp:1283-1306), whichever threads send, however descriptors are closed
\* and used again, and however many clients come and go.
THEOREM ResponsesFramed == Spec => []Framed
  <1>1. FrameInv => Framed
    BY DEF FrameInv
  <1> QED  BY <1>1, InitFrames, NextFrames, PTL DEF Spec

-----------------------------------------------------------------------------
(* Who is served: the dispatch thread's tasks, its request and its client.  *)

SetTasks == [do : {"set"}, state : States]
ServeTasks == [do : {"gate", "handle"}] \cup {Complete, CompleteLarge} \cup SetTasks
Serving == handling # NoRequest
Forgetting == todo[Dispatch] = <<Task("forget")>>
Notifying == todo[Dispatch] = <<Task("notify")>>

\* what a thread may have to do, by what it is doing
TodoInv ==
    /\ handling \in [r : Nat \ {0}, kind : AllKinds] \cup {NoRequest}
    /\ DOMAIN todo = Threads
    /\ \A th \in Notifiers : todo[th] \in Seq(SetTasks)
    /\ Serving => todo[Dispatch] \in Seq(ServeTasks)
    /\ ~Serving => Forgetting \/ Notifying \/ todo[Dispatch] \in Seq(SetTasks)
    /\ Forgetting => pc[Dispatch] = "run"

\* the descriptors of connections, and what is sent by the dispatch thread
ServedInv ==
    /\ \A fd \in Fds : files[fd] \in Clients => fd = s_fdCommand
    /\ s_fdCommand # NoFd => (Forgetting <=> Client \notin Clients)
    /\ Serving \/ Forgetting \/ Notifying => s_fdCommand # NoFd
    /\ pc[Dispatch] \in {"lock", "header", "body"} => wfd[Dispatch] = s_fdCommand
    /\ received \in Seq(Clients)
    /\ \A r \in DOMAIN received : conn[received[r]] # "none"

Answering == msg[Dispatch].type = "answer"

\* what is sent by each thread
MsgInv ==
    /\ \A th \in Threads : pc[th] \in {"run", "compose"} => msg[th] = NoMessage
    /\ \A th \in Notifiers : msg[th].type # "answer"
    /\ Answering => Serving /\ msg[Dispatch].r = handling.r

ThreadInv == FrameInv /\ TodoInv /\ ServedInv /\ MsgInv

-----------------------------------------------------------------------------
(* The dispatch thread's tasks.                                             *)

LEMMA TaskTypes ==
    /\ \A do \in {"gate", "handle"} : Task(do) \in ServeTasks
    /\ Complete \in ServeTasks /\ CompleteLarge \in ServeTasks
    /\ \A state \in States : Set(state) \in SetTasks /\ Set(state) \in ServeTasks
    /\ SetTasks \subseteq ServeTasks
    /\ \A t \in SetTasks : t.do = "set" /\ t.state \in States
    /\ \A t \in ServeTasks : t.do \in {"complete", "gate", "handle", "set"}
  BY DEF Task, Set, SetTasks, ServeTasks, Complete, CompleteLarge

LEMMA TaskSeqs ==
    /\ << >> \in Seq(ServeTasks) /\ << >> \in Seq(SetTasks)
    /\ \A t \in ServeTasks : <<t>> \in Seq(ServeTasks)
    /\ \A t \in SetTasks : <<t>> \in Seq(SetTasks)
    /\ \A s \in Seq(ServeTasks) \cup Seq(SetTasks) :
          s # <<Task("forget")>> /\ s # <<Task("notify")>>
  <1>1. ASSUME NEW s \in Seq(ServeTasks) \cup Seq(SetTasks), NEW t, s = <<t>>
        PROVE  t \in ServeTasks
    <2>1. s[1] = t /\ s[1] \in ServeTasks \cup SetTasks
      BY <1>1
    <2> QED  BY <2>1, TaskTypes
  <1>2. Task("forget") \notin ServeTasks /\ Task("notify") \notin ServeTasks
    BY TaskTypes DEF Task
  <1> QED  BY <1>1, <1>2

\* what the dispatch thread is doing tells whether it serves a request
LEMMA DoingWhat ==
    ASSUME TodoInv
    PROVE  /\ Doing(Dispatch, "gate") \/ Doing(Dispatch, "handle") \/ Doing(Dispatch, "complete")
                => Serving
           /\ Doing(Dispatch, "notify") => Notifying
           /\ Doing(Dispatch, "forget") => Forgetting
           /\ Doing(Dispatch, "set") => ~Forgetting /\ ~Notifying
           /\ Forgetting \/ Notifying => ~Serving
           /\ ~(Forgetting /\ Notifying)
           /\ Idle(Dispatch) => ~Forgetting /\ ~Notifying /\ ~Serving
  <1>1. ASSUME NEW S, NEW s \in Seq(S), s # << >> PROVE Head(s) \in S
    BY <1>1
  <1>2. todo[Dispatch] \in Seq(SetTasks) /\ todo[Dispatch] # << >> =>
            Head(todo[Dispatch]).do = "set"
    BY <1>1, TaskTypes
  <1>3. todo[Dispatch] \in Seq(ServeTasks) /\ todo[Dispatch] # << >> =>
            Head(todo[Dispatch]).do \in {"complete", "gate", "handle", "set"}
    BY <1>1, TaskTypes
  <1>4. /\ Forgetting => Head(todo[Dispatch]).do = "forget" /\ todo[Dispatch] # << >>
        /\ Notifying => Head(todo[Dispatch]).do = "notify" /\ todo[Dispatch] # << >>
    BY DEF Forgetting, Notifying, Task
  <1> QED  BY <1>2, <1>3, <1>4 DEF TodoInv, Doing, Idle, Serving

\* A thread takes its next task, or begins
LEMMA TodoThen ==
    ASSUME DOMAIN todo = Threads, NEW th \in Threads, NEW S, todo[th] \in Seq(S),
           todo[th] # << >>, NEW tasks \in Seq(S), Then(th, tasks)
    PROVE  /\ DOMAIN todo' = Threads /\ todo'[th] \in Seq(S)
           /\ \A u \in Threads \ {th} : todo'[u] = todo[u]
  BY DEF Then

LEMMA TodoBegin ==
    ASSUME DOMAIN todo = Threads, NEW th \in Threads, NEW tasks, Begin(th, tasks)
    PROVE  /\ DOMAIN todo' = Threads /\ todo'[th] = tasks
           /\ \A u \in Threads \ {th} : todo'[u] = todo[u]
  BY DEF Begin

LEMMA HandlersTypes ==
    ASSUME NEW kind, NEW tasks \in Handlers(kind) PROVE tasks \in Seq(ServeTasks)
  <1>1. /\ Complete \in ServeTasks /\ CompleteLarge \in ServeTasks
        /\ Set("PPPD") \in ServeTasks /\ Set("UNAVAILABLE") \in ServeTasks
        /\ Set("SIM_NOT_READY") \in ServeTasks /\ Set("SIM_READY") \in ServeTasks
        /\ Set("SIM_LOCKED_OR_ABSENT") \in ServeTasks
    BY TaskTypes DEF States, OffStates, PppdStates, SimStates
  <1>2. ASSUME NEW a \in ServeTasks, NEW b \in ServeTasks, NEW c \in ServeTasks
        PROVE  /\ << >> \in Seq(ServeTasks) /\ <<a>> \in Seq(ServeTasks)
               /\ <<a, b>> \in Seq(ServeTasks) /\ <<a, b, c>> \in Seq(ServeTasks)
    OBVIOUS
  <1> HIDE DEF Complete, CompleteLarge, ServeTasks
  <1>3. tasks \in {<< >>, <<Complete>>, <<Complete, Complete>>, <<Complete, Set("PPPD")>>,
                   <<Complete, Set("UNAVAILABLE")>>, <<Set("UNAVAILABLE"), Complete>>,
                   <<Set("SIM_NOT_READY"), Complete>>, <<CompleteLarge>>,
                   <<Set("SIM_NOT_READY"), Set("SIM_LOCKED_OR_ABSENT"), Complete>>,
                   <<Set("SIM_NOT_READY"), Set("SIM_READY"), Complete>>}
    BY DEF Handlers
  <1> QED  BY <1>1, <1>2, <1>3

LEMMA TodoKept ==
    ASSUME TodoInv, UNCHANGED <<todo, handling>>,
           Forgetting => pc'[Dispatch] = "run"
    PROVE  TodoInv'
  BY DEF TodoInv, Serving, Forgetting, Notifying

\* The dispatch thread turns to other tasks, of the same request or of none.
LEMMA DispatchTodo ==
    ASSUME TodoInv, NEW tasks, todo'[Dispatch] = tasks, DOMAIN todo' = Threads,
           \A th \in Notifiers : todo'[th] = todo[th],
           handling' \in [r : Nat \ {0}, kind : AllKinds] \cup {NoRequest},
           IF handling' # NoRequest THEN tasks \in Seq(ServeTasks)
           ELSE tasks \in Seq(SetTasks) \cup {<<Task("notify")>>, <<Task("forget")>>},
           tasks = <<Task("forget")>> => pc'[Dispatch] = "run"
    PROVE  TodoInv'
  BY DEF TodoInv, Serving, Forgetting, Notifying

LEMMA NotifierTodo ==
    ASSUME TodoInv, NEW th \in Notifiers, todo'[th] \in Seq(SetTasks), DOMAIN todo' = Threads,
           \A u \in Threads \ {th} : todo'[u] = todo[u],
           UNCHANGED handling, Forgetting => pc'[Dispatch] = "run"
    PROVE  TodoInv'
  BY NotifiersAssumption, DispatchIsThread DEF TodoInv, Serving, Forgetting, Notifying

\* Whoever sends a response is not at the end of a connection.
LEMMA SendStepTodo ==
    ASSUME FrameInv, TodoInv, NEW th \in Threads, SendStep(th) PROVE TodoInv'
  <1>1. UNCHANGED <<todo, handling>> /\ pc[th] # "run"
    BY DEF SendStep, Compose, ReadFd, Lock, WriteHeader, WriteBody, WriteFails
  <1>2. \A u \in Threads \ {th} : pc'[u] = pc[u]
    BY DEF SendStep, Compose, ReadFd, Lock, WriteHeader, WriteBody, WriteFails, Send, Sent,
           sendVars, FrameInv, SendTypes
  <1>3. Forgetting => pc'[Dispatch] = "run"
    BY <1>1, <1>2, DispatchIsThread DEF TodoInv
  <1> QED  BY <1>1, <1>3, TodoKept

LEMMA SetRadioStateTodo ==
    ASSUME FrameInv, TodoInv, NEW th \in Threads, setRadioState(th)
    PROVE  /\ TodoInv' /\ UNCHANGED handling
           /\ (Forgetting' <=> Forgetting) /\ (Notifying' <=> Notifying)
  <1>1. /\ Doing(th, "set") /\ todo[th] # << >> /\ Then(th, << >>) /\ UNCHANGED handling
        /\ DOMAIN todo = Threads
    BY DEF setRadioState, Doing, TodoInv
  <1>2. \A u \in Threads \ {th} : pc'[u] = pc[u]
    BY DEF setRadioState, FrameInv, SendTypes
  <1>3. CASE th = Dispatch
    <2>1. ~Forgetting /\ ~Notifying
      BY <1>1, <1>3, DoingWhat
    <2>2. CASE Serving
      <3>1. DOMAIN todo' = Threads /\ todo'[Dispatch] \in Seq(ServeTasks)
            /\ \A u \in Threads \ {th} : todo'[u] = todo[u]
        BY <1>1, <1>3, <2>2, TodoThen, TaskSeqs DEF TodoInv
      <3>2. todo'[Dispatch] # <<Task("forget")>> /\ todo'[Dispatch] # <<Task("notify")>>
        BY <3>1, TaskSeqs
      <3>3. TodoInv'
        BY <1>1, <1>3, <2>2, <3>1, <3>2, DispatchTodo, NotifiersAssumption, DispatchIsThread
        DEF TodoInv, Serving
      <3> QED  BY <1>1, <2>1, <3>2, <3>3 DEF Forgetting, Notifying
    <2>3. CASE ~Serving
      <3>1. DOMAIN todo' = Threads /\ todo'[Dispatch] \in Seq(SetTasks)
            /\ \A u \in Threads \ {th} : todo'[u] = todo[u]
        BY <1>1, <1>3, <2>1, <2>3, TodoThen, TaskSeqs DEF TodoInv
      <3>2. todo'[Dispatch] # <<Task("forget")>> /\ todo'[Dispatch] # <<Task("notify")>>
        BY <3>1, TaskSeqs
      <3>3. TodoInv'
        BY <1>1, <1>3, <2>3, <3>1, <3>2, DispatchTodo, NotifiersAssumption, DispatchIsThread
        DEF TodoInv, Serving
      <3> QED  BY <1>1, <2>1, <3>2, <3>3 DEF Forgetting, Notifying
    <2> QED  BY <2>2, <2>3
  <1>4. CASE th # Dispatch
    <2>1. th \in Notifiers /\ todo[th] \in Seq(SetTasks)
      BY <1>4 DEF Threads, TodoInv
    <2>2. DOMAIN todo' = Threads /\ todo'[th] \in Seq(SetTasks)
          /\ \A u \in Threads \ {th} : todo'[u] = todo[u]
      BY <1>1, <2>1, TodoThen, TaskSeqs
    <2>3. todo'[Dispatch] = todo[Dispatch] /\ (Forgetting => pc'[Dispatch] = "run")
      BY <1>2, <1>4, <2>2, DispatchIsThread DEF TodoInv
    <2> QED  BY <1>1, <2>1, <2>2, <2>3, NotifierTodo DEF Forgetting, Notifying
  <1> QED  BY <1>3, <1>4

\* The tasks of a request are steps of its handler.
LEMMA ServeTodo ==
    ASSUME FrameInv, TodoInv, Gate \/ Handle \/ OnRequestComplete
    PROVE  /\ TodoInv' /\ Serving /\ UNCHANGED handling
           /\ ~Forgetting /\ ~Notifying /\ ~Forgetting' /\ ~Notifying'
  <1>1. Serving /\ todo[Dispatch] # << >> /\ UNCHANGED handling /\ DOMAIN todo = Threads
    BY DoingWhat DEF Gate, Handle, OnRequestComplete, Doing, TodoInv
  <1>2. PICK tasks \in Seq(ServeTasks) : Then(Dispatch, tasks)
    <2>1. CASE Gate
      <3>1. <<Complete>> \in Seq(ServeTasks) /\ <<Task("handle")>> \in Seq(ServeTasks)
        BY TaskTypes, TaskSeqs
      <3> QED  BY <2>1, <3>1 DEF Gate
    <2>2. CASE Handle
      BY <2>2, HandlersTypes DEF Handle
    <2>3. CASE OnRequestComplete
      BY <2>3, TaskSeqs DEF OnRequestComplete
    <2> QED  BY <2>1, <2>2, <2>3
  <1>3. /\ DOMAIN todo' = Threads /\ todo'[Dispatch] \in Seq(ServeTasks)
        /\ \A u \in Threads \ {Dispatch} : todo'[u] = todo[u]
    BY <1>1, <1>2, TodoThen, DispatchIsThread DEF TodoInv
  <1>4. todo'[Dispatch] # <<Task("forget")>> /\ todo'[Dispatch] # <<Task("notify")>>
    BY <1>3, TaskSeqs
  <1>5. TodoInv'
    BY <1>1, <1>3, <1>4, DispatchTodo, NotifiersAssumption, DispatchIsThread
    DEF TodoInv, Serving
  <1> QED  BY <1>1, <1>4, <1>5, DoingWhat DEF Forgetting, Notifying

\* The end of a task that no request is served with.
LEMMA OtherTodo ==
    ASSUME TodoInv, Notify \/ ForgetCommand
    PROVE  TodoInv' /\ ~Serving' /\ ~Forgetting' /\ ~Notifying'
  <1>1. /\ Forgetting \/ Notifying
        /\ ~Serving /\ UNCHANGED handling /\ DOMAIN todo = Threads /\ Then(Dispatch, << >>)
    BY DoingWhat DEF Notify, ForgetCommand, TodoInv
  <1>2. /\ todo'[Dispatch] = << >> /\ DOMAIN todo' = Threads
        /\ \A u \in Threads \ {Dispatch} : todo'[u] = todo[u]
    <2>1. \A t : << >> \o Tail(<<t>>) = << >>
      OBVIOUS
    <2>2. todo'[Dispatch] = << >> \o Tail(todo[Dispatch])
      BY <1>1, DispatchIsThread DEF Then
    <2>3. todo'[Dispatch] = << >>
      BY <1>1, <2>1, <2>2 DEF Forgetting, Notifying
    <2> QED  BY <1>1, <2>3 DEF Then
  <1> QED  BY <1>1, <1>2, TaskSeqs, DispatchTodo, NotifiersAssumption, DispatchIsThread
           DEF TodoInv, Serving, Forgetting, Notifying

LEMMA DispatchBeginsTodo ==
    ASSUME TodoInv, NEW tasks, Begin(Dispatch, tasks)
    PROVE  /\ todo'[Dispatch] = tasks /\ DOMAIN todo' = Threads
           /\ \A u \in Notifiers : todo'[u] = todo[u]
           /\ ~Serving /\ ~Forgetting /\ ~Notifying /\ pc[Dispatch] = "run"
  <1>1. DOMAIN todo = Threads /\ ~Serving /\ pc[Dispatch] = "run"
    BY DEF Begin, Idle, TodoInv, Serving
  <1>2. ~Forgetting /\ ~Notifying
    BY DoingWhat DEF Begin
  <1> QED  BY <1>1, <1>2, TodoBegin, NotifiersAssumption, DispatchIsThread

LEMMA BeginsTodo ==
    ASSUME FrameInv, TodoInv,
           \/ \E c \in Clients : Accept(c)
           \/ \E kind \in Kinds : Receive(kind)
           \/ CloseCommand \/ TimedCallback
    PROVE  TodoInv'
  <1>1. CASE \E c \in Clients : Accept(c)
    <2>1. Begin(Dispatch, <<Task("notify")>>) /\ UNCHANGED handling
      BY <1>1 DEF Accept
    <2> QED  BY DispatchBeginsTodo, <2>1, DispatchTodo DEF Serving, Task
  <1>2. CASE \E kind \in Kinds : Receive(kind)
    <2>1. PICK kind \in Kinds : Receive(kind)
      BY <1>2
    <2>2. PICK tasks \in {<<Task("gate")>>, << >>} : Begin(Dispatch, tasks)
      BY <2>1 DEF Receive
    <2>3. tasks \in Seq(ServeTasks) /\ tasks # <<Task("forget")>>
      BY <2>2, TaskTypes, TaskSeqs
    <2>4. handling' = [r |-> Len(received) + 1, kind |-> kind]
      BY <2>1 DEF Receive
    <2>5. Len(received) + 1 \in Nat \ {0}
      BY DEF FrameInv, SendTypes
    <2>6. /\ handling' \in [r : Nat \ {0}, kind : AllKinds] /\ handling' # NoRequest
      BY <2>4, <2>5, KindsAssumption DEF NoRequest
    <2> QED  BY DispatchBeginsTodo, <2>2, <2>3, <2>6, DispatchTodo
  <1>3. CASE CloseCommand
    <2>1. Begin(Dispatch, <<Task("forget")>>) /\ UNCHANGED <<handling, pc>>
      BY <1>3 DEF CloseCommand, sendVars
    <2> QED  BY DispatchBeginsTodo, <2>1, DispatchTodo DEF Serving
  <1>4. CASE TimedCallback
    <2>1. PICK state \in NotifierStates \cap (SimStates \cup OffStates) :
              Begin(Dispatch, <<Set(state)>>)
      BY <1>4 DEF TimedCallback
    <2>2. UNCHANGED handling
      BY <1>4 DEF TimedCallback
    <2>3. <<Set(state)>> \in Seq(SetTasks) /\ <<Set(state)>> # <<Task("forget")>>
      BY KindsAssumption, TaskTypes, TaskSeqs
    <2> QED  BY DispatchBeginsTodo, <2>1, <2>2, <2>3, DispatchTodo DEF Serving
  <1> QED  BY <1>1, <1>2, <1>3, <1>4

LEMMA NotifierBeginsTodo ==
    ASSUME FrameInv, TodoInv, NEW th \in Notifiers, NotifierBegins(th)
    PROVE  TodoInv' /\ UNCHANGED handling /\ todo'[Dispatch] = todo[Dispatch]
  <1>1. UNCHANGED handling /\ th # Dispatch /\ th \in Threads
    BY NotifiersAssumption, DispatchIsThread
    DEF NotifierBegins, ChangeState, TellEvent, OpenDevice, CloseDevice
  <1>2. pc'[Dispatch] = pc[Dispatch]
    BY <1>1, DispatchIsThread
    DEF NotifierBegins, ChangeState, TellEvent, OpenDevice, CloseDevice, Send, sendVars,
        FrameInv, SendTypes
  <1>3. CASE ChangeState(th)
    <2>1. PICK state \in NotifierStates : Begin(th, <<Set(state)>>)
      BY <1>3 DEF ChangeState
    <2>2. <<Set(state)>> \in Seq(SetTasks)
      BY KindsAssumption, TaskTypes, TaskSeqs
    <2>3. /\ todo'[th] = <<Set(state)>> /\ DOMAIN todo' = Threads
          /\ \A u \in Threads \ {th} : todo'[u] = todo[u]
      BY <1>1, <2>1, TodoBegin DEF TodoInv
    <2>4. TodoInv'
      BY <1>1, <1>2, <2>2, <2>3, NotifierTodo DEF TodoInv
    <2> QED  BY <1>1, <2>3, <2>4, DispatchIsThread
  <1>4. CASE ~ChangeState(th)
    <2>1. UNCHANGED todo
      BY <1>4 DEF NotifierBegins, TellEvent, OpenDevice, CloseDevice
    <2> QED  BY <1>1, <1>2, <2>1, TodoKept DEF TodoInv
  <1> QED  BY <1>3, <1>4

-----------------------------------------------------------------------------
(* The descriptors of connections.                                          *)

LEMMA AppendTo ==
    ASSUME NEW S, NEW s \in Seq(S), NEW e \in S
    PROVE  /\ Append(s, e) \in Seq(S) /\ Len(Append(s, e)) = Len(s) + 1 /\ Len(s) \in Nat
           /\ DOMAIN Append(s, e) = 1 .. Len(s) + 1 /\ DOMAIN s = 1 .. Len(s)
           /\ \A i \in DOMAIN s : Append(s, e)[i] = s[i]
           /\ Append(s, e)[Len(s) + 1] = e
           /\ \A i \in DOMAIN Append(s, e) : i \in DOMAIN s \/ Append(s, e)[i] = e
  OBVIOUS

LEMMA ServedKept ==
    ASSUME FrameInv, ServedInv, UNCHANGED <<files, conn, s_fdCommand, received, handling>>,
           (Forgetting' <=> Forgetting), Notifying' => Notifying,
           pc'[Dispatch] \in {"lock", "header", "body"} => wfd'[Dispatch] = s_fdCommand
    PROVE  ServedInv'
  BY DEF ServedInv, Serving, Client

LEMMA SendStepServed ==
    ASSUME FrameInv, ServedInv, NEW th \in Threads, SendStep(th) PROVE ServedInv'
  <1>1. UNCHANGED <<files, conn, s_fdCommand, received, handling, todo>>
    BY DEF SendStep, Compose, ReadFd, Lock, WriteHeader, WriteBody, WriteFails, fileVars
  <1>2. pc'[Dispatch] \in {"lock", "header", "body"} => wfd'[Dispatch] = s_fdCommand
    BY DispatchIsThread
    DEF SendStep, Compose, ReadFd, Lock, WriteHeader, WriteBody, WriteFails, Send, Sent,
        sendVars, FrameInv, SendTypes, ServedInv
  <1> QED  BY <1>1, <1>2, ServedKept DEF Forgetting, Notifying

LEMMA TasksServed ==
    ASSUME FrameInv, TodoInv, ServedInv,
           \/ \E th \in Threads : setRadioState(th)
           \/ Notify \/ Gate \/ Handle \/ OnRequestComplete
    PROVE  ServedInv'
  <1>1. UNCHANGED <<files, conn, s_fdCommand, received, handling, wfd>>
    BY DEF setRadioState, Notify, Gate, Handle, OnRequestComplete, fileVars, sendVars
  <1>2. pc'[Dispatch] \in {"lock", "header", "body"} => pc[Dispatch] = pc'[Dispatch]
    BY DispatchIsThread
    DEF setRadioState, Notify, Gate, Handle, OnRequestComplete, sendVars, Send, FrameInv,
        SendTypes
  <1>3. (Forgetting' <=> Forgetting) /\ (Notifying' => Notifying)
    <2>1. CASE \E th \in Threads : setRadioState(th)
      BY <2>1, SetRadioStateTodo
    <2>2. CASE Notify
      BY <2>2, OtherTodo, DoingWhat DEF Notify
    <2>3. CASE Gate \/ Handle \/ OnRequestComplete
      BY <2>3, ServeTodo
    <2> QED  BY <2>1, <2>2, <2>3
  <1> QED  BY <1>1, <1>2, <1>3, ServedKept DEF ServedInv

\* The descriptor that accept returns is nobody's.
LEMMA AcceptServed ==
    ASSUME FrameInv, TodoInv, ServedInv, NEW c \in Clients, Accept(c) PROVE ServedInv'
  <1>1. PICK fd \in Fds : s_fdCommand' = fd /\ files' = [files EXCEPT ![fd] = c]
    BY DEF Accept
  <1>2. /\ s_fdCommand = NoFd /\ conn' = [conn EXCEPT ![c] = "open"]
        /\ UNCHANGED <<received, handling, pc, wfd>>
    BY DEF Accept, sendVars
  <1>3. /\ todo'[Dispatch] = <<Task("notify")>> /\ ~Serving /\ pc[Dispatch] = "run"
    BY DispatchBeginsTodo DEF Accept
  <1>4. ~Forgetting' /\ ~Serving'
    BY <1>2, <1>3 DEF Forgetting, Serving, Task
  <1>5. /\ files'[fd] = c /\ \A g \in Fds \ {fd} : files'[g] = files[g]
        /\ \A d \in Clients : conn'[d] = "none" => conn[d] = "none"
    BY <1>1, <1>2 DEF FrameInv, SendTypes
  <1>6. fd # NoFd /\ \A g \in Fds : files[g] \notin Clients
    BY <1>2, BoundsAssumption DEF ServedInv
  <1> QED  BY <1>1, <1>2, <1>3, <1>4, <1>5, <1>6 DEF ServedInv, Client

LEMMA ReceiveServed ==
    ASSUME FrameInv, TodoInv, ServedInv, NEW kind \in Kinds, Receive(kind) PROVE ServedInv'
  <1>1. PICK tasks \in {<<Task("gate")>>, << >>} : Begin(Dispatch, tasks)
    BY DEF Receive
  <1>2. /\ s_fdCommand # NoFd /\ received' = Append(received, Client)
        /\ UNCHANGED <<s_fdCommand, files, conn, pc, wfd>>
    BY DEF Receive, sendVars, fileVars
  <1>3. /\ todo'[Dispatch] = tasks /\ ~Forgetting /\ pc[Dispatch] = "run"
    BY <1>1, DispatchBeginsTodo
  <1>4. ~Forgetting' /\ ~Notifying'
    BY <1>3 DEF Forgetting, Notifying, Task
  <1>5. Client \in Clients /\ conn[Client] # "none"
    BY <1>2, <1>3 DEF ServedInv, FrameInv, Connected, SendTypes, Client
  <1>6. /\ received' \in Seq(Clients)
        /\ \A r \in DOMAIN received' : \/ received'[r] = Client
                                       \/ r \in DOMAIN received /\ received'[r] = received[r]
    <2> HIDE DEF Client
    <2> QED  BY <1>2, <1>5, AppendTo DEF ServedInv
  <1> QED  BY <1>2, <1>3, <1>4, <1>5, <1>6 DEF ServedInv, Client

LEMMA CloseServed ==
    ASSUME FrameInv, TodoInv, ServedInv, CloseCommand PROVE ServedInv'
  <1>1. /\ s_fdCommand \in Fds /\ s_fdCommand # NoFd /\ conn' = [conn EXCEPT ![Client] = "closed"]
        /\ files' = [files EXCEPT ![s_fdCommand] = Closed]
        /\ UNCHANGED <<s_fdCommand, received, handling, pc, wfd>>
    BY DEF CloseCommand, sendVars, FrameInv, SendTypes
  <1>2. /\ todo'[Dispatch] = <<Task("forget")>> /\ pc[Dispatch] = "run"
    BY DispatchBeginsTodo DEF CloseCommand
  <1>3. Forgetting'
    BY <1>2 DEF Forgetting
  <1>4. /\ files'[s_fdCommand] \notin Clients
        /\ \A g \in Fds \ {s_fdCommand} : files'[g] = files[g]
        /\ \A d \in Clients : conn'[d] = "none" => conn[d] = "none"
    BY <1>1 DEF FrameInv, SendTypes, Clients, Closed
  <1> QED  BY <1>1, <1>2, <1>3, <1>4 DEF ServedInv, Client

LEMMA ForgetServed ==
    ASSUME FrameInv, TodoInv, ServedInv, ForgetCommand PROVE ServedInv'
  <1>1. /\ s_fdCommand' = NoFd /\ UNCHANGED <<files, conn, received, handling, pc, wfd>>
        /\ Forgetting /\ ~Serving' /\ ~Forgetting' /\ ~Notifying' /\ pc[Dispatch] = "run"
    BY OtherTodo, DoingWhat DEF ForgetCommand, sendVars, fileVars, TodoInv
  <1>2. \A fd \in Fds : files[fd] \notin Clients
    BY <1>1, BoundsAssumption DEF ServedInv, Client
  <1> QED  BY <1>1, <1>2 DEF ServedInv

\* The device gets no descriptor that is a client's, and is not one.
LEMMA DeviceServed ==
    ASSUME FrameInv, ServedInv, NEW th \in Notifiers, OpenDevice(th) \/ CloseDevice(th)
    PROVE  ServedInv' /\ \A fd \in Fds : files'[fd] \in Clients \/ files[fd] \in Clients =>
                                             files'[fd] = files[fd]
  <1>1. UNCHANGED <<conn, s_fdCommand, received, handling, todo, pc, wfd>>
    BY DEF OpenDevice, CloseDevice, sendVars
  <1>2. PICK fd \in Fds, file \in {Closed, Device} :
            files[fd] \in {Closed, Device} /\ files' = [files EXCEPT ![fd] = file]
    BY DEF OpenDevice, CloseDevice, IsFreeFd
  <1>3. \A g \in Fds : files'[g] \in Clients \/ files[g] \in Clients => files'[g] = files[g]
    BY <1>2 DEF FrameInv, SendTypes, Clients, Closed, Device
  <1> QED  BY <1>1, <1>3 DEF ServedInv, Serving, Forgetting, Notifying, Client, FrameInv, SendTypes

LEMMA OthersServed ==
    ASSUME FrameInv, TodoInv, ServedInv,
           \/ Return \/ TimedCallback
           \/ \E th \in Notifiers : ChangeState(th) \/ TellEvent(th)
    PROVE  ServedInv'
  <1>1. UNCHANGED <<files, conn, s_fdCommand, received, wfd>>
    BY DEF Return, TimedCallback, ChangeState, TellEvent, fileVars, sendVars
  <1>2. CASE Return
    BY <1>1, <1>2 DEF Return, ServedInv, Serving, Forgetting, Notifying, sendVars, Client
  <1>3. CASE TimedCallback
    <2>1. PICK state : Begin(Dispatch, <<Set(state)>>)
      BY <1>3 DEF TimedCallback
    <2>2. todo'[Dispatch] = <<Set(state)>> /\ ~Forgetting
      BY <2>1, DispatchBeginsTodo
    <2>3. ~Forgetting' /\ ~Notifying'
      BY <2>2 DEF Forgetting, Notifying, Set, Task
    <2>4. UNCHANGED <<handling, pc>>
      BY <1>3 DEF TimedCallback, sendVars
    <2> QED  BY <1>1, <2>2, <2>3, <2>4, ServedKept DEF ServedInv
  <1>4. ASSUME NEW th \in Notifiers, ChangeState(th) \/ TellEvent(th) PROVE ServedInv'
    <2>1. UNCHANGED handling /\ todo'[Dispatch] = todo[Dispatch]
      BY <1>4, NotifierBeginsTodo DEF NotifierBegins
    <2>2. pc'[Dispatch] = pc[Dispatch]
      BY <1>4, NotifiersAssumption, DispatchIsThread
      DEF ChangeState, TellEvent, sendVars, Send, FrameInv, SendTypes
    <2> QED  BY <1>1, <2>1, <2>2, ServedKept DEF ServedInv, Forgetting, Notifying
  <1> QED  BY <1>2, <1>3, <1>4

LEMMA HangUpServed ==
    ASSUME FrameInv, ServedInv, NEW c \in Clients, HangUp(c) PROVE ServedInv'
  <1>1. /\ UNCHANGED <<files, s_fdCommand, received, handling, todo, pc, wfd>>
        /\ conn[c] = "open" /\ conn' = [conn EXCEPT ![c] = "hungup"]
    BY DEF HangUp, sendVars
  <1>2. \A d \in Clients : conn'[d] = "none" => conn[d] = "none"
    BY <1>1 DEF FrameInv, SendTypes
  <1> QED  BY <1>1, <1>2 DEF ServedInv, Serving, Forgetting, Notifying, Client

-----------------------------------------------------------------------------
(* What each thread is sending.                                             *)

\* a thread that is not sending has no message, least of all an answer
LEMMA MsgKept ==
    ASSUME MsgInv, UNCHANGED <<pc, msg>>, handling' = handling \/ pc[Dispatch] = "run"
    PROVE  MsgInv'
  BY DispatchIsThread DEF MsgInv, Answering, Serving, NoMessage

LEMMA SendStepMsg ==
    ASSUME FrameInv, MsgInv, NEW th \in Threads, SendStep(th) PROVE MsgInv'
  <1>1. UNCHANGED handling
    BY DEF SendStep, Compose, ReadFd, Lock, WriteHeader, WriteBody, WriteFails
  <1>2. /\ \A u \in Threads \ {th} : pc'[u] = pc[u] /\ msg'[u] = msg[u]
        /\ \/ pc'[th] \notin {"run", "compose"} /\ msg'[th] = msg[th]
           \/ pc'[th] \notin {"run", "compose"} /\ msg'[th].type = "state"
           \/ msg'[th] = NoMessage
    <2>1. CASE Compose(th)
      BY <2>1 DEF Compose, Send, FrameInv, SendTypes
    <2>2. CASE ReadFd(th)
      BY <2>2 DEF ReadFd, Sent, FrameInv, SendTypes
    <2>3. CASE WriteBody(th)
      BY <2>3 DEF WriteBody, Sent, FrameInv, SendTypes
    <2>4. CASE Lock(th) \/ WriteHeader(th) \/ WriteFails(th)
      BY <2>4 DEF Lock, WriteHeader, WriteFails, sendVars, FrameInv, SendTypes
    <2> QED  BY <2>1, <2>2, <2>3, <2>4 DEF SendStep
  <1>3. NoMessage.type = "none"
    BY DEF NoMessage
  <1>4. msg'[Dispatch] = msg[Dispatch] \/ msg'[Dispatch].type \in {"state", "none"}
    BY <1>2, <1>3, DispatchIsThread
  <1> QED  BY <1>1, <1>2, <1>3, <1>4, DispatchIsThread DEF MsgInv, Answering, Serving

LEMMA ComposesMsg ==
    ASSUME FrameInv, MsgInv, (\E th \in Threads : setRadioState(th)) \/ Notify PROVE MsgInv'
  <1>1. UNCHANGED <<handling, msg>>
    BY DEF setRadioState, Notify
  <1>2. \A th \in Threads : pc'[th] \in {"run", "compose"} => pc[th] \in {"run", "compose"}
    BY DispatchIsThread DEF setRadioState, Notify, Doing, FrameInv, SendTypes
  <1> QED  BY <1>1, <1>2 DEF MsgInv, Answering, Serving

LEMMA OnRequestCompleteMsg ==
    ASSUME FrameInv, TodoInv, MsgInv, OnRequestComplete
    PROVE  /\ MsgInv' /\ ~Answering
           /\ \A u \in Threads \ {Dispatch} : pc'[u] = pc[u] /\ msg'[u] = msg[u]
  <1>1. UNCHANGED handling /\ Serving /\ pc[Dispatch] = "run"
    BY DoingWhat DEF OnRequestComplete, Doing
  <1>2. ~Answering
    BY <1>1, DispatchIsThread DEF MsgInv, Answering, NoMessage
  <1>3. CASE UNCHANGED <<pc, msg>>
    BY <1>1, <1>2, <1>3, MsgKept
  <1>4. CASE Send(Dispatch, Answer)
    <2>0. Answer.type = "answer" /\ Answer.r = handling.r
      BY AnswerTypes DEF FrameInv
    <2>1. /\ pc'[Dispatch] = "fd" /\ msg'[Dispatch] = Answer
          /\ \A u \in Threads \ {Dispatch} : pc'[u] = pc[u] /\ msg'[u] = msg[u]
      BY <1>4, DispatchIsThread DEF Send, FrameInv, SendTypes
    <2> QED  BY <1>1, <1>2, <2>0, <2>1, NotifiersAssumption, DispatchIsThread
             DEF MsgInv, Answering, Serving
  <1> QED  BY <1>3, <1>4 DEF OnRequestComplete

LEMMA DispatchMsg ==
    ASSUME MsgInv,
           \/ \E c \in Clients : Accept(c)
           \/ \E kind \in Kinds : Receive(kind)
           \/ CloseCommand \/ TimedCallback \/ Return \/ Gate \/ Handle \/ ForgetCommand
    PROVE  MsgInv'
  <1>1. UNCHANGED <<pc, msg>>
    BY DEF Accept, Receive, CloseCommand, TimedCallback, Return, Gate, Handle, ForgetCommand,
           sendVars
  <1>2. handling' = handling \/ pc[Dispatch] = "run"
    BY DEF Accept, Receive, CloseCommand, TimedCallback, Return, Gate, Handle, ForgetCommand,
           Begin, Idle
  <1> QED  BY <1>1, <1>2, MsgKept

LEMMA NotifierMsg ==
    ASSUME FrameInv, MsgInv, NEW th \in Notifiers, NotifierBegins(th) PROVE MsgInv'
  <1>1. CASE TellEvent(th)
    <2>1. /\ pc'[th] = "fd" /\ msg'[th].type = "event" /\ UNCHANGED handling
          /\ \A u \in Threads \ {th} : pc'[u] = pc[u] /\ msg'[u] = msg[u]
      BY <1>1, DispatchIsThread DEF TellEvent, Send, FrameInv, SendTypes
    <2> QED  BY <2>1, NotifiersAssumption, DispatchIsThread DEF MsgInv, Answering, Serving
  <1>2. CASE ~TellEvent(th)
    <2>1. UNCHANGED <<pc, msg, handling>>
      BY <1>2 DEF NotifierBegins, ChangeState, OpenDevice, CloseDevice, sendVars
    <2> QED  BY <2>1, MsgKept
  <1> QED  BY <1>1, <1>2

-----------------------------------------------------------------------------
(* Threads, tasks, descriptors and messages: all steps.                     *)

LEMMA InitThreads == Init => ThreadInv
  <1> SUFFICES ASSUME Init PROVE ThreadInv
    OBVIOUS
  <1>1. FrameInv
    BY InitFrames
  <1>2. todo[Dispatch] = << >> /\ ~Serving /\ \A th \in Threads : todo[th] = << >>
    BY DispatchIsThread DEF Init, Serving
  <1>3. TodoInv
    BY <1>2, TaskSeqs, DispatchIsThread DEF Init, TodoInv, Forgetting, Serving
  <1>4. ServedInv
    BY <1>2, DispatchIsThread DEF Init, ServedInv, Forgetting, Notifying, Clients, Closed
  <1>5. MsgInv
    BY DispatchIsThread DEF Init, MsgInv, Answering, NoMessage
  <1> QED  BY <1>1, <1>3, <1>4, <1>5 DEF ThreadInv

LEMMA NextThreads == ThreadInv /\ [Next]_vars => ThreadInv'
  <1> SUFFICES ASSUME ThreadInv, [Next]_vars PROVE ThreadInv'
    OBVIOUS
  <1> USE DEF ThreadInv
  <1>1. FrameInv'
    BY NextFrames
  <1>2. ASSUME NEW th \in Threads, SendStep(th) \/ setRadioState(th)
        PROVE  TodoInv' /\ ServedInv' /\ MsgInv'
    BY <1>2, SendStepTodo, SendStepServed, SendStepMsg, SetRadioStateTodo, TasksServed,
       ComposesMsg
  <1>3. CASE Notify \/ Gate \/ Handle \/ OnRequestComplete
    BY <1>1, <1>3, ServeTodo, OtherTodo, TasksServed, ComposesMsg, DispatchMsg,
       OnRequestCompleteMsg
  <1>4. CASE Return
    <2>1. TodoInv'
      <3>1. /\ todo[Dispatch] = << >> /\ UNCHANGED todo /\ handling' = NoRequest
        BY <1>4 DEF Return
      <3> QED  BY <3>1, TaskSeqs, DispatchTodo DEF TodoInv
    <2> QED  BY <1>1, <1>4, <2>1, OthersServed, DispatchMsg
  <1>5. CASE ForgetCommand
    BY <1>1, <1>5, OtherTodo, ForgetServed, DispatchMsg
  <1>6. CASE DispatchBegins
    <2>1. TodoInv' /\ MsgInv'
      BY <1>6, BeginsTodo, DispatchMsg DEF DispatchBegins
    <2>2. ServedInv'
      BY <1>6, AcceptServed, ReceiveServed, CloseServed, OthersServed DEF DispatchBegins
    <2> QED  BY <1>1, <2>1, <2>2
  <1>7. ASSUME NEW th \in Notifiers, NotifierBegins(th) PROVE TodoInv' /\ ServedInv' /\ MsgInv'
    BY <1>7, NotifierBeginsTodo, OthersServed, DeviceServed, NotifierMsg DEF NotifierBegins
  <1>8. ASSUME NEW c \in Clients, HangUp(c) PROVE TodoInv' /\ ServedInv' /\ MsgInv'
    <2>1. UNCHANGED <<todo, handling, pc, msg>>
      BY <1>8 DEF HangUp, sendVars
    <2> QED  BY <1>8, <2>1, TodoKept, MsgKept, HangUpServed DEF TodoInv
  <1>9. CASE UNCHANGED vars
    <2>1. UNCHANGED <<todo, handling, pc, msg, wfd, files, conn, s_fdCommand, received>>
      BY <1>9 DEF vars, sendVars, fileVars
    <2>2. ServedInv'
      BY <2>1, ServedKept DEF ServedInv, Forgetting, Notifying
    <2> QED  BY <1>1, <2>1, <2>2, TodoKept, MsgKept DEF TodoInv
  <1> QED
    BY <1>1, <1>2, <1>3, <1>4, <1>5, <1>6, <1>7, <1>8, <1>9, DispatchIsThread
    DEF Next, DispatchStep, NotifierStep

-----------------------------------------------------------------------------
(* The requests: each is pending once, has been answered or is being.       *)

Requested == [r : Nat, cancelled : BOOLEAN]

\* the list of pending requests, and the request being served
ListInv ==
    /\ s_pendingRequests \in Seq(Requested)
    /\ \A i, j \in DOMAIN s_pendingRequests :
          s_pendingRequests[i].r = s_pendingRequests[j].r => i = j
    /\ \A i \in DOMAIN s_pendingRequests :
          /\ s_pendingRequests[i].r \in DOMAIN received
          /\ IF s_pendingRequests[i].cancelled \/ Forgetting
             THEN conn[received[s_pendingRequests[i].r]] = "closed"
             ELSE s_fdCommand # NoFd /\ received[s_pendingRequests[i].r] = Client
    /\ Serving => handling.r = Len(received) /\ received[handling.r] = Client

AnsweredNow(r) == Answering /\ handling.r = r
Settled(r) == IsAnswered(r) \/ r \in oversized
AnswerInv ==
    /\ \A r \in Nat : Settled(r) => r \in DOMAIN received
    /\ \A r \in DOMAIN received : Pending(r) = {} <=> Settled(r) \/ AnsweredNow(r)
    /\ \A r \in Nat : ~(Settled(r) /\ AnsweredNow(r))
    /\ \A r \in Nat : ~(IsAnswered(r) /\ r \in oversized)

RequestInv == ListInv /\ AnswerInv
ServeInv == ThreadInv /\ RequestInv

\* The list stays as it is, and so does whoever is served.
LEMMA ListKept ==
    ASSUME ListInv, UNCHANGED <<s_pendingRequests, received>>, received \in Seq(Clients),
           \A c \in Clients : conn[c] = "closed" => conn'[c] = "closed",
           Forgetting' <=> Forgetting,
           s_fdCommand # NoFd /\ ~Forgetting => s_fdCommand' # NoFd /\ Client' = Client,
           Serving' => Serving /\ handling' = handling /\ Client' = Client
    PROVE  ListInv'
  BY DEF ListInv

LEMMA AnswersKept ==
    ASSUME AnswerInv, UNCHANGED <<s_pendingRequests, received, oversized>>,
           \A r \in Nat : IsAnswered(r)' <=> IsAnswered(r),
           \A r \in Nat : AnsweredNow(r)' <=> AnsweredNow(r),
           received \in Seq(Clients)
    PROVE  AnswerInv'
  <1>1. \A r \in DOMAIN received : r \in Nat
    OBVIOUS
  <1> QED  BY <1>1 DEF AnswerInv, Settled, Pending

LEMMA OutUnchanged ==
    ASSUME UNCHANGED out PROVE \A r : IsAnswered(r)' <=> IsAnswered(r)
  BY DEF IsAnswered, AnsweredTo, IsAnswer

LEMMA MsgUnchanged ==
    ASSUME \/ UNCHANGED <<msg[Dispatch], handling>>
           \/ ~Answering /\ ~Answering'
    PROVE  \A r : AnsweredNow(r)' <=> AnsweredNow(r)
  BY DEF AnsweredNow, Answering

\* A frame at the end of what was written to a client is an answer or is not.
LEMMA FrameAnswers ==
    ASSUME NEW c \in Clients, NEW frame, NEW n \in Nat,
           DOMAIN out[c] = 1 .. n, DOMAIN out'[c] = 1 .. n + 1,
           \A i \in 1 .. n : out'[c][i] = out[c][i], out'[c][n + 1] = frame,
           \A d \in Clients \ {c} : out'[d] = out[d]
    PROVE  \A r : IsAnswered(r)' <=> IsAnswered(r) \/ (IsAnswer(frame) /\ frame.of.r = r)
  <1> SUFFICES ASSUME NEW r
               PROVE  IsAnswered(r)' <=> IsAnswered(r) \/ (IsAnswer(frame) /\ frame.of.r = r)
    OBVIOUS
  <1> DEFINE Has(s) == \E i \in DOMAIN s : IsAnswer(s[i]) /\ s[i].of.r = r
  <1>1. /\ IsAnswered(r) <=> \E d \in Clients : Has(out[d])
        /\ IsAnswered(r)' <=> \E d \in Clients : Has(out'[d])
    BY DEF IsAnswered, AnsweredTo, IsAnswer
  <1>2. Has(out'[c]) <=> Has(out[c]) \/ (IsAnswer(frame) /\ frame.of.r = r)
    <2> DEFINE P(e) == IsAnswer(e) /\ e.of.r = r
    <2>1. /\ Has(out[c]) <=> \E i \in 1 .. n : P(out[c][i])
          /\ Has(out'[c]) <=> \E i \in 1 .. n + 1 : P(out'[c][i])
      OBVIOUS
    <2>2. (\E i \in 1 .. n + 1 : P(out'[c][i]))
             <=> (\E i \in 1 .. n : P(out'[c][i])) \/ P(out'[c][n + 1])
      <3> HIDE DEF P
      <3> QED  OBVIOUS
    <2>3. (\E i \in 1 .. n : P(out'[c][i])) <=> (\E i \in 1 .. n : P(out[c][i]))
      OBVIOUS
    <2> QED  BY <2>1, <2>2, <2>3
  <1> HIDE DEF Has
  <1> QED  BY <1>1, <1>2

\* What a write adds to the answers.
LEMMA WriteAnswers ==
    ASSUME FrameInv, NEW th \in Threads, pc[th] \in Writing,
           NEW part \in {"header", "body"}, Write(th, part)
    PROVE  \A r : IsAnswered(r)' <=>
               \/ IsAnswered(r)
               \/ /\ files[wfd[th]] \in Clients
                  /\ part = "body" /\ msg[th].type = "answer" /\ msg[th].r = r
  <1>1. PICK c : c = files[wfd[th]]
    OBVIOUS
  <1>2. PICK frame : frame = [part |-> part, of |-> msg[th]]
    OBVIOUS
  <1>3. CASE c = Device /\ out' = out
    BY <1>1, <1>3, OutUnchanged DEF Clients, Device
  <1>4. CASE ~(c = Device /\ out' = out)
    <2> PICK n : n = Len(out[c])
      OBVIOUS
    <2>1. /\ c \in Clients /\ n \in Nat
          /\ DOMAIN out[c] = 1 .. n /\ DOMAIN out'[c] = 1 .. n + 1
          /\ \A i \in 1 .. n : out'[c][i] = out[c][i]
          /\ out'[c][n + 1] = frame
          /\ \A d \in Clients \ {c} : out'[d] = out[d]
      BY <1>1, <1>2, <1>4, WriteAdds
    <2>2. \A r : IsAnswered(r)' <=> IsAnswered(r) \/ (IsAnswer(frame) /\ frame.of.r = r)
      BY <2>1, FrameAnswers
    <2> QED  BY <1>1, <1>2, <2>1, <2>2 DEF IsAnswer
  <1> QED  BY <1>3, <1>4

\* The body of an answer goes to the client that is served; nothing else that is
\* written is an answer.
LEMMA SendStepRequests ==
    ASSUME ServeInv, NEW th \in Threads, SendStep(th) PROVE RequestInv'
  <1> USE DEF ServeInv, RequestInv, ThreadInv
  <1>1. UNCHANGED <<s_pendingRequests, received, conn, files, s_fdCommand, handling, todo>>
    BY DEF SendStep, Compose, ReadFd, Lock, WriteHeader, WriteBody, WriteFails, fileVars
  <1>2. received \in Seq(Clients)
    BY DEF ServedInv
  <1>3. ListInv'
    BY <1>1, <1>2, ListKept DEF Client, Forgetting, Serving
  <1>4. CASE WriteBody(th) /\ th = Dispatch /\ Answering
    <2>1. /\ pc[Dispatch] = "body" /\ wfd[Dispatch] = s_fdCommand /\ Serving
          /\ msg[Dispatch].type = "answer" /\ msg[Dispatch].r = handling.r
      BY <1>4 DEF WriteBody, ServedInv, MsgInv, Answering
    <2>2. files[wfd[Dispatch]] \in Clients
      BY <2>1, DoingWhat DEF ServedInv, Client
    <2>3. \A r : IsAnswered(r)' <=> IsAnswered(r) \/ r = handling.r
      BY <1>4, <2>1, <2>2, WriteAnswers DEF WriteBody, Writing
    <2>4. ~Answering'
      BY <1>4, SentType DEF WriteBody, Sent, Answering, NoMessage, FrameInv, SendTypes
    <2>5. \A r : AnsweredNow(r) <=> r = handling.r
      BY <1>4 DEF AnsweredNow
    <2>6. \A r : ~AnsweredNow(r)'
      BY <2>4 DEF AnsweredNow
    <2>7. handling.r \in DOMAIN received
      BY <1>2, <2>1 DEF ListInv, TodoInv, Serving, NoRequest
    <2>8. UNCHANGED oversized
      BY <1>4 DEF WriteBody
    <2> QED  BY <1>1, <1>3, <2>3, <2>5, <2>6, <2>7, <2>8 DEF AnswerInv, Settled, Pending
  <1>5. CASE ReadFd(th) /\ s_fdCommand # NoFd /\ TooLarge(msg[th])
    <2>1. th = Dispatch /\ Answering
      BY <1>5 DEF TooLarge, MsgInv, Threads, Answering
    <2>2. /\ Serving /\ msg[Dispatch].r = handling.r /\ handling.r \in DOMAIN received
          /\ oversized' = oversized \cup {handling.r} /\ Sent(Dispatch) /\ UNCHANGED out
      BY <1>2, <1>5, <2>1
      DEF ReadFd, MsgInv, ListInv, TodoInv, Serving, NoRequest, Answering
    <2>3. \A r : IsAnswered(r)' <=> IsAnswered(r)
      BY <2>2, OutUnchanged
    <2>4. ~Answering'
      BY <2>2, DispatchIsThread, SentType DEF Sent, Answering, NoMessage, FrameInv, SendTypes
    <2>5. \A r : AnsweredNow(r) <=> r = handling.r
      BY <2>1 DEF AnsweredNow
    <2>6. \A r : ~AnsweredNow(r)'
      BY <2>4 DEF AnsweredNow
    <2> QED  BY <1>1, <1>3, <2>2, <2>3, <2>5, <2>6 DEF AnswerInv, Settled, Pending
  <1>6. CASE /\ ~(WriteBody(th) /\ th = Dispatch /\ Answering)
             /\ ~(ReadFd(th) /\ s_fdCommand # NoFd /\ TooLarge(msg[th]))
    <2>1. \A r : IsAnswered(r)' <=> IsAnswered(r)
      <3>1. CASE WriteHeader(th)
        BY <3>1, WriteAnswers DEF WriteHeader, Writing
      <3>2. CASE WriteBody(th)
        <4>1. msg[th].type # "answer"
          BY <1>6, <3>2 DEF MsgInv, Answering, Threads
        <4> QED  BY <3>2, <4>1, WriteAnswers DEF WriteBody, Writing
      <3>3. CASE ~WriteHeader(th) /\ ~WriteBody(th)
        <4>1. UNCHANGED out
          BY <3>3 DEF SendStep, Compose, ReadFd, Lock, WriteFails
        <4> QED  BY <4>1, OutUnchanged
      <3> QED  BY <3>1, <3>2, <3>3
    <2>2. UNCHANGED <<msg[Dispatch], handling>> \/ (~Answering /\ ~Answering')
      <3>1. CASE th # Dispatch
        BY <1>1, <3>1, DispatchIsThread
        DEF SendStep, Compose, ReadFd, Lock, WriteHeader, WriteBody, WriteFails, Send, Sent,
            sendVars, FrameInv, SendTypes
      <3>2. CASE Compose(Dispatch)
        <4>1. msg[Dispatch] = NoMessage /\ msg'[Dispatch].type = "state"
          BY <3>2, DispatchIsThread DEF Compose, Send, MsgInv, FrameInv, SendTypes
        <4> QED  BY <4>1 DEF Answering, NoMessage
      <3>3. CASE ReadFd(Dispatch) /\ th = Dispatch
        <4>1. Answering => s_fdCommand # NoFd
          BY DEF MsgInv, ServedInv
        <4>2. msg'[Dispatch] = msg[Dispatch] \/ (~Answering /\ msg'[Dispatch] = NoMessage)
          <5>1. CASE s_fdCommand = NoFd
            BY <3>3, <4>1, <5>1, DispatchIsThread DEF ReadFd, Sent, FrameInv, SendTypes
          <5>2. CASE s_fdCommand # NoFd /\ ~TooLarge(msg[Dispatch])
            BY <3>3, <5>2 DEF ReadFd
          <5>3. CASE s_fdCommand # NoFd /\ TooLarge(msg[Dispatch])
            BY <1>6, <3>3, <5>3
          <5> QED  BY <5>1, <5>2, <5>3
        <4> QED  BY <1>1, <4>2 DEF Answering, NoMessage
      <3>4. CASE WriteBody(Dispatch) /\ ~Answering
        <4>1. msg'[Dispatch] = NoMessage
          BY <3>4, DispatchIsThread DEF WriteBody, Sent, FrameInv, SendTypes
        <4> QED  BY <3>4, <4>1 DEF Answering, NoMessage
      <3>5. CASE Lock(Dispatch) \/ WriteHeader(Dispatch) \/ WriteFails(Dispatch)
        BY <1>1, <3>5 DEF Lock, WriteHeader, WriteFails, sendVars
      <3> QED  BY <1>6, <3>1, <3>2, <3>3, <3>4, <3>5 DEF SendStep
    <2>3. \A r : AnsweredNow(r)' <=> AnsweredNow(r)
      BY <2>2, MsgUnchanged
    <2>4. UNCHANGED oversized
      BY <1>6 DEF SendStep, Compose, ReadFd, Lock, WriteHeader, WriteBody, WriteFails
    <2> QED  BY <1>1, <1>2, <1>3, <2>1, <2>3, <2>4, AnswersKept
  <1> QED  BY <1>4, <1>5, <1>6

\* Sequences of requests: without two of a request, without the i-th, and with
\* another one before them.
Distinct(s) == \A k, l \in DOMAIN s : s[k].r = s[l].r => k = l
Shortened(t, s, i) ==
    /\ t \in [1 .. Len(s) - 1 -> Requested]
    /\ \A j \in 1 .. Len(s) - 1 : t[j] = s[IF j < i THEN j ELSE j + 1]
Remaining(t, s, i) ==
    /\ t \in Seq(Requested) /\ Distinct(t)
    /\ \A j \in DOMAIN t : \E k \in DOMAIN s : k # i /\ t[j] = s[k]
    /\ \A k \in DOMAIN s : k # i => \E j \in DOMAIN t : t[j] = s[k]
Extended(t, s, e) ==
    /\ t \in Seq(Requested) /\ Distinct(t)
    /\ \A j \in DOMAIN t : t[j] = e \/ \E k \in DOMAIN s : t[j] = s[k]
    /\ \A k \in DOMAIN s : \E j \in DOMAIN t : t[j] = s[k]
    /\ \E j \in DOMAIN t : t[j] = e

LEMMA TakenOut ==
    ASSUME NEW s \in Seq(Requested), Distinct(s), NEW i \in DOMAIN s, NEW t,
           Shortened(t, s, i)
    PROVE  Remaining(t, s, i)
  <1>1. Len(s) \in Nat \ {0} /\ i \in 1 .. Len(s) /\ DOMAIN s = 1 .. Len(s)
    OBVIOUS
  <1>2. DOMAIN t = 1 .. Len(s) - 1
    BY <1>1 DEF Shortened
  <1> DEFINE At(j) == IF j < i THEN j ELSE j + 1
  <1>3. \A j \in DOMAIN t : At(j) \in DOMAIN s /\ At(j) # i /\ t[j] = s[At(j)]
    BY <1>1, <1>2 DEF Shortened
  <1>4. \A j, l \in DOMAIN t : At(j) = At(l) => j = l
    BY <1>1, <1>2
  <1>5. t \in Seq(Requested)
    BY <1>1 DEF Shortened
  <1>6. ASSUME NEW k \in DOMAIN s, k # i PROVE \E j \in DOMAIN t : t[j] = s[k]
    <2>1. CASE k < i
      <3>1. k \in DOMAIN t /\ t[k] = s[k]
        BY <1>1, <1>2, <2>1 DEF Shortened
      <3> QED  BY <3>1
    <2>2. CASE k > i
      <3>1. k - 1 \in DOMAIN t /\ t[k - 1] = s[k]
        BY <1>1, <1>2, <2>2 DEF Shortened
      <3> QED  BY <3>1
    <2> QED  BY <1>1, <1>6, <2>1, <2>2
  <1> HIDE DEF At
  <1>7. \A j \in DOMAIN t : \E k \in DOMAIN s : k # i /\ t[j] = s[k]
    BY <1>3
  <1>8. Distinct(t)
    BY <1>3, <1>4 DEF Distinct
  <1> QED  BY <1>5, <1>6, <1>7, <1>8 DEF Remaining

LEMMA Prepended ==
    ASSUME NEW s \in Seq(Requested), Distinct(s), NEW e \in Requested,
           \A k \in DOMAIN s : s[k].r # e.r, NEW t, t = <<e>> \o s
    PROVE  Extended(t, s, e)
  <1>1. Len(s) \in Nat /\ DOMAIN s = 1 .. Len(s) /\ t \in Seq(Requested)
    OBVIOUS
  <1>2. DOMAIN t = 1 .. Len(s) + 1 /\ t[1] = e
    BY <1>1
  <1>3. \A j \in DOMAIN t : j # 1 => j - 1 \in DOMAIN s /\ t[j] = s[j - 1]
    BY <1>1, <1>2
  <1>4. \A k \in DOMAIN s : k + 1 \in DOMAIN t /\ t[k + 1] = s[k]
    BY <1>1, <1>2
  <1>5. ASSUME NEW k \in DOMAIN t, NEW l \in DOMAIN t, t[k].r = t[l].r PROVE k = l
    <2>1. CASE k = 1 \/ l = 1
      BY <1>2, <1>3, <1>5, <2>1
    <2>2. CASE k # 1 /\ l # 1
      <3>1. k - 1 = l - 1
        BY <1>3, <1>5, <2>2 DEF Distinct
      <3> QED  BY <1>1, <1>2, <3>1
    <2> QED  BY <2>1, <2>2
  <1>6. 1 \in DOMAIN t
    BY <1>1, <1>2
  <1> QED  BY <1>1, <1>2, <1>3, <1>4, <1>5, <1>6 DEF Extended, Distinct

\* A completion takes its request out of the list and answers it: the list has
\* it once, and a request that is cancelled is not being served.
LEMMA OnRequestCompleteRequests ==
    ASSUME ServeInv, OnRequestComplete PROVE RequestInv'
  <1> USE DEF ServeInv, RequestInv, ThreadInv
  <1>1. /\ UNCHANGED <<received, oversized, conn, files, s_fdCommand, handling, out>>
        /\ Doing(Dispatch, "complete")
    BY DEF OnRequestComplete, fileVars
  <1>2. /\ received \in Seq(Clients) /\ Serving /\ ~Forgetting /\ ~Forgetting' /\ ~Answering
        /\ handling.r \in DOMAIN received /\ handling.r \in Nat \ {0}
    <2>1. received \in Seq(Clients) /\ Serving /\ ~Forgetting /\ ~Forgetting' /\ ~Answering
      BY <1>1, DoingWhat, ServeTodo, OnRequestCompleteMsg DEF ServedInv
    <2> QED  BY <2>1 DEF ListInv, TodoInv, Serving, NoRequest
  <1>3. \A r : IsAnswered(r)' <=> IsAnswered(r)
    BY <1>1, OutUnchanged
  <1>4. CASE Pending(handling.r) = {} /\ UNCHANGED <<s_pendingRequests, pc, msg>>
    <2>1. ListInv'
      BY <1>1, <1>2, <1>4, ListKept DEF Client, Serving
    <2>2. AnswerInv'
      BY <1>1, <1>2, <1>3, <1>4, AnswersKept, MsgUnchanged
    <2> QED  BY <2>1, <2>2
  <1>5. ASSUME NEW i \in Pending(handling.r), Dequeue(i),
               IF s_pendingRequests[i].cancelled THEN UNCHANGED <<pc, msg>>
               ELSE Send(Dispatch, Answer)
        PROVE  RequestInv'
    <2>1. i \in DOMAIN s_pendingRequests /\ s_pendingRequests[i].r = handling.r
      BY DEF Pending
    <2>2. s_pendingRequests \in Seq(Requested)
      BY DEF ListInv
    <2>3. s_fdCommand # NoFd /\ Client \in Clients /\ conn[Client] # "closed"
          /\ received[handling.r] = Client
      <3>1. s_fdCommand \in Fds /\ s_fdCommand # NoFd
        BY <1>2 DEF ServedInv, FrameInv, SendTypes
      <3> QED  BY <1>2, <3>1 DEF ListInv, ServedInv, FrameInv, Connected, Client
    <2>4. ~s_pendingRequests[i].cancelled
      BY <1>2, <2>1, <2>3 DEF ListInv
    <2>5. Send(Dispatch, Answer) /\ Answer.type = "answer"
      BY <1>5, <2>4, AnswerTypes DEF FrameInv
    <2>6. \A r : AnsweredNow(r)' <=> r = handling.r
      BY <1>1, <2>5, DispatchIsThread DEF Send, AnsweredNow, Answering, FrameInv, SendTypes
    <2>7. Remaining(s_pendingRequests', s_pendingRequests, i)
      <3>1. Distinct(s_pendingRequests)
        BY DEF ListInv, Distinct
      <3>2. Shortened(s_pendingRequests', s_pendingRequests, i)
        BY <1>5, <2>1, <2>2 DEF Dequeue, Shortened
      <3>3. PICK s, t : s = s_pendingRequests /\ t = s_pendingRequests'
        OBVIOUS
      <3>4. s \in Seq(Requested) /\ i \in DOMAIN s /\ Distinct(s) /\ Shortened(t, s, i)
        BY <2>1, <2>2, <3>1, <3>2, <3>3
      <3>5. Remaining(t, s, i)
        BY <3>4, TakenOut
      <3> QED  BY <3>3, <3>5
    <2>8. ListInv'
      <3>1. ASSUME NEW j \in DOMAIN s_pendingRequests'
            PROVE  /\ s_pendingRequests'[j].r \in DOMAIN received
                   /\ IF s_pendingRequests'[j].cancelled
                      THEN conn[received[s_pendingRequests'[j].r]] = "closed"
                      ELSE s_fdCommand # NoFd /\ received[s_pendingRequests'[j].r] = Client
        <4>1. PICK k \in DOMAIN s_pendingRequests :
                  s_pendingRequests'[j] = s_pendingRequests[k]
          BY <2>7 DEF Remaining
        <4> QED  BY <1>2, <4>1 DEF ListInv
      <3>2. Client' = Client
        BY <1>1 DEF Client
      <3> QED  BY <1>1, <1>2, <2>7, <3>1, <3>2 DEF ListInv, Serving, Remaining, Distinct
    <2>9. /\ Pending(handling.r)' = {}
          /\ \A r : r # handling.r => (Pending(r)' = {} <=> Pending(r) = {})
      <3>1. \A k \in DOMAIN s_pendingRequests : k # i => s_pendingRequests[k].r # handling.r
        BY <2>1 DEF ListInv
      <3>2. Pending(handling.r)' = {}
        BY <1>1, <2>7, <3>1 DEF Pending, Remaining
      <3>3. ASSUME NEW r, r # handling.r PROVE Pending(r)' = {} <=> Pending(r) = {}
        BY <2>1, <2>7, <3>3 DEF Pending, Remaining
      <3> QED  BY <3>2, <3>3
    <2>10. ~Settled(handling.r)
      BY <1>2, <1>5 DEF AnswerInv
    <2>11. \A r : ~AnsweredNow(r)
      BY <1>2 DEF AnsweredNow
    <2>12. AnswerInv'
      BY <1>1, <1>2, <1>3, <2>6, <2>9, <2>10, <2>11 DEF AnswerInv, Settled
    <2> QED  BY <2>8, <2>12
  <1> QED  BY <1>4, <1>5 DEF OnRequestComplete

\* A new request is pending, and is the last one received.
LEMMA ReceiveRequests ==
    ASSUME ServeInv, NEW kind \in Kinds, Receive(kind) PROVE RequestInv'
  <1> USE DEF ServeInv, RequestInv, ThreadInv
  <1> PICK n : n = Len(received) + 1
    OBVIOUS
  <1>1. /\ received' = Append(received, Client) /\ handling' = [r |-> n, kind |-> kind]
        /\ s_pendingRequests' = <<[r |-> n, cancelled |-> FALSE]>> \o s_pendingRequests
        /\ s_fdCommand # NoFd /\ UNCHANGED <<oversized, s_fdCommand, files, conn, out, msg, pc>>
    BY DEF Receive, sendVars, fileVars
  <1>2. /\ received \in Seq(Clients) /\ s_pendingRequests \in Seq(Requested)
    BY DEF ServedInv, ListInv
  <1>3. PICK tasks \in {<<Task("gate")>>, << >>} : Begin(Dispatch, tasks)
    BY DEF Receive
  <1>4. ~Serving /\ ~Forgetting /\ pc[Dispatch] = "run" /\ todo'[Dispatch] = tasks
    BY <1>3, DispatchBeginsTodo
  <1>5. ~Forgetting' /\ ~Answering /\ ~Answering'
    <2>1. ~Forgetting'
      BY <1>4, TaskTypes, TaskSeqs DEF Forgetting
    <2>2. msg[Dispatch] = NoMessage
      BY <1>4, DispatchIsThread DEF MsgInv
    <2> QED  BY <1>1, <2>1, <2>2 DEF Answering, NoMessage
  <1>6. Client \in Clients /\ Client' = Client
    BY <1>1, <1>4 DEF ServedInv, Client
  <1>7. /\ n \in Nat /\ DOMAIN received' = DOMAIN received \cup {n} /\ n \notin DOMAIN received
        /\ \A r \in DOMAIN received : r \in Nat /\ received'[r] = received[r]
        /\ received'[n] = Client /\ Len(received') = n
    <2> HIDE DEF Client
    <2> QED  BY <1>1, <1>2, <1>6, AppendTo
  <1>8. \A i \in DOMAIN s_pendingRequests : s_pendingRequests[i].r \in DOMAIN received
    BY DEF ListInv
  <1> DEFINE new == [r |-> n, cancelled |-> FALSE]
  <1>9. Extended(s_pendingRequests', s_pendingRequests, new)
    <2>1. PICK s, t, e : s = s_pendingRequests /\ t = s_pendingRequests' /\ e = new
      OBVIOUS
    <2>2. Distinct(s) /\ \A k \in DOMAIN s : s[k].r # e.r
      BY <1>7, <1>8, <2>1 DEF ListInv, Distinct
    <2>3. t = <<e>> \o s /\ s \in Seq(Requested) /\ e \in Requested
      BY <1>1, <1>2, <1>7, <2>1 DEF Requested
    <2> HIDE <2>1 DEF new
    <2>4. Extended(t, s, e)
      BY <2>2, <2>3, Prepended
    <2> QED  BY <2>1, <2>4
  <1>10. ListInv'
    <2>1. ASSUME NEW i \in DOMAIN s_pendingRequests'
          PROVE  /\ s_pendingRequests'[i].r \in DOMAIN received'
                 /\ IF s_pendingRequests'[i].cancelled
                    THEN conn[received'[s_pendingRequests'[i].r]] = "closed"
                    ELSE received'[s_pendingRequests'[i].r] = Client
      <3>1. CASE s_pendingRequests'[i] = [r |-> n, cancelled |-> FALSE]
        BY <1>7, <3>1
      <3>2. CASE s_pendingRequests'[i] # [r |-> n, cancelled |-> FALSE]
        <4>1. PICK k \in DOMAIN s_pendingRequests :
                  s_pendingRequests'[i] = s_pendingRequests[k]
          BY <1>9, <3>2 DEF Extended
        <4> QED  BY <1>4, <1>7, <4>1 DEF ListInv
      <3> QED  BY <3>1, <3>2
    <2>2. handling'.r = n
      BY <1>1
    <2> QED  BY <1>1, <1>5, <1>6, <1>7, <1>9, <2>1, <2>2 DEF ListInv, Extended, Distinct
  <1>11. /\ Pending(n)' # {}
         /\ \A r : r # n => (Pending(r)' = {} <=> Pending(r) = {})
    <2>1. [r |-> n, cancelled |-> FALSE].r = n
      OBVIOUS
    <2>2. Pending(n)' # {}
      BY <1>9, <2>1 DEF Pending, Extended
    <2>3. ASSUME NEW r, r # n PROVE Pending(r)' = {} <=> Pending(r) = {}
      BY <1>9, <2>1, <2>3 DEF Pending, Extended
    <2> QED  BY <2>2, <2>3
  <1>12. \A r : (IsAnswered(r)' <=> IsAnswered(r)) /\ ~AnsweredNow(r) /\ ~AnsweredNow(r)'
    BY <1>1, <1>5, OutUnchanged DEF AnsweredNow
  <1>13. AnswerInv'
    BY <1>1, <1>7, <1>11, <1>12 DEF AnswerInv, Settled
  <1> QED  BY <1>10, <1>13


\* The client that is let go is the one that made what is not yet cancelled.
LEMMA CloseCommandRequests ==
    ASSUME ServeInv, CloseCommand PROVE RequestInv'
  <1> USE DEF ServeInv, RequestInv, ThreadInv
  <1>1. /\ Client \in Clients /\ conn' = [conn EXCEPT ![Client] = "closed"]
        /\ UNCHANGED <<s_pendingRequests, received, oversized, handling, msg, out>>
        /\ todo'[Dispatch] = <<Task("forget")>> /\ ~Serving /\ ~Forgetting
        /\ received \in Seq(Clients)
    BY DispatchBeginsTodo DEF CloseCommand, sendVars, ServedInv
  <1>2. PICK c \in Clients : c = Client
    BY <1>1
  <1>3. conn'[c] = "closed" /\ \A d \in Clients : conn[d] = "closed" => conn'[d] = "closed"
    BY <1>1, <1>2 DEF FrameInv, SendTypes
  <1>4. Forgetting' /\ ~Serving'
    BY <1>1 DEF Forgetting, Serving
  <1>5. ListInv'
    <2>1. ASSUME NEW i \in DOMAIN s_pendingRequests
          PROVE  conn'[received[s_pendingRequests[i].r]] = "closed"
      <3>1. received[s_pendingRequests[i].r] \in Clients
        BY <1>1 DEF ListInv
      <3> QED  BY <1>1, <1>2, <1>3, <3>1 DEF ListInv
    <2> QED  BY <1>1, <1>4, <2>1 DEF ListInv
  <1>6. AnswerInv'
    BY <1>1, OutUnchanged, MsgUnchanged, AnswersKept
  <1> QED  BY <1>5, <1>6

\* onCommandsSocketClosed leaves nothing that is not cancelled.
LEMMA ForgetCommandRequests ==
    ASSUME ServeInv, ForgetCommand PROVE RequestInv'
  <1> USE DEF ServeInv, RequestInv, ThreadInv
  <1>1. /\ UNCHANGED <<received, oversized, conn, handling, msg, out>>
        /\ s_pendingRequests' = [i \in DOMAIN s_pendingRequests |->
                                    [s_pendingRequests[i] EXCEPT !.cancelled = TRUE]]
        /\ Forgetting /\ ~Serving'
        /\ s_pendingRequests \in Seq(Requested)
    BY OtherTodo, DoingWhat DEF ForgetCommand, sendVars, fileVars, ListInv
  <1>2. /\ DOMAIN s_pendingRequests' = DOMAIN s_pendingRequests
        /\ s_pendingRequests' \in Seq(Requested)
        /\ \A i \in DOMAIN s_pendingRequests :
              s_pendingRequests'[i].r = s_pendingRequests[i].r /\ s_pendingRequests'[i].cancelled
    <2>1. /\ DOMAIN s_pendingRequests' = DOMAIN s_pendingRequests
          /\ Len(s_pendingRequests) \in Nat
          /\ DOMAIN s_pendingRequests = 1 .. Len(s_pendingRequests)
      BY <1>1
    <2>2. ASSUME NEW i \in DOMAIN s_pendingRequests
          PROVE  /\ s_pendingRequests'[i] \in Requested
                 /\ s_pendingRequests'[i].r = s_pendingRequests[i].r
                 /\ s_pendingRequests'[i].cancelled
      <3>1. s_pendingRequests[i] \in [r : Nat, cancelled : BOOLEAN]
        <4>1. s_pendingRequests[i] \in Requested
          BY <1>1, <2>1
        <4> QED  BY <4>1 DEF Requested
      <3>2. s_pendingRequests'[i] = [s_pendingRequests[i] EXCEPT !.cancelled = TRUE]
        BY <1>1
      <3> QED  BY <3>1, <3>2 DEF Requested
    <2>3. s_pendingRequests' \in Seq(Requested)
      <3>1. s_pendingRequests' \in [1 .. Len(s_pendingRequests) -> Requested]
        <4> HIDE DEF Requested
        <4> QED  BY <1>1, <2>1, <2>2
      <3> HIDE DEF Requested
      <3> QED  BY <2>1, <3>1
    <2> QED  BY <2>1, <2>2, <2>3
  <1>3. ListInv'
    BY <1>1, <1>2 DEF ListInv
  <1>4. \A r : Pending(r)' = {} <=> Pending(r) = {}
    BY <1>2 DEF Pending
  <1>5. AnswerInv'
    <2>1. \A r : (IsAnswered(r)' <=> IsAnswered(r)) /\ (AnsweredNow(r)' <=> AnsweredNow(r))
      BY <1>1, OutUnchanged, MsgUnchanged
    <2> QED  BY <1>1, <1>4, <2>1 DEF AnswerInv, Settled
  <1> QED  BY <1>3, <1>5

\* When a client is accepted the requests that are pending are those of clients
\* that were let go.
LEMMA AcceptRequests ==
    ASSUME ServeInv, NEW c \in Clients, Accept(c) PROVE RequestInv'
  <1> USE DEF ServeInv, RequestInv, ThreadInv
  <1>1. /\ s_fdCommand = NoFd /\ conn[c] = "none" /\ conn' = [conn EXCEPT ![c] = "open"]
        /\ UNCHANGED <<s_pendingRequests, received, oversized, handling, msg, out>>
        /\ todo'[Dispatch] = <<Task("notify")>> /\ ~Serving /\ ~Forgetting
        /\ received \in Seq(Clients)
    BY DispatchBeginsTodo DEF Accept, sendVars, ServedInv
  <1>2. \A d \in Clients : conn[d] = "closed" => conn'[d] = "closed"
    BY <1>1 DEF FrameInv, SendTypes
  <1>3. ~Forgetting' /\ ~Serving'
    BY <1>1 DEF Forgetting, Serving, Task
  <1>4. ListInv'
    <2>1. ASSUME NEW i \in DOMAIN s_pendingRequests
          PROVE  /\ s_pendingRequests[i].cancelled
                 /\ conn'[received[s_pendingRequests[i].r]] = "closed"
      <3>1. received[s_pendingRequests[i].r] \in Clients
        BY <1>1 DEF ListInv
      <3> QED  BY <1>1, <1>2, <3>1 DEF ListInv
    <2> QED  BY <1>1, <1>3, <2>1 DEF ListInv
  <1>5. AnswerInv'
    BY <1>1, OutUnchanged, MsgUnchanged, AnswersKept
  <1> QED  BY <1>4, <1>5

\* The steps that no request takes part in.
LEMMA TasksRequests ==
    ASSUME ServeInv,
           \/ \E th \in Threads : setRadioState(th)
           \/ Notify \/ Gate \/ Handle \/ Return \/ TimedCallback
    PROVE  RequestInv'
  <1> USE DEF ServeInv, RequestInv, ThreadInv
  <1>1. /\ UNCHANGED <<s_pendingRequests, received, oversized, conn, files, s_fdCommand, msg, out>>
        /\ received \in Seq(Clients)
    BY DEF setRadioState, Notify, Gate, Handle, Return, TimedCallback, fileVars, sendVars,
           ServedInv
  <1>2. /\ handling' = handling \/ (~Serving' /\ ~Answering /\ ~Answering')
        /\ Forgetting' <=> Forgetting
    <2>1. CASE \E th \in Threads : setRadioState(th)
      BY <2>1, SetRadioStateTodo
    <2>2. CASE Notify
      BY <2>2, OtherTodo, DoingWhat DEF Notify
    <2>3. CASE Gate \/ Handle
      BY <2>3, ServeTodo
    <2>4. CASE Return
      <3>1. UNCHANGED todo /\ handling' = NoRequest /\ msg[Dispatch] = NoMessage
        BY <2>4, DispatchIsThread DEF Return, MsgInv
      <3> QED  BY <1>1, <3>1 DEF Forgetting, Serving, Answering, NoMessage
    <2>5. CASE TimedCallback
      <3>1. PICK state : Begin(Dispatch, <<Set(state)>>)
        BY <2>5 DEF TimedCallback
      <3>2. todo'[Dispatch] = <<Set(state)>> /\ ~Forgetting
        BY <3>1, DispatchBeginsTodo
      <3>3. UNCHANGED handling
        BY <2>5 DEF TimedCallback
      <3> QED  BY <3>2, <3>3 DEF Forgetting, Set, Task
    <2> QED  BY <2>1, <2>2, <2>3, <2>4, <2>5
  <1>3. ListInv'
    BY <1>1, <1>2, ListKept DEF Client, Serving
  <1>4. AnswerInv'
    BY <1>1, <1>2, OutUnchanged, MsgUnchanged, AnswersKept
  <1> QED  BY <1>3, <1>4

LEMMA NotifierRequests ==
    ASSUME ServeInv, NEW th \in Notifiers, NotifierBegins(th) PROVE RequestInv'
  <1> USE DEF ServeInv, RequestInv, ThreadInv
  <1>1. /\ UNCHANGED <<s_pendingRequests, received, oversized, conn, s_fdCommand, out, handling>>
        /\ todo'[Dispatch] = todo[Dispatch] /\ received \in Seq(Clients)
    BY NotifierBeginsTodo
    DEF NotifierBegins, ChangeState, TellEvent, OpenDevice, CloseDevice, fileVars, ServedInv
  <1>2. UNCHANGED msg[Dispatch]
    BY NotifiersAssumption, DispatchIsThread
    DEF NotifierBegins, ChangeState, TellEvent, OpenDevice, CloseDevice, sendVars, Send,
        FrameInv, SendTypes
  <1>3. s_fdCommand # NoFd /\ ~Forgetting => Client' = Client
    <2>1. CASE OpenDevice(th) \/ CloseDevice(th)
      BY <1>1, <2>1, DeviceServed DEF ServedInv, Client, FrameInv, SendTypes
    <2>2. CASE ChangeState(th) \/ TellEvent(th)
      BY <1>1, <2>2 DEF ChangeState, TellEvent, fileVars, Client
    <2> QED  BY <2>1, <2>2 DEF NotifierBegins
  <1>4. (Forgetting' <=> Forgetting) /\ (Serving' <=> Serving)
    BY <1>1 DEF Forgetting, Serving
  <1>5. Serving => s_fdCommand # NoFd /\ ~Forgetting
    BY DoingWhat DEF ServedInv
  <1>6. ListInv'
    BY <1>1, <1>3, <1>4, <1>5, ListKept
  <1>7. AnswerInv'
    BY <1>1, <1>2, OutUnchanged, MsgUnchanged, AnswersKept
  <1> QED  BY <1>6, <1>7

LEMMA HangUpRequests ==
    ASSUME ServeInv, NEW c \in Clients, HangUp(c) PROVE RequestInv'
  <1> USE DEF ServeInv, RequestInv, ThreadInv
  <1>1. /\ UNCHANGED <<s_pendingRequests, received, oversized, s_fdCommand, files, out, handling, todo, msg>>
        /\ conn[c] = "open" /\ conn' = [conn EXCEPT ![c] = "hungup"]
        /\ received \in Seq(Clients)
    BY DEF HangUp, sendVars, ServedInv
  <1>2. \A d \in Clients : conn[d] = "closed" => conn'[d] = "closed"
    BY <1>1 DEF FrameInv, SendTypes
  <1>3. ListInv'
    BY <1>1, <1>2, ListKept DEF Client, Forgetting, Serving
  <1>4. AnswerInv'
    BY <1>1, OutUnchanged, MsgUnchanged, AnswersKept
  <1> QED  BY <1>3, <1>4

LEMMA InitRequests == Init => RequestInv
  <1> SUFFICES ASSUME Init PROVE RequestInv
    OBVIOUS
  <1>1. /\ s_pendingRequests = << >> /\ received = << >> /\ oversized = {} /\ ~Serving
        /\ \A c \in Clients : out[c] = << >>
    BY DEF Init, Serving
  <1>2. << >> \in Seq(Requested) /\ DOMAIN << >> = {}
    OBVIOUS
  <1>3. \A r : ~IsAnswered(r)
    BY <1>1, <1>2 DEF IsAnswered, AnsweredTo
  <1>4. \A r : ~AnsweredNow(r)
    BY DispatchIsThread DEF Init, AnsweredNow, Answering, NoMessage
  <1> QED  BY <1>1, <1>2, <1>3, <1>4 DEF RequestInv, ListInv, AnswerInv, Settled

LEMMA NextServes == ServeInv /\ [Next]_vars => ServeInv'
  <1> SUFFICES ASSUME ServeInv, [Next]_vars PROVE ServeInv'
    OBVIOUS
  <1>1. ThreadInv'
    BY NextThreads DEF ServeInv
  <1>2. ASSUME NEW th \in Threads, SendStep(th) \/ setRadioState(th) PROVE RequestInv'
    BY <1>2, SendStepRequests, TasksRequests
  <1>3. CASE DispatchStep
    BY <1>2, <1>3, TasksRequests, OnRequestCompleteRequests, ForgetCommandRequests,
       DispatchIsThread, <1>1 DEF DispatchStep, ServeInv
  <1>4. CASE DispatchBegins
    BY <1>1, <1>4, AcceptRequests, ReceiveRequests, CloseCommandRequests, TasksRequests
    DEF DispatchBegins, ServeInv
  <1>5. ASSUME NEW th \in Notifiers, NotifierStep(th) \/ NotifierBegins(th) PROVE RequestInv'
    BY <1>2, <1>5, NotifierRequests, DispatchIsThread DEF NotifierStep
  <1>6. ASSUME NEW c \in Clients, HangUp(c) PROVE RequestInv'
    BY <1>6, HangUpRequests
  <1>7. CASE UNCHANGED vars
    <2>1. UNCHANGED <<s_pendingRequests, received, oversized, conn, files, s_fdCommand, msg, out,
                      handling, todo>>
      BY <1>7 DEF vars, sendVars, fileVars
    <2>2. ListInv'
      BY <2>1, ListKept DEF Client, Forgetting, Serving, ServeInv, RequestInv, ThreadInv,
                            ServedInv
    <2>3. AnswerInv'
      BY <2>1, OutUnchanged, MsgUnchanged, AnswersKept
      DEF ServeInv, RequestInv, ThreadInv, ServedInv
    <2> QED  BY <1>1, <2>2, <2>3 DEF RequestInv, ServeInv
  <1> QED  BY <1>1, <1>3, <1>4, <1>5, <1>6, <1>7 DEF Next, ServeInv

LEMMA ServeInvariant == Spec => []ServeInv
  <1>1. Init => ServeInv
    BY InitThreads, InitRequests DEF ServeInv
  <1> QED  BY <1>1, NextServes, PTL DEF Spec

\* Every request received is pending, or answered, or its answer was dropped
\* for its size, and one of these only, when the dispatch thread is back in its
\* event loop; those pending are cancelled exactly when their client has been
\* let go (tgm.cpp:1139-1146, 1234-1259, 1296-1301).
THEOREM RequestsAccounted == Spec => []PendingAccounted
  <1>1. ServeInv => PendingAccounted
    <2> SUFFICES ASSUME ServeInv, Idle(Dispatch) PROVE PendingAccounted
      BY DEF PendingAccounted
    <2> USE DEF ServeInv, ThreadInv, RequestInv
    <2>1. ~Answering /\ ~Forgetting
      <3>1. msg[Dispatch] = NoMessage
        BY DispatchIsThread DEF Idle, MsgInv
      <3> QED  BY <3>1, DoingWhat DEF Answering, NoMessage
    <2>2. \A r \in DOMAIN received :
              /\ Pending(r) = {} <=> IsAnswered(r) \/ r \in oversized
              /\ ~(IsAnswered(r) /\ r \in oversized)
      <3>1. \A r \in DOMAIN received : r \in Nat
        BY DEF ServedInv
      <3> QED  BY <2>1, <3>1 DEF AnswerInv, Settled, AnsweredNow
    <2>3. ASSUME NEW i \in DOMAIN s_pendingRequests
          PROVE  s_pendingRequests[i].cancelled <=>
                     conn[received[s_pendingRequests[i].r]] = "closed"
      <3>1. s_pendingRequests[i].cancelled \in BOOLEAN
        <4>1. s_pendingRequests[i] \in Requested
          BY DEF ListInv
        <4> QED  BY <4>1 DEF Requested
      <3>2. CASE ~s_pendingRequests[i].cancelled
        <4>1. s_fdCommand \in Fds /\ Client \in Clients
              /\ received[s_pendingRequests[i].r] = Client
          BY <2>1, <3>2 DEF ListInv, ServedInv, FrameInv, SendTypes
        <4> QED  BY <3>2, <4>1 DEF FrameInv, Connected, Client
      <3> QED  BY <3>1, <3>2 DEF ListInv
    <2> QED  BY <2>2, <2>3 DEF PendingAccounted
  <1> QED  BY <1>1, ServeInvariant, PTL

-----------------------------------------------------------------------------
(* The order in which changes of the radio state are told.                  *)

Explicit(m) == m.type = "state" /\ ~m.implicit
TellsChange(frame) == frame.part = "body" /\ Explicit(frame.of)

\* who has a change to tell holds s_state_mutex
MutexInv ==
    /\ s_state_mutex \in Threads \cup {Free}
    /\ s_state_mutex # Free => pc[s_state_mutex] # "run"
    /\ \A th \in Threads : Explicit(msg[th]) => s_state_mutex = th /\ msg[th].v = changes

\* the first change that is yet to be told
Untold == IF s_state_mutex = Free THEN changes + 1 ELSE changes
Ordered(s) ==
    \A i, j \in DOMAIN s :
        i < j /\ TellsChange(s[i]) /\ TellsChange(s[j]) => s[i].of.v < s[j].of.v
Before(s, v) == \A i \in DOMAIN s : TellsChange(s[i]) => s[i].of.v < v

\* what a client was told before is older than what it will be told
OrderInv == MutexInv /\ \A c \in Clients : Ordered(out[c]) /\ Before(out[c], Untold)

LEMMA ChangeTypes ==
    ASSUME NEW frame \in Frames, TellsChange(frame) PROVE frame.of.v \in Nat
  <1>1. frame.of \in AnyMessage /\ frame.of.type = "state"
    BY DEF Frames, TellsChange, Explicit
  <1> QED  BY <1>1 DEF AnyMessage, NoMessage

LEMMA BeforeMore ==
    ASSUME NEW s \in Seq(Frames), NEW v \in Nat, NEW w \in Nat, v <= w, Before(s, v)
    PROVE  Before(s, w)
  <1>1. ASSUME NEW i \in DOMAIN s, TellsChange(s[i]) PROVE s[i].of.v < w
    <2>1. s[i] \in Frames
      OBVIOUS
    <2>2. s[i].of.v \in Nat /\ s[i].of.v < v
      BY <1>1, <2>1, ChangeTypes DEF Before
    <2> QED  BY <2>2
  <1> QED  BY <1>1 DEF Before

LEMMA OrderedAppend ==
    ASSUME NEW s \in Seq(Frames), NEW e \in Frames, NEW v \in Nat, NEW w \in Nat, v <= w,
           Ordered(s), Before(s, v), TellsChange(e) => v <= e.of.v /\ e.of.v < w
    PROVE  Ordered(Append(s, e)) /\ Before(Append(s, e), w)
  <1> DEFINE t == Append(s, e)
  <1>1. /\ DOMAIN t = 1 .. Len(s) + 1 /\ DOMAIN s = 1 .. Len(s) /\ Len(s) \in Nat
        /\ \A i \in DOMAIN s : t[i] = s[i] /\ s[i] \in Frames
        /\ t[Len(s) + 1] = e
    <2> HIDE DEF Frames
    <2> QED  BY AppendTo
  <1>2. \A i \in DOMAIN t : i \in DOMAIN s \/ i = Len(s) + 1
    BY <1>1
  <1> HIDE DEF t
  <1>3. ASSUME NEW i \in DOMAIN t, TellsChange(t[i]) PROVE t[i].of.v < w
    <2>1. CASE i \in DOMAIN s
      <3>1. s[i].of.v \in Nat /\ s[i].of.v < v
        BY <1>1, <1>3, <2>1, ChangeTypes DEF Before
      <3> QED  BY <1>1, <2>1, <3>1
    <2> QED  BY <1>1, <1>2, <1>3, <2>1
  <1>4. ASSUME NEW i \in DOMAIN t, NEW j \in DOMAIN t, i < j,
               TellsChange(t[i]), TellsChange(t[j])
        PROVE  t[i].of.v < t[j].of.v
    <2>1. i \in DOMAIN s /\ s[i].of.v \in Nat /\ s[i].of.v < v
      <3>1. i \in DOMAIN s
        BY <1>1, <1>4
      <3> QED  BY <1>1, <1>4, <3>1, ChangeTypes DEF Before
    <2>2. CASE j \in DOMAIN s
      BY <1>1, <1>4, <2>1, <2>2 DEF Ordered
    <2>3. CASE j = Len(s) + 1
      <3>1. e.of.v \in Nat /\ v <= e.of.v
        BY <1>1, <1>4, <2>3, ChangeTypes
      <3> QED  BY <1>1, <2>1, <2>3, <3>1
    <2> QED  BY <1>2, <2>2, <2>3
  <1> QED  BY <1>3, <1>4 DEF Ordered, Before, t

\* Nobody is told anything.
LEMMA OrderKept ==
    ASSUME FrameInv, OrderInv, MutexInv', UNCHANGED out, changes' \in Nat, Untold <= Untold'
    PROVE  OrderInv'
  <1>1. Untold \in Nat /\ Untold' \in Nat
    <2>1. changes \in Nat
      BY DEF FrameInv, SendTypes
    <2>2. Untold \in {changes, changes + 1} /\ Untold' \in {changes', changes' + 1}
      BY DEF Untold
    <2> QED  BY <2>1, <2>2
  <1>2. \A c \in Clients : out[c] \in Seq(Frames)
    BY DEF FrameInv, SendTypes
  <1> QED  BY <1>1, <1>2, BeforeMore DEF OrderInv

LEMMA MutexKept ==
    ASSUME MutexInv, UNCHANGED <<changes, s_state_mutex>>,
           \A th \in Threads : pc'[th] = "run" => pc[th] = "run",
           \A th \in Threads : msg'[th] = msg[th] \/ ~Explicit(msg'[th])
    PROVE  MutexInv' /\ Untold' = Untold
  BY DEF MutexInv, Untold, Explicit

LEMMA SentMutex ==
    ASSUME FrameInv, MutexInv, NEW th \in Threads, Sent(th), UNCHANGED changes
    PROVE  /\ MutexInv' /\ Untold <= Untold' /\ Untold \in Nat /\ Untold' \in Nat
           /\ s_state_mutex = th => Untold = changes /\ Untold' = changes + 1
  <1>1. /\ pc'[th] = "run" /\ msg'[th] = NoMessage
        /\ \A u \in Threads \ {th} : pc'[u] = pc[u] /\ msg'[u] = msg[u]
        /\ s_state_mutex' = IF s_state_mutex = th THEN Free ELSE s_state_mutex
        /\ changes \in Nat
    BY DEF Sent, FrameInv, SendTypes
  <1>2. ~Explicit(NoMessage)
    BY DEF Explicit, NoMessage
  <1>3. MutexInv'
    <2>1. CASE s_state_mutex = th
      <3>1. \A u \in Threads : ~Explicit(msg'[u])
        BY <1>1, <1>2, <2>1 DEF MutexInv
      <3> QED  BY <1>1, <2>1, <3>1 DEF MutexInv, Explicit
    <2>2. CASE s_state_mutex # th
      BY <1>1, <1>2, <2>2 DEF MutexInv, Explicit
    <2> QED  BY <2>1, <2>2
  <1> QED  BY <1>1, <1>3, NotifiersAssumption DEF Untold

\* Who tells a change frees s_state_mutex after it.
LEMMA SendStepOrder ==
    ASSUME FrameInv, MsgInv, OrderInv, NEW th \in Threads, SendStep(th) PROVE OrderInv'
  <1>1. UNCHANGED changes /\ changes \in Nat /\ MutexInv
    BY DEF SendStep, Compose, ReadFd, Lock, WriteHeader, WriteBody, WriteFails, stateVars,
           FrameInv, SendTypes, OrderInv
  <1>2. CASE Compose(th)
    <2>1. /\ msg'[th] = [type |-> "state", v |-> changes, implicit |-> s_state_mutex # th]
          /\ pc'[th] = "fd" /\ UNCHANGED <<s_state_mutex, out>>
          /\ \A u \in Threads \ {th} : pc'[u] = pc[u] /\ msg'[u] = msg[u]
      BY <1>2 DEF Compose, Send, stateVars, FrameInv, SendTypes
    <2>2. MutexInv' /\ Untold' = Untold
      <3>1. msg'[th].v = changes
        BY <2>1
      <3>2. ASSUME s_state_mutex # th PROVE ~Explicit(msg'[th])
        <4>1. (s_state_mutex # th) = TRUE
          BY <3>2
        <4>2. msg'[th] = [type |-> "state", v |-> changes, implicit |-> TRUE]
          BY <2>1, <4>1
        <4> QED  BY <4>2 DEF Explicit
      <3>3. \A u \in Threads : Explicit(msg'[u]) => s_state_mutex = u /\ msg'[u].v = changes
        BY <1>1, <2>1, <3>1, <3>2 DEF MutexInv
      <3>4. s_state_mutex # Free => pc'[s_state_mutex] # "run"
        BY <1>1, <2>1 DEF MutexInv
      <3>5. MutexInv'
        BY <1>1, <2>1, <3>3, <3>4 DEF MutexInv, Explicit
      <3> QED  BY <1>1, <2>1, <3>5 DEF Untold
    <2>3. Untold \in Nat
      BY <1>1 DEF Untold
    <2> QED  BY <1>1, <2>1, <2>2, <2>3, OrderKept
  <1>3. CASE ReadFd(th) /\ Sent(th)
    BY <1>1, <1>3, SentMutex, OrderKept DEF ReadFd
  <1>4. CASE (ReadFd(th) /\ ~Sent(th)) \/ Lock(th) \/ WriteFails(th)
    <2>1. /\ UNCHANGED <<msg, s_state_mutex, out>>
          /\ \A u \in Threads : pc'[u] = "run" => pc[u] = "run"
      BY <1>4 DEF ReadFd, Lock, WriteFails, stateVars, sendVars, FrameInv, SendTypes
    <2>2. MutexInv' /\ Untold' = Untold
      BY <1>1, <2>1, MutexKept
    <2>3. Untold \in Nat
      BY <1>1 DEF Untold
    <2> QED  BY <1>1, <2>1, <2>2, <2>3, OrderKept
  <1>5. ASSUME NEW part \in {"header", "body"}, Write(th, part), pc[th] \in Writing,
               MutexInv', Untold \in Nat, Untold' \in Nat, Untold <= Untold',
               part = "body" /\ s_state_mutex = th => Untold = changes /\ Untold' = changes + 1
        PROVE  OrderInv'
    <2>1. PICK c : c = files[wfd[th]]
      OBVIOUS
    <2>2. PICK frame : frame = [part |-> part, of |-> msg[th]]
      OBVIOUS
    <2>3. frame \in Frames
      BY <2>2 DEF Frames, FrameInv, SendTypes
    <2>4. \/ c = Device /\ out' = out
          \/ /\ c \in Clients /\ out'[c] = Append(out[c], frame)
             /\ \A d \in Clients \ {c} : out'[d] = out[d]
      BY <1>5, <2>1, <2>2, WriteAdds
    <2>5. TellsChange(frame) => Untold <= frame.of.v /\ frame.of.v < Untold'
      BY <1>1, <1>5, <2>2 DEF TellsChange, MutexInv
    <2>6. \A d \in Clients : /\ out[d] \in Seq(Frames) /\ Ordered(out[d])
                             /\ Before(out[d], Untold)
      BY DEF FrameInv, SendTypes, OrderInv
    <2>7. \A d \in Clients : Before(out[d], Untold')
      BY <1>5, <2>6, BeforeMore
    <2>8. CASE c \in Clients
      <3>1. Ordered(Append(out[c], frame)) /\ Before(Append(out[c], frame), Untold')
        <4> HIDE DEF Frames
        <4> QED  BY <1>5, <2>3, <2>5, <2>6, <2>8, OrderedAppend
      <3> QED  BY <1>5, <2>4, <2>6, <2>7, <2>8, <3>1 DEF OrderInv, Clients, Device
    <2> QED  BY <1>5, <2>4, <2>6, <2>7, <2>8 DEF OrderInv
  <1>6. CASE WriteHeader(th)
    <2>1. /\ UNCHANGED <<msg, s_state_mutex>>
          /\ \A u \in Threads : pc'[u] = "run" => pc[u] = "run"
      BY <1>6 DEF WriteHeader, stateVars, FrameInv, SendTypes
    <2>2. MutexInv' /\ Untold' = Untold
      BY <1>1, <2>1, MutexKept
    <2>3. Untold \in Nat
      BY <1>1 DEF Untold
    <2> QED  BY <1>5, <1>6, <2>2, <2>3 DEF WriteHeader, Writing
  <1>7. CASE WriteBody(th)
    BY <1>1, <1>5, <1>7, SentMutex DEF WriteBody, Writing
  <1> QED  BY <1>2, <1>3, <1>4, <1>6, <1>7 DEF SendStep

\* A change is numbered by the thread that holds s_state_mutex.
LEMMA SetRadioStateOrder ==
    ASSUME FrameInv, MsgInv, OrderInv, NEW th \in Threads, setRadioState(th) PROVE OrderInv'
  <1>1. /\ s_state_mutex = Free /\ pc[th] = "run" /\ UNCHANGED <<out, msg>> /\ changes \in Nat
        /\ \/ UNCHANGED <<changes, s_state_mutex, pc>>
           \/ /\ changes' = changes + 1 /\ s_state_mutex' = th /\ pc'[th] = "compose"
    BY DEF setRadioState, Doing, stateVars, FrameInv, SendTypes
  <1>2. \A u \in Threads : ~Explicit(msg[u])
    BY <1>1, NotifiersAssumption DEF OrderInv, MutexInv
  <1>3. MutexInv'
    BY <1>1, <1>2 DEF OrderInv, MutexInv, Explicit
  <1>4. changes' \in Nat /\ Untold <= Untold'
    BY <1>1, NotifiersAssumption DEF Untold
  <1> QED  BY <1>1, <1>3, <1>4, OrderKept

LEMMA OthersOrder ==
    ASSUME FrameInv, TodoInv, MsgInv, OrderInv,
           \/ Notify \/ Gate \/ Handle \/ OnRequestComplete \/ Return \/ ForgetCommand
           \/ DispatchBegins
           \/ \E th \in Notifiers : NotifierBegins(th)
           \/ \E c \in Clients : HangUp(c)
           \/ UNCHANGED vars
    PROVE  OrderInv'
  <1>1. UNCHANGED <<changes, s_state_mutex, out>>
    BY DEF Notify, Gate, Handle, OnRequestComplete, Return, ForgetCommand, DispatchBegins,
           Accept, Receive, CloseCommand, TimedCallback, NotifierBegins, ChangeState, TellEvent,
           OpenDevice, CloseDevice, HangUp, vars, stateVars
  <1>2. /\ \A th \in Threads : pc'[th] = "run" => pc[th] = "run"
        /\ \A th \in Threads : msg'[th] = msg[th] \/ ~Explicit(msg'[th])
    <2>1. CASE OnRequestComplete
      <3>1. Answer.type = "answer"
        BY DEF Answer
      <3>2. CASE Send(Dispatch, Answer)
        BY <3>1, <3>2, DispatchIsThread DEF Send, FrameInv, SendTypes, Explicit
      <3> QED  BY <2>1, <3>2 DEF OnRequestComplete
    <2>2. ASSUME NEW th \in Notifiers, TellEvent(th)
          PROVE  /\ \A u \in Threads : pc'[u] = "run" => pc[u] = "run"
                 /\ \A u \in Threads : msg'[u] = msg[u] \/ ~Explicit(msg'[u])
      BY <2>2, DispatchIsThread DEF TellEvent, Send, FrameInv, SendTypes, Explicit
    <2>3. CASE Notify
      BY <2>3, DispatchIsThread DEF Notify, FrameInv, SendTypes
    <2>4. CASE ~OnRequestComplete /\ ~(\E th \in Notifiers : TellEvent(th)) /\ ~Notify
      <3>1. UNCHANGED <<pc, msg>>
        BY <2>4
        DEF Gate, Handle, Return, ForgetCommand, DispatchBegins,
            Accept, Receive, CloseCommand, TimedCallback, NotifierBegins, ChangeState,
            OpenDevice, CloseDevice, HangUp, vars, sendVars
      <3> QED  BY <3>1
    <2> QED  BY <2>1, <2>2, <2>3, <2>4
  <1>3. MutexInv' /\ Untold' = Untold
    BY <1>1, <1>2, MutexKept DEF OrderInv
  <1>4. changes \in Nat /\ Untold \in Nat
    BY DEF FrameInv, SendTypes, Untold
  <1> QED  BY <1>1, <1>3, <1>4, OrderKept

LEMMA OrderInvariant == Spec => []OrderInv
  <1>1. Init => OrderInv
    <2> SUFFICES ASSUME Init PROVE OrderInv
      OBVIOUS
    <2>1. /\ s_state_mutex = Free
          /\ \A th \in Threads : msg[th] = NoMessage
          /\ \A c \in Clients : out[c] = << >>
      BY DEF Init
    <2>2. DOMAIN << >> = {} /\ ~Explicit(NoMessage)
      BY DEF Explicit, NoMessage
    <2> QED  BY <2>1, <2>2 DEF OrderInv, MutexInv, Ordered, Before
  <1>2. ServeInv /\ OrderInv /\ [Next]_vars => OrderInv'
    BY SendStepOrder, SetRadioStateOrder, OthersOrder, DispatchIsThread
    DEF ServeInv, ThreadInv, Next, DispatchStep, NotifierStep
  <1> QED  BY <1>1, <1>2, ServeInvariant, PTL DEF Spec

\* The changes of the radio state are told in the order in which they happened
\* (huawei-tgm.c:880-917, setRadioState tells them under s_state_mutex).
THEOREM ChangesToldInOrder == Spec => []ChangesInOrder
  <1>1. OrderInv => ChangesInOrder
    BY DEF OrderInv, Ordered, TellsChange, Explicit, ChangesInOrder, Told
  <1> QED  BY <1>1, OrderInvariant, PTL

-----------------------------------------------------------------------------
(* The radio state that a client is told last.                              *)

\* a thread is on its way to tell the client the present state
OnItsWay(th) ==
    \/ pc[th] = "compose"
    \/ /\ msg[th].type = "state" /\ msg[th].v = changes
       /\ pc[th] = "fd" \/ wfd[th] = s_fdCommand
ToldNow(c) ==
    \E i \in Told(c) :
        /\ out[c][i].of.v = changes
        /\ \A j \in Told(c) : j > i => out[c][j].of.implicit
Served == s_fdCommand # NoFd /\ Client \in Clients /\ conn[Client] = "open"
NewestInv ==
    Served => \/ Notifying
              \/ \E th \in Threads : OnItsWay(th)
              \/ ToldNow(Client)

\* Nothing changes for the client, and nobody who was on its way stops.
LEMMA NewestKept ==
    ASSUME NewestInv, UNCHANGED changes,
           Served' => Served /\ Client' = Client,
           Notifying => Notifying',
           \A th \in Threads : OnItsWay(th) => OnItsWay(th)',
           \A c \in Clients : ToldNow(c) => ToldNow(c)'
    PROVE  NewestInv'
  <1> SUFFICES ASSUME Served', ~Notifying', \A th \in Threads : ~OnItsWay(th)'
               PROVE  ToldNow(Client)'
    BY DEF NewestInv
  <1>1. Served /\ Client' = Client /\ ToldNow(Client)
    BY DEF NewestInv
  <1>2. PICK c \in Clients : c = Client /\ ToldNow(c)
    BY <1>1 DEF Served
  <1>3. ToldNow(c)'
    BY <1>2
  <1> QED  BY <1>1, <1>2, <1>3 DEF ToldNow, Told

LEMMA OnItsWayKept ==
    ASSUME UNCHANGED <<changes, s_fdCommand>>, NEW th,
           pc'[th] = pc[th], msg'[th] = msg[th], wfd'[th] = wfd[th], OnItsWay(th)
    PROVE  OnItsWay(th)'
  BY DEF OnItsWay

LEMMA ServedUnchanged ==
    ASSUME UNCHANGED <<files, conn, s_fdCommand>>
    PROVE  (Served' <=> Served) /\ Client' = Client
  BY DEF Served, Client

LEMMA ToldUnchanged ==
    ASSUME UNCHANGED <<out, changes>> PROVE \A c \in Clients : ToldNow(c) => ToldNow(c)'
  BY DEF ToldNow, Told

\* A client keeps what it was told, and gets one response more: the present
\* state, when it is a change that is told.
LEMMA WriteTells ==
    ASSUME FrameInv, MutexInv, NEW th \in Threads, pc[th] \in Writing, UNCHANGED changes,
           NEW part \in {"header", "body"}, Write(th, part)
    PROVE  /\ \A c \in Clients : ToldNow(c) => ToldNow(c)'
           /\ \A c \in Clients : c = files[wfd[th]] /\ part = "body" /\ msg[th].type = "state"
                                   /\ msg[th].v = changes => ToldNow(c)'
  <1>1. PICK c : c = files[wfd[th]]
    OBVIOUS
  <1>2. PICK frame : frame = [part |-> part, of |-> msg[th]]
    OBVIOUS
  <1>3. CASE c = Device /\ out' = out
    BY <1>1, <1>3, ToldUnchanged DEF Clients, Device
  <1>4. CASE ~(c = Device /\ out' = out)
    <2> PICK n : n = Len(out[c])
      OBVIOUS
    <2>1. /\ c \in Clients /\ n \in Nat
          /\ DOMAIN out[c] = 1 .. n /\ DOMAIN out'[c] = 1 .. n + 1
          /\ \A i \in 1 .. n : out'[c][i] = out[c][i]
          /\ out'[c][n + 1] = frame
          /\ \A d \in Clients \ {c} : out'[d] = out[d]
      BY <1>1, <1>2, <1>4, WriteAdds
    <2>2. frame.part = part /\ frame.of = msg[th]
      BY <1>2
    <2>3. part = "body" /\ msg[th].type = "state" /\ msg[th].v = changes => ToldNow(c)'
      <3>1. n + 1 \in DOMAIN out'[c] /\ \A j \in DOMAIN out'[c] : ~(j > n + 1)
        BY <2>1
      <3> QED  BY <2>1, <2>2, <3>1 DEF ToldNow, Told
    <2>4. ASSUME NEW d \in Clients, ToldNow(d) PROVE ToldNow(d)'
      <3>1. CASE d # c
        BY <2>1, <2>4, <3>1 DEF ToldNow, Told
      <3>2. CASE d = c /\ part = "body" /\ Explicit(msg[th])
        <4>1. msg[th].type = "state" /\ msg[th].v = changes
          BY <3>2 DEF MutexInv, Explicit
        <4> QED  BY <2>3, <3>2, <4>1
      <3>3. CASE d = c /\ ~(part = "body" /\ Explicit(msg[th]))
        <4>1. PICK i \in 1 .. n :
                  /\ out[c][i].part = "body" /\ out[c][i].of.type = "state"
                  /\ out[c][i].of.v = changes
                  /\ \A j \in Told(c) : j > i => out[c][j].of.implicit
          BY <2>1, <2>4, <3>3 DEF ToldNow, Told
        <4>2. i \in Told(c)' /\ out'[c][i].of.v = changes
          BY <2>1, <4>1 DEF Told
        <4>3. ASSUME NEW j \in Told(c)', j > i PROVE out'[c][j].of.implicit
          <5>1. j \in 1 .. n + 1 /\ out'[c][j].part = "body" /\ out'[c][j].of.type = "state"
            BY <2>1 DEF Told
          <5>2. CASE j \in 1 .. n
            BY <2>1, <4>1, <4>3, <5>1, <5>2 DEF Told
          <5>3. CASE j = n + 1
            <6>1. out'[c][j].part = part /\ out'[c][j].of = msg[th]
              BY <2>1, <2>2, <5>3
            <6> QED  BY <3>3, <5>1, <6>1 DEF Explicit
          <5> QED  BY <2>1, <5>1, <5>2, <5>3
        <4> QED  BY <3>3, <4>2, <4>3 DEF ToldNow
      <3> QED  BY <3>1, <3>2, <3>3
    <2> QED  BY <1>1, <2>3, <2>4
  <1> QED  BY <1>3, <1>4

\* Whoever reads the descriptor of the client on its way there tells it.
LEMMA SendStepNewest ==
    ASSUME ServeInv, MutexInv, NewestInv, NEW th \in Threads, SendStep(th) PROVE NewestInv'
  <1> USE DEF ServeInv, ThreadInv
  <1>1. /\ UNCHANGED <<changes, files, conn, s_fdCommand, todo>>
        /\ (Served' <=> Served) /\ Client' = Client
        /\ Notifying' <=> Notifying
    BY ServedUnchanged
    DEF SendStep, Compose, ReadFd, Lock, WriteHeader, WriteBody, WriteFails, stateVars,
        fileVars, Notifying
  <1>2. \A u \in Threads \ {th} : pc'[u] = pc[u] /\ msg'[u] = msg[u] /\ wfd'[u] = wfd[u]
    BY DEF SendStep, Compose, ReadFd, Lock, WriteHeader, WriteBody, WriteFails, Send, Sent,
           sendVars, FrameInv, SendTypes
  <1>3. \A u \in Threads \ {th} : OnItsWay(u) => OnItsWay(u)'
    BY <1>1, <1>2, OnItsWayKept
  <1>4. CASE Compose(th)
    <2>1. msg'[th] = [type |-> "state", v |-> changes, implicit |-> s_state_mutex # th]
          /\ pc'[th] = "fd" /\ UNCHANGED out
      BY <1>4 DEF Compose, Send, FrameInv, SendTypes
    <2>2. OnItsWay(th)'
      <3>1. msg'[th].type = "state" /\ msg'[th].v = changes
        BY <2>1
      <3> QED  BY <1>1, <2>1, <3>1 DEF OnItsWay
    <2> QED  BY <2>2 DEF NewestInv
  <1>5. CASE ReadFd(th)
    <2>1. CASE s_fdCommand = NoFd
      BY <1>1, <2>1 DEF NewestInv, Served
    <2>3. CASE s_fdCommand # NoFd /\ TooLarge(msg[th])
      <3>1. ~OnItsWay(th) /\ UNCHANGED out
        BY <1>5, <2>3 DEF ReadFd, TooLarge, OnItsWay
      <3> QED  BY <1>1, <1>3, <3>1, ToldUnchanged, NewestKept
    <2>2. CASE s_fdCommand # NoFd /\ ~TooLarge(msg[th])
      <3>1. wfd'[th] = s_fdCommand /\ msg'[th] = msg[th] /\ UNCHANGED out /\ pc[th] = "fd"
        BY <1>5, <2>2 DEF ReadFd, FrameInv, SendTypes
      <3>2. OnItsWay(th) => OnItsWay(th)'
        BY <1>1, <3>1 DEF OnItsWay
      <3> QED  BY <1>1, <1>3, <3>1, <3>2, ToldUnchanged, NewestKept
    <2> QED  BY <2>1, <2>2, <2>3
  <1>6. CASE Lock(th) \/ WriteHeader(th) \/ WriteFails(th)
    <2>1. /\ msg'[th] = msg[th] /\ wfd'[th] = wfd[th]
          /\ pc[th] \in {"lock", "header", "body"}
      BY <1>6 DEF Lock, WriteHeader, WriteFails, sendVars
    <2>2. OnItsWay(th) => OnItsWay(th)'
      BY <1>1, <2>1 DEF OnItsWay
    <2>3. \A c \in Clients : ToldNow(c) => ToldNow(c)'
      <3>1. CASE WriteHeader(th)
        BY <1>1, <3>1, WriteTells DEF WriteHeader, Writing
      <3>2. CASE ~WriteHeader(th)
        BY <1>1, <1>6, <3>2, ToldUnchanged DEF Lock, WriteFails
      <3> QED  BY <3>1, <3>2
    <2> QED  BY <1>1, <1>3, <2>2, <2>3, NewestKept
  <1>7. CASE WriteBody(th)
    <2>1. /\ \A c \in Clients : ToldNow(c) => ToldNow(c)'
          /\ \A c \in Clients : c = files[wfd[th]] /\ msg[th].type = "state"
                                  /\ msg[th].v = changes => ToldNow(c)'
      BY <1>1, <1>7, WriteTells DEF WriteBody, Writing
    <2>2. CASE OnItsWay(th) /\ Served
      <3>1. PICK c \in Clients : c = Client
        BY <2>2 DEF Served
      <3>2. c = files[wfd[th]] /\ msg[th].type = "state" /\ msg[th].v = changes
        BY <1>7, <2>2, <3>1 DEF OnItsWay, WriteBody, Client
      <3>3. ToldNow(c)'
        BY <2>1, <3>2
      <3> QED  BY <1>1, <3>1, <3>3 DEF NewestInv, ToldNow, Told
    <2>3. CASE ~Served
      BY <1>1, <2>3 DEF NewestInv
    <2>4. CASE ~OnItsWay(th)
      BY <1>1, <1>3, <2>1, <2>4, NewestKept
    <2> QED  BY <2>2, <2>3, <2>4
  <1> QED  BY <1>4, <1>5, <1>6, <1>7 DEF SendStep

\* A thread that is not sending is not on its way.
LEMMA NotOnItsWay ==
    ASSUME MsgInv, NEW th \in Threads, pc[th] = "run" PROVE ~OnItsWay(th)
  BY DEF MsgInv, OnItsWay, NoMessage

LEMMA SetRadioStateNewest ==
    ASSUME ServeInv, NewestInv, NEW th \in Threads, setRadioState(th) PROVE NewestInv'
  <1> USE DEF ServeInv, ThreadInv
  <1>1. /\ UNCHANGED <<files, conn, s_fdCommand, out, msg, wfd>>
        /\ \/ UNCHANGED <<changes, pc>>
           \/ pc'[th] = "compose"
    BY DEF setRadioState, fileVars, stateVars, FrameInv, SendTypes
  <1>2. CASE pc'[th] = "compose"
    BY <1>2 DEF NewestInv, OnItsWay
  <1>3. CASE UNCHANGED <<changes, pc>>
    <2>1. (Served' <=> Served) /\ Client' = Client
      BY <1>1, ServedUnchanged
    <2>2. \A u \in Threads : OnItsWay(u) => OnItsWay(u)'
      BY <1>1, <1>3, OnItsWayKept
    <2> QED  BY <1>1, <1>3, <2>1, <2>2, SetRadioStateTodo, ToldUnchanged, NewestKept
  <1> QED  BY <1>1, <1>2, <1>3

\* Who begins something was not on its way, and who stays connected was.
LEMMA OthersNewest ==
    ASSUME ServeInv, NewestInv, UNCHANGED <<changes, s_fdCommand, out, wfd>>,
           NEW th \in Threads, pc[th] = "run",
           \A u \in Threads \ {th} : pc'[u] = pc[u] /\ msg'[u] = msg[u],
           Served' => Served /\ Client' = Client,
           Notifying => Notifying'
    PROVE  NewestInv'
  <1>1. ~OnItsWay(th)
    BY NotOnItsWay DEF ServeInv, ThreadInv
  <1>2. \A u \in Threads \ {th} : OnItsWay(u) => OnItsWay(u)'
    BY OnItsWayKept
  <1> QED  BY <1>1, <1>2, ToldUnchanged, NewestKept

LEMMA DispatchNewest ==
    ASSUME ServeInv, MutexInv, NewestInv, DispatchStep \/ DispatchBegins PROVE NewestInv'
  <1> USE DEF ServeInv, ThreadInv
  <1>1. CASE SendStep(Dispatch) \/ setRadioState(Dispatch)
    BY <1>1, SendStepNewest, SetRadioStateNewest, DispatchIsThread
  <1>2. CASE Notify
    <2>1. pc'[Dispatch] = "compose"
      BY <1>2, DispatchIsThread DEF Notify, FrameInv, SendTypes
    <2> QED  BY <2>1, DispatchIsThread DEF NewestInv, OnItsWay
  <1>3. CASE Gate \/ Handle \/ OnRequestComplete
    <2>1. /\ UNCHANGED <<changes, s_fdCommand, out, wfd, files, conn>> /\ pc[Dispatch] = "run"
      BY <1>3 DEF Gate, Handle, OnRequestComplete, stateVars, sendVars, fileVars, Doing
    <2>2. \A u \in Threads \ {Dispatch} : pc'[u] = pc[u] /\ msg'[u] = msg[u]
      <3>1. CASE Gate \/ Handle
        BY <3>1 DEF Gate, Handle, sendVars
      <3> QED  BY <1>3, <3>1, OnRequestCompleteMsg
    <2>3. ~Notifying
      BY <1>3, ServeTodo
    <2> QED  BY <2>1, <2>2, <2>3, ServedUnchanged, DispatchIsThread, OthersNewest
  <1>4. CASE Return
    <2>1. /\ UNCHANGED <<changes, s_fdCommand, out, wfd, files, conn, pc, msg, todo>>
          /\ pc[Dispatch] = "run"
      BY <1>4 DEF Return, stateVars, sendVars, fileVars
    <2> QED  BY <2>1, ServedUnchanged, DispatchIsThread, OthersNewest DEF Notifying
  <1>5. CASE ForgetCommand
    BY <1>5 DEF ForgetCommand, NewestInv, Served
  <1>6. CASE \E c \in Clients : Accept(c)
    <2>1. Notifying'
      BY <1>6, DispatchBeginsTodo DEF Accept, Notifying
    <2> QED  BY <2>1 DEF NewestInv
  <1>7. CASE CloseCommand
    <2>1. Client' = Closed
      BY <1>7 DEF CloseCommand, Client, FrameInv, SendTypes
    <2> QED  BY <2>1 DEF NewestInv, Served, Clients, Closed
  <1>8. CASE (\E kind \in Kinds : Receive(kind)) \/ TimedCallback
    <2>1. PICK tasks : Begin(Dispatch, tasks)
      BY <1>8 DEF Receive, TimedCallback
    <2>2. UNCHANGED <<changes, s_fdCommand, out, wfd, files, conn, pc, msg>>
      BY <1>8 DEF Receive, TimedCallback, stateVars, sendVars, fileVars
    <2>3. pc[Dispatch] = "run" /\ ~Notifying
      BY <2>1, DispatchBeginsTodo
    <2> QED  BY <2>2, <2>3, ServedUnchanged, DispatchIsThread, OthersNewest
  <1> QED  BY <1>1, <1>2, <1>3, <1>4, <1>5, <1>6, <1>7, <1>8 DEF DispatchStep, DispatchBegins

LEMMA NotifierNewest ==
    ASSUME ServeInv, MutexInv, NewestInv, NEW th \in Notifiers,
           NotifierStep(th) \/ NotifierBegins(th)
    PROVE  NewestInv'
  <1> USE DEF ServeInv, ThreadInv
  <1>1. CASE NotifierStep(th)
    BY <1>1, SendStepNewest, SetRadioStateNewest, DispatchIsThread DEF NotifierStep
  <1>2. CASE NotifierBegins(th)
    <2>1. /\ UNCHANGED <<changes, s_fdCommand, out, wfd, conn>>
          /\ pc[th] = "run"
          /\ \A u \in Threads \ {th} : pc'[u] = pc[u] /\ msg'[u] = msg[u]
      BY <1>2
      DEF NotifierBegins, ChangeState, TellEvent, OpenDevice, CloseDevice, stateVars, sendVars,
          fileVars, Begin, Idle, Send, FrameInv, SendTypes
    <2>2. Notifying => Notifying'
      BY <1>2, NotifierBeginsTodo DEF Notifying
    <2>3. Served' => Served /\ Client' = Client
      <3>1. CASE OpenDevice(th) \/ CloseDevice(th)
        BY <2>1, <3>1, DeviceServed DEF Served, Client, FrameInv, SendTypes
      <3>2. CASE ChangeState(th) \/ TellEvent(th)
        BY <3>2, ServedUnchanged DEF ChangeState, TellEvent, fileVars
      <3> QED  BY <1>2, <3>1, <3>2 DEF NotifierBegins
    <2> QED  BY <2>1, <2>2, <2>3, DispatchIsThread, OthersNewest
  <1> QED  BY <1>1, <1>2

LEMMA NewestInvariant == Spec => []NewestInv
  <1>1. Init => NewestInv
    BY DEF Init, NewestInv, Served
  <1>2. ASSUME ServeInv, MutexInv, NewestInv, [Next]_vars PROVE NewestInv'
    <2>1. CASE DispatchStep \/ DispatchBegins
      BY <1>2, <2>1, DispatchNewest
    <2>2. ASSUME NEW th \in Notifiers, NotifierStep(th) \/ NotifierBegins(th) PROVE NewestInv'
      BY <1>2, <2>2, NotifierNewest
    <2>3. CASE (\E c \in Clients : HangUp(c)) \/ UNCHANGED vars
      <3>1. UNCHANGED <<changes, s_fdCommand, out, wfd, pc, msg, todo, files>>
        BY <2>3 DEF HangUp, vars, stateVars, sendVars, fileVars
      <3>2. Served' => Served
        BY <1>2, <2>3, <3>1
        DEF HangUp, vars, fileVars, Served, Client, ServeInv, ThreadInv, FrameInv, SendTypes
      <3>3. \A th \in Threads : OnItsWay(th) => OnItsWay(th)'
        BY <3>1, OnItsWayKept
      <3> QED  BY <1>2, <3>1, <3>2, <3>3, ToldUnchanged, NewestKept DEF Client, Notifying
    <2> QED  BY <1>2, <2>1, <2>2, <2>3 DEF Next
  <1>3. OrderInv => MutexInv
    BY DEF OrderInv
  <1> QED  BY <1>1, <1>2, <1>3, ServeInvariant, OrderInvariant, PTL DEF Spec

\* Whoever is connected has been told the present radio state once nobody is
\* busy with a notification, and no change after it; only what a new client is
\* told of its own accord may come later, and be older (tgm.cpp:536, 1206, 1232;
\* huawei-tgm.c:880-917).
THEOREM NewestTold == Spec => []ToldNewest
  <1>1. ServeInv /\ NewestInv => ToldNewest
    <2> SUFFICES ASSUME ServeInv, NewestInv, Served, \A th \in Threads : Idle(th)
                 PROVE  ToldNow(Client)
      BY DEF ToldNewest, ToldNow, Served
    <2>1. ~Notifying
      BY DispatchIsThread, DoingWhat DEF ServeInv, ThreadInv
    <2>2. \A th \in Threads : ~OnItsWay(th)
      BY NotOnItsWay DEF ServeInv, ThreadInv, Idle
    <2> QED  BY <2>1, <2>2 DEF NewestInv
  <1> QED  BY <1>1, ServeInvariant, NewestInvariant, PTL

-----------------------------------------------------------------------------
(* Requests implements RequestService.                                      *)

ServiceClient == IF s_fdCommand # NoFd /\ Client \in Clients THEN Client ELSE 0
ServiceSent == [c \in Clients |-> SentTo(c)]

\* what a frame is to RequestService
Answered(frame) == IF IsAnswer(frame) THEN frame.of.r ELSE 0

LEMMA ServiceUnchanged ==
    ASSUME UNCHANGED <<received, handling, out, ended>>, ServiceClient' = ServiceClient
    PROVE  UNCHANGED Service!vars
  <1>1. ServiceSent' = ServiceSent
    BY DEF ServiceSent, SentTo
  <1> QED  BY <1>1 DEF Service!vars, ServiceClient, ServiceSent

LEMMA ClientUnchanged ==
    ASSUME UNCHANGED <<files, s_fdCommand>> PROVE ServiceClient' = ServiceClient
  BY DEF ServiceClient, Client

LEMMA AnsweredTypes ==
    ASSUME NEW frame \in Frames PROVE Answered(frame) \in Nat
  <1>1. frame.of \in AnyMessage
    BY DEF Frames
  <1> QED  BY <1>1 DEF Answered, IsAnswer, AnyMessage, NoMessage

SentOf(s) == [i \in DOMAIN s |-> Answered(s[i])]

LEMMA SentOfTypes ==
    ASSUME NEW s \in Seq(Frames)
    PROVE  /\ SentOf(s) \in Seq(Nat) /\ Len(SentOf(s)) = Len(s) /\ Len(s) \in Nat
           /\ DOMAIN s = 1 .. Len(s) /\ DOMAIN SentOf(s) = 1 .. Len(s)
           /\ \A i \in 1 .. Len(s) : SentOf(s)[i] = Answered(s[i])
  <1>1. /\ DOMAIN s = 1 .. Len(s) /\ Len(s) \in Nat
        /\ \A i \in DOMAIN s : s[i] \in Frames
    <2> HIDE DEF Frames
    <2> QED  OBVIOUS
  <1>2. \A i \in DOMAIN s : Answered(s[i]) \in Nat
    BY <1>1, AnsweredTypes
  <1> HIDE DEF Answered
  <1>3. SentOf(s) \in [1 .. Len(s) -> Nat]
    BY <1>1, <1>2 DEF SentOf
  <1>4. SentOf(s) \in Seq(Nat) /\ Len(SentOf(s)) = Len(s)
    BY <1>1, <1>3
  <1> QED  BY <1>1, <1>4 DEF SentOf

\* Two sequences that agree are the same.
LEMMA AppendIs ==
    ASSUME NEW s \in Seq(Nat), NEW e \in Nat, NEW t \in Seq(Nat), Len(t) = Len(s) + 1,
           \A i \in 1 .. Len(s) : t[i] = s[i], t[Len(s) + 1] = e
    PROVE  t = Append(s, e)
  <1> PICK u : u = Append(s, e)
    OBVIOUS
  <1> PICK n : n = Len(s) + 1
    OBVIOUS
  <1>1. /\ u \in Seq(Nat) /\ Len(u) = n /\ n \in Nat /\ Len(s) \in Nat /\ u[n] = e
        /\ \A i \in 1 .. Len(s) : u[i] = s[i]
    BY AppendTo
  <1>2. \A i \in 1 .. n : t[i] = u[i]
    <2>1. \A i \in 1 .. n : i \in 1 .. Len(s) \/ i = n
      BY <1>1
    <2> QED  BY <1>1, <2>1
  <1>3. \A v \in Seq(Nat) : v \in [1 .. Len(v) -> Nat]
    OBVIOUS
  <1>4. t \in [1 .. n -> Nat] /\ u \in [1 .. n -> Nat]
    BY <1>1, <1>3
  <1>5. \A f, g \in [1 .. n -> Nat] : (\A i \in 1 .. n : f[i] = g[i]) => f = g
    OBVIOUS
  <1> QED  BY <1>2, <1>4, <1>5

LEMMA SentAppend ==
    ASSUME NEW s \in Seq(Frames), NEW e \in Frames, NEW t \in Seq(Frames), Len(t) = Len(s) + 1,
           \A i \in 1 .. Len(s) : t[i] = s[i], t[Len(s) + 1] = e
    PROVE  SentOf(t) = Append(SentOf(s), Answered(e))
  <1> PICK a, b, x : a = SentOf(s) /\ b = SentOf(t) /\ x = Answered(e)
    OBVIOUS
  <1>1. /\ a \in Seq(Nat) /\ Len(a) = Len(s) /\ Len(s) \in Nat
        /\ \A i \in 1 .. Len(s) : a[i] = Answered(s[i])
    BY SentOfTypes
  <1>2. /\ b \in Seq(Nat) /\ Len(b) = Len(s) + 1
        /\ \A i \in 1 .. Len(s) + 1 : b[i] = Answered(t[i])
    BY SentOfTypes
  <1>3. x \in Nat
    BY AnsweredTypes
  <1>4. (\A i \in 1 .. Len(a) : b[i] = a[i]) /\ b[Len(a) + 1] = x
    <2>1. /\ \A i \in 1 .. Len(s) : i \in 1 .. Len(s) + 1
          /\ Len(s) + 1 \in 1 .. Len(s) + 1
      BY <1>1
    <2> QED  BY <1>1, <1>2, <2>1
  <1>5. b = Append(a, x)
    BY <1>1, <1>2, <1>3, <1>4, AppendIs
  <1> QED  BY <1>5

\* The response is for the client that is served, who is sent a frame more.
LEMMA WriteSends ==
    ASSUME FrameInv, FrameInv', ServedInv, NEW th \in Threads, pc[th] \in Writing,
           NEW part \in {"header", "body"}, Write(th, part)
    PROVE  \/ UNCHANGED out
           \/ /\ ServiceClient \in Clients /\ ServiceClient = Client
              /\ ServiceSent' = [ServiceSent EXCEPT ![ServiceClient] =
                                     Append(@, Answered([part |-> part, of |-> msg[th]]))]
  <1>1. PICK c : c = files[wfd[th]]
    OBVIOUS
  <1>2. PICK frame : frame = [part |-> part, of |-> msg[th]]
    OBVIOUS
  <1>3. CASE ~(c = Device /\ out' = out)
    <2>1. /\ c \in Clients /\ Len(out[c]) \in Nat /\ Len(out'[c]) = Len(out[c]) + 1
          /\ DOMAIN out[c] = 1 .. Len(out[c]) /\ DOMAIN out'[c] = 1 .. Len(out[c]) + 1
          /\ \A i \in 1 .. Len(out[c]) : out'[c][i] = out[c][i]
          /\ out'[c][Len(out[c]) + 1] = frame
          /\ \A d \in Clients \ {c} : out'[d] = out[d]
      BY <1>1, <1>2, <1>3, WriteAdds
    <2>2. frame \in Frames
      BY <1>2 DEF Frames, FrameInv, SendTypes
    <2>3. c = Client /\ ServiceClient = Client
      <3>1. wfd[th] \in Fds /\ wfd[th] # NoFd
        BY BoundsAssumption DEF FrameInv, SendTypes, Writing
      <3>2. wfd[th] = s_fdCommand
        BY <1>1, <2>1, <3>1 DEF ServedInv
      <3> QED  BY <1>1, <2>1, <3>1, <3>2 DEF Client, ServiceClient
    <2>4. PICK s, t : s = out[c] /\ t = out'[c]
      OBVIOUS
    <2>5. s \in Seq(Frames) /\ t \in Seq(Frames)
      BY <2>1, <2>4 DEF FrameInv, SendTypes
    <2>6. SentOf(t) = Append(SentOf(s), Answered(frame))
      BY <2>1, <2>2, <2>4, <2>5, SentAppend
    <2>7. SentTo(c) = SentOf(s) /\ SentTo(c)' = SentOf(t)
      BY <2>4 DEF SentTo, SentOf, Answered
    <2>8. \A d \in Clients \ {c} : SentTo(d)' = SentTo(d)
      BY <2>1 DEF SentTo
    <2>9. ServiceSent' = [ServiceSent EXCEPT ![c] = Append(@, Answered(frame))]
      BY <2>1, <2>6, <2>7, <2>8 DEF ServiceSent
    <2> QED  BY <1>2, <2>1, <2>3, <2>9
  <1> QED  BY <1>3

\* Who is served is the client that is connected, and no other is.
LEMMA ServedClient ==
    ASSUME ServeInv, s_fdCommand # NoFd, ~Forgetting
    PROVE  ServiceClient = Client /\ ServiceClient \in Clients /\ ServiceClient # 0
  BY DEF ServeInv, ThreadInv, ServedInv, ServiceClient, Clients

LEMMA SendStepService ==
    ASSUME ServeInv, ServeInv', ~ended, NEW th \in Threads, SendStep(th)
    PROVE  [Service!Next]_(Service!vars)
  <1> USE DEF ServeInv, ThreadInv
  <1>1. /\ UNCHANGED <<received, handling, files, s_fdCommand>>
        /\ ServiceClient' = ServiceClient
    BY ClientUnchanged
    DEF SendStep, Compose, ReadFd, Lock, WriteHeader, WriteBody, WriteFails, fileVars
  <1>2. CASE UNCHANGED <<out, ended>>
    BY <1>1, <1>2, ServiceUnchanged
  <1>3. CASE WriteFails(th)
    <2>1. ended' = TRUE /\ UNCHANGED out
      BY <1>3 DEF WriteFails
    <2>2. ServiceSent' = ServiceSent
      BY <2>1 DEF ServiceSent, SentTo
    <2>3. Service!GoDown
      BY <1>1, <2>1, <2>2 DEF Service!GoDown, ServiceClient, ServiceSent
    <2> QED  BY <2>3 DEF Service!Next
  <1>4. ASSUME NEW part \in {"header", "body"}, Write(th, part), pc[th] \in Writing,
               UNCHANGED ended
        PROVE  [Service!Next]_(Service!vars)
    <2>1. CASE UNCHANGED out
      BY <1>1, <1>4, <2>1, ServiceUnchanged
    <2>2. CASE ~UNCHANGED out
      <3> PICK frame : frame = [part |-> part, of |-> msg[th]]
        OBVIOUS
      <3>1. /\ ServiceClient \in Clients /\ ServiceClient # 0 /\ ServiceClient = Client
            /\ ServiceSent' = [ServiceSent EXCEPT ![ServiceClient] = Append(@, Answered(frame))]
        <4>1. /\ ServiceClient \in Clients /\ ServiceClient = Client
              /\ ServiceSent' = [ServiceSent EXCEPT ![ServiceClient] =
                                     Append(@, Answered([part |-> part, of |-> msg[th]]))]
          BY <1>4, <2>2, WriteSends
        <4> QED  BY <4>1 DEF Clients
      <3>2. CASE ~IsAnswer(frame)
        <4>1. Service!Tell
          BY <1>1, <1>4, <3>1, <3>2
          DEF Service!Tell, Service!Nobody, Service!Other, ServiceClient, ServiceSent, Answered
        <4> QED  BY <4>1 DEF Service!Next
      <3>3. CASE IsAnswer(frame)
        <4>1. msg[th].type = "answer"
          BY <3>3 DEF IsAnswer
        <4>2. th = Dispatch /\ Answering /\ Serving /\ msg[th].r = handling.r
          BY <4>1 DEF MsgInv, Threads, Answering
        <4>3. Answered(frame) = handling.r /\ handling.r \in Nat \ {0}
          BY <3>3, <4>2 DEF Answered, TodoInv, Serving, NoRequest
        <4>4. ~IsAnswered(handling.r) /\ received[handling.r] = ServiceClient
          BY <3>1, <4>2, <4>3 DEF RequestInv, AnswerInv, Settled, AnsweredNow, ListInv
        <4>5. \A i \in DOMAIN ServiceSent[ServiceClient] :
                  ServiceSent[ServiceClient][i] # handling.r
          <5>1. PICK c : c = ServiceClient
            OBVIOUS
          <5>2. /\ ServiceSent[c] = SentTo(c) /\ DOMAIN SentTo(c) = DOMAIN out[c]
                /\ \A i \in DOMAIN out[c] : SentTo(c)[i] = Answered(out[c][i])
            BY <3>1, <5>1 DEF ServiceSent, SentTo, Answered
          <5>3. \A i \in DOMAIN out[c] : Answered(out[c][i]) # handling.r
            BY <3>1, <4>3, <4>4, <5>1 DEF IsAnswered, AnsweredTo, Answered
          <5> QED  BY <5>1, <5>2, <5>3
        <4>6. Service!Answer
          BY <1>1, <1>4, <3>1, <4>3, <4>4, <4>5
          DEF Service!Answer, Service!NoRequest, ServiceClient, ServiceSent
        <4> QED  BY <4>6 DEF Service!Next
      <3> QED  BY <3>2, <3>3
    <2> QED  BY <2>1, <2>2
  <1>5. CASE WriteHeader(th) \/ WriteBody(th)
    BY <1>4, <1>5 DEF WriteHeader, WriteBody, Writing
  <1> QED  BY <1>2, <1>3, <1>5 DEF SendStep, Compose, ReadFd, Lock

\* The steps between the ones that RequestService knows of.
LEMMA TasksService ==
    ASSUME ServeInv,
           \/ \E th \in Threads : setRadioState(th)
           \/ Notify \/ Gate \/ Handle \/ OnRequestComplete \/ ForgetCommand \/ TimedCallback
           \/ \E th \in Notifiers : NotifierBegins(th)
           \/ \E c \in Clients : HangUp(c)
           \/ UNCHANGED vars
    PROVE  UNCHANGED Service!vars
  <1>1. UNCHANGED <<received, handling, out, ended>>
    BY DEF setRadioState, Notify, Gate, Handle, OnRequestComplete, ForgetCommand, TimedCallback,
           NotifierBegins, ChangeState, TellEvent, OpenDevice, CloseDevice, HangUp, vars
  <1>2. ServiceClient' = ServiceClient
    <2>1. CASE ForgetCommand
      <3>1. Forgetting /\ s_fdCommand' = NoFd
        BY <2>1, DoingWhat DEF ForgetCommand, ServeInv, ThreadInv
      <3> QED  BY <3>1 DEF ServiceClient, ServeInv, ThreadInv, ServedInv
    <2>2. CASE \E th \in Notifiers : OpenDevice(th) \/ CloseDevice(th)
      <3>1. UNCHANGED s_fdCommand
        BY <2>2 DEF OpenDevice, CloseDevice
      <3>2. \A fd \in Fds : files'[fd] \in Clients \/ files[fd] \in Clients =>
                files'[fd] = files[fd]
        BY <2>2, DeviceServed DEF ServeInv, ThreadInv
      <3>3. s_fdCommand \in Fds \cup {NoFd}
        BY DEF ServeInv, ThreadInv, FrameInv, SendTypes
      <3> QED  BY <3>1, <3>2, <3>3 DEF ServiceClient, Client
    <2>3. CASE ~ForgetCommand /\ ~(\E th \in Notifiers : OpenDevice(th) \/ CloseDevice(th))
      <3>1. UNCHANGED <<files, s_fdCommand>>
        BY <2>3
        DEF setRadioState, Notify, Gate, Handle, OnRequestComplete, TimedCallback,
            NotifierBegins, ChangeState, TellEvent, HangUp, vars, fileVars
      <3> QED  BY <3>1, ClientUnchanged
    <2> QED  BY <2>1, <2>2, <2>3
  <1> QED  BY <1>1, <1>2, ServiceUnchanged

\* Connections, requests and returns are those of RequestService.
LEMMA ConnectService ==
    ASSUME ServeInv, ServeInv', ~ended, NEW c \in Clients, Accept(c) PROVE Service!Next
  <1>1. /\ s_fdCommand = NoFd /\ conn[c] = "none"
        /\ UNCHANGED <<received, handling, out, ended>>
        /\ todo'[Dispatch] = <<Task("notify")>> /\ handling = NoRequest
    BY DispatchBeginsTodo DEF Accept, ServeInv, ThreadInv, Serving
  <1>2. PICK fd \in Fds : s_fdCommand' = fd /\ files' = [files EXCEPT ![fd] = c]
    BY DEF Accept
  <1>3. ServiceClient = 0 /\ ServiceClient' = c
    <2>1. fd # NoFd /\ files'[fd] = c
      BY <1>2, BoundsAssumption DEF ServeInv, ThreadInv, FrameInv, SendTypes
    <2> QED  BY <1>1, <1>2, <2>1 DEF ServiceClient, Client
  <1>4. \A r \in DOMAIN received : received[r] # c
    BY <1>1 DEF ServeInv, ThreadInv, ServedInv
  <1>5. ServiceSent' = ServiceSent
    BY <1>1 DEF ServiceSent, SentTo
  <1>6. Service!Connect(c)
    BY <1>1, <1>3, <1>4, <1>5
    DEF Service!Connect, Service!Nobody, Service!NoRequest, NoRequest, ServiceClient, ServiceSent
  <1> QED  BY <1>6 DEF Service!Next

LEMMA ReceiveService ==
    ASSUME ServeInv, ~ended, NEW kind \in Kinds, Receive(kind) PROVE Service!Next
  <1>1. /\ s_fdCommand # NoFd /\ Len(received) < MaxRequests
        /\ received' = Append(received, Client)
        /\ handling' = [r |-> Len(received) + 1, kind |-> kind]
        /\ UNCHANGED <<files, s_fdCommand, out, ended>>
    BY DEF Receive, fileVars
  <1>2. handling = NoRequest /\ ~Forgetting
    <2>1. PICK tasks : Begin(Dispatch, tasks)
      BY DEF Receive
    <2> QED  BY <2>1, DispatchBeginsTodo DEF ServeInv, ThreadInv, Serving
  <1>3. /\ ServiceClient = Client /\ ServiceClient \in Clients /\ ServiceClient # 0
        /\ ServiceClient' = ServiceClient
    BY <1>1, <1>2, ServedClient, ClientUnchanged
  <1>4. ServiceSent' = ServiceSent
    BY <1>1 DEF ServiceSent, SentTo
  <1>5. handling'.r = Len(received')
    <2>1. received \in Seq(Clients)
      BY DEF ServeInv, ThreadInv, ServedInv
    <2>2. Len(received') = Len(received) + 1
      <3>1. PICK c \in Clients : c = Client
        BY <1>3
      <3> QED  BY <1>1, <2>1, <3>1, AppendTo
    <2> QED  BY <1>1, <2>2
  <1>6. Service!Receive
    BY <1>1, <1>2, <1>3, <1>4, <1>5
    DEF Service!Receive, Service!Nobody, Service!NoRequest, NoRequest, ServiceClient, ServiceSent
  <1> QED  BY <1>6 DEF Service!Next

LEMMA ReturnService ==
    ASSUME ServeInv, ~ended, Return PROVE Service!Next
  <1>1. /\ handling # NoRequest /\ handling' = NoRequest
        /\ UNCHANGED <<received, files, s_fdCommand, out, ended>>
    BY DEF Return, fileVars
  <1>2. handling.r # 0 /\ handling'.r = 0
    BY <1>1 DEF ServeInv, ThreadInv, TodoInv, NoRequest
  <1>3. ServiceClient' = ServiceClient /\ ServiceSent' = ServiceSent
    BY <1>1, ClientUnchanged DEF ServiceSent, SentTo
  <1>4. Service!Done
    BY <1>1, <1>2, <1>3 DEF Service!Done, Service!NoRequest, ServiceClient, ServiceSent
  <1> QED  BY <1>4 DEF Service!Next

LEMMA LeaveService ==
    ASSUME ServeInv, ~ended, CloseCommand PROVE Service!Next
  <1>1. /\ s_fdCommand # NoFd /\ s_fdCommand \in Fds /\ Client \in Clients
        /\ files' = [files EXCEPT ![s_fdCommand] = Closed]
        /\ handling = NoRequest
        /\ UNCHANGED <<received, handling, s_fdCommand, out, ended>>
    BY DispatchBeginsTodo
    DEF CloseCommand, ServeInv, ThreadInv, Serving, FrameInv, SendTypes
  <1>2. ServiceClient # 0 /\ ServiceClient' = 0
    <2>1. Client' = Closed
      BY <1>1 DEF Client, ServeInv, ThreadInv, FrameInv, SendTypes
    <2> QED  BY <1>1, <2>1 DEF ServiceClient, Clients, Closed
  <1>3. ServiceSent' = ServiceSent
    BY <1>1 DEF ServiceSent, SentTo
  <1>4. Service!Leave
    BY <1>1, <1>2, <1>3
    DEF Service!Leave, Service!Nobody, Service!NoRequest, NoRequest, ServiceClient, ServiceSent
  <1> QED  BY <1>4 DEF Service!Next

\* What a client sees is a service that answers each request at most once, to
\* the client that made it, in order, one client at a time.
THEOREM ServiceImplemented == Spec => ServesInOrder
  <1>1. Init => Service!Init
    <2> SUFFICES ASSUME Init PROVE Service!Init
      OBVIOUS
    <2>1. /\ s_fdCommand = NoFd /\ received = << >> /\ handling.r = 0 /\ ended = FALSE
          /\ \A c \in Clients : out[c] = << >>
      BY DEF Init, NoRequest
    <2>2. \A c \in Clients : SentTo(c) = << >>
      BY <2>1 DEF SentTo
    <2>3. ServiceSent = [c \in Clients |-> << >>]
      BY <2>2 DEF ServiceSent
    <2> QED  BY <2>1, <2>3 DEF Service!Init, Service!Nobody, Service!NoRequest, ServiceSent
  <1>2. ASSUME ServeInv, ServeInv', [Next]_vars PROVE [Service!Next]_(Service!vars)
    <2>1. CASE UNCHANGED vars
      BY <1>2, <2>1, TasksService
    <2>2. CASE Next
      <3>1. ~ended
        BY <2>2 DEF Next
      <3>2. ASSUME NEW th \in Threads, SendStep(th) \/ setRadioState(th)
            PROVE  [Service!Next]_(Service!vars)
        BY <1>2, <3>1, <3>2, SendStepService, TasksService
      <3>3. CASE DispatchStep
        BY <1>2, <3>1, <3>2, <3>3, TasksService, ReturnService, DispatchIsThread
        DEF DispatchStep
      <3>4. CASE DispatchBegins
        BY <1>2, <3>1, <3>4, ConnectService, ReceiveService, LeaveService, TasksService
        DEF DispatchBegins
      <3>5. ASSUME NEW th \in Notifiers, NotifierStep(th) \/ NotifierBegins(th)
            PROVE  [Service!Next]_(Service!vars)
        BY <1>2, <3>2, <3>5, TasksService, DispatchIsThread DEF NotifierStep
      <3>6. CASE \E c \in Clients : HangUp(c)
        BY <1>2, <3>6, TasksService
      <3> QED  BY <2>2, <3>3, <3>4, <3>5, <3>6 DEF Next
    <2> QED  BY <1>2, <2>1, <2>2
  <1> QED  BY <1>1, <1>2, ServeInvariant, PTL DEF Spec, ServesInOrder, Service!Spec
=============================================================================
