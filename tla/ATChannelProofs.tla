-------------------------- MODULE ATChannelProofs --------------------------
(***************************************************************************)
(* Theorems about the AT command channel of ATChannel, for any command     *)
(* types, any numbers of sessions, commands, information and unsolicited   *)
(* lines and of attempts of at_handshake, either timed wait, and sessions   *)
(* that are opened again at any time, with at_close or without.            *)
(*                                                                         *)
(* Where it matters who else may send, one command thread is assumed       *)
(* (OneThread), as a hypothesis of the theorem.                            *)
(***************************************************************************)
EXTENDS ATChannel, SequenceTheorems, TLAPS

OneThread == \A c, d \in CmdThreads : c = d

-----------------------------------------------------------------------------
(* The inductive invariants.                                                *)

\* a response that is pending is that of the command in progress
InCommand(c) == pc[c] \in {"wait", "woken", "expired", "spin"}
Pending == sp_response.id # 0
WaitInv ==
    /\ sp_response = NoResponse <=> ~Pending
    /\ Pending => \A c \in CmdThreads :
          InCommand(c) => sp_response.id = cmd[c].id /\ sp_response.type = cmd[c].type

\* one reader at most sorts what comes
Alone == \A q, r \in Sessions : Listening(q) /\ Listening(r) => q = r

\* the lines that the reader has yet to sort: the one it holds and those to
\* be read
Holds(r) == r \in Sessions /\ reader[r] = "line"
Coming ==
    IF \E r : Holds(r) THEN <<rline[CHOOSE r : Holds(r)]>> \o rx ELSE rx

Unasked(line) == line.of = 0 /\ line.kind \in {"other", "header", "pdu"}
Quiet(lines) == \A i \in DOMAIN lines : Unasked(lines[i])

\* the first k information lines of the answer have been taken as the type of
\* the command calls for, the last one first; with the empty prefix, the one
\* taken may have been unasked for
Taken(response, k) ==
    LET p == response.p_intermediates IN
    IF response.type = "ANYLINE"
    THEN /\ InfoTaken(response.type, k) <= Len(p) /\ Len(p) <= 1
         /\ \A i \in DOMAIN p : p[i].of = 0 \/ (p[i].of = response.id /\ p[i].n = 1)
    ELSE /\ Len(p) = InfoTaken(response.type, k)
         /\ \A i \in DOMAIN p : p[i].of = response.id /\ p[i].n = Len(p) + 1 - i

\* What is to come answers a command from its line k + 1 on, in order and
\* without a gap, up to the last of m lines and the final one, which the
\* modem still owes or has sent.
AnswerLine(line, id, type, k, m) ==
    /\ line.of = id
    /\ \/ line.kind = "info" /\ line.type = type /\ line.n \in k + 1 .. m
       \/ isFinalResponse(line) /\ line.n = m
Answering(lines, owed, id, type, k, m) ==
    /\ \A i \in DOMAIN lines :
          Unasked(lines[i]) \/ AnswerLine(lines[i], id, type, k, m)
    /\ \A i, j \in DOMAIN lines :
          i < j /\ ~Unasked(lines[i]) /\ ~Unasked(lines[j]) =>
              /\ lines[i].kind = "info"
              /\ lines[j].kind = "info" => lines[i].n < lines[j].n
    /\ \A n \in k + 1 .. m :
          \E i \in DOMAIN lines : lines[i].kind = "info" /\ lines[i].n = n
    /\ \/ /\ owed = <<[id |-> id, type |-> type, n |-> m]>>
          /\ \A i \in DOMAIN lines : ~isFinalResponse(lines[i])
       \/ /\ owed = << >>
          /\ \E i \in DOMAIN lines : isFinalResponse(lines[i])

\* the two lines of an SMS come one after the other
Paired(lines) ==
    \A i \in DOMAIN lines :
        lines[i].kind = "header" => i + 1 \in DOMAIN lines /\ lines[i + 1].kind = "pdu"

\* what is to come and what the modem owes fit the pending response
Fits(lines, owed, response) ==
    IF response.id # 0 /\ response.finalResponse = NoLine
    THEN \E k, m \in 0 .. MaxInfo :
             /\ k <= m
             /\ Taken(response, k)
             /\ Answering(lines, owed, response.id, response.type, k, m)
    ELSE /\ Quiet(lines) /\ owed = << >>
         /\ response.id # 0 => /\ response.finalResponse.of = response.id
                               /\ Taken(response, response.finalResponse.n)

\* a reader in the middle of an SMS finds its second line next
AtPdu == \A r \in Sessions : reader[r] = "pdu" => rx # << >> /\ Head(rx).kind = "pdu"

\* what keeps a command in step that was sent to a silent channel
Flowing == Running /\ clean /\ Pending
InStep ==
    /\ Alone /\ AtPdu
    /\ Paired(Coming)
    /\ Fits(Coming, unanswered, sp_response)
StreamInv == Flowing => InStep

-----------------------------------------------------------------------------
(* Types.                                                                   *)

\* lines and responses are built of parts of their types
LEMMA LineParts ==
    /\ NoLine \in Line
    /\ \A kind \in {"other", "header", "pdu", "error"} : Spontaneous(kind) \in Line
    /\ \A kind \in {"info", "ok", "error"}, type \in AllTypes \cup {None}, id \in Ids,
          n \in 0 .. MaxInfo :
          [kind |-> kind, type |-> type, of |-> id, n |-> n] \in Line
    /\ \A line \in Line :
          /\ line.of \in Ids \cup {0} /\ line.n \in 0 .. MaxInfo
          /\ line.type \in AllTypes \cup {None}
  BY BoundsAssumption DEF NoLine, Line, Spontaneous, None

\* responses are built, and added to, within their type
LEMMA ResponseTypes ==
    /\ \A id \in Ids \cup {0}, type \in AllTypes : NewResponse(id, type) \in Response
    /\ NoResponse \in Response
    /\ NoResponse.id = 0 /\ NoResponse.finalResponse = NoLine
    /\ \A response \in Response :
          /\ response.id \in Ids \cup {0} /\ response.type \in AllTypes
          /\ response.finalResponse \in Line /\ response.success \in BOOLEAN
          /\ response.p_intermediates \in Seq(Line)
    /\ \A response \in Response, line \in Line, ok \in BOOLEAN :
          [response EXCEPT !.finalResponse = line, !.success = ok] \in Response
    /\ \A response \in Response, lines \in Seq(Line) :
          [response EXCEPT !.p_intermediates = lines] \in Response
  <1>1. \A id \in Ids \cup {0}, type \in AllTypes : NewResponse(id, type) \in Response
    BY LineParts DEF NewResponse, Response
  <1>2. NoResponse \in Response
    BY <1>1 DEF NoResponse, AllTypes
  <1> QED  BY <1>1, <1>2 DEF Response, NoResponse, NewResponse

\* the bounds are numbers
LEMMA Bounds ==
    /\ MaxSessions \in Nat /\ MaxCommands \in Nat /\ MaxInfo \in Nat
    /\ MaxUnsolicited \in Nat /\ HANDSHAKE_RETRY_COUNT \in Nat \ {0}
  BY BoundsAssumption

Pcs == {"idle", "wait", "woken", "expired", "send", "sleep", "pause", "spin"}
HsType == [i : 0 .. HANDSHAKE_RETRY_COUNT - 1, step : 0 .. 2, err : BOOLEAN]

\* at_handshake counts its attempts up to the limit
LEMMA HsTypes ==
    /\ NoHs \in HsType
    /\ [i |-> 0, step |-> 1, err |-> FALSE] \in HsType
    /\ \A h \in HsType :
          /\ h.i \in 0 .. HANDSHAKE_RETRY_COUNT - 1 /\ h.err \in BOOLEAN
          /\ [h EXCEPT !.step = 2] \in HsType
          /\ \A err \in BOOLEAN :
                /\ [h EXCEPT !.err = err] \in HsType
                /\ h.i + 1 < HANDSHAKE_RETRY_COUNT =>
                      [i |-> h.i + 1, step |-> 1, err |-> err] \in HsType
  <1>1. 0 \in 0 .. HANDSHAKE_RETRY_COUNT - 1
    BY Bounds
  <1>2. ASSUME NEW h \in HsType, NEW err \in BOOLEAN
        PROVE  /\ h.i \in 0 .. HANDSHAKE_RETRY_COUNT - 1 /\ h.err \in BOOLEAN
               /\ [h EXCEPT !.step = 2] \in HsType
               /\ [h EXCEPT !.err = err] \in HsType
    BY DEF HsType
  <1>3. ASSUME NEW h \in HsType, NEW err \in BOOLEAN, h.i + 1 < HANDSHAKE_RETRY_COUNT
        PROVE  [i |-> h.i + 1, step |-> 1, err |-> err] \in HsType
    <2>1. ASSUME NEW i \in 0 .. HANDSHAKE_RETRY_COUNT - 1, i + 1 < HANDSHAKE_RETRY_COUNT
          PROVE  i + 1 \in 0 .. HANDSHAKE_RETRY_COUNT - 1
      BY <2>1, Bounds
    <2>2. h.i \in 0 .. HANDSHAKE_RETRY_COUNT - 1
      BY <1>2
    <2>3. h.i + 1 \in 0 .. HANDSHAKE_RETRY_COUNT - 1
      BY <2>1, <2>2, <1>3
    <2> HIDE DEF HsType
    <2> QED  BY <2>3 DEF HsType
  <1>4. /\ NoHs \in HsType
        /\ [i |-> 0, step |-> 1, err |-> FALSE] \in HsType
    BY <1>1 DEF HsType, NoHs
  <1> QED  BY <1>2, <1>3, <1>4

\* the variables that hold names and numbers
ControlTypes ==
    /\ s_commandmutex \in CmdThreads \cup {Nobody}
    /\ s_fd \in Sessions \cup {NoFd}
    /\ s_readerClosed \in BOOLEAN /\ s_closed \in BOOLEAN /\ clean \in BOOLEAN
    /\ pc \in [CmdThreads -> Pcs]
    /\ hs \in [CmdThreads -> HsType]
    /\ reader \in [Sessions -> {"none", "read", "pdu", "line", "closing",
                                "atClose", "signal", "callback", "dead"}]
    /\ rfd \in [Sessions -> Sessions \cup {NoFd}]
    /\ fdState \in [Sessions -> {"new", "ok", "failing", "closed"}]
    /\ sent \in Ids \cup {0}
    /\ unsolicited \in 0 .. MaxUnsolicited
    /\ ended \in {None, "exit", "crash"}

\* the variables that hold commands and lines
DataTypes ==
    /\ sp_response \in Response
    /\ cmd \in [CmdThreads -> [id : Ids \cup {0}, type : AllTypes]]
    /\ ret \in [CmdThreads -> [id : Ids \cup {0}, type : AllTypes,
                   err : Errors, of : Ids \cup {0}, n : 0 .. MaxInfo, lines : Seq(Line),
                   clean : BOOLEAN]]
    /\ rline \in [Sessions -> Line]
    /\ unanswered \in Seq([id : Ids, type : AllTypes, n : 0 .. MaxInfo])
    /\ rx \in Seq(Line)

\* the type invariant in its two parts
LEMMA TypeParts == TypeOK <=> ControlTypes /\ DataTypes
  BY DEF TypeOK, ControlTypes, DataTypes, Pcs, HsType

\* what holds names and numbers starts within its type ...
LEMMA InitControl == Init => ControlTypes
  <1> SUFFICES ASSUME Init PROVE ControlTypes
    OBVIOUS
  <1>1. sent \in Ids \cup {0} /\ unsolicited \in 0 .. MaxUnsolicited
    BY Bounds DEF Init
  <1> QED  BY <1>1, HsTypes DEF Init, ControlTypes, Pcs

\* ... and so does what holds commands and lines
LEMMA InitData == Init => DataTypes
  <1> SUFFICES ASSUME Init PROVE DataTypes
    OBVIOUS
  <1>1. sp_response \in Response /\ rline \in [Sessions -> Line]
    BY ResponseTypes, LineParts DEF Init
  <1>2. cmd \in [CmdThreads -> [id : Ids \cup {0}, type : AllTypes]]
    BY DEF Init, NoCmd, AllTypes
  <1>3. NoRet \in [id : Ids \cup {0}, type : AllTypes,
                   err : Errors, of : Ids \cup {0}, n : 0 .. MaxInfo, lines : Seq(Line),
                   clean : BOOLEAN]
    BY BoundsAssumption DEF NoRet, AllTypes, Errors
  <1> QED  BY <1>1, <1>2, <1>3 DEF Init, DataTypes

\* a waiter that is signalled is woken
LEMMA SignalTypes ==
    ASSUME pc \in [CmdThreads -> Pcs], Signal
    PROVE  /\ pc' \in [CmdThreads -> Pcs]
           /\ \A c \in CmdThreads : pc'[c] = pc[c] \/ (pc[c] = "wait" /\ pc'[c] = "woken")
  BY DEF Signal, Pcs

\* a command written is counted, and gets a new id
LEMMA WrittenSent ==
    ASSUME sent \in Ids \cup {0}, NEW c, NEW type, Written(c, type)
    PROVE  sent' = sent + 1 /\ sent' \in Ids /\ clean' \in BOOLEAN
  BY Bounds DEF Written, Ids, Silent

\* at_handshake goes on to its sleep, its next command or its last pause
LEMMA AdvanceTypes ==
    ASSUME ControlTypes, NEW c \in CmdThreads, NEW failed \in BOOLEAN,
           HandshakeAdvance(c, failed)
    PROVE  /\ s_commandmutex' = c
           /\ pc' \in [CmdThreads -> Pcs] /\ pc'[c] \in {"send", "sleep", "pause"}
           /\ \A d \in CmdThreads \ {c} : pc'[d] = pc[d]
           /\ hs' \in [CmdThreads -> HsType]
  <1> DEFINE h == hs[c]
             err == h.err \/ failed
             done == [h EXCEPT !.err = err]
             retry == [i |-> h.i + 1, step |-> 1, err |-> err]
  <1>1. pc \in [CmdThreads -> Pcs] /\ hs \in [CmdThreads -> HsType] /\ h \in HsType
    BY DEF ControlTypes
  <1>2. err \in BOOLEAN
    BY <1>1
  <1>3. /\ s_commandmutex' = c
        /\ \/ pc' = [pc EXCEPT ![c] = "sleep"] /\ hs' = [hs EXCEPT ![c] = done]
           \/ /\ h.i + 1 < HANDSHAKE_RETRY_COUNT
              /\ pc' = [pc EXCEPT ![c] = "send"] /\ hs' = [hs EXCEPT ![c] = retry]
           \/ pc' = [pc EXCEPT ![c] = "pause"] /\ hs' = [hs EXCEPT ![c] = done]
    BY DEF HandshakeAdvance
  <1>4. done \in HsType /\ (h.i + 1 < HANDSHAKE_RETRY_COUNT => retry \in HsType)
    <2> HIDE DEF err, h
    <2> QED  BY <1>1, <1>2, HsTypes
  <1> HIDE DEF done, retry
  <1> QED  BY <1>1, <1>3, <1>4 DEF Pcs

\* command threads keep the types of names and numbers
LEMMA CommandControl ==
    ASSUME ControlTypes, NEW c \in CmdThreads, CommandStep(c) PROVE ControlTypes'
  <1> USE DEF ControlTypes, globalVars, readerVars, modemVars, threadVars
  <1>1. CASE SendCommand(c)
    <2>1. sent' \in Ids \cup {0} /\ clean' \in BOOLEAN
      BY <1>1, WrittenSent DEF SendCommand, NotWritten
    <2> QED  BY <1>1, <2>1 DEF SendCommand, Written, NotWritten, Pcs
  <1>2. CASE Expire(c) BY <1>2 DEF Expire, Pcs
  <1>3. CASE WakeSpuriously(c) BY <1>3 DEF WakeSpuriously, Pcs
  <1>4. CASE ResumeWithoutResponse(c) BY <1>4 DEF ResumeWithoutResponse
  <1>5. CASE ResumeTooEarly(c) BY <1>5 DEF ResumeTooEarly, Pcs
  <1>6. CASE ResumeCommand(c) BY <1>6 DEF ResumeCommand, Pcs
  <1>7. CASE CommandTimesOut(c) BY <1>7 DEF CommandTimesOut
  <1>8. CASE StartHandshake(c) BY <1>8, HsTypes DEF StartHandshake, Pcs
  <1>10. CASE HandshakeSend(c)
    <2>1. CASE Written(c, "NO_RESULT") /\ UNCHANGED hs
      <3>1. sent' \in Ids \cup {0} /\ clean' \in BOOLEAN
        BY <2>1, WrittenSent
      <3>2. /\ s_commandmutex' \in CmdThreads \cup {Nobody}
            /\ pc' \in [CmdThreads -> Pcs]
        BY <1>10, AdvanceTypes DEF HandshakeSend, Pcs
      <3> QED  BY <1>10, <2>1, <3>1, <3>2 DEF HandshakeSend, Written
    <2>2. CASE HandshakeAdvance(c, TRUE) /\ \E err \in Errors : NotWritten(err)
      <3>1. s_commandmutex' = c /\ pc' \in [CmdThreads -> Pcs] /\ hs' \in [CmdThreads -> HsType]
        BY <2>2, AdvanceTypes
      <3> QED  BY <1>10, <2>2, <3>1 DEF HandshakeSend, NotWritten
    <2> QED  BY <1>10, <2>1, <2>2 DEF HandshakeSend
  <1>11. CASE ResumeHandshake(c)
    <2>1. s_commandmutex' = c /\ pc' \in [CmdThreads -> Pcs] /\ hs' \in [CmdThreads -> HsType]
      BY <1>11, AdvanceTypes DEF ResumeHandshake
    <2> QED  BY <1>11, <2>1 DEF ResumeHandshake
  <1>12. CASE HandshakeTimesOut(c)
    <2>1. s_commandmutex' = c /\ pc' \in [CmdThreads -> Pcs] /\ hs' \in [CmdThreads -> HsType]
      BY <1>12, AdvanceTypes DEF HandshakeTimesOut
    <2> QED  BY <1>12, <2>1 DEF HandshakeTimesOut
  <1>13. CASE HandshakeSlept(c) BY <1>13, HsTypes DEF HandshakeSlept, Pcs
  <1>14. CASE HandshakeEnds(c) BY <1>14, HsTypes DEF HandshakeEnds, Pcs
  <1>15. CASE DialEnds(c) BY <1>15 DEF DialEnds
  <1> QED
    BY <1>1, <1>2, <1>3, <1>4, <1>5, <1>6, <1>7, <1>8, <1>10, <1>11, <1>12, <1>13, <1>14,
       <1>15 DEF CommandStep

\* so do the readers
LEMMA ReaderControl ==
    ASSUME ControlTypes, NEW r \in Sessions, ReaderStep(r) PROVE ControlTypes'
  <1> USE DEF ControlTypes, globalVars, readerVars, modemVars, threadVars
  <1>1. CASE ReadLine(r) BY <1>1 DEF ReadLine
  <1>2. CASE ReadPdu(r) BY <1>2 DEF ReadPdu
  <1>3. CASE ProcessLine(r) BY <1>3, SignalTypes DEF ProcessLine
  <1>4. CASE ReadFails(r) BY <1>4 DEF ReadFails
  <1>5. CASE OnReaderClosed(r) BY <1>5, SignalTypes DEF OnReaderClosed
  <1>6. CASE AtClose(r) BY <1>6 DEF AtClose
  <1>7. CASE AtCloseSignal(r) BY <1>7, SignalTypes DEF AtCloseSignal
  <1>8. CASE ReaderDies(r) BY <1>8 DEF ReaderDies
  <1> QED  BY <1>1, <1>2, <1>3, <1>4, <1>5, <1>6, <1>7, <1>8 DEF ReaderStep

\* so do mainLoop and the modem
LEMMA OutsideControl ==
    ASSUME ControlTypes, AtOpen \/ DeviceFails \/ ModemAnswers \/ ModemNotifies
    PROVE  ControlTypes'
  <1> USE DEF ControlTypes, globalVars, readerVars, modemVars, threadVars
  <1>1. CASE AtOpen BY <1>1 DEF AtOpen
  <1>2. CASE DeviceFails BY <1>2 DEF DeviceFails
  <1>3. CASE ModemAnswers BY <1>3 DEF ModemAnswers
  <1>4. CASE ModemNotifies
    <2>1. unsolicited' \in 0 .. MaxUnsolicited
      BY <1>4, Bounds DEF ModemNotifies
    <2>2. clean' \in BOOLEAN
      BY <1>4 DEF ModemNotifies
    <2> QED  BY <1>4, <2>1, <2>2 DEF ModemNotifies
  <1> QED  BY <1>1, <1>2, <1>3, <1>4

Owed == [id : Ids, type : AllTypes, n : 0 .. MaxInfo]
RetType == [id : Ids \cup {0}, type : AllTypes, err : Errors, of : Ids \cup {0},
            n : 0 .. MaxInfo, lines : Seq(Line), clean : BOOLEAN]

\* the lists of the modem stay lists
LEMMA SeqTypes ==
    ASSUME NEW S, NEW s \in Seq(S)
    PROVE  /\ << >> \in Seq(S)
           /\ \A e \in S : Append(s, e) \in Seq(S) /\ <<e>> \o s \in Seq(S)
           /\ \A d, e \in S : s \o <<d, e>> \in Seq(S)
           /\ s # << >> => Head(s) \in S /\ Tail(s) \in Seq(S)
  OBVIOUS

\* the answer that the modem has begun is the first it owes
LEMMA ReplaceFirst ==
    ASSUME NEW S, NEW s \in Seq(S), s # << >>, NEW e \in S
    PROVE  /\ [s EXCEPT ![1] = e] \in Seq(S)
           /\ Len([s EXCEPT ![1] = e]) = Len(s)
           /\ [s EXCEPT ![1] = e][1] = e
  BY ExceptSeq

\* the information lines that a command returns are those that were taken
LEMMA ReverseTypes ==
    ASSUME NEW S, NEW s \in Seq(S)
    PROVE  /\ Reverse(s) \in Seq(S) /\ Len(Reverse(s)) = Len(s)
           /\ \A i \in 1 .. Len(s) : Reverse(s)[i] = s[Len(s) - i + 1]
  BY DEF Reverse

\* a command written leaves a pending response and something owed
LEMMA WrittenTypes ==
    ASSUME DataTypes, sent \in Ids \cup {0}, NEW c \in CmdThreads, NEW type \in AllTypes,
           Written(c, type)
    PROVE  /\ sp_response' \in Response
           /\ cmd' \in [CmdThreads -> [id : Ids \cup {0}, type : AllTypes]]
           /\ unanswered' \in Seq(Owed)
  <1>1. sent + 1 \in Ids
    BY WrittenSent
  <1>2. sp_response' \in Response
    BY <1>1, ResponseTypes DEF Written
  <1>3. [id |-> sent + 1, type |-> type] \in [id : Ids \cup {0}, type : AllTypes]
    BY <1>1
  <1>4. [id |-> sent + 1, type |-> type, n |-> 0] \in Owed
    BY <1>1, Bounds DEF Owed
  <1>5. unanswered \in Seq(Owed)
    BY DEF DataTypes, Owed
  <1>6. unanswered' \in Seq(Owed)
    BY <1>4, <1>5, SeqTypes DEF Written
  <1> QED  BY <1>2, <1>3, <1>6 DEF Written, DataTypes

\* an error is something a command may return
LEMMA RetTypes ==
    /\ \A err \in Errors : Failed(err) \in RetType
    /\ NoRet \in RetType
  <1>1. 0 \in 0 .. MaxInfo /\ "NO_RESULT" \in AllTypes /\ None \in Errors
    BY Bounds DEF AllTypes, Errors
  <1>2. << >> \in Seq(Line)
    OBVIOUS
  <1>3. NoRet \in RetType
    <2> HIDE DEF None
    <2> QED  BY <1>1, <1>2 DEF NoRet, RetType
  <1> QED  BY <1>3 DEF Failed, RetType

\* so is a response
LEMMA TakeResponseType ==
    ASSUME ControlTypes, DataTypes, NEW c \in CmdThreads
    PROVE  TakeResponse(c) \in RetType
  <1>1. /\ cmd[c].id \in Ids \cup {0} /\ cmd[c].type \in AllTypes
    BY DEF DataTypes
  <1>2. ReturnCode(cmd[c].type) \in Errors
    BY DEF ReturnCode, Errors
  <1>3. /\ sp_response.finalResponse.of \in Ids \cup {0}
        /\ sp_response.finalResponse.n \in 0 .. MaxInfo
        /\ sp_response.p_intermediates \in Seq(Line)
    BY ResponseTypes, LineParts DEF DataTypes
  <1>4. Reverse(sp_response.p_intermediates) \in Seq(Line)
    BY <1>3, ReverseTypes
  <1>5. clean \in BOOLEAN
    BY DEF ControlTypes
  <1> QED  BY <1>1, <1>2, <1>3, <1>4, <1>5 DEF TakeResponse, RetType

\* command threads keep the types of commands and lines
LEMMA CommandData ==
    ASSUME ControlTypes, DataTypes, NEW c \in CmdThreads, CommandStep(c) PROVE DataTypes'
  <1> USE TypesAssumption, ResponseTypes
      DEF DataTypes, globalVars, readerVars, modemVars, threadVars
  <1>0. NoCmd \in [id : Ids \cup {0}, type : AllTypes] /\ "NO_RESULT" \in AllTypes
    BY DEF NoCmd, AllTypes
  <1> HIDE DEF NoCmd
  <1>1. CASE SendCommand(c)
    <2>1. ASSUME NEW type \in Types, Written(c, type), ret' = [ret EXCEPT ![c] = NoRet]
          PROVE  DataTypes'
      <3>1. /\ sp_response' \in Response
            /\ cmd' \in [CmdThreads -> [id : Ids \cup {0}, type : AllTypes]]
            /\ unanswered' \in Seq(Owed)
        BY <2>1, WrittenTypes DEF ControlTypes
      <3>2. ret' \in [CmdThreads -> RetType]
        BY <2>1, RetTypes DEF RetType
      <3>3. UNCHANGED <<rline, rx>>
        BY <1>1, <2>1 DEF SendCommand, Written
      <3> QED  BY <3>1, <3>2, <3>3 DEF Owed, RetType
    <2>2. ASSUME NEW err \in Errors, NotWritten(err), ret' = [ret EXCEPT ![c] = Failed(err)],
                 UNCHANGED cmd
          PROVE  DataTypes'
      <3>1. ret' \in [CmdThreads -> RetType]
        BY <2>2, RetTypes DEF RetType
      <3>2. UNCHANGED <<cmd, rline, unanswered, rx>> /\ sp_response' = NoResponse
        BY <1>1, <2>2 DEF SendCommand, NotWritten
      <3> QED  BY <3>1, <3>2 DEF RetType
    <2> QED  BY <1>1, <2>1, <2>2 DEF SendCommand
  <1>2. CASE Expire(c) \/ WakeSpuriously(c) \/ ResumeWithoutResponse(c) \/ ResumeTooEarly(c)
    BY <1>2 DEF Expire, WakeSpuriously, ResumeWithoutResponse, ResumeTooEarly
  <1>6. CASE ResumeCommand(c)
    <2>1. ret' \in [CmdThreads -> RetType]
      BY <1>6, TakeResponseType DEF ResumeCommand, RetType
    <2>2. /\ sp_response' = NoResponse /\ cmd' = [cmd EXCEPT ![c] = NoCmd]
          /\ UNCHANGED <<rline, unanswered, rx>>
      BY <1>6 DEF ResumeCommand
    <2> QED  BY <1>0, <2>1, <2>2 DEF RetType
  <1>7. CASE CommandTimesOut(c) BY <1>7 DEF CommandTimesOut
  <1>8. CASE StartHandshake(c) \/ DialEnds(c)
    <2>1. ret' \in [CmdThreads -> RetType]
      BY <1>8, RetTypes DEF StartHandshake, DialEnds, RetType
    <2> QED  BY <1>8, <2>1 DEF StartHandshake, DialEnds, RetType
  <1>10. CASE HandshakeSend(c)
    <2>1. CASE Written(c, "NO_RESULT")
      <3>1. /\ sp_response' \in Response
            /\ cmd' \in [CmdThreads -> [id : Ids \cup {0}, type : AllTypes]]
            /\ unanswered' \in Seq(Owed)
        BY <1>0, <2>1, WrittenTypes DEF ControlTypes
      <3>3. UNCHANGED <<ret, rline, rx>>
        BY <1>10, <2>1 DEF HandshakeSend, Written
      <3> QED  BY <3>1, <3>3 DEF Owed
    <2>2. CASE UNCHANGED cmd /\ \E err \in Errors : NotWritten(err)
      BY <1>10, <2>2 DEF HandshakeSend, NotWritten
    <2> QED  BY <1>10, <2>1, <2>2 DEF HandshakeSend
  <1>11. CASE ResumeHandshake(c) \/ HandshakeTimesOut(c)
    BY <1>11 DEF ResumeHandshake, HandshakeTimesOut
  <1>13. CASE HandshakeSlept(c) BY <1>13 DEF HandshakeSlept
  <1>14. CASE HandshakeEnds(c)
    BY <1>0, <1>14 DEF HandshakeEnds
  <1> QED
    BY <1>1, <1>2, <1>6, <1>7, <1>8, <1>10, <1>11, <1>13, <1>14 DEF CommandStep

\* what the reader does to the pending response
LEMMA ProcessLineTypes ==
    ASSUME DataTypes, NEW r \in Sessions, ProcessLine(r)
    PROVE  sp_response' \in Response
  <1> DEFINE line == rline[r]
  <1>1. line \in Line /\ sp_response \in Response
    BY DEF DataTypes
  <1>2. CASE sp_response' = [sp_response EXCEPT !.finalResponse = line,
                                                !.success = line.kind = "ok"]
    <2>1. (line.kind = "ok") \in BOOLEAN
      OBVIOUS
    <2> DEFINE ok == line.kind = "ok"
    <2>2. sp_response' = [sp_response EXCEPT !.finalResponse = line, !.success = ok]
      BY <1>2
    <2> HIDE DEF ok
    <2> QED  BY <1>1, <2>1, <2>2, ResponseTypes DEF ok
  <1>3. CASE sp_response' = [sp_response EXCEPT !.p_intermediates = <<line>> \o @]
    <2>1. <<line>> \o sp_response.p_intermediates \in Seq(Line)
      BY <1>1, ResponseTypes, SeqTypes
    <2> QED  BY <1>1, <1>3, <2>1, ResponseTypes
  <1> QED  BY <1>1, <1>2, <1>3 DEF ProcessLine

\* so do the readers
LEMMA ReaderData ==
    ASSUME ControlTypes, DataTypes, NEW r \in Sessions, ReaderStep(r) PROVE DataTypes'
  <1> USE DEF DataTypes, globalVars, readerVars, modemVars, threadVars
  <1>1. CASE ReadLine(r)
    <2>1. Head(rx) \in Line /\ Tail(rx) \in Seq(Line)
      BY <1>1, SeqTypes DEF ReadLine
    <2> QED  BY <1>1, <2>1 DEF ReadLine
  <1>2. CASE ReadPdu(r)
    <2>1. Tail(rx) \in Seq(Line)
      BY <1>2, SeqTypes DEF ReadPdu
    <2> QED  BY <1>2, <2>1 DEF ReadPdu
  <1>3. CASE ProcessLine(r)
    <2>1. sp_response' \in Response /\ NoLine \in Line
      BY <1>3, ProcessLineTypes, LineParts
    <2>2. UNCHANGED <<cmd, ret, unanswered, rx>> /\ rline' = [rline EXCEPT ![r] = NoLine]
      BY <1>3 DEF ProcessLine
    <2> QED  BY <2>1, <2>2
  <1>4. CASE ReadFails(r) \/ OnReaderClosed(r) \/ AtClose(r) \/ AtCloseSignal(r) \/ ReaderDies(r)
    BY <1>4 DEF ReadFails, OnReaderClosed, AtClose, AtCloseSignal, ReaderDies
  <1> QED  BY <1>1, <1>2, <1>3, <1>4 DEF ReaderStep

\* what the modem sends
LEMMA ModemAnswersTypes ==
    ASSUME DataTypes, ModemAnswers
    PROVE  rx' \in Seq(Line) /\ unanswered' \in Seq(Owed)
  <1> DEFINE q == Head(unanswered)
             info == [kind |-> "info", type |-> q.type, of |-> q.id, n |-> q.n + 1]
             last(kind) == [kind |-> kind, type |-> None, of |-> q.id, n |-> q.n]
  <1>1. unanswered \in Seq(Owed) /\ unanswered # << >> /\ q \in Owed /\ rx \in Seq(Line)
    BY SeqTypes DEF DataTypes, Owed, ModemAnswers
  <1>2. q.id \in Ids /\ q.type \in AllTypes /\ q.n \in 0 .. MaxInfo
    BY <1>1 DEF Owed
  <1>3. CASE q.n < MaxInfo /\ rx' = Append(rx, info)
             /\ unanswered' = [unanswered EXCEPT ![1].n = q.n + 1]
    <2>1. q.n + 1 \in 0 .. MaxInfo
      BY <1>2, <1>3, Bounds
    <2>2. info \in Line
      BY <1>2, <2>1, LineParts
    <2>3. [unanswered[1] EXCEPT !.n = q.n + 1] \in Owed
      BY <1>1, <1>2, <2>1 DEF Owed
    <2>4. unanswered' = [unanswered EXCEPT ![1] = [unanswered[1] EXCEPT !.n = q.n + 1]]
      BY <1>3
    <2>5. unanswered' \in Seq(Owed)
      BY <1>1, <2>3, <2>4, ReplaceFirst
    <2> HIDE DEF info
    <2> QED  BY <1>1, <1>3, <2>2, <2>5, SeqTypes
  <1>4. ASSUME NEW kind \in {"ok", "error"}, rx' = Append(rx, last(kind)),
               unanswered' = Tail(unanswered)
        PROVE  rx' \in Seq(Line) /\ unanswered' \in Seq(Owed)
    <2>1. last(kind) \in Line
      BY <1>2, LineParts
    <2> HIDE DEF last
    <2> QED  BY <1>1, <1>4, <2>1, SeqTypes
  <1> QED  BY <1>3, <1>4 DEF ModemAnswers

\* so do mainLoop and the modem
LEMMA OutsideData ==
    ASSUME ControlTypes, DataTypes, AtOpen \/ DeviceFails \/ ModemAnswers \/ ModemNotifies
    PROVE  DataTypes'
  <1> USE DEF DataTypes, globalVars, readerVars, modemVars, threadVars
  <1>1. CASE AtOpen
    <2>0. << >> \in Seq(Line) /\ << >> \in Seq(Owed)
      BY SeqTypes
    <2>1. rx' \in Seq(Line) /\ unanswered' \in Seq(Owed)
      BY <1>1, <2>0 DEF AtOpen, Owed
    <2>2. sp_response' \in Response /\ UNCHANGED <<cmd, ret, rline>>
      BY <1>1, ResponseTypes DEF AtOpen
    <2> QED  BY <2>1, <2>2 DEF Owed
  <1>2. CASE DeviceFails BY <1>2 DEF DeviceFails
  <1>3. CASE ModemAnswers
    <2>1. rx' \in Seq(Line) /\ unanswered' \in Seq(Owed)
      BY <1>3, ModemAnswersTypes
    <2> QED  BY <1>3, <2>1 DEF ModemAnswers, Owed
  <1>4. CASE ModemNotifies
    <2>1. rx' \in Seq(Line)
      <3> DEFINE other == Spontaneous("other") header == Spontaneous("header")
                 pdu == Spontaneous("pdu") error == Spontaneous("error")
      <3>1. other \in Line /\ header \in Line /\ pdu \in Line /\ error \in Line
        BY LineParts
      <3>2. rx' = Append(rx, other) \/ rx' = rx \o <<header, pdu>> \/ rx' = Append(rx, error)
        BY <1>4 DEF ModemNotifies
      <3>3. rx \in Seq(Line)
        OBVIOUS
      <3>4. ASSUME NEW a \in Line, NEW b \in Line
            PROVE  Append(rx, a) \in Seq(Line) /\ rx \o <<a, b>> \in Seq(Line)
        BY <3>3, SeqTypes
      <3> HIDE DEF other, header, pdu, error
      <3>5. CASE rx' = Append(rx, other)  BY <3>1, <3>4, <3>5
      <3>6. CASE rx' = rx \o <<header, pdu>>  BY <3>1, <3>4, <3>6
      <3>7. CASE rx' = Append(rx, error)  BY <3>1, <3>4, <3>7
      <3> QED  BY <3>2, <3>5, <3>6, <3>7
    <2> QED  BY <1>4, <2>1 DEF ModemNotifies
  <1> QED  BY <1>1, <1>2, <1>3, <1>4

\* Every step of the program or its environment is one of these.
LEMMA Steps ==
    [Next]_vars <=>
        \/ \E c \in CmdThreads : CommandStep(c)
        \/ \E r \in Sessions : ReaderStep(r)
        \/ AtOpen \/ DeviceFails \/ ModemAnswers \/ ModemNotifies
        \/ UNCHANGED vars
  BY DEF Next

\* every step keeps every type
LEMMA NextTypes == TypeOK /\ [Next]_vars => TypeOK'
  <1>1. ASSUME ControlTypes, DataTypes, [Next]_vars PROVE ControlTypes' /\ DataTypes'
    <2>1. CASE UNCHANGED vars
      BY <1>1, <2>1 DEF vars, globalVars, readerVars, modemVars, threadVars, ControlTypes, DataTypes
    <2> QED
      BY <1>1, <2>1, Steps, CommandControl, CommandData, ReaderControl, ReaderData,
         OutsideControl, OutsideData
  <1>2. TypeOK' <=> ControlTypes' /\ DataTypes'
    BY TypeParts, PTL
  <1> QED  BY <1>1, <1>2, TypeParts

\* Every variable keeps its type: a pending response, what a command returned and
\* what is to be read are built of lines, and counts stay within their bounds
\* (atchannel.c, all of it).
THEOREM TypeCorrect == Spec => []TypeOK
  <1>1. Init => TypeOK
    BY InitControl, InitData, TypeParts
  <1> QED  BY <1>1, NextTypes, PTL DEF Spec

-----------------------------------------------------------------------------
(* Sessions: the reader, the descriptor and the flags.                      *)

sessionVars == <<s_fd, s_readerClosed, reader, rfd, rline>>

\* Commands do not touch what the readers work with.
LEMMA CommandKeepsSession ==
    ASSUME NEW c, CommandStep(c)
    PROVE  UNCHANGED sessionVars
  <1> USE DEF globalVars, readerVars, modemVars, threadVars, sessionVars, Written, NotWritten
  <1>1. CASE SendCommand(c) BY <1>1 DEF SendCommand
  <1>2. CASE Expire(c) \/ WakeSpuriously(c) \/ ResumeWithoutResponse(c) \/ ResumeTooEarly(c)
    BY <1>2 DEF Expire, WakeSpuriously, ResumeWithoutResponse, ResumeTooEarly
  <1>3. CASE ResumeCommand(c) \/ CommandTimesOut(c) \/ StartHandshake(c)
    BY <1>3 DEF ResumeCommand, CommandTimesOut, StartHandshake
  <1>4. CASE HandshakeSend(c) BY <1>4 DEF HandshakeSend
  <1>5. CASE ResumeHandshake(c) \/ HandshakeTimesOut(c) \/ HandshakeSlept(c) \/ HandshakeEnds(c)
    BY <1>5 DEF ResumeHandshake, HandshakeTimesOut, HandshakeSlept, HandshakeEnds
  <1>6. CASE DialEnds(c) BY <1>6 DEF DialEnds
  <1> QED  BY <1>1, <1>2, <1>3, <1>4, <1>5, <1>6 DEF CommandStep

\* the modem does not touch what is shared by the threads
LEMMA ModemKeepsSession ==
    ASSUME DeviceFails \/ ModemAnswers \/ ModemNotifies \/ UNCHANGED vars
    PROVE  UNCHANGED <<sessionVars, s_closed, sp_response, pc, cmd, hs, ret,
                       s_commandmutex, ended>>
  BY DEF DeviceFails, ModemAnswers, ModemNotifies, vars, globalVars, readerVars, modemVars,
         threadVars, sessionVars

\* a session that is not touched is served as before
LEMMA ServedKept ==
    ASSUME ChannelServed, UNCHANGED sessionVars PROVE ChannelServed'
  BY DEF ChannelServed, sessionVars

\* a reader serves its session until it has ended it
LEMMA ReaderServes ==
    ASSUME ControlTypes, ChannelServed, NEW r \in Sessions, ReaderStep(r)
    PROVE  ChannelServed'
  <1> USE DEF ControlTypes, ChannelServed, globalVars
  <1>1. CASE ReadLine(r) BY <1>1 DEF ReadLine
  <1>2. CASE ReadPdu(r) BY <1>2 DEF ReadPdu
  <1>3. CASE ProcessLine(r) BY <1>3 DEF ProcessLine
  <1>4. CASE ReadFails(r) BY <1>4 DEF ReadFails
  <1>5. CASE OnReaderClosed(r) BY <1>5 DEF OnReaderClosed
  <1>6. CASE AtClose(r) BY <1>6 DEF AtClose
  <1>7. CASE AtCloseSignal(r) BY <1>7 DEF AtCloseSignal
  <1>8. CASE ReaderDies(r) BY <1>8 DEF ReaderDies
  <1> QED  BY <1>1, <1>2, <1>3, <1>4, <1>5, <1>6, <1>7, <1>8 DEF ReaderStep

\* A channel that accepts commands has a reader that will deliver their answers
\* or report its end (atchannel.c:457-524, 628-696), for any number of threads
\* and whatever is reopened when.
THEOREM ChannelIsServed == Spec => []ChannelServed
  <1>1. Init => ChannelServed
    BY DEF Init, ChannelServed
  <1>2. TypeOK /\ ChannelServed /\ [Next]_vars => ChannelServed'
    <2> SUFFICES ASSUME ControlTypes, ChannelServed, [Next]_vars PROVE ChannelServed'
      BY TypeParts
    <2>1. ASSUME NEW c \in CmdThreads, CommandStep(c) PROVE ChannelServed'
      BY <2>1, CommandKeepsSession, ServedKept
    <2>2. ASSUME AtOpen PROVE ChannelServed'
      BY <2>2 DEF AtOpen, ChannelServed, ControlTypes
    <2>3. ASSUME DeviceFails \/ ModemAnswers \/ ModemNotifies \/ UNCHANGED vars
          PROVE  ChannelServed'
      BY <2>3, ModemKeepsSession, ServedKept
    <2> QED  BY <2>1, <2>2, <2>3, ReaderServes, Steps
  <1> QED  BY <1>1, <1>2, TypeCorrect, PTL DEF Spec

-----------------------------------------------------------------------------
(* The wait of the only command thread.                                     *)

\* a signal wakes the only waiter
LEMMA SignalWakes ==
    ASSUME OneThread, pc \in [CmdThreads -> Pcs], Signal
    PROVE  /\ \A c \in CmdThreads : pc'[c] # "wait"
           /\ \A c \in CmdThreads : pc[c] # "wait" => pc'[c] = pc[c]
           /\ \A c \in CmdThreads : pc[c] = "wait" => pc'[c] = "woken"
  BY DEF OneThread, Signal, Pcs

\* a waiter that is not touched is as well off as before
LEMMA SignalKept ==
    ASSUME NoLostSignal, UNCHANGED <<sp_response, s_readerClosed>>,
           \A c \in CmdThreads : pc'[c] = "wait" => pc[c] = "wait" \/ ~Answered
    PROVE  NoLostSignal'
  BY DEF NoLostSignal, Answered

\* a command begins to wait when it has not been answered
LEMMA CommandSignal ==
    ASSUME OneThread, ControlTypes, NoLostSignal, NEW c \in CmdThreads, CommandStep(c)
    PROVE  NoLostSignal'
  <1> USE DEF OneThread, ControlTypes, NoLostSignal, globalVars, Pcs
  <1>0. ASSUME sp_response' = NoResponse PROVE NoLostSignal'
    BY <1>0
  <1>a. ASSUME NEW type, Written(c, type) PROVE NoLostSignal'
    <2>1. sp_response'.finalResponse = NoLine /\ ~s_readerClosed'
      BY <1>a DEF Written, Writable, NewResponse
    <2> QED  BY <2>1 DEF Answered
  <1>b. ASSUME NEW failed \in BOOLEAN, HandshakeAdvance(c, failed) PROVE pc'[c] # "wait"
    BY <1>b, AdvanceTypes
  <1>1. CASE SendCommand(c)
    BY <1>0, <1>a, <1>1 DEF SendCommand, NotWritten
  <1>2. CASE Expire(c) \/ WakeSpuriously(c)
    BY <1>2 DEF Expire, WakeSpuriously, Answered
  <1>4. CASE ResumeWithoutResponse(c) \/ CommandTimesOut(c)
    BY <1>4 DEF ResumeWithoutResponse, CommandTimesOut, threadVars
  <1>5. CASE ResumeTooEarly(c)
    BY <1>5 DEF ResumeTooEarly, Answered
  <1>6. CASE ResumeCommand(c) BY <1>0, <1>6 DEF ResumeCommand
  <1>8. CASE StartHandshake(c) BY <1>8 DEF StartHandshake, Answered
  <1>10. CASE HandshakeSend(c)
    BY <1>0, <1>a, <1>10 DEF HandshakeSend, NotWritten
  <1>11. CASE ResumeHandshake(c) \/ HandshakeTimesOut(c)
    BY <1>0, <1>11 DEF ResumeHandshake, HandshakeTimesOut
  <1>13. CASE HandshakeSlept(c) \/ HandshakeEnds(c)
    BY <1>13 DEF HandshakeSlept, HandshakeEnds, Answered
  <1>15. CASE DialEnds(c) BY <1>15 DEF DialEnds, Answered, threadVars
  <1> QED
    BY <1>1, <1>2, <1>4, <1>5, <1>6, <1>8, <1>10, <1>11, <1>13, <1>15 DEF CommandStep

\* the reader signals whatever ends a wait
LEMMA ReaderSignal ==
    ASSUME OneThread, ControlTypes, NoLostSignal, NEW r \in Sessions, ReaderStep(r)
    PROVE  NoLostSignal'
  <1> USE DEF globalVars, threadVars
  <1>0. ASSUME Signal PROVE NoLostSignal'
    BY <1>0, SignalWakes DEF NoLostSignal, ControlTypes
  <1>1. CASE ReadLine(r) \/ ReadPdu(r) \/ ReadFails(r) \/ AtClose(r) \/ ReaderDies(r)
    BY <1>1, SignalKept DEF ReadLine, ReadPdu, ReadFails, AtClose, ReaderDies
  <1>2. CASE OnReaderClosed(r) \/ AtCloseSignal(r)
    BY <1>0, <1>2 DEF OnReaderClosed, AtCloseSignal
  <1>3. CASE ProcessLine(r)
    <2>1. CASE Signal
      BY <1>0, <2>1
    <2>2. CASE UNCHANGED <<sp_response, pc>>
      BY <1>3, <2>2, SignalKept DEF ProcessLine
    <2>3. CASE /\ sp_response # NoResponse /\ UNCHANGED pc
               /\ sp_response' = [sp_response EXCEPT !.p_intermediates = <<rline[r]>> \o @]
      <3>1. UNCHANGED s_readerClosed
        BY <1>3 DEF ProcessLine
      <3>2. sp_response'.finalResponse = sp_response.finalResponse \/ Answered
        BY <2>3
      <3> QED  BY <2>3, <3>1, <3>2 DEF NoLostSignal, Answered
    <2> QED  BY <1>3, <2>1, <2>2, <2>3 DEF ProcessLine
  <1> QED  BY <1>1, <1>2, <1>3 DEF ReaderStep

\* No waiter is forgotten: once the final response is in or the channel is closed,
\* the thread that waits for it has been signalled (atchannel.c:233-238, 464-470,
\* 687-693, 783-798), with one command thread and whatever is reopened when.
THEOREM NoSignalIsLost == ASSUME OneThread PROVE Spec => []NoLostSignal
  <1>1. Init => NoLostSignal
    BY DEF Init, NoLostSignal
  <1>2. TypeOK /\ NoLostSignal /\ [Next]_vars => NoLostSignal'
    <2> SUFFICES ASSUME ControlTypes, NoLostSignal, [Next]_vars PROVE NoLostSignal'
      BY TypeParts
    <2>1. CASE AtOpen
      BY <2>1 DEF AtOpen, NoLostSignal
    <2>2. CASE DeviceFails \/ ModemAnswers \/ ModemNotifies \/ UNCHANGED vars
      BY <2>2, ModemKeepsSession, SignalKept DEF sessionVars
    <2> QED  BY <2>1, <2>2, CommandSignal, ReaderSignal, Steps
  <1> QED  BY <1>1, <1>2, TypeCorrect, PTL DEF Spec

-----------------------------------------------------------------------------
(* The pending response.                                                    *)

\* a new response has the id of its command, and no response has none
LEMMA PendingTypes ==
    /\ \A id \in Ids : \A type : NewResponse(id, type).id # 0
    /\ \A id, type : /\ NewResponse(id, type).id = id /\ NewResponse(id, type).type = type
                     /\ NewResponse(id, type).finalResponse = NoLine
                     /\ NewResponse(id, type).p_intermediates = << >>
    /\ NoResponse.id = 0
  BY DEF NewResponse, NoResponse, Ids

\* who waits, and for what, is as before
LEMMA WaitKept ==
    ASSUME WaitInv, UNCHANGED <<sp_response, cmd>>,
           \A c \in CmdThreads : InCommand(c)' => InCommand(c)
    PROVE  WaitInv'
  BY DEF WaitInv, Pending

\* a command waits for the response that it has made pending
\* a command waits for the response that it has made pending
LEMMA CommandWait ==
    ASSUME OneThread, ControlTypes, DataTypes, WaitInv, NEW c \in CmdThreads, CommandStep(c)
    PROVE  WaitInv'
  <1> USE DEF ControlTypes, Pcs, threadVars, globalVars
  <1>0. pc \in [CmdThreads -> Pcs] /\ cmd \in [CmdThreads -> [id : Ids \cup {0}, type : AllTypes]]
    BY DEF DataTypes
  <1>a. ASSUME NEW type, Written(c, type) PROVE WaitInv'
    <2>1. sp_response'.id = sent + 1 /\ sp_response'.type = type /\ sent + 1 \in Ids
      <3>1. sp_response' = NewResponse(sent + 1, type)
        BY <1>a DEF Written
      <3>2. sent + 1 \in Ids
        BY <1>a, WrittenSent
      <3> QED  BY <3>1, <3>2, PendingTypes
    <2>2. cmd'[c].id = sent + 1 /\ cmd'[c].type = type
      BY <1>0, <1>a DEF Written
    <2>3. sp_response'.id # 0
      BY <2>1 DEF Ids
    <2> QED
      BY <1>a, <2>1, <2>2, <2>3, PendingTypes DEF WaitInv, Pending, InCommand, OneThread
  <1>b. ASSUME sp_response' = NoResponse PROVE WaitInv'
    BY <1>b, PendingTypes DEF WaitInv, Pending
  <1>1. CASE SendCommand(c) \/ HandshakeSend(c)
    BY <1>a, <1>b, <1>1 DEF SendCommand, HandshakeSend, NotWritten
  <1>2. CASE Expire(c) \/ WakeSpuriously(c) \/ ResumeTooEarly(c)
    BY <1>2, WaitKept DEF Expire, WakeSpuriously, ResumeTooEarly, InCommand
  <1>3. CASE ResumeWithoutResponse(c) \/ DialEnds(c)
    BY <1>3, WaitKept DEF ResumeWithoutResponse, DialEnds, InCommand
  <1>4. CASE CommandTimesOut(c) \/ ResumeCommand(c) \/ ResumeHandshake(c) \/ HandshakeTimesOut(c)
    BY <1>b, <1>4 DEF CommandTimesOut, ResumeCommand, ResumeHandshake, HandshakeTimesOut
  <1>5. CASE StartHandshake(c) \/ HandshakeSlept(c)
    BY <1>5, WaitKept DEF StartHandshake, HandshakeSlept, InCommand
  <1>6. CASE HandshakeEnds(c)
    <2>1. UNCHANGED sp_response /\ pc'[c] = "idle"
      BY <1>6 DEF HandshakeEnds
    <2> QED  BY <2>1 DEF WaitInv, InCommand, OneThread, Pending
  <1> QED  BY <1>1, <1>2, <1>3, <1>4, <1>5, <1>6 DEF CommandStep

SameCommand == sp_response'.id = sp_response.id /\ sp_response'.type = sp_response.type

\* what processLine makes of the pending response
LEMMA LineProcessed ==
    ASSUME DataTypes, NEW r \in Sessions, ProcessLine(r)
    PROVE  \/ /\ sp_response # NoResponse /\ isFinalResponse(rline[r]) /\ SameCommand
              /\ sp_response'.finalResponse = rline[r]
              /\ sp_response'.p_intermediates = sp_response.p_intermediates
           \/ /\ sp_response # NoResponse /\ ~isFinalResponse(rline[r]) /\ SameCommand
              /\ IsIntermediate(rline[r], sp_response)
              /\ sp_response'.finalResponse = sp_response.finalResponse
              /\ sp_response'.p_intermediates = <<rline[r]>> \o sp_response.p_intermediates
           \/ /\ UNCHANGED sp_response
              /\ sp_response = NoResponse \/ (~isFinalResponse(rline[r])
                                            /\ ~IsIntermediate(rline[r], sp_response))
  <1> DEFINE line == rline[r]
             ok == line.kind = "ok"
  <1>1. sp_response \in Response /\ ok \in BOOLEAN
    BY DEF DataTypes
  <1>2. ASSUME NEW e, NEW l, NEW b, e = [sp_response EXCEPT !.finalResponse = l, !.success = b]
        PROVE  /\ e.id = sp_response.id /\ e.type = sp_response.type /\ e.finalResponse = l
               /\ e.p_intermediates = sp_response.p_intermediates
    BY <1>1, <1>2 DEF Response
  <1>3. ASSUME NEW e, NEW p, e = [sp_response EXCEPT !.p_intermediates = p]
        PROVE  /\ e.id = sp_response.id /\ e.type = sp_response.type /\ e.p_intermediates = p
               /\ e.finalResponse = sp_response.finalResponse
    BY <1>1, <1>3 DEF Response
  <1>4. \/ /\ sp_response # NoResponse /\ isFinalResponse(line)
           /\ sp_response' = [sp_response EXCEPT !.finalResponse = line, !.success = ok]
        \/ /\ sp_response # NoResponse /\ ~isFinalResponse(line)
           /\ IsIntermediate(line, sp_response)
           /\ sp_response' = [sp_response EXCEPT !.p_intermediates
                                  = <<line>> \o sp_response.p_intermediates]
        \/ /\ UNCHANGED sp_response
           /\ sp_response = NoResponse \/ (~isFinalResponse(line)
                                         /\ ~IsIntermediate(line, sp_response))
    BY DEF ProcessLine
  <1> HIDE DEF ok
  <1>5. CASE sp_response' = [sp_response EXCEPT !.finalResponse = line, !.success = ok]
             /\ sp_response # NoResponse /\ isFinalResponse(line)
    BY <1>2, <1>5 DEF SameCommand
  <1>6. CASE sp_response' = [sp_response EXCEPT !.p_intermediates
                                = <<line>> \o sp_response.p_intermediates]
             /\ sp_response # NoResponse /\ ~isFinalResponse(line)
             /\ IsIntermediate(line, sp_response)
    BY <1>3, <1>6 DEF SameCommand
  <1> QED  BY <1>4, <1>5, <1>6

\* The reader adds to the pending response, and wakes who waits for it.
LEMMA ReaderWait ==
    ASSUME ControlTypes, DataTypes, WaitInv, NEW r \in Sessions, ReaderStep(r)
    PROVE  WaitInv'
  <1> USE DEF globalVars, threadVars
  <1>1. UNCHANGED cmd /\ (UNCHANGED pc \/ Signal)
    BY DEF ReaderStep, ReadLine, ReadPdu, ProcessLine, ReadFails, OnReaderClosed, AtClose,
           AtCloseSignal, ReaderDies
  <1>2. \A c \in CmdThreads : InCommand(c)' <=> InCommand(c)
    BY <1>1, SignalTypes DEF ControlTypes, InCommand
  <1>3. CASE UNCHANGED sp_response
    BY <1>1, <1>2, <1>3, WaitKept
  <1>4. CASE ProcessLine(r) /\ sp_response # NoResponse
    <2>1. sp_response'.id = sp_response.id /\ sp_response'.type = sp_response.type
      BY <1>4, LineProcessed DEF SameCommand
    <2>2. sp_response.id # 0 /\ sp_response' # NoResponse
      BY <1>4, <2>1, PendingTypes DEF WaitInv, Pending
    <2> QED  BY <1>1, <1>2, <2>1, <2>2 DEF WaitInv, Pending
  <1>5. UNCHANGED sp_response \/ (ProcessLine(r) /\ sp_response # NoResponse)
    BY DEF ReaderStep, ReadLine, ReadPdu, ProcessLine, ReadFails, OnReaderClosed, AtClose,
           AtCloseSignal, ReaderDies
  <1> QED  BY <1>3, <1>4, <1>5

\* every step keeps the pending response that of the command in progress
LEMMA WaitNext ==
    ASSUME OneThread, TypeOK, WaitInv, [Next]_vars PROVE WaitInv'
  <1>1. ControlTypes /\ DataTypes
    BY TypeParts
  <1>2. CASE AtOpen
    BY <1>2, PendingTypes DEF AtOpen, WaitInv, Pending
  <1>3. CASE DeviceFails \/ ModemAnswers \/ ModemNotifies \/ UNCHANGED vars
    <2>1. UNCHANGED <<sp_response, pc, cmd>>
      BY <1>3, ModemKeepsSession
    <2> QED  BY <2>1, WaitKept DEF InCommand
  <1> QED  BY <1>1, <1>2, <1>3, CommandWait, ReaderWait, Steps

\* so that it always is
LEMMA WaitInvariant == ASSUME OneThread PROVE Spec => []WaitInv
  <1>1. Init => WaitInv
    BY PendingTypes DEF Init, WaitInv, Pending
  <1> QED  BY <1>1, WaitNext, TypeCorrect, PTL DEF Spec


-----------------------------------------------------------------------------
(* What is to come, as lists of lines.                                      *)

\* lines are taken at the head and added at the end
LEMMA HeadAndTail ==
    ASSUME NEW S, NEW s \in Seq(S)
    PROVE  /\ s # << >> => /\ Head(s) = s[1] /\ Tail(s) \in Seq(S) /\ 1 \in DOMAIN s
                           /\ Len(Tail(s)) = Len(s) - 1 /\ Len(s) \in Nat \ {0}
                           /\ \A i \in DOMAIN Tail(s) : Tail(s)[i] = s[i + 1]
                           /\ \A i \in DOMAIN s : i # 1 => i - 1 \in DOMAIN Tail(s)
                           /\ <<Head(s)>> \o Tail(s) = s
           /\ \A e \in S : /\ <<e>> \o s \in Seq(S) /\ <<e>> \o s # << >>
                           /\ Head(<<e>> \o s) = e /\ Tail(<<e>> \o s) = s
           /\ \A d, e \in S : <<d>> \o Append(s, e) = Append(<<d>> \o s, e)
           /\ \A d, e \in S : s \o <<d, e>> = Append(Append(s, d), e)
           /\ \A c, d, e \in S : <<c>> \o (s \o <<d, e>>) = Append(Append(<<c>> \o s, d), e)
  OBVIOUS

\* where a line that is added at the end is found
LEMMA AppendLast ==
    ASSUME NEW S, NEW s \in Seq(S), NEW e \in S
    PROVE  /\ Append(s, e) \in Seq(S) /\ Len(s) \in Nat
           /\ DOMAIN s = 1 .. Len(s) /\ DOMAIN Append(s, e) = 1 .. Len(s) + 1
           /\ \A i \in 1 .. Len(s) : Append(s, e)[i] = s[i]
           /\ Append(s, e)[Len(s) + 1] = e
  OBVIOUS

\* a line that answers a command is neither unasked for nor of another kind
LEMMA LineKinds ==
    ASSUME NEW line
    PROVE  /\ Unasked(line) => ~isFinalResponse(line) /\ line.kind # "info"
           /\ isFinalResponse(line) => line.kind # "info" /\ line.kind # "header"
                                       /\ line # NoLine
           /\ \A id, type, k, m : AnswerLine(line, id, type, k, m) =>
                 ~Unasked(line) /\ line.kind # "header" /\ line.kind # "pdu"
  BY DEF Unasked, isFinalResponse, AnswerLine, NoLine, None

\* a command that nothing is sent for yet is owed its answer
LEMMA AnsweringStarts ==
    ASSUME NEW lines, Quiet(lines), NEW id, NEW type
    PROVE  Answering(lines, <<[id |-> id, type |-> type, n |-> 0]>>, id, type, 0, 0)
  <1>1. \A n : n \notin 0 + 1 .. 0
    OBVIOUS
  <1> QED  BY <1>1, LineKinds DEF Quiet, Answering

\* a line that nobody asked for may come within an answer
LEMMA AnsweringUnasked ==
    ASSUME NEW S, NEW lines \in Seq(S), NEW line \in S, Unasked(line), NEW owed, NEW id,
           NEW type, NEW k \in Nat, NEW m \in Nat, Answering(lines, owed, id, type, k, m)
    PROVE  Answering(Append(lines, line), owed, id, type, k, m)
  <1> DEFINE more == Append(lines, line)
  <1>1. /\ DOMAIN lines = 1 .. Len(lines) /\ DOMAIN more = 1 .. Len(lines) + 1
        /\ Len(lines) \in Nat
        /\ \A i \in 1 .. Len(lines) : more[i] = lines[i]
        /\ more[Len(lines) + 1] = line
    BY AppendLast
  <1> HIDE DEF more
  <1>2. ~isFinalResponse(line) /\ line.kind # "info"
    BY LineKinds
  <1> QED  BY <1>1, <1>2 DEF Answering

\* the modem goes on with the answer it owes ...
LEMMA AnsweringInfo ==
    ASSUME NEW S, NEW lines \in Seq(S), NEW line \in S, NEW id, NEW type, NEW k \in Nat,
           NEW m \in Nat, k <= m,
           Answering(lines, <<[id |-> id, type |-> type, n |-> m]>>, id, type, k, m),
           line.kind = "info", line.type = type, line.of = id, line.n = m + 1
    PROVE  Answering(Append(lines, line), <<[id |-> id, type |-> type, n |-> m + 1]>>,
                     id, type, k, m + 1)
  <1> DEFINE more == Append(lines, line)
  <1>1. /\ DOMAIN lines = 1 .. Len(lines) /\ DOMAIN more = 1 .. Len(lines) + 1
        /\ Len(lines) \in Nat
        /\ \A i \in 1 .. Len(lines) : more[i] = lines[i]
        /\ more[Len(lines) + 1] = line
    BY AppendLast
  <1> HIDE DEF more
  <1>2. /\ \A i \in DOMAIN lines : ~isFinalResponse(lines[i])
        /\ \A i \in DOMAIN lines : Unasked(lines[i]) \/ AnswerLine(lines[i], id, type, k, m)
        /\ \A i, j \in DOMAIN lines :
              i < j /\ ~Unasked(lines[i]) /\ ~Unasked(lines[j]) =>
                  /\ lines[i].kind = "info"
                  /\ lines[j].kind = "info" => lines[i].n < lines[j].n
        /\ \A n \in k + 1 .. m :
              \E i \in DOMAIN lines : lines[i].kind = "info" /\ lines[i].n = n
    BY DEF Answering
  <1>3. ~isFinalResponse(line) /\ AnswerLine(line, id, type, k, m + 1)
    BY DEF isFinalResponse, AnswerLine
  <1>4. ASSUME NEW i \in DOMAIN lines
        PROVE  /\ Unasked(lines[i]) \/ AnswerLine(lines[i], id, type, k, m + 1)
               /\ ~Unasked(lines[i]) => lines[i].kind = "info" /\ lines[i].n < line.n
    BY <1>2, <1>4 DEF AnswerLine
  <1>5. \A i \in DOMAIN more : Unasked(more[i]) \/ AnswerLine(more[i], id, type, k, m + 1)
    BY <1>1, <1>3, <1>4
  <1>6. \A i, j \in DOMAIN more :
           i < j /\ ~Unasked(more[i]) /\ ~Unasked(more[j]) =>
               /\ more[i].kind = "info"
               /\ more[j].kind = "info" => more[i].n < more[j].n
    BY <1>1, <1>2, <1>4
  <1>7. \A n \in k + 1 .. m + 1 : \E i \in DOMAIN more : more[i].kind = "info" /\ more[i].n = n
    <2> SUFFICES ASSUME NEW n \in k + 1 .. m + 1
                 PROVE  \E i \in DOMAIN more : more[i].kind = "info" /\ more[i].n = n
      OBVIOUS
    <2>1. CASE n = m + 1
      BY <1>1, <2>1
    <2>2. CASE n # m + 1
      <3>1. n \in k + 1 .. m
        BY <2>2
      <3> QED  BY <1>1, <1>2, <3>1
    <2> QED  BY <2>1, <2>2
  <1>8. \A i \in DOMAIN more : ~isFinalResponse(more[i])
    BY <1>1, <1>2, <1>3
  <1> QED  BY <1>5, <1>6, <1>7, <1>8 DEF Answering, more

\* ... and ends it
LEMMA AnsweringFinal ==
    ASSUME NEW S, NEW lines \in Seq(S), NEW line \in S, NEW id, NEW type, NEW k \in Nat,
           NEW m \in Nat,
           Answering(lines, <<[id |-> id, type |-> type, n |-> m]>>, id, type, k, m),
           isFinalResponse(line), line.of = id, line.n = m
    PROVE  Answering(Append(lines, line), << >>, id, type, k, m)
  <1> DEFINE more == Append(lines, line)
  <1>1. /\ DOMAIN lines = 1 .. Len(lines) /\ DOMAIN more = 1 .. Len(lines) + 1
        /\ Len(lines) \in Nat
        /\ \A i \in 1 .. Len(lines) : more[i] = lines[i]
        /\ more[Len(lines) + 1] = line
    BY AppendLast
  <1> HIDE DEF more
  <1>2. /\ \A i \in DOMAIN lines : ~isFinalResponse(lines[i])
        /\ \A i \in DOMAIN lines : Unasked(lines[i]) \/ AnswerLine(lines[i], id, type, k, m)
        /\ \A i, j \in DOMAIN lines :
              i < j /\ ~Unasked(lines[i]) /\ ~Unasked(lines[j]) =>
                  /\ lines[i].kind = "info"
                  /\ lines[j].kind = "info" => lines[i].n < lines[j].n
        /\ \A n \in k + 1 .. m :
              \E i \in DOMAIN lines : lines[i].kind = "info" /\ lines[i].n = n
    BY DEF Answering
  <1>3. AnswerLine(line, id, type, k, m) /\ line.kind # "info"
    BY LineKinds DEF AnswerLine
  <1>4. \A i \in DOMAIN lines : ~Unasked(lines[i]) => lines[i].kind = "info"
    BY <1>2 DEF AnswerLine
  <1>5. \A i \in DOMAIN more : Unasked(more[i]) \/ AnswerLine(more[i], id, type, k, m)
    BY <1>1, <1>2, <1>3
  <1>6. \A i, j \in DOMAIN more :
           i < j /\ ~Unasked(more[i]) /\ ~Unasked(more[j]) =>
               /\ more[i].kind = "info"
               /\ more[j].kind = "info" => more[i].n < more[j].n
    BY <1>1, <1>2, <1>3, <1>4
  <1>7. \A n \in k + 1 .. m : \E i \in DOMAIN more : more[i].kind = "info" /\ more[i].n = n
    BY <1>1, <1>2
  <1>8. \E i \in DOMAIN more : isFinalResponse(more[i])
    BY <1>1
  <1> QED  BY <1>5, <1>6, <1>7, <1>8 DEF Answering, more

\* the first line that is to come is unasked for ...
LEMMA UnaskedFirst ==
    ASSUME NEW S, NEW lines \in Seq(S), lines # << >>, Unasked(lines[1]), NEW owed, NEW id,
           NEW type, NEW k \in Nat, NEW m \in Nat, Answering(lines, owed, id, type, k, m)
    PROVE  Answering(Tail(lines), owed, id, type, k, m)
  <1> DEFINE rest == Tail(lines)
  <1>1. /\ DOMAIN rest = 1 .. Len(lines) - 1 /\ Len(lines) \in Nat \ {0}
        /\ DOMAIN lines = 1 .. Len(lines)
        /\ \A i \in DOMAIN rest : rest[i] = lines[i + 1] /\ i + 1 \in DOMAIN lines
        /\ \A i \in DOMAIN lines : i # 1 => i - 1 \in DOMAIN rest /\ rest[i - 1] = lines[i]
    <2>1. /\ Len(rest) = Len(lines) - 1 /\ Len(lines) \in Nat \ {0} /\ rest \in Seq(S)
          /\ \A i \in DOMAIN rest : rest[i] = lines[i + 1]
      BY HeadAndTail
    <2> HIDE DEF rest
    <2> QED  BY <2>1
  <1> HIDE DEF rest
  <1>2. ~isFinalResponse(lines[1]) /\ lines[1].kind # "info"
    BY LineKinds
  <1>3. \A i \in DOMAIN rest : Unasked(rest[i]) \/ AnswerLine(rest[i], id, type, k, m)
    BY <1>1 DEF Answering
  <1>4. \A i, j \in DOMAIN rest :
           i < j /\ ~Unasked(rest[i]) /\ ~Unasked(rest[j]) =>
               /\ rest[i].kind = "info"
               /\ rest[j].kind = "info" => rest[i].n < rest[j].n
    <2> TAKE i, j \in DOMAIN rest
    <2>1. /\ i + 1 \in DOMAIN lines /\ j + 1 \in DOMAIN lines
          /\ rest[i] = lines[i + 1] /\ rest[j] = lines[j + 1] /\ (i < j => i + 1 < j + 1)
      BY <1>1
    <2> QED  BY <2>1 DEF Answering
  <1>5. \A n \in k + 1 .. m : \E i \in DOMAIN rest : rest[i].kind = "info" /\ rest[i].n = n
    <2> TAKE n \in k + 1 .. m
    <2>1. PICK i \in DOMAIN lines : lines[i].kind = "info" /\ lines[i].n = n
      BY DEF Answering
    <2>2. i - 1 \in DOMAIN rest /\ rest[i - 1] = lines[i]
      BY <1>1, <1>2, <2>1
    <2> QED  BY <2>1, <2>2
  <1>6. (\E i \in DOMAIN lines : isFinalResponse(lines[i]))
            <=> (\E i \in DOMAIN rest : isFinalResponse(rest[i]))
    BY <1>1, <1>2
  <1> QED  BY <1>3, <1>4, <1>5, <1>6 DEF Answering, rest

\* ... or the next information line, since none is missing ...
LEMMA InfoFirst ==
    ASSUME NEW S, NEW lines \in Seq(S), lines # << >>, ~Unasked(lines[1]),
           ~isFinalResponse(lines[1]), NEW owed, NEW id, NEW type, NEW k \in Nat,
           NEW m \in Nat, Answering(lines, owed, id, type, k, m)
    PROVE  /\ lines[1].kind = "info" /\ lines[1].type = type /\ lines[1].of = id
           /\ lines[1].n = k + 1 /\ k + 1 <= m
           /\ Answering(Tail(lines), owed, id, type, k + 1, m)
  <1> DEFINE rest == Tail(lines)
  <1>1. /\ DOMAIN rest = 1 .. Len(lines) - 1 /\ Len(lines) \in Nat \ {0}
        /\ DOMAIN lines = 1 .. Len(lines) /\ 1 \in DOMAIN lines
        /\ \A i \in DOMAIN rest : rest[i] = lines[i + 1] /\ i + 1 \in DOMAIN lines
        /\ \A i \in DOMAIN lines : i # 1 => i - 1 \in DOMAIN rest /\ rest[i - 1] = lines[i]
    <2>1. /\ Len(rest) = Len(lines) - 1 /\ Len(lines) \in Nat \ {0} /\ rest \in Seq(S)
          /\ \A i \in DOMAIN rest : rest[i] = lines[i + 1]
      BY HeadAndTail
    <2> HIDE DEF rest
    <2> QED  BY <2>1
  <1> HIDE DEF rest
  <1>2. /\ lines[1].kind = "info" /\ lines[1].type = type /\ lines[1].of = id
        /\ lines[1].n \in k + 1 .. m
    BY <1>1 DEF Answering, AnswerLine
  <1>3. /\ \A i \in DOMAIN lines : Unasked(lines[i]) \/ AnswerLine(lines[i], id, type, k, m)
        /\ \A i, j \in DOMAIN lines :
              i < j /\ ~Unasked(lines[i]) /\ ~Unasked(lines[j]) =>
                  /\ lines[i].kind = "info"
                  /\ lines[j].kind = "info" => lines[i].n < lines[j].n
    BY DEF Answering
  <1>4. \A i \in DOMAIN lines :
           lines[i].kind = "info" /\ i # 1 => lines[1].n < lines[i].n /\ ~Unasked(lines[i])
    <2> TAKE i \in DOMAIN lines
    <2>1. i # 1 => 1 < i
      BY <1>1
    <2>2. lines[i].kind = "info" => ~Unasked(lines[i])
      BY DEF Unasked
    <2> QED  BY <1>1, <1>3, <2>1, <2>2
  <1>5. lines[1].n = k + 1
    <2>1. k + 1 \in k + 1 .. m
      BY <1>2
    <2>2. PICK i \in DOMAIN lines : lines[i].kind = "info" /\ lines[i].n = k + 1
      BY <2>1 DEF Answering
    <2> QED  BY <1>2, <1>4, <2>2
  <1>6. \A i \in DOMAIN rest : Unasked(rest[i]) \/ AnswerLine(rest[i], id, type, k + 1, m)
    <2> TAKE i \in DOMAIN rest
    <2>1. i + 1 \in DOMAIN lines /\ i + 1 # 1 /\ rest[i] = lines[i + 1]
      BY <1>1
    <2>2. Unasked(rest[i]) \/ AnswerLine(rest[i], id, type, k, m)
      BY <1>3, <2>1
    <2>3. rest[i].kind = "info" => k + 1 < rest[i].n
      BY <1>4, <1>5, <2>1
    <2> QED  BY <2>2, <2>3 DEF AnswerLine
  <1>7. \A i, j \in DOMAIN rest :
           i < j /\ ~Unasked(rest[i]) /\ ~Unasked(rest[j]) =>
               /\ rest[i].kind = "info"
               /\ rest[j].kind = "info" => rest[i].n < rest[j].n
    <2> TAKE i, j \in DOMAIN rest
    <2>1. /\ i + 1 \in DOMAIN lines /\ j + 1 \in DOMAIN lines
          /\ rest[i] = lines[i + 1] /\ rest[j] = lines[j + 1] /\ (i < j => i + 1 < j + 1)
      BY <1>1
    <2> QED  BY <1>3, <2>1
  <1>8. \A n \in k + 1 + 1 .. m : \E i \in DOMAIN rest : rest[i].kind = "info" /\ rest[i].n = n
    <2> TAKE n \in k + 1 + 1 .. m
    <2>1. n \in k + 1 .. m /\ n # k + 1
      OBVIOUS
    <2>2. PICK i \in DOMAIN lines : lines[i].kind = "info" /\ lines[i].n = n
      BY <2>1 DEF Answering
    <2>3. i - 1 \in DOMAIN rest /\ rest[i - 1] = lines[i]
      BY <1>1, <1>5, <2>1, <2>2
    <2> QED  BY <2>2, <2>3
  <1>9. (\E i \in DOMAIN lines : isFinalResponse(lines[i]))
            <=> (\E i \in DOMAIN rest : isFinalResponse(rest[i]))
    BY <1>1
  <1>10. k + 1 <= m
    BY <1>2, <1>5
  <1> QED  BY <1>2, <1>5, <1>6, <1>7, <1>8, <1>9, <1>10 DEF Answering, rest

\* ... or the final one, behind the last information line.
LEMMA FinalFirst ==
    ASSUME NEW S, NEW lines \in Seq(S), lines # << >>, isFinalResponse(lines[1]), NEW owed,
           NEW id, NEW type, NEW k \in Nat, NEW m \in Nat, k <= m,
           Answering(lines, owed, id, type, k, m)
    PROVE  /\ lines[1].of = id /\ lines[1].n = k /\ owed = << >> /\ Quiet(Tail(lines))
  <1>1. /\ 1 \in DOMAIN lines /\ DOMAIN lines = 1 .. Len(lines)
        /\ \A i \in DOMAIN Tail(lines) :
              Tail(lines)[i] = lines[i + 1] /\ i + 1 \in DOMAIN lines /\ 1 < i + 1
    <2> DEFINE rest == Tail(lines)
    <2>1. /\ Len(rest) = Len(lines) - 1 /\ Len(lines) \in Nat \ {0} /\ rest \in Seq(S)
          /\ \A i \in DOMAIN rest : rest[i] = lines[i + 1]
      BY HeadAndTail
    <2> HIDE DEF rest
    <2>2. \A i \in DOMAIN rest : rest[i] = lines[i + 1] /\ i + 1 \in DOMAIN lines /\ 1 < i + 1
      BY <2>1
    <2> QED  BY <2>1, <2>2 DEF rest
  <1>2. lines[1].kind # "info" /\ ~Unasked(lines[1])
    BY LineKinds
  <1>3. lines[1].of = id /\ lines[1].n = m /\ owed = << >>
    BY <1>1, <1>2 DEF Answering, AnswerLine
  <1>4. \A i \in DOMAIN lines : 1 < i => Unasked(lines[i])
    BY <1>1, <1>2 DEF Answering
  <1>5. k = m
    <2> SUFFICES ASSUME k # m PROVE FALSE
      OBVIOUS
    <2>1. k + 1 \in k + 1 .. m
      OBVIOUS
    <2>2. PICK i \in DOMAIN lines : lines[i].kind = "info" /\ lines[i].n = k + 1
      BY <2>1 DEF Answering
    <2> QED  BY <1>1, <1>2, <1>4, <2>2, LineKinds
  <1> QED  BY <1>1, <1>3, <1>4, <1>5 DEF Quiet

\* Whatever comes unasked changes nothing, at either end.
LEMMA FitsUnasked ==
    ASSUME NEW S, NEW lines \in Seq(S), NEW owed, NEW response, Fits(lines, owed, response)
    PROVE  /\ \A line \in S : Unasked(line) => Fits(Append(lines, line), owed, response)
           /\ lines # << >> /\ Unasked(lines[1]) => Fits(Tail(lines), owed, response)
  <1> USE Bounds
  <1>1. ASSUME NEW more, Quiet(lines) => Quiet(more),
               \A k, m \in 0 .. MaxInfo :
                  Answering(lines, owed, response.id, response.type, k, m) =>
                      Answering(more, owed, response.id, response.type, k, m)
        PROVE  Fits(more, owed, response)
    BY <1>1 DEF Fits
  <1>2. ASSUME NEW line \in S, Unasked(line) PROVE Fits(Append(lines, line), owed, response)
    <2>1. Quiet(lines) => Quiet(Append(lines, line))
      BY <1>2, AppendLast DEF Quiet
    <2>2. \A k, m \in 0 .. MaxInfo :
             Answering(lines, owed, response.id, response.type, k, m) =>
                 Answering(Append(lines, line), owed, response.id, response.type, k, m)
      BY <1>2, AnsweringUnasked
    <2> QED  BY <1>1, <2>1, <2>2
  <1>3. ASSUME lines # << >>, Unasked(lines[1]) PROVE Fits(Tail(lines), owed, response)
    <2>1. Quiet(lines) => Quiet(Tail(lines))
      BY <1>3 DEF Quiet
    <2>2. \A k, m \in 0 .. MaxInfo :
             Answering(lines, owed, response.id, response.type, k, m) =>
                 Answering(Tail(lines), owed, response.id, response.type, k, m)
      BY <1>3, UnaskedFirst
    <2> QED  BY <1>1, <2>1, <2>2
  <1> QED  BY <1>2, <1>3

\* how many of the information lines a command keeps
LEMMA InfoTakenMore ==
    ASSUME NEW type \in AllTypes, NEW k \in Nat
    PROVE  /\ InfoTaken(type, 0) = 0
           /\ type = "NO_RESULT" => InfoTaken(type, k) = 0
           /\ type = "MULTILINE" => InfoTaken(type, k) = k
           /\ type \in LineTypes /\ k = 0 => InfoTaken(type, k) = 0
           /\ type \in LineTypes /\ k # 0 => InfoTaken(type, k) = 1
  <1> USE DEF LineTypes
  <1>1. CASE type = "NO_RESULT"  BY <1>1 DEF InfoTaken
  <1>2. CASE type \in LineTypes  BY <1>2 DEF InfoTaken
  <1>3. CASE type = "MULTILINE"  BY <1>3 DEF InfoTaken
  <1> QED  BY <1>1, <1>2, <1>3 DEF AllTypes

\* With the empty prefix the reader may take a line that nobody asked for.
LEMMA TakenUnasked ==
    ASSUME NEW response, NEW response2, NEW line, NEW k \in Nat, NEW S, line \in S,
           response.p_intermediates \in Seq(S),
           response2.id = response.id, response2.type = response.type,
           Taken(response, k), Unasked(line), IsIntermediate(line, response),
           response2.p_intermediates = <<line>> \o response.p_intermediates
    PROVE  Taken(response2, k)
  <1> DEFINE p == response.p_intermediates
             q == response2.p_intermediates
  <1>1. line.kind # "info" /\ line.of = 0
    BY LineKinds DEF Unasked
  <1>2. response.type = "ANYLINE" /\ p = << >>
    BY <1>1 DEF IsIntermediate, HasPrefix
  <1>3. InfoTaken("ANYLINE", k) \in {0, 1}
    BY DEF InfoTaken, LineTypes
  <1>4. q = <<line>>
    BY <1>2
  <1> QED  BY <1>1, <1>2, <1>3, <1>4 DEF Taken

\* The reader takes an information line, or passes over one that the command's
\* type has no use for.
LEMMA TakenInfo ==
    ASSUME NEW response, NEW response2, NEW line, NEW k \in Nat, NEW S, line \in S,
           response.type \in AllTypes, response.p_intermediates \in Seq(S),
           response2.id = response.id, response2.type = response.type,
           Taken(response, k), line.kind = "info", line.type = response.type,
           line.of = response.id, line.n = k + 1,
           IF IsIntermediate(line, response)
           THEN response2.p_intermediates = <<line>> \o response.p_intermediates
           ELSE response2.p_intermediates = response.p_intermediates
    PROVE  Taken(response2, k + 1)
  <1> DEFINE p == response.p_intermediates
             q == response2.p_intermediates
             type == response.type
  <1>0. p \in Seq(S) /\ Len(p) \in Nat /\ (p = << >> <=> Len(p) = 0) /\ HasPrefix(line, type)
    BY DEF HasPrefix
  <1>a. CASE type = "ANYLINE"
    <2>1. /\ InfoTaken(type, k) <= Len(p) /\ Len(p) <= 1
          /\ \A i \in DOMAIN p : p[i].of = 0 \/ (p[i].of = response.id /\ p[i].n = 1)
      BY <1>a DEF Taken
    <2>2. InfoTaken(type, k + 1) = 1 /\ (k # 0 => InfoTaken(type, k) = 1)
      BY <1>a, InfoTakenMore DEF LineTypes
    <2>3. CASE p = << >>
      <3>1. k = 0
        BY <1>0, <2>1, <2>2, <2>3
      <3>2. q = <<line>>
        BY <1>0, <1>a, <2>3 DEF IsIntermediate, LineTypes
      <3> QED  BY <1>a, <2>2, <3>1, <3>2 DEF Taken
    <2>4. CASE p # << >>
      <3>1. q = p
        BY <1>a, <2>4 DEF IsIntermediate
      <3>2. Len(p) = 1
        BY <1>0, <2>1, <2>4
      <3> QED  BY <1>a, <2>1, <2>2, <3>1, <3>2 DEF Taken
    <2> QED  BY <2>3, <2>4
  <1>b. CASE type # "ANYLINE"
    <2>1. /\ Len(p) = InfoTaken(type, k)
          /\ \A i \in DOMAIN p : p[i].of = response.id /\ p[i].n = Len(p) + 1 - i
      BY <1>b DEF Taken
    <2>2. CASE IsIntermediate(line, response)
      <3>1. /\ q = <<line>> \o p
            /\ (type \in LineTypes /\ p = << >>) \/ type = "MULTILINE"
        BY <2>2 DEF IsIntermediate
      <3>2. InfoTaken(type, k + 1) = Len(p) + 1 /\ Len(p) = k
        <4>1. CASE type = "MULTILINE"
          BY <2>1, <4>1, InfoTakenMore
        <4>2. CASE type \in LineTypes /\ p = << >>
          <5>1. k = 0
            BY <1>0, <2>1, <4>2, InfoTakenMore
          <5> QED  BY <1>0, <4>2, <5>1, InfoTakenMore
        <4> QED  BY <3>1, <4>1, <4>2
      <3>3. /\ Len(q) = Len(p) + 1 /\ q[1] = line
            /\ \A i \in DOMAIN q : i # 1 => i - 1 \in DOMAIN p /\ q[i] = p[i - 1] /\ i \in Nat
        <4> HIDE DEF p, q
        <4> QED  BY <1>0, <3>1
      <3> HIDE DEF p, q, type
      <3>4. \A i \in DOMAIN q : q[i].of = response.id /\ q[i].n = Len(q) + 1 - i
        BY <1>0, <2>1, <3>2, <3>3 DEF type
      <3> QED  BY <1>b, <3>2, <3>3, <3>4 DEF Taken, p, q, type
    <2>3. CASE ~IsIntermediate(line, response)
      <3>1. /\ q = p
            /\ type = "NO_RESULT" \/ (type \in LineTypes /\ p # << >>)
        BY <1>0, <2>3 DEF IsIntermediate, AllTypes, LineTypes
      <3>2. InfoTaken(type, k + 1) = Len(p)
        <4>1. CASE type = "NO_RESULT"
          BY <2>1, <4>1, InfoTakenMore
        <4>2. CASE type \in LineTypes /\ p # << >>
          <5>1. k # 0
            BY <1>0, <2>1, <4>2, InfoTakenMore
          <5> QED  BY <2>1, <4>2, <5>1, InfoTakenMore
        <4> QED  BY <3>1, <4>1, <4>2
      <3> QED  BY <1>b, <2>1, <3>1, <3>2 DEF Taken
    <2> QED  BY <2>2, <2>3
  <1> QED  BY <1>a, <1>b

\* The first line is sorted.
LEMMA FitsProcessed ==
    ASSUME NEW S, NEW lines \in Seq(S), lines # << >>, NEW owed, NEW response, NEW response2,
           Fits(lines, owed, response), response.type \in AllTypes,
           response.finalResponse.n \in Nat, response.p_intermediates \in Seq(S),
           response2.id = response.id, response2.type = response.type,
           \/ /\ response.id # 0 /\ isFinalResponse(lines[1])
              /\ response2.finalResponse = lines[1]
              /\ response2.p_intermediates = response.p_intermediates
           \/ /\ response.id # 0 /\ ~isFinalResponse(lines[1])
              /\ IsIntermediate(lines[1], response)
              /\ response2.finalResponse = response.finalResponse
              /\ response2.p_intermediates = <<lines[1]>> \o response.p_intermediates
           \/ /\ response2 = response
              /\ response.id = 0 \/ (~isFinalResponse(lines[1])
                                     /\ ~IsIntermediate(lines[1], response))
    PROVE  Fits(Tail(lines), owed, response2)
  <1> DEFINE line == lines[1]
  <1>1. 1 \in DOMAIN lines /\ line \in S
    OBVIOUS
  <1>2. CASE Unasked(line)
    <2>1. Fits(Tail(lines), owed, response)
      BY <1>2, FitsUnasked
    <2>2. CASE response2 = response
      BY <2>1, <2>2
    <2>3. CASE response2 # response
      <3>1. /\ response.id # 0 /\ IsIntermediate(line, response)
            /\ response2.finalResponse = response.finalResponse
            /\ response2.p_intermediates = <<line>> \o response.p_intermediates
        BY <1>2, <2>3, LineKinds
      <3>2. \A k \in Nat : Taken(response, k) => Taken(response2, k)
        BY <1>1, <1>2, <3>1, TakenUnasked
      <3>3. CASE response.finalResponse = NoLine
        BY <2>1, <3>1, <3>2, <3>3, Bounds DEF Fits
      <3>4. CASE response.finalResponse # NoLine
        BY <2>1, <3>1, <3>2, <3>4 DEF Fits
      <3> QED  BY <3>3, <3>4
    <2> QED  BY <2>2, <2>3
  <1>3. CASE ~Unasked(line)
    <2>1. response.id # 0 /\ response.finalResponse = NoLine
      BY <1>1, <1>3 DEF Fits, Quiet
    <2>2. PICK k, m \in 0 .. MaxInfo :
             /\ k <= m /\ Taken(response, k)
             /\ Answering(lines, owed, response.id, response.type, k, m)
      BY <2>1 DEF Fits
    <2>3. k \in Nat /\ m \in Nat
      BY Bounds
    <2>4. CASE isFinalResponse(line)
      <3>1. line.of = response.id /\ line.n = k /\ owed = << >> /\ Quiet(Tail(lines))
        BY <2>2, <2>3, <2>4, FinalFirst
      <3>2. response2.finalResponse = line /\ response2.p_intermediates = response.p_intermediates
        BY <2>1, <2>4
      <3>3. Taken(response2, k) /\ line # NoLine
        BY <2>2, <2>4, <3>2, LineKinds DEF Taken
      <3> QED  BY <2>1, <3>1, <3>2, <3>3 DEF Fits
    <2>5. CASE ~isFinalResponse(line)
      <3>1. /\ line.kind = "info" /\ line.type = response.type /\ line.of = response.id
            /\ line.n = k + 1 /\ k + 1 <= m
            /\ Answering(Tail(lines), owed, response.id, response.type, k + 1, m)
        BY <1>3, <2>2, <2>3, <2>5, InfoFirst
      <3>2. IF IsIntermediate(line, response)
            THEN response2.p_intermediates = <<line>> \o response.p_intermediates
            ELSE response2.p_intermediates = response.p_intermediates
        BY <2>1, <2>5
      <3>3. Taken(response2, k + 1)
        BY <1>1, <2>2, <2>3, <3>1, <3>2, TakenInfo
      <3>4. response2.finalResponse = NoLine /\ response2.id # 0
        BY <2>1, <2>5
      <3>5. k + 1 \in 0 .. MaxInfo
        BY <2>2, <2>3, <3>1, Bounds
      <3> QED  BY <3>1, <3>3, <3>4, <3>5 DEF Fits
    <2> QED  BY <2>4, <2>5
  <1> QED  BY <1>2, <1>3

\* The modem sends the next line of the answer it owes.
LEMMA FitsAnswer ==
    ASSUME NEW S, NEW lines \in Seq(S), NEW owed \in Seq(Owed), owed # << >>, NEW response,
           Fits(lines, owed, response), NEW line \in S, line.of = owed[1].id, NEW owed2,
           \/ /\ line.kind = "info" /\ line.type = owed[1].type
              /\ line.n = owed[1].n + 1 /\ owed[1].n < MaxInfo
              /\ owed2 = [owed EXCEPT ![1].n = owed[1].n + 1]
           \/ /\ isFinalResponse(line) /\ line.n = owed[1].n /\ owed2 = Tail(owed)
    PROVE  Fits(Append(lines, line), owed2, response)
  <1>1. response.id # 0 /\ response.finalResponse = NoLine
    BY DEF Fits
  <1>2. PICK k, m \in 0 .. MaxInfo :
           /\ k <= m /\ Taken(response, k)
           /\ Answering(lines, owed, response.id, response.type, k, m)
    BY <1>1 DEF Fits
  <1> DEFINE first(n) == [id |-> response.id, type |-> response.type, n |-> n]
  <1>3. owed = <<first(m)>> /\ k \in Nat /\ m \in Nat
    BY <1>2, Bounds DEF Answering
  <1>4. /\ owed[1].id = response.id /\ owed[1].type = response.type /\ owed[1].n = m
    BY <1>3
  <1>5. CASE /\ line.kind = "info" /\ line.type = owed[1].type
             /\ line.n = owed[1].n + 1 /\ owed[1].n < MaxInfo
             /\ owed2 = [owed EXCEPT ![1].n = owed[1].n + 1]
    <2>1. owed2 = <<first(m + 1)>>
      <3>1. owed2 = [<<first(m)>> EXCEPT ![1].n = m + 1]
        BY <1>3, <1>4, <1>5
      <3>2. [<<first(m)>> EXCEPT ![1].n = m + 1] = <<first(m + 1)>>
        OBVIOUS
      <3> QED  BY <3>1, <3>2
    <2>2. Answering(Append(lines, line), <<first(m + 1)>>, response.id, response.type, k, m + 1)
      BY <1>2, <1>3, <1>4, <1>5, AnsweringInfo
    <2>3. m + 1 \in 0 .. MaxInfo /\ k <= m + 1
      BY <1>2, <1>4, <1>5, Bounds
    <2> QED  BY <1>1, <1>2, <2>1, <2>2, <2>3 DEF Fits
  <1>6. CASE isFinalResponse(line) /\ line.n = owed[1].n /\ owed2 = Tail(owed)
    <2>1. owed2 = << >>
      BY <1>3, <1>6
    <2>2. Answering(Append(lines, line), << >>, response.id, response.type, k, m)
      BY <1>2, <1>3, <1>4, <1>6, AnsweringFinal
    <2> QED  BY <1>1, <1>2, <2>1, <2>2 DEF Fits
  <1> QED  BY <1>5, <1>6

\* A command is written when nothing is owed, and its answer begins.
LEMMA FitsWritten ==
    ASSUME NEW lines, Quiet(lines), NEW id \in Ids, NEW type \in AllTypes
    PROVE  Fits(lines, <<[id |-> id, type |-> type, n |-> 0]>>, NewResponse(id, type))
  <1> DEFINE new == NewResponse(id, type)
  <1>1. /\ new.id = id /\ new.type = type /\ new.finalResponse = NoLine
        /\ new.p_intermediates = << >> /\ new.id # 0
    BY PendingTypes
  <1>2. Taken(new, 0)
    BY <1>1, InfoTakenMore DEF Taken
  <1>3. Answering(lines, <<[id |-> id, type |-> type, n |-> 0]>>, id, type, 0, 0)
    BY AnsweringStarts
  <1>4. 0 \in 0 .. MaxInfo /\ 0 <= 0
    BY Bounds
  <1> HIDE DEF new
  <1>5. Fits(lines, <<[id |-> id, type |-> type, n |-> 0]>>, new)
    BY <1>1, <1>2, <1>3, <1>4 DEF Fits
  <1> QED  BY <1>5 DEF new

\* the two lines of an SMS stay together at either end of what is to come
LEMMA PairedEnds ==
    ASSUME NEW S, NEW lines \in Seq(S), Paired(lines)
    PROVE  /\ \A line \in S : line.kind # "header" => Paired(Append(lines, line))
           /\ \A d, e \in S : d.kind = "header" /\ e.kind = "pdu" =>
                 Paired(Append(Append(lines, d), e))
           /\ lines # << >> => Paired(Tail(lines))
           /\ lines # << >> /\ lines[1].kind = "header" =>
                 Tail(lines) # << >> /\ Head(Tail(lines)).kind = "pdu"
  <1>1. ASSUME NEW line \in S, line.kind # "header" PROVE Paired(Append(lines, line))
    BY <1>1, AppendLast DEF Paired
  <1>2. ASSUME NEW d \in S, NEW e \in S, d.kind = "header", e.kind = "pdu"
        PROVE  Paired(Append(Append(lines, d), e))
    <2> DEFINE more == Append(Append(lines, d), e)
    <2>1. /\ DOMAIN more = 1 .. Len(lines) + 2 /\ Len(lines) \in Nat
          /\ DOMAIN lines = 1 .. Len(lines)
          /\ \A i \in 1 .. Len(lines) : more[i] = lines[i]
          /\ more[Len(lines) + 1] = d /\ more[Len(lines) + 2] = e
      OBVIOUS
    <2> HIDE DEF more
    <2>2. ASSUME NEW i \in DOMAIN more, more[i].kind = "header"
          PROVE  i + 1 \in DOMAIN more /\ more[i + 1].kind = "pdu"
      <3>1. CASE i \in 1 .. Len(lines)
        BY <2>1, <2>2, <3>1 DEF Paired
      <3>2. CASE i = Len(lines) + 1
        BY <1>2, <2>1, <2>2, <3>2
      <3>3. CASE i = Len(lines) + 2
        BY <1>2, <2>1, <2>2, <3>3
      <3> QED  BY <2>1, <3>1, <3>2, <3>3
    <2> QED  BY <2>2 DEF Paired, more
  <1>3. ASSUME lines # << >> PROVE Paired(Tail(lines))
    <2> DEFINE rest == Tail(lines)
    <2>1. /\ DOMAIN rest = 1 .. Len(lines) - 1 /\ Len(lines) \in Nat \ {0}
          /\ DOMAIN lines = 1 .. Len(lines)
          /\ \A i \in DOMAIN rest : rest[i] = lines[i + 1]
      BY <1>3
    <2> HIDE DEF rest
    <2>2. \A i \in DOMAIN rest :
             rest[i].kind = "header" => i + 1 \in DOMAIN rest /\ rest[i + 1].kind = "pdu"
      <3> TAKE i \in DOMAIN rest
      <3>1. i + 1 \in DOMAIN lines /\ i \in Nat
        BY <2>1
      <3>2. rest[i].kind = "header" =>
                i + 1 + 1 \in DOMAIN lines /\ lines[i + 1 + 1].kind = "pdu"
        BY <2>1, <3>1 DEF Paired
      <3> QED  BY <2>1, <3>1, <3>2
    <2> QED  BY <2>2 DEF Paired, rest
  <1>4. ASSUME lines # << >>, lines[1].kind = "header"
        PROVE  Tail(lines) # << >> /\ Head(Tail(lines)).kind = "pdu"
    <2>1. 1 \in DOMAIN lines
      BY <1>4
    <2>2. 1 + 1 \in DOMAIN lines /\ lines[1 + 1].kind = "pdu"
      BY <1>4, <2>1 DEF Paired
    <2> DEFINE rest == Tail(lines)
    <2>3. rest \in Seq(S) /\ Len(rest) = Len(lines) - 1 /\ Len(lines) \in Nat /\ Len(lines) >= 2
      BY <1>4, <2>2
    <2>4. rest[1] = lines[2]
      BY <1>4, <2>2, <2>3
    <2> HIDE DEF rest
    <2>5. rest # << >> /\ Head(rest) = rest[1]
      BY <2>3
    <2> QED  BY <2>2, <2>4, <2>5 DEF rest
  <1> QED  BY <1>1, <1>2, <1>3, <1>4

-----------------------------------------------------------------------------
(* Each step keeps what is to come in step with the pending response.       *)

\* a header or its second line is not an answer
LEMMA FitsHeader ==
    ASSUME NEW lines, NEW owed, NEW response, Fits(lines, owed, response), 1 \in DOMAIN lines,
           lines[1].kind \in {"header", "pdu"}
    PROVE  Unasked(lines[1])
  <1>1. ASSUME NEW k, NEW m, Answering(lines, owed, response.id, response.type, k, m)
        PROVE  Unasked(lines[1])
    BY <1>1, LineKinds DEF Answering
  <1> QED  BY <1>1 DEF Fits, Quiet

\* what is to come begins with the line that the only reader holds
LEMMA ComingIs ==
    Alone => /\ \A r \in Sessions : reader[r] = "line" => Coming = <<rline[r]>> \o rx
             /\ (\A r \in Sessions : reader[r] # "line") => Coming = rx
  <1> SUFFICES ASSUME Alone
               PROVE  /\ \A r \in Sessions :
                            reader[r] = "line" => Coming = <<rline[r]>> \o rx
                      /\ (\A r \in Sessions : reader[r] # "line") => Coming = rx
    OBVIOUS
  <1> DEFINE h == CHOOSE r : Holds(r)
  <1>1. ASSUME NEW r \in Sessions, reader[r] = "line" PROVE Coming = <<rline[r]>> \o rx
    <2>1. Holds(r)
      BY <1>1 DEF Holds
    <2>2. Holds(h)
      BY <2>1
    <2>3. h \in Sessions /\ reader[h] = "line"
      BY <2>2 DEF Holds
    <2>4. Coming = <<rline[h]>> \o rx
      BY <2>1 DEF Coming
    <2> HIDE DEF h
    <2>5. h = r
      BY <1>1, <2>3 DEF Alone, Listening
    <2> QED  BY <2>4, <2>5
  <1>2. ASSUME \A r \in Sessions : reader[r] # "line" PROVE Coming = rx
    BY <1>2 DEF Coming, Holds
  <1> QED  BY <1>1, <1>2

\* and so it does after a step
LEMMA ComingThen ==
    Alone' => /\ \A r \in Sessions : reader'[r] = "line" => Coming' = <<rline'[r]>> \o rx'
              /\ (\A r \in Sessions : reader'[r] # "line") => Coming' = rx'
  <1>1. (Alone => /\ \A r \in Sessions : reader[r] = "line" => Coming = <<rline[r]>> \o rx
                  /\ (\A r \in Sessions : reader[r] # "line") => Coming = rx)'
    BY ComingIs, PTL
  <1> QED  BY <1>1

\* what is to come are lines
LEMMA ComingTypes ==
    ASSUME DataTypes, Alone PROVE Coming \in Seq(Line)
  <1>1. rx \in Seq(Line) /\ \A r \in Sessions : rline[r] \in Line
    BY DEF DataTypes
  <1>2. CASE \E r \in Sessions : reader[r] = "line"
    <2>1. PICK r \in Sessions : reader[r] = "line"
      BY <1>2
    <2>2. Coming = <<rline[r]>> \o rx
      BY <2>1, ComingIs
    <2> QED  BY <1>1, <2>2, SeqTypes
  <1>3. CASE \A r \in Sessions : reader[r] # "line"
    BY <1>1, <1>3, ComingIs
  <1> QED  BY <1>2, <1>3

\* a step after which the reader has no other line, and the command no other answer
LEMMA StreamKept ==
    ASSUME StreamInv, UNCHANGED <<rline, rx, unanswered, sp_response>>, Flowing' => Flowing,
           \A r \in Sessions : /\ reader'[r] = "line" <=> reader[r] = "line"
                               /\ reader'[r] \in {"read", "pdu"} => reader'[r] = reader[r]
    PROVE  StreamInv'
  <1> SUFFICES ASSUME Flowing' PROVE InStep'
    BY DEF StreamInv
  <1>1. Alone /\ AtPdu /\ Paired(Coming) /\ Fits(Coming, unanswered, sp_response)
    BY DEF StreamInv, InStep
  <1>2. Alone' /\ AtPdu'
    BY <1>1 DEF Alone, Listening, AtPdu
  <1>3. Coming' = Coming
    <2>1. CASE \A r \in Sessions : reader[r] # "line"
      BY <1>1, <1>2, <2>1, ComingIs, ComingThen
    <2>2. CASE \E r \in Sessions : reader[r] = "line"
      <3>1. PICK r \in Sessions : reader[r] = "line"
        BY <2>2
      <3> QED  BY <1>1, <1>2, <3>1, ComingIs, ComingThen
    <2> QED  BY <2>1, <2>2
  <1> QED  BY <1>1, <1>2, <1>3 DEF InStep

\* a command that is sent to a silent channel is in step
LEMMA SilentStream ==
    ASSUME DataTypes, Silent
    PROVE  Alone /\ AtPdu /\ Paired(Coming) /\ Quiet(Coming) /\ unanswered = << >>
  <1> DEFINE other == Spontaneous("other")
  <1>1. /\ unanswered = << >> /\ Alone
        /\ \A i \in DOMAIN rx : rx[i] = other
        /\ \A r \in Sessions : reader[r] # "pdu" /\ (reader[r] = "line" => rline[r] = other)
    BY DEF Silent, Alone
  <1>2. rx \in Seq(Line) /\ other \in Line
    BY LineParts DEF DataTypes
  <1>3. Unasked(other) /\ other.kind # "header"
    BY DEF Unasked, Spontaneous
  <1>4. \A i \in DOMAIN Coming : Coming[i] = other
    <2> HIDE DEF other
    <2>1. CASE \A r \in Sessions : reader[r] # "line"
      BY <1>1, <2>1, ComingIs
    <2>2. CASE \E r \in Sessions : reader[r] = "line"
      <3>1. PICK r \in Sessions : reader[r] = "line"
        BY <2>2
      <3>2. Coming = <<other>> \o rx
        BY <1>1, <3>1, ComingIs
      <3> QED  BY <1>1, <1>2, <3>2
    <2> QED  BY <2>1, <2>2
  <1> HIDE DEF other
  <1> QED  BY <1>1, <1>3, <1>4 DEF AtPdu, Paired, Quiet

\* command threads make the pending response fit what is to come
LEMMA CommandStream ==
    ASSUME ControlTypes, DataTypes, StreamInv, NEW c \in CmdThreads, CommandStep(c)
    PROVE  StreamInv'
  <1> USE DEF globalVars, threadVars, modemVars
  <1>1. UNCHANGED <<reader, rline>>
    BY CommandKeepsSession DEF sessionVars
  <1>2. CASE UNCHANGED <<sp_response, unanswered, rx, clean>> /\ (Running' => Running)
    BY <1>1, <1>2, StreamKept DEF Flowing, Pending
  <1>3. ASSUME NEW type \in AllTypes, Written(c, type) PROVE StreamInv'
    <2> SUFFICES ASSUME Flowing' PROVE InStep'
      BY DEF StreamInv
    <2>1. Silent /\ UNCHANGED rx /\ sent + 1 \in Ids
      BY <1>3, WrittenSent DEF Written, Flowing, ControlTypes
    <2>2. Alone /\ AtPdu /\ Paired(Coming) /\ Quiet(Coming) /\ unanswered = << >>
      BY <2>1, SilentStream
    <2>3. Alone' /\ AtPdu' /\ Coming' = Coming
      BY <1>1, <2>1, <2>2 DEF Alone, AtPdu, Listening, Coming, Holds
    <2>4. /\ sp_response' = NewResponse(sent + 1, type)
          /\ unanswered' = <<[id |-> sent + 1, type |-> type, n |-> 0]>>
      BY <1>3, <2>2 DEF Written
    <2>5. Fits(Coming, unanswered', sp_response')
      BY <2>1, <2>2, <2>4, FitsWritten
    <2> QED  BY <2>2, <2>3, <2>5 DEF InStep
  <1>4. ASSUME sp_response' = NoResponse PROVE StreamInv'
    BY <1>4, PendingTypes DEF StreamInv, Flowing, Pending
  <1>5. CASE SendCommand(c) \/ HandshakeSend(c)
    <2>1. "NO_RESULT" \in AllTypes
      BY DEF AllTypes
    <2> QED  BY <1>3, <1>4, <1>5, <2>1, TypesAssumption DEF SendCommand, HandshakeSend, NotWritten
  <1>6. CASE ResumeCommand(c) \/ CommandTimesOut(c) \/ ResumeHandshake(c) \/ HandshakeTimesOut(c)
    BY <1>4, <1>6 DEF ResumeCommand, CommandTimesOut, ResumeHandshake, HandshakeTimesOut
  <1>7. CASE Expire(c) \/ WakeSpuriously(c) \/ ResumeWithoutResponse(c) \/ ResumeTooEarly(c)
    BY <1>2, <1>7 DEF Expire, WakeSpuriously, ResumeWithoutResponse, ResumeTooEarly, Running
  <1>8. CASE StartHandshake(c) \/ HandshakeSlept(c) \/ HandshakeEnds(c) \/ DialEnds(c)
    BY <1>2, <1>8 DEF StartHandshake, HandshakeSlept, HandshakeEnds, DialEnds, Running
  <1> QED  BY <1>5, <1>6, <1>7, <1>8 DEF CommandStep

\* The reader reads a line, or the first or second line of an SMS.
LEMMA ReadLineStream ==
    ASSUME ControlTypes, DataTypes, StreamInv, NEW r \in Sessions, ReadLine(r) \/ ReadPdu(r)
    PROVE  StreamInv'
  <1> USE DEF globalVars, threadVars
  <1> SUFFICES ASSUME Flowing' PROVE InStep'
    BY DEF StreamInv
  <1>1. /\ rx # << >> /\ rx \in Seq(Line) /\ rx' = Tail(rx)
        /\ reader[r] \in {"read", "pdu"}
        /\ UNCHANGED <<clean, ended, unanswered, sp_response>>
    BY DEF ReadLine, ReadPdu, DataTypes
  <1>2. Alone /\ AtPdu /\ Paired(Coming) /\ Fits(Coming, unanswered, sp_response)
    BY <1>1 DEF StreamInv, InStep, Flowing, Running, Pending
  <1>3. \A q \in Sessions : q # r => ~Listening(q)
    BY <1>1, <1>2 DEF Alone, Listening
  <1>4. Coming = rx
    BY <1>1, <1>2, <1>3, ComingIs DEF Listening
  <1>5. /\ 1 \in DOMAIN rx /\ Head(rx) = rx[1] /\ <<Head(rx)>> \o Tail(rx) = rx
    BY <1>1, HeadAndTail
  <1>6. /\ reader'[r] \in {"read", "pdu", "line"}
        /\ \A q \in Sessions : q # r => reader'[q] = reader[q]
    BY DEF ReadLine, ReadPdu, ControlTypes
  <1>7. Alone'
    BY <1>3, <1>6 DEF Alone, Listening
  <1>8. CASE ReadLine(r) /\ Head(rx).kind # "header"
    <2>1. reader'[r] = "line" /\ rline'[r] = Head(rx)
      BY <1>8 DEF ReadLine, ControlTypes, DataTypes
    <2>2. Coming' = Coming /\ AtPdu'
      BY <1>1, <1>3, <1>4, <1>5, <1>6, <1>7, <2>1, ComingThen DEF AtPdu, Listening
    <2> QED  BY <1>1, <1>2, <1>7, <2>2 DEF InStep
  <1>9. CASE (ReadLine(r) /\ Head(rx).kind = "header") \/ ReadPdu(r)
    <2>1. reader'[r] = (IF ReadPdu(r) THEN "read" ELSE "pdu")
      BY <1>9 DEF ReadLine, ReadPdu, ControlTypes
    <2>2. Coming' = Tail(Coming)
      BY <1>1, <1>3, <1>4, <1>6, <1>7, <2>1, ComingThen DEF Listening
    <2>3. Coming[1].kind \in {"header", "pdu"}
      BY <1>1, <1>2, <1>4, <1>5, <1>9 DEF AtPdu, ReadPdu
    <2>4. Unasked(Coming[1])
      BY <1>2, <1>4, <1>5, <2>3, FitsHeader
    <2>5. Fits(Tail(Coming), unanswered, sp_response) /\ Paired(Tail(Coming))
      BY <1>1, <1>2, <1>4, <2>4, FitsUnasked, PairedEnds
    <2>6. ~ReadPdu(r) => Tail(rx) # << >> /\ Head(Tail(rx)).kind = "pdu"
      BY <1>1, <1>2, <1>4, <1>5, <1>9, PairedEnds
    <2>7. AtPdu'
      BY <1>1, <1>3, <1>6, <2>1, <2>6 DEF AtPdu, Listening
    <2> QED  BY <1>1, <1>7, <2>2, <2>5, <2>7 DEF InStep
  <1> QED  BY <1>8, <1>9

\* the reader sorts the line that it holds
LEMMA ProcessLineStream ==
    ASSUME ControlTypes, DataTypes, WaitInv, StreamInv, NEW r \in Sessions, ProcessLine(r)
    PROVE  StreamInv'
  <1> USE DEF globalVars, modemVars
  <1> SUFFICES ASSUME Flowing' PROVE InStep'
    BY DEF StreamInv
  <1>1. /\ reader[r] = "line" /\ reader'[r] = "read"
        /\ \A q \in Sessions : q # r => reader'[q] = reader[q]
        /\ UNCHANGED <<clean, ended, unanswered, rx>>
    BY DEF ProcessLine, ControlTypes
  <1>2. Flowing
    BY <1>1, LineProcessed DEF Flowing, Running, Pending, SameCommand
  <1>3. Alone /\ AtPdu /\ Paired(Coming) /\ Fits(Coming, unanswered, sp_response)
    BY <1>2 DEF StreamInv, InStep
  <1>4. \A q \in Sessions : q # r => ~Listening(q)
    BY <1>1, <1>3 DEF Alone, Listening
  <1>5. Alone' /\ AtPdu'
    BY <1>1, <1>3, <1>4 DEF Alone, AtPdu, Listening
  <1>6. Coming = <<rline[r]>> \o rx /\ Coming' = rx
    BY <1>1, <1>3, <1>4, <1>5, ComingIs, ComingThen DEF Listening
  <1>7. /\ Coming \in Seq(Line) /\ Coming # << >> /\ Coming[1] = rline[r] /\ Tail(Coming) = rx
    <2>1. rline[r] \in Line /\ rx \in Seq(Line)
      BY DEF DataTypes
    <2> QED  BY <1>6, <2>1
  <1>8. /\ sp_response.type \in AllTypes /\ sp_response.p_intermediates \in Seq(Line)
        /\ sp_response.finalResponse.n \in Nat
        /\ (sp_response = NoResponse <=> sp_response.id = 0)
    <2>1. sp_response \in Response
      BY DEF DataTypes
    <2>2. /\ sp_response.type \in AllTypes /\ sp_response.p_intermediates \in Seq(Line)
          /\ sp_response.finalResponse \in Line
      BY <2>1, ResponseTypes
    <2>3. sp_response.finalResponse.n \in 0 .. MaxInfo
      BY <2>2, LineParts
    <2> QED  BY <2>2, <2>3, Bounds DEF WaitInv, Pending
  <1>9. Fits(Tail(Coming), unanswered, sp_response')
    BY <1>3, <1>7, <1>8, LineProcessed, FitsProcessed DEF SameCommand
  <1>10. Paired(rx)
    BY <1>3, <1>7, PairedEnds
  <1> QED  BY <1>1, <1>5, <1>6, <1>7, <1>9, <1>10 DEF InStep

\* readers keep the pending response in step with what is to come
LEMMA ReaderStream ==
    ASSUME ControlTypes, DataTypes, WaitInv, StreamInv, NEW r \in Sessions, ReaderStep(r)
    PROVE  StreamInv'
  <1> USE DEF globalVars, modemVars
  <1>1. CASE ReadLine(r) \/ ReadPdu(r) \/ ProcessLine(r)
    BY <1>1, ReadLineStream, ProcessLineStream
  <1>2. CASE ReadFails(r) \/ OnReaderClosed(r) \/ AtClose(r) \/ AtCloseSignal(r)
             \/ ReaderDies(r)
    <2>1. UNCHANGED <<rline, rx, unanswered, sp_response, clean, ended>>
      BY <1>2 DEF ReadFails, OnReaderClosed, AtClose, AtCloseSignal, ReaderDies
    <2>2. \A q \in Sessions : /\ reader'[q] = "line" <=> reader[q] = "line"
                              /\ reader'[q] \in {"read", "pdu"} => reader'[q] = reader[q]
      BY <1>2 DEF ReadFails, OnReaderClosed, AtClose, AtCloseSignal, ReaderDies, ControlTypes
    <2> QED  BY <2>1, <2>2, StreamKept DEF Flowing, Running, Pending
  <1> QED  BY <1>1, <1>2 DEF ReaderStep

\* lines that are added at the end
LEMMA ComingGrows ==
    ASSUME DataTypes, Alone, AtPdu, UNCHANGED <<reader, rline>>
    PROVE  /\ Alone'
           /\ \A line \in Line : rx' = Append(rx, line) =>
                 Coming' = Append(Coming, line) /\ AtPdu'
           /\ \A d, e \in Line : rx' = rx \o <<d, e>> =>
                 Coming' = Append(Append(Coming, d), e) /\ AtPdu'
  <1>1. rx \in Seq(Line) /\ \A r \in Sessions : rline[r] \in Line
    BY DEF DataTypes
  <1>2. Alone'
    BY DEF Alone, Listening
  <1>3. ASSUME NEW line \in Line, NEW lines \in Seq(Line)
        PROVE  /\ Append(lines, line) \in Seq(Line) /\ Append(lines, line) # << >>
               /\ lines # << >> => Head(Append(lines, line)) = Head(lines)
    <2> DEFINE more == Append(lines, line)
    <2>1. /\ more \in Seq(Line) /\ Len(lines) \in Nat /\ DOMAIN more = 1 .. Len(lines) + 1
          /\ DOMAIN lines = 1 .. Len(lines) /\ \A i \in 1 .. Len(lines) : more[i] = lines[i]
      BY AppendLast
    <2> HIDE DEF more
    <2>2. more # << >>
      BY <2>1
    <2>3. ASSUME lines # << >> PROVE Head(more) = Head(lines)
      BY <2>1, <2>2, <2>3, HeadAndTail
    <2> QED  BY <2>1, <2>2, <2>3 DEF more
  <1>4. ASSUME NEW more, rx' = more, more # << >>, rx # << >> => Head(more) = Head(rx)
        PROVE  AtPdu'
    BY <1>4 DEF AtPdu
  <1>5. ASSUME NEW d \in Line, NEW e \in Line
        PROVE  rx \o <<d, e>> = Append(Append(rx, d), e)
    BY <1>1, HeadAndTail
  <1>6. \/ (Coming = rx /\ Coming' = rx')
        \/ \E first \in Line : Coming = <<first>> \o rx /\ Coming' = <<first>> \o rx'
    <2>1. CASE \A r \in Sessions : reader[r] # "line"
      BY <1>2, <2>1, ComingIs, ComingThen
    <2>2. CASE \E r \in Sessions : reader[r] = "line"
      <3>1. PICK r \in Sessions : reader[r] = "line"
        BY <2>2
      <3> QED  BY <1>1, <1>2, <3>1, ComingIs, ComingThen
    <2> QED  BY <2>1, <2>2
  <1>7. ASSUME NEW line \in Line, rx' = Append(rx, line)
        PROVE  Coming' = Append(Coming, line) /\ AtPdu'
    <2>1. AtPdu'
      BY <1>1, <1>3, <1>4, <1>7
    <2>2. ASSUME NEW first \in Line
          PROVE  <<first>> \o Append(rx, line) = Append(<<first>> \o rx, line)
      BY <1>1, HeadAndTail
    <2> QED  BY <1>6, <1>7, <2>1, <2>2
  <1>8. ASSUME NEW d \in Line, NEW e \in Line, rx' = rx \o <<d, e>>
        PROVE  Coming' = Append(Append(Coming, d), e) /\ AtPdu'
    <2>1. rx' = Append(Append(rx, d), e) /\ Append(rx, d) \in Seq(Line)
      BY <1>1, <1>3, <1>5, <1>8
    <2>2. /\ Append(rx, d) # << >> /\ Append(Append(rx, d), e) # << >>
          /\ Head(Append(Append(rx, d), e)) = Head(Append(rx, d))
          /\ rx # << >> => Head(Append(rx, d)) = Head(rx)
      BY <1>1, <1>3, <2>1
    <2>3. AtPdu'
      BY <1>4, <2>1, <2>2
    <2>4. ASSUME NEW first \in Line
          PROVE  <<first>> \o (rx \o <<d, e>>) = Append(Append(<<first>> \o rx, d), e)
      BY <1>1, HeadAndTail
    <2> QED  BY <1>6, <1>8, <2>1, <2>3, <2>4
  <1> QED  BY <1>2, <1>7, <1>8

\* so does the modem with what it answers ...
LEMMA ModemAnswersStream ==
    ASSUME DataTypes, StreamInv, ModemAnswers PROVE StreamInv'
  <1> DEFINE q == Head(unanswered)
             info == [kind |-> "info", type |-> q.type, of |-> q.id, n |-> q.n + 1]
             final(kind) == [kind |-> kind, type |-> None, of |-> q.id, n |-> q.n]
  <1> SUFFICES ASSUME Flowing' PROVE InStep'
    BY DEF StreamInv
  <1>1. UNCHANGED <<reader, rline, sp_response, clean, ended>>
    BY ModemKeepsSession DEF ModemAnswers, sessionVars
  <1>0. Alone /\ AtPdu /\ Paired(Coming) /\ Fits(Coming, unanswered, sp_response)
    BY <1>1 DEF StreamInv, InStep, Flowing, Running, Pending
  <1>2. unanswered \in Seq(Owed) /\ unanswered # << >> /\ q = unanswered[1] /\ q \in Owed
    <2>1. unanswered \in Seq(Owed) /\ unanswered # << >>
      BY DEF DataTypes, Owed, ModemAnswers
    <2> QED  BY <2>1, HeadAndTail, SeqTypes
  <1>3. q.id \in Ids /\ q.type \in AllTypes /\ q.n \in 0 .. MaxInfo
    BY <1>2 DEF Owed
  <1> HIDE DEF q
  <1>4. ASSUME NEW line \in Line, rx' = Append(rx, line), line.kind # "header",
               \A old \in Seq(Line) : Fits(old, unanswered, sp_response) =>
                   Fits(Append(old, line), unanswered', sp_response)
        PROVE  InStep'
    <2>1. Alone' /\ Coming' = Append(Coming, line) /\ AtPdu' /\ Coming \in Seq(Line)
      BY <1>0, <1>1, <1>4, ComingGrows, ComingTypes
    <2>2. Fits(Append(Coming, line), unanswered', sp_response) /\ Paired(Append(Coming, line))
      BY <1>0, <1>4, <2>1, PairedEnds
    <2> QED  BY <1>1, <2>1, <2>2 DEF InStep
  <1>5. CASE /\ q.n < MaxInfo /\ rx' = Append(rx, info)
             /\ unanswered' = [unanswered EXCEPT ![1].n = q.n + 1]
    <2>1. info \in Line
      <3>1. q.n + 1 \in 0 .. MaxInfo
        BY <1>3, <1>5, Bounds
      <3> QED  BY <1>3, <3>1, LineParts
    <2>2. /\ info.kind = "info" /\ info.type = q.type /\ info.of = q.id /\ info.n = q.n + 1
      OBVIOUS
    <2> HIDE DEF info
    <2>3. \A old \in Seq(Line) : Fits(old, unanswered, sp_response) =>
              Fits(Append(old, info), unanswered', sp_response)
      BY <1>2, <1>5, <2>1, <2>2, FitsAnswer
    <2> QED  BY <1>4, <1>5, <2>1, <2>2, <2>3
  <1>6. ASSUME NEW kind \in {"ok", "error"}, rx' = Append(rx, final(kind)),
               unanswered' = Tail(unanswered)
        PROVE  InStep'
    <2> DEFINE line == final(kind)
    <2>1. line \in Line
      BY <1>3, LineParts
    <2>2. isFinalResponse(line) /\ line.of = q.id /\ line.n = q.n /\ line.kind # "header"
      BY DEF isFinalResponse
    <2>3. rx' = Append(rx, line)
      BY <1>6
    <2> HIDE DEF line
    <2>4. \A old \in Seq(Line) : Fits(old, unanswered, sp_response) =>
              Fits(Append(old, line), unanswered', sp_response)
      BY <1>2, <1>6, <2>1, <2>2, FitsAnswer
    <2> QED  BY <1>4, <2>1, <2>2, <2>3, <2>4
  <1> QED  BY <1>5, <1>6 DEF ModemAnswers, q
\* ... and with what it says of its own accord
LEMMA ModemNotifiesStream ==
    ASSUME DataTypes, StreamInv, ModemNotifies PROVE StreamInv'
  <1> DEFINE other == Spontaneous("other")
             header == Spontaneous("header")
             pdu == Spontaneous("pdu")
  <1> SUFFICES ASSUME Flowing' PROVE InStep'
    BY DEF StreamInv
  <1>1. /\ UNCHANGED <<reader, rline, sp_response, clean, ended, unanswered>>
        /\ rx' = Append(rx, other) \/ rx' = rx \o <<header, pdu>>
    <2>1. UNCHANGED <<reader, rline, sp_response, ended>>
      BY ModemKeepsSession DEF sessionVars
    <2> QED  BY <2>1 DEF ModemNotifies, Flowing
  <1>2. /\ other \in Line /\ header \in Line /\ pdu \in Line
        /\ Unasked(other) /\ Unasked(header) /\ Unasked(pdu)
        /\ other.kind # "header" /\ header.kind = "header" /\ pdu.kind = "pdu"
    BY LineParts DEF Unasked, Spontaneous
  <1> HIDE DEF other, header, pdu
  <1>3. Alone /\ AtPdu /\ Paired(Coming) /\ Fits(Coming, unanswered, sp_response)
    BY <1>1 DEF StreamInv, InStep, Flowing, Running, Pending
  <1>4. Coming \in Seq(Line)
    BY <1>3, ComingTypes
  <1>5. CASE rx' = Append(rx, other)
    <2>1. Alone' /\ Coming' = Append(Coming, other) /\ AtPdu'
      BY <1>1, <1>2, <1>3, <1>5, ComingGrows
    <2>2. Fits(Append(Coming, other), unanswered, sp_response)
          /\ Paired(Append(Coming, other))
      BY <1>2, <1>3, <1>4, FitsUnasked, PairedEnds
    <2> QED  BY <1>1, <2>1, <2>2 DEF InStep
  <1>6. CASE rx' = rx \o <<header, pdu>>
    <2>1. Alone' /\ Coming' = Append(Append(Coming, header), pdu) /\ AtPdu'
      BY <1>1, <1>2, <1>3, <1>6, ComingGrows
    <2>2. Append(Coming, header) \in Seq(Line)
      BY <1>2, <1>4, SeqTypes
    <2>3. Fits(Append(Append(Coming, header), pdu), unanswered, sp_response)
      BY <1>2, <1>3, <1>4, <2>2, FitsUnasked
    <2>4. Paired(Append(Append(Coming, header), pdu))
      BY <1>2, <1>3, <1>4, PairedEnds
    <2> QED  BY <1>1, <2>1, <2>3, <2>4 DEF InStep
  <1> QED  BY <1>1, <1>5, <1>6

-----------------------------------------------------------------------------
(* Answers go to their commands.                                            *)

\* every step keeps the pending response in step with what is to come
LEMMA StreamNext ==
    ASSUME TypeOK, WaitInv, StreamInv, [Next]_vars PROVE StreamInv'
  <1>1. ControlTypes /\ DataTypes
    BY TypeParts
  <1>2. CASE AtOpen
    BY <1>2, PendingTypes DEF AtOpen, StreamInv, Flowing, Pending
  <1>3. CASE DeviceFails \/ UNCHANGED vars
    <2>1. UNCHANGED <<reader, rline, rx, unanswered, sp_response, clean, ended>>
      BY <1>3 DEF DeviceFails, vars, globalVars, readerVars, modemVars
    <2> QED  BY <2>1, StreamKept DEF Flowing, Running, Pending
  <1> QED
    BY <1>1, <1>2, <1>3, CommandStream, ReaderStream, ModemAnswersStream,
       ModemNotifiesStream, Steps

\* A command that was sent to a silent channel returns its own answer.
LEMMA TakesItsOwn ==
    ASSUME ControlTypes, DataTypes, WaitInv, StreamInv, NEW c \in CmdThreads,
           ResumeCommand(c), clean
    PROVE  Own(TakeResponse(c))
  <1> DEFINE a == TakeResponse(c)
             p == sp_response.p_intermediates
             n == sp_response.finalResponse.n
             type == sp_response.type
  <1>1. /\ Running /\ Answered /\ Pending
        /\ cmd[c].id = sp_response.id /\ cmd[c].type = type
    BY DEF ResumeCommand, WaitInv, InCommand, Pending
  <1>2. /\ a.id = cmd[c].id /\ a.type = cmd[c].type /\ a.err = ReturnCode(cmd[c].type)
        /\ a.of = sp_response.finalResponse.of /\ a.n = n /\ a.lines = Reverse(p)
    BY DEF TakeResponse
  <1>3. p \in Seq(Line) /\ n \in Nat /\ type \in AllTypes
    <2>1. sp_response \in Response
      BY DEF DataTypes
    <2>2. p \in Seq(Line) /\ sp_response.finalResponse \in Line /\ type \in AllTypes
      BY <2>1, ResponseTypes
    <2>3. n \in 0 .. MaxInfo
      BY <2>2, LineParts
    <2> QED  BY <2>2, <2>3, Bounds
  <1> HIDE DEF a
  <1>4. CASE s_readerClosed
    <2>1. a.err = "CHANNEL_CLOSED"
      BY <1>2, <1>4 DEF ReturnCode
    <2> QED  BY <2>1 DEF Own, a
  <1>5. CASE ~s_readerClosed
    <2>1. sp_response.finalResponse # NoLine /\ Flowing
      BY <1>1, <1>5 DEF Answered, Flowing
    <2>2. sp_response.finalResponse.of = sp_response.id /\ Taken(sp_response, n)
      BY <1>1, <2>1 DEF StreamInv, InStep, Fits, Pending
    <2>3. /\ Reverse(p) \in Seq(Line) /\ Len(Reverse(p)) = Len(p) /\ Len(p) \in Nat
          /\ \A i \in 1 .. Len(p) : Reverse(p)[i] = p[Len(p) - i + 1]
          /\ DOMAIN p = 1 .. Len(p) /\ DOMAIN Reverse(p) = 1 .. Len(p)
      BY <1>3, ReverseTypes
    <2>4. a.err = "INVALID_RESPONSE" => n = 0
      <3>1. SUFFICES ASSUME a.err = "INVALID_RESPONSE" PROVE n = 0
        OBVIOUS
      <3>2. type \in LineTypes /\ Len(p) = 0
        BY <1>1, <1>2, <3>1 DEF ReturnCode
      <3>3. InfoTaken(type, n) <= 0
        BY <2>2, <3>2 DEF Taken
      <3> QED  BY <1>3, <3>2, <3>3, InfoTakenMore
    <2> HIDE DEF p, n, type
    <2>5. CASE type = "ANYLINE"
      <3>1. /\ InfoTaken(type, n) <= Len(p) /\ Len(p) <= 1
            /\ \A i \in DOMAIN p : p[i].of = 0 \/ (p[i].of = sp_response.id /\ p[i].n = 1)
        BY <2>2, <2>5 DEF Taken, p, type
      <3>2. \A k \in 1 .. Len(p) : Reverse(p)[k] = p[k]
        BY <2>3, <3>1
      <3> QED  BY <1>1, <1>2, <2>2, <2>3, <2>4, <2>5, <3>1, <3>2 DEF Own, a
    <2>6. CASE type # "ANYLINE"
      <3>1. /\ Len(p) = InfoTaken(type, n)
            /\ \A i \in 1 .. Len(p) : p[i].of = sp_response.id /\ p[i].n = Len(p) + 1 - i
        BY <2>2, <2>3, <2>6 DEF Taken, p, type
      <3>2. ASSUME NEW k \in 1 .. Len(p)
            PROVE  Reverse(p)[k].of = sp_response.id /\ Reverse(p)[k].n = k
        <4>1. Len(p) - k + 1 \in 1 .. Len(p) /\ Len(p) + 1 - (Len(p) - k + 1) = k
          BY <2>3
        <4> QED  BY <2>3, <3>1, <3>2, <4>1
      <3> QED  BY <1>1, <1>2, <2>2, <2>3, <2>4, <2>6, <3>1, <3>2 DEF Own, a
    <2> QED  BY <2>5, <2>6
  <1> QED  BY <1>4, <1>5 DEF ControlTypes

\* every step leaves what commands returned right
LEMMA SyncNext ==
    ASSUME TypeOK, WaitInv, StreamInv, InSync, [Next]_vars PROVE InSync'
  <1>1. ControlTypes /\ DataTypes
    BY TypeParts
  <1>2. ASSUME UNCHANGED ret PROVE InSync'
    BY <1>2 DEF InSync, Own
  <1>3. ASSUME NEW c \in CmdThreads, NEW a, ret' = [ret EXCEPT ![c] = a], a.clean => Own(a)
        PROVE  InSync'
    <2>1. \A d \in CmdThreads : ret'[d] = (IF d = c THEN a ELSE ret[d])
      BY <1>1, <1>3 DEF DataTypes
    <2>2. \A d \in CmdThreads : ret'[d].clean => Own(ret'[d])
      BY <1>3, <2>1 DEF InSync
    <2> QED  BY <2>2 DEF InSync, Own
  <1>4. ~NoRet.clean /\ \A err : ~Failed(err).clean
    BY DEF NoRet, Failed
  <1>5. ASSUME NEW c \in CmdThreads, CommandStep(c) PROVE InSync'
    <2>1. CASE SendCommand(c) \/ StartHandshake(c) \/ DialEnds(c)
      <3>1. ret' = [ret EXCEPT ![c] = NoRet]
            \/ \E err \in Errors : ret' = [ret EXCEPT ![c] = Failed(err)]
        BY <2>1 DEF SendCommand, StartHandshake, DialEnds
      <3> QED  BY <1>3, <1>4, <3>1
    <2>2. CASE ResumeCommand(c)
      <3>1. ret' = [ret EXCEPT ![c] = TakeResponse(c)]
        BY <2>2 DEF ResumeCommand
      <3>2. TakeResponse(c).clean = clean
        BY DEF TakeResponse
      <3> HIDE DEF TakeResponse
      <3> QED  BY <1>1, <1>3, <2>2, <3>1, <3>2, TakesItsOwn
    <2>3. CASE Expire(c) \/ WakeSpuriously(c) \/ ResumeWithoutResponse(c) \/ ResumeTooEarly(c)
      BY <1>2, <2>3 DEF Expire, WakeSpuriously, ResumeWithoutResponse, ResumeTooEarly, threadVars
    <2>4. CASE CommandTimesOut(c) \/ HandshakeSend(c) \/ ResumeHandshake(c)
               \/ HandshakeTimesOut(c) \/ HandshakeSlept(c) \/ HandshakeEnds(c)
      BY <1>2, <2>4 DEF CommandTimesOut, HandshakeSend, ResumeHandshake, HandshakeTimesOut,
         HandshakeSlept, HandshakeEnds, threadVars
    <2> QED  BY <1>5, <2>1, <2>2, <2>3, <2>4 DEF CommandStep
  <1>6. ASSUME NEW r \in Sessions, ReaderStep(r) PROVE UNCHANGED ret
    BY <1>6 DEF ReaderStep, ReadLine, ReadPdu, ProcessLine, ReadFails, OnReaderClosed,
       AtClose, AtCloseSignal, ReaderDies, threadVars
  <1>7. CASE AtOpen \/ DeviceFails \/ ModemAnswers \/ ModemNotifies \/ UNCHANGED vars
    <2>1. UNCHANGED ret
      BY <1>7, ModemKeepsSession DEF AtOpen, threadVars
    <2> QED  BY <1>2, <2>1
  <1> QED  BY <1>2, <1>5, <1>6, <1>7, Steps

\* Answers go to their commands (atchannel.c:247-310, 725-822): with one command
\* thread, a command sent when nothing was left of an earlier one returns its own
\* final response and the information lines its type calls for, in order and
\* without loss, whatever times out, is dialled, closed and opened again, unless
\* the modem sends a final line of its own accord before it returns.
THEOREM AnswersInSync == ASSUME OneThread PROVE Spec => []InSync
  <1>1. Init => StreamInv /\ InSync
    BY DEF Init, StreamInv, Flowing, InSync, NoRet
  <1>2. TypeOK /\ WaitInv /\ StreamInv /\ InSync /\ [Next]_vars => StreamInv' /\ InSync'
    BY StreamNext, SyncNext
  <1> QED  BY <1>1, <1>2, TypeCorrect, WaitInvariant, PTL DEF Spec
=============================================================================
