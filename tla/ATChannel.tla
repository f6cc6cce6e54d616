----------------------------- MODULE ATChannel -----------------------------
(***************************************************************************)
(* The AT command channel, atchannel.c: command threads that send one       *)
(* command and wait for its answer, the reader thread of each session that  *)
(* sorts the modem's lines into answers and unsolicited ones, at_handshake, *)
(* and the opening and closing of sessions by mainLoop and onATReaderClosed *)
(* of huawei-tgm.c.                                                         *)
(*                                                                         *)
(* Everything between two points at which s_commandmutex may change hands   *)
(* is one action.  What at_open and at_close do outside the mutex is an     *)
(* action that does not wait for it.                                        *)
(***************************************************************************)
EXTENDS Integers, FiniteSets, SequencesExt, FiniteSetsExt

CONSTANTS
    CmdThreads,    \* threads that send commands
    Types,         \* the ATCommandTypes they use
    HANDSHAKE_RETRY_COUNT,
    USE_NP,        \* TRUE: wait with pthread_cond_timeout_np (Android)
    EagerReopen,   \* FALSE: a command that was woken returns before at_open
    Redial,        \* TRUE: after a dial mainLoop reopens without at_close
    MaxSessions,   \* bound: calls of at_open
    MaxCommands,   \* bound: commands sent to the modem
    MaxInfo,       \* bound: information lines per answer
    MaxUnsolicited \* bound: lines the modem sends of its own accord

\* ANYLINE is SINGLELINE with the empty prefix (AT+CGMI, AT+CGMM)
AllTypes == {"NO_RESULT", "NUMERIC", "SINGLELINE", "ANYLINE", "MULTILINE"}
LineTypes == {"NUMERIC", "SINGLELINE", "ANYLINE"}
Nobody == "nobody"
None == "none"
NoFd == 0

ASSUME CmdThreadsAssumption == Nobody \notin CmdThreads
ASSUME TypesAssumption == Types \subseteq AllTypes
ASSUME FlagsAssumption == {USE_NP, EagerReopen, Redial} \subseteq BOOLEAN
ASSUME BoundsAssumption ==
    /\ HANDSHAKE_RETRY_COUNT \in Nat \ {0}
    /\ {MaxSessions, MaxCommands, MaxInfo, MaxUnsolicited} \subseteq Nat

HANDSHAKE_TIMEOUT_MSEC == 250

Sessions == 1 .. MaxSessions    \* a session is named by its descriptor
Ids == 1 .. MaxCommands

VARIABLES
    s_commandmutex, \* a thread that holds it from one action to the next
    sp_response,    \* the pending command's response, or NoResponse
    s_fd,
    s_readerClosed,
    s_closed,       \* huawei-tgm.c: mainLoop may open the next session
    pc,             \* where each command thread is
    cmd,            \* the id and type of its command
    hs,             \* its handshake: attempt i, command step and sum err
    ret,            \* what its last command returned
    reader,         \* where each session's reader thread is
    rfd,            \* the descriptor it reads
    rline,          \* the line it has read
    fdState,        \* each descriptor: "new", "ok", "failing" or "closed"
    unanswered,     \* commands the modem has yet to answer
    rx,             \* lines to be read
    sent,           \* commands sent so far
    unsolicited,    \* unsolicited lines so far
    clean,          \* history: the pending command was sent to a silent
                    \* channel, and no final line but its own came since
    ended           \* None, "exit" (onATTimeout) or "crash"

globalVars == <<sp_response, s_fd, s_readerClosed, s_closed>>
threadVars == <<pc, cmd, hs, ret>>
readerVars == <<reader, rfd, rline>>
modemVars == <<fdState, unanswered, rx, sent, unsolicited, clean>>
vars == <<s_commandmutex, globalVars, threadVars, readerVars, modemVars, ended>>

\* of is the id of the command that a line answers, 0 when it answers none
Line == [kind : {"info", "ok", "error", "other", "header", "pdu", None},
         type : AllTypes \cup {None}, of : Ids \cup {0}, n : 0 .. MaxInfo]
NoLine == [kind |-> None, type |-> None, of |-> 0, n |-> 0]
Response == [id : Ids \cup {0}, type : AllTypes, success : BOOLEAN,
             finalResponse : Line, p_intermediates : Seq(Line)]
NewResponse(id, type) ==
    [id |-> id, type |-> type, success |-> FALSE, finalResponse |-> NoLine,
     p_intermediates |-> << >>]
NoResponse == NewResponse(0, "NO_RESULT")    \* sp_response is NULL
NoCmd == [id |-> 0, type |-> "NO_RESULT"]
NoHs == [i |-> 0, step |-> 0, err |-> FALSE]
NoRet == [id |-> 0, type |-> "NO_RESULT", err |-> None, of |-> 0, n |-> 0,
          lines |-> << >>, clean |-> FALSE]
Errors == {None, "OK", "GENERIC", "CHANNEL_CLOSED", "COMMAND_PENDING",
           "TIMEOUT", "INVALID_RESPONSE"}

TypeOK ==
    /\ s_commandmutex \in CmdThreads \cup {Nobody}
    /\ sp_response \in Response
    /\ s_fd \in Sessions \cup {NoFd}
    /\ {s_readerClosed, s_closed, clean} \subseteq BOOLEAN
    /\ pc \in [CmdThreads -> {"idle", "wait", "woken", "expired", "send",
                              "sleep", "pause", "spin"}]
    /\ cmd \in [CmdThreads -> [id : Ids \cup {0}, type : AllTypes]]
    /\ hs \in [CmdThreads -> [i : 0 .. HANDSHAKE_RETRY_COUNT - 1, step : 0 .. 2,
                              err : BOOLEAN]]
    /\ ret \in [CmdThreads -> [id : Ids \cup {0}, type : AllTypes,
                   err : Errors, of : Ids \cup {0}, n : 0 .. MaxInfo, lines : Seq(Line),
                   clean : BOOLEAN]]
    /\ reader \in [Sessions -> {"none", "read", "pdu", "line", "closing",
                                "atClose", "signal", "callback", "dead"}]
    /\ rfd \in [Sessions -> Sessions \cup {NoFd}]
    /\ rline \in [Sessions -> Line]
    /\ fdState \in [Sessions -> {"new", "ok", "failing", "closed"}]
    /\ unanswered \in Seq([id : Ids, type : AllTypes, n : 0 .. MaxInfo])
    /\ rx \in Seq(Line)
    /\ sent \in Ids \cup {0}
    /\ unsolicited \in 0 .. MaxUnsolicited
    /\ ended \in {None, "exit", "crash"}

\* mainLoop is about to open the first session
Init ==
    /\ s_commandmutex = Nobody
    /\ sp_response = NoResponse
    /\ s_fd = NoFd
    /\ s_readerClosed = FALSE
    /\ s_closed = TRUE
    /\ pc = [c \in CmdThreads |-> "idle"]
    /\ cmd = [c \in CmdThreads |-> NoCmd]
    /\ hs = [c \in CmdThreads |-> NoHs]
    /\ ret = [c \in CmdThreads |-> NoRet]
    /\ reader = [r \in Sessions |-> "none"]
    /\ rfd = [r \in Sessions |-> NoFd]
    /\ rline = [r \in Sessions |-> NoLine]
    /\ fdState = [r \in Sessions |-> "new"]
    /\ unanswered = << >>
    /\ rx = << >>
    /\ sent = 0
    /\ unsolicited = 0
    /\ clean = FALSE
    /\ ended = None

Running == ended = None
MutexFree == s_commandmutex = Nobody

\* pthread_cond_signal(&s_commandcond): wakes one waiter, if there is one
Signal ==
    IF \E c \in CmdThreads : pc[c] = "wait"
    THEN \E c \in CmdThreads : pc[c] = "wait" /\ pc' = [pc EXCEPT ![c] = "woken"]
    ELSE UNCHANGED pc

-----------------------------------------------------------------------------
(* Sending a command: at_send_command_full_nolock.  The mutex is held.      *)

\* setTimespecRelative: tv_nsec is computed without a carry into tv_sec.  An
\* invalid timespec makes pthread_cond_timedwait return EINVAL at once with
\* the mutex held, and the wait becomes a busy loop.
TimespecValid(msec) ==
    USE_NP \/ \E usec \in {0, 250000, 500000, 750000} :
                 (usec + (msec % 1000) * 1000) * 1000 < 1000000000
TimespecInvalid(msec) ==
    ~USE_NP /\ \E usec \in {0, 250000, 500000, 750000} :
                 (usec + (msec % 1000) * 1000) * 1000 >= 1000000000

Writable == s_fd # NoFd /\ ~s_readerClosed

Spontaneous(kind) == [kind |-> kind, type |-> None, of |-> 0, n |-> 0]
Listening(r) == reader[r] \in {"read", "pdu", "line"}

\* Nothing is left of an earlier command: the modem owes no answer, no part of
\* one is on its way, and one reader at most will sort what comes.
Silent ==
    LET other == Spontaneous("other") IN
    /\ unanswered = << >>
    /\ \A i \in DOMAIN rx : rx[i] = other
    /\ \A r \in Sessions : reader[r] # "pdu" /\ (reader[r] = "line" => rline[r] = other)
    /\ \A q, r \in Sessions : Listening(q) /\ Listening(r) => q = r

\* writeline succeeds, as it may on a descriptor whose device has just failed,
\* and a response is pending
Written(c, type) ==
    /\ sp_response = NoResponse
    /\ Writable
    /\ fdState[s_fd] \in {"ok", "failing"}
    /\ sent < MaxCommands
    /\ sent' = sent + 1
    /\ sp_response' = NewResponse(sent + 1, type)
    /\ cmd' = [cmd EXCEPT ![c] = [id |-> sent + 1, type |-> type]]
    /\ unanswered' = Append(unanswered, [id |-> sent + 1, type |-> type, n |-> 0])
    /\ clean' = Silent
    /\ UNCHANGED <<s_fd, s_readerClosed, s_closed, fdState, rx, unsolicited>>

\* the errors found before a wait; clearPendingCommand frees whatever response
\* is pending, even when it is another command's
NotWritten(err) ==
    /\ \/ sp_response # NoResponse /\ err = "COMMAND_PENDING"
       \/ sp_response = NoResponse /\ ~Writable /\ err = "CHANNEL_CLOSED"
       \/ sp_response = NoResponse /\ Writable /\ fdState[s_fd] # "ok" /\ err = "GENERIC"
    /\ sp_response' = NoResponse
    /\ UNCHANGED <<s_fd, s_readerClosed, s_closed, modemVars>>

Failed(err) == [NoRet EXCEPT !.err = err]

\* at_send_command and its variants, from an idle thread, which is no reader: a
\* reader would get AT_ERROR_INVALID_THREAD
SendCommand(c) ==
    /\ Running /\ MutexFree
    /\ pc[c] = "idle"
    /\ \E type \in Types :
          \/ /\ Written(c, type)
             /\ pc' = [pc EXCEPT ![c] = "wait"]
             /\ ret' = [ret EXCEPT ![c] = NoRet]
          \/ /\ \E err \in Errors : NotWritten(err)
                                    /\ ret' = [ret EXCEPT ![c] = Failed(err)]
             /\ UNCHANGED <<pc, cmd>>
    /\ UNCHANGED <<s_commandmutex, hs, readerVars, ended>>

\* Mutant: commands wait without a timeout
ExpireHandshakeOnly(c) ==
    /\ Running
    /\ pc[c] = "wait" /\ hs[c] # NoHs
    /\ pc' = [pc EXCEPT ![c] = "expired"]
    /\ UNCHANGED <<s_commandmutex, globalVars, cmd, hs, ret, readerVars,
                   modemVars, ended>>

\* The timer of a waiting thread fires; it is no longer a waiter, but it has
\* yet to take the mutex.
Expire(c) ==
    /\ Running
    /\ pc[c] = "wait"
    /\ pc' = [pc EXCEPT ![c] = "expired"]
    /\ UNCHANGED <<s_commandmutex, globalVars, cmd, hs, ret, readerVars,
                   modemVars, ended>>

\* A spurious wakeup
WakeSpuriously(c) ==
    /\ Running
    /\ pc[c] = "wait"
    /\ pc' = [pc EXCEPT ![c] = "woken"]
    /\ UNCHANGED <<s_commandmutex, globalVars, cmd, hs, ret, readerVars,
                   modemVars, ended>>

Answered == sp_response.finalResponse # NoLine \/ s_readerClosed

\* The wait loop tests sp_response->finalResponse: without a response, a
\* null pointer
ResumeWithoutResponse(c) ==
    /\ Running
    /\ (pc[c] = "woken" /\ MutexFree) \/ pc[c] = "spin"
    /\ sp_response = NoResponse
    /\ ended' = "crash"
    /\ UNCHANGED <<s_commandmutex, globalVars, threadVars, readerVars, modemVars>>

ResumeTooEarly(c) ==
    /\ Running /\ MutexFree
    /\ pc[c] = "woken"
    /\ sp_response # NoResponse /\ ~Answered
    /\ pc' = [pc EXCEPT ![c] = "wait"]
    /\ UNCHANGED <<s_commandmutex, globalVars, cmd, hs, ret, readerVars,
                   modemVars, ended>>

\* The error at_send_command_full_nolock returns, and after it the test that
\* a successful command has an intermediate response
ReturnCode(type) ==
    IF s_readerClosed THEN "CHANNEL_CLOSED"
    ELSE IF type \in LineTypes /\ sp_response.success
            /\ sp_response.p_intermediates = << >>
         THEN "INVALID_RESPONSE" ELSE "OK"

\* the intermediates were collected in reverse order
TakeResponse(c) ==
    [id |-> cmd[c].id, type |-> cmd[c].type, err |-> ReturnCode(cmd[c].type),
     of |-> sp_response.finalResponse.of, n |-> sp_response.finalResponse.n,
     lines |-> Reverse(sp_response.p_intermediates), clean |-> clean]

InHandshake(c) == hs[c] # NoHs

\* Mutant: whoever is woken takes the response, without a loop around the wait
ResumeCommandOnce(c) ==
    /\ Running /\ MutexFree
    /\ pc[c] = "woken" /\ ~InHandshake(c)
    /\ sp_response # NoResponse
    /\ ret' = [ret EXCEPT ![c] = TakeResponse(c)]
    /\ sp_response' = NoResponse
    /\ pc' = [pc EXCEPT ![c] = "idle"]
    /\ cmd' = [cmd EXCEPT ![c] = NoCmd]
    /\ UNCHANGED <<s_commandmutex, s_fd, s_readerClosed, s_closed, hs,
                   readerVars, modemVars, ended>>

ResumeCommand(c) ==
    /\ Running /\ MutexFree
    /\ pc[c] = "woken" /\ ~InHandshake(c)
    /\ sp_response # NoResponse /\ Answered
    /\ ret' = [ret EXCEPT ![c] = TakeResponse(c)]
    /\ sp_response' = NoResponse
    /\ pc' = [pc EXCEPT ![c] = "idle"]
    /\ cmd' = [cmd EXCEPT ![c] = NoCmd]
    /\ UNCHANGED <<s_commandmutex, s_fd, s_readerClosed, s_closed, hs,
                   readerVars, modemVars, ended>>

\* AT_ERROR_TIMEOUT, whatever has arrived since; s_onTimeout ends the process
CommandTimesOut(c) ==
    /\ Running /\ MutexFree
    /\ pc[c] = "expired" /\ ~InHandshake(c)
    /\ sp_response' = NoResponse
    /\ ended' = "exit"
    /\ UNCHANGED <<s_commandmutex, s_fd, s_readerClosed, s_closed, threadVars,
                   readerVars, modemVars>>

-----------------------------------------------------------------------------
(* at_handshake: ATZ, two seconds, ATE0Q0V1, until both succeed.  The mutex *)
(* is given up only inside the two waits.                                   *)

StartHandshake(c) ==
    /\ Running /\ MutexFree
    /\ pc[c] = "idle"
    /\ sent + 2 * HANDSHAKE_RETRY_COUNT <= MaxCommands    \* bound
    /\ pc' = [pc EXCEPT ![c] = "send"]
    /\ hs' = [hs EXCEPT ![c] = [i |-> 0, step |-> 1, err |-> FALSE]]
    /\ ret' = [ret EXCEPT ![c] = NoRet]
    /\ s_commandmutex' = c
    /\ UNCHANGED <<globalVars, cmd, readerVars, modemVars, ended>>

\* Mutant: attempts are not counted
HandshakeAdvanceForever(c, failed) ==
    LET h == hs[c]
        err == h.err \/ failed IN
    /\ s_commandmutex' = c
    /\ IF h.step = 1
       THEN /\ pc' = [pc EXCEPT ![c] = "sleep"]
            /\ hs' = [hs EXCEPT ![c] = [h EXCEPT !.err = err]]
       ELSE IF err /\ h.i + 1 < HANDSHAKE_RETRY_COUNT
       THEN /\ pc' = [pc EXCEPT ![c] = "send"]
            /\ hs' = [hs EXCEPT ![c] = [i |-> h.i, step |-> 1, err |-> err]]
       ELSE /\ pc' = [pc EXCEPT ![c] = "pause"]
            /\ hs' = [hs EXCEPT ![c] = [h EXCEPT !.err = err]]

\* a command of the handshake is over: err += failed, over all attempts
HandshakeAdvance(c, failed) ==
    LET h == hs[c]
        err == h.err \/ failed IN
    /\ s_commandmutex' = c
    /\ IF h.step = 1
       THEN /\ pc' = [pc EXCEPT ![c] = "sleep"]
            /\ hs' = [hs EXCEPT ![c] = [h EXCEPT !.err = err]]
       ELSE IF err /\ h.i + 1 < HANDSHAKE_RETRY_COUNT
       THEN /\ pc' = [pc EXCEPT ![c] = "send"]
            /\ hs' = [hs EXCEPT ![c] = [i |-> h.i + 1, step |-> 1, err |-> err]]
       ELSE /\ pc' = [pc EXCEPT ![c] = "pause"]
            /\ hs' = [hs EXCEPT ![c] = [h EXCEPT !.err = err]]

HandshakeSend(c) ==
    /\ Running
    /\ pc[c] = "send"
    /\ \/ /\ Written(c, "NO_RESULT")
          /\ \/ /\ TimespecValid(HANDSHAKE_TIMEOUT_MSEC)
                /\ pc' = [pc EXCEPT ![c] = "wait"]
                /\ s_commandmutex' = Nobody
             \/ /\ TimespecInvalid(HANDSHAKE_TIMEOUT_MSEC)
                /\ pc' = [pc EXCEPT ![c] = "spin"]
                /\ UNCHANGED s_commandmutex
          /\ UNCHANGED hs
       \/ /\ \E err \in Errors : NotWritten(err)
          /\ HandshakeAdvance(c, TRUE)
          /\ UNCHANGED cmd
    /\ UNCHANGED <<ret, readerVars, ended>>

ResumeHandshake(c) ==
    /\ Running /\ MutexFree
    /\ pc[c] = "woken" /\ InHandshake(c)
    /\ sp_response # NoResponse /\ Answered
    /\ sp_response' = NoResponse
    /\ HandshakeAdvance(c, s_readerClosed)
    /\ UNCHANGED <<s_fd, s_readerClosed, s_closed, cmd, ret, readerVars,
                   modemVars, ended>>

\* the answer, if it comes, will be taken for that of a later command
HandshakeTimesOut(c) ==
    /\ Running /\ MutexFree
    /\ pc[c] = "expired" /\ InHandshake(c)
    /\ sp_response' = NoResponse
    /\ HandshakeAdvance(c, TRUE)
    /\ UNCHANGED <<s_fd, s_readerClosed, s_closed, cmd, ret, readerVars,
                   modemVars, ended>>

HandshakeSlept(c) ==
    /\ Running
    /\ pc[c] = "sleep"
    /\ pc' = [pc EXCEPT ![c] = "send"]
    /\ hs' = [hs EXCEPT ![c].step = 2]
    /\ UNCHANGED <<s_commandmutex, globalVars, cmd, ret, readerVars, modemVars,
                   ended>>

\* Success comes with a pause first.  The mutex is still held: no reader can
\* sort the lines that the pause is to drain.
HandshakeEnds(c) ==
    /\ Running
    /\ pc[c] = "pause"
    /\ pc' = [pc EXCEPT ![c] = "idle"]
    /\ hs' = [hs EXCEPT ![c] = NoHs]
    /\ cmd' = [cmd EXCEPT ![c] = NoCmd]
    /\ s_commandmutex' = Nobody
    /\ UNCHANGED <<globalVars, ret, readerVars, modemVars, ended>>

-----------------------------------------------------------------------------
(* The reader thread: readerLoop, processLine, onReaderClosed, and the      *)
(* callback onATReaderClosed with its at_close.                             *)

\* readline returns a line.  A "+CMT:" like line is the first of two.
ReadLine(r) ==
    /\ Running
    /\ reader[r] = "read"
    /\ rfd[r] # NoFd /\ rx # << >>
    /\ rx' = Tail(rx)
    /\ IF Head(rx).kind = "header"
       THEN /\ reader' = [reader EXCEPT ![r] = "pdu"]
            /\ rfd' = [rfd EXCEPT ![r] = s_fd]
            /\ UNCHANGED rline
       ELSE /\ reader' = [reader EXCEPT ![r] = "line"]
            /\ rline' = [rline EXCEPT ![r] = Head(rx)]
            /\ UNCHANGED rfd
    /\ UNCHANGED <<s_commandmutex, globalVars, threadVars, fdState, unanswered,
                   sent, unsolicited, clean, ended>>

\* the second line goes to s_unsolHandler, whatever it is
ReadPdu(r) ==
    /\ Running
    /\ reader[r] = "pdu"
    /\ rfd[r] # NoFd /\ rx # << >>
    /\ rx' = Tail(rx)
    /\ reader' = [reader EXCEPT ![r] = "read"]
    /\ rfd' = [rfd EXCEPT ![r] = s_fd]
    /\ UNCHANGED <<s_commandmutex, globalVars, threadVars, rline, fdState,
                   unanswered, sent, unsolicited, clean, ended>>

isFinalResponse(line) == line.kind \in {"ok", "error"}

\* Whether the line has the prefix of the command's answer; two lines have the
\* same one when they answer commands of one type, and all have the empty one.
HasPrefix(line, type) ==
    type = "ANYLINE" \/ (line.kind = "info" /\ line.type = type)

\* Mutant: the test that there is no intermediate response yet is missing
IsIntermediateAlways(line, response) ==
    response.type # "NO_RESULT" /\ HasPrefix(line, response.type)

\* whether processLine takes a line that is not final as an intermediate one
IsIntermediate(line, response) ==
    /\ HasPrefix(line, response.type)
    /\ \/ response.type \in LineTypes /\ response.p_intermediates = << >>
       \/ response.type = "MULTILINE"

\* addIntermediate adds at the head
ProcessLine(r) ==
    /\ Running /\ MutexFree
    /\ reader[r] = "line"
    /\ LET line == rline[r] IN
         \/ /\ sp_response # NoResponse /\ isFinalResponse(line)
            /\ sp_response' = [sp_response EXCEPT !.finalResponse = line,
                                                  !.success = line.kind = "ok"]
            /\ Signal
         \/ /\ sp_response # NoResponse /\ ~isFinalResponse(line)
            /\ IsIntermediate(line, sp_response)
            /\ sp_response' =
                  [sp_response EXCEPT !.p_intermediates = <<line>> \o @]
            /\ UNCHANGED pc
         \/ \* handleUnsolicited, which does nothing
            /\ sp_response = NoResponse \/ (~isFinalResponse(line)
                                      /\ ~IsIntermediate(line, sp_response))
            /\ UNCHANGED <<sp_response, pc>>
    /\ reader' = [reader EXCEPT ![r] = "read"]
    /\ rfd' = [rfd EXCEPT ![r] = s_fd]
    /\ rline' = [rline EXCEPT ![r] = NoLine]
    /\ UNCHANGED <<s_commandmutex, s_fd, s_readerClosed, s_closed, cmd, hs, ret,
                   modemVars, ended>>

Unreadable(f) == IF f = NoFd THEN TRUE ELSE fdState[f] # "ok"

\* Mutant: the reader returns at once when the second line of an SMS is missing
ReadFailsQuietly(r) ==
    /\ Running
    /\ reader[r] \in {"read", "pdu"}
    /\ Unreadable(rfd[r])
    /\ reader' = [reader EXCEPT ![r] =
                     IF s_readerClosed \/ @ = "pdu" THEN "dead" ELSE "closing"]
    /\ rfd' = [rfd EXCEPT ![r] = NoFd]
    /\ UNCHANGED <<s_commandmutex, globalVars, threadVars, rline,
                   modemVars, ended>>

\* read fails: the device is gone, the descriptor closed or non-blocking.
\* s_readerClosed is tested before the mutex is taken.
ReadFails(r) ==
    /\ Running
    /\ reader[r] \in {"read", "pdu"}
    /\ Unreadable(rfd[r])
    /\ reader' = [reader EXCEPT ![r] = IF s_readerClosed THEN "dead" ELSE "closing"]
    /\ rfd' = [rfd EXCEPT ![r] = NoFd]
    /\ UNCHANGED <<s_commandmutex, globalVars, threadVars, rline,
                   modemVars, ended>>

\* Mutant: the condition is not signalled
OnReaderClosedSilent(r) ==
    /\ Running /\ MutexFree
    /\ reader[r] = "closing"
    /\ s_readerClosed' = TRUE
    /\ reader' = [reader EXCEPT ![r] = "atClose"]
    /\ UNCHANGED <<s_commandmutex, sp_response, s_fd, s_closed, threadVars,
                   rfd, rline, modemVars, ended>>

OnReaderClosed(r) ==
    /\ Running /\ MutexFree
    /\ reader[r] = "closing"
    /\ s_readerClosed' = TRUE
    /\ Signal
    /\ reader' = [reader EXCEPT ![r] = "atClose"]
    /\ UNCHANGED <<s_commandmutex, sp_response, s_fd, s_closed, cmd, hs, ret,
                   rfd, rline, modemVars, ended>>

\* at_close closes whatever s_fd is ...
AtClose(r) ==
    /\ Running
    /\ reader[r] = "atClose"
    /\ fdState' = [f \in Sessions |-> IF f = s_fd THEN "closed" ELSE fdState[f]]
    /\ s_fd' = NoFd
    /\ reader' = [reader EXCEPT ![r] = "signal"]
    /\ UNCHANGED <<s_commandmutex, sp_response, s_readerClosed, s_closed,
                   threadVars, rfd, rline, unanswered, rx, sent, unsolicited,
                   clean, ended>>

\* ... and then takes the mutex
AtCloseSignal(r) ==
    /\ Running /\ MutexFree
    /\ reader[r] = "signal"
    /\ s_readerClosed' = TRUE
    /\ Signal
    /\ reader' = [reader EXCEPT ![r] = "callback"]
    /\ UNCHANGED <<s_commandmutex, sp_response, s_fd, s_closed, cmd, hs, ret,
                   rfd, rline, modemVars, ended>>

\* Mutant: s_closed is not set
ReaderDiesSilently(r) ==
    /\ Running
    /\ reader[r] = "callback"
    /\ reader' = [reader EXCEPT ![r] = "dead"]
    /\ UNCHANGED <<s_commandmutex, globalVars, threadVars, rfd, rline,
                   modemVars, ended>>

\* the rest of onATReaderClosed
ReaderDies(r) ==
    /\ Running
    /\ reader[r] = "callback"
    /\ s_closed' = TRUE
    /\ reader' = [reader EXCEPT ![r] = "dead"]
    /\ UNCHANGED <<s_commandmutex, sp_response, s_fd, s_readerClosed, threadVars,
                   rfd, rline, modemVars, ended>>

-----------------------------------------------------------------------------
(* mainLoop and the modem.                                                  *)

\* mainLoop opens the device and calls at_open, which takes no mutex.  The last
\* close of the device has discarded its input; a modem that was not reset
\* still has the old session's commands to answer.
AtOpen ==
    /\ Running
    /\ s_closed
    /\ EagerReopen \/ \A c \in CmdThreads : pc[c] \notin {"wait", "woken", "expired"}
    /\ \E f \in Sessions :
          /\ fdState[f] = "new"
          /\ \A g \in Sessions : g < f => fdState[g] # "new"
          /\ s_fd' = f
          /\ fdState' = [fdState EXCEPT ![f] = "ok"]
          /\ reader' = [reader EXCEPT ![f] = "read"]
          /\ rfd' = [rfd EXCEPT ![f] = f]
    /\ s_closed' = FALSE
    /\ s_readerClosed' = FALSE
    /\ sp_response' = NoResponse
    /\ rx' = IF \E g \in Sessions : fdState[g] = "failing" THEN rx ELSE << >>
    /\ unanswered' \in {<< >>, unanswered}
    /\ UNCHANGED <<s_commandmutex, threadVars, rline, sent, unsolicited, clean, ended>>

\* requestDialDataNetwork, once its command has returned, ends the session
\* without at_close, and mainLoop sets O_NDELAY on the descriptor.
DialEnds(c) ==
    /\ Running /\ Redial
    /\ s_fd # NoFd /\ ~s_closed
    /\ pc[c] = "idle" /\ ret[c].err # None
    /\ s_closed' = TRUE
    /\ fdState' = [fdState EXCEPT ![s_fd] = "failing"]
    /\ ret' = [ret EXCEPT ![c] = NoRet]
    /\ UNCHANGED <<s_commandmutex, sp_response, s_fd, s_readerClosed, pc, cmd, hs,
                   readerVars, unanswered, rx, sent, unsolicited, clean, ended>>

\* the modem is unplugged, or RESET_STACK makes the descriptor non-blocking
DeviceFails ==
    /\ Running
    /\ s_fd # NoFd /\ fdState[s_fd] = "ok"
    /\ fdState' = [fdState EXCEPT ![s_fd] = "failing"]
    /\ UNCHANGED <<s_commandmutex, globalVars, threadVars, readerVars,
                   unanswered, rx, sent, unsolicited, clean, ended>>

\* The modem answers commands in order: information lines, numbered, and then
\* the final line, which carries their number
ModemAnswers ==
    /\ Running
    /\ unanswered # << >>
    /\ LET q == Head(unanswered) IN
         \/ /\ q.n < MaxInfo
            /\ rx' = Append(rx, [kind |-> "info", type |-> q.type, of |-> q.id,
                                 n |-> q.n + 1])
            /\ unanswered' = [unanswered EXCEPT ![1].n = q.n + 1]
         \/ /\ \E kind \in {"ok", "error"} :
                  rx' = Append(rx, [kind |-> kind, type |-> None, of |-> q.id,
                                    n |-> q.n])
            /\ unanswered' = Tail(unanswered)
    /\ UNCHANGED <<s_commandmutex, globalVars, threadVars, readerVars, fdState,
                   sent, unsolicited, clean, ended>>

\* An unsolicited line, which may be "NO CARRIER", or an SMS in two lines
ModemNotifies ==
    /\ Running
    /\ s_fd # NoFd /\ fdState[s_fd] = "ok"
    /\ unsolicited < MaxUnsolicited
    /\ unsolicited' = unsolicited + 1
    /\ \/ rx' = Append(rx, Spontaneous("other")) /\ UNCHANGED clean
       \/ rx' = rx \o <<Spontaneous("header"), Spontaneous("pdu")>> /\ UNCHANGED clean
       \/ rx' = Append(rx, Spontaneous("error")) /\ clean' = FALSE
    /\ UNCHANGED <<s_commandmutex, globalVars, threadVars, readerVars, fdState,
                   unanswered, sent, ended>>

CommandStep(c) ==
    \/ SendCommand(c) \/ Expire(c) \/ WakeSpuriously(c)
    \/ ResumeWithoutResponse(c) \/ ResumeTooEarly(c) \/ ResumeCommand(c)
    \/ CommandTimesOut(c)
    \/ StartHandshake(c) \/ HandshakeSend(c) \/ ResumeHandshake(c)
    \/ HandshakeTimesOut(c) \/ HandshakeSlept(c) \/ HandshakeEnds(c)
    \/ DialEnds(c)

ReaderStep(r) ==
    \/ ReadLine(r) \/ ReadPdu(r) \/ ProcessLine(r) \/ ReadFails(r)
    \/ OnReaderClosed(r) \/ AtClose(r) \/ AtCloseSignal(r) \/ ReaderDies(r)

Next ==
    \/ \E c \in CmdThreads : CommandStep(c)
    \/ \E r \in Sessions : ReaderStep(r)
    \/ AtOpen \/ DeviceFails \/ ModemAnswers \/ ModemNotifies

Spec == Init /\ [][Next]_vars

\* Every thread is scheduled, one that wants the mutex gets it in the end, and
\* the clock runs: a wait with a timeout expires even among spurious wakeups.
Fairness ==
    /\ \A c \in CmdThreads :
          /\ SF_vars(Expire(c))
          /\ SF_vars(ResumeWithoutResponse(c) \/ ResumeTooEarly(c)
                     \/ ResumeCommand(c) \/ ResumeHandshake(c)
                     \/ CommandTimesOut(c) \/ HandshakeTimesOut(c))
          /\ WF_vars(HandshakeSend(c) \/ HandshakeSlept(c) \/ HandshakeEnds(c))
    /\ \A r \in Sessions :
          /\ SF_vars(ProcessLine(r) \/ OnReaderClosed(r) \/ AtCloseSignal(r))
          /\ SF_vars(ReadFails(r))
          /\ WF_vars(ReadLine(r) \/ ReadPdu(r) \/ AtClose(r) \/ ReaderDies(r))

FairSpec == Spec /\ Fairness

-----------------------------------------------------------------------------
(* Properties.                                                              *)

\* No waiter is forgotten: once the final response is in or the channel is
\* closed, the thread that waits for it has been signalled
\* (atchannel.c:233-238, 464-470, 687-693, 783-798).
NoLostSignal ==
    \A c \in CmdThreads : pc[c] = "wait" /\ sp_response # NoResponse => ~Answered

\* the information lines a command of this type should return, of the n sent
InfoTaken(type, n) ==
    CASE type = "NO_RESULT" -> 0
      [] type \in LineTypes -> IF n = 0 THEN 0 ELSE 1
      [] type = "MULTILINE" -> n

\* A command returned its own final response and, in order and without loss, the
\* lines its type calls for, and fails for want of a line only if the modem sent
\* none.  The line of a command with the empty prefix is the first that came,
\* which may be an unsolicited one.
Own(a) ==
    /\ a.err \in {"OK", "INVALID_RESPONSE"} => a.of = a.id
    /\ a.err = "INVALID_RESPONSE" => a.n = 0
    /\ a.err = "OK" =>
          IF a.type = "ANYLINE"
          THEN /\ InfoTaken(a.type, a.n) <= Len(a.lines) /\ Len(a.lines) <= 1
               /\ \A k \in DOMAIN a.lines :
                     a.lines[k].of = 0 \/ (a.lines[k].of = a.id /\ a.lines[k].n = 1)
          ELSE /\ Len(a.lines) = InfoTaken(a.type, a.n)
               /\ \A k \in DOMAIN a.lines :
                     a.lines[k].of = a.id /\ a.lines[k].n = k

\* Answers go to their commands (atchannel.c:247-310, 725-822): a command sent
\* when nothing was left of an earlier one returns its own answer, whatever
\* timed out, was dialled, closed and opened before, and whatever closes,
\* expires and wakes until it returns, unless the modem sends a final line of
\* its own accord meanwhile.  A command sent while an answer is still out takes
\* that one for its own.
InSync == \A c \in CmdThreads : ret[c].clean => Own(ret[c])

\* A channel that accepts commands has a reader that will deliver their
\* answers or report its end (atchannel.c:457-524, 628-696).
ChannelServed ==
    s_fd # NoFd /\ ~s_readerClosed =>
        reader[s_fd] \in {"read", "pdu", "line", "closing"}

\* A command returns, or its timeout ends the process
\* (atchannel.c:783-798, 850-852).
CommandReturns ==
    \A c \in CmdThreads :
        pc[c] \in {"wait", "woken", "expired"}
            ~> pc[c] \notin {"wait", "woken", "expired"} \/ ~Running

\* at_handshake returns: "timeoutMsec == 0 means infinite timeout" (atchannel.c:
\* 748, 827) and its timeout is HANDSHAKE_TIMEOUT_MSEC.
HandshakeReturns ==
    \A c \in CmdThreads : InHandshake(c) ~> ~InHandshake(c) \/ ~Running

\* When the device fails, the session ends and mainLoop is told, whatever
\* commands are in progress (atchannel.c:457-474, huawei-tgm.c:823-840).
SessionEnds ==
    \A f \in Sessions :
        (s_fd = f /\ fdState[f] = "failing") ~> (s_fd # f /\ s_closed) \/ ~Running
-----------------------------------------------------------------------------
(* What the comments say of the code, and it does not do.                    *)

\* The "current pending command" and its response "are protected by
\* s_commandmutex" (atchannel.c:81-84): no command in progress finds that its
\* response is gone (atchannel.c:783).
NoCrash == ended # "crash"
=============================================================================
