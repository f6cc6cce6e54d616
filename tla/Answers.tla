------------------------------ MODULE Answers -------------------------------
(***************************************************************************)
(* What huawei-tgm.c makes of the modem's answers: the requests that ask    *)
(* for something, their completions, and the caches from which they are     *)
(* answered while pppd has the modem.  The channel (ATChannel) gives one    *)
(* ATResponse per command; an information line has the prefix asked for,    *)
(* and begins here with its colon.  A word is one symbol.                   *)
(*                                                                         *)
(* cachedCarrier[1] and [2] point behind the array of the three pointers    *)
(* (huawei-tgm.c:470-471), to memory that is not the daemon's to use; a     *)
(* text of CacheSize characters has its zero behind its buffer, and a       *)
(* fourth line goes behind response.  What is read there is Garbage, and    *)
(* each such use may leave the daemon UNDEFINED.                            *)
(***************************************************************************)
EXTENDS ATTok

CONSTANTS
    CacheSize,      \* the 128 bytes of a cached string
    MaxLines,       \* bound: information lines of an answer to AT+COPS
    LineKinds,      \* the requests that are answered with a line as it is
    \* what the modem may answer: the information lines, from their colon on, of
    SignalLines,    \* AT+CSQ
    OperatorLines,  \* AT+COPS
    RadioLines,     \* AT+CFUN?
    SimLines,       \* AT+CPIN?
    TextLines,      \* and the LineKinds, which have no colon,
    FinalErrors     \* and the final responses that are errors

CachedKinds == LineKinds \cap {"QUERY_MANUFACTURER", "QUERY_MODEM_MODEL"}

ASSUME CacheAssumption == CacheSize \in Nat \ {0} /\ MaxLines \in Nat
ASSUME LineKindsAssumption ==
    LineKinds \subseteq {"QUERY_MANUFACTURER", "QUERY_MODEM_MODEL", "QUERY_NUMBER",
                         "QUERY_IMEI", "QUERY_IMSI"}

CME_ERROR == "+CME ERROR"

\* what a line is made of: two words are kept for Nothing and Garbage
Symbols == STRING \ {"nothing", "garbage"}
ASSUME LinesAssumption ==
    /\ TextLines \subseteq Seq(Symbols)
    /\ \A line \in SignalLines \cup OperatorLines \cup RadioLines \cup SimLines :
          line \in Seq(Symbols) /\ line # << >> /\ line[1] = ":"
    /\ \A final \in FinalErrors :
          /\ final \in Seq(Symbols) /\ final # << >>
          /\ final[1] = CME_ERROR => Len(final) > 1 /\ final[2] = ":"

\* the strings in memory of their own
CachedCarrier == "cachedCarrier[0]"
Caches == CachedKinds \cup {CachedCarrier}

VARIABLES
    state,         \* "OFF", "PPPD" or "ON": what onRequest tests of sState;
                   \* "CRASHED" by a NULL pointer, or "UNDEFINED"
    cached,        \* cachedManufacturer, cachedModel and cachedCarrier[0]
    operator,      \* requestOperator: the lines left to walk, and response
    answers,       \* the completions of the last request
    \* history:
    latest,        \* what was last read for each cache; Nothing at first
    names,         \* the names in the lines walked
    beyond,        \* whether the answers so far lead behind a buffer
    right          \* what the last request should have been answered

vars == <<state, cached, operator, answers, latest, names, beyond, right>>

Words == {"READY", "SIM PIN", "SIM PUK", "PH-NET PIN"}
Nothing == <<"nothing">>
Garbage == <<"garbage">>    \* what malloc returns, and others' memory

-----------------------------------------------------------------------------
(* The modem.                                                               *)

\* err: the channel failed the command, or it succeeded without the line it
\* must have; line: the information line, or the final response when it failed
Response(err, success, line) == [err |-> err, success |-> success, line |-> line]
Responses(lines) ==
    {Response("none", TRUE, line) : line \in lines} \cup
    {Response("none", FALSE, line) : line \in FinalErrors} \cup
    {Response("failed", FALSE, << >>), Response("invalid", FALSE, << >>)}
CME_ERROR_NON_CME == -1
CME_SUCCESS == 0
CME_SIM_NOT_INSERTED == 10
CME_SIM_FAILURE == 13

NoLine(r) == r.err # "none" \/ ~r.success

-----------------------------------------------------------------------------

Completion(errno, data) == [errno |-> errno, data |-> data]
GENERIC_FAILURE == Completion("GENERIC_FAILURE", << >>)
PASSWORD_INCORRECT == Completion("PASSWORD_INCORRECT", << >>)
SUCCESS(data) == Completion("SUCCESS", data)
CRASH == Completion("CRASH", << >>)     \* instead of a completion
\* the completions a client sees: the second of a token is not sent
Seen(completions) == IF completions = << >> THEN << >> ELSE <<Head(completions)>>

NotWalking == [walking |-> FALSE, response |-> << >>]

Init ==
    /\ state = "OFF"
    /\ cached = [c \in Caches |-> Garbage]
    /\ operator = NotWalking
    /\ answers = << >> /\ right = << >>
    /\ latest = [c \in Caches |-> Nothing]
    /\ names = << >> /\ beyond = FALSE

Ready(s) == state = s /\ ~operator.walking
Answer(completions, should) == answers' = completions /\ right' = should
\* outside: what is read or written is not the daemon's; due: whether it must be
Goes(outside, due) ==
    /\ UNCHANGED state \/ (outside /\ state' = "UNDEFINED")
    /\ beyond' = (beyond \/ due)

-----------------------------------------------------------------------------
(* AT+CSQ                                                                   *)

SignalOf(rssi, ber) ==
    IF rssi.ok /\ ber.ok THEN SUCCESS(<<rssi.out, ber.out>>) ELSE GENERIC_FAILURE
SignalAfter(rssi) == SignalOf(rssi, at_tok_nextint(rssi.cur))
SignalStrength[line \in SignalLines] ==
    LET start == at_tok_start(At(line)) IN
    IF start.ok THEN SignalAfter(at_tok_nextint(start.cur)) ELSE GENERIC_FAILURE

\* when the command fails it is completed here, and again at "error"
requestSignalStrength[r \in Responses(SignalLines)] ==
    IF NoLine(r) THEN <<GENERIC_FAILURE, GENERIC_FAILURE>>
    ELSE <<SignalStrength[r.line]>>

SignalIs[r \in Responses(SignalLines)] ==
    LET s == Tail(r.line) IN
    IF r.success /\ HasInt(s, First) /\ HasInt(s, Second(s))
    THEN SUCCESS(<<IntField(s, First), IntField(s, Second(s))>>) ELSE GENERIC_FAILURE

QuerySignalStrength ==
    /\ Ready("ON")
    /\ \E r \in Responses(SignalLines) : Answer(requestSignalStrength[r], <<SignalIs[r]>>)
    /\ UNCHANGED <<state, cached, operator, latest, names, beyond>>

-----------------------------------------------------------------------------
(* AT+CGMI, AT+CGMM and AT+CNUM                                             *)

\* Mutant: the length is not tested.
StoredUnchecked(text) == text

Stored(text) == IF Len(text) <= CacheSize THEN text ELSE << >>
\* its zero does not fit
Overflows(text) == Len(Stored(text)) + 1 > CacheSize

\* Mutant: a string that is too long leaves the cache as it was.
CacheUncleared(kind, text) ==
    cached' = IF kind \in CachedKinds /\ Len(text) <= CacheSize
              THEN [cached EXCEPT ![kind] = text] ELSE cached

\* cleared, and copied when it fits
Cache(kind, text) ==
    cached' = IF kind \in CachedKinds THEN [cached EXCEPT ![kind] = Stored(text)]
              ELSE cached

QueryLine(kind) ==
    /\ Ready("ON")
    /\ \E r \in Responses(TextLines) :
         IF NoLine(r)
         THEN /\ Answer(<<GENERIC_FAILURE>>, <<GENERIC_FAILURE>>)
              /\ UNCHANGED <<state, cached, latest, beyond>>
         ELSE /\ Answer(<<SUCCESS(r.line)>>, <<SUCCESS(r.line)>>)
              /\ Cache(kind, r.line)
              /\ Goes(kind \in CachedKinds /\ Overflows(r.line),
                      kind \in CachedKinds /\ Len(r.line) = CacheSize)
              /\ latest' = IF kind \in CachedKinds THEN [latest EXCEPT ![kind] = r.line]
                           ELSE latest
    /\ UNCHANGED <<operator, names>>

-----------------------------------------------------------------------------
(* AT+COPS.  Names in response: <<name>>, or << >> for NULL.                *)

WalkName(name) == Got(<<name.out>>, name.cur)
WalkFormat(format) ==
    IF ~format.ok THEN Failed(NULL)
    ELSE IF ~at_tok_hasmore(format.cur) THEN Got(<< >>, format.cur)
    ELSE WalkName(at_tok_nextstr(format.cur))
WalkMode(mode) ==
    IF ~mode.ok THEN Failed(NULL)
    ELSE IF ~at_tok_hasmore(mode.cur) THEN Got(<< >>, mode.cur)
    ELSE WalkFormat(at_tok_nextint(mode.cur))
WalkLine[line \in OperatorLines] ==
    LET start == at_tok_start(At(line)) IN
    IF start.ok THEN WalkMode(at_tok_nextint(start.cur)) ELSE Failed(NULL)

NameIn[line \in OperatorLines] ==
    LET s == Tail(line) IN
    IF ~HasInt(s, First) THEN Failed(NULL)
    ELSE IF NoMoreAfter(s, First) THEN Got(<< >>, NULL)
    ELSE IF ~HasInt(s, Second(s)) THEN Failed(NULL)
    ELSE IF NoMoreAfter(s, Second(s)) THEN Got(<< >>, NULL)
    ELSE Got(<<Text(s, Third(s))>>, NULL)

\* only err is looked at: not whether the command succeeded in the end
QueryOperator ==
    /\ Ready("ON")
    /\ \/ /\ Answer(<<GENERIC_FAILURE>>, <<GENERIC_FAILURE>>)    \* err
          /\ UNCHANGED operator
       \/ /\ operator' = [walking |-> TRUE, response |-> << >>]
          /\ Answer(<< >>, << >>)
    /\ UNCHANGED <<state, cached, latest, names, beyond>>

\* in the loop, where i lines have been walked: response[3] is written, or the
\* string that cachedCarrier[1] or [2] points to
NameOutside(i, name) == i >= 3 \/ (i > 0 /\ name # << >>)
\* the first string has three times the room
CacheName(i, name) ==
    cached' = IF i = 0 /\ name # << >> THEN [cached EXCEPT ![CachedCarrier] = Stored(name[1])]
              ELSE cached

\* the body of the loop: a line that is not valid fails the request, with the
\* caches of the lines before it changed
WalkOperator(line) ==
    /\ state = "ON" /\ operator.walking /\ Len(operator.response) < MaxLines
    /\ LET name == WalkLine[line]
           i == Len(operator.response)
           is == NameIn[line]
       IN /\ IF name.ok
             THEN /\ operator' = [operator EXCEPT !.response = Append(@, name.out)]
                  /\ CacheName(i, name.out)
                  /\ answers' = << >>
             ELSE /\ operator' = NotWalking
                  /\ answers' = <<GENERIC_FAILURE>>
                  /\ UNCHANGED cached
          /\ Goes(name.ok /\ NameOutside(i, name.out),
                  /\ is.ok
                  /\ Len(names) > 2 \/ (names # << >> /\ is.out # << >>))
          /\ names' = IF is.ok THEN Append(names, is.out) ELSE << >>
          /\ latest' = IF is.ok /\ is.out # << >> /\ names = << >>
                       THEN [latest EXCEPT ![CachedCarrier] = is.out[1]] ELSE latest
          /\ right' = IF is.ok THEN << >> ELSE <<GENERIC_FAILURE>>

\* after three lines the log reads what the three pointers point to
OperatorEnds ==
    /\ state = "ON" /\ operator.walking
    /\ Answer(<<IF Len(operator.response) = 3 THEN SUCCESS(operator.response)
                ELSE GENERIC_FAILURE>>,
              <<IF Len(names) = 3 THEN SUCCESS(names) ELSE GENERIC_FAILURE>>)
    /\ Goes(Len(operator.response) = 3, Len(names) = 3)
    /\ operator' = NotWalking
    /\ names' = << >>
    /\ UNCHANGED <<cached, latest>>

-----------------------------------------------------------------------------
(* The SIM: AT+CFUN?, AT+CPIN? and AT+CPIN=                                 *)

\* 1 without a line in the answer
isRadioOn[r \in Responses(RadioLines)] ==
    LET start == at_tok_start(At(r.line))
        on == at_tok_nextbool(start.cur)
    IN IF NoLine(r) THEN r.err = "invalid" ELSE start.ok /\ on.ok /\ on.out > 0

RadioIsOn[r \in Responses(RadioLines)] ==
    \/ r.err = "invalid"
    \/ r.success /\ HasInt(Tail(r.line), First) /\ IntField(Tail(r.line), First) = 1

at_get_cme_error[final \in FinalErrors] ==
    LET start == at_tok_start(At(final))
        ret == at_tok_nextint(start.cur)
    IN IF final[1] = CME_ERROR /\ start.ok /\ ret.ok THEN ret.out
       ELSE CME_ERROR_NON_CME

\* the error 0 passes for success, and the line that is not there is looked at
ReadsNull(r) == r.err = "none" /\ ~r.success /\ at_get_cme_error[r.line] = CME_SUCCESS

StatusOf ==
    [word \in Words |-> CASE word = "READY" -> "SIM_READY" [] word = "SIM PIN" -> "SIM_PIN"
                          [] word = "SIM PUK" -> "SIM_PUK"
                          [] OTHER -> "SIM_NETWORK_PERSONALIZATION"]

SimStatus[r \in Responses(SimLines)] ==
    LET start == at_tok_start(At(r.line))
        result == at_tok_nextstr(start.cur)
    IN IF r.err # "none" THEN "SIM_NOT_READY"
       ELSE IF ~r.success
       THEN IF at_get_cme_error[r.line] \in {CME_SIM_NOT_INSERTED, CME_SIM_FAILURE}
            THEN "SIM_ABSENT" ELSE "SIM_NOT_READY"
       ELSE IF ~start.ok \/ ~result.ok THEN "SIM_NOT_READY"
       ELSE IF Len(result.out) = 1 /\ result.out[1] \in Words THEN StatusOf[result.out[1]]
       ELSE "SIM_ABSENT"

ErrorIs(r, n) ==
    /\ r.err = "none" /\ ~r.success /\ r.line[1] = CME_ERROR
    /\ LET s == SubSeq(r.line, 3, Len(r.line))
       IN HasInt(s, First) /\ IntField(s, First) = n

StatusIs[r \in Responses(SimLines)] ==
    IF r.success
    THEN LET text == Text(Tail(r.line), First) IN
         IF \E word \in Words : text = <<word>> THEN StatusOf[text[1]] ELSE "SIM_ABSENT"
    ELSE IF \E n \in {CME_SIM_NOT_INSERTED, CME_SIM_FAILURE} : ErrorIs(r, n)
         THEN "SIM_ABSENT" ELSE "SIM_NOT_READY"

\* getSIMStatus asks for the radio first when the state says it is off
FindsOn(cfun) == state = "ON" \/ isRadioOn[cfun]
QuerySimStatus ==
    /\ ~operator.walking /\ state \in {"OFF", "ON"}
    /\ \E cfun \in Responses(RadioLines), r \in Responses(SimLines) :
         LET on == FindsOn(cfun)
             isOn == state = "ON" \/ RadioIsOn[cfun]
         IN /\ state' = IF on /\ ReadsNull(r) THEN "CRASHED" ELSE IF on THEN "ON" ELSE "OFF"
            /\ Answer(<<IF on /\ ReadsNull(r) THEN CRASH
                        ELSE SUCCESS(<<IF on THEN SimStatus[r] ELSE "SIM_NOT_READY">>)>>,
                      <<IF isOn /\ ErrorIs(r, 0) THEN CRASH
                        ELSE SUCCESS(<<IF isOn THEN StatusIs[r] ELSE "SIM_NOT_READY">>)>>)
    /\ UNCHANGED <<cached, operator, latest, names, beyond>>

\* OK without a line is a success too
EnterSIMPin ==
    /\ Ready("ON")
    /\ \E r \in Responses({<<":", "READY">>}) :
         Answer(<<IF NoLine(r) /\ r.err # "invalid" THEN PASSWORD_INCORRECT
                  ELSE SUCCESS(<< >>)>>,
                <<IF r.success \/ r.err = "invalid" THEN SUCCESS(<< >>)
                  ELSE PASSWORD_INCORRECT>>)
    /\ UNCHANGED <<state, cached, operator, latest, names, beyond>>

-----------------------------------------------------------------------------
(* While pppd has the modem, the caches answer.                             *)

Fresh(c) ==
    IF latest[c] = Nothing THEN Garbage
    ELSE IF Len(latest[c]) > CacheSize THEN << >> ELSE latest[c]

Unended(text) == text = Garbage \/ Len(text) = CacheSize

\* a string without its zero is read on behind its buffer
QueryCached ==
    /\ Ready("PPPD")
    /\ \/ \E kind \in CachedKinds :
            /\ Answer(<<SUCCESS(cached[kind])>>, <<SUCCESS(Fresh(kind))>>)
            /\ Goes(Unended(cached[kind]),
                    latest[kind] = Nothing \/ Len(latest[kind]) = CacheSize)
       \/ /\ Answer(<<SUCCESS(<<cached[CachedCarrier], Garbage, Garbage>>)>>,
                   <<SUCCESS(<<Fresh(CachedCarrier), Garbage, Garbage>>)>>)
          /\ Goes(TRUE, TRUE)
    /\ UNCHANGED <<cached, operator, latest, names>>

StateChanges ==
    /\ ~operator.walking /\ state \in {"OFF", "ON", "PPPD"}
    /\ state' \in {"OFF", "ON", "PPPD"} \ {state}
    /\ Answer(<< >>, << >>)
    /\ UNCHANGED <<cached, operator, latest, names, beyond>>

Next ==
    \/ QuerySignalStrength \/ QuerySimStatus \/ EnterSIMPin \/ QueryOperator
    \/ \E kind \in LineKinds : QueryLine(kind)
    \/ \E line \in OperatorLines : WalkOperator(line)
    \/ OperatorEnds \/ QueryCached \/ StateChanges

Spec == Init /\ [][Next]_vars

-----------------------------------------------------------------------------
(* Properties.                                                              *)

\* Every request is answered with what the fields of the modem's lines say,
\* however they are spaced, quoted and cut short, and with an error when a
\* field that is needed is missing or is no number; of two completions only
\* the first counts (huawei-tgm.c:1076-1118, 1238-1420, 1512-1617).  One answer
\* crashes the daemon, and no other: "+CME ERROR: 0" to AT+CPIN?, where
\* "Returns RIL_SIM_NOT_READY on error" (1511) is not what the code does.
AnsweredRight == ~operator.walking /\ state # "UNDEFINED" => Seen(answers) = right

\* What a client is told while pppd has the modem, of the manufacturer, the
\* model and the first name of the operator, is what the modem named last, also
\* when a later line of the same answer was not valid; a string of more than
\* CacheSize characters is told as empty, never as the one before
\* (huawei-tgm.c:328-389, 1327-1337).
CachesLatest == state # "UNDEFINED" => \A c \in Caches : cached[c] = Fresh(c)

\* The daemon's behaviour is defined until one of these happens, and whatever
\* else the modem answers: a string to be cached has just CacheSize characters
\* (huawei-tgm.c:341, 376), or is told before one was cached; the operator's
\* answer names it in its second or third line, has three valid lines or a
\* fourth (470-471, 1295-1355); the operator is asked for while pppd has the
\* modem (188).
StaysDefined == state = "UNDEFINED" => beyond
=============================================================================
