------------------------------- MODULE ATTok --------------------------------
(***************************************************************************)
(* at_tok.c: the tokens of a line.  A cursor is what is left of the line    *)
(* from *p_cur on: strsep writes its zeros behind the cursor, where only a  *)
(* token that has been returned ends.                                       *)
(***************************************************************************)
EXTENDS Integers, SequencesExt

Comma == ","
Quote == "\""
Space == " "

NULL == [null |-> TRUE, rest |-> << >>]
At(s) == [null |-> FALSE, rest |-> s]

\* the index of the first of cs in s, or 0
IndexOf(s, cs) == SelectInSeq(s, LAMBDA c : c \in cs)
After(s, i) == SubSeq(s, i + 1, Len(s))

Failed(cur) == [ok |-> FALSE, out |-> << >>, cur |-> cur]
Got(out, cur) == [ok |-> TRUE, out |-> out, cur |-> cur]

at_tok_start(cur) ==
    LET colon == IndexOf(cur.rest, {":"}) IN
    IF cur.null \/ colon = 0 THEN Failed(NULL)
    ELSE Got(<< >>, At(After(cur.rest, colon)))

\* up to the first that is no space, the terminating zero if there is none
skipWhiteSpace(s) ==
    SubSeq(s, SelectInSeq(Append(s, "zero"), LAMBDA c : c # Space), Len(s))

\* Mutant: what follows a quoted string is left for the next token.
skipNextCommaNot(cur) == cur

skipNextComma(cur) ==
    LET comma == IndexOf(cur.rest, {Comma}) IN
    IF cur.null THEN cur
    ELSE IF comma = 0 THEN At(<< >>) ELSE At(After(cur.rest, comma))

\* a token up to a delimiter or, with the cursor NULL, to the end
strsep(s, delimiter) ==
    LET i == IndexOf(s, {delimiter}) IN
    IF i = 0 THEN Got(s, NULL)
    ELSE Got(SubSeq(s, 1, i - 1), At(After(s, i)))

TokOf(strsepped) == Got(strsepped.out, skipNextComma(strsepped.cur))
TokAt(s) ==
    IF s # << >> /\ s[1] = Quote THEN TokOf(strsep(Tail(s), Quote)) ELSE strsep(s, Comma)
nextTok(cur) == TokAt(skipWhiteSpace(cur.rest))

\* strtol: the value of the digits at the front, if there are any
Digits == <<"0", "1", "2", "3">>
DigitsAtFront(s) ==
    LET t == Append(skipWhiteSpace(s), "zero")
    IN SubSeq(t, 1, SelectInSeq(t, LAMBDA c : c \notin ToSet(Digits)) - 1)
Value(digits) ==
    FoldLeft(LAMBDA n, c : 10 * n + IndexOf(Digits, {c}) - 1, 0, digits)

IntOf(tok, digits) ==
    IF digits = << >> THEN Failed(tok.cur) ELSE Got(Value(digits), tok.cur)
IntIn(tok) == IntOf(tok, DigitsAtFront(tok.out))
at_tok_nextint(cur) == IF cur.null THEN Failed(cur) ELSE IntIn(nextTok(cur))

\* booleans should be 0 or 1
BoolOf(int) == IF int.ok /\ int.out \in {0, 1} THEN int ELSE Failed(int.cur)
at_tok_nextbool(cur) == BoolOf(at_tok_nextint(cur))

at_tok_nextstr(cur) == IF cur.null THEN Failed(cur) ELSE nextTok(cur)

at_tok_hasmore(cur) == ~cur.null /\ cur.rest # << >>

-----------------------------------------------------------------------------
(* The fields of a line, defined over what follows the colon.  Modes gives  *)
(* for each character where one is in its field when one has read it: a     *)
(* field may be quoted, and commas inside quotes do not end it.  A field is *)
(* known by the place it begins behind: 0, or the comma before it.          *)

ModeAfter(mode, c) ==
    IF mode # "quoted" /\ c = Comma THEN "start"
    ELSE IF mode = "start" /\ c # Space THEN IF c = Quote THEN "quoted" ELSE "plain"
    ELSE IF mode = "quoted" /\ c = Quote THEN "closed"
    ELSE mode

Modes(s) ==
    LET mode[i \in 0 .. Len(s)] == IF i = 0 THEN "start" ELSE ModeAfter(mode[i - 1], s[i])
    IN mode

\* the comma that ends the field, or the end of the line
EndOf(s, field) ==
    LET mode == Modes(s)
    IN Min({i \in field + 1 .. Len(s) : s[i] = Comma /\ mode[i - 1] # "quoted"}
           \cup {Len(s) + 1})

Text(s, field) ==
    LET mode == Modes(s)
        chars == {i \in field + 1 .. EndOf(s, field) - 1 :
                    mode[i] = "plain" \/ (mode[i] = "quoted" /\ mode[i - 1] = "quoted")}
    IN IF chars = {} THEN << >> ELSE SubSeq(s, Min(chars), Max(chars))

First == 0
Second(s) == EndOf(s, First)
Third(s) == EndOf(s, Second(s))

HasField(s, field) == field <= Len(s)
HasInt(s, field) == HasField(s, field) /\ DigitsAtFront(Text(s, field)) # << >>
IntField(s, field) == Value(DigitsAtFront(Text(s, field)))
\* nothing follows the field, or a comma and nothing else
NoMoreAfter(s, field) == EndOf(s, field) >= Len(s)
=============================================================================
