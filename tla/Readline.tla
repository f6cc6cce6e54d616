----------------------------- MODULE Readline ------------------------------
(***************************************************************************)
(* readline of atchannel.c: the modem's bytes arrive in chunks of any size  *)
(* in one buffer, from which one line is returned per call.  The buffer     *)
(* keeps stale bytes behind the terminating zero, and nothing resets it     *)
(* between the sessions, so that the stream here is that of all sessions.   *)
(***************************************************************************)
EXTENDS Integers, Sequences, FiniteSetsExt

CONSTANTS
    MAX_AT_RESPONSE,
    Chars,       \* the bytes the modem sends
    MaxInput     \* bound: bytes it sends in all

NUL == "NUL"
Newlines == {"CR", "LF"}
ASSUME SizeAssumption == MAX_AT_RESPONSE \in Nat \ {0} /\ MaxInput \in Nat
ASSUME CharsAssumption == NUL \notin Chars

VARIABLES
    s_ATBuffer,
    s_ATBufferCur,
    p_read,     \* where the next chunk goes
    pc,         \* "call": between two calls; "reading": in read
    stream,     \* the bytes read so far
    returned,   \* the lines returned so far
    prompted,   \* one of them was the "> " prompt
    behind      \* since a prompt, no call has gone on to read

vars == <<s_ATBuffer, s_ATBufferCur, p_read, pc, stream, returned, prompted, behind>>

Indexes == 0 .. MAX_AT_RESPONSE    \* the buffer has one byte more

\* The last byte of the buffer is always zero.  The prompt that fills the buffer
\* takes the cursor past it: the next call reads there, which ends the model.
TypeOK ==
    /\ s_ATBuffer \in [Indexes -> Chars \cup {NUL}]
    /\ s_ATBuffer[MAX_AT_RESPONSE] = NUL
    /\ s_ATBufferCur \in Indexes \/ (behind /\ s_ATBufferCur = MAX_AT_RESPONSE + 1)
    /\ p_read \in Indexes
    /\ pc \in {"call", "reading"}
    /\ stream \in Seq(Chars) /\ Len(stream) <= MaxInput
    /\ returned \in Seq(Seq(Chars))
    /\ {prompted, behind} \subseteq BOOLEAN

Init ==
    /\ s_ATBuffer = [i \in Indexes |-> NUL]
    /\ s_ATBufferCur = 0
    /\ p_read = 0
    /\ pc = "call"
    /\ stream = << >>
    /\ returned = << >>
    /\ prompted = FALSE
    /\ behind = FALSE

\* the first index from i on that holds one of cs
First(buffer, i, cs) == Min({j \in i .. MAX_AT_RESPONSE : buffer[j] \in cs})

SkipNewlines(buffer, i) == First(buffer, i, (Chars \ Newlines) \cup {NUL})

None == -1
IsPrompt(buffer, i) ==
    buffer[i] = ">" /\ buffer[i + 1] = " " /\ buffer[i + 2] = NUL
findNextEOL(buffer, i) ==
    IF IsPrompt(buffer, i) THEN i + 2
    ELSE LET eol == First(buffer, i, Newlines \cup {NUL}) IN
         IF buffer[eol] = NUL THEN None ELSE eol

Text(buffer, from, to) == [i \in 1 .. to - from |-> buffer[from + i - 1]]

\* Mutant: lines are taken to end with two newlines.
ReturnLineSkipTwo(buffer, cur, eol) ==
    /\ returned' = Append(returned, Text(buffer, cur, eol))
    /\ prompted' = (prompted \/ IsPrompt(buffer, cur))
    /\ behind' = (behind \/ IsPrompt(buffer, cur))
    /\ s_ATBuffer' = [buffer EXCEPT ![eol] = NUL]
    /\ s_ATBufferCur' = eol + 2
    /\ pc' = "call"

\* Mutant: the cursor stays at the end of the line.
ReturnLineStay(buffer, cur, eol) ==
    /\ returned' = Append(returned, Text(buffer, cur, eol))
    /\ prompted' = (prompted \/ IsPrompt(buffer, cur))
    /\ behind' = (behind \/ IsPrompt(buffer, cur))
    /\ s_ATBuffer' = [buffer EXCEPT ![eol] = NUL]
    /\ s_ATBufferCur' = eol
    /\ pc' = "call"

ReturnLine(buffer, cur, eol) ==
    /\ returned' = Append(returned, Text(buffer, cur, eol))
    /\ prompted' = (prompted \/ IsPrompt(buffer, cur))
    /\ behind' = (behind \/ IsPrompt(buffer, cur))
    /\ s_ATBuffer' = [buffer EXCEPT ![eol] = NUL]
    /\ s_ATBufferCur' = eol + 1
    /\ pc' = "call"

\* p is where the next chunk goes
KeepReading(buffer, cur, p) ==
    /\ s_ATBuffer' = buffer
    /\ s_ATBufferCur' = cur
    /\ p_read' = p
    /\ pc' = "reading"
    /\ behind' = FALSE
    /\ UNCHANGED <<returned, prompted>>

CallEmpty ==
    /\ pc = "call" /\ s_ATBufferCur \in Indexes
    /\ s_ATBuffer[s_ATBufferCur] = NUL
    /\ KeepReading([s_ATBuffer EXCEPT ![0] = NUL], 0, 0)
    /\ UNCHANGED stream

\* the memmove: len bytes and their zero come to the front
Moved(buffer, cur, len) ==
    [i \in Indexes |-> IF i <= len THEN buffer[cur + i] ELSE buffer[i]]

\* there is data from the last read: a line, or a part of one to be moved to
\* the front
CallWithData ==
    /\ pc = "call" /\ s_ATBufferCur \in Indexes
    /\ s_ATBuffer[s_ATBufferCur] # NUL
    /\ LET cur == SkipNewlines(s_ATBuffer, s_ATBufferCur)
           eol == findNextEOL(s_ATBuffer, cur)
           len == First(s_ATBuffer, cur, {NUL}) - cur
       IN IF eol = None THEN KeepReading(Moved(s_ATBuffer, cur, len), 0, len)
          ELSE ReturnLine(s_ATBuffer, cur, eol) /\ UNCHANGED p_read
    /\ UNCHANGED stream

\* the buffer is full of a line without an end: it is ditched
Exceeded == p_read = MAX_AT_RESPONSE
Buffer == IF Exceeded THEN [s_ATBuffer EXCEPT ![0] = NUL] ELSE s_ATBuffer
Cursor == IF Exceeded THEN 0 ELSE s_ATBufferCur
ReadAt == IF Exceeded THEN 0 ELSE p_read

Space == MAX_AT_RESPONSE - ReadAt

\* the read: count bytes at p, and a zero behind them
Stored(buffer, p, chunk, count) ==
    [i \in Indexes |-> IF i \in p .. p + count - 1 THEN chunk[i - p + 1]
                       ELSE IF i = p + count THEN NUL ELSE buffer[i]]

Receive(chunk, count) ==
    /\ Len(stream) + count <= MaxInput
    /\ stream' = stream \o chunk
    /\ LET buffer == Stored(Buffer, ReadAt, chunk, count)
           cur == SkipNewlines(buffer, Cursor)
           eol == findNextEOL(buffer, cur)
       IN IF eol = None THEN KeepReading(buffer, cur, ReadAt + count)
          ELSE ReturnLine(buffer, cur, eol) /\ p_read' = ReadAt + count

ReadChunk ==
    /\ pc = "reading"
    /\ \E count \in 1 .. Space : \E chunk \in [1 .. count -> Chars] :
         Receive(chunk, count)

\* the end of the session: NULL is returned, and the next call is the next
\* session's
ReadFails ==
    /\ pc = "reading"
    /\ s_ATBuffer' = Buffer
    /\ s_ATBufferCur' = Cursor
    /\ pc' = "call"
    /\ UNCHANGED <<p_read, stream, returned, prompted, behind>>

Next == CallEmpty \/ CallWithData \/ ReadChunk \/ ReadFails

Spec == Init /\ [][Next]_vars

-----------------------------------------------------------------------------
(* What the cursor and the lines should be.                                 *)

\* What the comment at the end of readline says of the cursor, that it "will
\* always be <= p_read, and there will be a \0 at *p_read" (atchannel.c:446-447),
\* is so but for the "> " prompt: the newline taken for its end is the zero
\* at p_read itself, and the cursor stays behind the data, where the next call
\* takes what an earlier chunk left for new, until one goes on to read.
CursorInData == (s_ATBufferCur <= p_read /\ s_ATBuffer[p_read] = NUL) <=> ~behind

\* the complete lines of a stream, each by where it begins and by the newline
\* that ends it
Lines(s) ==
    {line \in [begin : DOMAIN s, end : DOMAIN s] :
        /\ line.begin < line.end
        /\ line.begin = 1 \/ s[line.begin - 1] \in Newlines
        /\ \A k \in line.begin .. line.end - 1 : s[k] \notin Newlines
        /\ s[line.end] \in Newlines}

\* Nothing up to the byte e shares the buffer with a line after it: e is part
\* of another line, or the newline of one that was returned (of: the lines
\* returned).
Gone(s, of, e) ==
    e = 0 \/ s[e] \notin Newlines \/ \E i \in DOMAIN of : of[i].end = e

\* A line fits that has room in the buffer together with the newlines before
\* it.  The newline that ends the line before is one of them, unless that line
\* was returned: the end of a line that was ditched comes into the empty
\* buffer.
Fits(s, line, of) ==
    \E e \in 0 .. line.begin - 1 :
        Gone(s, of, e) /\ line.end - 1 - e < MAX_AT_RESPONSE

\* the lines returned are those of: in the order of the stream, each whole, or
\* the end of one that is too long
Match(s, lines, of) ==
    /\ \A i, j \in DOMAIN lines : i < j => of[i].end < of[j].end
    /\ \A i \in DOMAIN lines :
        \E from \in of[i].begin .. of[i].end - 1 :
            /\ lines[i] = Text(s, from, of[i].end)
            /\ Fits(s, of[i], of) => from = of[i].begin

\* Whatever the chunks: every line returned is a line of the stream, or the
\* end of one that is too long, in order; two lines are never run together,
\* nor a line returned twice or in part.  A line that fits is returned,
\* also after one that did not, and before more is read (atchannel.c:343-454).
Faithful ==
    ~prompted =>
        \E of \in [DOMAIN returned -> Lines(stream)] :
            /\ Match(stream, returned, of)
            /\ pc = "reading" =>
                  \A line \in Lines(stream) :
                      Fits(stream, line, of) => \E i \in DOMAIN of : of[i] = line
=============================================================================
