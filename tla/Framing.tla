------------------------------ MODULE Framing -------------------------------
(***************************************************************************)
(* io.rs and the framing of http1.rs: one message read off a connection.   *)
(*                                                                         *)
(* Three callers share the readers: read_client_request (op "request"),    *)
(* and, after read_response_head, discard_body ("discard") and             *)
(* forward_body ("forward").  The peer sends the units of stream; a unit   *)
(* is a byte as far as the readers tell bytes apart: CR, LF, the digit of  *)
(* a chunk size, the semicolon behind it, others.  got units have come out *)
(* of the socket and pos have been used: leftover is what lies between.    *)
(***************************************************************************)
EXTENDS Integers, SequencesExt

CONSTANTS
    Messages,   \* what a peer may send
    Ops,        \* the callers
    HeadMax,    \* 64 KiB
    HeadersMax, \* 64, the room httparse is given
    LineMax,    \* 16 KiB
    BodyMax,    \* max_buffered_body, and 8 MiB for discard_body
    ReadMax     \* the size of the buffers that read fills

CR == "r"
LF == "n"
CRLF == <<CR, LF>>
Digits == {"0", "1", "2"}
Units  == {CR, LF, ";", "a", "b"} \cup Digits

NoLength  == -1     \* no Content-Length
BadLength == -2     \* one that is not a number

\* A message on the wire: its head, its body as it is framed, what the peer
\* sends after it; is the head's text one that httparse takes, and how many
\* headers it has; the headers that frame the body (is there a chunked
\* Transfer-Encoding, the Content-Length); what the body is, and whether head
\* and framing are sound.  Of a chunk: where its line begins in the body, how long
\* the line and the data are, and how much of the data comes before.
Chunk == [from : Nat, line : Nat, size : Nat, before : Nat]

Message ==
    [connect : BOOLEAN, parses : BOOLEAN, headers : Nat, te : BOOLEAN, cl : Nat \cup {NoLength, BadLength},
     chunks : SUBSET Chunk, trailing : Nat, sound : BOOLEAN,
     head : Seq(Units), body : Seq(Units), after : Seq(Units), data : Seq(Units)]

\* The number at the front of a line, up to a semicolon.
SizeOf(line) ==
    IF line = <<>> \/ Head(line) \notin Digits \/ (Len(line) > 1 /\ line[2] # ";") THEN BadLength
    ELSE CASE Head(line) = "0" -> 0 [] Head(line) = "1" -> 1 [] OTHER -> 2

\* The mark is in the text behind i units; it is the first one there, seen from
\* the unit behind from.
Sits(text, i, mark) ==
    i + Len(mark) <= Len(text) /\ SubSeq(text, i + 1, i + Len(mark)) = mark

Ends(text, from, i, mark) ==
    from <= i /\ Sits(text, i, mark) /\ \A j \in from .. i - 1 : ~Sits(text, j, mark)

\* The lines of a trailer end with the first empty one; behind the first of
\* them, trailing units are left.
SoundTrailer(m, from) ==
    LET first == Len(m.body) - m.trailing - 2
    IN  /\ Ends(m.body, from, first, CRLF)
        /\ IF m.trailing = 0 THEN from = first
           ELSE from < first /\ Ends(m.body, from, Len(m.body) - 4, CRLF \o CRLF)

\* The line of a chunk, its data and the line end behind it, and where the next
\* one begins; or the last line, and the trailer.
SoundChunk(m, chunk) ==
    LET end  == chunk.from + chunk.line
        next == end + 2 + chunk.size + 2
    IN  /\ Ends(m.body, chunk.from, end, CRLF)
        /\ SizeOf(SubSeq(m.body, chunk.from + 1, end)) = chunk.size
        /\ IF chunk.size = 0
             THEN chunk.before = Len(m.data) /\ SoundTrailer(m, end + 2)
             ELSE /\ chunk.before + chunk.size <= Len(m.data)
                  /\ Sits(m.body, end + 2,
                          SubSeq(m.data, chunk.before + 1, chunk.before + chunk.size) \o CRLF)
                  /\ \E c \in m.chunks : c.from = next /\ c.before = chunk.before + chunk.size

\* A head ends with the first empty line, a body is as long as it is said to be.
Sound(m) ==
    /\ m.parses /\ m.cl # BadLength
    /\ Len(m.head) >= 4 /\ Ends(m.head, 0, Len(m.head) - 4, CRLF \o CRLF)
    /\ m.te /\ ~m.connect =>
        /\ \E chunk \in m.chunks : chunk.from = 0 /\ chunk.before = 0
        /\ \A chunk \in m.chunks : SoundChunk(m, chunk)
    /\ ~m.te /\ ~m.connect /\ m.cl # NoLength => m.data = m.body /\ Len(m.body) = m.cl

ASSUME FramingAssumption ==
    /\ \A m \in Messages : m \in Message /\ (m.sound => Sound(m))
    /\ {HeadMax, HeadersMax, LineMax, BodyMax} \subseteq Nat /\ ReadMax \in Nat \ {0}
    /\ Ops \subseteq {"request", "discard", "forward"}

\* CONNECT is a request.
Calls == {call \in Ops \X Messages : call[2].connect => call[1] = "request"}

VARIABLES
    op, msg,    \* the caller and the message
    peer,       \* "open", "closed" or "reset"
    dst,        \* "open" or "gone": where forward_body writes
    at,         \* the read that comes next, "done" or "failed"
    pos, got,
    need,       \* units of a length or of a chunk that are still to come
    part,       \* what read_exact_from has collected
    body,       \* what the caller has collected
    out         \* what has been written to dst

vars   == <<op, msg, peer, dst, at, pos, got, need, part, body, out>>
around == <<op, msg, peer, dst>>

stream   == msg.head \o msg.body \o msg.after
leftover == SubSeq(stream, pos + 1, got)
Ended    == at \in {"done", "failed"}

Init ==
    /\ \E call \in Calls : op = call[1] /\ msg = call[2]
    /\ peer = "open" /\ dst = "open"
    /\ at = "head" /\ pos = 0 /\ got = 0 /\ need = 0
    /\ part = <<>> /\ body = <<>> /\ out = <<>>

\* Mutant: Content-Length comes first.
framing_LengthFirst ==
    IF op = "request" /\ msg.connect THEN "none"
    ELSE IF msg.cl >= 0 THEN "length"
    ELSE IF msg.te THEN "chunked"
    ELSE IF op = "forward" THEN "close" ELSE "none"

\* Mutant: a CONNECT is a request like the others.
framing_AnyMethod ==
    IF msg.te THEN "chunked"
    ELSE IF msg.cl >= 0 THEN "length"
    ELSE IF op = "forward" THEN "close" ELSE "none"

\* What frames the body.  The bytes behind a CONNECT are not a body.
framing ==
    IF op = "request" /\ msg.connect THEN "none"
    ELSE IF msg.te THEN "chunked"
    ELSE IF msg.cl >= 0 THEN "length"
    ELSE IF op = "forward" THEN "close" ELSE "none"

-----------------------------------------------------------------------------
(* Reading *)

ByMark == at \in {"head", "size", "crlf", "trailer"}
Mark   == IF at = "head" THEN CRLF \o CRLF ELSE CRLF

\* The places of the mark in leftover: the numbers of units before it.
Found == {i \in 0 .. Len(leftover) - Len(Mark) : SubSeq(leftover, i + 1, i + Len(Mark)) = Mark}

\* What leftover has before the mark, and the position behind it.
Line == SubSeq(leftover, 1, Min(Found))
Past == pos + Min(Found) + Len(Mark)

\* The next step is a read of the socket.
Starved ==
    \/ ByMark /\ Found = {} /\ (at = "head" => Len(leftover) <= HeadMax)
    \/ at \in {"exact", "fixed"} /\ leftover = <<>> /\ need > 0
    \/ at = "close" /\ leftover = <<>>

\* read_until_double_crlf and read_line read on; read_line has a look at its
\* limit before the next search.
More ==
    /\ Starved /\ ByMark /\ peer = "open"
    /\ \E n \in 1 .. ReadMax : got + n <= Len(stream) /\ got' = got + n
    /\ at' = IF at # "head" /\ got' - pos > LineMax THEN "failed" ELSE at
    /\ UNCHANGED <<around, pos, need, part, body, out>>

\* A head that has not ended within the limit.
HeadTooLarge ==
    /\ at = "head" /\ Found = {} /\ Len(leftover) > HeadMax
    /\ at' = "failed"
    /\ UNCHANGED <<around, pos, got, need, part, body, out>>

\* How much read_exact_from and the loops that copy take in one go: first what
\* leftover has, then what a read of the socket gives.
HowMany ==
    IF leftover # <<>>
      THEN {IF at = "close" THEN Len(leftover) ELSE Min({Len(leftover), need})} \ {0}
      ELSE {n \in 1 .. ReadMax : /\ peer = "open" /\ pos + n <= Len(stream)
                                 /\ at = "close" \/ n <= need}

Take ==
    /\ at \in {"exact", "fixed", "close"}
    /\ \E n \in HowMany :
        /\ pos' = pos + n
        /\ got' = Max({got, pos + n})
        /\ need' = IF at = "close" THEN 0 ELSE need - n
        /\ LET units == SubSeq(stream, pos + 1, pos + n)
           IN  IF at = "exact" THEN part' = part \o units /\ UNCHANGED out
                               ELSE out' = out \o units /\ UNCHANGED part
    /\ UNCHANGED <<around, at, body>>

\* read returns 0: an error, but for copy_fixed and copy_until_close, which
\* return Ok with what there was.
EndOfStream ==
    /\ Starved /\ peer = "closed"
    /\ at' = IF at \in {"fixed", "close"} THEN "done" ELSE "failed"
    /\ UNCHANGED <<around, pos, got, need, part, body, out>>

ReadFails ==
    /\ Starved /\ peer = "reset"
    /\ at' = "failed"
    /\ UNCHANGED <<around, pos, got, need, part, body, out>>

-----------------------------------------------------------------------------
(* read_client_request, discard_body, forward_body *)

\* parse_request_head, parse_response_head.
Parsed == msg.parses /\ msg.headers <= HeadersMax

\* The head is complete, and is parsed.
TakeHead ==
    /\ at = "head" /\ Found # {}
    /\ pos' = Past
    /\ need' = IF framing = "length" THEN msg.cl ELSE 0
    /\ at' = IF ~Parsed THEN "failed"
             ELSE CASE framing = "chunked" -> "size"
                    [] framing = "close" -> "close"
                    [] framing = "none" -> "done"
                    [] framing = "length" /\ op = "forward" -> "fixed"
                    [] OTHER -> IF op = "request" /\ msg.cl > BodyMax THEN "failed" ELSE "exact"
    /\ UNCHANGED <<around, got, part, body, out>>

\* Mutant: a body that is as long as the limit is refused.
TakeSize_OffByOne ==
    /\ at = "size" /\ Found # {}
    /\ LET size == SizeOf(Line)
       IN  /\ need' = Max({size, 0})
           /\ at' = CASE size = BadLength -> "failed"
                      [] size = 0 -> "trailer"
                      [] OTHER -> IF op # "forward" /\ Len(body) + size >= BodyMax THEN "failed"
                                  ELSE "exact"
    /\ pos' = Past
    /\ out' = IF op = "forward" THEN out \o Line \o CRLF ELSE out
    /\ UNCHANGED <<around, got, part, body>>

\* Mutant: what is no size is counted down.
TakeSize_Signed ==
    /\ at = "size" /\ Found # {}
    /\ LET size == SizeOf(Line)
       IN  /\ need' = size
           /\ at' = CASE size = BadLength -> "failed"
                      [] size = 0 -> "trailer"
                      [] OTHER -> IF op # "forward" /\ Len(body) + size > BodyMax THEN "failed"
                                  ELSE "exact"
    /\ pos' = Past
    /\ out' = IF op = "forward" THEN out \o Line \o CRLF ELSE out
    /\ UNCHANGED <<around, got, part, body>>

\* The line of a chunk size; copy_chunked writes it before it looks at it.
TakeSize ==
    /\ at = "size" /\ Found # {}
    /\ LET size == SizeOf(Line)
       IN  /\ need' = Max({size, 0})
           /\ at' = CASE size = BadLength -> "failed"
                      [] size = 0 -> "trailer"
                      [] OTHER -> IF op # "forward" /\ Len(body) + size > BodyMax THEN "failed"
                                  ELSE "exact"
    /\ pos' = Past
    /\ out' = IF op = "forward" THEN out \o Line \o CRLF ELSE out
    /\ UNCHANGED <<around, got, part, body>>

\* All units of the length or the chunk are there.
Taken ==
    /\ at \in {"exact", "fixed"} /\ need = 0
    /\ at' = IF framing = "chunked" THEN "crlf" ELSE "done"
    /\ part' = <<>>
    /\ IF op = "forward" THEN out' = out \o part /\ UNCHANGED body
                         ELSE body' = body \o part /\ UNCHANGED out
    /\ UNCHANGED <<around, pos, got, need>>

\* The line that ends a chunk's data is not looked at.
TakeCrlf ==
    /\ at = "crlf" /\ Found # {}
    /\ pos' = Past
    /\ at' = "size"
    /\ out' = IF op = "forward" THEN out \o CRLF ELSE out
    /\ UNCHANGED <<around, got, need, part, body>>

\* Mutant: every reader takes one line only.
TakeTrailer_One ==
    /\ at = "trailer" /\ Found # {}
    /\ pos' = Past
    /\ at' = "done"
    /\ out' = IF op = "forward" THEN out \o Line \o CRLF ELSE out
    /\ UNCHANGED <<around, got, need, part, body>>

\* After the last chunk: copy_chunked copies lines up to an empty one,
\* read_chunked takes one line.
TakeTrailer ==
    /\ at = "trailer" /\ Found # {}
    /\ pos' = Past
    /\ at' = IF op = "forward" /\ Line # <<>> THEN "trailer" ELSE "done"
    /\ out' = IF op = "forward" THEN out \o Line \o CRLF ELSE out
    /\ UNCHANGED <<around, got, need, part, body>>

\* A write to dst, after each read, fails.
WriteFails ==
    /\ op = "forward" /\ dst = "gone" /\ at \notin {"head", "done", "failed"}
    /\ at' = "failed"
    /\ UNCHANGED <<around, pos, got, need, part, body, out>>

\* The call returns and another one is made.
NextCall ==
    /\ Ended
    /\ \E call \in Calls : op' = call[1] /\ msg' = call[2]
    /\ peer' = "open" /\ dst' = "open"
    /\ at' = "head" /\ pos' = 0 /\ got' = 0 /\ need' = 0
    /\ part' = <<>> /\ body' = <<>> /\ out' = <<>>

-----------------------------------------------------------------------------
\* The peer closes or resets the connection, wherever it is in the message.
PeerEnds ==
    /\ ~Ended /\ peer = "open"
    /\ peer' \in {"closed", "reset"}
    /\ UNCHANGED <<op, msg, dst, at, pos, got, need, part, body, out>>

\* The client that the answer is for goes away.
DstLeaves ==
    /\ ~Ended /\ op = "forward" /\ dst = "open"
    /\ dst' = "gone"
    /\ UNCHANGED <<op, msg, peer, at, pos, got, need, part, body, out>>

Next ==
    \/ More \/ HeadTooLarge \/ Take \/ EndOfStream \/ ReadFails
    \/ TakeHead \/ TakeSize \/ Taken \/ TakeCrlf \/ TakeTrailer
    \/ WriteFails \/ NextCall \/ PeerEnds \/ DstLeaves

Spec == Init /\ [][Next]_vars

-----------------------------------------------------------------------------
(* encode_request *)

\* Mutant: the Content-Length stays when the body is left out.
sent_length_Kept(include) ==
    IF msg.cl # NoLength THEN msg.cl
    ELSE IF include /\ body # <<>> THEN Len(body) ELSE NoLength

\* The Content-Length of the request that goes upstream, with the body or, to
\* open a logon, without it.  Transfer-Encoding is never sent on.
sent_length(include) ==
    IF include /\ msg.cl # NoLength THEN msg.cl
    ELSE IF body = <<>> THEN NoLength
    ELSE IF include THEN Len(body) ELSE 0

-----------------------------------------------------------------------------
(* Properties *)

TypeOK ==
    /\ op \in Ops /\ msg \in Messages
    /\ peer \in {"open", "closed", "reset"} /\ dst \in {"open", "gone"}
    /\ at \in {"head", "size", "exact", "crlf", "trailer", "fixed", "close", "done", "failed"}
    /\ pos \in Nat /\ got \in pos .. Len(stream) /\ need \in Nat
    /\ part \in Seq(Units) /\ body \in Seq(Units) /\ out \in Seq(Units)

\* What the proofs need: where a request is, with what it has collected.
Counted ==
    op = "request" =>
        /\ at \notin {"fixed", "close"}
        /\ at = "head" => part = <<>> /\ body = <<>>
        /\ framing = "none" => at \in {"head", "done", "failed"} /\ body = <<>>
        /\ framing = "length" =>
            /\ at \in {"head", "exact", "done", "failed"}
            /\ at = "exact" => body = <<>> /\ Len(part) + need = msg.cl
            /\ at = "done" => Len(body) = msg.cl

\* Where the message ends, by its own framing.
FrameEnd == Len(msg.head) + (IF framing = "none" THEN 0 ELSE Len(msg.body))

\* However the bytes are cut into reads, and whatever follows in the same read,
\* a reader that collects a sound message has its data and stops where the
\* message ends: what is left over is the head of the next answer on the
\* connection, or the first bytes of the tunnel behind a CONNECT.  (A trailer
\* is the exception: read_chunked takes one line of it.)
Exact ==
    at = "done" /\ msg.sound /\ op # "forward" =>
        /\ pos = FrameEnd - (IF framing = "chunked" THEN msg.trailing ELSE 0)
        /\ body = IF framing = "none" THEN <<>> ELSE msg.data

\* The client gets the answer's body unit by unit as the proxy sent it, its
\* chunks and its trailer included, at no time a unit of another message; and
\* forward_body calls a shortened body complete only when the proxy closed the
\* connection in the middle of a Content-Length.
Verbatim ==
    op = "forward" /\ msg.sound =>
        /\ IsPrefix(out, IF framing = "close" THEN msg.body \o msg.after ELSE msg.body)
        /\ at = "done" =>
            \/ framing = "close" /\ out = SubSeq(stream, Len(msg.head) + 1, got)
            \/ out = msg.body /\ pos = FrameEnd
            \/ framing = "length" /\ peer = "closed"

\* A line is longer than what is certain to be accepted.
LongLine ==
    /\ Len(leftover) > LineMax
    /\ \A i \in 1 .. Len(leftover) - 1 :
            SubSeq(leftover, i, i + 1) = CRLF => i > LineMax - ReadMax

\* A message is given up only for a reason: it is malformed, it does not come
\* in full, it is over a limit, or the client that waits for it has gone.
FailsForCause ==
    at = "failed" =>
        \/ ~msg.sound
        \/ peer # "open" /\ (got < FrameEnd \/ framing = "close")
        \/ dst = "gone"
        \/ Len(msg.head) > HeadMax \/ msg.headers > HeadersMax
        \/ LongLine
        \/ op # "forward" /\ Len(msg.data) > BodyMax

\* A reader asks the socket for more only when something of the message is
\* still missing: it never waits, on a connection that stays open, for a unit
\* the peer has no reason to send.
NeverWaits ==
    Starved /\ msg.sound => got < FrameEnd \/ at = "close"

\* The request sent upstream says the length of the body sent with it, also
\* when it came in chunks and when the body is held back for the logon; the
\* length of a client that gave both framings is passed on as it is.
Reframed ==
    at = "done" /\ op = "request" /\ msg.sound /\ ~msg.connect =>
        \A include \in BOOLEAN :
            LET sent == IF include THEN Len(body) ELSE 0
            IN  \/ sent_length(include) = sent
                \/ sent_length(include) = NoLength /\ sent = 0
                \/ include /\ msg.te /\ msg.cl # NoLength
=============================================================================
