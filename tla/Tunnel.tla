------------------------------- MODULE Tunnel -------------------------------
(***************************************************************************)
(* winhttp_up.rs: one call of forward on Windows.  Tunnel::open makes three*)
(* WinHTTP handles and sends the request; then pump copies both directions *)
(* of a CONNECT's tunnel from one thread and through one buffer, or        *)
(* read_response collects the answer to a plain request.                   *)
(*                                                                         *)
(* A direction is four counters of its bytes, in the order in which they   *)
(* move: sent by the peer, read into the buffer, written out of it, taken  *)
(* by the other peer.  Channels keep the order of bytes, so counting them  *)
(* tells what is where.  The preface counts as read from the client.       *)
(*                                                                         *)
(* The handles are closed one at a time, by hand while open makes them and *)
(* by Handles::drop afterwards; the plain request's are closed before its  *)
(* answer is written, a tunnel's when pump is over.                        *)
(***************************************************************************)
EXTENDS Naturals, Sequences

CONSTANTS
    Preface,    \* bytes that came with the CONNECT's head
    UpBytes,    \* bytes the client may send in all, the preface included
    DownBytes,  \* bytes the proxy may send
    Chunk,      \* size of the buffer, 16 KB in the code
    Room,       \* what the socket buffer towards the client holds
    Window,     \* what is on its way to the proxy at most
    Rounds      \* calls of WinHttpSendRequest, 6 in the code

ASSUME SizeAssumption ==
    /\ {Preface, UpBytes, DownBytes} \subseteq Nat /\ Preface <= UpBytes
    /\ {Chunk, Room, Window, Rounds} \subseteq Nat \ {0}

VARIABLES
    is_connect, \* CONNECT or a plain request
    pc,         \* where forward is
    handles,    \* WinHTTP handles that are open
    closing,    \* those that are still to be closed, in that order
    tries,      \* calls of WinHttpSendRequest so far
    held,       \* bytes of the buffer (or of the body) still to be passed on
    up, down,   \* the two directions
    client,     \* "open", "shut" for writing, or "gone"
    proxy,      \* "open", "closed" in good order, or "broken"
    ended       \* why forward returned

tunnel == <<is_connect, pc, handles, closing, tries, held, ended>>
vars   == <<tunnel, up, down, client, proxy>>

Moved   == [sent : Nat, read : Nat, written : Nat, taken : Nat]
Making  == {"session", "connect", "request"}
Opening == Making \cup {"ask", "receive"}
Pumping == {"preface", "recv", "write", "read", "send"}

Init ==
    /\ is_connect \in BOOLEAN
    /\ pc = "session"
    /\ handles = {}
    /\ closing = <<>>
    /\ tries = 0
    /\ held = 0
    /\ up = [sent |-> Preface, read |-> Preface, written |-> 0, taken |-> 0]
    /\ down = [sent |-> 0, read |-> 0, written |-> 0, taken |-> 0]
    /\ client = "open"
    /\ proxy = "open"
    /\ ended = "no"

Goto(step) == pc' = step /\ UNCHANGED <<is_connect, handles, closing, tries, held, ended>>

\* The call is given up for this reason, with these handles to be closed; what is
\* still in the buffer is dropped.
GiveUp(why, order) ==
    /\ pc' = "close"
    /\ closing' = order
    /\ ended' = why
    /\ held' = 0
    /\ UNCHANGED <<is_connect, handles, tries>>

\* The fields of Handles, in the order in which its drop closes them.
Dropped == <<"request", "connect", "session">>

\* What is to be closed, at any time.
Orders == {<<>>, <<"session">>, <<"connect", "session">>, Dropped}

\* forward, pump or open returns, and the Handles it owns is dropped.
End(why) == GiveUp(why, Dropped)

CloseHandle ==
    /\ pc = "close" /\ closing # <<>>
    /\ handles' = handles \ {Head(closing)}
    /\ closing' = Tail(closing)
    /\ UNCHANGED <<is_connect, pc, tries, held, ended, up, down, client, proxy>>

\* The last one is closed: read_response has its answer, or the call is over.
Closed ==
    /\ pc = "close" /\ closing = <<>>
    /\ Goto(IF ended = "no" THEN "answer" ELSE "done")
    /\ UNCHANGED <<up, down, client, proxy>>

-----------------------------------------------------------------------------
(* Tunnel::open *)

\* WinHttpOpen, WinHttpConnect and WinHttpOpenRequest, one after another.
OpenHandle ==
    /\ \/ pc = "session" /\ pc' = "connect"
       \/ pc = "connect" /\ pc' = "request"
       \/ pc = "request" /\ pc' = "ask"
    /\ handles' = handles \cup {pc}
    /\ UNCHANGED <<is_connect, closing, tries, held, ended, up, down, client, proxy>>

\* Mutant: when the request handle cannot be made, the connection's is forgotten.
MakeFails_Forgets ==
    /\ pc \in Making
    /\ GiveUp("failed", IF pc = "session" THEN <<>> ELSE <<"session">>)
    /\ UNCHANGED <<up, down, client, proxy>>

\* A handle cannot be made.  There is no Handles yet: those made before it are
\* closed by hand.
MakeFails ==
    /\ pc \in Making
    /\ GiveUp("failed", CASE pc = "session" -> <<>>
                          [] pc = "connect" -> <<"session">>
                          [] pc = "request" -> <<"connect", "session">>)
    /\ UNCHANGED <<up, down, client, proxy>>

\* WinHttpSendRequest asks for the request to be sent again.
Resend ==
    /\ pc = "ask"
    /\ tries + 1 < Rounds
    /\ tries' = tries + 1
    /\ UNCHANGED <<is_connect, pc, handles, closing, held, ended, up, down, client, proxy>>

SendRequest ==
    /\ pc = "ask"
    /\ Goto("receive")
    /\ UNCHANGED <<up, down, client, proxy>>

\* The proxy answers: a CONNECT goes on with 200 only.
Receive ==
    /\ pc = "receive"
    /\ Goto(IF is_connect THEN "grant" ELSE "body")
    /\ UNCHANGED <<up, down, client, proxy>>

\* The request cannot be sent, the answer cannot be received or is not the 200
\* that a CONNECT needs.
OpenFails ==
    /\ pc \in {"ask", "receive"}
    /\ End("failed")
    /\ UNCHANGED <<up, down, client, proxy>>

-----------------------------------------------------------------------------
(* forward and pump *)

\* The 200 is written and the preface is taken out of leftover.
Grant ==
    /\ pc = "grant"
    /\ pc' = IF Preface = 0 THEN "recv" ELSE "preface"
    /\ held' = Preface
    /\ UNCHANGED <<is_connect, handles, closing, tries, ended, up, down, client, proxy>>

\* Writing to a client that has gone.
GrantFails ==
    /\ pc = "grant"
    /\ client = "gone"
    /\ End("failed")
    /\ UNCHANGED <<up, down, client, proxy>>

\* Mutant: write_all takes the first WinHttpWriteData for the whole.
WriteUp_Once ==
    /\ pc \in {"preface", "write"}
    /\ proxy # "broken"
    /\ \E n \in 1 .. held :
        /\ up.written + n <= up.taken + Window
        /\ up' = [up EXCEPT !.written = @ + n]
        /\ held' = 0
        /\ pc' = IF pc = "write" THEN "read" ELSE "recv"
    /\ UNCHANGED <<is_connect, handles, closing, tries, ended, down, client, proxy>>

\* write_all: WinHttpWriteData until all of it is written.
WriteUp ==
    /\ pc \in {"preface", "write"}
    /\ proxy # "broken"
    /\ \E n \in 1 .. held :
        /\ up.written + n <= up.taken + Window
        /\ up' = [up EXCEPT !.written = @ + n]
        /\ held' = held - n
        /\ pc' = IF n < held THEN pc ELSE IF pc = "write" THEN "read" ELSE "recv"
    /\ UNCHANGED <<is_connect, handles, closing, tries, ended, down, client, proxy>>

\* The proxy is gone, or takes nothing for WinHTTP's own send timeout.
WriteFails ==
    /\ pc \in {"preface", "write"}
    /\ proxy # "open" \/ up.written = up.taken + Window
    /\ End("failed")
    /\ UNCHANGED <<up, down, client, proxy>>

\* recv finds bytes of the client.
Recv ==
    /\ pc = "recv"
    /\ client # "gone"
    /\ \E n \in 1 .. Chunk :
        /\ up.read + n <= up.sent
        /\ up' = [up EXCEPT !.read = @ + n]
        /\ held' = n
    /\ pc' = "write"
    /\ UNCHANGED <<is_connect, handles, closing, tries, ended, down, client, proxy>>

\* recv would block.
RecvNothing ==
    /\ pc = "recv"
    /\ client = "open"
    /\ up.read = up.sent
    /\ Goto("read")
    /\ UNCHANGED <<up, down, client, proxy>>

\* Mutant: the end of the client's bytes is noticed before they are read.
RecvEnds_Early ==
    /\ pc = "recv"
    /\ client # "open"
    /\ End("client")
    /\ UNCHANGED <<up, down, client, proxy>>

\* The client has shut its side or reset the connection: the tunnel ends.
RecvEnds ==
    /\ pc = "recv"
    /\ client = "gone" \/ (client = "shut" /\ up.read = up.sent)
    /\ End("client")
    /\ UNCHANGED <<up, down, client, proxy>>

\* WinHttpReadData finds bytes of the proxy.
ReadDown ==
    /\ pc = "read"
    /\ proxy # "broken"
    /\ \E n \in 1 .. Chunk :
        /\ down.read + n <= down.sent
        /\ down' = [down EXCEPT !.read = @ + n]
        /\ held' = n
    /\ pc' = "send"
    /\ UNCHANGED <<is_connect, handles, closing, tries, ended, up, client, proxy>>

\* Mutant: no receive timeout is set.
ReadTimesOut_Never == FALSE /\ UNCHANGED vars

\* Nothing came within 50 ms.
ReadTimesOut ==
    /\ pc = "read"
    /\ proxy = "open"
    /\ down.read = down.sent
    /\ Goto("recv")
    /\ UNCHANGED <<up, down, client, proxy>>

\* The proxy has closed, or its connection breaks: the tunnel ends, without an
\* error either way.
ReadEnds ==
    /\ pc = "read"
    /\ proxy = "broken" \/ (proxy = "closed" /\ down.read = down.sent)
    /\ End("proxy")
    /\ UNCHANGED <<up, down, client, proxy>>

\* Mutant: what a partial send leaves over is forgotten.
SendDown_Once ==
    /\ pc = "send"
    /\ client # "gone"
    /\ \E n \in 1 .. held :
        /\ down.written + n <= down.taken + Room
        /\ down' = [down EXCEPT !.written = @ + n]
        /\ held' = 0
        /\ pc' = "recv"
    /\ UNCHANGED <<is_connect, handles, closing, tries, ended, up, client, proxy>>

\* send, as often as it takes; the socket is non-blocking.
SendDown ==
    /\ pc = "send"
    /\ client # "gone"
    /\ \E n \in 1 .. held :
        /\ down.written + n <= down.taken + Room
        /\ down' = [down EXCEPT !.written = @ + n]
        /\ held' = held - n
        /\ pc' = IF n < held THEN "send" ELSE "recv"
    /\ UNCHANGED <<is_connect, handles, closing, tries, ended, up, client, proxy>>

\* send fails, or would block because the client reads too slowly: in both
\* cases pump returns without an error.
SendFails ==
    /\ pc = "send"
    /\ client = "gone" \/ down.written = down.taken + Room
    /\ End("client")
    /\ UNCHANGED <<up, down, client, proxy>>

-----------------------------------------------------------------------------
(* read_response *)

ReadBody ==
    /\ pc = "body"
    /\ proxy # "broken"
    /\ \E n \in 1 .. Chunk :
        /\ down.read + n <= down.sent
        /\ down' = [down EXCEPT !.read = @ + n]
        /\ held' = held + n
    /\ UNCHANGED <<is_connect, pc, handles, closing, tries, ended, up, client, proxy>>

\* The body ends, or nothing came for WinHTTP's own receive timeout: both count
\* as its end.
BodyEnds ==
    /\ pc = "body"
    /\ proxy # "broken" /\ down.read = down.sent
    /\ pc' = "close" /\ closing' = Dropped
    /\ UNCHANGED <<is_connect, handles, tries, held, ended, up, down, client, proxy>>

BodyFails ==
    /\ pc = "body"
    /\ proxy = "broken"
    /\ End("failed")
    /\ UNCHANGED <<up, down, client, proxy>>

\* write_all of the answer waits for the client to make room.
Answer ==
    /\ pc = "answer"
    /\ client # "gone"
    /\ \E n \in 0 .. held :
        /\ down.written + n <= down.taken + Room
        /\ down' = [down EXCEPT !.written = @ + n]
        /\ IF n < held THEN n > 0 /\ held' = held - n /\ UNCHANGED <<pc, ended>>
                       ELSE pc' = "done" /\ held' = 0 /\ ended' = "answered"
    /\ UNCHANGED <<is_connect, handles, closing, tries, up, client, proxy>>

AnswerFails ==
    /\ pc = "answer"
    /\ client = "gone"
    /\ pc' = "done" /\ held' = 0 /\ ended' = "failed"
    /\ UNCHANGED <<is_connect, handles, closing, tries, up, down, client, proxy>>

-----------------------------------------------------------------------------
(* The peers *)

\* The proxy has accepted, and the call still works on its connection.
Connected == "request" \in handles /\ pc \notin Opening /\ ended = "no"

ClientSends ==
    /\ client = "open" /\ is_connect
    /\ up.sent < UpBytes
    /\ up' = [up EXCEPT !.sent = @ + 1]
    /\ UNCHANGED <<tunnel, down, client, proxy>>

ClientReads ==
    /\ client # "gone"
    /\ down.taken < down.written
    /\ down' = [down EXCEPT !.taken = @ + 1]
    /\ UNCHANGED <<tunnel, up, client, proxy>>

\* The client shuts its side, or resets the connection.
ClientLeaves ==
    /\ \/ client = "open" /\ client' \in {"shut", "gone"}
       \/ client = "shut" /\ client' = "gone"
    /\ UNCHANGED <<tunnel, up, down, proxy>>

ProxySends ==
    /\ proxy = "open" /\ Connected
    /\ down.sent < DownBytes
    /\ down' = [down EXCEPT !.sent = @ + 1]
    /\ UNCHANGED <<tunnel, up, client, proxy>>

ProxyReads ==
    /\ proxy = "open"
    /\ up.taken < up.written
    /\ up' = [up EXCEPT !.taken = @ + 1]
    /\ UNCHANGED <<tunnel, down, client, proxy>>

ProxyLeaves ==
    /\ proxy = "open" /\ Connected
    /\ proxy' \in {"closed", "broken"}
    /\ UNCHANGED <<tunnel, up, down, client>>

open == OpenHandle \/ MakeFails \/ Resend \/ SendRequest \/ Receive \/ OpenFails

pump ==
    \/ WriteUp \/ WriteFails \/ Recv \/ RecvNothing \/ RecvEnds
    \/ ReadDown \/ ReadTimesOut \/ ReadEnds \/ SendDown \/ SendFails

read_response == ReadBody \/ BodyEnds \/ BodyFails

drop == CloseHandle \/ Closed

forward ==
    open \/ Grant \/ GrantFails \/ pump \/ read_response \/ drop \/ Answer \/ AnswerFails

peers ==
    \/ ClientSends \/ ClientReads \/ ClientLeaves
    \/ ProxySends \/ ProxyReads \/ ProxyLeaves

Next == forward \/ peers

Spec == Init /\ [][Next]_vars

\* Every call that forward makes on the proxy's side is bounded by a timeout of
\* WinHTTP, and the client's socket never blocks pump.
FairSpec == Spec /\ WF_vars(forward)

-----------------------------------------------------------------------------
(* Properties *)

TypeOK ==
    /\ is_connect \in BOOLEAN
    /\ pc \in Opening \cup Pumping \cup {"grant", "body", "close", "answer", "done"}
    /\ handles \subseteq Making
    /\ closing \in Orders
    /\ {tries, held} \subseteq Nat
    /\ up \in Moved /\ down \in Moved
    /\ client \in {"open", "shut", "gone"}
    /\ proxy \in {"open", "closed", "broken"}
    /\ ended \in {"no", "failed", "client", "proxy", "answered"}

\* Wherever open, pump or read_response fails, what it closes then is what it
\* has opened: every open handle once, a handle never before one that was made
\* from it.  No handle is open when the call is over or its answer is written,
\* and every step that uses the request's finds it open.
HandlesInv ==
    /\ pc = "close" => \/ closing = <<>> /\ handles = {}
                       \/ closing = <<"session">> /\ handles = {"session"}
                       \/ closing = <<"connect", "session">> /\ handles = {"session", "connect"}
                       \/ closing = Dropped /\ handles = Making
    /\ pc \in {"session", "answer", "done"} => handles = {}
    /\ pc = "connect" => handles = {"session"}
    /\ pc = "request" => handles = {"session", "connect"}
    /\ pc \notin Making \cup {"close", "answer", "done"} => handles = Making

\* The one buffer serves both directions, and calls take less than they are
\* given: while forward runs, every byte it has read is written or in the
\* buffer, on its way in its own direction.
NothingLost ==
    ended = "no" =>
        /\ up.read = up.written + (IF pc \in {"preface", "write"} THEN held
                                   ELSE IF pc \in Pumping THEN 0 ELSE Preface)
        /\ down.read = down.written + (IF pc \in {"send", "body", "close", "answer"} THEN held ELSE 0)

\* A tunnel that ends in good order is complete: the proxy has closed and the
\* client was written all that it sent, or the client has shut its side and
\* all that it sent was written to the proxy.
CleanEnd ==
    /\ ended = "proxy" /\ proxy = "closed" => down.written = down.sent
    /\ ended = "client" /\ client = "shut" /\ down.written = down.read =>
            up.written = up.sent

\* For the induction: nothing is read that was not sent, a buffer that is being
\* passed on is not empty, and only a send that fails ends a tunnel before its
\* client has left.
CountersInv ==
    /\ up.read <= up.sent /\ down.read <= down.sent
    /\ pc \in {"preface", "write", "send"} => held > 0
    /\ pc \notin {"preface", "write", "send", "body", "close", "answer"} => held = 0
    /\ pc \in Pumping \cup {"grant"} => is_connect
    /\ pc \in {"body", "answer"} \/ (pc = "close" /\ ended = "no") => ~is_connect
    /\ ended # "no" => pc \in {"close", "done"} /\ held = 0
    /\ pc = "done" => ended # "no"
    /\ ended = "client" /\ client = "open" => down.written < down.read

Inv == TypeOK /\ HandlesInv /\ NothingLost /\ CleanEnd /\ CountersInv

\* forward keeps the promise of Relay: the handles, the buffer, the timeouts and
\* the retries are hidden, a byte is passed on when it has been written, and the
\* call has the end that the peers give it cause for.
R == INSTANCE Relay WITH
        connect <- is_connect,
        phase   <- IF pc \in Opening THEN "asking" ELSE IF ended # "no" THEN "over" ELSE "relaying",
        result  <- ended,
        up      <- [sent |-> up.sent, passed |-> up.written],
        down    <- [sent |-> down.sent, passed |-> down.written]

KeepsRelay == R!Spec

\* Neither direction starves the other: what the client sends is written to
\* the proxy although the proxy is silent, what the proxy sends is read
\* although the client keeps sending, or the tunnel ends.
BothFlow ==
    /\ \A n \in 1 .. UpBytes :
        (is_connect /\ up.sent >= n) ~> (up.written >= n \/ pc = "done")
    /\ \A n \in 1 .. DownBytes :
        (is_connect /\ down.sent >= n) ~> (down.read >= n \/ pc = "done")

\* The documentation's "does not drop off by itself": as long as both peers
\* hold their connections, a tunnel does not end with bytes in its buffer.
NoSelfDrop ==
    ended = "client" => client # "open" \/ down.written = down.read

=============================================================================
