------------------------------- MODULE Relay --------------------------------
(***************************************************************************)
(* What one call of winhttp_up::forward promises handle_client, with no    *)
(* handle, buffer, timeout or retry in sight.  The proxy is asked, and     *)
(* refuses or accepts.  From then on the bytes of either side are passed   *)
(* on in their order, those behind the CONNECT first, until the call       *)
(* returns: because a side has ended, everything it sent passed on, or     *)
(* because a side has gone or does not take what the other has sent.       *)
(* There is no other end.                                                  *)
(***************************************************************************)
EXTENDS Naturals

CONSTANT Preface    \* bytes that came with the CONNECT's head

VARIABLES
    connect,    \* CONNECT or a plain request
    phase,      \* "asking", "relaying", "over"
    result,     \* why the call has returned
    up, down,   \* of each direction: bytes sent, and passed on
    client,     \* "open", "shut" for writing, or "gone"
    proxy       \* "open", "closed" in good order, or "broken"

vars == <<connect, phase, result, up, down, client, proxy>>

Left(stream) == stream.sent - stream.passed

Init ==
    /\ connect \in BOOLEAN
    /\ phase = "asking" /\ result = "no"
    /\ up = [sent |-> Preface, passed |-> 0]
    /\ down = [sent |-> 0, passed |-> 0]
    /\ client = "open" /\ proxy = "open"

\* The proxy accepts the request, or the call fails before it has.
Accept ==
    /\ phase = "asking" /\ phase' = "relaying"
    /\ UNCHANGED <<connect, result, up, down, client, proxy>>

Return(why) == phase' = "over" /\ result' = why

Refuse ==
    /\ phase = "asking"
    /\ Return("failed")
    /\ UNCHANGED <<connect, up, down, client, proxy>>

\* The next bytes of a side go to the other.
PassUp ==
    /\ phase = "relaying" /\ connect /\ proxy # "broken"
    /\ \E n \in 1 .. Left(up) : up' = [up EXCEPT !.passed = @ + n]
    /\ UNCHANGED <<connect, phase, result, down, client, proxy>>

PassDown ==
    /\ phase = "relaying" /\ client # "gone"
    /\ \E n \in 1 .. Left(down) : down' = [down EXCEPT !.passed = @ + n]
    /\ UNCHANGED <<connect, phase, result, up, client, proxy>>

\* The answer to a plain request is passed on to its end, as far as it came.
Answered ==
    /\ phase = "relaying" /\ ~connect /\ client # "gone"
    /\ \E n \in 0 .. Left(down) : down' = [down EXCEPT !.passed = @ + n]
    /\ Return("answered")
    /\ UNCHANGED <<connect, up, client, proxy>>

\* A tunnel ends on the proxy's side: it has closed, and nothing is left, or broken.
ProxyEnds ==
    /\ phase = "relaying" /\ connect
    /\ proxy = "broken" \/ (proxy = "closed" /\ Left(down) = 0)
    /\ Return("proxy")
    /\ UNCHANGED <<connect, up, down, client, proxy>>

\* ... or on the client's: it has shut its side, and nothing is left, or gone, or
\* it takes no bytes.
ClientEnds ==
    /\ phase = "relaying" /\ connect
    /\ client = "gone" \/ (client = "shut" /\ Left(up) = 0) \/ Left(down) > 0
    /\ Return("client")
    /\ UNCHANGED <<connect, up, down, client, proxy>>

\* The call fails for a client that has gone, a proxy that has left, or one that
\* takes no bytes.
Fail ==
    /\ phase = "relaying"
    /\ client = "gone" \/ proxy # "open" \/ (connect /\ Left(up) > 0)
    /\ Return("failed")
    /\ UNCHANGED <<connect, up, down, client, proxy>>

\* The peers: what they send, and how they leave.
ClientSends ==
    /\ connect /\ client = "open"
    /\ up' = [up EXCEPT !.sent = @ + 1]
    /\ UNCHANGED <<connect, phase, result, down, client, proxy>>

ProxySends ==
    /\ phase = "relaying" /\ proxy = "open"
    /\ down' = [down EXCEPT !.sent = @ + 1]
    /\ UNCHANGED <<connect, phase, result, up, client, proxy>>

ClientLeaves ==
    /\ \/ client = "open" /\ client' \in {"shut", "gone"}
       \/ client = "shut" /\ client' = "gone"
    /\ UNCHANGED <<connect, phase, result, up, down, proxy>>

ProxyLeaves ==
    /\ phase = "relaying" /\ proxy = "open" /\ proxy' \in {"closed", "broken"}
    /\ UNCHANGED <<connect, phase, result, up, down, client>>

peers == ClientSends \/ ProxySends \/ ClientLeaves \/ ProxyLeaves

Next ==
    \/ Accept \/ Refuse \/ PassUp \/ PassDown
    \/ Answered \/ ProxyEnds \/ ClientEnds \/ Fail \/ peers

Spec == Init /\ [][Next]_vars

=============================================================================
