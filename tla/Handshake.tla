----------------------------- MODULE Handshake ------------------------------
(***************************************************************************)
(* auth/handshake.rs and auth/sspi.rs: authenticate_and_send sends a       *)
(* request to a proxy and, while the proxy answers 407, logs on with an    *)
(* SSPI session and sends the request again, on the same connection.       *)
(*                                                                         *)
(* One action is one call that can fail: a write, the read of a head, the  *)
(* read of a body (io.rs), AcquireCredentialsHandle,                       *)
(* InitializeSecurityContext.  What the proxy has sent and authenticate_   *)
(* and_send has not read yet is one sequence, wire: the part in leftover   *)
(* and the part in the socket are read alike.                              *)
(***************************************************************************)
EXTENDS Integers, Sequences

CONSTANTS
    Rounds,     \* steps of the session in one call: 6
    Offers,     \* lists of Proxy-Authenticate headers that a 407 may have
    Modes       \* settings of auth: "auto", "negotiate", "ntlm"

Schemes  == {"negotiate", "ntlm", "basic", "other", ""}   \* "": a header with no words
Requests == {"connect", "bodiless", "body"}
Framings == {"none", "length", "chunked", "trailers", "until close"}

ASSUME HandshakeAssumption ==
    /\ Rounds \in Nat \ {0}
    /\ Offers \subseteq Seq([scheme : Schemes, token : BOOLEAN])
    /\ Modes \subseteq {"auto", "negotiate", "ntlm"}

VARIABLES
    at,         \* the call that authenticate_and_send makes next, "done" or "failed"
    req,        \* the request, and the setting
    mode,
    round,      \* steps that the session has made
    session,    \* SspiSession, and the scheme of its headers
    handles,    \* what the process holds of SSPI
    sent,       \* the last request: its number, and whether its body went with it
    resp,       \* the last head read, "of" the request with that number
    wire,       \* heads, Data (a framed body), Junk (bytes that no framing covers)
    closed,     \* the proxy has closed the connection
    fed,        \* the request whose answer held the last challenge given to SSPI, or 0
    deviated    \* the proxy or SSPI has done something that excuses a failure

vars == <<at, req, mode, round, session, handles, sent, resp, wire, closed, fed, deviated>>

NoSession == [scheme |-> "", have_ctx |-> FALSE, complete |-> FALSE]
NoResp    == [status |-> "ok", offers |-> <<>>, framing |-> "none", close |-> FALSE, of |-> 0]
Heads     == [status : {"ok", "407"}, offers : Offers \cup {<<>>}, framing : Framings,
              close : BOOLEAN, of : 0 .. Rounds + 1]
Data      == [status |-> "data"]
Junk      == [status |-> "junk"]
IsHead(x) == x.status \in {"ok", "407"}
Ended     == {"done", "failed"}

Init ==
    /\ at = "done" /\ req = "connect" /\ mode \in Modes /\ round = 0
    /\ session = NoSession /\ handles = [cred |-> 0, ctx |-> 0]
    /\ sent = [n |-> 0, body |-> FALSE] /\ resp = NoResp
    /\ wire = <<>> /\ closed = FALSE /\ fed = 0 /\ deviated = FALSE

-----------------------------------------------------------------------------
(* http1.rs *)

rank(scheme) == IF scheme = "negotiate" THEN 3 ELSE IF scheme = "ntlm" THEN 2
                ELSE IF scheme = "basic" THEN 1 ELSE 0

\* The index of the header that is picked, the first of the best rank, or 0.  A
\* header without a word ends the search with nothing.
pick_proxy_auth(offers) ==
    LET value(i) == rank(offers[i].scheme)
        best == {i \in 1 .. Len(offers) :
                    /\ value(i) > 0
                    /\ \A j \in 1 .. Len(offers) :
                          value(j) < value(i) \/ (value(j) = value(i) /\ i <= j)}
    IN  IF best = {} \/ \E i \in 1 .. Len(offers) : offers[i].scheme = ""
          THEN 0 ELSE CHOOSE i \in best : TRUE

\* The answer whose challenge is the token of the picked header, or 0 for none.
Challenge(r) ==
    LET i == pick_proxy_auth(r.offers)
    IN  IF i # 0 /\ r.offers[i].token THEN r.of ELSE 0

\* include_body: a body waits until the session is complete.
include_body(s) == req # "body" \/ s.complete

-----------------------------------------------------------------------------
\* Mutant: the context is forgotten.
Drop_CredOnly ==
    /\ session' = NoSession
    /\ handles' = [handles EXCEPT !.cred = 0]

\* Drop of SspiSession, on every return.
Drop ==
    /\ session' = NoSession
    /\ handles' = [cred |-> 0, ctx |-> IF session.have_ctx THEN 0 ELSE handles.ctx]

Return(end) ==
    /\ at' = end
    /\ Drop
    /\ UNCHANGED <<req, mode, round, sent>>

\* A call for another connection to a proxy.
Begin ==
    /\ at \in Ended
    /\ \E r \in Requests, m \in Modes : req' = r /\ mode' = m
    /\ at' = "send"
    /\ round' = 0 /\ sent' = [n |-> 0, body |-> FALSE] /\ resp' = NoResp
    /\ wire' = <<>> /\ closed' = FALSE /\ fed' = 0 /\ deviated' = FALSE
    /\ UNCHANGED <<session, handles>>

\* The proxy may have closed already: then it is the read that fails.
Send ==
    /\ at = "send"
    /\ at' = "recv"
    /\ sent' = [n |-> sent.n + 1, body |-> include_body(session)]
    /\ UNCHANGED <<req, mode, round, session, handles, resp, wire, closed, fed, deviated>>

SendFails ==
    /\ at = "send" /\ closed
    /\ Return("failed")
    /\ UNCHANGED <<resp, wire, closed, fed, deviated>>

\* A head: only a 407 lets the handshake go on.
Recv ==
    /\ at = "recv" /\ wire # <<>> /\ IsHead(Head(wire))
    /\ resp' = Head(wire) /\ wire' = Tail(wire)
    /\ \/ /\ resp'.status = "ok"
          /\ Return("done")
       \/ /\ resp'.status = "407"
          /\ at' = "discard"
          /\ UNCHANGED <<req, mode, round, session, handles, sent>>
    /\ UNCHANGED <<closed, fed, deviated>>

\* Mutant: a read of nothing is not taken for the end.
RecvFails_Rereads ==
    /\ at = "recv"
    /\ \/ wire = <<>> /\ closed /\ UNCHANGED vars
       \/ /\ wire # <<>> /\ ~IsHead(Head(wire))
          /\ Return("failed")
          /\ UNCHANGED <<resp, wire, closed, fed, deviated>>

\* The peer closed, or what comes is not a head.
RecvFails ==
    /\ at = "recv"
    /\ IF wire = <<>> THEN closed ELSE ~IsHead(Head(wire))
    /\ Return("failed")
    /\ UNCHANGED <<resp, wire, closed, fed, deviated>>

\* Mutant: one step too many.
AfterBody_OneMore ==
    IF session = NoSession
      THEN /\ at' = "create"
           /\ UNCHANGED <<req, mode, round, session, handles, sent>>
      ELSE \/ /\ ~resp.close /\ round <= Rounds
              /\ at' = "step"
              /\ UNCHANGED <<req, mode, round, session, handles, sent>>
           \/ /\ resp.close \/ round > Rounds
              /\ Return("failed")

\* What follows the body of a 407: the first one chooses the scheme; a later one
\* goes to the next round, if there is one and the proxy keeps the connection.
AfterBody ==
    IF session = NoSession
      THEN /\ at' = "create"
           /\ UNCHANGED <<req, mode, round, session, handles, sent>>
      ELSE \/ /\ ~resp.close /\ round < Rounds
              /\ at' = "step"
              /\ UNCHANGED <<req, mode, round, session, handles, sent>>
           \/ /\ resp.close \/ round = Rounds
              /\ Return("failed")

\* Mutant: the body of a chunked answer stays.
Discard_LengthOnly ==
    /\ at = "discard"
    /\ wire' = IF resp.framing = "length" THEN Tail(wire) ELSE wire
    /\ AfterBody
    /\ UNCHANGED <<resp, closed, fed, deviated>>

\* discard_body reads what Content-Length or the chunks cover, the first line of
\* trailers included, and nothing of a body without either.
Discard ==
    /\ at = "discard"
    /\ wire' = IF resp.framing \in {"length", "chunked", "trailers"} THEN Tail(wire) ELSE wire
    /\ AfterBody
    /\ UNCHANGED <<resp, closed, fed, deviated>>

\* The connection is lost within the body, or it is too large.
DiscardFails ==
    /\ at = "discard" /\ resp.framing \in {"length", "chunked", "trailers"}
    /\ Return("failed")
    /\ deviated' = TRUE
    /\ UNCHANGED <<resp, wire, closed, fed>>

Create ==
    /\ at = "create" /\ pick_proxy_auth(resp.offers) # 0
    /\ at' = "step"
    /\ session' = [NoSession EXCEPT !.scheme =
                      IF mode = "auto" THEN resp.offers[pick_proxy_auth(resp.offers)].scheme
                                       ELSE mode]
    /\ handles' = [handles EXCEPT !.cred = @ + 1]
    /\ UNCHANGED <<req, mode, round, sent, resp, wire, closed, fed, deviated>>

\* No header is picked; or AcquireCredentialsHandle fails, as it does for every call
\* of a build without SSPI.
CreateFails ==
    /\ at = "create"
    /\ deviated' \in IF pick_proxy_auth(resp.offers) = 0 THEN {deviated} ELSE {TRUE}
    /\ Return("failed")
    /\ UNCHANGED <<resp, wire, closed, fed>>

\* Mutant: the first challenge again in every round.
Step_First ==
    /\ at = "step"
    /\ fed' = IF round = 0 THEN Challenge(resp) ELSE fed
    /\ \E complete \in BOOLEAN :
        session' = [session EXCEPT !.have_ctx = TRUE, !.complete = complete]
    /\ \E ctx \in {handles.ctx, 1} : handles' = [handles EXCEPT !.ctx = ctx]
    /\ round' = round + 1
    /\ at' = "token"
    /\ UNCHANGED <<req, mode, sent, resp, wire, closed, deviated>>

\* InitializeSecurityContext, with the challenge of the last answer.
Step ==
    /\ at = "step"
    /\ fed' = Challenge(resp)
    /\ \E complete \in BOOLEAN :
        session' = [session EXCEPT !.have_ctx = TRUE, !.complete = complete]
    /\ \E ctx \in {handles.ctx, 1} : handles' = [handles EXCEPT !.ctx = ctx]
    /\ round' = round + 1
    /\ at' = "token"
    /\ UNCHANGED <<req, mode, sent, resp, wire, closed, deviated>>

\* The challenge is not base64.
BadChallenge ==
    /\ at = "step" /\ Challenge(resp) # 0
    /\ deviated' = TRUE
    /\ Return("failed")
    /\ UNCHANGED <<resp, wire, closed, fed>>

\* A token, or none from a complete session: the header is sent with what there is.
Token ==
    /\ at = "token" /\ handles.ctx = 1
    /\ at' = "send"
    /\ UNCHANGED <<req, mode, round, session, handles, sent, resp, wire, closed, fed,
                   deviated>>

\* InitializeSecurityContext has failed, or it wants to go on but gives no token.
NoToken ==
    /\ at = "token"
    /\ deviated' = TRUE
    /\ Return("failed")
    /\ UNCHANGED <<resp, wire, closed, fed>>

-----------------------------------------------------------------------------
(* The proxy *)

BodyOf(framing) ==
    IF framing = "none" THEN <<>> ELSE
    IF framing = "until close" THEN <<Junk>> ELSE
    IF framing = "trailers" THEN <<Data, Junk>> ELSE <<Data>>

\* It answers a request once.
Respond ==
    /\ at = "recv" /\ ~closed /\ wire = <<>> /\ resp.of < sent.n
    /\ \E r \in Heads :
        /\ r.of = sent.n /\ (r.status = "ok" => r.offers = <<>> /\ r.framing = "none")
        /\ wire' = <<r>> \o BodyOf(r.framing)
        /\ closed' \in {r.close, r.framing = "until close"}
        /\ deviated' = \/ deviated \/ r.close \/ r.framing \in {"trailers", "until close"}
                       \/ r.status = "407" /\ resp.of = 0 /\ pick_proxy_auth(r.offers) = 0
    /\ UNCHANGED <<at, req, mode, round, session, handles, sent, resp, fed>>

\* The connection is lost.
ProxyCloses ==
    /\ at \notin Ended /\ ~closed
    /\ closed' = TRUE /\ deviated' = TRUE
    /\ UNCHANGED <<at, req, mode, round, session, handles, sent, resp, wire, fed>>

authenticate_and_send ==
    \/ Send \/ SendFails \/ Recv \/ RecvFails \/ Discard \/ DiscardFails
    \/ Create \/ CreateFails \/ Step \/ BadChallenge \/ Token \/ NoToken

Next == Begin \/ authenticate_and_send \/ Respond \/ ProxyCloses

Spec == Init /\ [][Next]_vars

\* A write waits for a proxy that does not read, a read for one that does not send.
Waiting ==
    /\ ~closed
    /\ at \in {"send", "discard"} \/ (at = "recv" /\ wire = <<>>)

\* Every other call returns.
FairSpec == Spec /\ WF_vars(~Waiting /\ authenticate_and_send)

-----------------------------------------------------------------------------
(* Properties *)

TypeOK ==
    /\ at \in {"send", "recv", "discard", "create", "step", "token"} \cup Ended
    /\ req \in Requests /\ mode \in Modes /\ round \in 0 .. Rounds
    /\ session \in [scheme : Schemes, have_ctx : BOOLEAN, complete : BOOLEAN]
    /\ handles \in [cred : 0 .. 1, ctx : 0 .. 1]
    /\ sent \in [n : 0 .. Rounds + 1, body : BOOLEAN]
    /\ resp \in Heads
    /\ wire \in Seq(Heads \cup {Data, Junk}) /\ Len(wire) <= 3
    /\ closed \in BOOLEAN /\ deviated \in BOOLEAN /\ fed \in 0 .. Rounds + 1

\* The credentials and the context of the logon live exactly as long as the call
\* needs them, on whichever of its many returns it ends: every session that has
\* been created holds one handle of credentials, and at most one context.
HandlesInv ==
    /\ handles.cred = IF session = NoSession THEN 0 ELSE 1
    /\ handles.ctx = 1 => session.have_ctx

\* SSPI is given the challenge that answers the token it gave before, never an
\* older one, and the token it gives goes out in the next request of the connection.
FedLatest ==
    at \in {"token", "send", "recv"} /\ session # NoSession =>
        /\ fed \in {0, resp.of}
        /\ resp.of = IF at = "recv" THEN sent.n - 1 ELSE sent.n
        /\ round = resp.of

\* With a proxy that frames its answers, keeps the connection and offers a scheme,
\* and an SSPI that gives tokens, the call fails only after all its rounds: no
\* answer is taken for another's, and no body for a head.
FailsWithCause ==
    at = "failed" => deviated \/ sent.n = Rounds + 1

\* Every call ends, or it waits for the proxy, which has no deadline.
EndsOrWaits == []<>(at \in Ended) \/ <>[]Waiting
=============================================================================
