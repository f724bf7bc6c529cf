--------------------------- MODULE HandshakeProofs ---------------------------
(***************************************************************************)
(* Proofs about Handshake.  The properties are not inductive: what a call  *)
(* may do next depends on which answer it has read and on what that answer *)
(* has left on the connection, which Counts and OnWire say, and on who is  *)
(* to blame for it, which Blame says.                                      *)
(***************************************************************************)
EXTENDS Handshake, SequenceTheorems, TLAPS

Answer(h) == <<h>> \o BodyOf(h.framing)
Leftovers == {<<>>, <<Junk>>, <<Data>>, <<Data, Junk>>}
Clean(h)  == ~h.close /\ h.framing \notin {"trailers", "until close"}

\* TypeOK without the length of wire, which OnWire gives.
Types ==
    /\ at \in {"send", "recv", "discard", "create", "step", "token"} \cup Ended
    /\ req \in Requests /\ mode \in Modes /\ round \in 0 .. Rounds
    /\ session \in [scheme : Schemes, have_ctx : BOOLEAN, complete : BOOLEAN]
    /\ handles \in [cred : 0 .. 1, ctx : 0 .. 1]
    /\ sent \in [n : 0 .. Rounds + 1, body : BOOLEAN]
    /\ resp \in Heads
    /\ closed \in BOOLEAN /\ deviated \in BOOLEAN /\ fed \in 0 .. Rounds + 1

\* Requests, answers, rounds and challenges are counted together.
Counts ==
    /\ at \in {"send", "token"} => sent.n = round /\ resp.of = round
    /\ at = "recv" => sent.n = round + 1 /\ resp.of = round
    /\ at \in {"discard", "create", "step"} => sent.n = round + 1 /\ resp.of = round + 1
    /\ at = "create" => round = 0
    /\ at = "step" => round < Rounds
    /\ at = "token" => round # 0
    /\ at \in Ended \cup {"create"} => session = NoSession
    /\ at \in {"step", "token"} => session # NoSession
    /\ at \in {"send", "recv", "discard"} => (session = NoSession <=> round = 0)
    /\ at \in {"token", "send", "recv"} /\ session # NoSession => fed \in {0, round}

\* What an earlier answer leaves behind is never a head.
OnWire ==
    /\ at \in {"send", "create", "step", "token"} => wire \in {<<>>, <<Junk>>}
    /\ at = "recv" => \/ wire \in {<<>>, <<Junk>>}
                      \/ \E h \in Heads : wire = Answer(h) /\ h.of = sent.n
    /\ at = "discard" => wire = BodyOf(resp.framing)
    /\ at \in Ended => wire \in Leftovers

\* Nobody is to blame yet: everything on the wire and in resp is in order.
Blame ==
    ~deviated =>
        /\ ~closed
        /\ at \notin Ended => wire # <<Junk>>
        /\ at = "recv" => \A h \in Heads : wire = Answer(h) =>
              Clean(h) /\ (h.status = "407" /\ round = 0 => pick_proxy_auth(h.offers) # 0)
        /\ at = "discard" => Clean(resp) /\ (round = 0 => pick_proxy_auth(resp.offers) # 0)
        /\ at = "create" => pick_proxy_auth(resp.offers) # 0
        /\ at = "failed" => sent.n = Rounds + 1

IInv == Types /\ HandlesInv /\ Counts /\ OnWire /\ Blame

-----------------------------------------------------------------------------
(* What is on the wire *)

\* The picked header has a scheme that is known.
LEMMA PickKnown ==
    ASSUME NEW offers \in Seq([scheme : Schemes, token : BOOLEAN]), pick_proxy_auth(offers) # 0
    PROVE  offers[pick_proxy_auth(offers)].scheme \in Schemes \ {""}
<1> DEFINE value(i) == rank(offers[i].scheme)
           best == {i \in 1 .. Len(offers) :
                       /\ value(i) > 0
                       /\ \A j \in 1 .. Len(offers) :
                             value(j) < value(i) \/ (value(j) = value(i) /\ i <= j)}
<1>1. best # {} /\ pick_proxy_auth(offers) = CHOOSE i \in best : TRUE
  BY DEF pick_proxy_auth
<1>2. pick_proxy_auth(offers) \in best
  BY <1>1
<1> HIDE DEF best
<1> DEFINE i == pick_proxy_auth(offers)
<1>3. i \in 1 .. Len(offers) /\ rank(offers[i].scheme) > 0
  BY <1>2 DEF best
<1> HIDE DEF i
<1>4. offers[i].scheme \in Schemes
  <2>1. offers[i] \in [scheme : Schemes, token : BOOLEAN]
    BY <1>3, ElementOfSeq
  <2> QED
    BY <2>1
<1>5. offers[i].scheme # ""
  <2>1. "" # "negotiate" /\ "" # "ntlm" /\ "" # "basic"
    BY Zenon
  <2>2. rank("") = 0
    BY <2>1 DEF rank
  <2>3. offers[i].scheme = "" => rank(offers[i].scheme) = 0
    BY <2>2, Zenon
  <2>4. rank(offers[i].scheme) # 0
    BY <1>3
  <2> QED
    BY <2>3, <2>4, Zenon
<1> QED
  BY <1>4, <1>5 DEF i

\* The bodies that follow a head, and what the reader leaves of them.
LEMMA Bodies ==
    ASSUME NEW f \in Framings
    PROVE  /\ BodyOf(f) \in Leftovers
           /\ f \in {"length", "chunked", "trailers"} => Tail(BodyOf(f)) \in {<<>>, <<Junk>>}
           /\ f \in {"length", "chunked"} => Tail(BodyOf(f)) = <<>>
           /\ f \notin {"length", "chunked", "trailers"} => BodyOf(f) \in {<<>>, <<Junk>>}
           /\ f = "none" => BodyOf(f) = <<>>
<1>1. CASE f \in {"length", "chunked"}
  <2>1. BodyOf(f) = <<Data>>
    BY <1>1 DEF BodyOf
  <2> QED
    BY <1>1, <2>1 DEF Leftovers
<1>2. CASE f = "trailers"
  <2>1. BodyOf(f) = <<Data, Junk>>
    BY <1>2 DEF BodyOf
  <2>2. Tail(<<Data, Junk>>) = <<Junk>>
    OBVIOUS
  <2> QED
    BY <1>2, <2>1, <2>2 DEF Leftovers
<1>3. CASE f = "until close"
  BY <1>3 DEF BodyOf, Leftovers
<1>4. CASE f = "none"
  BY <1>4 DEF BodyOf, Leftovers
<1> QED
  BY <1>1, <1>2, <1>3, <1>4 DEF Framings

LEMMA Cons ==
    ASSUME NEW S, NEW h \in S, NEW b \in Seq(S)
    PROVE  <<h>> \o b # <<>> /\ Head(<<h>> \o b) = h /\ Tail(<<h>> \o b) = b
<1> DEFINE s == <<h>> \o b
<1>1. <<h>> \in Seq(S) /\ Len(<<h>>) = 1 /\ <<h>>[1] = h
  OBVIOUS
<1>2. Len(b) \in Nat
  BY LenProperties
<1>3. /\ s \in Seq(S) /\ Len(s) = 1 + Len(b)
      /\ \A i \in 1 .. 1 + Len(b) : s[i] = IF i <= 1 THEN <<h>>[i] ELSE b[i - 1]
  BY <1>1, ConcatProperties
<1> HIDE DEF s
<1>4. s # <<>>
  BY <1>2, <1>3, EmptySeq
<1>5. Head(s) = h
  <2>1. s[1] = h
    BY <1>1, <1>2, <1>3
  <2> QED
    BY <2>1, <1>2, <1>3, <1>4
<1>6. Tail(s) = b
  <2>1. /\ Tail(s) \in Seq(S) /\ Len(Tail(s)) = Len(b)
        /\ \A i \in 1 .. Len(b) : Tail(s)[i] = s[i + 1]
    BY <1>2, <1>3, <1>4, HeadTailProperties
  <2>2. \A i \in 1 .. Len(b) : Tail(s)[i] = b[i]
    BY <1>2, <1>3, <2>1
  <2> QED
    BY <2>1, <2>2, SeqEqual
<1> QED
  BY <1>4, <1>5, <1>6 DEF s

\* A head and its body are read apart again.
LEMMA Answers ==
    ASSUME NEW h \in Heads
    PROVE  /\ Answer(h) # <<>> /\ Answer(h) # <<Junk>>
           /\ Head(Answer(h)) = h /\ Tail(Answer(h)) = BodyOf(h.framing)
           /\ IsHead(h)
<1>1. IsHead(h) /\ h # Junk
  <2>1. h.status \in {"ok", "407"} /\ Junk.status = "junk"
    BY DEF Heads, Junk
  <2> QED
    BY <2>1 DEF IsHead
<1>2. h.framing \in Framings
  BY DEF Heads
<1>3. BodyOf(h.framing) \in {<<>>, <<Data>>, <<Data, Junk>>, <<Junk>>}
  BY <1>2, Bodies DEF Leftovers
<1> DEFINE S == {h, Data, Junk}
           b == BodyOf(h.framing)
<1> HIDE DEF b
<1>4. h \in S /\ b \in Seq(S)
  <2>1. <<>> \in Seq(S) /\ <<Data>> \in Seq(S)
    OBVIOUS
  <2>2. <<Data, Junk>> \in Seq(S) /\ <<Junk>> \in Seq(S)
    OBVIOUS
  <2> QED
    BY <1>3, <2>1, <2>2 DEF b
<1> HIDE DEF S
<1>5. /\ Answer(h) # <<>> /\ Head(Answer(h)) = h /\ Tail(Answer(h)) = b
  BY <1>4, Cons DEF Answer, b
<1>6. Answer(h) # <<Junk>>
  <2>1. Head(<<Junk>>) = Junk
    OBVIOUS
  <2> QED
    BY <2>1, <1>1, <1>5
<1> QED
  BY <1>1, <1>5, <1>6 DEF b

\* What no framing covers is never taken for a head.
LEMMA NoHead == ~IsHead(Head(<<Junk>>)) /\ <<Junk>> # <<>>
<1>1. Head(<<Junk>>) = Junk /\ <<Junk>> # <<>>
  OBVIOUS
<1> QED
  BY <1>1 DEF IsHead, Junk

-----------------------------------------------------------------------------
(* The inductive invariant *)

LEMMA InitIInv == Init => IInv
<1> SUFFICES ASSUME Init PROVE IInv
  OBVIOUS
<1> USE HandshakeAssumption
<1>1. Types
  <2>1. NoResp \in Heads
    BY DEF NoResp, Heads, Framings
  <2>2. NoSession \in [scheme : Schemes, have_ctx : BOOLEAN, complete : BOOLEAN]
    BY DEF NoSession, Schemes
  <2>3. /\ at \in Ended /\ req \in Requests /\ mode \in Modes /\ round \in 0 .. Rounds
        /\ sent.n \in 0 .. Rounds + 1 /\ fed \in 0 .. Rounds + 1
    BY DEF Init, Ended, Requests
  <2>4. /\ sent \in [n : 0 .. Rounds + 1, body : BOOLEAN]
        /\ handles \in [cred : 0 .. 1, ctx : 0 .. 1]
    BY DEF Init
  <2>5. closed \in BOOLEAN /\ deviated \in BOOLEAN
    BY DEF Init
  <2> QED
    BY <2>1, <2>2, <2>3, <2>4, <2>5 DEF Init, Types
<1>2. HandlesInv /\ Counts
  <2>1. session = NoSession /\ handles.cred = 0 /\ handles.ctx = 0 /\ at = "done"
    BY DEF Init
  <2> QED
    BY <2>1 DEF HandlesInv, Counts, Ended
<1>3. OnWire /\ Blame
  BY DEF Init, OnWire, Blame, Ended, Leftovers
<1> QED
  BY <1>1, <1>2, <1>3 DEF IInv

\* Every return releases what the session holds.
LEMMA Returns ==
    ASSUME IInv, NEW end \in Ended, Return(end),
           wire' \in Leftovers, resp' \in Heads, deviated' \in BOOLEAN,
           UNCHANGED <<closed, fed>>,
           ~deviated' => ~closed /\ (end = "failed" => sent.n = Rounds + 1)
    PROVE  IInv'
<1>1. session' = NoSession /\ handles' = [cred |-> 0, ctx |-> 0]
  <2>1. handles.ctx \in 0 .. 1 /\ (~session.have_ctx => handles.ctx = 0)
    BY DEF IInv, Types, HandlesInv
  <2> QED
    BY <2>1 DEF Return, Drop, IInv, HandlesInv
<1>2. Types'
  <2>1. NoSession \in [scheme : Schemes, have_ctx : BOOLEAN, complete : BOOLEAN]
    BY DEF NoSession, Schemes
  <2> QED
    BY <1>1, <2>1 DEF IInv, Types, Return
<1>3. HandlesInv'
  BY <1>1 DEF HandlesInv
<1>4. Counts'
  BY <1>1 DEF Return, Counts, Ended
<1>5. OnWire'
  BY DEF Return, OnWire, Ended, Leftovers
<1>6. Blame'
  BY DEF Return, Blame, Ended
<1> QED
  BY <1>2, <1>3, <1>4, <1>5, <1>6 DEF IInv
-----------------------------------------------------------------------------
(* The calls *)

LEMMA BeginIInv == IInv /\ Begin => IInv'
<1> SUFFICES ASSUME IInv, Begin PROVE IInv'
  OBVIOUS
<1>1. session = NoSession /\ session' = NoSession /\ round' = 0
  BY DEF IInv, Counts, Begin
<1>2. Types'
  <2>1. NoResp \in Heads
    BY HandshakeAssumption DEF NoResp, Heads, Framings
  <2>2. at' = "send" /\ req' \in Requests /\ mode' \in Modes /\ round' \in 0 .. Rounds
    BY HandshakeAssumption DEF Begin
  <2>3. sent' \in [n : 0 .. Rounds + 1, body : BOOLEAN] /\ fed' \in 0 .. Rounds + 1
    BY HandshakeAssumption DEF Begin
  <2>4. closed' \in BOOLEAN /\ deviated' \in BOOLEAN
    BY DEF Begin
  <2> QED
    BY <2>1, <2>2, <2>3, <2>4 DEF IInv, Types, Begin
<1>3. HandlesInv'
  BY DEF IInv, HandlesInv, Begin
<1>4. Counts'
  BY <1>1 DEF Begin, Counts, NoResp, Ended
<1>5. OnWire'
  BY DEF Begin, OnWire, Ended
<1>6. Blame'
  BY DEF Begin, Blame, Ended
<1> QED
  BY <1>2, <1>3, <1>4, <1>5, <1>6 DEF IInv

LEMMA SendIInv == IInv /\ Send => IInv'
<1> SUFFICES ASSUME IInv, Send PROVE IInv'
  OBVIOUS
<1>1. sent.n = round /\ round \in 0 .. Rounds /\ sent'.n = round + 1 /\ sent'.body \in BOOLEAN
  <2>1. include_body(session) \in BOOLEAN
    BY DEF include_body, IInv, Types
  <2> QED
    BY <2>1 DEF IInv, Types, Counts, Send
<1>2. Types'
  <2>1. sent' \in [n : 0 .. Rounds + 1, body : BOOLEAN]
    BY <1>1, HandshakeAssumption DEF Send
  <2> QED
    BY <2>1 DEF IInv, Types, Send
<1>3. HandlesInv'
  BY DEF IInv, HandlesInv, Send
<1>4. Counts'
  BY <1>1 DEF IInv, Counts, Send, Ended
<1>5. wire' \in {<<>>, <<Junk>>}
  BY DEF IInv, OnWire, Send, Ended
<1>6. OnWire'
  BY <1>5 DEF OnWire, Send, Ended
<1>7. Blame'
  <2>1. \A h \in Heads : wire' # Answer(h)
    BY <1>5, Answers
  <2> QED
    BY <2>1 DEF IInv, Blame, Send, Ended
<1> QED
  BY <1>2, <1>3, <1>4, <1>6, <1>7 DEF IInv

LEMMA SendFailsIInv == IInv /\ SendFails => IInv'
<1> SUFFICES ASSUME IInv, SendFails PROVE IInv'
  OBVIOUS
<1>1. wire' \in Leftovers
  BY DEF IInv, OnWire, SendFails, Ended, Leftovers
<1>2. resp' \in Heads /\ deviated' \in BOOLEAN
  BY DEF IInv, Types, SendFails
<1>3. deviated'
  BY DEF IInv, Blame, SendFails
<1>4. Return("failed") /\ "failed" \in Ended /\ UNCHANGED <<closed, fed>>
  BY DEF SendFails, Ended
<1> QED
  BY <1>1, <1>2, <1>3, <1>4, Returns

LEMMA RecvIInv == IInv /\ Recv => IInv'
<1> SUFFICES ASSUME IInv, Recv PROVE IInv'
  OBVIOUS
<1>1. PICK h \in Heads : wire = Answer(h) /\ h.of = sent.n
  BY NoHead DEF IInv, OnWire, Recv, Ended
<1>2. resp' = h /\ wire' = BodyOf(h.framing) /\ h.framing \in Framings
  BY <1>1, Answers DEF Recv, Heads
<1>3. wire' \in Leftovers
  BY <1>2, Bodies
<1>4. CASE Return("done")
  <2>1. deviated' \in BOOLEAN /\ UNCHANGED <<closed, fed>> /\ (~deviated' => ~closed)
    BY DEF IInv, Types, Blame, Recv
  <2> QED
    BY <1>2, <1>3, <1>4, <2>1, Returns DEF Ended
<1>5. CASE /\ resp'.status = "407" /\ at' = "discard"
           /\ UNCHANGED <<req, mode, round, session, handles, sent>>
  <2>1. at = "recv" /\ UNCHANGED <<closed, fed, deviated>>
    BY DEF Recv
  <2>2. Types'
    BY <1>2, <1>5, <2>1 DEF IInv, Types
  <2>3. HandlesInv'
    BY <1>5 DEF IInv, HandlesInv
  <2>4. Counts'
    BY <1>1, <1>2, <1>5, <2>1 DEF IInv, Counts, Ended
  <2>5. OnWire'
    BY <1>2, <1>5 DEF OnWire, Ended
  <2>6. Blame'
    <3>1. ~deviated => Clean(h) /\ (round = 0 => pick_proxy_auth(h.offers) # 0)
      BY <1>1, <1>2, <1>5, <2>1 DEF IInv, Blame
    <3>2. ~deviated => wire' # <<Junk>>
      <4>1. <<Data>> # <<Junk>> /\ <<Data, Junk>> # <<Junk>>
        <5>1. Data # Junk
          BY DEF Data, Junk
        <5> QED
          BY <5>1
      <4>2. ~deviated => h.framing \in {"none", "length", "chunked"}
        BY <1>2, <3>1 DEF Clean, Framings
      <4>3. ~deviated => wire' \in {<<>>, <<Data>>}
        BY <1>2, <4>2 DEF BodyOf
      <4> QED
        BY <4>1, <4>3
    <3> QED
      BY <1>2, <1>5, <2>1, <3>1, <3>2 DEF IInv, Blame, Ended
  <2> QED
    BY <2>2, <2>3, <2>4, <2>5, <2>6 DEF IInv
<1> QED
  BY <1>4, <1>5 DEF Recv
LEMMA RecvFailsIInv == IInv /\ RecvFails => IInv'
<1> SUFFICES ASSUME IInv, RecvFails PROVE IInv'
  OBVIOUS
<1>1. wire \in {<<>>, <<Junk>>}
  BY Answers, NoHead DEF IInv, OnWire, RecvFails, Ended
<1>2. deviated
  <2>1. at = "recv" /\ (wire = <<>> => closed)
    BY DEF RecvFails
  <2> QED
    BY <1>1, <2>1 DEF IInv, Blame, Ended
<1>3. wire' \in Leftovers /\ deviated'
  BY <1>1, <1>2 DEF RecvFails, Leftovers
<1>4. resp' \in Heads /\ deviated' \in BOOLEAN
  BY DEF IInv, Types, RecvFails
<1>5. Return("failed") /\ "failed" \in Ended /\ UNCHANGED <<closed, fed>>
  BY DEF RecvFails, Ended
<1> QED
  BY <1>3, <1>4, <1>5, Returns

\* The two ways on behind the body of a 407, and the return.
LEMMA AfterBodyIInv ==
    ASSUME IInv, AfterBody, at = "discard", wire' \in {<<>>, <<Junk>>},
           ~deviated => wire' = <<>>, UNCHANGED <<resp, closed, fed, deviated>>
    PROVE  IInv'
<1>1. CASE at' \in {"create", "step"} /\ UNCHANGED <<req, mode, round, session, handles, sent>>
           /\ (at' = "create" <=> session = NoSession) /\ (at' = "step" => round < Rounds)
  <2>1. Types'
    BY <1>1 DEF IInv, Types
  <2>2. HandlesInv'
    BY <1>1 DEF IInv, HandlesInv
  <2>3. Counts'
    BY <1>1 DEF IInv, Counts, Ended
  <2>4. OnWire'
    BY <1>1 DEF OnWire, Ended
  <2>5. Blame'
    <3>1. <<Junk>> # <<>>
      OBVIOUS
    <3>2. ~deviated => ~closed /\ (round = 0 => pick_proxy_auth(resp.offers) # 0)
      BY DEF IInv, Blame
    <3>3. at' = "create" => round = 0
      BY <1>1 DEF IInv, Counts
    <3> QED
      BY <1>1, <3>1, <3>2, <3>3 DEF Blame, Ended
  <2> QED
    BY <2>1, <2>2, <2>3, <2>4, <2>5 DEF IInv
<1>2. CASE (resp.close \/ round = Rounds) /\ Return("failed")
  <2>1. wire' \in Leftovers /\ "failed" \in Ended
    BY DEF Leftovers, Ended
  <2>2. resp' \in Heads /\ deviated' \in BOOLEAN
    BY DEF IInv, Types
  <2>3. ~deviated' => ~closed /\ sent.n = Rounds + 1
    BY <1>2 DEF IInv, Blame, Clean, Counts
  <2> QED
    BY <1>2, <2>1, <2>2, <2>3, Returns
<1>3. round \in 0 .. Rounds
  BY DEF IInv, Types
<1> QED
  BY <1>1, <1>2, <1>3 DEF AfterBody

LEMMA DiscardIInv == IInv /\ Discard => IInv'
<1> SUFFICES ASSUME IInv, Discard PROVE IInv'
  OBVIOUS
<1>1. at = "discard" /\ UNCHANGED <<resp, closed, fed, deviated>> /\ AfterBody
  BY DEF Discard
<1>2. resp.framing \in Framings /\ wire = BodyOf(resp.framing)
  BY <1>1 DEF IInv, Types, Heads, OnWire
<1>3. wire' \in {<<>>, <<Junk>>}
  BY <1>2, Bodies DEF Discard
<1>4. ~deviated => wire' = <<>>
  <2>1. ~deviated => resp.framing \in {"none", "length", "chunked"}
    BY <1>1, <1>2 DEF IInv, Blame, Clean, Framings
  <2> QED
    BY <1>2, <2>1, Bodies DEF Discard
<1> QED
  BY <1>1, <1>3, <1>4, AfterBodyIInv

LEMMA DiscardFailsIInv == IInv /\ DiscardFails => IInv'
<1> SUFFICES ASSUME IInv, DiscardFails PROVE IInv'
  OBVIOUS
<1>1. wire' \in Leftovers
  BY Bodies DEF IInv, Types, Heads, OnWire, DiscardFails
<1>2. resp' \in Heads /\ deviated' /\ deviated' \in BOOLEAN
  BY DEF IInv, Types, DiscardFails
<1>3. Return("failed") /\ "failed" \in Ended /\ UNCHANGED <<closed, fed>>
  BY DEF DiscardFails, Ended
<1> QED
  BY <1>1, <1>2, <1>3, Returns

LEMMA CreateIInv == IInv /\ Create => IInv'
<1> SUFFICES ASSUME IInv, Create PROVE IInv'
  OBVIOUS
<1> DEFINE picked == resp.offers[pick_proxy_auth(resp.offers)].scheme
<1>1. picked \in Schemes \ {""}
  <2>1. resp.offers \in Seq([scheme : Schemes, token : BOOLEAN])
    <3>1. resp.offers \in Offers \cup {<<>>}
      BY DEF IInv, Types, Heads
    <3>2. <<>> \in Seq([scheme : Schemes, token : BOOLEAN])
      BY EmptySeq
    <3> QED
      BY <3>1, <3>2, HandshakeAssumption
  <2> QED
    BY <2>1, PickKnown DEF Create
<1> HIDE DEF picked
<1>2. /\ session' = [NoSession EXCEPT !.scheme = IF mode = "auto" THEN picked ELSE mode]
      /\ session = NoSession /\ round = 0 /\ at = "create" /\ at' = "step"
  BY DEF IInv, Counts, Create, picked, Ended
<1>3. session'.scheme \in Schemes \ {""}
  <2>1. mode \in {"auto", "negotiate", "ntlm"}
    BY HandshakeAssumption DEF IInv, Types
  <2>2. {"negotiate", "ntlm"} \subseteq Schemes \ {""}
    BY Zenon DEF Schemes
  <2>3. session'.scheme = IF mode = "auto" THEN picked ELSE mode
    BY <1>2 DEF NoSession
  <2> QED
    BY <1>1, <2>1, <2>2, <2>3
<1>4. session' # NoSession /\ session' \in [scheme : Schemes, have_ctx : BOOLEAN, complete : BOOLEAN]
  <2>1. NoSession.scheme = ""
    BY DEF NoSession
  <2> QED
    BY <1>2, <1>3, <2>1 DEF NoSession
<1>5. handles' = [cred |-> 1, ctx |-> 0]
  <2>1. handles.cred = 0 /\ handles.ctx \in 0 .. 1 /\ handles.ctx # 1
    BY <1>2 DEF IInv, HandlesInv, Types, NoSession
  <2> QED
    BY <2>1 DEF IInv, Types, Create
<1>6. Types'
  BY <1>2, <1>4, <1>5 DEF IInv, Types, Create
<1>7. HandlesInv'
  BY <1>4, <1>5 DEF HandlesInv
<1>8. Counts'
  BY <1>2, <1>4, HandshakeAssumption DEF IInv, Counts, Create, Ended
<1>9. OnWire' /\ Blame'
  BY <1>2 DEF IInv, OnWire, Blame, Create, Ended
<1> QED
  BY <1>6, <1>7, <1>8, <1>9 DEF IInv

LEMMA CreateFailsIInv == IInv /\ CreateFails => IInv'
<1> SUFFICES ASSUME IInv, CreateFails PROVE IInv'
  OBVIOUS
<1>1. wire' \in Leftovers
  BY DEF IInv, OnWire, CreateFails, Leftovers
<1>2. resp' \in Heads /\ deviated' \in BOOLEAN
  BY DEF IInv, Types, CreateFails
<1>3. deviated'
  BY DEF IInv, Types, Blame, CreateFails
<1>4. Return("failed") /\ "failed" \in Ended /\ UNCHANGED <<closed, fed>>
  BY DEF CreateFails, Ended
<1> QED
  BY <1>1, <1>2, <1>3, <1>4, Returns
LEMMA StepIInv == IInv /\ Step => IInv'
<1> SUFFICES ASSUME IInv, Step PROVE IInv'
  OBVIOUS
<1>1. /\ at = "step" /\ at' = "token" /\ round' = round + 1 /\ round \in 0 .. Rounds - 1
      /\ sent.n = round + 1 /\ resp.of = round + 1 /\ session # NoSession
      /\ UNCHANGED <<req, mode, sent, resp, wire, closed, deviated>>
  BY HandshakeAssumption DEF IInv, Types, Counts, Step
<1>2. PICK complete \in BOOLEAN :
         session' = [session EXCEPT !.have_ctx = TRUE, !.complete = complete]
  BY DEF Step
<1>3. PICK ctx \in {handles.ctx, 1} : handles' = [handles EXCEPT !.ctx = ctx]
  BY DEF Step
<1>4. fed' \in {0, round + 1}
  BY <1>1 DEF Step, Challenge
<1>5. Types'
  <2>1. session' \in [scheme : Schemes, have_ctx : BOOLEAN, complete : BOOLEAN]
    BY <1>2 DEF IInv, Types
  <2>2. handles' \in [cred : 0 .. 1, ctx : 0 .. 1]
    BY <1>3 DEF IInv, Types
  <2>3. round' \in 0 .. Rounds /\ fed' \in 0 .. Rounds + 1
    BY <1>1, <1>4, HandshakeAssumption
  <2> QED
    BY <1>1, <2>1, <2>2, <2>3 DEF IInv, Types
<1>6. session'.have_ctx /\ session' # NoSession
  <2>1. session'.have_ctx
    BY <1>2 DEF IInv, Types
  <2>2. ~NoSession.have_ctx
    BY DEF NoSession
  <2> QED
    BY <2>1, <2>2, Zenon
<1>7. HandlesInv'
  <2>1. handles'.cred = 1
    BY <1>1, <1>3 DEF IInv, Types, HandlesInv
  <2> QED
    BY <1>6, <2>1 DEF HandlesInv
<1>8. Counts'
  BY <1>1, <1>4, <1>6 DEF Counts, Ended
<1>9. OnWire' /\ Blame'
  BY <1>1 DEF IInv, OnWire, Blame, Ended
<1> QED
  BY <1>5, <1>7, <1>8, <1>9 DEF IInv

\* The returns for which the proxy or SSPI is to blame.
LEMMA GivenUp ==
    ASSUME IInv, at \in {"step", "token"}, deviated' = TRUE, Return("failed"),
           UNCHANGED <<resp, wire, closed, fed>>
    PROVE  IInv'
<1>1. wire' \in Leftovers /\ "failed" \in Ended
  BY DEF IInv, OnWire, Leftovers, Ended
<1>2. resp' \in Heads /\ deviated' \in BOOLEAN /\ deviated'
  BY DEF IInv, Types
<1> QED
  BY <1>1, <1>2, Returns

LEMMA BadChallengeIInv == IInv /\ BadChallenge => IInv'
  BY GivenUp DEF BadChallenge

LEMMA NoTokenIInv == IInv /\ NoToken => IInv'
  BY GivenUp DEF NoToken

LEMMA TokenIInv == IInv /\ Token => IInv'
<1> SUFFICES ASSUME IInv, Token PROVE IInv'
  OBVIOUS
<1>1. /\ at = "token" /\ at' = "send" /\ session # NoSession /\ round \in 0 .. Rounds
      /\ UNCHANGED <<req, mode, round, session, handles, sent, resp, wire, closed, fed, deviated>>
  BY DEF IInv, Types, Counts, Token
<1>2. Types' /\ HandlesInv'
  BY <1>1 DEF IInv, Types, HandlesInv
<1>3. round # 0
  BY <1>1 DEF IInv, Counts
<1>4. Counts'
  BY <1>1, <1>3 DEF IInv, Counts, Ended
<1>5. OnWire' /\ Blame'
  BY <1>1 DEF IInv, OnWire, Blame, Ended
<1> QED
  BY <1>2, <1>4, <1>5 DEF IInv

-----------------------------------------------------------------------------
(* The proxy *)

LEMMA RespondIInv == IInv /\ Respond => IInv'
<1> SUFFICES ASSUME IInv, Respond PROVE IInv'
  OBVIOUS
<1>1. PICK r \in Heads :
         /\ r.of = sent.n /\ (r.status = "ok" => r.offers = <<>> /\ r.framing = "none")
         /\ wire' = Answer(r)
         /\ closed' \in {r.close, r.framing = "until close"}
         /\ deviated' = \/ deviated \/ r.close \/ r.framing \in {"trailers", "until close"}
                        \/ r.status = "407" /\ resp.of = 0 /\ pick_proxy_auth(r.offers) = 0
  BY DEF Respond, Answer
<1>2. /\ at = "recv" /\ ~closed /\ resp.of = round
      /\ UNCHANGED <<at, req, mode, round, session, handles, sent, resp, fed>>
  BY DEF IInv, Counts, Respond
<1>3. Types'
  <2>1. closed' \in BOOLEAN /\ deviated' \in BOOLEAN
    BY <1>1 DEF IInv, Types, Heads
  <2> QED
    BY <1>2, <2>1 DEF IInv, Types
<1>4. HandlesInv' /\ Counts'
  BY <1>2 DEF IInv, HandlesInv, Counts, Ended
<1>5. OnWire'
  BY <1>1, <1>2 DEF OnWire, Ended
<1>6. Blame'
  <2>1. wire' # <<Junk>>
    BY <1>1, Answers
  <2>2. \A h \in Heads : wire' = Answer(h) => h = r
    BY <1>1, Answers
  <2>3. ~deviated' => ~closed' /\ Clean(r)
    BY <1>1 DEF Clean
  <2>4. ~deviated' => (r.status = "407" /\ round = 0 => pick_proxy_auth(r.offers) # 0)
    BY <1>1, <1>2
  <2> QED
    BY <1>2, <2>1, <2>2, <2>3, <2>4 DEF Blame, Ended
<1> QED
  BY <1>3, <1>4, <1>5, <1>6 DEF IInv

LEMMA ProxyClosesIInv == IInv /\ ProxyCloses => IInv'
<1> SUFFICES ASSUME IInv, ProxyCloses PROVE IInv'
  OBVIOUS
<1>1. Types' /\ HandlesInv' /\ Counts'
  BY DEF IInv, Types, HandlesInv, Counts, ProxyCloses, Ended
<1>2. OnWire' /\ Blame'
  BY DEF IInv, OnWire, Blame, ProxyCloses
<1> QED
  BY <1>1, <1>2 DEF IInv

LEMMA NextIInv == IInv /\ [Next]_vars => IInv'
<1> SUFFICES ASSUME IInv, [Next]_vars PROVE IInv'
  OBVIOUS
<1>1. CASE UNCHANGED vars
  BY <1>1 DEF vars, IInv, Types, HandlesInv, Counts, OnWire, Blame
<1>2. CASE Next
  BY <1>2, BeginIInv, SendIInv, SendFailsIInv, RecvIInv, RecvFailsIInv, DiscardIInv,
     DiscardFailsIInv, CreateIInv, CreateFailsIInv, StepIInv, BadChallengeIInv, TokenIInv,
     NoTokenIInv, RespondIInv, ProxyClosesIInv DEF Next, authenticate_and_send
<1> QED
  BY <1>1, <1>2

-----------------------------------------------------------------------------
(* What follows from it *)

\* The answers on the wire are as long as they can be.
LEMMA WireType == IInv => wire \in Seq(Heads \cup {Data, Junk}) /\ Len(wire) <= 3
<1> SUFFICES ASSUME IInv PROVE wire \in Seq(Heads \cup {Data, Junk}) /\ Len(wire) <= 3
  OBVIOUS
<1> DEFINE S == Heads \cup {Data, Junk}
<1>1. ASSUME NEW b \in Leftovers PROVE b \in Seq(S) /\ Len(b) \in 0 .. 2
  <2>1. Data \in S /\ Junk \in S
    OBVIOUS
  <2> HIDE DEF S
  <2>2. CASE b = <<>>
    BY <2>2
  <2>3. CASE b = <<Data>>
    BY <2>1, <2>3
  <2>4. CASE b = <<Junk>>
    BY <2>1, <2>4
  <2>5. CASE b = <<Data, Junk>>
    BY <2>1, <2>5
  <2> QED
    BY <2>2, <2>3, <2>4, <2>5 DEF Leftovers
<1>2. ASSUME NEW h \in Heads PROVE Answer(h) \in Seq(S) /\ Len(Answer(h)) \in 0 .. 3
  <2>1. h \in S /\ BodyOf(h.framing) \in Leftovers
    BY Bodies DEF Heads
  <2> HIDE DEF S
  <2>2. <<h>> \in Seq(S) /\ Len(<<h>>) = 1
    BY <2>1
  <2> QED
    BY <1>1, <2>1, <2>2, ConcatProperties, SMTT(30) DEF Answer
<1>3. wire \in Leftovers \/ \E h \in Heads : wire = Answer(h)
  BY Bodies DEF IInv, Types, Heads, OnWire, Leftovers
<1> HIDE DEF S
<1>4. wire \in Seq(S) /\ Len(wire) \in 0 .. 3
  <2>1. CASE wire \in Leftovers
    BY <1>1, <2>1
  <2>2. CASE \E h \in Heads : wire = Answer(h)
    BY <1>2, <2>2
  <2> QED
    BY <1>3, <2>1, <2>2
<1>5. Len(wire) <= 3
  <2>1. \A n \in 0 .. 3 : n <= 3
    OBVIOUS
  <2> QED
    BY <1>4, <2>1, Zenon
<1> QED
  BY <1>4, <1>5, Zenon DEF S

LEMMA IInvHolds == Spec => []IInv
  BY InitIInv, NextIInv, PTL DEF Spec

\* Every variable of the handshake has its type, and what the proxy has sent and
\* the gateway has not read is never more than one answer.
THEOREM TypeCorrect == Spec => []TypeOK
<1>1. IInv => TypeOK
  BY WireType DEF IInv, Types, TypeOK
<1> QED
  BY <1>1, IInvHolds, PTL

\* SspiSession releases its credentials and its context on every return of
\* authenticate_and_send, and holds one of each at most.
THEOREM HandlesReleased == Spec => []HandlesInv
<1>1. IInv => HandlesInv
  BY DEF IInv
<1> QED
  BY <1>1, IInvHolds, PTL

\* The challenge that a step of the session gets is the one that answers the
\* token of the step before.
THEOREM ChallengesInOrder == Spec => []FedLatest
<1>1. IInv => FedLatest
  BY DEF IInv, Types, Counts, FedLatest
<1> QED
  BY <1>1, IInvHolds, PTL

\* authenticate_and_send gives up before its last round only when the proxy or
\* SSPI has given it a cause.
THEOREM GivesUpWithCause == Spec => []FailsWithCause
<1>1. IInv => FailsWithCause
  BY DEF IInv, Blame, FailsWithCause
<1> QED
  BY <1>1, IInvHolds, PTL
=============================================================================
