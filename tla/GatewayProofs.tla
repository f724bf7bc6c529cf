--------------------------- MODULE GatewayProofs ---------------------------
(***************************************************************************)
(* Proofs about Gateway, for both builds and every set of tasks, requests, *)
(* hops and PAC answers: what a failed hop costs the client, and that the  *)
(* gateway uses the resolver as Resolver lets it, so that what is proved   *)
(* there holds here.  From both: what a client hears, and that only a      *)
(* gateway that has failed over can have dropped its early bytes.          *)
(***************************************************************************)
EXTENDS Gateway, ResolverProofs

LEMMA InitFlow == GInit => FlowInv
BY DEF GInit, FlowInv, GTypeOK, RetryIsClean, FlushInv, FirstTunnelComplete, HeadInv

\* Once a head is written, the client has been told something.
LEMMA WriteSpeaks ==
    ASSUME FlowInv, NEW t \in Tasks, NEW head \in {"200", "resp", "400", "502"}, Write(t, head)
    PROVE  heads'[t] # <<>> /\ \A s \in Tasks \ {t} : heads'[s] = heads[s]
<1>1. heads[t] \in Seq({"200", "resp", "400", "502"})
  BY DEF FlowInv, GTypeOK
<1>2. heads'[t] = Append(heads[t], head) /\ \A s \in Tasks \ {t} : heads'[s] = heads[s]
  BY DEF FlowInv, GTypeOK, Write
<1>3. Append(heads[t], head) # <<>>
  BY <1>1
<1> QED
  BY <1>2, <1>3

LEMMA FaultsAreTyped ==
    ASSUME NEW t \in Tasks, NEW cause \in HopFault(t) \cup ClientFault(t)
    PROVE  cause \in {"connect", "auth", "refused", "stream", "client"}
<1>1. CASE cause \in ClientFault(t)
  BY <1>1 DEF ClientFault
<1>2. CASE cause \in HopFault(t)
  BY <1>2 DEF HopFault
<1> QED
  BY <1>1, <1>2

LEMMA ReadRequestFlow == ASSUME NEW t \in Tasks, FlowInv, ReadRequest(t) PROVE FlowInv'
<1>1. GTypeOK'
  BY DEF FlowInv, GTypeOK, ReadRequest, Goto
<1>2. RetryIsClean'
  BY DEF FlowInv, RetryIsClean, ReadRequest
<1>3. FlushInv' /\ FirstTunnelComplete'
  BY DEF FlowInv, FlushInv, FirstTunnelComplete, is_connect, ReadRequest, Goto
<1>4. HeadInv'
  BY DEF FlowInv, HeadInv, is_connect, ReadRequest, Goto
<1> QED
  BY <1>1, <1>2, <1>3, <1>4 DEF FlowInv

LEMMA ReadFailsFlow == ASSUME NEW t \in Tasks, FlowInv, ReadFails(t) PROVE FlowInv'
<1>1. GTypeOK'
  BY DEF FlowInv, GTypeOK, ReadFails, Goto
<1>2. RetryIsClean'
  BY DEF FlowInv, RetryIsClean, ReadFails
<1>3. FlushInv' /\ FirstTunnelComplete'
  BY DEF FlowInv, FlushInv, FirstTunnelComplete, is_connect, ReadFails, Goto
<1>4. HeadInv'
  BY DEF FlowInv, HeadInv, is_connect, ReadFails, Goto
<1> QED
  BY <1>1, <1>2, <1>3, <1>4 DEF FlowInv

LEMMA BadTargetFlow == ASSUME NEW t \in Tasks, FlowInv, BadTarget(t) PROVE FlowInv'
<1>1. GTypeOK'
  BY DEF FlowInv, GTypeOK, BadTarget, Goto, Write
<1>2. RetryIsClean'
  BY WriteSpeaks DEF FlowInv, RetryIsClean, BadTarget
<1>3. FlushInv' /\ FirstTunnelComplete'
  BY DEF FlowInv, FlushInv, FirstTunnelComplete, is_connect, BadTarget, Goto, Write
<1>4. HeadInv'
  BY WriteSpeaks DEF FlowInv, HeadInv, is_connect, BadTarget, Goto
<1> QED
  BY <1>1, <1>2, <1>3, <1>4 DEF FlowInv

LEMMA ResolveFlow == ASSUME NEW t \in Tasks, FlowInv, Resolve(t) PROVE FlowInv'
<1>1. /\ io'[t] \in {"dial", "resolve"} /\ \A s \in Tasks \ {t} : io'[s] = io[s]
      /\ io' \in [Tasks -> {io[s] : s \in Tasks} \cup {"dial", "resolve"}]
      /\ working' \subseteq working
      /\ UNCHANGED <<req, client, heads, preface, fault>>
  BY DEF FlowInv, GTypeOK, Resolve, Goto, Release
<1>2. GTypeOK'
  BY <1>1 DEF FlowInv, GTypeOK
<1>3. RetryIsClean'
  BY <1>1 DEF FlowInv, RetryIsClean
<1>4. FlushInv' /\ FirstTunnelComplete'
  BY <1>1 DEF FlowInv, FlushInv, FirstTunnelComplete, is_connect
<1>5. HeadInv'
  BY <1>1 DEF FlowInv, HeadInv, is_connect
<1> QED
  BY <1>2, <1>3, <1>4, <1>5 DEF FlowInv

LEMMA ResolveFailsFlow == ASSUME NEW t \in Tasks, FlowInv, ResolveFails(t) PROVE FlowInv'
<1>1. GTypeOK'
  BY DEF FlowInv, GTypeOK, ResolveFails, Release, Goto, Write
<1>2. RetryIsClean'
  BY WriteSpeaks DEF FlowInv, RetryIsClean, ResolveFails
<1>3. FlushInv' /\ FirstTunnelComplete'
  BY DEF FlowInv, FlushInv, FirstTunnelComplete, is_connect, ResolveFails, Goto, Write
<1>4. HeadInv'
  BY WriteSpeaks DEF FlowInv, HeadInv, is_connect, ResolveFails, Goto
<1> QED
  BY <1>1, <1>2, <1>3, <1>4 DEF FlowInv

LEMMA MarkFlow == ASSUME NEW t \in Tasks, FlowInv, Mark(t) PROVE FlowInv'
<1>1. GTypeOK'
  BY DEF FlowInv, GTypeOK, Mark
<1>2. RetryIsClean'
  BY DEF FlowInv, RetryIsClean, Mark
<1>3. FlushInv' /\ FirstTunnelComplete'
  BY DEF FlowInv, FlushInv, FirstTunnelComplete, is_connect, Mark
<1>4. HeadInv'
  BY DEF FlowInv, HeadInv, is_connect, Mark
<1> QED
  BY <1>1, <1>2, <1>3, <1>4 DEF FlowInv

LEMMA AllFailedFlow == ASSUME NEW t \in Tasks, FlowInv, AllFailed(t) PROVE FlowInv'
<1>1. GTypeOK'
  BY DEF FlowInv, GTypeOK, AllFailed, Goto, Write
<1>2. RetryIsClean'
  BY WriteSpeaks DEF FlowInv, RetryIsClean, AllFailed
<1>3. FlushInv' /\ FirstTunnelComplete'
  BY DEF FlowInv, GTypeOK, FlushInv, FirstTunnelComplete, is_connect, AllFailed, Goto, Write
<1>4. HeadInv'
  BY WriteSpeaks DEF FlowInv, HeadInv, is_connect, AllFailed, Goto
<1> QED
  BY <1>1, <1>2, <1>3, <1>4 DEF FlowInv

LEMMA DialDirectFlow == ASSUME NEW t \in Tasks, FlowInv, DialDirect(t) PROVE FlowInv'
<1>1. GTypeOK'
  BY DEF FlowInv, GTypeOK, DialDirect, Release, Goto
<1>2. RetryIsClean'
  BY DEF FlowInv, RetryIsClean, DialDirect
<1>3. FlushInv' /\ FirstTunnelComplete'
  BY DEF FlowInv, FlushInv, FirstTunnelComplete, is_connect, DialDirect, Goto
<1>4. HeadInv'
  BY DEF FlowInv, HeadInv, is_connect, DialDirect, Goto
<1> QED
  BY <1>1, <1>2, <1>3, <1>4 DEF FlowInv

LEMMA DialProxyFlow == ASSUME NEW t \in Tasks, FlowInv, DialProxy(t) PROVE FlowInv'
<1>1. GTypeOK'
  BY DEF FlowInv, GTypeOK, DialProxy, Release, Goto
<1>2. RetryIsClean'
  BY DEF FlowInv, RetryIsClean, DialProxy
<1>3. FlushInv' /\ FirstTunnelComplete'
  BY DEF FlowInv, FlushInv, FirstTunnelComplete, is_connect, DialProxy, Goto
<1>4. HeadInv'
  BY DEF FlowInv, HeadInv, is_connect, DialProxy, Goto
<1> QED
  BY <1>1, <1>2, <1>3, <1>4 DEF FlowInv

LEMMA SendRequestFlow == ASSUME NEW t \in Tasks, FlowInv, SendRequest(t) PROVE FlowInv'
<1>1. GTypeOK'
  BY DEF FlowInv, GTypeOK, SendRequest, Goto, Release
<1>2. RetryIsClean'
  BY DEF FlowInv, RetryIsClean, SendRequest
<1>3. FlushInv' /\ FirstTunnelComplete'
  BY DEF FlowInv, FlushInv, FirstTunnelComplete, HeadInv, is_connect, SendRequest, Goto
<1>4. HeadInv'
  BY DEF FlowInv, HeadInv, is_connect, SendRequest, Goto
<1> QED
  BY <1>1, <1>2, <1>3, <1>4 DEF FlowInv

LEMMA HeadOkFlow == ASSUME NEW t \in Tasks, FlowInv, HeadOk(t) PROVE FlowInv'
<1>1. GTypeOK'
  BY DEF FlowInv, GTypeOK, HeadOk, AfterHead, Release, Goto
<1>2. RetryIsClean'
  BY DEF FlowInv, RetryIsClean, HeadOk
<1>3. FlushInv' /\ FirstTunnelComplete'
  BY DEF FlowInv, FlushInv, FirstTunnelComplete, is_connect, HeadOk, AfterHead, Goto
<1>4. HeadInv'
  BY DEF FlowInv, HeadInv, is_connect, HeadOk, AfterHead, Goto
<1> QED
  BY <1>1, <1>2, <1>3, <1>4 DEF FlowInv

LEMMA StatusOkFlow == ASSUME NEW t \in Tasks, FlowInv, StatusOk(t) PROVE FlowInv'
<1>1. GTypeOK'
  BY DEF FlowInv, GTypeOK, StatusOk, Goto
<1>2. RetryIsClean'
  BY DEF FlowInv, RetryIsClean, StatusOk
<1>3. FlushInv' /\ FirstTunnelComplete'
  BY DEF FlowInv, FlushInv, FirstTunnelComplete, is_connect, StatusOk, Goto
<1>4. HeadInv'
  BY DEF FlowInv, HeadInv, is_connect, StatusOk, Goto
<1> QED
  BY <1>1, <1>2, <1>3, <1>4 DEF FlowInv

LEMMA GrantFlow == ASSUME NEW t \in Tasks, FlowInv, Grant(t) PROVE FlowInv'
<1>1. GTypeOK'
  BY DEF FlowInv, GTypeOK, Grant, Goto, Write
<1>2. RetryIsClean'
  BY WriteSpeaks DEF FlowInv, RetryIsClean, Grant
<1>3. FlushInv' /\ FirstTunnelComplete'
  BY DEF FlowInv, GTypeOK, RetryIsClean, FlushInv, FirstTunnelComplete, is_connect, Grant,
     Goto, Write
<1>4. HeadInv'
  BY WriteSpeaks DEF FlowInv, HeadInv, is_connect, Grant, Goto
<1> QED
  BY <1>1, <1>2, <1>3, <1>4 DEF FlowInv

LEMMA FlushFlow == ASSUME NEW t \in Tasks, FlowInv, Flush(t) PROVE FlowInv'
<1>1. GTypeOK'
  BY DEF FlowInv, GTypeOK, Flush, Goto
<1>2. RetryIsClean'
  BY DEF FlowInv, RetryIsClean, HeadInv, Flush
<1>3. FlushInv' /\ FirstTunnelComplete'
  BY DEF FlowInv, GTypeOK, FlushInv, FirstTunnelComplete, is_connect, Flush, Goto
<1>4. HeadInv'
  BY DEF FlowInv, HeadInv, is_connect, Flush, Goto
<1> QED
  BY <1>1, <1>2, <1>3, <1>4 DEF FlowInv

LEMMA CollectFlow == ASSUME NEW t \in Tasks, FlowInv, Collect(t) PROVE FlowInv'
<1>1. GTypeOK'
  BY DEF FlowInv, GTypeOK, Collect, Goto, Release
<1>2. RetryIsClean'
  BY DEF FlowInv, RetryIsClean, Collect
<1>3. FlushInv' /\ FirstTunnelComplete'
  BY DEF FlowInv, FlushInv, FirstTunnelComplete, is_connect, Collect, Goto
<1>4. HeadInv'
  BY DEF FlowInv, HeadInv, is_connect, Collect, Goto
<1> QED
  BY <1>1, <1>2, <1>3, <1>4 DEF FlowInv

LEMMA AnswerFlow == ASSUME NEW t \in Tasks, FlowInv, Answer(t) PROVE FlowInv'
<1>1. GTypeOK'
  BY DEF FlowInv, GTypeOK, Answer, Goto, Write
<1>2. RetryIsClean'
  BY WriteSpeaks DEF FlowInv, RetryIsClean, Answer
<1>3. FlushInv' /\ FirstTunnelComplete'
  BY DEF FlowInv, FlushInv, FirstTunnelComplete, is_connect, Answer, Goto, Write
<1>4. HeadInv'
  BY WriteSpeaks DEF FlowInv, HeadInv, is_connect, Answer, Goto
<1> QED
  BY <1>1, <1>2, <1>3, <1>4 DEF FlowInv

LEMMA OriginAnswersFlow == ASSUME NEW t \in Tasks, FlowInv, OriginAnswers(t) PROVE FlowInv'
<1>1. GTypeOK'
  BY DEF FlowInv, GTypeOK, OriginAnswers, Write
<1>2. RetryIsClean'
  BY WriteSpeaks DEF FlowInv, RetryIsClean, OriginAnswers
<1>3. FlushInv' /\ FirstTunnelComplete'
  BY DEF FlowInv, FlushInv, FirstTunnelComplete, is_connect, OriginAnswers, Write
<1>4. HeadInv'
  BY WriteSpeaks DEF FlowInv, HeadInv, is_connect, OriginAnswers
<1> QED
  BY <1>1, <1>2, <1>3, <1>4 DEF FlowInv

LEMMA CopyEndsFlow == ASSUME NEW t \in Tasks, FlowInv, CopyEnds(t) PROVE FlowInv'
<1>1. GTypeOK'
  BY DEF FlowInv, GTypeOK, CopyEnds, Release, Goto
<1>2. RetryIsClean'
  BY DEF FlowInv, RetryIsClean, CopyEnds
<1>3. FlushInv' /\ FirstTunnelComplete'
  BY DEF FlowInv, FlushInv, FirstTunnelComplete, is_connect, CopyEnds, Goto
<1>4. HeadInv'
  BY DEF FlowInv, HeadInv, is_connect, CopyEnds, Goto
<1> QED
  BY <1>1, <1>2, <1>3, <1>4 DEF FlowInv

LEMMA HopFailsFlow == ASSUME NEW t \in Tasks, FlowInv, HopFails(t) PROVE FlowInv'
<1>1. GTypeOK'
  BY FaultsAreTyped DEF FlowInv, GTypeOK, HopFails, Fails, Release, Goto, Dropped
<1>2. RetryIsClean'
  BY DEF FlowInv, RetryIsClean, HopFails, Dropped
<1>3. FlushInv' /\ FirstTunnelComplete'
  BY DEF FlowInv, GTypeOK, FlushInv, FirstTunnelComplete, is_connect, HopFails, Goto
<1>4. HeadInv'
  BY DEF FlowInv, HeadInv, is_connect, HopFails, Goto
<1> QED
  BY <1>1, <1>2, <1>3, <1>4 DEF FlowInv

LEMMA ClientLeavesFlow == ASSUME NEW t \in Tasks, FlowInv, ClientLeaves(t) PROVE FlowInv'
<1>1. GTypeOK'
  BY DEF FlowInv, GTypeOK, ClientLeaves
<1>2. RetryIsClean'
  BY DEF FlowInv, RetryIsClean, ClientLeaves
<1>3. FlushInv' /\ FirstTunnelComplete'
  BY DEF FlowInv, FlushInv, FirstTunnelComplete, is_connect, ClientLeaves
<1>4. HeadInv'
  BY DEF FlowInv, HeadInv, is_connect, ClientLeaves
<1> QED
  BY <1>1, <1>2, <1>3, <1>4 DEF FlowInv

LEMMA SpawnBlockingFlow == ASSUME NEW t \in Tasks, FlowInv, SpawnBlocking(t) PROVE FlowInv'
<1>1. GTypeOK'
  BY DEF FlowInv, GTypeOK, SpawnBlocking
<1>2. RetryIsClean'
  BY DEF FlowInv, RetryIsClean, SpawnBlocking
<1>3. FlushInv' /\ FirstTunnelComplete'
  BY DEF FlowInv, FlushInv, FirstTunnelComplete, is_connect, SpawnBlocking
<1>4. HeadInv'
  BY DEF FlowInv, HeadInv, is_connect, SpawnBlocking
<1> QED
  BY <1>1, <1>2, <1>3, <1>4 DEF FlowInv

LEMMA NextFlow == FlowInv /\ [GNext]_gvars => FlowInv'
<1> SUFFICES ASSUME FlowInv, [GNext]_gvars PROVE FlowInv'
  OBVIOUS
<1>1. ASSUME NEW t \in Tasks, handle_client(t) PROVE FlowInv'
  BY <1>1, ReadRequestFlow, ReadFailsFlow, BadTargetFlow, ResolveFlow, ResolveFailsFlow, MarkFlow, AllFailedFlow
  DEF handle_client
<1>2. ASSUME NEW t \in Tasks, try_hop(t) PROVE FlowInv'
  BY <1>2, DialDirectFlow, SendRequestFlow, DialProxyFlow, HeadOkFlow, StatusOkFlow, GrantFlow,
     FlushFlow, CollectFlow, AnswerFlow, OriginAnswersFlow, CopyEndsFlow, HopFailsFlow
  DEF try_hop
<1>3. CASE Around \/ UNCHANGED gvars
  BY <1>3 DEF Around, gvars, gateway, FlowInv, GTypeOK, RetryIsClean, FlushInv,
     FirstTunnelComplete, HeadInv, is_connect
<1> QED
  BY <1>1, <1>2, <1>3, ClientLeavesFlow, SpawnBlockingFlow DEF GNext

LEMMA FlowKept == GSpec => []FlowInv
BY InitFlow, NextFlow, PTL DEF GSpec

\* A hop that fails before the client has been told anything costs nothing.
THEOREM RetriesAreClean == GSpec => []RetryIsClean
<1>1. FlowInv => RetryIsClean
  BY DEF FlowInv
<1> QED
  BY <1>1, FlowKept, PTL

\* The first tunnel that is granted carries the early bytes.
THEOREM FirstTunnelIsComplete == GSpec => []FirstTunnelComplete
<1>1. FlowInv => FirstTunnelComplete
  BY DEF FlowInv
<1> QED
  BY <1>1, FlowKept, PTL

LEMMA EndStepAnswers ==
    ASSUME FlowInv, [GNext]_gvars, NEW t \in Tasks,
           io[t] \notin {"read", "tunnel", "over"}, io'[t] = "over"
    PROVE  heads'[t] # <<>>
<1>1. ASSUME NEW s \in Tasks, handle_client(s) PROVE heads'[t] # <<>>
  <2>1. s = t /\ (ResolveFails(t) \/ AllFailed(t))
    BY <1>1 DEF handle_client, ReadRequest, ReadFails, BadTarget, Resolve, ResolveFails,
       Mark, AllFailed, Goto, FlowInv, GTypeOK
  <2> QED
    BY <2>1 DEF ResolveFails, AllFailed, Write, FlowInv, GTypeOK
<1>2. ASSUME NEW s \in Tasks, try_hop(s) PROVE heads'[t] # <<>>
  <2>1. s = t /\ CopyEnds(t)
    BY <1>2 DEF try_hop, DialDirect, SendRequest, DialProxy, HeadOk, AfterHead, StatusOk, Grant,
       Flush, Collect, Answer, OriginAnswers, CopyEnds, HopFails, Goto, FlowInv, GTypeOK
  <2> QED
    BY <2>1 DEF CopyEnds, FlowInv, HeadInv
<1>3. ASSUME NEW s \in Tasks, ClientLeaves(s) \/ SpawnBlocking(s) PROVE FALSE
  BY <1>3 DEF ClientLeaves, SpawnBlocking
<1>4. ~(Around \/ UNCHANGED gvars)
  BY DEF Around, gvars, gateway
<1> QED
  BY <1>1, <1>2, <1>3, <1>4 DEF GNext

\* No connection with a readable request is closed without an answer.
THEOREM EndsAreAnswered == GSpec => NoSilentEnd
<1>1. FlowInv /\ [GNext]_gvars =>
        [\A t \in Tasks : io[t] \notin {"read", "tunnel", "over"} /\ io'[t] = "over" =>
            heads'[t] # <<>>]_gvars
  BY EndStepAnswers
<1> QED
  BY <1>1, FlowKept, PTL DEF GSpec, NoSilentEnd

\* Every step of the gateway is a step of the resolver or leaves it alone.
LEMMA GNextIsNext == [GNext]_gvars => [Next]_vars
<1> SUFFICES ASSUME [GNext]_gvars PROVE Next \/ UNCHANGED vars
  OBVIOUS
<1>1. ASSUME NEW t \in Tasks, handle_client(t) PROVE Next \/ UNCHANGED vars
  BY <1>1 DEF handle_client, ReadRequest, ReadFails, BadTarget, Resolve, ResolveFails,
     Mark, AllFailed, Next, hops_for, try_hops
<1>2. ASSUME NEW t \in Tasks, try_hop(t) PROVE Next \/ UNCHANGED vars
  BY <1>2 DEF try_hop, DialDirect, SendRequest, DialProxy, HeadOk, StatusOk, Grant, Flush,
     Collect, Answer, OriginAnswers, CopyEnds, HopFails, Next, try_hops
<1>3. ASSUME NEW t \in Tasks, ClientLeaves(t) \/ SpawnBlocking(t) PROVE UNCHANGED vars
  BY <1>3 DEF ClientLeaves, SpawnBlocking
<1>4. CASE Around \/ UNCHANGED gvars
  BY <1>4 DEF Around, Next, gvars
<1> QED
  BY <1>1, <1>2, <1>3, <1>4 DEF GNext

\* The gateway is a user of the resolver that Resolver allows.
THEOREM UsesResolver == GSpec => KeepsResolver
<1>1. GInit => Init
  BY DEF GInit
<1> QED
  BY <1>1, GNextIsNext, PTL DEF GSpec, KeepsResolver, Spec

\* While clients come, go and fail, no connection tries a proxy that was banned
\* before its list was made, unless every hop was.
THEOREM GatewaySkipsBad == GSpec => []SkipsBad
BY UsesResolver, BadSkipped, PTL DEF KeepsResolver

-----------------------------------------------------------------------------
(* What a client hears *)

Heard(t) == FirstHop(t) /\ Branch(t) /\ HeadsFit(t) /\ GivenBack(t)

\* What a step leaves alone goes on being true.
LEMMA KeptHeard ==
    ASSUME NEW t \in Tasks, Heard(t),
           is_connect(t)' = is_connect(t), io'[t] = io[t], heads'[t] = heads[t],
           pc'[t] = pc[t], todo'[t] = todo[t], raw'[t] = raw[t],
           t \in working' => t \in working
    PROVE  Heard(t)'
<1>1. FirstHop(t)'
  BY DEF Heard, FirstHop
<1>2. Branch(t)' /\ HeadsFit(t)'
  BY DEF Heard, Branch, HeadsFit
<1>3. Blocking(t)' = Blocking(t)
  BY DEF Blocking, WinHttp, ViaProxy, IsNext
<1>4. GivenBack(t)'
  BY <1>3 DEF Heard, GivenBack
<1> QED
  BY <1>1, <1>2, <1>4 DEF Heard

\* A step of one task is none of another's business.
LEMMA ResolverOthers ==
    ASSUME Inv, NEW s \in Tasks, NEW t \in Tasks, s # t, hops_for(s) \/ try_hops(s)
    PROVE  pc'[t] = pc[t] /\ todo'[t] = todo[t] /\ raw'[t] = raw[t]
<1> USE DEF Inv, TypeOK
<1>1. CASE hops_for(s)
  BY <1>1 DEF hops_for, Bypass, CacheHit, CacheMiss, LookupOk, LookupErr, Insert, Filter, End
<1>2. CASE try_hops(s)
  BY <1>2 DEF try_hops, TryOk, DirectFails, ProxyFails, MarkBad, GiveUp, Advance, End
<1> QED
  BY <1>1, <1>2

LEMMA OthersHear ==
    ASSUME Inv, GTypeOK, NEW s \in Tasks, NEW t \in Tasks, s # t, Heard(t),
           handle_client(s) \/ try_hop(s) \/ SpawnBlocking(s) \/ ClientLeaves(s)
    PROVE  Heard(t)'
<1>1. pc'[t] = pc[t] /\ todo'[t] = todo[t] /\ raw'[t] = raw[t]
  <2>1. hops_for(s) \/ try_hops(s) \/ UNCHANGED vars
    BY DEF handle_client, ReadRequest, ReadFails, BadTarget, Resolve, ResolveFails, Mark, AllFailed,
       try_hop, DialDirect, SendRequest, DialProxy, HeadOk, StatusOk, Grant, Flush, Collect,
       Answer, OriginAnswers, CopyEnds, HopFails, ClientLeaves, SpawnBlocking, hops_for, try_hops
  <2> QED
    BY <2>1, ResolverOthers DEF vars
<1>2. io'[t] = io[t] /\ heads'[t] = heads[t] /\ req' = req /\ (t \in working' => t \in working)
  <2> USE DEF GTypeOK, Goto, Write, Release
  <2>1. CASE handle_client(s)
    BY <2>1 DEF handle_client, ReadRequest, ReadFails, BadTarget, Resolve, ResolveFails, Mark,
       AllFailed
  <2>2. CASE try_hop(s)
    BY <2>2 DEF try_hop, DialDirect, SendRequest, DialProxy, HeadOk, StatusOk, Grant, Flush,
       Collect, Answer, OriginAnswers, CopyEnds, HopFails
  <2>3. CASE ClientLeaves(s) \/ SpawnBlocking(s)
    BY <2>3 DEF ClientLeaves, SpawnBlocking
  <2> QED
    BY <2>1, <2>2, <2>3
<1>3. is_connect(t)' = is_connect(t)
  BY <1>2 DEF is_connect
<1> QED
  BY <1>1, <1>2, <1>3, KeptHeard

\* A head goes after those that were written.
LEMMA WriteAppends ==
    ASSUME GTypeOK, NEW t \in Tasks, NEW head \in {"200", "resp", "400", "502"}, Write(t, head)
    PROVE  /\ Len(heads'[t]) = Len(heads[t]) + 1
           /\ DOMAIN heads'[t] = DOMAIN heads[t] \cup {Len(heads[t]) + 1}
           /\ \A i \in DOMAIN heads[t] : heads'[t][i] = heads[t][i] /\ i # Len(heads'[t])
           /\ heads'[t][Len(heads[t]) + 1] = head
           /\ heads[t] = <<>> => Len(heads'[t]) = 1
<1>1. heads[t] \in Seq({"200", "resp", "400", "502"}) /\ heads'[t] = Append(heads[t], head)
  BY DEF GTypeOK, Write
<1>2. /\ Len(Append(heads[t], head)) = Len(heads[t]) + 1
      /\ \A i \in 1 .. Len(heads[t]) : Append(heads[t], head)[i] = heads[t][i]
      /\ Append(heads[t], head)[Len(heads[t]) + 1] = head
      /\ DOMAIN heads[t] = 1 .. Len(heads[t]) /\ Len(heads[t]) \in Nat
      /\ DOMAIN Append(heads[t], head) = 1 .. (Len(heads[t]) + 1)
  BY <1>1, AppendProperties, LenProperties
<1> QED
  BY <1>1, <1>2

\* A head that fits is added where no status of the gateway's own has been sent.
LEMMA WriteFits ==
    ASSUME GTypeOK, NEW t \in Tasks, NEW head \in {"200", "resp", "400", "502"}, Write(t, head),
           HeadsFit(t), io[t] # "over", req' = req,
           head = "200" => is_connect(t), head = "resp" => ~is_connect(t),
           head \in {"400", "502"} => io'[t] = "over"
    PROVE  HeadsFit(t)'
<1> SUFFICES ASSUME NEW i \in DOMAIN heads'[t]
             PROVE  /\ heads'[t][i] = "200" => is_connect(t)
                    /\ heads'[t][i] = "resp" => ~is_connect(t)
                    /\ heads'[t][i] \in {"400", "502"} => io'[t] = "over" /\ i = Len(heads'[t])
  BY DEF HeadsFit, is_connect
<1>1. CASE i \in DOMAIN heads[t]
  BY <1>1, WriteAppends DEF HeadsFit
<1>2. CASE i = Len(heads[t]) + 1
  BY <1>2, WriteAppends
<1> QED
  BY <1>1, <1>2, WriteAppends

\* A hop that fails is left behind, or will be when it is marked.
LEMMA LeftBehind ==
    ASSUME Inv, NEW t \in Tasks, DirectFails(t) \/ ProxyFails(t) \/ MarkBad(t)
    PROVE  /\ pc'[t] = "trying" => todo'[t] # DOMAIN raw'[t]
           /\ pc'[t] \in {"trying", "mark", "failed"}
           /\ pc[t] \in {"trying", "mark"}
<1> USE DEF Inv, TypeOK
<1>1. todo[t] \subseteq DOMAIN raw[t]
  BY DEF ListInv
<1>2. ASSUME NEW i \in todo[t], Advance(t, i), raw' = raw
      PROVE  todo'[t] # DOMAIN raw'[t] /\ pc'[t] \in {"trying", "failed"}
  <2>1. todo'[t] = todo[t] \ {i} /\ pc'[t] \in {"trying", "failed"}
    BY <1>2 DEF Advance
  <2>2. i \in DOMAIN raw[t] /\ i \notin todo'[t]
    BY <1>1, <2>1
  <2> QED
    BY <1>2, <2>1, <2>2
<1>3. CASE DirectFails(t)
  BY <1>2, <1>3 DEF DirectFails
<1>4. CASE ProxyFails(t)
  BY <1>4 DEF ProxyFails
<1>5. CASE MarkBad(t)
  BY <1>2, <1>5 DEF MarkBad
<1> QED
  BY <1>3, <1>4, <1>5

LEMMA ClientHears ==
    ASSUME Inv, GTypeOK, NEW t \in Tasks, Heard(t), handle_client(t)
    PROVE  Heard(t)'
<1> USE DEF Heard, GTypeOK
<1>1. CASE ReadRequest(t) \/ ReadFails(t)
  <2>1. /\ io[t] = "read" /\ io'[t] \in {"resolve", "over"} /\ heads'[t] = heads[t] /\ pc'[t] = pc[t]
        /\ heads[t] = <<>> /\ pc[t] = "new" /\ working' = working
    BY <1>1 DEF ReadRequest, ReadFails, Goto, vars, FirstHop, Branch
  <2> QED
    BY <2>1 DEF FirstHop, Branch, HeadsFit, GivenBack, Blocking
<1>2. CASE BadTarget(t)
  <2>1. /\ io[t] = "read" /\ io'[t] = "over" /\ pc'[t] = pc[t] /\ pc[t] = "new" /\ req' = req
        /\ working' = working
    BY <1>2 DEF BadTarget, Goto, vars, Branch
  <2>2. HeadsFit(t)'
    BY <1>2, <2>1, WriteFits DEF BadTarget
  <2> QED
    BY <2>1, <2>2 DEF FirstHop, Branch, GivenBack, Blocking
<1>3. CASE Resolve(t)
  <2>1. /\ io[t] = "resolve" /\ heads'[t] = heads[t] /\ heads[t] = <<>>
        /\ \/ io'[t] = "dial" /\ t \notin working'
           \/ io'[t] = "resolve" /\ pc'[t] \in {"lookup", "insert", "filter"}
    <3>1. pc'[t] \in {"trying", "lookup", "insert", "filter"}
      BY <1>3 DEF Resolve, hops_for, Bypass, CacheHit, CacheMiss, LookupOk, LookupErr, End, Insert,
         Filter, Inv, TypeOK
    <3> QED
      BY <1>3, <3>1 DEF Resolve, Goto, Release, FirstHop
  <2> QED
    BY <2>1 DEF FirstHop, Branch, HeadsFit, GivenBack, Blocking
<1>4. CASE ResolveFails(t)
  <2>1. io[t] = "resolve" /\ io'[t] = "over" /\ pc'[t] = "done" /\ req' = req /\ t \notin working'
    BY <1>4 DEF ResolveFails, LookupErr, End, Goto, Release, Inv, TypeOK
  <2>2. HeadsFit(t)'
    BY <1>4, <2>1, WriteFits DEF ResolveFails
  <2> QED
    BY <2>1, <2>2 DEF FirstHop, Branch, GivenBack
<1>5. CASE Mark(t)
  <2>1. /\ io'[t] = io[t] /\ heads'[t] = heads[t] /\ req' = req /\ working' = working
        /\ pc[t] = "mark"
        /\ pc'[t] \in {"trying", "mark", "failed"}
        /\ pc'[t] = "trying" => todo'[t] # DOMAIN raw'[t]
    BY <1>5, LeftBehind DEF Mark, MarkBad
  <2>2. t \notin working
    BY <2>1 DEF GivenBack, Blocking, Branch
  <2> QED
    BY <2>1, <2>2 DEF FirstHop, Branch, HeadsFit, GivenBack, is_connect
<1>6. CASE AllFailed(t)
  <2>1. /\ io[t] # "over" /\ io'[t] = "over" /\ pc[t] = "failed" /\ pc'[t] = "done" /\ req' = req
        /\ working' = working
    BY <1>6 DEF AllFailed, GiveUp, End, Goto, Inv, TypeOK, Branch
  <2>2. HeadsFit(t)'
    BY <1>6, <2>1, WriteFits DEF AllFailed
  <2>3. t \notin working
    BY <2>1 DEF GivenBack, Blocking, Branch
  <2> QED
    BY <2>1, <2>2, <2>3 DEF FirstHop, Branch, GivenBack
<1> QED
  BY <1>1, <1>2, <1>3, <1>4, <1>5, <1>6 DEF handle_client

\* The hop that WinHTTP carries stays the same while try_hop is busy with it.
LEMMA SameHop ==
    ASSUME NEW t \in Tasks, UNCHANGED vars
    PROVE  WinHttp(t)' = WinHttp(t) /\ ViaProxy(t)' = ViaProxy(t)
BY DEF WinHttp, ViaProxy, IsNext, vars

LEMMA HopHears ==
    ASSUME Inv, GTypeOK, NEW t \in Tasks, Heard(t), try_hop(t)
    PROVE  Heard(t)'
<1> USE DEF Heard, GTypeOK
<1>1. CASE DialDirect(t) \/ DialProxy(t)
  <2>1. /\ io[t] = "dial" /\ heads'[t] = heads[t] /\ UNCHANGED <<vars, req>> /\ pc[t] = "trying"
        /\ io'[t] \in {"grant", "send", "head"}
        /\ io'[t] = "grant" => is_connect(t)
        /\ io'[t] = "send" => ~is_connect(t)
        /\ t \in working' => io'[t] = "head" /\ WinHttp(t)
    BY <1>1 DEF DialDirect, DialProxy, Goto, Release, Trying, WinHttp
  <2>2. GivenBack(t)'
    BY <2>1, SameHop DEF GivenBack, Blocking
  <2> QED
    BY <2>1, <2>2 DEF FirstHop, Branch, HeadsFit, is_connect, vars
<1>2. CASE HeadOk(t) \/ StatusOk(t)
  <2>1. /\ io[t] \in {"head", "status"} /\ heads'[t] = heads[t] /\ UNCHANGED <<vars, req>>
        /\ pc[t] = "trying" /\ t \notin working'
        /\ \/ io'[t] \in {"status", "grant"} /\ is_connect(t)
           \/ io'[t] \in {"collect", "answer"} /\ ~is_connect(t)
    <3>1. CASE HeadOk(t)
      BY <3>1 DEF HeadOk, AfterHead, Goto, Release, Trying
    <3>2. CASE StatusOk(t)
      BY <3>2 DEF StatusOk, Goto, Trying, Branch, GivenBack, Blocking
    <3> QED
      BY <1>2, <3>1, <3>2
  <2> QED
    BY <2>1 DEF FirstHop, Branch, HeadsFit, GivenBack, is_connect, vars
<1>3. CASE Grant(t)
  <2>1. /\ io[t] = "grant" /\ io'[t] = "flush" /\ UNCHANGED <<vars, req>> /\ is_connect(t)
        /\ pc[t] = "trying" /\ t \notin working'
    BY <1>3 DEF Grant, Goto, Trying, Branch, GivenBack, Blocking
  <2>2. HeadsFit(t)'
    BY <1>3, <2>1, WriteFits DEF Grant
  <2>3. FirstHop(t)'
    BY <1>3, <2>1, WriteAppends DEF Grant, FirstHop, vars
  <2> QED
    BY <2>1, <2>2, <2>3 DEF Branch, GivenBack, is_connect, vars
<1>4. CASE Flush(t)
  <2>1. /\ io[t] = "flush" /\ io'[t] = "tunnel" /\ heads'[t] = heads[t] /\ UNCHANGED <<vars, req>>
        /\ pc[t] = "trying" /\ (t \in working' => WinHttp(t))
    BY <1>4 DEF Flush, Goto, Trying, GivenBack, Blocking
  <2>2. GivenBack(t)'
    BY <2>1, SameHop DEF GivenBack, Blocking
  <2> QED
    BY <2>1, <2>2 DEF FirstHop, Branch, HeadsFit, is_connect, vars
<1>5. CASE SendRequest(t) \/ Collect(t)
  <2>1. /\ io[t] \in {"send", "collect"} /\ heads'[t] = heads[t] /\ UNCHANGED <<vars, req>>
        /\ pc[t] = "trying" /\ t \notin working' /\ ~is_connect(t)
        /\ io'[t] \in {"tunnel", "answer"}
    BY <1>5 DEF SendRequest, Collect, Goto, Release, Trying, Branch, GivenBack, Blocking
  <2> QED
    BY <2>1 DEF FirstHop, Branch, HeadsFit, GivenBack, is_connect, vars
<1>6. CASE Answer(t)
  <2>1. /\ io[t] = "answer" /\ io'[t] = "body" /\ UNCHANGED <<vars, req>> /\ ~is_connect(t)
        /\ t \notin working'
    BY <1>6 DEF Answer, Goto, Branch, GivenBack, Blocking
  <2>2. HeadsFit(t)'
    BY <1>6, <2>1, WriteFits DEF Answer
  <2> QED
    BY <2>1, <2>2 DEF FirstHop, Branch, GivenBack, is_connect, vars
<1>7. CASE OriginAnswers(t)
  <2>1. /\ io[t] = "tunnel" /\ io'[t] = io[t] /\ UNCHANGED <<vars, req>> /\ ~is_connect(t)
        /\ (t \in working' => WinHttp(t))
    BY <1>7 DEF OriginAnswers, GivenBack, Blocking
  <2>2. HeadsFit(t)'
    BY <1>7, <2>1, WriteFits DEF OriginAnswers
  <2>3. GivenBack(t)'
    BY <2>1, SameHop DEF GivenBack, Blocking
  <2> QED
    BY <2>1, <2>2, <2>3 DEF FirstHop, Branch, is_connect, vars
<1>8. CASE CopyEnds(t)
  <2>1. /\ io[t] # "over" /\ io'[t] = "over" /\ pc'[t] = "done" /\ heads'[t] = heads[t] /\ req' = req
        /\ t \notin working'
    BY <1>8 DEF CopyEnds, TryOk, End, Goto, Release, Inv, TypeOK
  <2> QED
    BY <2>1 DEF FirstHop, Branch, HeadsFit, GivenBack, is_connect
<1>9. CASE HopFails(t)
  <2>1. /\ io'[t] = "dial" /\ heads'[t] = heads[t] /\ req' = req /\ io[t] # "over"
        /\ pc'[t] = "trying" => todo'[t] # DOMAIN raw'[t]
        /\ t \notin working'
    BY <1>9, LeftBehind DEF HopFails, Goto, Release, Trying, Branch
  <2> QED
    BY <2>1 DEF FirstHop, Branch, HeadsFit, GivenBack, is_connect
<1> QED
  BY <1>1, <1>2, <1>3, <1>4, <1>5, <1>6, <1>7, <1>8, <1>9 DEF try_hop

\* A task gets a thread for what it has handed to the pool.
LEMMA SpawnHears ==
    ASSUME NEW t \in Tasks, Heard(t), SpawnBlocking(t)
    PROVE  Heard(t)'
<1>1. UNCHANGED <<vars, req, io, heads>> /\ Blocking(t)
  BY DEF SpawnBlocking
<1>2. Blocking(t)'
  BY <1>1, SameHop DEF Blocking, vars
<1> QED
  BY <1>1, <1>2 DEF Heard, FirstHop, Branch, HeadsFit, GivenBack, is_connect, vars

LEMMA HeardStep == Inv /\ GInv /\ [GNext]_gvars => HeardInv'
<1> SUFFICES ASSUME Inv, GInv, [GNext]_gvars, NEW t \in Tasks PROVE Heard(t)'
  BY DEF HeardInv, Heard
<1>1. Heard(t) /\ GTypeOK
  BY DEF GInv, FlowInv, HeardInv, Heard
<1>2. ASSUME NEW s \in Tasks, handle_client(s) \/ try_hop(s) \/ SpawnBlocking(s) PROVE Heard(t)'
  BY <1>1, <1>2, OthersHear, ClientHears, HopHears, SpawnHears
<1>3. ASSUME NEW s \in Tasks, ClientLeaves(s) PROVE Heard(t)'
  <2>1. UNCHANGED <<vars, req, io, heads, working>>
    BY <1>3 DEF ClientLeaves
  <2> QED
    BY <1>1, <2>1, KeptHeard DEF vars, is_connect
<1>4. CASE Around \/ UNCHANGED gvars
  <2>1. UNCHANGED <<req, io, heads, pc, todo, raw, working>>
    BY <1>4 DEF Around, Invalidate, PacChange, Tick, gateway, gvars, vars
  <2> QED
    BY <1>1, <2>1, KeptHeard DEF is_connect
<1> QED
  BY <1>2, <1>3, <1>4 DEF GNext

LEMMA InitHeard == GInit => HeardInv
<1> SUFFICES ASSUME GInit, NEW t \in Tasks PROVE Heard(t)
  BY DEF HeardInv, Heard
<1>1. io[t] = "read" /\ heads[t] = <<>> /\ pc[t] = "new"
  BY DEF GInit, Init
<1>2. HeadsFit(t)
  <2>1. DOMAIN heads[t] = {}
    BY <1>1
  <2> QED
    BY <2>1 DEF HeadsFit
<1>3. GivenBack(t)
  BY DEF GInit, GivenBack
<1> QED
  BY <1>1, <1>2, <1>3 DEF Heard, FirstHop, Branch

\* The gateway's invariant holds in every reachable state of either build.
THEOREM GatewayInvariance == GSpec => []GInv
<1>1. GSpec => []Inv
  BY UsesResolver, Invariance, PTL DEF KeepsResolver
<1>2. GInit => GInv
  BY InitFlow, InitHeard DEF GInv
<1>3. FlowInv' /\ HeardInv' => GInv'
  BY DEF GInv
<1> QED
  BY <1>1, <1>2, <1>3, FlowKept, HeardStep, PTL DEF GSpec

\* A client hears of tunnels if it asked for one and of responses if not, and once
\* it has been sent a status of the gateway's own, of nothing more.
THEOREM HeadsAreFit == GSpec => [](\A t \in Tasks : HeadsFit(t))
<1>1. GInv => \A t \in Tasks : HeadsFit(t)
  BY DEF GInv, HeardInv
<1> QED
  BY <1>1, GatewayInvariance, PTL

\* As long as every hop of the list is still to be tried, the tunnel that is open
\* has carried the early bytes: a list of one hop loses none.  The gateway that
\* drops them has failed over after a 200.
THEOREM OneHopIsComplete ==
    GSpec => [](\A t \in Tasks :
                    /\ io[t] = "tunnel" /\ is_connect(t) /\ req[t].extra
                    /\ todo[t] = DOMAIN raw[t] \/ Len(raw[t]) = 1
                    => preface[t] = "hop")
<1> DEFINE Carried(t) ==
        /\ io[t] = "tunnel" /\ is_connect(t) /\ req[t].extra
        /\ todo[t] = DOMAIN raw[t] \/ Len(raw[t]) = 1
        => preface[t] = "hop"
<1>1. Inv /\ GInv => \A t \in Tasks : Carried(t)
  <2> SUFFICES ASSUME Inv, GInv, NEW t \in Tasks, io[t] = "tunnel", is_connect(t), req[t].extra,
                      todo[t] = DOMAIN raw[t] \/ Len(raw[t]) = 1
               PROVE  preface[t] = "hop"
    OBVIOUS
  <2>1. pc[t] = "trying" /\ todo[t] \subseteq DOMAIN raw[t] /\ todo[t] # {}
    BY DEF Inv, ListInv, GInv, HeardInv, Branch
  <2>2. todo[t] = DOMAIN raw[t]
    <3>1. CASE Len(raw[t]) = 1
      <4>1. raw[t] \in Seq(Hop)
        BY ListsAreSeqs DEF Inv, TypeOK
      <4>2. DOMAIN raw[t] = 1 .. 1
        BY <3>1, <4>1, LenProperties
      <4>3. 1 .. 1 = {1}
        OBVIOUS
      <4> QED
        BY <2>1, <4>2, <4>3
    <3> QED
      BY <3>1
  <2>3. Len(heads[t]) = 1
    BY <2>1, <2>2 DEF GInv, HeardInv, FirstHop
  <2> QED
    BY <2>3 DEF GInv, FlowInv, FirstTunnelComplete
<1>2. GSpec => []Inv
  BY UsesResolver, Invariance, PTL DEF KeepsResolver
<1> QED
  BY <1>1, <1>2, GatewayInvariance, PTL
=============================================================================
