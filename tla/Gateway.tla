------------------------------ MODULE Gateway ------------------------------
(***************************************************************************)
(* server.rs with winhttp_up::forward: what handle_client does around the  *)
(* resolver.  It reads one request, resolves its hops, and tries them in   *)
(* order; try_hop reaches the destination or a parent proxy, answers the   *)
(* client and copies bytes until one side ends.  Every error of try_hop,   *)
(* whatever its cause and whatever the client has been sent by then, marks *)
(* the hop bad and moves on to the next one.                               *)
(*                                                                         *)
(* Windows chooses between the two builds: a parent proxy is reached with  *)
(* WinHTTP on Windows and with a socket elsewhere.  A write to a client    *)
(* that has gone may fail or may be lost in a socket buffer.               *)
(*                                                                         *)
(* What blocks runs on tokio's blocking pool, which all tasks share: the   *)
(* resolver, every connection attempt, and on Windows each call of WinHTTP,*)
(* the pump of a tunnel for as long as the tunnel lasts.                   *)
(***************************************************************************)
EXTENDS Resolver, FiniteSets

CONSTANTS
    Windows,    \* which build this is
    Threads,    \* threads of the blocking pool, 512 unless tokio is told otherwise
    Requests    \* what clients send: see Request

\* connect: a CONNECT; extra: bytes follow its head in the same read, such as
\* a TLS ClientHello.
Request == [connect : BOOLEAN, extra : BOOLEAN]

ASSUME BuildAssumption ==
    Windows \in BOOLEAN /\ Threads \in Nat \ {0} /\ Requests \subseteq Request

VARIABLES
    req,        \* the request of each task
    io,         \* where handle_client and try_hop are
    client,     \* the client's connection: "up" or "gone"
    heads,      \* the status lines written to the client so far
    preface,    \* the bytes after a CONNECT's head: "none" left, in "leftover",
                \* "taken" out of it, or given to the current "hop"
    working,    \* the tasks for which a thread of the blocking pool is at work
    fault       \* history: why the proxy that is about to be marked failed

gateway == <<req, io, client, heads, preface, working, fault>>
gvars   == <<vars, gateway>>

is_connect(t) == req[t].connect

ViaProxy(t)  == \E i \in todo[t] : IsNext(t, i) /\ raw[t][i] \in Proxies
ViaDirect(t) == \E i \in todo[t] : IsNext(t, i) /\ raw[t][i] = Direct

\* WinHTTP carries this hop.
WinHttp(t) == Windows /\ ViaProxy(t)

\* What the task does next, or is doing, runs in spawn_blocking: hops_for, the
\* connection attempt, and on Windows Tunnel::open to the proxy's answer, pump
\* and read_response.
Blocking(t) ==
    \/ io[t] = "resolve"
    \/ io[t] = "dial" /\ pc[t] = "trying"
    \/ io[t] \in {"head", "flush", "tunnel", "collect"} /\ WinHttp(t)

\* try_hop is busy with a hop, and has the thread that its next step needs.
Ready(t)  == Blocking(t) => t \in working
Trying(t) == pc[t] = "trying" /\ Ready(t)

GInit ==
    /\ Init
    /\ req \in [Tasks -> Requests]
    /\ io = [t \in Tasks |-> "read"]
    /\ client = [t \in Tasks |-> "up"]
    /\ heads = [t \in Tasks |-> <<>>]
    /\ preface = [t \in Tasks |-> IF req[t].extra THEN "leftover" ELSE "none"]
    /\ working = {}
    /\ fault = [t \in Tasks |-> "none"]

Goto(t, step)   == io' = [io EXCEPT ![t] = step]
Write(t, head)  == heads' = [heads EXCEPT ![t] = Append(@, head)]
Release(t)      == working' = working \ {t}

\* A thread of the pool takes up what the task has handed to spawn_blocking.
SpawnBlocking(t) ==
    /\ Blocking(t) /\ t \notin working
    /\ Cardinality(working) < Threads
    /\ working' = working \cup {t}
    /\ UNCHANGED <<vars, req, io, client, heads, preface, fault>>

-----------------------------------------------------------------------------
(* handle_client up to the hop loop *)

\* read_client_request and destination succeed.
ReadRequest(t) ==
    /\ io[t] = "read"
    /\ Goto(t, "resolve")
    /\ UNCHANGED <<vars, req, client, heads, preface, working, fault>>

\* The request cannot be read: the connection is closed without a word.
ReadFails(t) ==
    /\ io[t] = "read"
    /\ Goto(t, "over")
    /\ UNCHANGED <<vars, req, client, heads, preface, working, fault>>

\* The request names no destination.
BadTarget(t) ==
    /\ io[t] = "read"
    /\ Write(t, "400")
    /\ Goto(t, "over")
    /\ UNCHANGED <<vars, req, client, preface, working, fault>>

\* A step of hops_for on the blocking pool; its last one starts the hop loop.
Resolve(t) ==
    /\ io[t] = "resolve" /\ Ready(t)
    /\ hops_for(t)
    /\ pc'[t] # "done"
    /\ IF pc'[t] = "trying" THEN Goto(t, "dial") /\ Release(t) ELSE UNCHANGED <<io, working>>
    /\ UNCHANGED <<req, client, heads, preface, fault>>

\* Mutant: the resolver's error ends the task without an answer.
ResolveFails_Silent(t) ==
    /\ io[t] = "resolve" /\ Ready(t)
    /\ LookupErr(t)
    /\ Goto(t, "over") /\ Release(t)
    /\ UNCHANGED <<req, client, heads, preface, fault>>

\* hops_for returns an error.
ResolveFails(t) ==
    /\ io[t] = "resolve" /\ Ready(t)
    /\ LookupErr(t)
    /\ Write(t, "502")
    /\ Goto(t, "over") /\ Release(t)
    /\ UNCHANGED <<req, client, preface, fault>>

-----------------------------------------------------------------------------
(* try_hop *)

\* DIRECT: the destination is connected.
DialDirect(t) ==
    /\ Trying(t) /\ io[t] = "dial" /\ ViaDirect(t)
    /\ Goto(t, IF is_connect(t) THEN "grant" ELSE "send")
    /\ Release(t)
    /\ UNCHANGED <<vars, req, client, heads, preface, fault>>

\* A plain request is written to it whole.
SendRequest(t) ==
    /\ Trying(t) /\ io[t] = "send"
    /\ Goto(t, "tunnel")
    /\ UNCHANGED <<vars, req, client, heads, preface, working, fault>>

\* The parent proxy is connected; WinHTTP waits for its answer in the same call.
DialProxy(t) ==
    /\ Trying(t) /\ io[t] = "dial" /\ ViaProxy(t)
    /\ Goto(t, "head")
    /\ IF Windows THEN UNCHANGED working ELSE Release(t)
    /\ UNCHANGED <<vars, req, client, heads, preface, fault>>

\* Where a hop goes on once the proxy has answered: WinHTTP's answer to a plain
\* request is collected before any of it is passed on.
AfterHead(t) == IF is_connect(t) THEN "status" ELSE IF Windows THEN "collect" ELSE "answer"

\* Mutant: the preface is taken before the proxy's status is looked at.
HeadOk_EarlyTake(t) ==
    /\ Trying(t) /\ io[t] = "head"
    /\ Goto(t, AfterHead(t)) /\ Release(t)
    /\ preface' = [preface EXCEPT ![t] = IF Windows /\ @ = "leftover" THEN "taken" ELSE @]
    /\ UNCHANGED <<vars, req, client, heads, fault>>

\* The proxy answers something other than 407, or WinHTTP has dealt with it.
HeadOk(t) ==
    /\ Trying(t) /\ io[t] = "head"
    /\ Goto(t, AfterHead(t)) /\ Release(t)
    /\ UNCHANGED <<vars, req, client, heads, preface, fault>>

\* The proxy's answer to a CONNECT is 200.
StatusOk(t) ==
    /\ Trying(t) /\ io[t] = "status"
    /\ Goto(t, "grant")
    /\ UNCHANGED <<vars, req, client, heads, preface, working, fault>>

\* The client is told that its tunnel is open; WinHTTP's pump takes the preface.
Grant(t) ==
    /\ Trying(t) /\ io[t] = "grant"
    /\ Write(t, "200")
    /\ preface' = [preface EXCEPT ![t] =
                      IF WinHttp(t) /\ @ = "leftover" THEN "taken" ELSE @]
    /\ Goto(t, "flush")
    /\ UNCHANGED <<vars, req, client, working, fault>>

\* Mutant: a tunnel starts without its preface.
Flush_Skipped(t) ==
    /\ Trying(t) /\ io[t] = "flush"
    /\ Goto(t, "tunnel")
    /\ UNCHANGED <<vars, req, client, heads, preface, working, fault>>

\* What is left of the preface goes to the hop before anything else.
Flush(t) ==
    /\ Trying(t) /\ io[t] = "flush"
    /\ preface' = [preface EXCEPT ![t] = IF @ \in {"leftover", "taken"} THEN "hop" ELSE @]
    /\ Goto(t, "tunnel")
    /\ UNCHANGED <<vars, req, client, heads, working, fault>>

\* read_response has read the proxy's answer to its end.
Collect(t) ==
    /\ Trying(t) /\ io[t] = "collect"
    /\ Goto(t, "answer") /\ Release(t)
    /\ UNCHANGED <<vars, req, client, heads, preface, fault>>

\* The response head is written to the client; what is left of the answer is
\* copied on, or written from the buffer on Windows.
Answer(t) ==
    /\ Trying(t) /\ io[t] = "answer"
    /\ Write(t, "resp")
    /\ Goto(t, "body")
    /\ UNCHANGED <<vars, req, client, preface, working, fault>>

\* The origin's response to a plain request crosses the splice.
OriginAnswers(t) ==
    /\ Trying(t) /\ io[t] = "tunnel" /\ ~is_connect(t)
    /\ "resp" \notin {heads[t][i] : i \in DOMAIN heads[t]}
    /\ Write(t, "resp")
    /\ UNCHANGED <<vars, req, io, client, preface, working, fault>>

\* splice, pump, forward_body or the write of the answer comes to its end.
CopyEnds(t) ==
    /\ io[t] \in {"tunnel", "body"} /\ Ready(t)
    /\ TryOk(t)
    /\ Goto(t, "over") /\ Release(t)
    /\ UNCHANGED <<req, client, heads, preface, fault>>

-----------------------------------------------------------------------------
(* The ways in which try_hop returns an error *)

\* The hop is at fault: no connection, no authentication, or a stream that
\* breaks.  The pump on Windows only reports a failure to write to the proxy.
HopFault(t) ==
    CASE io[t] = "dial"   -> {"connect"}
      [] io[t] = "head"   -> {"auth", "stream"}
      [] io[t] = "status" -> IF Windows THEN {"auth", "refused"} ELSE {"refused"}
      [] io[t] \in {"send", "flush", "tunnel", "collect"} -> {"stream"}
      [] io[t] = "body"   -> IF Windows THEN {} ELSE {"stream"}
      [] OTHER            -> {}

\* The client is gone, and the error of writing to it or of splicing it is
\* try_hop's error; the pump on Windows swallows it.
ClientFault(t) ==
    IF client[t] = "gone" /\ \/ io[t] \in {"grant", "answer", "body"}
                             \/ io[t] = "tunnel" /\ ~WinHttp(t)
    THEN {"client"} ELSE {}

\* try_hop fails for one of these reasons; DIRECT is not marked for any.
Fails(t) ==
    \E cause \in HopFault(t) \cup ClientFault(t) :
        fault' = [fault EXCEPT ![t] = IF ViaProxy(t) THEN cause ELSE "none"]

\* Mutant: every failed hop empties leftover.
Dropped_All(p) == "none"

\* What was taken or given to the hop is lost with it.
Dropped(p) == IF p \in {"taken", "hop"} THEN "none" ELSE p

\* Mutant: the loop moves on without mark_bad.
HopFails_Unmarked(t) ==
    /\ Trying(t)
    /\ Fails(t)
    /\ \E i \in todo[t] : IsNext(t, i) /\ Advance(t, i)
    /\ preface' = [preface EXCEPT ![t] = Dropped(@)]
    /\ Goto(t, "dial") /\ Release(t)
    /\ UNCHANGED <<shared, url, raw, until, history, req, client, heads>>

\* Mutant: the loop tries the same hop again.
HopFails_Again(t) ==
    /\ Trying(t)
    /\ Fails(t)
    /\ preface' = [preface EXCEPT ![t] = Dropped(@)]
    /\ Goto(t, "dial") /\ Release(t)
    /\ UNCHANGED <<vars, req, client, heads>>

\* try_hop returns an error: handle_client calls mark_bad and goes on.
HopFails(t) ==
    /\ Trying(t)
    /\ Fails(t)
    /\ DirectFails(t) \/ ProxyFails(t)
    /\ preface' = [preface EXCEPT ![t] = Dropped(@)]
    /\ Goto(t, "dial") /\ Release(t)
    /\ UNCHANGED <<req, client, heads>>

\* mark_bad's insertion, after which the loop goes on.
Mark(t) ==
    /\ MarkBad(t)
    /\ fault' = [fault EXCEPT ![t] = "none"]
    /\ UNCHANGED <<req, io, client, heads, preface, working>>

\* No hop is left.
AllFailed(t) ==
    /\ GiveUp(t)
    /\ Write(t, "502")
    /\ Goto(t, "over")
    /\ UNCHANGED <<req, client, preface, working, fault>>

-----------------------------------------------------------------------------
(* The client and the rest of the world *)

\* The client resets its connection at any time.
ClientLeaves(t) ==
    /\ client[t] = "up" /\ io[t] # "over"
    /\ client' = [client EXCEPT ![t] = "gone"]
    /\ UNCHANGED <<vars, req, io, heads, preface, working, fault>>

Around == (Invalidate \/ PacChange \/ Tick) /\ UNCHANGED gateway

handle_client(t) ==
    \/ ReadRequest(t) \/ ReadFails(t) \/ BadTarget(t)
    \/ Resolve(t) \/ ResolveFails(t)
    \/ Mark(t) \/ AllFailed(t)

try_hop(t) ==
    \/ DialDirect(t) \/ SendRequest(t) \/ DialProxy(t) \/ HeadOk(t) \/ StatusOk(t)
    \/ Grant(t) \/ Flush(t) \/ Collect(t) \/ Answer(t) \/ OriginAnswers(t)
    \/ CopyEnds(t) \/ HopFails(t)

GNext ==
    \/ \E t \in Tasks : handle_client(t) \/ try_hop(t) \/ SpawnBlocking(t) \/ ClientLeaves(t)
    \/ Around

GSpec == GInit /\ [][GNext]_gvars

\* The pool takes up work while it has a thread; a lookup and a connection attempt
\* end on their own.  So do the first writes on a connection, which its socket
\* buffer takes.  Nothing else does: the code sets no timeout on a read from a
\* peer, nor on a write that waits until the peer has read what it was sent.
Prompt(t) ==
    \/ SpawnBlocking(t)
    \/ Resolve(t) \/ ResolveFails(t) \/ Mark(t)
    \/ io[t] \in {"dial", "status", "flush"} /\ try_hop(t)
    \/ heads[t] = <<>> /\ io[t] \in {"grant", "answer"} /\ try_hop(t)
    \/ heads[t] = <<>> /\ AllFailed(t)

FairGSpec == GSpec /\ \A t \in Tasks : WF_gvars(Prompt(t))

-----------------------------------------------------------------------------
(* Properties *)

GTypeOK ==
    /\ req \in [Tasks -> Requests]
    /\ io \in [Tasks -> {"read", "resolve", "dial", "send", "head", "status", "grant", "flush",
                         "tunnel", "collect", "answer", "body", "over"}]
    /\ client \in [Tasks -> {"up", "gone"}]
    /\ heads \in [Tasks -> Seq({"200", "resp", "400", "502"})]
    /\ preface \in [Tasks -> {"none", "leftover", "taken", "hop"}]
    /\ working \subseteq Tasks
    /\ fault \in [Tasks -> {"none", "connect", "auth", "refused", "stream", "client"}]

\* As long as the client has been told nothing, a hop that fails costs nothing:
\* the bytes that came with the CONNECT are still there for the next hop.
RetryIsClean ==
    \A t \in Tasks : heads[t] = <<>> /\ req[t].extra => preface[t] = "leftover"

\* The first tunnel that is granted carries the bytes the client sent early.
FirstTunnelComplete ==
    \A t \in Tasks :
        io[t] = "tunnel" /\ is_connect(t) /\ Len(heads[t]) = 1 /\ req[t].extra =>
            preface[t] = "hop"

\* The inductive invariant: between the 200 and the tunnel the bytes are on
\* their way, and the client has a head by then, as it has before a body; a
\* CONNECT is not itself sent to its destination.
FlushInv ==
    \A t \in Tasks : io[t] = "flush" /\ Len(heads[t]) = 1 /\ req[t].extra =>
        preface[t] \in {"leftover", "taken"}

HeadInv ==
    \A t \in Tasks :
        /\ io[t] \in {"flush", "body"} => heads[t] # <<>>
        /\ io[t] = "send" => ~is_connect(t)

FlowInv == GTypeOK /\ RetryIsClean /\ FlushInv /\ FirstTunnelComplete /\ HeadInv

\* As long as no hop of the list has been skipped or left behind, the client has
\* heard nothing but the head that this hop has led to.
FirstHop(t) ==
    /\ io[t] \in {"read", "resolve"} => heads[t] = <<>>
    /\ pc[t] = "trying" /\ todo[t] = DOMAIN raw[t] =>
        /\ io[t] \in {"dial", "send", "head", "status", "grant", "collect", "answer"} =>
                heads[t] = <<>>
        /\ io[t] = "flush" \/ (io[t] = "tunnel" /\ is_connect(t)) => Len(heads[t]) = 1

\* try_hop has a branch for CONNECT and one for the other methods, and runs for the
\* hop that the loop is at.
Branch(t) ==
    /\ io[t] \in {"status", "grant", "flush"} => is_connect(t)
    /\ io[t] \in {"send", "collect", "answer", "body"} => ~is_connect(t)
    /\ io[t] = "read" => pc[t] = "new"
    /\ io[t] = "resolve" => pc[t] \in {"new", "lookup", "insert", "filter"}
    /\ io[t] = "over" => pc[t] \in {"new", "done"}
    /\ io[t] \notin {"read", "resolve", "dial", "over"} => pc[t] = "trying"

\* A CONNECT hears of tunnels and the rest of responses, hop after hop; a status
\* of the gateway's own is the last thing that a client is sent.
HeadsFit(t) ==
    \A i \in DOMAIN heads[t] :
        /\ heads[t][i] = "200" => is_connect(t)
        /\ heads[t][i] = "resp" => ~is_connect(t)
        /\ heads[t][i] \in {"400", "502"} => io[t] = "over" /\ i = Len(heads[t])

\* Whatever ends or fails, a thread goes back to the pool when the closure does.
GivenBack(t) == t \in working => Blocking(t)

HeardInv == \A t \in Tasks : FirstHop(t) /\ Branch(t) /\ HeadsFit(t) /\ GivenBack(t)

GInv == FlowInv /\ HeardInv

\* A connection whose request could be read is not closed without an answer,
\* unless the client's own splice to an origin came to its end.
NoSilentEnd ==
    [][\A t \in Tasks :
        io[t] \notin {"read", "tunnel", "over"} /\ io'[t] = "over" => heads'[t] # <<>>]_gvars

\* The gateway uses the resolver as Resolver lets it: all that is proved of
\* Resolver holds while connections come and go.
KeepsResolver == Spec

\* The task is over or waits for a peer, to send something or to read what it was
\* sent.
AtPeer(t) ==
    \/ io[t] \in {"over", "read", "send", "head", "tunnel", "collect", "body"} /\ Ready(t)
    \/ heads[t] # <<>> /\ (io[t] \in {"grant", "answer"} \/ pc[t] = "failed")

\* The pool has no thread for the task: each is held by a task that waits for its
\* peers inside the pool, and that is for as long as they please.
Starved(t) ==
    /\ ~Ready(t)
    /\ Cardinality(working) = Threads
    /\ \A s \in working : AtPeer(s)

\* Every connection ends, or waits for its peers, or for a thread that others wait
\* for their peers with: the failover loop terminates, and no task waits for
\* another in any other way.
Settles == \A t \in Tasks : <>[](AtPeer(t) \/ Starved(t))

-----------------------------------------------------------------------------
(* What the documentation says, and the code does not do *)

\* "Minutes to skip a PAC-selected proxy after connect/auth failure.": a proxy is
\* not banned for a client that went away or for a destination it cannot reach.
BannedForCause ==
    [][\A t \in Tasks :
        pc[t] = "mark" /\ pc'[t] # "mark" => fault[t] \in {"connect", "auth", "stream"}]_gvars

\* "TLS ClientHello (or any bytes pipelined after CONNECT) stays in leftover
\* and is spliced after the 200."
PrefaceAfter200 ==
    \A t \in Tasks :
        io[t] = "tunnel" /\ is_connect(t) /\ req[t].extra => preface[t] = "hop"
=============================================================================
