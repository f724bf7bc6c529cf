----------------------------- MODULE MCGateway -----------------------------
(***************************************************************************)
(* An instance of Gateway for TLC: the Windows build with the hop lists    *)
(* that PAC gives for two hosts.                                           *)
(***************************************************************************)
EXTENDS Gateway, TLC

CONSTANTS url1, url2, h1, h2, p1, p2

PacUrls       == {url1, url2}
PacHosts      == {h1, h2}
PacNoProxy    == {}
PacHostOf     == (url1 :> h1) @@ (url2 :> h2)
PacAnswersFor == (url1 :> {<<p1, Direct>>}) @@ (url2 :> {<<Direct, p1>>})

Hello == [connect |-> TRUE, extra |-> TRUE]
Get   == [connect |-> FALSE, extra |-> FALSE]

MCRequests   == {Hello, Get}

TaskSymmetry == Permutations(Tasks)
=============================================================================
