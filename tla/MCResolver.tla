----------------------------- MODULE MCResolver -----------------------------
(***************************************************************************)
(* An instance of Resolver for TLC: two tasks race for two hosts, noproxy  *)
(* matches a third, and PAC may change its mind about the first.           *)
(***************************************************************************)
EXTENDS Resolver, TLC

CONSTANTS http1, http2, lan, h1, h2, hlan, p1, p2

MCUrls    == {http1, http2, lan}
MCHosts   == {h1, h2, hlan}
MCHostOf  == (http1 :> h1) @@ (http2 :> h2) @@ (lan :> hlan)
MCNoProxy == {hlan}

MCAnswersFor ==
    (http1 :> {<<p1, Direct>>, <<p2, Direct>>}) @@
    (http2 :> {<<p1, p2>>}) @@
    (lan   :> {<<Direct>>})
=============================================================================
