---------------------------- MODULE MCHandshake -----------------------------
(***************************************************************************)
(* An instance of Handshake for TLC: a 407 may offer one scheme, with or   *)
(* without a challenge, two of them in either order, none that is known,   *)
(* or a header without a word.                                             *)
(***************************************************************************)
EXTENDS Handshake

Bare(scheme) == [scheme |-> scheme, token |-> FALSE]
With(scheme) == [scheme |-> scheme, token |-> TRUE]

MCOffers == {<<>>, <<Bare("ntlm")>>, <<With("ntlm")>>,
             <<With("ntlm"), Bare("negotiate")>>, <<With("negotiate"), Bare("basic")>>,
             <<Bare("other")>>, <<Bare("negotiate"), Bare("")>>}
=============================================================================
