------------------------------- MODULE MCDial -------------------------------
(***************************************************************************)
(* Instances of Dial for TLC: two connections to a name with an address of *)
(* either family, and two fixed ports.                                     *)
(***************************************************************************)
EXTENDS Dial, TLC

CONSTANTS a4, a6, p1, p2

DualStack == {{a4, a6}}
TwoPorts  == <<p1, p2>>

TaskSymmetry == Permutations(Tasks)
=============================================================================
