----------------------------- MODULE MCService ------------------------------
(***************************************************************************)
(* An instance of Service: two installs that the user starts where he is,  *)
(* one with an absolute path and one with a relative, and the task's       *)
(* instance where Task Scheduler starts it.                                *)
(***************************************************************************)
EXTENDS Service

CONSTANTS u1, u2, abs, rel

MCTyped == [p \in Users |-> IF p = u1 THEN {abs} ELSE {rel}]

MCDir == [p \in Procs |-> IF p = Instance THEN "system32" ELSE "home"]
=============================================================================
