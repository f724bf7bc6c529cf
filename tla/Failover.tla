------------------------------ MODULE Failover ------------------------------
(***************************************************************************)
(* What the resolver promises to the hop loop of handle_client, with no    *)
(* cache, clock, lock or lookup in sight.  A task asks for the hops of its *)
(* destination.  It is refused, or offered one of the destination's lists, *)
(* without some of the proxies that have failed before but never without   *)
(* all of the list.  It tries what it was offered first to last, every     *)
(* proxy that fails goes on record, and it stops at the first that works   *)
(* or when none is left.                                                   *)
(***************************************************************************)
EXTENDS Naturals, Sequences

CONSTANTS
    Tasks,      \* connection tasks
    Hosts,      \* destinations
    Proxies,    \* hops that can go on record
    ListsOf     \* [Hosts -> sets of hop lists]

VARIABLES
    dest,       \* the destination of each task
    phase,      \* "asking", "offered", "over"
    answer,     \* the list the task's offer comes from
    todo,       \* positions of it that the task still has to try
    failed      \* proxies that have failed

vars == <<dest, phase, answer, todo, failed>>

Init ==
    /\ dest \in [Tasks -> Hosts]
    /\ phase = [t \in Tasks |-> "asking"]
    /\ answer = [t \in Tasks |-> <<>>]
    /\ todo = [t \in Tasks |-> {}]
    /\ failed = {}

Over(t) ==
    /\ phase' = [phase EXCEPT ![t] = "over"]
    /\ answer' = [answer EXCEPT ![t] = <<>>]
    /\ todo' = [todo EXCEPT ![t] = {}]
    /\ UNCHANGED <<dest, failed>>

\* hops_for returns a list: what is missing from it has failed before.
Offer(t) ==
    /\ phase[t] = "asking"
    /\ \E list \in ListsOf[dest[t]] : \E keep \in SUBSET DOMAIN list :
        /\ keep # {}
        /\ \A i \in DOMAIN list \ keep : list[i] \in failed
        /\ answer' = [answer EXCEPT ![t] = list]
        /\ todo' = [todo EXCEPT ![t] = keep]
    /\ phase' = [phase EXCEPT ![t] = "offered"]
    /\ UNCHANGED <<dest, failed>>

\* hops_for returns an error.
Refuse(t) == phase[t] = "asking" /\ Over(t)

\* The first hop that is left fails.
Fail(t) ==
    /\ phase[t] = "offered"
    /\ \E i \in todo[t] :
        /\ \A j \in todo[t] : i <= j
        /\ todo' = [todo EXCEPT ![t] = @ \ {i}]
        /\ failed' = failed \cup ({answer[t][i]} \cap Proxies)
    /\ UNCHANGED <<dest, phase, answer>>

\* The first hop that is left works, or none is left.
Leave(t) == phase[t] = "offered" /\ Over(t)

Next == \E t \in Tasks : Offer(t) \/ Refuse(t) \/ Fail(t) \/ Leave(t)

Spec == Init /\ [][Next]_vars

=============================================================================
