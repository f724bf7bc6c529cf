-------------------------------- MODULE Dial --------------------------------
(***************************************************************************)
(* dial.rs: tasks that connect at the same time.  A name's addresses are   *)
(* tried one after another, IPv4 first.  On Windows an address is tried in *)
(* up to four ways, and only WSAEACCES leads from one to the next; the     *)
(* third binds a local port from a short fixed list, which the tasks share *)
(* with one another and with the other programs of the machine.            *)
(*                                                                         *)
(* One action is one call of the operating system.  The order that DNS     *)
(* gives to addresses of one family is left open, and so is which ports    *)
(* other programs hold or the system keeps for itself.                     *)
(***************************************************************************)
EXTENDS Naturals, Sequences

CONSTANTS
    Tasks,      \* connections being made
    V4, V6,     \* addresses
    NoAddr,     \* none of them
    Answers,    \* sets of addresses that DNS may give for the name
    PORTS,      \* the fixed local ports, in the order of the code
    Windows     \* which build

Addresses == V4 \cup V6
Ports     == {PORTS[i] : i \in 1 .. Len(PORTS)}
Locals    == {"v4", "v6"} \X Ports      \* each family has its own ports

ASSUME DialAssumption ==
    /\ V4 \cap V6 = {} /\ NoAddr \notin Addresses
    /\ Answers \subseteq SUBSET Addresses
    /\ PORTS \in Seq(Ports) /\ Len(PORTS) > 0
    /\ "free" \notin Tasks
    /\ Windows \in BOOLEAN

VARIABLES
    dial,       \* task -> where it is in connect_blocking
    owner,      \* local address -> the task whose socket is bound to it, or "free"
    sockets,    \* task -> how many sockets it has open
    tried       \* task -> <<address, way, outcome>> of its attempts that ended

vars == <<dial, owner, sockets, tried>>

WAYS == IF Windows THEN <<"bare", "std_connect", "pinned", "nooverlap">> ELSE <<"unix">>
LastWay  == Len(WAYS)
LastPort == Len(PORTS)
Ways     == {WAYS[i] : i \in 1 .. LastWay}
Outcomes == {"ok", "acces", "in use", "error"}
Holding  == {"bind", "connect", "nonblock", "wrap", "connected"}
Trying   == Holding \cup {"open"}

Place(step, asked, left, addr) ==
    [step |-> step, asked |-> asked, left |-> left, addr |-> addr,
     way |-> 1, port |-> 1, acces |-> FALSE]

Idle == Place("idle", {}, {}, NoAddr)

Init ==
    /\ dial = [t \in Tasks |-> Idle]
    /\ owner = [l \in Locals |-> "free"]
    /\ sockets = [t \in Tasks |-> 0]
    /\ tried = [t \in Tasks |-> {}]

Way(t) == WAYS[dial[t].way]

\* The unspecified address of the remote's family, and the port.
Local(t) == <<IF dial[t].addr \in V4 THEN "v4" ELSE "v6", PORTS[dial[t].port]>>

\* Mutant: the addresses in the order of DNS.
prefer_ipv4_AsGiven(addrs) == addrs

\* The addresses that may come next.
prefer_ipv4(addrs) == IF addrs \cap V4 # {} THEN addrs \cap V4 ELSE addrs

\* Mutant: a socket that is not closed.
Drop_Leaks(t) ==
    /\ UNCHANGED sockets
    /\ owner' = [l \in Locals |-> IF owner[l] = t THEN "free" ELSE owner[l]]

\* Drop of a Sock or of a std stream: the socket is closed, its port is free.
Drop(t) ==
    /\ sockets' = [sockets EXCEPT ![t] = @ - 1]
    /\ owner' = [l \in Locals |-> IF owner[l] = t THEN "free" ELSE owner[l]]

Keep == UNCHANGED <<owner, sockets>>
Goto(t, step) == dial' = [dial EXCEPT ![t].step = step] /\ UNCHANGED tried

\* The loop over the addresses: the next of those left, or no more.
NextAddr(t, asked, left) ==
    \/ /\ left = {}
       /\ dial' = [dial EXCEPT ![t] = Place("failed", asked, {}, NoAddr)]
    \/ \E a \in prefer_ipv4(left) :
           dial' = [dial EXCEPT ![t] = Place("open", asked, left \ {a}, a)]

\* The loop over the ways.
NextWay(t) ==
    dial' = [dial EXCEPT ![t].step = "open", ![t].way = @ + 1,
                         ![t].port = 1, ![t].acces = FALSE]

\* Mutant: the first error is taken for the address's and the name's last.
Fails_AtOnce(t, why) ==
    /\ tried' = [tried EXCEPT ![t] = @ \cup {<<dial[t].addr, Way(t), why>>}]
    /\ IF why = "acces" /\ dial[t].way < LastWay
         THEN NextWay(t)
         ELSE NextAddr(t, dial[t].asked, {})

\* An attempt ends in a failure: only WSAEACCES leads to the next way.
Fails(t, why) ==
    /\ tried' = [tried EXCEPT ![t] = @ \cup {<<dial[t].addr, Way(t), why>>}]
    /\ IF why = "acces" /\ dial[t].way < LastWay
         THEN NextWay(t)
         ELSE NextAddr(t, dial[t].asked, dial[t].left)

-----------------------------------------------------------------------------
\* A task wants a connection; it may have had one before.
Connect(t) ==
    /\ dial[t].step \in {"idle", "failed"}
    /\ dial' = [dial EXCEPT ![t] = Place("resolve", {}, {}, NoAddr)]
    /\ tried' = [tried EXCEPT ![t] = {}]
    /\ Keep

\* to_socket_addrs gives addresses, perhaps none, or fails, as if it gave none.
Resolve(t) ==
    /\ dial[t].step = "resolve"
    /\ \E answer \in Answers \cup {{}} : NextAddr(t, answer, answer)
    /\ UNCHANGED tried
    /\ Keep

OpenOk(t) ==
    /\ dial[t].step = "open"
    /\ Goto(t, IF Way(t) = "pinned" THEN "bind" ELSE "connect")
    /\ sockets' = [sockets EXCEPT ![t] = @ + 1]
    /\ UNCHANGED owner

OpenFails(t) ==
    /\ dial[t].step = "open"
    /\ \E why \in {"acces", "error"} : Fails(t, why)
    /\ Keep

BindOk(t) ==
    /\ dial[t].step = "bind"
    /\ owner[Local(t)] = "free"
    /\ owner' = [owner EXCEPT ![Local(t)] = t]
    /\ Goto(t, "connect")
    /\ UNCHANGED sockets

\* Mutant: the next port is tried with another socket still open.
PortTaken_Keeps(t) ==
    /\ dial[t].step = "bind"
    /\ IF dial[t].port < LastPort
         THEN /\ dial' = [dial EXCEPT ![t].step = "open", ![t].port = @ + 1]
              /\ UNCHANGED tried
              /\ Keep
         ELSE Fails(t, "acces") /\ Drop(t)

\* A port cannot be bound, WSAEADDRINUSE or WSAEACCES: another task or program has
\* it, or the system keeps it.  The next one is tried, on a new socket; after the
\* last one the attempt counts as WSAEACCES if any of the ports did.
PortTaken(t) ==
    /\ dial[t].step = "bind"
    /\ \E acces \in {dial[t].acces, TRUE} :
        IF dial[t].port < LastPort
          THEN /\ dial' = [dial EXCEPT ![t].step = "open", ![t].port = @ + 1,
                                       ![t].acces = acces]
               /\ UNCHANGED tried
          ELSE Fails(t, IF acces THEN "acces" ELSE "in use")
    /\ Drop(t)

BindFails(t) ==
    /\ dial[t].step = "bind"
    /\ Fails(t, "error")
    /\ Drop(t)

ConnectOk(t) ==
    /\ dial[t].step = "connect"
    /\ Goto(t, "nonblock")
    /\ Keep

\* Refused, unreachable or timed out, or WSAEACCES.
ConnectFails(t) ==
    /\ dial[t].step = "connect"
    /\ \E why \in {"acces", "error"} : Fails(t, why)
    /\ Drop(t)

NonblockOk(t) ==
    /\ dial[t].step = "nonblock"
    /\ dial' = [dial EXCEPT ![t].step = "wrap"]
    /\ tried' = [tried EXCEPT ![t] = @ \cup {<<dial[t].addr, Way(t), "ok">>}]
    /\ Keep

NonblockFails(t) ==
    /\ dial[t].step = "nonblock"
    /\ \E why \in {"acces", "error"} : Fails(t, why)
    /\ Drop(t)

\* TcpStream::from_std, outside of both loops.
WrapOk(t) ==
    /\ dial[t].step = "wrap"
    /\ Goto(t, "connected")
    /\ Keep

\* from_std fails, or the user of the connection closes it.
Close(t) ==
    /\ dial[t].step \in {"wrap", "connected"}
    /\ dial' = [dial EXCEPT ![t] = Idle]
    /\ UNCHANGED tried
    /\ Drop(t)

connect(t) ==
    \/ Connect(t) \/ Resolve(t) \/ OpenOk(t) \/ OpenFails(t)
    \/ BindOk(t) \/ PortTaken(t) \/ BindFails(t)
    \/ ConnectOk(t) \/ ConnectFails(t)
    \/ NonblockOk(t) \/ NonblockFails(t) \/ WrapOk(t) \/ Close(t)

Next == \E t \in Tasks : connect(t)

Spec == Init /\ [][Next]_vars

-----------------------------------------------------------------------------
(* Properties *)

TypeOK ==
    /\ dial \in [Tasks -> [step : Trying \cup {"idle", "resolve", "failed"},
                           asked : SUBSET Addresses, left : SUBSET Addresses,
                           addr : Addresses \cup {NoAddr}, way : 1 .. LastWay,
                           port : 1 .. LastPort, acces : BOOLEAN]]
    /\ owner \in [Locals -> Tasks \cup {"free"}]
    /\ sockets \in [Tasks -> Nat]
    /\ tried \in [Tasks -> SUBSET ((Addresses \cup {NoAddr}) \X Ways \X Outcomes)]

\* Whichever call fails, a dial has at most one socket open, none after it has
\* failed or its connection was closed, and a fixed port belongs to it exactly
\* while that socket is bound to it.
SocketsInv ==
    \A t \in Tasks :
        /\ sockets[t] = IF dial[t].step \in Holding THEN 1 ELSE 0
        /\ \A l \in Locals :
            owner[l] = t <=> /\ dial[t].step \in Holding \ {"bind"}
                             /\ Way(t) = "pinned"
                             /\ l = Local(t)

\* An address is given up for a cause: some attempt failed otherwise than with
\* WSAEACCES, or every way of connecting has met with WSAEACCES.
GivenUp(t, a) ==
    \/ \E w \in Ways, why \in {"error", "in use"} : <<a, w, why>> \in tried[t]
    \/ \A w \in Ways : <<a, w, "acces">> \in tried[t]

\* A dial fails only when each address that DNS gave was given up.
FailsForCause ==
    \A t \in Tasks :
        dial[t].step = "failed" => \A a \in dial[t].asked : GivenUp(t, a)

\* No IPv6 address is tried before every IPv4 address of the name was given up.
V4First ==
    \A t \in Tasks : \A e \in tried[t] :
        e[1] \in V6 => \A a \in dial[t].asked \cap V4 : GivenUp(t, a)

\* For the induction: what was taken from the list before the present address was
\* given up, and the ways before the present one met with WSAEACCES.
ProgressInv ==
    \A t \in Tasks :
        /\ dial[t].step = "resolve" => tried[t] = {}
        /\ dial[t].step = "bind" => Way(t) = "pinned"
        /\ dial[t].step \in Trying =>
            /\ dial[t].addr \in dial[t].asked /\ dial[t].left \subseteq dial[t].asked
            /\ \A a \in dial[t].asked \ (dial[t].left \cup {dial[t].addr}) : GivenUp(t, a)
            /\ dial[t].addr \in V6 => dial[t].left \cap V4 = {}
            /\ \A i \in 1 .. dial[t].way - 1 : <<dial[t].addr, WAYS[i], "acces">> \in tried[t]

Inv == TypeOK /\ SocketsInv /\ FailsForCause /\ V4First /\ ProgressInv
=============================================================================
