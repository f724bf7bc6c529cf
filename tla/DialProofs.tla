----------------------------- MODULE DialProofs -----------------------------
(***************************************************************************)
(* dial.rs for any number of tasks, addresses and fixed ports, and for     *)
(* both builds: no socket and no port outlives its dial, IPv4 comes first, *)
(* and no address is given up without a cause.                             *)
(***************************************************************************)
EXTENDS Dial, TLAPS

LEMMA WaysFacts ==
    /\ LastWay \in Nat /\ LastWay > 0
    /\ \A i \in 1 .. LastWay : i \in Nat /\ WAYS[i] \in Ways
    /\ \A w \in Ways : \E i \in 1 .. LastWay : w = WAYS[i]
  <1>1. CASE Windows
    BY <1>1 DEF WAYS, Ways, LastWay
  <1>2. CASE ~Windows
    BY <1>2 DEF WAYS, Ways, LastWay
  <1>3. QED BY <1>1, <1>2

LEMMA PortsFacts ==
    /\ LastPort \in Nat /\ LastPort > 0
    /\ \A i \in 1 .. LastPort : PORTS[i] \in Ports
  BY DialAssumption DEF Ports, LastPort

LEMMA InitInv == ASSUME Init PROVE Inv
  <1>1. TypeOK
    BY WaysFacts, PortsFacts DEF Init, Idle, Place, TypeOK
  <1>2. SocketsInv
    BY DialAssumption DEF Init, Idle, Place, SocketsInv, Holding
  <1>3. FailsForCause /\ V4First /\ ProgressInv
    BY DEF Init, Idle, Place, FailsForCause, V4First, ProgressInv, Holding, Trying
  <1>4. QED BY <1>1, <1>2, <1>3 DEF Inv

Places == [step : Trying \cup {"idle", "resolve", "failed"},
           asked : SUBSET Addresses, left : SUBSET Addresses,
           addr : Addresses \cup {NoAddr}, way : 1 .. LastWay,
           port : 1 .. LastPort, acces : BOOLEAN]
Records == SUBSET ((Addresses \cup {NoAddr}) \X Ways \X Outcomes)

\* What the invariant says of one task's loops.
Good(t) ==
    /\ dial[t].step = "failed" => \A a \in dial[t].asked : GivenUp(t, a)
    /\ \A e \in tried[t] :
        e[1] \in V6 => \A a \in dial[t].asked \cap V4 : GivenUp(t, a)
    /\ dial[t].step = "resolve" => tried[t] = {}
    /\ dial[t].step = "bind" => Way(t) = "pinned"
    /\ dial[t].step \in Trying =>
        /\ dial[t].addr \in dial[t].asked /\ dial[t].left \subseteq dial[t].asked
        /\ \A a \in dial[t].asked \ (dial[t].left \cup {dial[t].addr}) : GivenUp(t, a)
        /\ dial[t].addr \in V6 => dial[t].left \cap V4 = {}
        /\ \A i \in 1 .. dial[t].way - 1 : <<dial[t].addr, WAYS[i], "acces">> \in tried[t]

LEMMA InvParts ==
    /\ Inv <=> TypeOK /\ SocketsInv /\ \A t \in Tasks : Good(t)
    /\ TypeOK <=> /\ dial \in [Tasks -> Places] /\ tried \in [Tasks -> Records]
                  /\ owner \in [Locals -> Tasks \cup {"free"}] /\ sockets \in [Tasks -> Nat]
  <1>1. Inv <=> TypeOK /\ SocketsInv /\ \A t \in Tasks : Good(t)
    BY DEF Inv, FailsForCause, V4First, ProgressInv, Good
  <1>2. QED BY <1>1 DEF TypeOK, Places, Records

\* A task whose place and record do not change is as good as before.
LEMMA Frame ==
    ASSUME NEW u \in Tasks, dial'[u] = dial[u], tried'[u] = tried[u], Good(u)
    PROVE  Good(u)'
  <1>1. \A a : GivenUp(u, a)' <=> GivenUp(u, a)
    BY DEF GivenUp
  <1>2. QED BY <1>1 DEF Good, Way

\* A task that is about to make an attempt.
LEMMA OpenGood ==
    ASSUME NEW t \in Tasks, NEW asked, NEW left, NEW addr, NEW way,
           dial'[t].step = "open", dial'[t].way = way, dial'[t].addr = addr,
           dial'[t].asked = asked, dial'[t].left = left,
           addr \in asked, left \subseteq asked, addr \in V6 => left \cap V4 = {},
           \A a \in asked \ (left \cup {addr}) : GivenUp(t, a)',
           \A e \in tried'[t] : e[1] \in V6 => \A a \in asked \cap V4 : GivenUp(t, a)',
           \A i \in 1 .. way - 1 : <<addr, WAYS[i], "acces">> \in tried'[t]
    PROVE  Good(t)'
  BY DEF Good

\* The loop over the addresses: those that are neither tried nor left were given up.
LEMMA AddrStep ==
    ASSUME NEW t \in Tasks, NEW asked \in SUBSET Addresses, NEW left \in SUBSET asked,
           dial \in [Tasks -> Places], NextAddr(t, asked, left),
           \A a \in asked \ left : GivenUp(t, a)',
           \A e \in tried'[t] : e[1] \in V6 => \A a \in asked \cap V4 : GivenUp(t, a)'
    PROVE  /\ dial' \in [Tasks -> Places]
           /\ dial'[t].step \in {"open", "failed"}
           /\ \A u \in Tasks \ {t} : dial'[u] = dial[u]
           /\ Good(t)'
  <1>1. CASE left = {} /\ dial' = [dial EXCEPT ![t] = Place("failed", asked, {}, NoAddr)]
    <2>1. /\ dial'[t] = Place("failed", asked, {}, NoAddr)
          /\ \A u \in Tasks \ {t} : dial'[u] = dial[u]
      BY <1>1 DEF Places
    <2>2. dial'[t] \in Places /\ dial'[t].step = "failed" /\ dial'[t].asked = asked
      BY <2>1, WaysFacts, PortsFacts DEF Places, Place
    <2>3. dial' \in [Tasks -> Places]
      BY <1>1, <2>1, <2>2
    <2>4. \A a \in dial'[t].asked : GivenUp(t, a)'
      BY <1>1, <2>2
    <2>5. dial'[t].step \notin {"resolve", "bind"} /\ dial'[t].step \notin Trying
      BY <2>2 DEF Trying, Holding
    <2>6. Good(t)'
      BY <2>4, <2>5 DEF Good
    <2>7. QED BY <2>1, <2>2, <2>3, <2>6
  <1>2. ASSUME NEW a \in prefer_ipv4(left),
               dial' = [dial EXCEPT ![t] = Place("open", asked, left \ {a}, a)]
        PROVE  /\ dial' \in [Tasks -> Places]
               /\ dial'[t].step \in {"open", "failed"}
               /\ \A u \in Tasks \ {t} : dial'[u] = dial[u]
               /\ Good(t)'
    <2>0. a \in left /\ (a \in V6 => (left \ {a}) \cap V4 = {})
      BY DialAssumption DEF prefer_ipv4
    <2>1. /\ dial'[t] = Place("open", asked, left \ {a}, a)
          /\ \A u \in Tasks \ {t} : dial'[u] = dial[u]
      BY <1>2 DEF Places
    <2>2. /\ dial'[t] \in Places /\ dial'[t].step = "open" /\ dial'[t].asked = asked
          /\ dial'[t].left = left \ {a} /\ dial'[t].addr = a /\ dial'[t].way = 1
      BY <2>0, <2>1, WaysFacts, PortsFacts DEF Places, Place, Trying
    <2>3. dial' \in [Tasks -> Places]
      BY <1>2, <2>1, <2>2
    <2>4. \A b \in asked \ ((left \ {a}) \cup {a}) : GivenUp(t, b)'
      BY <2>0
    <2>5. \A i \in 1 .. 1 - 1 : <<a, WAYS[i], "acces">> \in tried'[t]
      OBVIOUS
    <2>6. a \in asked /\ left \ {a} \subseteq asked
      BY <2>0
    <2>7. Good(t)'
      BY <2>0, <2>2, <2>4, <2>5, <2>6, OpenGood
    <2>8. QED BY <2>1, <2>2, <2>3, <2>7
  <1>3. QED BY <1>1, <1>2 DEF NextAddr

LEMMA OpenPlace ==
    \A asked \in SUBSET Addresses, left \in SUBSET Addresses,
       addr \in Addresses \cup {NoAddr}, way \in 1 .. LastWay :
        [step |-> "open", asked |-> asked, left |-> left, addr |-> addr,
         way |-> way, port |-> 1, acces |-> FALSE] \in Places
  BY PortsFacts DEF Places, Trying

LEMMA Upto ==
    \A n \in Nat : \A i \in 1 .. n : i = n \/ i \in 1 .. n - 1
  OBVIOUS

\* What a failed attempt does to both loops: the dial goes on or has failed, and
\* nothing but its own place and record changes.
LEMMA FailsStep ==
    ASSUME Inv, NEW t \in Tasks, NEW why \in {"acces", "in use", "error"},
           dial[t].step \in Trying, Fails(t, why)
    PROVE  /\ dial' \in [Tasks -> Places] /\ tried' \in [Tasks -> Records]
           /\ dial'[t].step \in {"open", "failed"}
           /\ \A u \in Tasks \ {t} : dial'[u] = dial[u] /\ tried'[u] = tried[u]
           /\ Good(t)'
  <1>1. /\ dial \in [Tasks -> Places] /\ tried \in [Tasks -> Records] /\ Good(t)
        /\ dial[t] \in Places
    BY InvParts
  <1>2. PICK asked \in SUBSET Addresses, left \in SUBSET Addresses,
             addr \in Addresses \cup {NoAddr}, way \in 1 .. LastWay :
            /\ dial[t].asked = asked /\ dial[t].left = left
            /\ dial[t].addr = addr /\ dial[t].way = way
    BY <1>1 DEF Places
  <1>3. way \in Nat /\ way \in 1 .. LastWay /\ WAYS[way] \in Ways
    BY WaysFacts
  <1> DEFINE attempt == <<addr, WAYS[way], why>>
  <1>4. /\ tried'[t] = tried[t] \cup {attempt}
        /\ \A u \in Tasks \ {t} : tried'[u] = tried[u]
        /\ tried' \in [Tasks -> Records]
    <2>1. attempt \in (Addresses \cup {NoAddr}) \X Ways \X Outcomes
      BY <1>2, <1>3 DEF Places, Outcomes
    <2>2. tried' = [tried EXCEPT ![t] = tried[t] \cup {attempt}]
      BY <1>2 DEF Fails, Way
    <2>3. QED BY <1>1, <2>1, <2>2 DEF Records
  <1>5. \A a : GivenUp(t, a) => GivenUp(t, a)'
    BY <1>4 DEF GivenUp
  <1>6. /\ addr \in asked /\ left \subseteq asked
        /\ addr \in V6 => left \cap V4 = {}
        /\ \A a \in asked \ (left \cup {addr}) : GivenUp(t, a)'
        /\ \A i \in 1 .. way - 1 : <<addr, WAYS[i], "acces">> \in tried'[t]
    BY <1>1, <1>2, <1>4, <1>5 DEF Good
  <1>7. \A e \in tried'[t] : e[1] \in V6 => \A a \in asked \cap V4 : GivenUp(t, a)'
    <2>1. ASSUME NEW e \in tried[t], e[1] \in V6, NEW a \in asked \cap V4
          PROVE  GivenUp(t, a)'
      BY <1>1, <1>2, <1>5, <2>1 DEF Good
    <2>2. ASSUME attempt[1] \in V6, NEW a \in asked \cap V4
          PROVE  GivenUp(t, a)'
      <3>1. addr \in V6
        BY <2>2
      <3>2. a \notin V6 /\ a \notin left
        BY <1>6, <3>1, DialAssumption
      <3>3. QED BY <1>6, <3>1, <3>2
    <2>3. QED BY <1>4, <2>1, <2>2
  <1>8. CASE why = "acces" /\ way < LastWay
    <2>1. dial' = [dial EXCEPT ![t].step = "open", ![t].way = @ + 1,
                               ![t].port = 1, ![t].acces = FALSE]
      BY <1>2, <1>8 DEF Fails, NextWay
    <2>2. /\ dial'[t] = [dial[t] EXCEPT !.step = "open", !.way = @ + 1,
                                        !.port = 1, !.acces = FALSE]
          /\ \A u \in Tasks \ {t} : dial'[u] = dial[u]
      BY <1>1, <2>1 DEF Places
    <2>3. PICK w \in 1 .. LastWay : w = way + 1 /\ w - 1 = way
      BY <1>3, <1>8, WaysFacts
    <2>4. /\ dial'[t] \in Places
          /\ dial'[t].step = "open" /\ dial'[t].way = w /\ dial'[t].addr = addr
          /\ dial'[t].asked = asked /\ dial'[t].left = left
      <3>1. /\ dial'[t] = [step |-> "open", asked |-> asked, left |-> left,
                           addr |-> addr, way |-> w, port |-> 1, acces |-> FALSE]
        BY <1>1, <1>2, <2>2, <2>3 DEF Places
      <3>2. dial'[t] \in Places
        BY <3>1, OpenPlace
      <3>3. /\ dial'[t].step = "open" /\ dial'[t].way = w /\ dial'[t].addr = addr
            /\ dial'[t].asked = asked /\ dial'[t].left = left
        BY <1>1, <1>2, <2>2, <2>3 DEF Places
      <3>4. QED BY <3>2, <3>3
    <2>5. dial' \in [Tasks -> Places]
      BY <1>1, <2>1, <2>2, <2>4
    <2>6. \A i \in 1 .. w - 1 : <<addr, WAYS[i], "acces">> \in tried'[t]
      <3>1. \A i \in 1 .. way : i = way \/ i \in 1 .. way - 1
        BY <1>3, Upto
      <3>2. ASSUME NEW i \in 1 .. way PROVE <<addr, WAYS[i], "acces">> \in tried'[t]
        <4>1. CASE i = way
          BY <1>4, <1>8, <4>1
        <4>2. CASE i \in 1 .. way - 1
          BY <1>6, <4>2
        <4>3. QED BY <3>1, <4>1, <4>2
      <3>3. QED BY <2>3, <3>2
    <2>7. Good(t)'
      <3>1. dial'[t].step \notin {"failed", "resolve", "bind"}
        BY <2>4
      <3>2. \A e \in tried'[t] : e[1] \in V6 => \A a \in dial'[t].asked \cap V4 : GivenUp(t, a)'
        BY <1>7, <2>4
      <3>3. /\ dial'[t].addr \in dial'[t].asked /\ dial'[t].left \subseteq dial'[t].asked
            /\ \A a \in dial'[t].asked \ (dial'[t].left \cup {dial'[t].addr}) : GivenUp(t, a)'
            /\ dial'[t].addr \in V6 => dial'[t].left \cap V4 = {}
        BY <1>6, <2>4
      <3>4. \A i \in 1 .. dial'[t].way - 1 : <<dial'[t].addr, WAYS[i], "acces">> \in tried'[t]
        BY <2>4, <2>6
      <3>5. QED BY <3>1, <3>2, <3>3, <3>4 DEF Good
    <2>8. QED BY <1>4, <2>2, <2>4, <2>5, <2>7
  <1>9. CASE ~(why = "acces" /\ way < LastWay)
    <2>1. NextAddr(t, asked, left)
      BY <1>2, <1>9 DEF Fails
    <2>2. GivenUp(t, addr)'
      <3>1. CASE why # "acces"
        <4>1. attempt \in tried'[t] /\ why \in {"error", "in use"}
          BY <1>4, <3>1
        <4>2. QED BY <1>3, <4>1 DEF GivenUp
      <3>2. CASE why = "acces"
        <4>1. way = LastWay
          BY <1>3, <1>9, <3>2, WaysFacts
        <4>2. \A i \in 1 .. way : <<addr, WAYS[i], "acces">> \in tried'[t]
          <5>1. \A i \in 1 .. way : i = way \/ i \in 1 .. way - 1
            BY <1>3, Upto
          <5>2. QED BY <1>4, <1>6, <3>2, <5>1
        <4>3. \A w \in Ways : <<addr, w, "acces">> \in tried'[t]
          BY <4>1, <4>2, WaysFacts
        <4>4. QED BY <4>3 DEF GivenUp
      <3>3. QED BY <3>1, <3>2
    <2>3. \A a \in asked \ left : GivenUp(t, a)'
      BY <1>6, <2>2
    <2>4. asked \in SUBSET Addresses /\ left \in SUBSET asked
      BY <1>2, <1>6 DEF Places
    <2>5. /\ dial' \in [Tasks -> Places]
          /\ dial'[t].step \in {"open", "failed"}
          /\ \A u \in Tasks \ {t} : dial'[u] = dial[u]
          /\ Good(t)'
      BY <1>1, <1>7, <2>1, <2>3, <2>4, AddrStep
    <2>6. QED BY <1>4, <2>5
  <1>10. QED BY <1>8, <1>9

-----------------------------------------------------------------------------
(* Sockets and ports *)

Bound(t, l) == /\ dial[t].step \in Holding \ {"bind"}
               /\ Way(t) = "pinned"
               /\ l = Local(t)

\* What the invariant says of one task's socket.
Held(t) ==
    /\ sockets[t] = IF dial[t].step \in Holding THEN 1 ELSE 0
    /\ \A l \in Locals : owner[l] = t <=> Bound(t, l)

LEMMA HeldParts == SocketsInv <=> \A t \in Tasks : Held(t)
  BY DEF SocketsInv, Held, Bound

\* What a step of t leaves alone of the others.
OthersKeep(t) ==
    \A u \in Tasks \ {t} :
        /\ dial'[u] = dial[u] /\ tried'[u] = tried[u]
        /\ sockets'[u] = sockets[u] /\ \A l \in Locals : owner'[l] = u <=> owner[l] = u

LEMMA HeldFrame ==
    ASSUME NEW u \in Tasks, Held(u), dial'[u] = dial[u], sockets'[u] = sockets[u],
           \A l \in Locals : owner'[l] = u <=> owner[l] = u
    PROVE  Held(u)'
  BY DEF Held, Bound, Way, Local

\* A step of t preserves the invariant if it does so for t and keeps the others.
LEMMA Preserved ==
    ASSUME Inv, NEW t \in Tasks, OthersKeep(t), Good(t)', Held(t)',
           dial' \in [Tasks -> Places], tried' \in [Tasks -> Records],
           owner' \in [Locals -> Tasks \cup {"free"}], sockets' \in [Tasks -> Nat]
    PROVE  Inv'
  <1>1. \A u \in Tasks \ {t} : Good(u)' /\ Held(u)'
    <2>1. \A u \in Tasks : Good(u) /\ Held(u)
      BY InvParts, HeldParts
    <2>2. SUFFICES ASSUME NEW u \in Tasks \ {t} PROVE Good(u)' /\ Held(u)'
      OBVIOUS
    <2>3. Good(u)'
      BY <2>1, Frame DEF OthersKeep
    <2>4. Held(u)'
      BY <2>1, HeldFrame DEF OthersKeep
    <2>5. QED BY <2>3, <2>4
  <1>2. \A u \in Tasks : Good(u)' /\ Held(u)'
    BY <1>1
  <1>3. TypeOK'
    BY DEF TypeOK, Places, Records
  <1>4. SocketsInv'
    BY <1>2 DEF SocketsInv, Held, Bound
  <1>5. FailsForCause' /\ V4First' /\ ProgressInv'
    BY <1>2 DEF FailsForCause, V4First, ProgressInv, Good
  <1>6. QED BY <1>3, <1>4, <1>5 DEF Inv

\* The socket is closed.
LEMMA DropStep ==
    ASSUME Inv, NEW t \in Tasks, Drop(t), dial[t].step \in Holding,
           dial'[t].step \notin Holding
    PROVE  /\ owner' \in [Locals -> Tasks \cup {"free"}] /\ sockets' \in [Tasks -> Nat]
           /\ Held(t)'
           /\ \A u \in Tasks \ {t} :
                sockets'[u] = sockets[u] /\ \A l \in Locals : owner'[l] = u <=> owner[l] = u
  <1>1. /\ owner \in [Locals -> Tasks \cup {"free"}] /\ sockets \in [Tasks -> Nat]
        /\ sockets[t] = 1
    BY InvParts, HeldParts DEF Inv, Held
  <1>2. /\ \A l \in Locals : owner'[l] = IF owner[l] = t THEN "free" ELSE owner[l]
        /\ owner' \in [Locals -> Tasks \cup {"free"}]
    BY <1>1 DEF Drop
  <1>3. sockets' \in [Tasks -> Nat] /\ sockets'[t] = 0
        /\ \A u \in Tasks \ {t} : sockets'[u] = sockets[u]
    BY <1>1 DEF Drop
  <1>4. \A l \in Locals : owner'[l] # t
    BY <1>2, DialAssumption
  <1>5. Held(t)'
    BY <1>3, <1>4 DEF Held, Bound
  <1>6. \A u \in Tasks \ {t} : \A l \in Locals : owner'[l] = u <=> owner[l] = u
    BY <1>2, DialAssumption
  <1>7. QED BY <1>2, <1>3, <1>5, <1>6

\* The socket is kept, or there is none before and after.
LEMMA KeepStep ==
    ASSUME Inv, NEW t \in Tasks, Keep,
           dial'[t].step \in Holding <=> dial[t].step \in Holding,
           \A l : Bound(t, l)' <=> Bound(t, l)
    PROVE  /\ owner' \in [Locals -> Tasks \cup {"free"}] /\ sockets' \in [Tasks -> Nat]
           /\ Held(t)'
           /\ \A u \in Tasks \ {t} :
                sockets'[u] = sockets[u] /\ \A l \in Locals : owner'[l] = u <=> owner[l] = u
  <1>1. /\ owner \in [Locals -> Tasks \cup {"free"}] /\ sockets \in [Tasks -> Nat]
        /\ Held(t) /\ owner' = owner /\ sockets' = sockets
    BY InvParts, HeldParts DEF Inv, Keep
  <1>2. QED BY <1>1 DEF Held

-----------------------------------------------------------------------------
(* The steps *)

LEMMA FailsDrops ==
    ASSUME Inv, NEW t \in Tasks, NEW why \in {"acces", "in use", "error"},
           dial[t].step \in Holding, Fails(t, why), Drop(t)
    PROVE  Inv'
  <1>1. /\ dial' \in [Tasks -> Places] /\ tried' \in [Tasks -> Records]
        /\ dial'[t].step \in {"open", "failed"}
        /\ \A u \in Tasks \ {t} : dial'[u] = dial[u] /\ tried'[u] = tried[u]
        /\ Good(t)'
    BY FailsStep DEF Trying
  <1>2. dial'[t].step \notin Holding
    BY <1>1 DEF Holding
  <1>3. /\ owner' \in [Locals -> Tasks \cup {"free"}] /\ sockets' \in [Tasks -> Nat]
        /\ Held(t)'
        /\ \A u \in Tasks \ {t} :
             sockets'[u] = sockets[u] /\ \A l \in Locals : owner'[l] = u <=> owner[l] = u
    BY <1>2, DropStep
  <1>4. OthersKeep(t)
    BY <1>1, <1>3 DEF OthersKeep
  <1>5. QED BY <1>1, <1>3, <1>4, Preserved

LEMMA FailsKeeps ==
    ASSUME Inv, NEW t \in Tasks, NEW why \in {"acces", "in use", "error"},
           dial[t].step = "open", Fails(t, why), Keep
    PROVE  Inv'
  <1>1. /\ dial' \in [Tasks -> Places] /\ tried' \in [Tasks -> Records]
        /\ dial'[t].step \in {"open", "failed"}
        /\ \A u \in Tasks \ {t} : dial'[u] = dial[u] /\ tried'[u] = tried[u]
        /\ Good(t)'
    BY FailsStep DEF Trying
  <1>2. dial'[t].step \notin Holding /\ dial[t].step \notin Holding
    BY <1>1 DEF Holding
  <1>3. \A l : Bound(t, l)' <=> Bound(t, l)
    BY <1>2 DEF Bound
  <1>4. QED BY <1>1, <1>2, <1>3, KeepStep, Preserved DEF OthersKeep

\* A step inside an attempt.
LEMMA Onward ==
    ASSUME Inv, NEW t \in Tasks, NEW step \in Trying, dial[t].step \in Trying,
           step = "bind" => Way(t) = "pinned",
           dial' = [dial EXCEPT ![t].step = step]
    PROVE  /\ dial' \in [Tasks -> Places]
           /\ \A u \in Tasks \ {t} : dial'[u] = dial[u]
           /\ dial'[t] = [dial[t] EXCEPT !.step = step]
           /\ dial'[t].step = step
           /\ dial'[t].asked = dial[t].asked /\ dial'[t].left = dial[t].left
           /\ dial'[t].addr = dial[t].addr /\ dial'[t].way = dial[t].way
           /\ dial'[t].port = dial[t].port
           /\ Way(t)' = Way(t) /\ Local(t)' = Local(t)
           /\ tried'[t] = tried[t] => Good(t)'
  <1>1. dial \in [Tasks -> Places] /\ dial[t] \in Places /\ Good(t)
    BY InvParts
  <1>2. /\ dial'[t] = [dial[t] EXCEPT !.step = step]
        /\ \A u \in Tasks \ {t} : dial'[u] = dial[u]
    BY <1>1
  <1>3. /\ dial'[t] \in Places /\ dial'[t].step = step
        /\ dial'[t].asked = dial[t].asked /\ dial'[t].left = dial[t].left
        /\ dial'[t].addr = dial[t].addr /\ dial'[t].way = dial[t].way
        /\ dial'[t].port = dial[t].port
    BY <1>1, <1>2 DEF Places
  <1>4. dial' \in [Tasks -> Places]
    BY <1>1, <1>2, <1>3
  <1>5. Way(t)' = Way(t) /\ Local(t)' = Local(t)
    BY <1>3 DEF Way, Local
  <1>6. ASSUME tried'[t] = tried[t] PROVE Good(t)'
    <2>1. \A a : GivenUp(t, a)' <=> GivenUp(t, a)
      BY <1>6 DEF GivenUp
    <2>2. step # "failed" /\ step # "resolve"
      BY DEF Trying, Holding
    <2>3. step = "bind" => Way(t)' = "pinned"
      BY <1>5
    <2>4. QED BY <1>1, <1>3, <1>6, <2>1, <2>2, <2>3 DEF Good
  <1>7. QED BY <1>2, <1>3, <1>4, <1>5, <1>6

LEMMA ConnectInv == ASSUME Inv, NEW t \in Tasks, Connect(t) PROVE Inv'
  <1>1. dial \in [Tasks -> Places] /\ tried \in [Tasks -> Records]
    BY InvParts
  <1>2. /\ dial'[t] = Place("resolve", {}, {}, NoAddr) /\ tried'[t] = {}
        /\ \A u \in Tasks \ {t} : dial'[u] = dial[u] /\ tried'[u] = tried[u]
        /\ tried' \in [Tasks -> Records]
    BY <1>1 DEF Connect, Records
  <1>3. Place("resolve", {}, {}, NoAddr) \in Places
    BY WaysFacts, PortsFacts DEF Places, Place
  <1>4. dial' \in [Tasks -> Places]
    BY <1>1, <1>3 DEF Connect
  <1>5. Good(t)'
    BY <1>2 DEF Good, Place, Trying, Holding
  <1>6. dial'[t].step \notin Holding /\ dial[t].step \notin Holding
    BY <1>2 DEF Connect, Place, Holding
  <1>7. \A l : Bound(t, l)' <=> Bound(t, l)
    BY <1>6 DEF Bound
  <1>8. Keep
    BY DEF Connect
  <1>9. QED BY <1>2, <1>4, <1>5, <1>6, <1>7, <1>8, KeepStep, Preserved DEF OthersKeep

LEMMA ResolveInv == ASSUME Inv, NEW t \in Tasks, Resolve(t) PROVE Inv'
  <1>1. /\ dial \in [Tasks -> Places] /\ tried \in [Tasks -> Records] /\ Good(t)
        /\ dial[t].step = "resolve" /\ tried' = tried /\ Keep
    BY InvParts DEF Resolve
  <1>2. PICK answer \in SUBSET Addresses : NextAddr(t, answer, answer)
    BY DialAssumption DEF Resolve
  <1>3. tried'[t] = {}
    BY <1>1 DEF Good
  <1>4. /\ dial' \in [Tasks -> Places] /\ dial'[t].step \in {"open", "failed"}
        /\ \A u \in Tasks \ {t} : dial'[u] = dial[u]
        /\ Good(t)'
    BY <1>1, <1>2, <1>3, AddrStep
  <1>5. dial'[t].step \notin Holding /\ dial[t].step \notin Holding
    BY <1>1, <1>4 DEF Holding
  <1>6. \A l : Bound(t, l)' <=> Bound(t, l)
    BY <1>5 DEF Bound
  <1>7. QED BY <1>1, <1>4, <1>5, <1>6, KeepStep, Preserved DEF OthersKeep

LEMMA OpenOkInv == ASSUME Inv, NEW t \in Tasks, OpenOk(t) PROVE Inv'
  <1>1. /\ dial[t].step = "open" /\ tried' = tried /\ owner' = owner
        /\ sockets \in [Tasks -> Nat] /\ sockets[t] = 0
        /\ \A l \in Locals : owner[l] # t
        /\ owner \in [Locals -> Tasks \cup {"free"}] /\ tried \in [Tasks -> Records]
    BY InvParts, HeldParts DEF Inv, OpenOk, Goto, Held, Bound, Holding
  <1> DEFINE step == IF Way(t) = "pinned" THEN "bind" ELSE "connect"
  <1>2. /\ dial' = [dial EXCEPT ![t].step = step]
        /\ step \in {"bind", "connect"} /\ (step = "bind" <=> Way(t) = "pinned")
    BY DEF OpenOk, Goto
  <1> HIDE DEF step
  <1>3. /\ dial' \in [Tasks -> Places] /\ dial'[t].step = step
        /\ \A u \in Tasks \ {t} : dial'[u] = dial[u]
        /\ Way(t)' = Way(t) /\ Good(t)'
    BY <1>1, <1>2, Onward DEF Trying, Holding
  <1>4. /\ sockets' \in [Tasks -> Nat] /\ sockets'[t] = 1
        /\ \A u \in Tasks \ {t} : sockets'[u] = sockets[u]
    BY <1>1 DEF OpenOk
  <1>5. Held(t)'
    BY <1>1, <1>2, <1>3, <1>4 DEF Held, Bound, Holding
  <1>6. QED BY <1>1, <1>3, <1>4, <1>5, Preserved DEF OthersKeep

LEMMA BindOkInv == ASSUME Inv, NEW t \in Tasks, BindOk(t) PROVE Inv'
  <1>1. /\ dial[t].step = "bind" /\ tried' = tried /\ sockets' = sockets
        /\ dial' = [dial EXCEPT ![t].step = "connect"]
        /\ sockets \in [Tasks -> Nat] /\ sockets[t] = 1
        /\ \A l \in Locals : owner[l] # t
        /\ owner \in [Locals -> Tasks \cup {"free"}] /\ tried \in [Tasks -> Records]
    BY InvParts, HeldParts DEF Inv, BindOk, Goto, Held, Bound, Holding
  <1>2. /\ dial' \in [Tasks -> Places] /\ dial'[t].step = "connect"
        /\ \A u \in Tasks \ {t} : dial'[u] = dial[u]
        /\ Way(t)' = Way(t) /\ Local(t)' = Local(t) /\ Good(t)'
    <2>1. "connect" \in Trying /\ dial[t].step \in Trying /\ "connect" # "bind"
      BY <1>1 DEF Trying, Holding
    <2>2. tried'[t] = tried[t]
      BY <1>1
    <2>3. dial' = [dial EXCEPT ![t].step = "connect"]
      BY <1>1
    <2>4. QED BY <2>1, <2>2, <2>3, Onward
  <1>3. Local(t) \in Locals
    BY InvParts, PortsFacts DEF Places, Local, Locals
  <1>4. /\ owner' = [owner EXCEPT ![Local(t)] = t] /\ owner[Local(t)] = "free"
    BY DEF BindOk
  <1>5. /\ owner' \in [Locals -> Tasks \cup {"free"}]
        /\ \A l \in Locals : owner'[l] = t <=> l = Local(t)
        /\ \A u \in Tasks \ {t} : \A l \in Locals : owner'[l] = u <=> owner[l] = u
    BY <1>1, <1>3, <1>4, DialAssumption
  <1>6. Way(t) = "pinned"
    BY <1>1, InvParts DEF Good
  <1>7. Held(t)'
    BY <1>1, <1>2, <1>5, <1>6 DEF Held, Bound, Holding
  <1>8. QED BY <1>1, <1>2, <1>5, <1>7, Preserved DEF OthersKeep

LEMMA FailuresInv ==
    ASSUME Inv, NEW t \in Tasks,
           OpenFails(t) \/ BindFails(t) \/ ConnectFails(t) \/ NonblockFails(t)
    PROVE  Inv'
  <1>1. CASE OpenFails(t)
    BY <1>1, FailsKeeps DEF OpenFails
  <1>2. CASE BindFails(t)
    BY <1>2, FailsDrops DEF BindFails, Holding
  <1>3. CASE ConnectFails(t)
    BY <1>3, FailsDrops DEF ConnectFails, Holding
  <1>4. CASE NonblockFails(t)
    BY <1>4, FailsDrops DEF NonblockFails, Holding
  <1>5. QED BY <1>1, <1>2, <1>3, <1>4

LEMMA PortTakenInv == ASSUME Inv, NEW t \in Tasks, PortTaken(t) PROVE Inv'
  <1>1. /\ dial \in [Tasks -> Places] /\ tried \in [Tasks -> Records] /\ Good(t)
        /\ dial[t] \in Places /\ dial[t].step = "bind" /\ Drop(t)
        /\ dial[t].step \in Holding
    BY InvParts DEF PortTaken, Holding
  <1>2. PICK acces \in BOOLEAN :
            IF dial[t].port < LastPort
              THEN /\ dial' = [dial EXCEPT ![t].step = "open", ![t].port = @ + 1,
                                           ![t].acces = acces]
                   /\ UNCHANGED tried
              ELSE Fails(t, IF acces THEN "acces" ELSE "in use")
    BY <1>1 DEF PortTaken, Places
  <1>3. CASE dial[t].port < LastPort
    <2>1. PICK asked \in SUBSET Addresses, left \in SUBSET Addresses,
               addr \in Addresses \cup {NoAddr}, way \in 1 .. LastWay,
               port \in 1 .. LastPort :
              /\ dial[t].asked = asked /\ dial[t].left = left
              /\ dial[t].addr = addr /\ dial[t].way = way /\ dial[t].port = port
      BY <1>1 DEF Places
    <2>2. /\ dial'[t] = [step |-> "open", asked |-> asked, left |-> left,
                         addr |-> addr, way |-> way, port |-> port + 1, acces |-> acces]
          /\ \A u \in Tasks \ {t} : dial'[u] = dial[u]
      BY <1>1, <1>2, <1>3, <2>1 DEF Places
    <2>3. port + 1 \in 1 .. LastPort
      BY <1>3, <2>1, PortsFacts
    <2>4. dial'[t] \in Places
      BY <2>2, <2>3 DEF Places, Trying
    <2>5. dial' \in [Tasks -> Places]
      BY <1>1, <1>2, <1>3, <2>2, <2>4
    <2>6. /\ dial'[t].step = "open" /\ dial'[t].asked = asked /\ dial'[t].left = left
          /\ dial'[t].addr = addr /\ dial'[t].way = way
      BY <2>2
    <2>7. tried' = tried
      BY <1>2, <1>3
    <2>8. Good(t)'
      <3>1. \A a : GivenUp(t, a)' <=> GivenUp(t, a)
        BY <2>7 DEF GivenUp
      <3>2. dial[t].step \in Trying /\ dial'[t].step \notin {"failed", "resolve", "bind"}
        BY <1>1, <2>6 DEF Trying
      <3>3. QED BY <1>1, <2>1, <2>6, <2>7, <3>1, <3>2 DEF Good
    <2>9. dial'[t].step \notin Holding
      BY <2>6 DEF Holding
    <2>10. QED BY <1>1, <2>2, <2>5, <2>7, <2>8, <2>9, DropStep, Preserved DEF OthersKeep
  <1>4. CASE ~(dial[t].port < LastPort)
    BY <1>1, <1>2, <1>4, FailsDrops
  <1>5. QED BY <1>3, <1>4

\* The next call of an attempt succeeds: its socket and port stay.
LEMMA GoesOn ==
    ASSUME Inv, NEW t \in Tasks, NEW step \in Holding \ {"bind"},
           dial[t].step \in Holding \ {"bind"},
           dial' = [dial EXCEPT ![t].step = step], Keep,
           tried' \in [Tasks -> Records],
           \A u \in Tasks \ {t} : tried'[u] = tried[u],
           Good(t)'
    PROVE  Inv'
  <1>1. /\ dial' \in [Tasks -> Places] /\ dial'[t].step = step
        /\ \A u \in Tasks \ {t} : dial'[u] = dial[u]
        /\ Way(t)' = Way(t) /\ Local(t)' = Local(t)
    BY Onward DEF Trying
  <1>2. \A l : Bound(t, l)' <=> Bound(t, l)
    BY <1>1 DEF Bound
  <1>3. dial'[t].step \in Holding /\ dial[t].step \in Holding
    BY <1>1
  <1>4. QED BY <1>1, <1>2, <1>3, KeepStep, Preserved DEF OthersKeep

LEMMA SuccessInv ==
    ASSUME Inv, NEW t \in Tasks, ConnectOk(t) \/ WrapOk(t)
    PROVE  Inv'
  <1>1. tried \in [Tasks -> Records]
    BY InvParts
  <1>2. PICK step \in {"nonblock", "connected"} :
            /\ dial' = [dial EXCEPT ![t].step = step] /\ tried' = tried /\ Keep
            /\ dial[t].step \in {"connect", "wrap"}
    BY DEF ConnectOk, WrapOk, Goto
  <1>3. /\ step \in Holding \ {"bind"} /\ dial[t].step \in Holding \ {"bind"}
        /\ step \in Trying /\ dial[t].step \in Trying /\ step # "bind"
    BY <1>2 DEF Holding, Trying
  <1>4. Good(t)'
    BY <1>2, <1>3, Onward
  <1>5. QED BY <1>1, <1>2, <1>3, <1>4, GoesOn

LEMMA NonblockOkInv == ASSUME Inv, NEW t \in Tasks, NonblockOk(t) PROVE Inv'
  <1> DEFINE attempt == <<dial[t].addr, Way(t), "ok">>
  <1>1. /\ dial \in [Tasks -> Places] /\ tried \in [Tasks -> Records] /\ Good(t)
        /\ dial[t] \in Places /\ dial[t].step = "nonblock" /\ Keep
        /\ dial' = [dial EXCEPT ![t].step = "wrap"]
    BY InvParts DEF NonblockOk
  <1>2. /\ "wrap" \in Holding \ {"bind"} /\ dial[t].step \in Holding \ {"bind"}
        /\ "wrap" \in Trying /\ dial[t].step \in Trying /\ "wrap" # "bind"
    BY <1>1 DEF Holding, Trying
  <1>3. /\ dial'[t].step = "wrap" /\ dial'[t].asked = dial[t].asked
        /\ dial'[t].left = dial[t].left /\ dial'[t].addr = dial[t].addr
        /\ dial'[t].way = dial[t].way
    BY <1>1, <1>2, Onward
  <1>4. /\ tried'[t] = tried[t] \cup {attempt}
        /\ \A u \in Tasks \ {t} : tried'[u] = tried[u]
        /\ tried' \in [Tasks -> Records]
    <2>1. Way(t) \in Ways
      BY <1>1, WaysFacts DEF Way, Places
    <2>2. attempt \in (Addresses \cup {NoAddr}) \X Ways \X Outcomes
      BY <1>1, <2>1 DEF Places, Outcomes
    <2>3. tried' = [tried EXCEPT ![t] = tried[t] \cup {attempt}]
      BY DEF NonblockOk
    <2>4. QED BY <1>1, <2>2, <2>3 DEF Records
  <1>5. \A a : GivenUp(t, a) => GivenUp(t, a)'
    BY <1>4 DEF GivenUp
  <1>6. \A e \in tried'[t] :
            e[1] \in V6 => \A a \in dial'[t].asked \cap V4 : GivenUp(t, a)'
    <2>1. ASSUME NEW e \in tried[t], e[1] \in V6, NEW a \in dial[t].asked \cap V4
          PROVE  GivenUp(t, a)'
      BY <1>1, <1>5, <2>1 DEF Good
    <2>2. ASSUME attempt[1] \in V6, NEW a \in dial[t].asked \cap V4
          PROVE  GivenUp(t, a)'
      <3>1. dial[t].addr \in V6 /\ a \notin dial[t].left \cup {dial[t].addr}
        BY <1>1, <1>2, <2>2, DialAssumption DEF Good
      <3>2. QED BY <1>1, <1>2, <1>5, <3>1 DEF Good
    <2>3. QED BY <1>3, <1>4, <2>1, <2>2
  <1>7. dial'[t].step \notin {"failed", "resolve", "bind"}
    BY <1>3
  <1>8. /\ dial'[t].addr \in dial'[t].asked /\ dial'[t].left \subseteq dial'[t].asked
        /\ \A a \in dial'[t].asked \ (dial'[t].left \cup {dial'[t].addr}) : GivenUp(t, a)'
        /\ dial'[t].addr \in V6 => dial'[t].left \cap V4 = {}
        /\ \A i \in 1 .. dial'[t].way - 1 : <<dial'[t].addr, WAYS[i], "acces">> \in tried'[t]
    BY <1>1, <1>2, <1>3, <1>4, <1>5 DEF Good
  <1>9. Good(t)'
    BY <1>6, <1>7, <1>8 DEF Good
  <1>10. QED BY <1>1, <1>2, <1>4, <1>9, GoesOn

LEMMA CloseInv == ASSUME Inv, NEW t \in Tasks, Close(t) PROVE Inv'
  <1>1. /\ dial \in [Tasks -> Places] /\ tried \in [Tasks -> Records] /\ Good(t)
        /\ Drop(t) /\ tried' = tried /\ dial[t].step \in Holding
    BY InvParts DEF Close, Holding
  <1>2. /\ dial'[t] = Idle /\ \A u \in Tasks \ {t} : dial'[u] = dial[u]
    BY <1>1 DEF Close
  <1>3. Idle \in Places /\ Idle.step = "idle" /\ Idle.asked = {}
    BY WaysFacts, PortsFacts DEF Places, Place, Idle
  <1>4. dial' \in [Tasks -> Places]
    BY <1>1, <1>3 DEF Close
  <1>5. Good(t)' /\ dial'[t].step \notin Holding
    BY <1>2, <1>3 DEF Good, Trying, Holding
  <1>6. QED BY <1>1, <1>2, <1>4, <1>5, DropStep, Preserved DEF OthersKeep

LEMMA StutterInv == ASSUME Inv, UNCHANGED vars PROVE Inv'
  <1>1. dial' = dial /\ owner' = owner /\ sockets' = sockets /\ tried' = tried
    BY DEF vars
  <1>2. TypeOK'
    BY <1>1 DEF Inv, TypeOK
  <1>3. SocketsInv'
    BY <1>1 DEF Inv, SocketsInv, Way, Local
  <1>4. FailsForCause' /\ V4First'
    BY <1>1 DEF Inv, FailsForCause, V4First, GivenUp
  <1>5. ProgressInv'
    BY <1>1 DEF Inv, ProgressInv, GivenUp, Way
  <1>6. QED BY <1>2, <1>3, <1>4, <1>5 DEF Inv

LEMMA NextInv == ASSUME Inv, [Next]_vars PROVE Inv'
  <1>1. CASE UNCHANGED vars
    BY <1>1, StutterInv
  <1>2. ASSUME NEW t \in Tasks, connect(t) PROVE Inv'
    BY <1>2, ConnectInv, ResolveInv, OpenOkInv, BindOkInv, PortTakenInv, FailuresInv,
       SuccessInv, NonblockOkInv, CloseInv DEF connect
  <1>3. QED BY <1>1, <1>2 DEF Next

-----------------------------------------------------------------------------
\* connect and its blocking attempts keep the inductive invariant, whatever call
\* of the operating system fails.
THEOREM DialInvariance == Spec => []Inv
  <1>1. Init => Inv
    BY InitInv
  <1>2. Inv /\ [Next]_vars => Inv'
    BY NextInv
  <1>3. QED BY <1>1, <1>2, PTL DEF Spec

\* No call that fails leaves a socket open or a fixed port taken.
THEOREM NoSocketLeaks == Spec => []SocketsInv
  <1>1. Inv => SocketsInv
    BY DEF Inv
  <1>2. QED BY <1>1, DialInvariance, PTL

\* connect fails only after it has given up, for a cause, every address of the name.
THEOREM GivenUpForCause == Spec => []FailsForCause
  <1>1. Inv => FailsForCause
    BY DEF Inv
  <1>2. QED BY <1>1, DialInvariance, PTL

\* prefer_ipv4: an IPv6 address is tried only after each IPv4 one was given up.
THEOREM IPv4First == Spec => []V4First
  <1>1. Inv => V4First
    BY DEF Inv
  <1>2. QED BY <1>1, DialInvariance, PTL
=============================================================================
