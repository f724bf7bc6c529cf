---------------------------- MODULE LookupProofs ----------------------------
(***************************************************************************)
(* The order of the sources and the role of the configuration, for every   *)
(* set of hosts, rules, settings and texts.                                *)
(***************************************************************************)
EXTENDS Lookup, SequenceTheorems, FiniteSetTheorems, WellFoundedInduction, TLAPS

-----------------------------------------------------------------------------
(* Induction over the numbers, by a least counterexample *)

Less == {p \in Nat \X Nat : p[1] < p[2]}

\* The library's fact about <, for the relation as a set.
LEMMA LessIsWellFounded == IsWellFoundedOn(Less, Nat)
  BY NatLessThanWellFounded DEF OpToRel, Less

\* A set of numbers has a least one.
LEMMA MinIn ==
    ASSUME NEW S \in SUBSET Nat, S # {}
    PROVE  Min(S) \in S /\ \A n \in S : Min(S) <= n
<1>1. PICK m \in S : \A n \in S : <<n, m>> \notin Less
  BY LessIsWellFounded, WFMin
<1>2. ASSUME NEW n \in S PROVE m <= n
  <2>1. <<n, m>> \in Nat \X Nat
    OBVIOUS
  <2>2. ~ (n < m)
    BY <1>1, <2>1 DEF Less
  <2> QED
    BY <2>2
<1>3. QED
  BY <1>1, <1>2 DEF Min

\* A set with 0 and with the successor of each of its numbers has them all.
LEMMA Induction ==
    ASSUME NEW S, 0 \in S, \A n \in Nat : n \in S => n + 1 \in S
    PROVE  Nat \subseteq S
<1> DEFINE Missing == Nat \ S
<1>1. CASE Missing = {}
  BY <1>1
<1>2. CASE Missing # {}
  <2>1. Min(Missing) \in Missing /\ \A n \in Missing : Min(Missing) <= n
    BY <1>2, MinIn
  <2>2. PICK m \in Missing : \A n \in Missing : m <= n
    BY <2>1
  <2>3. m - 1 \in Nat /\ m - 1 \in S
    BY <2>2
  <2>4. QED
    BY <2>2, <2>3
<1>3. QED
  BY <1>1, <1>2

\* The first n values of a recursion: where it begins, and a step for each number.
Begins(h, T, base, step, n) ==
    /\ h \in [0 .. n -> T]
    /\ h[0] = base
    /\ \A i \in Nat : i < n => h[i + 1] = step[i + 1][h[i]]

\* A function that follows the recursion over all numbers, or along a sequence.
Follows(f, T, base, step) ==
    /\ f \in [Nat -> T]
    /\ f[0] = base
    /\ \A n \in Nat : f[n + 1] = step[n + 1][f[n]]

FollowsTo(f, N, T, base, step) ==
    /\ f \in [1 .. N -> T]
    /\ \A i \in 1 .. N : f[i] = IF i = 1 THEN base ELSE step[i][f[i - 1]]

\* There is a function for every recursion over the numbers.
LEMMA Recursion ==
    ASSUME NEW T, NEW base \in T, NEW step \in [Nat -> [T -> T]]
    PROVE  \E f : Follows(f, T, base, step)
<1> DEFINE B(h, n) == Begins(h, T, base, step, n)
           Some    == {n \in Nat : \E h : B(h, n)}
           Alike   == {i \in Nat : \A n, m \in Nat : \A h, k :
                           i <= n /\ i <= m /\ B(h, n) /\ B(k, m) => h[i] = k[i]}
<1>1. Nat \subseteq Some
  <2>1. 0 \in Some
    <3>1. B([i \in 0 .. 0 |-> base], 0)
      BY DEF Begins
    <3>2. QED
      BY <3>1
  <2>2. ASSUME NEW n \in Nat, n \in Some PROVE n + 1 \in Some
    <3>1. PICK h : B(h, n)
      BY <2>2
    <3> DEFINE k == [i \in 0 .. n + 1 |-> IF i = n + 1 THEN step[n + 1][h[n]] ELSE h[i]]
    <3>2. h \in [0 .. n -> T] /\ h[0] = base /\ \A i \in Nat : i < n => h[i + 1] = step[i + 1][h[i]]
      BY <3>1 DEF Begins
    <3>3. step[n + 1][h[n]] \in T
      BY <3>2
    <3>4. k \in [0 .. n + 1 -> T] /\ k[0] = base
      BY <3>2, <3>3
    <3>5. ASSUME NEW i \in Nat, i < n + 1 PROVE k[i + 1] = step[i + 1][k[i]]
      <4>1. k[i] = h[i] /\ i + 1 \in 0 .. n + 1
        BY <3>5
      <4>2. CASE i = n
        BY <4>1, <4>2
      <4>3. CASE i < n
        BY <4>1, <4>3, <3>2
      <4>4. QED
        BY <4>2, <4>3, <3>5
    <3>6. B(k, n + 1)
      <4> HIDE DEF k
      <4> QED
        BY <3>4, <3>5 DEF Begins
    <3> HIDE DEF k
    <3>7. QED
      BY <3>6
  <2> HIDE DEF Some
  <2>3. QED
    BY <2>1, <2>2, Induction
<1>2. Nat \subseteq Alike
  <2>1. 0 \in Alike
    BY DEF Begins
  <2>2. ASSUME NEW i \in Nat, i \in Alike PROVE i + 1 \in Alike
    <3>1. ASSUME NEW n \in Nat, NEW m \in Nat, NEW h, NEW k,
                 i + 1 <= n, i + 1 <= m, B(h, n), B(k, m)
          PROVE  h[i + 1] = k[i + 1]
      <4>1. h[i] = k[i]
        BY <2>2, <3>1
      <4>2. h[i + 1] = step[i + 1][h[i]] /\ k[i + 1] = step[i + 1][k[i]]
        BY <3>1 DEF Begins
      <4>3. QED
        BY <4>1, <4>2
    <3>2. QED
      BY <3>1
  <2> HIDE DEF Alike
  <2>3. QED
    BY <2>1, <2>2, Induction
<1> DEFINE H(n) == CHOOSE h : B(h, n)
           f    == [n \in Nat |-> H(n)[n]]
<1>3. \A n \in Nat : B(H(n), n)
  BY <1>1
<1> HIDE DEF H
<1>4. \A n \in Nat : H(n)[n] \in T
  BY <1>3 DEF Begins
<1>5. f \in [Nat -> T] /\ f[0] = base
  BY <1>3, <1>4 DEF Begins
<1>6. ASSUME NEW n \in Nat PROVE f[n + 1] = step[n + 1][f[n]]
  <2>1. H(n + 1)[n + 1] = step[n + 1][H(n + 1)[n]]
    BY <1>3 DEF Begins
  <2>2. H(n + 1)[n] = H(n)[n]
    <3>1. n \in Alike
      BY <1>2
    <3>2. n <= n + 1 /\ B(H(n + 1), n + 1) /\ B(H(n), n)
      BY <1>3
    <3>3. QED
      BY <3>1, <3>2
  <2>3. QED
    BY <2>1, <2>2
<1> HIDE DEF f
<1>7. QED
  BY <1>5, <1>6 DEF Follows

\* The same for a recursion along a sequence, from its first place to its last.
LEMMA RecursionTo ==
    ASSUME NEW N \in Nat, NEW T, NEW base \in T, NEW step \in [2 .. N -> [T -> T]]
    PROVE  \E f : FollowsTo(f, N, T, base, step)
<1> DEFINE stepN == [k \in Nat |-> IF k + 1 \in 2 .. N THEN step[k + 1] ELSE [x \in T |-> x]]
<1>1. stepN \in [Nat -> [T -> T]]
  OBVIOUS
<1>2. PICK g \in [Nat -> T] : g[0] = base /\ \A n \in Nat : g[n + 1] = stepN[n + 1][g[n]]
  <2> HIDE DEF stepN
  <2>1. PICK g : Follows(g, T, base, stepN)
    BY <1>1, Recursion
  <2>2. QED
    BY <2>1 DEF Follows
<1> DEFINE f == [i \in 1 .. N |-> g[i - 1]]
<1>3. f \in [1 .. N -> T]
  OBVIOUS
<1>4. ASSUME NEW i \in 1 .. N PROVE f[i] = IF i = 1 THEN base ELSE step[i][f[i - 1]]
  <2>1. CASE i = 1
    BY <1>2, <2>1
  <2>2. CASE i # 1
    <3>1. i - 2 \in Nat /\ i - 1 \in Nat /\ (i - 2) + 1 = i - 1 /\ i \in 2 .. N /\ (i - 1) + 1 = i
      BY <2>2
    <3>2. g[i - 1] = stepN[i - 1][g[i - 2]]
      BY <1>2, <3>1
    <3>3. stepN[i - 1] = step[i]
      BY <3>1
    <3>4. f[i] = g[i - 1] /\ f[i - 1] = g[i - 2]
      BY <3>1
    <3>5. QED
      BY <2>2, <3>2, <3>3, <3>4
  <2>3. QED
    BY <2>1, <2>2
<1> HIDE DEF f
<1>5. QED
  BY <1>3, <1>4 DEF FollowsTo

-----------------------------------------------------------------------------
(* Answers and the order of the sources *)

\* An error is no list.
LEMMA ErrorIsNoList == Error \notin Seq(Hop) /\ Error # <<>> /\ \A hop \in Hop : <<hop>> # Error
<1>1. <<>> \in Seq(Hop) /\ \A hop \in Hop : <<hop>> \in Seq(Hop)
  OBVIOUS
<1>2. QED
  BY <1>1, HopAssumption

\* hop.rs never returns an empty list.
LEMMA NeverEmpty == ASSUME NEW text PROVE parse_ie_proxy_list(text) # <<>>
<1>1. ASSUME NEW lists PROVE Collect(lists) # <<>>
  BY ErrorIsNoList DEF Collect
<1>2. QED
  BY <1>1 DEF parse_ie_proxy_list, parse_pac_result

\* Error, None and the hops are told apart.
LEMMA Distinct ==
    /\ None \notin Hosts \cup Settings
    /\ Error # <<>> /\ Error # <<Direct>>
    /\ \A c \in Configs : c.upstream # None => <<c.upstream>> # Error /\ c.upstream \in Addr
  BY LookupAssumption, ErrorIsNoList DEF Hop

\* The invariant holds at the start, before any call.
LEMMA InitInv == Init => Inv /\ ConfigSuffices
  BY Distinct DEF Init, Inv, TypeOK, CallInv, InOrder, ConfigSuffices, NoCall

\* A call of proxy_for_url begins in the role that its sources are for.
LEMMA BeginInv ==
    ASSUME Inv, ConfigSuffices, pc \in {"rules", "list"},
           NEW sources \in SUBSET {"script", "wpad"}, NEW role \in {"only", "first", "last"},
           Begin(sources, role),
           ie' \in Settings \cup {None},
           ie' # None => cfg.mode = "system",
           role = "only" => sources = {"script"} /\ cfg.mode = "pac" /\ ie' = None,
           role = "first" =>
               /\ ie' # None
               /\ ie'.script => "script" \in sources
               /\ ~ie'.script => ie'.detect /\ sources = {"wpad"},
           role = "last" =>
               /\ sources = {"wpad"} /\ cfg.mode = "system"
               /\ ie' # None => ie'.list = <<>>
                    /\ (ie'.script => "script" \in failed)
                    /\ (~ie'.script /\ ie'.detect => "wpad" \in failed)
    PROVE  Inv' /\ ConfigSuffices'
<1> USE DEF Begin, history
<1>1. TypeOK'
  BY DEF Inv, TypeOK
<1>2. CallInv'
  BY DEF Inv, CallInv, Tried
<1>3. InOrder' /\ ConfigSuffices' /\ (pc = "done" => answer # <<>>)'
  BY DEF InOrder, ConfigSuffices
<1>4. QED
  BY <1>1, <1>2, <1>3 DEF Inv

\* A call that gets nothing leaves the list, or an error with a reason.
LEMMA FailsInv ==
    ASSUME Inv, ConfigSuffices, pc \in {"open", "ask"},
           NEW sources \in SUBSET {"script", "wpad"}, call.of \subseteq sources,
           NEW text, NEW why \in {"winhttp", "text"},
           Fails(sources, text, why)
    PROVE  Inv' /\ ConfigSuffices'
<1> USE Distinct DEF Fails, Return, NoCall
<1>1. TypeOK'
  BY DEF Inv, TypeOK
<1>2. CallInv'
  BY DEF Inv, TypeOK, CallInv, Tried
<1>3. InOrder'
  BY DEF Inv, TypeOK, CallInv, Tried, InOrder
<1>4. ConfigSuffices' /\ (pc = "done" => answer # <<>>)'
  BY DEF ConfigSuffices
<1>5. QED
  BY <1>1, <1>2, <1>3, <1>4 DEF Inv

\* Every step keeps it.
LEMMA NextInv == Inv /\ ConfigSuffices /\ [Next]_vars => Inv' /\ ConfigSuffices'
<1> SUFFICES ASSUME Inv, ConfigSuffices, [Next]_vars PROVE Inv' /\ ConfigSuffices'
  OBVIOUS
<1> USE Distinct DEF Inv, TypeOK, CallInv, InOrder, Tried, ConfigSuffices, NoCall, history
<1>1. CASE Call
  BY <1>1 DEF Call
<1>2. CASE Bypass
  BY <1>2 DEF Bypass, Return
<1>3. CASE Upstream
  <2>1. HasUpstream(cfg)
    BY <1>3 DEF Upstream, validate
  <2>2. <<cfg.upstream>> # Error /\ <<cfg.upstream>> # <<>>
    BY <2>1 DEF HasUpstream
  <2> DEFINE text == <<[word |-> "PROXY", addr |-> cfg.upstream]>>
  <2>3. /\ pc = "rules" /\ cfg.mode = "proxy" /\ UNCHANGED <<cfg, ie, by, failed>>
        /\ Return(<<cfg.upstream>>, text, "config")
    BY <1>3, <2>1 DEF Upstream
  <2> HIDE DEF text
  <2>4. QED
    BY <2>2, <2>3 DEF Return
<1>4. CASE Script
  <2>1. Begin({"script"}, "only") /\ UNCHANGED ie /\ pc = "rules" /\ cfg.mode = "pac"
    BY <1>4 DEF Script, validate
  <2> HIDE DEF Inv, TypeOK, CallInv, InOrder, ConfigSuffices
  <2>2. ie = None
    BY <2>1 DEF Inv, CallInv
  <2>3. QED
    BY <2>1, <2>2, BeginInv
<1>5. CASE StaticList
  <2>1. CASE ie.list # <<>>
    <3> DEFINE hops == parse_ie_proxy_list(ie.list)
    <3>1. /\ pc = "list" /\ Return(hops, ie.list, "text") /\ by' = {"list"}
          /\ UNCHANGED <<cfg, failed, ie>> /\ hops # <<>>
      BY <1>5, <2>1, NeverEmpty DEF StaticList
    <3> HIDE DEF hops, Inv, TypeOK, CallInv, InOrder, ConfigSuffices
    <3>2. TypeOK'
      BY <3>1 DEF Inv, TypeOK, Return
    <3>3. CallInv'
      BY <3>1 DEF Inv, CallInv, Return
    <3>4. InOrder'
      BY <3>1 DEF Inv, CallInv, InOrder, Return
    <3>5. ConfigSuffices' /\ (pc = "done" => answer # <<>>)'
      BY <3>1 DEF ConfigSuffices, Return
    <3>6. QED
      BY <3>2, <3>3, <3>4, <3>5 DEF Inv
  <2>2. CASE ie.list = <<>>
    <3>1. Begin({"wpad"}, "last") /\ UNCHANGED ie /\ pc = "list"
      BY <1>5, <2>2 DEF StaticList
    <3> HIDE DEF Inv, TypeOK, CallInv, InOrder, ConfigSuffices
    <3>2. ie \in Settings /\ cfg.mode = "system" /\ Tried(ie)
      BY <3>1 DEF Inv, TypeOK, CallInv
    <3>3. QED
      BY <3>1, <3>2, <2>2, BeginInv DEF Tried
  <2>3. QED
    BY <2>1, <2>2
<1>6. ASSUME NEW s \in Settings \cup {None}, ReadSettings(s) PROVE Inv' /\ ConfigSuffices'
  <2> HIDE DEF Inv, TypeOK, CallInv, InOrder, ConfigSuffices
  <2>1. pc = "rules" /\ cfg.mode = "system" /\ ie' = s /\ ie = None
    BY <1>6 DEF ReadSettings, Inv, CallInv
  <2>2. CASE s = None
    <3>1. Begin({"wpad"}, "last")
      BY <1>6, <2>2 DEF ReadSettings
    <3>2. QED
      BY <2>1, <2>2, <3>1, BeginInv
  <2>3. CASE s # None /\ s.script
    <3>1. PICK sources \in SUBSET {"script", "wpad"} :
             "script" \in sources /\ Begin(sources, "first")
      BY <1>6, <2>3 DEF ReadSettings
    <3>2. QED
      BY <2>1, <2>3, <3>1, BeginInv
  <2>4. CASE s # None /\ ~s.script /\ s.detect
    <3>1. Begin({"wpad"}, "first")
      BY <1>6, <2>4 DEF ReadSettings
    <3>2. QED
      BY <2>1, <2>4, <3>1, BeginInv
  <2>5. CASE s # None /\ ~s.script /\ ~s.detect
    <3>1. pc' = "list" /\ host' = None /\ UNCHANGED <<cfg, call, answer, history>>
      BY <1>6, <2>5 DEF ReadSettings
    <3>2. QED
      BY <2>1, <2>5, <3>1 DEF Inv, TypeOK, CallInv, InOrder, ConfigSuffices
  <2>6. QED
    BY <2>2, <2>3, <2>4, <2>5
<1>7. CASE Open
  BY <1>7 DEF Open
<1>8. CASE OpenFails
  <2>1. pc = "open" /\ call.of \in SUBSET {"script", "wpad"} /\ Fails(call.of, None, "winhttp")
    BY <1>8 DEF OpenFails
  <2>2. QED
    BY <2>1, FailsInv
<1>9. CASE FindsNothing
  BY <1>9 DEF FindsNothing, Fails, Return
<1>10. CASE GivesNothing
  <2>1. pc = "ask" /\ call.of \in SUBSET {"script", "wpad"} /\ Fails(call.of, None, "winhttp")
    BY <1>10 DEF GivesNothing
  <2>2. QED
    BY <2>1, FailsInv
<1>11. ASSUME NEW text \in Texts, Gives(text) PROVE Inv' /\ ConfigSuffices'
  <2> DEFINE hops == parse_ie_proxy_list(text)
  <2>1. pc = "ask" /\ call.of \in SUBSET {"script", "wpad"} /\ hops # <<>>
    BY <1>11, NeverEmpty DEF Gives
  <2>2. CASE hops = Error
    <3>1. Fails(call.of, text, "text")
      BY <1>11, <2>2 DEF Gives
    <3>2. QED
      BY <2>1, <3>1, FailsInv
  <2>3. CASE hops # Error
    <3>1. Return(hops, text, "none") /\ by' = call.of /\ UNCHANGED <<cfg, ie, failed>>
      BY <1>11, <2>3 DEF Gives
    <3> HIDE DEF hops, Inv, TypeOK, CallInv, InOrder, ConfigSuffices
    <3>2. TypeOK'
      BY <2>1, <3>1 DEF Inv, TypeOK, Return
    <3>3. CallInv'
      BY <2>1, <3>1 DEF Inv, TypeOK, CallInv, Return
    <3>4. InOrder'
      BY <2>1, <2>3, <3>1 DEF Inv, TypeOK, CallInv, InOrder, Tried, Return
    <3>5. ConfigSuffices' /\ (pc = "done" => answer # <<>>)'
      BY <2>1, <2>3, <3>1 DEF ConfigSuffices, Return
    <3>6. QED
      BY <3>2, <3>3, <3>4, <3>5 DEF Inv
  <2>4. QED
    BY <2>2, <2>3
<1>12. CASE Returned
  BY <1>12 DEF Returned
<1>13. CASE UNCHANGED vars
  BY <1>13 DEF vars
<1>14. QED
  BY <1>1, <1>2, <1>3, <1>4, <1>5, <1>6, <1>7, <1>8, <1>9, <1>10, <1>11, <1>12, <1>13
     DEF Next, proxy_for_url

\* The inductive invariant of a lookup, type correctness included.
THEOREM LookupInvariance == Spec => [](Inv /\ ConfigSuffices)
<1>1. QED
  BY InitInv, NextInv, PTL DEF Spec

\* The sources come into play in the order the settings and the code give them.
THEOREM OrderKept == Spec => []InOrder
<1>1. Inv => InOrder
  BY DEF Inv
<1>2. QED
  BY <1>1, LookupInvariance, PTL

\* No request fails for a setting that the loading let pass.
THEOREM LoadedIsEnough == Spec => []ConfigSuffices
  BY LookupInvariance, PTL

-----------------------------------------------------------------------------
(* What a text means *)

\* A token is no error and gives the hop it names, in a PAC result that begins
\* each of its tokens with a keyword ...
LEMMA PacToken ==
    ASSUME NEW token \in Token, token.addr.port # BadPort,
           token.word \in {"DIRECT", "PROXY", "HTTP", "SOCKS"}
    PROVE  pac_hop(token) = Named(token) /\ Named(token) # Error
<1>1. token.addr \in Addr /\ [token.addr EXCEPT !.port = 80] \in Addr
  BY DEF Token, Addr
<1>2. /\ <<Direct>> # Error /\ <<>> # Error
      /\ <<token.addr>> # Error /\ <<[token.addr EXCEPT !.port = 80]>> # Error
  BY <1>1, ErrorIsNoList DEF Hop
<1>3. http_hop(token.addr) = IF token.addr.port = NoPort THEN <<[token.addr EXCEPT !.port = 80]>>
                             ELSE <<token.addr>>
  BY DEF http_hop, NoPort, BadPort
<1>4. CASE token.word = "DIRECT"
  BY <1>2, <1>4 DEF pac_hop, Named
<1>5. CASE token.word = "SOCKS"
  BY <1>2, <1>5 DEF pac_hop, Named
<1>6. CASE token.word \in {"PROXY", "HTTP"}
  <2>1. pac_hop(token) = http_hop(token.addr)
    BY <1>6 DEF pac_hop
  <2>2. Named(token) = <<IF token.addr.port = NoPort THEN [token.addr EXCEPT !.port = 80]
                         ELSE token.addr>>
    BY <1>6 DEF Named
  <2>3. QED
    BY <1>2, <1>3, <2>1, <2>2
<1>7. QED
  BY <1>4, <1>5, <1>6

\* ... and in a list without keywords.
LEMMA IeToken ==
    ASSUME NEW token \in Token, token.addr.port # BadPort, token.word \in {"bare", "http="}
    PROVE  ie_hop(token) = Named(token) /\ Named(token) # Error
<1>1. token.addr \in Addr /\ [token.addr EXCEPT !.port = 80] \in Addr
  BY DEF Token, Addr
<1>2. /\ <<>> # Error
      /\ <<token.addr>> # Error /\ <<[token.addr EXCEPT !.port = 80]>> # Error
  BY <1>1, ErrorIsNoList DEF Hop
<1>3. http_hop(token.addr) = IF token.addr.port = NoPort THEN <<[token.addr EXCEPT !.port = 80]>>
                             ELSE <<token.addr>>
  BY DEF http_hop, NoPort, BadPort
<1> DEFINE addr == IF token.addr = NoAddr THEN <<>> ELSE http_hop(token.addr)
<1>4. addr \in Seq(Hop) /\ addr # Error
  <2>1. CASE token.addr = NoAddr
    BY <1>2, <2>1
  <2>2. CASE token.addr # NoAddr
    <3>1. token.addr \in Hop /\ [token.addr EXCEPT !.port = 80] \in Hop
      BY <1>1 DEF Hop
    <3>2. \E hop \in Hop : addr = <<hop>>
      BY <1>3, <2>2, <3>1
    <3>3. \A hop \in Hop : <<hop>> \in Seq(Hop) /\ <<hop>> # Error
      BY ErrorIsNoList
    <3> HIDE DEF addr
    <3>4. QED
      BY <3>2, <3>3
  <2>3. QED
    BY <2>1, <2>2
<1>5. ie_hop(token) = <<>> \o addr
  <2>1. addr # Error
    BY <1>4
  <2>2. ie_hop(token) = IF addr = Error THEN Error
                        ELSE (IF token.word \in {"bare", "http="} THEN <<>>
                              ELSE http_hop([host |-> token.word, port |-> NoPort])) \o addr
    BY DEF ie_hop
  <2> HIDE DEF addr
  <2>3. QED
    BY <2>1, <2>2
<1>6. ie_hop(token) = addr
  <2> HIDE DEF addr
  <2> QED
    BY <1>4, <1>5, ConcatEmptySeq
<1>7. Named(token) = addr
  <2>1. CASE token.addr = NoAddr
    BY <2>1 DEF Named
  <2>2. CASE token.addr # NoAddr
    <3>1. Named(token) = <<IF token.addr.port = NoPort THEN [token.addr EXCEPT !.port = 80]
                           ELSE token.addr>>
      BY <2>2 DEF Named
    <3>2. QED
      BY <2>2, <3>1, <1>3
  <2>3. QED
    BY <2>1, <2>2
<1>8. QED
  BY <1>4, <1>6, <1>7

\* A token of a PAC result that is taken for a list gives its keyword as a proxy
\* and its address, and is no error either.
LEMMA MistakenToken ==
    ASSUME NEW token \in Token, token.addr.port # BadPort, token.word \in {"HTTP", "SOCKS"}
    PROVE  ie_hop(token) = MistakenHops(token) /\ MistakenHops(token) # Error
<1> DEFINE word  == [host |-> token.word, port |-> 80]
           plain == IF token.addr.port = NoPort THEN [token.addr EXCEPT !.port = 80] ELSE token.addr
           addr  == IF token.addr = NoAddr THEN <<>> ELSE <<plain>>
<1>1. word \in Hop /\ plain \in Hop
  BY DEF Token, Addr, Hop
<1>2. http_hop([host |-> token.word, port |-> NoPort]) = <<word>>
  BY DEF http_hop, NoPort, BadPort
<1>3. http_hop(token.addr) = <<plain>>
  BY DEF http_hop, NoPort, BadPort
<1>4. Named([token EXCEPT !.word = "HTTP"]) = <<plain>>
  <2>1. [token EXCEPT !.word = "HTTP"].word = "HTTP" /\ [token EXCEPT !.word = "HTTP"].addr = token.addr
    BY DEF Token
  <2> HIDE DEF plain
  <2>2. QED
    BY <2>1 DEF Named, plain
<1> HIDE DEF word, plain
<1>5. addr \in Seq(Hop) /\ addr # Error
  <2>1. addr \in Seq(Hop)
    BY <1>1
  <2>2. QED
    BY <2>1, ErrorIsNoList
<1>6. <<word>> \o addr # Error
  <2>1. <<word>> \o addr \in Seq(Hop)
    <3>1. <<word>> \in Seq(Hop)
      BY <1>1
    <3> HIDE DEF addr
    <3>2. QED
      BY <1>5, <3>1, ConcatProperties
  <2>2. QED
    BY <2>1, ErrorIsNoList
<1>7. MistakenHops(token) = <<word>> \o addr
  BY <1>4 DEF MistakenHops, word
<1>8. ie_hop(token) = <<word>> \o addr
  <2>1. (IF token.addr = NoAddr THEN <<>> ELSE http_hop(token.addr)) = addr
    BY <1>3
  <2>2. token.word \notin {"bare", "http="}
    OBVIOUS
  <2> HIDE DEF addr
  <2>3. QED
    BY <1>2, <1>5, <2>1, <2>2 DEF ie_hop
<1>9. QED
  BY <1>6, <1>7, <1>8

\* A well-formed text is understood, each of its tokens in its place, or taken for
\* a list of IE.
LEMMA TextMeans ==
    ASSUME NEW text \in Seq(Token), WellFormed(text)
    PROVE  parse_ie_proxy_list(text) = IF Heard(text) = <<>> THEN <<Direct>> ELSE Heard(text)
<1> DEFINE named    == [i \in DOMAIN text |-> Named(text[i])]
           mistaken == [i \in DOMAIN text |-> MistakenHops(text[i])]
<1>1. \A i \in DOMAIN text : text[i] \in Token /\ text[i].addr.port # BadPort
  BY ElementOfSeq, LenProperties DEF WellFormed
<1>2. ASSUME NEW lists, NEW hops, lists = [i \in DOMAIN text |-> lists[i]],
             \A i \in DOMAIN text : lists[i] # Error, hops = FlattenSeq(lists)
      PROVE  Collect(lists) = IF hops = <<>> THEN <<Direct>> ELSE hops
  BY <1>2 DEF Collect
<1>3. CASE LooksLikePac(text)
  <2>1. PICK i \in DOMAIN text : text[i].word \in {"DIRECT", "PROXY"}
    BY <1>3 DEF WellFormed, LooksLikePac
  <2>2. ~Mistaken(text) /\ PacNotation(text)
    BY <2>1 DEF WellFormed, IeNotation, Mistaken
  <2>3. \A j \in DOMAIN text : pac_hop(text[j]) = Named(text[j]) /\ Named(text[j]) # Error
    BY <1>1, <2>2, PacToken DEF PacNotation, Keywords
  <2>4. [j \in DOMAIN text |-> pac_hop(text[j])] = named
    BY <2>3
  <2>5. Heard(text) = FlattenSeq(named)
    BY <2>2 DEF Heard, Listed
  <2>6. QED
    BY <1>2, <1>3, <2>3, <2>4, <2>5 DEF parse_ie_proxy_list, parse_pac_result
<1>4. CASE ~LooksLikePac(text) /\ Mistaken(text)
  <2>1. \A i \in DOMAIN text : ie_hop(text[i]) = MistakenHops(text[i]) /\ MistakenHops(text[i]) # Error
    BY <1>1, <1>4, MistakenToken DEF Mistaken
  <2>2. [i \in DOMAIN text |-> ie_hop(text[i])] = mistaken
    BY <2>1
  <2>3. Heard(text) = FlattenSeq(mistaken)
    BY <1>4 DEF Heard
  <2>4. QED
    BY <1>2, <1>4, <2>1, <2>2, <2>3 DEF parse_ie_proxy_list
<1>5. CASE ~LooksLikePac(text) /\ ~Mistaken(text)
  <2>1. \A i \in DOMAIN text : text[i].word \in {"bare", "http="}
    BY <1>5 DEF WellFormed, PacNotation, IeNotation, Keywords, LooksLikePac, Mistaken
  <2>2. \A i \in DOMAIN text : ie_hop(text[i]) = Named(text[i]) /\ Named(text[i]) # Error
    BY <1>1, <2>1, IeToken
  <2>3. [i \in DOMAIN text |-> ie_hop(text[i])] = named
    BY <2>2
  <2>4. Heard(text) = FlattenSeq(named)
    BY <1>5 DEF Heard, Listed
  <2>5. QED
    BY <1>2, <1>5, <2>2, <2>3, <2>4 DEF parse_ie_proxy_list
<1>6. QED
  BY <1>3, <1>4, <1>5

\* Lists of elements of a set, one after the other, are a list of its elements.
LEMMA Flattened ==
    ASSUME NEW S, NEW lists \in Seq(Seq(S)) PROVE FlattenSeq(lists) \in Seq(S)
<1> DEFINE N    == Len(lists)
           step == [i \in 2 .. N |-> [x \in Seq(S) |-> x \o lists[i]]]
<1>1. N \in Nat /\ \A i \in 1 .. N : lists[i] \in Seq(S)
  BY LenProperties, ElementOfSeq
<1>2. CASE N = 0
  <2>1. lists = <<>>
    BY <1>2, EmptySeq
  <2>2. QED
    BY <1>2, <2>1 DEF FlattenSeq
<1>3. CASE N # 0
  <2>1. lists[1] \in Seq(S) /\ step \in [2 .. N -> [Seq(S) -> Seq(S)]]
    <3>1. \A i \in 2 .. N : lists[i] \in Seq(S)
      BY <1>1
    <3>2. \A i \in 2 .. N : [x \in Seq(S) |-> x \o lists[i]] \in [Seq(S) -> Seq(S)]
      BY <3>1, ConcatProperties
    <3>3. QED
      BY <1>1, <1>3, <3>2
  <2>2. PICK f : FollowsTo(f, N, Seq(S), lists[1], step)
    <3> HIDE DEF step, N
    <3> QED
      BY <1>1, <2>1, RecursionTo
  <2>3. f \in [1 .. N -> Seq(S)]
    BY <2>2 DEF FollowsTo
  <2>4. \A i \in 1 .. N : f[i] = IF i = 1 THEN lists[i] ELSE f[i - 1] \o lists[i]
    <3>1. \A i \in 1 .. N : f[i] = IF i = 1 THEN lists[1] ELSE step[i][f[i - 1]]
      <4> HIDE DEF step
      <4> QED
        BY <2>2 DEF FollowsTo
    <3>2. \A i \in 1 .. N : i # 1 => i \in 2 .. N /\ i - 1 \in 1 .. N
      BY <1>1
    <3>3. \A i \in 2 .. N : \A x \in Seq(S) : step[i][x] = x \o lists[i]
      OBVIOUS
    <3> HIDE DEF step, N
    <3>4. QED
      BY <2>3, <3>1, <3>2, <3>3
  <2> DEFINE flatten == CHOOSE g : g = [i \in 1 .. N |->
                                          IF i = 1 THEN lists[i] ELSE g[i - 1] \o lists[i]]
  <2>5. f = [i \in 1 .. N |-> IF i = 1 THEN lists[i] ELSE f[i - 1] \o lists[i]]
    <3>1. \A i \in 1 .. N : f[i] = IF i = 1 THEN lists[i] ELSE f[i - 1] \o lists[i]
      BY <2>4
    <3>2. QED
      BY <2>3, <3>1, Zenon
  <2>6. flatten = [i \in 1 .. N |-> IF i = 1 THEN lists[i] ELSE flatten[i - 1] \o lists[i]]
    BY <2>5
  <2>7. FlattenSeq(lists) = flatten[N]
    BY <1>3 DEF FlattenSeq
  <2>8. flatten[N] \in Seq(S)
    <3> HIDE DEF flatten
    <3> DEFINE Bad == {i \in 1 .. N : flatten[i] \notin Seq(S)}
    <3>1. \A i \in 1 .. N : flatten[i] = IF i = 1 THEN lists[i] ELSE flatten[i - 1] \o lists[i]
      BY <2>6
    <3>2. SUFFICES ASSUME Bad # {} PROVE FALSE
      <4>1. N \in 1 .. N
        BY <1>1, <1>3
      <4>2. QED
        BY <4>1, Zenon
    <3>3. PICK i \in Bad : \A j \in Bad : i <= j
      <4>1. Bad \subseteq Nat
        BY <1>1
      <4> HIDE DEF Bad
      <4>2. QED
        BY <3>2, <4>1, MinIn
    <3>4. i # 1 /\ i \in 1 .. N
      BY <1>1, <1>3, <3>1
    <3>5. i - 1 \in 1 .. N /\ i - 1 \notin Bad
      BY <1>1, <3>3, <3>4
    <3>6. flatten[i - 1] \in Seq(S) /\ lists[i] \in Seq(S)
      BY <1>1, <3>4, <3>5
    <3>7. flatten[i - 1] \o lists[i] \in Seq(S)
      BY <3>6, ConcatProperties
    <3>8. QED
      BY <3>1, <3>4, <3>7
  <2>9. QED
    BY <2>7, <2>8
<1>4. QED
  BY <1>2, <1>3

\* What an address becomes has a port, if anything becomes of it.
LEMMA HttpDialable ==
    ASSUME NEW addr, DOMAIN addr = {"host", "port"}
    PROVE  http_hop(addr) # Error =>
               \E h : http_hop(addr) = <<h>> /\ h.port \notin {NoPort, BadPort}
<1>1. CASE addr.port = BadPort
  BY <1>1 DEF http_hop, NoPort, BadPort
<1>2. CASE addr.port = NoPort
  <2>1. [addr EXCEPT !.port = 80].port \notin {NoPort, BadPort}
    BY DEF NoPort, BadPort
  <2>2. http_hop(addr) = <<[addr EXCEPT !.port = 80]>>
    BY <1>2 DEF http_hop, NoPort, BadPort
  <2>3. QED
    BY <2>1, <2>2
<1>3. CASE addr.port \notin {NoPort, BadPort}
  <2>1. http_hop(addr) = <<addr>>
    BY <1>3 DEF http_hop
  <2>2. QED
    BY <1>3, <2>1
<1>4. QED
  BY <1>1, <1>2, <1>3

\* The lists whose hops can all be dialled.
Hops(A) == {h \in {Direct} \cup A : h = Direct \/ h.port \notin {NoPort, BadPort}}

\* A token gives such hops, in either notation, ...
LEMMA TokenDialable ==
    ASSUME NEW token \in Token
    PROVE  \E A : /\ pac_hop(token) # Error => pac_hop(token) \in Seq(Hops(A))
                  /\ ie_hop(token) # Error => ie_hop(token) \in Seq(Hops(A))
<1> DEFINE as   == AsItStands(token)
           word == [host |-> token.word, port |-> NoPort]
           A    == UNION {Range(http_hop(a)) : a \in {token.addr, as, word}}
<1>1. /\ DOMAIN token.addr = {"host", "port"}
      /\ DOMAIN as = {"host", "port"}
      /\ DOMAIN word = {"host", "port"}
  BY DEF Token, Addr, AsItStands
<1>2. ASSUME NEW a \in {token.addr, as, word}, http_hop(a) # Error PROVE http_hop(a) \in Seq(Hops(A))
  <2>1. PICK h : http_hop(a) = <<h>> /\ h.port \notin {NoPort, BadPort}
    BY <1>1, <1>2, HttpDialable
  <2>2. h \in Range(http_hop(a))
    BY <2>1 DEF Range
  <2>3. h \in A
    BY <2>2
  <2>4. h \in Hops(A)
    BY <2>1, <2>3 DEF Hops
  <2>5. QED
    BY <2>1, <2>4
<1>3. <<>> \in Seq(Hops(A)) /\ <<Direct>> \in Seq(Hops(A))
  <2>1. Direct \in Hops(A)
    BY DEF Hops
  <2> HIDE DEF A
  <2>2. QED
    BY <2>1
<1>4. pac_hop(token) # Error => pac_hop(token) \in Seq(Hops(A))
  <2>1. \/ pac_hop(token) \in {<<Direct>>, <<>>, Error}
        \/ \E a \in {token.addr, as, word} : pac_hop(token) = http_hop(a)
    BY DEF pac_hop
  <2> HIDE DEF A, as, word
  <2>2. QED
    BY <1>2, <1>3, <2>1
<1>5. ie_hop(token) # Error => ie_hop(token) \in Seq(Hops(A))
  <2> DEFINE first  == IF token.word \in {"bare", "http="} THEN <<>> ELSE http_hop(word)
             second == IF token.addr = NoAddr THEN <<>> ELSE http_hop(token.addr)
  <2>1. http_hop(word) # Error
    <3>1. http_hop(word) = <<[word EXCEPT !.port = 80]>> /\ [word EXCEPT !.port = 80] = [host |-> token.word, port |-> 80]
      BY DEF http_hop, NoPort, BadPort
    <3>2. token.word \in Word
      BY DEF Token
    <3>3. [host |-> token.word, port |-> 80] \in Hop
      BY <3>2 DEF Hop, Addr
    <3> HIDE DEF word
    <3>4. QED
      BY <3>1, <3>3, ErrorIsNoList
  <2>2. first \in Seq(Hops(A))
    <3> HIDE DEF A, as, word
    <3> QED
      BY <1>2, <1>3, <2>1
  <2>3. second # Error => second \in Seq(Hops(A))
    <3> HIDE DEF A, as, word
    <3> QED
      BY <1>2, <1>3
  <2>4. ie_hop(token) = IF second = Error THEN Error ELSE first \o second
    BY DEF ie_hop
  <2> HIDE DEF first, second, A
  <2>5. QED
    BY <2>2, <2>3, <2>4, ConcatProperties
<1>6. QED
  BY <1>4, <1>5

\* ... and so does a text, well-formed or not.
LEMMA TextDialable ==
    ASSUME NEW text \in Seq(Token), parse_ie_proxy_list(text) # Error
    PROVE  Dialable(parse_ie_proxy_list(text))
<1> DEFINE Within(i, A) == /\ pac_hop(text[i]) # Error => pac_hop(text[i]) \in Seq(Hops(A))
                           /\ ie_hop(text[i]) # Error => ie_hop(text[i]) \in Seq(Hops(A))
           B == [i \in DOMAIN text |-> CHOOSE A : Within(i, A)]
           C == UNION {B[i] : i \in DOMAIN text}
<1>1. \A i \in DOMAIN text : Within(i, B[i])
  <2>1. \A i \in DOMAIN text : text[i] \in Token
    BY ElementOfSeq, LenProperties
  <2>2. \A i \in DOMAIN text : \E A : Within(i, A)
    BY <2>1, TokenDialable
  <2> HIDE DEF Within
  <2>3. QED
    BY <2>2
<1> HIDE DEF B
<1>2. \A i \in DOMAIN text : Hops(B[i]) \subseteq Hops(C)
  BY DEF Hops
<1>3. \A i \in DOMAIN text : Within(i, C)
  <2>1. ASSUME NEW S, NEW T, S \subseteq T PROVE Seq(S) \subseteq Seq(T)
    BY <2>1
  <2>2. \A i \in DOMAIN text : Seq(Hops(B[i])) \subseteq Seq(Hops(C))
    BY <1>2, <2>1
  <2>3. QED
    BY <1>1, <2>2
<1> HIDE DEF C
<1>4. ASSUME NEW hops \in Seq(Hops(C)) PROVE Dialable(hops)
  <2>1. \A i \in DOMAIN hops : hops[i] \in Hops(C)
    BY ElementOfSeq, LenProperties
  <2>2. QED
    BY <2>1 DEF Dialable, Hops
<1>5. ASSUME NEW lists, DOMAIN lists = DOMAIN text, lists = [i \in DOMAIN text |-> lists[i]],
             \A i \in DOMAIN text : lists[i] # Error => lists[i] \in Seq(Hops(C)),
             Collect(lists) # Error
      PROVE  Dialable(Collect(lists))
  <2>1. \A i \in DOMAIN text : lists[i] \in Seq(Hops(C))
    BY <1>5 DEF Collect
  <2>2. lists \in Seq(Seq(Hops(C)))
    <3>1. DOMAIN text = 1 .. Len(text) /\ Len(text) \in Nat
      BY LenProperties
    <3>2. lists \in [1 .. Len(text) -> Seq(Hops(C))]
      BY <1>5, <2>1, <3>1
    <3>3. QED
      BY <3>1, <3>2, SeqDef
  <2>3. FlattenSeq(lists) \in Seq(Hops(C))
    BY <2>2, Flattened
  <2>4. <<Direct>> \in Seq(Hops(C))
    BY DEF Hops
  <2>5. Collect(lists) \in Seq(Hops(C))
    BY <1>5, <2>3, <2>4 DEF Collect
  <2>6. QED
    BY <1>4, <2>5
<1> DEFINE pac == [i \in DOMAIN text |-> pac_hop(text[i])]
           ies == [i \in DOMAIN text |-> ie_hop(text[i])]
<1>6. Collect(pac) # Error => Dialable(Collect(pac))
  BY <1>3, <1>5
<1>7. Collect(ies) # Error => Dialable(Collect(ies))
  BY <1>3, <1>5
<1>8. QED
  BY <1>6, <1>7 DEF parse_ie_proxy_list, parse_pac_result

\* The text of a fixed upstream lists that upstream.
LEMMA UpstreamMeans ==
    ASSUME NEW c \in Configs, HasUpstream(c)
    PROVE  LET text == <<[word |-> "PROXY", addr |-> c.upstream]>>
           IN  text \in Seq(Token) /\ (WellFormed(text) => Heard(text) = <<c.upstream>>)
<1> DEFINE token == [word |-> "PROXY", addr |-> c.upstream]
           text  == <<token>>
<1>1. c.upstream \in Addr /\ c.upstream.port # NoPort /\ c.upstream.port # BadPort
  BY Distinct DEF HasUpstream
<1>2. token \in Token
  BY <1>1 DEF Token, Word
<1>3. Named(token) = <<c.upstream>>
  BY <1>1 DEF Named
<1> HIDE DEF token
<1>4. text \in Seq(Token) /\ DOMAIN text = 1 .. 1 /\ text[1] = token
  BY <1>2
<1>5. [i \in DOMAIN text |-> Named(text[i])] = <<<<c.upstream>>>>
  BY <1>3, <1>4
<1>6. FlattenSeq(<<<<c.upstream>>>>) = <<c.upstream>>
  <2> DEFINE seqs == <<<<c.upstream>>>>
             F    == [i \in 1 .. Len(seqs) |-> <<c.upstream>>]
             flatten == CHOOSE f : f = [i \in 1 .. Len(seqs) |->
                                          IF i = 1 THEN seqs[i] ELSE f[i - 1] \o seqs[i]]
  <2>1. F = [i \in 1 .. Len(seqs) |-> IF i = 1 THEN seqs[i] ELSE F[i - 1] \o seqs[i]]
    OBVIOUS
  <2>2. flatten = [i \in 1 .. Len(seqs) |-> IF i = 1 THEN seqs[i] ELSE flatten[i - 1] \o seqs[i]]
    BY <2>1
  <2>3. FlattenSeq(seqs) = flatten[1]
    BY DEF FlattenSeq
  <2>4. QED
    BY <2>2, <2>3
<1>7. Heard(text) = <<c.upstream>>
  <2>1. token.word = "PROXY"
    BY DEF token
  <2>2. ~Mistaken(text)
    BY <1>4, <2>1 DEF Mistaken
  <2>3. QED
    BY <1>5, <1>6, <2>2 DEF Heard, Listed
<1>8. QED
  BY <1>4, <1>7 DEF token

\* An answer made of a text means what the text does.
LEMMA SaidInv == Inv /\ HopsAsSaid /\ [Next]_vars => HopsAsSaid'
<1> SUFFICES ASSUME Inv, HopsAsSaid, [Next]_vars, pc' = "done" PROVE HopsAsSaid'
  BY DEF HopsAsSaid
<1> DEFINE AsSaid(hops, text) ==
        /\ hops # <<>>
        /\ hops # Error => Dialable(hops)
        /\ text # None /\ WellFormed(text) =>
              hops = IF Heard(text) = <<>> THEN <<Direct>> ELSE Heard(text)
<1>1. ASSUME NEW hops, NEW text, NEW why, Return(hops, text, why), AsSaid(hops, text)
      PROVE  HopsAsSaid'
  BY <1>1 DEF Return, HopsAsSaid
<1>2. \A text \in Seq(Token) : AsSaid(parse_ie_proxy_list(text), text)
  BY TextMeans, TextDialable, NeverEmpty
<1>3. \A hops : hops # <<>> /\ (hops # Error => Dialable(hops)) => AsSaid(hops, None)
  OBVIOUS
<1>4. /\ Error # <<>> /\ <<Direct>> # <<>> /\ \A s \in Settings : s.list \in Seq(Token)
      /\ Texts \subseteq Seq(Token)
      /\ Dialable(<<Direct>>)
  BY Distinct, LookupAssumption DEF Dialable
<1>5. ASSUME NEW sources, NEW text \in Seq(Token) \cup {None}, NEW why, Fails(sources, text, why),
             text # None => parse_ie_proxy_list(text) = Error
      PROVE  HopsAsSaid'
  <2>1. Return(Error, text, why)
    BY <1>5 DEF Fails
  <2>2. AsSaid(Error, text)
    BY <1>2, <1>3, <1>4, <1>5
  <2> HIDE DEF AsSaid
  <2>3. QED
    BY <1>1, <2>1, <2>2
<1> HIDE DEF AsSaid
<1>6. CASE Bypass
  BY <1>1, <1>3, <1>4, <1>6 DEF Bypass
<1>7. CASE Upstream
  <2>1. cfg \in Configs /\ HasUpstream(cfg)
    BY <1>7 DEF Upstream, validate, Inv, TypeOK
  <2> DEFINE text == <<[word |-> "PROXY", addr |-> cfg.upstream]>>
  <2>2. /\ WellFormed(text) => Heard(text) = <<cfg.upstream>>
        /\ Dialable(<<cfg.upstream>>)
    BY <2>1, UpstreamMeans DEF HasUpstream, Dialable
  <2>3. Return(<<cfg.upstream>>, text, "config")
    BY <1>7, <2>1 DEF Upstream
  <2> HIDE DEF text
  <2>4. AsSaid(<<cfg.upstream>>, text)
    BY <2>2 DEF AsSaid
  <2>5. QED
    BY <1>1, <2>3, <2>4
<1>8. CASE Script
  <2>1. Return(Error, None, "config") \/ pc' = "open"
    BY <1>8 DEF Script, Begin
  <2>2. QED
    BY <1>1, <1>3, <1>4, <2>1
<1>9. CASE StaticList
  <2>1. ie \in Settings
    BY <1>9 DEF StaticList, Inv, TypeOK, CallInv
  <2>2. Return(parse_ie_proxy_list(ie.list), ie.list, "text") \/ pc' = "open"
    BY <1>9 DEF StaticList, Begin
  <2>3. QED
    BY <1>1, <1>2, <1>4, <2>1, <2>2
<1>10. CASE OpenFails
  BY <1>5, <1>10 DEF OpenFails
<1>11. ASSUME NEW text \in Texts, Gives(text) PROVE HopsAsSaid'
  <2>1. text \in Seq(Token)
    BY <1>4
  <2>2. CASE parse_ie_proxy_list(text) = Error
    BY <1>5, <1>11, <2>1, <2>2 DEF Gives
  <2>3. CASE parse_ie_proxy_list(text) # Error
    <3>1. Return(parse_ie_proxy_list(text), text, "none")
      BY <1>11, <2>3 DEF Gives
    <3>2. QED
      BY <1>1, <1>2, <2>1, <3>1
  <2>4. QED
    BY <2>2, <2>3
<1>12. CASE FindsNothing
  <2>1. Fails({"wpad"}, None, "winhttp") \/ pc' = pc
    BY <1>12 DEF FindsNothing
  <2>2. pc # pc'
    BY <1>12 DEF FindsNothing
  <2>3. QED
    BY <1>5, <2>1, <2>2
<1>13. CASE GivesNothing
  BY <1>5, <1>13 DEF GivesNothing
<1>14. ASSUME NEW s, ReadSettings(s) PROVE FALSE
  BY <1>14 DEF ReadSettings, Begin
<1>15. CASE Call \/ Open \/ Returned
  BY <1>15 DEF Call, Open, Returned
<1>16. CASE UNCHANGED vars
  BY <1>16 DEF vars, HopsAsSaid
<1>17. QED
  BY <1>6, <1>7, <1>8, <1>9, <1>10, <1>11, <1>12, <1>13, <1>14, <1>15, <1>16
     DEF Next, proxy_for_url

\* The hops are those that the text names, in its order, and each can be dialled.
THEOREM SaidKept == Spec => []HopsAsSaid
<1>1. Init => HopsAsSaid
  BY DEF Init, HopsAsSaid
<1>2. QED
  BY <1>1, SaidInv, LookupInvariance, PTL DEF Spec

-----------------------------------------------------------------------------
(* Patterns *)

\* A part that occurs in a text lies within it.
LEMMA Places ==
    ASSUME NEW part \in Text, NEW s \in Text
    PROVE  /\ Occurrences(part, s) \in SUBSET Nat
           /\ \A m \in Occurrences(part, s) : m + Len(part) \in 0 .. Len(s)
           /\ Anchored(part, s) \subseteq 0 .. Len(s)
<1>1. Len(part) \in Nat /\ Len(s) \in Nat
  BY DEF Text
<1>2. Occurrences(part, s) \subseteq 0 .. Len(s) - Len(part)
  BY DEF Occurrences
<1>3. IsPrefix(part, s) => Len(part) <= Len(s)
  BY DEF IsPrefix
<1> HIDE DEF Text
<1>4. QED
  BY <1>1, <1>2, <1>3 DEF Anchored

\* find: the first of the places that are not before n.
LEMMA Found ==
    ASSUME NEW part \in Text, NEW s \in Text, NEW n \in Nat
    PROVE  LET at == {m \in Occurrences(part, s) : n <= m}
           IN  /\ AfterFind(part, s, n) \in SUBSET Nat
               /\ at = {} => AfterFind(part, s, n) = {}
               /\ at # {} => \E m \in at : AfterFind(part, s, n) = {m + Len(part)}
                                              /\ \A o \in at : m <= o
<1> DEFINE at == {m \in Occurrences(part, s) : n <= m}
<1>1. at \in SUBSET Nat /\ Len(part) \in Nat
  BY Places DEF Text
<1>2. AfterFind(part, s, n) = IF at = {} THEN {} ELSE {Min(at) + Len(part)}
  BY DEF AfterFind
<1>3. at # {} => Min(at) \in at /\ \A o \in at : Min(at) <= o
  BY <1>1, MinIn
<1> HIDE DEF at
<1>4. AfterFind(part, s, n) \in SUBSET Nat
  <2>1. CASE at = {}
    BY <1>2, <2>1
  <2>2. CASE at # {}
    <3>1. Min(at) \in Nat
      BY <1>1, <1>3, <2>2
    <3>2. Min(at) + Len(part) \in Nat
      BY <1>1, <3>1
    <3>3. QED
      BY <1>2, <2>2, <3>2
  <2>3. QED
    BY <2>1, <2>2
<1>5. QED
  BY <1>1, <1>2, <1>3, <1>4 DEF at

\* The recursion of wildcard_match ...
LEMMA RestsDef ==
    ASSUME NEW parts \in Seq(Text), NEW s \in Text
    PROVE  \A i \in 1 .. Len(parts) : Rests(parts, s)[i] =
              IF i = 1 THEN Anchored(parts[1], s)
              ELSE UNION {AfterFind(parts[i], s, n) : n \in Rests(parts, s)[i - 1]}
<1> DEFINE N == Len(parts)
           After(i, R) == UNION {AfterFind(parts[i], s, n) : n \in R}
           step == [i \in 2 .. N |-> [R \in SUBSET Nat |-> After(i, R)]]
<1>1. CASE N = 0
  BY <1>1
<1>2. CASE N # 0
  <2>1. N \in Nat /\ \A i \in 1 .. N : parts[i] \in Text
    BY ElementOfSeq, LenProperties
  <2>2. Anchored(parts[1], s) \in SUBSET Nat
    BY <1>2, <2>1, Places
  <2>3. \A i \in 1 .. N, n \in Nat : AfterFind(parts[i], s, n) \in SUBSET Nat
    BY <2>1, Found
  <2>4. step \in [2 .. N -> [SUBSET Nat -> SUBSET Nat]]
    BY <2>1, <2>3
  <2> HIDE DEF step, After
  <2>5. PICK f \in [1 .. N -> SUBSET Nat] :
           \A i \in 1 .. N : f[i] = IF i = 1 THEN Anchored(parts[1], s) ELSE step[i][f[i - 1]]
    <3> DEFINE base == Anchored(parts[1], s)
    <3> HIDE DEF N, base
    <3>1. base \in SUBSET Nat
      BY <2>2 DEF base
    <3>2. \E f : FollowsTo(f, N, SUBSET Nat, base, step)
      BY <2>1, <3>1, <2>4, RecursionTo
    <3>3. QED
      BY <3>2 DEF base, FollowsTo
  <2>6. ASSUME NEW i \in 1 .. N, i # 1 PROVE step[i][f[i - 1]] = After(i, f[i - 1])
    <3>1. i \in 2 .. N /\ i - 1 \in 1 .. N
      BY <2>1, <2>6
    <3>2. f[i - 1] \in SUBSET Nat
      BY <2>5, <3>1
    <3>3. step[i] = [R \in SUBSET Nat |-> After(i, R)]
      BY <3>1 DEF step
    <3>4. QED
      BY <3>2, <3>3
  <2>7. f = [i \in 1 .. N |-> IF i = 1 THEN Anchored(parts[1], s) ELSE After(i, f[i - 1])]
    <3>1. \A i \in 1 .. N : f[i] = IF i = 1 THEN Anchored(parts[1], s) ELSE After(i, f[i - 1])
      BY <2>5, <2>6
    <3>2. QED
      BY <2>5, <3>1, Zenon
  <2> DEFINE E == Rests(parts, s)
  <2>8. E = CHOOSE g : g = [i \in 1 .. N |-> IF i = 1 THEN Anchored(parts[1], s)
                                              ELSE After(i, g[i - 1])]
    BY Zenon DEF Rests, After
  <2> HIDE DEF E
  <2>9. E = [i \in 1 .. N |-> IF i = 1 THEN Anchored(parts[1], s) ELSE After(i, E[i - 1])]
    BY <2>7, <2>8, Zenon
  <2>10. QED
    BY <2>9 DEF E, After
<1>3. QED
  BY <1>1, <1>2

\* ... and that of what a pattern means.
LEMMA ReachedDef ==
    ASSUME NEW parts \in Seq(Text), NEW s \in Text
    PROVE  \A i \in 1 .. Len(parts) : Reached(parts, s)[i] =
              IF i = 1 THEN Anchored(parts[1], s)
              ELSE {m + Len(parts[i]) : m \in {o \in Occurrences(parts[i], s) :
                                                  \E end \in Reached(parts, s)[i - 1] : end <= o}}
<1> DEFINE N == Len(parts)
           After(i, R) == {m + Len(parts[i]) : m \in {o \in Occurrences(parts[i], s) :
                                                         \E end \in R : end <= o}}
           step == [i \in 2 .. N |-> [R \in SUBSET Nat |-> After(i, R)]]
<1>1. CASE N = 0
  BY <1>1
<1>2. CASE N # 0
  <2>1. N \in Nat /\ \A i \in 1 .. N : parts[i] \in Text
    BY ElementOfSeq, LenProperties
  <2>2. Anchored(parts[1], s) \in SUBSET Nat
    BY <1>2, <2>1, Places
  <2>3. ASSUME NEW i \in 1 .. N, NEW R PROVE After(i, R) \in SUBSET Nat
    <3>1. \A m \in Occurrences(parts[i], s) : m + Len(parts[i]) \in Nat
      BY <2>1, Places
    <3>2. QED
      BY <3>1
  <2>4. step \in [2 .. N -> [SUBSET Nat -> SUBSET Nat]]
    <3> HIDE DEF After
    <3> QED
      BY <2>1, <2>3
  <2> HIDE DEF step, After
  <2>5. PICK f \in [1 .. N -> SUBSET Nat] :
           \A i \in 1 .. N : f[i] = IF i = 1 THEN Anchored(parts[1], s) ELSE step[i][f[i - 1]]
    <3> DEFINE base == Anchored(parts[1], s)
    <3> HIDE DEF N, base
    <3>1. base \in SUBSET Nat
      BY <2>2 DEF base
    <3>2. \E f : FollowsTo(f, N, SUBSET Nat, base, step)
      BY <2>1, <3>1, <2>4, RecursionTo
    <3>3. QED
      BY <3>2 DEF base, FollowsTo
  <2>6. ASSUME NEW i \in 1 .. N, i # 1 PROVE step[i][f[i - 1]] = After(i, f[i - 1])
    <3>1. i \in 2 .. N /\ i - 1 \in 1 .. N
      BY <2>1, <2>6
    <3>2. f[i - 1] \in SUBSET Nat
      BY <2>5, <3>1
    <3>3. step[i] = [R \in SUBSET Nat |-> After(i, R)]
      BY <3>1 DEF step
    <3>4. QED
      BY <3>2, <3>3
  <2>7. f = [i \in 1 .. N |-> IF i = 1 THEN Anchored(parts[1], s) ELSE After(i, f[i - 1])]
    <3>1. \A i \in 1 .. N : f[i] = IF i = 1 THEN Anchored(parts[1], s) ELSE After(i, f[i - 1])
      BY <2>5, <2>6
    <3>2. QED
      BY <2>5, <3>1, Zenon
  <2> DEFINE E == Reached(parts, s)
  <2>8. E = CHOOSE g : g = [i \in 1 .. N |-> IF i = 1 THEN Anchored(parts[1], s)
                                              ELSE After(i, g[i - 1])]
    BY Zenon DEF Reached, After
  <2> HIDE DEF E
  <2>9. E = [i \in 1 .. N |-> IF i = 1 THEN Anchored(parts[1], s) ELSE After(i, E[i - 1])]
    BY <2>7, <2>8, Zenon
  <2>10. QED
    BY <2>9 DEF E, After
<1>3. QED
  BY <1>1, <1>2

\* Both behind a part that is not the first.
LEMMA PartAfterPart ==
    ASSUME NEW parts \in Seq(Text), NEW s \in Text, NEW k \in 1 .. Len(parts), k # 1,
           NEW i, i = k - 1
    PROVE  /\ Reached(parts, s)[k] =
                 {m + Len(parts[k]) : m \in {o \in Occurrences(parts[k], s) :
                                                \E end \in Reached(parts, s)[i] : end <= o}}
           /\ Rests(parts, s)[k] = UNION {AfterFind(parts[k], s, n) : n \in Rests(parts, s)[i]}
<1> DEFINE After(j, R) == {m + Len(parts[j]) : m \in {o \in Occurrences(parts[j], s) :
                                                         \E end \in R : end <= o}}
           Left(j, R) == UNION {AfterFind(parts[j], s, n) : n \in R}
           first == Anchored(parts[1], s)
<1>1. \A j \in 1 .. Len(parts) :
         Reached(parts, s)[j] = IF j = 1 THEN first ELSE After(j, Reached(parts, s)[j - 1])
  BY ReachedDef, Zenon
<1>2. \A j \in 1 .. Len(parts) :
         Rests(parts, s)[j] = IF j = 1 THEN first ELSE Left(j, Rests(parts, s)[j - 1])
  BY RestsDef, Zenon
<1> HIDE DEF After, Left, first
<1>3. Reached(parts, s)[k] = After(k, Reached(parts, s)[i])
  BY <1>1
<1>4. Rests(parts, s)[k] = Left(k, Rests(parts, s)[i])
  BY <1>2
<1>5. QED
  BY <1>3, <1>4, Zenon DEF After, Left

\* wildcard_match keeps to the least number of letters that a pattern may use.
Greedy(parts, s, i) ==
    LET ends == Reached(parts, s)[i]
        rest == Rests(parts, s)[i]
    IN  /\ ends \subseteq 0 .. Len(s)
        /\ ends = {} => rest = {}
        /\ ends # {} => \E m \in ends : rest = {m} /\ \A e \in ends : m <= e

\* A step of it, from one part to the next.
LEMMA GreedyStep ==
    ASSUME NEW parts \in Seq(Text), NEW s \in Text, NEW i \in Nat,
           i \in 1 .. Len(parts) - 1, Greedy(parts, s, i)
    PROVE  Greedy(parts, s, i + 1)
<1> DEFINE k     == i + 1
           part  == parts[k]
           ends  == Reached(parts, s)[i]
           rest  == Rests(parts, s)[i]
           endsN == Reached(parts, s)[k]
           restN == Rests(parts, s)[k]
           places == Occurrences(part, s)
<1>1. Len(parts) \in Nat /\ k \in 1 .. Len(parts) /\ k # 1 /\ k - 1 = i
  BY LenProperties
<1> HIDE DEF k
<1>2. part \in Text /\ Len(part) \in Nat
  BY <1>1, ElementOfSeq DEF Text
<1>3. places \in SUBSET Nat /\ \A m \in places : m + Len(part) \in 0 .. Len(s)
  BY <1>2, Places
<1>4. endsN = {m + Len(part) : m \in {o \in places : \E end \in ends : end <= o}}
  BY <1>1, PartAfterPart
<1>5. restN = UNION {AfterFind(part, s, n) : n \in rest}
  BY <1>1, PartAfterPart
<1>6. /\ ends \subseteq 0 .. Len(s)
      /\ ends = {} => rest = {}
      /\ ends # {} => \E m \in ends : rest = {m} /\ \A e \in ends : m <= e
  BY DEF Greedy
<1>7. Len(s) \in Nat
  BY DEF Text
<1> HIDE DEF part, ends, rest, endsN, restN, places
<1>8. endsN \subseteq 0 .. Len(s)
  BY <1>3, <1>4
<1>9. CASE ends = {}
  <2>1. endsN = {} /\ restN = {}
    BY <1>4, <1>5, <1>6, <1>9
  <2>2. QED
    BY <2>1 DEF Greedy, endsN, restN, k
<1>10. CASE ends # {}
  <2>1. PICK n \in ends : rest = {n} /\ \A e \in ends : n <= e
    BY <1>6, <1>10
  <2>2. n \in Nat /\ \A e \in ends : e \in Nat
    BY <1>6, <1>7
  <2> DEFINE at == {m \in places : n <= m}
  <2>3. {o \in places : \E end \in ends : end <= o} = at
    <3>1. ASSUME NEW o \in places PROVE (\E end \in ends : end <= o) <=> n <= o
      BY <1>3, <2>1, <2>2
    <3>2. QED
      BY <3>1
  <2>4. endsN = {m + Len(part) : m \in at}
    BY <1>4, <2>3
  <2>5. restN = AfterFind(part, s, n)
    BY <1>5, <2>1
  <2>6. /\ at = {} => AfterFind(part, s, n) = {}
        /\ at # {} => \E m \in at : AfterFind(part, s, n) = {m + Len(part)} /\ \A o \in at : m <= o
    <3>1. \A m \in Nat :
             LET later == {o \in places : m <= o}
             IN  /\ later = {} => AfterFind(part, s, m) = {}
                 /\ later # {} => \E first \in later : AfterFind(part, s, m) = {first + Len(part)}
                                                       /\ \A o \in later : first <= o
      BY <1>2, Found DEF places
    <3>2. QED
      BY <2>2, <3>1, Zenon
  <2>7. at \in SUBSET Nat
    BY <1>3
  <2> HIDE DEF at
  <2>8. CASE at = {}
    <3>1. endsN = {} /\ restN = {}
      BY <2>4, <2>5, <2>6, <2>8
    <3>2. QED
      BY <3>1 DEF Greedy, endsN, restN, k
  <2>9. CASE at # {}
    <3>1. PICK m \in at : restN = {m + Len(part)} /\ \A o \in at : m <= o
      BY <2>5, <2>6, <2>9
    <3>2. m + Len(part) \in endsN
      BY <2>4, <3>1
    <3>3. \A e \in endsN : m + Len(part) <= e
      BY <1>2, <2>4, <2>7, <3>1
    <3>4. QED
      BY <1>8, <3>1, <3>2, <3>3 DEF Greedy, endsN, restN, k
  <2>10. QED
    BY <2>8, <2>9
<1>11. QED
  BY <1>9, <1>10

\* It does so behind every part.
LEMMA GreedyAll ==
    ASSUME NEW parts \in Seq(Text), NEW s \in Text
    PROVE  \A i \in 1 .. Len(parts) : Greedy(parts, s, i)
<1> DEFINE N == Len(parts)
           So == {k \in Nat : k + 1 \in 1 .. N => Greedy(parts, s, k + 1)}
<1>1. N \in Nat
  BY LenProperties
<1>2. 0 \in So
  <2>1. CASE N = 0
    BY <2>1
  <2>2. CASE N # 0
    <3>1. parts[1] \in Text
      BY <1>1, <2>2, ElementOfSeq
    <3> DEFINE first == Anchored(parts[1], s)
    <3>2. Reached(parts, s)[1] = first /\ Rests(parts, s)[1] = first
      <4>1. ASSUME NEW k \in 1 .. Len(parts), k = 1
            PROVE  Reached(parts, s)[k] = first /\ Rests(parts, s)[k] = first
        BY <4>1, ReachedDef, RestsDef
      <4>2. 1 \in 1 .. Len(parts)
        BY <1>1, <2>2
      <4>3. QED
        BY <4>1, <4>2
    <3>3. first \subseteq 0 .. Len(s) /\ first \in SUBSET Nat /\ (first = {} \/ first = {Len(parts[1])})
      BY <3>1, Places DEF Anchored
    <3> HIDE DEF first
    <3>4. Greedy(parts, s, 1)
      BY <3>2, <3>3 DEF Greedy
    <3>5. QED
      BY <3>4
  <2>3. QED
    BY <2>1, <2>2
<1>3. ASSUME NEW k \in Nat, k \in So PROVE k + 1 \in So
  <2>1. CASE (k + 1) + 1 \in 1 .. N
    <3>1. k + 1 \in 1 .. N - 1 /\ k + 1 \in 1 .. N
      BY <1>1, <2>1
    <3>2. Greedy(parts, s, (k + 1) + 1)
      BY <1>3, <3>1, GreedyStep
    <3>3. QED
      BY <3>2
  <2>2. QED
    BY <2>1
<1> HIDE DEF So
<1>4. Nat \subseteq So
  BY <1>2, <1>3, Induction
<1>5. ASSUME NEW i \in 1 .. N PROVE Greedy(parts, s, i)
  <2>1. i - 1 \in So /\ (i - 1) + 1 = i
    BY <1>1, <1>4
  <2>2. QED
    BY <2>1 DEF So
<1>6. QED
  BY <1>5

\* A part without letters occurs everywhere.
LEMMA BlankPart == ASSUME NEW s \in Text PROVE Occurrences(<<>>, s) = 0 .. Len(s)
<1>1. Len(s) \in Nat
  BY DEF Text
<1>2. ASSUME NEW n \in 0 .. Len(s) PROVE IsPrefix(<<>>, From(s, n))
  <2>1. Len(From(s, n)) \in Nat
    BY <1>1, SubSeqProperties DEF From, Text
  <2>2. SubSeq(<<>>, 1, 0) = <<>> /\ SubSeq(From(s, n), 1, 0) = <<>>
    BY SubSeqEmpty
  <2>3. QED
    BY <2>1, <2>2 DEF IsPrefix
<1>3. Len(<<>>) = 0
  OBVIOUS
<1>4. QED
  BY <1>1, <1>2, <1>3 DEF Occurrences

\* A part that occurs once at most has one place at most.
LEMMA OnePlace ==
    ASSUME NEW part \in Text, NEW s \in Text, ~(Cardinality(Occurrences(part, s)) > 1)
    PROVE  \A m, n \in Occurrences(part, s) : m = n
<1> DEFINE places == Occurrences(part, s)
<1>1. IsFiniteSet(places)
  <2>1. Len(part) \in Nat /\ Len(s) \in Nat
    BY DEF Text
  <2>2. IsFiniteSet(0 .. Len(s) - Len(part))
    BY <2>1, FS_Interval
  <2>3. places \in SUBSET (0 .. Len(s) - Len(part))
    BY DEF Occurrences
  <2> HIDE DEF places
  <2>4. QED
    BY <2>2, <2>3, FS_Subset
<1>2. Cardinality(places) \in Nat
  BY <1>1, FS_CardinalityType
<1> HIDE DEF places
<1>3. Cardinality(places) = 0 \/ Cardinality(places) = 1
  BY <1>2 DEF places
<1>4. places = {} \/ \E x : places = {x}
  BY <1>1, <1>3, FS_EmptySet, FS_Singleton
<1>5. QED
  BY <1>4 DEF places

\* wildcard_match accepts only what the pattern means, and all of it but for a
\* pattern whose last part has letters and occurs more than once.
LEMMA PatternMeans ==
    ASSUME NEW parts \in Seq(Text), Len(parts) > 1, NEW s \in Text
    PROVE  /\ wildcard_match(parts, s) => Len(s) \in Reached(parts, s)[Len(parts)]
           /\ /\ Len(s) \in Reached(parts, s)[Len(parts)]
              /\ ~(Last(parts) # <<>> /\ Cardinality(Occurrences(Last(parts), s)) > 1)
              => wildcard_match(parts, s)
<1> DEFINE N    == Len(parts)
           part == parts[N]
           ends == Reached(parts, s)[N]
           rest == Rests(parts, s)[N]
           last == N - 1
           before == Reached(parts, s)[last]
<1>1. N \in Nat /\ N \in 1 .. N /\ last \in 1 .. N /\ N # 1 /\ N - 1 = last
  <2>1. N \in Nat /\ N > 1
    BY LenProperties
  <2> HIDE DEF N
  <2>2. QED
    BY <2>1
<1> HIDE DEF last
<1>2. part \in Text /\ Last(parts) = part /\ Len(s) \in Nat
  BY <1>1, ElementOfSeq DEF Last, Text
<1>3. /\ ends \subseteq 0 .. Len(s)
      /\ ends = {} => rest = {}
      /\ ends # {} => \E m \in ends : rest = {m} /\ \A e \in ends : m <= e
  BY <1>1, GreedyAll DEF Greedy
<1>4. before \subseteq 0 .. Len(s)
  BY <1>1, GreedyAll DEF Greedy
<1>5. ends = {m + Len(part) : m \in {o \in Occurrences(part, s) : \E end \in before : end <= o}}
  BY <1>1, PartAfterPart
<1>6. wildcard_match(parts, s) <=> \E n \in rest : part = <<>> \/ n = Len(s)
  BY <1>2 DEF wildcard_match
<1>7. Occurrences(part, s) \in SUBSET Nat
  BY <1>2, Places
<1> HIDE DEF part, ends, rest, before
<1>8. CASE part = <<>>
  <2>1. ends # {} => Len(s) \in ends
    <3>1. ASSUME NEW m \in Occurrences(part, s), NEW end \in before, end <= m
          PROVE  Len(s) + Len(part) \in ends
      <4>1. Len(s) \in Occurrences(part, s) /\ end <= Len(s)
        BY <1>2, <1>4, <1>8, BlankPart
      <4>2. QED
        BY <1>5, <4>1
    <3>2. Len(s) + Len(part) = Len(s)
      BY <1>2, <1>8
    <3>3. QED
      BY <1>5, <3>1, <3>2
  <2>2. QED
    BY <1>2, <1>3, <1>6, <1>8, <2>1 DEF ends, N
<1>9. CASE part # <<>>
  <2>1. (\E n \in rest : n = Len(s)) => Len(s) \in ends
    BY <1>3
  <2>2. ASSUME Len(s) \in ends, ~(Cardinality(Occurrences(part, s)) > 1)
        PROVE  Len(s) \in rest
    <3>1. \A m, n \in Occurrences(part, s) : m = n
      BY <1>2, <2>2, OnePlace
    <3>2. \A e \in ends : e = Len(s)
      BY <1>5, <2>2, <3>1
    <3>3. QED
      BY <1>3, <2>2, <3>2
  <2>3. QED
    BY <1>2, <1>6, <1>9, <2>1, <2>2 DEF ends, N
<1>10. QED
  BY <1>8, <1>9

-----------------------------------------------------------------------------
(* Names *)

\* A set of numbers with a bound has a greatest one.
LEMMA MaxIn ==
    ASSUME NEW n \in Nat, NEW S \in SUBSET (0 .. n), S # {}
    PROVE  Max(S) \in S
<1> DEFINE Down == {n - x : x \in S}
<1>1. Down \in SUBSET Nat /\ Down # {}
  <2>1. ASSUME NEW x \in S PROVE n - x \in Nat
    <3>1. x \in 0 .. n
      OBVIOUS
    <3>2. QED
      BY <3>1
  <2>2. QED
    BY <2>1
<1>2. Min(Down) \in Down /\ \A d \in Down : Min(Down) <= d
  BY <1>1, MinIn
<1>3. PICK m \in S : \A x \in S : n - m <= n - x
  BY <1>2
<1>4. \A x \in S : m >= x
  BY <1>3
<1>5. QED
  BY <1>4 DEF Max

\* The host without its last dots is a text.
LEMMA Trimmed == ASSUME NEW s \in Text PROVE trim_dots(s) \in Text
<1> DEFINE kept == {0} \cup {i \in DOMAIN s : s[i] # Dot}
<1>1. Len(s) \in Nat /\ DOMAIN s = 1 .. Len(s)
  BY LenProperties DEF Text
<1>2. kept \in SUBSET (0 .. Len(s)) /\ kept # {}
  BY <1>1
<1> HIDE DEF kept
<1>3. Max(kept) \in 0 .. Len(s)
  BY <1>1, <1>2, MaxIn
<1> DEFINE n == Max(kept)
<1>4. \A i \in 1 .. n : s[i] \in Letters
  BY <1>1, <1>3, ElementOfSeq DEF Text
<1>5. SubSeq(s, 1, n) \in Seq(Letters)
  BY <1>3, <1>4, SubSeqProperties DEF Text
<1>6. QED
  BY <1>5 DEF trim_dots, Text, kept

\* The text without its first letters.
LEMMA Behind ==
    ASSUME NEW s \in Text, NEW n \in 0 .. Len(s)
    PROVE  /\ From(s, n) \in Text /\ Len(From(s, n)) = Len(s) - n
           /\ \A j \in 1 .. Len(s) - n : From(s, n)[j] = s[n + j]
<1>1. Len(s) \in Nat
  BY LenProperties DEF Text
<1>2. \A i \in n + 1 .. Len(s) : s[i] \in Letters
  BY <1>1, ElementOfSeq DEF Text
<1>3. /\ SubSeq(s, n + 1, Len(s)) \in Seq(Letters)
      /\ Len(SubSeq(s, n + 1, Len(s))) = IF n + 1 <= Len(s) THEN Len(s) - (n + 1) + 1 ELSE 0
      /\ \A i \in 1 .. Len(s) - (n + 1) + 1 : SubSeq(s, n + 1, Len(s))[i] = s[n + 1 + i - 1]
  BY <1>1, <1>2, SubSeqProperties
<1>4. QED
  BY <1>1, <1>3 DEF From, Text

\* ends_with.
LEMMA EndsWith ==
    ASSUME NEW s \in Text, NEW t \in Text
    PROVE  IsSuffix(s, t) <=> Len(s) <= Len(t) /\ From(t, Len(t) - Len(s)) = s
<1> DEFINE m == Len(s)
           n == Len(t)
           rs == Reverse(s)
           rt == Reverse(t)
<1>1. m \in Nat /\ n \in Nat
  BY LenProperties DEF Text
<1>2. /\ rs \in Seq(Letters) /\ Len(rs) = m /\ \A i \in 1 .. m : rs[i] = s[(m - i) + 1]
      /\ rt \in Seq(Letters) /\ Len(rt) = n /\ \A i \in 1 .. n : rt[i] = t[(n - i) + 1]
  <2>1. \A u \in Text : /\ Reverse(u) \in Seq(Letters) /\ Len(Reverse(u)) = Len(u)
                        /\ \A i \in 1 .. Len(u) : Reverse(u)[i] = u[(Len(u) - i) + 1]
    <3> TAKE u \in Text
    <3>1. Len(u) \in Nat
      BY LenProperties DEF Text
    <3>2. \A i \in 1 .. Len(u) : u[(Len(u) - i) + 1] \in Letters
      BY <3>1, ElementOfSeq DEF Text
    <3>3. Reverse(u) \in [1 .. Len(u) -> Letters]
      BY <3>2 DEF Reverse
    <3>4. QED
      BY <3>1, <3>3, IsASeq, LenProperties DEF Reverse
  <2>2. QED
    BY <2>1
<1> HIDE DEF rs, rt
<1>3. CASE m > n
  BY <1>1, <1>2, <1>3 DEF IsSuffix, IsPrefix, rs, rt
<1>4. CASE m <= n
  <2> DEFINE ps == SubSeq(rs, 1, m)
             pt == SubSeq(rt, 1, m)
             tail == From(t, n - m)
  <2>1. /\ ps \in Seq(Letters) /\ Len(ps) = m /\ \A i \in 1 .. m : ps[i] = rs[i]
        /\ pt \in Seq(Letters) /\ Len(pt) = m /\ \A i \in 1 .. m : pt[i] = rt[i]
    <3>1. \A u \in Seq(Letters) : m <= Len(u) =>
             /\ SubSeq(u, 1, m) \in Seq(Letters) /\ Len(SubSeq(u, 1, m)) = m
             /\ \A i \in 1 .. m : SubSeq(u, 1, m)[i] = u[i]
      <4> TAKE u \in Seq(Letters)
      <4> HAVE m <= Len(u)
      <4>1. \A i \in 1 .. m : u[i] \in Letters
        BY <1>1, ElementOfSeq
      <4>2. /\ SubSeq(u, 1, m) \in Seq(Letters)
            /\ Len(SubSeq(u, 1, m)) = IF 1 <= m THEN m - 1 + 1 ELSE 0
            /\ \A i \in 1 .. m - 1 + 1 : SubSeq(u, 1, m)[i] = u[1 + i - 1]
        BY <1>1, <4>1, SubSeqProperties
      <4>3. QED
        BY <1>1, <4>2
    <3>2. QED
      BY <1>2, <1>4, <3>1
  <2>2. /\ tail \in Text /\ Len(tail) = m /\ \A j \in 1 .. m : tail[j] = t[(n - m) + j]
    <3>1. n - m \in 0 .. n /\ n - (n - m) = m
      BY <1>1, <1>4
    <3>2. QED
      BY <3>1, Behind
  <2> HIDE DEF ps, pt, tail
  <2>3. (ps = pt) <=> \A i \in 1 .. m : rs[i] = rt[i]
    BY <2>1, SeqEqual
  <2>4. (tail = s) <=> \A j \in 1 .. m : t[(n - m) + j] = s[j]
    <3>1. tail \in Seq(Letters) /\ s \in Seq(Letters)
      BY <2>2 DEF Text
    <3>2. QED
      BY <2>2, <3>1, SeqEqual
  <2>5. ASSUME \A i \in 1 .. m : rs[i] = rt[i] PROVE \A j \in 1 .. m : t[(n - m) + j] = s[j]
    <3> TAKE j \in 1 .. m
    <3>1. (m - j) + 1 \in 1 .. m /\ (m - j) + 1 \in 1 .. n
          /\ (m - ((m - j) + 1)) + 1 = j /\ (n - ((m - j) + 1)) + 1 = (n - m) + j
      BY <1>1, <1>4
    <3>2. rs[(m - j) + 1] = s[j] /\ rt[(m - j) + 1] = t[(n - m) + j]
      BY <1>2, <3>1
    <3>3. QED
      BY <2>5, <3>1, <3>2
  <2>6. ASSUME \A j \in 1 .. m : t[(n - m) + j] = s[j] PROVE \A i \in 1 .. m : rs[i] = rt[i]
    <3> TAKE i \in 1 .. m
    <3>1. (m - i) + 1 \in 1 .. m /\ i \in 1 .. n /\ (n - m) + ((m - i) + 1) = (n - i) + 1
      BY <1>1, <1>4
    <3>2. rs[i] = s[(m - i) + 1] /\ rt[i] = t[(n - i) + 1]
      BY <1>2, <3>1
    <3>3. QED
      BY <2>6, <3>1, <3>2
  <2>7. IsSuffix(s, t) <=> ps = pt
    BY <1>2, <1>4 DEF IsSuffix, IsPrefix, rs, rt, ps, pt
  <2>8. QED
    BY <1>4, <2>3, <2>4, <2>5, <2>6, <2>7 DEF tail
<1>5. QED
  BY <1>1, <1>3, <1>4

\* A rule that is a name means the name itself and the names below it.
LEMMA NameMeans ==
    ASSUME NEW name \in Text, NEW s \in Text
    PROVE  (s = name \/ IsSuffix(<<Dot>> \o name, s))
              <=> \E n \in 0 .. Len(s) : From(s, n) = name /\ (n = 0 \/ s[n] = Dot)
<1> DEFINE dotted == <<Dot>> \o name
           below  == Len(s) - (Len(name) + 1)
<1>1. Len(s) \in Nat /\ Len(name) \in Nat
  BY LenProperties DEF Text
<1>2. <<Dot>> \in Seq(Letters) /\ Len(<<Dot>>) = 1 /\ <<Dot>>[1] = Dot
  <2>1. Dot \in Letters
    BY NoProxyAssumption
  <2>2. \A x \in Letters : <<x>> \in Seq(Letters) /\ Len(<<x>>) = 1 /\ <<x>>[1] = x
    OBVIOUS
  <2>3. QED
    BY <2>1, <2>2
<1>3. /\ dotted \in Text /\ Len(dotted) = Len(name) + 1 /\ dotted[1] = Dot
      /\ \A j \in 1 .. Len(name) : dotted[j + 1] = name[j]
  BY <1>1, <1>2, ConcatProperties DEF Text
<1> HIDE DEF dotted
<1>4. From(s, 0) = s
  <2>1. From(s, 0) \in Seq(Letters) /\ s \in Seq(Letters)
    BY <1>1, Behind DEF Text
  <2>2. Len(From(s, 0)) = Len(s) /\ \A j \in 1 .. Len(s) : From(s, 0)[j] = s[j]
    <3>1. 0 \in 0 .. Len(s) /\ Len(s) - 0 = Len(s) /\ \A j \in 1 .. Len(s) : 0 + j = j
      BY <1>1
    <3>2. QED
      BY <3>1, Behind
  <2>3. QED
    BY <2>1, <2>2, SeqEqual
<1>5. IsSuffix(dotted, s) <=> Len(name) + 1 <= Len(s) /\ From(s, below) = dotted
  BY <1>3, EndsWith
<1>6. ASSUME Len(name) + 1 <= Len(s)
      PROVE  From(s, below) = dotted <=> From(s, below + 1) = name /\ s[below + 1] = Dot
  <2>1. below \in 0 .. Len(s) /\ below + 1 \in 0 .. Len(s)
        /\ Len(s) - below = Len(name) + 1 /\ Len(s) - (below + 1) = Len(name)
    BY <1>1, <1>6
  <2> DEFINE upper == From(s, below)
             lower == From(s, below + 1)
  <2>2. /\ upper \in Text /\ Len(upper) = Len(name) + 1
        /\ \A j \in 1 .. Len(name) + 1 : upper[j] = s[below + j]
    BY <2>1, Behind
  <2>3. /\ lower \in Text /\ Len(lower) = Len(name)
        /\ \A j \in 1 .. Len(name) : lower[j] = s[(below + 1) + j]
    BY <2>1, Behind
  <2> HIDE DEF upper, lower, below
  <2>4. upper = dotted <=> \A j \in 1 .. Len(name) + 1 : s[below + j] = dotted[j]
    <3>1. upper \in Seq(Letters) /\ dotted \in Seq(Letters)
      BY <1>3, <2>2 DEF Text
    <3>2. QED
      BY <1>3, <2>2, <3>1, SeqEqual
  <2>5. lower = name <=> \A j \in 1 .. Len(name) : s[(below + 1) + j] = name[j]
    <3>1. lower \in Seq(Letters) /\ name \in Seq(Letters)
      BY <2>3 DEF Text
    <3>2. QED
      BY <2>3, <3>1, SeqEqual
  <2>6. below \in Nat
    BY <2>1
  <2>7. (\A j \in 1 .. Len(name) + 1 : s[below + j] = dotted[j])
           <=> s[below + 1] = Dot /\ \A j \in 1 .. Len(name) : s[(below + 1) + j] = name[j]
    <3>1. ASSUME \A j \in 1 .. Len(name) + 1 : s[below + j] = dotted[j]
          PROVE  s[below + 1] = Dot /\ \A j \in 1 .. Len(name) : s[(below + 1) + j] = name[j]
      <4>1. 1 \in 1 .. Len(name) + 1
        BY <1>1
      <4>2. ASSUME NEW j \in 1 .. Len(name) PROVE s[(below + 1) + j] = name[j]
        <5>1. j + 1 \in 1 .. Len(name) + 1 /\ below + (j + 1) = (below + 1) + j
          BY <1>1, <2>6
        <5>2. QED
          BY <1>3, <3>1, <5>1
      <4>3. QED
        BY <1>3, <3>1, <4>1, <4>2
    <3>2. ASSUME s[below + 1] = Dot, \A j \in 1 .. Len(name) : s[(below + 1) + j] = name[j],
                 NEW j \in 1 .. Len(name) + 1
          PROVE  s[below + j] = dotted[j]
      <4>1. CASE j = 1
        BY <1>3, <3>2, <4>1
      <4>2. CASE j # 1
        <5>1. j - 1 \in 1 .. Len(name) /\ (j - 1) + 1 = j /\ (below + 1) + (j - 1) = below + j
          BY <1>1, <2>6, <4>2
        <5>2. QED
          BY <1>3, <3>2, <5>1
      <4>3. QED
        BY <4>1, <4>2
    <3>3. QED
      BY <3>1, <3>2
  <2>8. QED
    BY <2>4, <2>5, <2>7 DEF upper, lower
<1>7. ASSUME NEW n \in 0 .. Len(s), From(s, n) = name
      PROVE  n = Len(s) - Len(name)
  <2>1. Len(From(s, n)) = Len(s) - n
    BY Behind
  <2>2. QED
    BY <1>1, <1>7, <2>1
<1>8. ASSUME IsSuffix(dotted, s)
      PROVE  \E n \in 0 .. Len(s) : From(s, n) = name /\ s[n] = Dot
  <2>1. below + 1 \in 0 .. Len(s) /\ From(s, below + 1) = name /\ s[below + 1] = Dot
    BY <1>1, <1>5, <1>6, <1>8
  <2>2. QED
    BY <2>1
<1>9. ASSUME NEW n \in 0 .. Len(s), From(s, n) = name, n = 0 \/ s[n] = Dot
      PROVE  s = name \/ IsSuffix(dotted, s)
  <2>1. CASE n = 0
    BY <1>4, <1>9, <2>1
  <2>2. CASE n # 0
    <3>1. n = below + 1 /\ Len(name) + 1 <= Len(s)
      BY <1>1, <1>7, <1>9, <2>2
    <3>2. QED
      BY <1>5, <1>6, <1>9, <2>2, <3>1
  <2>3. QED
    BY <2>1, <2>2
<1>10. QED
  BY <1>1, <1>4, <1>8, <1>9 DEF dotted

-----------------------------------------------------------------------------
(* Networks *)

\* The powers of two.
LEMMA TwoToDef ==
    /\ TwoTo \in [Nat -> Nat \ {0}]
    /\ TwoTo[0] = 1 /\ \A n \in Nat : TwoTo[n + 1] = 2 * TwoTo[n]
<1> DEFINE T == Nat \ {0}
           step == [k \in Nat |-> [x \in T |-> 2 * x]]
<1>1. step \in [Nat -> [T -> T]] /\ 1 \in T
  OBVIOUS
<1> HIDE DEF step, T
<1>2. PICK f : Follows(f, T, 1, step)
  BY <1>1, Recursion
<1>3. f \in [Nat -> T] /\ f[0] = 1 /\ \A n \in Nat : f[n + 1] = 2 * f[n]
  <2>1. f \in [Nat -> T] /\ f[0] = 1 /\ \A n \in Nat : f[n + 1] = step[n + 1][f[n]]
    BY <1>2 DEF Follows
  <2>2. \A k \in Nat, x \in T : step[k][x] = 2 * x
    BY DEF step
  <2>3. QED
    BY <2>1, <2>2
<1>4. ASSUME NEW n \in Nat PROVE f[n] = IF n = 0 THEN 1 ELSE 2 * f[n - 1]
  <2>1. CASE n = 0
    BY <1>3, <2>1
  <2>2. CASE n # 0
    <3>1. n - 1 \in Nat /\ (n - 1) + 1 = n
      BY <2>2
    <3>2. QED
      BY <1>3, <2>2, <3>1
  <2>3. QED
    BY <2>1, <2>2
<1>5. f = [n \in Nat |-> IF n = 0 THEN 1 ELSE 2 * f[n - 1]]
  BY <1>3, <1>4
<1>6. TwoTo = [n \in Nat |-> IF n = 0 THEN 1 ELSE 2 * TwoTo[n - 1]]
  BY <1>5, Zenon DEF TwoTo
<1>7. \A n \in Nat : TwoTo[n] = IF n = 0 THEN 1 ELSE 2 * TwoTo[n - 1]
  BY <1>6, Zenon
<1>8. TwoTo[0] = 1
  BY <1>7
<1>9. ASSUME NEW n \in Nat PROVE TwoTo[n + 1] = 2 * TwoTo[n]
  <2>1. n + 1 \in Nat /\ n + 1 # 0 /\ (n + 1) - 1 = n
    OBVIOUS
  <2>2. QED
    BY <1>7, <2>1
<1> DEFINE Positive == {n \in Nat : TwoTo[n] \in T}
<1>10. Nat \subseteq Positive
  <2>1. 0 \in Positive
    BY <1>1, <1>8
  <2>2. \A n \in Nat : n \in Positive => n + 1 \in Positive
    BY <1>9 DEF T
  <2> HIDE DEF Positive
  <2>3. QED
    BY <2>1, <2>2, Induction
<1>11. TwoTo \in [Nat -> T]
  <2>1. \A n \in Nat : TwoTo[n] \in T
    BY <1>10
  <2>2. TwoTo = [n \in Nat |-> TwoTo[n]]
    BY <1>6, <1>7
  <2>3. QED
    BY <2>1, <2>2
<1>12. QED
  BY <1>8, <1>9, <1>11 DEF T

\* Halving what is left of a number.
LEMMA Halves ==
    ASSUME NEW x \in Nat, NEW n \in Nat
    PROVE  x \div TwoTo[n] \in Nat /\ x \div TwoTo[n + 1] = (x \div TwoTo[n]) \div 2
<1>1. \A p \in Nat \ {0} : x \div p \in Nat /\ x \div (2 * p) = (x \div p) \div 2
  BY SMT
<1>2. TwoTo[n] \in Nat \ {0} /\ TwoTo[n + 1] = 2 * TwoTo[n]
  BY TwoToDef
<1>3. QED
  BY <1>1, <1>2

\* Clearing the same bits of two numbers leaves the same if the rest is the same.
LEMMA Masks ==
    ASSUME NEW x \in Nat, NEW y \in Nat, NEW b \in Nat
    PROVE  Masked(x, b) = Masked(y, b) <=> x \div TwoTo[b] = y \div TwoTo[b]
<1>1. \A p \in Nat \ {0} : x - (x % p) = p * (x \div p) /\ y - (y % p) = p * (y \div p)
                            /\ x \div p \in Nat /\ y \div p \in Nat
  BY SMT
<1>2. \A p \in Nat \ {0}, m, n \in Nat : p * m = p * n => m = n
  BY SMT
<1>3. TwoTo[b] \in Nat \ {0}
  BY TwoToDef
<1>4. QED
  BY <1>1, <1>2, <1>3 DEF Masked

\* Two numbers agree from a bit upwards if their quotients do.
LEMMA HighBits ==
    ASSUME NEW width \in Nat, NEW x \in Nat, NEW y \in Nat,
           x < TwoTo[width], y < TwoTo[width], NEW b \in 0 .. width
    PROVE  x \div TwoTo[b] = y \div TwoTo[b]
              <=> \A j \in Nat : b <= j /\ j < width =>
                     (x \div TwoTo[j]) % 2 = (y \div TwoTo[j]) % 2
<1> DEFINE X(j) == x \div TwoTo[j]
           Y(j) == y \div TwoTo[j]
<1>1. \A j \in Nat : /\ X(j) \in Nat /\ X(j + 1) = X(j) \div 2
                     /\ Y(j) \in Nat /\ Y(j + 1) = Y(j) \div 2
  BY Halves
<1>2. X(width) = 0 /\ Y(width) = 0
  <2>1. \A p \in Nat \ {0}, z \in Nat : z < p => z \div p = 0
    BY SMT
  <2>2. QED
    BY <2>1, TwoToDef
<1> HIDE DEF X, Y
<1>3. ASSUME X(b) = Y(b), NEW j \in Nat, b <= j
      PROVE  X(j) = Y(j)
  <2> DEFINE So == {k \in Nat : X(b + k) = Y(b + k)}
  <2>1. 0 \in So
    BY <1>3
  <2>2. ASSUME NEW k \in Nat, k \in So PROVE k + 1 \in So
    <3>1. b + k \in Nat /\ b + (k + 1) = (b + k) + 1
      OBVIOUS
    <3>2. X((b + k) + 1) = Y((b + k) + 1)
      BY <1>1, <2>2, <3>1
    <3>3. QED
      BY <3>1, <3>2
  <2> HIDE DEF So
  <2>3. Nat \subseteq So
    BY <2>1, <2>2, Induction
  <2>4. j - b \in So /\ b + (j - b) = j
    BY <1>3, <2>3
  <2>5. QED
    BY <2>4 DEF So
<1>4. ASSUME \A j \in Nat : b <= j /\ j < width => X(j) % 2 = Y(j) % 2
      PROVE  X(b) = Y(b)
  <2> DEFINE So == {k \in Nat : k <= width - b => X(width - k) = Y(width - k)}
  <2>1. 0 \in So
    BY <1>2
  <2>2. ASSUME NEW k \in Nat, k \in So PROVE k + 1 \in So
    <3>1. SUFFICES ASSUME k + 1 <= width - b PROVE X(width - (k + 1)) = Y(width - (k + 1))
      OBVIOUS
    <3> DEFINE j == width - (k + 1)
    <3>2. j \in Nat /\ b <= j /\ j < width /\ j + 1 = width - k /\ k <= width - b
      BY <3>1
    <3> HIDE DEF j
    <3>3. X(j + 1) = Y(j + 1)
      BY <2>2, <3>2
    <3>4. X(j) % 2 = Y(j) % 2
      BY <1>4, <3>2
    <3>5. X(j) \div 2 = Y(j) \div 2 /\ X(j) \in Nat /\ Y(j) \in Nat
      BY <1>1, <3>2, <3>3
    <3>6. X(j) = Y(j)
      BY <3>4, <3>5
    <3>7. QED
      BY <3>6 DEF j
  <2> HIDE DEF So
  <2>3. Nat \subseteq So
    BY <2>1, <2>2, Induction
  <2>4. width - b \in So /\ width - (width - b) = b
    BY <2>3
  <2>5. QED
    BY <2>4 DEF So
<1>5. QED
  BY <1>3, <1>4 DEF X, Y

\* An address is in a network when the bits of the prefix are its bits.
LEMMA NetworkMeans ==
    ASSUME NEW net \in Address, NEW prefix \in Nat, NEW ip \in Address
    PROVE  cidr_contains(net, prefix, ip)
              <=> /\ net.family = ip.family
                  /\ \A i \in 1 .. Width[ip.family] : i <= prefix =>
                        Bit(net.bits, i, Width[ip.family]) = Bit(ip.bits, i, Width[ip.family])
<1>1. CASE net.family # ip.family
  BY <1>1 DEF cidr_contains
<1>2. CASE net.family = ip.family
  <2> DEFINE width == Width[ip.family]
             b == host_bits(prefix, width)
             x == net.bits
             y == ip.bits
  <2>1. width \in Nat /\ x \in Nat /\ y \in Nat /\ x < TwoTo[width] /\ y < TwoTo[width]
    BY <1>2, NoProxyAssumption DEF Address
  <2> HIDE DEF width, x, y
  <2>2. b \in 0 .. width /\ \A i \in 1 .. width : i <= prefix <=> b <= width - i
    BY <2>1 DEF host_bits
  <2> HIDE DEF b
  <2>3. Masked(x, b) = Masked(y, b)
           <=> \A j \in Nat : b <= j /\ j < width => (x \div TwoTo[j]) % 2 = (y \div TwoTo[j]) % 2
    BY <2>1, <2>2, Masks, HighBits
  <2>4. (\A j \in Nat : b <= j /\ j < width => (x \div TwoTo[j]) % 2 = (y \div TwoTo[j]) % 2)
           <=> \A i \in 1 .. width : i <= prefix => Bit(x, i, width) = Bit(y, i, width)
    <3>1. ASSUME \A j \in Nat : b <= j /\ j < width => (x \div TwoTo[j]) % 2 = (y \div TwoTo[j]) % 2,
                 NEW i \in 1 .. width, i <= prefix
          PROVE  Bit(x, i, width) = Bit(y, i, width)
      <4>1. width - i \in Nat /\ b <= width - i /\ width - i < width
        <5>1. b <= width - i
          BY <2>2, <3>1
        <5>2. width \in Nat /\ i \in Nat /\ 1 <= i /\ i <= width
          BY <2>1
        <5>3. QED
          BY <5>1, <5>2
      <4>2. QED
        BY <3>1, <4>1 DEF Bit
    <3>2. ASSUME \A i \in 1 .. width : i <= prefix => Bit(x, i, width) = Bit(y, i, width),
                 NEW j \in Nat, b <= j, j < width
          PROVE  (x \div TwoTo[j]) % 2 = (y \div TwoTo[j]) % 2
      <4> DEFINE i == width - j
      <4>1. i \in 1 .. width /\ i <= prefix /\ width - i = j
        BY <2>1, <2>2, <3>2
      <4> HIDE DEF i
      <4>2. Bit(x, i, width) = Bit(y, i, width)
        BY <3>2, <4>1
      <4>3. QED
        BY <4>1, <4>2 DEF Bit
    <3>3. QED
      BY <3>1, <3>2
  <2>5. cidr_contains(net, prefix, ip) <=> Masked(x, b) = Masked(y, b)
    BY <1>2 DEF cidr_contains, x, y, b, width
  <2>6. QED
    BY <1>2, <2>3, <2>4, <2>5 DEF x, y, width
<1>3. QED
  BY <1>1, <1>2

-----------------------------------------------------------------------------
(* Rules *)

\* noproxy.rs decides by what a rule means; it may miss a pattern whose last part
\* has letters and occurs more than once in the host, and nothing else.
LEMMA RuleMeans ==
    ASSUME NEW h \in Host, NEW rule \in Rule, trim_dots(h.text) # <<>>
    PROVE  LET matched == rule_matches(trim_dots(h.text), h.ips, rule)
           IN  /\ matched => Means(rule, h)
               /\ Means(rule, h) /\ ~EndsTwice(rule, h) => matched
<1> DEFINE text    == trim_dots(h.text)
           matched == rule_matches(text, h.ips, rule)
<1>1. text \in Text /\ text # <<>> /\ h.ips \subseteq Address
  BY Trimmed DEF Host
<1>2. \/ rule.kind = "cidr" /\ rule.net \in Address /\ rule.prefix \in Nat
      \/ rule.kind = "pattern" /\ rule.parts \in Seq(Text) /\ Len(rule.parts) > 1
      \/ rule.kind = "ip"
      \/ rule.kind = "name" /\ rule.name \in Text
  BY DEF Rule
<1> HIDE DEF text
<1>3. CASE rule.kind = "cidr" /\ rule.net \in Address /\ rule.prefix \in Nat
  <2>1. matched <=> \E ip \in h.ips : cidr_contains(rule.net, rule.prefix, ip)
    BY <1>3 DEF rule_matches
  <2>2. Means(rule, h) <=>
           \E ip \in h.ips :
              /\ rule.net.family = ip.family
              /\ \A i \in 1 .. Width[ip.family] : i <= rule.prefix =>
                    Bit(rule.net.bits, i, Width[ip.family]) = Bit(ip.bits, i, Width[ip.family])
    BY <1>1, <1>3 DEF Means, text
  <2>3. \A ip \in h.ips : cidr_contains(rule.net, rule.prefix, ip) <=>
              /\ rule.net.family = ip.family
              /\ \A i \in 1 .. Width[ip.family] : i <= rule.prefix =>
                    Bit(rule.net.bits, i, Width[ip.family]) = Bit(ip.bits, i, Width[ip.family])
    BY <1>1, <1>3, NetworkMeans
  <2> HIDE DEF matched
  <2>4. QED
    BY <2>1, <2>2, <2>3 DEF matched, text
<1>4. CASE rule.kind = "pattern" /\ rule.parts \in Seq(Text) /\ Len(rule.parts) > 1
  <2>1. matched <=> wildcard_match(rule.parts, text)
    BY <1>4 DEF rule_matches
  <2>2. Means(rule, h) <=> Len(text) \in Reached(rule.parts, text)[Len(rule.parts)]
    BY <1>1, <1>4 DEF Means, text
  <2>3. EndsTwice(rule, h) <=>
           Last(rule.parts) # <<>> /\ Cardinality(Occurrences(Last(rule.parts), text)) > 1
    BY <1>4 DEF EndsTwice, text
  <2> HIDE DEF matched
  <2>4. QED
    BY <1>1, <1>4, <2>1, <2>2, <2>3, PatternMeans DEF matched, text
<1>5. CASE rule.kind = "ip"
  BY <1>1, <1>5 DEF rule_matches, Means, text
<1>6. CASE rule.kind = "name" /\ rule.name \in Text
  <2>1. matched <=> text = rule.name \/ IsSuffix(<<Dot>> \o rule.name, text)
    BY <1>6 DEF rule_matches
  <2>2. Means(rule, h) <=>
           \E n \in 0 .. Len(text) : From(text, n) = rule.name /\ (n = 0 \/ text[n] = Dot)
    BY <1>1, <1>6 DEF Means, text
  <2> HIDE DEF matched
  <2>3. QED
    BY <1>1, <1>6, <2>1, <2>2, NameMeans DEF matched, text
<1>7. QED
  BY <1>2, <1>3, <1>4, <1>5, <1>6

\* The rules as a whole.
LEMMA RulesMean ==
    ASSUME NEW h \in Host, NEW rules \in SUBSET Rule
    PROVE  /\ matches(h, rules) => \E rule \in rules : Means(rule, h)
           /\ (\E rule \in rules : Means(rule, h) /\ ~EndsTwice(rule, h)) => matches(h, rules)
<1>1. CASE trim_dots(h.text) = <<>>
  BY <1>1 DEF matches, Means
<1>2. CASE trim_dots(h.text) # <<>>
  <2>1. \A rule \in rules :
           /\ rule_matches(trim_dots(h.text), h.ips, rule) => Means(rule, h)
           /\ Means(rule, h) /\ ~EndsTwice(rule, h) => rule_matches(trim_dots(h.text), h.ips, rule)
    BY <1>2, RuleMeans
  <2>2. QED
    BY <1>2, <2>1 DEF matches
<1>3. QED
  BY <1>1, <1>2

\* A host goes round the proxies by Bypass alone.
LEMMA OnlyBypass ==
    ASSUME Inv, pc = "rules", Next
    PROVE  /\ host \in Hosts /\ cfg \in Configs
           /\ matches(host, cfg.noproxy) => pc' = "done" /\ said' = None /\ answer' = <<Direct>>
           /\ pc' = "done" /\ said' = None /\ answer' = <<Direct>> => matches(host, cfg.noproxy)
<1>1. host \in Hosts /\ cfg \in Configs /\ validate(cfg)
  BY DEF Inv, TypeOK
<1>2. Bypass \/ Upstream \/ Script \/ \E s \in Settings \cup {None} : ReadSettings(s)
  BY DEF Next, proxy_for_url, Call, StaticList, Begin, Open, OpenFails, FindsNothing, GivesNothing,
         Gives, Returned
<1>3. CASE Bypass
  BY <1>1, <1>3 DEF Bypass, Return
<1>4. CASE Upstream
  <2>1. HasUpstream(cfg) /\ ~matches(host, cfg.noproxy)
    BY <1>1, <1>4 DEF Upstream, validate
  <2> DEFINE text == <<[word |-> "PROXY", addr |-> cfg.upstream]>>
  <2>2. text \in Seq(Token)
    BY <1>1, <2>1, UpstreamMeans
  <2>3. said' = text
    BY <1>4, <2>1 DEF Upstream, Return
  <2> HIDE DEF text
  <2>4. said' # None
    BY <2>2, <2>3, LookupAssumption
  <2>5. QED
    BY <1>1, <2>1, <2>4
<1>5. CASE Script
  BY <1>1, <1>5, Distinct DEF Script, Begin, Return
<1>6. CASE \E s \in Settings \cup {None} : ReadSettings(s)
  BY <1>1, <1>6 DEF ReadSettings, Begin
<1>7. QED
  BY <1>2, <1>3, <1>4, <1>5, <1>6

\* A host goes round the proxies exactly when a rule means it.
THEOREM BypassIsExact == Spec => BypassExact
<1> DEFINE A == pc = "rules" =>
                  LET bypassed == pc' = "done" /\ said' = None /\ answer' = <<Direct>>
                      meant    == {r \in cfg.noproxy : Means(r, host)}
                  IN  /\ bypassed => meant # {}
                      /\ (\E r \in meant : ~EndsTwice(r, host)) => bypassed
<1>1. Inv /\ [Next]_vars => [A]_vars
  <2> SUFFICES ASSUME Inv, Next, pc = "rules" PROVE A
    OBVIOUS
  <2>1. host \in Host /\ cfg.noproxy \in SUBSET Rule
    BY OnlyBypass, LookupAssumption
  <2>2. /\ matches(host, cfg.noproxy) => \E r \in cfg.noproxy : Means(r, host)
        /\ (\E r \in cfg.noproxy : Means(r, host) /\ ~EndsTwice(r, host)) => matches(host, cfg.noproxy)
    BY <2>1, RulesMean
  <2>3. QED
    BY <2>2, OnlyBypass
<1>2. QED
  BY <1>1, LookupInvariance, PTL DEF Spec, BypassExact
=============================================================================
