--------------------------- MODULE ResolverProofs ---------------------------
(***************************************************************************)
(* Proofs about Resolver, for every set of tasks, hosts and proxies, every *)
(* answer of PAC and every value of the time bounds.  Inv is inductive:    *)
(* one lemma per group of actions, then the theorems follow from it.       *)
(***************************************************************************)
EXTENDS Resolver, SequenceTheorems, TLAPS

\* Every answer for a URL is one of its host's answers, and a list.
LEMMA AnswersAreLists ==
    ASSUME NEW u \in Urls, NEW a \in AnswersFor[u]
    PROVE  /\ a \in HostAnswers(HostOf[u])
           /\ a \in Lists
           /\ a # <<>>
           /\ a \in Seq(Hop)
BY HostAssumption, AnswerAssumption DEF HostAnswers, Lists

\* Every list of a host is a list, and not empty.
LEMMA HostAnswersAreLists ==
    ASSUME NEW h \in Hosts, NEW a \in HostAnswers(h)
    PROVE  a \in Lists /\ a # <<>> /\ a \in Seq(Hop)
BY AnswerAssumption DEF HostAnswers, Lists

LEMMA ListsAreSeqs == ASSUME NEW a \in Lists PROVE a \in Seq(Hop)
<1>1. <<>> \in Seq(Hop) /\ <<Direct>> \in Seq(Hop)
  BY DEF Hop
<1> QED
  BY <1>1, HostAnswersAreLists DEF Lists

\* A task's host is one of the hosts.
LEMMA HostInHosts == ASSUME TypeOK, NEW t \in Tasks PROVE host(t) \in Hosts
BY HostAssumption DEF TypeOK, host

\* filter_blacklist keeps positions of the list, and never none of them.
LEMMA FilterKeepsSome ==
    ASSUME NEW hops \in Seq(Hop), hops # <<>>
    PROVE  /\ filter_blacklist(hops) \subseteq DOMAIN hops
           /\ filter_blacklist(hops) \subseteq Nat
           /\ filter_blacklist(hops) # {}
<1>1. DOMAIN hops \subseteq Nat /\ DOMAIN hops # {}
  <2>1. Len(hops) \in Nat \ {0} /\ DOMAIN hops = 1 .. Len(hops)
    OBVIOUS
  <2>2. 1 \in 1 .. Len(hops) /\ 1 .. Len(hops) \subseteq Nat
    OBVIOUS
  <2> QED
    BY <2>1, <2>2
<1> QED
  BY DEF filter_blacklist, Usable

LEMMA InitInv == Init => Inv
<1> SUFFICES ASSUME Init PROVE Inv
  OBVIOUS
<1>1. TypeOK
  <2>1. pac \in [Urls -> Lists] /\ \A u \in Urls : pac[u] \in AnswersFor[u]
    BY AnswersAreLists DEF Init
  <2>2. NoEntry \in Entry
    BY DEF NoEntry, Entry, Lists
  <2> QED
    BY <2>1, <2>2 DEF Init, TypeOK, Lists
<1>2. CacheInv /\ LookupInv /\ BanInv
  BY TimeAssumption DEF Init, CacheInv, LookupInv, BanInv, NoEntry
<1>3. ListInv /\ AnswersStayOnHost /\ SkipsBad /\ EveryDropHasCause
  BY DEF Init, ListInv, AnswersStayOnHost, SkipsBad, EveryDropHasCause, Resolved, HasList
<1> QED
  BY <1>1, <1>2, <1>3 DEF Inv

LEMMA BypassInv == ASSUME NEW t \in Tasks, Inv, Bypass(t) PROVE Inv'
<1>1. TypeOK'
  BY DEF Inv, TypeOK, Lists, Bypass, shared, history
<1>2. CacheInv'
  BY DEF Inv, CacheInv, Bypass, shared
<1>3. LookupInv' /\ BanInv'
  BY DEF Inv, LookupInv, BanInv, host, Bypass, shared, history
<1>4. ListInv'
  BY DEF Inv, TypeOK, ListInv, HasList, IsNext, host, Bypass, history
<1>5. AnswersStayOnHost'
  BY DEF Inv, AnswersStayOnHost, Resolved, HasList, host, Bypass
<1>6. SkipsBad'
  BY HopAssumption DEF Inv, TypeOK, SkipsBad, Bad, Bypass, shared, history
<1>7. EveryDropHasCause'
  BY DEF Inv, TypeOK, EveryDropHasCause, HasList, Bypass, shared
<1> QED
  BY <1>1, <1>2, <1>3, <1>4, <1>5, <1>6, <1>7 DEF Inv

LEMMA CacheHitInv == ASSUME NEW t \in Tasks, Inv, CacheHit(t) PROVE Inv'
<1>1. TypeOK'
  BY HostAssumption DEF Inv, TypeOK, Entry, host, CacheHit
<1>2. CacheInv'
  BY DEF Inv, CacheInv, CacheHit
<1>3. LookupInv' /\ BanInv'
  BY DEF Inv, LookupInv, BanInv, host, CacheHit
<1>. DEFINE h == host(t)
<1>a. h \in Hosts /\ h \notin NoProxy /\ cache[h].hops \in HostAnswers(h)
  <2>1. h \in Hosts
    BY HostInHosts DEF Inv
  <2>2. cache[h].until > 0
    BY <2>1 DEF Inv, TypeOK, Entry, CacheHit, Fresh
  <2> QED
    BY <2>1, <2>2 DEF Inv, CacheInv, CacheHit
<1>b. /\ raw'[t] = cache[h].hops /\ pc'[t] = "filter"
      /\ \A s \in Tasks : host(s)' = host(s)
      /\ \A s \in Tasks \ {t} : raw'[s] = raw[s] /\ pc'[s] = pc[s]
  BY DEF Inv, TypeOK, CacheHit, host
<1>4. ListInv'
  <2>1. todo[t] = {} /\ since[t] = {}
    BY DEF Inv, ListInv, HasList, CacheHit
  <2> QED
    BY <1>a, <1>b DEF Inv, ListInv, HasList, IsNext, CacheHit
<1>5. AnswersStayOnHost'
  BY <1>a, <1>b DEF Inv, AnswersStayOnHost, Resolved, HasList
<1>6. SkipsBad'
  BY DEF Inv, SkipsBad, Bad, CacheHit
<1>7. EveryDropHasCause'
  BY DEF Inv, EveryDropHasCause, HasList, CacheHit
<1> QED
  BY <1>1, <1>2, <1>3, <1>4, <1>5, <1>6, <1>7 DEF Inv

LEMMA CacheMissInv == ASSUME NEW t \in Tasks, Inv, CacheMiss(t) PROVE Inv'
<1>1. TypeOK'
  BY DEF Inv, TypeOK, Entry, Lists, CacheMiss, NoEntry, history
<1>2. CacheInv'
  BY DEF Inv, CacheInv, CacheMiss, NoEntry
<1>3. LookupInv' /\ BanInv'
  BY DEF Inv, LookupInv, BanInv, host, CacheMiss, history
<1>4. ListInv'
  BY DEF Inv, ListInv, HasList, IsNext, host, CacheMiss, history
<1>5. AnswersStayOnHost'
  BY DEF Inv, AnswersStayOnHost, Resolved, HasList, host, CacheMiss
<1>6. SkipsBad'
  BY DEF Inv, SkipsBad, Bad, CacheMiss, history
<1>7. EveryDropHasCause'
  BY DEF Inv, EveryDropHasCause, HasList, CacheMiss
<1> QED
  BY <1>1, <1>2, <1>3, <1>4, <1>5, <1>6, <1>7 DEF Inv

LEMMA LookupOkInv == ASSUME NEW t \in Tasks, Inv, LookupOk(t) PROVE Inv'
<1>1. TypeOK'
  BY DEF Inv, TypeOK, LookupOk, shared
<1>2. CacheInv'
  BY DEF Inv, CacheInv, LookupOk, shared
<1>3. LookupInv' /\ BanInv'
  <2>1. pac[url[t]] \in HostAnswers(host(t))
    BY AnswersAreLists DEF Inv, TypeOK, host
  <2>2. LookupInv'
    BY <2>1, TimeAssumption DEF Inv, TypeOK, LookupInv, host, LookupOk, shared
  <2>3. BanInv'
    BY DEF Inv, BanInv, LookupOk, shared
  <2> QED
    BY <2>2, <2>3
<1>4. ListInv'
  BY DEF Inv, ListInv, HasList, IsNext, host, LookupOk
<1>5. AnswersStayOnHost'
  BY DEF Inv, AnswersStayOnHost, Resolved, HasList, host, LookupOk
<1>6. SkipsBad'
  BY DEF Inv, SkipsBad, Bad, LookupOk, shared
<1>7. EveryDropHasCause'
  BY DEF Inv, EveryDropHasCause, HasList, LookupOk, shared
<1> QED
  BY <1>1, <1>2, <1>3, <1>4, <1>5, <1>6, <1>7 DEF Inv

LEMMA LookupErrInv == ASSUME NEW t \in Tasks, Inv, LookupErr(t) PROVE Inv'
<1>1. TypeOK'
  BY DEF Inv, TypeOK, Lists, LookupErr, End, shared
<1>2. CacheInv'
  BY DEF Inv, CacheInv, LookupErr, End, shared
<1>3. LookupInv' /\ BanInv'
  BY DEF Inv, LookupInv, BanInv, host, LookupErr, End, shared
<1>4. ListInv'
  BY DEF Inv, ListInv, HasList, IsNext, host, LookupErr, End
<1>5. AnswersStayOnHost'
  BY DEF Inv, AnswersStayOnHost, Resolved, HasList, host, LookupErr, End
<1>6. SkipsBad'
  BY DEF Inv, SkipsBad, Bad, LookupErr, End, shared
<1>7. EveryDropHasCause'
  BY DEF Inv, EveryDropHasCause, HasList, LookupErr, End, shared
<1> QED
  BY <1>1, <1>2, <1>3, <1>4, <1>5, <1>6, <1>7 DEF Inv

LEMMA InsertInv == ASSUME NEW t \in Tasks, Inv, Insert(t) PROVE Inv'
<1>1. TypeOK'
  <2>. DEFINE e == [hops |-> raw[t], until |-> now + CacheTtl, asked |-> asked[t]]
  <2>1. now + CacheTtl \in Nat
    BY TimeAssumption DEF Inv, TypeOK
  <2>2. e \in Entry
    BY <2>1 DEF Inv, TypeOK, Entry
  <2>3. cache' = [cache EXCEPT ![host(t)] = e]
    BY DEF Insert
  <2> HIDE DEF e
  <2>4. cache' \in [Hosts -> Entry]
    BY <2>2, <2>3, HostInHosts DEF Inv, TypeOK
  <2> QED
    BY <2>4 DEF Inv, TypeOK, Insert
<1>2. CacheInv'
  BY TimeAssumption DEF Inv, TypeOK, CacheInv, LookupInv, Insert
<1>3. LookupInv' /\ BanInv'
  BY DEF Inv, LookupInv, BanInv, host, Insert
<1>4. ListInv'
  BY DEF Inv, LookupInv, ListInv, HasList, IsNext, host, Insert
<1>5. AnswersStayOnHost'
  BY DEF Inv, LookupInv, AnswersStayOnHost, Resolved, HasList, host, Insert
<1>6. SkipsBad'
  BY DEF Inv, SkipsBad, Bad, Insert
<1>7. EveryDropHasCause'
  BY DEF Inv, EveryDropHasCause, HasList, Insert
<1> QED
  BY <1>1, <1>2, <1>3, <1>4, <1>5, <1>6, <1>7 DEF Inv

LEMMA FilterInv == ASSUME NEW t \in Tasks, Inv, Filter(t) PROVE Inv'
<1>a. raw[t] \in Seq(Hop) /\ raw[t] # <<>>
  BY HostAnswersAreLists, HostInHosts DEF Inv, ListInv, Filter
<1>b. /\ filter_blacklist(raw[t]) \subseteq DOMAIN raw[t]
      /\ filter_blacklist(raw[t]) \subseteq Nat
      /\ filter_blacklist(raw[t]) # {}
  BY <1>a, FilterKeepsSome
<1>1. TypeOK'
  BY <1>b DEF Inv, TypeOK, Filter
<1>2. CacheInv'
  BY DEF Inv, CacheInv, Filter
<1>3. LookupInv' /\ BanInv'
  BY DEF Inv, LookupInv, BanInv, host, Filter
<1>4. ListInv'
  BY <1>b DEF Inv, TypeOK, ListInv, HasList, IsNext, host, Filter
<1>5. AnswersStayOnHost'
  BY DEF Inv, AnswersStayOnHost, Resolved, HasList, host, Filter
<1>6. SkipsBad'
  BY DEF Inv, TypeOK, SkipsBad, Bad, Filter, filter_blacklist, Usable
<1>7. EveryDropHasCause'
  BY DEF Inv, TypeOK, EveryDropHasCause, Bad, HasList, Filter, filter_blacklist, Usable
<1> QED
  BY <1>1, <1>2, <1>3, <1>4, <1>5, <1>6, <1>7 DEF Inv

LEMMA TryOkInv == ASSUME NEW t \in Tasks, Inv, TryOk(t) PROVE Inv'
<1>1. TypeOK'
  BY DEF Inv, TypeOK, Lists, TryOk, End, shared
<1>2. CacheInv'
  BY DEF Inv, CacheInv, TryOk, End, shared
<1>3. LookupInv' /\ BanInv'
  BY DEF Inv, LookupInv, BanInv, host, TryOk, End, shared
<1>4. ListInv'
  BY DEF Inv, TypeOK, ListInv, HasList, IsNext, host, TryOk, End
<1>5. AnswersStayOnHost'
  BY DEF Inv, TypeOK, AnswersStayOnHost, Resolved, HasList, host, TryOk, End
<1>6. SkipsBad'
  BY DEF Inv, TypeOK, SkipsBad, Bad, TryOk, End, shared
<1>7. EveryDropHasCause'
  BY DEF Inv, TypeOK, EveryDropHasCause, HasList, TryOk, End, shared
<1> QED
  BY <1>1, <1>2, <1>3, <1>4, <1>5, <1>6, <1>7 DEF Inv

LEMMA GiveUpInv == ASSUME NEW t \in Tasks, Inv, GiveUp(t) PROVE Inv'
<1>1. TypeOK'
  BY DEF Inv, TypeOK, Lists, GiveUp, End, shared
<1>2. CacheInv'
  BY DEF Inv, CacheInv, GiveUp, End, shared
<1>3. LookupInv' /\ BanInv'
  BY DEF Inv, LookupInv, BanInv, host, GiveUp, End, shared
<1>4. ListInv'
  BY DEF Inv, TypeOK, ListInv, HasList, IsNext, host, GiveUp, End
<1>5. AnswersStayOnHost'
  BY DEF Inv, TypeOK, AnswersStayOnHost, Resolved, HasList, host, GiveUp, End
<1>6. SkipsBad'
  BY DEF Inv, SkipsBad, Bad, GiveUp, End, shared
<1>7. EveryDropHasCause'
  BY DEF Inv, TypeOK, EveryDropHasCause, HasList, GiveUp, End, shared
<1> QED
  BY <1>1, <1>2, <1>3, <1>4, <1>5, <1>6, <1>7 DEF Inv

LEMMA DirectFailsInv == ASSUME NEW t \in Tasks, Inv, DirectFails(t) PROVE Inv'
<1>1. TypeOK'
  <2>1. /\ todo' \in [Tasks -> SUBSET Nat]
        /\ pc' \in [Tasks -> {"new", "lookup", "insert", "filter", "trying", "mark", "failed", "done"}]
    BY DEF Inv, TypeOK, DirectFails, Advance
  <2> QED
    BY <2>1 DEF Inv, TypeOK, DirectFails, shared, history
<1>2. CacheInv'
  BY DEF Inv, CacheInv, DirectFails, shared
<1>3. LookupInv' /\ BanInv'
  <2>1. \A s \in Tasks : pc'[s] \in {"insert", "mark"} => pc'[s] = pc[s]
    BY DEF Inv, TypeOK, DirectFails, Advance
  <2> QED
    BY <2>1 DEF Inv, LookupInv, BanInv, host, DirectFails, shared, history
<1>4. ListInv'
  BY DEF Inv, TypeOK, ListInv, HasList, IsNext, host, DirectFails, Advance, history
<1>5. AnswersStayOnHost'
  BY DEF Inv, AnswersStayOnHost, Resolved, HasList, host, DirectFails, Advance
<1>6. SkipsBad'
  BY DEF Inv, SkipsBad, Bad, DirectFails, Advance, shared, history
<1>7. EveryDropHasCause'
  BY DEF Inv, EveryDropHasCause, HasList, DirectFails, Advance, shared
<1> QED
  BY <1>1, <1>2, <1>3, <1>4, <1>5, <1>6, <1>7 DEF Inv

LEMMA ProxyFailsInv == ASSUME NEW t \in Tasks, Inv, ProxyFails(t) PROVE Inv'
<1>1. TypeOK'
  <2>1. now + BlacklistTtl \in Nat
    BY TimeAssumption DEF Inv, TypeOK
  <2> QED
    BY <2>1 DEF Inv, TypeOK, ProxyFails, shared, history
<1>2. CacheInv'
  BY DEF Inv, CacheInv, ProxyFails, shared
<1>3. LookupInv' /\ BanInv'
  <2>1. LookupInv'
    BY DEF Inv, LookupInv, host, ProxyFails, shared, history
  <2>2. /\ now \in Nat \ {0}
        /\ pc' = [pc EXCEPT ![t] = "mark"]
        /\ until' = [until EXCEPT ![t] = now + BlacklistTtl]
        /\ UNCHANGED <<now, blacklist>>
        /\ pc \in [Tasks -> {"new", "lookup", "insert", "filter", "trying", "mark", "failed", "done"}]
        /\ until \in [Tasks -> Nat]
    BY DEF Inv, TypeOK, ProxyFails, shared
  <2>3. ASSUME NEW s \in Tasks, pc'[s] = "mark"
        PROVE  /\ until'[s] > 0
               /\ until'[s] <= now + BlacklistTtl
               /\ now + BlacklistTtl <= until'[s] + MarkLag
    BY <2>2, <2>3, TimeAssumption DEF Inv, BanInv
  <2> QED
    BY <2>1, <2>2, <2>3 DEF Inv, BanInv
<1>4. ListInv'
  <2>1. /\ todo' = todo /\ raw' = raw /\ url' = url /\ since' = since
        /\ pc' = [pc EXCEPT ![t] = "mark"] /\ pc[t] = "trying"
        /\ \E i \in todo[t] : IsNext(t, i) /\ raw[t][i] \in Proxies
    BY DEF ProxyFails, shared, history
  <2>2. \A s \in Tasks : pc'[s] = IF s = t THEN "mark" ELSE pc[s]
    BY <2>1 DEF Inv, TypeOK
  <2> QED
    BY <2>1, <2>2 DEF Inv, ListInv, HasList, IsNext, host
<1>5. AnswersStayOnHost'
  BY DEF Inv, AnswersStayOnHost, Resolved, HasList, host, ProxyFails
<1>6. SkipsBad'
  BY DEF Inv, SkipsBad, Bad, ProxyFails, shared, history
<1>7. EveryDropHasCause'
  BY DEF Inv, EveryDropHasCause, HasList, ProxyFails, shared
<1> QED
  BY <1>1, <1>2, <1>3, <1>4, <1>5, <1>6, <1>7 DEF Inv

LEMMA MarkBadInv == ASSUME NEW t \in Tasks, Inv, MarkBad(t) PROVE Inv'
<1>. PICK i \in todo[t] :
        /\ IsNext(t, i)
        /\ blacklist' = [blacklist EXCEPT ![raw[t][i]] = until[t]]
        /\ since' = [s \in Tasks |->
                        IF todo[s] = {} THEN {} ELSE since[s] \cup {raw[t][i]}]
        /\ Advance(t, i)
  BY DEF MarkBad
<1>a. raw[t][i] \in Proxies
  <2>1. PICK j \in todo[t] : IsNext(t, j) /\ raw[t][j] \in Proxies
    BY DEF Inv, ListInv, MarkBad
  <2>2. i <= j /\ j <= i
    BY <2>1 DEF IsNext
  <2>3. i \in Nat /\ j \in Nat
    BY DEF Inv, TypeOK
  <2> QED
    BY <2>1, <2>2, <2>3
<1>b. until[t] \in Nat
  BY DEF Inv, TypeOK
<1>1. TypeOK'
  <2>1. blacklist' \in [Proxies -> Nat] /\ since' \in [Tasks -> SUBSET Proxies]
    BY <1>a DEF Inv, TypeOK
  <2>2. todo' \in [Tasks -> SUBSET Nat] /\ until' \in [Tasks -> Nat]
    BY DEF Inv, TypeOK, MarkBad, Advance
  <2> QED
    BY <2>1 DEF Inv, TypeOK, MarkBad, Advance
<1>2. CacheInv'
  BY DEF Inv, CacheInv, MarkBad
<1>3. LookupInv' /\ BanInv'
  <2>1. LookupInv'
    BY DEF Inv, LookupInv, host, MarkBad, Advance
  <2>2. \A p \in Proxies : blacklist'[p] <= now' + BlacklistTtl
    BY DEF Inv, BanInv, MarkBad
  <2>3. \A s \in Tasks : pc'[s] = "mark" => pc[s] = "mark" /\ until'[s] = until[s]
    BY DEF Inv, TypeOK, MarkBad, Advance
  <2> QED
    BY <2>1, <2>3 DEF Inv, BanInv, MarkBad
<1>c. /\ pc' = [pc EXCEPT ![t] = IF todo[t] = {i} THEN "failed" ELSE "trying"]
      /\ todo' = [todo EXCEPT ![t] = @ \ {i}]
      /\ pc[t] = "mark" /\ raw' = raw /\ url' = url /\ forced' = forced
      /\ DOMAIN pc = Tasks /\ DOMAIN todo = Tasks
  BY DEF Inv, TypeOK, MarkBad, Advance
<1>d. \A s \in Tasks :
        /\ pc'[s] = IF s = t THEN IF todo[t] = {i} THEN "failed" ELSE "trying" ELSE pc[s]
        /\ todo'[s] = IF s = t THEN todo[t] \ {i} ELSE todo[s]
        /\ since'[s] = IF todo[s] = {} THEN {} ELSE since[s] \cup {raw[t][i]}
  BY <1>c
<1>4. ListInv'
  <2> SUFFICES ASSUME NEW s \in Tasks
               PROVE  /\ todo'[s] \subseteq DOMAIN raw[s]
                      /\ todo'[s] # {} => pc'[s] \in {"trying", "mark", "failed"}
                      /\ pc'[s] = "trying" \/ pc'[s] = "mark" => todo'[s] # {}
                      /\ pc'[s] \in {"new", "lookup", "insert", "filter"} => since'[s] = {}
                      /\ pc'[s] \in {"lookup", "insert", "filter"} => host(s) \notin NoProxy
                      /\ pc'[s] = "filter" => raw[s] \in HostAnswers(host(s))
                      /\ pc'[s] \in {"trying", "mark", "failed"} => raw[s] # <<>>
                      /\ pc'[s] = "mark" =>
                            \E k \in todo'[s] :
                                /\ k \in todo'[s] /\ \A j \in todo'[s] : k <= j
                                /\ raw[s][k] \in Proxies
    BY <1>c DEF ListInv, HasList, IsNext, host
  <2>1. CASE s = t
    <3>1. todo[t] \subseteq DOMAIN raw[t] /\ raw[t] # <<>>
      BY <1>c DEF Inv, ListInv, HasList
    <3>2. pc'[s] \in {"failed", "trying"} /\ (pc'[s] = "trying" => todo'[s] # {})
      BY <1>d, <2>1
    <3> QED
      BY <1>d, <2>1, <3>1, <3>2
  <2>2. CASE s # t
    <3>1. pc'[s] = pc[s] /\ todo'[s] = todo[s]
      BY <1>d, <2>2
    <3>2. pc[s] \in {"new", "lookup", "insert", "filter"} => todo[s] = {}
      BY DEF Inv, ListInv, HasList
    <3> QED
      BY <1>d, <3>1, <3>2 DEF Inv, ListInv, HasList, IsNext
  <2> QED
    BY <2>1, <2>2
<1>5. AnswersStayOnHost'
  BY DEF Inv, AnswersStayOnHost, Resolved, HasList, host, MarkBad, Advance
<1>6. SkipsBad'
  <2> SUFFICES ASSUME NEW s \in Tasks, pc'[s] \in {"trying", "mark"},
                      NEW k \in todo'[s], Bad(raw[s][k])'
               PROVE  forced[s] \/ raw[s][k] \in since'[s]
    BY <1>c DEF SkipsBad
  <2>1. k \in todo[s] /\ pc[s] \in {"trying", "mark"} /\ raw'[s] = raw[s]
    BY <1>c, <1>d
  <2>2. since'[s] = since[s] \cup {raw[t][i]}
    BY <1>d, <2>1
  <2>3. CASE raw[s][k] # raw[t][i]
    <3>1. raw[s][k] \in Proxies /\ blacklist[raw[s][k]] > now
      BY <1>a, <1>c, <2>3 DEF Bad, Inv, TypeOK, MarkBad
    <3> QED
      BY <2>1, <2>2, <3>1 DEF Inv, SkipsBad, Bad
  <2> QED
    BY <2>2, <2>3
<1>7. EveryDropHasCause'
  BY DEF Inv, TypeOK, ListInv, BanInv, EveryDropHasCause, HasList, MarkBad, Advance, IsNext
<1> QED
  BY <1>1, <1>2, <1>3, <1>4, <1>5, <1>6, <1>7 DEF Inv

LEMMA InvalidateInv == ASSUME Inv, Invalidate PROVE Inv'
<1>1. TypeOK'
  BY DEF Inv, TypeOK, Entry, Lists, Invalidate, NoEntry, history
<1>2. CacheInv'
  BY DEF CacheInv, Invalidate, NoEntry
<1>3. LookupInv' /\ BanInv'
  BY DEF Inv, LookupInv, BanInv, host, Invalidate, history
<1>4. ListInv'
  BY DEF Inv, ListInv, HasList, IsNext, host, Invalidate, history
<1>5. AnswersStayOnHost'
  BY DEF Inv, AnswersStayOnHost, Resolved, HasList, host, Invalidate
<1>6. SkipsBad'
  BY DEF Inv, SkipsBad, Bad, Invalidate, history
<1>7. EveryDropHasCause'
  BY DEF Inv, EveryDropHasCause, HasList, Invalidate
<1> QED
  BY <1>1, <1>2, <1>3, <1>4, <1>5, <1>6, <1>7 DEF Inv

LEMMA PacChangeInv == ASSUME Inv, PacChange PROVE Inv'
<1>1. TypeOK'
  <2>. PICK u \in Urls : \E a \in AnswersFor[u] : pac' = [pac EXCEPT ![u] = a]
    BY DEF PacChange
  <2>1. PICK a \in AnswersFor[u] : pac' = [pac EXCEPT ![u] = a]
    OBVIOUS
  <2>2. a \in Lists
    BY AnswersAreLists
  <2>3. pac' \in [Urls -> Lists] /\ \A v \in Urls : pac'[v] \in AnswersFor[v]
    BY <2>1, <2>2 DEF Inv, TypeOK
  <2> QED
    BY <2>3 DEF Inv, TypeOK, PacChange, history
<1>2. CacheInv'
  BY DEF Inv, CacheInv, PacChange
<1>3. LookupInv' /\ BanInv'
  BY DEF Inv, LookupInv, BanInv, host, PacChange, history
<1>4. ListInv'
  BY DEF Inv, ListInv, HasList, IsNext, host, PacChange, history
<1>5. AnswersStayOnHost'
  BY DEF Inv, AnswersStayOnHost, Resolved, HasList, host, PacChange
<1>6. SkipsBad'
  BY DEF Inv, SkipsBad, Bad, PacChange, history
<1>7. EveryDropHasCause'
  BY DEF Inv, EveryDropHasCause, HasList, PacChange
<1> QED
  BY <1>1, <1>2, <1>3, <1>4, <1>5, <1>6, <1>7 DEF Inv

LEMMA TickInv == ASSUME Inv, Tick PROVE Inv'
<1>1. TypeOK'
  BY DEF Inv, TypeOK, Tick, history
<1>2. CacheInv'
  BY DEF Inv, CacheInv, Tick
<1>3. LookupInv' /\ BanInv'
  <2>1. LookupInv'
    <3>1. ASSUME NEW s \in Tasks, pc[s] = "insert" PROVE now + 1 <= asked[s] + LookupLimit
      BY <3>1, TimeAssumption DEF Inv, TypeOK, Tick
    <3> QED
      BY <3>1 DEF Inv, LookupInv, host, Tick, history
  <2>2. \A p \in Proxies : blacklist[p] <= now + 1 + BlacklistTtl
    BY TimeAssumption DEF Inv, TypeOK, BanInv
  <2>3. ASSUME NEW s \in Tasks, pc[s] = "mark"
        PROVE  until[s] <= now + 1 + BlacklistTtl /\ now + 1 + BlacklistTtl <= until[s] + MarkLag
    BY <2>3, TimeAssumption DEF Inv, TypeOK, BanInv, Tick
  <2> QED
    BY <2>1, <2>2, <2>3 DEF Inv, BanInv, Tick
<1>4. ListInv'
  BY DEF Inv, ListInv, HasList, IsNext, host, Tick, history
<1>5. AnswersStayOnHost'
  BY DEF Inv, AnswersStayOnHost, Resolved, HasList, host, Tick
<1>6. SkipsBad'
  BY DEF Inv, TypeOK, SkipsBad, Bad, Tick, history
<1>7. EveryDropHasCause'
  BY DEF Inv, EveryDropHasCause, HasList, Tick
<1> QED
  BY <1>1, <1>2, <1>3, <1>4, <1>5, <1>6, <1>7 DEF Inv

\* Every step of the resolver keeps the inductive invariant.
LEMMA NextInv == Inv /\ [Next]_vars => Inv'
<1> SUFFICES ASSUME Inv, [Next]_vars PROVE Inv'
  OBVIOUS
<1>1. ASSUME NEW t \in Tasks, hops_for(t) PROVE Inv'
  BY <1>1, BypassInv, CacheHitInv, CacheMissInv, LookupOkInv, LookupErrInv, InsertInv, FilterInv
  DEF hops_for
<1>2. ASSUME NEW t \in Tasks, try_hops(t) PROVE Inv'
  BY <1>2, TryOkInv, DirectFailsInv, ProxyFailsInv, MarkBadInv, GiveUpInv DEF try_hops
<1>3. CASE UNCHANGED vars
  BY <1>3 DEF vars, Inv, TypeOK, CacheInv, LookupInv, ListInv, BanInv, HasList, IsNext,
     AnswersStayOnHost, SkipsBad, EveryDropHasCause, Resolved, Bad, host
<1> QED
  BY <1>1, <1>2, <1>3, InvalidateInv, PacChangeInv, TickInv DEF Next

\* The conjuncts of the inductive invariant hold in every reachable state,
\* whatever the number of tasks, hosts and proxies and the values of the times.
THEOREM Invariance == Spec => []Inv
<1>1. Init => Inv
  BY InitInv
<1>2. Inv /\ [Next]_vars => Inv'
  BY NextInv
<1> QED
  BY <1>1, <1>2, PTL DEF Spec

\* Every variable keeps its type.
THEOREM TypeCorrect == Spec => []TypeOK
<1>1. Inv => TypeOK
  BY DEF Inv
<1> QED
  BY <1>1, Invariance, PTL

\* The cache never hands a task another host's answer.
THEOREM AnswersStay == Spec => []AnswersStayOnHost
<1>1. Inv => AnswersStayOnHost
  BY DEF Inv
<1> QED
  BY <1>1, Invariance, PTL

\* The hop loop always has something to try.
THEOREM NeverEmpty == Spec => []NeverEmptyHanded
<1>1. Inv => NeverEmptyHanded
  BY DEF Inv, ListInv, NeverEmptyHanded
<1> QED
  BY <1>1, Invariance, PTL

\* A blacklisted proxy is only tried when it was marked after the list was
\* filtered, or when every hop was bad.
THEOREM BadSkipped == Spec => []SkipsBad
<1>1. Inv => SkipsBad
  BY DEF Inv
<1> QED
  BY <1>1, Invariance, PTL

\* No proxy is left out or behind without a recorded failure.
THEOREM DropsHaveCause == Spec => []EveryDropHasCause
<1>1. Inv => EveryDropHasCause
  BY DEF Inv
<1> QED
  BY <1>1, Invariance, PTL

\* A step that hands hops_for an answer does so while the answer is fresh: the
\* two ways in are a cache hit and the task's own insertion.
LEMMA FreshStep ==
    ASSUME Inv, [Next]_vars, NEW t \in Tasks, pc[t] # "filter", pc'[t] = "filter"
    PROVE  now < asked'[t] + CacheTtl + LookupLimit
<1>1. CASE CacheHit(t)
  <2>1. host(t) \in Hosts
    BY HostInHosts DEF Inv
  <2>2. /\ cache[host(t)].until \in Nat /\ cache[host(t)].asked \in Nat /\ now \in Nat
        /\ now < cache[host(t)].until
    BY <1>1, <2>1 DEF Inv, TypeOK, Entry, CacheHit, Fresh
  <2>3. cache[host(t)].until <= cache[host(t)].asked + CacheTtl + LookupLimit
    BY <2>1, <2>2 DEF Inv, CacheInv
  <2>4. asked'[t] = cache[host(t)].asked
    BY <1>1 DEF Inv, TypeOK, CacheHit
  <2> QED
    BY <2>2, <2>3, <2>4, TimeAssumption
<1>2. CASE Insert(t)
  <2>1. now <= asked[t] + LookupLimit /\ asked' = asked
    BY <1>2 DEF Inv, LookupInv, Insert
  <2> QED
    BY <2>1, TimeAssumption DEF Inv, TypeOK
<1>3. CacheHit(t) \/ Insert(t)
  <2>1. ASSUME NEW s \in Tasks, hops_for(s) PROVE CacheHit(t) \/ Insert(t)
    BY <2>1 DEF hops_for, Inv, TypeOK, Bypass, CacheHit, CacheMiss, LookupOk, LookupErr,
       Insert, Filter, End
  <2>2. ASSUME NEW s \in Tasks, try_hops(s) PROVE FALSE
    BY <2>2 DEF try_hops, Inv, TypeOK, TryOk, DirectFails, ProxyFails, MarkBad, GiveUp,
       End, Advance
  <2>3. ~(Invalidate \/ PacChange \/ Tick \/ UNCHANGED vars)
    BY DEF Invalidate, PacChange, Tick, vars
  <2> QED
    BY <2>1, <2>2, <2>3 DEF Next
<1> QED
  BY <1>1, <1>2, <1>3

\* hops_for never takes an answer older than a cache period and a lookup.
THEOREM AlwaysFresh == Spec => FreshEnough
<1>1. Inv /\ [Next]_vars =>
        [\A t \in Tasks : pc[t] # "filter" /\ pc'[t] = "filter" =>
            now < asked'[t] + CacheTtl + LookupLimit]_vars
  BY FreshStep
<1> QED
  BY <1>1, Invariance, PTL DEF Spec, FreshEnough

\* Only MarkBad changes the blacklist.
LEMMA BanStep ==
    ASSUME Inv, [Next]_vars, NEW p \in Proxies
    PROVE  blacklist'[p] + MarkLag >= blacklist[p]
<1>1. blacklist[p] \in Nat /\ MarkLag \in Nat /\ BlacklistTtl \in Nat /\ now \in Nat
  BY TimeAssumption DEF Inv, TypeOK
<1>2. CASE blacklist' = blacklist
  BY <1>1, <1>2
<1>3. ASSUME NEW t \in Tasks, MarkBad(t) PROVE blacklist'[p] + MarkLag >= blacklist[p]
  <2>1. blacklist'[p] = blacklist[p] \/ blacklist'[p] = until[t]
    BY <1>3 DEF MarkBad
  <2>2. until[t] \in Nat /\ now + BlacklistTtl <= until[t] + MarkLag
    BY <1>3 DEF Inv, TypeOK, BanInv, MarkBad
  <2>3. blacklist[p] <= now + BlacklistTtl
    BY DEF Inv, BanInv
  <2> QED
    BY <1>1, <2>1, <2>2, <2>3
<1>4. blacklist' = blacklist \/ \E t \in Tasks : MarkBad(t)
  BY DEF Next, hops_for, try_hops, vars, shared, End, Bypass, CacheHit, CacheMiss,
     LookupOk, LookupErr, Insert, Filter, TryOk, DirectFails, ProxyFails, GiveUp,
     Invalidate, PacChange, Tick
<1> QED
  BY <1>2, <1>3, <1>4

\* Racing calls of mark_bad cut a ban short by MarkLag at most.
THEOREM BansHold == Spec => BlacklistHolds
<1>1. Inv /\ [Next]_vars =>
        [\A p \in Proxies : blacklist'[p] + MarkLag >= blacklist[p]]_vars
  BY BanStep
<1> QED
  BY <1>1, Invariance, PTL DEF Spec, BlacklistHolds

-----------------------------------------------------------------------------
(* The resolver implements Failover *)

LEMMA InitImplements == Init => F!Init
<1> SUFFICES ASSUME Init PROVE F!Init
  OBVIOUS
<1>1. [t \in Tasks |-> host(t)] \in [Tasks -> Hosts]
  BY HostAssumption DEF Init, host
<1> QED
  BY <1>1 DEF Init, F!Init, HasList

\* A step that leaves the blacklist alone and touches no list that is in the
\* hop loop is a stutter, and so is a lookup or a cache access.
LEMMA StutterStep ==
    ASSUME Inv, url' = url, blacklist' = blacklist, todo' = todo,
           \A s \in Tasks : /\ HasList(s)' = HasList(s)
                            /\ HasList(s) => raw'[s] = raw[s]
                            /\ (pc'[s] = "done") = (pc[s] = "done")
    PROVE  UNCHANGED F!vars
BY DEF F!vars, host

\* A task that ends leaves the offer, or is refused.
LEMMA EndStep ==
    ASSUME Inv, NEW t \in Tasks, pc[t] \in {"lookup", "trying", "failed"}, End(t)
    PROVE  F!Leave(t) \/ F!Refuse(t)
<1>1. /\ pc' = [pc EXCEPT ![t] = "done"] /\ todo' = [todo EXCEPT ![t] = {}]
      /\ raw' = [raw EXCEPT ![t] = <<>>] /\ url' = url /\ blacklist' = blacklist
  BY DEF End, shared
<1>2. F!Over(t)
  BY <1>1 DEF F!Over, HasList, host, Inv, TypeOK
<1> QED
  BY <1>2 DEF F!Leave, F!Refuse

\* filter_blacklist offers the list without some proxies that are on record.
LEMMA FilterStep == ASSUME Inv, NEW t \in Tasks, Filter(t) PROVE F!Offer(t)
<1>. DEFINE keep == filter_blacklist(raw[t])
<1>1. /\ pc[t] = "filter" /\ host(t) \notin NoProxy /\ raw[t] \in HostAnswers(host(t))
      /\ host(t) \in Hosts
  BY HostInHosts DEF Inv, ListInv, Filter
<1>2. keep \in SUBSET DOMAIN raw[t] /\ keep # {}
  BY <1>1, HostAnswersAreLists, FilterKeepsSome
<1>3. \A i \in DOMAIN raw[t] \ keep : raw[t][i] \in {p \in Proxies : blacklist[p] > 0}
  BY DEF filter_blacklist, Usable, Bad, Inv, TypeOK
<1>4. /\ pc' = [pc EXCEPT ![t] = "trying"] /\ todo' = [todo EXCEPT ![t] = keep]
      /\ raw' = raw /\ url' = url /\ blacklist' = blacklist
  BY DEF Filter
<1>. HIDE DEF keep
<1>5. /\ \A s \in Tasks : host(s)' = host(s)
      /\ \A s \in Tasks : HasList(s)' = (s = t \/ HasList(s))
      /\ ~HasList(t) /\ pc[t] # "done" /\ pc'[t] # "done"
      /\ \A s \in Tasks \ {t} : pc'[s] = pc[s]
  BY <1>1, <1>4 DEF HasList, host, Inv, TypeOK
<1>. DEFINE phasemap == [s \in Tasks |-> IF HasList(s) THEN "offered"
                                         ELSE IF pc[s] = "done" THEN "over" ELSE "asking"]
            answermap == [s \in Tasks |-> IF HasList(s) THEN raw[s] ELSE <<>>]
<1>6. phasemap' = [phasemap EXCEPT ![t] = "offered"] /\ phasemap[t] = "asking"
  BY <1>4, <1>5
<1>7. answermap' = [answermap EXCEPT ![t] = raw[t]]
  BY <1>4, <1>5
<1> QED
  BY <1>1, <1>2, <1>3, <1>4, <1>5, <1>6, <1>7 DEF F!Offer

\* noproxy offers DIRECT.
LEMMA BypassStep == ASSUME Inv, NEW t \in Tasks, Bypass(t) PROVE F!Offer(t)
<1>1. /\ pc[t] = "new" /\ host(t) \in NoProxy /\ host(t) \in Hosts
      /\ pc' = [pc EXCEPT ![t] = "trying"] /\ todo' = [todo EXCEPT ![t] = {1}]
      /\ raw' = [raw EXCEPT ![t] = <<Direct>>] /\ url' = url /\ blacklist' = blacklist
  BY HostInHosts DEF Bypass, shared, Inv
<1>2. {1} \in SUBSET DOMAIN <<Direct>> /\ DOMAIN <<Direct>> \ {1} = {}
  OBVIOUS
<1> QED
  BY <1>1, <1>2 DEF F!Offer, HasList, host, Inv, TypeOK

\* A hop that fails leaves the list, a proxy goes on record.
LEMMA DirectFailsStep == ASSUME Inv, NEW t \in Tasks, DirectFails(t) PROVE F!Fail(t)
<1>. PICK i \in todo[t] : IsNext(t, i) /\ raw[t][i] = Direct /\ Advance(t, i)
  BY DEF DirectFails
<1>1. pc[t] = "trying" /\ url' = url /\ raw' = raw /\ blacklist' = blacklist
  BY DEF DirectFails, shared
<1>2. {raw[t][i]} \cap Proxies = {}
  BY HopAssumption
<1>3. \A s \in Tasks : /\ HasList(s)' = HasList(s) /\ host(s)' = host(s)
                      /\ (pc'[s] = "done") = (pc[s] = "done")
  BY <1>1 DEF Advance, HasList, host, Inv, TypeOK
<1> QED
  BY <1>1, <1>2, <1>3 DEF F!Fail, IsNext, Advance, HasList

LEMMA MarkBadStep == ASSUME Inv, NEW t \in Tasks, MarkBad(t) PROVE F!Fail(t)
<1>. PICK i \in todo[t] :
        /\ IsNext(t, i)
        /\ blacklist' = [blacklist EXCEPT ![raw[t][i]] = until[t]]
        /\ Advance(t, i)
  BY DEF MarkBad
<1>1. pc[t] = "mark" /\ url' = url /\ raw' = raw /\ until[t] > 0
  BY DEF MarkBad, Inv, BanInv
<1>2. {p \in Proxies : blacklist'[p] > 0}
        = {p \in Proxies : blacklist[p] > 0} \cup ({raw[t][i]} \cap Proxies)
  BY <1>1 DEF Inv, TypeOK
<1>3. \A s \in Tasks : /\ HasList(s)' = HasList(s) /\ host(s)' = host(s)
                      /\ (pc'[s] = "done") = (pc[s] = "done")
  BY <1>1 DEF Advance, HasList, host, Inv, TypeOK
<1> QED
  BY <1>1, <1>2, <1>3 DEF F!Fail, IsNext, Advance, HasList

LEMMA NextImplements == Inv /\ [Next]_vars => [F!Next]_(F!vars)
<1> SUFFICES ASSUME Inv, [Next]_vars PROVE F!Next \/ UNCHANGED F!vars
  OBVIOUS
<1>1. ASSUME NEW t \in Tasks, hops_for(t) PROVE F!Next \/ UNCHANGED F!vars
  <2>1. CASE Bypass(t)
    BY <2>1, BypassStep DEF F!Next
  <2>2. CASE Filter(t)
    BY <2>2, FilterStep DEF F!Next
  <2>3. CASE LookupErr(t)
    BY <2>3, EndStep DEF F!Next, LookupErr
  <2>4. CASE CacheHit(t) \/ CacheMiss(t) \/ LookupOk(t) \/ Insert(t)
    BY <2>4, StutterStep DEF CacheHit, CacheMiss, LookupOk, Insert, shared, HasList, Inv,
       TypeOK
  <2> QED
    BY <1>1, <2>1, <2>2, <2>3, <2>4 DEF hops_for
<1>2. ASSUME NEW t \in Tasks, try_hops(t) PROVE F!Next \/ UNCHANGED F!vars
  <2>1. CASE TryOk(t) \/ GiveUp(t)
    BY <2>1, EndStep DEF F!Next, TryOk, GiveUp
  <2>2. CASE DirectFails(t)
    BY <2>2, DirectFailsStep DEF F!Next
  <2>3. CASE ProxyFails(t)
    BY <2>3, StutterStep DEF ProxyFails, shared, HasList
  <2>4. CASE MarkBad(t)
    BY <2>4, MarkBadStep DEF F!Next
  <2> QED
    BY <1>2, <2>1, <2>2, <2>3, <2>4 DEF try_hops
<1>3. CASE Invalidate \/ PacChange \/ Tick \/ UNCHANGED vars
  BY <1>3, StutterStep DEF Invalidate, PacChange, Tick, vars, HasList
<1> QED
  BY <1>1, <1>2, <1>3 DEF Next

\* Cache, lookups, locks and clock are an implementation of Failover.
THEOREM ImplementsFailover == Spec => KeepsPromise
<1> QED
  BY InitImplements, NextImplements, Invariance, PTL DEF Spec, KeepsPromise, F!Spec
=============================================================================
