------------------------------ MODULE Resolver ------------------------------
(***************************************************************************)
(* resolve/mod.rs: the hop resolver that every connection task shares.     *)
(*                                                                         *)
(* A task runs hops_for for its URL.  It consults the cache under the      *)
(* cache mutex, on a miss asks PAC / WinHTTP with no lock held, stores     *)
(* the answer, and filters it through the blacklist.  The connection then  *)
(* tries the hops that are left in order and calls mark_bad on each one    *)
(* that fails.  The tasks of server::run each serve one request, so a task *)
(* goes through hops_for once.                                             *)
(*                                                                         *)
(* A hop list is the answer PAC gave (raw) together with the positions of  *)
(* it that are still to be tried (todo): what filter_blacklist collects is *)
(* raw restricted to todo, in order.  Time is a counter of ticks.  A cache *)
(* slot or a blacklist slot whose deadline is 0 is an absent entry: the    *)
(* clock starts at 1, so the code's tests treat the two alike.             *)
(***************************************************************************)
EXTENDS Naturals, Sequences

CONSTANTS
    Tasks,          \* connection tasks, one request each
    Urls,           \* what url_for_destination builds: scheme, host and port
    Hosts,          \* destination hosts, the cache's keys
    HostOf,         \* [Urls -> Hosts]
    Proxies,        \* Hop::Http { host, port }
    Direct,         \* Hop::Direct
    AnswersFor,     \* [Urls -> sets of hop lists]: what PAC may answer for a URL
    NoProxy,        \* hosts that a noproxy rule matches
    CacheTtl,       \* 60 s in the code
    BlacklistTtl,   \* blacklist_timeout * 60 s, 0 allowed
    LookupLimit,    \* longest time from PAC's answer to its insertion
    MarkLag,        \* longest time from mark_bad's Instant::now() to its insertion
    MaxTime,        \* bound on the clock
    Nobody          \* no task holds the cache mutex

Hop == Proxies \cup {Direct}

\* The lists PAC may have given for some URL of host h.
HostAnswers(h) == UNION {AnswersFor[u] : u \in {v \in Urls : HostOf[v] = h}}

Lists == {<<>>, <<Direct>>} \cup UNION {HostAnswers(h) : h \in Hosts}

ASSUME HostAssumption == HostOf \in [Urls -> Hosts] /\ NoProxy \subseteq Hosts

\* hop.rs never returns an empty list: a list with no usable token is DIRECT.
ASSUME AnswerAssumption ==
    \A u \in Urls : \A a \in AnswersFor[u] : a \in Seq(Hop) /\ a # <<>>

ASSUME HopAssumption == Direct \notin Proxies /\ Nobody \notin Tasks

ASSUME TimeAssumption ==
    /\ CacheTtl \in Nat \ {0}
    /\ {BlacklistTtl, LookupLimit, MarkLag, MaxTime} \subseteq Nat

VARIABLES
    now,        \* the clock
    pac,        \* what PAC / WinHTTP answers at this moment
    cache,      \* Mutex<HashMap<String, CacheEnt>>
    cacheLock,  \* who holds the cache mutex across steps
    blacklist,  \* Mutex<HashMap<String, Instant>>: deadline of each proxy
    pc,         \* where each task is
    url,        \* the URL each task resolves
    raw,        \* the answer in the task's hands
    todo,       \* positions of raw still to be tried
    until,      \* the deadline mark_bad has computed and not yet inserted
    asked,      \* history: when PAC gave the answer hops_for is handling
    forced,     \* history: every hop was bad, so the whole list was kept
    since       \* history: proxies marked bad since the task's list was filtered

vars == <<now, pac, cache, cacheLock, blacklist, pc, url, raw, todo, until,
          asked, forced, since>>

history == <<asked, forced, since>>
shared  == <<now, pac, cache, cacheLock, blacklist>>

NoEntry == [hops |-> <<>>, until |-> 0, asked |-> 0]
Entry   == [hops : Lists, until : Nat, asked : Nat]

host(t)  == HostOf[url[t]]

\* Mutant: an entry is still served at its deadline.
Fresh_AtDeadline(h) == cache[h].until >= now

Fresh(h) == cache[h].until > now

\* Mutant: is_some_and for is_none_or, a proxy never marked counts as bad.
Bad_Unmarked(hop) == hop \in Proxies /\ (blacklist[hop] > now \/ blacklist[hop] = 0)

Bad(hop) == hop \in Proxies /\ blacklist[hop] > now

\* The positions filter_blacklist keeps: all of them when none is usable.
Usable(hops) == {i \in DOMAIN hops : ~Bad(hops[i])}

\* Mutant: no fallback when every hop is bad.
filter_blacklist_Strict(hops) == Usable(hops)

filter_blacklist(hops) == IF Usable(hops) = {} THEN DOMAIN hops ELSE Usable(hops)

\* Mutant: the list is tried from its end.
IsNext_Last(t, i) == i \in todo[t] /\ \A j \in todo[t] : j <= i

\* The hop the task tries next.
IsNext(t, i) == i \in todo[t] /\ \A j \in todo[t] : i <= j

\* The task ends and drops what it held.
End(t) ==
    /\ pc' = [pc EXCEPT ![t] = "done"]
    /\ raw' = [raw EXCEPT ![t] = <<>>]
    /\ todo' = [todo EXCEPT ![t] = {}]
    /\ until' = [until EXCEPT ![t] = 0]
    /\ asked' = [asked EXCEPT ![t] = 0]
    /\ forced' = [forced EXCEPT ![t] = FALSE]
    /\ since' = [since EXCEPT ![t] = {}]
    /\ UNCHANGED <<shared, url>>

Init ==
    /\ now = 1
    /\ pac \in {f \in [Urls -> UNION {AnswersFor[u] : u \in Urls}] :
                    \A u \in Urls : f[u] \in AnswersFor[u]}
    /\ cache = [h \in Hosts |-> NoEntry]
    /\ cacheLock = Nobody
    /\ blacklist = [p \in Proxies |-> 0]
    /\ pc = [t \in Tasks |-> "new"]
    /\ url \in [Tasks -> Urls]
    /\ raw = [t \in Tasks |-> <<>>]
    /\ todo = [t \in Tasks |-> {}]
    /\ until = [t \in Tasks |-> 0]
    /\ asked = [t \in Tasks |-> 0]
    /\ forced = [t \in Tasks |-> FALSE]
    /\ since = [t \in Tasks |-> {}]

-----------------------------------------------------------------------------
(* hops_for *)

\* A host that noproxy matches goes DIRECT: neither map is touched.
Bypass(t) ==
    /\ pc[t] = "new"
    /\ host(t) \in NoProxy
    /\ raw' = [raw EXCEPT ![t] = <<Direct>>]
    /\ todo' = [todo EXCEPT ![t] = {1}]
    /\ pc' = [pc EXCEPT ![t] = "trying"]
    /\ UNCHANGED <<shared, url, until, history>>

\* A fresh entry: the task keeps the cache mutex until the list is filtered.
CacheHit(t) ==
    /\ pc[t] = "new"
    /\ host(t) \notin NoProxy
    /\ cacheLock = Nobody
    /\ Fresh(host(t))
    /\ cacheLock' = t
    /\ raw' = [raw EXCEPT ![t] = cache[host(t)].hops]
    /\ asked' = [asked EXCEPT ![t] = cache[host(t)].asked]
    /\ pc' = [pc EXCEPT ![t] = "filter"]
    /\ UNCHANGED <<now, pac, cache, blacklist, url, todo, until, forced, since>>

\* Mutant: the guard of the miss lives on through the lookup.
CacheMiss_KeepsLock(t) ==
    /\ pc[t] = "new"
    /\ host(t) \notin NoProxy
    /\ cacheLock = Nobody
    /\ ~Fresh(host(t))
    /\ cacheLock' = t
    /\ cache' = [h \in Hosts |-> IF Fresh(h) THEN cache[h] ELSE NoEntry]
    /\ pc' = [pc EXCEPT ![t] = "lookup"]
    /\ UNCHANGED <<now, pac, blacklist, url, raw, todo, until, history>>

\* No fresh entry: retain drops what has expired and the mutex is released.
CacheMiss(t) ==
    /\ pc[t] = "new"
    /\ host(t) \notin NoProxy
    /\ cacheLock = Nobody
    /\ ~Fresh(host(t))
    /\ cache' = [h \in Hosts |-> IF Fresh(h) THEN cache[h] ELSE NoEntry]
    /\ pc' = [pc EXCEPT ![t] = "lookup"]
    /\ UNCHANGED <<now, pac, cacheLock, blacklist, url, raw, todo, until, history>>

\* PAC answers for the task's own URL, with no lock held.
LookupOk(t) ==
    /\ pc[t] = "lookup"
    /\ raw' = [raw EXCEPT ![t] = pac[url[t]]]
    /\ asked' = [asked EXCEPT ![t] = now]
    /\ pc' = [pc EXCEPT ![t] = "insert"]
    /\ UNCHANGED <<shared, url, todo, until, forced, since>>

\* The lookup fails: nothing is cached, the task reports the error and ends.
LookupErr(t) == pc[t] = "lookup" /\ End(t)

\* Mutant: the list is filtered before it is stored.
Insert_Filtered(t) ==
    /\ pc[t] = "insert"
    /\ cacheLock = Nobody
    /\ cache' = [cache EXCEPT ![host(t)] =
                    [hops |-> SelectSeq(raw[t], LAMBDA hop : ~Bad(hop)),
                     until |-> now + CacheTtl, asked |-> asked[t]]]
    /\ pc' = [pc EXCEPT ![t] = "filter"]
    /\ UNCHANGED <<now, pac, cacheLock, blacklist, url, raw, todo, until,
                   asked, forced, since>>

\* Mutant: one slot for every host.
Insert_NoKey(t) ==
    /\ pc[t] = "insert"
    /\ cacheLock = Nobody
    /\ cache' = [h \in Hosts |->
                    [hops |-> raw[t], until |-> now + CacheTtl, asked |-> asked[t]]]
    /\ pc' = [pc EXCEPT ![t] = "filter"]
    /\ UNCHANGED <<now, pac, cacheLock, blacklist, url, raw, todo, until,
                   asked, forced, since>>

\* The answer is stored under the host, whatever another task stored meanwhile.
Insert(t) ==
    /\ pc[t] = "insert"
    /\ cacheLock = Nobody
    /\ cache' = [cache EXCEPT ![host(t)] =
                    [hops |-> raw[t], until |-> now + CacheTtl, asked |-> asked[t]]]
    /\ pc' = [pc EXCEPT ![t] = "filter"]
    /\ UNCHANGED <<now, pac, cacheLock, blacklist, url, raw, todo, until,
                   asked, forced, since>>

\* Mutant: a cached list is returned as it is.
Filter_MissOnly(t) ==
    /\ pc[t] = "filter"
    /\ todo' = [todo EXCEPT ![t] =
                    IF cacheLock = t THEN DOMAIN raw[t] ELSE filter_blacklist(raw[t])]
    /\ cacheLock' = IF cacheLock = t THEN Nobody ELSE cacheLock
    /\ forced' = [forced EXCEPT ![t] = Usable(raw[t]) = {}]
    /\ asked' = [asked EXCEPT ![t] = 0]
    /\ pc' = [pc EXCEPT ![t] = "trying"]
    /\ UNCHANGED <<now, pac, cache, blacklist, url, raw, until, since>>

\* filter_blacklist, then the cache mutex is released if this task holds it.
Filter(t) ==
    /\ pc[t] = "filter"
    /\ todo' = [todo EXCEPT ![t] = filter_blacklist(raw[t])]
    /\ cacheLock' = IF cacheLock = t THEN Nobody ELSE cacheLock
    /\ forced' = [forced EXCEPT ![t] = Usable(raw[t]) = {}]
    /\ asked' = [asked EXCEPT ![t] = 0]
    /\ pc' = [pc EXCEPT ![t] = "trying"]
    /\ UNCHANGED <<now, pac, cache, blacklist, url, raw, until, since>>

-----------------------------------------------------------------------------
(* The hop loop of handle_client, as far as the resolver sees it *)

TryOk(t) == pc[t] = "trying" /\ End(t)

\* No hop is left: the client gets a 502 and the task ends.
GiveUp(t) == pc[t] = "failed" /\ End(t)

\* The loop leaves position i behind.
Advance(t, i) ==
    /\ todo' = [todo EXCEPT ![t] = @ \ {i}]
    /\ pc' = [pc EXCEPT ![t] = IF todo[t] = {i} THEN "failed" ELSE "trying"]

\* DIRECT failed: mark_bad ignores it.
DirectFails(t) ==
    /\ pc[t] = "trying"
    /\ \E i \in todo[t] :
        /\ IsNext(t, i)
        /\ raw[t][i] = Direct
        /\ Advance(t, i)
    /\ UNCHANGED <<shared, url, raw, until, history>>

\* A proxy failed: mark_bad reads the clock before it takes the blacklist mutex.
ProxyFails(t) ==
    /\ pc[t] = "trying"
    /\ \E i \in todo[t] : IsNext(t, i) /\ raw[t][i] \in Proxies
    /\ until' = [until EXCEPT ![t] = now + BlacklistTtl]
    /\ pc' = [pc EXCEPT ![t] = "mark"]
    /\ UNCHANGED <<shared, url, raw, todo, history>>

\* mark_bad inserts the deadline it computed.
MarkBad(t) ==
    /\ pc[t] = "mark"
    /\ \E i \in todo[t] :
        /\ IsNext(t, i)
        /\ blacklist' = [blacklist EXCEPT ![raw[t][i]] = until[t]]
        /\ since' = [s \in Tasks |->
                        IF todo[s] = {} THEN {} ELSE since[s] \cup {raw[t][i]}]
        /\ Advance(t, i)
    /\ until' = [until EXCEPT ![t] = 0]
    /\ UNCHANGED <<now, pac, cache, cacheLock, url, raw, asked, forced>>

-----------------------------------------------------------------------------
(* Around the tasks *)

\* Mutant: the bans go with the entries.
Invalidate_All ==
    /\ cacheLock = Nobody
    /\ cache' = [h \in Hosts |-> NoEntry]
    /\ blacklist' = [p \in Proxies |-> 0]
    /\ UNCHANGED <<now, pac, cacheLock, pc, url, raw, todo, until, history>>

\* Resolver::invalidate, public: the library's user empties the cache.
Invalidate ==
    /\ cacheLock = Nobody
    /\ cache' = [h \in Hosts |-> NoEntry]
    /\ UNCHANGED <<now, pac, cacheLock, blacklist, pc, url, raw, todo, until, history>>

\* The user's proxy settings, the PAC script or the network change.
PacChange ==
    /\ \E u \in Urls : \E a \in AnswersFor[u] : pac' = [pac EXCEPT ![u] = a]
    /\ UNCHANGED <<now, cache, cacheLock, blacklist, pc, url, raw, todo, until, history>>

\* Time passes, no further than the two delays allow.
Tick ==
    /\ now < MaxTime
    /\ \A t \in Tasks : pc[t] = "insert" => now < asked[t] + LookupLimit
    /\ \A t \in Tasks : pc[t] = "mark" => now + BlacklistTtl < until[t] + MarkLag
    /\ now' = now + 1
    /\ UNCHANGED <<pac, cache, cacheLock, blacklist, pc, url, raw, todo, until, history>>

hops_for(t) ==
    \/ Bypass(t) \/ CacheHit(t) \/ CacheMiss(t)
    \/ LookupOk(t) \/ LookupErr(t) \/ Insert(t) \/ Filter(t)

try_hops(t) ==
    TryOk(t) \/ DirectFails(t) \/ ProxyFails(t) \/ MarkBad(t) \/ GiveUp(t)

Next ==
    \/ \E t \in Tasks : hops_for(t) \/ try_hops(t)
    \/ Invalidate \/ PacChange \/ Tick

Spec == Init /\ [][Next]_vars

\* hops_for runs on the blocking pool and a lookup returns: WinHTTP bounds it.
FairSpec == Spec /\ \A t \in Tasks : WF_vars(hops_for(t))

-----------------------------------------------------------------------------
(* Properties *)

TypeOK ==
    /\ now \in Nat \ {0}
    /\ pac \in [Urls -> Lists]
    /\ \A u \in Urls : pac[u] \in AnswersFor[u]
    /\ cache \in [Hosts -> Entry]
    /\ cacheLock \in Tasks \cup {Nobody}
    /\ blacklist \in [Proxies -> Nat]
    /\ pc \in [Tasks -> {"new", "lookup", "insert", "filter", "trying", "mark", "failed", "done"}]
    /\ url \in [Tasks -> Urls]
    /\ raw \in [Tasks -> Lists]
    /\ todo \in [Tasks -> SUBSET Nat]
    /\ until \in [Tasks -> Nat]
    /\ asked \in [Tasks -> Nat]
    /\ forced \in [Tasks -> BOOLEAN]
    /\ since \in [Tasks -> SUBSET Proxies]

\* The task has a list; it came from PAC unless noproxy matched.
HasList(t)  == pc[t] \in {"trying", "mark", "failed"}
Resolved(t) == (pc[t] = "filter" \/ HasList(t)) /\ host(t) \notin NoProxy

\* When hops_for takes an answer, PAC gave it less than a cache period plus
\* one lookup ago.  Concurrent misses that overwrite each other's entries and
\* entries that expire mid-way do not stretch that.
FreshEnough ==
    [][\A t \in Tasks :
        pc[t] # "filter" /\ pc'[t] = "filter" =>
            now < asked'[t] + CacheTtl + LookupLimit]_vars

\* Whatever tasks share the cache, a task only ever tries hops that PAC gave
\* for its own host.
AnswersStayOnHost ==
    \A t \in Tasks : Resolved(t) => raw[t] \in HostAnswers(host(t))

\* Every list handed to the hop loop leaves something to try, also when all
\* of its proxies are blacklisted at once.
NeverEmptyHanded ==
    \A t \in Tasks : pc[t] \in {"trying", "mark"} => todo[t] # {}

\* A task only goes on to a blacklisted proxy when it was marked by another
\* task after this task's list was filtered, or when every hop was bad.
SkipsBad ==
    \A t \in Tasks : pc[t] \in {"trying", "mark"} =>
        \A i \in todo[t] : Bad(raw[t][i]) => forced[t] \/ raw[t][i] \in since[t]

\* A proxy is left out of a list or behind only when a failure of it has been
\* recorded: a request does not drift to a later hop, to DIRECT or to a 502
\* for nothing.
EveryDropHasCause ==
    \A t \in Tasks : HasList(t) =>
        \A i \in DOMAIN raw[t] \ todo[t] :
            raw[t][i] = Direct \/ blacklist[raw[t][i]] > 0

\* mark_bad never cuts a ban short by more than the time between its clock
\* reading and its insertion, in whatever order racing tasks insert.
BlacklistHolds ==
    [][\A p \in Proxies : blacklist'[p] + MarkLag >= blacklist[p]]_vars

\* The inductive invariant.  A cached list is one of its host's answers and its
\* deadline is at most a cache period and a lookup after PAC gave it; a list in
\* a task's hands is as good; a ban is never longer than BlacklistTtl, and the
\* one mark_bad is about to insert is at most MarkLag short of that.
CacheInv ==
    \A h \in Hosts : cache[h].until > 0 =>
        /\ cache[h].hops \in HostAnswers(h)
        /\ cache[h].until <= cache[h].asked + CacheTtl + LookupLimit

LookupInv ==
    \A t \in Tasks : pc[t] = "insert" =>
        now <= asked[t] + LookupLimit /\ raw[t] \in HostAnswers(host(t))

ListInv ==
    \A t \in Tasks :
        /\ todo[t] \subseteq DOMAIN raw[t]
        /\ todo[t] # {} => HasList(t)
        /\ pc[t] = "trying" \/ pc[t] = "mark" => todo[t] # {}
        /\ pc[t] \in {"new", "lookup", "insert", "filter"} => since[t] = {}
        /\ pc[t] \in {"lookup", "insert", "filter"} => host(t) \notin NoProxy
        /\ pc[t] = "filter" => raw[t] \in HostAnswers(host(t))
        /\ HasList(t) => raw[t] # <<>>
        /\ pc[t] = "mark" => \E i \in todo[t] : IsNext(t, i) /\ raw[t][i] \in Proxies

BanInv ==
    /\ \A p \in Proxies : blacklist[p] <= now + BlacklistTtl
    /\ \A t \in Tasks : pc[t] = "mark" =>
        /\ until[t] > 0
        /\ until[t] <= now + BlacklistTtl
        /\ now + BlacklistTtl <= until[t] + MarkLag

Inv == TypeOK /\ CacheInv /\ LookupInv /\ ListInv /\ BanInv
         /\ AnswersStayOnHost /\ SkipsBad /\ EveryDropHasCause

\* The resolver and the hop loop keep the promise of Failover: the cache, the
\* lookups, the locks and the clock are hidden, a list is offered when it has
\* been filtered, and a failure is on record when mark_bad has inserted it.
F == INSTANCE Failover WITH
        ListsOf <- [h \in Hosts |-> IF h \in NoProxy THEN {<<Direct>>} ELSE HostAnswers(h)],
        dest    <- [t \in Tasks |-> host(t)],
        phase   <- [t \in Tasks |-> IF HasList(t) THEN "offered"
                                    ELSE IF pc[t] = "done" THEN "over" ELSE "asking"],
        answer  <- [t \in Tasks |-> IF HasList(t) THEN raw[t] ELSE <<>>],
        failed  <- {p \in Proxies : blacklist[p] > 0}

KeepsPromise == F!Spec

\* hops_for always comes back: with a list, or with the lookup's error.
Answered == \A t \in Tasks : <>(HasList(t) \/ pc[t] = "done")
=============================================================================
