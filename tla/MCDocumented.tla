---------------------------- MODULE MCDocumented ----------------------------
(***************************************************************************)
(* An instance of Lookup for what the configuration's documentation        *)
(* promises of a host that noproxy names and of a script's SOCKS proxies:  *)
(* one rule, *.cn, hosts in and outside it, and a script that answers with *)
(* SOCKS proxies, HTTP proxies and DIRECT.  A history variable keeps       *)
(* whether the host of the call is one that the rule means.                *)
(***************************************************************************)
EXTENDS Lookup

VARIABLE meant      \* history: a rule of noproxy means the host of this call

DocWidth   == [v4 |-> 3]
DocLetters == {"w", "c", "n", "k", Dot}

DocHosts ==
    {[text |-> text, ips |-> {}] :
        text \in {<<"k", Dot, "c", "n">>, <<"w", Dot, "c", "n", "k", Dot, "c", "n">>, <<"k">>}}

DocConfigs ==
    {[mode |-> "pac", pac |-> "url", upstream |-> None,
      noproxy |-> {[kind |-> "pattern", parts |-> <<<<>>, <<Dot, "c", "n">>>>]}]}

DocSettings == {}

Proxy(word, name, port) == [word |-> word, addr |-> [host |-> name, port |-> port]]

DocTexts ==
    {<<Proxy("PROXY", "p", 8080), Proxy("SOCKS", "s", 1080)>>,
     <<Proxy("SOCKS", "s", 1080)>>,
     <<[word |-> "DIRECT", addr |-> NoAddr]>>}

DocInit == Init /\ meant = FALSE

\* The rules are looked at in every step that leaves "rules".
DocNext ==
    /\ Next
    /\ meant' = IF pc = "rules" THEN \E rule \in cfg.noproxy : Means(rule, host)
                ELSE meant /\ pc # "done"

DocSpec == DocInit /\ [][DocNext]_<<vars, meant>>

\* A host that *.suffix in noproxy means goes DIRECT (config.example.toml:44-45),
\* and a SOCKS proxy of a script's answer is skipped (config.example.toml:30, test
\* socks_is_skipped of hop.rs): so a request to such a host has no SOCKS proxy's
\* address among its hops.  Either of the two would see to it.
NoproxyNeverSocks ==
    pc = "done" /\ meant /\ said # None /\ answer # Error =>
        \A i \in DOMAIN said : said[i].word = "SOCKS" =>
            \A j \in DOMAIN answer : answer[j] # said[i].addr
=============================================================================
