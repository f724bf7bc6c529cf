------------------------------ MODULE MCLookup ------------------------------
(***************************************************************************)
(* An instance of Lookup: every host of up to four letters against every   *)
(* pattern of up to three short parts, every address of a few bits against *)
(* every network, names, the three modes, all kinds of settings and the    *)
(* notations of a hop list.                                                *)
(***************************************************************************)
EXTENDS Lookup

MCWidth == [v4 |-> 3, v6 |-> 4]

MCLetters == {"a", "b", "1", Dot}
NoIp     == {}
Ips(family) == [family : {family}, bits : 0 .. 2^MCWidth[family] - 1]
AllIps   == Ips("v4") \cup Ips("v6")

MCHosts ==
    [text : BoundedSeq(MCLetters \ {"1"}, 4), ips : {NoIp}]
        \cup {[text |-> <<"1">>, ips |-> {ip}] : ip \in AllIps}

Parts == {<<>>, <<"a">>, <<Dot, "a">>, <<"a", "b">>}

Rules ==
    [kind : {"pattern"}, parts : (Parts \X Parts) \cup (Parts \X Parts \X Parts)]
        \cup [kind : {"name"}, name : {<<"a">>, <<"b", Dot, "a">>}]
        \cup [kind : {"ip"}, net : {[family |-> "v4", bits |-> 5]}]
        \cup [kind : {"cidr"}, net : {ip \in AllIps : ip.bits \in {0, 5, 6}}, prefix : 0 .. 5]

At(name, port) == [host |-> name, port |-> port]

FewRules == {{}, {[kind |-> "name", name |-> <<"b">>], [kind |-> "pattern", parts |-> <<<<"a">>, <<>>>>]}}

\* Every rule with one mode, the other modes with few rules.
MCConfigs ==
    [mode : {"pac"}, pac : {"url"}, upstream : {None}, noproxy : {{r} : r \in Rules}]
        \cup [mode : {"pac", "proxy"}, pac : {None, "url"},
              upstream : {None, At("p", 8080), At("p", NoPort)}, noproxy : FewRules]
        \cup [mode : {"system"}, pac : {None}, upstream : {None}, noproxy : FewRules]

Tokens ==
    [word : {"DIRECT"}, addr : {NoAddr}]
        \cup [word : {"PROXY", "SOCKS", "bare", "http="},
              addr : {At("p", 8080), At("q", NoPort), At("direct", 1), At("p", BadPort)}]
        \cup [word : {"HTTP", "other"}, addr : {At("p", 8080)}]
        \cup [word : {"http="}, addr : {NoAddr}]

MCTexts == BoundedSeq(Tokens, 2)

MCSettings ==
    [detect : BOOLEAN, script : BOOLEAN,
     list : {<<>>} \cup {<<t, u>> : t \in {x \in Tokens : x.word \in {"bare", "http=", "SOCKS"}},
                                   u \in [word : {"http="}, addr : {At("q", NoPort)}]}]
=============================================================================
