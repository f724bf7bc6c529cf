------------------------------- MODULE Lookup -------------------------------
(***************************************************************************)
(* resolve/winhttp.rs and what hops_for decides around it: where the hops  *)
(* of one request come from.  The noproxy rules come first, then the mode: *)
(* the fixed upstream, the configured script, or what the user's settings  *)
(* name (a script, detection, a list), each with its failures.  It is the  *)
(* detail behind Bypass, LookupOk and LookupErr of Resolver, one call at a *)
(* time: the calls of several tasks share nothing.                         *)
(*                                                                         *)
(* Sources of an answer: "script" is a PAC script at a given URL, "wpad"   *)
(* one that detection finds, "list" the proxies the settings name.         *)
(***************************************************************************)
EXTENDS NoProxy, HopList

CONSTANTS
    Hosts,      \* destinations: text and addresses
    Configs,    \* what config.toml may hold: mode, pac, upstream, noproxy
    Settings,   \* the user's settings: detect, script, list
    Texts,      \* what a script may return
    None        \* an absent Option

ASSUME LookupAssumption ==
    /\ Hosts \subseteq Host
    /\ \A c \in Configs : c.noproxy \subseteq Rule /\ c.upstream \in Addr \cup {None}
    /\ \A s \in Settings : s.list \in Seq(Token)
    /\ Texts \subseteq Seq(Token)
    /\ None \notin Hosts \cup Settings \cup Addr \cup Seq(Token)

VARIABLES
    cfg,        \* the configuration that was loaded
    pc,         \* where hops_for is
    host,       \* the destination, until the rules have been looked at
    ie,         \* Option<IeConfig>: the settings as ie_config read them
    call,       \* the call of proxy_for_url: the sources it names, and which call it is
    answer,     \* the hops, or Error
    by,         \* history: the sources the answer came from
    said,       \* history: the text it was made of
    failed,     \* history: sources that gave no answer
    fault       \* history: what an error was about

vars == <<cfg, pc, host, ie, call, answer, by, said, failed, fault>>

history == <<by, said, failed, fault>>

NoCall == [of |-> {}, role |-> "none"]

\* upstream_addr succeeds: there is an upstream and it has a port.
HasUpstream(c) == c.upstream # None /\ c.upstream.port \notin {NoPort, BadPort}

\* The listen address, which every mode needs, is left out.
validate(c) ==
    /\ c.mode = "proxy" => HasUpstream(c)
    /\ c.mode = "pac" => c.pac # None

Init ==
    /\ cfg \in {c \in Configs : validate(c)}
    /\ pc = "idle" /\ host = None /\ ie = None /\ call = NoCall
    /\ answer = <<>> /\ by = {} /\ said = None /\ failed = {} /\ fault = "none"

-----------------------------------------------------------------------------
(* A call of hops_for, and its end *)

Call ==
    /\ pc = "idle"
    /\ host' \in Hosts
    /\ pc' = "rules"
    /\ UNCHANGED <<cfg, ie, call, answer, history>>

Return(hops, text, why) ==
    /\ answer' = hops
    /\ said' = text
    /\ fault' = IF hops = Error THEN why ELSE "none"
    /\ pc' = "done"
    /\ host' = None
    /\ call' = NoCall

\* The caller has taken the answer.
Returned ==
    /\ pc = "done"
    /\ pc' = "idle"
    /\ ie' = None /\ answer' = <<>> /\ by' = {} /\ said' = None /\ failed' = {} /\ fault' = "none"
    /\ UNCHANGED <<cfg, host, call>>

\* proxy_for_url is called with these sources.
Begin(sources, role) ==
    /\ call' = [of |-> sources, role |-> role]
    /\ pc' = "open"
    /\ host' = None
    /\ UNCHANGED <<cfg, answer, history>>

-----------------------------------------------------------------------------
(* hops_for *)

\* A host that a rule matches goes DIRECT.
Bypass ==
    /\ pc = "rules" /\ matches(host, cfg.noproxy)
    /\ Return(<<Direct>>, None, "none")
    /\ UNCHANGED <<cfg, ie, by, failed>>

\* mode = "proxy": upstream_addr.
Upstream ==
    /\ pc = "rules" /\ ~matches(host, cfg.noproxy)
    /\ cfg.mode = "proxy"
    /\ Return(IF HasUpstream(cfg) THEN <<cfg.upstream>> ELSE Error,
              <<[word |-> "PROXY", addr |-> cfg.upstream]>>, "config")
    /\ UNCHANGED <<cfg, ie, by, failed>>

\* mode = "pac": the configured script and nothing else.
Script ==
    /\ pc = "rules" /\ ~matches(host, cfg.noproxy)
    /\ cfg.mode = "pac"
    /\ IF cfg.pac = None
         THEN Return(Error, None, "config") /\ UNCHANGED <<cfg, by, failed>>
         ELSE Begin({"script"}, "only")
    /\ UNCHANGED ie

\* mode = "system": the settings as they are now, None if they cannot be read.
ReadSettings(s) ==
    /\ pc = "rules" /\ ~matches(host, cfg.noproxy)
    /\ cfg.mode = "system"
    /\ ie' = s
    /\ \/ s = None /\ Begin({"wpad"}, "last")
       \/ s # None /\ s.script /\ s.detect /\ Begin({"script", "wpad"}, "first")
       \/ s # None /\ s.script /\ ~s.detect /\ Begin({"script"}, "first")
       \/ s # None /\ ~s.script /\ s.detect /\ Begin({"wpad"}, "first")
       \/ /\ s # None /\ ~s.script /\ ~s.detect
          /\ pc' = "list" /\ host' = None
          /\ UNCHANGED <<cfg, call, answer, history>>

\* Mutant: without detection the list is passed over.
StaticList_Skipped == pc = "list" /\ Begin({"wpad"}, "last") /\ UNCHANGED ie

\* The list of the settings; with none, detection after all.
StaticList ==
    /\ pc = "list"
    /\ IF ie.list # <<>>
         THEN /\ Return(parse_ie_proxy_list(ie.list), ie.list, "text")
              /\ by' = {"list"}
              /\ UNCHANGED <<cfg, failed>>
         ELSE Begin({"wpad"}, "last")
    /\ UNCHANGED ie

-----------------------------------------------------------------------------
(* proxy_for_url *)

\* The call is over without hops.  The first one of the system mode leaves the
\* settings' list; after the others there is nothing.
Fails(sources, text, why) ==
    /\ failed' = failed \cup sources
    /\ IF call.role = "first"
         THEN pc' = "list" /\ call' = NoCall /\ UNCHANGED <<host, answer, said, fault>>
         ELSE Return(Error, text, why)
    /\ UNCHANGED <<cfg, ie, by>>

\* WinHttpOpen.
Open ==
    /\ pc = "open"
    /\ pc' = "ask"
    /\ UNCHANGED <<cfg, host, ie, call, answer, history>>

OpenFails == pc = "open" /\ Fails(call.of, None, "winhttp")

\* WinHttpGetProxyForUrl gives a text, empty for no proxy.  A text that does not
\* parse is a failure like any other.
Gives(text) ==
    /\ pc = "ask"
    /\ LET hops == parse_ie_proxy_list(text)
       IN  IF hops = Error THEN Fails(call.of, text, "text")
           ELSE /\ Return(hops, text, "none")
                /\ by' = call.of
                /\ UNCHANGED <<cfg, ie, failed>>

\* Mutant: no second try without detection.
FindsNothing_GivesUp ==
    /\ pc = "ask" /\ "wpad" \in call.of
    /\ Fails({"wpad"}, None, "winhttp")

\* It fails with 12180, detection found nothing: a script is asked on its own.
FindsNothing ==
    /\ pc = "ask" /\ "wpad" \in call.of
    /\ IF "script" \in call.of
         THEN /\ call' = [call EXCEPT !.of = {"script"}]
              /\ failed' = failed \cup {"wpad"}
              /\ UNCHANGED <<cfg, pc, host, ie, answer, by, said, fault>>
         ELSE Fails({"wpad"}, None, "winhttp")

\* It fails otherwise: the script cannot be loaded or run.
GivesNothing == pc = "ask" /\ Fails(call.of, None, "winhttp")

proxy_for_url ==
    Open \/ OpenFails \/ FindsNothing \/ GivesNothing \/ \E text \in Texts : Gives(text)

Next ==
    \/ Call \/ Bypass \/ Upstream \/ Script \/ StaticList \/ proxy_for_url \/ Returned
    \/ \E s \in Settings \cup {None} : ReadSettings(s)

Spec == Init /\ [][Next]_vars

-----------------------------------------------------------------------------
(* Properties *)

TypeOK ==
    /\ cfg \in Configs /\ validate(cfg)
    /\ pc \in {"idle", "rules", "open", "ask", "list", "done"}
    /\ host \in Hosts \cup {None} /\ (host = None <=> pc # "rules")
    /\ ie \in Settings \cup {None}
    /\ call \in [of : SUBSET {"script", "wpad"}, role : {"none", "only", "first", "last"}]
    /\ by \subseteq {"script", "wpad", "list"} /\ failed \subseteq {"script", "wpad"}
    /\ fault \in {"none", "config", "winhttp", "text"}

\* A host goes round the proxies exactly when a rule means it, whatever the
\* kinds of the rules and the mode (noproxy.rs).  A pattern is missed only if it
\* ends in letters that occur more than once in the host; one that ends in an
\* asterisk never is.
BypassExact ==
    [][pc = "rules" =>
        LET bypassed == pc' = "done" /\ said' = None /\ answer' = <<Direct>>
            meant    == {r \in cfg.noproxy : Means(r, host)}
        IN  /\ bypassed => meant # {}
            /\ (\E r \in meant : ~EndsTwice(r, host)) => bypassed]_vars

\* Each of the hops can be dialled: DIRECT, or a proxy with a port.
Dialable(hops) == \A i \in DOMAIN hops : hops[i] = Direct \/ hops[i].port \notin {NoPort, BadPort}

\* The hops of a well-formed text are those that it names, in its order, and
\* DIRECT only where it says so or names none; but what a PAC result of SOCKS and
\* HTTP proxies alone gives is what its notation is mistaken for (hop.rs).  No
\* answer is empty, which the resolver relies on, and no text, well-formed or
\* not, gives a hop that has no port.
HopsAsSaid ==
    pc = "done" =>
        /\ answer # <<>>
        /\ answer # Error => Dialable(answer)
        /\ said # None /\ WellFormed(said) =>
              answer = IF Heard(said) = <<>> THEN <<Direct>> ELSE Heard(said)

\* In the system mode a source comes into play only when those before it have
\* failed: a detection that finds nothing does not cost the script, a script that
\* answers nonsense leaves the list, and only settings without a list fall back
\* on a detection they do not ask for.  The other modes ask nobody else.
InOrder ==
    pc = "done" =>
        /\ ie = None => by = {} \/ by = IF cfg.mode = "pac" THEN {"script"} ELSE {"wpad"}
        /\ ie # None =>
            /\ ie.script => "script" \in by \cup failed
            /\ ~ie.script /\ ie.detect => "wpad" \in by \cup failed
            /\ "list" \notin by /\ ~ie.script /\ ~ie.detect => ie.list = <<>>
            /\ answer = Error /\ "list" \notin by => ie.list = <<>> /\ "wpad" \in failed

\* What the proofs need: the call under way is of the role its sources and the
\* settings imply, and the list is reached with the failures that lead there.
Tried(s) ==
    (s.script => "script" \in failed) /\ (~s.script /\ s.detect => "wpad" \in failed)

CallInv ==
    /\ ie # None => cfg.mode = "system"
    /\ pc \in {"idle", "rules"} => ie = None
    /\ pc # "done" => by = {}
    /\ pc \in {"open", "ask"} <=> call.role # "none"
    /\ pc = "list" => ie # None /\ Tried(ie)
    /\ call.role = "only" => call.of = {"script"} /\ cfg.mode = "pac" /\ ie = None
    /\ call.role = "first" =>
        /\ ie # None
        /\ ie.script => "script" \in call.of
        /\ ~ie.script => ie.detect /\ call.of = {"wpad"}
    /\ call.role = "last" =>
        /\ call.of = {"wpad"} /\ cfg.mode = "system"
        /\ ie # None => Tried(ie) /\ ie.list = <<>>

Inv == TypeOK /\ CallInv /\ InOrder /\ (pc = "done" => answer # <<>>)

\* A configuration that was loaded never makes a request fail for a setting: part
\* of the inductive invariant.
ConfigSuffices == fault # "config"
=============================================================================
