------------------------------ MODULE NoProxy -------------------------------
(***************************************************************************)
(* noproxy.rs: does a noproxy rule match a host?                           *)
(*                                                                         *)
(* A text is a sequence of letters, in lower case and without the blanks   *)
(* that trim removes.  A host is its text and the addresses it parses to,  *)
(* one or none.  A rule is of the kind that rule_matches takes it for, in  *)
(* this order: a network and its prefix, a pattern given by its parts      *)
(* between the asterisks, an address, a name.                              *)
(***************************************************************************)
EXTENDS Integers, SequencesExt

Dot == "."

CONSTANTS
    Letters,    \* those of hosts and rules
    Width       \* bits of an address of each family: v4 32 and v6 128 in the code

ASSUME NoProxyAssumption ==
    /\ Dot \in Letters
    /\ \A family \in DOMAIN Width : Width[family] \in Nat

\* The text without its first n letters.
From(s, n) == SubSeq(s, n + 1, Len(s))

\* Where part occurs in s: the numbers of letters before it.
Occurrences(part, s) == {n \in 0 .. Len(s) - Len(part) : IsPrefix(part, From(s, n))}

\* trim_end_matches('.')
trim_dots(s) ==
    SubSeq(s, 1, Max({0} \cup {i \in DOMAIN s : s[i] # Dot}))

-----------------------------------------------------------------------------
(* wildcard_match *)

\* What the first part leaves, which must be at the front: the number of letters
\* before the rest, one or none.
Anchored(part, s) == IF IsPrefix(part, s) THEN {Len(part)} ELSE {}

\* The same behind a later part: it is taken where it occurs first in the rest.
AfterFind(part, s, n) ==
    LET at == {m \in Occurrences(part, s) : n <= m}
    IN  IF at = {} THEN {} ELSE {Min(at) + Len(part)}

\* Behind each part: where the rest begins, if the parts so far have been found.
Rests(parts, s) ==
    LET rest[i \in 1 .. Len(parts)] ==
            IF i = 1 THEN Anchored(parts[1], s)
            ELSE UNION {AfterFind(parts[i], s, n) : n \in rest[i - 1]}
    IN  rest

\* No letters may be left behind the last part, if there is one.
wildcard_match(parts, s) ==
    \E n \in Rests(parts, s)[Len(parts)] : Last(parts) = <<>> \/ n = Len(s)

-----------------------------------------------------------------------------
(* cidr_contains *)

\* Mutant: the shift by the whole width, which wraps to none, is not avoided.
host_bits_Shift(prefix, width) == IF prefix >= width THEN 0 ELSE ((width - prefix) % width)

\* The bits that the mask clears.
host_bits(prefix, width) ==
    IF prefix = 0 THEN width ELSE IF prefix >= width THEN 0 ELSE width - prefix

TwoTo[n \in Nat] == IF n = 0 THEN 1 ELSE 2 * TwoTo[n - 1]

Masked(address, bits) == address - (address % TwoTo[bits])

cidr_contains(net, prefix, ip) ==
    /\ net.family = ip.family
    /\ LET bits == host_bits(prefix, Width[ip.family])
       IN  Masked(net.bits, bits) = Masked(ip.bits, bits)

-----------------------------------------------------------------------------
(* What a host and a rule may be, once they have been parsed *)

Text == Seq(Letters)

Address == {a \in [family : DOMAIN Width, bits : Nat] : a.bits < TwoTo[Width[a.family]]}

Host == [text : Text, ips : SUBSET Address]

\* An asterisk has a part on either side, which may be empty.
Rule ==
    [kind : {"cidr"}, net : Address, prefix : Nat]
        \cup [kind : {"pattern"}, parts : {parts \in Seq(Text) : Len(parts) > 1}]
        \cup [kind : {"ip"}, net : Address]
        \cup [kind : {"name"}, name : Text]

-----------------------------------------------------------------------------
rule_matches(text, ips, rule) ==
    CASE rule.kind = "cidr" -> \E ip \in ips : cidr_contains(rule.net, rule.prefix, ip)
      [] rule.kind = "pattern" -> wildcard_match(rule.parts, text)
      [] rule.kind = "ip" -> rule.net \in ips
      [] OTHER -> text = rule.name \/ IsSuffix(<<Dot>> \o rule.name, text)

matches(host, rules) ==
    LET text == trim_dots(host.text)
    IN  text # <<>> /\ \E rule \in rules : rule_matches(text, host.ips, rule)

-----------------------------------------------------------------------------
(* What the rules mean *)

\* Behind each part: the numbers of letters that the parts so far may have used.
\* Each asterisk stands for any letters.
Reached(parts, s) ==
    LET ends[i \in 1 .. Len(parts)] ==
            IF i = 1 THEN Anchored(parts[1], s)
            ELSE {m + Len(parts[i]) : m \in {o \in Occurrences(parts[i], s) :
                                                \E end \in ends[i - 1] : end <= o}}
    IN  ends

Bit(x, i, width) == (x \div TwoTo[width - i]) % 2

Means(rule, host) ==
    LET text == trim_dots(host.text)
    IN  text # <<>> /\
        CASE rule.kind = "cidr" ->
               \E ip \in host.ips :
                  /\ rule.net.family = ip.family
                  /\ \A i \in 1 .. Width[ip.family] : i <= rule.prefix =>
                        Bit(rule.net.bits, i, Width[ip.family]) = Bit(ip.bits, i, Width[ip.family])
          [] rule.kind = "pattern" -> Len(text) \in Reached(rule.parts, text)[Len(rule.parts)]
          [] rule.kind = "ip" -> rule.net \in host.ips
          [] OTHER -> \E n \in 0 .. Len(text) :
                        /\ From(text, n) = rule.name
                        /\ n = 0 \/ text[n] = Dot

\* The pattern ends in letters that occur more than once in the host: *.cn and
\* www.cnki.cn.  wildcard_match takes the first place and finds letters left.
EndsTwice(rule, host) ==
    /\ rule.kind = "pattern" /\ Last(rule.parts) # <<>>
    /\ Cardinality(Occurrences(Last(rule.parts), trim_dots(host.text))) > 1
=============================================================================
