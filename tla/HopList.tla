------------------------------ MODULE HopList -------------------------------
(***************************************************************************)
(* hop.rs: what PAC or the user's settings say, as a list of hops.         *)
(*                                                                         *)
(* A text is a sequence of tokens, the pieces between the semicolons.  A   *)
(* token is an optional word and an optional address:                      *)
(*   DIRECT | PROXY a | HTTP a | SOCKS a | a | http=a | another word       *)
(* its word being "bare" where there is none; an address is a host and a   *)
(* port, which may be missing or not be a number.                          *)
(***************************************************************************)
EXTENDS Naturals, SequencesExt

CONSTANTS
    Direct,         \* Hop::Direct
    Error,          \* what a parser returns in place of a list
    DirectNames     \* hosts whose name contains "direct" or "DIRECT"

NoPort  == 0
BadPort == 99999
NoAddr  == [host |-> "none", port |-> NoPort]

\* What is before an address; the parser of lists takes it for a host's name.
Word  == {"DIRECT", "PROXY", "HTTP", "SOCKS", "bare", "http=", "other"}
Addr  == [host : STRING \cup Word, port : Nat]
Hop   == {Direct} \cup Addr
Token == [word : Word, addr : Addr]

ASSUME HopAssumption == Direct \notin Addr /\ Error \notin Seq(Hop)

\* The hop for an address, as a list of one; port 80 if there is none.
http_hop(addr) ==
    CASE addr.port = BadPort -> Error
      [] addr.port = NoPort  -> <<[addr EXCEPT !.port = 80]>>
      [] OTHER               -> <<addr>>

\* Mutant: a SOCKS proxy is spoken to in HTTP.
pac_hop_Socks(token) ==
    CASE token.word = "DIRECT" -> <<Direct>>
      [] token.word \in {"PROXY", "HTTP", "SOCKS", "bare"} -> http_hop(token.addr)
      [] OTHER -> Error

\* The address of a token of one piece, whatever is before an equals sign included.
AsItStands(token) ==
    IF token.word = "http=" THEN [token.addr EXCEPT !.host = token.word \o @] ELSE token.addr

\* One token of parse_pac_result.  Without a keyword there must be a colon: a
\* token of one piece is then the address as it stands.
pac_hop(token) ==
    IF token.word = "DIRECT" THEN <<Direct>>
    ELSE IF token.word \in {"PROXY", "HTTP"} THEN http_hop(token.addr)
    ELSE IF token.word = "SOCKS" THEN <<>>
    ELSE IF token.addr.port = NoPort THEN Error
    ELSE http_hop(AsItStands(token))

\* One token of parse_ie_proxy_list, which splits at blanks too and so takes a
\* keyword for a host, and drops what is before an equals sign.
ie_hop(token) ==
    LET word == IF token.word \in {"bare", "http="} THEN <<>>
                ELSE http_hop([host |-> token.word, port |-> NoPort])
        addr == IF token.addr = NoAddr THEN <<>> ELSE http_hop(token.addr)
    IN  IF addr = Error THEN Error ELSE word \o addr

\* The lists of the tokens one after the other; DIRECT if nothing is left.  One
\* error is the error of the whole text.
Collect(lists) ==
    IF \E i \in DOMAIN lists : lists[i] = Error THEN Error
    ELSE IF FlattenSeq(lists) = <<>> THEN <<Direct>> ELSE FlattenSeq(lists)

parse_pac_result(text) == Collect([i \in DOMAIN text |-> pac_hop(text[i])])

\* The text contains "DIRECT" or "PROXY " somewhere, a host's name included.
LooksLikePac(text) ==
    \E i \in DOMAIN text :
        text[i].word \in {"DIRECT", "PROXY"} \/ text[i].addr.host \in DirectNames

parse_ie_proxy_list(text) ==
    IF LooksLikePac(text) THEN parse_pac_result(text)
    ELSE Collect([i \in DOMAIN text |-> ie_hop(text[i])])

-----------------------------------------------------------------------------
(* What a text means *)

\* The hop that a token names, as a list: DIRECT or an HTTP proxy, in any notation.
Named(token) ==
    IF token.word = "DIRECT" THEN <<Direct>>
    ELSE IF token.word = "SOCKS" \/ (token.word \in {"bare", "http="} /\ token.addr = NoAddr) THEN <<>>
    ELSE <<IF token.addr.port = NoPort THEN [token.addr EXCEPT !.port = 80] ELSE token.addr>>

\* The hops a text names, in its order.
Listed(text) == FlattenSeq([i \in DOMAIN text |-> Named(text[i])])

Keywords == {"DIRECT", "PROXY", "HTTP", "SOCKS"}

\* A PAC result, all of whose tokens begin with a keyword, and a list of IE, none
\* of whose tokens does.
PacNotation(text) == \A i \in DOMAIN text : text[i].word \in Keywords
IeNotation(text)  == \A i \in DOMAIN text : text[i].word \in {"bare", "http="}

\* The texts of either notation whose addresses are addresses.
WellFormed(text) ==
    /\ \A i \in DOMAIN text : text[i].addr.port # BadPort /\ text[i].addr.host \notin DirectNames
    /\ PacNotation(text) \/ IeNotation(text)

\* A PAC result that names neither DIRECT nor a PROXY, but SOCKS or HTTP proxies
\* alone, is taken for a list of IE.
Mistaken(text) == \A i \in DOMAIN text : text[i].word \in {"HTTP", "SOCKS"}

\* What comes out then: each keyword is a proxy, at port 80, before the address
\* that follows it, and a SOCKS proxy is one to be spoken to in HTTP.
MistakenHops(token) ==
    <<[host |-> token.word, port |-> 80]>> \o
        IF token.addr = NoAddr THEN <<>> ELSE Named([token EXCEPT !.word = "HTTP"])

\* The hops of a well-formed text, none of which means DIRECT.
Heard(text) ==
    IF Mistaken(text) THEN FlattenSeq([i \in DOMAIN text |-> MistakenHops(text[i])])
    ELSE Listed(text)
=============================================================================
