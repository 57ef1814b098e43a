--------------------------------- MODULE Did ---------------------------------
(***************************************************************************)
(* did.py and publish.artifact_dir: a did:webs identifier from its text to  *)
(* the DID it is, the spelling and the URL it has, and the directory its    *)
(* artifacts go to.                                                        *)
(*                                                                         *)
(* A text is what follows "did:webs:", a sequence of symbols: "a" and "A"   *)
(* stand for a letter, "8" for a digit, "-" and "." for themselves, "E" for *)
(* an AID of one of the digest codes and "B" for one of a non-transferable  *)
(* code (each 44 or 88 characters, and letters like any in a host or in a   *)
(* path), "%3A" and "%3a" for the port marker, and "\n" for a line's end.   *)
(* The lengths of labels and of hosts are left out, and so are IPv4         *)
(* addresses, which pass as the labels they are made of would.             *)
(***************************************************************************)
EXTENDS Naturals, SequencesExt

CONSTANTS
    Texts,      \* the texts that are parsed while nothing is published
    Later,      \* those that are parsed after
    Built,      \* DIDs that are constructed without parsing
    Addresses,  \* what RFC 3986 has between the brackets of an IP-literal
    PortDigits, \* the most digits of a port, 5
    MaxPlaced   \* how many publications are followed

VARIABLES
    stage,      \* "ready", "parse", "invalid", "place", "corrupt" or "placed"
    raw,        \* the text in hand
    did,        \* the DID in hand
    site        \* what has been published: pairs of a DID and its directory

didVars == <<stage, raw, did, site>>

Letters == {"a", "A", "E", "e", "B", "b"}
Digits == {"8"}
Markers == {"%3A", "%3a"}
Up == <<".", ".">>
Delimiters == {"/", "?", "#"}
Symbols == Letters \cup Digits \cup Markers \cup Delimiters \cup {"-", ".", ":", "[", "]", "\n"}
NoPort == <<>>
\* No DID has an empty host.
NoHost == <<>>
Invalid == [host |-> NoHost, port |-> NoPort, path |-> <<>>, aid |-> <<>>]

Over(text, symbols) == Range(text) \subseteq symbols

\* str.lower, of a host.
Small == [s \in Letters |-> CASE s = "A" -> "a" [] s = "E" -> "e" [] s = "B" -> "b" [] OTHER -> s]
Lower(text) == [n \in DOMAIN text |-> IF text[n] \in Letters THEN Small[text[n]] ELSE text[n]]

\* A DID as those have it who do not parse it: artifact_dir looks at neither host nor port.
Formed(d) ==
    /\ d \in [host : Seq(Symbols), port : Seq(Digits), path : Seq(Seq(Symbols)), aid : Seq(Symbols)]
    /\ "/" \notin Range(d.host)
    /\ ":" \in Range(d.host) => Last(d.host) = "]"

DidAssumption ==
    /\ PortDigits \in Nat \ {0} /\ MaxPlaced \in Nat
    /\ Addresses \subseteq Seq(Letters \cup Digits \cup {":", "."})
    /\ \A a \in Addresses : Lower(a) \in Addresses
    /\ Texts \cup Later \subseteq Seq(Symbols)
    /\ \A d \in Built : Formed(d)

ASSUME DidAssumption

\* str.split.
Continued(parts, symbol, sep) ==
    IF symbol = sep THEN Append(parts, <<>>)
    ELSE Append(Front(parts), Append(Last(parts), symbol))
Fields(text, sep) ==
    LET fields[n \in 0..Len(text)] ==
            IF n = 0 THEN <<<<>>>> ELSE Continued(fields[n - 1], text[n], sep)
    IN fields[Len(text)]

\* str.join, of one separator before each part.
Joined(parts, sep) == FlattenSeq([n \in DOMAIN parts |-> <<sep>> \o parts[n]])

Find(text, sep) == SelectInSeq(text, LAMBDA s : s = sep)
From(text, n) == SubSeq(text, n, Len(text))

\* What a pattern that ends in $ reads of a text: $ also stands before a last line's end.
Line(text) == IF text # <<>> /\ Last(text) = "\n" THEN Front(text) ELSE text

(***************************************************************************)
(* parse.                                                                  *)
(***************************************************************************)

HasNontransferableCode(aid) == aid # <<>> /\ aid[1] = "B"

\* _validate_aid.
ValidAid(aid) == ~HasNontransferableCode(aid) /\ Line(aid) = <<"E">>

\* The charset alone, which has the dot segments.
Mutant_ValidPathSegmentByCharset(segment) ==
    segment # <<>> /\ Over(segment, Letters \cup Digits \cup {".", "-"})

\* _validate_path_segment.
ValidPathSegment(segment) ==
    /\ segment # <<>> => Head(segment) # "\n" /\ Last(segment) # "\n"
    /\ segment \notin {<<".">>, Up}
    /\ Line(segment) # <<>>
    /\ Over(Line(segment), Letters \cup Digits \cup {".", "-"})

\* A label of letters, digits and hyphens, no hyphen first or last.
LdhLabel(label) ==
    /\ Line(label) # <<>>
    /\ Over(Line(label), Letters \cup Digits \cup {"-"})
    /\ Line(label)[1] # "-" /\ Last(Line(label)) # "-"

\* _validate_host: the canonical form of it, NoHost for none.
Host(host) ==
    IF \/ /\ host # <<>> /\ host[1] = "[" /\ Last(host) = "]"
          /\ SubSeq(host, 2, Len(host) - 1) \in Addresses
       \/ /\ Over(Line(host), Letters \cup Digits \cup {"-", "."})
          /\ \A label \in Range(Fields(host, ".")) : LdhLabel(label)
    THEN Lower(host) ELSE NoHost

\* Too many digits cut down to a port.
Mutant_ExtractPortMarkerCut(span) ==
    LET at == SelectLastInSeq(span, LAMBDA s : s \in Markers)
        digits == From(Line(span), at + 1)
    IN IF at = 0 \/ ~Over(digits, Digits) \/ digits = <<>>
       THEN [host |-> span, port |-> NoPort]
       ELSE [host |-> SubSeq(span, 1, at - 1),
             port |-> SubSeq(digits, 1, Min({PortDigits, Len(digits)}))]

\* _extract_port_marker: the host and the port, a malformed port left in the host.
ExtractPortMarker(span) ==
    LET at == SelectLastInSeq(span, LAMBDA s : s \in Markers)
        digits == From(Line(span), at + 1)
    IN IF at = 0 \/ ~Over(digits, Digits) \/ Len(digits) \notin 1..PortDigits
       THEN [host |-> span, port |-> NoPort]
       ELSE [host |-> SubSeq(span, 1, at - 1), port |-> digits]

\* A span in brackets ends with them, and the port right behind.
BracketedSpan(text) ==
    LET end == Find(text, "]")
        rest == From(text, end + 1)
    IN end + Max({n \in 0..Len(rest) :
                     \A k \in 1..n : rest[k] \in (IF k = 1 THEN Markers ELSE Digits)})

\* _split: where the host and port end, 0 if they do not.
Span(text) ==
    IF text # <<>> /\ text[1] = "["
    THEN IF Find(text, "]") = 0 THEN 0 ELSE BracketedSpan(text)
    ELSE IF Find(text, ":") = 0 THEN 0 ELSE Find(text, ":") - 1

Split(text) ==
    LET end == Span(text)
        parts == Fields(From(text, end + 2), ":")
    IN [tail |-> end < Len(text) /\ text[end + 1] = ":",
        at |-> ExtractPortMarker(SubSeq(text, 1, end)),
        path |-> Front(parts), aid |-> Last(parts)]

\* parse, of a text that has the prefix.
Parse(text) ==
    IF Range(text) \cap Delimiters # {} THEN Invalid
    ELSE LET parts == Split(text)
         IN IF /\ parts.tail
               /\ Host(parts.at.host) # NoHost
               /\ \A segment \in Range(parts.path) : ValidPathSegment(segment)
               /\ ValidAid(parts.aid)
            THEN [host |-> Host(parts.at.host), port |-> parts.at.port,
                  path |-> parts.path, aid |-> parts.aid]
            ELSE Invalid

(***************************************************************************)
(* WebsDid.                                                                *)
(***************************************************************************)

Components(d) == Append(d.path, d.aid)

\* compose, and to_did_web but for the method.
Compose(d) ==
    d.host \o (IF d.port = NoPort THEN <<>> ELSE <<"%3A">> \o d.port) \o Joined(Components(d), ":")

\* did_json_url, but for the scheme and the file.
Url(d) ==
    d.host \o (IF d.port = NoPort THEN <<>> ELSE <<":">> \o d.port) \o Joined(Components(d), "/")

(***************************************************************************)
(* artifact_dir.                                                           *)
(***************************************************************************)

\* The empty name let through.
Mutant_SingleNameOrEmpty(component) ==
    component \notin {<<".">>, Up} /\ "/" \notin Range(component)

\* One directory name: what _UNSAFE_COMPONENTS and _SEPARATORS leave.
SingleName(component) ==
    component \notin {<<>>, <<".">>, Up} /\ "/" \notin Range(component)

\* External: the names a file system goes through, from the root, for these components.
Entered(where, name) ==
    CASE name \in {<<>>, <<".">>} -> where
      [] name = Up /\ where # <<>> /\ Last(where) # Up -> Front(where)
      [] OTHER -> Append(where, name)
Walked(components) ==
    LET names == FlattenSeq([n \in DOMAIN components |-> Fields(components[n], "/")])
        where[n \in 0..Len(names)] == IF n = 0 THEN <<>> ELSE Entered(where[n - 1], names[n])
    IN where[Len(names)]

(***************************************************************************)
(* Steps.                                                                  *)
(***************************************************************************)

DidInit ==
    /\ stage = "ready" /\ raw = <<>> /\ did = Invalid
    /\ site = {}

\* A DID comes as text, or as what someone else made of it.
Give ==
    /\ stage = "ready" /\ Cardinality(site) < MaxPlaced
    /\ \E text \in IF site = {} THEN Texts ELSE Later : raw' = text
    /\ stage' = "parse"
    /\ UNCHANGED <<did, site>>

Construct ==
    /\ stage = "ready" /\ Cardinality(site) < MaxPlaced
    /\ \E d \in Built : did' = d
    /\ raw' = <<>>
    /\ stage' = "place"
    /\ UNCHANGED site

ParseText ==
    /\ stage = "parse"
    /\ did' = Parse(raw)
    /\ stage' = IF Parse(raw) = Invalid THEN "invalid" ELSE "place"
    /\ UNCHANGED <<raw, site>>

\* artifact_dir, and publish if it has one.
Place ==
    /\ stage = "place"
    /\ IF \A component \in Range(Components(did)) : SingleName(component)
       THEN site' = site \cup {[did |-> did, dir |-> Walked(Components(did))]}
            /\ stage' = "placed"
       ELSE stage' = "corrupt" /\ UNCHANGED site
    /\ UNCHANGED <<raw, did>>

\* The process ends, and the next begins.
Exit ==
    /\ stage \in {"invalid", "corrupt", "placed"}
    /\ stage' = "ready" /\ raw' = <<>> /\ did' = Invalid
    /\ UNCHANGED site

DidNext == Give \/ Construct \/ ParseText \/ Place \/ Exit

DidSpec == DidInit /\ [][DidNext]_didVars

(***************************************************************************)
(* Properties.                                                             *)
(***************************************************************************)

\* The ABNF, with the RFCs' hosts: a cut anywhere that leaves a host, a port or none,
\* segments and an AID (did.py:3-17).
LdhHost(text) ==
    \A n \in 1..(Len(text) + 1) :
        LET Edge(k) == k \in {0, Len(text) + 1} \/ text[k] = "."
        IN /\ n \in DOMAIN text => text[n] \in Letters \cup Digits \cup {"-", "."}
           /\ Edge(n) => ~Edge(n - 1) /\ text[n - 1] # "-"
           /\ Edge(n - 1) => text[n] # "-"
IsHost(text) ==
    LdhHost(text) \/ text \in {<<"[">> \o a \o <<"]">> : a \in Addresses}
IsPort(text) ==
    text = <<>> \/ (text[1] \in Markers /\ Over(Tail(text), Digits) /\ Len(text) - 1 \in 1..PortDigits)
IsPath(text) ==
    text = <<>> \/ (text[1] = ":" /\ \A segment \in Range(Fields(Tail(text), ":")) :
                        /\ segment \notin {<<>>, <<".">>, Up}
                        /\ Over(segment, Letters \cup Digits \cup {".", "-"}))
\* A host and its port, a path, and an AID in its only modelled spelling.
OfParts(text, Leads(_, _)) ==
    \E h \in 0..Len(text) : \E p \in h..Len(text) :
        /\ Leads(SubSeq(text, 1, h), SubSeq(text, h + 1, p))
        /\ Len(text) >= p + 2 /\ From(text, Len(text) - 1) = <<":", "E">>
        /\ IsPath(SubSeq(text, p + 1, Len(text) - 2))
InGrammar(text) == OfParts(text, LAMBDA host, port : IsHost(host) /\ IsPort(port))

\* What the $ of the code's patterns adds to the ABNF: one line's end behind a host of
\* labels, one behind the port of such a host, one behind the AID. A host in brackets has
\* none behind it nor behind its port.
Ended(host, port) ==
    \/ IsHost(host) /\ IsPort(port)
    \/ LdhHost(Line(host)) /\ IsPort(Line(port)) /\ port # <<"\n">>
InGrammarOfLines(text) == OfParts(Line(text), Ended)

Parsed == stage = "place" /\ raw # <<>>
Refused == stage = "invalid"

\* Any deviation from the ABNF and the RFCs' host rules is refused (did.py:303-305). It is
\* not: "a:E\n" is taken for a DID, "a\n:E" for one of the host "a\n", and "a%3A8\n:E"
\* for the DID that "a%3A8:E" is.
AcceptsOnlyTheGrammar == Parsed => InGrammar(raw)

\* A text is taken for a DID exactly if the ABNF and the RFCs have it, or have it but for
\* the line's ends that the patterns let through in their three places and nowhere else,
\* whatever way the code, which reads from the left and splits, comes to it.
AcceptsTheGrammar ==
    (Parsed => InGrammarOfLines(raw)) /\ (Refused => ~InGrammarOfLines(raw))

\* How a port may have been written.
PortSpellings(port) ==
    IF port = NoPort THEN {<<>>}
    ELSE {<<marker>> \o port \o end : marker \in Markers, end \in {<<>>, <<"\n">>}}

\* Two things alone are rewritten on the way in, the case of the host and of the marker
\* (did.py:19-23), and one is lost, a line's end behind the port (did.py:98, 215-221):
\* host, port, segments and AID are read from where they stand, one behind the other from
\* the first symbol to the last. The canonical spelling reads back as the same DID.
ReadsAsWritten ==
    Parsed =>
        /\ did.host = Lower(SubSeq(raw, 1, Len(did.host)))
        /\ \E port \in PortSpellings(did.port) :
               raw = SubSeq(raw, 1, Len(did.host)) \o port \o Joined(Components(did), ":")
        /\ Parse(Compose(did)) = did

\* Two DIDs that differ are hosted at two URLs (did.py, did_json_url); on one host, no
\* publication replaces that of another DID, and none is outside the root, whoever made
\* the DID (publish.py, artifact_dir: injectivity and containment).
PlacesAreTheirOwn ==
    /\ \A x, y \in site : x.did # y.did => Url(x.did) # Url(y.did)
    /\ \A x \in site : Len(x.dir) = Len(Components(x.did)) /\ Up \notin Range(x.dir)
    /\ \A x, y \in site : x.did.host = y.did.host /\ x.did.port = y.did.port /\ x.did # y.did
                              => x.dir # y.dir

=============================================================================
