----------------------------- MODULE MCDocument -----------------------------
(* The inputs of Document for TLC: each part of the state varied by itself.  *)
EXTENDS Document

CONSTANT MaxIds

Key(w) == [w |-> w, of |-> << <<1, 1>> >>]
Flat(weights) == [n \in DOMAIN weights |-> Key(weights[n])]
Count(n, num) == [keys |-> n, num |-> num, clauses |-> <<>>]
Clauses(clauses) == [keys |-> 0, num |-> 0, clauses |-> clauses]
Half == <<1, 2>>

Weights == {<<1, 1>>, Half, <<1, 3>>, <<2, 3>>, <<1, 4>>, <<0, 1>>}
Thresholds ==
    UNION {{Count(n, m) : m \in 1..n} : n \in 1..3}
    \cup {Clauses(<<Flat(ws)>>) :
             ws \in {x \in UNION {[1..n -> Weights] : n \in 1..3} : Reaches(x, DOMAIN x)}}
    \cup {Clauses(<<Flat(<<Half, Half>>), Flat(<< <<1, 1>> >>)>>),
          Clauses(<< <<Key(Half), [w |-> Half, of |-> <<Half, Half>>]>> >>)}

Loc(eid, scheme, stamp, on) ==
    [eid |-> eid, role |-> "", scheme |-> scheme, stamp |-> stamp, on |-> on]
End(eid, role, stamp, on) ==
    [eid |-> eid, role |-> role, scheme |-> "", stamp |-> stamp, on |-> on]
Replies ==
    {Loc(1, "https", 1, TRUE), Loc(1, "https", 2, FALSE), Loc(1, "http", 1, TRUE),
     Loc(2, "http", 1, FALSE), Loc(2, "http", 2, TRUE),
     End(1, "mailbox", 1, TRUE), End(1, "mailbox", 2, FALSE), End(2, "mailbox", 1, TRUE),
     End(1, "agent", 1, TRUE)}

\* Seals of the delegator's anchoring event: the inception, a rotation of the same
\* delegate, an event of another's, and a bare digest.
SealOf(i, d) == [i |-> i, d |-> d, bare |-> FALSE]
Inception == SealOf(Aid, Aid)
AnySeal == {Inception, SealOf(Aid, "Erot"), SealOf("Eother", "Edig"),
            [i |-> "", d |-> "Edoc", bare |-> TRUE]}
Anchorings ==
    {[by |-> 3, seals |-> s] :
        s \in {x \in UNION {[1..n -> AnySeal] : n \in 1..3} : Inception \in Range(x)}}

Spellings ==
    {Entry("webs", Name, Aid, 0), Entry("webs", Name, Aid, 1), Entry("web", Name, Aid, 0),
     Entry("web", Name, Aid, 1), Entry("webs", "elsewhere", Aid, 0),
     Entry("webs", "elsewhere", "Eother", 0), Entry("keri", "", Aid, 0)}
Designated ==
    LET lists == UNION {[1..n -> Spellings] : n \in 1..MaxIds}
    IN {<<l>> : l \in lists} \cup {<<SubSeq(l, 1, 1), Tail(l)>> : l \in lists}

Plainest ==
    [keys |-> "ed25519", threshold |-> Count(1, 1), wits |-> <<>>, replies |-> {},
     anchoring |-> [by |-> 3, seals |-> <<>>],
     designated |-> << <<Entry("webs", Name, Aid, 0), Entry("web", Name, Aid, 0)>> >>]
MCInputs ==
    {[Plainest EXCEPT !.threshold = t] : t \in Thresholds}
    \cup {[Plainest EXCEPT !.keys = "secp256k1"]}
    \cup {[Plainest EXCEPT !.wits = w, !.replies = r] :
             w \in {<<>>, <<2, 1>>}, r \in SUBSET Replies}
    \cup {[Plainest EXCEPT !.anchoring = a, !.replies = r] :
             a \in Anchorings, r \in {{}, {Loc(3, "http", 1, TRUE)},
                                      {Loc(3, "http", 1, TRUE), Loc(3, "https", 1, TRUE)}}}
    \cup {[Plainest EXCEPT !.designated = d] : d \in Designated}
=============================================================================
