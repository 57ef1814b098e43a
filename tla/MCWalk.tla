------------------------------- MODULE MCWalk -------------------------------
(* The streams of Walk for TLC.                                            *)
EXTENDS Walk

CONSTANT MaxParts

MCParts ==
    {Counter(1), Counter(2), Junk}
        \cup {Message(v, TRUE, a) : v \in 1..2,
                                    a \in {"none", "one", "nested", "grouped", "cut"}}
        \cup {Message(v, FALSE, "one") : v \in 1..2}
MCStreams == UNION {[1..n -> MCParts] : n \in 0..MaxParts}

\* What assemble.py joins, as WalkAssumption has it.
MCPublished ==
    {s \in UNION {[1..n -> {Message(1, TRUE, "one"), Message(2, TRUE, "one"),
                            Message(2, TRUE, "none")}] : n \in 1..MaxParts} :
        \A j, k \in DOMAIN s : j < k /\ Bare(s[j]) => s[k].v = 2}
=============================================================================
