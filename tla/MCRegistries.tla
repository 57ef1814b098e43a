---------------------------- MODULE MCRegistries ----------------------------
(* The submissions of Registries for TLC: parts of a few worlds, in orders.  *)
EXTENDS Registries

Msg(kind, said, log, sn) ==
    [kind |-> kind, said |-> said, log |-> log, sn |-> sn, aid |-> 1, reg |-> 0, prior |-> 0,
     names |-> 0, state |-> "", covers |-> TRUE, valid |-> TRUE]
Rip(said) == Msg("rip", said, said, 0)
Bup(said, log, sn, prior, names, state) ==
    [Msg("bup", said, log, sn) EXCEPT !.prior = prior, !.names = names, !.state = state]
Acm(said, log) == Msg("acm", said, log, 0)
Iss(said, log, reg) == [Msg("iss", said, log, 0) EXCEPT !.reg = reg]

Seal(m) == [i |-> m.log, d |-> m.said, full |-> TRUE]
Bare(m) == [i |-> 0, d |-> m.said, full |-> FALSE]
Foreign(m) == [i |-> 99, d |-> m.said, full |-> TRUE]
Log(events) == [a \in {1} |-> [n \in DOMAIN events |-> <<Seal(events[n])>>]]

Whole(msgs) == SetToAllKPermutations(msgs)
Ordered(msgs) == {SetToSortSeq(part, LAMBDA a, b : a.said < b.said) : part \in SUBSET msgs}
Ups(msgs) == Saids({m \in msgs : m.kind = "bup"})
AllOnce(msgs) == {[u \in Ups(msgs) |-> [on |-> 1, off |-> 0]]}
AnyTimes(msgs) == [Ups(msgs) -> [on : 0..2, off : {0}]]
Anywhere(msgs) == [Ups(msgs) -> [on : {0, 1}, off : {0, 1}]]
Subs(msgs, kels, orders, shows) ==
    {[world |-> msgs, kel |-> k, frames |-> f, riding |-> s] :
        k \in kels, f \in orders, s \in shows}

\* A designation and its revocation, sealed by name, by digest or under another name,
\* or not yet; every part in every order, every disclosure absent, once or twice.
R10 == Rip(10)
B11 == Bup(11, 10, 1, 10, 5, "issued")
B12 == Bup(12, 10, 2, 11, 5, "revoked")
B15 == Bup(15, 10, 3, 12, 5, "issued")
A5 == Acm(5, 10)
Revoked ==
    LET log == [n \in 1..2 |-> <<Seal((<<R10, B11>>)[n])>>]
    IN Subs({R10, B11, B12, A5},
            {[a \in {1} |-> log], [a \in {1} |-> Append(log, <<Seal(B12)>>)],
             [a \in {1} |-> Append(log, <<Bare(B12)>>)],
             [a \in {1} |-> Append(log, <<Foreign(B12)>>)]},
            Whole({R10, B11, B12, A5}), AnyTimes({B11, B12}))
    \* Issued once more, under another registry's name.
    \cup Subs({R10, B11, B12, B15, A5},
              {[a \in {1} |-> log \o << <<Seal(B12)>>, <<Foreign(B15)>> >>]},
              Ordered({R10, B11, B12, B15, A5}), AllOnce({B11, B12, B15}))

\* Two designations in force in either order of their SAIDs, or at one key event; one
\* does not cover the DID.
R20 == Rip(20)
B21 == Bup(21, 20, 1, 20, 7, "issued")
A7 == Acm(7, 20)
R30 == Rip(30)
B31 == Bup(31, 30, 1, 30, 6, "issued")
A6 == [Acm(6, 30) EXCEPT !.covers = FALSE]
TwoMsgs == {R20, B21, A7, R30, B31, A6}
TwoLogs ==
    { Log(<<R20, B21, R30, B31>>), Log(<<R30, R20, B31, B21>>),
      [a \in {1} |-> << <<Bare(R20), Seal(R30)>>, <<Seal(B31), Bare(B21)>> >>],
      [a \in {1} |-> << <<Seal(R30)>>, <<Seal(R20)>>, <<Seal(B21)>>, <<Seal(B31)>> >>] }
Two ==
    Subs(TwoMsgs, TwoLogs, Ordered(TwoMsgs) \cup SetToAllKPermutations(TwoMsgs \ {A7, R30}),
         AllOnce(TwoMsgs))
    \cup Subs(TwoMsgs, TwoLogs, {f \in Whole(TwoMsgs) : Len(f) = 6}, AllOnce(TwoMsgs))

\* An update that says nothing before and after the one that issues, and a spare one.
R40 == Rip(40)
B41 == Bup(41, 40, 1, 40, 0, "")
B42 == Bup(42, 40, 2, 41, 8, "issued")
B43 == Bup(43, 40, 3, 42, 0, "")
A8 == Acm(8, 40)
VacuousMsgs == {R40, B41, B42, B43, A8}
VacuousSubs ==
    Subs(VacuousMsgs, {Log(<<R40, B41, B42, B43>>)}, Ordered(VacuousMsgs),
         AnyTimes(VacuousMsgs) \cup Anywhere(VacuousMsgs))

\* Two updates at one place, one or both of them sealed; a credential that fails its schema.
B13 == Bup(13, 10, 2, 11, 5, "issued")
A4 == [Acm(4, 10) EXCEPT !.valid = FALSE]
B14 == Bup(14, 10, 1, 10, 4, "issued")
Rivals ==
    Subs({R10, B11, B12, B13, A5}, {Log(<<R10, B11, B12>>), Log(<<R10, B11, B12, B13>>)},
         Ordered({R10, B11, B12, B13, A5}), AllOnce({B11, B12, B13}))
    \cup Subs({R10, B14, A4}, {Log(<<R10, B14>>)}, Ordered({R10, B14, A4}), AllOnce({B14}))

\* A version 1 designation and its revocation, sealed alone or with another seal, beside
\* a version 2 registry that is spare until its update is sealed.
V50 == [Msg("vcp", 50, 50, 0) EXCEPT !.reg = 50]
I51 == Iss(51, 3, 50)
X52 == [Msg("rev", 52, 3, 1) EXCEPT !.reg = 50]
C3 == Msg("acdc", 3, 50, 0)
R60 == Rip(60)
B61 == Bup(61, 60, 1, 60, 9, "issued")
A9 == Acm(9, 60)
MixedMsgs == {V50, I51, X52, C3, R60, B61, A9}
MixedLogs ==
    { Log(<<V50, R60, I51>>), Log(<<V50, R60, I51, B61>>), Log(<<V50, R60, B61, I51, X52>>),
      [a \in {1} |-> << <<Seal(V50)>>, <<Seal(R60)>>, <<Seal(I51)>>, <<Seal(B61), Seal(X52)>> >>] }
Mixed ==
    Subs(MixedMsgs, MixedLogs,
         Ordered(MixedMsgs) \cup {f \in Whole(MixedMsgs \ {X52}) : Len(f) = 6},
         AllOnce(MixedMsgs))

\* Another AID's designation beside one of Aid's, and one of Aid's in the other's registry.
Other(m) == [m EXCEPT !.aid = 2]
Own6 == [A6 EXCEPT !.covers = TRUE]
OtherMsgs == {Other(R20), Other(B21), Other(A7), R30, B31, Own6}
StrayMsgs == {Other(R20), Other(B21), A7, R30, B31, Own6}
OtherLog == [a \in {1, 2} |-> IF a = 1 THEN << <<Seal(R30)>>, <<Seal(B31)>> >>
                              ELSE << <<Seal(R20)>>, <<Seal(B21)>> >>]
Others == UNION {Subs(msgs, {OtherLog}, Ordered(msgs), AllOnce(msgs)) :
                    msgs \in {OtherMsgs, StrayMsgs}}

\* A credential in a registry of the other version, and one with a version 1 issuance.
A2 == Acm(2, 50)
I53 == Iss(53, 9, 50)
CrossedMsgs == {V50, I51, C3, R60, B61, A9, I53}
Crossed ==
    Subs({V50, I51, C3, R60, A2}, {Log(<<V50, R60, I51>>)},
         Ordered({V50, I51, C3, R60, A2}), AllOnce({}))
    \cup Subs(CrossedMsgs, {Log(<<V50, R60, I51, B61, I53>>)}, Ordered(CrossedMsgs),
              AllOnce(CrossedMsgs))

MCSubmissions == Revoked \cup Two \cup VacuousSubs \cup Rivals \cup Mixed \cup Others \cup Crossed
=============================================================================
