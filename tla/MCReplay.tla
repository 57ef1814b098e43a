------------------------------ MODULE MCReplay ------------------------------
(* Scratch databases for Replay: logs of up to four events, with recoveries,  *)
(* a migration to version 2 anywhere, and at most one thing wrong.            *)
EXTENDS Replay

Lists == {<<>>, <<1>>, <<2, 1>>}

\* Kinds of the events after the inception: a recovery follows what the last
\* establishment does, or that event itself if interactions have come since.
Kinds == {"ixn", "rot", "rec"}

\* The place of the last establishment event before n.
LastEst(kinds, n) == Max({0} \cup {m \in 1..(n - 1) : kinds[m] # "ixn"}) 

PriorOf(kinds, n) ==
    CASE n = 1 -> 0
      [] kinds[n] = "rec" -> LastEst(kinds, n)
      [] OTHER -> n - 1

KindsOf(len) ==
    {ks \in [1..len -> Kinds \cup {"icp"}] :
        \A n \in 1..len : (ks[n] = "icp") = (n = 1) /\ (ks[n] = "rec" => ks[n - 1] = "ixn")}

Governs(ks, n) == IF ks[n] = "ixn" THEN LastEst(ks, n) ELSE n
Wig(index, by) == [index |-> index, by |-> by]
AllOf(wits) == [k \in DOMAIN wits |-> Wig(k - 1, wits[k])]
SomeOf(wits) == IF wits = <<>> THEN <<>> ELSE <<Wig(Len(wits) - 1, Last(wits))>>

\* wits, of each establishment event; from where on it is version 2.
Logs(len, lists) ==
    {[n \in 1..len |->
        LET list == ws[Governs(ks, n)]
        IN [v |-> IF n < two THEN 1 ELSE 2, prior |-> PriorOf(ks, n), estive |-> ks[n] # "ixn",
            wits |-> IF ks[n] # "ixn" THEN ws[n] ELSE <<>>,
            wigs |-> IF all THEN AllOf(list) ELSE SomeOf(list), clone |-> "usual"]] :
        ks \in KindsOf(len), ws \in [1..len -> lists], two \in 1..(len + 1), all \in BOOLEAN}

\* One signature or one clone is not as it should be.
Spoilt(log) ==
    {[log EXCEPT ![n].wigs = <<w>>] :
        n \in DOMAIN log, w \in {Wig(-1, 1), Wig(2, 1), Wig(0, 2)}}
    \cup {[log EXCEPT ![n].clone = c] : n \in DOMAIN log, c \in {"miscounted", "unended"}}

Alone(log) == [kevers |-> {"d"}, delegator |-> ("d" :> "none"), logs |-> ("d" :> log)]

\* A delegate of a delegate; the root's log may have been left out.
Under(kevers, root, middle, log) ==
    [kevers |-> kevers,
     delegator |-> ("d" :> "m" @@ "m" :> "r" @@ "r" :> "none"),
     logs |-> ("d" :> log @@ "m" :> middle @@ "r" :> root)]

Delegated ==
    {[log EXCEPT ![3].prior = 1, ![3].estive = TRUE, ![3].wits = <<1>>, ![3].wigs = AllOf(<<1>>)] :
        log \in {x \in Logs(3, {<<2, 1>>}) : x[2].estive}}

MCStores ==
    {Alone(log) : log \in Logs(4, Lists)}
    \cup {Alone(log) : log \in UNION {Spoilt(x) : x \in Logs(3, Lists)}}
    \cup {Under(ks, r, m, log) :
             ks \in {{"d", "m", "r"}, {"d", "m"}, {"d"}}, r \in Logs(1, Lists),
             m \in Logs(2, {<<1>>}), log \in Delegated}
=============================================================================
