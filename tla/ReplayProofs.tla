---------------------------- MODULE ReplayProofs ----------------------------
(***************************************************************************)
(* Theorems about Replay, for logs of any length and any recoveries, and   *)
(* for delegations of any depth.                                           *)
(***************************************************************************)
EXTENDS Replay, DataInduction

(***************************************************************************)
(* The length of attachments.                                              *)
(***************************************************************************)

Sums(f, groups) ==
  f = [n \in 0 .. Len(groups) |-> IF n = 0 THEN 0 ELSE f[n - 1] + groups[n].size]

Sized(groups) ==
  Len(groups) \in Nat /\ \A n \in 1 .. Len(groups) : groups[n].size \in Nat

LEMMA SumsExist ==
  ASSUME NEW groups, Sized(groups)
  PROVE  \E f : Sums(f, groups) /\ SizeOf(groups) = f[Len(groups)]
<1> DEFINE Upto(f, n) ==
             f = [i \in 0 .. n |-> IF i = 0 THEN 0 ELSE f[i - 1] + groups[i].size]
           S == {n \in Nat : \E f : Upto(f, n)}
<1>1. 0 \in S
  <2>1. PICK f : f = [i \in 0 .. 0 |-> 0]
    OBVIOUS
  <2>2. \A i \in 0 .. 0 : i = 0
    OBVIOUS
  <2>3. [i \in 0 .. 0 |-> 0] = [i \in 0 .. 0 |-> IF i = 0 THEN 0 ELSE f[i - 1] + groups[i].size]
    BY <2>2
  <2>4. Upto(f, 0)
    BY <2>1, <2>3
  <2> QED BY <2>4
<1>2. ASSUME NEW n \in Nat, n \in S
      PROVE  n + 1 \in S
  <2>1. PICK f : Upto(f, n)
    BY <1>2
  <2>2. PICK h : h = [i \in 0 .. n + 1 |-> IF i = n + 1 THEN f[n] + groups[n + 1].size ELSE f[i]]
    OBVIOUS
  <2>3. ASSUME NEW i \in 0 .. n + 1
        PROVE  h[i] = IF i = 0 THEN 0 ELSE h[i - 1] + groups[i].size
    <3>1. CASE i = n + 1
      <4>1. i # 0 /\ i - 1 = n /\ n \in 0 .. n + 1 /\ n # n + 1
        BY <3>1
      <4>2. h[n] = f[n]
        BY <2>2, <4>1
      <4> QED BY <2>2, <3>1, <4>1, <4>2
    <3>2. CASE i # n + 1
      <4>1. i \in 0 .. n /\ h[i] = f[i]
        BY <2>2, <3>2
      <4>2. i # 0 => i - 1 \in 0 .. n + 1 /\ i - 1 # n + 1
        BY <4>1
      <4>3. i # 0 => h[i - 1] = f[i - 1]
        BY <2>2, <4>2
      <4>4. f[i] = IF i = 0 THEN 0 ELSE f[i - 1] + groups[i].size
        BY <2>1, <4>1
      <4> QED BY <4>1, <4>3, <4>4
    <3> QED BY <3>1, <3>2
  <2>4. h = [i \in 0 .. n + 1 |-> h[i]]
    BY <2>2
  <2>5. [i \in 0 .. n + 1 |-> h[i]]
          = [i \in 0 .. n + 1 |-> IF i = 0 THEN 0 ELSE h[i - 1] + groups[i].size]
    BY <2>3
  <2>6. Upto(h, n + 1)
    BY <2>4, <2>5
  <2> HIDE DEF Upto
  <2> QED BY <2>6
<1> HIDE DEF S
<1>3. Len(groups) \in S
  BY <1>1, <1>2, SetInduction DEF Sized
<1>4. \E f : Upto(f, Len(groups))
  BY <1>3 DEF S
<1> DEFINE sum == CHOOSE f : Upto(f, Len(groups))
<1>5. Upto(sum, Len(groups))
  BY <1>4
<1>6. SizeOf(groups) = sum[Len(groups)]
  BY DEF SizeOf
<1>7. Sums(sum, groups)
  BY <1>5 DEF Sums
<1> QED BY <1>6, <1>7

LEMMA SumsAt ==
  ASSUME NEW groups, Sized(groups), NEW f, Sums(f, groups)
  PROVE  /\ f[0] = 0
         /\ \A n \in 1 .. Len(groups) : f[n] = f[n - 1] + groups[n].size
         /\ \A n \in 0 .. Len(groups) : f[n] \in Nat
<1>1. \A n \in 0 .. Len(groups) : f[n] = IF n = 0 THEN 0 ELSE f[n - 1] + groups[n].size
  <2>1. PICK h : h = [n \in 0 .. Len(groups) |-> IF n = 0 THEN 0 ELSE f[n - 1] + groups[n].size]
    OBVIOUS
  <2>2. \A n \in 0 .. Len(groups) : h[n] = IF n = 0 THEN 0 ELSE f[n - 1] + groups[n].size
    BY <2>1
  <2>3. f = h
    BY <2>1 DEF Sums
  <2> QED BY <2>2, <2>3
<1>2. f[0] = 0 /\ Len(groups) \in Nat
  BY <1>1 DEF Sized
<1>3. \A n \in 1 .. Len(groups) : f[n] = f[n - 1] + groups[n].size
  BY <1>1
<1> DEFINE S == {n \in Nat : n <= Len(groups) => f[n] \in Nat}
<1>4. 0 \in S
  BY <1>2
<1>5. ASSUME NEW n \in Nat, n \in S
      PROVE  n + 1 \in S
  <2> SUFFICES ASSUME n + 1 <= Len(groups)
               PROVE  f[n + 1] \in Nat
    OBVIOUS
  <2>1. n + 1 \in 1 .. Len(groups) /\ n + 1 - 1 = n /\ f[n] \in Nat
    BY <1>2, <1>5
  <2>2. f[n + 1] = f[n] + groups[n + 1].size
    BY <1>3, <2>1
  <2>3. groups[n + 1].size \in Nat
    BY <2>1 DEF Sized
  <2> QED BY <2>1, <2>2, <2>3
<1>6. ASSUME NEW n \in 0 .. Len(groups)
      PROVE  f[n] \in Nat
  <2> HIDE DEF S
  <2>1. n \in S
    BY <1>4, <1>5, SetInduction
  <2> QED BY <1>2, <2>1 DEF S
<1> QED BY <1>2, <1>3, <1>6

LEMMA SizeIsNatural ==
  ASSUME NEW groups, Sized(groups)
  PROVE  SizeOf(groups) \in Nat
<1>1. PICK f : Sums(f, groups) /\ SizeOf(groups) = f[Len(groups)]
  BY SumsExist
<1> QED BY <1>1, SumsAt DEF Sized

(* A group put before the last lengthens the attachments by its own size.  *)
LEMMA PutBeforeLast ==
  ASSUME NEW G, \A g \in G : g.size \in Nat, NEW groups \in Seq(G), groups # <<>>, NEW g \in G
  PROVE  LET more == Front(groups) \o <<g, Last(groups)>> IN
           /\ more \in Seq(G) /\ more # <<>> /\ Last(more) = Last(groups)
           /\ SizeOf(more) = SizeOf(groups) + g.size
<1> DEFINE n == Len(groups)
           front == Front(groups)
           tail == <<g, Last(groups)>>
           more == front \o tail
<1>1. n \in Nat /\ n \in 1 .. n /\ \A i \in 1 .. n : groups[i] \in G
  BY EmptySeq, LenProperties
<1>2. front \in Seq(G) /\ Len(front) = n - 1 /\ \A i \in 1 .. n - 1 : front[i] = groups[i]
  <2>1. 1 \in 1 .. n + 1 /\ n - 1 \in 1 - 1 .. n
    BY <1>1
  <2>2. front = SubSeq(groups, 1, n - 1)
    BY DEF Front
  <2>3. /\ SubSeq(groups, 1, n - 1) \in Seq(G)
        /\ Len(SubSeq(groups, 1, n - 1)) = IF 1 <= n - 1 THEN n - 1 - 1 + 1 ELSE 0
        /\ \A i \in 1 .. n - 1 - 1 + 1 : SubSeq(groups, 1, n - 1)[i] = groups[1 + i - 1]
    BY <2>1, SubSeqProperties
  <2> HIDE DEF front
  <2>4. \A i \in 1 .. n - 1 : i \in 1 .. n - 1 - 1 + 1 /\ 1 + i - 1 = i
    BY <1>1
  <2>5. Len(front) = n - 1
    <3>1. Len(front) = IF 1 <= n - 1 THEN n - 1 - 1 + 1 ELSE 0
      BY <2>2, <2>3
    <3> HIDE DEF n
    <3> QED BY <1>1, <3>1
  <2>6. \A i \in 1 .. n - 1 : front[i] = groups[i]
    BY <2>2, <2>3, <2>4
  <2> QED BY <2>2, <2>3, <2>5, <2>6
<1>3. Last(groups) = groups[n] /\ tail \in Seq(G) /\ Len(tail) = 2
      /\ tail[1] = g /\ tail[2] = groups[n]
  BY <1>1 DEF Last
<1> HIDE DEF front, tail
<1>4. /\ more \in Seq(G) /\ Len(more) = n - 1 + 2
      /\ \A i \in 1 .. n - 1 : more[i] = front[i]
      /\ more[n - 1 + 1] = g /\ more[n - 1 + 2] = groups[n]
  <2>1. /\ more \in Seq(G) /\ Len(more) = Len(front) + Len(tail) /\ IsPrefixOf(front, more)
        /\ \A i \in 1 .. Len(tail) : more[Len(front) + i] = tail[i]
    <3>1. front \in Seq(G) /\ tail \in Seq(G)
      BY <1>2, <1>3
    <3> HIDE DEF n
    <3> QED BY <3>1, ConcatExtends
  <2>2. 1 \in 1 .. Len(tail) /\ 2 \in 1 .. Len(tail)
    BY <1>3
  <2>3. more[n - 1 + 1] = g /\ more[n - 1 + 2] = groups[n]
    BY <1>2, <1>3, <2>1, <2>2
  <2>4. \A i \in 1 .. n - 1 : more[i] = front[i]
    BY <1>2, <2>1 DEF IsPrefixOf
  <2>5. Len(more) = n - 1 + 2
    BY <1>2, <1>3, <2>1
  <2> QED BY <2>1, <2>3, <2>4, <2>5
<1> HIDE DEF more
<1>5. Len(more) = n + 1 /\ more[n] = g /\ more[n + 1] = groups[n]
      /\ \A i \in 1 .. n - 1 : more[i] = groups[i]
  BY <1>1, <1>2, <1>4
<1>6. Sized(groups) /\ Sized(more)
  <2>1. Len(more) \in Nat /\ \A i \in 1 .. Len(more) : more[i] \in G
    BY <1>4, LenProperties
  <2> QED BY <1>1, <2>1 DEF Sized
<1>7. PICK f : Sums(f, groups) /\ SizeOf(groups) = f[n]
  BY <1>6, SumsExist
<1>8. PICK e : Sums(e, more) /\ SizeOf(more) = e[Len(more)]
  BY <1>6, SumsExist
<1>9. /\ f[0] = 0 /\ e[0] = 0
      /\ \A i \in 1 .. n : f[i] = f[i - 1] + groups[i].size
      /\ \A i \in 1 .. n + 1 : e[i] = e[i - 1] + more[i].size
      /\ \A i \in 0 .. n : f[i] \in Nat
  BY <1>5, <1>6, <1>7, <1>8, SumsAt
<1>10. e[n - 1] = f[n - 1]
  <2> DEFINE S == {i \in Nat : i <= n - 1 => e[i] = f[i]}
  <2>1. 0 \in S
    BY <1>9
  <2>2. ASSUME NEW i \in Nat, i \in S
        PROVE  i + 1 \in S
    <3> SUFFICES ASSUME i + 1 <= n - 1
                 PROVE  e[i + 1] = f[i + 1]
      OBVIOUS
    <3> HIDE DEF n
    <3>1. /\ i + 1 \in 1 .. n /\ i + 1 \in 1 .. n + 1 /\ i + 1 \in 1 .. n - 1
          /\ i + 1 - 1 = i /\ e[i] = f[i]
      BY <1>1, <2>2
    <3>2. e[i + 1] = e[i] + more[i + 1].size /\ f[i + 1] = f[i] + groups[i + 1].size
      BY <1>9, <3>1
    <3> QED BY <1>5, <3>1, <3>2
  <2> HIDE DEF S
  <2>3. n - 1 \in Nat
    BY <1>1
  <2>4. n - 1 \in S
    BY <2>1, <2>2, <2>3, SetInduction
  <2> QED BY <2>3, <2>4 DEF S
<1>11. SizeOf(more) = SizeOf(groups) + g.size
  <2> HIDE DEF n
  <2>1. n \in 1 .. n + 1 /\ n + 1 \in 1 .. n + 1 /\ n + 1 - 1 = n /\ n - 1 \in 0 .. n /\ n \in 1 .. n
    BY <1>1
  <2>2. e[n] = e[n - 1] + g.size /\ e[n + 1] = e[n] + groups[n].size
        /\ f[n] = f[n - 1] + groups[n].size
    BY <1>5, <1>9, <2>1
  <2>3. g.size \in Nat /\ groups[n].size \in Nat /\ f[n - 1] \in Nat
    BY <1>1, <1>9, <2>1
  <2> QED BY <1>5, <1>7, <1>8, <1>10, <2>2, <2>3
<1>12. Last(more) = Last(groups) /\ more # <<>>
  BY <1>1, <1>3, <1>5 DEF Last
<1> QED BY <1>4, <1>11, <1>12 DEF more, front, tail

(***************************************************************************)
(* One event and its clone.                                                *)
(***************************************************************************)

Groups == [code : {"sigs", "wigs", "receipts", "firstseen"}, size : Nat]

LEMMA CloneIs ==
  ASSUME NEW e \in Events
  PROVE  /\ CloneOf(e).groups \in Seq(Groups) /\ CloneOf(e).groups # <<>>
         /\ CloneOf(e).receipts = <<>>
         /\ SizeOf(CloneOf(e).groups) \in Nat
         /\ e.clone = "usual" => Placeable(CloneOf(e))
<1> DEFINE sigs == Group("sigs", 23)
           signed == <<sigs>> \o (IF e.wigs = <<>> THEN <<>>
                                  ELSE <<Group("wigs", 1 + 22 * Len(e.wigs))>>)
           groups == IF e.clone = "unended" THEN <<FirstSeen>> \o signed
                     ELSE Append(signed, FirstSeen)
           wrapper == SizeOf(groups) + (IF e.clone = "miscounted" THEN 1 ELSE 0)
<1>1. CloneOf(e) = [v |-> e.v, wrapper |-> wrapper, groups |-> groups, receipts |-> <<>>]
  BY DEF CloneOf
<1>2. sigs \in Groups /\ FirstSeen \in Groups /\ Len(e.wigs) \in Nat
      /\ \A m \in Nat : Group("wigs", 1 + 22 * m) \in Groups
  <2>1. Len(e.wigs) \in Nat
    BY LenProperties DEF Events
  <2>2. sigs \in Groups /\ FirstSeen \in Groups
    BY DEF Group, Groups, FirstSeen
  <2>3. ASSUME NEW m \in Nat
        PROVE  Group("wigs", 1 + 22 * m) \in Groups
    <3>1. 1 + 22 * m \in Nat
      OBVIOUS
    <3> QED BY <3>1 DEF Group, Groups
  <2> QED BY <2>1, <2>2, <2>3
<1> HIDE DEF sigs
<1>3. signed \in Seq(Groups)
  <2>1. CASE e.wigs = <<>>
    <3>1. signed = <<sigs>> \o <<>> /\ <<sigs>> \in Seq(Groups)
      BY <1>2, <2>1
    <3> QED BY <3>1
  <2>2. CASE e.wigs # <<>>
    <3>1. PICK w : w = Group("wigs", 1 + 22 * Len(e.wigs))
      OBVIOUS
    <3>2. signed = <<sigs>> \o <<w>> /\ w \in Groups
      BY <1>2, <2>2, <3>1
    <3> QED BY <1>2, <3>2
  <2> QED BY <2>1, <2>2
<1> HIDE DEF signed
<1>4. <<FirstSeen>> \o signed \in Seq(Groups) /\ <<FirstSeen>> \o signed # <<>>
  <2>1. <<FirstSeen>> \in Seq(Groups) /\ Len(<<FirstSeen>>) = 1
    BY <1>2
  <2>2. PICK one : one = <<FirstSeen>>
    OBVIOUS
  <2>3. one \o signed \in Seq(Groups) /\ Len(one \o signed) = 1 + Len(signed) /\ Len(signed) \in Nat
    BY <1>3, <2>1, <2>2, ConcatExtends, LenProperties
  <2> QED BY <2>2, <2>3
<1>5. PICK ended : ended = Append(signed, FirstSeen)
  OBVIOUS
<1>6. ended \in Seq(Groups) /\ ended # <<>> /\ Last(ended) = FirstSeen
  <2>1. /\ ended \in Seq(Groups) /\ Len(ended) = Len(signed) + 1 /\ Len(signed) \in Nat
        /\ ended[Len(signed) + 1] = FirstSeen
    BY <1>2, <1>3, <1>5, AppendProperties, LenProperties
  <2> QED BY <2>1 DEF Last
<1>7. groups \in Seq(Groups) /\ groups # <<>> /\ (e.clone = "usual" => Last(groups) = FirstSeen)
  BY <1>4, <1>5, <1>6
<1> HIDE DEF groups
<1>8. SizeOf(groups) \in Nat
  <2>1. Len(groups) \in Nat /\ \A n \in 1 .. Len(groups) : groups[n] \in Groups
    BY <1>7, LenProperties
  <2>2. \A g \in Groups : g.size \in Nat
    BY DEF Groups
  <2>3. Sized(groups)
    BY <2>1, <2>2 DEF Sized
  <2> QED BY <2>3, SizeIsNatural
<1>9. e.clone = "usual" => wrapper = SizeOf(groups)
  BY <1>8
<1> HIDE DEF wrapper
<1> QED BY <1>1, <1>7, <1>8, <1>9 DEF Placeable

(* What a reader that goes by the count needs of a piece.                  *)
Counted(p) ==
  EventOf(p).clone = "usual" \/ p.msg.receipts # <<>> =>
    p.msg.wrapper = SizeOf(p.msg.groups) /\ Last(p.msg.groups) = FirstSeen

LEMMA ReceiptsAreCounted ==
  ASSUME NEW e \in Events, Placeable(CloneOf(e)), NEW couples, NEW size \in Nat
  PROVE  LET msg == WithReceipts(CloneOf(e), couples, size) IN
           /\ msg.wrapper = SizeOf(msg.groups) /\ Last(msg.groups) = FirstSeen
           /\ msg.receipts = couples
<1> DEFINE clone == CloneOf(e)
           g == Group("receipts", size)
           more == Front(clone.groups) \o <<g, Last(clone.groups)>>
           msg == WithReceipts(clone, couples, size)
<1>1. clone.groups \in Seq(Groups) /\ clone.groups # <<>> /\ SizeOf(clone.groups) \in Nat
  BY CloneIs
<1>2. Last(clone.groups) = FirstSeen /\ clone.wrapper = SizeOf(clone.groups)
  BY DEF Placeable
<1>3. msg.wrapper = clone.wrapper + size /\ msg.groups = more /\ msg.receipts = couples
  BY DEF WithReceipts, CloneOf
<1>4. g \in Groups /\ g.size = size /\ \A x \in Groups : x.size \in Nat
  BY DEF Group, Groups
<1> HIDE DEF clone, g, msg
<1>5. Last(more) = Last(clone.groups) /\ SizeOf(more) = SizeOf(clone.groups) + g.size
  <2>1. PICK groups : groups = clone.groups
    OBVIOUS
  <2> HIDE DEF more
  <2>2. LET m == Front(groups) \o <<g, Last(groups)>> IN
          Last(m) = Last(groups) /\ SizeOf(m) = SizeOf(groups) + g.size
    BY <1>1, <1>4, <2>1, PutBeforeLast
  <2> QED BY <2>1, <2>2 DEF more
<1> HIDE DEF more
<1>6. msg.wrapper = SizeOf(msg.groups) /\ Last(msg.groups) = FirstSeen /\ msg.receipts = couples
  BY <1>2, <1>3, <1>4, <1>5
<1> QED BY <1>6 DEF msg, clone

(***************************************************************************)
(* The witnesses of an event.                                              *)
(***************************************************************************)

(* The last establishment event of a log up to n governs n.                *)
GovernedBy(log, n, m) ==
  /\ m \in 1 .. n /\ log[m].estive
  /\ \A k \in m + 1 .. n : ~log[k].estive

LEMMA GoverningIs ==
  ASSUME NEW log \in Seq(Events), Recoverable(log), NEW n \in 1 .. Len(log),
         NEW m, GovernedBy(log, n, m)
  PROVE  WitnessesOf(log, n) = log[m].wits
<1> DEFINE ms == {x \in 1 .. n : log[x].estive /\ Follows(log, n, x)}
<1>1. Len(log) \in Nat /\ DOMAIN log = 1 .. Len(log) /\ m \in 1 .. n /\ m \in Nat /\ n \in Nat
  BY LenProperties DEF GovernedBy
<1>2. Follows(log, n, m)
  <2> DEFINE ks == m .. n
  <2>1. ks \in SUBSET (m .. n) /\ {m, n} \subseteq ks
    BY <1>1
  <2>2. ASSUME NEW k \in ks \ {m}
        PROVE  log[k].prior \in ks /\ \A j \in ks : j < k => j <= log[k].prior
    <3>1. k \in m + 1 .. n /\ k \in DOMAIN log
      BY <1>1
    <3>2. log[k].prior = k - 1
      BY <3>1 DEF GovernedBy, Recoverable
    <3> QED BY <1>1, <3>1, <3>2
  <2> QED BY <2>1, <2>2 DEF Follows
<1>3. m \in ms
  BY <1>1, <1>2 DEF GovernedBy
<1>4. ASSUME NEW x \in ms
      PROVE  x <= m
  <2>1. ~(x \in m + 1 .. n) /\ x \in 1 .. n
    BY DEF GovernedBy
  <2> QED BY <1>1, <2>1
<1>5. Max(ms) = m
  <2>1. PICK x : x = Max(ms)
    OBVIOUS
  <2>2. x = CHOOSE y \in ms : \A z \in ms : y >= z
    BY <2>1 DEF Max
  <2> HIDE DEF ms
  <2>3. \A z \in ms : m >= z
    BY <1>1, <1>3, <1>4 DEF ms
  <2>4. x \in ms /\ \A z \in ms : x >= z
    BY <1>3, <2>2, <2>3
  <2>5. x \in Nat /\ x >= m /\ x <= m
    BY <1>1, <1>3, <1>4, <2>4 DEF ms
  <2> QED BY <1>1, <2>1, <2>5
<1> QED BY <1>5 DEF WitnessesOf, Governing

LEMMA GoverningExists ==
  ASSUME NEW log \in Seq(Events), Recoverable(log), NEW n \in 1 .. Len(log)
  PROVE  \E m \in 1 .. n : GovernedBy(log, n, m)
<1> DEFINE S == {i \in Nat : i + 1 <= Len(log) => \E m \in 1 .. i + 1 : GovernedBy(log, i + 1, m)}
<1>1. Len(log) \in Nat /\ DOMAIN log = 1 .. Len(log)
  BY LenProperties
<1>2. 0 \in S
  <2> SUFFICES ASSUME 0 + 1 <= Len(log)
               PROVE  \E m \in 1 .. 0 + 1 : GovernedBy(log, 0 + 1, m)
    OBVIOUS
  <2>1. 1 \in DOMAIN log /\ 1 \in 1 .. 0 + 1 /\ \A k \in 1 + 1 .. 0 + 1 : FALSE
    BY <1>1
  <2>2. log[1].estive
    BY <2>1 DEF Recoverable
  <2> QED BY <2>1, <2>2 DEF GovernedBy
<1>3. ASSUME NEW i \in Nat, i \in S
      PROVE  i + 1 \in S
  <2> SUFFICES ASSUME i + 1 + 1 <= Len(log)
               PROVE  \E m \in 1 .. i + 1 + 1 : GovernedBy(log, i + 1 + 1, m)
    OBVIOUS
  <2>1. PICK l : l = i + 1
    OBVIOUS
  <2>2. l \in Nat /\ l + 1 <= Len(log) /\ l + 1 \in DOMAIN log
    BY <1>1, <2>1
  <2>3. PICK m \in 1 .. l : GovernedBy(log, l, m)
    BY <1>1, <1>3, <2>1, <2>2
  <2>4. CASE log[l + 1].estive
    <3>1. l + 1 \in 1 .. l + 1 /\ \A k \in l + 1 + 1 .. l + 1 : FALSE
      BY <2>2
    <3> QED BY <2>1, <2>4, <3>1 DEF GovernedBy
  <2>5. CASE ~log[l + 1].estive
    <3>1. m \in 1 .. l + 1 /\ \A k \in m + 1 .. l + 1 : k \in m + 1 .. l \/ k = l + 1
      BY <2>2
    <3> QED BY <2>1, <2>3, <2>5, <3>1 DEF GovernedBy
  <2> QED BY <2>4, <2>5
<1> HIDE DEF S
<1>4. n - 1 \in Nat /\ n - 1 + 1 = n /\ n <= Len(log)
  BY <1>1
<1>5. n - 1 \in S
  BY <1>2, <1>3, <1>4, SetInduction
<1> QED BY <1>4, <1>5 DEF S

(* The list `_kel_pieces` has come to is that of the event.                *)
LEMMA WitnessesFollow ==
  ASSUME NEW log \in Seq(Events), Recoverable(log), NEW n \in 1 .. Len(log)
  PROVE  /\ log[n].estive => WitnessesOf(log, n) = log[n].wits
         /\ ~log[n].estive => /\ n - 1 \in 1 .. Len(log)
                              /\ WitnessesOf(log, n) = WitnessesOf(log, n - 1)
<1>1. Len(log) \in Nat /\ DOMAIN log = 1 .. Len(log) /\ n \in Nat /\ n \in 1 .. n
  BY LenProperties
<1>2. CASE log[n].estive
  <2>1. GovernedBy(log, n, n)
    BY <1>1, <1>2 DEF GovernedBy
  <2> QED BY <1>2, <2>1, GoverningIs
<1>3. CASE ~log[n].estive
  <2>1. n - 1 \in 1 .. Len(log)
    BY <1>1, <1>3 DEF Recoverable
  <2>2. PICK m \in 1 .. n - 1 : GovernedBy(log, n - 1, m)
    BY <2>1, GoverningExists
  <2>3. m \in 1 .. n /\ \A k \in m + 1 .. n : k \in m + 1 .. n - 1 \/ k = n
    BY <1>1, <2>1
  <2>4. GovernedBy(log, n, m)
    BY <1>3, <2>2, <2>3 DEF GovernedBy
  <2> QED BY <1>3, <2>1, <2>2, <2>4, GoverningIs
<1> QED BY <1>2, <1>3

(***************************************************************************)
(* The chain of delegators.                                                *)
(***************************************************************************)

LEMMA StoreIs ==
  ASSUME NEW s \in Stores
  PROVE  /\ IsFiniteSet(s.kevers) /\ Aid \in s.kevers
         /\ \A a \in s.kevers : s.logs[a] \in Seq(Events) /\ Recoverable(s.logs[a])
         /\ \E accepted \in [s.kevers -> Nat] :
              \A a \in s.kevers :
                s.delegator[a] \in s.kevers => accepted[s.delegator[a]] < accepted[a]
<1>1. Cardinality(s.kevers) \in Nat
  BY ReplayAssumption, FS_CardinalityType
<1> QED BY <1>1, ReplayAssumption

(* A chain that leads from a root, or from one that is not known, to a.    *)
Leads(aids, s, a) ==
  /\ aids \in Seq(s.kevers) /\ aids # <<>> /\ aids[Len(aids)] = a
  /\ \A n \in 2 .. Len(aids) : s.delegator[aids[n]] = aids[n - 1]
  /\ s.delegator[aids[1]] \notin s.kevers

LEMMA ChainExists ==
  ASSUME NEW s \in Stores
  PROVE  \E aids : Leads(aids, s, Aid)
<1>1. PICK accepted \in [s.kevers -> Nat] :
        \A a \in s.kevers :
          s.delegator[a] \in s.kevers => accepted[s.delegator[a]] < accepted[a]
  BY StoreIs
<1> DEFINE S == {n \in Nat : \A a \in s.kevers : accepted[a] < n => \E aids : Leads(aids, s, a)}
<1>2. 0 \in S
  OBVIOUS
<1>3. ASSUME NEW n \in Nat, n \in S
      PROVE  n + 1 \in S
  <2> SUFFICES ASSUME NEW a \in s.kevers, accepted[a] < n + 1
               PROVE  \E aids : Leads(aids, s, a)
    OBVIOUS
  <2>1. CASE s.delegator[a] \notin s.kevers
    <3>1. PICK aids : aids = <<a>>
      OBVIOUS
    <3>2. aids \in Seq(s.kevers) /\ Len(aids) = 1 /\ aids[1] = a /\ aids # <<>>
      <4>1. PICK kevers : kevers = s.kevers
        OBVIOUS
      <4>2. a \in kevers
        BY <4>1
      <4>3. <<a>> \in Seq(kevers) /\ Len(<<a>>) = 1 /\ <<a>>[1] = a
        BY <4>2
      <4>4. aids # <<>>
        BY <3>1
      <4> QED BY <3>1, <4>1, <4>3, <4>4
    <3>3. \A i \in 2 .. Len(aids) : FALSE
      BY <3>2
    <3>4. Leads(aids, s, a)
      BY <2>1, <3>2, <3>3 DEF Leads
    <3> QED BY <3>4
  <2>2. CASE s.delegator[a] \in s.kevers
    <3> DEFINE d == s.delegator[a]
    <3>1. accepted[d] < n
      <4>1. accepted[d] \in Nat /\ accepted[a] \in Nat /\ accepted[d] < accepted[a]
        BY <1>1, <2>2
      <4> QED BY <4>1
    <3>2. PICK above : Leads(above, s, d)
      BY <1>3, <2>2, <3>1
    <3>3. PICK l : l = Len(above)
      OBVIOUS
    <3>4. l \in Nat /\ l # 0 /\ above[l] = d /\ above \in Seq(s.kevers)
      BY <3>2, <3>3, EmptySeq, LenProperties DEF Leads
    <3>5. PICK aids : aids = Append(above, a)
      OBVIOUS
    <3>6. /\ aids \in Seq(s.kevers) /\ Len(aids) = l + 1 /\ aids[l + 1] = a
          /\ \A i \in 1 .. l : aids[i] = above[i]
      BY <3>3, <3>4, <3>5, AppendProperties
    <3>7. ASSUME NEW i \in 2 .. l + 1
          PROVE  s.delegator[aids[i]] = aids[i - 1]
      <4>1. CASE i = l + 1
        <5>0. l \in 1 .. l
          BY <3>4
        <5>1. i - 1 = l /\ l \in 1 .. l
          BY <3>4, <4>1, <5>0
        <5>2. aids[i] = a /\ aids[i - 1] = d
          BY <3>4, <3>6, <4>1, <5>1
        <5> QED BY <3>1, <5>2
      <4>2. CASE i # l + 1
        <5>1. i \in 2 .. l /\ i \in 1 .. l /\ i - 1 \in 1 .. l
          BY <3>4, <4>2
        <5>2. s.delegator[above[i]] = above[i - 1]
          BY <3>2, <3>3, <5>1 DEF Leads
        <5> QED BY <3>6, <5>1, <5>2
      <4> QED BY <4>1, <4>2
    <3>8. s.delegator[aids[1]] \notin s.kevers /\ aids # <<>>
      <4>1. 1 \in 1 .. l
        BY <3>4
      <4>2. aids[1] = above[1] /\ s.delegator[above[1]] \notin s.kevers
        BY <3>2, <3>6, <4>1 DEF Leads
      <4> QED BY <3>4, <3>6, <4>2
    <3>9. Leads(aids, s, a)
      BY <3>6, <3>7, <3>8 DEF Leads
    <3> QED BY <3>9
  <2> QED BY <2>1, <2>2
<1> HIDE DEF S
<1>4. accepted[Aid] + 1 \in Nat /\ accepted[Aid] < accepted[Aid] + 1 /\ Aid \in s.kevers
  BY <1>1, StoreIs
<1>5. accepted[Aid] + 1 \in S
  BY <1>2, <1>3, <1>4, SetInduction
<1> QED BY <1>4, <1>5 DEF S

(* No AID is twice in a chain: it was accepted after all above it.         *)
LEMMA ChainIsInjective ==
  ASSUME NEW s \in Stores, NEW a, NEW aids, Leads(aids, s, a)
  PROVE  \A i, j \in 1 .. Len(aids) : aids[i] = aids[j] => i = j
<1>1. PICK accepted \in [s.kevers -> Nat] :
        \A b \in s.kevers :
          s.delegator[b] \in s.kevers => accepted[s.delegator[b]] < accepted[b]
  BY StoreIs
<1>2. Len(aids) \in Nat /\ \A i \in 1 .. Len(aids) : aids[i] \in s.kevers /\ accepted[aids[i]] \in Nat
  <2>1. Len(aids) \in Nat /\ \A i \in 1 .. Len(aids) : aids[i] \in s.kevers
    BY LenProperties DEF Leads
  <2> QED BY <2>1
<1> DEFINE S == {n \in Nat : n <= Len(aids) =>
                   \A i, j \in 1 .. n : i < j => accepted[aids[i]] < accepted[aids[j]]}
<1>3. 0 \in S
  OBVIOUS
<1>4. ASSUME NEW n \in Nat, n \in S
      PROVE  n + 1 \in S
  <2> SUFFICES ASSUME n + 1 <= Len(aids), NEW i \in 1 .. n + 1, NEW j \in 1 .. n + 1, i < j
               PROVE  accepted[aids[i]] < accepted[aids[j]]
    <3>1. n + 1 \in Nat
      OBVIOUS
    <3> QED BY <3>1
  <2>1. n <= Len(aids) /\ \A x, y \in 1 .. n : x < y => accepted[aids[x]] < accepted[aids[y]]
    BY <1>2, <1>4
  <2>2. CASE j \in 1 .. n
    <3>1. i \in 1 .. n
      BY <2>2
    <3> QED BY <2>1, <2>2, <3>1
  <2>3. CASE j = n + 1
    <3>1. i \in 1 .. n /\ n \in 1 .. n /\ j \in 2 .. Len(aids) /\ j - 1 = n /\ n \in 1 .. Len(aids)
          /\ j \in 1 .. Len(aids) /\ i \in 1 .. Len(aids)
      BY <1>2, <2>1, <2>3
    <3>2. s.delegator[aids[j]] = aids[n]
      BY <3>1 DEF Leads
    <3>3. accepted[aids[n]] < accepted[aids[j]]
      BY <1>1, <1>2, <3>1, <3>2
    <3>4. i = n \/ accepted[aids[i]] < accepted[aids[n]]
      <4>1. i = n \/ i < n
        BY <3>1
      <4> QED BY <2>1, <3>1, <4>1
    <3>5. accepted[aids[i]] \in Nat /\ accepted[aids[n]] \in Nat /\ accepted[aids[j]] \in Nat
      BY <1>2, <3>1
    <3> QED BY <3>3, <3>4, <3>5
  <2> QED BY <2>2, <2>3
<1> HIDE DEF S
<1>5. Len(aids) \in S
  BY <1>2, <1>3, <1>4, SetInduction
<1>6. \A i, j \in 1 .. Len(aids) : i < j => accepted[aids[i]] < accepted[aids[j]]
  BY <1>2, <1>5 DEF S
<1> SUFFICES ASSUME NEW i \in 1 .. Len(aids), NEW j \in 1 .. Len(aids), aids[i] = aids[j], i # j
             PROVE  FALSE
  OBVIOUS
<1>7. i < j \/ j < i
  BY <1>2
<1> QED BY <1>2, <1>6, <1>7

(* A chain has no more AIDs than are known.                                *)
LEMMA ChainIsBounded ==
  ASSUME NEW s \in Stores, NEW aids, Leads(aids, s, Aid)
  PROVE  /\ Len(aids) \in 1 .. Cardinality(s.kevers) /\ Cardinality(s.kevers) \in Nat
         /\ \A i \in 1 .. Len(aids) : aids[i] \in s.kevers
<1>1. Cardinality(s.kevers) \in Nat /\ IsFiniteSet(s.kevers)
  BY StoreIs, FS_CardinalityType
<1>2. aids \in [1 .. Len(aids) -> s.kevers] /\ Len(aids) \in Nat /\ Len(aids) # 0
  BY LenProperties, EmptySeq DEF Leads
<1>3. Len(aids) \in 0 .. Cardinality(s.kevers)
  <2>1. aids \in Injection(1 .. Len(aids), s.kevers)
    BY <1>2, ChainIsInjective DEF Injection, IsInjective
  <2>2. Cardinality(1 .. Len(aids)) <= Cardinality(s.kevers)
    BY <1>1, <2>1, FS_Injection
  <2>3. Cardinality(1 .. Len(aids)) = Len(aids)
    <3>1. PICK m \in Nat : m = Len(aids)
      BY <1>2
    <3>2. m \in Int /\ 1 \in Int
      OBVIOUS
    <3>3. Cardinality(1 .. m) = IF 1 <= m THEN m - 1 + 1 ELSE 0
      BY <3>2, FS_Interval
    <3> QED BY <3>1, <3>3
  <2> QED BY <1>1, <1>2, <2>2, <2>3
<1> QED BY <1>1, <1>2, <1>3

(* The loop has a course.                                                  *)
Climbs(f, s) ==
  f = [n \in 0 .. Cardinality(s.kevers) |-> IF n = 0 THEN <<Aid>> ELSE Climb(f[n - 1], s)]

LEMMA ClimbExists ==
  ASSUME NEW s \in Stores
  PROVE  \E f : Climbs(f, s) /\ DelegationChain(s) = f[Cardinality(s.kevers)]
<1>1. PICK N, K, V : N = Cardinality(s.kevers) /\ K = s.kevers /\ V = Seq(K)
  OBVIOUS
<1>2. N \in Nat /\ Aid \in K
  BY <1>1, StoreIs, FS_CardinalityType
<1>3. PICK base : base = <<Aid>>
  OBVIOUS
<1>4. base \in V
  <2>1. <<Aid>> \in Seq(K)
    BY <1>2
  <2> QED BY <1>1, <1>3, <2>1
<1>5. ASSUME NEW v \in V
      PROVE  Climb(v, s) \in V
  <2>1. PICK d : d = s.delegator[Head(v)]
    OBVIOUS
  <2>2. CASE d \in K
    <3>1. PICK one : one = <<d>>
      OBVIOUS
    <3>2. one \in Seq(K) /\ v \in Seq(K)
      <4>1. <<d>> \in Seq(K)
        BY <2>2
      <4> QED BY <1>1, <3>1, <4>1
    <3>3. one \o v \in Seq(K)
      BY ONLY <3>2, ConcatProperties
    <3> QED BY <1>1, <2>1, <2>2, <3>1, <3>3 DEF Climb
  <2>3. CASE d \notin K
    BY <1>1, <2>1, <2>3 DEF Climb
  <2> QED BY <2>2, <2>3
<1>6. PICK step : step = [n \in 1 .. N |-> [v \in V |-> Climb(v, s)]]
  OBVIOUS
<1>7. \A n \in 1 .. N : \A v \in V : step[n][v] = Climb(v, s) /\ step[n][v] \in V
  BY <1>5, <1>6
<1>8. PICK f : Iterates(f, N, V, base, step)
  BY <1>2, <1>4, <1>7, RecursionExists
<1>9. f \in [0 .. N -> V] /\ \A n \in 0 .. N : f[n] = IF n = 0 THEN base ELSE step[n][f[n - 1]]
  BY <1>8 DEF Iterates
<1>10. ASSUME NEW n \in 0 .. N
       PROVE  f[n] = IF n = 0 THEN <<Aid>> ELSE Climb(f[n - 1], s)
  <2>1. CASE n = 0
    BY <1>3, <1>9, <2>1
  <2>2. CASE n # 0
    <3>1. n \in 1 .. N /\ n - 1 \in 0 .. N
      BY <1>2, <2>2
    <3>2. f[n] = step[n][f[n - 1]] /\ f[n - 1] \in V
      BY <1>9, <2>2, <3>1
    <3> QED BY <1>7, <2>2, <3>1, <3>2
  <2> QED BY <2>1, <2>2
<1>11. Climbs(f, s)
  <2>1. f = [n \in 0 .. N |-> f[n]]
    BY <1>9
  <2>2. [n \in 0 .. N |-> f[n]] = [n \in 0 .. N |-> IF n = 0 THEN <<Aid>> ELSE Climb(f[n - 1], s)]
    BY <1>10
  <2> QED BY <1>1, <2>1, <2>2 DEF Climbs
<1>12. PICK g : g = CHOOSE h : Climbs(h, s)
  OBVIOUS
<1>13. Climbs(g, s)
  BY <1>11, <1>12
<1>14. DelegationChain(s) = g[Cardinality(s.kevers)]
  BY <1>12 DEF DelegationChain, Climbs
<1> QED BY <1>13, <1>14

(* After n turns the last of the chain are there, n and the AID, or all.   *)
EndOf(x, aids, K, k) ==
  /\ x \in Seq(K) /\ k \in 1 .. Len(aids) /\ Len(x) = k
  /\ \A i \in 1 .. k : x[i] = aids[Len(aids) - k + i]

LEMMA ClimbsOn ==
  ASSUME NEW s \in Stores, NEW aids, Leads(aids, s, Aid), NEW x, NEW k, EndOf(x, aids, s.kevers, k)
  PROVE  IF k < Len(aids) THEN EndOf(Climb(x, s), aids, s.kevers, k + 1) ELSE Climb(x, s) = x
<1>1. PICK K, l : K = s.kevers /\ l = Len(aids)
  OBVIOUS
<1>2. l \in Nat /\ k \in 1 .. l /\ Len(x) = k /\ x \in Seq(K) /\ \A i \in 1 .. l : aids[i] \in K
  BY <1>1, ChainIsBounded DEF EndOf
<1>3. \A i \in 1 .. k : x[i] = aids[l - k + i]
  BY <1>1 DEF EndOf
<1>4. PICK h : h = l - k + 1
  OBVIOUS
<1>5. Head(x) = aids[h] /\ h \in 1 .. l
  <2>1. 1 \in 1 .. k /\ h \in 1 .. l /\ x # <<>>
    BY <1>2, <1>4
  <2>2. Head(x) = x[1]
    BY <1>2, <2>1
  <2> QED BY <1>3, <1>4, <2>1, <2>2
<1>6. CASE k < l
  <2>1. h \in 2 .. l /\ h - 1 \in 1 .. l /\ h - 1 = l - (k + 1) + 1
    BY <1>2, <1>4, <1>6
  <2>2. PICK d : d = aids[h - 1]
    OBVIOUS
  <2>3. s.delegator[Head(x)] = d /\ d \in K
    BY <1>1, <1>2, <1>5, <2>1, <2>2 DEF Leads
  <2>4. PICK one, y : one = <<d>> /\ y = one \o x
    OBVIOUS
  <2>5. Climb(x, s) = y
    BY <1>1, <2>3, <2>4 DEF Climb
  <2>6. one \in Seq(K) /\ Len(one) = 1 /\ one[1] = d
    BY <2>3, <2>4
  <2>7. /\ y \in Seq(K) /\ Len(y) = 1 + k /\ y[1] = d
        /\ \A i \in 1 .. k : y[1 + i] = x[i]
    <3>1. \A i \in 1 .. Len(one) + Len(x) : y[i] = IF i <= Len(one) THEN one[i] ELSE x[i - Len(one)]
      BY <1>2, <2>4, <2>6, ConcatProperties
    <3>2. y \in Seq(K) /\ Len(y) = Len(one) + Len(x)
      BY <1>2, <2>4, <2>6, ConcatProperties
    <3>3. ASSUME NEW i \in 1 .. k
          PROVE  y[1 + i] = x[i]
      <4>1. 1 + i \in 1 .. 1 + k /\ ~(1 + i <= 1) /\ 1 + i - 1 = i
        BY <1>2
      <4> QED BY <1>2, <2>6, <3>1, <4>1
    <3>4. y[1] = d
      <4>1. 1 \in 1 .. 1 + k
        BY <1>2
      <4> QED BY <1>2, <2>6, <3>1, <4>1
    <3> QED BY <1>2, <2>6, <3>2, <3>3, <3>4
  <2>8. ASSUME NEW i \in 1 .. k + 1
        PROVE  y[i] = aids[l - (k + 1) + i]
    <3>1. CASE i = 1
      BY <2>1, <2>2, <2>7, <3>1
    <3>2. CASE i # 1
      <4>1. PICK j : j = i - 1
        OBVIOUS
      <4>2. j \in 1 .. k /\ 1 + j = i /\ l - k + j = l - (k + 1) + i
        BY <1>2, <3>2, <4>1
      <4> QED BY <1>3, <2>7, <4>2
    <3> QED BY <3>1, <3>2
  <2>9. k + 1 \in 1 .. l /\ Len(y) = k + 1
    BY <1>2, <1>6, <2>7
  <2> QED BY <1>1, <1>6, <2>5, <2>7, <2>8, <2>9 DEF EndOf
<1>7. CASE ~(k < l)
  <2>1. h = 1
    BY <1>2, <1>4, <1>7
  <2>2. s.delegator[Head(x)] \notin s.kevers
    BY <1>5, <2>1 DEF Leads
  <2> QED BY <1>1, <1>7, <2>2 DEF Climb
<1> QED BY <1>6, <1>7

(* The chain is found, however deep it is.                                 *)
LEMMA DelegationChainIs ==
  ASSUME NEW s \in Stores
  PROVE  Leads(DelegationChain(s), s, Aid)
<1>1. PICK aids : Leads(aids, s, Aid)
  BY ChainExists
<1>2. PICK f : Climbs(f, s) /\ DelegationChain(s) = f[Cardinality(s.kevers)]
  BY ClimbExists
<1>3. PICK N, l, K : N = Cardinality(s.kevers) /\ l = Len(aids) /\ K = s.kevers
  OBVIOUS
<1>4. N \in Nat /\ l \in 1 .. N /\ aids \in Seq(K) /\ aids[l] = Aid /\ Aid \in K
  BY <1>1, <1>3, ChainIsBounded, StoreIs DEF Leads
<1>5. \A n \in 0 .. N : f[n] = IF n = 0 THEN <<Aid>> ELSE Climb(f[n - 1], s)
  BY <1>2, <1>3 DEF Climbs
<1> DEFINE S == {n \in Nat : n <= N => EndOf(f[n], aids, K, IF n < l THEN n + 1 ELSE l)}
<1>6. 0 \in S
  <2>1. f[0] = <<Aid>> /\ 0 < l
    BY <1>4, <1>5
  <2>2. PICK x : x = <<Aid>>
    OBVIOUS
  <2>3. x \in Seq(K) /\ Len(x) = 1 /\ x[1] = Aid
    BY <1>4, <2>2
  <2>4. \A i \in 1 .. 1 : i = 1 /\ l - 1 + i = l
    BY <1>4
  <2>5. EndOf(x, aids, K, 1)
    BY <1>3, <1>4, <2>3, <2>4 DEF EndOf
  <2> QED BY <2>1, <2>2, <2>5
<1>7. ASSUME NEW n \in Nat, n \in S
      PROVE  n + 1 \in S
  <2> SUFFICES ASSUME n + 1 <= N
               PROVE  EndOf(f[n + 1], aids, K, IF n + 1 < l THEN n + 1 + 1 ELSE l)
    OBVIOUS
  <2>1. PICK x, k : x = f[n] /\ k = IF n < l THEN n + 1 ELSE l
    OBVIOUS
  <2>2. EndOf(x, aids, K, k)
    BY <1>4, <1>7, <2>1
  <2>3. f[n + 1] = Climb(x, s)
    <3>1. n + 1 \in 0 .. N /\ n + 1 # 0 /\ n + 1 - 1 = n
      BY <1>4
    <3> QED BY <1>5, <2>1, <3>1
  <2>4. IF k < l THEN EndOf(Climb(x, s), aids, K, k + 1) ELSE Climb(x, s) = x
    BY <1>1, <1>3, <2>2, ClimbsOn
  <2>5. CASE n + 1 < l
    BY <1>4, <2>1, <2>3, <2>4, <2>5
  <2>6. CASE ~(n + 1 < l)
    <3>1. k = l
      BY <1>4, <2>1, <2>6
    <3> QED BY <1>4, <2>2, <2>3, <2>4, <2>6, <3>1
  <2> QED BY <2>5, <2>6
<1> HIDE DEF S
<1>8. N \in S
  BY <1>4, <1>6, <1>7, SetInduction
<1>9. PICK x : x = f[N]
  OBVIOUS
<1>10. EndOf(x, aids, K, l)
  <2>1. ~(N < l)
    BY <1>4
  <2> QED BY <1>4, <1>8, <1>9, <2>1 DEF S
<1>11. x = aids
  <2>1. x \in Seq(K) /\ Len(x) = l /\ \A i \in 1 .. l : x[i] = aids[l - l + i]
    BY <1>3, <1>10 DEF EndOf
  <2>2. \A i \in 1 .. l : l - l + i = i
    BY <1>4
  <2>3. Len(x) = Len(aids) /\ \A i \in 1 .. Len(x) : x[i] = aids[i]
    BY <1>3, <2>1, <2>2
  <2> QED BY ONLY <1>4, <2>1, <2>3, SeqEqual
<1> QED BY <1>1, <1>2, <1>3, <1>9, <1>11

(***************************************************************************)
(* The invariant.                                                          *)
(***************************************************************************)

IsSequence(s) == \E X : s \in Seq(X)

LEMMA AppendIs ==
  ASSUME NEW s, IsSequence(s), NEW y
  PROVE  /\ IsSequence(Append(s, y)) /\ Len(s) \in Nat /\ Len(Append(s, y)) = Len(s) + 1
         /\ DOMAIN s = 1 .. Len(s) /\ DOMAIN Append(s, y) = 1 .. Len(s) + 1
         /\ \A i \in 1 .. Len(s) : Append(s, y)[i] = s[i]
         /\ Append(s, y)[Len(s) + 1] = y
<1>1. PICK X : s \in Seq(X)
  BY DEF IsSequence
<1>2. PICK Y : Y = X \cup {y}
  OBVIOUS
<1>3. s \in Seq(Y) /\ y \in Y
  <2>1. Len(s) \in Nat /\ s \in [1 .. Len(s) -> X]
    BY <1>1, LenProperties
  <2>2. s \in [1 .. Len(s) -> Y]
    BY <1>2, <2>1
  <2> QED BY <1>2, <2>1, <2>2
<1>4. PICK t : t = Append(s, y)
  OBVIOUS
<1>5. /\ t \in Seq(Y) /\ Len(t) = Len(s) + 1
      /\ \A i \in 1 .. Len(s) : t[i] = s[i]
      /\ t[Len(s) + 1] = y
  BY <1>3, <1>4, AppendProperties
<1>6. Len(s) \in Nat /\ DOMAIN s = 1 .. Len(s) /\ DOMAIN t = 1 .. Len(t)
  BY <1>3, <1>5, LenProperties
<1> QED BY <1>4, <1>5, <1>6 DEF IsSequence

Chain == DelegationChain(store)

\* The place in the chain of the log that is written, and how far each has been.
Here == Len(Chain) - Len(chain) + 1
Done(x) == IF x < Here THEN Len(store.logs[Chain[x]]) ELSE IF x = Here THEN at ELSE 0

(* What is written of an event gives its witnesses their receipts, and no  *)
(* one else, and is counted.                                               *)
Receipted(p) ==
  LET e == EventOf(p)
  IN /\ \A r \in Range(p.msg.receipts) :
          r.of = r.by /\ r.of \in Range(WitnessesOf(store.logs[p.pre], p.n))
     /\ e.v = 1 => {r.of : r \in Range(p.msg.receipts)} = {w.by : w \in Range(e.wigs)}

(* The events are written log by log, down the chain, each log in order.   *)
InOrder ==
  /\ \A j \in DOMAIN pieces :
       \E x \in 1 .. Len(Chain) : pieces[j].pre = Chain[x] /\ pieces[j].n \in 1 .. Done(x)
  /\ \A x \in 1 .. Len(Chain) : \A n \in 1 .. Done(x) :
       \E j \in DOMAIN pieces : pieces[j].pre = Chain[x] /\ pieces[j].n = n
  /\ \A j, k \in DOMAIN pieces : \A x, y \in 1 .. Len(Chain) :
       /\ pieces[j].pre = Chain[x] /\ pieces[k].pre = Chain[y]
       /\ x < y \/ (x = y /\ pieces[j].n <= pieces[k].n)
       => j <= k

ReplayInv ==
  /\ store \in Stores /\ outcome \in {"none", "corrupt", "emitted"}
  /\ chain \in Seq(store.kevers) /\ Len(chain) <= Len(Chain)
  /\ \A k \in 1 .. Len(chain) : chain[k] = Chain[Here - 1 + k]
  /\ at \in Nat /\ IF chain = <<>> THEN at = 0 ELSE at <= Len(Log)
  /\ chain # <<>> /\ at # 0 => witnesses = WitnessesOf(Log, at)
  /\ IsSequence(pieces)
  /\ \A p \in Range(pieces) : Receipted(p) /\ Counted(p)
  /\ outcome = "corrupt" =>
       /\ pieces = <<>>
       /\ \E a \in store.kevers : \E n \in DOMAIN store.logs[a] : ~Sound(store.logs[a], n)
  /\ outcome = "emitted" => chain = <<>>
  /\ outcome # "corrupt" => InOrder

LEMMA ReplayInit == Init => ReplayInv
<1> SUFFICES ASSUME Init
             PROVE  ReplayInv
  OBVIOUS
<1>1. store \in Stores /\ chain = Chain /\ at = 0 /\ pieces = <<>> /\ outcome = "none"
  BY DEF Init, Chain
<1>2. Leads(Chain, store, Aid)
  BY <1>1, DelegationChainIs DEF Chain
<1>3. Chain \in Seq(store.kevers) /\ Chain # <<>> /\ Len(Chain) \in Nat /\ Len(Chain) # 0
      /\ \A i \in 1 .. Len(Chain) : Chain[i] \in store.kevers
  BY <1>2, EmptySeq, LenProperties DEF Leads
<1> HIDE DEF Chain
<1>4. Here = 1
  BY <1>1, <1>3 DEF Here
<1>5. \A k \in 1 .. Len(chain) : chain[k] = Chain[Here - 1 + k]
  <2>1. \A k \in 1 .. Len(chain) : 1 - 1 + k = k
    BY <1>1, <1>3
  <2> QED BY <1>1, <1>4, <2>1
<1>6. at <= Len(Log)
  <2>1. 1 \in 1 .. Len(Chain) /\ Head(chain) = Chain[1]
    BY <1>1, <1>3
  <2>2. store.logs[Chain[1]] \in Seq(Events)
    BY <1>1, <1>3, <2>1, StoreIs
  <2>3. Len(Log) \in Nat
    BY <2>1, <2>2, LenProperties DEF Log
  <2> QED BY <1>1, <2>3
<1>7. \A x \in 1 .. Len(Chain) : Done(x) = 0
  BY <1>1, <1>3, <1>4 DEF Done
<1>8. DOMAIN pieces = {} /\ Range(pieces) = {} /\ IsSequence(pieces)
  BY <1>1 DEF Range, IsSequence
<1>9. InOrder
  BY <1>7, <1>8 DEF InOrder
<1> QED BY <1>1, <1>3, <1>5, <1>6, <1>8, <1>9 DEF ReplayInv

(* Where the writing is.                                                   *)
LEMMA HereIs ==
  ASSUME ReplayInv
  PROVE  /\ Leads(Chain, store, Aid)
         /\ Chain \in Seq(store.kevers) /\ Len(Chain) \in Nat /\ Len(chain) \in Nat
         /\ \A x \in 1 .. Len(Chain) :
              /\ Chain[x] \in store.kevers /\ store.logs[Chain[x]] \in Seq(Events)
              /\ Recoverable(store.logs[Chain[x]]) /\ Len(store.logs[Chain[x]]) \in Nat
         /\ Here \in 1 .. Len(Chain) + 1
         /\ \A x, y \in 1 .. Len(Chain) : Chain[x] = Chain[y] => x = y
         /\ chain = <<>> <=> Here = Len(Chain) + 1
         /\ chain # <<>> => Here \in 1 .. Len(Chain) /\ Head(chain) = Chain[Here]
<1>1. Leads(Chain, store, Aid) /\ store \in Stores
  BY DelegationChainIs DEF Chain, ReplayInv
<1>2. Chain \in Seq(store.kevers) /\ Len(Chain) \in Nat /\ Len(chain) \in Nat
      /\ \A x \in 1 .. Len(Chain) : Chain[x] \in store.kevers
  BY <1>1, LenProperties DEF Leads, ReplayInv
<1>3. \A x \in 1 .. Len(Chain) :
        /\ store.logs[Chain[x]] \in Seq(Events) /\ Recoverable(store.logs[Chain[x]])
        /\ Len(store.logs[Chain[x]]) \in Nat
  BY <1>1, <1>2, StoreIs, LenProperties
<1>4. \A x, y \in 1 .. Len(Chain) : Chain[x] = Chain[y] => x = y
  BY <1>1, ChainIsInjective
<1> HIDE DEF Chain
<1>5. Len(chain) <= Len(Chain) /\ Here = Len(Chain) - Len(chain) + 1
  BY DEF ReplayInv, Here
<1>6. Here \in 1 .. Len(Chain) + 1 /\ (Len(chain) = 0 <=> Here = Len(Chain) + 1)
  BY <1>2, <1>5
<1>7. chain = <<>> <=> Len(chain) = 0
  BY EmptySeq DEF ReplayInv
<1>8. ASSUME chain # <<>>
      PROVE  Here \in 1 .. Len(Chain) /\ Head(chain) = Chain[Here]
  <2>1. Here \in 1 .. Len(Chain) /\ 1 \in 1 .. Len(chain) /\ Here - 1 + 1 = Here
    BY <1>2, <1>5, <1>6, <1>7, <1>8
  <2>2. chain[1] = Chain[Here - 1 + 1]
    BY <2>1 DEF ReplayInv
  <2> QED BY <1>8, <2>1, <2>2
<1> QED BY <1>1, <1>2, <1>3, <1>4, <1>6, <1>7, <1>8

(* A variable that is not about the chain leaves it and its events alone.  *)
LEMMA Unmoved ==
  ASSUME UNCHANGED store
  PROVE  /\ Chain' = Chain
         /\ \A p : EventOf(p)' = EventOf(p) /\ Receipted(p)' = Receipted(p)
                   /\ Counted(p)' = Counted(p)
BY DEF Chain, EventOf, Receipted, Counted

(* One more event of the log at the head of the chain is written.          *)
LEMMA OneMoreWritten ==
  ASSUME ReplayInv, Writing, NEW msg, Write(msg),
         Receipted(Piece(at + 1, msg)), Counted(Piece(at + 1, msg)),
         witnesses' = WitnessesOf(Log, at + 1)
  PROVE  ReplayInv'
<1> DEFINE p == Piece(at + 1, msg)
           len == Len(pieces)
<1>1. /\ outcome = "none" /\ chain # <<>> /\ at < Len(Log) /\ at \in Nat
      /\ pieces' = Append(pieces, p) /\ at' = at + 1
      /\ store' = store /\ chain' = chain /\ outcome' = outcome
  BY DEF Writing, Write, ReplayInv
<1>2. /\ Len(Chain) \in Nat /\ Here \in 1 .. Len(Chain) /\ Head(chain) = Chain[Here]
      /\ \A x, y \in 1 .. Len(Chain) : Chain[x] = Chain[y] => x = y
      /\ \A x \in 1 .. Len(Chain) : Len(store.logs[Chain[x]]) \in Nat
  BY <1>1, HereIs
<1>3. p.pre = Chain[Here] /\ p.n = at + 1
  BY <1>2 DEF Piece
<1>4. Log = store.logs[Chain[Here]] /\ Len(Log) \in Nat
  BY <1>2 DEF Log
<1>5. Chain' = Chain /\ Here' = Here /\ Log' = Log
  BY <1>1 DEF Chain, Here, Log
<1> HIDE DEF p, Chain
<1>6. /\ IsSequence(pieces') /\ len \in Nat /\ DOMAIN pieces = 1 .. len /\ DOMAIN pieces' = 1 .. len + 1
      /\ \A i \in 1 .. len : pieces'[i] = pieces[i]
      /\ pieces'[len + 1] = p
  BY <1>1, AppendIs DEF ReplayInv
<1> HIDE DEF len
<1>7. /\ \A x \in 1 .. Len(Chain) : Done(x)' = IF x = Here THEN at + 1 ELSE Done(x)
      /\ Done(Here) = at /\ \A x \in Here + 1 .. Len(Chain) : Done(x) = 0
      /\ \A x \in 1 .. Len(Chain) : Done(x) \in Nat
  <2>1. ASSUME NEW x \in 1 .. Len(Chain)
        PROVE  /\ Done(x)' = IF x = Here THEN at + 1 ELSE Done(x)
               /\ Done(x) \in Nat
    <3>1. Done(x)' = IF x < Here THEN Len(store.logs[Chain[x]]) ELSE IF x = Here THEN at + 1 ELSE 0
      BY <1>1, <1>5 DEF Done
    <3> QED BY <1>1, <1>2, <3>1 DEF Done
  <2>2. Done(Here) = at /\ \A x \in Here + 1 .. Len(Chain) : Done(x) = 0
    BY <1>2 DEF Done
  <2> QED BY <2>1, <2>2
<1>8. \A i \in 1 .. len + 1 : i \in 1 .. len \/ i = len + 1
  BY <1>6
<1>9. InOrder
  BY <1>1 DEF ReplayInv
<1>10. InOrder'
  <2>1. ASSUME NEW j \in 1 .. len + 1
        PROVE  \E x \in 1 .. Len(Chain) : pieces'[j].pre = Chain[x] /\ pieces'[j].n \in 1 .. Done(x)'
    <3>1. CASE j = len + 1
      <4>1. PICK x \in 1 .. Len(Chain) : x = Here
        BY <1>2
      <4>2. Done(x)' = at + 1 /\ at + 1 \in 1 .. at + 1
        BY <1>1, <1>7, <4>1
      <4>3. pieces'[j].pre = Chain[x] /\ pieces'[j].n = at + 1
        BY <1>3, <1>6, <3>1, <4>1
      <4> QED BY <4>2, <4>3
    <3>2. CASE j \in 1 .. len
      <4>1. PICK x \in 1 .. Len(Chain) : pieces[j].pre = Chain[x] /\ pieces[j].n \in 1 .. Done(x)
        BY <1>6, <1>9, <3>2 DEF InOrder
      <4>2. pieces[j].n \in 1 .. Done(x)'
        <5>1. CASE x = Here
          BY <1>1, <1>2, <1>7, <4>1, <5>1
        <5>2. CASE x # Here
          BY <1>7, <4>1, <5>2
        <5> QED BY <5>1, <5>2
      <4> QED BY <1>6, <3>2, <4>1, <4>2
    <3> QED BY <1>8, <3>1, <3>2
  <2>2. ASSUME NEW x \in 1 .. Len(Chain), NEW n \in 1 .. Done(x)'
        PROVE  \E j \in 1 .. len + 1 : pieces'[j].pre = Chain[x] /\ pieces'[j].n = n
    <3>1. CASE x = Here /\ n = at + 1
      <4>1. len + 1 \in 1 .. len + 1
        BY <1>6
      <4> QED BY <1>3, <1>6, <3>1, <4>1
    <3>2. CASE ~(x = Here /\ n = at + 1)
      <4>1. n \in 1 .. Done(x)
        <5>1. CASE x = Here
          BY <1>1, <1>2, <1>7, <3>2, <5>1
        <5>2. CASE x # Here
          BY <1>7, <5>2
        <5> QED BY <5>1, <5>2
      <4>2. PICK j \in 1 .. len : pieces[j].pre = Chain[x] /\ pieces[j].n = n
        BY <1>6, <1>9, <4>1 DEF InOrder
      <4>3. j \in 1 .. len + 1
        BY <1>6
      <4> QED BY <1>6, <4>2, <4>3
    <3> QED BY <3>1, <3>2
  <2>3. ASSUME NEW j \in 1 .. len + 1, NEW k \in 1 .. len + 1,
               NEW x \in 1 .. Len(Chain), NEW y \in 1 .. Len(Chain),
               pieces'[j].pre = Chain[x], pieces'[k].pre = Chain[y],
               x < y \/ (x = y /\ pieces'[j].n <= pieces'[k].n)
        PROVE  j <= k
    <3>1. CASE j \in 1 .. len /\ k \in 1 .. len
      <4>1. pieces'[j] = pieces[j] /\ pieces'[k] = pieces[k]
            /\ j \in DOMAIN pieces /\ k \in DOMAIN pieces
        BY <1>6, <3>1
      <4>2. pieces[j].pre = Chain[x] /\ pieces[k].pre = Chain[y]
        BY <2>3, <4>1
      <4>3. x < y \/ (x = y /\ pieces[j].n <= pieces[k].n)
        BY <2>3, <4>1
      <4> QED BY <1>9, <4>1, <4>2, <4>3 DEF InOrder
    <3>2. CASE k = len + 1
      BY <1>6, <3>2
    <3>3. CASE j = len + 1 /\ k \in 1 .. len
      <4>1. x = Here /\ pieces'[j].n = at + 1
        BY <1>2, <1>3, <1>6, <2>3, <3>3
      <4>2. PICK z \in 1 .. Len(Chain) : pieces[k].pre = Chain[z] /\ pieces[k].n \in 1 .. Done(z)
        BY <1>6, <1>9, <3>3 DEF InOrder
      <4>3. z = y /\ pieces'[k].n = pieces[k].n
        BY <1>2, <1>6, <2>3, <3>3, <4>2
      <4>4. CASE x < y
        <5>1. y \in Here + 1 .. Len(Chain)
          BY <1>2, <4>1, <4>4
        <5>2. Done(y) = 0
          BY <1>7, <5>1
        <5> QED BY <4>2, <4>3, <5>2
      <4>5. CASE x = y
        <5>1. Done(z) = at /\ pieces[k].n \in 1 .. at /\ at + 1 <= pieces[k].n
          BY <1>7, <2>3, <4>1, <4>2, <4>3, <4>5
        <5> QED BY <1>1, <5>1
      <4> QED BY <2>3, <4>4, <4>5
    <3>4. (j \in 1 .. len \/ j = len + 1) /\ (k \in 1 .. len \/ k = len + 1)
      BY <1>8
    <3> QED BY <3>1, <3>2, <3>3, <3>4
  <2>4. \A j \in DOMAIN pieces' :
          \E x \in 1 .. Len(Chain') : pieces'[j].pre = Chain'[x] /\ pieces'[j].n \in 1 .. Done(x)'
    BY <1>5, <1>6, <2>1
  <2>5. \A x \in 1 .. Len(Chain') : \A n \in 1 .. Done(x)' :
          \E j \in DOMAIN pieces' : pieces'[j].pre = Chain'[x] /\ pieces'[j].n = n
    BY <1>5, <1>6, <2>2
  <2>6. ASSUME NEW j \in DOMAIN pieces', NEW k \in DOMAIN pieces',
               NEW x \in 1 .. Len(Chain'), NEW y \in 1 .. Len(Chain'),
               pieces'[j].pre = Chain'[x], pieces'[k].pre = Chain'[y],
               x < y \/ (x = y /\ pieces'[j].n <= pieces'[k].n)
        PROVE  j <= k
    BY <1>5, <1>6, <2>3, <2>6
  <2> QED BY <2>4, <2>5, <2>6 DEF InOrder
<1>11. \A q \in Range(pieces') : Receipted(q)' /\ Counted(q)'
  <2>1. ASSUME NEW i \in 1 .. len + 1
        PROVE  Receipted(pieces'[i]) /\ Counted(pieces'[i])
    <3>1. CASE i = len + 1
      BY <1>6, <3>1 DEF p
    <3>2. CASE i \in 1 .. len
      <4>1. pieces[i] \in Range(pieces) /\ pieces'[i] = pieces[i]
        BY <1>6, <3>2 DEF Range
      <4> QED BY <4>1 DEF ReplayInv
    <3> QED BY <1>8, <3>1, <3>2
  <2>2. \A q \in Range(pieces') : Receipted(q) /\ Counted(q)
    BY <1>6, <2>1 DEF Range
  <2> QED BY <1>1, <2>2, Unmoved
<1>12. WitnessesOf(Log, at + 1)' = WitnessesOf(Log, at + 1)'
  OBVIOUS
<1>13. \A k \in 1 .. Len(chain) : chain[k] = Chain[Here - 1 + k]
  BY DEF ReplayInv
<1>14. chain \in Seq(store.kevers) /\ Len(chain) <= Len(Chain) /\ store \in Stores
  BY DEF ReplayInv
<1>15. at + 1 \in Nat /\ at + 1 <= Len(Log)
  BY <1>1, <1>4
<1>16. witnesses' = WitnessesOf(Log', at')
  BY <1>1, <1>5
<1> QED BY <1>1, <1>5, <1>6, <1>10, <1>11, <1>13, <1>14, <1>15, <1>16 DEF ReplayInv

(* The witnesses the step goes by are those of the event.                  *)
LEMMA FollowsIs ==
  ASSUME ReplayInv, Writing
  PROVE  /\ Log \in Seq(Events) /\ at + 1 \in 1 .. Len(Log) /\ Log[at + 1] \in Events
         /\ Head(chain) \in store.kevers /\ Log = store.logs[Head(chain)]
         /\ DOMAIN Log = 1 .. Len(Log)
         /\ Follow(Log[at + 1]) = WitnessesOf(Log, at + 1)
<1>1. Here \in 1 .. Len(Chain) /\ Head(chain) = Chain[Here]
      /\ Chain[Here] \in store.kevers /\ store.logs[Chain[Here]] \in Seq(Events)
      /\ Recoverable(store.logs[Chain[Here]])
  BY HereIs DEF Writing
<1>2. Log = store.logs[Head(chain)] /\ Log \in Seq(Events) /\ Recoverable(Log)
      /\ at \in Nat /\ at < Len(Log) /\ Len(Log) \in Nat /\ DOMAIN Log = 1 .. Len(Log)
  BY <1>1, LenProperties DEF Log, Writing, ReplayInv
<1>3. at + 1 \in 1 .. Len(Log) /\ at + 1 - 1 = at
  BY <1>2
<1>4. Log[at + 1] \in Events
  BY <1>2, <1>3
<1>5. Follow(Log[at + 1]) = WitnessesOf(Log, at + 1)
  <2>1. CASE Log[at + 1].estive
    BY <1>2, <1>3, <2>1, WitnessesFollow DEF Follow
  <2>2. CASE ~Log[at + 1].estive
    <3>1. at \in 1 .. Len(Log) /\ WitnessesOf(Log, at + 1) = WitnessesOf(Log, at)
      BY <1>2, <1>3, <2>2, WitnessesFollow
    <3>2. witnesses = WitnessesOf(Log, at)
      BY <1>2, <3>1 DEF ReplayInv, Writing
    <3> QED BY <2>2, <3>1, <3>2 DEF Follow
  <2> QED BY <2>1, <2>2
<1> QED BY <1>1, <1>2, <1>3, <1>4, <1>5

LEMMA ReplayNext == ReplayInv /\ [Next]_vars => ReplayInv'
<1> SUFFICES ASSUME ReplayInv, [Next]_vars
             PROVE  ReplayInv'
  OBVIOUS
<1>1. CASE WriteClone
  <2> DEFINE e == Log[at + 1]
             msg == CloneOf(e)
             p == Piece(at + 1, msg)
  <2>1. Writing /\ (e.v = 2 \/ e.wigs = <<>>) /\ witnesses' = Follow(e) /\ Write(msg)
    BY <1>1 DEF WriteClone
  <2>2. e \in Events /\ Log = store.logs[Head(chain)] /\ Follow(e) = WitnessesOf(Log, at + 1)
    BY <2>1, FollowsIs
  <2>3. EventOf(p) = e /\ p.msg = msg
    BY <2>2 DEF EventOf, Piece
  <2>4. msg.receipts = <<>> /\ (e.clone = "usual" => Placeable(msg))
    BY <2>2, CloneIs
  <2>5. Receipted(p)
    <3>1. Range(<<>>) = {}
      BY DEF Range
    <3>2. Range(p.msg.receipts) = {}
      BY <2>3, <2>4, <3>1
    <3>3. e.v = 1 => e.wigs = <<>>
      BY <2>1
    <3>4. e.v = 1 => {r.of : r \in Range(p.msg.receipts)} = {w.by : w \in Range(e.wigs)}
      BY <3>1, <3>2, <3>3
    <3> HIDE DEF e, p
    <3> QED BY <2>3, <3>2, <3>4 DEF Receipted
  <2>6. Counted(p)
    BY <2>3, <2>4 DEF Counted, Placeable
  <2> HIDE DEF e, p, msg
  <2> QED BY <2>1, <2>2, <2>5, <2>6, OneMoreWritten DEF p
<1>2. CASE WriteReceipted
  <2> DEFINE e == Log[at + 1]
             couples == Couples(e.wigs, Follow(e))
             size == CouplesSize(e.wigs)
             msg == WithReceipts(CloneOf(e), couples, size)
             p == Piece(at + 1, msg)
  <2>1. /\ Writing /\ witnesses' = Follow(e) /\ Write(msg)
        /\ Verified(e.wigs, Follow(e)) /\ Placeable(CloneOf(e))
    BY <1>2 DEF WriteReceipted
  <2>2. e \in Events /\ Log = store.logs[Head(chain)] /\ Follow(e) = WitnessesOf(Log, at + 1)
        /\ at + 1 \in 1 .. Len(Log) /\ Log \in Seq(Events)
    BY <2>1, FollowsIs
  <2>3. EventOf(p) = e /\ p.msg = msg /\ p.pre = Head(chain) /\ p.n = at + 1
    BY <2>2 DEF EventOf, Piece
  <2>4. size \in Nat
    <3>1. Len(e.wigs) \in Nat
      BY <2>2, LenProperties DEF Events
    <3> QED BY <3>1 DEF CouplesSize
  <2> HIDE DEF e, size
  <2>5. msg.receipts = couples /\ msg.wrapper = SizeOf(msg.groups) /\ Last(msg.groups) = FirstSeen
    BY <2>1, <2>2, <2>4, ReceiptsAreCounted
  <2>6. Counted(p)
    <3> HIDE DEF msg, p, couples
    <3> QED BY <2>3, <2>5 DEF Counted
  <2>7. Receipted(p)
    <3> DEFINE wits == Follow(e)
    <3>1. wits = WitnessesOf(store.logs[p.pre], p.n)
      BY <2>2, <2>3
    <3>2. wits \in Seq(Witness)
      <4>1. PICK m \in 1 .. at + 1 : GovernedBy(Log, at + 1, m)
        <5>1. Recoverable(Log)
          BY <2>1, FollowsIs, StoreIs DEF ReplayInv
        <5> QED BY <2>2, <5>1, GoverningExists
      <4>2. Recoverable(Log)
        BY <2>1, FollowsIs, StoreIs DEF ReplayInv
      <4>3. wits = Log[m].wits
        BY <2>2, <4>1, <4>2, GoverningIs
      <4>4. m \in 1 .. Len(Log) /\ Log[m] \in Events
        <5>1. Len(Log) \in Nat /\ at \in Nat
          BY <2>2, LenProperties DEF ReplayInv
        <5>2. m \in 1 .. Len(Log)
          BY <2>2, <4>1, <5>1
        <5> QED BY <2>2, <5>2
      <4> QED BY <4>3, <4>4 DEF Events
    <3>3. DOMAIN couples = DOMAIN e.wigs
          /\ \A n \in DOMAIN e.wigs : couples[n].of = wits[e.wigs[n].index + 1]
                                      /\ couples[n].by = e.wigs[n].by
      BY DEF Couples
    <3>4. \A n \in DOMAIN e.wigs : e.wigs[n].index \in 0 .. Len(wits) - 1
                                   /\ wits[e.wigs[n].index + 1] = e.wigs[n].by
      BY <2>1 DEF Verified
    <3> HIDE DEF couples, wits
    <3>5. Len(wits) \in Nat /\ DOMAIN wits = 1 .. Len(wits)
      BY <3>2, LenProperties
    <3>6. ASSUME NEW n \in DOMAIN e.wigs
          PROVE  couples[n].of = couples[n].by /\ couples[n].of \in Range(wits)
      <4>1. e.wigs[n].index + 1 \in DOMAIN wits
        BY <3>4, <3>5
      <4> QED BY <3>3, <3>4, <4>1 DEF Range
    <3>7. \A r \in Range(couples) : r.of = r.by /\ r.of \in Range(wits)
      BY <3>3, <3>6 DEF Range
    <3>8. {r.of : r \in Range(couples)} = {w.by : w \in Range(e.wigs)}
      <4>1. \A n \in DOMAIN e.wigs : couples[n].of = e.wigs[n].by
        BY <3>3, <3>4
      <4>2. ASSUME NEW x \in {r.of : r \in Range(couples)}
            PROVE  x \in {w.by : w \in Range(e.wigs)}
        BY <3>3, <4>1 DEF Range
      <4>3. ASSUME NEW x \in {w.by : w \in Range(e.wigs)}
            PROVE  x \in {r.of : r \in Range(couples)}
        BY <3>3, <4>1 DEF Range
      <4> QED BY <4>2, <4>3
    <3>9. p.msg.receipts = couples
      BY <2>3, <2>5
    <3> HIDE DEF p
    <3> QED BY <2>3, <3>1, <3>7, <3>8, <3>9 DEF Receipted
  <2> HIDE DEF p, msg
  <2> QED BY <2>1, <2>2, <2>6, <2>7, OneMoreWritten DEF p
<1>3. CASE Corrupt
  <2> DEFINE e == Log[at + 1]
  <2>1. Writing /\ ~(Verified(e.wigs, Follow(e)) /\ Placeable(CloneOf(e)))
        /\ outcome' = "corrupt" /\ pieces' = <<>> /\ UNCHANGED <<store, chain, at, witnesses>>
    BY <1>3 DEF Corrupt
  <2>2. /\ e \in Events /\ Head(chain) \in store.kevers /\ Log = store.logs[Head(chain)]
        /\ at + 1 \in DOMAIN Log /\ Follow(e) = WitnessesOf(Log, at + 1)
    BY <2>1, FollowsIs
  <2>3. ~Sound(Log, at + 1)
    BY <2>1, <2>2, CloneIs DEF Sound
  <2>4. \E a \in store.kevers : \E n \in DOMAIN store.logs[a] : ~Sound(store.logs[a], n)
    BY <2>2, <2>3
  <2>5. IsSequence(pieces') /\ Range(pieces') = {}
    BY <2>1 DEF IsSequence, Range
  <2>6. Here' = Here /\ Chain' = Chain /\ Log' = Log
    BY <2>1 DEF Here, Chain, Log
  <2>7. (\E a \in store.kevers : \E n \in DOMAIN store.logs[a] : ~Sound(store.logs[a], n))'
    BY <2>1, <2>4 DEF Sound
  <2>8. (chain # <<>> /\ at # 0 => witnesses = WitnessesOf(Log, at))'
    <3>1. chain # <<>> /\ at # 0 => witnesses = WitnessesOf(Log, at)
      BY DEF ReplayInv
    <3> QED BY <2>1, <2>6, <3>1
  <2> HIDE DEF e
  <2> QED BY <2>1, <2>5, <2>6, <2>7, <2>8 DEF ReplayInv
<1>4. CASE NextLog
  <2>1. /\ outcome = "none" /\ chain # <<>> /\ at = Len(Log)
        /\ chain' = Tail(chain) /\ at' = 0 /\ UNCHANGED <<store, pieces, outcome>>
    BY <1>4 DEF NextLog
  <2>2. /\ Len(Chain) \in Nat /\ Here \in 1 .. Len(Chain) /\ Head(chain) = Chain[Here]
        /\ \A x \in 1 .. Len(Chain) : Len(store.logs[Chain[x]]) \in Nat
        /\ \A x \in 1 .. Len(Chain) : Chain[x] \in store.kevers
        /\ chain \in Seq(store.kevers) /\ Len(chain) \in Nat
    BY <2>1, HereIs DEF ReplayInv
  <2>3. /\ Tail(chain) \in Seq(store.kevers) /\ Len(Tail(chain)) = Len(chain) - 1
        /\ \A k \in 1 .. Len(chain) - 1 : Tail(chain)[k] = chain[k + 1]
    <3>1. PICK c : c = chain
      OBVIOUS
    <3>2. PICK kevers : kevers = store.kevers
      OBVIOUS
    <3>3. c \in Seq(kevers) /\ c # <<>>
      BY <2>1, <2>2, <3>1, <3>2
    <3>4. /\ Tail(c) \in Seq(kevers) /\ Len(Tail(c)) = Len(c) - 1
          /\ \A k \in 1 .. Len(c) - 1 : Tail(c)[k] = c[k + 1]
      BY <3>3, HeadTailProperties
    <3> QED BY <3>1, <3>2, <3>4
  <2>4. Chain' = Chain
    BY <2>1 DEF Chain
  <2>5. Here' = Here + 1
    BY <2>1, <2>2, <2>3, <2>4 DEF Here
  <2> HIDE DEF Chain
  <2>6. \A x \in 1 .. Len(Chain) : Done(x)' = Done(x)
    <3>1. ASSUME NEW x \in 1 .. Len(Chain)
          PROVE  Done(x)' = Done(x)
      <4>1. Done(x)' = IF x < Here + 1 THEN Len(store.logs[Chain[x]]) ELSE 0
        BY <2>1, <2>4, <2>5 DEF Done
      <4>2. Done(x) = IF x < Here + 1 THEN Len(store.logs[Chain[x]]) ELSE 0
        <5>1. x = Here => at = Len(store.logs[Chain[x]])
          BY <2>1, <2>2 DEF Log
        <5> QED BY <2>2, <5>1 DEF Done
      <4> QED BY <4>1, <4>2
    <3> QED BY <3>1
  <2>7. InOrder'
    <3>1. InOrder
      BY <2>1 DEF ReplayInv
    <3> QED BY <2>1, <2>4, <2>6, <3>1 DEF InOrder
  <2>0. PICK h : h = Here + 1
    OBVIOUS
  <2>8. ASSUME NEW k \in 1 .. Len(chain')
        PROVE  chain'[k] = Chain[h - 1 + k]
    <3>1. k \in 1 .. Len(chain) - 1 /\ k + 1 \in 1 .. Len(chain) /\ Here - 1 + (k + 1) = h - 1 + k
      BY <2>0, <2>1, <2>2, <2>3
    <3>2. chain[k + 1] = Chain[Here - 1 + (k + 1)]
      BY <3>1 DEF ReplayInv
    <3> QED BY <2>1, <2>3, <3>1, <3>2
  <2>9. chain' # <<>> => 0 <= Len(Log')
    <3> SUFFICES ASSUME chain' # <<>>
                 PROVE  0 <= Len(Log')
      OBVIOUS
    <3>1. Head(chain') \in store.kevers
      <4>1. PICK c : c = chain'
        OBVIOUS
      <4>2. PICK kevers : kevers = store.kevers
        OBVIOUS
      <4>3. c \in Seq(kevers) /\ c # <<>>
        BY <2>1, <2>3, <4>1, <4>2
      <4>4. Head(c) \in kevers
        BY <4>3
      <4> QED BY <4>1, <4>2, <4>4
    <3>2. Log' \in Seq(Events)
      BY <2>1, <3>1, StoreIs DEF Log, ReplayInv
    <3> QED BY <3>2, LenProperties
  <2>10. Len(chain') <= Len(Chain)
    <3>1. Len(chain) <= Len(Chain)
      BY DEF ReplayInv
    <3> QED BY <2>1, <2>2, <2>3, <3>1
  <2>11. (\A p \in Range(pieces) : Receipted(p) /\ Counted(p))'
    BY <2>1, Unmoved DEF ReplayInv
  <2>12. /\ store' \in Stores /\ outcome' \in {"none", "corrupt", "emitted"}
         /\ IsSequence(pieces') /\ outcome' # "corrupt" /\ outcome' # "emitted"
         /\ chain' \in Seq(store'.kevers) /\ Len(chain') <= Len(Chain')
         /\ at' \in Nat /\ IF chain' = <<>> THEN at' = 0 ELSE at' <= Len(Log')
    BY <2>1, <2>3, <2>4, <2>9, <2>10 DEF ReplayInv
  <2>13. \A k \in 1 .. Len(chain') : chain'[k] = Chain'[Here' - 1 + k]
    <3>1. Here' = h
      BY <2>0, <2>5
    <3> QED BY <2>4, <2>8, <3>1
  <2>14. at' = 0
    BY <2>1
  <2> QED BY <2>7, <2>11, <2>12, <2>13, <2>14 DEF ReplayInv
<1>5. CASE Finish
  <2>1. outcome = "none" /\ chain = <<>> /\ outcome' = "emitted"
        /\ UNCHANGED <<store, chain, at, witnesses, pieces>>
    BY <1>5 DEF Finish
  <2>2. Here' = Here /\ Chain' = Chain /\ Log' = Log /\ \A x : Done(x)' = Done(x)
    BY <2>1 DEF Here, Chain, Log, Done
  <2>3. InOrder'
    BY <2>1, <2>2 DEF ReplayInv, InOrder
  <2>4. (\A p \in Range(pieces) : Receipted(p) /\ Counted(p))'
    BY <2>1, Unmoved DEF ReplayInv
  <2> QED BY <2>1, <2>2, <2>3, <2>4 DEF ReplayInv
<1>6. CASE UNCHANGED vars
  <2>1. UNCHANGED <<store, chain, at, witnesses, pieces, outcome>>
    BY <1>6 DEF vars
  <2>2. Here' = Here /\ Chain' = Chain /\ Log' = Log /\ \A x : Done(x)' = Done(x)
    BY <2>1 DEF Here, Chain, Log, Done
  <2>3. outcome # "corrupt" => InOrder'
    BY <2>1, <2>2 DEF ReplayInv, InOrder
  <2>4. (\A p \in Range(pieces) : Receipted(p) /\ Counted(p))'
    BY <2>1, Unmoved DEF ReplayInv
  <2>5. (\E a \in store.kevers : \E n \in DOMAIN store.logs[a] : ~Sound(store.logs[a], n))'
          <=> (\E a \in store.kevers : \E n \in DOMAIN store.logs[a] : ~Sound(store.logs[a], n))
    BY <2>1 DEF Sound
  <2>6. (chain # <<>> /\ at # 0 => witnesses = WitnessesOf(Log, at))'
    <3>1. chain # <<>> /\ at # 0 => witnesses = WitnessesOf(Log, at)
      BY DEF ReplayInv
    <3> QED BY <2>1, <2>2, <3>1
  <2> QED BY <2>1, <2>2, <2>3, <2>4, <2>5, <2>6 DEF ReplayInv
<1> QED BY <1>1, <1>2, <1>3, <1>4, <1>5, <1>6 DEF Next

(***************************************************************************)
(* The theorems.                                                           *)
(***************************************************************************)

(* No receipt is hosted that is not of a witness of its event, whatever    *)
(* recoveries the log carries, and no store in order is refused            *)
(* (_witness_receipt_couples and _with_witness_receipts).                  *)
THEOREM ReceiptsCorrect == Spec => []ReceiptsAreTheWitnesses
<1>1. ReplayInv => ReceiptsAreTheWitnesses
  BY DEF ReplayInv, Receipted, ReceiptsAreTheWitnesses
<1> QED BY ReplayInit, ReplayNext, <1>1, PTL DEF Spec

(* Receipts put among the attachments are counted by their wrapper.        *)
THEOREM CountedCorrect == Spec => []CountedReaderReadsAll
<1>1. ReplayInv => CountedReaderReadsAll
  BY DEF ReplayInv, Counted, CountedReaderReadsAll
<1> QED BY ReplayInit, ReplayNext, <1>1, PTL DEF Spec

(* Every log of the chain is written whole and in its order, after its     *)
(* delegator's, however deep the delegation (_delegation_chain).           *)
THEOREM DelegationCorrect == Spec => []DelegatorsComeFirst
<1>1. ReplayInv => DelegatorsComeFirst
  <2> SUFFICES ASSUME ReplayInv
               PROVE  DelegatorsComeFirst
    OBVIOUS
  <2>1. /\ Leads(Chain, store, Aid) /\ Len(Chain) \in Nat /\ Here \in 1 .. Len(Chain) + 1
        /\ \A x \in 1 .. Len(Chain) : Chain[x] \in store.kevers
        /\ \A x \in 1 .. Len(Chain) : store.logs[Chain[x]] \in Seq(Events)
        /\ \A x, y \in 1 .. Len(Chain) : Chain[x] = Chain[y] => x = y
        /\ chain = <<>> => Here = Len(Chain) + 1
    BY HereIs
  <2> HIDE DEF Chain
  <2>2. CASE outcome = "corrupt"
    <3>1. DOMAIN pieces = {}
      BY <2>2 DEF ReplayInv
    <3> QED BY <2>2, <3>1 DEF DelegatorsComeFirst
  <2>3. CASE outcome # "corrupt"
    <3>1. InOrder
      BY <2>3 DEF ReplayInv
    <3>2. DOMAIN pieces = 1 .. Len(pieces) /\ Len(pieces) \in Nat
      BY LenProperties DEF ReplayInv, IsSequence
    <3>3. \A x \in 1 .. Len(Chain) :
            store.delegator[Chain[x]] \in store.kevers =>
              x - 1 \in 1 .. Len(Chain) /\ store.delegator[Chain[x]] = Chain[x - 1]
      <4> SUFFICES ASSUME NEW x \in 1 .. Len(Chain), store.delegator[Chain[x]] \in store.kevers
                   PROVE  x - 1 \in 1 .. Len(Chain) /\ store.delegator[Chain[x]] = Chain[x - 1]
        OBVIOUS
      <4>1. x # 1
        BY <2>1 DEF Leads
      <4>2. x \in 2 .. Len(Chain) /\ x - 1 \in 1 .. Len(Chain)
        BY <2>1, <4>1
      <4> QED BY <2>1, <4>2 DEF Leads
    <3>4. ASSUME NEW j \in DOMAIN pieces, NEW k \in DOMAIN pieces,
                 store.delegator[pieces[j].pre] = pieces[k].pre
          PROVE  k < j
      <4>1. PICK x \in 1 .. Len(Chain) : pieces[j].pre = Chain[x]
        BY <3>1 DEF InOrder
      <4>2. PICK y \in 1 .. Len(Chain) : pieces[k].pre = Chain[y]
        BY <3>1 DEF InOrder
      <4>3. y = x - 1
        BY <2>1, <3>3, <3>4, <4>1, <4>2
      <4>4. y < x
        BY <2>1, <4>3
      <4>5. k <= j
        BY <3>1, <4>1, <4>2, <4>4 DEF InOrder
      <4>6. k # j
        BY <2>1, <4>1, <4>2, <4>4
      <4> QED BY <3>2, <4>5, <4>6
    <3>5. ASSUME NEW j \in DOMAIN pieces, NEW k \in DOMAIN pieces,
                 pieces[j].pre = pieces[k].pre, j < k
          PROVE  pieces[j].n < pieces[k].n
      <4>1. PICK x \in 1 .. Len(Chain) : pieces[j].pre = Chain[x] /\ pieces[j].n \in 1 .. Done(x)
        BY <3>1 DEF InOrder
      <4>2. PICK y \in 1 .. Len(Chain) : pieces[k].pre = Chain[y] /\ pieces[k].n \in 1 .. Done(y)
        BY <3>1 DEF InOrder
      <4>3. pieces[k].n <= pieces[j].n => k <= j
        <5>1. pieces[k].pre = Chain[x]
          BY <3>5, <4>1
        <5> QED BY <3>1, <4>1, <5>1 DEF InOrder
      <4>4. ~(pieces[k].n <= pieces[j].n)
        BY <3>2, <3>5, <4>3
      <4> QED BY <4>1, <4>2, <4>4
    <3>6. ASSUME outcome = "emitted", NEW a \in store.kevers,
                 a = Aid \/ \E p \in Range(pieces) : store.delegator[p.pre] = a
          PROVE  {p.n : p \in {q \in Range(pieces) : q.pre = a}} = DOMAIN store.logs[a]
      <4>1. PICK x \in 1 .. Len(Chain) : a = Chain[x]
        <5>1. CASE a = Aid
          <6>1. Chain \in Seq(store.kevers) /\ Chain # <<>> /\ Chain[Len(Chain)] = Aid
            BY <2>1 DEF Leads
          <6>2. Len(Chain) \in 1 .. Len(Chain)
            BY <2>1, <6>1, EmptySeq
          <6> QED BY <5>1, <6>1, <6>2
        <5>2. CASE a # Aid
          <6>1. PICK j \in DOMAIN pieces : store.delegator[pieces[j].pre] = a
            BY <3>6, <5>2 DEF Range
          <6>2. PICK y \in 1 .. Len(Chain) : pieces[j].pre = Chain[y]
            BY <3>1 DEF InOrder
          <6> QED BY <3>3, <6>1, <6>2
        <5> QED BY <5>1, <5>2
      <4>2. Here = Len(Chain) + 1
        BY <2>1, <3>6 DEF ReplayInv
      <4>3. \A y \in 1 .. Len(Chain) : Done(y) = Len(store.logs[Chain[y]])
        BY <2>1, <4>2 DEF Done
      <4>4. DOMAIN store.logs[a] = 1 .. Done(x)
        BY <2>1, <4>1, <4>3, LenProperties
      <4>5. ASSUME NEW n \in 1 .. Done(x)
            PROVE  n \in {p.n : p \in {q \in Range(pieces) : q.pre = a}}
        <5>1. PICK j \in DOMAIN pieces : pieces[j].pre = Chain[x] /\ pieces[j].n = n
          BY <3>1 DEF InOrder
        <5>2. pieces[j] \in {q \in Range(pieces) : q.pre = a}
          BY <4>1, <5>1 DEF Range
        <5> QED BY <5>1, <5>2
      <4>6. ASSUME NEW p \in Range(pieces), p.pre = a
            PROVE  p.n \in 1 .. Done(x)
        <5>1. PICK j \in DOMAIN pieces : p = pieces[j]
          BY DEF Range
        <5>2. PICK y \in 1 .. Len(Chain) : pieces[j].pre = Chain[y] /\ pieces[j].n \in 1 .. Done(y)
          BY <3>1 DEF InOrder
        <5>3. y = x
          BY <2>1, <4>1, <4>6, <5>1, <5>2
        <5> QED BY <5>1, <5>2, <5>3
      <4> QED BY <4>4, <4>5, <4>6
    <3> QED BY <3>4, <3>5, <3>6 DEF DelegatorsComeFirst
  <2> QED BY <2>2, <2>3
<1> QED BY ReplayInit, ReplayNext, <1>1, PTL DEF Spec
=============================================================================
