--------------------------- MODULE DataInduction ---------------------------
(***************************************************************************)
(* Induction over data, for the modules of proofs.  The library's induction *)
(* theorems have an operator as a parameter; that a strict subset is smaller *)
(* is a fact about sets, and from it follow least elements, induction on a  *)
(* set of numbers, and with it that a recursive function is what its        *)
(* equation says.                                                          *)
(***************************************************************************)
EXTENDS SequencesExt, SequenceTheorems, FiniteSetTheorems, TLAPS

LEMMA LeastElement ==
  ASSUME NEW T \in SUBSET Nat, T # {}
  PROVE  \E m \in T : \A n \in T : m <= n
<1> DEFINE Upto(k) == {n \in T : n <= k}
           F == {Upto(k) : k \in T}
<1>0. \A k \in T : k \in Nat
  OBVIOUS
<1>1. \A k \in T : IsFiniteSet(Upto(k))
  <2> TAKE k \in T
  <2>1. IsFiniteSet(0 .. k)
    BY <1>0, FS_Interval
  <2>2. ASSUME NEW n \in Upto(k) PROVE n \in 0 .. k
    <3>1. n \in Nat /\ k \in Nat /\ n <= k
      BY <1>0
    <3> QED BY <3>1
  <2> QED BY <2>1, <2>2, FS_Subset
<1>2. F \subseteq FiniteSubsetsOf(T)
  BY <1>1 DEF FiniteSubsetsOf
<1>3. F # {}
  OBVIOUS
<1> QED
  <2>1. PICK x \in F : \A y \in F : ~(<<y, x>> \in StrictSubsetOrdering(T))
    BY <1>2, <1>3, FS_StrictSubsetOrderingWellFounded, WFMin
  <2>2. PICK m \in T : x = Upto(m)
    OBVIOUS
  <2>3. ASSUME NEW n \in T, n < m PROVE FALSE
    <3>0. n \in Nat /\ m \in Nat
      BY <1>0
    <3>1. m \in Upto(m) /\ m \notin Upto(n)
      BY <2>3, <3>0
    <3>3. \A k \in Upto(n) : k \in Upto(m)
      BY <1>0, <2>3, <3>0
    <3>2. <<Upto(n), Upto(m)>> \in StrictSubsetOrdering(T)
      BY <3>1, <3>3 DEF StrictSubsetOrdering
    <3> QED BY <2>1, <2>2, <3>2
  <2> QED BY <1>0, <2>3

LEMMA SetInduction ==
  ASSUME NEW S, 0 \in S, \A n \in Nat : n \in S => n + 1 \in S
  PROVE  Nat \subseteq S
<1> SUFFICES ASSUME Nat \ S # {} PROVE FALSE
  OBVIOUS
<1>1. PICK m \in Nat \ S : \A n \in Nat \ S : m <= n
  BY LeastElement
<1>2. m - 1 \in Nat /\ m - 1 \in S
  BY <1>1
<1>3. m - 1 + 1 \in S
  BY <1>2
<1>4. m - 1 + 1 = m
  OBVIOUS
<1> QED BY <1>3, <1>4

(***************************************************************************)
(* FlattenSeq.                                                             *)
(***************************************************************************)

Flattens(g, s) == g = [i \in 1 .. Len(s) |-> IF i = 1 THEN s[i] ELSE g[i - 1] \o s[i]]

(* The equation of FlattenSeq has a solution for every sequence.           *)
LEMMA FlattenExists ==
  ASSUME NEW s, Len(s) \in Nat
  PROVE  \E g : Flattens(g, s)
<1> DEFINE Upto(g, n) == g = [i \in 1 .. n |-> IF i = 1 THEN s[i] ELSE g[i - 1] \o s[i]]
           S == {n \in Nat : \E g : Upto(g, n)}
<1>1. 0 \in S
  <2>1. Upto([i \in 1 .. 0 |-> 0], 0)
    OBVIOUS
  <2> QED BY <2>1
<1>2. ASSUME NEW n \in Nat, n \in S
      PROVE  n + 1 \in S
  <2>1. PICK g : Upto(g, n)
    BY <1>2
  <2>2. PICK next : next = IF n = 0 THEN s[1] ELSE g[n] \o s[n + 1]
    OBVIOUS
  <2>3. PICK h : h = [i \in 1 .. n + 1 |-> IF i = n + 1 THEN next ELSE g[i]]
    OBVIOUS
  <2>4. ASSUME NEW i \in 1 .. n + 1
        PROVE  h[i] = IF i = 1 THEN s[i] ELSE h[i - 1] \o s[i]
    <3>1. CASE i = n + 1 /\ n = 0
      BY <2>2, <2>3, <3>1
    <3>2. CASE i = n + 1 /\ n # 0
      <4>0. i - 1 \in 1 .. n + 1 /\ i - 1 # n + 1 /\ i - 1 = n /\ i # 1
        BY <3>2
      <4>1. h[i - 1] = g[i - 1] /\ h[i] = next
        BY <2>3, <3>2, <4>0
      <4>2. next = g[i - 1] \o s[i]
        BY <2>2, <3>2, <4>0
      <4> QED BY <4>0, <4>1, <4>2
    <3>3. CASE i # n + 1
      <4>1. i \in 1 .. n /\ h[i] = g[i]
        BY <2>3, <3>3
      <4>2. i # 1 => h[i - 1] = g[i - 1]
        BY <2>3, <4>1
      <4>3. g[i] = IF i = 1 THEN s[i] ELSE g[i - 1] \o s[i]
        BY <2>1, <4>1
      <4> QED BY <4>1, <4>2, <4>3
    <3> QED BY <3>1, <3>2, <3>3
  <2>5. h = [i \in 1 .. n + 1 |-> h[i]]
    BY <2>3
  <2>6. [i \in 1 .. n + 1 |-> h[i]]
          = [i \in 1 .. n + 1 |-> IF i = 1 THEN s[i] ELSE h[i - 1] \o s[i]]
    BY <2>4
  <2>7. Upto(h, n + 1)
    BY <2>5, <2>6
  <2> HIDE DEF Upto
  <2>8. n + 1 \in Nat /\ \E f : Upto(f, n + 1)
    BY <2>7
  <2> QED BY <2>8
<1> HIDE DEF S
<1>3. Len(s) \in S
  BY <1>1, <1>2, SetInduction
<1> QED BY <1>3 DEF S, Flattens

LEMMA FlattenSeqIs ==
  ASSUME NEW s, Len(s) \in Nat, Len(s) # 0
  PROVE  \E g : Flattens(g, s) /\ FlattenSeq(s) = g[Len(s)]
<1>1. PICK f : f = CHOOSE g : Flattens(g, s)
  OBVIOUS
<1>2. Flattens(f, s)
  BY <1>1, FlattenExists
<1>3. FlattenSeq(s) = f[Len(s)]
  <2>1. FlattenSeq(s) = (CHOOSE g : g = [i \in 1 .. Len(s) |-> IF i = 1 THEN s[i] ELSE g[i - 1] \o s[i]])[Len(s)]
    BY DEF FlattenSeq
  <2>2. (CHOOSE g : g = [i \in 1 .. Len(s) |-> IF i = 1 THEN s[i] ELSE g[i - 1] \o s[i]])
          = (CHOOSE g : Flattens(g, s))
    BY DEF Flattens
  <2> QED BY <1>1, <2>1, <2>2
<1> QED BY <1>2, <1>3

LEMMA FlattensAt ==
  ASSUME NEW g, NEW s, Flattens(g, s), NEW i \in 1 .. Len(s)
  PROVE  g[i] = IF i = 1 THEN s[i] ELSE g[i - 1] \o s[i]
BY DEF Flattens

(* What is flattened holds what its parts hold.                            *)
LEMMA RangeOfFlatten ==
  ASSUME NEW X, NEW s \in Seq(Seq(X))
  PROVE  /\ FlattenSeq(s) \in Seq(X)
         /\ Range(FlattenSeq(s)) = UNION {Range(s[i]) : i \in DOMAIN s}
<1>1. CASE Len(s) = 0
  <2>1. FlattenSeq(s) = s /\ DOMAIN s = {}
    BY <1>1 DEF FlattenSeq
  <2> QED BY <2>1 DEF Range
<1>2. CASE Len(s) # 0
  <2>1. PICK g : Flattens(g, s) /\ FlattenSeq(s) = g[Len(s)]
    BY <1>2, FlattenSeqIs
  <2> DEFINE S == {n \in Nat : n \in 1 .. Len(s) =>
                     /\ g[n] \in Seq(X)
                     /\ Range(g[n]) = UNION {Range(s[i]) : i \in 1 .. n}}
  <2>2. 0 \in S
    OBVIOUS
  <2>3. ASSUME NEW n \in Nat, n \in S
        PROVE  n + 1 \in S
    <3> SUFFICES ASSUME n + 1 \in 1 .. Len(s)
                 PROVE  /\ g[n + 1] \in Seq(X)
                        /\ Range(g[n + 1]) = UNION {Range(s[i]) : i \in 1 .. n + 1}
      OBVIOUS
    <3>1. g[n + 1] = IF n + 1 = 1 THEN s[n + 1] ELSE g[n + 1 - 1] \o s[n + 1]
      BY <2>1, FlattensAt
    <3>2. s[n + 1] \in Seq(X)
      OBVIOUS
    <3>3. CASE n = 0
      <4>1. g[n + 1] = s[1] /\ n + 1 = 1
        BY <3>1, <3>3
      <4>2. 1 .. n + 1 = {1}
        BY <3>3
      <4> QED BY <3>2, <4>1, <4>2
    <3>4. CASE n # 0
      <4>1. n \in 1 .. Len(s) /\ n + 1 - 1 = n /\ n + 1 # 1
        BY <3>4
      <4>2. /\ g[n] \in Seq(X) /\ g[n + 1] = g[n] \o s[n + 1]
            /\ Range(g[n]) = UNION {Range(s[i]) : i \in 1 .. n}
        BY <2>3, <3>1, <4>1
      <4>3. Range(g[n + 1]) = Range(g[n]) \cup Range(s[n + 1])
        BY <3>2, <4>2, RangeConcatenation
      <4>4. 1 .. n + 1 = (1 .. n) \cup {n + 1}
        OBVIOUS
      <4>5. UNION {Range(s[i]) : i \in 1 .. n + 1}
              = (UNION {Range(s[i]) : i \in 1 .. n}) \cup Range(s[n + 1])
        BY <4>4
      <4> QED BY <3>2, <4>2, <4>3, <4>5, ConcatProperties
    <3> QED BY <3>3, <3>4
  <2> HIDE DEF S
  <2>4. Nat \subseteq S
    BY <2>2, <2>3, SetInduction
  <2>5. /\ Len(s) \in Nat /\ Len(s) \in S
        /\ Len(s) \in 1 .. Len(s) /\ DOMAIN s = 1 .. Len(s)
    BY <1>2, <2>4
  <2>6. /\ g[Len(s)] \in Seq(X)
        /\ Range(g[Len(s)]) = UNION {Range(s[i]) : i \in 1 .. Len(s)}
    BY <2>4, <2>5 DEF S
  <2> QED BY <2>1, <2>5, <2>6
<1> QED BY <1>1, <1>2

(***************************************************************************)
(* A finite set written out as a sequence.                                 *)
(***************************************************************************)

LEMMA RangeOfOrder ==
  ASSUME NEW S, IsFiniteSet(S), NEW f \in SetToSeqs(S)
  PROVE  f \in Seq(S) /\ Range(f) = S /\ IsInjective(f)
<1>1. Cardinality(S) \in Nat
  BY FS_CardinalityType
<1>2. f \in [1 .. Cardinality(S) -> S] /\ f \in Injection(1 .. Cardinality(S), S)
  BY DEF SetToSeqs, Injection, IsInjective
<1>3. Cardinality(1 .. Cardinality(S)) = Cardinality(S)
  BY <1>1, FS_Interval
<1>4. f \in Surjection(1 .. Cardinality(S), S)
  BY <1>2, <1>3, FS_Injection
<1>5. f \in Seq(S)
  BY <1>1, <1>2
<1>6. ASSUME NEW x \in S PROVE x \in Range(f)
  BY <1>2, <1>4 DEF Surjection, Range
<1>7. IsInjective(f)
  BY <1>2 DEF SetToSeqs, IsInjective
<1> QED BY <1>5, <1>6, <1>7, RangeOfSeq

LEMMA RangeOfSetToSeq ==
  ASSUME NEW S, IsFiniteSet(S)
  PROVE  /\ SetToSeq(S) \in Seq(S) /\ Range(SetToSeq(S)) = S
         /\ IsInjective(SetToSeq(S))
<1>1. Cardinality(S) \in Nat /\ ExistsBijection(1 .. Cardinality(S), S)
  BY FS_CardinalityType
<1>2. \E f \in [1 .. Cardinality(S) -> S] : IsInjective(f)
  <2>1. PICK f : f \in Bijection(1 .. Cardinality(S), S)
    BY <1>1 DEF ExistsBijection
  <2> QED BY <2>1 DEF Bijection, Injection, IsInjective
<1>3. SetToSeq(S) \in [1 .. Cardinality(S) -> S] /\ IsInjective(SetToSeq(S))
  BY <1>2 DEF SetToSeq
<1>4. SetToSeq(S) \in SetToSeqs(S)
  BY <1>3 DEF SetToSeqs, IsInjective
<1> QED BY <1>4, RangeOfOrder

(***************************************************************************)
(* Ranges of sequences.                                                    *)
(***************************************************************************)

LEMMA RangeOfConcat ==
  ASSUME NEW X, NEW s \in Seq(X), NEW t \in Seq(X)
  PROVE  s \o t \in Seq(X) /\ Range(s \o t) = Range(s) \cup Range(t)
<1>1. s \o t \in Seq(X)
  BY ConcatProperties
<1>2. Range(s \o t) = Range(s) \cup Range(t)
  BY RangeConcatenation
<1> QED BY <1>1, <1>2

LEMMA RangeOfConcats ==
  ASSUME NEW X, NEW r \in Seq(X), NEW s \in Seq(X), NEW t \in Seq(X)
  PROVE  r \o s \o t \in Seq(X) /\ Range(r \o s \o t) = Range(r) \cup Range(s) \cup Range(t)
<1>1. PICK rs : rs = r \o s
  OBVIOUS
<1>2. rs \in Seq(X) /\ Range(rs) = Range(r) \cup Range(s)
  BY <1>1, RangeOfConcat
<1>3. rs \o t \in Seq(X) /\ Range(rs \o t) = Range(rs) \cup Range(t)
  BY <1>2, RangeOfConcat
<1> QED BY <1>1, <1>2, <1>3

LEMMA RangeOfAppend ==
  ASSUME NEW X, NEW s \in Seq(X), NEW x \in X
  PROVE  Range(Append(s, x)) = Range(s) \cup {x}
<1>1. Append(s, x) = s \o <<x>>
  BY AppendIsConcat
<1>2. <<x>> \in Seq(X) /\ Range(<<x>>) = {x}
  BY DEF Range
<1>3. PICK t : t = <<x>>
  OBVIOUS
<1>4. t \in Seq(X) /\ Range(t) = {x}
  BY <1>2, <1>3
<1>5. Range(s \o t) = Range(s) \cup Range(t)
  BY <1>4, RangeConcatenation
<1> QED BY <1>1, <1>3, <1>4, <1>5

(* Each element of a sequence kept where it comes first.                   *)
LEMMA RangeOfOnce ==
  ASSUME NEW X, NEW s \in Seq(X)
  PROVE  LET once == FlattenSeq([i \in DOMAIN s |->
                       IF \E j \in 1 .. i - 1 : s[j] = s[i] THEN <<>> ELSE <<s[i]>>])
         IN  once \in Seq(X) /\ Range(once) = Range(s)
<1> DEFINE parts == [i \in DOMAIN s |->
                       IF \E j \in 1 .. i - 1 : s[j] = s[i] THEN <<>> ELSE <<s[i]>>]
<1>1. DOMAIN s = 1 .. Len(s) /\ Len(s) \in Nat /\ \A i \in DOMAIN s : s[i] \in X
  OBVIOUS
<1>2. parts \in Seq(Seq(X)) /\ DOMAIN parts = DOMAIN s
  BY <1>1, EmptySeq
<1>3. \A i \in DOMAIN s :
        /\ Range(parts[i]) \subseteq {s[i]}
        /\ (~\E j \in 1 .. i - 1 : s[j] = s[i]) => s[i] \in Range(parts[i])
  <2>1. Range(<<>>) = {} /\ \A x : Range(<<x>>) = {x}
    BY DEF Range
  <2> QED BY <2>1
<1> HIDE DEF parts
<1>4. /\ FlattenSeq(parts) \in Seq(X)
      /\ Range(FlattenSeq(parts)) = UNION {Range(parts[i]) : i \in DOMAIN s}
  BY <1>2, RangeOfFlatten
<1>5. ASSUME NEW x \in Range(s)
      PROVE  \E i \in DOMAIN s : x \in Range(parts[i])
  <2> DEFINE T == {i \in DOMAIN s : s[i] = x}
  <2>1. T \in SUBSET Nat /\ T # {}
    BY <1>1, <1>5 DEF Range
  <2>2. PICK m \in T : \A n \in T : m <= n
    BY <2>1, LeastElement
  <2>3. \A j \in 1 .. m - 1 : s[j] # s[m]
    BY <1>1, <2>2
  <2> QED BY <1>3, <2>2, <2>3
<1>6. \A i \in DOMAIN s : Range(parts[i]) \subseteq Range(s)
  <2>1. \A i \in DOMAIN s : s[i] \in Range(s)
    BY DEF Range
  <2> QED BY <1>3, <2>1
<1>7. UNION {Range(parts[i]) : i \in DOMAIN s} = Range(s)
  BY <1>5, <1>6
<1> QED BY <1>4, <1>7 DEF parts

(***************************************************************************)
(* Where the parts of what is flattened are.                               *)
(***************************************************************************)

IsPrefixOf(r, t) ==
  Len(r) <= Len(t) /\ \A i \in 1 .. Len(r) : t[i] = r[i]

LEMMA ConcatExtends ==
  ASSUME NEW X, NEW r \in Seq(X), NEW t \in Seq(X)
  PROVE  /\ r \o t \in Seq(X) /\ Len(r \o t) = Len(r) + Len(t) /\ IsPrefixOf(r, r \o t)
         /\ \A i \in 1 .. Len(t) : (r \o t)[Len(r) + i] = t[i]
<1>1. /\ r \o t \in Seq(X) /\ Len(r \o t) = Len(r) + Len(t)
      /\ Len(r) \in Nat /\ Len(t) \in Nat
  BY ConcatProperties, LenProperties
<1>2. \A i \in 1 .. Len(r) + Len(t) : (r \o t)[i] = IF i <= Len(r) THEN r[i] ELSE t[i - Len(r)]
  BY ConcatProperties
<1>3. ASSUME NEW i \in 1 .. Len(r)
      PROVE  (r \o t)[i] = r[i]
  <2>1. i \in 1 .. Len(r) + Len(t) /\ i <= Len(r)
    BY <1>1
  <2> QED BY <1>2, <2>1
<1>4. ASSUME NEW i \in 1 .. Len(t)
      PROVE  (r \o t)[Len(r) + i] = t[i]
  <2>1. Len(r) + i \in 1 .. Len(r) + Len(t) /\ ~(Len(r) + i <= Len(r)) /\ Len(r) + i - Len(r) = i
    BY <1>1
  <2> QED BY <1>2, <2>1
<1>5. Len(r) <= Len(r) + Len(t)
  BY <1>1
<1> QED BY <1>1, <1>3, <1>4, <1>5 DEF IsPrefixOf

LEMMA PrefixOfPrefix ==
  ASSUME NEW X, NEW r \in Seq(X), NEW s \in Seq(X), NEW t \in Seq(X),
         IsPrefixOf(r, s), IsPrefixOf(s, t)
  PROVE  IsPrefixOf(r, t)
<1>1. Len(r) \in Nat /\ Len(s) \in Nat /\ Len(t) \in Nat
  BY LenProperties
<1>2. \A i \in 1 .. Len(r) : i \in 1 .. Len(s)
  BY <1>1 DEF IsPrefixOf
<1> QED BY <1>1, <1>2 DEF IsPrefixOf

LEMMA FlattenPrefixes ==
  ASSUME NEW X, NEW s \in Seq(Seq(X)), NEW g, Flattens(g, s)
  PROVE  \A n \in 1 .. Len(s) : \A m \in 1 .. n : g[m] \in Seq(X) /\ IsPrefixOf(g[m], g[n])
<1> DEFINE P(n) == \A m \in 1 .. n : g[m] \in Seq(X) /\ IsPrefixOf(g[m], g[n])
           S == {n \in Nat : n \in 1 .. Len(s) => P(n)}
<1>0. \A r \in Seq(X) : IsPrefixOf(r, r)
  BY LenProperties DEF IsPrefixOf
<1>1. 0 \in S
  OBVIOUS
<1>2. ASSUME NEW n \in Nat, n \in S
      PROVE  n + 1 \in S
  <2> SUFFICES ASSUME n + 1 \in 1 .. Len(s)
               PROVE  P(n + 1)
    OBVIOUS
  <2>1. g[n + 1] = IF n + 1 = 1 THEN s[n + 1] ELSE g[n + 1 - 1] \o s[n + 1]
    BY FlattensAt
  <2>2. s[n + 1] \in Seq(X)
    OBVIOUS
  <2>3. CASE n = 0
    <3>1. g[1] = s[1] /\ g[1] \in Seq(X)
      BY <2>1, <2>2, <2>3
    <3>2. \A m \in 1 .. n + 1 : m = 1
      BY <2>3
    <3> QED BY <1>0, <2>3, <3>1, <3>2
  <2>4. CASE n # 0
    <3>1. n \in 1 .. Len(s) /\ n + 1 - 1 = n /\ n + 1 # 1 /\ n \in 1 .. n
      BY <2>4
    <3>2. P(n) /\ g[n] \in Seq(X) /\ g[n + 1] = g[n] \o s[n + 1]
      BY <1>2, <2>1, <3>1
    <3>3. g[n + 1] \in Seq(X) /\ IsPrefixOf(g[n], g[n + 1])
      BY <2>2, <3>2, ConcatExtends
    <3>4. ASSUME NEW m \in 1 .. n + 1
          PROVE  g[m] \in Seq(X) /\ IsPrefixOf(g[m], g[n + 1])
      <4>1. CASE m = n + 1
        BY <1>0, <3>3, <4>1
      <4>2. CASE m \in 1 .. n
        BY <3>2, <3>3, <4>2, PrefixOfPrefix
      <4> QED BY <4>1, <4>2
    <3> QED BY <3>4
  <2> QED BY <2>3, <2>4
<1> HIDE DEF P
<1>3. ASSUME NEW n \in 1 .. Len(s)
      PROVE  P(n)
  <2>1. n \in Nat
    OBVIOUS
  <2> HIDE DEF S
  <2>2. n \in S
    BY <1>1, <1>2, <2>1, SetInduction
  <2> QED BY <2>2 DEF S
<1> QED BY <1>3 DEF P

(* The parts of what is flattened, in their order: where each ends, and    *)
(* what is there.                                                          *)
Layout(ends, s, t) ==
  /\ ends \in [0 .. Len(s) -> Nat]
  /\ ends[0] = 0 /\ ends[Len(s)] = Len(t)
  /\ \A n \in 1 .. Len(s) :
       /\ ends[n] = ends[n - 1] + Len(s[n]) /\ ends[n] <= Len(t)
       /\ \A i \in 1 .. Len(s[n]) : t[ends[n - 1] + i] = s[n][i]

LEMMA FlattenLayout ==
  ASSUME NEW X, NEW s \in Seq(Seq(X))
  PROVE  \E ends : Layout(ends, s, FlattenSeq(s))
<1>0. Len(s) \in Nat /\ \A n \in 1 .. Len(s) : s[n] \in Seq(X) /\ Len(s[n]) \in Nat
  <2>1. \A n \in 1 .. Len(s) : s[n] \in Seq(X)
    OBVIOUS
  <2> QED BY <2>1, LenProperties
<1>1. CASE Len(s) = 0
  <2>1. FlattenSeq(s) = s /\ Layout([n \in 0 .. Len(s) |-> 0], s, s)
    BY <1>1 DEF FlattenSeq, Layout
  <2> QED BY <2>1
<1>2. CASE Len(s) # 0
  <2>1. PICK g : Flattens(g, s) /\ FlattenSeq(s) = g[Len(s)]
    BY <1>0, <1>2, FlattenSeqIs
  <2>2. \A n \in 1 .. Len(s) :
          g[n] \in Seq(X) /\ Len(g[n]) \in Nat /\ IsPrefixOf(g[n], g[Len(s)])
    <3>1. Len(s) \in 1 .. Len(s)
      BY <1>0, <1>2
    <3>2. \A n \in 1 .. Len(s) : g[n] \in Seq(X) /\ IsPrefixOf(g[n], g[Len(s)])
      BY <2>1, <3>1, FlattenPrefixes
    <3> QED BY <3>2, LenProperties
  <2>3. PICK ends : ends = [n \in 0 .. Len(s) |-> IF n = 0 THEN 0 ELSE Len(g[n])]
    OBVIOUS
  <2>4. ends \in [0 .. Len(s) -> Nat] /\ ends[0] = 0 /\ ends[Len(s)] = Len(FlattenSeq(s))
    BY <1>0, <1>2, <2>1, <2>2, <2>3
  <2>5. ASSUME NEW n \in 1 .. Len(s)
        PROVE  /\ ends[n] = ends[n - 1] + Len(s[n]) /\ ends[n] <= Len(FlattenSeq(s))
               /\ \A i \in 1 .. Len(s[n]) : FlattenSeq(s)[ends[n - 1] + i] = s[n][i]
    <3>0. g[n] = IF n = 1 THEN s[n] ELSE g[n - 1] \o s[n]
      BY <2>1, FlattensAt
    <3>1. ends[n] = Len(g[n]) /\ n \in 0 .. Len(s)
      BY <1>0, <2>3
    <3>2. ends[n] <= Len(FlattenSeq(s))
          /\ \A i \in 1 .. ends[n] : FlattenSeq(s)[i] = g[n][i]
      BY <2>1, <2>2, <3>1 DEF IsPrefixOf
    <3>3. /\ ends[n] = ends[n - 1] + Len(s[n]) /\ ends[n - 1] \in Nat
          /\ \A i \in 1 .. Len(s[n]) : g[n][ends[n - 1] + i] = s[n][i]
      <4>1. CASE n = 1
        <5>1. ends[n - 1] = 0 /\ g[n] = s[n]
          BY <2>4, <3>0, <4>1
        <5>2. \A i \in 1 .. Len(s[n]) : 0 + i = i
          BY <1>0
        <5> QED BY <1>0, <3>1, <5>1, <5>2
      <4>2. CASE n # 1
        <5>1. n - 1 \in 1 .. Len(s) /\ n - 1 \in 0 .. Len(s) /\ n - 1 # 0
          BY <1>0, <4>2
        <5>2. ends[n - 1] = Len(g[n - 1]) /\ g[n - 1] \in Seq(X) /\ Len(g[n - 1]) \in Nat
          BY <2>2, <2>3, <5>1
        <5>3. g[n] = g[n - 1] \o s[n]
          BY <3>0, <4>2
        <5>4. /\ Len(g[n]) = Len(g[n - 1]) + Len(s[n])
              /\ \A i \in 1 .. Len(s[n]) : g[n][Len(g[n - 1]) + i] = s[n][i]
          <6>1. PICK r, t : r = g[n - 1] /\ t = s[n]
            OBVIOUS
          <6>2. r \in Seq(X) /\ t \in Seq(X)
            BY <1>0, <5>2, <6>1
          <6>3. Len(r \o t) = Len(r) + Len(t) /\ \A i \in 1 .. Len(t) : (r \o t)[Len(r) + i] = t[i]
            BY <6>2, ConcatExtends
          <6> QED BY <5>3, <6>1, <6>3
        <5> QED BY <3>1, <5>2, <5>4
      <4> QED BY <4>1, <4>2
    <3>4. ASSUME NEW i \in 1 .. Len(s[n])
          PROVE  FlattenSeq(s)[ends[n - 1] + i] = s[n][i]
      <4>1. Len(s[n]) \in Nat /\ ends[n - 1] + i \in 1 .. ends[n]
        BY <1>0, <3>3
      <4> QED BY <3>2, <3>3, <4>1
    <3> QED BY <3>2, <3>3, <3>4
  <2> QED BY <2>4, <2>5 DEF Layout
<1> QED BY <1>1, <1>2

(***************************************************************************)
(* Counting.                                                               *)
(***************************************************************************)

(* A set of the first numbers is counted by the last of them.              *)
LEMMA FirstNumbers ==
  ASSUME NEW len \in Nat, NEW L \in SUBSET (1 .. len), \A n \in L : \A k \in 1 .. n : k \in L
  PROVE  Cardinality(L) \in 0 .. len /\ L = 1 .. Cardinality(L)
<1> DEFINE T == {n \in Nat : n + 1 \notin L}
<1>1. len \in T
  OBVIOUS
<1>2. PICK m \in T : \A n \in T : m <= n
  BY <1>1, LeastElement
<1>3. m \in Nat /\ m <= len /\ m + 1 \notin L
  BY <1>1, <1>2
<1>4. ASSUME NEW n \in 1 .. m
      PROVE  n \in L
  <2>1. n - 1 \in Nat /\ ~(m <= n - 1)
    BY <1>3
  <2>2. n - 1 + 1 \in L
    BY <1>2, <2>1
  <2> QED BY <2>2
<1>5. ASSUME NEW n \in L
      PROVE  n \in 1 .. m
  <2>1. CASE n > m
    <3>1. m + 1 \in 1 .. n
      BY <1>3, <2>1
    <3> QED BY <1>3, <3>1
  <2> QED BY <1>3, <2>1
<1>6. L = 1 .. m
  BY <1>4, <1>5
<1>7. Cardinality(1 .. m) = m
  BY <1>3, FS_Interval
<1> QED BY <1>3, <1>6, <1>7

(***************************************************************************)
(* Order.                                                                  *)
(***************************************************************************)

LEMMA GreatestElement ==
  ASSUME NEW T \in SUBSET Nat, T # {}, NEW bound \in Nat, \A n \in T : n <= bound
  PROVE  Max(T) \in T /\ \A n \in T : n <= Max(T)
<1>1. PICK m \in {bound - n : n \in T} : \A k \in {bound - n : n \in T} : m <= k
  <2>0. \A n \in T : bound - n \in Nat
    OBVIOUS
  <2>1. {bound - n : n \in T} \in SUBSET Nat /\ {bound - n : n \in T} # {}
    BY <2>0
  <2> QED BY <2>1, LeastElement
<1>2. PICK g \in T : m = bound - g
  OBVIOUS
<1>3. ASSUME NEW n \in T
      PROVE  n <= g
  <2>1. bound - g <= bound - n
    BY <1>1, <1>2
  <2> QED BY <2>1
<1>4. \A n \in T : g >= n
  BY <1>3
<1> QED BY <1>4 DEF Max

LEMMA MinIsLeast ==
  ASSUME NEW T \in SUBSET Nat, T # {}
  PROVE  Min(T) \in T /\ \A n \in T : Min(T) <= n
BY LeastElement DEF Min

(* R orders S totally and strictly.                                        *)
TotalOn(R, S) ==
  /\ \A a, b \in S : a # b => (<<a, b>> \in R <=> <<b, a>> \notin R)
  /\ \A a \in S : <<a, a>> \notin R
  /\ \A a, b, c \in S : <<a, b>> \in R /\ <<b, c>> \in R => <<a, c>> \in R

Sorted(s, R) == \A j, k \in DOMAIN s : j < k => <<s[j], s[k]>> \in R

LEMMA OrderExists ==
  ASSUME NEW S, IsFiniteSet(S), NEW R, TotalOn(R, S)
  PROVE  \E s \in SetToSeqs(S) : Sorted(s, R)
<1> DEFINE Below(a) == {b \in S : <<b, a>> \in R}
           rank == [a \in S |-> Cardinality(Below(a)) + 1]
           N == Cardinality(S)
<1>0. N \in Nat
  BY FS_CardinalityType
<1>1. \A a \in S : IsFiniteSet(Below(a)) /\ Cardinality(Below(a)) \in 0 .. N - 1
  <2> TAKE a \in S
  <2>1. IsFiniteSet(S \ {a}) /\ Cardinality(S \ {a}) = N - 1
    BY FS_RemoveElement
  <2>2. Below(a) \in SUBSET (S \ {a})
    BY DEF TotalOn
  <2>3. IsFiniteSet(Below(a)) /\ Cardinality(Below(a)) <= Cardinality(S \ {a})
    BY <2>1, <2>2, FS_Subset
  <2>4. Cardinality(Below(a)) \in Nat
    BY <2>3, FS_CardinalityType
  <2> HIDE DEF Below, N
  <2> QED BY <2>1, <2>3, <2>4, <1>0
<1>2. \A a, b \in S : <<a, b>> \in R => rank[a] < rank[b]
  <2> SUFFICES ASSUME NEW a \in S, NEW b \in S, <<a, b>> \in R
               PROVE  rank[a] < rank[b]
    OBVIOUS
  <2>1. Below(a) \in SUBSET Below(b)
    BY DEF TotalOn
  <2>2. a \in Below(b) /\ a \notin Below(a)
    BY DEF TotalOn
  <2>3. Cardinality(Below(a)) <= Cardinality(Below(b))
        /\ (Cardinality(Below(b)) = Cardinality(Below(a)) => Below(b) = Below(a))
    BY <1>1, <2>1, FS_Subset
  <2>4. Cardinality(Below(a)) # Cardinality(Below(b))
    BY <2>2, <2>3
  <2>5. Cardinality(Below(a)) \in Int /\ Cardinality(Below(b)) \in Int
    <3> HIDE DEF Below, N
    <3>1. 0 .. N - 1 \subseteq Int
      OBVIOUS
    <3> QED BY <1>1, <3>1
  <2>6. rank[a] = Cardinality(Below(a)) + 1 /\ rank[b] = Cardinality(Below(b)) + 1
    OBVIOUS
  <2> HIDE DEF Below, rank
  <2> QED BY <2>3, <2>4, <2>5, <2>6
<1>3. rank \in [S -> 1 .. N]
  <2>1. \A a \in S : Cardinality(Below(a)) + 1 \in 1 .. N
    <3> HIDE DEF Below, N
    <3> QED BY <1>0, <1>1
  <2> HIDE DEF Below, N
  <2> QED BY <2>1
<1> HIDE DEF Below, rank, N
<1>4. rank \in Injection(S, 1 .. N)
  <2>1. ASSUME NEW a \in S, NEW b \in S, rank[a] = rank[b]
        PROVE  a = b
    <3>1. ~(rank[a] < rank[b]) /\ ~(rank[b] < rank[a])
      BY <1>0, <1>3, <2>1
    <3> QED BY <1>2, <3>1 DEF TotalOn
  <2> QED BY <1>3, <2>1 DEF Injection, IsInjective
<1>5. rank \in Surjection(S, 1 .. N)
  <2>1. IsFiniteSet(1 .. N) /\ Cardinality(1 .. N) = N
    BY <1>0, FS_Interval
  <2> QED BY <1>4, <2>1, FS_Injection DEF N
<1>6. \A n \in 1 .. N : \E a \in S : rank[a] = n
  BY <1>5 DEF Surjection
<1>7. PICK s : s = [n \in 1 .. N |-> CHOOSE a \in S : rank[a] = n]
  OBVIOUS
<1>8. \A n \in 1 .. N : s[n] \in S /\ rank[s[n]] = n
  BY <1>6, <1>7
<1>9. s \in SetToSeqs(S) /\ DOMAIN s = 1 .. N
  BY <1>7, <1>8 DEF SetToSeqs, N
<1>10. ASSUME NEW j \in 1 .. N, NEW k \in 1 .. N, j < k
       PROVE  <<s[j], s[k]>> \in R
  <2>1. s[j] \in S /\ s[k] \in S /\ ~(rank[s[k]] < rank[s[j]]) /\ rank[s[k]] # rank[s[j]]
    BY <1>0, <1>8, <1>10
  <2> QED BY <1>2, <2>1 DEF TotalOn
<1> QED BY <1>9, <1>10 DEF Sorted

LEMMA OrderIsUnique ==
  ASSUME NEW S, IsFiniteSet(S), NEW R, TotalOn(R, S),
         NEW s \in SetToSeqs(S), NEW t \in SetToSeqs(S), Sorted(s, R), Sorted(t, R)
  PROVE  s = t
<1> DEFINE N == Cardinality(S)
           T == {n \in 1 .. N : s[n] # t[n]}
<1>0. N \in Nat
  BY FS_CardinalityType
<1>1. /\ s \in [1 .. N -> S] /\ t \in [1 .. N -> S]
      /\ \A j, k \in 1 .. N : j # k => s[j] # s[k] /\ t[j] # t[k]
  BY DEF SetToSeqs
<1>2. Range(s) = S /\ Range(t) = S
  BY RangeOfOrder
<1> HIDE DEF N
<1>3. CASE T = {}
  <2>1. \A n \in 1 .. N : s[n] = t[n]
    BY <1>3
  <2>2. s = [n \in 1 .. N |-> s[n]] /\ t = [n \in 1 .. N |-> t[n]]
    BY <1>1
  <2>3. [n \in 1 .. N |-> s[n]] = [n \in 1 .. N |-> t[n]]
    BY <2>1
  <2> QED BY <2>2, <2>3
<1>4. CASE T # {}
  <2>1. T \in SUBSET Nat
    BY <1>0
  <2>2. PICK m \in T : \A n \in T : m <= n
    BY <1>4, <2>1, LeastElement
  <2>3. m \in 1 .. N /\ s[m] # t[m] /\ \A n \in 1 .. N : n < m => s[n] = t[n]
    BY <1>0, <2>2
  <2>4. PICK j \in 1 .. N : s[m] = t[j]
    BY <1>1, <1>2, <2>3 DEF Range
  <2>5. PICK k \in 1 .. N : t[m] = s[k]
    BY <1>1, <1>2, <2>3 DEF Range
  <2>6. m < j /\ m < k
    <3>1. j # m /\ k # m
      BY <2>3, <2>4, <2>5
    <3>2. ~(j < m) /\ ~(k < m)
      BY <1>1, <2>3, <2>4, <2>5, <3>1
    <3> QED BY <1>0, <2>3, <3>1, <3>2
  <2>7. <<t[m], t[j]>> \in R /\ <<s[m], s[k]>> \in R
    BY <1>1, <2>3, <2>6 DEF Sorted
  <2> QED BY <1>1, <2>3, <2>4, <2>5, <2>7 DEF TotalOn
<1> QED BY <1>3, <1>4

(***************************************************************************)
(* Sequences with no element twice.                                        *)
(***************************************************************************)

LEMMA InjectiveConcat ==
  ASSUME NEW X, NEW s \in Seq(X), NEW t \in Seq(X), IsInjective(s), IsInjective(t),
         Range(s) \cap Range(t) = {}
  PROVE  s \o t \in Seq(X) /\ IsInjective(s \o t)
<1>0. /\ Len(s) \in Nat /\ Len(t) \in Nat
      /\ DOMAIN s = 1 .. Len(s) /\ DOMAIN t = 1 .. Len(t)
  BY LenProperties
<1>1. /\ s \o t \in Seq(X) /\ Len(s \o t) = Len(s) + Len(t)
      /\ \A i \in 1 .. Len(s) + Len(t) : (s \o t)[i] = IF i <= Len(s) THEN s[i] ELSE t[i - Len(s)]
  BY ConcatProperties
<1>2. DOMAIN (s \o t) = 1 .. Len(s) + Len(t)
  BY <1>1, LenProperties
<1>3. \A i \in 1 .. Len(s), j \in 1 .. Len(t) : s[i] # t[j]
  BY <1>0 DEF Range
<1>4. ASSUME NEW i \in 1 .. Len(s) + Len(t), NEW j \in 1 .. Len(s) + Len(t),
             (s \o t)[i] = (s \o t)[j]
      PROVE  i = j
  <2>1. CASE i <= Len(s) /\ j <= Len(s)
    <3>1. i \in 1 .. Len(s) /\ j \in 1 .. Len(s) /\ s[i] = s[j]
      BY <1>0, <1>1, <1>4, <2>1
    <3> QED BY <1>0, <3>1 DEF IsInjective
  <2>2. CASE i <= Len(s) /\ ~(j <= Len(s))
    <3>1. i \in 1 .. Len(s) /\ j - Len(s) \in 1 .. Len(t) /\ s[i] = t[j - Len(s)]
      BY <1>0, <1>1, <1>4, <2>2
    <3> QED BY <1>3, <3>1
  <2>3. CASE ~(i <= Len(s)) /\ j <= Len(s)
    <3>1. j \in 1 .. Len(s) /\ i - Len(s) \in 1 .. Len(t) /\ s[j] = t[i - Len(s)]
      BY <1>0, <1>1, <1>4, <2>3
    <3> QED BY <1>3, <3>1
  <2>4. CASE ~(i <= Len(s)) /\ ~(j <= Len(s))
    <3>1. i - Len(s) \in 1 .. Len(t) /\ j - Len(s) \in 1 .. Len(t) /\ t[i - Len(s)] = t[j - Len(s)]
      BY <1>0, <1>1, <1>4, <2>4
    <3>2. i - Len(s) = j - Len(s)
      BY <1>0, <3>1 DEF IsInjective
    <3> QED BY <1>0, <3>2
  <2> QED BY <2>1, <2>2, <2>3, <2>4
<1> QED BY <1>1, <1>2, <1>4 DEF IsInjective

LEMMA OnceConcat ==
  ASSUME NEW X, NEW s \in Seq(X), NEW t \in Seq(X), IsInjective(s), IsInjective(t),
         Range(s) \cap Range(t) = {}
  PROVE  s \o t \in Seq(X) /\ IsInjective(s \o t) /\ Range(s \o t) = Range(s) \cup Range(t)
BY InjectiveConcat, RangeOfConcat

LEMMA InjectiveFlatten ==
  ASSUME NEW X, NEW s \in Seq(Seq(X)), \A n \in DOMAIN s : IsInjective(s[n]),
         \A j, k \in DOMAIN s : j # k => Range(s[j]) \cap Range(s[k]) = {}
  PROVE  IsInjective(FlattenSeq(s))
<1>0. Len(s) \in Nat /\ DOMAIN s = 1 .. Len(s) /\ \A n \in 1 .. Len(s) : s[n] \in Seq(X)
  BY LenProperties
<1>1. CASE Len(s) = 0
  <2>1. FlattenSeq(s) = s /\ DOMAIN s = {}
    BY <1>0, <1>1 DEF FlattenSeq
  <2> QED BY <2>1 DEF IsInjective
<1>2. CASE Len(s) # 0
  <2>1. PICK g : Flattens(g, s) /\ FlattenSeq(s) = g[Len(s)]
    BY <1>0, <1>2, FlattenSeqIs
  <2> DEFINE P(n) == /\ g[n] \in Seq(X) /\ IsInjective(g[n])
                     /\ \A x \in Range(g[n]) : \E i \in 1 .. n : x \in Range(s[i])
             S == {n \in Nat : n \in 1 .. Len(s) => P(n)}
  <2>2. 0 \in S
    OBVIOUS
  <2>3. ASSUME NEW n \in Nat, n \in S
        PROVE  n + 1 \in S
    <3> SUFFICES ASSUME n + 1 \in 1 .. Len(s)
                 PROVE  P(n + 1)
      OBVIOUS
    <3>1. g[n + 1] = IF n + 1 = 1 THEN s[n + 1] ELSE g[n + 1 - 1] \o s[n + 1]
      BY <2>1, FlattensAt
    <3>2. s[n + 1] \in Seq(X) /\ IsInjective(s[n + 1])
      BY <1>0
    <3>3. CASE n = 0
      <4>1. g[n + 1] = s[n + 1] /\ n + 1 \in 1 .. n + 1
        BY <3>1, <3>3
      <4> QED BY <3>2, <4>1
    <3>4. CASE n # 0
      <4>1. n \in 1 .. Len(s) /\ n + 1 - 1 = n /\ n + 1 # 1
        BY <3>4
      <4>2. P(n) /\ g[n + 1] = g[n] \o s[n + 1]
        BY <2>3, <3>1, <4>1
      <4>3. Range(g[n]) \cap Range(s[n + 1]) = {}
        <5>1. \A i \in 1 .. n : i \in 1 .. Len(s) /\ i # n + 1
          OBVIOUS
        <5>2. \A i \in 1 .. n : Range(s[i]) \cap Range(s[n + 1]) = {}
          BY <1>0, <5>1
        <5> QED BY <4>2, <5>2
      <4> HIDE DEF S
      <4>4. PICK r, t : r = g[n] /\ t = s[n + 1]
        OBVIOUS
      <4>5. /\ r \in Seq(X) /\ t \in Seq(X) /\ IsInjective(r) /\ IsInjective(t)
            /\ Range(r) \cap Range(t) = {} /\ g[n + 1] = r \o t
        BY <3>2, <4>2, <4>3, <4>4
      <4>6. g[n + 1] \in Seq(X) /\ IsInjective(g[n + 1])
        BY <4>5, InjectiveConcat
      <4>7. Range(g[n + 1]) = Range(r) \cup Range(t)
        BY <4>5, RangeOfConcat
      <4>8. ASSUME NEW x \in Range(g[n + 1])
            PROVE  \E i \in 1 .. n + 1 : x \in Range(s[i])
        <5>1. CASE x \in Range(r)
          <6>1. PICK i \in 1 .. n : x \in Range(s[i])
            BY <4>2, <4>4, <5>1
          <6>2. i \in 1 .. n + 1
            OBVIOUS
          <6> QED BY <6>1, <6>2
        <5>2. CASE x \in Range(t)
          <6>1. n + 1 \in 1 .. n + 1
            OBVIOUS
          <6> QED BY <4>4, <5>2, <6>1
        <5> QED BY <4>7, <4>8, <5>1, <5>2
      <4> QED BY <4>6, <4>8
    <3> QED BY <3>3, <3>4
  <2> HIDE DEF S
  <2>4. Len(s) \in S
    BY <1>0, <2>2, <2>3, SetInduction
  <2>5. Len(s) \in 1 .. Len(s)
    BY <1>0, <1>2
  <2>6. P(Len(s))
    BY <2>4, <2>5 DEF S
  <2> QED BY <2>1, <2>6
<1> QED BY <1>1, <1>2

(* As many places as elements.                                             *)
LEMMA LengthOfInjective ==
  ASSUME NEW X, NEW s \in Seq(X), IsInjective(s)
  PROVE  IsFiniteSet(Range(s)) /\ Cardinality(Range(s)) = Len(s)
<1>1. Len(s) \in Nat /\ DOMAIN s = 1 .. Len(s) /\ s \in [1 .. Len(s) -> X]
  BY LenProperties
<1>2. IsFiniteSet(1 .. Len(s)) /\ Cardinality(1 .. Len(s)) = Len(s)
  BY <1>1, FS_Interval
<1>3. s \in [1 .. Len(s) -> Range(s)] /\ \A y \in Range(s) : \E i \in 1 .. Len(s) : s[i] = y
  BY <1>1 DEF Range
<1>4. s \in Surjection(1 .. Len(s), Range(s)) /\ s \in Injection(1 .. Len(s), Range(s))
  BY <1>1, <1>3 DEF Surjection, Injection, IsInjective
<1> QED BY <1>2, <1>4, FS_Surjection

(* The elements of a sequence that are in C.                               *)
LEMMA Sifted ==
  ASSUME NEW X, NEW s \in Seq(X), IsInjective(s), NEW C
  PROVE  LET sifted == FlattenSeq([n \in DOMAIN s |-> IF s[n] \in C THEN <<s[n]>> ELSE <<>>])
         IN  /\ sifted \in Seq(X) /\ Range(sifted) = Range(s) \cap C
             /\ IsInjective(sifted)
<1> DEFINE parts == [n \in DOMAIN s |-> IF s[n] \in C THEN <<s[n]>> ELSE <<>>]
<1>1. Len(s) \in Nat /\ DOMAIN s = 1 .. Len(s) /\ \A n \in DOMAIN s : s[n] \in X
  BY LenProperties
<1>2. DOMAIN parts = DOMAIN s
  OBVIOUS
<1>3. \A x \in X : <<x>> \in Seq(X) /\ Range(<<x>>) = {x} /\ IsInjective(<<x>>)
  BY DEF Range, IsInjective
<1>4. <<>> \in Seq(X) /\ Range(<<>>) = {} /\ IsInjective(<<>>)
  BY EmptySeq DEF Range, IsInjective
<1>5. \A n \in DOMAIN s :
         /\ parts[n] \in Seq(X) /\ IsInjective(parts[n])
         /\ Range(parts[n]) = IF s[n] \in C THEN {s[n]} ELSE {}
  BY <1>1, <1>3, <1>4
<1> HIDE DEF parts
<1>6. parts \in Seq(Seq(X))
  <2>1. parts = [n \in 1 .. Len(s) |-> parts[n]]
    BY <1>1, <1>2 DEF parts
  <2> QED BY <1>1, <1>5, <2>1
<1>7. /\ FlattenSeq(parts) \in Seq(X)
      /\ Range(FlattenSeq(parts)) = UNION {Range(parts[n]) : n \in DOMAIN parts}
  BY <1>6, RangeOfFlatten
<1>8. \A x : x \in Range(s) <=> \E n \in DOMAIN s : s[n] = x
  BY DEF Range
<1>9. UNION {Range(parts[n]) : n \in DOMAIN parts} = Range(s) \cap C
  BY <1>2, <1>5, <1>8
<1>10. \A j, k \in DOMAIN parts : j # k => Range(parts[j]) \cap Range(parts[k]) = {}
  <2>1. \A j, k \in DOMAIN s : j # k => s[j] # s[k]
    BY DEF IsInjective
  <2>2. \A j, k \in DOMAIN parts : j # k => s[j] # s[k]
    BY <1>2, <2>1
  <2>3. \A j \in DOMAIN parts : Range(parts[j]) \subseteq {s[j]}
    BY <1>2, <1>5
  <2> QED BY <2>2, <2>3
<1>11. IsInjective(FlattenSeq(parts))
  BY <1>2, <1>5, <1>6, <1>10, InjectiveFlatten
<1> QED BY <1>7, <1>9, <1>11 DEF parts

LEMMA OnceIsInjective ==
  ASSUME NEW X, NEW s \in Seq(X)
  PROVE  IsInjective(FlattenSeq([i \in DOMAIN s |->
                       IF \E j \in 1 .. i - 1 : s[j] = s[i] THEN <<>> ELSE <<s[i]>>]))
<1> DEFINE parts == [i \in DOMAIN s |->
                       IF \E j \in 1 .. i - 1 : s[j] = s[i] THEN <<>> ELSE <<s[i]>>]
<1>1. DOMAIN s = 1 .. Len(s) /\ Len(s) \in Nat /\ \A i \in DOMAIN s : s[i] \in X
  OBVIOUS
<1>2. parts \in Seq(Seq(X)) /\ DOMAIN parts = DOMAIN s
  BY <1>1, EmptySeq
<1>3. \A x : Range(<<x>>) = {x} /\ IsInjective(<<x>>)
  BY DEF Range, IsInjective
<1>4. Range(<<>>) = {} /\ IsInjective(<<>>)
  BY DEF Range, IsInjective
<1>5. \A i \in DOMAIN s :
        /\ IsInjective(parts[i]) /\ Range(parts[i]) \subseteq {s[i]}
        /\ \A j \in 1 .. i - 1 : s[j] = s[i] => Range(parts[i]) = {}
  BY <1>3, <1>4
<1> HIDE DEF parts
<1>6. ASSUME NEW j \in DOMAIN parts, NEW k \in DOMAIN parts, j < k
      PROVE  Range(parts[j]) \cap Range(parts[k]) = {}
  <2>1. j \in 1 .. k - 1 /\ j \in DOMAIN s /\ k \in DOMAIN s
    BY <1>1, <1>2, <1>6
  <2> QED BY <1>5, <2>1
<1>7. \A j, k \in DOMAIN parts : j # k => Range(parts[j]) \cap Range(parts[k]) = {}
  <2>1. \A j, k \in DOMAIN parts : j # k => j < k \/ k < j
    BY <1>1, <1>2
  <2> QED BY <1>6, <2>1
<1> QED BY <1>2, <1>5, <1>7, InjectiveFlatten DEF parts

LEMMA OnceIsAnOrder ==
  ASSUME NEW S, NEW s \in Seq(S), IsInjective(s), Range(s) = S
  PROVE  IsFiniteSet(S) /\ s \in SetToSeqs(S) /\ DOMAIN s = 1 .. Cardinality(S)
<1>1. IsFiniteSet(S) /\ Cardinality(S) = Len(s)
  BY LengthOfInjective
<1>2. Len(s) \in Nat /\ DOMAIN s = 1 .. Len(s) /\ s \in [1 .. Len(s) -> S]
  BY LenProperties
<1> QED BY <1>1, <1>2 DEF SetToSeqs, IsInjective

(***************************************************************************)
(* Recursion along a sequence.                                             *)
(***************************************************************************)

Iterates(f, N, V, base, step) ==
  f \in [0 .. N -> V] /\ \A n \in 0 .. N : f[n] = IF n = 0 THEN base ELSE step[n][f[n - 1]]

(* A function on 0 .. N defined by its value at 0 and a step exists.       *)
LEMMA RecursionExists ==
  ASSUME NEW N \in Nat, NEW V, NEW base \in V, NEW step,
         \A n \in 1 .. N : \A v \in V : step[n][v] \in V
  PROVE  \E f : Iterates(f, N, V, base, step)
<1> DEFINE Upto(f, m) ==
             f \in [0 .. m -> V] /\ \A n \in 0 .. m : f[n] = IF n = 0 THEN base ELSE step[n][f[n - 1]]
           S == {m \in Nat : m <= N => \E f : Upto(f, m)}
<1>1. 0 \in S
  <2>1. PICK f : f = [n \in 0 .. 0 |-> base]
    OBVIOUS
  <2>2. \A n \in 0 .. 0 : n = 0
    OBVIOUS
  <2>3. Upto(f, 0)
    BY <2>1, <2>2
  <2> QED BY <2>3
<1>2. ASSUME NEW m \in Nat, m \in S
      PROVE  m + 1 \in S
  <2> SUFFICES ASSUME m + 1 <= N
               PROVE  \E f : Upto(f, m + 1)
    OBVIOUS
  <2>1. PICK f : Upto(f, m)
    BY <1>2
  <2>2. PICK h : h = [n \in 0 .. m + 1 |-> IF n = m + 1 THEN step[m + 1][f[m]] ELSE f[n]]
    OBVIOUS
  <2>3. m \in 0 .. m /\ m + 1 \in 1 .. N /\ m + 1 \in 0 .. m + 1 /\ m + 1 # 0 /\ m + 1 - 1 = m
        /\ m \in 0 .. m + 1 /\ m # m + 1
    OBVIOUS
  <2>4. f[m] \in V /\ step[m + 1][f[m]] \in V
    BY <2>1, <2>3
  <2>5. h[m + 1] = step[m + 1][f[m]] /\ h[m] = f[m]
    BY <2>2, <2>3
  <2>6. \A n \in 0 .. m + 1 : n = m + 1 \/ (n \in 0 .. m /\ n # m + 1)
    OBVIOUS
  <2>7. h \in [0 .. m + 1 -> V]
    BY <2>1, <2>2, <2>4, <2>6
  <2>8. ASSUME NEW n \in 0 .. m + 1
        PROVE  h[n] = IF n = 0 THEN base ELSE step[n][h[n - 1]]
    <3>1. CASE n = m + 1
      BY <2>3, <2>5, <3>1
    <3>2. CASE n # m + 1
      <4>1. n \in 0 .. m /\ h[n] = f[n]
        BY <2>2, <2>6, <3>2
      <4>2. n # 0 => n - 1 \in 0 .. m + 1 /\ n - 1 # m + 1
        BY <4>1
      <4>3. n # 0 => h[n - 1] = f[n - 1]
        BY <2>2, <4>2
      <4> QED BY <2>1, <4>1, <4>3
    <3> QED BY <3>1, <3>2
  <2>9. Upto(h, m + 1)
    BY <2>7, <2>8
  <2> HIDE DEF Upto
  <2> QED BY <2>9
<1> HIDE DEF S
<1>3. N \in S
  BY <1>1, <1>2, SetInduction
<1> QED BY <1>3 DEF S, Iterates

=============================================================================
