-------------------------- MODULE ProjectionProofs --------------------------
(***************************************************************************)
(* Theorems about Document, for any thresholds, any replies in any order,  *)
(* any delegation and any designated identifiers: the document asks of a   *)
(* signature what the controller committed to, lists the endpoints that    *)
(* stand, and names nobody but its subject.  And theorems about Did, for   *)
(* any texts and any DIDs: a text is taken exactly if the grammar has it,  *)
(* it is rewritten in nothing but its case, its spelling reads back as the *)
(* same DID, and no two DIDs share a URL or a directory.                   *)
(***************************************************************************)
EXTENDS Document, Did, DataInduction

(***************************************************************************)
(* Arithmetic.                                                             *)
(***************************************************************************)

Positive == Nat \ {0}
Divides(d, m) == \E q \in Nat : m = d * q

LEMMA ProductPositive ==
  ASSUME NEW a \in Positive, NEW b \in Positive
  PROVE  a * b \in Positive
BY DEF Positive

LEMMA OrderOfProducts ==
  ASSUME NEW a \in Nat, NEW b \in Nat, NEW c \in Positive, a < b
  PROVE  c * a < c * b
BY DEF Positive

LEMMA Distribute ==
  ASSUME NEW a \in Nat, NEW b \in Nat, NEW c \in Nat
  PROVE  a * (b + c) = a * b + a * c
OBVIOUS

LEMMA Commute ==
  ASSUME NEW a \in Nat, NEW b \in Nat, NEW c \in Nat
  PROVE  a * (b * c) = (a * b) * c /\ a * b = b * a /\ a * b \in Nat
OBVIOUS

LEMMA Regroup ==
  ASSUME NEW w \in Nat, NEW d \in Nat, NEW p \in Nat, NEW q \in Nat
  PROVE  (d * p) * (w * q) = (d * q) * (w * p) /\ w * (d * p) = d * (w * p)
OBVIOUS

LEMMA Quotient ==
  ASSUME NEW d \in Positive, NEW x \in Nat
  PROVE  (d * x) \div d = x
BY DEF Positive

LEMMA NoRemainder ==
  ASSUME NEW d \in Positive, NEW m \in Nat
  PROVE  m % d = 0 <=> Divides(d, m)
<1>1. ASSUME m % d = 0
      PROVE  Divides(d, m)
  <2>1. PICK q \in Int : m = d * q
    BY <1>1 DEF Positive
  <2>2. q \in Nat
    BY <2>1 DEF Positive
  <2> QED BY <2>1, <2>2 DEF Divides
<1>2. ASSUME NEW q \in Nat
      PROVE  (d * q) % d = 0
  BY DEF Positive
<1> QED BY <1>1, <1>2 DEF Divides

(* One fraction w / d, over two denominators that d divides.               *)
OverBothAlike(w, d, P, D) ==
  /\ (w * P) \div d \in Nat /\ (w * D) \div d \in Nat
  /\ D * ((w * P) \div d) = P * ((w * D) \div d)

LEMMA OverBoth ==
  ASSUME NEW w \in Nat, NEW d \in Positive, NEW P \in Nat, NEW D \in Nat,
         Divides(d, P), Divides(d, D)
  PROVE  OverBothAlike(w, d, P, D)
<1>0. d \in Nat
  BY DEF Positive
<1>1. PICK p \in Nat, q \in Nat : P = d * p /\ D = d * q
  BY DEF Divides
<1>2. w * P = d * (w * p) /\ w * D = d * (w * q) /\ w * p \in Nat /\ w * q \in Nat
  BY <1>0, <1>1, Regroup, Commute
<1>3. (w * P) \div d = w * p /\ (w * D) \div d = w * q
  BY <1>2, Quotient
<1>4. (d * q) * (w * p) = (d * p) * (w * q)
  BY <1>0, Regroup
<1> QED BY <1>1, <1>2, <1>3, <1>4 DEF OverBothAlike

(* Two sums in proportion to what they are compared with.                  *)
LEMMA SameVerdict ==
  ASSUME NEW A \in Nat, NEW B \in Nat, NEW P \in Positive, NEW D \in Positive, D * A = P * B
  PROVE  A >= P <=> B >= D
<1>0. P \in Nat /\ D \in Nat
  BY DEF Positive
<1>1. ASSUME A >= P, ~(B >= D)
      PROVE  FALSE
  <2>1. B < D
    BY <1>0, <1>1
  <2>2. P * B < P * D
    BY <1>0, <2>1, OrderOfProducts
  <2>3. D * P <= D * A
    <3>1. CASE A = P
      BY <1>0, <3>1
    <3>2. CASE P < A
      <4>1. D * P < D * A
        BY <1>0, <3>2, OrderOfProducts
      <4>2. D * P \in Nat /\ D * A \in Nat
        BY <1>0, Commute
      <4> QED BY <4>1, <4>2
    <3> QED BY <1>0, <1>1, <3>1, <3>2
  <2>4. P * D = D * P /\ P * D \in Nat /\ D * A \in Nat /\ P * B \in Nat
    BY <1>0, Commute
  <2>5. PICK x, y, z : x = P * D /\ y = D * A /\ z = P * B
    OBVIOUS
  <2>6. x \in Nat /\ y \in Nat /\ z \in Nat /\ z < x /\ x <= y /\ y = z
    BY <2>2, <2>3, <2>4, <2>5
  <2> QED BY <2>6
<1>2. ASSUME B >= D, ~(A >= P)
      PROVE  FALSE
  <2>1. A < P
    BY <1>0, <1>2
  <2>2. D * A < D * P
    BY <1>0, <2>1, OrderOfProducts
  <2>3. P * D <= P * B
    <3>1. CASE B = D
      BY <1>0, <3>1
    <3>2. CASE D < B
      <4>1. P * D < P * B
        BY <1>0, <3>2, OrderOfProducts
      <4>2. P * D \in Nat /\ P * B \in Nat
        BY <1>0, Commute
      <4> QED BY <4>1, <4>2
    <3> QED BY <1>0, <1>2, <3>1, <3>2
  <2>4. P * D = D * P /\ P * D \in Nat /\ D * A \in Nat /\ P * B \in Nat
    BY <1>0, Commute
  <2>5. PICK x, y, z : x = D * P /\ y = P * B /\ z = D * A
    OBVIOUS
  <2>6. x \in Nat /\ y \in Nat /\ z \in Nat /\ z < x /\ x <= y /\ y = z
    BY <2>2, <2>3, <2>4, <2>5
  <2> QED BY <2>6
<1> QED BY <1>1, <1>2

(***************************************************************************)
(* Sums and products.                                                      *)
(***************************************************************************)

Products(f, weights) ==
  f = [n \in 0 .. Len(weights) |-> IF n = 0 THEN 1 ELSE f[n - 1] * weights[n][2]]

Totals(f, amounts) ==
  f = [n \in 0 .. Len(amounts) |-> IF n = 0 THEN 0 ELSE f[n - 1] + amounts[n]]

LEMMA ProductIs ==
  ASSUME NEW weights \in Seq(Weight)
  PROVE  \E f \in [0 .. Len(weights) -> Nat] :
           /\ \A n \in 0 .. Len(weights) : f[n] = IF n = 0 THEN 1 ELSE f[n - 1] * weights[n][2]
           /\ Product(weights) = f[Len(weights)]
<1>0. Len(weights) \in Nat /\ \A n \in 1 .. Len(weights) : weights[n][2] \in Nat
  BY DEF Weight
<1> DEFINE step == [n \in 1 .. Len(weights) |-> [m \in Nat |-> m * weights[n][2]]]
<1>1. step \in [1 .. Len(weights) -> [Nat -> Nat]]
  <2>1. \A n \in 1 .. Len(weights) : \A m \in Nat : m * weights[n][2] \in Nat
    BY <1>0, Commute
  <2> QED BY <2>1
<1>2. \A n \in 1 .. Len(weights) : \A m \in Nat : step[n][m] = m * weights[n][2]
  OBVIOUS
<1> HIDE DEF step
<1>3. PICK f \in [0 .. Len(weights) -> Nat] :
        \A n \in 0 .. Len(weights) : f[n] = IF n = 0 THEN 1 ELSE step[n][f[n - 1]]
  <2>1. PICK N, base, V : N = Len(weights) /\ base = 1 /\ V = Nat
    OBVIOUS
  <2>2. N \in Nat /\ base \in V /\ \A n \in 1 .. N : \A v \in V : step[n][v] \in V
    BY <1>0, <1>1, <2>1
  <2>3. \E f : Iterates(f, N, V, base, step)
    BY <2>2, RecursionExists
  <2> QED BY <2>1, <2>3 DEF Iterates
<1>4. \A n \in 0 .. Len(weights) :
        n # 0 => n \in 1 .. Len(weights) /\ n - 1 \in 0 .. Len(weights)
  BY <1>0
<1>5. \A n \in 0 .. Len(weights) : f[n] = IF n = 0 THEN 1 ELSE f[n - 1] * weights[n][2]
  BY <1>2, <1>3, <1>4
<1>6. Products(f, weights)
  <2>1. f = [n \in 0 .. Len(weights) |-> f[n]]
    BY <1>3
  <2>2. [n \in 0 .. Len(weights) |-> f[n]]
          = [n \in 0 .. Len(weights) |-> IF n = 0 THEN 1 ELSE f[n - 1] * weights[n][2]]
    BY <1>5
  <2> QED BY <2>1, <2>2 DEF Products
<1>7. PICK g : g = CHOOSE h : Products(h, weights)
  OBVIOUS
<1>8. Products(g, weights)
  BY <1>6, <1>7
<1>9. Product(weights) = g[Len(weights)]
  <2>1. Product(weights) =
          (CHOOSE h : h = [n \in 0 .. Len(weights) |->
                             IF n = 0 THEN 1 ELSE h[n - 1] * weights[n][2]])[Len(weights)]
    BY DEF Product
  <2>2. (CHOOSE h : h = [n \in 0 .. Len(weights) |->
                             IF n = 0 THEN 1 ELSE h[n - 1] * weights[n][2]])
          = (CHOOSE h : Products(h, weights))
    BY DEF Products
  <2> QED BY <1>7, <2>1, <2>2
<1>10. \A n \in 0 .. Len(weights) : g[n] = IF n = 0 THEN 1 ELSE g[n - 1] * weights[n][2]
  BY <1>8 DEF Products
<1>11. DOMAIN g = 0 .. Len(weights) /\ g = [n \in 0 .. Len(weights) |-> g[n]]
  <2>1. PICK r : r = [n \in 0 .. Len(weights) |-> IF n = 0 THEN 1 ELSE g[n - 1] * weights[n][2]]
    OBVIOUS
  <2>2. g = r
    BY <1>8, <2>1 DEF Products
  <2>3. DOMAIN r = 0 .. Len(weights) /\ r = [n \in 0 .. Len(weights) |-> r[n]]
    BY <2>1
  <2> QED BY <2>2, <2>3
<1>12. \A n \in 0 .. Len(weights) : g[n] \in Nat
  <2> DEFINE S == {n \in Nat : n \in 0 .. Len(weights) => g[n] \in Nat}
  <2>1. 0 \in S
    BY <1>0, <1>10
  <2>2. ASSUME NEW n \in Nat, n \in S
        PROVE  n + 1 \in S
    <3> SUFFICES ASSUME n + 1 \in 0 .. Len(weights)
                 PROVE  g[n + 1] \in Nat
      OBVIOUS
    <3>1. n \in 0 .. Len(weights) /\ n + 1 \in 1 .. Len(weights) /\ n + 1 # 0 /\ n + 1 - 1 = n
      BY <1>0
    <3>2. g[n] \in Nat /\ weights[n + 1][2] \in Nat
      BY <1>0, <2>2, <3>1
    <3>3. g[n + 1] = g[n] * weights[n + 1][2]
      BY <1>10, <3>1
    <3> QED BY <3>2, <3>3, Commute
  <2> HIDE DEF S
  <2>3. \A n \in Nat : n \in S
    BY <2>1, <2>2, SetInduction
  <2> QED BY <2>3 DEF S
<1>13. g \in [0 .. Len(weights) -> Nat]
  BY <1>11, <1>12
<1> QED BY <1>9, <1>10, <1>13

LEMMA TotalIs ==
  ASSUME NEW amounts \in Seq(Nat)
  PROVE  \E f \in [0 .. Len(amounts) -> Nat] :
           /\ \A n \in 0 .. Len(amounts) : f[n] = IF n = 0 THEN 0 ELSE f[n - 1] + amounts[n]
           /\ Total(amounts) = f[Len(amounts)]
<1>0. Len(amounts) \in Nat /\ \A n \in 1 .. Len(amounts) : amounts[n] \in Nat
  OBVIOUS
<1> DEFINE step == [n \in 1 .. Len(amounts) |-> [m \in Nat |-> m + amounts[n]]]
<1>1. step \in [1 .. Len(amounts) -> [Nat -> Nat]]
  <2>1. \A n \in 1 .. Len(amounts) : \A m \in Nat : m + amounts[n] \in Nat
    BY <1>0
  <2> QED BY <2>1
<1>2. \A n \in 1 .. Len(amounts) : \A m \in Nat : step[n][m] = m + amounts[n]
  OBVIOUS
<1> HIDE DEF step
<1>3. PICK f \in [0 .. Len(amounts) -> Nat] :
        \A n \in 0 .. Len(amounts) : f[n] = IF n = 0 THEN 0 ELSE step[n][f[n - 1]]
  <2>1. PICK N, base, V : N = Len(amounts) /\ base = 0 /\ V = Nat
    OBVIOUS
  <2>2. N \in Nat /\ base \in V /\ \A n \in 1 .. N : \A v \in V : step[n][v] \in V
    BY <1>0, <1>1, <2>1
  <2>3. \E f : Iterates(f, N, V, base, step)
    BY <2>2, RecursionExists
  <2> QED BY <2>1, <2>3 DEF Iterates
<1>4. \A n \in 0 .. Len(amounts) :
        n # 0 => n \in 1 .. Len(amounts) /\ n - 1 \in 0 .. Len(amounts)
  BY <1>0
<1>5. \A n \in 0 .. Len(amounts) : f[n] = IF n = 0 THEN 0 ELSE f[n - 1] + amounts[n]
  BY <1>2, <1>3, <1>4
<1>6. Totals(f, amounts)
  <2>1. f = [n \in 0 .. Len(amounts) |-> f[n]]
    BY <1>3
  <2>2. [n \in 0 .. Len(amounts) |-> f[n]]
          = [n \in 0 .. Len(amounts) |-> IF n = 0 THEN 0 ELSE f[n - 1] + amounts[n]]
    BY <1>5
  <2> QED BY <2>1, <2>2 DEF Totals
<1>7. PICK g : g = CHOOSE h : Totals(h, amounts)
  OBVIOUS
<1>8. Totals(g, amounts)
  BY <1>6, <1>7
<1>9. Total(amounts) = g[Len(amounts)]
  <2>1. Total(amounts) =
          (CHOOSE h : h = [n \in 0 .. Len(amounts) |->
                             IF n = 0 THEN 0 ELSE h[n - 1] + amounts[n]])[Len(amounts)]
    BY DEF Total
  <2>2. (CHOOSE h : h = [n \in 0 .. Len(amounts) |->
                             IF n = 0 THEN 0 ELSE h[n - 1] + amounts[n]])
          = (CHOOSE h : Totals(h, amounts))
    BY DEF Totals
  <2> QED BY <1>7, <2>1, <2>2
<1>10. \A n \in 0 .. Len(amounts) : g[n] = IF n = 0 THEN 0 ELSE g[n - 1] + amounts[n]
  BY <1>8 DEF Totals
<1>11. DOMAIN g = 0 .. Len(amounts) /\ g = [n \in 0 .. Len(amounts) |-> g[n]]
  <2>1. PICK r : r = [n \in 0 .. Len(amounts) |-> IF n = 0 THEN 0 ELSE g[n - 1] + amounts[n]]
    OBVIOUS
  <2>2. g = r
    BY <1>8, <2>1 DEF Totals
  <2>3. DOMAIN r = 0 .. Len(amounts) /\ r = [n \in 0 .. Len(amounts) |-> r[n]]
    BY <2>1
  <2> QED BY <2>2, <2>3
<1>12. \A n \in 0 .. Len(amounts) : g[n] \in Nat
  <2> DEFINE S == {n \in Nat : n \in 0 .. Len(amounts) => g[n] \in Nat}
  <2>1. 0 \in S
    BY <1>0, <1>10
  <2>2. ASSUME NEW n \in Nat, n \in S
        PROVE  n + 1 \in S
    <3> SUFFICES ASSUME n + 1 \in 0 .. Len(amounts)
                 PROVE  g[n + 1] \in Nat
      OBVIOUS
    <3>1. n \in 0 .. Len(amounts) /\ n + 1 \in 1 .. Len(amounts) /\ n + 1 # 0 /\ n + 1 - 1 = n
      BY <1>0
    <3>2. g[n] \in Nat /\ amounts[n + 1] \in Nat
      BY <1>0, <2>2, <3>1
    <3>3. g[n + 1] = g[n] + amounts[n + 1]
      BY <1>10, <3>1
    <3> QED BY <3>2, <3>3
  <2> HIDE DEF S
  <2>3. \A n \in Nat : n \in S
    BY <2>1, <2>2, SetInduction
  <2> QED BY <2>3 DEF S
<1>13. g \in [0 .. Len(amounts) -> Nat]
  BY <1>11, <1>12
<1> QED BY <1>9, <1>10, <1>13

LEMMA TotalIsNumber ==
  ASSUME NEW amounts \in Seq(Nat)
  PROVE  Total(amounts) \in Nat
<1>1. PICK f \in [0 .. Len(amounts) -> Nat] : Total(amounts) = f[Len(amounts)]
  BY TotalIs
<1> QED BY <1>1

(* Every denominator divides the product of them.                          *)
LEMMA ProductIsMultiple ==
  ASSUME NEW weights \in Seq(Weight)
  PROVE  /\ Product(weights) \in Positive
         /\ \A i \in 1 .. Len(weights) : Divides(weights[i][2], Product(weights))
<1>0. Len(weights) \in Nat /\ \A n \in 1 .. Len(weights) : weights[n][2] \in Positive /\ weights[n][2] \in Nat
  BY DEF Weight, Positive
<1>1. PICK f \in [0 .. Len(weights) -> Nat] :
        /\ \A n \in 0 .. Len(weights) : f[n] = IF n = 0 THEN 1 ELSE f[n - 1] * weights[n][2]
        /\ Product(weights) = f[Len(weights)]
  BY ProductIs
<1> DEFINE S == {n \in Nat : n \in 0 .. Len(weights) =>
                    /\ f[n] \in Positive
                    /\ \A i \in 1 .. n : Divides(weights[i][2], f[n])}
<1>2. 0 \in S
  <2>1. 0 \in 0 .. Len(weights) /\ \A i \in 1 .. 0 : FALSE
    BY <1>0
  <2>2. f[0] = 1
    BY <1>1, <2>1
  <2> QED BY <2>1, <2>2 DEF Positive
<1>3. ASSUME NEW n \in Nat, n \in S
      PROVE  n + 1 \in S
  <2> SUFFICES ASSUME n + 1 \in 0 .. Len(weights)
               PROVE  /\ f[n + 1] \in Positive
                      /\ \A i \in 1 .. n + 1 : Divides(weights[i][2], f[n + 1])
    OBVIOUS
  <2>1. n \in 0 .. Len(weights) /\ n + 1 \in 1 .. Len(weights) /\ n + 1 # 0 /\ n + 1 - 1 = n
    BY <1>0
  <2>2. f[n + 1] = f[n] * weights[n + 1][2]
    BY <1>1, <2>1
  <2>3. f[n] \in Positive /\ \A i \in 1 .. n : Divides(weights[i][2], f[n])
    BY <1>3, <2>1
  <2>4. f[n] \in Nat /\ weights[n + 1][2] \in Positive /\ weights[n + 1][2] \in Nat
    BY <1>0, <1>1, <2>1
  <2>5. f[n + 1] \in Positive
    BY <2>2, <2>3, <2>4, ProductPositive
  <2>6. Divides(weights[n + 1][2], f[n + 1])
    <3>1. f[n + 1] = weights[n + 1][2] * f[n]
      BY <2>2, <2>4, Commute
    <3> QED BY <2>4, <3>1 DEF Divides
  <2>7. ASSUME NEW i \in 1 .. n
        PROVE  Divides(weights[i][2], f[n + 1])
    <3>1. weights[i][2] \in Nat
      BY <1>0, <2>1
    <3>2. PICK q \in Nat : f[n] = weights[i][2] * q
      BY <2>3 DEF Divides
    <3>3. (weights[i][2] * q) * weights[n + 1][2] = weights[i][2] * (q * weights[n + 1][2])
      BY <2>4, <3>1, Commute
    <3>4. q * weights[n + 1][2] \in Nat
      BY <2>4, Commute
    <3> QED BY <2>2, <3>2, <3>3, <3>4 DEF Divides
  <2>8. \A i \in 1 .. n + 1 : i = n + 1 \/ i \in 1 .. n
    OBVIOUS
  <2> QED BY <2>5, <2>6, <2>7, <2>8
<1> HIDE DEF S
<1>4. Len(weights) \in S
  BY <1>0, <1>2, <1>3, SetInduction
<1>5. Len(weights) \in 0 .. Len(weights)
  BY <1>0
<1> QED BY <1>1, <1>4, <1>5 DEF S

LEMMA LcdIsMultiple ==
  ASSUME NEW weights \in Seq(Weight)
  PROVE  /\ Lcd(weights) \in Positive
         /\ \A i \in 1 .. Len(weights) : Divides(weights[i][2], Lcd(weights))
<1>0. Len(weights) \in Nat /\ DOMAIN weights = 1 .. Len(weights)
      /\ \A n \in 1 .. Len(weights) : weights[n][2] \in Positive /\ weights[n] \in Range(weights)
  BY DEF Weight, Positive, Range
<1>1. \A w \in Range(weights) : \E n \in 1 .. Len(weights) : w = weights[n]
  BY <1>0 DEF Range
<1>2. /\ Product(weights) \in Positive
      /\ \A i \in 1 .. Len(weights) : Divides(weights[i][2], Product(weights))
  BY ProductIsMultiple
<1>3. PICK P : P = Product(weights)
  OBVIOUS
<1> DEFINE T == {m \in 1 .. P : \A w \in Range(weights) : m % w[2] = 0}
<1>4. P \in Nat /\ P \in 1 .. P
  BY <1>2, <1>3 DEF Positive
<1>5. P \in T
  <2>1. \A i \in 1 .. Len(weights) : P % weights[i][2] = 0
    BY <1>0, <1>2, <1>3, <1>4, NoRemainder
  <2> QED BY <1>1, <1>4, <2>1
<1>6. T \in SUBSET Nat /\ \A m \in T : m \in Positive
  BY <1>4 DEF Positive
<1>7. Min(T) \in T
  <2>1. T # {}
    BY <1>5
  <2> HIDE DEF T
  <2> QED BY <1>6, <2>1, MinIsLeast
<1>8. Lcd(weights) = Min(T)
  BY <1>3 DEF Lcd
<1>9. Lcd(weights) \in Positive /\ \A w \in Range(weights) : Lcd(weights) % w[2] = 0
  BY <1>6, <1>7, <1>8
<1>10. Lcd(weights) \in Nat
  BY <1>9 DEF Positive
<1>11. \A i \in 1 .. Len(weights) : Lcd(weights) % weights[i][2] = 0
  BY <1>0, <1>9
<1> HIDE DEF T
<1> QED BY <1>0, <1>9, <1>10, <1>11, NoRemainder

(* Sums of amounts in proportion are in proportion.                        *)
LEMMA TotalsInProportion ==
  ASSUME NEW a \in Seq(Nat), NEW b \in Seq(Nat), Len(a) = Len(b), NEW D \in Nat, NEW P \in Nat,
         \A n \in 1 .. Len(a) : D * a[n] = P * b[n]
  PROVE  D * Total(a) = P * Total(b)
<1>0. Len(a) \in Nat /\ \A n \in 1 .. Len(a) : a[n] \in Nat /\ b[n] \in Nat
  <2>1. Len(a) \in Nat /\ a \in [1 .. Len(a) -> Nat]
    BY LenProperties
  <2>2. b \in [1 .. Len(a) -> Nat]
    BY LenProperties
  <2> QED BY <2>1, <2>2
<1>1. PICK N : N = Len(a)
  OBVIOUS
<1>2. PICK f \in [0 .. N -> Nat] :
        /\ \A n \in 0 .. N : f[n] = IF n = 0 THEN 0 ELSE f[n - 1] + a[n]
        /\ Total(a) = f[N]
  BY <1>1, TotalIs
<1>3. PICK g \in [0 .. N -> Nat] :
        /\ \A n \in 0 .. N : g[n] = IF n = 0 THEN 0 ELSE g[n - 1] + b[n]
        /\ Total(b) = g[N]
  BY <1>1, TotalIs
<1> DEFINE S == {n \in Nat : n \in 0 .. N => D * f[n] = P * g[n]}
<1>4. 0 \in S
  <2>1. 0 \in 0 .. N
    BY <1>0, <1>1
  <2>2. f[0] = 0 /\ g[0] = 0
    BY <1>2, <1>3, <2>1
  <2> QED BY <2>2
<1>5. ASSUME NEW n \in Nat, n \in S
      PROVE  n + 1 \in S
  <2> SUFFICES ASSUME n + 1 \in 0 .. N
               PROVE  D * f[n + 1] = P * g[n + 1]
    OBVIOUS
  <2>1. n \in 0 .. N /\ n + 1 \in 1 .. N /\ n + 1 # 0 /\ n + 1 - 1 = n
    BY <1>0, <1>1
  <2>2. f[n + 1] = f[n] + a[n + 1] /\ g[n + 1] = g[n] + b[n + 1]
    BY <1>2, <1>3, <2>1
  <2>3. /\ f[n] \in Nat /\ g[n] \in Nat /\ a[n + 1] \in Nat /\ b[n + 1] \in Nat
        /\ D * f[n] = P * g[n] /\ D * a[n + 1] = P * b[n + 1]
    BY <1>0, <1>1, <1>5, <2>1
  <2>4. D * (f[n] + a[n + 1]) = D * f[n] + D * a[n + 1]
    <3> HIDE DEF S
    <3>1. f[n] \in Nat /\ a[n + 1] \in Nat
      BY <2>3
    <3> QED BY ONLY <3>1, D \in Nat, Distribute
  <2>5. P * (g[n] + b[n + 1]) = P * g[n] + P * b[n + 1]
    <3>1. g[n] \in Nat /\ b[n + 1] \in Nat
      BY <2>3
    <3> QED BY ONLY <3>1, P \in Nat, Distribute
  <2> QED BY <2>2, <2>3, <2>4, <2>5
<1> HIDE DEF S
<1>6. N \in S
  BY <1>0, <1>1, <1>4, <1>5, SetInduction
<1>7. N \in 0 .. N
  BY <1>0, <1>1
<1> QED BY <1>2, <1>3, <1>6, <1>7 DEF S

(* Ones at the places of H sum to their number.                            *)
LEMMA TotalOfMarks ==
  ASSUME NEW N \in Nat, NEW H \in SUBSET (1 .. N)
  PROVE  /\ Total([n \in 1 .. N |-> IF n \in H THEN 1 ELSE 0]) = Cardinality(H)
         /\ IsFiniteSet(H) /\ Cardinality(H) \in Nat
<1>1. PICK marks : marks = [n \in 1 .. N |-> IF n \in H THEN 1 ELSE 0]
  OBVIOUS
<1>2. marks \in Seq(Nat) /\ Len(marks) = N /\ \A n \in 1 .. N : marks[n] = IF n \in H THEN 1 ELSE 0
  BY <1>1
<1>3. PICK f \in [0 .. N -> Nat] :
        /\ \A n \in 0 .. N : f[n] = IF n = 0 THEN 0 ELSE f[n - 1] + marks[n]
        /\ Total(marks) = f[N]
  BY <1>2, TotalIs
<1> DEFINE Upto(n) == H \cap (1 .. n)
           S == {n \in Nat : n \in 0 .. N =>
                    IsFiniteSet(Upto(n)) /\ Cardinality(Upto(n)) = f[n]}
<1>0. \A k \in H : k \in Nat /\ k # 0 /\ k <= N
  OBVIOUS
<1>4. 0 \in S
  <2>1. Upto(0) = {} /\ 0 \in 0 .. N
    BY <1>0
  <2>2. f[0] = 0
    BY <1>3, <2>1
  <2> QED BY <2>1, <2>2, FS_EmptySet
<1>5. ASSUME NEW n \in Nat, n \in S
      PROVE  n + 1 \in S
  <2> SUFFICES ASSUME n + 1 \in 0 .. N
               PROVE  IsFiniteSet(Upto(n + 1)) /\ Cardinality(Upto(n + 1)) = f[n + 1]
    OBVIOUS
  <2>1. n \in 0 .. N /\ n + 1 \in 1 .. N /\ n + 1 # 0 /\ n + 1 - 1 = n
    OBVIOUS
  <2>2. f[n + 1] = f[n] + marks[n + 1] /\ f[n] \in Nat
    BY <1>3, <2>1
  <2>3. IsFiniteSet(Upto(n)) /\ Cardinality(Upto(n)) = f[n]
    BY <1>5, <2>1
  <2>4. CASE n + 1 \in H
    <3>1. Upto(n + 1) = Upto(n) \cup {n + 1} /\ n + 1 \notin Upto(n)
      BY <1>0, <2>4
    <3>2. f[n + 1] = f[n] + 1
      BY <1>2, <2>1, <2>2, <2>4
    <3> HIDE DEF Upto
    <3> QED BY <2>3, <3>1, <3>2, FS_AddElement
  <2>5. CASE n + 1 \notin H
    <3>1. Upto(n + 1) = Upto(n)
      BY <1>0, <2>5
    <3>2. f[n + 1] = f[n]
      BY <1>2, <2>1, <2>2, <2>5
    <3> HIDE DEF Upto
    <3> QED BY <2>3, <3>1, <3>2
  <2> QED BY <2>4, <2>5
<1>6. N \in S
  <2> HIDE DEF S
  <2> QED BY <1>4, <1>5, SetInduction
<1>7. N \in 0 .. N
  OBVIOUS
<1>10. Upto(N) = H
  OBVIOUS
<1>8. IsFiniteSet(H) /\ Cardinality(H) = f[N]
  BY <1>6, <1>7, <1>10
<1>9. f[N] \in Nat
  BY <1>3, <1>7
<1> HIDE DEF S, Upto
<1> QED BY <1>1, <1>3, <1>8, <1>9

(***************************************************************************)
(* The invariant.                                                          *)
(***************************************************************************)

Derived ==
  [id |-> Subject, threshold |-> ThresholdMethod(given.threshold),
   service |-> Services, alsoKnownAs |-> AlsoKnownAs(Ids)]

(* What to_did_web makes of the document d.                                *)
Transformed(d) ==
  LET Reciprocal(e) == Identifier(e) = Identifier(WebForm)
      swapped == [n \in DOMAIN d.alsoKnownAs |->
                     IF Reciprocal(d.alsoKnownAs[n]) THEN Subject ELSE d.alsoKnownAs[n]]
      replaced == \E n \in DOMAIN d.alsoKnownAs : Reciprocal(d.alsoKnownAs[n])
  IN [d EXCEPT !.id = WebForm,
               !.alsoKnownAs = IF replaced THEN swapped ELSE <<Subject>> \o swapped]

Read == given.replies \ pending

(* Of the replies read one of each topic is stored, and none was newer.     *)
StoredSound ==
  /\ ends \subseteq Read /\ locs \subseteq Read
  /\ \A x \in ends : x.role # ""
  /\ \A x \in locs : x.role = ""
  /\ \A x \in Read : \E y \in Stored : SameTopic(y, x) /\ x.stamp <= y.stamp
  /\ \A x, y \in Stored : SameTopic(x, y) => x = y

Projected == pc = "transform" \/ Published

DocumentInv ==
  /\ given \in Inputs
  /\ pending \subseteq given.replies
  /\ StoredSound
  /\ pc # "parse" => pending = {}
  /\ Projected => doc = Derived /\ KeysProject /\ Foreign = {}
  /\ Published => hosted = Transformed(doc)

LEMMA DocumentInit == ASSUME DocumentAssumption, Init PROVE DocumentInv
<1>1. Read = {} /\ Stored = {} /\ ~Projected /\ ~Published
  BY DEF Init, Read, Stored, Projected, Published
<1>2. given \in Inputs /\ pending \subseteq given.replies /\ pc = "parse" /\ ends = {} /\ locs = {}
  BY DEF Init
<1> QED BY <1>1, <1>2 DEF DocumentInv, StoredSound

LEMMA TopicsAlike ==
  ASSUME NEW x, NEW y, NEW z
  PROVE  /\ SameTopic(x, x) /\ (SameTopic(x, y) => SameTopic(y, x))
         /\ SameTopic(x, y) /\ SameTopic(y, z) => SameTopic(x, z)
BY DEF SameTopic

LEMMA AcceptKeeps ==
  ASSUME DocumentAssumption, DocumentInv, Accept
  PROVE  DocumentInv'
<1>1. /\ pc = "parse" /\ given' = given /\ pc' = pc
  BY DEF Accept
<1>2. PICK r \in pending :
        LET older == {x \in Stored : SameTopic(x, r)}
            kept == IF \A x \in older : x.stamp < r.stamp
                    THEN (Stored \ older) \cup {r} ELSE Stored
        IN /\ pending' = pending \ {r}
           /\ ends' = {x \in kept : x.role # ""}
           /\ locs' = {x \in kept : x.role = ""}
  BY DEF Accept
<1>3. PICK older, kept :
        /\ older = {x \in Stored : SameTopic(x, r)}
        /\ kept = IF \A x \in older : x.stamp < r.stamp THEN (Stored \ older) \cup {r} ELSE Stored
  OBVIOUS
<1>4. /\ pending' = pending \ {r}
      /\ ends' = {x \in kept : x.role # ""} /\ locs' = {x \in kept : x.role = ""}
  BY <1>2, <1>3
<1>5. /\ pending \subseteq given.replies /\ Stored \subseteq Read /\ StoredSound
      /\ \A x \in given.replies : x.stamp \in Nat
      /\ given \in Inputs
  BY DEF DocumentInv, StoredSound, Stored, DocumentAssumption
<1>6. Stored' = kept
  BY <1>4 DEF Stored
<1>7. Read' = Read \cup {r} /\ r \in given.replies /\ Read \subseteq given.replies
  BY <1>1, <1>4, <1>5 DEF Read
<1>8. kept \subseteq Read \cup {r}
  BY <1>3, <1>5
<1>9. \A x \in Read : \E y \in Stored : SameTopic(y, x) /\ x.stamp <= y.stamp
  BY <1>5 DEF StoredSound
<1>10. \A x \in Read \cup {r} : \E y \in kept : SameTopic(y, x) /\ x.stamp <= y.stamp
  <2>1. CASE \A x \in older : x.stamp < r.stamp
    <3>1. kept = (Stored \ older) \cup {r}
      BY <1>3, <2>1
    <3>2. ASSUME NEW x \in Read
          PROVE  \E y \in kept : SameTopic(y, x) /\ x.stamp <= y.stamp
      <4>1. PICK y \in Stored : SameTopic(y, x) /\ x.stamp <= y.stamp
        BY <1>9
      <4>2. CASE y \in older
        <5>1. SameTopic(r, x) /\ y.stamp < r.stamp
          BY <1>3, <2>1, <4>1, <4>2, TopicsAlike
        <5>2. x.stamp \in Nat /\ y.stamp \in Nat /\ r.stamp \in Nat
          BY <1>5, <1>7
        <5>3. x.stamp <= r.stamp
          BY <4>1, <5>1, <5>2
        <5> QED BY <3>1, <5>1, <5>3
      <4>3. CASE y \notin older
        BY <3>1, <4>1, <4>3
      <4> QED BY <4>2, <4>3
    <3>3. SameTopic(r, r) /\ r.stamp <= r.stamp
      BY <1>5, <1>7, TopicsAlike
    <3> QED BY <3>1, <3>2, <3>3
  <2>2. CASE ~\A x \in older : x.stamp < r.stamp
    <3>1. kept = Stored
      BY <1>3, <2>2
    <3>2. PICK y \in older : ~(y.stamp < r.stamp)
      BY <2>2
    <3>3. y \in Stored /\ SameTopic(y, r) /\ r.stamp <= y.stamp
      BY <1>3, <1>5, <1>7, <3>2
    <3> QED BY <1>9, <3>1, <3>3
  <2> QED BY <2>1, <2>2
<1>11. \A x, y \in kept : SameTopic(x, y) => x = y
  <2>1. \A x, y \in Stored : SameTopic(x, y) => x = y
    BY <1>5 DEF StoredSound
  <2>2. \A x \in Stored \ older : ~SameTopic(x, r) /\ ~SameTopic(r, x)
    BY <1>3, TopicsAlike
  <2> QED BY <1>3, <2>1, <2>2
<1>12. StoredSound'
  <2>1. ends' \subseteq Read' /\ locs' \subseteq Read'
    BY <1>4, <1>7, <1>8
  <2>2. (\A x \in ends' : x.role # "") /\ (\A x \in locs' : x.role = "")
    BY <1>4
  <2>3. \A x \in Read' : \E y \in Stored' : SameTopic(y, x) /\ x.stamp <= y.stamp
    BY <1>6, <1>7, <1>10
  <2>4. \A x, y \in Stored' : SameTopic(x, y) => x = y
    BY <1>6, <1>11
  <2> QED BY <2>1, <2>2, <2>3, <2>4 DEF StoredSound, SameTopic
<1>13. ~Projected' /\ ~Published' /\ pc' = "parse"
  BY <1>1 DEF Projected, Published
<1> QED BY <1>1, <1>4, <1>5, <1>12, <1>13 DEF DocumentInv

(* A step that leaves the replies alone.                                   *)
LEMMA RepliesStand ==
  ASSUME DocumentInv, UNCHANGED <<given, pending, ends, locs>>
  PROVE  /\ given' \in Inputs /\ pending' \subseteq given'.replies /\ StoredSound'
         /\ Derived' = Derived /\ KeysProject' = KeysProject /\ Foreign' = Foreign
<1>1. StoredSound'
  BY DEF DocumentInv, StoredSound, Read, Stored, SameTopic
<1>2. given' = given /\ ends' = ends /\ locs' = locs
  OBVIOUS
<1>3. ASSUME NEW eid
      PROVE  Urls(eid)' = Urls(eid) /\ Oobi(eid)' = Oobi(eid)
  <2>1. Urls(eid)' = Urls(eid)
    BY <1>2 DEF Urls
  <2> QED BY <2>1 DEF Oobi
<1>4. ASSUME NEW role
      PROVE  Authorized(role)' = Authorized(role)
  BY <1>2 DEF Authorized
<1>5. ASSUME NEW eids, NEW role
      PROVE  Located(eids, role)' = Located(eids, role)
  BY <1>3 DEF Located, Service
<1>6. HasDelegatorService' = HasDelegatorService /\ DelegatorService' = DelegatorService
  <2>1. Oobi(given.anchoring.by)' = Oobi(given.anchoring.by)
    BY <1>2, <1>3
  <2> QED BY <1>2, <2>1 DEF HasDelegatorService, DelegatorService
<1>7. Services' = Services
  <2>1. Located(given.wits, "witness")' = Located(given.wits, "witness")
    BY <1>2, <1>5
  <2>2. \A n \in DOMAIN Roles : Located(Authorized(Roles[n]), Roles[n])' = Located(Authorized(Roles[n]), Roles[n])
    BY <1>4, <1>5
  <2> QED BY <1>6, <2>1, <2>2 DEF Services
<1>8. Ids' = Ids /\ KeysProject' = KeysProject
  BY <1>2 DEF Ids, KeysProject
<1>9. Foreign' = Foreign
  BY <1>8 DEF Foreign
<1>10. Derived' = Derived
  BY <1>2, <1>7, <1>8 DEF Derived
<1> QED BY <1>1, <1>2, <1>8, <1>9, <1>10 DEF DocumentInv

(* A refusal projects nothing.                                             *)
LEMMA RaiseKeeps ==
  ASSUME DocumentInv, pc = "derive", NEW code, code # "none", Raise(code)
  PROVE  DocumentInv'
<1>1. UNCHANGED <<given, pending, ends, locs>> /\ pc' = "end" /\ outcome' # "none"
  BY DEF Raise
<1>2. /\ given' \in Inputs /\ pending' \subseteq given'.replies /\ StoredSound'
  BY <1>1, RepliesStand
<1>3. ~Projected' /\ ~Published' /\ pending' = {}
  BY <1>1 DEF Projected, Published, DocumentInv
<1> QED BY <1>2, <1>3 DEF DocumentInv

LEMMA DeriveKeeps ==
  ASSUME DocumentInv, Derive
  PROVE  DocumentInv'
<1>1. /\ UNCHANGED <<given, pending, ends, locs>> /\ pc = "derive" /\ pc' = "transform"
      /\ doc' = Derived /\ KeysProject /\ Foreign = {}
  BY DEF Derive, Derived
<1>2. /\ given' \in Inputs /\ pending' \subseteq given'.replies /\ StoredSound'
      /\ Derived' = Derived /\ KeysProject' = KeysProject /\ Foreign' = Foreign
  BY <1>1, RepliesStand
<1>3. pending' = {} /\ ~Published'
  BY <1>1 DEF DocumentInv, Published
<1> QED BY <1>1, <1>2, <1>3 DEF DocumentInv

LEMMA TransformKeeps ==
  ASSUME DocumentInv, Transform
  PROVE  DocumentInv'
<1>1. /\ UNCHANGED <<given, pending, ends, locs>> /\ pc = "transform" /\ pc' = "end"
      /\ doc' = doc /\ hosted' = Transformed(doc)
  BY DEF Transform, Transformed
<1>2. /\ given' \in Inputs /\ pending' \subseteq given'.replies /\ StoredSound'
      /\ Derived' = Derived /\ KeysProject' = KeysProject /\ Foreign' = Foreign
  BY <1>1, RepliesStand
<1>3. pending' = {} /\ doc' = Derived' /\ KeysProject' /\ Foreign' = {} /\ hosted' = Transformed(doc')
  BY <1>1, <1>2 DEF DocumentInv, Projected
<1> QED BY <1>2, <1>3 DEF DocumentInv

LEMMA IngestedKeeps ==
  ASSUME DocumentInv, Ingested
  PROVE  DocumentInv'
<1>1. UNCHANGED <<given, pending, ends, locs>> /\ pending = {} /\ pc' = "derive"
  BY DEF Ingested
<1>2. /\ given' \in Inputs /\ pending' \subseteq given'.replies /\ StoredSound'
  BY <1>1, RepliesStand
<1>3. ~Projected' /\ ~Published' /\ pending' = {}
  BY <1>1 DEF Projected, Published
<1> QED BY <1>2, <1>3 DEF DocumentInv

LEMMA DocumentStutter ==
  ASSUME DocumentInv, UNCHANGED vars
  PROVE  DocumentInv'
<1>1. /\ UNCHANGED <<given, pending, ends, locs>>
      /\ pc' = pc /\ outcome' = outcome /\ doc' = doc /\ hosted' = hosted
  BY DEF vars
<1>2. /\ given' \in Inputs /\ pending' \subseteq given'.replies /\ StoredSound'
      /\ Derived' = Derived /\ KeysProject' = KeysProject /\ Foreign' = Foreign
  BY <1>1, RepliesStand
<1>3. Projected' = Projected /\ Published' = Published
  BY <1>1 DEF Projected, Published
<1>4. Transformed(doc)' = Transformed(doc)
  BY <1>1 DEF Transformed, Identifier, WebForm, Subject, Entry
<1>5. (Projected' => doc' = Derived' /\ KeysProject' /\ Foreign' = {}) /\ (pc' # "parse" => pending' = {})
  BY <1>1, <1>2, <1>3 DEF DocumentInv
<1>6. Published' => hosted' = Transformed(doc)'
  BY <1>1, <1>3, <1>4 DEF DocumentInv
<1> QED BY <1>2, <1>5, <1>6 DEF DocumentInv

LEMMA DocumentStep ==
  ASSUME DocumentAssumption, DocumentInv, [Next]_vars
  PROVE  DocumentInv'
<1>1. CASE Accept
  BY <1>1, AcceptKeeps
<1>2. CASE Ingested
  BY <1>2, IngestedKeeps
<1>3. CASE KeyFails
  BY <1>3, RaiseKeeps DEF KeyFails
<1>4. CASE ServiceFails
  BY <1>4, RaiseKeeps DEF ServiceFails
<1>5. CASE AliasFails
  BY <1>5, RaiseKeeps DEF AliasFails
<1>6. CASE Derive
  BY <1>6, DeriveKeeps
<1>7. CASE Transform
  BY <1>7, TransformKeeps
<1>8. CASE UNCHANGED vars
  BY <1>8, DocumentStutter
<1> QED BY <1>1, <1>2, <1>3, <1>4, <1>5, <1>6, <1>7, <1>8 DEF Next

LEMMA DocumentSound == Spec => []DocumentInv
<1>1. Init => DocumentInv
  BY DocumentInit, DocumentAssumption
<1>2. DocumentInv /\ [Next]_vars => DocumentInv'
  BY DocumentStep, DocumentAssumption
<1> QED BY <1>1, <1>2, PTL DEF Spec

(***************************************************************************)
(* Aliases.                                                                *)
(***************************************************************************)

LEMMA IdsAre ==
  ASSUME DocumentAssumption, given \in Inputs
  PROVE  Ids \in Seq(Listed(given.designated))
<1>1. given.designated \in Seq(Seq(Listed(given.designated)))
  BY DEF DocumentAssumption
<1>2. FlattenSeq(given.designated) \in Seq(Listed(given.designated))
  BY <1>1, RangeOfFlatten
<1>3. PICK all : all = FlattenSeq(given.designated)
  OBVIOUS
<1> QED BY <1>2, <1>3, RangeOfOnce DEF Ids, Once

LEMMA AliasesAre ==
  ASSUME NEW X, NEW ids \in Seq(X), KeriForm \in X
  PROVE  /\ AlsoKnownAs(ids) \in Seq(X)
         /\ Range(AlsoKnownAs(ids)) = {e \in Range(ids) : Alias(e)} \cup {KeriForm}
<1> DEFINE parts == [n \in DOMAIN ids |-> IF Alias(ids[n]) THEN <<ids[n]>> ELSE <<>>]
<1>1. DOMAIN ids = 1 .. Len(ids) /\ Len(ids) \in Nat /\ \A n \in DOMAIN ids : ids[n] \in X
  OBVIOUS
<1>2. parts \in Seq(Seq(X)) /\ DOMAIN parts = DOMAIN ids
  BY <1>1, EmptySeq
<1>3. \A n \in DOMAIN ids : Range(parts[n]) = IF Alias(ids[n]) THEN {ids[n]} ELSE {}
  <2>1. Range(<<>>) = {} /\ \A x : Range(<<x>>) = {x}
    BY DEF Range
  <2> QED BY <2>1
<1> HIDE DEF parts
<1>4. /\ FlattenSeq(parts) \in Seq(X)
      /\ Range(FlattenSeq(parts)) = UNION {Range(parts[n]) : n \in DOMAIN parts}
  BY <1>2, RangeOfFlatten
<1>5. Range(FlattenSeq(parts)) = {e \in Range(ids) : Alias(e)}
  <2>1. \A e : e \in Range(ids) <=> \E n \in DOMAIN ids : e = ids[n]
    BY DEF Range
  <2>2. \A e : e \in Range(FlattenSeq(parts)) <=> \E n \in DOMAIN ids : e \in Range(parts[n])
    BY <1>2, <1>4
  <2>3. ASSUME NEW e \in Range(FlattenSeq(parts))
        PROVE  e \in Range(ids) /\ Alias(e)
    <3>1. PICK n \in DOMAIN ids : e \in Range(parts[n])
      BY <2>2
    <3>2. Alias(ids[n]) /\ e = ids[n]
      BY <1>3, <3>1
    <3> QED BY <2>1, <3>2
  <2>4. ASSUME NEW e \in Range(ids), Alias(e)
        PROVE  e \in Range(FlattenSeq(parts))
    <3>1. PICK n \in DOMAIN ids : e = ids[n]
      BY <2>1
    <3>2. Alias(ids[n])
      BY <2>4, <3>1
    <3>3. e \in Range(parts[n])
      BY <1>3, <3>1, <3>2
    <3> QED BY <2>2, <3>3
  <2>5. PICK R : R = Range(FlattenSeq(parts))
    OBVIOUS
  <2> QED BY <2>3, <2>4, <2>5
<1>7. PICK kept, keri : kept = FlattenSeq(parts) /\ keri = KeriForm
  OBVIOUS
<1>8. AlsoKnownAs(ids) = Append(kept, keri)
  BY <1>7 DEF AlsoKnownAs, parts
<1>9. kept \in Seq(X) /\ keri \in X
  BY <1>4, <1>7
<1>10. Append(kept, keri) \in Seq(X) /\ Range(Append(kept, keri)) = Range(kept) \cup {keri}
  BY <1>9, RangeOfAppend
<1> QED BY <1>5, <1>7, <1>8, <1>10

(* The names a DID goes by are told apart by their method.                 *)
LEMMA MethodsDiffer ==
  /\ Identifier(Subject) # Identifier(WebForm)
  /\ Identifier(KeriForm) # Identifier(Subject)
  /\ Subject.aid = Aid /\ WebForm.aid = Aid /\ KeriForm.aid = Aid
  /\ \A e : Identifier(e) = Identifier(WebForm) => e.aid = Aid
<1>1. /\ Subject.method = "webs" /\ WebForm.method = "web" /\ KeriForm.method = "keri"
      /\ Subject.aid = Aid /\ WebForm.aid = Aid /\ KeriForm.aid = Aid
  BY DEF Subject, WebForm, KeriForm, Entry
<1> QED BY <1>1 DEF Identifier

(* The parts of the did:web form.                                          *)
LEMMA TransformedIs ==
  ASSUME NEW X, Subject \in X, NEW d, d = Derived, d.alsoKnownAs \in Seq(X)
  PROVE  LET web == Transformed(d) IN
           /\ web.id = WebForm /\ web.service = d.service /\ web.threshold = d.threshold
           /\ \A e \in Range(web.alsoKnownAs) :
                \/ e = Subject
                \/ e \in Range(d.alsoKnownAs) /\ Identifier(e) # Identifier(WebForm)
           /\ Subject \in Range(web.alsoKnownAs)
<1> DEFINE aka == d.alsoKnownAs
           Reciprocal(e) == Identifier(e) = Identifier(WebForm)
           swapped == [n \in DOMAIN aka |-> IF Reciprocal(aka[n]) THEN Subject ELSE aka[n]]
           replaced == \E n \in DOMAIN aka : Reciprocal(aka[n])
           names == IF replaced THEN swapped ELSE <<Subject>> \o swapped
<1>1. Transformed(d) = [d EXCEPT !.id = WebForm, !.alsoKnownAs = names]
  BY DEF Transformed
<1>2. d = [id |-> d.id, threshold |-> d.threshold, service |-> d.service, alsoKnownAs |-> aka]
  BY DEF Derived
<1>3. /\ Transformed(d).id = WebForm /\ Transformed(d).service = d.service
      /\ Transformed(d).threshold = d.threshold /\ Transformed(d).alsoKnownAs = names
  <2> HIDE DEF names
  <2> QED BY <1>1, <1>2
<1>5. swapped \in Seq(X) /\ DOMAIN swapped = DOMAIN aka
  OBVIOUS
<1>6. Range(<<Subject>>) = {Subject} /\ <<Subject>> \in Seq(X)
  BY DEF Range
<1>7. PICK first : first = <<Subject>>
  OBVIOUS
<1>8. Range(first \o swapped) = {Subject} \cup Range(swapped)
  <2>1. PICK rest : rest = swapped
    OBVIOUS
  <2>2. rest \in Seq(X) /\ first \in Seq(X) /\ Range(first) = {Subject}
    BY <1>5, <1>6, <1>7, <2>1
  <2>3. Range(first \o rest) = Range(first) \cup Range(rest)
    BY <2>2, RangeOfConcat
  <2> QED BY <2>1, <2>2, <2>3
<1>9. \A e \in Range(swapped) : e = Subject \/ (e \in Range(aka) /\ ~Reciprocal(e))
  BY <1>5 DEF Range
<1>10. replaced => Subject \in Range(swapped)
  BY <1>5 DEF Range
<1>11. /\ \A e \in Range(names) : e = Subject \/ (e \in Range(aka) /\ ~Reciprocal(e))
       /\ Subject \in Range(names)
  <2> HIDE DEF swapped, replaced, Reciprocal, aka
  <2> QED BY <1>7, <1>8, <1>9, <1>10
<1> QED BY <1>3, <1>11

LEMMA AliasesHold ==
  ASSUME DocumentAssumption, DocumentInv
  PROVE  AliasesAreOfTheSubject
<1> SUFFICES ASSUME Published
             PROVE  /\ \A e \in Range(doc.alsoKnownAs) : Identifier(e) # Identifier(doc.id)
                    /\ \A e \in Range(hosted.alsoKnownAs) : Identifier(e) # Identifier(hosted.id)
                    /\ Subject \in Range(hosted.alsoKnownAs)
                    /\ \A e \in Range(hosted.alsoKnownAs) : e.aid = Aid
  BY DEF AliasesAreOfTheSubject
<1>1. given \in Inputs /\ doc = Derived /\ hosted = Transformed(doc) /\ Foreign = {}
  BY DEF DocumentInv, Projected
<1>2. doc.id = Subject /\ doc.alsoKnownAs = AlsoKnownAs(Ids)
  BY <1>1 DEF Derived
<1> DEFINE X == Listed(given.designated) \cup {Subject, KeriForm}
<1>3. Ids \in Seq(X)
  <2>1. Listed(given.designated) \subseteq X
    OBVIOUS
  <2> HIDE DEF X
  <2> QED BY <1>1, <2>1, IdsAre, SeqMonotonic
<1>8. Subject \in X /\ KeriForm \in X
  OBVIOUS
<1> HIDE DEF X
<1>4. /\ doc.alsoKnownAs \in Seq(X)
      /\ Range(doc.alsoKnownAs) = {e \in Range(Ids) : Alias(e)} \cup {KeriForm}
  BY <1>2, <1>3, <1>8, AliasesAre
<1>5. \A e \in Range(doc.alsoKnownAs) : Identifier(e) # Identifier(Subject)
  BY <1>4, MethodsDiffer DEF Alias
<1>6. \A e \in Range(doc.alsoKnownAs) : e.aid = Aid
  <2>1. ASSUME NEW e \in Range(Ids), Alias(e)
        PROVE  e.aid = Aid
    <3>1. PICK n \in DOMAIN Ids : e = Ids[n]
      BY DEF Range
    <3> QED BY <1>1, <2>1, <3>1 DEF Foreign, Alias
  <2> QED BY <1>4, <2>1, MethodsDiffer
<1>7. /\ hosted.id = WebForm /\ Subject \in Range(hosted.alsoKnownAs)
      /\ \A e \in Range(hosted.alsoKnownAs) :
            \/ e = Subject
            \/ e \in Range(doc.alsoKnownAs) /\ Identifier(e) # Identifier(WebForm)
  BY <1>1, <1>4, <1>8, TransformedIs
<1> QED BY <1>2, <1>5, <1>6, <1>7, MethodsDiffer

(* Neither form lists itself, and every alias is of the verified AID.      *)
THEOREM AliasesCorrect == Spec => []AliasesAreOfTheSubject
<1>1. DocumentInv => AliasesAreOfTheSubject
  BY AliasesHold, DocumentAssumption
<1> QED BY <1>1, DocumentSound, PTL

(***************************************************************************)
(* The threshold.                                                          *)
(***************************************************************************)

(* The amounts of a sum of fractions over a common denominator m, those at *)
(* places only.                                                            *)
Amounts(fractions, m, places) ==
  [n \in DOMAIN fractions |->
     IF n \in places THEN (fractions[n][1] * m) \div fractions[n][2] ELSE 0]

(* Over whatever two common denominators, the same places reach one.       *)
LEMMA DenominatorsAgree ==
  ASSUME NEW ws \in Seq(Weight), NEW places
  PROVE  Total(Amounts(ws, Product(ws), places)) >= Product(ws)
           <=> Total(Amounts(ws, Lcd(ws), places)) >= Lcd(ws)
<1>1. PICK P, D : P = Product(ws) /\ D = Lcd(ws)
  OBVIOUS
<1>2. /\ P \in Positive /\ D \in Positive
      /\ \A i \in 1 .. Len(ws) : Divides(ws[i][2], P) /\ Divides(ws[i][2], D)
  BY <1>1, ProductIsMultiple, LcdIsMultiple
<1>3. P \in Nat /\ D \in Nat
  BY <1>2 DEF Positive
<1>4. /\ DOMAIN ws = 1 .. Len(ws) /\ Len(ws) \in Nat
      /\ \A i \in 1 .. Len(ws) : ws[i][1] \in Nat /\ ws[i][2] \in Positive
  BY DEF Weight, Positive
<1>5. PICK a, b : a = Amounts(ws, P, places) /\ b = Amounts(ws, D, places)
  OBVIOUS
<1>6. ASSUME NEW i \in 1 .. Len(ws)
      PROVE  a[i] \in Nat /\ b[i] \in Nat /\ D * a[i] = P * b[i]
  <2>1. /\ (ws[i][1] * P) \div ws[i][2] \in Nat /\ (ws[i][1] * D) \div ws[i][2] \in Nat
        /\ D * ((ws[i][1] * P) \div ws[i][2]) = P * ((ws[i][1] * D) \div ws[i][2])
    <3>1. PICK w, d : w = ws[i][1] /\ d = ws[i][2]
      OBVIOUS
    <3>2. w \in Nat /\ d \in Positive /\ Divides(d, P) /\ Divides(d, D)
      BY <1>2, <1>4, <3>1
    <3>3. /\ (w * P) \div d \in Nat /\ (w * D) \div d \in Nat
          /\ D * ((w * P) \div d) = P * ((w * D) \div d)
      <4>1. OverBothAlike(w, d, P, D)
        BY <1>3, <3>2, OverBoth
      <4> QED BY <4>1 DEF OverBothAlike
    <3> QED BY <3>1, <3>3
  <2>2. /\ a[i] = IF i \in places THEN (ws[i][1] * P) \div ws[i][2] ELSE 0
        /\ b[i] = IF i \in places THEN (ws[i][1] * D) \div ws[i][2] ELSE 0
    BY <1>4, <1>5 DEF Amounts
  <2>3. CASE i \in places
    BY <2>1, <2>2, <2>3
  <2>4. CASE i \notin places
    <3>1. a[i] = 0 /\ b[i] = 0
      BY <2>2, <2>4
    <3> QED BY <1>3, <3>1
  <2> QED BY <2>3, <2>4
<1>7. a \in Seq(Nat) /\ b \in Seq(Nat) /\ Len(a) = Len(ws) /\ Len(b) = Len(ws)
  <2>1. /\ a = [n \in 1 .. Len(ws) |-> a[n]] /\ b = [n \in 1 .. Len(ws) |-> b[n]]
    BY <1>4, <1>5 DEF Amounts
  <2> QED BY <1>4, <1>6, <2>1
<1>8. D * Total(a) = P * Total(b)
  BY <1>3, <1>6, <1>7, TotalsInProportion
<1>9. Total(a) \in Nat /\ Total(b) \in Nat
  BY <1>7, TotalIsNumber
<1>10. Total(a) >= P <=> Total(b) >= D
  BY <1>2, <1>8, <1>9, SameVerdict
<1> QED BY <1>1, <1>5, <1>10

(* A sum counts only the places of the sequence.                           *)
LEMMA CountIsKept ==
  ASSUME NEW t, t \in [keys : Nat, num : Nat, clauses : Seq(Seq(Group))],
         t.clauses = <<>>, t.num > 0, NEW document, document.threshold = ThresholdMethod(t),
         NEW signed \in SUBSET Places(t)
  PROVE  Authenticates(document, signed) <=> Satisfied(t, signed)
<1>0. t.keys \in Nat /\ t.num \in Nat
  OBVIOUS
<1> DEFINE H == {n \in 1 .. t.keys : <<1, n, 1>> \in signed}
<1>1. signed \subseteq {<<1, n, 1>> : n \in 1 .. t.keys}
  BY DEF Places
<1>2. \A p : p \in signed <=> \E n \in H : p = <<1, n, 1>>
  BY <1>1
<1>3. IsFiniteSet(H) /\ Cardinality(H) \in Nat
      /\ Total([n \in 1 .. t.keys |-> IF n \in H THEN 1 ELSE 0]) = Cardinality(H)
  <2>1. H \in SUBSET (1 .. t.keys)
    OBVIOUS
  <2> HIDE DEF H
  <2> QED BY <1>0, <2>1, TotalOfMarks
<1>4. IsFiniteSet(signed) /\ Cardinality(signed) = Cardinality(H)
  <2> DEFINE f == [n \in H |-> <<1, n, 1>>]
  <2>1. \A n \in H : f[n] \in signed
    BY <1>2
  <2>2. \A n, k \in H : f[n] = f[k] => n = k
    OBVIOUS
  <2>3. \A p \in signed : \E n \in H : f[n] = p
    BY <1>2
  <2>4. f \in [H -> signed]
    BY <2>1
  <2> HIDE DEF f, H
  <2>5. f \in Surjection(H, signed) /\ f \in Injection(H, signed)
    BY <2>2, <2>3, <2>4 DEF Surjection, Injection, IsInjective
  <2> QED BY <1>3, <2>5, FS_Surjection
<1>5. Satisfied(t, signed) <=> Cardinality(H) >= t.num
  BY <1>4 DEF Satisfied
<1>6. CASE t.num <= 1
  <2>1. document.threshold = {}
    BY <1>6 DEF ThresholdMethod
  <2>2. Authenticates(document, signed) <=> signed # {}
    BY <2>1 DEF Authenticates
  <2>3. signed # {} <=> Cardinality(signed) # 0
    BY <1>4, FS_EmptySet
  <2>4. t.num = 1
    BY <1>0, <1>6
  <2> HIDE DEF H
  <2>5. Cardinality(H) # 0 <=> Cardinality(H) >= 1
    BY <1>3
  <2> QED BY <1>4, <1>5, <2>2, <2>3, <2>4, <2>5
<1>7. CASE ~(t.num <= 1)
  <2>4. PICK proof : proof = [threshold |-> t.num, weight |-> [n \in 1 .. t.keys |-> 1]]
    OBVIOUS
  <2>1. document.threshold = {proof}
    BY <1>7, <2>4 DEF ThresholdMethod
  <2>2. (CHOOSE p \in document.threshold : TRUE) = proof /\ document.threshold # {}
    BY <2>1
  <2>3. DOMAIN proof.weight = 1 .. t.keys /\ proof.threshold = t.num
        /\ \A n \in 1 .. t.keys : proof.weight[n] = 1
    BY <2>4
  <2>5. [n \in DOMAIN proof.weight |-> IF <<1, n, 1>> \in signed THEN proof.weight[n] ELSE 0]
          = [n \in 1 .. t.keys |-> IF n \in H THEN 1 ELSE 0]
    BY <2>3
  <2>6. Authenticates(document, signed) <=>
           Total([n \in DOMAIN proof.weight |->
                     IF <<1, n, 1>> \in signed THEN proof.weight[n] ELSE 0]) >= proof.threshold
    BY <2>2 DEF Authenticates
  <2> HIDE DEF H
  <2>7. Authenticates(document, signed) <=> Cardinality(H) >= t.num
    BY <1>3, <2>3, <2>5, <2>6
  <2> QED BY <1>5, <2>7
<1> QED BY <1>6, <1>7

(* The conditions of a flat clause: its keys are the groups' only ones.    *)
LEMMA ClauseIsKept ==
  ASSUME NEW t, t \in [keys : Nat, num : Nat, clauses : Seq(Seq(Group))],
         t.clauses # <<>>, Expressible(t),
         \A clause \in Range(t.clauses) : \A group \in Range(clause) :
             Len(group.of) = 1 => group.of[1] = <<1, 1>>,
         NEW document, document.threshold = ThresholdMethod(t),
         NEW signed \in SUBSET Places(t)
  PROVE  Authenticates(document, signed) <=> Satisfied(t, signed)
<1>1. PICK clause : clause = t.clauses[1]
  OBVIOUS
<1>2. t.clauses \in Seq(Seq(Group)) /\ Len(t.clauses) = 1 /\ DOMAIN t.clauses = {1}
  <2>1. t.clauses \in Seq(Seq(Group)) /\ Len(t.clauses) = 1
    BY DEF Expressible
  <2> QED BY <2>1, LenProperties
<1>3. clause \in Seq(Group) /\ clause \in Range(t.clauses)
      /\ \A g \in DOMAIN clause : clause[g] \in Group /\ clause[g] \in Range(clause)
  BY <1>1, <1>2 DEF Range
<1>4. \A g \in DOMAIN clause : Len(clause[g].of) = 1 /\ clause[g].of[1] = <<1, 1>>
                               /\ clause[g].of \in Seq(Weight) /\ clause[g].w \in Weight
  BY <1>1, <1>2, <1>3 DEF Expressible, Plain, Group
<1>5. PICK ws : ws = [g \in DOMAIN clause |-> clause[g].w]
  OBVIOUS
<1>6. ws \in Seq(Weight) /\ DOMAIN ws = DOMAIN clause
  <2>1. DOMAIN clause = 1 .. Len(clause) /\ Len(clause) \in Nat
    BY <1>3, LenProperties
  <2>2. ws = [g \in 1 .. Len(clause) |-> clause[g].w]
    BY <1>5, <2>1
  <2>3. \A g \in 1 .. Len(clause) : clause[g].w \in Weight
    BY <1>4, <2>1
  <2> QED BY <2>1, <2>2, <2>3
<1> DEFINE Holds(g) ==
             Reaches(clause[g].of, {k \in DOMAIN clause[g].of : <<1, g, k>> \in signed})
<1>7. ASSUME NEW g \in DOMAIN clause
      PROVE  Holds(g) <=> <<1, g, 1>> \in signed
  <2>1. PICK of, places : of = clause[g].of /\ places = {k \in DOMAIN clause[g].of : <<1, g, k>> \in signed}
    OBVIOUS
  <2>2. of \in Seq(Weight) /\ Len(of) = 1 /\ of[1] = <<1, 1>> /\ DOMAIN of = 1 .. 1
    BY <1>4, <2>1
  <2>3. 1 \in places <=> <<1, g, 1>> \in signed
    BY <2>1, <2>2
  <2>4. Product(of) = 1
    <3>1. PICK f \in [0 .. Len(of) -> Nat] :
            /\ \A n \in 0 .. Len(of) : f[n] = IF n = 0 THEN 1 ELSE f[n - 1] * of[n][2]
            /\ Product(of) = f[Len(of)]
      BY <2>2, ProductIs
    <3>2. f[0] = 1 /\ f[1] = f[0] * of[1][2]
      BY <2>2, <3>1
    <3>3. of[1][2] = 1
      BY <2>2
    <3> QED BY <2>2, <3>1, <3>2, <3>3
  <2>5. PICK a : a = Amounts(of, 1, places)
    OBVIOUS
  <2>6. a = [n \in 1 .. 1 |-> IF 1 \in places THEN 1 ELSE 0]
    <3>1. \A n \in 1 .. 1 : n = 1
      OBVIOUS
    <3>2. (1 * 1) \div 1 = 1 /\ of[1][1] = 1 /\ of[1][2] = 1
      BY <2>2
    <3>3. a = [n \in 1 .. 1 |-> IF n \in places THEN (of[n][1] * 1) \div of[n][2] ELSE 0]
      BY <2>2, <2>5 DEF Amounts
    <3>4. \A n \in 1 .. 1 : (IF n \in places THEN (of[n][1] * 1) \div of[n][2] ELSE 0)
                              = IF 1 \in places THEN 1 ELSE 0
      BY <3>1, <3>2
    <3> QED BY <3>3, <3>4
  <2>7. a \in Seq(Nat) /\ Len(a) = 1 /\ a[1] = IF 1 \in places THEN 1 ELSE 0
    BY <2>6
  <2>8. Total(a) = IF 1 \in places THEN 1 ELSE 0
    <3>1. PICK f \in [0 .. Len(a) -> Nat] :
            /\ \A n \in 0 .. Len(a) : f[n] = IF n = 0 THEN 0 ELSE f[n - 1] + a[n]
            /\ Total(a) = f[Len(a)]
      BY <2>7, TotalIs
    <3>2. f[0] = 0 /\ f[1] = f[0] + a[1]
      BY <2>7, <3>1
    <3> QED BY <2>7, <3>1, <3>2
  <2>9. Reaches(of, places) <=> Total(a) >= 1
    BY <2>4, <2>5 DEF Reaches, Amounts
  <2> QED BY <2>1, <2>3, <2>8, <2>9
<1> DEFINE held == {g \in DOMAIN clause : Holds(g)}
           marked == {n \in DOMAIN ws : <<1, n, 1>> \in signed}
<1>8. Satisfied(t, signed) <=> Reaches(ws, held)
  BY <1>1, <1>2, <1>5 DEF Satisfied
<1>9. held = marked
  BY <1>6, <1>7
<1> HIDE DEF Holds, held
<1>10. Reaches(ws, marked) <=> Total(Amounts(ws, Product(ws), marked)) >= Product(ws)
  BY DEF Reaches, Amounts
<1>11. Total(Amounts(ws, Product(ws), marked)) >= Product(ws)
         <=> Total(Amounts(ws, Lcd(ws), marked)) >= Lcd(ws)
  BY <1>6, DenominatorsAgree
<1>12. PICK proof : proof = [threshold |-> Lcd(ws),
           weight |-> [n \in DOMAIN ws |-> (ws[n][1] * Lcd(ws)) \div ws[n][2]]]
  OBVIOUS
<1>13. document.threshold = {proof}
  BY <1>1, <1>5, <1>12 DEF ThresholdMethod
<1>14. /\ proof.threshold = Lcd(ws) /\ DOMAIN proof.weight = DOMAIN ws
       /\ \A n \in DOMAIN ws : proof.weight[n] = (ws[n][1] * Lcd(ws)) \div ws[n][2]
  BY <1>12
<1>15. [n \in DOMAIN proof.weight |-> IF <<1, n, 1>> \in signed THEN proof.weight[n] ELSE 0]
         = Amounts(ws, Lcd(ws), marked)
  BY <1>14 DEF Amounts
<1>16. Authenticates(document, signed) <=>
         Total([n \in DOMAIN proof.weight |-> IF <<1, n, 1>> \in signed THEN proof.weight[n] ELSE 0])
           >= proof.threshold
  <2>1. (CHOOSE p \in document.threshold : TRUE) = proof /\ document.threshold # {}
    BY <1>13
  <2> QED BY <2>1 DEF Authenticates
<1> HIDE DEF marked
<1> QED BY <1>8, <1>9, <1>10, <1>11, <1>14, <1>15, <1>16

LEMMA ThresholdHolds ==
  ASSUME DocumentAssumption, DocumentInv
  PROVE  ThresholdIsKept
<1> SUFFICES ASSUME Published, NEW signed \in SUBSET Places(given.threshold)
             PROVE  Authenticates(hosted, signed) <=> Satisfied(given.threshold, signed)
  BY DEF ThresholdIsKept
<1>1. given \in Inputs /\ doc = Derived /\ hosted = Transformed(doc) /\ KeysProject
  BY DEF DocumentInv, Projected
<1>2. PICK t : t = given.threshold
  OBVIOUS
<1>3. hosted.threshold = ThresholdMethod(t)
  <2>1. hosted.threshold = doc.threshold
    BY <1>1 DEF Transformed, Derived
  <2> QED BY <1>1, <1>2, <2>1 DEF Derived
<1>4. /\ t \in [keys : Nat, num : Nat, clauses : Seq(Seq(Group))]
      /\ t.clauses = <<>> => t.num > 0
      /\ \A clause \in Range(t.clauses) : \A group \in Range(clause) :
            Len(group.of) = 1 => group.of[1] = <<1, 1>>
      /\ Expressible(t) /\ signed \in SUBSET Places(t)
  BY <1>1, <1>2 DEF DocumentAssumption, KeysProject
<1>5. CASE t.clauses = <<>>
  BY <1>2, <1>3, <1>4, <1>5, CountIsKept
<1>6. CASE t.clauses # <<>>
  BY <1>2, <1>3, <1>4, <1>6, ClauseIsKept
<1> QED BY <1>5, <1>6

(* The document asks of a signature what the controller committed to.      *)
THEOREM ThresholdCorrect == Spec => []ThresholdIsKept
<1>1. DocumentInv => ThresholdIsKept
  BY ThresholdHolds, DocumentAssumption
<1> QED BY <1>1, DocumentSound, PTL

(***************************************************************************)
(* Services.                                                               *)
(***************************************************************************)

LEMMA ServiceIs ==
  ASSUME NEW a, NEW b, NEW r, NEW s
  PROVE  /\ Service(a, r).id = a /\ Service(a, r).type = r /\ Service(a, r).at = Urls(a)
         /\ Service(a, r) = [id |-> a, type |-> r, at |-> Urls(a)]
         /\ Service(a, r) = Service(b, s) => a = b /\ r = s
BY DEF Service

(* One service for each endpoint that has a location, in their order.      *)
LEMMA LocatedIs ==
  ASSUME NEW E, NEW eids \in Seq(E), IsInjective(eids), NEW role, NEW X,
         \A eid \in Range(eids) : Service(eid, role) \in X
  PROVE  /\ Located(eids, role) \in Seq(X) /\ IsInjective(Located(eids, role))
         /\ Range(Located(eids, role))
              = {Service(eid, role) : eid \in {e \in Range(eids) : Urls(e) # {}}}
<1> DEFINE parts == [n \in DOMAIN eids |->
                       IF Urls(eids[n]) = {} THEN <<>> ELSE <<Service(eids[n], role)>>]
<1>1. DOMAIN eids = 1 .. Len(eids) /\ Len(eids) \in Nat
  BY LenProperties
<1>2. \A n \in DOMAIN eids : Service(eids[n], role) \in X
  BY DEF Range
<1>3. \A x \in X : <<x>> \in Seq(X) /\ Range(<<x>>) = {x} /\ IsInjective(<<x>>)
  BY DEF Range, IsInjective
<1>4. <<>> \in Seq(X) /\ Range(<<>>) = {} /\ IsInjective(<<>>)
  BY EmptySeq DEF Range, IsInjective
<1>5. DOMAIN parts = DOMAIN eids
  OBVIOUS
<1>6. \A n \in DOMAIN eids :
        /\ parts[n] \in Seq(X) /\ IsInjective(parts[n])
        /\ Range(parts[n]) = IF Urls(eids[n]) = {} THEN {} ELSE {Service(eids[n], role)}
  BY <1>2, <1>3, <1>4
<1>7. Located(eids, role) = FlattenSeq(parts)
  BY DEF Located
<1> HIDE DEF parts
<1>8. parts \in Seq(Seq(X))
  <2>1. parts = [n \in 1 .. Len(eids) |-> parts[n]]
    BY <1>1 DEF parts
  <2> QED BY <1>1, <1>6, <2>1
<1>9. /\ FlattenSeq(parts) \in Seq(X)
      /\ Range(FlattenSeq(parts)) = UNION {Range(parts[n]) : n \in DOMAIN parts}
  BY <1>8, RangeOfFlatten
<1>10. \A j, k \in DOMAIN parts : j # k => Range(parts[j]) \cap Range(parts[k]) = {}
  <2>1. \A j, k \in DOMAIN eids : j # k => Service(eids[j], role) # Service(eids[k], role)
    BY ServiceIs DEF IsInjective
  <2>2. \A j \in DOMAIN eids : Range(parts[j]) \subseteq {Service(eids[j], role)}
    BY <1>6
  <2> QED BY <1>5, <2>1, <2>2
<1>11. IsInjective(FlattenSeq(parts))
  BY <1>5, <1>6, <1>8, <1>10, InjectiveFlatten
<1>12. PICK R : R = {Service(eid, role) : eid \in {e \in Range(eids) : Urls(e) # {}}}
  OBVIOUS
<1>13. \A x : x \in Range(FlattenSeq(parts)) <=> \E n \in DOMAIN eids : x \in Range(parts[n])
  BY <1>5, <1>9
<1>14. ASSUME NEW x \in Range(FlattenSeq(parts))
       PROVE  x \in R
  <2>1. PICK n \in DOMAIN eids : x \in Range(parts[n])
    BY <1>13
  <2>2. Urls(eids[n]) # {} /\ x = Service(eids[n], role) /\ eids[n] \in Range(eids)
    BY <1>6, <2>1 DEF Range
  <2> QED BY <1>12, <2>2
<1>15. ASSUME NEW x \in R
       PROVE  x \in Range(FlattenSeq(parts))
  <2>1. PICK e \in Range(eids) : Urls(e) # {} /\ x = Service(e, role)
    BY <1>12
  <2>2. PICK n \in DOMAIN eids : eids[n] = e
    BY DEF Range
  <2>3. x \in Range(parts[n])
    BY <1>6, <2>1, <2>2
  <2> QED BY <1>13, <2>3
<1>16. Range(FlattenSeq(parts)) = R
  BY <1>14, <1>15
<1> QED BY <1>7, <1>9, <1>11, <1>12, <1>16

(* The endpoints of a role, each once.                                     *)
LEMMA AuthorizedIs ==
  ASSUME DocumentAssumption, DocumentInv, NEW role
  PROVE  /\ Authorized(role) \in Seq(Int) /\ IsInjective(Authorized(role))
         /\ Range(Authorized(role)) = {end.eid : end \in {x \in ends : x.role = role /\ x.on}}
<1> DEFINE chosen == {x \in ends : x.role = role /\ x.on}
           eids == {end.eid : end \in chosen}
           R == {p \in Int \X Int : p[1] < p[2]}
<1>1. IsFiniteSet(given.replies) /\ \A r \in given.replies : r.eid \in Int
  BY DEF DocumentInv, DocumentAssumption
<1>2. chosen \subseteq given.replies
  BY DEF DocumentInv, StoredSound, Read
<1>3. IsFiniteSet(eids) /\ eids \subseteq Int
  <2>1. IsFiniteSet(chosen)
    BY <1>1, <1>2, FS_Subset
  <2> DEFINE f == [x \in chosen |-> x.eid]
  <2>2. f \in Surjection(chosen, eids)
    BY DEF Surjection
  <2>3. IsFiniteSet(eids)
    <3> HIDE DEF f, eids, chosen
    <3> QED BY <2>1, <2>2, FS_Surjection
  <2> QED BY <1>1, <1>2, <2>3
<1> HIDE DEF chosen
<1>4. PICK S : S = eids
  OBVIOUS
<1>5. IsFiniteSet(S) /\ S \subseteq Int
  BY <1>3, <1>4
<1>6. \A a, b \in S : <<a, b>> \in R <=> a < b
  BY <1>5
<1> HIDE DEF R, eids
<1>7. TotalOn(R, S)
  <2>1. \A a, b \in S : a # b => (a < b <=> ~(b < a))
    BY <1>5
  <2>2. \A a, b, c \in S : a < b /\ b < c => a < c
    BY <1>5
  <2>3. \A a \in S : ~(a < a)
    BY <1>5
  <2> QED BY <1>6, <2>1, <2>2, <2>3 DEF TotalOn
<1>8. PICK s \in SetToSeqs(S) : Sorted(s, R)
  BY <1>5, <1>7, OrderExists
<1>9. s \in Seq(S) /\ Range(s) = S
  BY <1>5, RangeOfOrder
<1>10. \A j, k \in DOMAIN s : j < k => s[j] < s[k]
  <2>1. \A j \in DOMAIN s : s[j] \in S
    BY <1>9 DEF Range
  <2> QED BY <1>6, <1>8, <2>1 DEF Sorted
<1>11. PICK t : t = CHOOSE q \in SetToSeqs(S) : \A j, k \in DOMAIN q : j < k => q[j] < q[k]
  OBVIOUS
<1>12. t \in SetToSeqs(S)
  BY <1>8, <1>10, <1>11
<1>13. t \in Seq(S) /\ Range(t) = S /\ IsInjective(t)
  BY <1>5, <1>12, RangeOfOrder
<1>14. t \in Seq(Int)
  BY <1>5, <1>13, SeqMonotonic
<1>15. Authorized(role) = t
  BY <1>4, <1>11 DEF Authorized, eids, chosen
<1> QED BY <1>4, <1>13, <1>14, <1>15 DEF eids, chosen

(* The services of a role that the endpoints of a set have.                *)
Offered(S, role) == {Service(eid, role) : eid \in {e \in S : Urls(e) # {}}}

Chosen(role) == {end.eid : end \in {x \in ends : x.role = role /\ x.on}}

OfDelegator == IF HasDelegatorService THEN {DelegatorService} ELSE {}

Providing == {"witness", "mailbox", "agent"}

AnyService == {Service(q[1], q[2]) : q \in Int \X Providing} \cup {DelegatorService}

LEMMA InAnyService ==
  /\ \A eid \in Int, role \in Providing : Service(eid, role) \in AnyService
  /\ DelegatorService \in AnyService
<1>1. ASSUME NEW eid \in Int, NEW role \in Providing
      PROVE  Service(eid, role) \in AnyService
  <2>1. PICK q : q = <<eid, role>>
    OBVIOUS
  <2>2. q \in Int \X Providing /\ q[1] = eid /\ q[2] = role
    BY <2>1
  <2> QED BY <2>2 DEF AnyService
<1>2. DelegatorService \in AnyService
  BY DEF AnyService
<1> QED BY <1>1, <1>2

LEMMA OfferedIs ==
  ASSUME NEW S, NEW role, NEW s \in Offered(S, role)
  PROVE  s.type = role /\ s.id \in S /\ s.at = Urls(s.id) /\ s.at # {} /\ s = Service(s.id, role)
<1>1. PICK eid \in S : Urls(eid) # {} /\ s = Service(eid, role)
  BY DEF Offered
<1>2. s.id = eid /\ s.type = role /\ s.at = Urls(eid)
  BY <1>1, ServiceIs
<1> QED BY <1>1, <1>2

LEMMA DelegatorsType == DelegatorService.type = "delegator" /\ \A s \in OfDelegator : s.type = "delegator"
<1>1. DelegatorService.type = "delegator"
  BY DEF DelegatorService
<1> QED BY <1>1 DEF OfDelegator

LEMMA ServicesAre ==
  ASSUME DocumentAssumption, DocumentInv
  PROVE  /\ Services \in Seq(AnyService) /\ IsInjective(Services)
         /\ Range(Services) = Offered(Range(given.wits), "witness")
              \cup (Offered(Chosen("mailbox"), "mailbox") \cup Offered(Chosen("agent"), "agent"))
              \cup OfDelegator
<1>1. given.wits \in Seq(Int) /\ IsInjective(given.wits)
  BY DEF DocumentInv, DocumentAssumption
<1>2. PICK w, m, a, d :
        /\ w = Located(given.wits, "witness")
        /\ m = Located(Authorized("mailbox"), "mailbox")
        /\ a = Located(Authorized("agent"), "agent")
        /\ d = IF HasDelegatorService THEN <<DelegatorService>> ELSE <<>>
  OBVIOUS
<1>3. ASSUME NEW role \in Providing, NEW eids \in Seq(Int), IsInjective(eids)
      PROVE  /\ Located(eids, role) \in Seq(AnyService) /\ IsInjective(Located(eids, role))
             /\ Range(Located(eids, role)) = Offered(Range(eids), role)
  <2>1. \A eid \in Range(eids) : Service(eid, role) \in AnyService
    <3>1. Range(eids) \subseteq Int
      BY DEF Range
    <3> QED BY <3>1, InAnyService
  <2> QED BY <1>3, <2>1, LocatedIs DEF Offered
<1>4. /\ w \in Seq(AnyService) /\ IsInjective(w) /\ Range(w) = Offered(Range(given.wits), "witness")
  <2>1. "witness" \in Providing
    BY DEF Providing
  <2> QED BY <1>1, <1>2, <1>3, <2>1
<1>5. /\ m \in Seq(AnyService) /\ IsInjective(m) /\ Range(m) = Offered(Chosen("mailbox"), "mailbox")
      /\ a \in Seq(AnyService) /\ IsInjective(a) /\ Range(a) = Offered(Chosen("agent"), "agent")
  <2>1. \A role : /\ Authorized(role) \in Seq(Int) /\ IsInjective(Authorized(role))
                  /\ Range(Authorized(role)) = Chosen(role)
    BY AuthorizedIs DEF Chosen
  <2>2. "mailbox" \in Providing /\ "agent" \in Providing
    BY DEF Providing
  <2> QED BY <1>2, <1>3, <2>1, <2>2
<1>6. \A role : Chosen(role) \subseteq Int
  <2>1. \A x \in ends : x.eid \in Int
    BY DEF DocumentInv, StoredSound, Read, DocumentAssumption
  <2> QED BY <2>1 DEF Chosen
<1>7. Range(given.wits) \subseteq Int
  BY <1>1 DEF Range
<1>8. /\ d \in Seq(AnyService) /\ IsInjective(d) /\ Range(d) = OfDelegator
  <2>1. PICK x : x = DelegatorService
    OBVIOUS
  <2>2. x \in AnyService
    BY <2>1, InAnyService
  <2>3. <<x>> \in Seq(AnyService) /\ IsInjective(<<x>>) /\ Range(<<x>>) = {x}
    BY <2>2 DEF IsInjective, Range
  <2>4. <<>> \in Seq(AnyService) /\ IsInjective(<<>>) /\ Range(<<>>) = {}
    BY EmptySeq DEF IsInjective, Range
  <2> QED BY <1>2, <2>1, <2>3, <2>4 DEF OfDelegator
<1>9. /\ \A s \in Range(w) : s.type = "witness"
      /\ \A s \in Range(m) : s.type = "mailbox"
      /\ \A s \in Range(a) : s.type = "agent"
      /\ \A s \in Range(d) : s.type = "delegator"
  BY <1>4, <1>5, <1>6, <1>7, <1>8, OfferedIs, DelegatorsType
<1>10. PICK parts, pair : parts = [n \in DOMAIN Roles |-> Located(Authorized(Roles[n]), Roles[n])]
                          /\ pair = FlattenSeq(parts)
  OBVIOUS
<1>11. parts \in Seq(Seq(AnyService)) /\ DOMAIN parts = {1, 2} /\ parts[1] = m /\ parts[2] = a
  <2>1. DOMAIN Roles = 1 .. 2 /\ Roles[1] = "mailbox" /\ Roles[2] = "agent"
    BY DEF Roles
  <2>2. parts = [n \in 1 .. 2 |-> Located(Authorized(Roles[n]), Roles[n])]
    BY <1>10, <2>1
  <2>3. parts[1] = m /\ parts[2] = a /\ DOMAIN parts = 1 .. 2 /\ parts = [n \in 1 .. 2 |-> parts[n]]
    BY <1>2, <2>1, <2>2
  <2>4. \A n \in 1 .. 2 : n = 1 \/ n = 2
    OBVIOUS
  <2>5. \A n \in 1 .. 2 : parts[n] \in Seq(AnyService)
    BY <1>5, <2>3, <2>4
  <2> QED BY <2>3, <2>4, <2>5
<1>12. pair \in Seq(AnyService) /\ Range(pair) = Range(m) \cup Range(a)
  <2>1. pair \in Seq(AnyService) /\ Range(pair) = UNION {Range(parts[n]) : n \in DOMAIN parts}
    <3>1. pair = FlattenSeq(parts)
      BY <1>10
    <3>2. parts \in Seq(Seq(AnyService))
      BY <1>11
    <3> QED BY <3>1, <3>2, RangeOfFlatten
  <2>2. UNION {Range(parts[n]) : n \in DOMAIN parts} = Range(m) \cup Range(a)
    BY <1>11
  <2> QED BY <2>1, <2>2
<1>13. IsInjective(pair)
  <2>1. \A n \in DOMAIN parts : IsInjective(parts[n])
    BY <1>5, <1>11
  <2>2. Range(m) \cap Range(a) = {}
    BY <1>9
  <2>3. \A j, k \in DOMAIN parts : j # k => Range(parts[j]) \cap Range(parts[k]) = {}
    BY <1>11, <2>2
  <2> QED BY <1>10, <1>11, <2>1, <2>3, InjectiveFlatten
<1>14. PICK front : front = w \o pair
  OBVIOUS
<1>15. /\ front \in Seq(AnyService) /\ IsInjective(front)
       /\ Range(front) = Range(w) \cup (Range(m) \cup Range(a))
  <2>1. Range(w) \cap Range(pair) = {}
    BY <1>9, <1>12
  <2> QED BY <1>4, <1>12, <1>13, <1>14, <2>1, OnceConcat
<1>16. /\ front \o d \in Seq(AnyService) /\ IsInjective(front \o d)
       /\ Range(front \o d) = Range(front) \cup Range(d)
  <2>1. Range(front) \cap Range(d) = {}
    BY <1>9, <1>15
  <2> QED BY <1>8, <1>15, <2>1, OnceConcat
<1>17. Services = front \o d
  BY <1>2, <1>10, <1>14 DEF Services
<1>18. PICK all : all = front \o d
  OBVIOUS
<1> QED BY <1>4, <1>5, <1>8, <1>15, <1>16, <1>17, <1>18

LEMMA StoredIsNewest ==
  ASSUME DocumentAssumption, DocumentInv, pending = {}, ~Contended
  PROVE  /\ ends = {r \in Newest : r.role # ""} /\ locs = {r \in Newest : r.role = ""}
<1>1. /\ given \in Inputs /\ StoredSound /\ Read = given.replies
      /\ \A r \in given.replies : r.stamp \in Nat
  BY DEF DocumentInv, DocumentAssumption, Read
<1>2. Stored \subseteq given.replies
  BY <1>1 DEF StoredSound, Stored
<1>3. ASSUME NEW x \in Stored
      PROVE  x \in Newest
  <2>1. ASSUME NEW z \in given.replies, SameTopic(z, x)
        PROVE  z.stamp <= x.stamp
    <3>1. PICK y \in Stored : SameTopic(y, z) /\ z.stamp <= y.stamp
      BY <1>1 DEF StoredSound
    <3>2. SameTopic(y, x)
      BY <2>1, <3>1, TopicsAlike
    <3>3. y = x
      BY <1>1, <3>2 DEF StoredSound
    <3> QED BY <3>1, <3>3
  <2> QED BY <1>2, <2>1 DEF Newest
<1>4. ASSUME NEW x \in Newest
      PROVE  x \in Stored
  <2>1. x \in given.replies /\ \A z \in given.replies : SameTopic(z, x) => z.stamp <= x.stamp
    BY DEF Newest
  <2>2. PICK y \in Stored : SameTopic(y, x) /\ x.stamp <= y.stamp
    BY <1>1, <2>1 DEF StoredSound
  <2>3. y.stamp <= x.stamp /\ y \in given.replies /\ x.stamp \in Nat /\ y.stamp \in Nat
    BY <1>1, <1>2, <2>1, <2>2
  <2>4. x.stamp = y.stamp
    BY <2>2, <2>3
  <2>5. x = y
    BY <2>1, <2>2, <2>3, <2>4, TopicsAlike DEF Contended
  <2> QED BY <2>2, <2>5
<1>5. Stored = Newest
  BY <1>3, <1>4
<1>6. /\ \A x \in ends : x.role # ""
      /\ \A x \in locs : x.role = ""
      /\ Newest = ends \cup locs
  BY <1>1, <1>5 DEF StoredSound, Stored
<1> HIDE DEF Newest
<1>7. PICK N : N = Newest
  OBVIOUS
<1>8. ends = {r \in N : r.role # ""} /\ locs = {r \in N : r.role = ""}
  BY <1>6, <1>7
<1> QED BY <1>7, <1>8

LEMMA ServicesHold ==
  ASSUME DocumentAssumption, DocumentInv
  PROVE  ServicesAreCurrent
<1> SUFFICES ASSUME Published, ~Contended
             PROVE  ServicesAreCurrent
  BY DEF ServicesAreCurrent
<1>1. given \in Inputs /\ doc = Derived /\ hosted = Transformed(doc) /\ pending = {}
  BY DEF DocumentInv, Projected, Published
<1>2. hosted.service = Services
  <2>1. hosted.service = doc.service
    BY <1>1 DEF Transformed, Derived
  <2> QED BY <1>1, <2>1 DEF Derived
<1>3. PICK all : all = Services
  OBVIOUS
<1>4. /\ all \in Seq(AnyService) /\ IsInjective(all)
      /\ Range(all) = Offered(Range(given.wits), "witness")
           \cup (Offered(Chosen("mailbox"), "mailbox") \cup Offered(Chosen("agent"), "agent"))
           \cup OfDelegator
  BY <1>3, ServicesAre
<1>5. ends = {r \in Newest : r.role # ""} /\ locs = {r \in Newest : r.role = ""}
  BY <1>1, StoredIsNewest
<1> DEFINE At(eid) == {r.scheme : r \in {x \in Newest : x.role = "" /\ x.eid = eid /\ x.on}}
           witnesses == {<<eid, "witness">> : eid \in Range(given.wits)}
           providers == {<<r.eid, r.role>> : r \in {x \in Newest : x.role \in Range(Roles) /\ x.on}}
           listed == {s \in Range(all) : s.type # "delegator"}
           expected == {[id |-> p[1], type |-> p[2], at |-> At(p[1])] :
                            p \in {q \in witnesses \cup providers : At(q[1]) # {}}}
<1>6. \A eid : At(eid) = Urls(eid)
  BY <1>5 DEF Urls
<1>7. Range(Roles) = {"mailbox", "agent"}
  <2>1. DOMAIN Roles = {1, 2} /\ Roles[1] = "mailbox" /\ Roles[2] = "agent"
    <3>1. DOMAIN Roles = 1 .. 2
      BY DEF Roles
    <3>2. 1 .. 2 = {1, 2}
      OBVIOUS
    <3> QED BY <3>1, <3>2 DEF Roles
  <2> QED BY <2>1 DEF Range
<1>8. \A eid, role : role \in {"mailbox", "agent"} =>
         (<<eid, role>> \in providers <=> eid \in Chosen(role))
  BY <1>5, <1>7 DEF Chosen
<1>9. \A q \in providers : \E eid, role : role \in {"mailbox", "agent"} /\ q = <<eid, role>>
  BY <1>7
<1>10. Range(given.wits) \subseteq Int /\ \A role : Chosen(role) \subseteq Int
  <2>1. \A r \in given.replies : r.eid \in Int
    BY <1>1 DEF DocumentAssumption
  <2>2. ends \subseteq given.replies
    BY <1>5 DEF Newest
  <2>3. given.wits \in Seq(Int)
    BY <1>1 DEF DocumentAssumption
  <2> QED BY <2>1, <2>2, <2>3 DEF Chosen, Range
<1> HIDE DEF At, providers
<1>16. \A role : role \in Providing <=> role \in {"witness", "mailbox", "agent"}
  BY DEF Providing
<1>11. ASSUME NEW s \in listed
       PROVE  s \in expected
  <2>1. PICK S, role : /\ s \in Offered(S, role) /\ S \subseteq Int
                       /\ \/ S = Range(given.wits) /\ role = "witness"
                          \/ S = Chosen(role) /\ role \in {"mailbox", "agent"}
    BY <1>4, <1>10, DelegatorsType
  <2>2. /\ s.type = role /\ s.id \in S /\ s.at = Urls(s.id) /\ s.at # {} /\ s = Service(s.id, role)
    BY <2>1, OfferedIs
  <2>3. <<s.id, role>> \in witnesses \cup providers
    <3>1. CASE role = "witness"
      BY <2>1, <2>2, <3>1
    <3>2. CASE role # "witness"
      BY <1>8, <2>1, <2>2, <3>2
    <3> QED BY <3>1, <3>2
  <2>4. PICK p : p = <<s.id, role>>
    OBVIOUS
  <2>5. At(p[1]) # {} /\ s = [id |-> p[1], type |-> p[2], at |-> At(p[1])]
    BY <1>6, <2>2, <2>4, ServiceIs
  <2> HIDE DEF witnesses
  <2> QED BY <2>3, <2>4, <2>5
<1>12. ASSUME NEW s \in expected
       PROVE  s \in listed
  <2>1. PICK p \in witnesses \cup providers :
           At(p[1]) # {} /\ s = [id |-> p[1], type |-> p[2], at |-> At(p[1])]
    OBVIOUS
  <2>2. PICK eid, role : p = <<eid, role>> /\ role \in Providing
           /\ (role = "witness" => eid \in Range(given.wits))
           /\ (role # "witness" => eid \in Chosen(role))
    <3>1. CASE p \in witnesses
      BY <1>16, <3>1
    <3>2. CASE p \in providers
      <4>1. PICK eid, role : role \in {"mailbox", "agent"} /\ p = <<eid, role>>
        BY <1>9, <3>2
      <4> QED BY <1>8, <1>16, <3>2, <4>1
    <3> QED BY <3>1, <3>2
  <2>3. Urls(eid) # {} /\ s = Service(eid, role)
    BY <1>6, <2>1, <2>2, ServiceIs
  <2>4. s \in Offered(IF role = "witness" THEN Range(given.wits) ELSE Chosen(role), role)
    BY <2>2, <2>3 DEF Offered
  <2>5. s \in Range(all)
    <3>1. CASE role = "witness"
      BY <1>4, <2>4, <3>1
    <3>2. CASE role # "witness"
      <4>1. role = "mailbox" \/ role = "agent"
        BY <1>16, <2>2, <3>2
      <4> QED BY <1>4, <2>4, <3>2, <4>1
    <3> QED BY <3>1, <3>2
  <2>6. s.type = role
    BY <2>3, ServiceIs
  <2> QED BY <1>16, <2>2, <2>5, <2>6
<1>13. listed = expected
  <2> HIDE DEF listed, expected
  <2> QED BY <1>11, <1>12
<1>14. IsInjective([n \in DOMAIN all |-> <<all[n].id, all[n].type>>])
  <2>1. ASSUME NEW j \in DOMAIN all, NEW k \in DOMAIN all,
               all[j].id = all[k].id, all[j].type = all[k].type
        PROVE  all[j] = all[k]
    <3>1. all[j] \in Range(all) /\ all[k] \in Range(all)
      BY DEF Range
    <3>2. \A s \in Range(all) : s \in OfDelegator \/ s = Service(s.id, s.type)
      BY <1>4, <1>10, OfferedIs
    <3>3. \A s \in Range(all) : s.type # "delegator" \/ s \in OfDelegator
      BY <1>4, <1>10, OfferedIs
    <3>4. \A s \in OfDelegator : s = DelegatorService /\ s.type = "delegator"
      BY DelegatorsType DEF OfDelegator
    <3>5. CASE all[j].type = "delegator"
      BY <2>1, <3>1, <3>3, <3>4, <3>5
    <3>6. CASE all[j].type # "delegator"
      <4>1. all[j] = Service(all[j].id, all[j].type) /\ all[k] = Service(all[k].id, all[k].type)
        BY <2>1, <3>1, <3>2, <3>4, <3>6
      <4> QED BY <2>1, <4>1
    <3> QED BY <3>5, <3>6
  <2>2. \A j, k \in DOMAIN all : all[j] = all[k] => j = k
    BY <1>4 DEF IsInjective
  <2> QED BY <2>1, <2>2 DEF IsInjective
<1>15. hosted.service = all
  BY <1>2, <1>3
<1> HIDE DEF listed, expected
<1> QED BY <1>13, <1>14, <1>15 DEF ServicesAreCurrent, listed, expected, witnesses, providers, At

(* The services are those the newest replies leave.                        *)
THEOREM ServicesCorrect == Spec => []ServicesAreCurrent
<1>1. DocumentInv => ServicesAreCurrent
  BY ServicesHold, DocumentAssumption
<1> QED BY <1>1, DocumentSound, PTL

(***************************************************************************)
(* Texts: joining parts and taking them apart.                             *)
(***************************************************************************)

LEMMA ConcatAt ==
  ASSUME NEW X, NEW s \in Seq(X), NEW t \in Seq(X)
  PROVE  /\ s \o t \in Seq(X) /\ Len(s \o t) = Len(s) + Len(t)
         /\ Len(s) \in Nat /\ Len(t) \in Nat
         /\ \A n \in 1 .. Len(s) : (s \o t)[n] = s[n]
         /\ \A n \in 1 .. Len(t) : (s \o t)[Len(s) + n] = t[n]
BY ConcatExtends, LenProperties DEF IsPrefixOf

LEMMA AppendAt ==
  ASSUME NEW X, NEW s \in Seq(X), NEW x \in X, NEW t, t = Append(s, x)
  PROVE  /\ t \in Seq(X) /\ Len(t) = Len(s) + 1 /\ Len(s) \in Nat
         /\ DOMAIN t = 1 .. Len(t) /\ t[Len(s) + 1] = x
         /\ \A n \in 1 .. Len(s) : t[n] = s[n]
BY AppendProperties, LenProperties

LEMMA Single ==
  ASSUME NEW X, NEW x \in X
  PROVE  <<x>> \in Seq(X) /\ Len(<<x>>) = 1 /\ <<x>>[1] = x /\ Range(<<x>>) = {x}
BY DEF Range

LEMMA FlattensFirst ==
  ASSUME NEW g, NEW s, Flattens(g, s), 1 \in 1 .. Len(s)
  PROVE  g[1] = s[1]
BY DEF Flattens

LEMMA FlattensNext ==
  ASSUME NEW g, NEW s, Flattens(g, s), NEW n \in 1 .. Len(s), n # 1
  PROVE  g[n] = g[n - 1] \o s[n]
BY DEF Flattens

(* Flattening a sequence and one part more.                                *)
LEMMA FlattenAppend ==
  ASSUME NEW X, NEW s \in Seq(Seq(X)), NEW x \in Seq(X)
  PROVE  /\ FlattenSeq(Append(s, x)) = FlattenSeq(s) \o x
         /\ FlattenSeq(s) \in Seq(X)
<1>0. Len(s) \in Nat /\ \A n \in 1 .. Len(s) : s[n] \in Seq(X)
  BY LenProperties
<1>1. PICK t : t = Append(s, x)
  OBVIOUS
<1>2. /\ t \in Seq(Seq(X)) /\ Len(t) = Len(s) + 1 /\ t[Len(s) + 1] = x
      /\ \A n \in 1 .. Len(s) : t[n] = s[n]
  BY <1>0, <1>1, AppendProperties
<1>3. FlattenSeq(s) \in Seq(X)
  BY RangeOfFlatten
<1>4. PICK h : Flattens(h, t) /\ FlattenSeq(t) = h[Len(t)]
  <2>1. Len(t) \in Nat /\ Len(t) # 0
    BY <1>0, <1>2
  <2> QED BY ONLY <2>1, FlattenSeqIs
<1>5. CASE Len(s) = 0
  <2>1. FlattenSeq(s) = s /\ s = <<>>
    BY <1>5, EmptySeq DEF FlattenSeq
  <2>2. 1 \in 1 .. Len(t) /\ Len(t) = 1
    BY <1>2, <1>5
  <2>3. h[1] = x
    BY <1>2, <1>4, <1>5, <2>2, FlattensFirst
  <2> QED BY <1>1, <1>3, <1>4, <2>1, <2>2, <2>3, ConcatEmptySeq
<1>6. CASE Len(s) # 0
  <2>1. PICK g : Flattens(g, s) /\ FlattenSeq(s) = g[Len(s)]
    BY <1>0, <1>6, FlattenSeqIs
  <2> DEFINE S == {n \in Nat : n + 1 \in 1 .. Len(s) => g[n + 1] = h[n + 1]}
  <2>2. 0 \in S
    <3>1. 1 \in 1 .. Len(s) /\ 1 \in 1 .. Len(t) /\ 0 + 1 = 1
      BY <1>0, <1>2, <1>6
    <3>2. g[1] = s[1] /\ h[1] = t[1]
      BY <1>4, <2>1, <3>1, FlattensFirst
    <3> QED BY <1>2, <3>1, <3>2
  <2>3. ASSUME NEW n \in Nat, n \in S
        PROVE  n + 1 \in S
    <3> SUFFICES ASSUME n + 1 + 1 \in 1 .. Len(s)
                 PROVE  g[n + 1 + 1] = h[n + 1 + 1]
      OBVIOUS
    <3>1. PICK m : m = n + 1 + 1
      OBVIOUS
    <3>2. m \in 1 .. Len(s) /\ m \in 1 .. Len(t) /\ m # 1 /\ m - 1 = n + 1 /\ n + 1 \in 1 .. Len(s)
      BY <1>0, <1>2, <3>1
    <3>3. g[m] = g[m - 1] \o s[m]
      BY <2>1, <3>2, FlattensNext
    <3>4. h[m] = h[m - 1] \o t[m]
      BY <1>4, <3>2, FlattensNext
    <3>5. g[m - 1] = h[m - 1]
      BY <2>3, <3>2
    <3> QED BY <1>2, <3>1, <3>2, <3>3, <3>4, <3>5
  <2> HIDE DEF S
  <2>4. Len(s) - 1 \in S
    <3>1. Nat \subseteq S
      BY <2>2, <2>3, SetInduction
    <3>2. Len(s) - 1 \in Nat
      BY <1>0, <1>6
    <3> QED BY <3>1, <3>2
  <2>5. g[Len(s)] = h[Len(s)]
    BY <1>0, <1>6, <2>4 DEF S
  <2>6. Len(t) \in 1 .. Len(t) /\ Len(t) # 1 /\ Len(t) - 1 = Len(s)
    BY <1>0, <1>2, <1>6
  <2>7. h[Len(t)] = h[Len(s)] \o t[Len(t)]
    <3>1. PICK m : m = Len(t)
      OBVIOUS
    <3>2. h[m] = h[m - 1] \o t[m]
      BY <1>4, <2>6, <3>1, FlattensNext
    <3> QED BY <2>6, <3>1, <3>2
  <2> QED BY <1>1, <1>2, <1>3, <1>4, <2>1, <2>5, <2>7
<1> QED BY <1>5, <1>6

(* Each part on its own.                                                   *)
LEMMA FlattenSingles ==
  ASSUME NEW X, NEW s \in Seq(X)
  PROVE  FlattenSeq([n \in DOMAIN s |-> <<s[n]>>]) = s
<1> DEFINE singles(m) == [n \in 1 .. m |-> <<s[n]>>]
           P(m) == FlattenSeq(singles(m)) = SubSeq(s, 1, m)
           S == {m \in Nat : m <= Len(s) => P(m)}
<1>0. Len(s) \in Nat /\ DOMAIN s = 1 .. Len(s) /\ \A n \in 1 .. Len(s) : s[n] \in X /\ <<s[n]>> \in Seq(X)
  BY LenProperties
<1>1. ASSUME NEW m \in 0 .. Len(s)
      PROVE  singles(m) \in Seq(Seq(X)) /\ Len(singles(m)) = m
  <2>1. \A n \in 1 .. m : <<s[n]>> \in Seq(X)
    BY <1>0
  <2> QED BY <2>1
<1>2. 0 \in S
  <2>1. singles(0) \in Seq(Seq(X)) /\ Len(singles(0)) = 0
    BY <1>0, <1>1
  <2>2. singles(0) = <<>>
    BY <2>1, EmptySeq
  <2>3. FlattenSeq(singles(0)) = <<>>
    BY <2>1, <2>2 DEF FlattenSeq
  <2>4. SubSeq(s, 1, 0) = <<>>
    BY SubSeqEmpty
  <2> QED BY <2>3, <2>4
<1>3. ASSUME NEW m \in Nat, m \in S
      PROVE  m + 1 \in S
  <2> SUFFICES ASSUME m + 1 <= Len(s)
               PROVE  P(m + 1)
    <3> HIDE DEF P
    <3> QED OBVIOUS
  <2>1. m \in 0 .. Len(s) /\ m + 1 \in 0 .. Len(s) /\ m + 1 \in 1 .. Len(s) /\ m <= Len(s) /\ 1 \in 1 .. Len(s)
        /\ m + 1 \in 1 .. m + 1 /\ m + 1 - 1 = m
    BY <1>0
  <2>2. PICK front : front = singles(m)
    OBVIOUS
  <2>3. front \in Seq(Seq(X)) /\ Len(front) = m /\ \A n \in 1 .. m : front[n] = <<s[n]>>
    BY <1>1, <2>1, <2>2
  <2>4. PICK x \in Seq(X) : x = <<s[m + 1]>>
    BY <1>0, <2>1
  <2>5. PICK longer : longer = singles(m + 1)
    OBVIOUS
  <2>6. longer \in Seq(Seq(X)) /\ Len(longer) = m + 1 /\ \A n \in 1 .. m + 1 : longer[n] = <<s[n]>>
    BY <1>1, <2>1, <2>5
  <2>7. longer = Append(front, x)
    <3>1. /\ Append(front, x) \in Seq(Seq(X)) /\ Len(Append(front, x)) = m + 1
          /\ \A n \in 1 .. m : Append(front, x)[n] = front[n]
          /\ Append(front, x)[m + 1] = x
      BY <2>3, <2>4, AppendProperties
    <3>2. ASSUME NEW n \in 1 .. m + 1
          PROVE  longer[n] = Append(front, x)[n]
      <4>1. CASE n = m + 1
        BY <2>4, <2>6, <3>1, <4>1
      <4>2. CASE n # m + 1
        <5>1. n \in 1 .. m
          BY <4>2
        <5> QED BY <2>3, <2>6, <3>1, <5>1
      <4> QED BY <4>1, <4>2
    <3> QED BY <2>6, <3>1, <3>2, SeqEqual
  <2>8. FlattenSeq(longer) = FlattenSeq(front) \o x
    BY <2>3, <2>7, FlattenAppend
  <2>9. FlattenSeq(front) = SubSeq(s, 1, m)
    BY <1>3, <2>1, <2>2
  <2>10. SubSeq(s, 1, m + 1) = SubSeq(s, 1, m) \o <<s[m + 1]>>
    BY <2>1, SubSeqRecursiveSecond
  <2> QED BY <2>4, <2>5, <2>8, <2>9, <2>10
<1> HIDE DEF S
<1>4. Len(s) \in S
  BY <1>0, <1>2, <1>3, SetInduction
<1>5. FlattenSeq(singles(Len(s))) = SubSeq(s, 1, Len(s))
  BY <1>0, <1>4 DEF S
<1> QED BY <1>0, <1>5, SubSeqFull

(***************************************************************************)
(* Joining parts.                                                          *)
(***************************************************************************)

LEMMA JoinedEmpty == \A sep : Joined(<<>>, sep) = <<>>
<1> SUFFICES ASSUME NEW sep PROVE Joined(<<>>, sep) = <<>>
  OBVIOUS
<1>1. [n \in DOMAIN <<>> |-> <<sep>> \o <<>>[n]] = <<>>
  OBVIOUS
<1>2. Len(<<>>) = 0
  OBVIOUS
<1> QED BY <1>1, <1>2 DEF Joined, FlattenSeq

LEMMA JoinedAppend ==
  ASSUME NEW X, NEW sep \in X, NEW parts \in Seq(Seq(X)), NEW p \in Seq(X)
  PROVE  /\ Joined(Append(parts, p), sep) = Joined(parts, sep) \o (<<sep>> \o p)
         /\ Joined(parts, sep) \in Seq(X)
<1> DEFINE cut(s) == [n \in DOMAIN s |-> <<sep>> \o s[n]]
<1>0. <<sep>> \in Seq(X) /\ Len(parts) \in Nat /\ DOMAIN parts = 1 .. Len(parts)
      /\ \A n \in 1 .. Len(parts) : parts[n] \in Seq(X)
  BY LenProperties
<1>1. PICK t : t = Append(parts, p)
  OBVIOUS
<1>2. /\ t \in Seq(Seq(X)) /\ Len(t) = Len(parts) + 1 /\ t[Len(parts) + 1] = p
      /\ \A n \in 1 .. Len(parts) : t[n] = parts[n]
      /\ DOMAIN t = 1 .. Len(parts) + 1
  <2>1. /\ t \in Seq(Seq(X)) /\ Len(t) = Len(parts) + 1 /\ t[Len(parts) + 1] = p
        /\ \A n \in 1 .. Len(parts) : t[n] = parts[n]
    BY <1>0, <1>1, AppendProperties
  <2> QED BY <2>1, LenProperties
<1>3. PICK c : c = cut(parts)
  OBVIOUS
<1>4. PICK x : x = <<sep>> \o p
  OBVIOUS
<1>5. x \in Seq(X)
  BY <1>0, <1>4, ConcatProperties
<1>6. c \in Seq(Seq(X)) /\ Len(c) = Len(parts) /\ \A n \in 1 .. Len(parts) : c[n] = <<sep>> \o parts[n]
  <2>1. \A n \in 1 .. Len(parts) : <<sep>> \o parts[n] \in Seq(X)
    BY <1>0, ConcatProperties
  <2> QED BY <1>0, <1>3, <2>1
<1>7. cut(t) = Append(c, x)
  <2>1. PICK d : d = cut(t)
    OBVIOUS
  <2>2. \A n \in 1 .. Len(parts) + 1 : d[n] = <<sep>> \o t[n]
    BY <1>2, <2>1
  <2>3. PICK e : e = Append(c, x)
    OBVIOUS
  <2>4. /\ e \in Seq(Seq(X)) /\ Len(e) = Len(parts) + 1
        /\ \A n \in 1 .. Len(parts) : e[n] = c[n]
        /\ e[Len(parts) + 1] = x
    <3>1. /\ e \in Seq(Seq(X)) /\ Len(e) = Len(c) + 1 /\ e[Len(c) + 1] = x
          /\ \A n \in 1 .. Len(c) : e[n] = c[n]
      BY <1>5, <1>6, <2>3, AppendAt
    <3> QED BY <1>6, <3>1
  <2>5. ASSUME NEW n \in 1 .. Len(parts) + 1
        PROVE  d[n] = e[n] /\ d[n] \in Seq(X)
    <3>1. CASE n = Len(parts) + 1
      BY <1>2, <1>4, <1>5, <2>2, <2>4, <3>1
    <3>2. CASE n # Len(parts) + 1
      <4>1. n \in 1 .. Len(parts)
        BY <1>0, <3>2
      <4>2. d[n] = c[n] /\ c[n] \in Seq(X)
        BY <1>0, <1>2, <1>6, <2>2, <4>1, ElementOfSeq
      <4> QED BY <2>4, <4>1, <4>2
    <3> QED BY <3>1, <3>2
  <2>6. d = [n \in 1 .. Len(parts) + 1 |-> d[n]]
    BY <1>2, <2>1
  <2>7. d \in Seq(Seq(X)) /\ Len(d) = Len(parts) + 1
    <3>1. Len(parts) + 1 \in Nat
      BY <1>0
    <3> QED BY <2>5, <2>6, <3>1
  <2>8. d = e
    BY <1>0, <2>4, <2>5, <2>7, SeqEqual
  <2> QED BY <2>1, <2>3, <2>8
<1>8. FlattenSeq(Append(c, x)) = FlattenSeq(c) \o x /\ FlattenSeq(c) \in Seq(X)
  BY <1>5, <1>6, FlattenAppend
<1>9. Joined(parts, sep) = FlattenSeq(c) /\ Joined(t, sep) = FlattenSeq(cut(t))
  BY <1>3 DEF Joined
<1> QED BY <1>1, <1>4, <1>7, <1>8, <1>9

(* Where a text, a separator and a part are in what they make.             *)
LEMMA PartAt ==
  ASSUME NEW X, NEW sep \in X, NEW s \in Seq(X), NEW a \in Seq(X), NEW u, u = s \o (<<sep>> \o a)
  PROVE  /\ u \in Seq(X) /\ Len(u) = Len(s) + 1 + Len(a) /\ Len(s) \in Nat /\ Len(a) \in Nat
         /\ u[Len(s) + 1] = sep /\ \A n \in 1 .. Len(s) : u[n] = s[n]
         /\ \A n \in 1 .. Len(a) : u[Len(s) + 1 + n] = a[n]
<1>1. PICK c : c = <<sep>> \o a
  OBVIOUS
<1>2. <<sep>> \in Seq(X) /\ Len(<<sep>>) = 1 /\ <<sep>>[1] = sep
  BY Single
<1>3. /\ c \in Seq(X) /\ Len(c) = 1 + Len(a) /\ Len(a) \in Nat /\ c[1] = sep
      /\ \A n \in 1 .. Len(a) : c[1 + n] = a[n]
  BY <1>1, <1>2, ConcatAt
<1>4. /\ u \in Seq(X) /\ Len(u) = Len(s) + Len(c) /\ Len(s) \in Nat
      /\ \A n \in 1 .. Len(s) : u[n] = s[n]
      /\ \A n \in 1 .. Len(c) : u[Len(s) + n] = c[n]
  BY <1>1, <1>3, ConcatAt
<1>5. 1 \in 1 .. Len(c)
  BY <1>3
<1>6. ASSUME NEW n \in 1 .. Len(a)
      PROVE  u[Len(s) + 1 + n] = a[n]
  <2>1. 1 + n \in 1 .. Len(c) /\ Len(s) + (1 + n) = Len(s) + 1 + n
    BY <1>3, <1>4
  <2> QED BY <1>3, <1>4, <2>1
<1> QED BY <1>3, <1>4, <1>5, <1>6

LEMMA NoLaterSeparator ==
  ASSUME NEW X, NEW sep \in X, NEW s \in Seq(X), NEW a \in Seq(X), sep \notin Range(a),
         NEW u, u = s \o (<<sep>> \o a), NEW m \in Nat, Len(s) + 1 < m, m <= Len(u)
  PROVE  u[m] # sep
<1>1. PICK n : n = m - Len(s) - 1
  OBVIOUS
<1>2. /\ Len(u) = Len(s) + 1 + Len(a) /\ Len(s) \in Nat /\ Len(a) \in Nat
      /\ \A k \in 1 .. Len(a) : u[Len(s) + 1 + k] = a[k]
  BY PartAt
<1>3. n \in 1 .. Len(a) /\ m = Len(s) + 1 + n
  BY <1>1, <1>2
<1>4. u[m] = a[n] /\ a[n] \in Range(a)
  BY <1>2, <1>3, RangeEquality
<1> QED BY <1>4

EndsIn(X, u, s, sep, a) ==
  sep \in X /\ s \in Seq(X) /\ a \in Seq(X) /\ u = s \o (<<sep>> \o a)

(* A text has one last part.                                               *)
LEMMA LastPart ==
  ASSUME NEW X, NEW u, NEW sep, NEW s, NEW t, NEW a, NEW b,
         EndsIn(X, u, s, sep, a), EndsIn(X, u, t, sep, b), sep \notin Range(a), sep \notin Range(b)
  PROVE  s = t /\ a = b
<1>1. /\ sep \in X /\ s \in Seq(X) /\ t \in Seq(X) /\ a \in Seq(X) /\ b \in Seq(X)
      /\ u = s \o (<<sep>> \o a) /\ u = t \o (<<sep>> \o b)
  BY DEF EndsIn
<1>2. /\ Len(u) = Len(s) + 1 + Len(a) /\ Len(s) \in Nat /\ Len(a) \in Nat
      /\ u[Len(s) + 1] = sep /\ \A n \in 1 .. Len(s) : u[n] = s[n]
      /\ \A n \in 1 .. Len(a) : u[Len(s) + 1 + n] = a[n]
  <2>1. u = s \o (<<sep>> \o a) /\ sep \in X /\ s \in Seq(X) /\ a \in Seq(X)
    BY <1>1
  <2> QED BY ONLY <2>1, PartAt
<1>3. /\ Len(u) = Len(t) + 1 + Len(b) /\ Len(t) \in Nat /\ Len(b) \in Nat
      /\ u[Len(t) + 1] = sep /\ \A n \in 1 .. Len(t) : u[n] = t[n]
      /\ \A n \in 1 .. Len(b) : u[Len(t) + 1 + n] = b[n]
  <2>1. u = t \o (<<sep>> \o b) /\ sep \in X /\ t \in Seq(X) /\ b \in Seq(X)
    BY <1>1
  <2> QED BY ONLY <2>1, PartAt
<1>4. Len(s) = Len(t)
  <2>1. ~(Len(s) < Len(t))
    <3> SUFFICES ASSUME Len(s) < Len(t) PROVE FALSE
      OBVIOUS
    <3>1. PICK m \in Nat : m = Len(t) + 1
      BY <1>3
    <3>2. Len(s) + 1 < m /\ m <= Len(u)
      BY <1>2, <1>3, <3>1
    <3>3. u[m] # sep
      BY <1>1, <3>2, NoLaterSeparator
    <3> QED BY <1>3, <3>1, <3>3
  <2>2. ~(Len(t) < Len(s))
    <3> SUFFICES ASSUME Len(t) < Len(s) PROVE FALSE
      OBVIOUS
    <3>1. PICK m \in Nat : m = Len(s) + 1
      BY <1>2
    <3>2. Len(t) + 1 < m /\ m <= Len(u)
      BY <1>2, <1>3, <3>1
    <3>3. u[m] # sep
      BY <1>1, <3>2, NoLaterSeparator
    <3> QED BY <1>2, <3>1, <3>3
  <2> QED BY <1>2, <1>3, <2>1, <2>2
<1>5. s = t
  BY <1>1, <1>2, <1>3, <1>4, SeqEqual
<1>6. Len(a) = Len(b)
  BY <1>2, <1>3, <1>4
<1>7. \A n \in 1 .. Len(a) : a[n] = b[n]
  BY <1>2, <1>3, <1>4, <1>6
<1> QED BY <1>1, <1>5, <1>6, <1>7, SeqEqual

Apart(parts, sep) == \A n \in 1 .. Len(parts) : sep \notin Range(parts[n])

LEMMA ApartAppend ==
  ASSUME NEW X, NEW parts \in Seq(Seq(X)), NEW p \in Seq(X), NEW sep, NEW t, t = Append(parts, p)
  PROVE  Apart(t, sep) <=> Apart(parts, sep) /\ sep \notin Range(p)
<1>2. /\ Len(t) = Len(parts) + 1 /\ Len(parts) \in Nat /\ t[Len(parts) + 1] = p
      /\ \A n \in 1 .. Len(parts) : t[n] = parts[n]
  BY AppendAt
<1>3. ASSUME Apart(t, sep)
      PROVE  Apart(parts, sep) /\ sep \notin Range(p)
  <2>1. Len(parts) + 1 \in 1 .. Len(t) /\ \A n \in 1 .. Len(parts) : n \in 1 .. Len(t)
    BY <1>2
  <2> QED BY <1>2, <1>3, <2>1 DEF Apart
<1>4. ASSUME Apart(parts, sep), sep \notin Range(p)
      PROVE  Apart(t, sep)
  <2>1. \A n \in 1 .. Len(t) : n \in 1 .. Len(parts) \/ n = Len(parts) + 1
    BY <1>2
  <2> QED BY <1>2, <1>4, <2>1 DEF Apart
<1> QED BY <1>3, <1>4

LEMMA JoinedNotEmpty ==
  ASSUME NEW X, NEW sep \in X, NEW parts \in Seq(Seq(X)), NEW p \in Seq(X)
  PROVE  Joined(Append(parts, p), sep) # <<>>
<1>1. /\ Joined(Append(parts, p), sep) = Joined(parts, sep) \o (<<sep>> \o p)
      /\ Joined(parts, sep) \in Seq(X)
  BY JoinedAppend
<1>2. PICK j, u : j = Joined(parts, sep) /\ u = Joined(Append(parts, p), sep)
  OBVIOUS
<1>3. u = j \o (<<sep>> \o p) /\ j \in Seq(X)
  BY <1>1, <1>2
<1>4. Len(u) = Len(j) + 1 + Len(p) /\ Len(j) \in Nat /\ Len(p) \in Nat
  <2> QED BY ONLY <1>3, sep \in X, p \in Seq(X), PartAt
<1>5. Len(u) # 0
  BY <1>4
<1> QED BY <1>2, <1>5, EmptySeq

(* Parts are told by what they join to.                                    *)
LEMMA JoinedUnique ==
  ASSUME NEW X, NEW sep \in X, NEW p \in Seq(Seq(X)), NEW q \in Seq(Seq(X)),
         Apart(p, sep), Apart(q, sep), Joined(p, sep) = Joined(q, sep)
  PROVE  p = q
<1> DEFINE Told(n) == \A r, s \in Seq(Seq(X)) :
               Len(r) = n /\ Apart(r, sep) /\ Apart(s, sep) /\ Joined(r, sep) = Joined(s, sep) => r = s
           S == {n \in Nat : Told(n)}
<1>1. 0 \in S
  <2> SUFFICES ASSUME NEW r \in Seq(Seq(X)), NEW s \in Seq(Seq(X)),
                      Len(r) = 0, Joined(r, sep) = Joined(s, sep)
               PROVE  r = s
    OBVIOUS
  <2>1. r = <<>>
    BY EmptySeq
  <2>2. Joined(s, sep) = <<>>
    BY <2>1, JoinedEmpty
  <2>3. s = <<>>
    <3> SUFFICES ASSUME s # <<>> PROVE FALSE
      OBVIOUS
    <3>1. PICK s0 \in Seq(Seq(X)), b \in Seq(X) : s = Append(s0, b)
      BY SequenceEmptyOrAppend
    <3> QED BY <2>2, <3>1, JoinedNotEmpty
  <2> QED BY <2>1, <2>3
<1>2. ASSUME NEW n \in Nat, n \in S
      PROVE  n + 1 \in S
  <2> SUFFICES ASSUME NEW r \in Seq(Seq(X)), NEW s \in Seq(Seq(X)), Len(r) = n + 1,
                      Apart(r, sep), Apart(s, sep), Joined(r, sep) = Joined(s, sep)
               PROVE  r = s
    OBVIOUS
  <2>1. r # <<>>
    BY EmptySeq
  <2>2. PICK r0 \in Seq(Seq(X)), a \in Seq(X) : r = Append(r0, a)
    BY <2>1, SequenceEmptyOrAppend
  <2>3. s # <<>>
    BY <2>2, JoinedNotEmpty, JoinedEmpty
  <2>4. PICK s0 \in Seq(Seq(X)), b \in Seq(X) : s = Append(s0, b)
    BY <2>3, SequenceEmptyOrAppend
  <2>5. /\ Joined(r0, sep) \in Seq(X) /\ Joined(s0, sep) \in Seq(X)
        /\ Joined(r0, sep) \o (<<sep>> \o a) = Joined(s0, sep) \o (<<sep>> \o b)
    <3>1. Joined(r0, sep) \in Seq(X) /\ Joined(r, sep) = Joined(r0, sep) \o (<<sep>> \o a)
      <4>1. sep \in X /\ r0 \in Seq(Seq(X)) /\ a \in Seq(X)
        OBVIOUS
      <4>2. /\ Joined(Append(r0, a), sep) = Joined(r0, sep) \o (<<sep>> \o a)
            /\ Joined(r0, sep) \in Seq(X)
        BY ONLY <4>1, JoinedAppend
      <4> QED BY ONLY <2>2, <4>2
    <3>2. Joined(s0, sep) \in Seq(X) /\ Joined(s, sep) = Joined(s0, sep) \o (<<sep>> \o b)
      <4>1. sep \in X /\ s0 \in Seq(Seq(X)) /\ b \in Seq(X)
        OBVIOUS
      <4>2. /\ Joined(Append(s0, b), sep) = Joined(s0, sep) \o (<<sep>> \o b)
            /\ Joined(s0, sep) \in Seq(X)
        BY ONLY <4>1, JoinedAppend
      <4> QED BY ONLY <2>4, <4>2
    <3> QED BY <3>1, <3>2
  <2>6. Apart(r0, sep) /\ Apart(s0, sep) /\ sep \notin Range(a) /\ sep \notin Range(b)
    BY <2>2, <2>4, ApartAppend
  <2>7. Joined(r0, sep) = Joined(s0, sep) /\ a = b
    <3>1. PICK j \in Seq(X), k \in Seq(X) : j = Joined(r0, sep) /\ k = Joined(s0, sep)
      BY <2>5
    <3>2. PICK u : EndsIn(X, u, j, sep, a) /\ EndsIn(X, u, k, sep, b)
      BY <2>5, <3>1 DEF EndsIn
    <3>3. sep \notin Range(a) /\ sep \notin Range(b)
      BY <2>6
    <3>4. j = k /\ a = b
      BY <3>2, <3>3, LastPart
    <3> QED BY <3>1, <3>4
  <2>8. Len(r0) = n
    <3>1. Len(r) = Len(r0) + 1 /\ Len(r0) \in Nat
      BY <2>2, AppendAt
    <3> QED BY <3>1
  <2>9. r0 = s0
    BY <1>2, <2>6, <2>7, <2>8
  <2> QED BY <2>2, <2>4, <2>7, <2>9
<1> HIDE DEF S
<1>3. Len(p) \in S
  <2>1. Nat \subseteq S
    BY <1>1, <1>2, SetInduction
  <2> QED BY <2>1, LenProperties
<1> QED BY <1>3 DEF S

(***************************************************************************)
(* Splitting.                                                              *)
(***************************************************************************)

(* What is read of a text, cut at each separator.                          *)
Cut(X, parts, sep, text) ==
  /\ parts \in Seq(Seq(X)) /\ parts # <<>>
  /\ Apart(parts, sep) /\ Joined(parts, sep) = <<sep>> \o text

LEMMA CutEmpty ==
  ASSUME NEW X, NEW sep \in X
  PROVE  Cut(X, <<<<>>>>, sep, <<>>)
<1>1. PICK e : e = <<>>
  OBVIOUS
<1>2. e \in Seq(X) /\ e \in Seq(Seq(X)) /\ Range(e) = {} /\ Len(e) = 0
  BY <1>1, EmptySeq DEF Range
<1>3. <<e>> = Append(e, e) /\ <<e>> # <<>>
  BY <1>1
<1>4. Apart(e, sep)
  BY <1>2 DEF Apart
<1>5. Apart(<<e>>, sep)
  BY <1>2, <1>3, <1>4, ApartAppend
<1>6. Joined(e, sep) = e /\ <<sep>> \o e \in Seq(X) /\ <<sep>> \o e = <<sep>>
  <2>1. <<sep>> \in Seq(X)
    OBVIOUS
  <2> QED BY <1>1, <1>2, <2>1, JoinedEmpty, ConcatProperties, ConcatEmptySeq
<1>7. Joined(<<e>>, sep) = <<sep>> \o e
  <2>1. Joined(Append(e, e), sep) = Joined(e, sep) \o (<<sep>> \o e)
    BY <1>2, JoinedAppend
  <2> QED BY <1>1, <1>3, <1>6, <2>1, ConcatEmptySeq
<1> QED BY <1>1, <1>2, <1>3, <1>5, <1>7, AppendProperties DEF Cut

(* Concatenation may be regrouped.                                         *)
Regroups(a, b, c) == (a \o b) \o c = a \o (b \o c)

LEMMA ConcatRegroups ==
  ASSUME NEW X, NEW a \in Seq(X), NEW b \in Seq(X), NEW c \in Seq(X)
  PROVE  Regroups(a, b, c)
BY ConcatAssociative DEF Regroups

(* A symbol more at the end of a part is one more at the end of the text.  *)
Grown(sep, a, b, t, x) ==
  a \o (<<sep>> \o b) = <<sep>> \o t => a \o (<<sep>> \o (b \o <<x>>)) = <<sep>> \o (t \o <<x>>)

LEMMA GrownAlike ==
  ASSUME NEW X, NEW sep \in X, NEW a \in Seq(X), NEW b \in Seq(X), NEW t \in Seq(X), NEW x \in X
  PROVE  Grown(sep, a, b, t, x)
<1>1. PICK head, end : head = <<sep>> /\ end = <<x>>
  OBVIOUS
<1>2. a \in Seq(X) /\ b \in Seq(X) /\ t \in Seq(X) /\ head \in Seq(X) /\ end \in Seq(X)
  BY <1>1
<1>3. PICK part : part = head \o b
  OBVIOUS
<1>4. part \in Seq(X)
  BY <1>2, <1>3, ConcatProperties
<1>5. Regroups(head, b, end) /\ Regroups(head, t, end) /\ Regroups(a, part, end)
  BY ONLY <1>2, <1>4, ConcatRegroups
<1>6. /\ (head \o b) \o end = head \o (b \o end) /\ (head \o t) \o end = head \o (t \o end)
      /\ (a \o part) \o end = a \o (part \o end)
  BY <1>5 DEF Regroups
<1>7. ASSUME a \o part = head \o t
      PROVE  a \o (head \o (b \o end)) = head \o (t \o end)
  BY ONLY <1>3, <1>6, <1>7
<1> QED BY ONLY <1>1, <1>3, <1>7 DEF Grown

LEMMA CutContinued ==
  ASSUME NEW X, NEW sep \in X, NEW parts, NEW text \in Seq(X), Cut(X, parts, sep, text), NEW s \in X
  PROVE  Cut(X, Continued(parts, s, sep), sep, text \o <<s>>)
<1>0. parts \in Seq(Seq(X)) /\ <<s>> \in Seq(X) /\ <<sep>> \in Seq(X) /\ <<>> \in Seq(X)
  BY DEF Cut
<1>1. CASE s = sep
  <2>0. PICK e \in Seq(X) : e = <<>>
    BY <1>0
  <2>1. Continued(parts, s, sep) = Append(parts, e)
    BY <1>1, <2>0 DEF Continued
  <2>2. Joined(Append(parts, e), sep) = (<<sep>> \o text) \o (<<sep>> \o e)
    <3>1. Joined(Append(parts, e), sep) = Joined(parts, sep) \o (<<sep>> \o e)
      BY <1>0, JoinedAppend
    <3> QED BY <3>1 DEF Cut
  <2>3. (<<sep>> \o text) \o (<<sep>> \o e) = <<sep>> \o (text \o <<s>>)
    <3>1. <<sep>> \o e = <<s>>
      <4>1. <<sep>> \o <<>> = <<sep>>
        BY <1>0, ConcatEmptySeq
      <4> QED BY <1>1, <2>0, <4>1
    <3>2. (<<sep>> \o text) \o <<s>> = <<sep>> \o (text \o <<s>>)
      BY <1>0, ConcatAssociative
    <3> QED BY <3>1, <3>2
  <2>4. Apart(Append(parts, e), sep)
    <3>1. sep \notin Range(e)
      BY <2>0 DEF Range
    <3>2. Apart(parts, sep)
      BY DEF Cut
    <3>3. PICK t : t = Append(parts, e)
      OBVIOUS
    <3>4. Apart(t, sep)
      BY <1>0, <3>1, <3>2, <3>3, ApartAppend
    <3> QED BY <3>3, <3>4
  <2>5. Append(parts, e) \in Seq(Seq(X)) /\ Append(parts, e) # <<>>
    BY <1>0, AppendProperties
  <2> QED BY <2>1, <2>2, <2>3, <2>4, <2>5 DEF Cut
<1>2. CASE s # sep
  <2>1. PICK front \in Seq(Seq(X)), last \in Seq(X) : parts = Append(front, last)
    BY <1>0, SequenceEmptyOrAppend DEF Cut
  <2>2. Front(parts) = front /\ Last(parts) = last
    <3>1. /\ Len(parts) = Len(front) + 1 /\ Len(front) \in Nat /\ parts[Len(front) + 1] = last
          /\ \A n \in 1 .. Len(front) : parts[n] = front[n]
      BY <2>1, AppendAt
    <3>2. Len(parts) - 1 = Len(front)
      BY <3>1
    <3>3. PICK f : f = SubSeq(parts, 1, Len(front))
      OBVIOUS
    <3>4. f \in Seq(Seq(X)) /\ Len(f) = Len(front) /\ \A n \in 1 .. Len(front) : f[n] = front[n]
      <4>1. \A n \in 1 .. Len(front) : parts[n] \in Seq(X)
        BY <3>1, ElementOfSeq
      <4>2. 1 \in Int /\ Len(front) \in Int /\ Len(front) - 1 + 1 = Len(front)
            /\ (1 <= Len(front) => Len(front) - 1 + 1 = Len(front)) /\ (~(1 <= Len(front)) => Len(front) = 0)
            /\ \A n \in 1 .. Len(front) : 1 + n - 1 = n
        BY <3>1
      <4>3. /\ f \in Seq(Seq(X)) /\ Len(f) = IF 1 <= Len(front) THEN Len(front) - 1 + 1 ELSE 0
            /\ \A n \in 1 .. Len(front) - 1 + 1 : f[n] = parts[1 + n - 1]
        BY <3>3, <4>1, <4>2, SubSeqProperties
      <4> QED BY <3>1, <4>2, <4>3
    <3>5. f = front
      BY <3>4, SeqEqual
    <3> QED BY <3>1, <3>2, <3>3, <3>5 DEF Front, Last
  <2>3. PICK longer \in Seq(X) : longer = last \o <<s>>
    BY <1>0, ConcatProperties
  <2>4. Continued(parts, s, sep) = Append(front, longer)
    <3>1. Append(last, s) = longer
      BY <2>3, AppendIsConcat
    <3> QED BY <1>2, <2>2, <3>1 DEF Continued
  <2>5. /\ Joined(parts, sep) = Joined(front, sep) \o (<<sep>> \o last)
        /\ Joined(Append(front, longer), sep) = Joined(front, sep) \o (<<sep>> \o longer)
        /\ Joined(front, sep) \in Seq(X)
    BY <2>1, JoinedAppend
  <2>6. Joined(Append(front, longer), sep) = <<sep>> \o (text \o <<s>>)
    <3>1. PICK j : j = Joined(front, sep)
      OBVIOUS
    <3>2. sep \in X /\ j \in Seq(X) /\ last \in Seq(X) /\ text \in Seq(X) /\ s \in X
      BY <2>5, <3>1
    <3>3. j \o (<<sep>> \o last) = <<sep>> \o text
      BY <2>5, <3>1 DEF Cut
    <3>4. j \o (<<sep>> \o (last \o <<s>>)) = <<sep>> \o (text \o <<s>>)
      <4>1. Grown(sep, j, last, text, s)
        BY ONLY <3>2, GrownAlike
      <4> QED BY ONLY <3>3, <4>1 DEF Grown
    <3> QED BY ONLY <2>3, <2>5, <3>1, <3>4
  <2>7. Apart(Append(front, longer), sep)
    <3>1. Apart(front, sep) /\ sep \notin Range(last)
      BY <2>1, ApartAppend DEF Cut
    <3>2. Range(longer) = Range(last) \cup {s}
      <4>1. Range(last \o <<s>>) = Range(last) \cup Range(<<s>>)
        <5>1. PICK end : end = <<s>>
          OBVIOUS
        <5>2. last \in Seq(X) /\ end \in Seq(X)
          BY <1>0, <5>1
        <5>3. Range(last \o end) = Range(last) \cup Range(end)
          BY ONLY <5>2, RangeOfConcat
        <5> QED BY <5>1, <5>3
      <4>2. Range(<<s>>) = {s}
        BY DEF Range
      <4> QED BY <2>3, <4>1, <4>2
    <3>3. sep \notin Range(longer)
      BY <1>2, <3>1, <3>2
    <3>4. PICK t : t = Append(front, longer)
      OBVIOUS
    <3>5. Apart(t, sep)
      BY <3>1, <3>3, <3>4, ApartAppend
    <3> QED BY <3>4, <3>5
  <2>8. Append(front, longer) \in Seq(Seq(X)) /\ Append(front, longer) # <<>>
    BY AppendProperties
  <2> QED BY <2>4, <2>6, <2>7, <2>8 DEF Cut
<1> QED BY <1>1, <1>2

LEMMA AppendNotEmpty ==
  ASSUME NEW X, NEW s \in Seq(X), NEW x \in X
  PROVE  Append(s, x) \in Seq(X) /\ Append(s, x) # <<>>
<1>1. Append(s, x) \in Seq(X)
  BY AppendProperties
<1>2. Append(s, x) # <<>>
  BY AppendProperties
<1> QED BY <1>1, <1>2

LEMMA FieldsAreCut ==
  ASSUME NEW X, NEW sep \in X, NEW text \in Seq(X)
  PROVE  Cut(X, Fields(text, sep), sep, text)
<1> DEFINE N == Len(text)
           Solves(f) == f = [n \in 0 .. Len(text) |->
                               IF n = 0 THEN <<<<>>>> ELSE Continued(f[n - 1], text[n], sep)]
           V == {parts \in Seq(Seq(X)) : parts # <<>>}
           step == [n \in 1 .. N |-> [parts \in V |-> Continued(parts, text[n], sep)]]
<1>0. N \in Nat /\ \A n \in 1 .. N : text[n] \in X
  BY LenProperties
<1>1. \A s \in X : \A parts \in V : Continued(parts, s, sep) \in V
  <2> SUFFICES ASSUME NEW s \in X, NEW parts \in V
               PROVE  Continued(parts, s, sep) \in V
    OBVIOUS
  <2>1. PICK front \in Seq(Seq(X)), last \in Seq(X) : parts = Append(front, last)
    BY SequenceEmptyOrAppend
  <2>2. Front(parts) \in Seq(Seq(X)) /\ Last(parts) \in Seq(X)
    <3>1. Len(parts) \in Nat /\ Len(parts) # 0 /\ \A n \in 1 .. Len(parts) : parts[n] \in Seq(X)
      BY EmptySeq, LenProperties
    <3> QED BY <3>1, SubSeqProperties DEF Front, Last
  <2>3. <<>> \in Seq(X) /\ Append(Last(parts), s) \in Seq(X)
    BY <2>2, AppendProperties
  <2>4. Append(parts, <<>>) \in V
    BY <2>3, AppendNotEmpty
  <2>5. Append(Front(parts), Append(Last(parts), s)) \in V
    BY <2>2, <2>3, AppendNotEmpty
  <2> QED BY <2>4, <2>5 DEF Continued
<1> HIDE DEF V
<1>2. step \in [1 .. N -> [V -> V]] /\ \A n \in 1 .. N : \A parts \in V : step[n][parts] = Continued(parts, text[n], sep)
  BY <1>0, <1>1
<1> HIDE DEF step
<1>3. <<<<>>>> \in V
  BY CutEmpty DEF Cut, V
<1>4. \E f : Solves(f)
  <2>1. PICK base \in V : base = <<<<>>>>
    BY <1>3
  <2>2. \A n \in 1 .. N : \A parts \in V : step[n][parts] \in V
    BY <1>2
  <2>3. PICK f : Iterates(f, N, V, base, step)
    BY <1>0, <2>2, RecursionExists
  <2>4. f \in [0 .. N -> V] /\ \A n \in 0 .. N : f[n] = IF n = 0 THEN base ELSE step[n][f[n - 1]]
    BY <2>3 DEF Iterates
  <2>5. ASSUME NEW n \in 0 .. N
        PROVE  f[n] = IF n = 0 THEN <<<<>>>> ELSE Continued(f[n - 1], text[n], sep)
    <3>1. CASE n = 0
      BY <2>1, <2>4, <3>1
    <3>2. CASE n # 0
      <4>1. n \in 1 .. N /\ n - 1 \in 0 .. N
        BY <1>0, <3>2
      <4>2. f[n] = step[n][f[n - 1]] /\ f[n - 1] \in V
        BY <2>4, <3>2, <4>1
      <4> QED BY <1>2, <3>2, <4>1, <4>2
    <3> QED BY <3>1, <3>2
  <2>6. f = [n \in 0 .. N |-> f[n]]
    BY <2>4
  <2>7. [n \in 0 .. N |-> f[n]] = [n \in 0 .. Len(text) |-> IF n = 0 THEN <<<<>>>> ELSE Continued(f[n - 1], text[n], sep)]
    BY <2>5
  <2> QED BY <2>6, <2>7
<1>5. PICK g : g = CHOOSE f : Solves(f)
  OBVIOUS
<1>6. Solves(g)
  BY <1>4, <1>5
<1>7. Fields(text, sep) = g[N]
  BY <1>5 DEF Fields
<1>8. \A n \in 0 .. N : g[n] = IF n = 0 THEN <<<<>>>> ELSE Continued(g[n - 1], text[n], sep)
  BY <1>6
<1> DEFINE ReadUpTo(n) == Cut(X, g[n], sep, SubSeq(text, 1, n))
           S == {n \in Nat : n <= N => ReadUpTo(n)}
<1>9. 0 \in S
  <2>1. 0 \in 0 .. N
    BY <1>0
  <2>2. g[0] = <<<<>>>>
    BY <1>8, <2>1
  <2>3. SubSeq(text, 1, 0) = <<>>
    BY SubSeqEmpty
  <2> QED BY <2>2, <2>3, CutEmpty
<1>10. ASSUME NEW n \in Nat, n \in S
       PROVE  n + 1 \in S
  <2> SUFFICES ASSUME n + 1 <= N
               PROVE  ReadUpTo(n + 1)
    <3> HIDE DEF ReadUpTo
    <3> QED OBVIOUS
  <2>1. PICK m : m = n + 1
    OBVIOUS
  <2>2. m \in 0 .. N /\ m \in 1 .. N /\ m # 0 /\ m - 1 = n /\ 1 \in 1 .. Len(text) /\ m \in 1 .. Len(text) /\ n <= N
    BY <1>0, <2>1
  <2>3. g[m] = Continued(g[n], text[m], sep)
    BY <1>8, <2>2
  <2>4. Cut(X, g[n], sep, SubSeq(text, 1, n))
    BY <1>10, <2>2
  <2>5. PICK read : read = SubSeq(text, 1, n)
    OBVIOUS
  <2>6. read \in Seq(X)
    <3>1. \A k \in 1 .. n : text[k] \in X
      BY <1>0, <2>2
    <3> QED BY <2>5, <3>1, SubSeqProperties
  <2>7. text[m] \in X
    BY <1>0, <2>2
  <2>8. Cut(X, Continued(g[n], text[m], sep), sep, read \o <<text[m]>>)
    BY <2>4, <2>5, <2>6, <2>7, CutContinued
  <2>9. SubSeq(text, 1, m) = SubSeq(text, 1, m - 1) \o <<text[m]>>
    BY <2>2, SubSeqRecursiveSecond
  <2> QED BY <2>1, <2>2, <2>3, <2>5, <2>8, <2>9
<1> HIDE DEF S
<1>11. N \in S
  BY <1>0, <1>9, <1>10, SetInduction
<1>12. ReadUpTo(N)
  <2> HIDE DEF ReadUpTo
  <2> QED BY <1>0, <1>11 DEF S
<1> QED BY <1>7, <1>12, SubSeqFull

(* A text is cut in one way.                                               *)
LEMMA CutUnique ==
  ASSUME NEW X, NEW sep \in X, NEW text, NEW p, NEW q, Cut(X, p, sep, text), Cut(X, q, sep, text)
  PROVE  p = q
BY JoinedUnique DEF Cut

LEMMA CutWhole ==
  ASSUME NEW X, NEW sep \in X, NEW text \in Seq(X), sep \notin Range(text)
  PROVE  Cut(X, <<text>>, sep, text)
<1>1. PICK e : e = <<>>
  OBVIOUS
<1>2. e \in Seq(Seq(X)) /\ Len(e) = 0
  BY <1>1, EmptySeq
<1>3. PICK one : one = Append(e, text)
  OBVIOUS
<1>4. one = <<text>> /\ one # <<>> /\ one \in Seq(Seq(X))
  BY <1>1, <1>3
<1>5. Apart(e, sep)
  BY <1>2 DEF Apart
<1>6. Apart(one, sep)
  BY <1>2, <1>3, <1>5, ApartAppend
<1>7. Joined(one, sep) = Joined(e, sep) \o (<<sep>> \o text)
  BY <1>2, <1>3, JoinedAppend
<1>8. Joined(e, sep) = <<>>
  BY <1>1, JoinedEmpty
<1>9. <<>> \o (<<sep>> \o text) = <<sep>> \o text
  <2>1. <<sep>> \o text \in Seq(X)
    BY Single, ConcatProperties
  <2> QED BY <2>1, ConcatEmptySeq
<1>10. Joined(one, sep) = <<sep>> \o text
  BY <1>7, <1>8, <1>9
<1>11. Cut(X, one, sep, text)
  BY <1>4, <1>6, <1>10 DEF Cut
<1> QED BY <1>4, <1>11

LEMMA FieldsOfPart ==
  ASSUME NEW X, NEW sep \in X, NEW text \in Seq(X), sep \notin Range(text)
  PROVE  Fields(text, sep) = <<text>>
<1>1. Cut(X, <<text>>, sep, text)
  BY CutWhole
<1>2. Cut(X, Fields(text, sep), sep, text)
  BY FieldsAreCut
<1> QED BY ONLY <1>1, <1>2, sep \in X, CutUnique

(***************************************************************************)
(* Directories.                                                            *)
(***************************************************************************)

LEMMA SlashIsSymbol == "/" \in Symbols /\ ":" \in Symbols /\ "." \in Symbols
BY DEF Symbols, Delimiters

(* Single names are gone through one by one.                               *)
LEMMA WalkedIs ==
  ASSUME NEW names \in Seq(Seq(Symbols)), \A name \in Range(names) : SingleName(name)
  PROVE  Walked(names) = names
<1>0. Len(names) \in Nat /\ DOMAIN names = 1 .. Len(names) /\ \A n \in 1 .. Len(names) : names[n] \in Seq(Symbols)
  BY LenProperties
<1>1. \A n \in 1 .. Len(names) : /\ names[n] \notin {<<>>, <<".">>, Up} /\ "/" \notin Range(names[n])
                                 /\ Fields(names[n], "/") = <<names[n]>>
  <2> SUFFICES ASSUME NEW n \in 1 .. Len(names)
               PROVE  /\ names[n] \notin {<<>>, <<".">>, Up} /\ "/" \notin Range(names[n])
                      /\ Fields(names[n], "/") = <<names[n]>>
    OBVIOUS
  <2>1. names[n] \in Range(names)
    BY RangeEquality
  <2>2. names[n] \notin {<<>>, <<".">>, Up} /\ "/" \notin Range(names[n])
    BY <2>1 DEF SingleName
  <2>3. names[n] \in Seq(Symbols)
    BY <1>0
  <2>4. Fields(names[n], "/") = <<names[n]>>
    BY <2>2, <2>3, SlashIsSymbol, FieldsOfPart
  <2> QED BY <2>2, <2>4
<1>2. FlattenSeq([n \in DOMAIN names |-> Fields(names[n], "/")]) = names
  <2>1. [n \in DOMAIN names |-> Fields(names[n], "/")] = [n \in DOMAIN names |-> <<names[n]>>]
    BY <1>0, <1>1
  <2> QED BY <2>1, FlattenSingles
<1> DEFINE Solves(f) == f = [n \in 0 .. Len(names) |-> IF n = 0 THEN <<>> ELSE Entered(f[n - 1], names[n])]
<1>3. Walked(names) = (CHOOSE f : Solves(f))[Len(names)]
  <2>1. PICK s : s = FlattenSeq([n \in DOMAIN names |-> Fields(names[n], "/")])
    OBVIOUS
  <2>2. Walked(names) = (CHOOSE f : f = [n \in 0 .. Len(s) |-> IF n = 0 THEN <<>> ELSE Entered(f[n - 1], s[n])])[Len(s)]
    BY <2>1 DEF Walked
  <2>3. s = names
    BY <1>2, <2>1
  <2> QED BY <2>2, <2>3
<1>4. ASSUME NEW n \in 1 .. Len(names)
      PROVE  Entered(SubSeq(names, 1, n - 1), names[n]) = SubSeq(names, 1, n)
  <2>1. Entered(SubSeq(names, 1, n - 1), names[n]) = Append(SubSeq(names, 1, n - 1), names[n])
    BY <1>1 DEF Entered
  <2>2. SubSeq(names, 1, n - 1) \in Seq(Seq(Symbols))
    <3>1. \A k \in 1 .. n - 1 : names[k] \in Seq(Symbols)
      BY <1>0
    <3>2. 1 \in Int /\ n - 1 \in Int
      BY <1>0
    <3> QED BY <3>1, <3>2, SubSeqProperties
  <2>3. Append(SubSeq(names, 1, n - 1), names[n]) = SubSeq(names, 1, n - 1) \o <<names[n]>>
    BY <1>0, <2>2, AppendIsConcat
  <2>4. 1 \in 1 .. Len(names) /\ n \in 1 .. Len(names)
    BY <1>0
  <2>5. SubSeq(names, 1, n) = SubSeq(names, 1, n - 1) \o <<names[n]>>
    BY <2>4, SubSeqRecursiveSecond
  <2> QED BY <2>1, <2>3, <2>5
<1>5. PICK f : f = [n \in 0 .. Len(names) |-> SubSeq(names, 1, n)]
  OBVIOUS
<1>6. Solves(f)
  <2>1. ASSUME NEW n \in 0 .. Len(names)
        PROVE  f[n] = IF n = 0 THEN <<>> ELSE Entered(f[n - 1], names[n])
    <3>1. CASE n = 0
      BY <1>5, <3>1, SubSeqEmpty
    <3>2. CASE n # 0
      <4>1. n \in 1 .. Len(names) /\ n - 1 \in 0 .. Len(names)
        BY <1>0, <3>2
      <4> QED BY <1>4, <1>5, <3>2, <4>1
    <3> QED BY <3>1, <3>2
  <2>2. f = [n \in 0 .. Len(names) |-> f[n]]
    BY <1>5
  <2>3. [n \in 0 .. Len(names) |-> f[n]] = [n \in 0 .. Len(names) |-> IF n = 0 THEN <<>> ELSE Entered(f[n - 1], names[n])]
    BY <2>1
  <2> QED BY <2>2, <2>3
<1>7. PICK g : g = CHOOSE h : Solves(h)
  OBVIOUS
<1>8. Solves(g)
  BY <1>6, <1>7
<1>9. \A n \in 0 .. Len(names) : g[n] = IF n = 0 THEN <<>> ELSE Entered(g[n - 1], names[n])
  BY <1>8
<1> DEFINE Gone(n) == g[n] = SubSeq(names, 1, n)
           S == {n \in Nat : n <= Len(names) => Gone(n)}
<1>10. 0 \in S
  <2>1. 0 \in 0 .. Len(names)
    BY <1>0
  <2>2. g[0] = <<>>
    BY <1>9, <2>1
  <2>3. SubSeq(names, 1, 0) = <<>>
    BY SubSeqEmpty
  <2> QED BY <2>2, <2>3
<1>11. ASSUME NEW n \in Nat, n \in S
       PROVE  n + 1 \in S
  <2> SUFFICES ASSUME n + 1 <= Len(names)
               PROVE  Gone(n + 1)
    <3> HIDE DEF Gone
    <3> QED OBVIOUS
  <2>1. PICK m : m = n + 1
    OBVIOUS
  <2>2. m \in 0 .. Len(names) /\ m \in 1 .. Len(names) /\ m # 0 /\ m - 1 = n /\ n <= Len(names)
    BY <1>0, <2>1
  <2>3. g[m] = Entered(g[n], names[m]) /\ g[n] = SubSeq(names, 1, m - 1)
    BY <1>9, <1>11, <2>2
  <2>4. g[m] = SubSeq(names, 1, m)
    BY <1>4, <2>2, <2>3
  <2> QED BY <2>1, <2>4
<1> HIDE DEF S
<1>12. Len(names) \in S
  BY <1>0, <1>10, <1>11, SetInduction
<1>13. Gone(Len(names))
  <2> HIDE DEF Gone
  <2> QED BY <1>0, <1>12 DEF S
<1> QED BY <1>3, <1>7, <1>13, SubSeqFull

(***************************************************************************)
(* URLs.                                                                   *)
(***************************************************************************)

(* A sequence is its front and its last.                                   *)
LEMMA FrontLast ==
  ASSUME NEW X, NEW s \in Seq(X), s # <<>>
  PROVE  /\ Front(s) \in Seq(X) /\ Last(s) \in X /\ s = Append(Front(s), Last(s))
         /\ Len(s) \in Nat \ {0} /\ Len(Front(s)) = Len(s) - 1
<1>1. Len(s) \in Nat \ {0} /\ \A n \in 1 .. Len(s) : s[n] \in X
  BY EmptySeq, LenProperties
<1>2. PICK f, y : f = Front(s) /\ y = Last(s)
  OBVIOUS
<1>3. /\ f \in Seq(X) /\ Len(f) = Len(s) - 1 /\ y \in X /\ y = s[Len(s)]
      /\ \A n \in 1 .. Len(f) : f[n] = s[n]
  <2>1. f = SubSeq(s, 1, Len(s) - 1) /\ y = s[Len(s)]
    BY <1>2 DEF Front, Last
  <2>2. 1 \in Int /\ Len(s) - 1 \in Int /\ \A n \in 1 .. Len(s) - 1 : s[n] \in X
    BY <1>1
  <2>3. PICK m : m = Len(s) - 1
    OBVIOUS
  <2>4. f = SubSeq(s, 1, m) /\ m \in Nat /\ \A n \in 1 .. m : s[n] \in X
    BY <1>1, <2>1, <2>2, <2>3
  <2>5. f \in Seq(X) /\ Len(f) = m /\ \A n \in 1 .. m : f[n] = s[1 + n - 1]
    BY <2>4, SubSeqProperties
  <2>6. y \in X
    BY <1>1, <2>1
  <2> QED BY <2>1, <2>3, <2>4, <2>5, <2>6
<1>4. PICK t : t = Append(f, y)
  OBVIOUS
<1>5. /\ t \in Seq(X) /\ Len(t) = Len(f) + 1 /\ t[Len(f) + 1] = y
      /\ \A n \in 1 .. Len(f) : t[n] = f[n]
  BY <1>3, <1>4, AppendAt
<1>6. \A n \in 1 .. Len(s) : t[n] = s[n]
  BY <1>1, <1>3, <1>5
<1>7. t = s
  BY <1>1, <1>3, <1>5, <1>6, SeqEqual
<1> QED BY <1>1, <1>2, <1>3, <1>4, <1>7

(* Parts begin with the separator.                                         *)
LEMMA JoinedStarts ==
  ASSUME NEW X, NEW sep \in X, NEW parts \in Seq(Seq(X)), NEW p \in Seq(X)
  PROVE  /\ Joined(Append(parts, p), sep) \in Seq(X)
         /\ Len(Joined(Append(parts, p), sep)) \in Nat \ {0}
         /\ Joined(Append(parts, p), sep)[1] = sep
<1> DEFINE Begins(n) == \A r \in Seq(Seq(X)) : \A x \in Seq(X) : Len(r) = n =>
               LET j == Joined(Append(r, x), sep)
               IN  j \in Seq(X) /\ Len(j) \in Nat \ {0} /\ j[1] = sep
           S == {n \in Nat : Begins(n)}
<1>1. 0 \in S
  <2> SUFFICES ASSUME NEW r \in Seq(Seq(X)), NEW x \in Seq(X), Len(r) = 0, NEW j, j = Joined(Append(r, x), sep)
               PROVE  j \in Seq(X) /\ Len(j) \in Nat \ {0} /\ j[1] = sep
    OBVIOUS
  <2>1. PICK e : e = Joined(r, sep)
    OBVIOUS
  <2>2. j = e \o (<<sep>> \o x) /\ e \in Seq(X)
    BY <2>1, JoinedAppend
  <2>3. r = <<>>
    BY EmptySeq
  <2>4. e = <<>>
    BY <2>1, <2>3, JoinedEmpty
  <2>5. Len(e) = 0
    BY <2>4
  <2>6. j \in Seq(X) /\ Len(j) = Len(e) + 1 + Len(x) /\ Len(x) \in Nat /\ j[Len(e) + 1] = sep
    <3>1. sep \in X /\ e \in Seq(X) /\ x \in Seq(X) /\ j = e \o (<<sep>> \o x)
      BY <2>2
    <3>2. /\ j \in Seq(X) /\ Len(j) = Len(e) + 1 + Len(x) /\ Len(e) \in Nat /\ Len(x) \in Nat
          /\ j[Len(e) + 1] = sep /\ \A k \in 1 .. Len(e) : j[k] = e[k]
          /\ \A k \in 1 .. Len(x) : j[Len(e) + 1 + k] = x[k]
      BY ONLY <3>1, PartAt
    <3> QED BY <3>2
  <2> QED BY <2>5, <2>6
<1>2. ASSUME NEW n \in Nat, n \in S
      PROVE  n + 1 \in S
  <2> SUFFICES ASSUME NEW r \in Seq(Seq(X)), NEW x \in Seq(X), Len(r) = n + 1, NEW j, j = Joined(Append(r, x), sep)
               PROVE  j \in Seq(X) /\ Len(j) \in Nat \ {0} /\ j[1] = sep
    <3> HIDE DEF S
    <3>1. Begins(n + 1)
      OBVIOUS
    <3> QED BY <3>1 DEF S
  <2>1. PICK e : e = Joined(r, sep)
    OBVIOUS
  <2>2. j = e \o (<<sep>> \o x) /\ e \in Seq(X)
    BY <2>1, JoinedAppend
  <2>3. r # <<>>
    OBVIOUS
  <2>4. PICK f, y : f = Front(r) /\ y = Last(r)
    OBVIOUS
  <2>5. f \in Seq(Seq(X)) /\ y \in Seq(X) /\ r = Append(f, y) /\ Len(f) = n
    <3>1. /\ f \in Seq(Seq(X)) /\ y \in Seq(X) /\ r = Append(f, y)
          /\ Len(f) = Len(r) - 1
      BY <2>3, <2>4, FrontLast
    <3> QED BY <3>1
  <2>6. Len(e) \in Nat \ {0} /\ e[1] = sep
    BY <1>2, <2>1, <2>5
  <2>7. j \in Seq(X) /\ Len(j) = Len(e) + 1 + Len(x) /\ Len(x) \in Nat /\ \A k \in 1 .. Len(e) : j[k] = e[k]
    <3>1. sep \in X /\ e \in Seq(X) /\ x \in Seq(X) /\ j = e \o (<<sep>> \o x)
      BY <2>2
    <3>2. /\ j \in Seq(X) /\ Len(j) = Len(e) + 1 + Len(x) /\ Len(e) \in Nat /\ Len(x) \in Nat
          /\ j[Len(e) + 1] = sep /\ \A k \in 1 .. Len(e) : j[k] = e[k]
          /\ \A k \in 1 .. Len(x) : j[Len(e) + 1 + k] = x[k]
      BY ONLY <3>1, PartAt
    <3> QED BY <3>2
  <2> QED BY <2>6, <2>7
<1> HIDE DEF S
<1>3. Len(parts) \in Nat /\ Len(parts) \in S
  BY <1>1, <1>2, SetInduction, LenProperties
<1> QED BY <1>3 DEF S

(* A text that begins with a head and goes on with a separator.            *)
Headed(X, u, a, sep, j) ==
  sep \in X /\ a \in Seq(X) /\ j \in Seq(X) /\ Len(j) \in Nat \ {0} /\ j[1] = sep /\ u = a \o j

(* It has one head that the separator is not in.                           *)
LEMMA HeadUnique ==
  ASSUME NEW X, NEW u, NEW sep, NEW a, NEW j, Headed(X, u, a, sep, j), sep \notin Range(a),
         NEW b, NEW k, Headed(X, u, b, sep, k), sep \notin Range(b)
  PROVE  a = b /\ j = k
<1>0. /\ a \in Seq(X) /\ b \in Seq(X) /\ j \in Seq(X) /\ k \in Seq(X) /\ u = a \o j /\ u = b \o k
      /\ Len(j) \in Nat \ {0} /\ Len(k) \in Nat \ {0} /\ j[1] = sep /\ k[1] = sep
  BY DEF Headed
<1>1. /\ Len(u) = Len(a) + Len(j) /\ Len(a) \in Nat /\ \A n \in 1 .. Len(a) : u[n] = a[n]
      /\ \A n \in 1 .. Len(j) : u[Len(a) + n] = j[n]
  <2>1. a \in Seq(X) /\ j \in Seq(X) /\ u = a \o j
    BY <1>0
  <2> QED BY ONLY <2>1, ConcatAt
<1>2. /\ Len(u) = Len(b) + Len(k) /\ Len(b) \in Nat /\ \A n \in 1 .. Len(b) : u[n] = b[n]
      /\ \A n \in 1 .. Len(k) : u[Len(b) + n] = k[n]
  <2>1. b \in Seq(X) /\ k \in Seq(X) /\ u = b \o k
    BY <1>0
  <2> QED BY ONLY <2>1, ConcatAt
<1>3. (\A n \in 1 .. Len(a) : a[n] # sep) /\ (\A n \in 1 .. Len(b) : b[n] # sep)
  BY <1>0, RangeEquality
<1>4. u[Len(a) + 1] = sep /\ u[Len(b) + 1] = sep
  <2>1. 1 \in 1 .. Len(j) /\ 1 \in 1 .. Len(k)
    BY <1>0
  <2>2. u[Len(a) + 1] = j[1] /\ u[Len(b) + 1] = k[1]
    BY ONLY <1>1, <1>2, <2>1
  <2> QED BY <1>0, <2>2
<1>5. Len(a) = Len(b)
  <2>1. ~(Len(a) < Len(b))
    <3>1. Len(a) < Len(b) => Len(a) + 1 \in 1 .. Len(b)
      BY <1>1, <1>2
    <3> QED BY <1>2, <1>3, <1>4, <3>1
  <2>2. ~(Len(b) < Len(a))
    <3>1. Len(b) < Len(a) => Len(b) + 1 \in 1 .. Len(a)
      BY <1>1, <1>2
    <3> QED BY <1>1, <1>3, <1>4, <3>1
  <2> QED BY <1>1, <1>2, <2>1, <2>2
<1>6. a = b
  BY <1>0, <1>1, <1>2, <1>5, SeqEqual
<1>7. Len(j) = Len(k) /\ \A n \in 1 .. Len(j) : j[n] = k[n]
  <2>1. Len(j) = Len(k)
    BY <1>0, <1>1, <1>2, <1>5
  <2>2. ASSUME NEW n \in 1 .. Len(j)
        PROVE  j[n] = k[n]
    <3>1. u[Len(a) + n] = j[n]
      BY <1>1
    <3>2. u[Len(b) + n] = k[n]
      BY <1>2, <2>1
    <3> QED BY <1>5, <3>1, <3>2
  <2> QED BY <2>1, <2>2
<1>8. j = k
  BY <1>0, <1>7, SeqEqual
<1> QED BY <1>6, <1>8

(* Where what comes before the parts ends.                                 *)
HeadedBy(X, u, a, sep, p) ==
  /\ sep \in X /\ a \in Seq(X) /\ sep \notin Range(a)
  /\ p \in Seq(Seq(X)) /\ p # <<>> /\ Apart(p, sep)
  /\ u = a \o Joined(p, sep)

LEMMA HeadOfJoined ==
  ASSUME NEW X, NEW sep, NEW u, NEW a, NEW p, HeadedBy(X, u, a, sep, p),
         NEW b, NEW q, HeadedBy(X, u, b, sep, q)
  PROVE  a = b /\ p = q
<1>0. /\ sep \in X /\ a \in Seq(X) /\ sep \notin Range(a) /\ b \in Seq(X) /\ sep \notin Range(b)
      /\ p \in Seq(Seq(X)) /\ p # <<>> /\ Apart(p, sep) /\ q \in Seq(Seq(X)) /\ q # <<>> /\ Apart(q, sep)
      /\ u = a \o Joined(p, sep) /\ u = b \o Joined(q, sep)
  BY DEF HeadedBy
<1>1. ASSUME NEW r \in Seq(Seq(X)), r # <<>>, NEW c \in Seq(X), u = c \o Joined(r, sep)
      PROVE  Headed(X, u, c, sep, Joined(r, sep))
  <2>1. PICK f, y : f = Front(r) /\ y = Last(r)
    OBVIOUS
  <2>2. f \in Seq(Seq(X)) /\ y \in Seq(X) /\ r = Append(f, y)
    BY <1>1, <2>1, FrontLast
  <2>3. PICK j : j = Joined(r, sep)
    OBVIOUS
  <2>4. j \in Seq(X) /\ Len(j) \in Nat \ {0} /\ j[1] = sep
    <3>1. sep \in X /\ f \in Seq(Seq(X)) /\ y \in Seq(X)
      BY <1>0, <2>2
    <3>2. PICK i : i = Joined(Append(f, y), sep)
      OBVIOUS
    <3>3. i \in Seq(X) /\ Len(i) \in Nat \ {0} /\ i[1] = sep
      BY ONLY <3>1, <3>2, JoinedStarts
    <3> QED BY <2>2, <2>3, <3>2, <3>3
  <2>5. Headed(X, u, c, sep, j)
    BY <1>0, <1>1, <2>3, <2>4 DEF Headed
  <2> QED BY <2>3, <2>5
<1>2. Headed(X, u, a, sep, Joined(p, sep)) /\ Headed(X, u, b, sep, Joined(q, sep))
  BY <1>0, <1>1
<1>3. a = b /\ Joined(p, sep) = Joined(q, sep)
  BY <1>0, <1>2, HeadUnique
<1> QED BY <1>0, <1>3, JoinedUnique

(* What there is in a text that ends in a part.                            *)
LEMMA PartsOfEnd ==
  ASSUME NEW X, NEW u, NEW s, NEW sep, NEW a, EndsIn(X, u, s, sep, a)
  PROVE  /\ u \in Seq(X) /\ Len(u) = Len(s) + 1 + Len(a) /\ Len(s) \in Nat /\ Len(a) \in Nat
         /\ \A n \in 1 .. Len(a) : u[Len(s) + 1 + n] = a[n]
         /\ Range(u) = Range(s) \cup {sep} \cup Range(a)
<1>0. sep \in X /\ s \in Seq(X) /\ a \in Seq(X) /\ u = s \o (<<sep>> \o a)
  BY DEF EndsIn
<1>1. PICK h, c : h = <<sep>> /\ c = h \o a
  OBVIOUS
<1>2. h \in Seq(X) /\ Range(h) = {sep}
  BY <1>0, <1>1, Single
<1>3. c \in Seq(X) /\ Range(c) = Range(h) \cup Range(a)
  BY <1>0, <1>1, <1>2, RangeOfConcat
<1>4. u \in Seq(X) /\ Range(u) = Range(s) \cup Range(c)
  <2>1. u = s \o c /\ s \in Seq(X) /\ c \in Seq(X)
    BY <1>0, <1>1, <1>3
  <2> QED BY ONLY <2>1, RangeOfConcat
<1>5. /\ Len(u) = Len(s) + 1 + Len(a) /\ Len(s) \in Nat /\ Len(a) \in Nat
      /\ \A n \in 1 .. Len(a) : u[Len(s) + 1 + n] = a[n]
  BY <1>0, PartAt
<1> QED BY <1>2, <1>3, <1>4, <1>5

LEMMA AppendApart ==
  ASSUME NEW X, NEW r \in Seq(X), NEW s \in Seq(X), NEW x \in X, NEW y \in X, Append(r, x) = Append(s, y)
  PROVE  r = s /\ x = y
<1>1. PICK t : t = Append(r, x)
  OBVIOUS
<1>2. t = Append(s, y)
  BY <1>1
<1>3. /\ Len(t) = Len(r) + 1 /\ Len(r) \in Nat /\ t[Len(r) + 1] = x
      /\ \A n \in 1 .. Len(r) : t[n] = r[n]
  BY <1>1, AppendAt
<1>4. /\ Len(t) = Len(s) + 1 /\ Len(s) \in Nat /\ t[Len(s) + 1] = y
      /\ \A n \in 1 .. Len(s) : t[n] = s[n]
  BY <1>2, AppendAt
<1>5. Len(r) = Len(s)
  BY <1>3, <1>4
<1>6. x = y /\ \A n \in 1 .. Len(r) : r[n] = s[n]
  BY <1>3, <1>4, <1>5
<1> QED BY <1>5, <1>6, SeqEqual

(* The parts of a DID that name its directory.                             *)
Named(d) == \A component \in Range(Components(d)) : SingleName(component)

LEMMA ComponentsOf ==
  ASSUME NEW d, Formed(d)
  PROVE  /\ d.path \in Seq(Seq(Symbols)) /\ d.aid \in Seq(Symbols)
         /\ Components(d) \in Seq(Seq(Symbols)) /\ Components(d) # <<>>
         /\ Named(d) => Apart(Components(d), "/")
<1>1. d.path \in Seq(Seq(Symbols)) /\ d.aid \in Seq(Symbols)
  BY DEF Formed
<1>2. Components(d) \in Seq(Seq(Symbols)) /\ Components(d) # <<>>
  BY <1>1, AppendNotEmpty DEF Components
<1>3. ASSUME Named(d)
      PROVE  Apart(Components(d), "/")
  <2>1. \A n \in 1 .. Len(Components(d)) : Components(d)[n] \in Range(Components(d))
    BY <1>2, RangeEquality
  <2> QED BY <1>3, <2>1 DEF Apart, Named, SingleName
<1> QED BY <1>1, <1>2, <1>3

(* A DID is its host, its port and its components.                         *)
LEMMA DidIs ==
  ASSUME NEW d, Formed(d), NEW e, Formed(e),
         d.host = e.host, d.port = e.port, Components(d) = Components(e)
  PROVE  d = e
<1>1. d.path = e.path /\ d.aid = e.aid
  <2>1. PICK p, q, x, y : p = d.path /\ q = e.path /\ x = d.aid /\ y = e.aid
    OBVIOUS
  <2>2. p \in Seq(Seq(Symbols)) /\ q \in Seq(Seq(Symbols)) /\ x \in Seq(Symbols) /\ y \in Seq(Symbols)
    BY <2>1, ComponentsOf
  <2>3. Append(p, x) = Append(q, y)
    BY <2>1 DEF Components
  <2>4. PICK X : X = Seq(Symbols)
    OBVIOUS
  <2>5. p \in Seq(X) /\ q \in Seq(X) /\ x \in X /\ y \in X
    BY <2>2, <2>4
  <2>6. p = q /\ x = y
    BY ONLY <2>3, <2>5, AppendApart
  <2> QED BY <2>1, <2>6
<1>2. d = [host |-> d.host, port |-> d.port, path |-> d.path, aid |-> d.aid]
  BY DEF Formed
<1>3. e = [host |-> e.host, port |-> e.port, path |-> e.path, aid |-> e.aid]
  BY DEF Formed
<1> QED BY <1>1, <1>2, <1>3

(* The host and the port, as a URL has them.                               *)
Authority(d) == d.host \o (IF d.port = NoPort THEN <<>> ELSE <<":">> \o d.port)

LEMMA AuthorityOf ==
  ASSUME NEW d, Formed(d)
  PROVE  /\ Authority(d) \in Seq(Symbols) /\ "/" \notin Range(Authority(d))
         /\ d.host \in Seq(Symbols) /\ d.port \in Seq(Symbols)
         /\ d.port = NoPort => Authority(d) = d.host
         /\ d.port # NoPort => EndsIn(Symbols, Authority(d), d.host, ":", d.port)
         /\ d.port # NoPort => Last(Authority(d)) \in Digits
         /\ ":" \notin Range(d.port)
<1>0. /\ d.host \in Seq(Symbols) /\ d.port \in Seq(Digits) /\ "/" \notin Range(d.host)
      /\ Digits \subseteq Symbols /\ ":" \in Symbols
  BY DEF Formed, Symbols
<1>1. d.port \in Seq(Symbols) /\ Range(d.port) \subseteq Digits /\ Len(d.port) \in Nat
      /\ \A n \in 1 .. Len(d.port) : d.port[n] \in Digits
  <2>1. Len(d.port) \in Nat /\ DOMAIN d.port = 1 .. Len(d.port) /\ \A n \in 1 .. Len(d.port) : d.port[n] \in Digits
    BY <1>0, LenProperties
  <2>2. d.port \in Seq(Symbols)
    BY <1>0
  <2> QED BY <2>1, <2>2 DEF Range
<1>2. ":" \notin Range(d.port) /\ "/" \notin Range(d.port)
  BY <1>1 DEF Digits
<1>3. CASE d.port = NoPort
  <2>1. Authority(d) = d.host
    BY <1>0, <1>3, ConcatEmptySeq DEF Authority
  <2> QED BY <1>0, <1>1, <1>2, <1>3, <2>1
<1>4. CASE d.port # NoPort
  <2>1. Authority(d) = d.host \o (<<":">> \o d.port)
    BY <1>4 DEF Authority
  <2>2. PICK a : a = Authority(d)
    OBVIOUS
  <2>3. EndsIn(Symbols, a, d.host, ":", d.port)
    BY <1>0, <1>1, <2>1, <2>2 DEF EndsIn
  <2>4. /\ a \in Seq(Symbols) /\ Len(a) = Len(d.host) + 1 + Len(d.port) /\ Len(d.host) \in Nat
        /\ \A n \in 1 .. Len(d.port) : a[Len(d.host) + 1 + n] = d.port[n]
        /\ Range(a) = Range(d.host) \cup {":"} \cup Range(d.port)
    <3>1. PICK h, p, sep : h = d.host /\ p = d.port /\ sep = ":"
      OBVIOUS
    <3>2. EndsIn(Symbols, a, h, sep, p)
      BY <2>3, <3>1
    <3>3. /\ a \in Seq(Symbols) /\ Len(a) = Len(h) + 1 + Len(p) /\ Len(h) \in Nat
          /\ \A n \in 1 .. Len(p) : a[Len(h) + 1 + n] = p[n]
          /\ Range(a) = Range(h) \cup {sep} \cup Range(p)
      BY ONLY <3>2, PartsOfEnd
    <3> QED BY ONLY <3>1, <3>3
  <2>5. Len(d.port) # 0
    BY <1>1, <1>4, EmptySeq DEF NoPort
  <2>6. Last(a) \in Digits
    <3>1. Len(d.port) \in 1 .. Len(d.port)
      BY <1>1, <2>5
    <3>2. a[Len(a)] = d.port[Len(d.port)]
      BY <2>4, <3>1
    <3> QED BY <1>1, <3>1, <3>2 DEF Last
  <2>7. "/" \notin Range(a)
    BY <1>0, <1>2, <2>4
  <2> QED BY <1>0, <1>1, <1>2, <1>4, <2>2, <2>3, <2>4, <2>6, <2>7
<1> QED BY <1>3, <1>4

LEMMA AuthorityUnique ==
  ASSUME NEW d, Formed(d), NEW e, Formed(e), Authority(d) = Authority(e)
  PROVE  d.host = e.host /\ d.port = e.port
<1>1. ASSUME NEW x, Formed(x), NEW y, Formed(y), x.port = NoPort, y.port # NoPort, Authority(x) = Authority(y)
      PROVE  FALSE
  <2>1. x.host = Authority(y) /\ Last(x.host) \in Digits
    BY <1>1, AuthorityOf
  <2>2. EndsIn(Symbols, x.host, y.host, ":", y.port)
    BY <1>1, <2>1, AuthorityOf
  <2>3. ":" \in Range(x.host)
    BY <2>2, PartsOfEnd
  <2>4. Last(x.host) = "]"
    BY <1>1, <2>3 DEF Formed
  <2> QED BY <2>1, <2>4 DEF Digits
<1>2. CASE d.port = NoPort /\ e.port = NoPort
  BY <1>2, AuthorityOf
<1>3. CASE d.port # NoPort /\ e.port # NoPort
  <2>1. PICK u : u = Authority(d)
    OBVIOUS
  <2>2. EndsIn(Symbols, u, d.host, ":", d.port) /\ EndsIn(Symbols, u, e.host, ":", e.port)
    BY <1>3, <2>1, AuthorityOf
  <2> QED BY <2>2, AuthorityOf, LastPart
<1> QED BY <1>1, <1>2, <1>3

LEMMA UrlUnique ==
  ASSUME NEW d, Formed(d), Named(d), NEW e, Formed(e), Named(e), Url(d) = Url(e)
  PROVE  d = e
<1>1. Url(d) = Authority(d) \o Joined(Components(d), "/") /\ Url(e) = Authority(e) \o Joined(Components(e), "/")
  BY DEF Url, Authority
<1>2. PICK u, a, b, p, q : /\ u = Url(d) /\ a = Authority(d) /\ b = Authority(e)
                           /\ p = Components(d) /\ q = Components(e)
  OBVIOUS
<1>3. u = a \o Joined(p, "/") /\ u = b \o Joined(q, "/")
  BY <1>1, <1>2
<1>4. HeadedBy(Symbols, u, a, "/", p)
  BY <1>2, <1>3, AuthorityOf, ComponentsOf, SlashIsSymbol DEF HeadedBy
<1>5. HeadedBy(Symbols, u, b, "/", q)
  BY <1>2, <1>3, AuthorityOf, ComponentsOf, SlashIsSymbol DEF HeadedBy
<1>6. a = b /\ p = q
  BY <1>4, <1>5, HeadOfJoined
<1>7. d.host = e.host /\ d.port = e.port
  BY <1>2, <1>6, AuthorityUnique
<1> QED BY <1>2, <1>6, <1>7, DidIs

LEMMA FindIs ==
  ASSUME NEW X, NEW text \in Seq(X), NEW sep
  PROVE  /\ Find(text, sep) \in 0 .. Len(text)
         /\ Find(text, sep) # 0 => text[Find(text, sep)] = sep
<1> DEFINE I == {i \in 1 .. Len(text) : text[i] = sep}
<1>1. Find(text, sep) = IF I # {} THEN Min(I) ELSE 0
  BY DEF Find, SelectInSeq
<1>2. Len(text) \in Nat
  BY LenProperties
<1>3. CASE I = {}
  BY <1>1, <1>2, <1>3
<1>4. CASE I # {}
  <2>1. I \in SUBSET Nat
    BY <1>2
  <2>2. Min(I) \in I
    <3> HIDE DEF I
    <3> QED BY <1>4, <2>1, MinIsLeast
  <2> QED BY <1>1, <1>2, <1>4, <2>2
<1> QED BY <1>3, <1>4

(* A text from a symbol on, and a text up to one.                          *)
LEMMA FromIs ==
  ASSUME NEW X, NEW text \in Seq(X), NEW n \in Nat \ {0}
  PROVE  From(text, n) \in Seq(X)
<1>1. Len(text) \in Nat /\ \A i \in 1 .. Len(text) : text[i] \in X
  BY LenProperties
<1>2. \A i \in n .. Len(text) : text[i] \in X
  BY <1>1
<1>3. Len(text) \in Int /\ n \in Int
  BY <1>1
<1> QED BY <1>2, <1>3, SubSeqProperties DEF From

LEMMA UpToIs ==
  ASSUME NEW X, NEW text \in Seq(X), NEW n \in Int, n <= Len(text)
  PROVE  SubSeq(text, 1, n) \in Seq(X)
<1>1. Len(text) \in Nat /\ \A i \in 1 .. Len(text) : text[i] \in X
  BY LenProperties
<1>2. \A i \in 1 .. n : text[i] \in X
  BY <1>1
<1> QED BY <1>2, SubSeqProperties

LEMMA LineIs ==
  ASSUME NEW X, NEW text \in Seq(X)
  PROVE  /\ Line(text) \in Seq(X)
         /\ Range(text) \subseteq Range(Line(text)) \cup {"\n"}
<1>1. CASE text # <<>> /\ Last(text) = "\n"
  <2>1. Line(text) = Front(text) /\ Front(text) \in Seq(X) /\ Last(text) \in X /\ text = Append(Front(text), Last(text))
    BY <1>1, FrontLast DEF Line
  <2>2. PICK f : f = Front(text)
    OBVIOUS
  <2>3. f \in Seq(X) /\ "\n" \in X /\ text = Append(f, "\n") /\ Line(text) = f
    BY <1>1, <2>1, <2>2
  <2>4. Range(text) = Range(f) \cup {"\n"}
    BY ONLY <2>3, RangeOfAppend
  <2> QED BY <2>3, <2>4
<1>2. CASE ~(text # <<>> /\ Last(text) = "\n")
  BY <1>2 DEF Line
<1> QED BY <1>1, <1>2

LEMMA LineEnds ==
  ASSUME NEW text \in Seq(Symbols)
  PROVE  Line(text) \in Seq(Symbols) /\ (Line(text) = text \/ text = Append(Line(text), "\n"))
<1>1. CASE text # <<>> /\ Last(text) = "\n"
  <2>1. Line(text) = Front(text) /\ text = Append(Front(text), Last(text))
    BY <1>1, FrontLast DEF Line
  <2> QED BY <1>1, <2>1, LineIs
<1>2. CASE ~(text # <<>> /\ Last(text) = "\n")
  BY <1>2, LineIs DEF Line
<1> QED BY <1>1, <1>2

(* A text without a line's end, and all of its slices, are their lines.    *)
LEMMA LineOfNoEnd ==
  ASSUME NEW X, NEW text \in Seq(X), \A n \in 1 .. Len(text) : text[n] # "\n"
  PROVE  Line(text) = text
<1>1. CASE text = <<>>
  BY <1>1 DEF Line
<1>2. CASE text # <<>>
  <2>1. Len(text) \in Nat /\ Len(text) # 0
    BY <1>2, EmptySeq, LenProperties
  <2>2. Len(text) \in 1 .. Len(text)
    BY <2>1
  <2> QED BY <2>2 DEF Line, Last
<1> QED BY <1>1, <1>2

(* What str.lower leaves of a text.                                        *)
LEMMA LowerAt ==
  ASSUME NEW text \in Seq(Symbols)
  PROVE  /\ Lower(text) \in Seq(Symbols) /\ Len(Lower(text)) = Len(text) /\ Len(text) \in Nat
         /\ \A n \in 1 .. Len(text) : Lower(text)[n] # text[n] => Lower(text)[n] \in Letters /\ text[n] \in Letters
<1>1. Len(text) \in Nat /\ DOMAIN text = 1 .. Len(text) /\ \A n \in 1 .. Len(text) : text[n] \in Symbols
  BY LenProperties
<1>2. \A s \in Letters : Small[s] \in Letters
  BY DEF Small, Letters
<1>3. PICK t : t = Lower(text)
  OBVIOUS
<1>4. t = [n \in 1 .. Len(text) |-> IF text[n] \in Letters THEN Small[text[n]] ELSE text[n]]
  BY <1>1, <1>3 DEF Lower
<1>5. \A n \in 1 .. Len(text) : t[n] \in Symbols
  <2>1. Letters \subseteq Symbols
    BY DEF Symbols
  <2> QED BY <1>1, <1>2, <1>4, <2>1
<1>6. t \in Seq(Symbols) /\ Len(t) = Len(text)
  BY <1>1, <1>4, <1>5
<1>7. \A n \in 1 .. Len(text) : t[n] # text[n] => t[n] \in Letters /\ text[n] \in Letters
  BY <1>2, <1>4
<1> QED BY <1>1, <1>3, <1>6, <1>7

(* What _validate_host returns has no separator but in brackets.           *)
LEMMA HostIs ==
  ASSUME NEW host \in Seq(Symbols), DidAssumption
  PROVE  /\ Host(host) \in Seq(Symbols) /\ "/" \notin Range(Host(host))
         /\ ":" \in Range(Host(host)) => Last(Host(host)) = "]"
<1>0. Len(host) \in Nat /\ \A n \in 1 .. Len(host) : host[n] \in Symbols
  BY LenProperties
<1>1. PICK low : low = Lower(host)
  OBVIOUS
<1>2. /\ low \in Seq(Symbols) /\ Len(low) = Len(host)
      /\ \A n \in 1 .. Len(host) : low[n] # host[n] => low[n] \in Letters /\ host[n] \in Letters
  BY <1>1, LowerAt
<1>3. "/" \notin Letters /\ ":" \notin Letters /\ "]" \notin Letters
  BY DEF Letters
<1>4. CASE Host(host) = NoHost
  <2>1. NoHost \in Seq(Symbols) /\ Range(NoHost) = {}
    BY DEF NoHost, Range
  <2> QED BY <1>4, <2>1
<1>5. CASE host # <<>> /\ host[1] = "[" /\ Last(host) = "]" /\ SubSeq(host, 2, Len(host) - 1) \in Addresses
  <2>1. Host(host) = low
    BY <1>1, <1>5 DEF Host
  <2>2. PICK a : a = SubSeq(host, 2, Len(host) - 1)
    OBVIOUS
  <2>3. Len(a) = (IF 2 <= Len(host) - 1 THEN Len(host) - 1 - 2 + 1 ELSE 0)
        /\ \A i \in 1 .. Len(host) - 1 - 2 + 1 : a[i] = host[2 + i - 1]
    <3>1. PICK m : m = Len(host) - 1
      OBVIOUS
    <3>2. m \in Int /\ 2 \in Int /\ \A i \in 2 .. m : host[i] \in Symbols
      BY <1>0, <3>1
    <3>3. a = SubSeq(host, 2, m)
      BY <2>2, <3>1
    <3>4. Len(a) = (IF 2 <= m THEN m - 2 + 1 ELSE 0) /\ \A i \in 1 .. m - 2 + 1 : a[i] = host[2 + i - 1]
      BY <3>2, <3>3, SubSeqProperties
    <3> QED BY <3>1, <3>4
  <2>4. \A i \in 1 .. Len(a) : a[i] \in Letters \cup Digits \cup {":", "."}
    <3>1. a \in Seq(Letters \cup Digits \cup {":", "."})
      BY <1>5, <2>2 DEF DidAssumption
    <3> QED BY <3>1
  <2>5. \A n \in 1 .. Len(host) : host[n] # "/"
    <3> SUFFICES ASSUME NEW n \in 1 .. Len(host)
                 PROVE  host[n] # "/"
      OBVIOUS
    <3>1. CASE n = 1
      BY <1>5, <3>1
    <3>2. CASE n = Len(host)
      BY <1>5, <3>2 DEF Last
    <3>3. CASE n # 1 /\ n # Len(host)
      <4>1. PICK i : i = n - 1
        OBVIOUS
      <4>2. i \in 1 .. Len(host) - 1 - 2 + 1 /\ i \in 1 .. Len(a) /\ 2 + i - 1 = n
        BY <1>0, <2>3, <3>3, <4>1
      <4>3. a[i] = host[n]
        BY <2>3, <4>2
      <4>4. a[i] # "/"
        BY <2>4, <4>2 DEF Letters, Digits
      <4> QED BY <4>3, <4>4
    <3> QED BY <3>1, <3>2, <3>3
  <2>6. "/" \notin Range(low)
    <3>1. \A n \in 1 .. Len(low) : low[n] # "/"
      BY <1>2, <1>3, <2>5
    <3> QED BY <1>2, <3>1, RangeEquality
  <2>7. Last(low) = "]"
    <3>1. Len(host) \in 1 .. Len(host)
      BY <1>0, <1>5, EmptySeq
    <3> QED BY <1>2, <1>3, <1>5, <3>1 DEF Last
  <2> QED BY <1>2, <2>1, <2>6, <2>7
<1>6. CASE Over(Line(host), Letters \cup Digits \cup {"-", "."}) /\ Host(host) # NoHost
  <2>1. Host(host) = low
    BY <1>1, <1>6 DEF Host
  <2>2. Range(host) \subseteq Letters \cup Digits \cup {"-", "."} \cup {"\n"}
    BY <1>6, LineIs DEF Over
  <2>3. \A n \in 1 .. Len(host) : host[n] # "/" /\ host[n] # ":"
    <3>1. \A n \in 1 .. Len(host) : host[n] \in Range(host)
      BY RangeEquality
    <3> QED BY <1>3, <2>2, <3>1 DEF Digits
  <2>4. "/" \notin Range(low) /\ ":" \notin Range(low)
    <3>1. \A n \in 1 .. Len(low) : low[n] # "/" /\ low[n] # ":"
      BY <1>2, <1>3, <2>3
    <3> QED BY <1>2, <3>1, RangeEquality
  <2> QED BY <1>2, <2>1, <2>4
<1>7. Host(host) # NoHost => \/ host # <<>> /\ host[1] = "[" /\ Last(host) = "]" /\ SubSeq(host, 2, Len(host) - 1) \in Addresses
                             \/ Over(Line(host), Letters \cup Digits \cup {"-", "."})
  BY DEF Host
<1> QED BY <1>4, <1>5, <1>6, <1>7

(* What a span is taken apart into: the marker's place, and what is behind.  *)
LEMMA PortMarkerIs ==
  ASSUME NEW span \in Seq(Symbols)
  PROVE  /\ ExtractPortMarker(span).host \in Seq(Symbols)
         /\ ExtractPortMarker(span).port \in Seq(Digits)
<1> DEFINE I == {i \in 1 .. Len(span) : span[i] \in Markers}
           at == SelectLastInSeq(span, LAMBDA s : s \in Markers)
           digits == From(Line(span), at + 1)
<1>0. Len(span) \in Nat
  BY LenProperties
<1>1. at \in 0 .. Len(span)
  <2>1. at = IF I # {} THEN Max(I) ELSE 0
    BY DEF SelectLastInSeq
  <2>2. CASE I = {}
    BY <1>0, <2>1, <2>2
  <2>3. CASE I # {}
    <3>1. I \in SUBSET Nat /\ \A n \in I : n <= Len(span)
      BY <1>0
    <3>2. Max(I) \in I
      <4> HIDE DEF I
      <4> QED BY <1>0, <2>3, <3>1, GreatestElement
    <3> QED BY <1>0, <2>1, <2>3, <3>2
  <2> QED BY <2>2, <2>3
<1>2. digits \in Seq(Symbols)
  <2>1. Line(span) \in Seq(Symbols)
    BY LineIs
  <2>2. at + 1 \in Nat \ {0}
    BY <1>0, <1>1
  <2> HIDE DEF at
  <2> QED BY <2>1, <2>2, FromIs
<1>3. CASE at = 0 \/ ~Over(digits, Digits) \/ Len(digits) \notin 1 .. PortDigits
  <2>1. ExtractPortMarker(span) = [host |-> span, port |-> NoPort]
    BY <1>3 DEF ExtractPortMarker
  <2>2. NoPort \in Seq(Digits)
    BY DEF NoPort
  <2> QED BY <2>1, <2>2
<1>4. CASE ~(at = 0 \/ ~Over(digits, Digits) \/ Len(digits) \notin 1 .. PortDigits)
  <2>1. ExtractPortMarker(span) = [host |-> SubSeq(span, 1, at - 1), port |-> digits]
    BY <1>4 DEF ExtractPortMarker
  <2>2. SubSeq(span, 1, at - 1) \in Seq(Symbols)
    <3>1. at - 1 \in Int /\ at - 1 <= Len(span)
      BY <1>0, <1>1
    <3> HIDE DEF at
    <3> QED BY <3>1, UpToIs
  <2>3. digits \in Seq(Digits)
    <3>1. Over(digits, Digits)
      BY <1>4
    <3> HIDE DEF digits
    <3>2. Len(digits) \in Nat /\ digits = [n \in 1 .. Len(digits) |-> digits[n]] /\ \A n \in 1 .. Len(digits) : digits[n] \in Range(digits)
      BY <1>2, LenProperties, RangeEquality
    <3>3. \A n \in 1 .. Len(digits) : digits[n] \in Digits
      BY <3>1, <3>2 DEF Over
    <3> QED BY <3>2, <3>3
  <2> HIDE DEF at, digits
  <2> QED BY <2>1, <2>2, <2>3
<1> QED BY <1>3, <1>4

LEMMA SpanIs ==
  ASSUME NEW text \in Seq(Symbols)
  PROVE  Span(text) \in Nat
<1>0. Len(text) \in Nat /\ Find(text, "]") \in 0 .. Len(text) /\ Find(text, ":") \in 0 .. Len(text)
  BY LenProperties, FindIs
<1>1. BracketedSpan(text) \in Nat
  <2>1. PICK rest : rest = From(text, Find(text, "]") + 1)
    OBVIOUS
  <2>2. rest \in Seq(Symbols)
    <3>1. PICK n : n = Find(text, "]") + 1
      OBVIOUS
    <3>2. n \in Nat \ {0} /\ rest = From(text, n)
      BY <1>0, <2>1, <3>1
    <3> QED BY <3>2, FromIs
  <2> DEFINE T == {n \in 0 .. Len(rest) : \A k \in 1 .. n : rest[k] \in (IF k = 1 THEN Markers ELSE Digits)}
  <2>3. Len(rest) \in Nat
    BY <2>2, LenProperties
  <2>4. T \in SUBSET Nat /\ T # {} /\ \A n \in T : n <= Len(rest)
    <3>1. 0 \in T
      BY <2>3
    <3> QED BY <2>3, <3>1
  <2>5. BracketedSpan(text) = Find(text, "]") + Max(T)
    BY <2>1 DEF BracketedSpan
  <2> HIDE DEF T
  <2>6. Max(T) \in T
    BY <2>3, <2>4, GreatestElement
  <2>7. Max(T) \in Nat
    BY <2>4, <2>6
  <2> QED BY <1>0, <2>5, <2>7
<1> QED BY <1>0, <1>1 DEF Span

LEMMA FieldsIs ==
  ASSUME NEW text \in Seq(Symbols)
  PROVE  Fields(text, ":") \in Seq(Seq(Symbols)) /\ Fields(text, ":") # <<>>
<1>1. ":" \in Symbols
  BY SlashIsSymbol
<1>2. Cut(Symbols, Fields(text, ":"), ":", text)
  BY <1>1, FieldsAreCut
<1> QED BY <1>2 DEF Cut

LEMMA ParseFormed ==
  ASSUME NEW text \in Seq(Symbols), DidAssumption, Parse(text) # Invalid
  PROVE  Formed(Parse(text))
<1>1. PICK end : end = Span(text)
  OBVIOUS
<1>2. end \in Nat /\ Len(text) \in Nat
  BY <1>1, SpanIs, LenProperties
<1>3. PICK span, parts : span = SubSeq(text, 1, end) /\ parts = Fields(From(text, end + 2), ":")
  OBVIOUS
<1>4. PICK at : at = ExtractPortMarker(span)
  OBVIOUS
<1>5. PICK split : split = Split(text)
  OBVIOUS
<1>6. split = [tail |-> end < Len(text) /\ text[end + 1] = ":", at |-> at, path |-> Front(parts), aid |-> Last(parts)]
  BY <1>1, <1>3, <1>4, <1>5 DEF Split
<1>7. split.tail /\ Parse(text) = [host |-> Host(split.at.host), port |-> split.at.port, path |-> split.path, aid |-> split.aid]
  BY <1>5 DEF Parse
<1>8. Parse(text) = [host |-> Host(at.host), port |-> at.port, path |-> Front(parts), aid |-> Last(parts)]
  BY <1>6, <1>7
<1>9. end < Len(text)
  BY <1>6, <1>7
<1>10. span \in Seq(Symbols)
  BY <1>2, <1>3, <1>9, UpToIs
<1>11. at.host \in Seq(Symbols) /\ at.port \in Seq(Digits)
  BY <1>4, <1>10, PortMarkerIs
<1>12. parts \in Seq(Seq(Symbols)) /\ parts # <<>>
  <2>1. PICK rest, n : n = end + 2 /\ rest = From(text, n)
    OBVIOUS
  <2>2. rest \in Seq(Symbols)
    BY <1>2, <2>1, FromIs
  <2> QED BY <1>3, <2>1, <2>2, FieldsIs
<1>13. Front(parts) \in Seq(Seq(Symbols)) /\ Last(parts) \in Seq(Symbols)
  BY <1>12, FrontLast
<1>14. PICK host : host = Host(at.host)
  OBVIOUS
<1>15. /\ host \in Seq(Symbols) /\ "/" \notin Range(host)
       /\ ":" \in Range(host) => Last(host) = "]"
  BY <1>11, <1>14, HostIs
<1>16. Parse(text) = [host |-> host, port |-> at.port, path |-> Front(parts), aid |-> Last(parts)]
  BY <1>8, <1>14
<1> QED BY <1>11, <1>13, <1>15, <1>16 DEF Formed

(***************************************************************************)
(* The invariant.                                                          *)
(***************************************************************************)

InHand ==
  /\ stage = "parse" => raw \in Seq(Symbols)
  /\ stage = "place" => Formed(did)

Placed ==
  \A x \in site : Formed(x.did) /\ Named(x.did) /\ x.dir = Components(x.did)

DidInv == InHand /\ Placed

LEMMA DidInitInv == DidInit => DidInv
BY DEF DidInit, DidInv, InHand, Placed

LEMMA DidNextInv ==
  DidAssumption /\ DidInv /\ [DidNext]_didVars => DidInv'
<1> SUFFICES ASSUME DidAssumption, DidInv, [DidNext]_didVars
             PROVE  DidInv'
  OBVIOUS
<1>0. InHand /\ Placed
  BY DEF DidInv
<1>1. CASE Give
  <2>1. raw' \in Seq(Symbols)
    BY <1>1 DEF Give, DidAssumption
  <2>2. stage' = "parse" /\ site' = site
    BY <1>1 DEF Give
  <2> QED BY <1>0, <2>1, <2>2 DEF DidInv, InHand, Placed
<1>2. CASE Construct
  <2>1. Formed(did')
    BY <1>2 DEF Construct, DidAssumption
  <2>2. stage' = "place" /\ site' = site
    BY <1>2 DEF Construct
  <2> QED BY <1>0, <2>1, <2>2 DEF DidInv, InHand, Placed, Formed
<1>3. CASE ParseText
  <2>1. stage = "parse" /\ did' = Parse(raw) /\ site' = site /\ stage' = IF Parse(raw) = Invalid THEN "invalid" ELSE "place"
    BY <1>3 DEF ParseText
  <2>2. stage' = "place" => Formed(Parse(raw))
    BY <1>0, <2>1, ParseFormed DEF InHand
  <2>3. InHand'
    BY <2>1, <2>2 DEF InHand, Formed
  <2> QED BY <1>0, <2>1, <2>3 DEF DidInv, Placed
<1>4. CASE Place
  <2>1. stage = "place" /\ Formed(did) /\ stage' \in {"placed", "corrupt"}
    BY <1>0, <1>4 DEF Place, InHand
  <2>2. CASE \A component \in Range(Components(did)) : SingleName(component)
    <3>1. site' = site \cup {[did |-> did, dir |-> Walked(Components(did))]}
      BY <1>4, <2>2 DEF Place
    <3>2. Walked(Components(did)) = Components(did)
      <4>1. PICK names : names = Components(did)
        OBVIOUS
      <4>2. names \in Seq(Seq(Symbols)) /\ \A name \in Range(names) : SingleName(name)
        BY <2>1, <2>2, <4>1, ComponentsOf
      <4> QED BY <4>1, <4>2, WalkedIs
    <3>3. Named(did)
      BY <2>2 DEF Named
    <3>4. \A x \in site' : Formed(x.did) /\ Named(x.did) /\ x.dir = Components(x.did)
      BY <1>0, <2>1, <3>1, <3>2, <3>3 DEF Placed
    <3>5. Placed'
      BY <3>4 DEF Placed
    <3> QED BY <2>1, <3>5 DEF DidInv, InHand
  <2>3. CASE ~\A component \in Range(Components(did)) : SingleName(component)
    <3>1. site' = site
      BY <1>4, <2>3 DEF Place
    <3> QED BY <1>0, <2>1, <3>1 DEF DidInv, InHand, Placed
  <2> QED BY <2>2, <2>3
<1>5. CASE Exit
  <2>1. stage' = "ready" /\ site' = site
    BY <1>5 DEF Exit
  <2> QED BY <1>0, <2>1 DEF DidInv, InHand, Placed
<1>6. CASE UNCHANGED didVars
  BY <1>0, <1>6 DEF didVars, DidInv, InHand, Placed
<1> QED BY <1>1, <1>2, <1>3, <1>4, <1>5, <1>6 DEF DidNext

LEMMA PlacedApart == DidInv => PlacesAreTheirOwn
<1> SUFFICES ASSUME DidInv
             PROVE  PlacesAreTheirOwn
  OBVIOUS
<1>0. \A x \in site : Formed(x.did) /\ Named(x.did) /\ x.dir = Components(x.did)
  BY DEF DidInv, Placed
<1>1. ASSUME NEW x \in site, NEW y \in site, Url(x.did) = Url(y.did)
      PROVE  x.did = y.did
  BY <1>0, <1>1, UrlUnique
<1>2. ASSUME NEW x \in site
      PROVE  Len(x.dir) = Len(Components(x.did)) /\ Up \notin Range(x.dir)
  <2>1. \A name \in Range(x.dir) : name # Up
    BY <1>0 DEF Named, SingleName
  <2> QED BY <1>0, <2>1
<1>3. ASSUME NEW x \in site, NEW y \in site, x.did.host = y.did.host, x.did.port = y.did.port, x.dir = y.dir
      PROVE  x.did = y.did
  BY <1>0, <1>3, DidIs
<1> QED BY <1>1, <1>2, <1>3 DEF PlacesAreTheirOwn

THEOREM PlacesCorrect == DidSpec => []PlacesAreTheirOwn
<1>1. DidAssumption
  BY DidAssumption
<1>2. DidInv /\ [DidNext]_didVars => DidInv'
  BY <1>1, DidNextInv
<1> QED BY <1>2, DidInitInv, PlacedApart, PTL DEF DidSpec

(***************************************************************************)
(* What str.lower does not change.                                         *)
(***************************************************************************)

LEMMA LowerIs ==
  ASSUME NEW text \in Seq(Symbols), NEW t, t = Lower(text)
  PROVE  /\ t \in Seq(Symbols) /\ Len(t) = Len(text) /\ Len(text) \in Nat
         /\ \A n \in 1 .. Len(text) : t[n] = IF text[n] \in Letters THEN Small[text[n]] ELSE text[n]
         /\ \A n \in 1 .. Len(text) : text[n] \in Letters <=> t[n] \in Letters
         /\ \A n \in 1 .. Len(text) : text[n] \notin Letters => t[n] = text[n]
<1>1. Len(text) \in Nat /\ DOMAIN text = 1 .. Len(text) /\ \A n \in 1 .. Len(text) : text[n] \in Symbols
  BY LenProperties
<1>2. \A s \in Letters : Small[s] \in Letters
  BY DEF Small, Letters
<1>3. t = [n \in 1 .. Len(text) |-> IF text[n] \in Letters THEN Small[text[n]] ELSE text[n]]
  BY <1>1 DEF Lower
<1>4. \A n \in 1 .. Len(text) : t[n] = IF text[n] \in Letters THEN Small[text[n]] ELSE text[n]
  BY <1>3
<1>5. t \in Seq(Symbols) /\ Len(t) = Len(text)
  BY LowerAt
<1>6. \A n \in 1 .. Len(text) : text[n] \in Letters <=> t[n] \in Letters
  BY <1>2, <1>4
<1> QED BY <1>1, <1>4, <1>5, <1>6

LEMMA LowerTwice ==
  ASSUME NEW text \in Seq(Symbols)
  PROVE  Lower(Lower(text)) = Lower(text)
<1>1. PICK t : t = Lower(text)
  OBVIOUS
<1>2. PICK u : u = Lower(t)
  OBVIOUS
<1>3. /\ t \in Seq(Symbols) /\ Len(t) = Len(text) /\ Len(text) \in Nat
      /\ \A n \in 1 .. Len(text) : t[n] = IF text[n] \in Letters THEN Small[text[n]] ELSE text[n]
  BY <1>1, LowerIs
<1>4. /\ u \in Seq(Symbols) /\ Len(u) = Len(t)
      /\ \A n \in 1 .. Len(t) : u[n] = IF t[n] \in Letters THEN Small[t[n]] ELSE t[n]
  BY <1>2, <1>3, LowerIs
<1>5. \A s \in Letters : Small[s] \in Letters /\ Small[Small[s]] = Small[s]
  BY DEF Small, Letters
<1>6. \A n \in 1 .. Len(text) : u[n] = t[n]
  BY <1>3, <1>4, <1>5
<1>7. u = t
  BY <1>3, <1>4, <1>6, SeqEqual
<1> QED BY <1>1, <1>2, <1>7

LEMMA LowerConcat ==
  ASSUME NEW s \in Seq(Symbols), NEW t \in Seq(Symbols)
  PROVE  Lower(s \o t) = Lower(s) \o Lower(t)
<1>1. PICK u, v, ls, lt, w : u = s \o t /\ v = Lower(u) /\ ls = Lower(s) /\ lt = Lower(t) /\ w = ls \o lt
  OBVIOUS
<1>2. /\ u \in Seq(Symbols) /\ Len(u) = Len(s) + Len(t) /\ Len(s) \in Nat /\ Len(t) \in Nat
      /\ \A n \in 1 .. Len(s) : u[n] = s[n]
      /\ \A n \in 1 .. Len(t) : u[Len(s) + n] = t[n]
  <2>1. u = s \o t
    BY <1>1
  <2> QED BY ONLY <2>1, s \in Seq(Symbols), t \in Seq(Symbols), ConcatAt
<1>3. /\ v \in Seq(Symbols) /\ Len(v) = Len(u)
      /\ \A n \in 1 .. Len(u) : v[n] = IF u[n] \in Letters THEN Small[u[n]] ELSE u[n]
  <2>1. v = Lower(u) /\ u \in Seq(Symbols)
    BY <1>1, <1>2
  <2> QED BY ONLY <2>1, LowerIs
<1>4. /\ ls \in Seq(Symbols) /\ Len(ls) = Len(s)
      /\ \A n \in 1 .. Len(s) : ls[n] = IF s[n] \in Letters THEN Small[s[n]] ELSE s[n]
  BY <1>1, LowerIs
<1>5. /\ lt \in Seq(Symbols) /\ Len(lt) = Len(t)
      /\ \A n \in 1 .. Len(t) : lt[n] = IF t[n] \in Letters THEN Small[t[n]] ELSE t[n]
  BY <1>1, LowerIs
<1>6. /\ w \in Seq(Symbols) /\ Len(w) = Len(ls) + Len(lt)
      /\ \A n \in 1 .. Len(ls) : w[n] = ls[n]
      /\ \A n \in 1 .. Len(lt) : w[Len(ls) + n] = lt[n]
  <2>1. w = ls \o lt /\ ls \in Seq(Symbols) /\ lt \in Seq(Symbols)
    BY <1>1, <1>4, <1>5
  <2> QED BY ONLY <2>1, ConcatAt
<1>7. ASSUME NEW n \in 1 .. Len(v)
      PROVE  v[n] = w[n]
  <2>1. CASE n \in 1 .. Len(s)
    <3>1. v[n] = IF s[n] \in Letters THEN Small[s[n]] ELSE s[n]
      BY <1>2, <1>3, <2>1
    <3> QED BY <1>4, <1>6, <2>1, <3>1
  <2>2. CASE n \notin 1 .. Len(s)
    <3>1. PICK k : k = n - Len(s)
      OBVIOUS
    <3>2. k \in 1 .. Len(t) /\ n = Len(s) + k
      BY <1>2, <1>3, <2>2, <3>1
    <3>3. u[n] = t[k] /\ w[n] = lt[k]
      BY <1>2, <1>4, <1>5, <1>6, <3>2
    <3> QED BY <1>3, <1>5, <3>2, <3>3
  <2> QED BY <2>1, <2>2
<1>8. v = w
  BY <1>2, <1>3, <1>4, <1>5, <1>6, <1>7, SeqEqual
<1> QED BY <1>1, <1>8

LEMMA LowerLine ==
  ASSUME NEW text \in Seq(Symbols)
  PROVE  Line(Lower(text)) = Lower(Line(text))
<1>0. "\n" \notin Letters
  BY DEF Letters
<1>1. PICK t : t = Lower(text)
  OBVIOUS
<1>2. /\ t \in Seq(Symbols) /\ Len(t) = Len(text) /\ Len(text) \in Nat
      /\ \A n \in 1 .. Len(text) : t[n] = IF text[n] \in Letters THEN Small[text[n]] ELSE text[n]
      /\ \A n \in 1 .. Len(text) : text[n] \in Letters <=> t[n] \in Letters
  BY <1>1, LowerIs
<1>3. CASE text = <<>>
  <2>1. t = <<>>
    BY <1>2, <1>3, EmptySeq
  <2> QED BY <1>1, <1>3, <2>1 DEF Line
<1>4. CASE text # <<>> /\ Last(text) = "\n"
  <2>1. PICK f : f = Front(text)
    OBVIOUS
  <2>2. f \in Seq(Symbols) /\ text = Append(f, "\n") /\ "\n" \in Symbols
    BY <1>4, <2>1, FrontLast
  <2>3. text = f \o <<"\n">> /\ <<"\n">> \in Seq(Symbols)
    BY <2>2, AppendIsConcat
  <2>4. PICK g : g = Lower(f)
    OBVIOUS
  <2>5. Lower(<<"\n">>) = <<"\n">>
    BY <1>0 DEF Lower
  <2>6. t = g \o <<"\n">> /\ g \in Seq(Symbols)
    <3>1. PICK e : e = <<"\n">>
      OBVIOUS
    <3>2. Lower(f \o e) = Lower(f) \o Lower(e)
      BY <2>2, <2>3, <3>1, LowerConcat
    <3>3. Lower(e) = e
      BY <2>5, <3>1
    <3>4. g \in Seq(Symbols)
      BY <2>2, <2>4, LowerIs
    <3> QED BY <1>1, <2>3, <2>4, <3>1, <3>2, <3>3, <3>4
  <2>7. t = Append(g, "\n")
    BY <2>2, <2>6, AppendIsConcat
  <2>8. /\ t # <<>> /\ Front(t) \in Seq(Symbols) /\ Last(t) \in Symbols
        /\ t = Append(Front(t), Last(t))
    <3>1. t # <<>>
      BY <2>2, <2>6, <2>7, AppendNotEmpty
    <3> QED BY <1>2, <3>1, FrontLast
  <2>9. Front(t) = g /\ Last(t) = "\n"
    <3>1. PICK h, y : h = Front(t) /\ y = Last(t)
      OBVIOUS
    <3>2. h \in Seq(Symbols) /\ y \in Symbols /\ Append(h, y) = Append(g, "\n") /\ g \in Seq(Symbols) /\ "\n" \in Symbols
      BY <2>2, <2>6, <2>7, <2>8, <3>1
    <3>3. h = g /\ y = "\n"
      BY ONLY <3>2, AppendApart
    <3> QED BY <3>1, <3>3
  <2>10. Line(text) = f
    BY <1>4, <2>1 DEF Line
  <2>11. Line(t) = g
    BY <2>8, <2>9 DEF Line
  <2> QED BY <1>1, <2>4, <2>10, <2>11
<1>5. CASE text # <<>> /\ Last(text) # "\n"
  <2>1. Len(text) \in 1 .. Len(text) /\ text[Len(text)] # "\n"
    <3>1. Len(text) # 0
      BY <1>5, EmptySeq
    <3> QED BY <1>2, <1>5, <3>1 DEF Last
  <2>2. t[Len(t)] # "\n"
    BY <1>0, <1>2, <2>1
  <2>3. Line(t) = t /\ Line(text) = text
    BY <1>5, <2>2 DEF Line, Last
  <2> QED BY <1>1, <2>3
<1> QED BY <1>3, <1>4, <1>5

(* Lower parts are the parts of the lower text.                            *)
LowerParts(parts) == [n \in DOMAIN parts |-> Lower(parts[n])]

LEMMA LowerPartsAppend ==
  ASSUME NEW parts \in Seq(Seq(Symbols)), NEW p \in Seq(Symbols)
  PROVE  /\ LowerParts(parts) \in Seq(Seq(Symbols)) /\ Len(LowerParts(parts)) = Len(parts)
         /\ LowerParts(Append(parts, p)) = Append(LowerParts(parts), Lower(p))
<1>1. PICK t, l : t = Append(parts, p) /\ l = Lower(p)
  OBVIOUS
<1>2. /\ t \in Seq(Seq(Symbols)) /\ Len(t) = Len(parts) + 1 /\ Len(parts) \in Nat
      /\ DOMAIN t = 1 .. Len(t) /\ t[Len(parts) + 1] = p
      /\ \A n \in 1 .. Len(parts) : t[n] = parts[n]
  BY <1>1, AppendAt
<1>3. l \in Seq(Symbols) /\ \A x \in Seq(Symbols) : Lower(x) \in Seq(Symbols)
  BY <1>1, LowerIs
<1>4. DOMAIN parts = 1 .. Len(parts) /\ \A n \in 1 .. Len(parts) : parts[n] \in Seq(Symbols)
  BY LenProperties
<1>5. PICK a, b : a = LowerParts(parts) /\ b = LowerParts(t)
  OBVIOUS
<1>6. a = [n \in 1 .. Len(parts) |-> Lower(parts[n])] /\ b = [n \in 1 .. Len(parts) + 1 |-> Lower(t[n])]
  BY <1>2, <1>4, <1>5 DEF LowerParts
<1>7. a \in Seq(Seq(Symbols)) /\ Len(a) = Len(parts) /\ \A n \in 1 .. Len(parts) : a[n] = Lower(parts[n])
  <2>1. \A n \in 1 .. Len(parts) : Lower(parts[n]) \in Seq(Symbols)
    BY <1>3, <1>4
  <2> QED BY <1>2, <1>6, <2>1
<1>8. b \in Seq(Seq(Symbols)) /\ Len(b) = Len(parts) + 1 /\ \A n \in 1 .. Len(parts) + 1 : b[n] = Lower(t[n])
  <2>1. \A n \in 1 .. Len(parts) + 1 : Lower(t[n]) \in Seq(Symbols)
    BY <1>2, <1>3
  <2>2. Len(parts) + 1 \in Nat
    BY <1>2
  <2> QED BY <1>6, <2>1, <2>2
<1>9. PICK c : c = Append(a, l)
  OBVIOUS
<1>10. /\ c \in Seq(Seq(Symbols)) /\ Len(c) = Len(parts) + 1 /\ c[Len(parts) + 1] = l
       /\ \A n \in 1 .. Len(parts) : c[n] = a[n]
  <2>1. /\ c \in Seq(Seq(Symbols)) /\ Len(c) = Len(a) + 1 /\ c[Len(a) + 1] = l
        /\ \A n \in 1 .. Len(a) : c[n] = a[n]
    BY <1>3, <1>7, <1>9, AppendAt
  <2> QED BY <1>7, <2>1
<1>11. \A n \in 1 .. Len(parts) + 1 : b[n] = c[n]
  <2> SUFFICES ASSUME NEW n \in 1 .. Len(parts) + 1
               PROVE  b[n] = c[n]
    OBVIOUS
  <2>1. CASE n = Len(parts) + 1
    BY <1>1, <1>2, <1>8, <1>10, <2>1
  <2>2. CASE n # Len(parts) + 1
    <3>1. n \in 1 .. Len(parts)
      BY <1>2, <2>2
    <3> QED BY <1>2, <1>7, <1>8, <1>10, <3>1
  <2> QED BY <2>1, <2>2
<1>12. b = c
  BY <1>8, <1>10, <1>11, SeqEqual
<1> QED BY <1>1, <1>5, <1>7, <1>9, <1>12

LEMMA LowerJoined ==
  ASSUME NEW sep \in Symbols \ Letters, NEW parts \in Seq(Seq(Symbols))
  PROVE  Joined(LowerParts(parts), sep) = Lower(Joined(parts, sep))
<1> DEFINE Same(n) == \A r \in Seq(Seq(Symbols)) : Len(r) = n => Joined(LowerParts(r), sep) = Lower(Joined(r, sep))
           S == {n \in Nat : Same(n)}
<1>1. 0 \in S
  <2> SUFFICES ASSUME NEW r \in Seq(Seq(Symbols)), Len(r) = 0
               PROVE  Joined(LowerParts(r), sep) = Lower(Joined(r, sep))
    OBVIOUS
  <2>1. r = <<>>
    BY EmptySeq
  <2>2. LowerParts(<<>>) = <<>> /\ Lower(<<>>) = <<>>
    BY DEF LowerParts, Lower
  <2> QED BY <2>1, <2>2, JoinedEmpty
<1>2. ASSUME NEW n \in Nat, n \in S
      PROVE  n + 1 \in S
  <2> SUFFICES ASSUME NEW r \in Seq(Seq(Symbols)), Len(r) = n + 1
               PROVE  Joined(LowerParts(r), sep) = Lower(Joined(r, sep))
    <3> HIDE DEF S
    <3>1. Same(n + 1)
      OBVIOUS
    <3> QED BY <3>1 DEF S
  <2>1. PICK f, y : f = Front(r) /\ y = Last(r)
    OBVIOUS
  <2>2. f \in Seq(Seq(Symbols)) /\ y \in Seq(Symbols) /\ r = Append(f, y) /\ Len(f) = n
    <3>1. /\ f \in Seq(Seq(Symbols)) /\ y \in Seq(Symbols) /\ r = Append(f, y)
          /\ Len(f) = Len(r) - 1
      <4>1. r # <<>>
        OBVIOUS
      <4> QED BY <2>1, <4>1, FrontLast
    <3> QED BY <3>1
  <2>3. PICK j, lf, ly : j = Joined(f, sep) /\ lf = LowerParts(f) /\ ly = Lower(y)
    OBVIOUS
  <2>4. lf \in Seq(Seq(Symbols)) /\ ly \in Seq(Symbols) /\ LowerParts(r) = Append(lf, ly)
    BY <2>2, <2>3, LowerPartsAppend, LowerIs
  <2>5. Joined(LowerParts(r), sep) = Joined(lf, sep) \o (<<sep>> \o ly)
    <3>1. lf \in Seq(Seq(Symbols)) /\ ly \in Seq(Symbols) /\ sep \in Symbols
      BY <2>4
    <3>2. Joined(Append(lf, ly), sep) = Joined(lf, sep) \o (<<sep>> \o ly)
      BY ONLY <3>1, JoinedAppend
    <3> QED BY <2>4, <3>2
  <2>6. Joined(r, sep) = j \o (<<sep>> \o y) /\ j \in Seq(Symbols)
    <3>1. f \in Seq(Seq(Symbols)) /\ y \in Seq(Symbols) /\ sep \in Symbols
      BY <2>2
    <3>2. Joined(Append(f, y), sep) = Joined(f, sep) \o (<<sep>> \o y) /\ Joined(f, sep) \in Seq(Symbols)
      BY ONLY <3>1, JoinedAppend
    <3> QED BY ONLY <2>2, <2>3, <3>2
  <2>7. Joined(lf, sep) = Lower(j)
    BY <1>2, <2>2, <2>3
  <2>8. <<sep>> \in Seq(Symbols) /\ Lower(<<sep>>) = <<sep>>
    BY DEF Lower
  <2>9. PICK c : c = <<sep>> \o y
    OBVIOUS
  <2>10. c \in Seq(Symbols) /\ Lower(c) = <<sep>> \o ly
    BY <2>2, <2>3, <2>8, <2>9, LowerConcat, ConcatProperties
  <2>11. Lower(j \o c) = Lower(j) \o Lower(c)
    BY <2>6, <2>10, LowerConcat
  <2> QED BY <2>5, <2>6, <2>7, <2>9, <2>10, <2>11
<1> HIDE DEF S
<1>3. Len(parts) \in Nat /\ Len(parts) \in S
  BY <1>1, <1>2, SetInduction, LenProperties
<1> QED BY <1>3 DEF S

LEMMA LowerFields ==
  ASSUME NEW sep \in Symbols \ Letters, NEW text \in Seq(Symbols)
  PROVE  Fields(Lower(text), sep) = LowerParts(Fields(text, sep))
<1>1. PICK p, q, t : p = Fields(text, sep) /\ q = LowerParts(p) /\ t = Lower(text)
  OBVIOUS
<1>2. Cut(Symbols, p, sep, text)
  BY <1>1, FieldsAreCut
<1>3. /\ p \in Seq(Seq(Symbols)) /\ p # <<>>
      /\ Apart(p, sep) /\ Joined(p, sep) = <<sep>> \o text
  BY <1>2 DEF Cut
<1>4. q \in Seq(Seq(Symbols)) /\ Len(q) = Len(p) /\ \A n \in 1 .. Len(p) : q[n] = Lower(p[n]) /\ p[n] \in Seq(Symbols)
  <2>1. DOMAIN p = 1 .. Len(p) /\ \A n \in 1 .. Len(p) : p[n] \in Seq(Symbols)
    BY <1>3, LenProperties
  <2>2. <<>> \in Seq(Symbols)
    OBVIOUS
  <2> QED BY <1>1, <1>3, <2>1, <2>2, LowerPartsAppend DEF LowerParts
<1>5. q # <<>>
  BY <1>3, <1>4, EmptySeq
<1>6. Apart(q, sep)
  <2> SUFFICES ASSUME NEW n \in 1 .. Len(q)
               PROVE  sep \notin Range(q[n])
    BY DEF Apart
  <2>1. PICK u, v : u = p[n] /\ v = q[n]
    OBVIOUS
  <2>2. v = Lower(u) /\ u \in Seq(Symbols) /\ sep \notin Range(u)
    BY <1>3, <1>4, <2>1 DEF Apart
  <2>3. /\ v \in Seq(Symbols) /\ Len(v) = Len(u)
        /\ \A k \in 1 .. Len(u) : u[k] \in Letters <=> v[k] \in Letters
        /\ \A k \in 1 .. Len(u) : u[k] \notin Letters => v[k] = u[k]
    BY <2>2, LowerIs
  <2>4. \A k \in 1 .. Len(u) : u[k] # sep
    BY <2>2, RangeEquality
  <2>5. \A k \in 1 .. Len(v) : v[k] # sep
    BY <2>3, <2>4
  <2> QED BY <2>1, <2>3, <2>5, RangeEquality
<1>7. Joined(q, sep) = <<sep>> \o t
  <2>1. <<sep>> \in Seq(Symbols) /\ Lower(<<sep>>) = <<sep>>
    BY DEF Lower
  <2>2. Lower(<<sep>> \o text) = <<sep>> \o t
    BY <1>1, <2>1, LowerConcat
  <2> QED BY <1>1, <1>3, <2>2, LowerJoined
<1>8. t \in Seq(Symbols)
  BY <1>1, LowerIs
<1>9. Cut(Symbols, q, sep, t)
  BY <1>3, <1>4, <1>5, <1>6, <1>7 DEF Cut
<1>10. Cut(Symbols, Fields(t, sep), sep, t)
  BY <1>8, FieldsAreCut
<1> QED BY <1>1, <1>9, <1>10, CutUnique

LEMMA OverIs ==
  ASSUME NEW text \in Seq(Symbols), NEW C
  PROVE  Over(text, C) <=> \A n \in 1 .. Len(text) : text[n] \in C
<1>1. Range(text) = {text[n] : n \in 1 .. Len(text)}
  BY LenProperties DEF Range
<1> QED BY <1>1 DEF Over

LEMMA OverLower ==
  ASSUME NEW text \in Seq(Symbols), NEW C, Over(text, Letters \cup C)
  PROVE  Over(Lower(text), Letters \cup C)
<1>1. PICK t : t = Lower(text)
  OBVIOUS
<1>2. /\ t \in Seq(Symbols) /\ Len(t) = Len(text)
      /\ \A n \in 1 .. Len(text) : text[n] \in Letters <=> t[n] \in Letters
      /\ \A n \in 1 .. Len(text) : text[n] \notin Letters => t[n] = text[n]
  BY <1>1, LowerIs
<1>3. \A n \in 1 .. Len(text) : text[n] \in Letters \cup C
  BY OverIs
<1>4. \A n \in 1 .. Len(t) : t[n] \in Letters \cup C
  BY <1>2, <1>3
<1> QED BY <1>1, <1>2, <1>4, OverIs

LEMMA LowerSubSeq ==
  ASSUME NEW text \in Seq(Symbols), NEW m \in Nat \ {0}, NEW n \in Int, n <= Len(text)
  PROVE  Lower(SubSeq(text, m, n)) = SubSeq(Lower(text), m, n)
<1>1. PICK t, s, u, v : t = Lower(text) /\ s = SubSeq(text, m, n) /\ u = Lower(s) /\ v = SubSeq(t, m, n)
  OBVIOUS
<1>2. /\ t \in Seq(Symbols) /\ Len(t) = Len(text) /\ Len(text) \in Nat
      /\ \A k \in 1 .. Len(text) : t[k] = IF text[k] \in Letters THEN Small[text[k]] ELSE text[k]
  BY <1>1, LowerIs
<1>3. \A k \in m .. n : k \in 1 .. Len(text) /\ text[k] \in Symbols /\ t[k] \in Symbols
  <2>1. \A k \in m .. n : k \in 1 .. Len(text)
    BY <1>2
  <2>2. \A k \in 1 .. Len(text) : text[k] \in Symbols /\ t[k] \in Symbols
    BY <1>2, ElementOfSeq
  <2> QED BY <2>1, <2>2
<1>4. /\ s \in Seq(Symbols) /\ Len(s) = (IF m <= n THEN n - m + 1 ELSE 0)
      /\ \A i \in 1 .. n - m + 1 : s[i] = text[m + i - 1]
  BY <1>1, <1>3, SubSeqProperties
<1>5. /\ v \in Seq(Symbols) /\ Len(v) = (IF m <= n THEN n - m + 1 ELSE 0)
      /\ \A i \in 1 .. n - m + 1 : v[i] = t[m + i - 1]
  BY <1>1, <1>3, SubSeqProperties
<1>6. /\ u \in Seq(Symbols) /\ Len(u) = Len(s)
      /\ \A k \in 1 .. Len(s) : u[k] = IF s[k] \in Letters THEN Small[s[k]] ELSE s[k]
  <2>1. u = Lower(s) /\ s \in Seq(Symbols)
    BY <1>1, <1>4
  <2> QED BY ONLY <2>1, LowerIs
<1>7. ASSUME NEW i \in 1 .. Len(u)
      PROVE  u[i] = v[i]
  <2>1. i \in 1 .. n - m + 1 /\ m + i - 1 \in m .. n
    BY <1>4, <1>6
  <2>2. s[i] = text[m + i - 1] /\ v[i] = t[m + i - 1] /\ m + i - 1 \in 1 .. Len(text)
    BY <1>3, <1>4, <1>5, <2>1
  <2> QED BY <1>2, <1>6, <2>2
<1>8. u = v
  BY <1>4, <1>5, <1>6, <1>7, SeqEqual
<1> QED BY <1>1, <1>8

(***************************************************************************)
(* Hosts.                                                                  *)
(***************************************************************************)

Bracketed(host) ==
  host # <<>> /\ host[1] = "[" /\ Last(host) = "]" /\ SubSeq(host, 2, Len(host) - 1) \in Addresses
Labelled(host) ==
  /\ Over(Line(host), Letters \cup Digits \cup {"-", "."})
  /\ \A label \in Range(Fields(host, ".")) : LdhLabel(label)

LEMMA HostOf ==
  ASSUME NEW host \in Seq(Symbols)
  PROVE  /\ Host(host) = (IF Bracketed(host) \/ Labelled(host) THEN Lower(host) ELSE NoHost)
         /\ Host(host) # NoHost => host # <<>>
<1>1. Host(host) = (IF Bracketed(host) \/ Labelled(host) THEN Lower(host) ELSE NoHost)
  BY DEF Host, Bracketed, Labelled
<1>2. Lower(<<>>) = <<>>
  BY DEF Lower
<1> QED BY <1>1, <1>2 DEF NoHost

LEMMA LdhLower ==
  ASSUME NEW label \in Seq(Symbols), LdhLabel(label)
  PROVE  LdhLabel(Lower(label))
<1>1. PICK l, m : l = Line(label) /\ m = Lower(l)
  OBVIOUS
<1>2. l \in Seq(Symbols) /\ Line(Lower(label)) = m
  BY <1>1, LineIs, LowerLine
<1>3. /\ m \in Seq(Symbols) /\ Len(m) = Len(l) /\ Len(l) \in Nat
      /\ \A n \in 1 .. Len(l) : l[n] \in Letters <=> m[n] \in Letters
      /\ \A n \in 1 .. Len(l) : l[n] \notin Letters => m[n] = l[n]
  <2>1. m = Lower(l)
    BY <1>1
  <2> QED BY ONLY <1>2, <2>1, LowerIs
<1>4. /\ l # <<>> /\ Over(l, Letters \cup (Digits \cup {"-"})) /\ l[1] # "-" /\ l[Len(l)] # "-"
  <2>1. Letters \cup Digits \cup {"-"} = Letters \cup (Digits \cup {"-"})
    OBVIOUS
  <2> QED BY <1>1, <2>1 DEF LdhLabel, Last
<1>5. Len(l) # 0
  BY <1>2, <1>4, EmptySeq
<1>6. Over(m, Letters \cup (Digits \cup {"-"}))
  BY <1>1, <1>2, <1>4, OverLower
<1>7. "-" \notin Letters
  BY DEF Letters
<1>8. 1 \in 1 .. Len(l) /\ Len(l) \in 1 .. Len(l)
  BY <1>3, <1>5
<1>9. m # <<>> /\ m[1] # "-" /\ m[Len(m)] # "-"
  <2>1. m # <<>>
    BY <1>3, <1>5
  <2> QED BY <1>3, <1>4, <1>7, <1>8, <2>1
<1>10. Letters \cup Digits \cup {"-"} = Letters \cup (Digits \cup {"-"})
  OBVIOUS
<1> QED BY <1>2, <1>6, <1>9, <1>10 DEF LdhLabel, Last

(* A host in lower case is a host that is its own canonical form.          *)
LEMMA HostLower ==
  ASSUME NEW host \in Seq(Symbols), Host(host) # NoHost, DidAssumption
  PROVE  Host(host) = Lower(host) /\ Host(Lower(host)) = Lower(host)
<1>1. PICK low : low = Lower(host)
  OBVIOUS
<1>2. /\ low \in Seq(Symbols) /\ Len(low) = Len(host) /\ Len(host) \in Nat
      /\ \A n \in 1 .. Len(host) : host[n] \notin Letters => low[n] = host[n]
  BY <1>1, LowerIs
<1>3. Host(host) = low /\ (Bracketed(host) \/ Labelled(host)) /\ host # <<>>
  BY <1>1, HostOf
<1>4. Len(host) # 0
  BY <1>3, EmptySeq
<1>5. low # <<>>
  BY <1>2, <1>4
<1>6. CASE Bracketed(host)
  <2>1. 1 \in 1 .. Len(host) /\ Len(host) \in 1 .. Len(host) /\ "[" \notin Letters /\ "]" \notin Letters
    BY <1>2, <1>4 DEF Letters
  <2>2. low[1] = "[" /\ low[Len(low)] = "]"
    BY <1>2, <1>6, <2>1 DEF Bracketed, Last
  <2>3. SubSeq(low, 2, Len(low) - 1) \in Addresses
    <3>1. PICK n : n = Len(host) - 1
      OBVIOUS
    <3>2. n \in Int /\ n <= Len(host) /\ 2 \in Nat \ {0} /\ n = Len(low) - 1
      BY <1>2, <3>1
    <3>3. Lower(SubSeq(host, 2, n)) = SubSeq(low, 2, n)
      BY <1>1, <3>2, LowerSubSeq
    <3>4. SubSeq(host, 2, n) \in Addresses
      BY <1>6, <3>1 DEF Bracketed
    <3>5. Lower(SubSeq(host, 2, n)) \in Addresses
      BY <3>4 DEF DidAssumption
    <3> QED BY <3>2, <3>3, <3>5
  <2>4. Bracketed(low)
    BY <1>5, <2>2, <2>3 DEF Bracketed, Last
  <2> QED BY <1>1, <1>2, <1>3, <2>4, HostOf, LowerTwice
<1>7. CASE Labelled(host)
  <2>1. Over(Line(low), Letters \cup Digits \cup {"-", "."})
    <3>1. PICK l : l = Line(host)
      OBVIOUS
    <3>2. l \in Seq(Symbols) /\ Line(low) = Lower(l)
      BY <1>1, <3>1, LineIs, LowerLine
    <3>3. Letters \cup Digits \cup {"-", "."} = Letters \cup (Digits \cup {"-", "."})
      OBVIOUS
    <3>4. Over(l, Letters \cup (Digits \cup {"-", "."}))
      BY <1>7, <3>1, <3>3 DEF Labelled
    <3> QED BY <3>2, <3>3, <3>4, OverLower
  <2>2. ASSUME NEW label \in Range(Fields(low, "."))
        PROVE  LdhLabel(label)
    <3>1. "." \in Symbols \ Letters
      BY DEF Letters, Symbols
    <3>2. PICK p : p = Fields(host, ".")
      OBVIOUS
    <3>3. Fields(low, ".") = LowerParts(p)
      BY <1>1, <3>1, <3>2, LowerFields
    <3>4. p \in Seq(Seq(Symbols))
      <4>1. Cut(Symbols, p, ".", host)
        BY <3>1, <3>2, FieldsAreCut
      <4> QED BY <4>1 DEF Cut
    <3>5. PICK n \in DOMAIN p : label = Lower(p[n])
      BY <3>3 DEF LowerParts, Range
    <3>6. p[n] \in Seq(Symbols) /\ p[n] \in Range(p)
      BY <3>4, <3>5, LenProperties, ElementOfSeq DEF Range
    <3>7. LdhLabel(p[n])
      BY <1>7, <3>2, <3>6 DEF Labelled
    <3> QED BY <3>5, <3>6, <3>7, LdhLower
  <2>3. Labelled(low)
    BY <2>1, <2>2 DEF Labelled
  <2> QED BY <1>1, <1>2, <1>3, <2>3, HostOf, LowerTwice
<1> QED BY <1>3, <1>6, <1>7

(* What a host has in it, and where its brackets are.                      *)
Enclosed(host) ==
  /\ Len(host) > 1 /\ host[1] = "[" /\ host[Len(host)] = "]"
  /\ \A n \in 1 .. Len(host) - 1 : host[n] # "]"
Open(host) == \A n \in 1 .. Len(host) : host[n] # ":" /\ host[n] # "["

LEMMA HostSymbols ==
  ASSUME NEW host \in Seq(Symbols), Host(host) # NoHost, DidAssumption
  PROVE  /\ Len(host) \in Nat \ {0}
         /\ Enclosed(host) \/ Open(host)
         /\ \A n \in 1 .. Len(host) : host[n] \notin Markers \cup Delimiters
<1>0. Len(host) \in Nat /\ \A n \in 1 .. Len(host) : host[n] \in Symbols
  BY LenProperties
<1>1. (Bracketed(host) \/ Labelled(host)) /\ host # <<>>
  BY HostOf
<1>2. Len(host) # 0
  BY <1>1, EmptySeq
<1>3. CASE Bracketed(host)
  <2>1. Len(host) > 1
    <3>1. Len(host) # 1
      BY <1>3 DEF Bracketed, Last
    <3>2. PICK len : len = Len(host)
      OBVIOUS
    <3>3. len \in Nat /\ len # 0 /\ len # 1
      BY <1>0, <1>2, <3>1, <3>2
    <3>4. len > 1
      BY ONLY <3>3
    <3> QED BY <3>2, <3>4
  <2>2. PICK m : m = Len(host) - 1
    OBVIOUS
  <2>3. m \in Nat \ {0} /\ Len(host) = m + 1 /\ \A i \in 2 .. m : host[i] \in Symbols
    BY <1>0, <2>1, <2>2
  <2>4. PICK a : a = SubSeq(host, 2, m)
    OBVIOUS
  <2>5. /\ Len(a) = (IF 2 <= m THEN m - 2 + 1 ELSE 0)
        /\ \A i \in 1 .. m - 2 + 1 : a[i] = host[2 + i - 1]
    <3>1. 2 \in Int /\ m \in Int
      BY <2>3
    <3> QED BY <2>3, <2>4, <3>1, SubSeqProperties
  <2>6. a \in Seq(Letters \cup Digits \cup {":", "."})
    BY <1>3, <2>2, <2>4 DEF Bracketed, DidAssumption
  <2>7. ASSUME NEW n \in 2 .. m
        PROVE  host[n] \in Letters \cup Digits \cup {":", "."}
    <3>1. PICK i : i = n - 1
      OBVIOUS
    <3>2. i \in 1 .. m - 2 + 1 /\ i \in 1 .. Len(a) /\ 2 + i - 1 = n
      BY <2>3, <2>5, <3>1
    <3>3. a[i] = host[n]
      BY <2>5, <3>2
    <3>4. a[i] \in Letters \cup Digits \cup {":", "."}
      BY <2>6, <3>2, ElementOfSeq
    <3> QED BY <3>3, <3>4
  <2>8. host[1] = "[" /\ host[Len(host)] = "]"
    BY <1>3 DEF Bracketed, Last
  <2>9. \A n \in 1 .. m : host[n] # "]"
    <3> SUFFICES ASSUME NEW n \in 1 .. m
                 PROVE  host[n] # "]"
      OBVIOUS
    <3>1. CASE n = 1
      BY <2>8, <3>1
    <3>2. CASE n # 1
      <4>1. n \in 2 .. m
        BY <2>3, <3>2
      <4> QED BY <2>7, <4>1 DEF Letters, Digits
    <3> QED BY <3>1, <3>2
  <2>10. Enclosed(host)
    BY <2>1, <2>2, <2>8, <2>9 DEF Enclosed
  <2>11. \A n \in 1 .. Len(host) : host[n] \notin Markers \cup Delimiters
    <3> SUFFICES ASSUME NEW n \in 1 .. Len(host)
                 PROVE  host[n] \notin Markers \cup Delimiters
      OBVIOUS
    <3>1. CASE n = 1 \/ n = Len(host)
      BY <2>8, <3>1 DEF Markers, Delimiters
    <3>2. CASE ~(n = 1 \/ n = Len(host))
      <4>1. n \in 2 .. m
        BY <2>3, <3>2
      <4> QED BY <2>7, <4>1 DEF Letters, Digits, Markers, Delimiters
    <3> QED BY <3>1, <3>2
  <2> QED BY <1>0, <1>2, <2>10, <2>11
<1>4. CASE Labelled(host)
  <2>1. Range(host) \subseteq Range(Line(host)) \cup {"\n"}
    BY LineIs
  <2>2. Range(host) \subseteq Letters \cup Digits \cup {"-", ".", "\n"}
    BY <1>4, <2>1 DEF Labelled, Over
  <2>3. \A n \in 1 .. Len(host) : host[n] \in Letters \cup Digits \cup {"-", ".", "\n"}
    BY <2>2, RangeEquality
  <2>4. Open(host)
    BY <2>3 DEF Open, Letters, Digits
  <2>5. \A n \in 1 .. Len(host) : host[n] \notin Markers \cup Delimiters
    BY <2>3 DEF Letters, Digits, Markers, Delimiters
  <2> QED BY <1>0, <1>2, <2>4, <2>5
<1> QED BY <1>1, <1>3, <1>4

(***************************************************************************)
(* A text as it is read: host, port, and what is behind them.              *)
(***************************************************************************)

ValidRest(rest) ==
  /\ rest \in Seq(Symbols)
  /\ \A segment \in Range(Front(Fields(rest, ":"))) : ValidPathSegment(segment)
  /\ ValidAid(Last(Fields(rest, ":")))

(* The parts behind the host have no marker and no delimiter in them.      *)
LEMMA RestSymbols ==
  ASSUME NEW rest, ValidRest(rest)
  PROVE  \A n \in 1 .. Len(rest) : rest[n] \notin Markers \cup Delimiters
<1> DEFINE Harmless(s) == s \notin Markers \cup Delimiters
<1>1. PICK parts : parts = Fields(rest, ":")
  OBVIOUS
<1>2. rest \in Seq(Symbols) /\ ":" \in Symbols
  BY SlashIsSymbol DEF ValidRest
<1>3. Cut(Symbols, parts, ":", rest)
  BY <1>1, <1>2, FieldsAreCut
<1>4. parts \in Seq(Seq(Symbols)) /\ parts # <<>> /\ Joined(parts, ":") = <<":">> \o rest
  BY <1>3 DEF Cut
<1>5. PICK f, y : f = Front(parts) /\ y = Last(parts)
  OBVIOUS
<1>6. f \in Seq(Seq(Symbols)) /\ y \in Seq(Symbols) /\ parts = Append(f, y)
  BY <1>4, <1>5, FrontLast
<1>7. \A segment \in Range(f) : \A s \in Range(segment) : Harmless(s)
  <2> SUFFICES ASSUME NEW segment \in Range(f)
               PROVE  \A s \in Range(segment) : Harmless(s)
    OBVIOUS
  <2>1. ValidPathSegment(segment)
    BY <1>1, <1>5 DEF ValidRest
  <2>2. segment \in Seq(Symbols)
    BY <1>6 DEF Range
  <2>3. Range(segment) \subseteq Range(Line(segment)) \cup {"\n"}
    BY <2>2, LineIs
  <2>4. Range(segment) \subseteq Letters \cup Digits \cup {".", "-"} \cup {"\n"}
    BY <2>1, <2>3 DEF ValidPathSegment, Over
  <2> QED BY <2>4 DEF Letters, Digits, Markers, Delimiters
<1>8. \A s \in Range(y) : Harmless(s)
  <2>1. Line(y) = <<"E">>
    BY <1>1, <1>5 DEF ValidRest, ValidAid
  <2>2. Range(y) \subseteq Range(<<"E">>) \cup {"\n"}
    BY <1>6, <2>1, LineIs
  <2>3. Range(<<"E">>) = {"E"}
    BY DEF Range
  <2> QED BY <2>2, <2>3 DEF Markers, Delimiters
<1>9. \A s \in Range(Joined(parts, ":")) : Harmless(s)
  <2>1. PICK cut : cut = [n \in DOMAIN parts |-> <<":">> \o parts[n]]
    OBVIOUS
  <2>2. DOMAIN parts = 1 .. Len(parts) /\ Len(parts) \in Nat /\ \A n \in 1 .. Len(parts) : parts[n] \in Seq(Symbols)
    BY <1>4, LenProperties
  <2>3. <<":">> \in Seq(Symbols) /\ Range(<<":">>) = {":"}
    BY <1>2, Single
  <2>4. ASSUME NEW n \in 1 .. Len(parts)
        PROVE  <<":">> \o parts[n] \in Seq(Symbols) /\ Range(<<":">> \o parts[n]) = {":"} \cup Range(parts[n])
    <3>1. PICK h, p : h = <<":">> /\ p = parts[n]
      OBVIOUS
    <3>2. h \in Seq(Symbols) /\ p \in Seq(Symbols) /\ Range(h) = {":"}
      BY <2>2, <2>3, <3>1
    <3>3. h \o p \in Seq(Symbols) /\ Range(h \o p) = Range(h) \cup Range(p)
      BY ONLY <3>2, RangeOfConcat
    <3> QED BY <3>1, <3>2, <3>3
  <2>5. cut \in Seq(Seq(Symbols)) /\ DOMAIN cut = 1 .. Len(parts) /\ \A n \in 1 .. Len(parts) : cut[n] = <<":">> \o parts[n]
    BY <2>1, <2>2, <2>4
  <2>6. Range(Joined(parts, ":")) = UNION {Range(cut[n]) : n \in DOMAIN cut}
    <3>1. cut \in Seq(Seq(Symbols))
      BY <2>5
    <3>2. Joined(parts, ":") = FlattenSeq(cut)
      BY <2>1 DEF Joined
    <3>3. PICK X, c : X = Symbols /\ c = cut
      OBVIOUS
    <3>4. c \in Seq(Seq(X))
      BY <3>1, <3>3
    <3>5. Range(FlattenSeq(c)) = UNION {Range(c[n]) : n \in DOMAIN c}
      BY ONLY <3>4, RangeOfFlatten
    <3> QED BY ONLY <3>2, <3>3, <3>5
  <2>7. ASSUME NEW n \in 1 .. Len(parts), NEW s \in Range(cut[n])
        PROVE  Harmless(s)
    <3>1. s \in {":"} \cup Range(parts[n])
      BY <2>4, <2>5, <2>7
    <3>2. CASE s = ":"
      BY <3>2 DEF Markers, Delimiters
    <3>3. CASE s \in Range(parts[n])
      <4>1. \A k \in 1 .. Len(f) : parts[k] = f[k] /\ f[k] \in Range(f)
        BY <1>6, AppendAt, RangeEquality
      <4>2. parts[Len(f) + 1] = y /\ Len(parts) = Len(f) + 1 /\ Len(f) \in Nat
        BY <1>6, AppendAt
      <4>3. CASE n \in 1 .. Len(f)
        BY <1>7, <3>3, <4>1, <4>3
      <4>4. CASE n \notin 1 .. Len(f)
        BY <1>8, <3>3, <4>2, <4>4
      <4> QED BY <4>3, <4>4
    <3> QED BY <3>1, <3>2, <3>3
  <2> HIDE DEF Harmless
  <2> QED BY <2>5, <2>6, <2>7
<1>10. \A s \in Range(rest) : s \in Range(Joined(parts, ":"))
  <2>1. PICK h, u : h = <<":">> /\ u = Joined(parts, ":")
    OBVIOUS
  <2>2. h \in Seq(Symbols) /\ u = h \o rest
    BY <1>2, <1>4, <2>1, Single
  <2>3. Range(u) = Range(h) \cup Range(rest)
    BY <1>2, <2>2, RangeOfConcat
  <2> QED BY <2>1, <2>3
<1>11. \A n \in 1 .. Len(rest) : rest[n] \in Range(rest)
  BY <1>2, RangeEquality
<1> HIDE DEF Harmless
<1>12. \A n \in 1 .. Len(rest) : Harmless(rest[n])
  BY <1>9, <1>10, <1>11
<1> QED BY <1>12 DEF Harmless

PortText(p, port) ==
  /\ p \in Seq(Symbols) /\ port \in Seq(Digits)
  /\ \/ Len(p) = 0 /\ port = NoPort
     \/ /\ Len(p) = Len(port) + 1 /\ p[1] \in Markers
        /\ Len(port) \in 1 .. PortDigits
        /\ \A n \in 1 .. Len(port) : p[n + 1] = port[n]

Laid(text, h, p, rest) ==
  /\ text \in Seq(Symbols) /\ h \in Seq(Symbols) /\ p \in Seq(Symbols) /\ rest \in Seq(Symbols)
  /\ Len(text) = Len(h) + Len(p) + 1 + Len(rest)
  /\ \A n \in 1 .. Len(h) : text[n] = h[n]
  /\ \A n \in 1 .. Len(p) : text[Len(h) + n] = p[n]
  /\ text[Len(h) + Len(p) + 1] = ":"
  /\ \A n \in 1 .. Len(rest) : text[Len(h) + Len(p) + 1 + n] = rest[n]

LEMMA LaidOf ==
  ASSUME NEW h \in Seq(Symbols), NEW p \in Seq(Symbols), NEW rest \in Seq(Symbols), NEW text,
         text = (h \o p) \o (<<":">> \o rest)
  PROVE  Laid(text, h, p, rest)
<1>1. PICK s : s = h \o p
  OBVIOUS
<1>2. /\ s \in Seq(Symbols) /\ Len(s) = Len(h) + Len(p) /\ Len(h) \in Nat /\ Len(p) \in Nat
      /\ \A n \in 1 .. Len(h) : s[n] = h[n]
      /\ \A n \in 1 .. Len(p) : s[Len(h) + n] = p[n]
  <2>1. s = h \o p
    BY <1>1
  <2> QED BY ONLY <2>1, h \in Seq(Symbols), p \in Seq(Symbols), ConcatAt
<1>3. /\ text \in Seq(Symbols) /\ Len(text) = Len(s) + 1 + Len(rest) /\ Len(rest) \in Nat
      /\ text[Len(s) + 1] = ":" /\ \A n \in 1 .. Len(s) : text[n] = s[n]
      /\ \A n \in 1 .. Len(rest) : text[Len(s) + 1 + n] = rest[n]
  <2>1. PICK sep : sep = ":"
    OBVIOUS
  <2>2. text = s \o (<<sep>> \o rest) /\ sep \in Symbols /\ s \in Seq(Symbols) /\ rest \in Seq(Symbols)
    BY <1>1, <1>2, <2>1, SlashIsSymbol
  <2>3. /\ text \in Seq(Symbols) /\ Len(text) = Len(s) + 1 + Len(rest) /\ Len(rest) \in Nat
        /\ text[Len(s) + 1] = sep /\ \A n \in 1 .. Len(s) : text[n] = s[n]
        /\ \A n \in 1 .. Len(rest) : text[Len(s) + 1 + n] = rest[n]
    BY ONLY <2>2, PartAt
  <2> QED BY <2>1, <2>3
<1>4. \A n \in 1 .. Len(h) : text[n] = h[n]
  BY <1>2, <1>3
<1>5. ASSUME NEW n \in 1 .. Len(p)
      PROVE  text[Len(h) + n] = p[n]
  <2>1. Len(h) + n \in 1 .. Len(s) /\ s[Len(h) + n] = p[n]
    BY <1>2
  <2> QED BY <1>3, <2>1
<1>6. /\ Len(text) = Len(h) + Len(p) + 1 + Len(rest) /\ text[Len(h) + Len(p) + 1] = ":"
  BY <1>2, <1>3
<1>7. \A n \in 1 .. Len(rest) : text[Len(h) + Len(p) + 1 + n] = rest[n]
  BY <1>2, <1>3
<1> QED BY <1>3, <1>4, <1>5, <1>6, <1>7 DEF Laid

LEMMA FindFirst ==
  ASSUME NEW X, NEW text \in Seq(X), NEW sep, NEW k \in 1 .. Len(text), text[k] = sep,
         \A n \in 1 .. Len(text) : n < k => text[n] # sep
  PROVE  Find(text, sep) = k
<1> DEFINE I == {i \in 1 .. Len(text) : text[i] = sep}
<1>0. Len(text) \in Nat
  BY LenProperties
<1>1. Find(text, sep) = IF I # {} THEN Min(I) ELSE 0
  BY DEF Find, SelectInSeq
<1>2. k \in I /\ I \in SUBSET Nat /\ \A n \in I : n \in Nat /\ ~(n < k)
  BY <1>0
<1> HIDE DEF I
<1>3. Min(I) \in I /\ \A n \in I : Min(I) <= n
  BY <1>2, MinIsLeast
<1>4. Min(I) = k
  <2>1. PICK m : m = Min(I)
    OBVIOUS
  <2>2. m \in Nat /\ ~(m < k) /\ m <= k /\ k \in Nat
    BY <1>2, <1>3, <2>1
  <2> QED BY <2>1, <2>2
<1> QED BY <1>1, <1>2, <1>4

LEMMA PortSymbols ==
  ASSUME NEW p, NEW port, PortText(p, port)
  PROVE  /\ p \in Seq(Symbols) /\ Len(p) \in Nat /\ Len(port) \in Nat
         /\ \A n \in 1 .. Len(p) : p[n] \in (IF n = 1 THEN Markers ELSE Digits)
<1>1. p \in Seq(Symbols) /\ port \in Seq(Digits) /\ Len(p) \in Nat /\ Len(port) \in Nat
      /\ \A n \in 1 .. Len(port) : port[n] \in Digits
  BY LenProperties DEF PortText
<1>2. ASSUME NEW n \in 1 .. Len(p)
      PROVE  p[n] \in (IF n = 1 THEN Markers ELSE Digits)
  <2>1. Len(p) = Len(port) + 1 /\ p[1] \in Markers /\ \A k \in 1 .. Len(port) : p[k + 1] = port[k]
    BY <1>1 DEF PortText
  <2>2. CASE n = 1
    BY <2>1, <2>2
  <2>3. CASE n # 1
    <3>1. PICK k : k = n - 1
      OBVIOUS
    <3>2. k \in 1 .. Len(port) /\ n = k + 1
      BY <1>1, <2>1, <2>3, <3>1
    <3> QED BY <1>1, <2>1, <2>3, <3>2
  <2> QED BY <2>2, <2>3
<1> QED BY <1>1, <1>2

ReadAs(h, p, port, rest) ==
  /\ h \in Seq(Symbols) /\ Host(h) # NoHost
  /\ PortText(p, port) /\ ValidRest(rest)

(* What the places of a text that is laid out hold.                        *)
LEMMA ReadSymbols ==
  ASSUME NEW h, NEW p, NEW port, NEW rest, NEW text, ReadAs(h, p, port, rest), Laid(text, h, p, rest),
         DidAssumption
  PROVE  /\ Len(text) \in Nat /\ Len(h) \in Nat \ {0} /\ Len(p) \in Nat /\ Len(rest) \in Nat
         /\ text \in Seq(Symbols) /\ Len(text) = Len(h) + Len(p) + 1 + Len(rest)
         /\ \A n \in 1 .. Len(h) : text[n] = h[n]
         /\ \A n \in 1 .. Len(text) : Len(h) < n /\ n <= Len(h) + Len(p) =>
                                          text[n] \in (IF n = Len(h) + 1 THEN Markers ELSE Digits)
         /\ text[Len(h) + Len(p) + 1] = ":"
         /\ Enclosed(h) \/ Open(h)
         /\ \A n \in 1 .. Len(text) : n <= Len(h) => text[n] \notin Markers \cup Delimiters
         /\ \A n \in 1 .. Len(text) : Len(h) + Len(p) < n => text[n] \notin Markers \cup Delimiters
<1>1. /\ Len(h) \in Nat \ {0} /\ (Enclosed(h) \/ Open(h))
      /\ \A n \in 1 .. Len(h) : h[n] \notin Markers \cup Delimiters
  <2>1. h \in Seq(Symbols) /\ Host(h) # NoHost
    BY DEF ReadAs
  <2> QED BY <2>1, HostSymbols
<1>2. Len(p) \in Nat /\ \A n \in 1 .. Len(p) : p[n] \in (IF n = 1 THEN Markers ELSE Digits)
  <2>1. PortText(p, port)
    BY DEF ReadAs
  <2> QED BY <2>1, PortSymbols
<1>3. \A n \in 1 .. Len(rest) : rest[n] \notin Markers \cup Delimiters
  BY RestSymbols DEF ReadAs
<1>4. /\ text \in Seq(Symbols) /\ Len(rest) \in Nat /\ Len(text) \in Nat
      /\ Len(text) = Len(h) + Len(p) + 1 + Len(rest)
      /\ \A n \in 1 .. Len(h) : text[n] = h[n]
      /\ \A n \in 1 .. Len(p) : text[Len(h) + n] = p[n]
      /\ text[Len(h) + Len(p) + 1] = ":"
      /\ \A n \in 1 .. Len(rest) : text[Len(h) + Len(p) + 1 + n] = rest[n]
  BY LenProperties DEF Laid
<1>5. ASSUME NEW n \in 1 .. Len(text), Len(h) < n, n <= Len(h) + Len(p)
      PROVE  text[n] \in (IF n = Len(h) + 1 THEN Markers ELSE Digits)
  <2>1. PICK k : k = n - Len(h)
    OBVIOUS
  <2>2. k \in 1 .. Len(p) /\ n = Len(h) + k /\ (k = 1 <=> n = Len(h) + 1)
    BY <1>1, <1>2, <1>4, <1>5, <2>1
  <2>3. text[n] = p[k]
    BY <1>4, <2>2
  <2> QED BY <1>2, <2>2, <2>3
<1>6. ASSUME NEW n \in 1 .. Len(text), Len(h) + Len(p) < n
      PROVE  text[n] \notin Markers \cup Delimiters
  <2>1. CASE n = Len(h) + Len(p) + 1
    BY <1>4, <2>1 DEF Markers, Delimiters
  <2>2. CASE n # Len(h) + Len(p) + 1
    <3>1. PICK k : k = n - (Len(h) + Len(p) + 1)
      OBVIOUS
    <3>2. k \in 1 .. Len(rest) /\ n = Len(h) + Len(p) + 1 + k
      <4>1. /\ n \in 1 .. Len(text) /\ Len(h) \in Nat /\ Len(p) \in Nat /\ Len(rest) \in Nat
            /\ Len(text) = Len(h) + Len(p) + 1 + Len(rest)
            /\ Len(h) + Len(p) < n /\ n # Len(h) + Len(p) + 1
        BY <1>1, <1>2, <1>4, <1>6, <2>2
      <4> QED BY ONLY <3>1, <4>1
    <3> QED BY <1>3, <1>4, <3>2
  <2> QED BY <2>1, <2>2
<1>7. ASSUME NEW n \in 1 .. Len(text), n <= Len(h)
      PROVE  text[n] \notin Markers \cup Delimiters
  <2>1. n \in 1 .. Len(h)
    BY <1>1, <1>4, <1>7
  <2> QED BY <1>1, <1>4, <2>1
<1> QED BY <1>1, <1>2, <1>4, <1>5, <1>6, <1>7

LEMMA SpanLaid ==
  ASSUME NEW h, NEW p, NEW port, NEW rest, NEW text, ReadAs(h, p, port, rest), Laid(text, h, p, rest),
         DidAssumption
  PROVE  Span(text) = Len(h) + Len(p)
<1>1. /\ Len(text) \in Nat /\ Len(h) \in Nat \ {0} /\ Len(p) \in Nat /\ Len(rest) \in Nat
      /\ text \in Seq(Symbols) /\ Len(text) = Len(h) + Len(p) + 1 + Len(rest)
      /\ \A n \in 1 .. Len(h) : text[n] = h[n]
      /\ \A n \in 1 .. Len(text) : Len(h) < n /\ n <= Len(h) + Len(p) =>
                                       text[n] \in (IF n = Len(h) + 1 THEN Markers ELSE Digits)
      /\ text[Len(h) + Len(p) + 1] = ":"
      /\ Enclosed(h) \/ Open(h)
  BY ReadSymbols
<1>2. text # <<>>
  BY <1>1
<1>3. CASE Enclosed(h)
  <2>1. /\ Len(h) > 1 /\ h[1] = "[" /\ h[Len(h)] = "]"
        /\ \A n \in 1 .. Len(h) - 1 : h[n] # "]"
    BY <1>3 DEF Enclosed
  <2>2. text[1] = "[" /\ text[Len(h)] = "]" /\ Len(h) \in 1 .. Len(text)
    BY <1>1, <2>1
  <2>3. \A n \in 1 .. Len(text) : n < Len(h) => text[n] # "]"
    <3> SUFFICES ASSUME NEW n \in 1 .. Len(text), n < Len(h)
                 PROVE  text[n] # "]"
      OBVIOUS
    <3>1. n \in 1 .. Len(h) /\ n \in 1 .. Len(h) - 1
      BY <1>1
    <3> QED BY <1>1, <2>1, <3>1
  <2>4. Find(text, "]") = Len(h)
    BY <1>1, <2>2, <2>3, FindFirst
  <2>5. PICK from, tail : from = Len(h) + 1 /\ tail = From(text, from)
    OBVIOUS
  <2>6. /\ Len(tail) = Len(p) + 1 + Len(rest)
        /\ \A k \in 1 .. Len(p) + 1 + Len(rest) : tail[k] = text[Len(h) + k]
    <3>1. PICK len : len = Len(text)
      OBVIOUS
    <3>2. from \in Int /\ len \in Int /\ \A i \in from .. len : text[i] \in Symbols
      <4>1. from \in Int /\ len \in Int /\ \A i \in from .. len : i \in 1 .. Len(text)
        BY <1>1, <2>5, <3>1
      <4> QED BY <1>1, <4>1, ElementOfSeq
    <3>3. tail = SubSeq(text, from, len)
      BY <2>5, <3>1 DEF From
    <3>4. /\ Len(tail) = (IF from <= len THEN len - from + 1 ELSE 0)
          /\ \A i \in 1 .. len - from + 1 : tail[i] = text[from + i - 1]
      BY <3>2, <3>3, SubSeqProperties
    <3>5. len - from + 1 = Len(p) + 1 + Len(rest) /\ from <= len
      BY <1>1, <2>5, <3>1
    <3>6. ASSUME NEW k \in 1 .. Len(p) + 1 + Len(rest)
          PROVE  tail[k] = text[Len(h) + k]
      <4>1. from + k - 1 = Len(h) + k /\ k \in 1 .. len - from + 1
        BY <1>1, <2>5, <3>5
      <4> QED BY <3>4, <4>1
    <3> QED BY <3>4, <3>5, <3>6
  <2> DEFINE Goes(n) == \A k \in 1 .. n : tail[k] \in (IF k = 1 THEN Markers ELSE Digits)
             T == {n \in 0 .. Len(tail) : Goes(n)}
  <2>7. Goes(Len(p))
    <3> SUFFICES ASSUME NEW k \in 1 .. Len(p)
                 PROVE  tail[k] \in (IF k = 1 THEN Markers ELSE Digits)
      OBVIOUS
    <3>1. PICK n : n = Len(h) + k
      OBVIOUS
    <3>2. /\ n \in 1 .. Len(text) /\ Len(h) < n /\ n <= Len(h) + Len(p)
          /\ k \in 1 .. Len(p) + 1 + Len(rest) /\ (k = 1 <=> n = Len(h) + 1)
      BY <1>1, <3>1
    <3>3. tail[k] = text[n]
      BY <2>6, <3>1, <3>2
    <3> QED BY <1>1, <3>2, <3>3
  <2>8. \A n \in T : n <= Len(p)
    <3> SUFFICES ASSUME NEW n \in T
                 PROVE  n <= Len(p)
      OBVIOUS
    <3>0. n \in 0 .. Len(tail) /\ Goes(n) /\ n \in Nat
      BY <1>1, <2>6
    <3> SUFFICES ASSUME Len(p) < n
                 PROVE  FALSE
      BY <1>1, <3>0
    <3>1. Len(p) + 1 \in 1 .. n /\ Len(p) + 1 \in 1 .. Len(p) + 1 + Len(rest)
      BY <1>1, <3>0
    <3>2. tail[Len(p) + 1] = ":"
      <4>1. PICK k : k = Len(p) + 1
        OBVIOUS
      <4>2. tail[k] = text[Len(h) + k]
        BY <2>6, <3>1, <4>1
      <4>3. Len(h) + k = Len(h) + Len(p) + 1
        BY <1>1, <4>1
      <4> QED BY <1>1, <4>1, <4>2, <4>3
    <3>3. tail[Len(p) + 1] \in Markers \cup Digits
      BY <3>0, <3>1
    <3> QED BY <3>2, <3>3 DEF Markers, Digits
  <2>9. Len(p) \in T /\ T \in SUBSET Nat
    BY <1>1, <2>6, <2>7
  <2>10. BracketedSpan(text) = Len(h) + Max(T)
    BY <2>4, <2>5 DEF BracketedSpan
  <2> HIDE DEF T
  <2>11. Max(T) \in T /\ \A n \in T : n <= Max(T)
    <3>1. T # {}
      BY <2>9
    <3> QED BY <1>1, <2>8, <2>9, <3>1, GreatestElement
  <2>12. Max(T) = Len(p)
    <3>1. PICK m : m = Max(T)
      OBVIOUS
    <3>2. m \in Nat /\ m <= Len(p) /\ Len(p) <= m /\ Len(p) \in Nat
      BY <1>1, <2>8, <2>9, <2>11, <3>1
    <3> QED BY <3>1, <3>2
  <2>13. Find(text, "]") # 0
    BY <1>1, <2>4
  <2> QED BY <1>2, <2>2, <2>10, <2>12, <2>13 DEF Span
<1>4. CASE Open(h)
  <2>1. \A n \in 1 .. Len(h) : h[n] # ":" /\ h[n] # "["
    BY <1>4 DEF Open
  <2>2. text[1] # "["
    <3>1. 1 \in 1 .. Len(h)
      BY <1>1
    <3> QED BY <1>1, <2>1, <3>1
  <2>3. PICK k : k = Len(h) + Len(p) + 1
    OBVIOUS
  <2>4. k \in 1 .. Len(text) /\ text[k] = ":"
    BY <1>1, <2>3
  <2>5. \A n \in 1 .. Len(text) : n < k => text[n] # ":"
    <3> SUFFICES ASSUME NEW n \in 1 .. Len(text), n < k
                 PROVE  text[n] # ":"
      OBVIOUS
    <3>1. CASE n <= Len(h)
      <4>1. n \in 1 .. Len(h)
        BY <1>1, <3>1
      <4> QED BY <1>1, <2>1, <4>1
    <3>2. CASE Len(h) < n
      <4>1. n <= Len(h) + Len(p)
        BY <1>1, <2>3
      <4> QED BY <1>1, <3>2, <4>1 DEF Markers, Digits
    <3> QED BY <1>1, <3>1, <3>2
  <2>6. Find(text, ":") = k
    BY <1>1, <2>4, <2>5, FindFirst
  <2>7. k # 0 /\ k - 1 = Len(h) + Len(p)
    BY <1>1, <2>3
  <2> QED BY <2>2, <2>6, <2>7 DEF Span
<1> QED BY <1>1, <1>3, <1>4

LEMMA PortLaid ==
  ASSUME NEW h, NEW p, NEW port, NEW rest, NEW text, ReadAs(h, p, port, rest), Laid(text, h, p, rest),
         DidAssumption, NEW span, span = SubSeq(text, 1, Len(h) + Len(p))
  PROVE  ExtractPortMarker(span) = [host |-> h, port |-> port]
<1>1. /\ Len(text) \in Nat /\ Len(h) \in Nat \ {0} /\ Len(p) \in Nat /\ Len(rest) \in Nat
      /\ text \in Seq(Symbols) /\ Len(text) = Len(h) + Len(p) + 1 + Len(rest)
      /\ \A n \in 1 .. Len(h) : text[n] = h[n]
      /\ \A n \in 1 .. Len(text) : Len(h) < n /\ n <= Len(h) + Len(p) =>
                                       text[n] \in (IF n = Len(h) + 1 THEN Markers ELSE Digits)
      /\ \A n \in 1 .. Len(text) : n <= Len(h) => text[n] \notin Markers \cup Delimiters
  BY ReadSymbols
<1>2. /\ h \in Seq(Symbols) /\ p \in Seq(Symbols) /\ port \in Seq(Digits) /\ Len(port) \in Nat
      /\ \A n \in 1 .. Len(p) : text[Len(h) + n] = p[n]
  BY LenProperties DEF ReadAs, PortText, Laid
<1>3. PICK end : end = Len(h) + Len(p)
  OBVIOUS
<1>4. end \in Nat /\ end < Len(text) /\ Len(h) <= end /\ end # 0
  BY <1>1, <1>3
<1>5. span \in Seq(Symbols) /\ Len(span) = end /\ \A n \in 1 .. end : span[n] = text[n] /\ n \in 1 .. Len(text)
  <2>1. \A i \in 1 .. end : i \in 1 .. Len(text) /\ text[i] \in Symbols
    <3>1. \A i \in 1 .. end : i \in 1 .. Len(text)
      BY <1>4
    <3> QED BY <1>1, <3>1, ElementOfSeq
  <2>2. 1 \in Int /\ end \in Int
    BY <1>4
  <2>3. span = SubSeq(text, 1, end)
    BY <1>3
  <2>4. /\ span \in Seq(Symbols) /\ Len(span) = (IF 1 <= end THEN end - 1 + 1 ELSE 0)
        /\ \A i \in 1 .. end - 1 + 1 : span[i] = text[1 + i - 1]
    BY <2>1, <2>2, <2>3, SubSeqProperties
  <2> QED BY <1>4, <2>1, <2>4
<1>6. SubSeq(span, 1, Len(h)) = h
  <2>1. PICK s, len : len = Len(h) /\ s = SubSeq(span, 1, len)
    OBVIOUS
  <2>2. len \in Nat /\ \A i \in 1 .. len : i \in 1 .. end /\ span[i] \in Symbols
    <3>1. len \in Nat /\ \A i \in 1 .. len : i \in 1 .. end
      BY <1>1, <1>4, <2>1
    <3> QED BY <1>5, <3>1, ElementOfSeq
  <2>3. 1 \in Int /\ len \in Int
    BY <2>2
  <2>4. /\ s \in Seq(Symbols) /\ Len(s) = (IF 1 <= len THEN len - 1 + 1 ELSE 0)
        /\ \A i \in 1 .. len - 1 + 1 : s[i] = span[1 + i - 1]
    BY <2>1, <2>2, <2>3, SubSeqProperties
  <2>5. Len(s) = Len(h) /\ \A i \in 1 .. Len(s) : s[i] = h[i]
    <3>1. Len(s) = Len(h)
      BY <1>1, <2>1, <2>4
    <3>2. ASSUME NEW i \in 1 .. Len(s)
          PROVE  s[i] = h[i]
      <4>1. i \in 1 .. len /\ i \in 1 .. Len(h) /\ 1 + i - 1 = i /\ len - 1 + 1 = len
        BY <2>1, <2>2, <3>1
      <4>2. s[i] = span[i]
        BY <2>4, <4>1
      <4> QED BY <1>1, <1>5, <2>2, <4>1, <4>2
    <3> QED BY <3>1, <3>2
  <2>6. s = h
    BY <1>2, <2>4, <2>5, SeqEqual
  <2> QED BY <2>1, <2>6
<1> DEFINE I == {i \in 1 .. Len(span) : span[i] \in Markers}
           at == SelectLastInSeq(span, LAMBDA s : s \in Markers)
<1>7. at = IF I # {} THEN Max(I) ELSE 0
  BY DEF SelectLastInSeq
<1>8. \A n \in 1 .. Len(h) : span[n] \notin Markers
  <2>1. \A n \in 1 .. Len(h) : n \in 1 .. end /\ n \in 1 .. Len(text) /\ n <= Len(h)
    BY <1>1, <1>4
  <2> QED BY <1>1, <1>5, <2>1
<1>9. CASE Len(p) = 0 /\ port = NoPort
  <2>1. I = {}
    BY <1>1, <1>3, <1>5, <1>8, <1>9
  <2>2. at = 0
    BY <1>7, <2>1
  <2>3. ExtractPortMarker(span) = [host |-> span, port |-> NoPort]
    BY <2>2 DEF ExtractPortMarker
  <2>4. span = h
    <3>1. Len(span) = Len(h) /\ \A i \in 1 .. Len(span) : span[i] = h[i]
      BY <1>1, <1>3, <1>5, <1>9
    <3> QED BY <1>2, <1>5, <3>1, SeqEqual
  <2> QED BY <1>9, <2>3, <2>4
<1>10. CASE /\ Len(p) = Len(port) + 1 /\ p[1] \in Markers
            /\ Len(port) \in 1 .. PortDigits
            /\ \A n \in 1 .. Len(port) : p[n + 1] = port[n]
  <2>1. PICK k : k = Len(h) + 1
    OBVIOUS
  <2>2. k \in 1 .. end /\ k < end /\ k \in Nat
    BY <1>1, <1>3, <1>10, <2>1
  <2>3. span[k] \in Markers
    BY <1>1, <1>3, <1>5, <2>1, <2>2
  <2>4. \A n \in 1 .. end : k < n => span[n] \in Digits
    <3> SUFFICES ASSUME NEW n \in 1 .. end, k < n
                 PROVE  span[n] \in Digits
      OBVIOUS
    <3>1. n \in 1 .. Len(text) /\ Len(h) < n /\ n <= Len(h) + Len(p) /\ n # Len(h) + 1
      BY <1>1, <1>3, <1>5, <2>1
    <3>2. text[n] \in Digits
      BY <1>1, <3>1
    <3> QED BY <1>5, <3>2
  <2>5. \A n \in I : n <= k
    <3> SUFFICES ASSUME NEW n \in I, k < n
                 PROVE  FALSE
      BY <1>4, <1>5, <2>2
    <3> QED BY <1>5, <2>4 DEF Markers, Digits
  <2>6. I \in SUBSET Nat /\ k \in I
    BY <1>4, <1>5, <2>2, <2>3
  <2>7. at = k
    <3> HIDE DEF I
    <3>1. Max(I) \in I /\ \A n \in I : n <= Max(I)
      BY <2>2, <2>5, <2>6, GreatestElement
    <3>2. PICK m : m = Max(I)
      OBVIOUS
    <3>3. m \in Nat /\ m <= k /\ k <= m /\ k \in Nat
      BY <2>2, <2>5, <2>6, <3>1, <3>2
    <3> QED BY <1>7, <2>6, <3>2, <3>3
  <2>8. Line(span) = span
    <3>1. span[end] \in Digits
      <4>1. end \in 1 .. end /\ k < end
        BY <1>4, <2>2
      <4> QED BY <2>4, <4>1
    <3>2. Last(span) # "\n"
      BY <1>5, <3>1 DEF Last, Digits
    <3> QED BY <3>2 DEF Line
  <2>9. From(span, k + 1) = port
    <3>1. PICK d, from : from = k + 1 /\ d = SubSeq(span, from, end)
      OBVIOUS
    <3>2. from \in Int /\ end \in Int /\ \A i \in from .. end : i \in 1 .. end /\ k < i
      BY <1>4, <2>2, <3>1
    <3>3. \A i \in from .. end : span[i] \in Digits
      BY <2>4, <3>2
    <3>4. /\ d \in Seq(Digits) /\ Len(d) = (IF from <= end THEN end - from + 1 ELSE 0)
          /\ \A i \in 1 .. end - from + 1 : d[i] = span[from + i - 1]
      <4>1. d = SubSeq(span, from, end) /\ from \in Int /\ end \in Int
        BY <3>1, <3>2
      <4>2. PICK X : X = Digits
        OBVIOUS
      <4>3. \A i \in from .. end : span[i] \in X
        BY <3>3, <4>2
      <4>4. /\ d \in Seq(X) /\ Len(d) = (IF from <= end THEN end - from + 1 ELSE 0)
            /\ \A i \in 1 .. end - from + 1 : d[i] = span[from + i - 1]
        BY ONLY <4>1, <4>3, SubSeqProperties
      <4> QED BY <4>2, <4>4
    <3>5. end - from + 1 = Len(port) /\ from <= end
      BY <1>1, <1>2, <1>3, <1>10, <2>1, <3>1
    <3>6. ASSUME NEW i \in 1 .. Len(port)
          PROVE  d[i] = port[i]
      <4>1. /\ from + i - 1 \in 1 .. end /\ i + 1 \in 1 .. Len(p)
            /\ from + i - 1 = Len(h) + (i + 1)
        <5>1. PICK a, b, c : a = Len(h) /\ b = Len(port) /\ c = Len(p)
          OBVIOUS
        <5>2. /\ a \in Nat /\ b \in Nat /\ c = b + 1 /\ end = a + c
              /\ from = a + 1 + 1 /\ i \in 1 .. b
          BY <1>1, <1>2, <1>3, <1>10, <2>1, <3>1, <5>1
        <5>3. from + i - 1 \in 1 .. end /\ i + 1 \in 1 .. c /\ from + i - 1 = a + (i + 1)
          BY ONLY <5>2
        <5> QED BY <5>1, <5>3
      <4>2. d[i] = span[from + i - 1]
        BY <3>4, <3>5
      <4>3. span[from + i - 1] = text[Len(h) + (i + 1)]
        BY <1>5, <4>1
      <4>4. text[Len(h) + (i + 1)] = p[i + 1]
        BY <1>2, <4>1
      <4> QED BY <1>10, <4>2, <4>3, <4>4
    <3>7. d = port
      BY <1>2, <3>4, <3>5, <3>6, SeqEqual
    <3> QED BY <1>5, <3>1, <3>7 DEF From
  <2>10. Over(port, Digits)
    BY <1>2, LenProperties DEF Over, Range
  <2>11. at # 0 /\ at - 1 = Len(h)
    BY <1>1, <2>1, <2>7
  <2>12. From(Line(span), at + 1) = port
    BY <2>7, <2>8, <2>9
  <2>13. ExtractPortMarker(span) = [host |-> SubSeq(span, 1, at - 1), port |-> port]
    BY <1>10, <2>10, <2>11, <2>12 DEF ExtractPortMarker
  <2> HIDE DEF at
  <2> QED BY <1>6, <2>11, <2>13
<1> QED BY <1>9, <1>10 DEF ReadAs, PortText

(* What parse makes of a text that is laid out.                            *)
LEMMA ParseLaid ==
  ASSUME NEW h, NEW p, NEW port, NEW rest, NEW text, ReadAs(h, p, port, rest), Laid(text, h, p, rest),
         DidAssumption
  PROVE  Parse(text) = [host |-> Host(h), port |-> port, path |-> Front(Fields(rest, ":")), aid |-> Last(Fields(rest, ":"))]
<1>1. /\ Len(text) \in Nat /\ Len(h) \in Nat \ {0} /\ Len(p) \in Nat /\ Len(rest) \in Nat
      /\ text \in Seq(Symbols) /\ Len(text) = Len(h) + Len(p) + 1 + Len(rest)
      /\ text[Len(h) + Len(p) + 1] = ":"
      /\ \A n \in 1 .. Len(text) : Len(h) < n /\ n <= Len(h) + Len(p) =>
                                       text[n] \in (IF n = Len(h) + 1 THEN Markers ELSE Digits)
      /\ \A n \in 1 .. Len(text) : n <= Len(h) => text[n] \notin Markers \cup Delimiters
      /\ \A n \in 1 .. Len(text) : Len(h) + Len(p) < n => text[n] \notin Markers \cup Delimiters
  BY ReadSymbols
<1>2. PICK end : end = Len(h) + Len(p)
  OBVIOUS
<1>3. Span(text) = end
  BY <1>2, SpanLaid
<1>4. Range(text) \cap Delimiters = {}
  <2>1. \A n \in 1 .. Len(text) : text[n] \notin Delimiters
    <3> SUFFICES ASSUME NEW n \in 1 .. Len(text)
                 PROVE  text[n] \notin Delimiters
      OBVIOUS
    <3>1. CASE n <= Len(h)
      BY <1>1, <3>1
    <3>2. CASE Len(h) < n /\ n <= Len(h) + Len(p)
      BY <1>1, <3>2 DEF Markers, Digits, Delimiters
    <3>3. CASE Len(h) + Len(p) < n
      BY <1>1, <3>3
    <3> QED BY <1>1, <3>1, <3>2, <3>3
  <2> QED BY <1>1, <2>1, RangeEquality
<1>5. end < Len(text) /\ text[end + 1] = ":"
  BY <1>1, <1>2
<1>6. From(text, end + 2) = rest
  <2>1. PICK r, from, len : from = end + 2 /\ len = Len(text) /\ r = SubSeq(text, from, len)
    OBVIOUS
  <2>2. from \in Int /\ len \in Int /\ len - from + 1 = Len(rest) /\ \A i \in from .. len : i \in 1 .. Len(text)
    BY <1>1, <1>2, <2>1
  <2>3. \A i \in from .. len : text[i] \in Symbols
    BY <1>1, <2>2, ElementOfSeq
  <2>4. /\ r \in Seq(Symbols) /\ Len(r) = (IF from <= len THEN len - from + 1 ELSE 0)
        /\ \A i \in 1 .. len - from + 1 : r[i] = text[from + i - 1]
    <3>1. r = SubSeq(text, from, len) /\ from \in Int /\ len \in Int
      BY <2>1, <2>2
    <3>2. PICK X : X = Symbols
      OBVIOUS
    <3>3. \A i \in from .. len : text[i] \in X
      BY <2>3, <3>2
    <3>4. /\ r \in Seq(X) /\ Len(r) = (IF from <= len THEN len - from + 1 ELSE 0)
          /\ \A i \in 1 .. len - from + 1 : r[i] = text[from + i - 1]
      BY ONLY <3>1, <3>3, SubSeqProperties
    <3> QED BY <3>2, <3>4
  <2>5. Len(r) = Len(rest)
    BY <1>1, <1>2, <2>1, <2>2, <2>4
  <2>6. ASSUME NEW i \in 1 .. Len(r)
        PROVE  r[i] = rest[i]
    <3>1. i \in 1 .. len - from + 1 /\ i \in 1 .. Len(rest) /\ from + i - 1 = Len(h) + Len(p) + 1 + i
      BY <1>1, <1>2, <2>1, <2>2, <2>5
    <3>2. text[Len(h) + Len(p) + 1 + i] = rest[i]
      BY <3>1 DEF Laid
    <3> QED BY <2>4, <3>1, <3>2
  <2>7. rest \in Seq(Symbols)
    BY DEF Laid
  <2>8. r = rest
    BY <2>4, <2>5, <2>6, <2>7, SeqEqual
  <2> QED BY <2>1, <2>8 DEF From
<1>7. PICK span, parts : span = SubSeq(text, 1, end) /\ parts = Fields(rest, ":")
  OBVIOUS
<1>8. ExtractPortMarker(span) = [host |-> h, port |-> port]
  BY <1>2, <1>7, PortLaid
<1>9. PICK split : split = Split(text)
  OBVIOUS
<1>10. split = [tail |-> TRUE, at |-> [host |-> h, port |-> port], path |-> Front(parts), aid |-> Last(parts)]
  <2>1. Fields(From(text, end + 2), ":") = parts
    BY <1>6, <1>7
  <2>2. (end < Len(text) /\ text[end + 1] = ":") = TRUE
    BY <1>5
  <2> QED BY <1>3, <1>7, <1>8, <1>9, <2>1, <2>2 DEF Split
<1>11. /\ split.tail /\ split.at.host = h /\ split.at.port = port
       /\ split.path = Front(parts) /\ split.aid = Last(parts)
  BY <1>10
<1>12. /\ Host(h) # NoHost /\ \A segment \in Range(Front(parts)) : ValidPathSegment(segment)
       /\ ValidAid(Last(parts))
  BY <1>7 DEF ReadAs, ValidRest
<1> QED BY <1>4, <1>7, <1>9, <1>11, <1>12 DEF Parse

LEMMA SliceOf ==
  ASSUME NEW X, NEW text \in Seq(X), NEW m \in Nat \ {0}, NEW n \in Nat, n <= Len(text),
         NEW s, s = SubSeq(text, m, n)
  PROVE  /\ s \in Seq(X) /\ Len(s) = (IF m <= n THEN n - m + 1 ELSE 0)
         /\ \A i \in 1 .. n - m + 1 : s[i] = text[m + i - 1]
<1>1. Len(text) \in Nat /\ \A i \in m .. n : text[i] \in X
  <2>1. Len(text) \in Nat
    BY LenProperties
  <2>2. \A i \in m .. n : i \in 1 .. Len(text)
    BY <2>1
  <2> QED BY <2>1, <2>2, ElementOfSeq
<1>2. m \in Int /\ n \in Int
  OBVIOUS
<1> QED BY <1>1, <1>2, SubSeqProperties

(* Where the port is in a span, which may have a line's end behind it.     *)
LEMMA MarkerRead ==
  ASSUME NEW span \in Seq(Symbols)
  PROVE  \E h \in Seq(Symbols), p \in Seq(Symbols), port \in Seq(Digits) :
            /\ ExtractPortMarker(span) = [host |-> h, port |-> port]
            /\ PortText(p, port) /\ (span = h \o p \/ (p # <<>> /\ Line(span) = h \o p))
<1>00. PICK line : line = Line(span)
  OBVIOUS
<1> DEFINE I == {i \in 1 .. Len(span) : span[i] \in Markers}
           at == SelectLastInSeq(span, LAMBDA s : s \in Markers)
           digits == From(Line(span), at + 1)
<1>0. Len(span) \in Nat
  BY LenProperties
<1>1. /\ at \in 0 .. Len(span) /\ (at # 0 => span[at] \in Markers)
  <2>1. at = IF I # {} THEN Max(I) ELSE 0
    BY DEF SelectLastInSeq
  <2>2. CASE I = {}
    BY <1>0, <2>1, <2>2
  <2>3. CASE I # {}
    <3>1. I \in SUBSET Nat /\ \A n \in I : n <= Len(span)
      BY <1>0
    <3>2. Max(I) \in I
      <4> HIDE DEF I
      <4> QED BY <1>0, <2>3, <3>1, GreatestElement
    <3> QED BY <1>0, <2>1, <2>3, <3>2
  <2> QED BY <2>2, <2>3
<1>2. line \in Seq(Symbols) /\ (line = span \/ span = Append(line, "\n"))
  BY <1>00, LineEnds
<1>3. CASE at = 0 \/ ~Over(digits, Digits) \/ Len(digits) \notin 1 .. PortDigits
  <2>1. ExtractPortMarker(span) = [host |-> span, port |-> NoPort]
    BY <1>3 DEF ExtractPortMarker
  <2>2. PICK p : p = <<>>
    OBVIOUS
  <2>3. p \in Seq(Symbols) /\ NoPort \in Seq(Digits) /\ Len(p) = 0
    BY <2>2 DEF NoPort
  <2>4. PortText(p, NoPort)
    BY <2>3 DEF PortText
  <2>5. span = span \o p
    BY <2>2, ConcatEmptySeq
  <2> QED BY <2>1, <2>3, <2>4, <2>5
<1>4. CASE ~(at = 0 \/ ~Over(digits, Digits) \/ Len(digits) \notin 1 .. PortDigits)
  <2>0. PICK k, d : k = at /\ d = digits
    OBVIOUS
  <2> HIDE DEF at, digits
  <2>0a. k \in 1 .. Len(span) /\ span[k] \in Markers /\ Over(d, Digits) /\ Len(d) \in 1 .. PortDigits
    BY <1>0, <1>1, <1>4, <2>0
  <2>0b. d = SubSeq(line, k + 1, Len(line))
    BY <1>00, <2>0 DEF digits, From
  <2>0c. Len(line) \in Nat /\ Len(line) <= Len(span) /\ \A n \in 1 .. Len(line) : line[n] = span[n]
    <3>1. CASE line = span
      BY <1>0, <3>1
    <3>2. CASE line # span
      <4>1. span = Append(line, "\n") /\ "\n" \in Symbols
        BY <1>2, <3>2 DEF Symbols
      <4> QED BY <1>2, <4>1, AppendAt
    <3> QED BY <3>1, <3>2
  <2>0d. k <= Len(line)
    <3>1. PICK m, len : m = k + 1 /\ len = Len(line)
      OBVIOUS
    <3>2. CASE m <= len
      BY <2>0a, <2>0c, <3>1, <3>2
    <3>3. CASE ~(m <= len)
      <4>1. m \in Nat \ {0} /\ len \in Nat /\ len <= Len(line) /\ d = SubSeq(line, m, len)
        BY <2>0a, <2>0b, <2>0c, <3>1
      <4>2. Len(d) = 0
        BY <1>2, <3>3, <4>1, SliceOf
      <4> QED BY <2>0a, <4>2
    <3> QED BY <3>2, <3>3
  <2>1. k \in 1 .. Len(line) /\ line[k] \in Markers /\ Over(d, Digits) /\ Len(d) \in 1 .. PortDigits
    BY <2>0a, <2>0c, <2>0d
  <2>2. PICK h, p : h = SubSeq(line, 1, k - 1) /\ p = SubSeq(line, k, Len(line))
    OBVIOUS
  <2>3. ExtractPortMarker(span) = [host |-> h, port |-> d]
    <3>1. ExtractPortMarker(span) = [host |-> SubSeq(span, 1, k - 1), port |-> d]
      BY <1>4, <2>0 DEF ExtractPortMarker, at, digits
    <3>2. SubSeq(span, 1, k - 1) = h
      <4>1. PICK m, s : m = k - 1 /\ s = SubSeq(span, 1, m)
        OBVIOUS
      <4>2. m \in Nat /\ m <= Len(span) /\ m <= Len(line) /\ 1 \in Nat \ {0} /\ h = SubSeq(line, 1, m)
        BY <2>0a, <2>0c, <2>0d, <2>2, <4>1
      <4>3. /\ s \in Seq(Symbols) /\ Len(s) = (IF 1 <= m THEN m - 1 + 1 ELSE 0)
            /\ \A i \in 1 .. m - 1 + 1 : s[i] = span[1 + i - 1]
        BY <4>1, <4>2, SliceOf
      <4>4. /\ h \in Seq(Symbols) /\ Len(h) = (IF 1 <= m THEN m - 1 + 1 ELSE 0)
            /\ \A i \in 1 .. m - 1 + 1 : h[i] = line[1 + i - 1]
        BY <1>2, <4>2, SliceOf
      <4>5. ASSUME NEW i \in 1 .. Len(s)
            PROVE  s[i] = h[i]
        <5>1. i \in 1 .. m - 1 + 1 /\ 1 + i - 1 = i /\ i \in 1 .. Len(line)
          BY <2>0c, <4>2, <4>3
        <5> QED BY <2>0c, <4>3, <4>4, <5>1
      <4> QED BY <4>1, <4>3, <4>4, <4>5, SeqEqual
    <3> QED BY <3>1, <3>2
  <2>4. d = SubSeq(line, k + 1, Len(line))
    BY <2>0b
  <2>5. /\ d \in Seq(Symbols) /\ Len(d) = (IF k + 1 <= Len(line) THEN Len(line) - (k + 1) + 1 ELSE 0)
        /\ \A i \in 1 .. Len(line) - (k + 1) + 1 : d[i] = line[k + 1 + i - 1]
    <3>1. PICK m : m = k + 1
      OBVIOUS
    <3>2. m \in Nat \ {0} /\ d = SubSeq(line, m, Len(line))
      BY <2>0c, <2>1, <2>4, <3>1
    <3>3. /\ d \in Seq(Symbols) /\ Len(d) = (IF m <= Len(line) THEN Len(line) - m + 1 ELSE 0)
          /\ \A i \in 1 .. Len(line) - m + 1 : d[i] = line[m + i - 1]
      BY <2>0c, <3>2, SliceOf
    <3> QED BY <3>1, <3>3
  <2>6. /\ p \in Seq(Symbols) /\ Len(p) = Len(line) - k + 1
        /\ \A i \in 1 .. Len(line) - k + 1 : p[i] = line[k + i - 1]
    <3>1. k \in Nat \ {0} /\ k <= Len(line)
      BY <2>0c, <2>1
    <3> QED BY <2>0c, <2>2, <3>1, SliceOf
  <2>7. /\ h \in Seq(Symbols) /\ Len(h) = k - 1
        /\ \A i \in 1 .. k - 1 : h[i] = line[i]
    <3>1. PICK n : n = k - 1
      OBVIOUS
    <3>2. n \in Nat /\ n <= Len(line) /\ h = SubSeq(line, 1, n) /\ 1 \in Nat \ {0}
      BY <2>0c, <2>1, <2>2, <3>1
    <3>3. /\ h \in Seq(Symbols) /\ Len(h) = (IF 1 <= n THEN n - 1 + 1 ELSE 0)
          /\ \A i \in 1 .. n - 1 + 1 : h[i] = line[1 + i - 1]
      BY <1>2, <3>2, SliceOf
    <3>4. Len(h) = n /\ \A i \in 1 .. n : h[i] = line[i]
      BY <3>2, <3>3
    <3> QED BY <3>1, <3>3, <3>4
  <2>8. line = h \o p
    <3>1. PICK c : c = h \o p
      OBVIOUS
    <3>2. /\ c \in Seq(Symbols) /\ Len(c) = Len(h) + Len(p)
          /\ \A n \in 1 .. Len(h) : c[n] = h[n]
          /\ \A n \in 1 .. Len(p) : c[Len(h) + n] = p[n]
      <4>1. c = h \o p /\ h \in Seq(Symbols) /\ p \in Seq(Symbols)
        BY <2>6, <2>7, <3>1
      <4> QED BY ONLY <4>1, ConcatAt
    <3>3. Len(c) = Len(line)
      BY <2>0c, <2>1, <2>6, <2>7, <3>2
    <3>4. ASSUME NEW n \in 1 .. Len(c)
          PROVE  c[n] = line[n]
      <4>1. CASE n < k
        <5>1. n \in 1 .. Len(h) /\ n \in 1 .. k - 1
          BY <2>0c, <2>1, <2>7, <4>1
        <5> QED BY <2>7, <3>2, <5>1
      <4>2. CASE ~(n < k)
        <5>1. PICK i : i = n - k + 1
          OBVIOUS
        <5>2. i \in 1 .. Len(p) /\ i \in 1 .. Len(line) - k + 1 /\ Len(h) + i = n /\ k + i - 1 = n
          BY <2>0c, <2>1, <2>6, <2>7, <3>3, <4>2, <5>1
        <5> QED BY <2>6, <3>2, <5>2
      <4> QED BY <4>1, <4>2
    <3>5. c = line
      BY <1>2, <3>2, <3>3, <3>4, SeqEqual
    <3> QED BY <3>1, <3>5
  <2>9. d \in Seq(Digits)
    <3>1. Len(d) \in Nat /\ d = [n \in 1 .. Len(d) |-> d[n]] /\ \A n \in 1 .. Len(d) : d[n] \in Range(d)
      BY <2>5, LenProperties, RangeEquality
    <3>2. \A n \in 1 .. Len(d) : d[n] \in Digits
      BY <2>1, <3>1 DEF Over
    <3> QED BY <3>1, <3>2
  <2>10. PortText(p, d)
    <3>1. k + 1 <= Len(line) /\ Len(d) = Len(line) - k /\ Len(p) = Len(d) + 1
      BY <2>0c, <2>1, <2>5, <2>6
    <3>2. p[1] \in Markers
      <4>1. 1 \in 1 .. Len(line) - k + 1 /\ k + 1 - 1 = k
        BY <2>0c, <2>1
      <4> QED BY <2>1, <2>6, <4>1
    <3>3. ASSUME NEW n \in 1 .. Len(d)
          PROVE  p[n + 1] = d[n]
      <4>1. /\ n + 1 \in 1 .. Len(line) - k + 1 /\ n \in 1 .. Len(line) - (k + 1) + 1
            /\ k + (n + 1) - 1 = k + 1 + n - 1
        BY <2>0c, <2>1, <3>1
      <4> QED BY <2>5, <2>6, <4>1
    <3> QED BY <2>1, <2>6, <2>9, <3>1, <3>2, <3>3 DEF PortText
  <2>11. p # <<>>
    <3>1. Len(<<>>) = 0
      OBVIOUS
    <3>2. Len(p) # 0
      BY <2>0c, <2>1, <2>6
    <3> QED BY <3>1, <3>2
  <2> QED BY <1>00, <2>3, <2>6, <2>7, <2>8, <2>9, <2>10, <2>11
<1> QED BY <1>3, <1>4

LEMMA ConcatParts ==
  ASSUME NEW X, NEW h \in Seq(X), NEW t \in Seq(X), NEW u, u = h \o t
  PROVE  SubSeq(u, 1, Len(h)) = h /\ From(u, Len(h) + 1) = t
<1>1. /\ u \in Seq(X) /\ Len(u) = Len(h) + Len(t) /\ Len(h) \in Nat /\ Len(t) \in Nat
      /\ \A n \in 1 .. Len(h) : u[n] = h[n]
      /\ \A n \in 1 .. Len(t) : u[Len(h) + n] = t[n]
  BY ConcatAt
<1>2. SubSeq(u, 1, Len(h)) = h
  <2>1. PICK s, n : n = Len(h) /\ s = SubSeq(u, 1, n)
    OBVIOUS
  <2>2. /\ s \in Seq(X) /\ Len(s) = (IF 1 <= n THEN n - 1 + 1 ELSE 0)
        /\ \A i \in 1 .. n - 1 + 1 : s[i] = u[1 + i - 1]
    <3>1. n \in Nat /\ n <= Len(u) /\ 1 \in Nat \ {0}
      BY <1>1, <2>1
    <3> QED BY <1>1, <2>1, <3>1, SliceOf
  <2>3. Len(s) = Len(h) /\ \A i \in 1 .. Len(h) : s[i] = h[i]
    <3>1. Len(s) = Len(h)
      BY <1>1, <2>1, <2>2
    <3>2. ASSUME NEW i \in 1 .. Len(h)
          PROVE  s[i] = h[i]
      <4>1. i \in 1 .. n - 1 + 1 /\ 1 + i - 1 = i
        BY <1>1, <2>1
      <4> QED BY <1>1, <2>2, <4>1
    <3> QED BY <3>1, <3>2
  <2> QED BY <2>1, <2>2, <2>3, SeqEqual
<1>3. From(u, Len(h) + 1) = t
  <2>1. PICK s, m, len : m = Len(h) + 1 /\ len = Len(u) /\ s = SubSeq(u, m, len)
    OBVIOUS
  <2>2. /\ s \in Seq(X) /\ Len(s) = (IF m <= len THEN len - m + 1 ELSE 0)
        /\ \A i \in 1 .. len - m + 1 : s[i] = u[m + i - 1]
    <3>1. u \in Seq(X)
      BY <1>1
    <3>2. m \in Nat \ {0} /\ len \in Nat /\ len <= Len(u)
      BY <1>1, <2>1
    <3>3. s = SubSeq(u, m, len)
      BY <2>1
    <3> QED BY ONLY <3>1, <3>2, <3>3, SliceOf, SMTT(30)
  <2>3. Len(s) = Len(t) /\ len - m + 1 = Len(t)
    BY <1>1, <2>1, <2>2
  <2>4. ASSUME NEW i \in 1 .. Len(s)
        PROVE  s[i] = t[i]
    <3>1. i \in 1 .. Len(t) /\ i \in 1 .. len - m + 1 /\ m + i - 1 = Len(h) + i
      BY <1>1, <2>1, <2>3
    <3> QED BY <1>1, <2>2, <3>1
  <2>5. s = t
    BY <2>2, <2>3, <2>4, SeqEqual
  <2> QED BY <2>1, <2>5 DEF From
<1> QED BY <1>2, <1>3

LEMMA PartsConcat ==
  ASSUME NEW X, NEW text \in Seq(X), NEW end \in Nat, end < Len(text)
  PROVE  /\ SubSeq(text, 1, end) \in Seq(X) /\ From(text, end + 2) \in Seq(X)
         /\ text = SubSeq(text, 1, end) \o (<<text[end + 1]>> \o From(text, end + 2))
         /\ Range(SubSeq(text, 1, end)) \subseteq Range(text)
<1>0. Len(text) \in Nat /\ text[end + 1] \in X
  <2>1. Len(text) \in Nat
    BY LenProperties
  <2>2. end + 1 \in 1 .. Len(text)
    BY <2>1
  <2> QED BY <2>1, <2>2, ElementOfSeq
<1>1. PICK s, r, m, len, x : /\ m = end + 2 /\ len = Len(text) /\ x = text[end + 1]
                             /\ s = SubSeq(text, 1, end) /\ r = SubSeq(text, m, len)
  OBVIOUS
<1>2. /\ s \in Seq(X) /\ Len(s) = end /\ \A i \in 1 .. end : s[i] = text[i]
  <2>1. /\ s \in Seq(X) /\ Len(s) = (IF 1 <= end THEN end - 1 + 1 ELSE 0)
        /\ \A i \in 1 .. end - 1 + 1 : s[i] = text[1 + i - 1]
    <3>1. 1 \in Nat \ {0} /\ end <= Len(text)
      BY <1>0
    <3> QED BY <1>1, <3>1, SliceOf
  <2>2. Len(s) = end
    BY <2>1
  <2>3. ASSUME NEW i \in 1 .. end
        PROVE  s[i] = text[i]
    <3>1. i \in 1 .. end - 1 + 1 /\ 1 + i - 1 = i
      OBVIOUS
    <3> QED BY <2>1, <3>1
  <2> QED BY <2>1, <2>2, <2>3
<1>3. /\ r \in Seq(X) /\ Len(r) = (IF m <= len THEN len - m + 1 ELSE 0)
      /\ \A i \in 1 .. len - m + 1 : r[i] = text[m + i - 1]
  <2>1. m \in Nat \ {0} /\ len \in Nat /\ len <= Len(text)
    BY <1>0, <1>1
  <2> QED BY <1>1, <2>1, SliceOf
<1>4. PICK u : u = s \o (<<x>> \o r)
  OBVIOUS
<1>5. /\ u \in Seq(X) /\ Len(u) = Len(s) + 1 + Len(r)
      /\ u[Len(s) + 1] = x /\ \A n \in 1 .. Len(s) : u[n] = s[n]
      /\ \A n \in 1 .. Len(r) : u[Len(s) + 1 + n] = r[n]
  <2>1. x \in X /\ s \in Seq(X) /\ r \in Seq(X)
    BY <1>0, <1>1, <1>2, <1>3
  <2> QED BY ONLY <1>4, <2>1, PartAt
<1>6. Len(u) = Len(text)
  <2>1. PICK a, b, c : a = Len(s) /\ b = Len(r) /\ c = Len(u)
    OBVIOUS
  <2>2. c = a + 1 + b /\ a = end
    BY <1>2, <1>5, <2>1
  <2>3. b = (IF m <= len THEN len - m + 1 ELSE 0) /\ m = end + 2 /\ len \in Nat /\ end < len /\ end \in Nat
    BY <1>0, <1>1, <1>3, <2>1
  <2>4. c = len
    BY ONLY <2>2, <2>3
  <2> QED BY <1>1, <2>1, <2>4
<1>7. ASSUME NEW n \in 1 .. Len(u)
      PROVE  u[n] = text[n]
  <2>1. CASE n <= end
    <3>1. n \in 1 .. end
      BY <2>1
    <3> QED BY <1>2, <1>5, <3>1
  <2>2. CASE n = end + 1
    BY <1>1, <1>2, <1>5, <2>2
  <2>3. CASE n > end + 1
    <3>1. PICK i : i = n - (end + 1)
      OBVIOUS
    <3>2. i \in 1 .. Len(r) /\ i \in 1 .. len - m + 1 /\ n = Len(s) + 1 + i /\ m + i - 1 = n
      BY <1>0, <1>1, <1>2, <1>3, <1>6, <2>3, <3>1
    <3> QED BY <1>3, <1>5, <3>2
  <2> QED BY <2>1, <2>2, <2>3
<1>8. u = text
  BY <1>5, <1>6, <1>7, SeqEqual
<1>9. Range(s) \subseteq Range(text)
  <2>1. \A i \in 1 .. Len(s) : s[i] \in Range(text)
    <3>1. \A i \in 1 .. end : i \in 1 .. Len(text)
      BY <1>0
    <3> QED BY <1>2, <3>1, RangeEquality
  <2> QED BY <1>2, <2>1, RangeEquality
<1> QED BY <1>1, <1>2, <1>3, <1>4, <1>8, <1>9 DEF From

(* Behind a bracket nothing but a port is read: no line's end.             *)
LEMMA BracketedEnd ==
  ASSUME NEW text \in Seq(Symbols), text # <<>>, text[1] = "[", NEW end, end = Span(text), end # 0
  PROVE  text[end] # "\n"
<1>1. PICK at : at = Find(text, "]")
  OBVIOUS
<1>2. Len(text) \in Nat /\ at \in 0 .. Len(text) /\ (at # 0 => text[at] = "]")
  BY <1>1, LenProperties, FindIs
<1>3. at # 0 /\ end = BracketedSpan(text)
  BY <1>1 DEF Span
<1>4. PICK rest : rest = From(text, at + 1)
  OBVIOUS
<1>5. /\ rest \in Seq(Symbols) /\ Len(rest) = Len(text) - at
      /\ \A i \in 1 .. Len(rest) : rest[i] = text[at + i]
  <2>1. PICK n, len : n = at + 1 /\ len = Len(text)
    OBVIOUS
  <2>2. n \in Nat \ {0} /\ len \in Nat /\ len <= Len(text) /\ rest = SubSeq(text, n, len)
    BY <1>2, <1>4, <2>1 DEF From
  <2>3. /\ rest \in Seq(Symbols) /\ Len(rest) = (IF n <= len THEN len - n + 1 ELSE 0)
        /\ \A i \in 1 .. len - n + 1 : rest[i] = text[n + i - 1]
    BY <2>2, SliceOf
  <2>4. len - n + 1 = Len(text) - at /\ Len(rest) = Len(text) - at
    BY <1>2, <2>1, <2>3
  <2>5. ASSUME NEW i \in 1 .. Len(rest)
        PROVE  rest[i] = text[at + i]
    <3>1. i \in 1 .. len - n + 1 /\ n + i - 1 = at + i
      BY <1>2, <2>1, <2>4
    <3> QED BY <2>3, <3>1
  <2> QED BY <2>3, <2>4, <2>5
<1> DEFINE T == {n \in 0 .. Len(rest) : \A k \in 1 .. n : rest[k] \in (IF k = 1 THEN Markers ELSE Digits)}
<1>6. Len(rest) \in Nat
  BY <1>5, LenProperties
<1>7. T \in SUBSET Nat /\ T # {} /\ \A n \in T : n <= Len(rest)
  <2>1. 0 \in T
    BY <1>6
  <2> QED BY <1>6, <2>1
<1>8. end = at + Max(T)
  BY <1>1, <1>3, <1>4 DEF BracketedSpan
<1>9. Max(T) \in T
  <2> HIDE DEF T
  <2> QED BY <1>6, <1>7, GreatestElement
<1>10. PICK m : m = Max(T)
  OBVIOUS
<1>11. m \in 0 .. Len(rest) /\ \A k \in 1 .. m : rest[k] \in (IF k = 1 THEN Markers ELSE Digits)
  BY <1>9, <1>10
<1>12. CASE m = 0
  BY <1>2, <1>3, <1>8, <1>10, <1>12
<1>13. CASE m # 0
  <2>1. m \in 1 .. m /\ m \in 1 .. Len(rest)
    BY <1>6, <1>11, <1>13
  <2>2. rest[m] \in Markers \cup Digits /\ rest[m] = text[at + m]
    BY <1>5, <1>11, <2>1
  <2> QED BY <1>8, <1>10, <2>2 DEF Markers, Digits
<1> QED BY <1>12, <1>13

(* What a text that is a DID is cut into, and read as.                     *)
LEMMA ParseSplit ==
  ASSUME NEW text \in Seq(Symbols), Parse(text) # Invalid
  PROVE  \E span, h, p, port, rest :
            /\ span \in Seq(Symbols) /\ h \in Seq(Symbols) /\ p \in Seq(Symbols)
            /\ text = span \o (<<":">> \o rest)
            /\ Host(h) # NoHost /\ PortText(p, port) /\ ValidRest(rest)
            /\ \/ span = h \o p
               \/ p # <<>> /\ Labelled(h) /\ span = Append(h \o p, "\n")
            /\ Parse(text) = [host |-> Host(h), port |-> port,
                              path |-> Front(Fields(rest, ":")), aid |-> Last(Fields(rest, ":"))]
<1>1. PICK end : end = Span(text)
  OBVIOUS
<1>2. end \in Nat /\ Len(text) \in Nat
  BY <1>1, SpanIs, LenProperties
<1>3. PICK span, rest : span = SubSeq(text, 1, end) /\ rest = From(text, end + 2)
  OBVIOUS
<1>4. PICK at : at = ExtractPortMarker(span)
  OBVIOUS
<1>5. PICK split : split = Split(text)
  OBVIOUS
<1>6. split = [tail |-> end < Len(text) /\ text[end + 1] = ":", at |-> at,
               path |-> Front(Fields(rest, ":")), aid |-> Last(Fields(rest, ":"))]
  BY <1>1, <1>3, <1>4, <1>5 DEF Split
<1>7. /\ split.tail /\ Host(split.at.host) # NoHost
      /\ \A segment \in Range(split.path) : ValidPathSegment(segment)
      /\ ValidAid(split.aid)
      /\ Parse(text) = [host |-> Host(split.at.host), port |-> split.at.port,
                        path |-> split.path, aid |-> split.aid]
  BY <1>5 DEF Parse
<1>8. /\ end < Len(text) /\ text[end + 1] = ":" /\ Host(at.host) # NoHost
      /\ \A segment \in Range(Front(Fields(rest, ":"))) : ValidPathSegment(segment)
      /\ ValidAid(Last(Fields(rest, ":")))
      /\ Parse(text) = [host |-> Host(at.host), port |-> at.port,
                        path |-> Front(Fields(rest, ":")), aid |-> Last(Fields(rest, ":"))]
  BY <1>6, <1>7
<1>9. /\ span \in Seq(Symbols) /\ rest \in Seq(Symbols)
      /\ text = span \o (<<":">> \o rest)
  <2>1. /\ span \in Seq(Symbols) /\ rest \in Seq(Symbols)
        /\ text = span \o (<<text[end + 1]>> \o rest)
    <3>1. end \in Nat /\ end < Len(text)
      BY <1>2, <1>8
    <3>2. /\ SubSeq(text, 1, end) \in Seq(Symbols) /\ From(text, end + 2) \in Seq(Symbols)
          /\ text = SubSeq(text, 1, end) \o (<<text[end + 1]>> \o From(text, end + 2))
      BY ONLY <3>1, text \in Seq(Symbols), PartsConcat
    <3> QED BY <1>3, <3>2
  <2> QED BY <1>8, <2>1
<1>10. ValidRest(rest)
  BY <1>8, <1>9 DEF ValidRest
<1>11. PICK h \in Seq(Symbols), p \in Seq(Symbols), port \in Seq(Digits) :
          /\ ExtractPortMarker(span) = [host |-> h, port |-> port]
          /\ PortText(p, port) /\ (span = h \o p \/ (p # <<>> /\ Line(span) = h \o p))
  BY <1>9, MarkerRead
<1>12. /\ Host(h) # NoHost
       /\ Parse(text) = [host |-> Host(h), port |-> port,
                         path |-> Front(Fields(rest, ":")), aid |-> Last(Fields(rest, ":"))]
  BY <1>4, <1>8, <1>11
<1>13. ASSUME span # h \o p
       PROVE  p # <<>> /\ Labelled(h) /\ span = Append(h \o p, "\n")
  <2>1. PICK hp : hp = h \o p
    OBVIOUS
  <2>2. p # <<>> /\ Line(span) = hp
    BY <1>11, <1>13, <2>1
  <2>3. span = Append(hp, "\n")
    BY <1>9, <1>13, <2>1, <2>2, LineEnds
  <2>4. /\ hp \in Seq(Symbols) /\ Len(hp) = Len(h) + Len(p) /\ Len(h) \in Nat /\ Len(p) \in Nat
        /\ \A n \in 1 .. Len(h) : hp[n] = h[n]
    <3>1. h \in Seq(Symbols) /\ p \in Seq(Symbols)
      BY <1>11
    <3> QED BY ONLY <2>1, <3>1, ConcatAt
  <2>5. /\ Len(span) = Len(hp) + 1 /\ span[Len(hp) + 1] = "\n"
        /\ \A n \in 1 .. Len(hp) : span[n] = hp[n]
    <3>1. "\n" \in Symbols
      BY DEF Symbols
    <3> QED BY <2>3, <2>4, <3>1, AppendAt
  <2>6. Len(span) = end /\ \A n \in 1 .. end : span[n] = text[n]
    <3>1. end <= Len(text) /\ 1 \in Nat \ {0}
      BY <1>2, <1>8
    <3>2. /\ Len(span) = (IF 1 <= end THEN end - 1 + 1 ELSE 0)
          /\ \A i \in 1 .. end - 1 + 1 : span[i] = text[1 + i - 1]
      BY <1>2, <1>3, <3>1, SliceOf
    <3>3. Len(span) = end
      BY <1>2, <3>2
    <3>4. ASSUME NEW n \in 1 .. end
          PROVE  span[n] = text[n]
      <4>1. n \in 1 .. end - 1 + 1 /\ 1 + n - 1 = n
        BY <1>2
      <4> QED BY <3>2, <4>1
    <3> QED BY <3>3, <3>4
  <2>7. ~Bracketed(h)
    <3> SUFFICES ASSUME Bracketed(h)
                 PROVE  FALSE
      OBVIOUS
    <3>1. h # <<>> /\ h[1] = "["
      BY DEF Bracketed
    <3>2. Len(h) # 0
      BY <1>11, <3>1, EmptySeq
    <3>3. 1 \in 1 .. Len(h) /\ 1 \in 1 .. Len(hp) /\ 1 \in 1 .. end /\ end \in 1 .. end /\ end = Len(hp) + 1
      <4>1. PICK a, b, c : a = Len(h) /\ b = Len(p) /\ c = Len(hp)
        OBVIOUS
      <4>2. a \in Nat /\ b \in Nat /\ c = a + b /\ a # 0 /\ end = c + 1
        BY <2>4, <2>5, <2>6, <3>2, <4>1
      <4>3. 1 \in 1 .. a /\ 1 \in 1 .. c /\ 1 \in 1 .. end /\ end \in 1 .. end
        BY ONLY <4>2
      <4> QED BY <4>1, <4>2, <4>3
    <3>4. text[1] = "[" /\ text[end] = "\n"
      BY <2>4, <2>5, <2>6, <3>1, <3>3
    <3>5. text # <<>> /\ end # 0
      <4>1. Len(<<>>) = 0
        OBVIOUS
      <4> QED BY <1>2, <1>8, <3>3, <4>1
    <3> QED BY <1>1, <3>4, <3>5, BracketedEnd
  <2>8. Labelled(h)
    BY <1>11, <1>12, <2>7, HostOf
  <2> QED BY <2>1, <2>2, <2>3, <2>8
<1> QED BY <1>9, <1>10, <1>11, <1>12, <1>13

(* The canonical spelling of a port.                                       *)
Canon(port) == IF port = NoPort THEN <<>> ELSE <<"%3A">> \o port

LEMMA CanonIs ==
  ASSUME NEW p, NEW port, PortText(p, port)
  PROVE  PortText(Canon(port), port) /\ (port # NoPort => Canon(port)[1] = "%3A")
<1>1. CASE port = NoPort
  <2>1. Canon(port) = <<>>
    BY <1>1 DEF Canon
  <2>2. Len(<<>>) = 0 /\ <<>> \in Seq(Symbols) /\ port \in Seq(Digits)
    BY DEF PortText
  <2> QED BY <1>1, <2>1, <2>2 DEF PortText
<1>2. CASE port # NoPort
  <2>1. /\ port \in Seq(Digits) /\ Len(port) \in 1 .. PortDigits /\ Len(port) \in Nat
    BY <1>2, LenProperties DEF PortText
  <2>2. Digits \subseteq Symbols /\ "%3A" \in Symbols /\ "%3A" \in Markers
    BY DEF Symbols, Markers
  <2>3. port \in Seq(Symbols)
    BY <2>1, <2>2, SeqMonotonic
  <2>4. PICK m, c : m = <<"%3A">> /\ c = m \o port
    OBVIOUS
  <2>5. m \in Seq(Symbols) /\ Len(m) = 1 /\ m[1] = "%3A"
    BY <2>2, <2>4
  <2>6. /\ c \in Seq(Symbols) /\ Len(c) = Len(m) + Len(port)
        /\ \A n \in 1 .. Len(m) : c[n] = m[n]
        /\ \A n \in 1 .. Len(port) : c[Len(m) + n] = port[n]
    <3>1. PICK X : X = Symbols
      OBVIOUS
    <3>2. c = m \o port /\ m \in Seq(X) /\ port \in Seq(X)
      BY <2>3, <2>4, <2>5, <3>1
    <3>3. /\ c \in Seq(X) /\ Len(c) = Len(m) + Len(port)
          /\ \A n \in 1 .. Len(m) : c[n] = m[n]
          /\ \A n \in 1 .. Len(port) : c[Len(m) + n] = port[n]
      BY ONLY <3>2, ConcatAt
    <3> QED BY <3>1, <3>3
  <2>7. Canon(port) = c
    BY <1>2, <2>4 DEF Canon
  <2>8. Len(c) = Len(port) + 1 /\ c[1] = "%3A" /\ \A n \in 1 .. Len(port) : c[n + 1] = port[n]
    <3>1. 1 \in 1 .. Len(m) /\ \A n \in 1 .. Len(port) : n + 1 = Len(m) + n
      BY <2>1, <2>5
    <3> QED BY <2>1, <2>5, <2>6, <3>1
  <2>9. PortText(c, port)
    BY <2>1, <2>2, <2>6, <2>8 DEF PortText
  <2> QED BY <2>7, <2>8, <2>9
<1> QED BY <1>1, <1>2

(***************************************************************************)
(* The canonical spelling, and how it reads.                               *)
(***************************************************************************)

LEMMA CanonRead ==
  ASSUME NEW h, NEW p, NEW port, NEW rest, ReadAs(h, p, port, rest), DidAssumption
  PROVE  ReadAs(Host(h), Canon(port), port, rest) /\ Host(Host(h)) = Host(h) /\ Host(h) = Lower(h)
<1>1. /\ h \in Seq(Symbols) /\ Host(h) # NoHost
      /\ PortText(p, port) /\ ValidRest(rest)
  BY DEF ReadAs
<1>2. Host(h) = Lower(h) /\ Host(Lower(h)) = Lower(h)
  BY <1>1, HostLower
<1>3. Lower(h) \in Seq(Symbols)
  BY <1>1, LowerAt
<1>4. PortText(Canon(port), port)
  BY <1>1, CanonIs
<1>5. ReadAs(Lower(h), Canon(port), port, rest)
  BY <1>1, <1>2, <1>3, <1>4 DEF ReadAs
<1> QED BY <1>2, <1>5

(* The canonical spelling of what a text is read as.                       *)
LEMMA ComposeIs ==
  ASSUME NEW g, NEW port, NEW rest \in Seq(Symbols), NEW d,
         d = [host |-> g, port |-> port, path |-> Front(Fields(rest, ":")), aid |-> Last(Fields(rest, ":"))]
  PROVE  Joined(Components(d), ":") = <<":">> \o rest /\ Compose(d) = g \o Canon(port) \o (<<":">> \o rest)
<1>1. PICK parts : parts = Fields(rest, ":")
  OBVIOUS
<1>2. ":" \in Symbols
  BY SlashIsSymbol
<1>3. Cut(Symbols, parts, ":", rest)
  BY <1>1, <1>2, FieldsAreCut
<1>4. parts \in Seq(Seq(Symbols)) /\ parts # <<>> /\ Joined(parts, ":") = <<":">> \o rest
  BY <1>3 DEF Cut
<1>5. parts = Append(Front(parts), Last(parts))
  BY <1>4, FrontLast
<1>6. d.host = g /\ d.port = port /\ Components(d) = parts
  BY <1>1, <1>5 DEF Components
<1> QED BY <1>4, <1>6 DEF Compose, Canon

(* The spellings of a port are those that are read as it.                  *)
LEMMA PortSpelled ==
  ASSUME NEW p, NEW port, PortText(p, port)
  PROVE  p \in PortSpellings(port) /\ (p # <<>> => Append(p, "\n") \in PortSpellings(port))
<1>1. p \in Seq(Symbols) /\ port \in Seq(Digits) /\ Len(port) \in Nat /\ Len(p) \in Nat
  BY LenProperties DEF PortText
<1>2. CASE Len(p) = 0 /\ port = NoPort
  <2>1. p = <<>>
    BY <1>1, <1>2, EmptySeq
  <2> QED BY <1>2, <2>1 DEF PortSpellings
<1>3. CASE ~(Len(p) = 0 /\ port = NoPort)
  <2>1. /\ Len(p) = Len(port) + 1 /\ p[1] \in Markers /\ Len(port) \in 1 .. PortDigits
        /\ \A n \in 1 .. Len(port) : p[n + 1] = port[n]
    BY <1>3 DEF PortText
  <2>2. port # NoPort
    <3>1. Len(NoPort) = 0
      BY DEF NoPort
    <3> QED BY <2>1, <3>1
  <2>3. PICK x, m, c, e : x = p[1] /\ m = <<x>> /\ c = m \o port /\ e = <<"\n">>
    OBVIOUS
  <2>4. "\n" \in Symbols /\ Markers \subseteq Symbols /\ Digits \subseteq Symbols
    BY DEF Symbols
  <2>5. port \in Seq(Symbols) /\ x \in Symbols /\ x \in Markers
    BY <1>1, <2>1, <2>3, <2>4, SeqMonotonic
  <2>6. m \in Seq(Symbols) /\ Len(m) = 1 /\ m[1] = x /\ e \in Seq(Symbols)
    BY <2>3, <2>4, <2>5
  <2>7. /\ c \in Seq(Symbols) /\ Len(c) = Len(m) + Len(port)
        /\ \A n \in 1 .. Len(m) : c[n] = m[n]
        /\ \A n \in 1 .. Len(port) : c[Len(m) + n] = port[n]
    <3>1. PICK X : X = Symbols
      OBVIOUS
    <3>2. c = m \o port /\ m \in Seq(X) /\ port \in Seq(X)
      BY <2>3, <2>5, <2>6, <3>1
    <3>3. /\ c \in Seq(X) /\ Len(c) = Len(m) + Len(port)
          /\ \A n \in 1 .. Len(m) : c[n] = m[n]
          /\ \A n \in 1 .. Len(port) : c[Len(m) + n] = port[n]
      BY ONLY <3>2, ConcatAt
    <3> QED BY <3>1, <3>3
  <2>8. Len(c) = Len(p) /\ \A n \in 1 .. Len(port) : c[n + 1] = port[n]
    <3>1. \A n \in 1 .. Len(port) : n + 1 = Len(m) + n
      BY <1>1, <2>6
    <3> QED BY <1>1, <2>1, <2>6, <2>7, <3>1
  <2>9. ASSUME NEW n \in 1 .. Len(c)
        PROVE  c[n] = p[n]
    <3>1. CASE n = 1
      BY <2>3, <2>6, <2>7, <3>1
    <3>2. CASE n # 1
      <4>1. PICK k : k = n - 1
        OBVIOUS
      <4>2. k \in 1 .. Len(port) /\ n = k + 1
        BY <1>1, <2>1, <2>8, <3>2, <4>1
      <4> QED BY <2>1, <2>8, <4>2
    <3> QED BY <3>1, <3>2
  <2>10. c = p
    BY <1>1, <2>7, <2>8, <2>9, SeqEqual
  <2>11. <<x>> \o port \o <<>> = p
    <3>1. c \o <<>> = c
      BY <2>7, ConcatEmptySeq
    <3> QED BY <2>3, <2>10, <3>1
  <2>12. <<x>> \o port \o <<"\n">> = Append(p, "\n")
    <3>1. c \o e = Append(c, "\n")
      BY <2>3, <2>4, <2>7, AppendIsConcat
    <3> QED BY <2>3, <2>10, <3>1
  <2>13. PortSpellings(port) = {<<marker>> \o port \o end : marker \in Markers, end \in {<<>>, <<"\n">>}}
    BY <2>2 DEF PortSpellings
  <2>14. ASSUME NEW end \in {<<>>, <<"\n">>}, NEW y, y = <<x>> \o port \o end
         PROVE  y \in PortSpellings(port)
    <3>1. \E marker \in Markers, last \in {<<>>, <<"\n">>} : y = <<marker>> \o port \o last
      BY <2>5, <2>14
    <3> QED BY ONLY <2>13, <3>1
  <2>15. <<x>> \o port \o <<>> \in PortSpellings(port) /\ <<x>> \o port \o <<"\n">> \in PortSpellings(port)
    BY ONLY <2>14
  <2> QED BY <2>11, <2>12, <2>15
<1> QED BY <1>2, <1>3

(* Where the parts of a text that is a DID stand, and how its canonical     *)
(* spelling reads.                                                         *)
ReadsAs(text, d) ==
  /\ d.host = Lower(SubSeq(text, 1, Len(d.host)))
  /\ \E b \in PortSpellings(d.port) :
         text = SubSeq(text, 1, Len(d.host)) \o b \o Joined(Components(d), ":")
  /\ Parse(Compose(d)) = d

LEMMA RoundTrip ==
  ASSUME NEW text \in Seq(Symbols), Parse(text) # Invalid, DidAssumption, NEW d, d = Parse(text)
  PROVE  ReadsAs(text, d)
<1>1. PICK span, h, p, port, rest :
            /\ span \in Seq(Symbols) /\ h \in Seq(Symbols) /\ p \in Seq(Symbols)
            /\ text = span \o (<<":">> \o rest)
            /\ Host(h) # NoHost /\ PortText(p, port) /\ ValidRest(rest)
            /\ \/ span = h \o p
               \/ p # <<>> /\ Labelled(h) /\ span = Append(h \o p, "\n")
            /\ Parse(text) = [host |-> Host(h), port |-> port,
                              path |-> Front(Fields(rest, ":")), aid |-> Last(Fields(rest, ":"))]
  BY ParseSplit
<1>2. PICK g, c : g = Host(h) /\ c = Canon(port)
  OBVIOUS
<1>3. ReadAs(g, c, port, rest) /\ Host(g) = g /\ g = Lower(h)
  <2>1. ReadAs(h, p, port, rest)
    BY <1>1 DEF ReadAs
  <2> QED BY <1>2, <2>1, CanonRead
<1>4. d = [host |-> g, port |-> port, path |-> Front(Fields(rest, ":")), aid |-> Last(Fields(rest, ":"))]
  BY <1>1, <1>2
<1>5. /\ span \in Seq(Symbols) /\ h \in Seq(Symbols) /\ p \in Seq(Symbols)
      /\ g \in Seq(Symbols) /\ c \in Seq(Symbols) /\ rest \in Seq(Symbols)
  BY <1>1, <1>3 DEF ReadAs, PortText, ValidRest
<1>6. PICK tail : tail = <<":">> \o rest
  OBVIOUS
<1>7. tail \in Seq(Symbols)
  <2>1. PICK m : m = <<":">>
    OBVIOUS
  <2>2. m \in Seq(Symbols)
    BY <2>1, SlashIsSymbol
  <2> QED BY <1>5, <1>6, <2>1, <2>2, ConcatAt
<1>8. Compose(d) = (g \o c) \o tail /\ Joined(Components(d), ":") = tail
  <2>1. rest \in Seq(Symbols)
    BY <1>5
  <2>2. Compose(d) = g \o Canon(port) \o (<<":">> \o rest)
    BY ONLY <1>4, <2>1, ComposeIs
  <2>3. Joined(Components(d), ":") = <<":">> \o rest
    BY ONLY <1>4, <2>1, <2>2, ComposeIs
  <2>4. Compose(d) = (g \o c) \o tail
    BY ONLY <1>2, <1>6, <2>2
  <2> QED BY <1>6, <2>3, <2>4
<1>9. Laid(Compose(d), g, c, rest)
  BY <1>5, <1>6, <1>8, LaidOf
<1>10. Parse(Compose(d)) = d
  BY <1>3, <1>4, <1>9, ParseLaid
<1>11. PICK b \in PortSpellings(port) : b \in Seq(Symbols) /\ span = h \o b
  <2>1. p \in PortSpellings(port) /\ (p # <<>> => Append(p, "\n") \in PortSpellings(port))
    BY <1>1, PortSpelled
  <2>2. CASE span = h \o p
    BY <1>5, <2>1, <2>2
  <2>3. CASE p # <<>> /\ span = Append(h \o p, "\n")
    <3>1. PICK X, e, hp, pe : X = Symbols /\ e = <<"\n">> /\ hp = h \o p /\ pe = Append(p, "\n")
      OBVIOUS
    <3>2. "\n" \in X /\ e \in Seq(X) /\ h \in Seq(X) /\ p \in Seq(X)
      BY <1>5, <3>1 DEF Symbols
    <3>3. hp \in Seq(X)
      BY ONLY <3>1, <3>2, ConcatAt
    <3>4. Append(hp, "\n") = hp \o e /\ pe = p \o e /\ pe \in Seq(X)
      BY <3>1, <3>2, <3>3, AppendIsConcat, AppendProperties
    <3>5. Regroups(h, p, e)
      BY ONLY <3>2, ConcatRegroups
    <3>6. span = h \o pe
      BY <2>3, <3>1, <3>4, <3>5 DEF Regroups
    <3> QED BY <2>1, <2>3, <3>1, <3>4, <3>6
  <2> QED BY <1>1, <2>2, <2>3
<1>12. text = h \o (b \o tail) /\ b \o tail \in Seq(Symbols) /\ text = (h \o b) \o tail
  <2>1. Regroups(h, b, tail)
    BY <1>5, <1>7, <1>11, ConcatRegroups
  <2>2. b \o tail \in Seq(Symbols)
    BY <1>7, <1>11, ConcatProperties
  <2>3. text = (h \o b) \o tail
    BY <1>1, <1>6, <1>11
  <2> QED BY <2>1, <2>2, <2>3 DEF Regroups
<1>13. Len(d.host) = Len(h)
  <2>1. Len(Lower(h)) = Len(h)
    BY <1>5, LowerAt
  <2> QED BY <1>3, <1>4, <2>1
<1>14. SubSeq(text, 1, Len(d.host)) = h
  BY <1>5, <1>12, <1>13, ConcatParts
<1>15. d.host = Lower(h) /\ d.port = port
  BY <1>3, <1>4
<1>16. text = h \o b \o Joined(Components(d), ":")
  BY <1>8, <1>12
<1> QED BY <1>10, <1>11, <1>14, <1>15, <1>16 DEF ReadsAs

InHandRead ==
  /\ stage = "parse" => raw \in Seq(Symbols)
  /\ Parsed => raw \in Seq(Symbols) /\ Parse(raw) # Invalid /\ did = Parse(raw)

LEMMA InHandReadNext ==
  DidAssumption /\ InHandRead /\ [DidNext]_didVars => InHandRead'
<1> SUFFICES ASSUME DidAssumption, InHandRead, [DidNext]_didVars
             PROVE  InHandRead'
  OBVIOUS
<1>1. CASE Give
  <2>1. raw' \in Seq(Symbols) /\ stage' = "parse"
    BY <1>1 DEF Give, DidAssumption
  <2> QED BY <2>1 DEF InHandRead, Parsed
<1>2. CASE Construct
  BY <1>2 DEF Construct, InHandRead, Parsed
<1>3. CASE ParseText
  <2>1. /\ raw \in Seq(Symbols) /\ raw' = raw /\ did' = Parse(raw)
        /\ stage' = IF Parse(raw) = Invalid THEN "invalid" ELSE "place"
    BY <1>3 DEF ParseText, InHandRead
  <2> QED BY <2>1 DEF InHandRead, Parsed
<1>4. CASE Place
  <2>1. stage' \in {"placed", "corrupt"}
    BY <1>4 DEF Place
  <2> QED BY <2>1 DEF InHandRead, Parsed
<1>5. CASE Exit
  BY <1>5 DEF Exit, InHandRead, Parsed
<1>6. CASE UNCHANGED didVars
  BY <1>6 DEF didVars, InHandRead, Parsed
<1> QED BY <1>1, <1>2, <1>3, <1>4, <1>5, <1>6 DEF DidNext

LEMMA ReadBack == DidAssumption /\ InHandRead => ReadsAsWritten
<1> SUFFICES ASSUME DidAssumption, InHandRead, Parsed
             PROVE  ReadsAs(raw, did)
  BY DEF ReadsAsWritten, ReadsAs
<1>1. PICK text, d : text = raw /\ d = did
  OBVIOUS
<1>2. DidAssumption /\ text \in Seq(Symbols) /\ Parse(text) # Invalid /\ d = Parse(text)
  BY <1>1 DEF InHandRead
<1>3. ReadsAs(text, d)
  BY ONLY <1>2, RoundTrip
<1> QED BY <1>1, <1>3

(* A text that is taken for a DID is its host but for case, its port in a   *)
(* spelling of it, with a line's end behind or none, and its segments and  *)
(* AID, one behind the other; the canonical spelling of what is read is     *)
(* read as the same (did.py, parse and compose).                           *)
THEOREM ReadsCorrect == DidSpec => []ReadsAsWritten
<1>1. DidAssumption
  BY DidAssumption
<1>2. DidInit => InHandRead
  BY DEF DidInit, InHandRead, Parsed
<1>3. InHandRead /\ [DidNext]_didVars => InHandRead'
  BY <1>1, InHandReadNext
<1>4. InHandRead => ReadsAsWritten
  BY <1>1, ReadBack
<1> QED BY <1>2, <1>3, <1>4, PTL DEF DidSpec

(***************************************************************************)
(* The parser and the grammar: what is taken for a DID is in the grammar,  *)
(* but for the line's ends in three places, and what is in it is taken.    *)
(***************************************************************************)

(* The part a lies behind the separator at the place k.                    *)
LiesAt(j, sep, a, k) ==
  /\ k \in Nat \ {0} /\ k + Len(a) <= Len(j) /\ j[k] = sep
  /\ \A i \in 1 .. Len(a) : j[k + i] = a[i]
  /\ k + Len(a) = Len(j) \/ j[k + Len(a) + 1] = sep

LEMMA LiesFurther ==
  ASSUME NEW X, NEW sep \in X, NEW s \in Seq(X), NEW a \in Seq(X), NEW u, u = s \o (<<sep>> \o a)
  PROVE  /\ LiesAt(u, sep, a, Len(s) + 1)
         /\ \A b \in Seq(X), k \in Nat : LiesAt(s, sep, b, k) => LiesAt(u, sep, b, k)
<1>1. /\ u \in Seq(X) /\ Len(u) = Len(s) + 1 + Len(a) /\ Len(s) \in Nat /\ Len(a) \in Nat
      /\ u[Len(s) + 1] = sep /\ \A n \in 1 .. Len(s) : u[n] = s[n]
      /\ \A n \in 1 .. Len(a) : u[Len(s) + 1 + n] = a[n]
  BY PartAt, SMTT(30)
<1>2. LiesAt(u, sep, a, Len(s) + 1)
  BY <1>1 DEF LiesAt
<1>3. ASSUME NEW b \in Seq(X), NEW k \in Nat, LiesAt(s, sep, b, k)
      PROVE  LiesAt(u, sep, b, k)
  <2>1. PICK m, n : m = Len(b) /\ n = Len(s)
    OBVIOUS
  <2>2. /\ m \in Nat /\ n \in Nat /\ k # 0 /\ k + m <= n /\ s[k] = sep
        /\ \A i \in 1 .. m : s[k + i] = b[i]
        /\ k + m = n \/ s[k + m + 1] = sep
    BY <1>1, <1>3, <2>1, LenProperties DEF LiesAt
  <2>3. u[k] = sep /\ k + m <= Len(u)
    <3>1. k \in 1 .. n
      BY <2>2
    <3> QED BY <1>1, <2>1, <2>2, <3>1
  <2>4. ASSUME NEW i \in 1 .. m
        PROVE  u[k + i] = b[i]
    <3>1. k + i \in 1 .. n
      BY <2>2
    <3> QED BY <1>1, <2>1, <2>2, <3>1
  <2>5. k + m = Len(u) \/ u[k + m + 1] = sep
    <3>1. CASE k + m = n
      BY <1>1, <2>1, <3>1
    <3>2. CASE k + m # n
      <4>1. k + m + 1 \in 1 .. n
        BY <2>2, <3>2
      <4> QED BY <1>1, <2>1, <2>2, <3>2, <4>1
    <3> QED BY <3>1, <3>2
  <2> QED BY <2>1, <2>2, <2>3, <2>4, <2>5 DEF LiesAt
<1> QED BY <1>2, <1>3

(* Every part lies somewhere, and every place is in a part or the separator before it. *)
Covers(parts, sep, j) ==
  /\ \A n \in 1 .. Len(parts) : \E k \in Nat : LiesAt(j, sep, parts[n], k)
  /\ \A m \in 1 .. Len(j) : \E n \in 1 .. Len(parts), k \in Nat :
        LiesAt(j, sep, parts[n], k) /\ k <= m /\ m <= k + Len(parts[n])

LEMMA PartsLie ==
  ASSUME NEW X, NEW sep \in X, NEW parts \in Seq(Seq(X))
  PROVE  Covers(parts, sep, Joined(parts, sep))
<1> DEFINE Lie(n) == \A r \in Seq(Seq(X)) : Len(r) = n => Covers(r, sep, Joined(r, sep))
           S == {n \in Nat : Lie(n)}
<1>1. 0 \in S
  <2> SUFFICES ASSUME NEW r \in Seq(Seq(X)), Len(r) = 0
               PROVE  Covers(r, sep, Joined(r, sep))
    OBVIOUS
  <2>1. r = <<>> /\ Joined(r, sep) = <<>>
    BY EmptySeq, JoinedEmpty
  <2>2. Len(<<>>) = 0
    OBVIOUS
  <2> QED BY <2>1, <2>2 DEF Covers
<1>2. ASSUME NEW n \in Nat, n \in S
      PROVE  n + 1 \in S
  <2> SUFFICES ASSUME NEW r \in Seq(Seq(X)), Len(r) = n + 1
               PROVE  Covers(r, sep, Joined(r, sep))
    <3> HIDE DEF S
    <3>1. Lie(n + 1)
      OBVIOUS
    <3> QED BY <3>1 DEF S
  <2>1. PICK f, y : f = Front(r) /\ y = Last(r)
    OBVIOUS
  <2>2. f \in Seq(Seq(X)) /\ y \in Seq(X) /\ r = Append(f, y) /\ Len(f) = n
    <3>1. /\ f \in Seq(Seq(X)) /\ y \in Seq(X) /\ r = Append(f, y)
          /\ Len(f) = Len(r) - 1
      <4>1. r # <<>>
        OBVIOUS
      <4> QED BY <2>1, <4>1, FrontLast
    <3> QED BY <3>1
  <2>3. PICK j, u : j = Joined(f, sep) /\ u = Joined(r, sep)
    OBVIOUS
  <2>4. u = j \o (<<sep>> \o y) /\ j \in Seq(X)
    <3>1. f \in Seq(Seq(X)) /\ y \in Seq(X) /\ sep \in X
      BY <2>2
    <3>2. Joined(Append(f, y), sep) = Joined(f, sep) \o (<<sep>> \o y) /\ Joined(f, sep) \in Seq(X)
      BY ONLY <3>1, JoinedAppend
    <3> QED BY ONLY <2>2, <2>3, <3>2
  <2>5. Covers(f, sep, j)
    BY <1>2, <2>2, <2>3
  <2>6. /\ LiesAt(u, sep, y, Len(j) + 1)
        /\ \A b \in Seq(X), k \in Nat : LiesAt(j, sep, b, k) => LiesAt(u, sep, b, k)
    <3>1. sep \in X /\ y \in Seq(X)
      BY <2>2
    <3> QED BY ONLY <2>4, <3>1, LiesFurther
  <2>7. Len(u) = Len(j) + 1 + Len(y) /\ Len(j) \in Nat /\ Len(y) \in Nat
    <3>1. sep \in X /\ y \in Seq(X)
      BY <2>2
    <3> QED BY ONLY <2>4, <3>1, PartAt
  <2>8. /\ Len(r) = n + 1 /\ r[n + 1] = y /\ \A i \in 1 .. n : r[i] = f[i] /\ f[i] \in Seq(X)
    <3>1. /\ r[Len(f) + 1] = y /\ \A i \in 1 .. Len(f) : r[i] = f[i]
      BY <2>2, AppendAt
    <3>2. \A i \in 1 .. Len(f) : f[i] \in Seq(X)
      BY <2>2, ElementOfSeq
    <3> QED BY <2>2, <3>1, <3>2
  <2>9. PICK c : c = Len(j) + 1
    OBVIOUS
  <2>10. c \in Nat /\ LiesAt(u, sep, y, c)
    BY <2>6, <2>7, <2>9
  <2>11. ASSUME NEW i \in 1 .. Len(r)
         PROVE  \E k \in Nat : LiesAt(u, sep, r[i], k)
    <3>1. CASE i = n + 1
      BY <2>8, <2>10, <3>1
    <3>2. CASE i # n + 1
      <4>1. i \in 1 .. n /\ i \in 1 .. Len(f)
        BY <2>2, <2>8, <3>2
      <4>2. PICK k \in Nat : LiesAt(j, sep, f[i], k)
        BY <2>5, <4>1 DEF Covers
      <4> QED BY <2>6, <2>8, <4>1, <4>2
    <3> QED BY <3>1, <3>2
  <2>12. ASSUME NEW m \in 1 .. Len(u)
         PROVE  \E i \in 1 .. Len(r), k \in Nat : LiesAt(u, sep, r[i], k) /\ k <= m /\ m <= k + Len(r[i])
    <3>1. CASE m <= Len(j)
      <4>1. m \in 1 .. Len(j)
        BY <2>7, <3>1
      <4>2. PICK i \in 1 .. Len(f), k \in Nat : LiesAt(j, sep, f[i], k) /\ k <= m /\ m <= k + Len(f[i])
        BY <2>5, <4>1 DEF Covers
      <4>3. i \in 1 .. Len(r) /\ r[i] = f[i] /\ f[i] \in Seq(X)
        BY <2>2, <2>8, <4>2
      <4>4. LiesAt(u, sep, r[i], k) /\ k <= m /\ m <= k + Len(r[i])
        BY <2>6, <4>2, <4>3
      <4> QED BY <4>3, <4>4
    <3>2. CASE ~(m <= Len(j))
      <4>1. n + 1 \in 1 .. Len(r) /\ c <= m /\ m <= c + Len(r[n + 1])
        BY <2>7, <2>8, <2>9, <3>2
      <4> QED BY <2>8, <2>10, <4>1
    <3> QED BY <3>1, <3>2
  <2>13. Covers(r, sep, u)
    BY <2>11, <2>12 DEF Covers
  <2> QED BY <2>3, <2>13
<1> HIDE DEF S
<1>3. Len(parts) \in Nat /\ Len(parts) \in S
  BY <1>1, <1>2, SetInduction, LenProperties
<1> QED BY <1>3 DEF S

LdhSymbols == Letters \cup Digits \cup {"-"}

LEMMA LdhLabelIs ==
  ASSUME NEW a \in Seq(Symbols), \A n \in 1 .. Len(a) : a[n] # "\n"
  PROVE  LdhLabel(a) <=> /\ Len(a) # 0 /\ a[1] # "-" /\ a[Len(a)] # "-"
                         /\ \A n \in 1 .. Len(a) : a[n] \in LdhSymbols
<1>1. Line(a) = a
  BY LineOfNoEnd
<1>2. a = <<>> <=> Len(a) = 0
  BY EmptySeq
<1>3. Over(a, LdhSymbols) <=> \A n \in 1 .. Len(a) : a[n] \in LdhSymbols
  BY OverIs
<1> QED BY <1>1, <1>2, <1>3 DEF LdhLabel, LdhSymbols, Last

(* The labels of a host, where they lie in it.                             *)
Labels(text, u, parts) ==
  /\ text \in Seq(Symbols) /\ u \in Seq(Symbols) /\ parts \in Seq(Seq(Symbols))
  /\ Len(text) \in Nat /\ Len(u) = Len(text) + 1 /\ u[1] = "."
  /\ \A n \in 1 .. Len(text) : text[n] = u[n + 1] /\ text[n] # "\n"
  /\ Covers(parts, ".", u)
  /\ \A n \in 1 .. Len(parts) : parts[n] \in Seq(Symbols) /\ \A i \in 1 .. Len(parts[n]) : parts[n][i] # "."

LEMMA LabelsOf ==
  ASSUME NEW text \in Seq(Symbols), "\n" \notin Range(text), NEW parts, parts = Fields(text, "."),
         NEW u, u = <<".">> \o text
  PROVE  Labels(text, u, parts)
<1>1. PICK sep : sep = "."
  OBVIOUS
<1>2. sep \in Symbols
  BY <1>1, SlashIsSymbol
<1>3. Cut(Symbols, parts, sep, text)
  BY <1>1, <1>2, FieldsAreCut
<1>4. parts \in Seq(Seq(Symbols)) /\ Apart(parts, sep) /\ Joined(parts, sep) = u
  BY <1>1, <1>3 DEF Cut
<1>5. Covers(parts, ".", u)
  BY <1>1, <1>2, <1>4, PartsLie
<1>6. \A n \in 1 .. Len(parts) : parts[n] \in Seq(Symbols) /\ sep \notin Range(parts[n])
  BY <1>4, ElementOfSeq DEF Apart
<1>7. \A n \in 1 .. Len(parts) : parts[n] \in Seq(Symbols) /\ \A i \in 1 .. Len(parts[n]) : parts[n][i] # "."
  BY <1>1, <1>6, RangeEquality
<1>8. <<sep>> \in Seq(Symbols) /\ Len(<<sep>>) = 1 /\ <<sep>>[1] = sep
  BY <1>2, Single
<1>9. /\ u \in Seq(Symbols) /\ Len(u) = 1 + Len(text) /\ Len(text) \in Nat
      /\ \A n \in 1 .. Len(<<sep>>) : u[n] = <<sep>>[n]
      /\ \A n \in 1 .. Len(text) : u[1 + n] = text[n]
  <2>1. u = <<sep>> \o text
    BY <1>1
  <2> QED BY <1>8, <2>1, ConcatAt
<1>10. u[1] = "."
  <2>1. 1 \in 1 .. Len(<<sep>>)
    BY <1>8
  <2> QED BY <1>1, <1>8, <1>9, <2>1
<1>11. \A n \in 1 .. Len(text) : text[n] = u[n + 1] /\ text[n] # "\n"
  BY <1>9, RangeEquality
<1> QED BY <1>4, <1>5, <1>7, <1>9, <1>10, <1>11 DEF Labels

(* A place of a host is the end of a label if no letter, digit or hyphen is there. *)
Edge(text, k) == k \in {0, Len(text) + 1} \/ text[k] = "."

LEMMA LdhHostIs ==
  ASSUME NEW text
  PROVE  LdhHost(text) <=>
            \A n \in 1 .. Len(text) + 1 :
               /\ n \in DOMAIN text => text[n] \in LdhSymbols \cup {"."}
               /\ Edge(text, n) => ~Edge(text, n - 1) /\ text[n - 1] # "-"
               /\ Edge(text, n - 1) => text[n] # "-"
<1>1. Letters \cup Digits \cup {"-", "."} = LdhSymbols \cup {"."}
  BY DEF LdhSymbols
<1> QED BY <1>1 DEF LdhHost, Edge

LEMMA LabelledIsLdh ==
  ASSUME NEW text, NEW u, NEW parts, Labels(text, u, parts),
         \A n \in 1 .. Len(text) : text[n] \in LdhSymbols \cup {"."},
         \A n \in 1 .. Len(parts) : LdhLabel(parts[n])
  PROVE  LdhHost(text)
<1>1. /\ text \in Seq(Symbols) /\ Len(text) \in Nat /\ Len(u) = Len(text) + 1 /\ u[1] = "."
      /\ DOMAIN text = 1 .. Len(text)
      /\ \A n \in 1 .. Len(text) : text[n] = u[n + 1] /\ text[n] # "\n"
  BY LenProperties DEF Labels
<1>2. ASSUME NEW n \in 1 .. Len(parts), NEW k \in Nat, LiesAt(u, ".", parts[n], k)
      PROVE  /\ Len(parts[n]) \in Nat \ {0} /\ k # 0 /\ k + Len(parts[n]) <= Len(u)
             /\ \A i \in 1 .. Len(parts[n]) : u[k + i] \in LdhSymbols
             /\ u[k + 1] # "-" /\ u[k + Len(parts[n])] # "-"
  <2>1. PICK a, m : a = parts[n] /\ m = Len(a)
    OBVIOUS
  <2>2. a \in Seq(Symbols) /\ LdhLabel(a) /\ LiesAt(u, ".", a, k)
    BY <1>2, <2>1 DEF Labels
  <2>3. m \in Nat /\ k # 0 /\ k + m <= Len(u) /\ \A i \in 1 .. m : u[k + i] = a[i]
    BY <2>1, <2>2, LenProperties DEF LiesAt
  <2>4. \A i \in 1 .. m : a[i] # "\n"
    <3> SUFFICES ASSUME NEW i \in 1 .. m
                 PROVE  a[i] # "\n"
      OBVIOUS
    <3>1. PICK c : c = k + i - 1
      OBVIOUS
    <3>2. c \in 1 .. Len(text) /\ c + 1 = k + i
      <4>1. PICK N : N = Len(text)
        OBVIOUS
      <4>2. N \in Nat /\ m \in Nat /\ k # 0 /\ k + m <= N + 1
        BY <1>1, <2>3, <4>1
      <4>3. c \in 1 .. N /\ c + 1 = k + i
        BY ONLY <3>1, <4>2, k \in Nat, i \in 1 .. m
      <4> QED BY <4>1, <4>3
    <3>3. text[c] = u[c + 1] /\ text[c] # "\n"
      BY <1>1, <3>2
    <3>4. u[k + i] = a[i]
      BY <2>3
    <3> QED BY <3>2, <3>3, <3>4
  <2>5. /\ m # 0 /\ a[1] # "-" /\ a[m] # "-"
        /\ \A i \in 1 .. m : a[i] \in LdhSymbols
    BY <2>1, <2>2, <2>4, LdhLabelIs
  <2>6. 1 \in 1 .. m /\ m \in 1 .. m
    BY <2>3, <2>5
  <2> QED BY <2>1, <2>3, <2>5, <2>6
<1>3. \A s \in LdhSymbols : s # "."
  BY DEF LdhSymbols, Letters, Digits
<1>4. ASSUME NEW m \in 1 .. Len(u)
      PROVE  \E n \in 1 .. Len(parts), k \in Nat :
                LiesAt(u, ".", parts[n], k) /\ k <= m /\ m <= k + Len(parts[n])
  BY DEF Labels, Covers
<1>5. ASSUME NEW n \in 1 .. Len(text) + 1, Edge(text, n)
      PROVE  ~Edge(text, n - 1) /\ text[n - 1] # "-"
  <2>1. n \in 1 .. Len(u)
    BY <1>1
  <2>2. PICK i \in 1 .. Len(parts), k \in Nat : LiesAt(u, ".", parts[i], k) /\ k <= n /\ n <= k + Len(parts[i])
    BY <1>4, <2>1
  <2>3. PICK m : m = Len(parts[i])
    OBVIOUS
  <2>4. /\ m \in Nat /\ m # 0 /\ k # 0 /\ k + m <= Len(u) /\ k <= n /\ n <= k + m
        /\ \A l \in 1 .. m : u[k + l] \in LdhSymbols
        /\ u[k + m] # "-"
    BY <1>2, <2>2, <2>3
  <2>5. n = k + m
    <3> SUFFICES ASSUME n < k + m
                 PROVE  FALSE
      BY <2>4
    <3>1. n \in 1 .. Len(text) /\ n # Len(text) + 1 /\ n # 0
      BY <1>1, <2>4
    <3>2. text[n] = "." /\ u[n + 1] = "."
      BY <1>1, <1>5, <3>1 DEF Edge
    <3>3. PICK l : l = n + 1 - k
      OBVIOUS
    <3>4. l \in 1 .. m /\ k + l = n + 1
      BY <2>4, <3>3
    <3> QED BY <1>3, <2>4, <3>2, <3>4
  <2>6. PICK c : c = n - 1
    OBVIOUS
  <2>7. c \in 1 .. Len(text) /\ c + 1 = k + m /\ m \in 1 .. m
    BY <1>1, <2>4, <2>5, <2>6
  <2>8. text[c] \in LdhSymbols /\ text[c] # "-"
    BY <1>1, <2>4, <2>7
  <2>9. c # 0 /\ c # Len(text) + 1
    BY <1>1, <2>7
  <2> QED BY <1>3, <2>6, <2>8, <2>9 DEF Edge
<1>6. ASSUME NEW n \in 1 .. Len(text) + 1, Edge(text, n - 1)
      PROVE  text[n] # "-"
  <2>1. CASE n = Len(text) + 1
    BY <1>5, <1>6, <2>1 DEF Edge
  <2>2. CASE n # Len(text) + 1
    <3>1. n \in 1 .. Len(text) /\ n \in 1 .. Len(u) /\ n - 1 # Len(text) + 1
      BY <1>1, <2>2
    <3>2. u[n] = "."
      <4>1. CASE n = 1
        BY <1>1, <4>1
      <4>2. CASE n # 1
        <5>1. PICK c : c = n - 1
          OBVIOUS
        <5>2. c \in 1 .. Len(text) /\ c # 0 /\ c # Len(text) + 1 /\ c + 1 = n
          BY <1>1, <3>1, <4>2, <5>1
        <5> QED BY <1>1, <1>6, <5>1, <5>2 DEF Edge
      <4> QED BY <4>1, <4>2
    <3>3. PICK i \in 1 .. Len(parts), k \in Nat : LiesAt(u, ".", parts[i], k) /\ k <= n /\ n <= k + Len(parts[i])
      BY <1>4, <3>1
    <3>4. PICK m : m = Len(parts[i])
      OBVIOUS
    <3>5. /\ m \in Nat /\ m # 0 /\ k # 0 /\ k + m <= Len(u) /\ k <= n /\ n <= k + m
          /\ \A l \in 1 .. m : u[k + l] \in LdhSymbols
          /\ u[k + 1] # "-"
      BY <1>2, <3>3, <3>4
    <3>6. n = k
      <4> SUFFICES ASSUME k < n
                   PROVE  FALSE
        BY <3>5
      <4>1. PICK l : l = n - k
        OBVIOUS
      <4>2. l \in 1 .. m /\ k + l = n
        BY <3>5, <4>1
      <4> QED BY <1>3, <3>2, <3>5, <4>2
    <3> QED BY <1>1, <3>1, <3>5, <3>6
  <2> QED BY <2>1, <2>2
<1> QED BY <1>1, <1>5, <1>6, LdhHostIs

LEMMA LdhIsLabelled ==
  ASSUME NEW text, NEW u, NEW parts, Labels(text, u, parts), LdhHost(text)
  PROVE  /\ \A n \in 1 .. Len(text) : text[n] \in LdhSymbols \cup {"."}
         /\ \A n \in 1 .. Len(parts) : LdhLabel(parts[n])
<1>1. /\ text \in Seq(Symbols) /\ Len(text) \in Nat /\ Len(u) = Len(text) + 1 /\ u[1] = "."
      /\ DOMAIN text = 1 .. Len(text)
      /\ \A n \in 1 .. Len(text) : text[n] = u[n + 1] /\ text[n] # "\n"
  BY LenProperties DEF Labels
<1>2. \A n \in 1 .. Len(text) + 1 :
               /\ n \in DOMAIN text => text[n] \in LdhSymbols \cup {"."}
               /\ Edge(text, n) => ~Edge(text, n - 1) /\ text[n - 1] # "-"
               /\ Edge(text, n - 1) => text[n] # "-"
  BY LdhHostIs
<1>3. ASSUME NEW n \in 1 .. Len(parts)
      PROVE  LdhLabel(parts[n])
  <2>1. PICK a, m : a = parts[n] /\ m = Len(a)
    OBVIOUS
  <2>2. PICK k \in Nat : LiesAt(u, ".", a, k)
    BY <2>1 DEF Labels, Covers
  <2>3. a \in Seq(Symbols) /\ m \in Nat /\ \A i \in 1 .. m : a[i] # "."
    BY <2>1, LenProperties DEF Labels
  <2>4. /\ k # 0 /\ k + m <= Len(u) /\ u[k] = "."
        /\ \A i \in 1 .. m : u[k + i] = a[i]
        /\ k + m = Len(u) \/ u[k + m + 1] = "."
    BY <2>1, <2>2 DEF LiesAt
  <2>5. PICK c, e : c = k - 1 /\ e = k + m
    OBVIOUS
  <2>6. Edge(text, c)
    <3>1. CASE k = 1
      BY <2>5, <3>1 DEF Edge
    <3>2. CASE k # 1
      <4>1. c \in 1 .. Len(text) /\ c + 1 = k
        <5>1. PICK N : N = Len(text)
          OBVIOUS
        <5>2. N \in Nat /\ m \in Nat /\ k # 0 /\ k + m <= N + 1
          BY <1>1, <2>3, <2>4, <5>1
        <5>3. c \in 1 .. N /\ c + 1 = k
          <6>1. c = k - 1
            BY <2>5
          <6> QED BY ONLY <3>2, <5>2, <6>1, k \in Nat
        <5> QED BY <5>1, <5>3
      <4> QED BY <1>1, <2>4, <4>1 DEF Edge
    <3> QED BY <3>1, <3>2
  <2>7. Edge(text, e)
    <3>1. CASE e = Len(u)
      BY <1>1, <3>1 DEF Edge
    <3>2. CASE e # Len(u)
      <4>1. e \in 1 .. Len(text)
        <5>1. PICK N : N = Len(text)
          OBVIOUS
        <5>2. N \in Nat /\ m \in Nat /\ k # 0 /\ k + m <= N + 1 /\ e = k + m /\ e # N + 1
          BY <1>1, <2>3, <2>4, <2>5, <3>2, <5>1
        <5>3. e \in 1 .. N
          BY ONLY <5>2, k \in Nat
        <5> QED BY <5>1, <5>3
      <4> QED BY <1>1, <2>4, <2>5, <3>2, <4>1 DEF Edge
    <3> QED BY <3>1, <3>2
  <2>8. k \in 1 .. Len(text) + 1 /\ e \in 1 .. Len(text) + 1
    BY <1>1, <2>3, <2>4, <2>5
  <2>9. m # 0
    <3> SUFFICES ASSUME m = 0
                 PROVE  FALSE
      OBVIOUS
    <3>1. e = k
      BY <2>5
    <3> QED BY <1>2, <2>5, <2>6, <2>7, <2>8, <3>1
  <2>10. ASSUME NEW i \in 1 .. m
         PROVE  a[i] \in LdhSymbols /\ a[i] # "\n" /\ k + i - 1 \in 1 .. Len(text) /\ a[i] = text[k + i - 1]
    <3>1. PICK l : l = k + i - 1
      OBVIOUS
    <3>2. l \in 1 .. Len(text) /\ l \in 1 .. Len(text) + 1 /\ l + 1 = k + i
      <4>1. PICK N : N = Len(text)
        OBVIOUS
      <4>2. N \in Nat /\ m \in Nat /\ k # 0 /\ k + m <= N + 1
        BY <1>1, <2>3, <2>4, <4>1
      <4>3. l \in 1 .. N /\ l \in 1 .. N + 1 /\ l + 1 = k + i
        BY ONLY <3>1, <4>2, k \in Nat, i \in 1 .. m
      <4> QED BY <4>1, <4>3
    <3>3. a[i] = text[l]
      BY <1>1, <2>4, <3>2
    <3>4. a[i] \in LdhSymbols \cup {"."}
      BY <1>1, <1>2, <3>2, <3>3
    <3> QED BY <1>1, <2>3, <3>1, <3>2, <3>3, <3>4
  <2>11. a[1] # "-"
    <3>1. 1 \in 1 .. m /\ k + 1 - 1 = k
      BY <2>3, <2>9
    <3>2. a[1] = text[k]
      BY <2>10, <3>1
    <3>3. text[k] # "-"
      BY <1>2, <2>5, <2>6, <2>8
    <3> QED BY <3>2, <3>3
  <2>12. a[m] # "-"
    <3>1. m \in 1 .. m /\ k + m - 1 = e - 1
      BY <2>3, <2>5, <2>9
    <3>2. a[m] = text[e - 1]
      BY <2>10, <3>1
    <3>3. text[e - 1] # "-"
      BY <1>2, <2>7, <2>8
    <3> QED BY <3>2, <3>3
  <2>13. LdhLabel(a)
    BY <2>1, <2>3, <2>9, <2>10, <2>11, <2>12, LdhLabelIs
  <2> QED BY <2>1, <2>13
<1>4. \A n \in 1 .. Len(text) : text[n] \in LdhSymbols \cup {"."}
  BY <1>1, <1>2
<1> QED BY <1>3, <1>4

(* The two forms of a host of labels.                                      *)
LEMMA LabelsLdh ==
  ASSUME NEW text \in Seq(Symbols), "\n" \notin Range(text)
  PROVE  LdhHost(text) <=> Labelled(text)
<1>1. PICK parts, u : parts = Fields(text, ".") /\ u = <<".">> \o text
  OBVIOUS
<1>2. Labels(text, u, parts)
  BY <1>1, LabelsOf
<1>3. Letters \cup Digits \cup {"-", "."} = LdhSymbols \cup {"."}
  BY DEF LdhSymbols
<1>4. Line(text) = text
  <2>1. \A n \in 1 .. Len(text) : text[n] # "\n"
    BY <1>2 DEF Labels
  <2> QED BY <2>1, LineOfNoEnd
<1>5. Over(text, LdhSymbols \cup {"."}) <=> \A n \in 1 .. Len(text) : text[n] \in LdhSymbols \cup {"."}
  BY OverIs
<1>6. (\A label \in Range(parts) : LdhLabel(label)) <=> \A n \in 1 .. Len(parts) : LdhLabel(parts[n])
  <2>1. DOMAIN parts = 1 .. Len(parts)
    BY <1>2, LenProperties DEF Labels
  <2> QED BY <2>1 DEF Range
<1>7. Labelled(text) <=> /\ \A n \in 1 .. Len(text) : text[n] \in LdhSymbols \cup {"."}
                         /\ \A n \in 1 .. Len(parts) : LdhLabel(parts[n])
  BY <1>1, <1>3, <1>4, <1>5, <1>6 DEF Labelled
<1> QED BY <1>2, <1>7, LabelledIsLdh, LdhIsLabelled

NoEnd(text) == \A n \in 1 .. Len(text) : text[n] # "\n"

LEMMA AddressIs ==
  ASSUME NEW a \in Addresses, DidAssumption
  PROVE  /\ a \in Seq(Symbols) /\ Len(a) \in Nat /\ NoEnd(a)
<1>1. a \in Seq(Letters \cup Digits \cup {":", "."})
  BY DEF DidAssumption
<1>2. Letters \cup Digits \cup {":", "."} \subseteq Symbols
  BY DEF Symbols
<1>3. \A n \in 1 .. Len(a) : a[n] \in Letters \cup Digits \cup {":", "."}
  BY <1>1, ElementOfSeq
<1>4. NoEnd(a)
  BY <1>3 DEF NoEnd, Letters, Digits
<1>5. a \in Seq(Symbols)
  BY <1>1, <1>2, SeqMonotonic
<1> QED BY <1>4, <1>5, LenProperties

LEMMA InBrackets ==
  ASSUME NEW a \in Seq(Symbols), NEW t, t = (<<"[">> \o a) \o <<"]">>
  PROVE  /\ t \in Seq(Symbols) /\ Len(t) = Len(a) + 2 /\ Len(a) \in Nat
         /\ t[1] = "[" /\ t[Len(a) + 2] = "]"
         /\ \A i \in 1 .. Len(a) : t[i + 1] = a[i]
<1>1. PICK l, r, s : l = <<"[">> /\ r = <<"]">> /\ s = l \o a
  OBVIOUS
<1>2. /\ l \in Seq(Symbols) /\ Len(l) = 1 /\ l[1] = "["
      /\ r \in Seq(Symbols) /\ Len(r) = 1 /\ r[1] = "]"
  <2>1. "[" \in Symbols /\ "]" \in Symbols
    BY DEF Symbols
  <2> QED BY <1>1, <2>1, Single
<1>3. /\ s \in Seq(Symbols) /\ Len(s) = Len(l) + Len(a) /\ Len(a) \in Nat
      /\ \A n \in 1 .. Len(l) : s[n] = l[n]
      /\ \A n \in 1 .. Len(a) : s[Len(l) + n] = a[n]
  <2>1. s = l \o a /\ l \in Seq(Symbols)
    BY <1>1, <1>2
  <2> QED BY ONLY <2>1, a \in Seq(Symbols), ConcatAt
<1>4. /\ t \in Seq(Symbols) /\ Len(t) = Len(s) + Len(r)
      /\ \A n \in 1 .. Len(s) : t[n] = s[n]
      /\ \A n \in 1 .. Len(r) : t[Len(s) + n] = r[n]
  <2>1. t = s \o r /\ s \in Seq(Symbols) /\ r \in Seq(Symbols)
    BY <1>1, <1>2, <1>3
  <2> QED BY ONLY <2>1, ConcatAt
<1>5. Len(s) = Len(a) + 1 /\ Len(t) = Len(a) + 2
  BY <1>2, <1>3, <1>4
<1>6. t[1] = "["
  <2>1. 1 \in 1 .. Len(l) /\ 1 \in 1 .. Len(s)
    BY <1>2, <1>3, <1>5
  <2> QED BY <1>2, <1>3, <1>4, <2>1
<1>7. t[Len(a) + 2] = "]"
  <2>1. 1 \in 1 .. Len(r) /\ Len(s) + 1 = Len(a) + 2
    BY <1>2, <1>3, <1>5
  <2> QED BY <1>2, <1>4, <2>1
<1>8. ASSUME NEW i \in 1 .. Len(a)
      PROVE  t[i + 1] = a[i]
  <2>1. i + 1 \in 1 .. Len(s) /\ i + 1 = Len(l) + i
    BY <1>2, <1>3, <1>5
  <2> QED BY <1>3, <1>4, <2>1
<1> QED BY <1>3, <1>4, <1>5, <1>6, <1>7, <1>8

LEMMA BracketsAre ==
  ASSUME NEW host \in Seq(Symbols), Bracketed(host), DidAssumption
  PROVE  \E a \in Addresses : host = (<<"[">> \o a) \o <<"]">>
<1>1. Len(host) \in Nat /\ host # <<>> /\ host[1] = "[" /\ host[Len(host)] = "]"
  BY LenProperties DEF Bracketed, Last
<1>2. PICK len, m : len = Len(host) /\ m = len - 1
  OBVIOUS
<1>3. len \in Nat /\ len # 0 /\ len # 1
  BY <1>1, <1>2, EmptySeq
<1>4. m \in Nat \ {0} /\ m <= len /\ len = m + 1
  BY ONLY <1>2, <1>3
<1>5. PICK a : a = SubSeq(host, 2, m)
  OBVIOUS
<1>6. a \in Addresses
  BY <1>2, <1>5 DEF Bracketed
<1>7. /\ Len(a) = (IF 2 <= m THEN m - 2 + 1 ELSE 0)
      /\ \A i \in 1 .. m - 2 + 1 : a[i] = host[2 + i - 1]
  <2>1. 2 \in Nat \ {0} /\ m \in Nat /\ m <= Len(host)
    BY <1>2, <1>4
  <2> QED BY <1>5, <2>1, SliceOf
<1>8. a \in Seq(Symbols)
  BY <1>6, AddressIs
<1>9. PICK t : t = (<<"[">> \o a) \o <<"]">>
  OBVIOUS
<1>10. /\ t \in Seq(Symbols) /\ Len(t) = Len(a) + 2 /\ Len(a) \in Nat
       /\ t[1] = "[" /\ t[Len(a) + 2] = "]"
       /\ \A i \in 1 .. Len(a) : t[i + 1] = a[i]
  BY <1>8, <1>9, InBrackets
<1>11. PICK n : n = Len(a)
  OBVIOUS
<1>12. n = m - 1 /\ n \in Nat /\ len = n + 2
  <2>1. n = (IF 2 <= m THEN m - 2 + 1 ELSE 0)
    BY <1>7, <1>11
  <2> QED BY ONLY <1>4, <2>1
<1>13. ASSUME NEW k \in 1 .. len
       PROVE  host[k] = t[k]
  <2>1. CASE k = 1
    BY <1>1, <1>10, <2>1
  <2>2. CASE k = len
    BY <1>1, <1>2, <1>10, <1>11, <1>12, <2>2
  <2>3. CASE k # 1 /\ k # len
    <3>1. PICK i : i = k - 1
      OBVIOUS
    <3>2. i \in 1 .. n /\ i \in 1 .. m - 2 + 1 /\ i + 1 = k /\ 2 + i - 1 = k
      BY ONLY <1>4, <1>12, <2>3, <3>1, k \in 1 .. len
    <3> QED BY <1>7, <1>10, <1>11, <3>2
  <2> QED BY <2>1, <2>2, <2>3
<1>14. host = t
  <2>1. Len(t) = Len(host) /\ \A k \in 1 .. Len(host) : host[k] = t[k]
    BY <1>2, <1>10, <1>11, <1>12, <1>13
  <2> QED BY <1>10, <2>1, SeqEqual
<1> QED BY <1>6, <1>9, <1>14

LEMMA BracketsHost ==
  ASSUME NEW a \in Addresses, NEW host, host = (<<"[">> \o a) \o <<"]">>, DidAssumption
  PROVE  host \in Seq(Symbols) /\ Bracketed(host) /\ NoEnd(host)
<1>1. a \in Seq(Symbols) /\ Len(a) \in Nat /\ NoEnd(a)
  BY AddressIs
<1>2. /\ host \in Seq(Symbols) /\ Len(host) = Len(a) + 2
      /\ host[1] = "[" /\ host[Len(a) + 2] = "]"
      /\ \A i \in 1 .. Len(a) : host[i + 1] = a[i]
  BY <1>1, InBrackets
<1>3. PICK n : n = Len(a)
  OBVIOUS
<1>4. ASSUME NEW k \in 1 .. Len(host)
      PROVE  host[k] # "\n"
  <2>1. CASE k = 1 \/ k = n + 2
    BY <1>2, <1>3, <2>1
  <2>2. CASE k # 1 /\ k # n + 2
    <3>1. PICK i : i = k - 1
      OBVIOUS
    <3>2. i \in 1 .. n /\ i + 1 = k
      BY <1>1, <1>2, <1>3, <2>2, <3>1
    <3> QED BY <1>1, <1>2, <1>3, <3>2 DEF NoEnd
  <2> QED BY <2>1, <2>2
<1>5. PICK s, m : m = n + 1 /\ s = SubSeq(host, 2, m)
  OBVIOUS
<1>6. /\ s \in Seq(Symbols) /\ Len(s) = (IF 2 <= m THEN m - 2 + 1 ELSE 0)
      /\ \A i \in 1 .. m - 2 + 1 : s[i] = host[2 + i - 1]
  <2>1. 2 \in Nat \ {0} /\ m \in Nat /\ m <= Len(host)
    BY <1>1, <1>2, <1>3, <1>5
  <2>2. PICK X, two : X = Symbols /\ two = 2
    OBVIOUS
  <2>3. host \in Seq(X) /\ two \in Nat \ {0} /\ m \in Nat /\ m <= Len(host) /\ s = SubSeq(host, two, m)
    BY <1>2, <1>5, <2>1, <2>2
  <2>4. /\ s \in Seq(X) /\ Len(s) = (IF two <= m THEN m - two + 1 ELSE 0)
        /\ \A i \in 1 .. m - two + 1 : s[i] = host[two + i - 1]
    BY ONLY <2>3, SliceOf
  <2> QED BY <2>2, <2>4
<1>7. Len(s) = n
  <2>1. PICK l : l = Len(s)
    OBVIOUS
  <2>2. l = (IF 2 <= m THEN m - 2 + 1 ELSE 0) /\ m = n + 1 /\ n \in Nat
    BY <1>1, <1>3, <1>5, <1>6, <2>1
  <2>3. l = n
    BY ONLY <2>2
  <2> QED BY <2>1, <2>3
<1>8. ASSUME NEW i \in 1 .. Len(s)
      PROVE  s[i] = a[i]
  <2>1. i \in 1 .. m - 2 + 1 /\ 2 + i - 1 = i + 1 /\ i \in 1 .. Len(a)
    BY <1>1, <1>3, <1>5, <1>7
  <2> QED BY <1>2, <1>6, <2>1
<1>9. s = a
  BY <1>1, <1>3, <1>6, <1>7, <1>8, SeqEqual
<1>10. Len(host) - 1 = m /\ Len(host) # 0 /\ host[Len(host)] = "]"
  BY <1>1, <1>2, <1>3, <1>5
<1>11. host # <<>>
  BY <1>10
<1>12. Bracketed(host)
  BY <1>2, <1>5, <1>9, <1>10, <1>11 DEF Bracketed, Last
<1> QED BY <1>2, <1>4, <1>12 DEF NoEnd

LEMMA LineOfAppend ==
  ASSUME NEW text \in Seq(Symbols), NEW t, t = Append(text, "\n")
  PROVE  t \in Seq(Symbols) /\ Line(t) = text
<1>1. "\n" \in Symbols
  BY DEF Symbols
<1>2. t \in Seq(Symbols) /\ t # <<>>
  BY <1>1, AppendNotEmpty
<1>3. PICK f, l : f = Front(t) /\ l = Last(t)
  OBVIOUS
<1>4. f \in Seq(Symbols) /\ l \in Symbols /\ t = Append(f, l)
  BY <1>2, <1>3, FrontLast
<1>5. Append(f, l) = Append(text, "\n")
  BY <1>4
<1>6. f = text /\ l = "\n"
  BY ONLY <1>1, <1>4, <1>5, text \in Seq(Symbols), AppendApart
<1> QED BY <1>2, <1>3, <1>6 DEF Line

LEMMA NoEndOver ==
  ASSUME NEW text \in Seq(Symbols), NEW C, Over(text, C), "\n" \notin C
  PROVE  NoEnd(text)
<1>1. \A n \in 1 .. Len(text) : text[n] \in C
  BY OverIs
<1> QED BY <1>1 DEF NoEnd

LEMMA NoEndRange ==
  ASSUME NEW text \in Seq(Symbols)
  PROVE  NoEnd(text) <=> "\n" \notin Range(text)
BY RangeEquality DEF NoEnd

(* A line's end behind a text is one behind its last part.                 *)
FieldsThenEnd(f, sep, parts, F, l, g, m) ==
  /\ f \in Seq(Symbols) /\ sep \in Symbols /\ sep # "\n"
  /\ parts = Fields(f, sep) /\ F = Front(parts) /\ l = Last(parts)
  /\ g = Append(f, "\n") /\ m = Append(l, "\n")

LEMMA FieldsEnd ==
  ASSUME NEW f, NEW sep, NEW parts, NEW F, NEW l, NEW g, NEW m,
         FieldsThenEnd(f, sep, parts, F, l, g, m)
  PROVE  /\ F \in Seq(Seq(Symbols)) /\ l \in Seq(Symbols) /\ parts = Append(F, l)
         /\ m \in Seq(Symbols) /\ Line(m) = l /\ Fields(g, sep) = Append(F, m)
<1>0. /\ "\n" \in Symbols /\ f \in Seq(Symbols) /\ sep \in Symbols /\ sep # "\n"
      /\ parts = Fields(f, sep) /\ F = Front(parts) /\ l = Last(parts)
      /\ g = Append(f, "\n") /\ m = Append(l, "\n")
  BY DEF Symbols, FieldsThenEnd
<1>1. g \in Seq(Symbols)
  BY <1>0, LineOfAppend
<1>2. Cut(Symbols, parts, sep, f)
  BY <1>0, FieldsAreCut
<1>3. parts \in Seq(Seq(Symbols)) /\ parts # <<>>
  BY <1>2 DEF Cut
<1>4. F \in Seq(Seq(Symbols)) /\ l \in Seq(Symbols) /\ parts = Append(F, l)
  BY <1>0, <1>3, FrontLast
<1>5. Fields(g, sep) = Append(F, m)
  <2>1. Cut(Symbols, Continued(parts, "\n", sep), sep, f \o <<"\n">>)
    BY <1>0, <1>2, CutContinued
  <2>2. Continued(parts, "\n", sep) = Append(F, m)
    BY <1>0 DEF Continued
  <2>3. f \o <<"\n">> = g
    BY <1>0, AppendIsConcat
  <2>4. PICK q, r : q = Append(F, m) /\ r = Fields(g, sep)
    OBVIOUS
  <2>5. Cut(Symbols, q, sep, g)
    BY <2>1, <2>2, <2>3, <2>4
  <2>6. Cut(Symbols, r, sep, g)
    BY <1>0, <1>1, <2>4, FieldsAreCut
  <2>7. r = q
    BY ONLY <1>0, <2>5, <2>6, CutUnique
  <2> QED BY <2>4, <2>7
<1>6. m \in Seq(Symbols) /\ Line(m) = l
  BY <1>0, <1>4, LineOfAppend
<1> QED BY <1>4, <1>5, <1>6

(* The last label may have the line's end, and no other.                   *)
LEMMA LabelledEnd ==
  ASSUME NEW f \in Seq(Symbols), NEW host, host = Append(f, "\n")
  PROVE  Labelled(host) <=> NoEnd(f) /\ Labelled(f)
<1>0. "\n" \in Symbols /\ "." \in Symbols /\ "\n" # "."
      /\ "\n" \notin Letters \cup Digits \cup {"-", "."} /\ "\n" \notin Letters \cup Digits \cup {"-"}
  BY DEF Symbols, Letters, Digits
<1>1. host \in Seq(Symbols) /\ Line(host) = f
  BY LineOfAppend
<1>2. PICK parts, F, l, m : /\ parts = Fields(f, ".") /\ F = Front(parts) /\ l = Last(parts)
                            /\ m = Append(l, "\n")
  OBVIOUS
<1>3. /\ F \in Seq(Seq(Symbols)) /\ l \in Seq(Symbols) /\ parts = Append(F, l)
      /\ m \in Seq(Symbols) /\ Line(m) = l /\ Fields(host, ".") = Append(F, m)
  <2>1. PICK sep : sep = "."
    OBVIOUS
  <2>2. parts = Fields(f, sep) /\ sep \in Symbols /\ sep # "\n"
    BY <1>0, <1>2, <2>1
  <2>3. /\ F \in Seq(Seq(Symbols)) /\ l \in Seq(Symbols) /\ parts = Append(F, l)
        /\ m \in Seq(Symbols) /\ Line(m) = l /\ Fields(host, sep) = Append(F, m)
    <3>1. FieldsThenEnd(f, sep, parts, F, l, host, m)
      BY <1>2, <2>2 DEF FieldsThenEnd
    <3> QED BY ONLY <3>1, FieldsEnd
  <2> QED BY <2>1, <2>3
<1>4. Range(Append(F, m)) = Range(F) \cup {m} /\ Range(Append(F, l)) = Range(F) \cup {l}
  <2>1. PICK X : X = Seq(Symbols)
    OBVIOUS
  <2>2. F \in Seq(X) /\ m \in X /\ l \in X
    BY <1>3, <2>1
  <2> QED BY ONLY <2>2, RangeOfAppend
<1>5. /\ Labelled(host) <=> /\ Over(f, Letters \cup Digits \cup {"-", "."})
                            /\ \A label \in Range(F) \cup {m} : LdhLabel(label)
      /\ Labelled(f) <=> /\ Over(Line(f), Letters \cup Digits \cup {"-", "."})
                         /\ \A label \in Range(F) \cup {l} : LdhLabel(label)
  BY <1>1, <1>2, <1>3, <1>4 DEF Labelled
<1>6. Over(f, Letters \cup Digits \cup {"-", "."}) => NoEnd(f)
  BY <1>0, NoEndOver
<1>7. NoEnd(f) => Line(f) = f /\ Line(l) = l
  <2> SUFFICES ASSUME NoEnd(f)
               PROVE  Line(f) = f /\ Line(l) = l
    OBVIOUS
  <2>1. Line(f) = f
    BY LineOfNoEnd DEF NoEnd
  <2>2. PICK X, sep, a, j : X = Symbols /\ sep = <<".">> /\ a = sep \o l /\ j = Joined(F, ".")
    OBVIOUS
  <2>3. sep \in Seq(X) /\ Range(sep) = {"."} /\ l \in Seq(X) /\ f \in Seq(X)
    BY <1>0, <1>3, <2>2, Single
  <2>4. a \in Seq(X) /\ Range(a) = Range(sep) \cup Range(l)
    BY ONLY <2>2, <2>3, ConcatAt, RangeOfConcat
  <2>5. j \in Seq(X) /\ Joined(Append(F, l), ".") = j \o a
    <3>1. PICK dot : dot = "."
      OBVIOUS
    <3>2. dot \in X /\ F \in Seq(Seq(X)) /\ l \in Seq(X)
      BY <1>0, <1>3, <2>2, <3>1
    <3>3. Joined(Append(F, l), dot) = Joined(F, dot) \o (<<dot>> \o l) /\ Joined(F, dot) \in Seq(X)
      BY ONLY <3>2, JoinedAppend
    <3> QED BY <2>2, <3>1, <3>3
  <2>6. Joined(parts, ".") = sep \o f
    <3>1. Cut(Symbols, parts, ".", f)
      BY <1>0, <1>2, FieldsAreCut
    <3> QED BY <2>2, <3>1 DEF Cut
  <2>7. Range(j \o a) = Range(j) \cup Range(a)
    BY ONLY <2>4, <2>5, RangeOfConcat
  <2>8. Range(sep \o f) = {"."} \cup Range(f)
    <3>1. Range(sep \o f) = Range(sep) \cup Range(f)
      BY ONLY <2>3, RangeOfConcat
    <3> QED BY <2>3, <3>1
  <2>9. Range(l) \subseteq {"."} \cup Range(f)
    BY <1>3, <2>4, <2>5, <2>6, <2>7, <2>8
  <2>10. "\n" \notin Range(l)
    BY <1>0, <2>9, NoEndRange
  <2>11. NoEnd(l)
    BY <1>3, <2>10, NoEndRange
  <2> QED BY <1>3, <2>1, <2>11, LineOfNoEnd DEF NoEnd
<1>8. NoEnd(f) => (LdhLabel(m) <=> LdhLabel(l))
  BY <1>3, <1>7 DEF LdhLabel
<1> QED BY <1>5, <1>6, <1>7, <1>8

(* What the code has for a host is one, but for a line's end behind it.    *)
LEMMA HostLines ==
  ASSUME NEW host \in Seq(Symbols), DidAssumption
  PROVE  (Bracketed(host) => IsHost(host)) /\ (Labelled(host) => LdhHost(Line(host)))
<1>1. ASSUME Bracketed(host)
      PROVE  IsHost(host)
  <2>1. PICK a \in Addresses : host = (<<"[">> \o a) \o <<"]">>
    BY <1>1, BracketsAre
  <2> QED BY <2>1 DEF IsHost
<1>2. ASSUME Labelled(host)
      PROVE  LdhHost(Line(host))
  <2>1. PICK f : f = Line(host)
    OBVIOUS
  <2>2. f \in Seq(Symbols) /\ (f = host \/ host = Append(f, "\n"))
    BY <2>1, LineEnds
  <2>3. NoEnd(f)
    <3>1. Over(f, Letters \cup Digits \cup {"-", "."}) /\ "\n" \notin Letters \cup Digits \cup {"-", "."}
      BY <1>2, <2>1 DEF Labelled, Letters, Digits
    <3> QED BY <2>2, <3>1, NoEndOver
  <2>4. Labelled(f)
    BY <1>2, <2>2, LabelledEnd
  <2>5. LdhHost(f)
    BY <2>2, <2>3, <2>4, LabelsLdh, NoEndRange
  <2> QED BY <2>1, <2>5
<1> QED BY <1>1, <1>2

LEMMA HostGrammar ==
  ASSUME NEW host \in Seq(Symbols), IsHost(host), DidAssumption
  PROVE  Host(host) # NoHost /\ NoEnd(host) /\ (LdhHost(host) => Labelled(host))
<1>0. ASSUME LdhHost(host)
      PROVE  Host(host) # NoHost /\ NoEnd(host) /\ Labelled(host)
  <2>1. \A n \in 1 .. Len(host) + 1 :
               /\ n \in DOMAIN host => host[n] \in LdhSymbols \cup {"."}
               /\ Edge(host, n) => ~Edge(host, n - 1) /\ host[n - 1] # "-"
    BY <1>0, LdhHostIs
  <2>2. DOMAIN host = 1 .. Len(host) /\ Len(host) \in Nat
    BY LenProperties
  <2>3. NoEnd(host)
    <3>1. \A n \in 1 .. Len(host) : n \in 1 .. Len(host) + 1
      BY <2>2
    <3> QED BY <2>1, <2>2, <3>1 DEF NoEnd, LdhSymbols, Letters, Digits
  <2>4. Labelled(host)
    BY <1>0, <2>3, LabelsLdh, NoEndRange
  <2>5. Len(host) # 0
    <3> SUFFICES ASSUME Len(host) = 0
                 PROVE  FALSE
      OBVIOUS
    <3>1. 1 \in 1 .. Len(host) + 1 /\ 1 - 1 = 0
      OBVIOUS
    <3>2. Edge(host, 1) /\ Edge(host, 0)
      BY DEF Edge
    <3> QED BY <2>1, <3>1, <3>2
  <2>6. Host(host) = Lower(host) /\ Len(Lower(host)) = Len(host)
    BY <2>4, HostOf, LowerIs
  <2> QED BY <2>3, <2>4, <2>5, <2>6 DEF NoHost
<1>1. CASE ~LdhHost(host) /\ host \in {<<"[">> \o a \o <<"]">> : a \in Addresses}
  <2>1. PICK a \in Addresses : host = (<<"[">> \o a) \o <<"]">>
    BY <1>1
  <2>2. Bracketed(host) /\ NoEnd(host)
    BY <2>1, BracketsHost
  <2>3. Host(host) = Lower(host) /\ Len(Lower(host)) = Len(host) /\ host # <<>>
    BY <2>2, HostOf, LowerIs DEF Bracketed
  <2>4. Len(host) # 0
    BY <2>3, EmptySeq
  <2>5. Len(NoHost) = 0
    BY DEF NoHost
  <2> QED BY <1>1, <2>2, <2>3, <2>4, <2>5
<1> QED BY <1>0, <1>1 DEF IsHost

(* And a host of labels is one with a line's end behind it.                *)
LEMMA LinesHost ==
  ASSUME NEW host \in Seq(Symbols), LdhHost(Line(host)), DidAssumption
  PROVE  Host(host) # NoHost /\ Labelled(host)
<1>1. PICK f : f = Line(host)
  OBVIOUS
<1>2. f \in Seq(Symbols) /\ (f = host \/ host = Append(f, "\n"))
  BY <1>1, LineEnds
<1>3. Host(f) # NoHost /\ NoEnd(f) /\ Labelled(f)
  BY <1>1, <1>2, HostGrammar DEF IsHost
<1>4. Labelled(host)
  BY <1>2, <1>3, LabelledEnd
<1>5. Host(host) = Lower(host) /\ Len(Lower(host)) = Len(host)
  BY <1>4, HostOf, LowerIs
<1>6. host # <<>>
  <2>1. f # <<>>
    BY <1>2, <1>3, HostOf
  <2>2. "\n" \in Symbols
    BY DEF Symbols
  <2>3. Append(f, "\n") # <<>>
    BY <1>2, <2>2, AppendNotEmpty
  <2> QED BY <1>2, <2>1, <2>3
<1>7. Len(host) # 0
  BY <1>6, EmptySeq
<1>8. Len(NoHost) = 0
  BY DEF NoHost
<1> QED BY <1>4, <1>5, <1>7, <1>8

PathSegment(a) ==
  a \notin {<<>>, <<".">>, Up} /\ Over(a, Letters \cup Digits \cup {".", "-"})
PathSegments(F) ==
  F \in Seq(Seq(Symbols)) /\ Apart(F, ":") /\ \A n \in 1 .. Len(F) : PathSegment(F[n])
AidText == <<"E">>

LEMMA SegmentIs ==
  ASSUME NEW a \in Seq(Symbols)
  PROVE  ValidPathSegment(a) <=> PathSegment(a)
<1>0. Len(a) \in Nat
  BY LenProperties
<1>1. ASSUME ValidPathSegment(a)
      PROVE  PathSegment(a)
  <2>1. a # <<>>
    BY <1>1 DEF ValidPathSegment, Line
  <2>2. Line(a) = a
    BY <1>1, <2>1 DEF ValidPathSegment, Line
  <2> QED BY <1>1, <2>1, <2>2 DEF ValidPathSegment, PathSegment
<1>2. ASSUME PathSegment(a)
      PROVE  ValidPathSegment(a)
  <2>1. a # <<>> /\ a \notin {<<".">>, Up} /\ Over(a, Letters \cup Digits \cup {".", "-"})
    BY <1>2 DEF PathSegment
  <2>2. NoEnd(a)
    <3>1. "\n" \notin Letters \cup Digits \cup {".", "-"}
      BY DEF Letters, Digits
    <3> QED BY <2>1, <3>1, NoEndOver
  <2>3. Line(a) = a
    BY <2>2, LineOfNoEnd DEF NoEnd
  <2>4. 1 \in 1 .. Len(a) /\ Len(a) \in 1 .. Len(a)
    <3>1. Len(a) # 0
      BY <2>1, EmptySeq
    <3> QED BY <1>0, <3>1
  <2>5. Head(a) # "\n" /\ Last(a) # "\n"
    BY <2>1, <2>2, <2>4, HeadTailProperties DEF NoEnd, Last
  <2> QED BY <2>1, <2>3, <2>5 DEF ValidPathSegment
<1> QED BY <1>1, <1>2

LEMMA AidIs ==
  /\ AidText \in Seq(Symbols) /\ Len(AidText) = 1 /\ AidText[1] = "E" /\ Range(AidText) = {"E"}
  /\ ValidAid(AidText) /\ ValidAid(Append(AidText, "\n")) /\ NoEnd(AidText)
  /\ \A a \in Seq(Symbols) : ValidAid(a) => a = AidText \/ a = Append(AidText, "\n")
<1>1. AidText \in Seq(Symbols) /\ Len(AidText) = 1 /\ AidText[1] = "E" /\ Range(AidText) = {"E"}
  <2>1. "E" \in Symbols
    BY DEF Symbols, Letters
  <2> QED BY <2>1, Single DEF AidText
<1>2. NoEnd(AidText)
  <2>1. \A n \in 1 .. 1 : n = 1
    OBVIOUS
  <2> QED BY <1>1, <2>1 DEF NoEnd
<1>3. ValidAid(AidText)
  <2>1. Line(AidText) = AidText
    BY <1>1, <1>2, LineOfNoEnd DEF NoEnd
  <2>2. AidText = <<"E">> /\ AidText[1] # "B"
    BY <1>1 DEF AidText
  <2> QED BY <2>1, <2>2 DEF ValidAid, HasNontransferableCode
<1>4. ASSUME NEW a \in Seq(Symbols), ValidAid(a)
      PROVE  a = AidText \/ a = Append(AidText, "\n")
  <2>1. Line(a) = AidText
    BY <1>4 DEF ValidAid, AidText
  <2> QED BY <2>1, LineEnds
<1>5. ValidAid(Append(AidText, "\n"))
  <2>1. PICK t : t = Append(AidText, "\n")
    OBVIOUS
  <2>2. t \in Seq(Symbols) /\ Line(t) = AidText
    BY <1>1, <2>1, LineOfAppend
  <2>3. t[1] = AidText[1]
    <3>1. "\n" \in Symbols /\ 1 \in 1 .. Len(AidText)
      BY <1>1 DEF Symbols
    <3> QED BY <1>1, <2>1, <3>1, AppendAt
  <2>4. t[1] # "B" /\ Line(t) = <<"E">>
    BY <1>1, <2>2, <2>3 DEF AidText
  <2>5. ValidAid(t)
    BY <2>4 DEF ValidAid, HasNontransferableCode
  <2> QED BY <2>1, <2>5
<1> QED BY <1>1, <1>2, <1>3, <1>4, <1>5

LEMMA TailIs ==
  ASSUME NEW X, NEW s \in Seq(X), s # <<>>, NEW sep \in X, s[1] = sep
  PROVE  Tail(s) \in Seq(X) /\ s = <<sep>> \o Tail(s) /\ Len(Tail(s)) = Len(s) - 1
<1>1. PICK t, l : t = Tail(s) /\ l = <<sep>>
  OBVIOUS
<1>2. /\ t \in Seq(X) /\ Len(t) = Len(s) - 1 /\ Len(s) \in Nat \ {0}
      /\ \A i \in 1 .. Len(t) : t[i] = s[i + 1]
  <2>1. Len(s) \in Nat /\ Len(s) # 0
    BY LenProperties, EmptySeq
  <2> QED BY <1>1, <2>1, HeadTailProperties
<1>3. l \in Seq(X) /\ Len(l) = 1 /\ l[1] = sep
  BY <1>1, Single
<1>4. PICK u : u = l \o t
  OBVIOUS
<1>5. /\ u \in Seq(X) /\ Len(u) = Len(l) + Len(t)
      /\ \A n \in 1 .. Len(l) : u[n] = l[n]
      /\ \A n \in 1 .. Len(t) : u[Len(l) + n] = t[n]
  <2>1. l \in Seq(X) /\ t \in Seq(X)
    BY <1>2, <1>3
  <2> QED BY ONLY <1>4, <2>1, ConcatAt
<1>6. ASSUME NEW n \in 1 .. Len(s)
      PROVE  u[n] = s[n]
  <2>1. CASE n = 1
    <3>1. 1 \in 1 .. Len(l)
      BY <1>3
    <3> QED BY <1>3, <1>5, <2>1, <3>1
  <2>2. CASE n # 1
    <3>1. PICK i : i = n - 1
      OBVIOUS
    <3>2. i \in 1 .. Len(t) /\ Len(l) + i = n /\ i + 1 = n
      BY <1>2, <1>3, <2>2, <3>1
    <3>3. u[n] = t[i]
      BY ONLY <1>5, <3>2
    <3>4. s[n] = t[i]
      BY ONLY <1>2, <3>2
    <3> QED BY <3>3, <3>4
  <2> QED BY <2>1, <2>2
<1>7. Len(u) = Len(s)
  BY <1>2, <1>3, <1>5
<1>8. u = s
  BY <1>5, <1>6, <1>7, SeqEqual
<1> QED BY <1>1, <1>2, <1>4, <1>8

LEMMA PathOf ==
  ASSUME NEW F, PathSegments(F), NEW j, j = Joined(F, ":")
  PROVE  j \in Seq(Symbols) /\ IsPath(j)
<1>1. F \in Seq(Seq(Symbols)) /\ Apart(F, ":") /\ \A n \in 1 .. Len(F) : PathSegment(F[n])
  BY DEF PathSegments
<1>2. CASE F = <<>>
  <2>1. j = <<>> /\ j \in Seq(Symbols)
    <3>1. j = <<>>
      BY <1>2, JoinedEmpty
    <3> QED BY <3>1, EmptySeq
  <2> QED BY <2>1 DEF IsPath
<1>3. CASE F # <<>>
  <2>1. PICK f, y : f = Front(F) /\ y = Last(F)
    OBVIOUS
  <2>2. f \in Seq(Seq(Symbols)) /\ y \in Seq(Symbols) /\ F = Append(f, y)
    BY <1>1, <1>3, <2>1, FrontLast
  <2>3. j \in Seq(Symbols) /\ Len(j) \in Nat \ {0} /\ j[1] = ":"
    BY <2>2, JoinedStarts, SlashIsSymbol
  <2>4. j # <<>>
    BY <2>3
  <2>5. PICK t, g : t = Tail(j) /\ g = Fields(t, ":")
    OBVIOUS
  <2>6. ":" \in Symbols
    BY SlashIsSymbol
  <2>7. t \in Seq(Symbols) /\ j = <<":">> \o t
    BY <2>3, <2>4, <2>5, <2>6, TailIs
  <2>8. Cut(Symbols, F, ":", t)
    BY <1>1, <1>3, <2>7 DEF Cut
  <2>9. Cut(Symbols, g, ":", t)
    BY <2>5, <2>6, <2>7, FieldsAreCut
  <2>10. g = F
    BY ONLY <2>6, <2>8, <2>9, CutUnique
  <2>11. DOMAIN F = 1 .. Len(F)
    BY <1>1, LenProperties
  <2>12. \A segment \in Range(F) : PathSegment(segment)
    BY <1>1, <2>11 DEF Range
  <2> QED BY <2>3, <2>5, <2>10, <2>12 DEF IsPath, PathSegment
<1> QED BY <1>2, <1>3

LEMMA PathParts ==
  ASSUME NEW path \in Seq(Symbols), IsPath(path)
  PROVE  \E F : PathSegments(F) /\ path = Joined(F, ":")
<1>1. CASE path = <<>>
  <2>1. PICK F : F = <<>>
    OBVIOUS
  <2>2. F \in Seq(Seq(Symbols)) /\ Len(F) = 0
    BY <2>1
  <2>3. PathSegments(F)
    BY <2>2 DEF PathSegments, Apart
  <2> QED BY <1>1, <2>1, <2>3, JoinedEmpty
<1>2. CASE path # <<>>
  <2>1. PICK t, F : t = Tail(path) /\ F = Fields(t, ":")
    OBVIOUS
  <2>2. ":" \in Symbols
    BY SlashIsSymbol
  <2>3. path[1] = ":" /\ \A segment \in Range(F) : PathSegment(segment)
    BY <1>2, <2>1 DEF IsPath, PathSegment
  <2>4. t \in Seq(Symbols) /\ path = <<":">> \o t
    BY <1>2, <2>1, <2>2, <2>3, TailIs
  <2>5. Cut(Symbols, F, ":", t)
    BY <2>1, <2>2, <2>4, FieldsAreCut
  <2>6. F \in Seq(Seq(Symbols)) /\ Apart(F, ":") /\ path = Joined(F, ":")
    BY <2>4, <2>5 DEF Cut
  <2>7. \A n \in 1 .. Len(F) : PathSegment(F[n])
    BY <2>3, <2>6, RangeEquality
  <2> QED BY <2>6, <2>7 DEF PathSegments
<1> QED BY <1>1, <1>2

Ending == <<":">> \o AidText

LEMMA EndingIs ==
  /\ Ending \in Seq(Symbols) /\ Len(Ending) = 2 /\ Ending = <<":", "E">>
<1>1. PICK l, r : l = <<":">> /\ r = AidText
  OBVIOUS
<1>2. /\ l \in Seq(Symbols) /\ Len(l) = 1 /\ l[1] = ":"
      /\ r \in Seq(Symbols) /\ Len(r) = 1 /\ r[1] = "E"
  BY <1>1, AidIs, SlashIsSymbol, Single
<1>3. PICK u : u = l \o r
  OBVIOUS
<1>4. /\ u \in Seq(Symbols) /\ Len(u) = Len(l) + Len(r)
      /\ \A n \in 1 .. Len(l) : u[n] = l[n]
      /\ \A n \in 1 .. Len(r) : u[Len(l) + n] = r[n]
  <2>1. l \in Seq(Symbols) /\ r \in Seq(Symbols)
    BY <1>2
  <2> QED BY ONLY <1>3, <2>1, ConcatAt
<1>5. Len(u) = 2 /\ u[1] = ":" /\ u[2] = "E"
  <2>1. 1 \in 1 .. Len(l) /\ 1 \in 1 .. Len(r)
    BY <1>2
  <2> QED BY <1>2, <1>4, <2>1
<1>6. PICK v : v = <<":", "E">>
  OBVIOUS
<1>7. v \in Seq(Symbols) /\ Len(v) = 2 /\ v[1] = ":" /\ v[2] = "E"
  <2>1. ":" \in Symbols /\ "E" \in Symbols
    BY DEF Symbols, Letters
  <2> QED BY <1>6, <2>1
<1>8. \A n \in 1 .. Len(u) : u[n] = v[n]
  <2>1. \A n \in 1 .. 2 : n = 1 \/ n = 2
    OBVIOUS
  <2> QED BY <1>5, <1>7, <2>1
<1>9. u = v
  BY <1>4, <1>5, <1>7, <1>8, SeqEqual
<1> QED BY <1>1, <1>3, <1>4, <1>5, <1>6, <1>9 DEF Ending

(* What is behind the port is a path and the AID, or has a line's end too. *)
LEMMA RestLines ==
  ASSUME NEW rest, ValidRest(rest)
  PROVE  \E j \in Seq(Symbols) :
            /\ IsPath(j)
            /\ \/ <<":">> \o rest = j \o Ending
               \/ <<":">> \o rest = Append(j \o Ending, "\n")
<1>1. PICK parts, F, aid : parts = Fields(rest, ":") /\ F = Front(parts) /\ aid = Last(parts)
  OBVIOUS
<1>2. rest \in Seq(Symbols) /\ ":" \in Symbols /\ "\n" \in Symbols
  BY DEF ValidRest, Symbols
<1>3. Cut(Symbols, parts, ":", rest)
  BY <1>1, <1>2, FieldsAreCut
<1>4. /\ parts \in Seq(Seq(Symbols)) /\ parts # <<>>
      /\ Apart(parts, ":") /\ Joined(parts, ":") = <<":">> \o rest
  BY <1>3 DEF Cut
<1>5. F \in Seq(Seq(Symbols)) /\ aid \in Seq(Symbols) /\ parts = Append(F, aid)
  BY <1>1, <1>4, FrontLast
<1>6. (\A segment \in Range(F) : ValidPathSegment(segment)) /\ ValidAid(aid)
  BY <1>1 DEF ValidRest
<1>7. PathSegments(F)
  <2>1. Apart(F, ":")
    BY <1>4, <1>5, ApartAppend
  <2>2. \A n \in 1 .. Len(F) : F[n] \in Range(F) /\ F[n] \in Seq(Symbols)
    BY <1>5, RangeEquality, ElementOfSeq
  <2>3. \A n \in 1 .. Len(F) : PathSegment(F[n])
    BY <1>6, <2>2, SegmentIs
  <2> QED BY <1>5, <2>1, <2>3 DEF PathSegments
<1>8. PICK j : j = Joined(F, ":")
  OBVIOUS
<1>9. j \in Seq(Symbols) /\ IsPath(j)
  BY <1>7, <1>8, PathOf
<1>10. PICK X, sep, end, A : X = Symbols /\ sep = <<":">> /\ end = <<"\n">> /\ A = AidText
  OBVIOUS
<1>11. sep \in Seq(X) /\ end \in Seq(X) /\ j \in Seq(X) /\ A \in Seq(X) /\ aid \in Seq(X)
  BY <1>2, <1>5, <1>9, <1>10, Single, AidIs
<1>12. <<":">> \o rest = j \o (sep \o aid)
  BY <1>2, <1>4, <1>5, <1>8, <1>10, JoinedAppend
<1>13. PICK E : E = sep \o A
  OBVIOUS
<1>14. E = Ending /\ E \in Seq(X)
  <2>1. E \in Seq(X)
    BY ONLY <1>11, <1>13, ConcatAt
  <2> QED BY <1>10, <1>13, <2>1 DEF Ending
<1>15. CASE aid = A
  BY <1>9, <1>12, <1>13, <1>14, <1>15
<1>16. CASE aid = Append(A, "\n")
  <2>1. aid = A \o end
    BY <1>2, <1>10, <1>11, <1>16, AppendIsConcat
  <2>2. Regroups(sep, A, end) /\ Regroups(j, E, end)
    BY ONLY <1>11, <1>14, ConcatRegroups
  <2>3. sep \o aid = E \o end
    BY ONLY <1>13, <2>1, <2>2 DEF Regroups
  <2>4. <<":">> \o rest = (j \o E) \o end
    BY ONLY <1>12, <2>2, <2>3 DEF Regroups
  <2>5. PICK u : u = j \o E
    OBVIOUS
  <2>6. u \in Seq(X)
    BY ONLY <1>11, <1>14, <2>5, ConcatAt
  <2>7. Append(u, "\n") = u \o end
    BY <1>2, <1>10, <2>6, AppendIsConcat
  <2> QED BY <1>9, <1>14, <2>4, <2>5, <2>7
<1> QED BY <1>5, <1>6, <1>10, <1>15, <1>16, AidIs

(* And the other way about.                                                *)
LEMMA RestGrammar ==
  ASSUME NEW path \in Seq(Symbols), IsPath(path)
  PROVE  \E rest : /\ ValidRest(rest) /\ ValidRest(Append(rest, "\n"))
                   /\ path \o Ending = <<":">> \o rest
<1>1. PICK F : PathSegments(F) /\ path = Joined(F, ":")
  BY PathParts
<1>2. F \in Seq(Seq(Symbols)) /\ Apart(F, ":") /\ \A n \in 1 .. Len(F) : PathSegment(F[n])
  BY <1>1 DEF PathSegments
<1>3. ":" \in Symbols
  BY SlashIsSymbol
<1>4. AidText \in Seq(Symbols) /\ Range(AidText) = {"E"} /\ ValidAid(AidText)
  BY AidIs
<1>5. PICK parts, u : parts = Append(F, AidText) /\ u = Joined(parts, ":")
  OBVIOUS
<1>6. u = path \o (<<":">> \o AidText)
  BY <1>1, <1>2, <1>3, <1>4, <1>5, JoinedAppend
<1>7. u \in Seq(Symbols) /\ Len(u) \in Nat \ {0} /\ u[1] = ":"
  BY <1>2, <1>3, <1>4, <1>5, JoinedStarts
<1>8. u # <<>>
  BY <1>7
<1>9. PICK rest, g : rest = Tail(u) /\ g = Fields(rest, ":")
  OBVIOUS
<1>10. rest \in Seq(Symbols) /\ u = <<":">> \o rest
  BY <1>3, <1>7, <1>8, <1>9, TailIs
<1>11. Cut(Symbols, parts, ":", rest)
  <2>1. PICK X : X = Seq(Symbols)
    OBVIOUS
  <2>2. F \in Seq(X) /\ AidText \in X
    BY <1>2, <1>4, <2>1
  <2>3. parts \in Seq(X) /\ parts # <<>>
    BY ONLY <1>5, <2>2, AppendNotEmpty
  <2>4. Apart(parts, ":")
    <3>1. ":" \notin Range(AidText)
      BY <1>4
    <3> QED BY <1>2, <1>4, <1>5, <3>1, ApartAppend
  <2> QED BY <1>5, <1>10, <2>1, <2>3, <2>4 DEF Cut
<1>12. Cut(Symbols, g, ":", rest)
  BY <1>3, <1>9, <1>10, FieldsAreCut
<1>13. g = Append(F, AidText)
  <2>1. g = parts
    BY ONLY <1>3, <1>11, <1>12, CutUnique
  <2> QED BY <1>5, <2>1
<1>14. Front(g) = F /\ Last(g) = AidText
  <2>1. PICK X, f, l : X = Seq(Symbols) /\ f = Front(g) /\ l = Last(g)
    OBVIOUS
  <2>2. F \in Seq(X) /\ AidText \in X
    BY <1>2, <1>4, <2>1
  <2>3. g \in Seq(X) /\ g # <<>>
    BY ONLY <1>13, <2>2, AppendNotEmpty
  <2>4. f \in Seq(X) /\ l \in X /\ g = Append(f, l)
    BY <2>1, <2>3, FrontLast
  <2>5. Append(f, l) = Append(F, AidText)
    BY <1>13, <2>4
  <2>6. f = F /\ l = AidText
    BY ONLY <2>2, <2>4, <2>5, AppendApart
  <2> QED BY <2>1, <2>6
<1>15. \A segment \in Range(F) : ValidPathSegment(segment)
  <2>1. DOMAIN F = 1 .. Len(F) /\ \A n \in 1 .. Len(F) : F[n] \in Seq(Symbols)
    BY <1>2, LenProperties, ElementOfSeq
  <2>2. \A n \in DOMAIN F : ValidPathSegment(F[n])
    BY <1>2, <2>1, SegmentIs
  <2> QED BY <2>2 DEF Range
<1>16. ValidRest(rest)
  BY <1>4, <1>9, <1>10, <1>14, <1>15 DEF ValidRest
<1>17. ValidRest(Append(rest, "\n"))
  <2>1. PICK sep, t, m, q : /\ sep = ":" /\ t = Append(rest, "\n") /\ m = Append(AidText, "\n")
                            /\ q = Fields(t, sep)
    OBVIOUS
  <2>2. sep \in Symbols /\ sep # "\n" /\ g = Fields(rest, sep) /\ AidText = Last(g) /\ F = Front(g)
    BY <1>3, <1>9, <1>14, <2>1
  <2>3. m \in Seq(Symbols) /\ q = Append(F, m)
    <3>1. FieldsThenEnd(rest, sep, g, F, AidText, t, m)
      BY <1>10, <2>1, <2>2 DEF FieldsThenEnd
    <3>2. m \in Seq(Symbols) /\ Fields(t, sep) = Append(F, m)
      BY ONLY <3>1, FieldsEnd
    <3> QED BY <2>1, <3>2
  <2>4. Front(q) = F /\ Last(q) = m
    <3>1. PICK X, f, l : X = Seq(Symbols) /\ f = Front(q) /\ l = Last(q)
      OBVIOUS
    <3>2. F \in Seq(X) /\ m \in X
      BY <1>2, <2>3, <3>1
    <3>3. q \in Seq(X) /\ q # <<>>
      BY ONLY <2>3, <3>2, AppendNotEmpty
    <3>4. f \in Seq(X) /\ l \in X /\ q = Append(f, l)
      BY <3>1, <3>3, FrontLast
    <3>5. Append(f, l) = Append(F, m)
      BY <2>3, <3>4
    <3>6. f = F /\ l = m
      BY ONLY <3>2, <3>4, <3>5, AppendApart
    <3> QED BY <3>1, <3>6
  <2>5. t \in Seq(Symbols) /\ ValidAid(m)
    BY <1>10, <2>1, LineOfAppend, AidIs
  <2> QED BY <1>15, <2>1, <2>4, <2>5 DEF ValidRest
<1> QED BY <1>6, <1>10, <1>16, <1>17 DEF Ending

LEMMA SlicesJoin ==
  ASSUME NEW X, NEW t \in Seq(X), NEW m \in Nat \ {0}, NEW n \in Nat, NEW k \in Nat,
         m <= n + 1, n <= k, k <= Len(t)
  PROVE  SubSeq(t, m, n) \o SubSeq(t, n + 1, k) = SubSeq(t, m, k)
<1>1. PICK o, a, b, c : o = n + 1 /\ a = SubSeq(t, m, n) /\ b = SubSeq(t, o, k) /\ c = SubSeq(t, m, k)
  OBVIOUS
<1>2. o \in Nat \ {0} /\ n <= Len(t)
  BY <1>1, LenProperties
<1>3. /\ a \in Seq(X) /\ Len(a) = (IF m <= n THEN n - m + 1 ELSE 0)
      /\ \A i \in 1 .. n - m + 1 : a[i] = t[m + i - 1]
  BY <1>1, <1>2, SliceOf
<1>4. /\ b \in Seq(X) /\ Len(b) = (IF o <= k THEN k - o + 1 ELSE 0)
      /\ \A i \in 1 .. k - o + 1 : b[i] = t[o + i - 1]
  BY <1>1, <1>2, SliceOf
<1>5. /\ c \in Seq(X) /\ Len(c) = (IF m <= k THEN k - m + 1 ELSE 0)
      /\ \A i \in 1 .. k - m + 1 : c[i] = t[m + i - 1]
  BY <1>1, SliceOf
<1>6. PICK u : u = a \o b
  OBVIOUS
<1>7. /\ u \in Seq(X) /\ Len(u) = Len(a) + Len(b)
      /\ \A i \in 1 .. Len(a) : u[i] = a[i]
      /\ \A i \in 1 .. Len(b) : u[Len(a) + i] = b[i]
  <2>1. a \in Seq(X) /\ b \in Seq(X)
    BY <1>3, <1>4
  <2> QED BY ONLY <1>6, <2>1, ConcatAt
<1>8. PICK la, lb, lc : la = Len(a) /\ lb = Len(b) /\ lc = Len(c)
  OBVIOUS
<1>9. la = n - m + 1 /\ lb = k - o + 1 /\ lc = k - m + 1
  <2>1. /\ la = (IF m <= n THEN n - m + 1 ELSE 0) /\ lb = (IF o <= k THEN k - o + 1 ELSE 0)
        /\ lc = (IF m <= k THEN k - m + 1 ELSE 0)
    BY <1>3, <1>4, <1>5, <1>8
  <2>2. o = n + 1
    BY <1>1
  <2> QED BY ONLY <2>1, <2>2, m \in Nat \ {0}, n \in Nat, k \in Nat, m <= n + 1, n <= k
<1>10. o = n + 1
  BY <1>1
<1>11. Len(u) = Len(c)
  <2>1. Len(u) = la + lb
    BY <1>7, <1>8
  <2>2. la + lb = lc
    BY ONLY <1>9, <1>10, m \in Nat \ {0}, n \in Nat, k \in Nat
  <2> QED BY <1>8, <2>1, <2>2
<1>12. ASSUME NEW i \in 1 .. Len(c)
       PROVE  u[i] = c[i]
  <2>0. i \in 1 .. lc
    BY <1>8
  <2>1. CASE i <= la
    <3>1. i \in 1 .. la /\ i \in 1 .. n - m + 1 /\ i \in 1 .. k - m + 1
      BY ONLY <1>9, <2>0, <2>1, m \in Nat \ {0}, n \in Nat, k \in Nat, n <= k
    <3>2. u[i] = a[i]
      BY <1>7, <1>8, <3>1
    <3> QED BY <1>3, <1>5, <3>1, <3>2
  <2>2. CASE ~(i <= la)
    <3>1. PICK j : j = i - la
      OBVIOUS
    <3>2. j \in 1 .. lb /\ j \in 1 .. k - o + 1 /\ la + j = i /\ o + j - 1 = m + i - 1 /\ i \in 1 .. k - m + 1
      BY ONLY <1>9, <1>10, <2>0, <2>2, <3>1, m \in Nat \ {0}, n \in Nat, k \in Nat, n <= k, m <= n + 1
    <3>3. u[i] = b[j]
      BY <1>7, <1>8, <3>2
    <3> QED BY <1>4, <1>5, <3>2, <3>3
  <2> QED BY <2>1, <2>2
<1>13. u = c
  BY <1>5, <1>7, <1>11, <1>12, SeqEqual
<1> QED BY <1>1, <1>6, <1>13

LEMMA WholeSlice ==
  ASSUME NEW X, NEW t \in Seq(X)
  PROVE  SubSeq(t, 1, Len(t)) = t
<1>1. PICK s, n : n = Len(t) /\ s = SubSeq(t, 1, n)
  OBVIOUS
<1>2. n \in Nat /\ n <= Len(t) /\ 1 \in Nat \ {0}
  BY <1>1, LenProperties
<1>3. /\ s \in Seq(X) /\ Len(s) = (IF 1 <= n THEN n - 1 + 1 ELSE 0)
      /\ \A i \in 1 .. n - 1 + 1 : s[i] = t[1 + i - 1]
  BY <1>1, <1>2, SliceOf
<1>4. Len(s) = n
  BY <1>2, <1>3
<1>5. ASSUME NEW i \in 1 .. Len(s)
      PROVE  s[i] = t[i]
  <2>1. i \in 1 .. n - 1 + 1 /\ 1 + i - 1 = i
    BY <1>2, <1>4
  <2> QED BY <1>3, <2>1
<1> QED BY <1>1, <1>3, <1>4, <1>5, SeqEqual

(* A part of a text, by where it is in it.                                 *)
LEMMA MiddleOf ==
  ASSUME NEW X, NEW s \in Seq(X), NEW a \in Seq(X), NEW t \in Seq(X), NEW u, u = s \o (a \o t)
  PROVE  /\ u \in Seq(X) /\ Len(u) = Len(s) + Len(a) + Len(t)
         /\ Len(s) \in Nat /\ Len(a) \in Nat /\ Len(t) \in Nat
         /\ SubSeq(u, Len(s) + 1, Len(s) + Len(a)) = a
<1>1. PICK v : v = a \o t
  OBVIOUS
<1>2. /\ v \in Seq(X) /\ Len(v) = Len(a) + Len(t) /\ Len(a) \in Nat /\ Len(t) \in Nat
      /\ \A i \in 1 .. Len(a) : v[i] = a[i]
  BY ONLY <1>1, a \in Seq(X), t \in Seq(X), ConcatAt
<1>3. /\ u \in Seq(X) /\ Len(u) = Len(s) + Len(v) /\ Len(s) \in Nat
      /\ \A i \in 1 .. Len(v) : u[Len(s) + i] = v[i]
  <2>1. u = s \o v /\ v \in Seq(X)
    BY <1>1, <1>2
  <2> QED BY ONLY <2>1, s \in Seq(X), ConcatAt
<1>4. PICK m, n, b : m = Len(s) + 1 /\ n = Len(s) + Len(a) /\ b = SubSeq(u, m, n)
  OBVIOUS
<1>5. m \in Nat \ {0} /\ n \in Nat /\ n <= Len(u)
  BY <1>2, <1>3, <1>4
<1>6. /\ b \in Seq(X) /\ Len(b) = (IF m <= n THEN n - m + 1 ELSE 0)
      /\ \A i \in 1 .. n - m + 1 : b[i] = u[m + i - 1]
  <2>1. u \in Seq(X) /\ b = SubSeq(u, m, n)
    BY <1>3, <1>4
  <2> QED BY ONLY <1>5, <2>1, SliceOf
<1>7. Len(b) = Len(a) /\ n - m + 1 = Len(a)
  <2>1. PICK la, ls, lb : la = Len(a) /\ ls = Len(s) /\ lb = Len(b)
    OBVIOUS
  <2>2. la \in Nat /\ ls \in Nat /\ m = ls + 1 /\ n = ls + la /\ lb = (IF m <= n THEN n - m + 1 ELSE 0)
    BY <1>2, <1>3, <1>4, <1>6, <2>1
  <2>3. lb = la /\ n - m + 1 = la
    BY ONLY <2>2
  <2> QED BY <2>1, <2>3
<1>8. ASSUME NEW i \in 1 .. Len(b)
      PROVE  b[i] = a[i]
  <2>1. i \in 1 .. Len(a) /\ i \in 1 .. n - m + 1 /\ i \in 1 .. Len(v) /\ m + i - 1 = Len(s) + i
    BY <1>2, <1>3, <1>4, <1>7
  <2> QED BY <1>2, <1>3, <1>6, <2>1
<1>9. b = a
  BY <1>6, <1>7, <1>8, SeqEqual
<1>10. Len(u) = Len(s) + Len(a) + Len(t)
  BY <1>2, <1>3
<1> QED BY <1>2, <1>3, <1>4, <1>9, <1>10

LEMMA PortIs ==
  ASSUME NEW p, NEW port, PortText(p, port)
  PROVE  IsPort(p) /\ NoEnd(p)
<1>1. /\ p \in Seq(Symbols) /\ Len(p) \in Nat /\ Len(port) \in Nat
      /\ \A n \in 1 .. Len(p) : p[n] \in (IF n = 1 THEN Markers ELSE Digits)
  BY PortSymbols
<1>2. NoEnd(p)
  BY <1>1 DEF NoEnd, Markers, Digits
<1>3. CASE Len(p) = 0
  <2>1. p = <<>>
    BY <1>1, <1>3, EmptySeq
  <2> QED BY <1>2, <2>1 DEF IsPort
<1>4. CASE Len(p) # 0
  <2>1. Len(p) = Len(port) + 1 /\ p[1] \in Markers /\ Len(port) \in 1 .. PortDigits
    BY <1>4 DEF PortText
  <2>2. p # <<>>
    BY <1>4
  <2>3. PICK t : t = Tail(p)
    OBVIOUS
  <2>4. t \in Seq(Symbols) /\ Len(t) = Len(p) - 1 /\ \A i \in 1 .. Len(t) : t[i] = p[i + 1]
    BY <1>1, <2>2, <2>3, HeadTailProperties
  <2>5. ASSUME NEW i \in 1 .. Len(t)
        PROVE  t[i] \in Digits
    <3>1. i + 1 \in 1 .. Len(p) /\ i + 1 # 1
      BY <1>1, <2>4
    <3> QED BY <1>1, <2>4, <3>1
  <2>6. Over(t, Digits)
    BY <2>4, <2>5, OverIs
  <2>7. Len(p) - 1 \in 1 .. PortDigits
    <3>1. Len(p) - 1 = Len(port)
      BY <1>1, <2>1
    <3> QED BY <2>1, <3>1
  <2> QED BY <1>2, <2>1, <2>3, <2>6, <2>7 DEF IsPort
<1> QED BY <1>3, <1>4

LEMMA PortOf ==
  ASSUME NEW p \in Seq(Symbols), IsPort(p)
  PROVE  \E port : PortText(p, port)
<1>1. CASE p = <<>>
  <2>1. PortText(p, NoPort)
    <3>1. NoPort \in Seq(Digits) /\ Len(p) = 0
      BY <1>1 DEF NoPort
    <3> QED BY <3>1 DEF PortText
  <2> QED BY <2>1
<1>2. CASE p # <<>>
  <2>1. PICK t : t = Tail(p)
    OBVIOUS
  <2>2. p[1] \in Markers /\ Over(t, Digits) /\ Len(p) - 1 \in 1 .. PortDigits
    BY <1>2, <2>1 DEF IsPort
  <2>3. t \in Seq(Symbols) /\ Len(t) = Len(p) - 1 /\ Len(p) \in Nat /\ \A i \in 1 .. Len(t) : t[i] = p[i + 1]
    BY <1>2, <2>1, HeadTailProperties, LenProperties
  <2>4. \A i \in 1 .. Len(t) : t[i] \in Digits
    BY <2>2, <2>3, OverIs
  <2>5. t \in Seq(Digits)
    <3>1. Len(t) \in Nat /\ t = [n \in 1 .. Len(t) |-> t[n]]
      BY <2>3, LenProperties
    <3> QED BY <2>4, <3>1
  <2>6. Len(p) = Len(t) + 1 /\ Len(t) \in 1 .. PortDigits
    BY <2>2, <2>3
  <2>7. PortText(p, t)
    BY <2>2, <2>3, <2>5, <2>6 DEF PortText
  <2> QED BY <2>7
<1> QED BY <1>1, <1>2

BuiltOfThree(text, a, b, c) ==
  /\ a \in Seq(Symbols) /\ b \in Seq(Symbols) /\ c \in Seq(Symbols)
  /\ text = a \o (b \o (c \o Ending))

(* A text in the grammar, put together of its parts, ...                   *)
LEMMA GrammarOf ==
  ASSUME NEW text, NEW a, NEW b, NEW c, BuiltOfThree(text, a, b, c), Ended(a, b), IsPath(c)
  PROVE  OfParts(text, Ended)
<1>1. PICK X : X = Symbols
  OBVIOUS
<1>2. PICK e, ce, bce, ab, abc : /\ e = Ending /\ ce = c \o e /\ bce = b \o ce
                                 /\ ab = a \o b /\ abc = ab \o c
  OBVIOUS
<1>3. a \in Seq(X) /\ b \in Seq(X) /\ c \in Seq(X) /\ text = a \o (b \o (c \o e))
  BY <1>1, <1>2 DEF BuiltOfThree
<1>4. e \in Seq(X) /\ Len(e) = 2 /\ e = <<":", "E">>
  BY <1>1, <1>2, EndingIs
<1>5. ce \in Seq(X) /\ Len(ce) = Len(c) + 2
  <2>1. c \in Seq(X) /\ e \in Seq(X)
    BY <1>3, <1>4
  <2>2. ce \in Seq(X) /\ Len(ce) = Len(c) + Len(e)
    BY ONLY <1>2, <2>1, ConcatAt
  <2> QED BY <1>4, <2>2
<1>6. bce \in Seq(X) /\ ab \in Seq(X)
  <2>1. a \in Seq(X) /\ b \in Seq(X) /\ ce \in Seq(X)
    BY <1>3, <1>5
  <2> QED BY ONLY <1>2, <2>1, ConcatAt
<1>7. abc \in Seq(X)
  <2>1. ab \in Seq(X) /\ c \in Seq(X)
    BY <1>3, <1>6
  <2> QED BY ONLY <1>2, <2>1, ConcatAt
<1>8. text = a \o bce /\ text = a \o (b \o ce) /\ text = ab \o (c \o e) /\ text = abc \o e
  <2>1. text = a \o bce /\ text = a \o (b \o ce)
    BY ONLY <1>2, <1>3
  <2>2. Regroups(a, b, ce)
    <3>1. a \in Seq(X) /\ b \in Seq(X) /\ ce \in Seq(X)
      BY <1>3, <1>5
    <3> QED BY ONLY <3>1, ConcatRegroups
  <2>3. text = ab \o ce
    BY ONLY <1>2, <2>1, <2>2 DEF Regroups
  <2>4. Regroups(ab, c, e)
    <3>1. ab \in Seq(X) /\ c \in Seq(X) /\ e \in Seq(X)
      BY <1>3, <1>4, <1>6
    <3> QED BY ONLY <3>1, ConcatRegroups
  <2>5. text = abc \o e
    BY ONLY <1>2, <2>3, <2>4 DEF Regroups
  <2> QED BY ONLY <1>2, <2>1, <2>3, <2>5
<1>9. PICK la, lb, lc : la = Len(a) /\ lb = Len(b) /\ lc = Len(c)
  OBVIOUS
<1>10. SubSeq(text, 1, la) = a
  <2>1. a \in Seq(X) /\ bce \in Seq(X) /\ text = a \o bce
    BY <1>3, <1>6, <1>8
  <2>2. SubSeq(text, 1, Len(a)) = a
    BY ONLY <2>1, ConcatParts
  <2> QED BY <1>9, <2>2
<1>11. /\ SubSeq(text, la + 1, la + lb) = b
       /\ Len(text) = la + lb + lc + 2 /\ la \in Nat /\ lb \in Nat /\ lc \in Nat
       /\ text \in Seq(X)
  <2>1. a \in Seq(X) /\ b \in Seq(X) /\ ce \in Seq(X) /\ text = a \o (b \o ce)
    BY <1>3, <1>5, <1>8
  <2>2. /\ text \in Seq(X) /\ Len(text) = Len(a) + Len(b) + Len(ce)
        /\ Len(a) \in Nat /\ Len(b) \in Nat
        /\ SubSeq(text, Len(a) + 1, Len(a) + Len(b)) = b
    BY ONLY <2>1, MiddleOf
  <2>3. Len(c) \in Nat
    BY <1>3, LenProperties
  <2> QED BY <1>5, <1>9, <2>2, <2>3
<1>12. SubSeq(text, la + lb + 1, la + lb + lc) = c
  <2>1. ab \in Seq(X) /\ c \in Seq(X) /\ e \in Seq(X) /\ text = ab \o (c \o e)
    BY <1>3, <1>4, <1>6, <1>8
  <2>2. SubSeq(text, Len(ab) + 1, Len(ab) + Len(c)) = c
    BY ONLY <2>1, MiddleOf
  <2>3. Len(ab) = la + lb
    <3>1. a \in Seq(X) /\ b \in Seq(X)
      BY <1>3
    <3>2. Len(ab) = Len(a) + Len(b)
      BY ONLY <1>2, <3>1, ConcatAt
    <3> QED BY <1>9, <3>2
  <2> QED BY <1>9, <2>2, <2>3
<1>13. From(text, la + lb + lc + 1) = <<":", "E">>
  <2>1. abc \in Seq(X) /\ e \in Seq(X) /\ text = abc \o e
    BY <1>4, <1>7, <1>8
  <2>2. From(text, Len(abc) + 1) = e /\ Len(text) = Len(abc) + Len(e) /\ Len(abc) \in Nat
    BY ONLY <2>1, ConcatParts, ConcatAt
  <2>3. PICK l : l = Len(abc)
    OBVIOUS
  <2>4. l + 2 = la + lb + lc + 2 /\ l \in Nat
    BY <1>4, <1>11, <2>2, <2>3
  <2>5. l = la + lb + lc
    BY ONLY <1>11, <2>4
  <2> QED BY <1>4, <2>2, <2>3, <2>5
<1>14. PICK p : p = la + lb
  OBVIOUS
<1>15. /\ la \in 0 .. Len(text) /\ p \in la .. Len(text) /\ Len(text) >= p + 2
       /\ Len(text) - 1 = la + lb + lc + 1 /\ Len(text) - 2 = la + lb + lc
  <2>1. PICK l : l = Len(text)
    OBVIOUS
  <2>2. l = la + lb + lc + 2 /\ la \in Nat /\ lb \in Nat /\ lc \in Nat
    BY <1>11, <2>1
  <2>3. /\ la \in 0 .. l /\ p \in la .. l /\ l >= p + 2
        /\ l - 1 = la + lb + lc + 1 /\ l - 2 = la + lb + lc
    BY ONLY <1>14, <2>2
  <2> QED BY <2>1, <2>3
<1>16. SubSeq(text, la + 1, p) = b /\ SubSeq(text, p + 1, Len(text) - 2) = c
       /\ From(text, Len(text) - 1) = <<":", "E">>
  BY <1>11, <1>12, <1>13, <1>14, <1>15
<1> QED BY <1>10, <1>15, <1>16 DEF OfParts

(* ... and taken apart.                                                    *)
LEMMA GrammarParts ==
  ASSUME NEW text \in Seq(Symbols), OfParts(text, Ended)
  PROVE  \E a, b, c : /\ a \in Seq(Symbols) /\ b \in Seq(Symbols) /\ c \in Seq(Symbols)
                      /\ Ended(a, b) /\ IsPath(c)
                      /\ text = (a \o b) \o (c \o Ending)
<1>1. PICK h \in 0 .. Len(text) : \E p \in h .. Len(text) :
        /\ Ended(SubSeq(text, 1, h), SubSeq(text, h + 1, p))
        /\ Len(text) >= p + 2 /\ From(text, Len(text) - 1) = <<":", "E">>
        /\ IsPath(SubSeq(text, p + 1, Len(text) - 2))
  BY DEF OfParts
<1>2. PICK p \in h .. Len(text) :
        /\ Ended(SubSeq(text, 1, h), SubSeq(text, h + 1, p))
        /\ Len(text) >= p + 2 /\ From(text, Len(text) - 1) = <<":", "E">>
        /\ IsPath(SubSeq(text, p + 1, Len(text) - 2))
  BY <1>1
<1>3. PICK len, q : len = Len(text) /\ q = len - 2
  OBVIOUS
<1>4. len \in Nat /\ h \in Nat /\ p \in Nat /\ h <= p /\ p <= q /\ q \in Nat /\ q <= len /\ q + 1 = len - 1
  <2>1. len \in Nat
    BY <1>3, LenProperties
  <2>2. h \in 0 .. len /\ p \in h .. len /\ len >= p + 2
    BY <1>1, <1>2, <1>3
  <2> QED BY ONLY <1>3, <2>1, <2>2
<1>5. PICK a, b, c, e : /\ a = SubSeq(text, 1, h) /\ b = SubSeq(text, h + 1, p)
                        /\ c = SubSeq(text, p + 1, q) /\ e = SubSeq(text, q + 1, len)
  OBVIOUS
<1>6. Ended(a, b) /\ IsPath(c) /\ e = Ending
  <2>1. e = <<":", "E">>
    BY <1>2, <1>3, <1>4, <1>5 DEF From
  <2> QED BY <1>2, <1>3, <1>5, <2>1, EndingIs
<1>7. a \in Seq(Symbols) /\ b \in Seq(Symbols) /\ c \in Seq(Symbols)
  <2>1. ASSUME NEW m \in Nat \ {0}, NEW n \in Nat, n <= len
        PROVE  SubSeq(text, m, n) \in Seq(Symbols)
    <3>1. PICK s : s = SubSeq(text, m, n)
      OBVIOUS
    <3>2. n <= Len(text)
      BY <1>3, <2>1
    <3> QED BY <3>1, <3>2, SliceOf
  <2>2. 1 \in Nat \ {0} /\ h + 1 \in Nat \ {0} /\ p + 1 \in Nat \ {0} /\ h <= len /\ p <= len
    BY ONLY <1>4
  <2> QED BY <1>4, <1>5, <2>1, <2>2
<1>8. PICK ab, ce : ab = SubSeq(text, 1, p) /\ ce = SubSeq(text, p + 1, len)
  OBVIOUS
<1>9. a \o b = ab
  <2>1. 1 \in Nat \ {0} /\ h \in Nat /\ p \in Nat /\ 1 <= h + 1 /\ h <= p /\ p <= Len(text)
    BY <1>3, <1>4
  <2>2. SubSeq(text, 1, h) \o SubSeq(text, h + 1, p) = SubSeq(text, 1, p)
    BY ONLY <2>1, text \in Seq(Symbols), SlicesJoin
  <2> QED BY <1>5, <1>8, <2>2
<1>10. c \o e = ce
  <2>1. PICK o : o = p + 1
    OBVIOUS
  <2>2. o \in Nat \ {0} /\ q \in Nat /\ len \in Nat /\ o <= q + 1 /\ q <= len /\ len <= Len(text)
    BY <1>3, <1>4, <2>1
  <2>3. SubSeq(text, o, q) \o SubSeq(text, q + 1, len) = SubSeq(text, o, len)
    BY ONLY <2>2, text \in Seq(Symbols), SlicesJoin
  <2> QED BY <1>5, <1>8, <2>1, <2>3
<1>11. ab \o ce = text
  <2>1. 1 \in Nat \ {0} /\ p \in Nat /\ len \in Nat /\ 1 <= p + 1 /\ p <= len /\ len <= Len(text)
    BY <1>3, <1>4
  <2>2. SubSeq(text, 1, p) \o SubSeq(text, p + 1, len) = SubSeq(text, 1, len)
    BY ONLY <2>1, text \in Seq(Symbols), SlicesJoin
  <2>3. SubSeq(text, 1, len) = text
    BY <1>3, WholeSlice
  <2> QED BY <1>8, <2>2, <2>3
<1> QED BY <1>6, <1>7, <1>9, <1>10, <1>11

(* What ends in the AID ends in no line's end.                             *)
LEMMA LineOfEnding ==
  ASSUME NEW s \in Seq(Symbols), NEW t, t = s \o Ending
  PROVE  t \in Seq(Symbols) /\ Line(t) = t
<1>1. PICK e : e = Ending
  OBVIOUS
<1>2. e \in Seq(Symbols) /\ Len(e) = 2 /\ e[2] = "E"
  BY <1>1, EndingIs
<1>3. /\ t \in Seq(Symbols) /\ Len(t) = Len(s) + Len(e) /\ Len(s) \in Nat
      /\ \A n \in 1 .. Len(e) : t[Len(s) + n] = e[n]
  <2>1. t = s \o e /\ s \in Seq(Symbols) /\ e \in Seq(Symbols)
    BY <1>1, <1>2
  <2> QED BY ONLY <2>1, ConcatAt
<1>4. t[Len(t)] = "E"
  <2>1. 2 \in 1 .. Len(e) /\ Len(t) = Len(s) + 2
    BY <1>2, <1>3
  <2> QED BY <1>2, <1>3, <2>1
<1> QED BY <1>3, <1>4 DEF Line, Last

(* What is taken for a DID is in the grammar but for its line's ends.      *)
LEMMA TakenIsInGrammar ==
  ASSUME NEW text \in Seq(Symbols), Parse(text) # Invalid, DidAssumption
  PROVE  InGrammarOfLines(text)
<1>1. PICK span, h, p, port, rest :
            /\ span \in Seq(Symbols) /\ h \in Seq(Symbols) /\ p \in Seq(Symbols)
            /\ text = span \o (<<":">> \o rest)
            /\ Host(h) # NoHost /\ PortText(p, port) /\ ValidRest(rest)
            /\ \/ span = h \o p
               \/ p # <<>> /\ Labelled(h) /\ span = Append(h \o p, "\n")
            /\ Parse(text) = [host |-> Host(h), port |-> port,
                              path |-> Front(Fields(rest, ":")), aid |-> Last(Fields(rest, ":"))]
  BY ParseSplit
<1>2. PICK X, end : X = Symbols /\ end = <<"\n">>
  OBVIOUS
<1>3. "\n" \in X /\ end \in Seq(X) /\ span \in Seq(X) /\ h \in Seq(X) /\ p \in Seq(X) /\ rest \in Seq(X)
  BY <1>1, <1>2 DEF Symbols, ValidRest
<1>4. IsPort(p) /\ NoEnd(p) /\ Line(p) = p
  BY <1>1, PortIs, LineOfNoEnd DEF NoEnd
<1>5. IsHost(h) \/ LdhHost(Line(h))
  BY <1>1, HostOf, HostLines
<1>6. PICK b \in Seq(X) : span = h \o b /\ Ended(h, b)
  <2>1. CASE span = h \o p
    <3>1. p # <<"\n">>
      <4>1. <<"\n">>[1] = "\n" /\ Len(<<"\n">>) = 1 /\ 1 \in 1 .. 1
        OBVIOUS
      <4> QED BY <1>4, <4>1 DEF NoEnd
    <3>2. Ended(h, p)
      BY <1>4, <1>5, <3>1 DEF Ended
    <3> QED BY <1>3, <2>1, <3>2
  <2>2. CASE p # <<>> /\ Labelled(h) /\ span = Append(h \o p, "\n")
    <3>1. PICK hp, b : hp = h \o p /\ b = Append(p, "\n")
      OBVIOUS
    <3>2. hp \in Seq(X)
      BY ONLY <1>3, <3>1, ConcatAt
    <3>3. b = p \o end /\ Append(hp, "\n") = hp \o end /\ b \in Seq(X)
      BY <1>2, <1>3, <3>1, <3>2, AppendIsConcat, AppendProperties
    <3>4. Regroups(h, p, end)
      BY ONLY <1>3, ConcatRegroups
    <3>5. span = h \o b
      BY <2>2, <3>1, <3>3, <3>4 DEF Regroups
    <3>6. Line(b) = p
      BY <1>2, <1>3, <3>1, LineOfAppend
    <3>7. b # <<"\n">>
      <4>1. Len(p) \in Nat /\ Len(p) # 0
        BY <1>3, <2>2, EmptySeq, LenProperties
      <4>2. Len(b) = Len(p) + 1
        BY <1>3, <3>1, AppendAt
      <4>3. Len(b) # 1
        BY ONLY <4>1, <4>2
      <4>4. Len(<<"\n">>) = 1
        OBVIOUS
      <4> QED BY <4>3, <4>4
    <3>8. LdhHost(Line(h))
      BY <1>1, <2>2, HostLines
    <3>9. Ended(h, b)
      BY <1>4, <3>6, <3>7, <3>8 DEF Ended
    <3> QED BY <3>3, <3>5, <3>9
  <2> QED BY <1>1, <2>1, <2>2
<1>7. PICK c \in Seq(X) : /\ IsPath(c)
                          /\ \/ <<":">> \o rest = c \o Ending
                             \/ <<":">> \o rest = Append(c \o Ending, "\n")
  BY <1>1, <1>2, RestLines
<1>8. PICK e, ce, t : e = Ending /\ ce = c \o e /\ t = span \o ce
  OBVIOUS
<1>9. e \in Seq(X) /\ c \in Seq(X)
  BY <1>2, <1>7, <1>8, EndingIs
<1>10. ce \in Seq(X)
  BY ONLY <1>8, <1>9, ConcatAt
<1>11. t = h \o (b \o ce)
  <2>1. b \in Seq(X)
    BY <1>6
  <2>2. Regroups(h, b, ce)
    BY ONLY <1>3, <1>10, <2>1, ConcatRegroups
  <2> QED BY <1>6, <1>8, <2>2 DEF Regroups
<1>12. OfParts(t, Ended)
  <2>1. BuiltOfThree(t, h, b, c)
    BY <1>2, <1>3, <1>6, <1>8, <1>9, <1>11 DEF BuiltOfThree
  <2> QED BY <1>6, <1>7, <2>1, GrammarOf
<1>13. t \in Seq(Symbols) /\ Line(t) = t
  <2>1. PICK u : u = span \o c
    OBVIOUS
  <2>2. u \in Seq(X) /\ t = u \o e
    <3>1. u \in Seq(X)
      BY ONLY <1>3, <1>9, <2>1, ConcatAt
    <3>2. Regroups(span, c, e)
      BY ONLY <1>3, <1>9, ConcatRegroups
    <3> QED BY ONLY <1>8, <2>1, <3>1, <3>2 DEF Regroups
  <2> QED BY <1>2, <1>8, <2>2, LineOfEnding
<1>14. Line(text) = t
  <2>1. CASE <<":">> \o rest = c \o Ending
    BY <1>1, <1>8, <1>13, <2>1
  <2>2. CASE <<":">> \o rest = Append(c \o Ending, "\n")
    <3>1. <<":">> \o rest = ce \o end
      BY <1>2, <1>3, <1>8, <1>10, <2>2, AppendIsConcat
    <3>2. Regroups(span, ce, end)
      BY ONLY <1>3, <1>10, ConcatRegroups
    <3>3. text = t \o end
      BY <1>1, <1>8, <3>1, <3>2 DEF Regroups
    <3>4. text = Append(t, "\n")
      BY <1>2, <1>3, <1>13, <3>3, AppendIsConcat
    <3> QED BY <1>13, <3>4, LineOfAppend
  <2> QED BY <1>7, <2>1, <2>2
<1> QED BY <1>12, <1>14 DEF InGrammarOfLines

(* A line's end behind a port changes nothing of how it is read.           *)
LEMMA PortEnded ==
  ASSUME NEW s \in Seq(Symbols), Line(s) = s, NEW read, ExtractPortMarker(s) = read, read.port # NoPort,
         NEW span, span = Append(s, "\n")
  PROVE  ExtractPortMarker(span) = read
<1> DEFINE I(t) == {i \in 1 .. Len(t) : t[i] \in Markers}
           at(t) == SelectLastInSeq(t, LAMBDA x : x \in Markers)
<1>0. "\n" \in Symbols /\ "\n" \notin Markers
  BY DEF Symbols, Markers
<1>1. span \in Seq(Symbols) /\ Line(span) = s
  BY LineOfAppend
<1>2. /\ Len(span) = Len(s) + 1 /\ Len(s) \in Nat /\ span[Len(s) + 1] = "\n"
      /\ \A n \in 1 .. Len(s) : span[n] = s[n]
  BY <1>0, AppendAt
<1>3. I(span) = I(s)
  <2>1. \A i \in 1 .. Len(span) : i = Len(s) + 1 \/ i \in 1 .. Len(s)
    BY <1>2
  <2>2. \A i \in 1 .. Len(s) : i \in 1 .. Len(span)
    BY <1>2
  <2> QED BY <1>0, <1>2, <2>1, <2>2
<1>4. /\ at(s) = IF I(s) # {} THEN Max(I(s)) ELSE 0
      /\ at(span) = IF I(span) # {} THEN Max(I(span)) ELSE 0
  BY DEF SelectLastInSeq
<1>5. PICK k, d : k = at(s) /\ d = From(s, k + 1)
  OBVIOUS
<1>6. at(span) = k
  BY <1>3, <1>4, <1>5
<1>7. k \in 0 .. Len(s)
  <2>1. CASE I(s) = {}
    BY <1>2, <1>4, <1>5, <2>1
  <2>2. CASE I(s) # {}
    <3>1. PICK T : T = I(s)
      OBVIOUS
    <3>2. T \in SUBSET Nat /\ T # {} /\ \A n \in T : n <= Len(s)
      BY <1>2, <2>2, <3>1
    <3>3. Max(T) \in T
      BY <1>2, <3>2, GreatestElement
    <3> QED BY <1>2, <1>4, <1>5, <2>2, <3>1, <3>3
  <2> QED BY <2>1, <2>2
<1>8. read = IF k = 0 \/ ~Over(d, Digits) \/ Len(d) \notin 1 .. PortDigits
             THEN [host |-> s, port |-> NoPort]
             ELSE [host |-> SubSeq(s, 1, k - 1), port |-> d]
  BY <1>5 DEF ExtractPortMarker
<1>9. ExtractPortMarker(span) = IF k = 0 \/ ~Over(d, Digits) \/ Len(d) \notin 1 .. PortDigits
                                THEN [host |-> span, port |-> NoPort]
                                ELSE [host |-> SubSeq(span, 1, k - 1), port |-> d]
  BY <1>1, <1>5, <1>6 DEF ExtractPortMarker
<1> HIDE DEF I, at
<1>10. ~(k = 0 \/ ~Over(d, Digits) \/ Len(d) \notin 1 .. PortDigits)
  BY <1>8
<1>11. SubSeq(span, 1, k - 1) = SubSeq(s, 1, k - 1)
  <2>1. PICK m, x, y : m = k - 1 /\ x = SubSeq(s, 1, m) /\ y = SubSeq(span, 1, m)
    OBVIOUS
  <2>2. m \in Nat /\ m <= Len(s) /\ m <= Len(span) /\ 1 \in Nat \ {0}
    BY <1>2, <1>7, <1>10, <2>1
  <2>3. /\ x \in Seq(Symbols) /\ Len(x) = (IF 1 <= m THEN m - 1 + 1 ELSE 0)
        /\ \A i \in 1 .. m - 1 + 1 : x[i] = s[1 + i - 1]
    BY <2>1, <2>2, SliceOf
  <2>4. /\ y \in Seq(Symbols) /\ Len(y) = (IF 1 <= m THEN m - 1 + 1 ELSE 0)
        /\ \A i \in 1 .. m - 1 + 1 : y[i] = span[1 + i - 1]
    BY <1>1, <2>1, <2>2, SliceOf
  <2>5. ASSUME NEW i \in 1 .. Len(x)
        PROVE  x[i] = y[i]
    <3>1. i \in 1 .. m - 1 + 1 /\ 1 + i - 1 = i /\ i \in 1 .. Len(s)
      BY <1>2, <2>2, <2>3
    <3> QED BY <1>2, <2>3, <2>4, <3>1
  <2>6. x = y
    BY <2>3, <2>4, <2>5, SeqEqual
  <2> QED BY <2>1, <2>6
<1> QED BY <1>8, <1>9, <1>10, <1>11

(* What a text is parsed as, its host and port known.                      *)
LEMMA ParseOf ==
  ASSUME NEW span \in Seq(Symbols), NEW rest, ValidRest(rest), NEW text, text = span \o (<<":">> \o rest),
         Span(text) = Len(span), \A n \in 1 .. Len(span) : span[n] \notin Delimiters,
         NEW at, at = ExtractPortMarker(span), Host(at.host) # NoHost
  PROVE  Parse(text).host = Host(at.host)
<1>1. PICK X, sep, s, head : X = Symbols /\ sep = ":" /\ s = <<sep>> /\ head = span \o s
  OBVIOUS
<1>2. sep \in X /\ span \in Seq(X) /\ rest \in Seq(X) /\ s \in Seq(X) /\ Len(s) = 1
  BY <1>1, SlashIsSymbol, Single DEF ValidRest
<1>3. /\ text \in Seq(X) /\ Len(text) = Len(span) + 1 + Len(rest) /\ Len(span) \in Nat /\ Len(rest) \in Nat
      /\ text[Len(span) + 1] = sep /\ \A n \in 1 .. Len(span) : text[n] = span[n]
      /\ \A n \in 1 .. Len(rest) : text[Len(span) + 1 + n] = rest[n]
  <2>1. text = span \o (<<sep>> \o rest)
    BY <1>1
  <2> QED BY ONLY <1>2, <2>1, PartAt
<1>4. PICK end : end = Len(span)
  OBVIOUS
<1>5. SubSeq(text, 1, end) = span
  <2>1. PICK r : r = s \o rest
    OBVIOUS
  <2>2. r \in Seq(X)
    BY ONLY <1>2, <2>1, ConcatAt
  <2>3. text = span \o r
    BY <1>1, <2>1
  <2> QED BY <1>2, <1>4, <2>2, <2>3, ConcatParts
<1>6. From(text, end + 2) = rest
  <2>1. head \in Seq(X) /\ Len(head) = Len(span) + Len(s)
    BY ONLY <1>1, <1>2, ConcatAt
  <2>2. Regroups(span, s, rest)
    BY ONLY <1>2, ConcatRegroups
  <2>3. text = head \o rest
    BY <1>1, <2>2 DEF Regroups
  <2>4. From(text, Len(head) + 1) = rest
    BY ONLY <1>2, <2>1, <2>3, ConcatParts
  <2>5. Len(head) + 1 = end + 2
    BY <1>2, <1>3, <1>4, <2>1
  <2> QED BY <2>4, <2>5
<1>7. end < Len(text) /\ text[end + 1] = ":"
  BY <1>1, <1>3, <1>4
<1>8. Range(text) \cap Delimiters = {}
  <2>1. \A n \in 1 .. Len(rest) : rest[n] \notin Delimiters
    BY RestSymbols
  <2>2. ASSUME NEW n \in 1 .. Len(text)
        PROVE  text[n] \notin Delimiters
    <3>1. CASE n \in 1 .. Len(span)
      BY <1>3, <3>1
    <3>2. CASE n = Len(span) + 1
      BY <1>1, <1>3, <3>2 DEF Delimiters
    <3>3. CASE n > Len(span) + 1
      <4>1. PICK i : i = n - (Len(span) + 1)
        OBVIOUS
      <4>2. i \in 1 .. Len(rest) /\ Len(span) + 1 + i = n
        BY <1>3, <3>3, <4>1
      <4> QED BY <1>3, <2>1, <4>2
    <3>4. n \in 1 .. Len(span) \/ n = Len(span) + 1 \/ n > Len(span) + 1
      <4>1. PICK l, m : l = Len(span) /\ m = Len(text)
        OBVIOUS
      <4>2. l \in Nat /\ n \in 1 .. m
        BY <1>3, <4>1
      <4>3. n \in 1 .. l \/ n = l + 1 \/ n > l + 1
        BY ONLY <4>2
      <4> QED BY <4>1, <4>3
    <3> QED BY <3>1, <3>2, <3>3, <3>4
  <2>3. text \in Seq(X) /\ \A n \in 1 .. Len(text) : text[n] \notin Delimiters
    BY <1>3, <2>2
  <2> QED BY ONLY <2>3, RangeEquality
<1>9. PICK split, parts : split = Split(text) /\ parts = Fields(rest, ":")
  OBVIOUS
<1>10. split = [tail |-> TRUE, at |-> at, path |-> Front(parts), aid |-> Last(parts)]
  <2>1. (end < Len(text) /\ text[end + 1] = ":") = TRUE
    BY <1>7
  <2>2. Span(text) = end
    BY <1>4
  <2> QED BY <1>5, <1>6, <1>9, <2>1, <2>2 DEF Split
<1>11. /\ split.tail /\ split.at = at /\ split.path = Front(parts) /\ split.aid = Last(parts)
  BY <1>10
<1>12. (\A segment \in Range(Front(parts)) : ValidPathSegment(segment)) /\ ValidAid(Last(parts))
  BY <1>9 DEF ValidRest
<1> QED BY <1>8, <1>9, <1>11, <1>12 DEF Parse

(* A text with a line's end behind its port.                               *)
LEMMA EndedIsTaken ==
  ASSUME NEW a \in Seq(Symbols), Labelled(a), Host(a) # NoHost, DidAssumption,
         NEW p, NEW port, PortText(p, port), p # <<>>, NEW rest, ValidRest(rest),
         NEW text, text = Append(a \o p, "\n") \o (<<":">> \o rest)
  PROVE  Parse(text) # Invalid
<1>1. PICK s, span : s = a \o p /\ span = Append(s, "\n")
  OBVIOUS
<1>2. p \in Seq(Symbols) /\ rest \in Seq(Symbols)
  BY DEF PortText, ValidRest
<1>3. /\ s \in Seq(Symbols) /\ Len(s) = Len(a) + Len(p) /\ Len(a) \in Nat /\ Len(p) \in Nat
      /\ \A n \in 1 .. Len(a) : s[n] = a[n]
      /\ \A n \in 1 .. Len(p) : s[Len(a) + n] = p[n]
  <2>1. a \in Seq(Symbols)
    OBVIOUS
  <2> QED BY ONLY <1>1, <1>2, <2>1, ConcatAt
<1>4. Len(p) # 0 /\ Len(a) # 0
  BY <1>2, HostOf, EmptySeq
<1>5. /\ Len(p) = Len(port) + 1 /\ Len(port) \in 1 .. PortDigits
      /\ \A n \in 1 .. Len(p) : p[n] \in (IF n = 1 THEN Markers ELSE Digits)
  BY <1>4, PortSymbols DEF PortText
<1>6. port # NoPort
  <2>1. Len(NoPort) = 0
    BY DEF NoPort
  <2> QED BY <1>5, <2>1
<1>7. \A n \in 1 .. Len(a) : a[n] \in Letters \cup Digits \cup {"-", ".", "\n"}
  <2>1. Range(a) \subseteq Range(Line(a)) \cup {"\n"}
    BY LineIs
  <2>2. Range(a) \subseteq Letters \cup Digits \cup {"-", ".", "\n"}
    BY <2>1 DEF Labelled, Over
  <2> QED BY <2>2, RangeEquality
<1>8. ASSUME NEW n \in 1 .. Len(s)
      PROVE  s[n] \notin Delimiters \cup {":"}
  <2>1. CASE n \in 1 .. Len(a)
    BY <1>3, <1>7, <2>1 DEF Letters, Digits, Delimiters
  <2>2. CASE n \notin 1 .. Len(a)
    <3>1. PICK i : i = n - Len(a)
      OBVIOUS
    <3>2. i \in 1 .. Len(p) /\ Len(a) + i = n
      BY <1>3, <2>2, <3>1
    <3>3. s[n] \in Markers \cup Digits
      BY <1>3, <1>5, <3>2
    <3> QED BY <3>3 DEF Markers, Digits, Delimiters
  <2> QED BY <2>1, <2>2
<1>9. Line(s) = s
  <2>1. Len(p) \in 1 .. Len(p) /\ Len(a) + Len(p) = Len(s)
    BY <1>3, <1>4
  <2>2. s[Len(s)] \in Markers \cup Digits
    BY <1>3, <1>5, <2>1
  <2> QED BY <2>2 DEF Line, Last, Markers, Digits
<1>10. /\ span \in Seq(Symbols) /\ Len(span) = Len(s) + 1 /\ span[Len(s) + 1] = "\n"
       /\ \A n \in 1 .. Len(s) : span[n] = s[n]
  <2>1. "\n" \in Symbols
    BY DEF Symbols
  <2> QED BY <1>1, <1>3, <2>1, AppendAt
<1>11. ASSUME NEW n \in 1 .. Len(span)
       PROVE  span[n] \notin Delimiters \cup {":"}
  <2>1. CASE n \in 1 .. Len(s)
    BY <1>8, <1>10, <2>1
  <2>2. CASE n \notin 1 .. Len(s)
    <3>1. n = Len(s) + 1
      <4>1. PICK l, m : l = Len(s) /\ m = Len(span)
        OBVIOUS
      <4>2. l \in Nat /\ m = l + 1 /\ n \in 1 .. m /\ n \notin 1 .. l
        BY <1>3, <1>10, <2>2, <4>1
      <4>3. n = l + 1
        BY ONLY <4>2
      <4> QED BY <4>1, <4>3
    <3> QED BY <1>10, <3>1 DEF Delimiters
  <2> QED BY <2>1, <2>2
<1>12. ExtractPortMarker(span) = [host |-> a, port |-> port]
  <2>1. PICK t : t = s \o (<<":">> \o rest)
    OBVIOUS
  <2>2. Laid(t, a, p, rest)
    BY <1>1, <1>2, <2>1, LaidOf
  <2>3. ReadAs(a, p, port, rest)
    BY DEF ReadAs
  <2>4. SubSeq(t, 1, Len(a) + Len(p)) = s
    <3>1. PICK X, c, r : X = Symbols /\ c = <<":">> /\ r = c \o rest
      OBVIOUS
    <3>2. c \in Seq(X) /\ rest \in Seq(X) /\ s \in Seq(X) /\ t = s \o r
      BY <1>2, <1>3, <2>1, <3>1, SlashIsSymbol, Single
    <3>3. r \in Seq(X)
      BY ONLY <3>1, <3>2, ConcatAt
    <3>4. SubSeq(t, 1, Len(s)) = s
      BY ONLY <3>2, <3>3, ConcatParts
    <3> QED BY <1>3, <3>4
  <2>5. ExtractPortMarker(s) = [host |-> a, port |-> port]
    <3>1. PICK u, end : end = Len(a) + Len(p) /\ u = SubSeq(t, 1, end)
      OBVIOUS
    <3>2. DidAssumption /\ Len(a) \in Nat /\ Len(p) \in Nat
      BY <1>3
    <3>3. ExtractPortMarker(u) = [host |-> a, port |-> port]
      BY ONLY <2>2, <2>3, <3>1, <3>2, PortLaid
    <3> QED BY <2>4, <3>1, <3>3
  <2>6. PICK read : read = [host |-> a, port |-> port]
    OBVIOUS
  <2>7. s \in Seq(Symbols) /\ ExtractPortMarker(s) = read /\ read.port # NoPort
    BY <1>3, <1>6, <2>5, <2>6
  <2>8. ExtractPortMarker(span) = read
    BY ONLY <1>1, <1>9, <2>7, PortEnded
  <2> QED BY <2>6, <2>8
<1>13. Span(text) = Len(span)
  <2>1. PICK sep : sep = ":"
    OBVIOUS
  <2>2. text = span \o (<<sep>> \o rest) /\ sep \in Symbols
    BY <1>1, <2>1, SlashIsSymbol
  <2>3. /\ text \in Seq(Symbols) /\ Len(text) = Len(span) + 1 + Len(rest) /\ Len(span) \in Nat /\ Len(rest) \in Nat
        /\ text[Len(span) + 1] = sep /\ \A n \in 1 .. Len(span) : text[n] = span[n]
    <3>1. span \in Seq(Symbols) /\ rest \in Seq(Symbols)
      BY <1>2, <1>10
    <3> QED BY ONLY <2>2, <3>1, PartAt
  <2>4. PICK k : k = Len(span) + 1
    OBVIOUS
  <2>5. k \in 1 .. Len(text) /\ text[k] = sep
    BY <2>3, <2>4
  <2>6. \A n \in 1 .. Len(text) : n < k => text[n] # sep
    <3> SUFFICES ASSUME NEW n \in 1 .. Len(text), n < k
                 PROVE  text[n] # sep
      OBVIOUS
    <3>1. n \in 1 .. Len(span)
      BY <2>3, <2>4
    <3> QED BY <1>11, <2>1, <2>3, <3>1
  <2>7. Find(text, sep) = k
    BY ONLY <2>3, <2>5, <2>6, FindFirst
  <2>8. text[1] # "["
    <3>1. 1 \in 1 .. Len(a) /\ 1 \in 1 .. Len(s) /\ 1 \in 1 .. Len(span)
      BY <1>3, <1>4, <1>10
    <3>2. text[1] = a[1]
      BY <1>3, <1>10, <2>3, <3>1
    <3> QED BY <1>7, <3>1, <3>2 DEF Letters, Digits
  <2>9. Span(text) = k - 1 /\ k - 1 = Len(span)
    <3>1. k # 0 /\ k - 1 = Len(span)
      BY <2>3, <2>4
    <3> QED BY <2>1, <2>7, <2>8, <3>1 DEF Span
  <2> QED BY <2>9
<1>14. Parse(text).host = Host(a)
  <2>1. PICK at : at = ExtractPortMarker(span)
    OBVIOUS
  <2>2. at.host = a
    BY <1>12, <2>1
  <2>3. text = span \o (<<":">> \o rest)
    BY <1>1
  <2>4. span \in Seq(Symbols) /\ Host(at.host) # NoHost /\ \A n \in 1 .. Len(span) : span[n] \notin Delimiters
    BY <1>10, <1>11, <2>2
  <2>5. ValidRest(rest)
    OBVIOUS
  <2>6. Parse(text).host = Host(at.host)
    BY ONLY <1>13, <2>1, <2>3, <2>4, <2>5, ParseOf
  <2> QED BY <2>2, <2>6
<1>15. Invalid.host = NoHost
  BY DEF Invalid
<1> QED BY <1>14, <1>15

(* What is in the grammar, or is but for its line's ends, is taken.        *)
LEMMA GrammarIsTaken ==
  ASSUME NEW text \in Seq(Symbols), InGrammarOfLines(text), DidAssumption
  PROVE  Parse(text) # Invalid
<1>1. PICK t : t = Line(text)
  OBVIOUS
<1>2. t \in Seq(Symbols) /\ (t = text \/ text = Append(t, "\n")) /\ OfParts(t, Ended)
  BY <1>1, LineEnds DEF InGrammarOfLines
<1>3. PICK a, b, c : /\ a \in Seq(Symbols) /\ b \in Seq(Symbols) /\ c \in Seq(Symbols)
                     /\ Ended(a, b) /\ IsPath(c)
                     /\ t = (a \o b) \o (c \o Ending)
  BY <1>2, GrammarParts
<1>4. a \in Seq(Symbols) /\ b \in Seq(Symbols) /\ c \in Seq(Symbols)
  BY <1>3
<1>5. PICK r : ValidRest(r) /\ ValidRest(Append(r, "\n")) /\ c \o Ending = <<":">> \o r
  BY <1>3, <1>4, RestGrammar
<1>6. PICK rest : ValidRest(rest) /\ text = (a \o b) \o (<<":">> \o rest)
  <2>1. CASE text = t
    BY <1>3, <1>5, <2>1
  <2>2. CASE text = Append(t, "\n")
    <3>1. PICK X, end, ab, s, sr : X = Symbols /\ end = <<"\n">> /\ ab = a \o b /\ s = <<":">> /\ sr = s \o r
      OBVIOUS
    <3>2. "\n" \in X /\ end \in Seq(X) /\ s \in Seq(X) /\ r \in Seq(X) /\ a \in Seq(X) /\ b \in Seq(X) /\ t \in Seq(X)
      BY <1>2, <1>4, <1>5, <3>1, SlashIsSymbol, Single DEF Symbols, ValidRest
    <3>3. ab \in Seq(X) /\ sr \in Seq(X)
      BY ONLY <3>1, <3>2, ConcatAt
    <3>4. Regroups(ab, sr, end) /\ Regroups(s, r, end)
      BY ONLY <3>2, <3>3, ConcatRegroups
    <3>5. Append(t, "\n") = t \o end /\ Append(r, "\n") = r \o end
      BY <3>1, <3>2, AppendIsConcat
    <3>6. t = ab \o sr
      BY <1>3, <1>5, <3>1
    <3>7. text = ab \o (s \o (r \o end))
      BY <2>2, <3>1, <3>4, <3>5, <3>6 DEF Regroups
    <3> QED BY <1>5, <3>1, <3>5, <3>7
  <2> QED BY <1>2, <2>1, <2>2
<1>7. rest \in Seq(Symbols)
  BY <1>6 DEF ValidRest
<1>8. Host(a) # NoHost
  BY <1>3, <1>4, HostGrammar, LinesHost DEF Ended
<1>9. CASE IsPort(b)
  <2>1. PICK port : PortText(b, port)
    BY <1>4, <1>9, PortOf
  <2>2. Laid(text, a, b, rest)
    BY <1>4, <1>6, <1>7, LaidOf
  <2>3. ReadAs(a, b, port, rest)
    BY <1>4, <1>6, <1>8, <2>1 DEF ReadAs
  <2>4. Parse(text).host = Host(a)
    BY <2>2, <2>3, ParseLaid
  <2>5. Invalid.host = NoHost
    BY DEF Invalid
  <2> QED BY <1>8, <2>4, <2>5
<1>10. CASE ~IsPort(b)
  <2>1. LdhHost(Line(a)) /\ IsPort(Line(b)) /\ b # <<"\n">>
    BY <1>3, <1>10 DEF Ended
  <2>2. PICK p : p = Line(b)
    OBVIOUS
  <2>3. p \in Seq(Symbols) /\ b = Append(p, "\n")
    BY <1>4, <1>10, <2>1, <2>2, LineEnds
  <2>4. p # <<>>
    <3>1. "\n" \in Symbols
      BY DEF Symbols
    <3>2. Append(p, "\n") = p \o <<"\n">> /\ <<"\n">> \in Seq(Symbols)
      BY <2>3, <3>1, AppendIsConcat, Single
    <3>3. <<>> \o <<"\n">> = <<"\n">>
      BY <3>2, ConcatEmptySeq
    <3> QED BY <2>1, <2>3, <3>2, <3>3
  <2>5. PICK port : PortText(p, port)
    BY <2>1, <2>2, <2>3, PortOf
  <2>6. Labelled(a)
    BY <1>4, <2>1, LinesHost
  <2>7. text = Append(a \o p, "\n") \o (<<":">> \o rest)
    <3>1. PICK X, end, ap : X = Symbols /\ end = <<"\n">> /\ ap = a \o p
      OBVIOUS
    <3>2. "\n" \in X /\ end \in Seq(X) /\ a \in Seq(X) /\ p \in Seq(X)
      BY <1>4, <2>3, <3>1 DEF Symbols
    <3>3. ap \in Seq(X)
      BY ONLY <3>1, <3>2, ConcatAt
    <3>4. Append(ap, "\n") = ap \o end /\ b = p \o end
      BY <2>3, <3>1, <3>2, <3>3, AppendIsConcat
    <3>5. Regroups(a, p, end)
      BY ONLY <3>2, ConcatRegroups
    <3> QED BY <1>6, <3>1, <3>4, <3>5 DEF Regroups
  <2> QED BY <1>4, <1>6, <1>8, <2>4, <2>5, <2>6, <2>7, EndedIsTaken
<1> QED BY <1>9, <1>10

InHandRefused == InHandRead /\ (Refused => raw \in Seq(Symbols) /\ Parse(raw) = Invalid)

LEMMA InHandRefusedNext ==
  DidAssumption /\ InHandRefused /\ [DidNext]_didVars => InHandRefused'
<1> SUFFICES ASSUME DidAssumption, InHandRefused, [DidNext]_didVars
             PROVE  InHandRefused'
  OBVIOUS
<1>0. InHandRead'
  BY InHandReadNext DEF InHandRefused
<1>1. CASE Give
  BY <1>0, <1>1 DEF Give, InHandRefused, Refused
<1>2. CASE Construct
  BY <1>0, <1>2 DEF Construct, InHandRefused, Refused
<1>3. CASE ParseText
  <2>1. /\ raw \in Seq(Symbols) /\ raw' = raw
        /\ stage' = IF Parse(raw) = Invalid THEN "invalid" ELSE "place"
    BY <1>3 DEF ParseText, InHandRefused, InHandRead
  <2> QED BY <1>0, <2>1 DEF InHandRefused, Refused
<1>4. CASE Place
  <2>1. stage' \in {"placed", "corrupt"}
    BY <1>4 DEF Place
  <2> QED BY <1>0, <2>1 DEF InHandRefused, Refused
<1>5. CASE Exit
  BY <1>0, <1>5 DEF Exit, InHandRefused, Refused
<1>6. CASE UNCHANGED didVars
  BY <1>0, <1>6 DEF didVars, InHandRefused, Refused
<1> QED BY <1>1, <1>2, <1>3, <1>4, <1>5, <1>6 DEF DidNext

LEMMA Accepts == DidAssumption /\ InHandRefused => AcceptsTheGrammar
<1> SUFFICES ASSUME DidAssumption, InHandRefused
             PROVE  /\ Parsed => InGrammarOfLines(raw)
                    /\ Refused => ~InGrammarOfLines(raw)
  BY DEF AcceptsTheGrammar
<1>1. Parsed => raw \in Seq(Symbols) /\ Parse(raw) # Invalid
  BY DEF InHandRefused, InHandRead
<1>2. Refused => raw \in Seq(Symbols) /\ Parse(raw) = Invalid
  BY DEF InHandRefused
<1> QED BY <1>1, <1>2, TakenIsInGrammar, GrammarIsTaken

(* A text is taken for a DID exactly if the ABNF and the RFCs have it, or  *)
(* have it but for one line's end behind a host of labels, one behind the  *)
(* port of such a host and one behind the AID (did.py, parse).             *)
THEOREM GrammarCorrect == DidSpec => []AcceptsTheGrammar
<1>1. DidAssumption
  BY DidAssumption
<1>2. DidInit => InHandRefused
  BY DEF DidInit, InHandRefused, InHandRead, Parsed, Refused
<1>3. InHandRefused /\ [DidNext]_didVars => InHandRefused'
  BY <1>1, InHandRefusedNext
<1>4. InHandRefused => AcceptsTheGrammar
  BY <1>1, Accepts
<1> QED BY <1>2, <1>3, <1>4, PTL DEF DidSpec

=============================================================================
