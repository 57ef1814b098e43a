----------------------------- MODULE WalkProofs -----------------------------
(***************************************************************************)
(* Theorems about Walk, for streams of any length: what passes the gate    *)
(* has been read to the last byte and under the versions announced for it, *)
(* and what is joined passes and is read back.                             *)
(***************************************************************************)
EXTENDS Walk, DataInduction

(***************************************************************************)
(* Parts and the residue.                                                  *)
(***************************************************************************)

LEMMA PartIs ==
  ASSUME NEW p \in Parts
  PROVE  /\ p \in MessageParts <=> IsMessage(p)
         /\ ~(IsMessage(p) /\ IsCounter(p))
         /\ IsMessage(p) => /\ p.v \in {1, 2} /\ p.json \in BOOLEAN
                            /\ p.attached \in {"none", "one", "nested", "grouped", "cut"}
         /\ IsCounter(p) => p.v \in {1, 2}
         /\ p = Junk => ~IsMessage(p) /\ ~IsCounter(p)
<1>1. CASE p \in {Counter(1), Counter(2)}
  <2>1. p.part = "counter" /\ p.v \in {1, 2} /\ p # Junk
    BY <1>1 DEF Counter, Junk
  <2>2. p \notin MessageParts
    <3> SUFFICES ASSUME p \in MessageParts
                 PROVE  FALSE
      OBVIOUS
    <3>1. p.part = "message"
      BY DEF MessageParts, Message
    <3> QED BY <2>1, <3>1
  <2> QED BY <2>1, <2>2 DEF IsMessage, IsCounter
<1>2. CASE p = Junk
  <2>1. p.part = "junk"
    BY <1>2 DEF Junk
  <2>2. p \notin MessageParts
    <3> SUFFICES ASSUME p \in MessageParts
                 PROVE  FALSE
      OBVIOUS
    <3>1. p.part = "message"
      BY DEF MessageParts, Message
    <3> QED BY <2>1, <3>1
  <2> QED BY <2>1, <2>2 DEF IsMessage, IsCounter
<1>3. CASE p \in MessageParts
  <2>1. PICK v \in 1 .. 2, json \in BOOLEAN,
             attached \in {"none", "one", "nested", "grouped", "cut"} :
               p = [part |-> "message", v |-> v, json |-> json, attached |-> attached]
    BY <1>3 DEF MessageParts, Message
  <2>2. p.part = "message" /\ p.v = v /\ p.json = json /\ p.attached = attached
    BY <2>1
  <2>3. Junk.part = "junk"
    BY DEF Junk
  <2> QED BY <1>3, <2>2, <2>3 DEF IsMessage, IsCounter
<1> QED BY <1>1, <1>2, <1>3 DEF Parts

Located == stream \in Seq(Parts) /\ at \in 0 .. Len(stream)

LEMMA ResidueIs ==
  ASSUME Located
  PROVE  /\ Residue \in Seq(Parts) /\ Len(Residue) = Len(stream) - at
         /\ \A i \in 1 .. Len(stream) - at : Residue[i] = stream[at + i]
         /\ DOMAIN Residue = 1 .. Len(stream) - at
         /\ Len(stream) \in Nat /\ at \in Nat
<1>1. Len(stream) \in Nat /\ at \in Nat /\ at <= Len(stream)
  BY LenProperties DEF Located
<1>2. at + 1 \in 1 .. Len(stream) + 1 /\ Len(stream) \in at .. Len(stream)
  BY <1>1
<1>3. /\ Residue \in Seq(Parts)
      /\ Len(Residue) = IF at + 1 <= Len(stream) THEN Len(stream) - (at + 1) + 1 ELSE 0
      /\ \A i \in 1 .. Len(stream) - (at + 1) + 1 : Residue[i] = stream[at + 1 + i - 1]
  BY <1>1, <1>2, SubSeqProperties DEF Located, Residue
<1>4. Len(Residue) = Len(stream) - at /\ Len(stream) - (at + 1) + 1 = Len(stream) - at
  BY <1>1, <1>3
<1>5. ASSUME NEW i \in 1 .. Len(stream) - at
      PROVE  Residue[i] = stream[at + i]
  <2>1. i \in 1 .. Len(stream) - (at + 1) + 1 /\ at + 1 + i - 1 = at + i
    BY <1>1, <1>4
  <2> QED BY <1>3, <2>1
<1> QED BY <1>1, <1>3, <1>4, <1>5, LenProperties

LEMMA LeadingIs ==
  ASSUME Located
  PROVE  /\ Leading \in 0 .. Len(stream) - at
         /\ \A k \in 1 .. Leading : IsCounter(stream[at + k])
         /\ Leading < Len(stream) - at => ~IsCounter(stream[at + Leading + 1])
         /\ ReadUnder = IF Leading = 0 THEN genus ELSE stream[at + Leading].v
<1> DEFINE L == {n \in DOMAIN Residue : \A k \in 1 .. n : IsCounter(Residue[k])}
           len == Len(stream) - at
<1>1. len \in Nat /\ DOMAIN Residue = 1 .. len /\ \A i \in 1 .. len : Residue[i] = stream[at + i]
  BY ResidueIs DEF Located
<1> HIDE DEF len
<1>2. L \in SUBSET (1 .. len) /\ \A n \in L : \A k \in 1 .. n : k \in L
  <2>1. ASSUME NEW n \in L, NEW k \in 1 .. n
        PROVE  k \in L
    <3>1. k \in 1 .. len /\ \A j \in 1 .. k : j \in 1 .. n
      BY <1>1
    <3> QED BY <1>1, <3>1
  <2> QED BY <1>1, <2>1
<1>3. Leading = Cardinality(L)
  BY DEF Leading
<1> HIDE DEF L
<1>4. Leading \in 0 .. len /\ L = 1 .. Leading
  BY <1>1, <1>2, <1>3, FirstNumbers
<1>5. \A k \in 1 .. Leading : k \in 1 .. len /\ IsCounter(Residue[k])
  BY <1>1, <1>4 DEF L
<1>6. ASSUME Leading < len, IsCounter(Residue[Leading + 1])
      PROVE  FALSE
  <2>1. Leading + 1 \in 1 .. len /\ \A k \in 1 .. Leading + 1 : k \in 1 .. Leading \/ k = Leading + 1
    BY <1>1, <1>4, <1>6
  <2>2. Leading + 1 \in L
    BY <1>1, <1>5, <1>6, <2>1 DEF L
  <2> QED BY <1>4, <2>2
<1>7. Leading < len => ~IsCounter(stream[at + Leading + 1])
  <2>1. Leading < len => Leading + 1 \in 1 .. len /\ at + (Leading + 1) = at + Leading + 1
    BY <1>1, <1>4 DEF Located
  <2> QED BY <1>1, <1>6, <2>1
<1>8. Leading # 0 => Leading \in 1 .. len
  BY <1>1, <1>4
<1> QED BY <1>1, <1>4, <1>5, <1>7, <1>8 DEF len, ReadUnder

(* What keripy's extractor makes of the residue, when it makes a message.  *)
LEMMA Extracted ==
  ASSUME Located, "done" \in Extraction
  PROVE  LET p == at + Leading + 1 IN
           /\ p \in at + 1 .. Len(stream) /\ Residue[Leading + 1] = stream[p]
           /\ IsMessage(stream[p]) /\ stream[p].attached # "cut"
<1>1. Leading # Len(Residue) /\ IsMessage(Residue[Leading + 1])
  BY DEF Extraction
<1>2. Leading \in 0 .. Len(stream) - at /\ Len(Residue) = Len(stream) - at
      /\ Len(stream) \in Nat /\ at \in Nat
  BY ResidueIs, LeadingIs
<1>3. Leading + 1 \in 1 .. Len(stream) - at /\ at + Leading + 1 \in at + 1 .. Len(stream)
      /\ at + (Leading + 1) = at + Leading + 1
  BY <1>1, <1>2
<1>4. Residue[Leading + 1] = stream[at + Leading + 1]
  BY <1>3, ResidueIs
<1>5. Residue[Leading + 1].attached # "cut"
  BY <1>1 DEF Extraction
<1> QED BY <1>1, <1>3, <1>4, <1>5

(***************************************************************************)
(* The genus announced.                                                    *)
(***************************************************************************)

LEMMA AnnouncedBy ==
  ASSUME NEW place \in Nat, NEW c \in 1 .. place, IsCounter(stream[c]),
         \A k \in c + 1 .. place : ~IsCounter(stream[k])
  PROVE  Announced(place) = stream[c].v
<1> DEFINE before == {n \in 1 .. place : IsCounter(stream[n])}
           last == CHOOSE n \in before : \A k \in before : k <= n
<1>1. c \in before /\ \A k \in before : k <= c
  <2>1. \A k \in before : ~(k > c)
    BY DEF before
  <2> QED BY <2>1
<1>2. last \in before /\ \A k \in before : k <= last
  BY <1>1
<1>3. last = c
  BY <1>1, <1>2
<1>4. Announced(place) = IF before = {} THEN 1 ELSE stream[last].v
  BY DEF Announced
<1> QED BY <1>1, <1>3, <1>4

LEMMA AnnouncedOn ==
  ASSUME NEW place \in Nat, ~IsCounter(stream[place + 1])
  PROVE  Announced(place + 1) = Announced(place)
<1> DEFINE CountersTo(q) == {n \in 1 .. q : IsCounter(stream[n])}
           Version(S) == IF S = {} THEN 1 ELSE stream[CHOOSE n \in S : \A k \in S : k <= n].v
<1>1. CountersTo(place + 1) = CountersTo(place)
  OBVIOUS
<1>2. Announced(place + 1) = Version(CountersTo(place + 1)) /\ Announced(place) = Version(CountersTo(place))
  BY DEF Announced
<1> HIDE DEF CountersTo, Version
<1> QED BY <1>1, <1>2

LEMMA AnnouncedFirst == ~IsCounter(stream[1]) => Announced(1) = 1
<1>1. \A n \in 1 .. 1 : n = 1
  OBVIOUS
<1>2. ~IsCounter(stream[1]) => {n \in 1 .. 1 : IsCounter(stream[n])} = {}
  BY <1>1
<1> QED BY <1>2 DEF Announced

(***************************************************************************)
(* The invariant of the walk.                                              *)
(***************************************************************************)

(* Up to where the walk has read, every message has its frame, in order,   *)
(* and nothing but messages with an account of their own and counters has  *)
(* been passed.                                                            *)
Accounted ==
  /\ \A n \in 1 .. at : \/ IsCounter(stream[n])
                        \/ IsMessage(stream[n]) /\ stream[n].attached \in {"none", "one"}
  /\ {frames[n].place : n \in DOMAIN frames} = {n \in 1 .. at : IsMessage(stream[n])}
  /\ \A n \in 1 .. Len(frames) - 1 : frames[n].place < frames[n + 1].place

(* Frames have the genus announced for them, and the next one will.        *)
GenusSound ==
  /\ \A n \in DOMAIN frames : frames[n].genus = Announced(frames[n].place)
  /\ at = 0 => genus = 1 \/ stream = <<>> \/ IsCounter(stream[1])
  /\ at \in 1 .. Len(stream) - 1 => genus = Announced(at)

WalkInv ==
  /\ Located
  /\ frames \in Seq([place : Nat, genus : {1, 2}])
  /\ genus \in {1, 2} /\ failure \in {"none", "format", "serialization"}
  /\ Accounted /\ GenusSound
  /\ verdict = "supported" =>
       /\ failure = "none" /\ at = Len(stream)
       /\ \A n \in DOMAIN frames : Body(frames[n]).v = frames[n].genus

(* What the extractor reads a message under is what is announced for it.   *)
LEMMA ReadAsAnnounced ==
  ASSUME WalkInv, "done" \in Extraction
  PROVE  ReadUnder = Announced(at + Leading + 1) /\ ReadUnder \in {1, 2}
<1> DEFINE p == at + Leading + 1
<1>1. p \in at + 1 .. Len(stream) /\ IsMessage(stream[p]) /\ Located
  BY Extracted DEF WalkInv
<1>2. Leading \in Nat /\ at \in Nat /\ Len(stream) \in Nat
  BY <1>1, LeadingIs, ResidueIs
<1>3. stream[p] \in Parts /\ ~IsCounter(stream[p])
  <2>1. p \in 1 .. Len(stream)
    BY <1>1, <1>2
  <2> QED BY <1>1, <2>1, PartIs DEF Located
<1>4. CASE Leading = 0
  <2>1. ReadUnder = genus /\ p = at + 1 /\ genus \in {1, 2}
    BY <1>1, <1>2, <1>4, LeadingIs DEF WalkInv
  <2>2. CASE at = 0
    <3>1. stream # <<>>
      BY <1>1, <1>2
    <3> QED BY <1>3, <2>1, <2>2, <3>1, AnnouncedFirst DEF WalkInv, GenusSound
  <2>3. CASE at # 0
    <3>1. at \in 1 .. Len(stream) - 1
      BY <1>1, <1>2, <2>1, <2>3
    <3> QED BY <1>2, <1>3, <2>1, <3>1, AnnouncedOn DEF WalkInv, GenusSound
  <2> QED BY <2>2, <2>3
<1>5. CASE Leading # 0
  <2> DEFINE c == at + Leading
  <2>1. c \in 1 .. p /\ Leading \in 1 .. Leading /\ p \in Nat /\ c \in 1 .. Len(stream)
        /\ \A k \in c + 1 .. p : k = p
    BY <1>1, <1>2, <1>5
  <2>2. IsCounter(stream[c]) /\ ReadUnder = stream[c].v
    BY <1>1, <1>5, <2>1, LeadingIs
  <2>3. stream[c].v \in {1, 2}
    BY <1>1, <2>1, <2>2, PartIs DEF Located
  <2>4. Announced(p) = stream[c].v
    <3> HIDE DEF c, p
    <3> QED BY <1>3, <2>1, <2>2, AnnouncedBy
  <2> QED BY <2>2, <2>3, <2>4
<1> QED BY <1>4, <1>5

(* A frame for the message at p, with nothing but counters before it.      *)
LEMMA Framed ==
  ASSUME WalkInv, NEW p \in at + 1 .. Len(stream), NEW v \in {1, 2},
         frames' = Append(frames, [place |-> p, genus |-> v]), at' = p,
         IsMessage(stream[p]), stream[p].attached \in {"none", "one"},
         \A k \in at + 1 .. p - 1 : IsCounter(stream[k]),
         v = Announced(p),
         genus' \in {1, 2}, p < Len(stream) => genus' = v,
         UNCHANGED <<stream, failure, verdict>>, verdict = "none"
  PROVE  WalkInv'
<1> DEFINE Frames == [place : Nat, genus : {1, 2}]
           frame == [place |-> p, genus |-> v]
           n == Len(frames)
<1>1. Located /\ at \in Nat /\ Len(stream) \in Nat /\ p \in Nat /\ p \in 1 .. Len(stream)
      /\ frame \in Frames
  BY ResidueIs DEF WalkInv
<1>2. /\ frames' \in Seq(Frames) /\ n \in Nat /\ Len(frames') = n + 1 /\ DOMAIN frames = 1 .. n
      /\ DOMAIN frames' = 1 .. n + 1 /\ frames'[n + 1] = frame
      /\ \A i \in 1 .. n : frames'[i] = frames[i] /\ frames[i] \in Frames
  <2>1. frames' = Append(frames, frame) /\ frame \in Frames /\ frames \in Seq(Frames)
    BY <1>1 DEF WalkInv
  <2> HIDE DEF Frames, frame
  <2>2. /\ frames' \in Seq(Frames) /\ n \in Nat /\ Len(frames') = n + 1 /\ DOMAIN frames = 1 .. n
        /\ \A i \in 1 .. n : frames[i] \in Frames
    BY <2>1, AppendProperties, LenProperties
  <2>3. DOMAIN frames' = 1 .. n + 1
    BY <2>2, LenProperties
  <2>4. frames'[n + 1] = frame
    BY <2>1, <2>2, AppendProperties
  <2>5. \A i \in 1 .. n : frames'[i] = frames[i]
    BY <2>1, AppendProperties
  <2> QED BY <2>2, <2>3, <2>4, <2>5
<1>3. frame.place = p /\ frame.genus = v
  BY DEF frame
<1> HIDE DEF n, frame
<1>4. \A i \in 1 .. n : frames[i].place \in 1 .. at
  BY <1>2 DEF WalkInv, Accounted
<1>5. Accounted'
  <2>1. ASSUME NEW k \in 1 .. at'
        PROVE  (\/ IsCounter(stream[k])
                \/ IsMessage(stream[k]) /\ stream[k].attached \in {"none", "one"})
    <3>1. k \in 1 .. at \/ k \in at + 1 .. p - 1 \/ k = p
      BY <1>1
    <3> QED BY <3>1 DEF WalkInv, Accounted
  <2>2. {frames'[i].place : i \in DOMAIN frames'} = {k \in 1 .. at' : IsMessage(stream[k])}
    <3>1. {frames'[i].place : i \in DOMAIN frames'}
            = {frames[i].place : i \in 1 .. n} \cup {p}
      <4>1. \A i \in 1 .. n + 1 : i \in 1 .. n \/ i = n + 1
        BY <1>2
      <4>2. \A i \in 1 .. n : i \in 1 .. n + 1 /\ n + 1 \in 1 .. n + 1
        BY <1>2
      <4>3. n + 1 \in 1 .. n + 1
        BY <1>2
      <4>4. ASSUME NEW x \in {frames'[i].place : i \in 1 .. n + 1}
            PROVE  x \in {frames[i].place : i \in 1 .. n} \cup {p}
        BY <1>2, <1>3, <4>1
      <4>5. ASSUME NEW x \in {frames[i].place : i \in 1 .. n} \cup {p}
            PROVE  x \in {frames'[i].place : i \in 1 .. n + 1}
        BY <1>2, <1>3, <4>2, <4>3
      <4> QED BY <1>2, <4>4, <4>5
    <3>2. {k \in 1 .. p : IsMessage(stream[k])} = {k \in 1 .. at : IsMessage(stream[k])} \cup {p}
      <4>1. \A k \in at + 1 .. p - 1 : ~IsMessage(stream[k])
        BY <1>1, PartIs DEF Located
      <4>2. \A k \in 1 .. p : k \in 1 .. at \/ k \in at + 1 .. p - 1 \/ k = p
        BY <1>1
      <4>3. \A k \in 1 .. at : k \in 1 .. p
        BY <1>1
      <4> QED BY <1>1, <4>1, <4>2, <4>3
    <3> QED BY <1>2, <3>1, <3>2 DEF WalkInv, Accounted
  <2>3. ASSUME NEW i \in 1 .. Len(frames') - 1
        PROVE  frames'[i].place < frames'[i + 1].place
    <3>1. i \in 1 .. n
      BY <1>2
    <3>2. CASE i = n
      BY <1>1, <1>2, <1>3, <1>4, <3>1, <3>2
    <3>3. CASE i # n
      <4>1. i \in 1 .. n - 1 /\ i \in 1 .. n /\ i + 1 \in 1 .. n
        BY <1>2, <3>1, <3>3
      <4>2. i \in 1 .. Len(frames) - 1
        BY <4>1 DEF n
      <4> QED BY <1>2, <4>1, <4>2 DEF WalkInv, Accounted
    <3> QED BY <3>2, <3>3
  <2> QED BY <2>1, <2>2, <2>3 DEF Accounted
<1>6. GenusSound'
  <2>1. \A q : Announced(q)' = Announced(q)
    BY DEF Announced
  <2>2. \A i \in 1 .. n + 1 : frames'[i].genus = Announced(frames'[i].place)
    BY <1>2, <1>3 DEF WalkInv, GenusSound
  <2>3. at' # 0 /\ (at' \in 1 .. Len(stream) - 1 => genus' = Announced(at'))
    BY <1>1
  <2> QED BY <1>2, <2>1, <2>2, <2>3 DEF GenusSound
<1>7. Located'
  BY <1>1 DEF Located
<1> QED BY <1>2, <1>5, <1>6, <1>7 DEF WalkInv

(***************************************************************************)
(* What is joined.                                                         *)
(***************************************************************************)

LEMMA JoinedAre ==
  ASSUME NEW s \in Published
  PROVE  /\ Len(s) \in Nat /\ DOMAIN s = 1 .. Len(s)
         /\ \A n \in 1 .. Len(s) :
              /\ s[n] \in Parts /\ IsMessage(s[n]) /\ ~IsCounter(s[n])
              /\ s[n].v \in {1, 2} /\ s[n].json /\ s[n].attached \in {"none", "one"}
         /\ \A j, k \in 1 .. Len(s) : j <= k /\ Bare(s[j]) => s[k].v = 2
<1> DEFINE Joinable == {m \in MessageParts : m.json /\ m.attached \in {"none", "one"}}
<1>1. s \in Seq(Joinable) /\ \A j, k \in DOMAIN s : j <= k /\ Bare(s[j]) => s[k].v = 2
  BY WalkAssumption
<1> HIDE DEF Joinable
<1>2. Len(s) \in Nat /\ DOMAIN s = 1 .. Len(s) /\ \A n \in 1 .. Len(s) : s[n] \in Joinable
  BY <1>1, LenProperties
<1>3. ASSUME NEW n \in 1 .. Len(s)
      PROVE  /\ s[n] \in Parts /\ IsMessage(s[n]) /\ ~IsCounter(s[n])
             /\ s[n].v \in {1, 2} /\ s[n].json /\ s[n].attached \in {"none", "one"}
  <2>1. s[n] \in MessageParts /\ s[n].json /\ s[n].attached \in {"none", "one"}
    BY <1>2 DEF Joinable
  <2>2. s[n] \in Parts
    BY <2>1 DEF Parts
  <2> QED BY <2>1, <2>2, PartIs
<1> QED BY <1>1, <1>2, <1>3

LEMMA AnnouncingIs ==
  ASSUME NEW s \in Published, NEW n \in 1 .. Len(s)
  PROVE  /\ Announcing(s, n) \in Seq(Parts)
         /\ s[n].v = Before(s, n) =>
              Len(Announcing(s, n)) = 1 /\ Announcing(s, n)[1] = s[n]
         /\ s[n].v # Before(s, n) =>
              /\ Len(Announcing(s, n)) = 2
              /\ Announcing(s, n)[1] = Counter(s[n].v) /\ Announcing(s, n)[2] = s[n]
<1>1. s[n] \in Parts /\ Counter(s[n].v) \in Parts
  BY JoinedAre DEF Parts
<1>2. CASE s[n].v = Before(s, n)
  <2>1. Announcing(s, n) = <<s[n]>>
    BY <1>2 DEF Announcing
  <2> QED BY <1>1, <1>2, <2>1
<1>3. CASE s[n].v # Before(s, n)
  <2>1. PICK c : c = Counter(s[n].v)
    OBVIOUS
  <2>2. Announcing(s, n) = <<c, s[n]>> /\ c \in Parts
    BY <1>1, <1>3, <2>1 DEF Announcing
  <2> QED BY <1>1, <1>3, <2>1, <2>2
<1> QED BY <1>2, <1>3

(* Where each message of what is joined, with its counter if any, ends.    *)
LaidOut(ends, s, t) == Layout(ends, [n \in DOMAIN s |-> Announcing(s, n)], t)

LEMMA RunsAre ==
  ASSUME NEW s \in Published
  PROVE  Runs(s) \in Seq(Parts) /\ \E ends : LaidOut(ends, s, Runs(s))
<1> DEFINE T == [n \in DOMAIN s |-> Announcing(s, n)]
<1>1. Len(s) \in Nat /\ DOMAIN s = 1 .. Len(s)
  BY JoinedAre
<1>2. \A n \in 1 .. Len(s) : Announcing(s, n) \in Seq(Parts)
  BY AnnouncingIs
<1>3. T \in Seq(Seq(Parts)) /\ Runs(s) = FlattenSeq(T)
  BY <1>1, <1>2 DEF Runs
<1> HIDE DEF T
<1>4. FlattenSeq(T) \in Seq(Parts) /\ \E ends : Layout(ends, T, FlattenSeq(T))
  BY <1>3, RangeOfFlatten, FlattenLayout
<1> QED BY <1>3, <1>4 DEF LaidOut, T

LEMMA LaidOutIs ==
  ASSUME NEW s \in Published, NEW ends, NEW t \in Seq(Parts), LaidOut(ends, s, t)
  PROVE  /\ ends[0] = 0 /\ ends[Len(s)] = Len(t) /\ ends \in [0 .. Len(s) -> Nat]
         /\ \A n \in 1 .. Len(s) :
              /\ ends[n] <= Len(t)
              /\ ends[n] = ends[n - 1] + (IF s[n].v = Before(s, n) THEN 1 ELSE 2)
              /\ t[ends[n]] = s[n]
              /\ s[n].v # Before(s, n) => t[ends[n - 1] + 1] = Counter(s[n].v)
<1> DEFINE T == [n \in DOMAIN s |-> Announcing(s, n)]
<1>1. Len(s) \in Nat /\ DOMAIN s = 1 .. Len(s)
  BY JoinedAre
<1>2. Len(T) = Len(s) /\ \A n \in 1 .. Len(s) : T[n] = Announcing(s, n)
  BY <1>1
<1>3. Layout(ends, T, t)
  BY DEF LaidOut
<1> HIDE DEF T
<1>4. ASSUME NEW n \in 1 .. Len(s)
      PROVE  /\ ends[n] <= Len(t)
             /\ ends[n] = ends[n - 1] + (IF s[n].v = Before(s, n) THEN 1 ELSE 2)
             /\ t[ends[n]] = s[n]
             /\ s[n].v # Before(s, n) => t[ends[n - 1] + 1] = Counter(s[n].v)
  <2>1. PICK a : a = Announcing(s, n)
    OBVIOUS
  <2>2. /\ ends[n] = ends[n - 1] + Len(a) /\ ends[n] <= Len(t)
        /\ \A i \in 1 .. Len(a) : t[ends[n - 1] + i] = a[i]
    BY <1>2, <1>3, <2>1 DEF Layout
  <2>3. s[n].v = Before(s, n) => Len(a) = 1 /\ a[1] = s[n]
    BY <2>1, AnnouncingIs
  <2>4. s[n].v # Before(s, n) => Len(a) = 2 /\ a[1] = Counter(s[n].v) /\ a[2] = s[n]
    BY <2>1, AnnouncingIs
  <2>5. CASE s[n].v = Before(s, n)
    <3>0. Len(a) = 1
      BY <2>3, <2>5
    <3>1. 1 \in 1 .. Len(a)
      BY <3>0
    <3>2. ends[n] = ends[n - 1] + 1 /\ ends[n] <= Len(t) /\ t[ends[n - 1] + 1] = a[1]
      BY <2>2, <2>3, <2>5, <3>1
    <3>3. t[ends[n]] = s[n]
      BY <2>3, <2>5, <3>2
    <3> QED BY <2>5, <3>2, <3>3
  <2>6. CASE s[n].v # Before(s, n)
    <3>1. 1 \in 1 .. Len(a) /\ 2 \in 1 .. Len(a)
      BY <2>4, <2>6
    <3>2. /\ ends[n] = ends[n - 1] + 2 /\ ends[n] <= Len(t)
          /\ t[ends[n - 1] + 1] = a[1] /\ t[ends[n - 1] + 2] = a[2]
      BY <2>2, <2>4, <2>6, <3>1
    <3>3. t[ends[n]] = s[n] /\ t[ends[n - 1] + 1] = Counter(s[n].v)
      BY <2>4, <2>6, <3>2
    <3> QED BY <2>6, <3>2, <3>3
  <2> QED BY <2>5, <2>6
<1> QED BY <1>2, <1>3, <1>4 DEF Layout

(* What is joined opens with a counter, unless all of it is of version 1.  *)
LEMMA JoinedOpens ==
  ASSUME NEW s \in Published, s # <<>>
  PROVE  /\ Runs(s) # <<>>
         /\ s[1].v # Before(s, 1) => Runs(s)[1] = Counter(s[1].v)
         /\ s[1].v = Before(s, 1) => /\ Runs(s)[1] = s[1]
                                     /\ \A n \in DOMAIN s : s[n].v = 1
<1>1. Len(s) \in Nat /\ DOMAIN s = 1 .. Len(s) /\ 1 \in 1 .. Len(s)
      /\ \A n \in 1 .. Len(s) : s[n].v \in {1, 2}
  <2>1. s \in Seq({m \in MessageParts : m.json /\ m.attached \in {"none", "one"}})
    BY WalkAssumption
  <2>2. Len(s) # 0
    BY <2>1, EmptySeq
  <2> QED BY <2>2, JoinedAre
<1>2. PICK t : t = Runs(s)
  OBVIOUS
<1>3. t \in Seq(Parts)
  BY <1>2, RunsAre
<1>4. PICK ends : LaidOut(ends, s, t)
  BY <1>2, RunsAre
<1>5. /\ ends[0] = 0 /\ ends[1] <= Len(t)
      /\ ends[1] = ends[1 - 1] + (IF s[1].v = Before(s, 1) THEN 1 ELSE 2)
      /\ t[ends[1]] = s[1] /\ (s[1].v # Before(s, 1) => t[ends[1 - 1] + 1] = Counter(s[1].v))
  BY <1>1, <1>3, <1>4, LaidOutIs
<1>6. ends[1 - 1] = 0 /\ t # <<>>
  BY <1>5
<1>7. s[1].v = Before(s, 1) => \A n \in DOMAIN s : s[n].v = 1
  <2> SUFFICES ASSUME s[1].v = Before(s, 1)
               PROVE  \A n \in DOMAIN s : s[n].v = 1
    OBVIOUS
  <2>1. s[1].v = StartsIn(Mixed(s)) /\ s[1].v # 0
    BY <1>1 DEF Before
  <2>2. ~Mixed(s) /\ s[1].v = 1
    BY <2>1 DEF StartsIn
  <2> QED BY <1>1, <2>2 DEF Mixed
<1> QED BY <1>2, <1>5, <1>6, <1>7

(***************************************************************************)
(* What passes has been read, and as announced.                            *)
(***************************************************************************)

LEMMA WalkInit == Init => WalkInv
<1> SUFFICES ASSUME Init
             PROVE  WalkInv
  OBVIOUS
<1>0. pieces # <<>> => pieces \in Published /\ stream = Runs(pieces)
  BY DEF Init
<1>1. stream \in Seq(Parts)
  BY WalkAssumption, RunsAre DEF Init
<1>2. Located /\ Len(stream) \in Nat /\ at = 0
  BY <1>1, LenProperties DEF Init, Located
<1>3. genus \in {1, 2} /\ frames = <<>> /\ failure = "none" /\ verdict = "none"
  BY DEF Init, Opens
<1>4. genus = 1 \/ stream = <<>> \/ IsCounter(stream[1])
  <2>1. opening = 2 => IsCounter(stream[1])
    BY DEF Init, Opens, IsCounter, Counter
  <2>2. ASSUME NEW n \in DOMAIN pieces, pieces[n].v = 2
        PROVE  IsCounter(stream[1])
    <3>1. pieces # <<>>
      OBVIOUS
    <3>2. pieces[1].v # Before(pieces, 1)
      BY <1>0, <2>2, <3>1, JoinedOpens
    <3>3. stream[1] = Counter(pieces[1].v)
      BY <1>0, <3>1, <3>2, JoinedOpens
    <3> QED BY <3>3 DEF Counter, IsCounter
  <2> QED BY <1>3, <2>1, <2>2 DEF Init
<1>5. Accounted
  BY <1>2, <1>3 DEF Accounted
<1>6. GenusSound
  BY <1>2, <1>3, <1>4 DEF GenusSound
<1> QED BY <1>2, <1>3, <1>5, <1>6 DEF WalkInv

(* A step that reads nothing more leaves what it has read as it was.       *)
LEMMA NothingRead ==
  ASSUME WalkInv, UNCHANGED <<stream, genus, at, frames>>,
         failure' \in {"none", "format", "serialization"},
         verdict' = "supported" =>
           /\ failure' = "none" /\ at = Len(stream)
           /\ \A n \in DOMAIN frames : Body(frames[n]).v = frames[n].genus
  PROVE  WalkInv'
<1>1. Located' /\ Accounted'
  BY DEF WalkInv, Located, Accounted
<1>2. GenusSound'
  <2>1. \A q : Announced(q)' = Announced(q)
    BY DEF Announced
  <2> QED BY <2>1 DEF WalkInv, GenusSound
<1>3. \A n \in DOMAIN frames : Body(frames[n])' = Body(frames[n])
  BY DEF Body
<1> QED BY <1>1, <1>2, <1>3 DEF WalkInv

LEMMA WalkNext == WalkInv /\ [Next]_vars => WalkInv'
<1> SUFFICES ASSUME WalkInv, [Next]_vars
             PROVE  WalkInv'
  OBVIOUS
<1>0. failure \in {"none", "format", "serialization"} /\ Located
  BY DEF WalkInv
<1>1. CASE Extract
  <2> DEFINE p == at + Leading + 1
             v == ReadUnder
  <2>1. /\ p \in at + 1 .. Len(stream) /\ Residue[Leading + 1] = stream[p]
        /\ IsMessage(stream[p]) /\ stream[p].attached # "cut"
    BY <1>0, <1>1, Extracted DEF Extract
  <2>2. Leading \in Nat /\ at \in Nat /\ Len(stream) \in Nat
    BY <1>0, LeadingIs, ResidueIs
  <2>3. stream[p].attached \in {"none", "one"}
    <3>1. p \in 1 .. Len(stream) /\ stream[p] \in Parts
      BY <1>0, <2>1, <2>2 DEF Located
    <3>2. stream[p].attached \in {"none", "one", "nested", "grouped", "cut"}
      BY <2>1, <3>1, PartIs
    <3>3. ~Unaccountable(stream[p])
      BY <1>1, <2>1 DEF Extract
    <3> QED BY <2>1, <3>2, <3>3 DEF Unaccountable
  <2>4. \A k \in at + 1 .. p - 1 : IsCounter(stream[k])
    <3> SUFFICES ASSUME NEW k \in at + 1 .. p - 1
                 PROVE  IsCounter(stream[k])
      OBVIOUS
    <3>1. k - at \in 1 .. Leading /\ at + (k - at) = k
      BY <2>2
    <3> QED BY <1>0, <3>1, LeadingIs
  <2>5. v = Announced(p) /\ v \in {1, 2}
    BY <1>1, ReadAsAnnounced DEF Extract
  <2>6. /\ frames' = Append(frames, [place |-> p, genus |-> v]) /\ at' = p /\ genus' = v
        /\ UNCHANGED <<stream, failure, verdict>> /\ verdict = "none"
    BY <1>1 DEF Extract, KeptGenus, Walking
  <2> HIDE DEF p, v
  <2> QED BY <2>1, <2>3, <2>4, <2>5, <2>6, Framed
<1>2. CASE ExtractUnaccountable
  BY <1>2, NothingRead DEF ExtractUnaccountable, Fails, Walking
<1>3. CASE ExtractRaises
  BY <1>3, NothingRead DEF ExtractRaises, Fails, Walking, Classified
<1>4. CASE Final
  <2> DEFINE p == Len(stream)
  <2>1. at \in Nat /\ p \in Nat /\ at < p /\ p \in at + 1 .. p /\ p \in 1 .. p
    BY <1>0, <1>4, ResidueIs DEF Final, Walking
  <2>2. /\ Residue \in Seq(Parts) /\ Len(Residue) = p - at
        /\ \A i \in 1 .. p - at : Residue[i] = stream[at + i]
    BY <1>0, ResidueIs
  <2>3. /\ IsMessage(stream[p]) /\ stream[p].attached = "none"
        /\ \A k \in at + 1 .. p - 1 : IsCounter(stream[k])
        /\ 2 = Announced(p)
    <3>1. 1 \in 1 .. p - at
      BY <2>1
    <3>2. CASE Residue[1] = Counter(2)
      <4>1. FinalBody = Tail(Residue) /\ Len(Tail(Residue)) = 1
            /\ IsMessage(Tail(Residue)[1]) /\ Tail(Residue)[1].attached = "none"
        BY <1>4, <3>2 DEF Final, IsFinalFrame, FinalBody
      <4>2. Residue # <<>>
        BY <2>1, <2>2
      <4>3. Len(Residue) = 2 /\ Tail(Residue)[1] = Residue[2]
        <5>1. PICK s \in Seq(Parts) : s = Residue
          BY <2>2
        <5>2. /\ Len(s) \in Nat /\ Len(Tail(s)) = Len(s) - 1
              /\ \A i \in 1 .. Len(Tail(s)) : Tail(s)[i] = s[i + 1]
          BY <4>2, <5>1, HeadTailProperties
        <5>3. Len(Tail(s)) = 1 /\ 1 \in 1 .. 1
          BY <4>1, <5>1
        <5>4. Len(s) = 2 /\ Tail(s)[1] = s[2]
          BY <5>2, <5>3
        <5> QED BY <5>1, <5>4
      <4>4. p = at + 2 /\ 2 \in 1 .. p - at /\ \A k \in at + 1 .. p - 1 : k = at + 1
        <5>1. p - at = 2
          BY <2>2, <4>3
        <5> HIDE DEF p
        <5> QED BY <2>1, <5>1
      <4>5. stream[p] = Residue[2] /\ stream[at + 1] = Counter(2)
        BY <2>2, <3>1, <3>2, <4>4
      <4>6. IsCounter(stream[at + 1]) /\ stream[at + 1].v = 2
        BY <4>5 DEF IsCounter, Counter
      <4>7. IsMessage(stream[p]) /\ stream[p].attached = "none"
        BY <4>1, <4>3, <4>5
      <4>8. Announced(p) = 2
        <5>1. ~IsCounter(stream[p])
          BY <2>1, <4>7, PartIs DEF Located, WalkInv
        <5>2. at + 1 \in 1 .. p /\ \A k \in at + 1 + 1 .. p : k = p
          BY <2>1, <4>4
        <5> HIDE DEF p
        <5> QED BY <2>1, <4>6, <5>1, <5>2, AnnouncedBy
      <4> QED BY <4>4, <4>6, <4>7, <4>8
    <3>3. CASE Residue[1] # Counter(2)
      <4>1. FinalBody # <<>>
        <5>1. Len(FinalBody) = 1
          BY <1>4 DEF Final, IsFinalFrame
        <5> QED BY <5>1
      <4>2. genus = 2 /\ Len(Residue) = 1 /\ IsMessage(Residue[1])
            /\ Residue[1].attached = "none"
        BY <1>4, <3>3, <4>1 DEF Final, IsFinalFrame, FinalBody
      <4>3. p = at + 1 /\ stream[p] = Residue[1] /\ \A k \in at + 1 .. p - 1 : FALSE
        <5>1. p - at = 1 /\ Residue[1] = stream[at + 1]
          BY <2>2, <3>1, <4>2
        <5> HIDE DEF p
        <5> QED BY <2>1, <5>1
      <4>4. ~IsCounter(stream[p])
        BY <2>1, <4>2, <4>3, PartIs DEF Located, WalkInv
      <4>5. Announced(p) = 2
        <5>1. CASE at = 0
          <6>1. p = 1 /\ stream # <<>>
            BY <2>1, <4>3, <5>1
          <6> QED BY <4>2, <4>4, <5>1, <6>1 DEF WalkInv, GenusSound
        <5>2. CASE at # 0
          <6>1. at \in 1 .. Len(stream) - 1
            BY <2>1, <5>2
          <6>2. Announced(at) = 2
            BY <4>2, <6>1 DEF WalkInv, GenusSound
          <6> HIDE DEF p
          <6> QED BY <2>1, <4>3, <4>4, <6>2, AnnouncedOn
        <5> QED BY <5>1, <5>2
      <4> QED BY <4>2, <4>3, <4>5
    <3> QED BY <3>2, <3>3
  <2>4. /\ frames' = Append(frames, [place |-> p, genus |-> 2]) /\ at' = p /\ genus' = genus
        /\ UNCHANGED <<stream, failure, verdict>> /\ verdict = "none" /\ genus \in {1, 2}
    BY <1>4 DEF Final, Walking, WalkInv
  <2>5. stream[p].attached \in {"none", "one"} /\ ~(p < Len(stream))
    BY <2>1, <2>3
  <2> QED BY <2>1, <2>3, <2>4, <2>5, Framed
<1>5. CASE Short
  BY <1>5, NothingRead DEF Short, Fails, Walking, Classified
<1>6. CASE Support
  <2>1. failure # "none" => failure \in {"format", "serialization"}
    BY <1>0
  <2>2. failure = "serialization" => SerializationFault
    BY DEF SerializationFault
  <2>3. verdict' = "supported" => ~FormatFault /\ ~SerializationFault
    BY <1>6 DEF Support
  <2>4. verdict' = "supported" =>
           /\ failure' = "none" /\ at = Len(stream)
           /\ \A n \in DOMAIN frames : Body(frames[n]).v = frames[n].genus
    BY <1>6, <2>1, <2>2, <2>3 DEF Support, FormatFault
  <2> QED BY <1>0, <1>6, <2>4, NothingRead DEF Support
<1>7. CASE UNCHANGED vars
  BY <1>7, NothingRead DEF WalkInv, vars
<1> QED BY <1>1, <1>2, <1>3, <1>4, <1>5, <1>6, <1>7 DEF Next

(* Every byte of a stream that passes is accounted for (Walk.walk,         *)
(* message.nests and _unaccountable).                                      *)
THEOREM WalkCorrect == Spec => []NothingUnread
<1>1. WalkInv => NothingUnread
  <2> SUFFICES ASSUME WalkInv, verdict = "supported"
               PROVE  /\ {frames[n].place : n \in DOMAIN frames} = Messages
                      /\ \A n \in 1..(Len(frames) - 1) : frames[n].place < frames[n + 1].place
                      /\ \A n \in Messages : stream[n].attached \in {"none", "one"}
                      /\ Junk \notin Range(stream)
    BY DEF NothingUnread
  <2>1. DOMAIN stream = 1 .. Len(stream) /\ at = Len(stream)
        /\ \A n \in 1 .. Len(stream) : stream[n] \in Parts
    BY LenProperties DEF WalkInv, Located
  <2>2. Messages = {n \in 1 .. at : IsMessage(stream[n])}
    BY <2>1 DEF Messages
  <2>3. \A n \in Messages : stream[n].attached \in {"none", "one"}
    BY <2>1, <2>2, PartIs DEF WalkInv, Accounted
  <2>4. \A n \in 1 .. Len(stream) : stream[n] # Junk
    BY <2>1, PartIs DEF WalkInv, Accounted
  <2>5. Junk \notin Range(stream)
    BY <2>1, <2>4 DEF Range
  <2> QED BY <2>2, <2>3, <2>5 DEF WalkInv, Accounted
<1> QED BY WalkInit, WalkNext, <1>1, PTL DEF Spec

(* And every message of it is of the version announced for it, however     *)
(* many counters came before (parser.version and require_supported).       *)
THEOREM SwitchesCorrect == Spec => []SwitchesAreAnnounced
<1>1. WalkInv => SwitchesAreAnnounced
  BY DEF WalkInv, GenusSound, SwitchesAreAnnounced
<1> QED BY WalkInit, WalkNext, <1>1, PTL DEF Spec

(***************************************************************************)
(* What is joined passes and is read back.                                 *)
(***************************************************************************)

(* As many of the joined messages as there are frames have been read, each *)
(* in its version, and the next is due at its own place and genus.         *)
JoinInv ==
  pieces # <<>> =>
    /\ pieces \in Published /\ stream = Runs(pieces)
    /\ failure = "none" /\ verdict \in {"none", "supported"}
    /\ frames \in Seq([place : Nat, genus : {1, 2}]) /\ Len(frames) <= Len(pieces)
    /\ \E ends : LaidOut(ends, pieces, stream) /\ at = ends[Len(frames)]
    /\ \A n \in DOMAIN frames : Body(frames[n]) = pieces[n] /\ frames[n].genus = pieces[n].v
    /\ LET next == Len(frames) + 1 IN
         next <= Len(pieces) /\ pieces[next].v = Before(pieces, next)
           => genus = pieces[next].v
    /\ verdict = "supported" => Len(frames) = Len(pieces)

(* What is left when a message of them is due: it, after a counter if its  *)
(* version is not the last one's.                                          *)
LEMMA NextPiece ==
  ASSUME WalkInv, JoinInv, pieces # <<>>, at < Len(stream),
         NEW k, k = Len(frames) + 1, NEW m, m = pieces[k],
         NEW p, p = at + Leading + 1
  PROVE  /\ k \in 1 .. Len(pieces) /\ p \in at + 1 .. Len(stream) /\ p \in Nat
         /\ stream[p] = m /\ Residue[Leading + 1] = m /\ Leading + 1 \in 1 .. Len(Residue)
         /\ ReadUnder = m.v
         /\ Leading \in {0, 1} /\ (Leading = 1 => Residue[1] = Counter(m.v))
         /\ \E ends : LaidOut(ends, pieces, stream) /\ p = ends[k]
         /\ p < Len(stream) => k < Len(pieces)
         /\ Bare(m) /\ p < Len(stream) => IsMessage(Residue[Leading + 2])
         /\ p < Len(stream) <=> Leading + 1 # Len(Residue)
<1>0. pieces \in Published /\ stream \in Seq(Parts) /\ Located /\ Len(frames) <= Len(pieces)
      /\ Len(frames) \in Nat /\ k \in Nat
  BY LenProperties DEF WalkInv, JoinInv, Located
<1>1. /\ Len(pieces) \in Nat
      /\ \A n \in 1 .. Len(pieces) :
           IsMessage(pieces[n]) /\ ~IsCounter(pieces[n]) /\ pieces[n].v \in {1, 2}
      /\ \A i, j \in 1 .. Len(pieces) : i <= j /\ Bare(pieces[i]) => pieces[j].v = 2
  BY <1>0, JoinedAre
<1>2. PICK ends : LaidOut(ends, pieces, stream) /\ at = ends[Len(frames)]
  BY DEF JoinInv
<1>3. /\ ends[Len(pieces)] = Len(stream)
      /\ \A n \in 1 .. Len(pieces) :
           /\ ends[n] <= Len(stream)
           /\ ends[n] = ends[n - 1] + (IF pieces[n].v = Before(pieces, n) THEN 1 ELSE 2)
           /\ stream[ends[n]] = pieces[n]
           /\ pieces[n].v # Before(pieces, n) => stream[ends[n - 1] + 1] = Counter(pieces[n].v)
  BY <1>0, <1>2, LaidOutIs
<1>4. at \in Nat /\ Len(stream) \in Nat /\ Len(Residue) = Len(stream) - at
      /\ \A i \in 1 .. Len(stream) - at : Residue[i] = stream[at + i]
  BY <1>0, ResidueIs
<1>5. k \in 1 .. Len(pieces) /\ k - 1 = Len(frames)
  <2>1. Len(frames) # Len(pieces)
    BY <1>2, <1>3, <1>4
  <2> QED BY <1>0, <1>1, <2>1
<1>6. /\ ends[k] <= Len(stream)
      /\ ends[k] = at + (IF m.v = Before(pieces, k) THEN 1 ELSE 2)
      /\ stream[ends[k]] = m
      /\ m.v # Before(pieces, k) => stream[at + 1] = Counter(m.v)
  BY <1>2, <1>3, <1>5
<1>7. Leading = (IF m.v = Before(pieces, k) THEN 0 ELSE 1) /\ ReadUnder = m.v
  <2>1. /\ Leading \in 0 .. Len(stream) - at
        /\ \A i \in 1 .. Leading : IsCounter(stream[at + i])
        /\ Leading < Len(stream) - at => ~IsCounter(stream[at + Leading + 1])
        /\ ReadUnder = IF Leading = 0 THEN genus ELSE stream[at + Leading].v
    BY <1>0, LeadingIs
  <2>2. ~IsCounter(m)
    BY <1>1, <1>5
  <2>3. CASE m.v = Before(pieces, k)
    <3>1. ~IsCounter(stream[at + 1])
      BY <1>6, <2>2, <2>3
    <3>2. Leading = 0
      <4>1. CASE Leading # 0
        <5>1. 1 \in 1 .. Leading
          BY <2>1, <4>1
        <5> QED BY <1>4, <2>1, <3>1, <5>1
      <4> QED BY <4>1
    <3>3. genus = m.v
      <4>1. k <= Len(pieces) /\ pieces[k].v = Before(pieces, k) => genus = pieces[k].v
        BY DEF JoinInv
      <4> QED BY <1>1, <1>5, <2>3, <4>1
    <3> QED BY <2>1, <2>3, <3>2, <3>3
  <2>4. CASE m.v # Before(pieces, k)
    <3>1. IsCounter(stream[at + 1]) /\ stream[at + 1].v = m.v /\ at + 2 <= Len(stream)
          /\ ~IsCounter(stream[at + 2])
      BY <1>6, <2>2, <2>4 DEF IsCounter, Counter
    <3>2. Leading # 0
      <4>1. CASE Leading = 0
        <5>1. Leading < Len(stream) - at /\ at + Leading + 1 = at + 1
          BY <1>4, <3>1, <4>1
        <5> QED BY <1>4, <2>1, <3>1, <5>1
      <4> QED BY <4>1
    <3>3. ~(Leading > 1)
      <4>1. CASE Leading > 1
        <5>1. 2 \in 1 .. Leading
          BY <2>1, <4>1
        <5> QED BY <1>4, <2>1, <3>1, <5>1
      <4> QED BY <4>1
    <3>4. Leading = 1
      BY <1>4, <2>1, <3>2, <3>3
    <3>5. stream[at + Leading].v = m.v
      BY <3>1, <3>4
    <3> QED BY <2>1, <2>4, <3>4, <3>5
  <2> QED BY <2>3, <2>4
<1>8. p = ends[k] /\ p \in at + 1 .. Len(stream) /\ p \in Nat /\ Leading \in {0, 1}
  BY <1>4, <1>6, <1>7
<1>9. Leading + 1 \in 1 .. Len(Residue) /\ Residue[Leading + 1] = m
  <2>1. Leading + 1 \in 1 .. Len(stream) - at /\ at + (Leading + 1) = p
    BY <1>4, <1>8
  <2> QED BY <1>4, <1>6, <1>8, <2>1
<1>10. Leading = 1 => Residue[1] = Counter(m.v)
  <2> SUFFICES ASSUME Leading = 1
               PROVE  Residue[1] = Counter(m.v)
    OBVIOUS
  <2>1. 1 \in 1 .. Len(stream) - at
    BY <1>4, <1>9
  <2> QED BY <1>4, <1>6, <1>7, <2>1
<1>11. p < Len(stream) => k < Len(pieces)
  BY <1>1, <1>3, <1>5, <1>8
<1>12. ASSUME Bare(m), p < Len(stream)
       PROVE  IsMessage(Residue[Leading + 2])
  <2>1. k + 1 \in 1 .. Len(pieces) /\ k + 1 - 1 = k /\ k <= k + 1 /\ k <= k
    BY <1>1, <1>5, <1>11, <1>12
  <2>2. m.v = 2 /\ pieces[k + 1].v = 2
    BY <1>1, <1>5, <1>12, <2>1
  <2>3. Before(pieces, k + 1) = 2
    BY <1>5, <2>1, <2>2 DEF Before
  <2>4. ends[k + 1] = p + 1 /\ stream[p + 1] = pieces[k + 1] /\ p + 1 <= Len(stream)
    BY <1>3, <1>8, <2>1, <2>2, <2>3
  <2>5. Leading + 2 \in 1 .. Len(stream) - at /\ at + (Leading + 2) = p + 1
    BY <1>4, <1>8, <2>4
  <2> QED BY <1>1, <1>4, <2>1, <2>4, <2>5
<1>13. p < Len(stream) <=> Leading + 1 # Len(Residue)
  BY <1>4, <1>8
<1> QED BY <1>2, <1>5, <1>6, <1>7, <1>8, <1>9, <1>10, <1>11, <1>12, <1>13

LEMMA JoinInit == Init => JoinInv
<1> SUFFICES ASSUME Init, pieces # <<>>
             PROVE  /\ pieces \in Published /\ stream = Runs(pieces)
                    /\ failure = "none" /\ verdict \in {"none", "supported"}
                    /\ frames \in Seq([place : Nat, genus : {1, 2}]) /\ Len(frames) <= Len(pieces)
                    /\ \E ends : LaidOut(ends, pieces, stream) /\ at = ends[Len(frames)]
                    /\ \A n \in DOMAIN frames :
                         Body(frames[n]) = pieces[n] /\ frames[n].genus = pieces[n].v
                    /\ LET next == Len(frames) + 1 IN
                         next <= Len(pieces) /\ pieces[next].v = Before(pieces, next)
                           => genus = pieces[next].v
                    /\ verdict = "supported" => Len(frames) = Len(pieces)
  BY DEF JoinInv
<1>1. pieces \in Published /\ stream = Runs(pieces) /\ frames = <<>> /\ at = 0
      /\ failure = "none" /\ verdict = "none"
  BY DEF Init
<1>2. Len(pieces) \in Nat /\ DOMAIN pieces = 1 .. Len(pieces)
      /\ \A n \in 1 .. Len(pieces) : pieces[n] \in Parts /\ ~IsCounter(pieces[n])
  BY <1>1, JoinedAre
<1>3. PICK ends : LaidOut(ends, pieces, stream)
  BY <1>1, RunsAre
<1>4. Len(frames) = 0 /\ DOMAIN frames = {} /\ ends[0] = 0
  BY <1>1, <1>3, LaidOutIs, RunsAre
<1>5. ASSUME pieces[1].v = Before(pieces, 1), 1 <= Len(pieces)
      PROVE  genus = pieces[1].v
  <2>1. stream # <<>> /\ stream[1] = pieces[1] /\ \A n \in DOMAIN pieces : pieces[n].v = 1
    BY <1>1, <1>5, JoinedOpens
  <2>2. 1 \in 1 .. Len(pieces)
    BY <1>2, <1>5
  <2>3. stream[1] # Counter(2)
    BY <1>2, <2>1, <2>2 DEF Counter, IsCounter
  <2>4. opening = 1
    BY <2>3 DEF Init, Opens
  <2> QED BY <1>2, <2>1, <2>2, <2>4 DEF Init
<1>6. 0 + 1 = 1 /\ frames \in Seq([place : Nat, genus : {1, 2}])
  BY <1>1
<1> QED BY <1>1, <1>2, <1>3, <1>4, <1>5, <1>6

(* One more message of what is joined has been read.                       *)
LEMMA OneMoreRead ==
  ASSUME WalkInv, JoinInv, pieces # <<>>, verdict = "none", failure = "none",
         NEW k, k = Len(frames) + 1, k \in 1 .. Len(pieces),
         NEW p \in Nat, stream[p] = pieces[k],
         NEW ends, LaidOut(ends, pieces, stream), p = ends[k],
         frames' = Append(frames, [place |-> p, genus |-> pieces[k].v]), at' = p,
         k < Len(pieces) => genus' = pieces[k].v,
         UNCHANGED <<stream, pieces, failure, verdict>>
  PROVE  JoinInv'
<1> DEFINE Frames == [place : Nat, genus : {1, 2}]
           frame == [place |-> p, genus |-> pieces[k].v]
<1>1. /\ pieces \in Published /\ stream = Runs(pieces)
      /\ frames \in Seq(Frames) /\ Len(frames) <= Len(pieces)
      /\ \A n \in DOMAIN frames : Body(frames[n]) = pieces[n] /\ frames[n].genus = pieces[n].v
  BY DEF JoinInv
<1>2. Len(pieces) \in Nat /\ \A n \in 1 .. Len(pieces) : pieces[n].v \in {1, 2}
  BY <1>1, JoinedAre
<1>3. frame \in Frames /\ frame.place = p /\ frame.genus = pieces[k].v
      /\ frames' = Append(frames, frame)
  BY <1>2
<1> HIDE DEF frame
<1>4. /\ frames' \in Seq(Frames) /\ Len(frames') = k /\ Len(frames) \in Nat
      /\ DOMAIN frames = 1 .. Len(frames) /\ frames'[k] = frame
      /\ \A i \in 1 .. Len(frames) : frames'[i] = frames[i]
  <2> HIDE DEF Frames
  <2>1. frames' \in Seq(Frames) /\ Len(frames') = Len(frames) + 1 /\ Len(frames) \in Nat
        /\ DOMAIN frames = 1 .. Len(frames)
    BY <1>1, <1>3, AppendProperties, LenProperties
  <2>2. frames'[Len(frames) + 1] = frame /\ \A i \in 1 .. Len(frames) : frames'[i] = frames[i]
    BY <1>1, <1>3, AppendProperties
  <2> QED BY <2>1, <2>2
<1>5. DOMAIN frames' = 1 .. k
  BY <1>4, LenProperties
<1>6. ASSUME NEW n \in DOMAIN frames'
      PROVE  Body(frames[n])' = pieces[n] /\ frames'[n].genus = pieces[n].v
  <2>0. Body(frames[n])' = stream[frames'[n].place]
    BY DEF Body
  <2>1. CASE n = k
    BY <1>3, <1>4, <2>0, <2>1
  <2>2. CASE n # k
    <3>1. n \in 1 .. Len(frames)
      BY <1>4, <1>5, <2>2
    <3>2. stream[frames[n].place] = pieces[n] /\ frames[n].genus = pieces[n].v
      BY <1>1, <1>4, <3>1 DEF Body
    <3> QED BY <1>4, <2>0, <3>1, <3>2
  <2> QED BY <2>1, <2>2
<1>7. ASSUME k + 1 <= Len(pieces), pieces[k + 1].v = Before(pieces, k + 1)
      PROVE  genus' = pieces[k + 1].v
  <2>1. k < Len(pieces) /\ k + 1 # 1 /\ k + 1 - 1 = k
    BY <1>2, <1>4, <1>7
  <2>2. Before(pieces, k + 1) = pieces[k].v
    BY <2>1 DEF Before
  <2> QED BY <1>7, <2>1, <2>2
<1>8. k <= Len(pieces) /\ at' = ends[k] /\ verdict' = "none" /\ failure' = "none"
  OBVIOUS
<1> QED BY <1>1, <1>4, <1>6, <1>7, <1>8 DEF JoinInv

LEMMA JoinNext == WalkInv /\ JoinInv /\ [Next]_vars => JoinInv'
<1> SUFFICES ASSUME WalkInv, JoinInv, [Next]_vars, pieces' # <<>>
             PROVE  JoinInv'
  BY DEF JoinInv
<1>0. pieces' = pieces /\ stream' = stream /\ pieces # <<>>
  BY DEF Next, Extract, ExtractUnaccountable, ExtractRaises, Final, Short, Support, Fails, vars
<1> DEFINE k == Len(frames) + 1
           m == pieces[k]
           p == at + Leading + 1
<1>1. /\ pieces \in Published /\ stream \in Seq(Parts) /\ Len(pieces) \in Nat /\ Len(frames) \in Nat
      /\ \A n \in 1 .. Len(pieces) :
           /\ IsMessage(pieces[n]) /\ ~IsCounter(pieces[n]) /\ pieces[n].v \in {1, 2}
           /\ pieces[n].json /\ pieces[n].attached \in {"none", "one"}
      /\ \A i, j \in 1 .. Len(pieces) : i <= j /\ Bare(pieces[i]) => pieces[j].v = 2
  BY <1>0, JoinedAre, LenProperties DEF JoinInv, WalkInv, Located
<1>2. ASSUME Walking
      PROVE  /\ k \in 1 .. Len(pieces) /\ p \in at + 1 .. Len(stream) /\ p \in Nat
             /\ stream[p] = m /\ Residue[Leading + 1] = m /\ Leading + 1 \in 1 .. Len(Residue)
             /\ ReadUnder = m.v
             /\ Leading \in {0, 1} /\ (Leading = 1 => Residue[1] = Counter(m.v))
             /\ \E ends : LaidOut(ends, pieces, stream) /\ p = ends[k]
             /\ p < Len(stream) => k < Len(pieces)
             /\ Bare(m) /\ p < Len(stream) => IsMessage(Residue[Leading + 2])
             /\ p < Len(stream) <=> Leading + 1 # Len(Residue)
  BY <1>0, <1>2, NextPiece DEF Walking
<1>3. ASSUME Walking
      PROVE  /\ IsMessage(m) /\ ~IsCounter(m) /\ m.v \in {1, 2} /\ m.json
             /\ m.attached \in {"none", "one"} /\ (Bare(m) => m.v = 2)
  <2>1. k \in 1 .. Len(pieces) /\ k <= k
    BY <1>1, <1>2, <1>3
  <2> HIDE DEF k
  <2> QED BY <1>1, <2>1
<1>4. ASSUME Walking
      PROVE  Extraction = IF Bare(m) /\ p = Len(stream) THEN {"short"} ELSE {"done"}
  <2> DEFINE l == Leading
  <2>1. /\ l # Len(Residue) /\ Residue[l + 1] = m /\ l \in {0, 1} /\ ReadUnder = m.v
        /\ Len(Residue) \in Nat
        /\ p = Len(stream) <=> l + 1 = Len(Residue)
        /\ Bare(m) /\ p # Len(stream) => IsMessage(Residue[l + 2])
    <3>1. Located /\ Len(stream) \in Nat
      BY ResidueIs DEF WalkInv
    <3>2. Len(Residue) \in Nat
      BY <3>1, ResidueIs
    <3>3. p <= Len(stream) /\ (p < Len(stream) <=> p # Len(stream))
      BY <1>2, <1>4, <3>1, ResidueIs
    <3>4. Leading # Len(Residue)
      BY <1>2, <1>4, <3>2
    <3> QED BY <1>2, <1>4, <3>2, <3>3, <3>4
  <2>2. /\ IsMessage(m) /\ m.attached # "cut" /\ (Bare(m) <=> m.attached = "none")
    BY <1>3, <1>4 DEF Bare
  <2>3. IsMessage(Residue[l + 2]) => ~IsCounter(Residue[l + 2])
    BY DEF IsMessage, IsCounter
  <2>4. ~(l > 1 \/ m.v # ReadUnder)
    BY <2>1
  <2> HIDE DEF l, m, p
  <2>5. Extraction = (IF m.attached # "none" THEN {"done"}
                      ELSE IF l + 1 = Len(Residue) THEN {"short"}
                      ELSE IF IsCounter(Residue[l + 2]) THEN {"done", "raise"}
                      ELSE IF IsMessage(Residue[l + 2]) THEN {"done"} ELSE {"raise"})
    BY <2>1, <2>2, <2>4 DEF Extraction, l
  <2> QED BY <2>1, <2>2, <2>3, <2>5
<1>5. CASE Extract
  <2>1. Walking /\ frames' = Append(frames, [place |-> p, genus |-> ReadUnder])
        /\ at' = p /\ genus' = ReadUnder /\ UNCHANGED <<failure, verdict>>
    BY <1>5 DEF Extract, KeptGenus
  <2>2. PICK ends : LaidOut(ends, pieces, stream) /\ p = ends[k]
    BY <1>2, <2>1
  <2>3. k \in 1 .. Len(pieces) /\ p \in Nat /\ stream[p] = pieces[k] /\ ReadUnder = pieces[k].v
    BY <1>2, <2>1
  <2>4. verdict = "none" /\ failure = "none"
    BY <2>1 DEF Walking
  <2> HIDE DEF k, p
  <2>5. k = Len(frames) + 1
    BY DEF k
  <2> QED BY <1>0, <2>1, <2>2, <2>3, <2>4, <2>5, OneMoreRead
<1>6. CASE ExtractUnaccountable
  <2>1. Walking /\ Unaccountable(Residue[Leading + 1])
    BY <1>6 DEF ExtractUnaccountable
  <2> QED BY <1>2, <1>3, <2>1 DEF Unaccountable
<1>7. CASE ExtractRaises
  BY <1>4, <1>7 DEF ExtractRaises
<1>8. CASE Final
  <2>1. Walking /\ "short" \in Extraction
        /\ frames' = Append(frames, [place |-> Len(stream), genus |-> 2])
        /\ at' = Len(stream) /\ UNCHANGED <<failure, verdict>>
    BY <1>8 DEF Final
  <2>2. Bare(m) /\ p = Len(stream)
    BY <1>4, <2>1
  <2>3. m.v = 2
    BY <1>3, <2>1, <2>2
  <2>4. PICK ends : LaidOut(ends, pieces, stream) /\ p = ends[k]
    BY <1>2, <2>1
  <2>5. k \in 1 .. Len(pieces) /\ p \in Nat /\ stream[p] = pieces[k] /\ 2 = pieces[k].v
    BY <1>2, <2>1, <2>3
  <2>6. k = Len(pieces)
    <3>1. ends[Len(pieces)] = Len(stream) /\ ends \in [0 .. Len(pieces) -> Nat]
          /\ \A n \in 1 .. Len(pieces) : ends[n] <= Len(stream)
                /\ ends[n] = ends[n - 1] + (IF pieces[n].v = Before(pieces, n) THEN 1 ELSE 2)
      <4>1. PICK s, t : s = pieces /\ t = stream
        OBVIOUS
      <4>2. s \in Published /\ t \in Seq(Parts) /\ LaidOut(ends, s, t)
        BY <1>1, <2>4, <4>1
      <4>3. /\ ends[Len(s)] = Len(t) /\ ends \in [0 .. Len(s) -> Nat]
            /\ \A n \in 1 .. Len(s) :
                 /\ ends[n] <= Len(t)
                 /\ ends[n] = ends[n - 1] + (IF s[n].v = Before(s, n) THEN 1 ELSE 2)
                 /\ t[ends[n]] = s[n]
                 /\ s[n].v # Before(s, n) => t[ends[n - 1] + 1] = Counter(s[n].v)
        BY <4>2, LaidOutIs
      <4> QED BY <4>1, <4>3
    <3> HIDE DEF k, p
    <3>2. CASE k # Len(pieces)
      <4>1. k + 1 \in 1 .. Len(pieces) /\ k + 1 - 1 = k /\ k \in 0 .. Len(pieces)
        BY <1>1, <2>5, <3>2
      <4>2. ends[k + 1] <= Len(stream) /\ ends[k] \in Nat /\ ends[k] = Len(stream)
            /\ ends[k + 1] = ends[k] + (IF pieces[k + 1].v = Before(pieces, k + 1) THEN 1 ELSE 2)
        BY <2>2, <2>4, <3>1, <4>1
      <4> QED BY <4>2
    <3> QED BY <3>2
  <2>7. verdict = "none" /\ failure = "none"
    BY <2>1 DEF Walking
  <2>8. frames' = Append(frames, [place |-> p, genus |-> pieces[k].v]) /\ at' = p
        /\ (k < Len(pieces) => genus' = pieces[k].v)
    <3>1. ~(k < Len(pieces))
      BY <1>1, <2>6
    <3> QED BY <2>1, <2>2, <2>5, <3>1
  <2> HIDE DEF k, p
  <2>9. k = Len(frames) + 1
    BY DEF k
  <2> QED BY <1>0, <2>1, <2>4, <2>5, <2>7, <2>8, <2>9, OneMoreRead
<1>9. CASE Short
  <2>1. Walking /\ "short" \in Extraction /\ ~IsFinalFrame
    BY <1>9 DEF Short
  <2>2. Bare(m) /\ p = Len(stream) /\ m.v = 2 /\ IsMessage(m) /\ ~IsCounter(m)
    BY <1>3, <1>4, <2>1
  <2>3. Len(Residue) = Leading + 1 /\ Residue[Leading + 1] = m /\ Residue \in Seq(Parts)
    BY <1>2, <2>1, <2>2, ResidueIs DEF WalkInv
  <2>4. Len(FinalBody) = 1 /\ FinalBody[1] = m
    <3>1. CASE Leading = 0
      <4>1. Residue[1] = m /\ Len(Residue) = 1 /\ Residue[1] # Counter(2)
        BY <2>2, <2>3, <3>1 DEF Counter, IsCounter
      <4>2. genus = 2
        BY <1>2, <2>1, <2>2, <3>1 DEF ReadUnder
      <4> QED BY <4>1, <4>2 DEF FinalBody
    <3>2. CASE Leading = 1
      <4>1. Residue[1] = Counter(2) /\ Len(Residue) = 2 /\ Residue[2] = m
        BY <1>2, <2>1, <2>2, <2>3, <3>2
      <4>2. Len(Tail(Residue)) = 1 /\ Tail(Residue)[1] = m
        <5>1. Residue # <<>>
          BY <4>1
        <5>2. PICK r : r = Residue
          OBVIOUS
        <5>3. r \in Seq(Parts) /\ r # <<>> /\ Len(r) = 2 /\ r[2] = m
          BY <2>3, <4>1, <5>1, <5>2
        <5>4. Len(Tail(r)) = 1 /\ Tail(r)[1] = m
          BY <5>3
        <5> QED BY <5>2, <5>4
      <4> QED BY <4>1, <4>2 DEF FinalBody
    <3> QED BY <1>2, <2>1, <3>1, <3>2
  <2>5. IsFinalFrame
    BY <2>2, <2>4 DEF IsFinalFrame, Bare
  <2> QED BY <2>1, <2>5
<1>10. CASE Support
  <2>1. verdict = "none" /\ failure = "none" /\ at = Len(stream)
        /\ UNCHANGED <<stream, pieces, genus, at, frames, failure>>
        /\ verdict' = (IF FormatFault THEN "format"
                       ELSE IF SerializationFault THEN "serialization" ELSE "supported")
    BY <1>0, <1>10 DEF Support, JoinInv
  <2>2. Len(frames) = Len(pieces)
    <3>1. PICK ends : LaidOut(ends, pieces, stream) /\ at = ends[Len(frames)]
      BY <1>0 DEF JoinInv
    <3>2. Len(frames) <= Len(pieces)
      BY <1>0 DEF JoinInv
    <3>3. /\ ends[Len(pieces)] = Len(stream) /\ ends \in [0 .. Len(pieces) -> Nat]
          /\ \A n \in 1 .. Len(pieces) :
               /\ ends[n] <= Len(stream)
               /\ ends[n] = ends[n - 1] + (IF pieces[n].v = Before(pieces, n) THEN 1 ELSE 2)
      BY <1>1, <3>1, LaidOutIs
    <3>4. CASE Len(frames) # Len(pieces)
      <4>1. PICK n : n = Len(frames) + 1
        OBVIOUS
      <4>2. n \in 1 .. Len(pieces) /\ n - 1 = Len(frames) /\ Len(frames) \in 0 .. Len(pieces)
        BY <1>1, <3>2, <3>4, <4>1
      <4>3. ends[n] <= Len(stream) /\ ends[n - 1] = Len(stream) /\ ends[n - 1] \in Nat
            /\ ends[n] = ends[n - 1] + (IF pieces[n].v = Before(pieces, n) THEN 1 ELSE 2)
        BY <2>1, <3>1, <3>3, <4>2
      <4> QED BY <4>3
    <3> QED BY <3>4
  <2>3. DOMAIN frames = 1 .. Len(pieces)
        /\ \A n \in DOMAIN frames : Body(frames[n]) = pieces[n] /\ frames[n].genus = pieces[n].v
    BY <1>0, <2>2, LenProperties DEF JoinInv
  <2>4. Len(pieces) # 0
    <3>1. pieces \in Seq({x \in MessageParts : x.json /\ x.attached \in {"none", "one"}})
      BY <1>1, WalkAssumption
    <3> QED BY <1>0, <3>1, EmptySeq
  <2>5. frames # <<>>
    BY <2>2, <2>4
  <2>6. ~FormatFault /\ ~SerializationFault
    BY <1>1, <2>1, <2>3, <2>5 DEF FormatFault, SerializationFault
  <2>7. verdict' = "supported"
    BY <2>1, <2>6
  <2>8. \A n \in DOMAIN frames : Body(frames[n])' = Body(frames[n])
    BY <2>1 DEF Body
  <2> QED BY <1>0, <2>1, <2>2, <2>7, <2>8 DEF JoinInv
<1>11. CASE UNCHANGED vars
  <2>1. \A n \in DOMAIN frames : Body(frames[n])' = Body(frames[n])
    BY <1>11 DEF Body, vars
  <2> QED BY <1>0, <1>11, <2>1 DEF JoinInv, vars
<1> QED BY <1>5, <1>6, <1>7, <1>8, <1>9, <1>10, <1>11 DEF Next

(* Whatever _runs joins passes the gate and is read back message for       *)
(* message, in whichever of the two genera its reader starts.              *)
THEOREM JoinCorrect == Spec => []JoinedIsReadBack
<1>1. JoinInv => JoinedIsReadBack
  <2> SUFFICES ASSUME JoinInv, pieces # <<>>, verdict # "none"
               PROVE  /\ verdict = "supported"
                      /\ [n \in DOMAIN frames |-> Body(frames[n])] = pieces
    BY DEF JoinedIsReadBack
  <2>1. verdict = "supported" /\ Len(frames) = Len(pieces) /\ pieces \in Published
        /\ frames \in Seq([place : Nat, genus : {1, 2}])
        /\ \A n \in DOMAIN frames : Body(frames[n]) = pieces[n]
    BY DEF JoinInv
  <2>2. DOMAIN frames = 1 .. Len(pieces) /\ DOMAIN pieces = 1 .. Len(pieces)
    BY <2>1, JoinedAre, LenProperties
  <2>3. pieces = [n \in 1 .. Len(pieces) |-> pieces[n]]
    <3>1. pieces \in Seq({x \in MessageParts : x.json /\ x.attached \in {"none", "one"}})
      BY <2>1, WalkAssumption
    <3> QED BY <3>1, LenProperties
  <2>4. [n \in DOMAIN frames |-> Body(frames[n])] = [n \in 1 .. Len(pieces) |-> pieces[n]]
    BY <2>1, <2>2
  <2> QED BY <2>1, <2>3, <2>4
<1>2. Init => WalkInv /\ JoinInv
  BY WalkInit, JoinInit
<1>3. (WalkInv /\ JoinInv) /\ [Next]_vars => (WalkInv /\ JoinInv)'
  BY WalkNext, JoinNext
<1> QED BY <1>1, <1>2, <1>3, PTL DEF Spec
=============================================================================
