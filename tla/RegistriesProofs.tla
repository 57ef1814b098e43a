-------------------------- MODULE RegistriesProofs --------------------------
(***************************************************************************)
(* Theorems about Registries, for any submissions of any messages in any   *)
(* order: what authorize returns is not revoked and is in the order of the *)
(* key events, and what emit_stream writes is everything that was accepted,*)
(* is accepted again, and gives the same designations.                     *)
(*                                                                         *)
(* What is judged is shown to depend on the set of messages alone, and on  *)
(* which disclosures there are; both survive the writing.                  *)
(***************************************************************************)
EXTENDS Registries, DataInduction

\* What does not change while a submission is judged.
Shape ==
  /\ world \subseteq Messages(DOMAIN kel)
  /\ \A x, y \in world : x.said = y.said => x = y
  /\ \A m \in world : /\ m.kind \in {"rip", "vcp"} => m.log = m.said
                      /\ m.kind \in {"vcp", "iss"} => m.sn = 0
                      /\ m.kind = "rev" => m.sn = 1
  /\ frames \in Seq(world) /\ IsInjective(frames)
  /\ \A a \in DOMAIN kel : kel[a] \in Seq(Seq(SealOf))
  /\ riding \in [Saids({m \in world : m.kind = "bup"}) -> [on : Nat, off : Nat]]

\* The version 2 inceptions, and the updates of one, as sets.
Rips == {m \in Carried : m.kind = "rip"}
Bups(rip) == {m \in Carried : m.kind = "bup" /\ m.log = rip.said}

LEMMA InitShape == Init => Shape
BY RegistriesAssumption DEF Init, Shape

\* What a message is made of.
LEMMA MessageType ==
  ASSUME Shape, NEW m \in world
  PROVE  /\ m.kind \in V2Kinds \cup V1Log \cup {"acdc"} /\ m.said \in Nat \ {0} /\ m.log \in Nat
         /\ m.sn \in Nat /\ m.aid \in DOMAIN kel /\ m.names \in Nat /\ m.prior \in Nat
BY DEF Shape, Messages

\* The set of messages, and their places in the stream.
LEMMA CarriedType ==
  ASSUME Shape
  PROVE  /\ Carried \subseteq world /\ IsFiniteSet(Carried)
         /\ Len(frames) \in Nat /\ DOMAIN frames = 1 .. Len(frames)
         /\ \A n \in DOMAIN frames : frames[n] \in Carried
         /\ \A m \in Carried : \E n \in DOMAIN frames : frames[n] = m
<1>1. /\ Len(frames) \in Nat /\ DOMAIN frames = 1 .. Len(frames)
      /\ \A n \in DOMAIN frames : frames[n] \in world
  BY DEF Shape
<1>2. IsFiniteSet(Carried)
  BY LengthOfInjective DEF Shape, Carried
<1> QED BY <1>1, <1>2 DEF Carried, Range

\* The updates of a registry, as a sequence: each once, by sequence number.
LEMMA UpdatesAre ==
  ASSUME Shape, NEW rip
  PROVE  /\ Updates(rip) \in Seq(Bups(rip)) /\ Range(Updates(rip)) = Bups(rip)
         /\ IsInjective(Updates(rip))
         /\ \A j, k \in DOMAIN Updates(rip) : j < k => Updates(rip)[j].sn <= Updates(rip)[k].sn
<1> DEFINE places == {n \in DOMAIN frames : frames[n].kind = "bup" /\ frames[n].log = rip.said}
           R == {p \in places \X places : \/ frames[p[1]].sn < frames[p[2]].sn
                                          \/ frames[p[1]].sn = frames[p[2]].sn /\ p[1] < p[2]}
<1>1. /\ Len(frames) \in Nat /\ DOMAIN frames = 1 .. Len(frames)
      /\ \A n \in DOMAIN frames : frames[n] \in Carried /\ frames[n] \in world
      /\ \A m \in Carried : \E n \in DOMAIN frames : frames[n] = m
  BY CarriedType
<1>2. \A n \in places : n \in Nat /\ frames[n].sn \in Nat
  BY <1>1, MessageType
<1>3. IsFiniteSet(places)
  <2>1. IsFiniteSet(1 .. Len(frames)) /\ places \in SUBSET (1 .. Len(frames))
    BY <1>1, FS_Interval
  <2> QED BY <2>1, FS_Subset
<1>4. TotalOn(R, places)
  <2>1. \A j, k \in places :
          <<j, k>> \in R <=> \/ frames[j].sn < frames[k].sn
                             \/ frames[j].sn = frames[k].sn /\ j < k
    OBVIOUS
  <2> HIDE DEF R, places
  <2> QED BY <1>2, <2>1 DEF TotalOn
<1>5. PICK s \in SetToSeqs(places) : Sorted(s, R)
  BY <1>3, <1>4, OrderExists
<1>6. PICK sorted : sorted = CHOOSE t \in SetToSeqs(places) : \A j, k \in DOMAIN t :
          j < k => \/ frames[t[j]].sn < frames[t[k]].sn
                   \/ frames[t[j]].sn = frames[t[k]].sn /\ t[j] < t[k]
  OBVIOUS
<1>7. /\ sorted \in SetToSeqs(places)
      /\ \A j, k \in DOMAIN sorted :
          j < k => \/ frames[sorted[j]].sn < frames[sorted[k]].sn
                   \/ frames[sorted[j]].sn = frames[sorted[k]].sn /\ sorted[j] < sorted[k]
  <2>1. \A j, k \in DOMAIN s :
          j < k => \/ frames[s[j]].sn < frames[s[k]].sn
                   \/ frames[s[j]].sn = frames[s[k]].sn /\ s[j] < s[k]
    BY <1>5 DEF Sorted
  <2> DEFINE Good(t) == \A j, k \in DOMAIN t :
          j < k => \/ frames[t[j]].sn < frames[t[k]].sn
                   \/ frames[t[j]].sn = frames[t[k]].sn /\ t[j] < t[k]
  <2>2. sorted = CHOOSE t \in SetToSeqs(places) : Good(t)
    BY <1>6
  <2>3. Good(s)
    BY <2>1
  <2> HIDE DEF places, Good
  <2>4. sorted \in SetToSeqs(places) /\ Good(sorted)
    BY <1>5, <2>2, <2>3
  <2> QED BY <2>4 DEF Good
<1>8. Updates(rip) = [n \in DOMAIN sorted |-> frames[sorted[n]]]
  BY <1>6 DEF Updates, InOrder
<1>9. sorted \in Seq(places) /\ Range(sorted) = places
  BY <1>3, <1>7, RangeOfOrder
<1>10. IsInjective(sorted)
  BY <1>7 DEF SetToSeqs, IsInjective
<1>11. /\ Len(sorted) \in Nat /\ DOMAIN sorted = 1 .. Len(sorted)
       /\ \A n \in DOMAIN sorted : sorted[n] \in places
  <2> HIDE DEF places
  <2> QED BY <1>9, LenProperties
<1>12. \A n \in places : frames[n] \in Bups(rip)
  BY <1>1 DEF Bups
<1>13. \A m \in Bups(rip) : \E n \in places : frames[n] = m
  BY <1>1 DEF Bups
<1>14. \A n \in places : n \in DOMAIN frames
  OBVIOUS
<1> HIDE DEF places, R
<1>15. Updates(rip) \in Seq(Bups(rip)) /\ DOMAIN Updates(rip) = DOMAIN sorted
  BY <1>8, <1>11, <1>12
<1>16. Range(Updates(rip)) = Bups(rip)
  BY <1>8, <1>9, <1>11, <1>12, <1>13, <1>15 DEF Range
<1>17. IsInjective(Updates(rip))
  BY <1>8, <1>10, <1>11, <1>14, <1>15 DEF IsInjective, Shape
<1>18. \A j, k \in DOMAIN Updates(rip) : j < k => Updates(rip)[j].sn <= Updates(rip)[k].sn
  BY <1>2, <1>7, <1>8, <1>11, <1>15
<1> QED BY <1>15, <1>16, <1>17, <1>18

\* What Vet records of a registry, and when it does.
Rec(rip) ==
  LET updates == Updates(rip)
  IN [rip |-> rip, updates |-> updates, credential |-> Bound(rip, BoundTarget(updates)),
      blinders |-> Saids({u \in Range(updates) : Shown(u)})]
Clean(rip) == Faults(rip, Updates(rip)) = {} /\ Missing(rip, Updates(rip)) = {}

\* A turn of the loop leaves what the registries say alone.
LEMMA Kept ==
  ASSUME UNCHANGED <<world, kel, frames, riding>>
  PROVE  /\ Rips' = Rips /\ Listed("rip")' = Listed("rip")
         /\ \A x : Bups(x)' = Bups(x)
         /\ \A x : Updates(x)' = Updates(x)
         /\ \A x : Rec(x)' = Rec(x)
         /\ \A x : Clean(x)' = Clean(x)
         /\ Shape' = Shape
<1>1. Rips' = Rips /\ \A x : Bups(x)' = Bups(x)
  BY DEF Rips, Bups, Carried
<1>2. Listed("rip")' = Listed("rip")
  BY DEF Listed
<1>3. ASSUME NEW x PROVE Updates(x)' = Updates(x)
  BY DEF Updates, InOrder
<1>4. ASSUME NEW x PROVE Rec(x)' = Rec(x)
  BY <1>3 DEF Rec, Bound, BoundTarget, Shown, Disclosures, Carried
<1>5. ASSUME NEW x PROVE Clean(x)' = Clean(x)
  <2>1. \A m : AnchoringV2(m)' = AnchoringV2(m)
    BY DEF AnchoringV2
  <2>2. \A u : Disclosures(u)' = Disclosures(u) /\ Vacuous(u)' = Vacuous(u)
    BY DEF Disclosures, Vacuous
  <2>3. ASSUME NEW U PROVE Faults(x, U)' = Faults(x, U)
    BY <2>1, <2>2 DEF Faults
  <2>4. ASSUME NEW U PROVE Missing(x, U)' = Missing(x, U)
    BY DEF Missing, ForLogV2, Seals, Carried
  <2> QED BY <1>3, <2>3, <2>4 DEF Clean
<1>6. Shape' = Shape
  BY DEF Shape
<1> QED BY <1>1, <1>2, <1>3, <1>4, <1>5, <1>6

(***************************************************************************)
(* What a registry that is vetted says of the credential it binds.         *)
(***************************************************************************)

\* What keripy's accepting a registry says of its updates.
LEMMA NoFaults ==
  ASSUME NEW rip, NEW updates, Faults(rip, updates) = {}
  PROVE  /\ \A n \in DOMAIN updates : updates[n].sn = n
         /\ \A m \in {rip} \cup Range(updates) : AnchoringV2(m) # {}
         /\ LET read == {n \in DOMAIN updates :
                            Disclosures(updates[n]) # 1 \/ ~Vacuous(updates[n])}
            IN  read # {} => Disclosures(updates[Max(read)]) = 1
<1>1. /\ "FRAME_REJECTED" \notin Faults(rip, updates)
      /\ "ANCHOR_INVALID" \notin Faults(rip, updates)
      /\ "STATE_UNPROVABLE" \notin Faults(rip, updates)
  OBVIOUS
<1>2. \A n \in DOMAIN updates : updates[n].sn = n
  BY <1>1 DEF Faults
<1>3. \A m \in {rip} \cup Range(updates) : AnchoringV2(m) # {}
  BY <1>1 DEF Faults
<1>4. LET read == {n \in DOMAIN updates :
                     Disclosures(updates[n]) # 1 \/ ~Vacuous(updates[n])}
      IN  read # {} => Disclosures(updates[Max(read)]) = 1
  BY <1>1 DEF Faults
<1> QED BY <1>2, <1>3, <1>4

\* The updates of a registry that is vetted are 1, 2, 3 and so on.
LEMMA CleanUpdates ==
  ASSUME Shape, NEW rip \in Rips, Clean(rip)
  PROVE  /\ Len(Updates(rip)) \in Nat /\ DOMAIN Updates(rip) = 1 .. Len(Updates(rip))
         /\ \A n \in DOMAIN Updates(rip) :
               /\ Updates(rip)[n] \in Bups(rip) /\ Updates(rip)[n] \in Carried
               /\ Updates(rip)[n] \in world /\ Updates(rip)[n].sn = n
         /\ \A u \in Bups(rip) : \E n \in DOMAIN Updates(rip) : Updates(rip)[n] = u
         /\ \A u \in Bups(rip) : Shown(u) <=> u.said \in Rec(rip).blinders
<1>1. Updates(rip) \in Seq(Bups(rip)) /\ Range(Updates(rip)) = Bups(rip)
  BY UpdatesAre
<1>2. Len(Updates(rip)) \in Nat /\ DOMAIN Updates(rip) = 1 .. Len(Updates(rip))
  BY <1>1, LenProperties
<1>3. Bups(rip) \subseteq Carried /\ Carried \subseteq world
  BY CarriedType DEF Bups
<1>4. \A n \in DOMAIN Updates(rip) : Updates(rip)[n].sn = n
  BY NoFaults DEF Clean
<1>5. \A u \in Bups(rip) : Shown(u) <=> u.said \in Rec(rip).blinders
  <2>1. \A u, v \in Bups(rip) : u.said = v.said => u = v
    BY <1>3 DEF Shape
  <2>2. Rec(rip).blinders = {u.said : u \in {v \in Bups(rip) : Shown(v)}}
    BY <1>1 DEF Rec, Saids
  <2> QED BY <2>1, <2>2
<1> QED BY <1>1, <1>2, <1>3, <1>4, <1>5 DEF Range

\* The credential a registry binds is named by the last update that says anything, which
\* is the one in force.
LEMMA HeadIs ==
  ASSUME Shape, NEW rip \in Rips, Clean(rip), NEW m \in Rec(rip).credential
  PROVE  \E k \in DOMAIN Updates(rip) :
            /\ Updates(rip)[k].names = m.said
            /\ InForce(Rec(rip)) = k
            /\ LastWord(Updates(rip)[k], Bups(rip))
            /\ \A v : LastWord(v, Bups(rip)) => v = Updates(rip)[k]
<1> DEFINE U == Updates(rip)
           stops == {n \in DOMAIN U : ~Shown(U[n]) \/ ~Vacuous(U[n])}
           k == Max(stops)
<1>1. /\ Len(U) \in Nat /\ DOMAIN U = 1 .. Len(U)
      /\ \A n \in DOMAIN U : U[n] \in Bups(rip) /\ U[n] \in world /\ U[n].sn = n
      /\ \A u \in Bups(rip) : \E n \in DOMAIN U : U[n] = u
      /\ \A u \in Bups(rip) : Shown(u) <=> u.said \in Rec(rip).blinders
  BY CleanUpdates
<1>2. m \in Bound(rip, BoundTarget(U))
  BY DEF Rec
<1>3. m \in Carried /\ m.said = BoundTarget(U)
  BY <1>2 DEF Bound
<1>4. m.said # 0
  BY <1>3, CarriedType, MessageType
<1>5. stops # {} /\ Shown(U[k]) /\ U[k].names = m.said
  BY <1>3, <1>4 DEF BoundTarget
<1>6. stops \in SUBSET Nat /\ \A n \in stops : n <= Len(U)
  BY <1>1
<1>7. k \in stops /\ \A n \in stops : n <= k
  <2> HIDE DEF stops, U
  <2> QED BY <1>1, <1>5, <1>6, GreatestElement
<1>8. k \in DOMAIN U /\ k \in Nat /\ ~Vacuous(U[k])
  BY <1>1, <1>5, <1>7
<1>9. \A n \in DOMAIN U : ~Vacuous(U[n]) => n <= k
  BY <1>7
<1> HIDE DEF stops, k, U
<1>10. InForce(Rec(rip)) = k
  <2> DEFINE S == {n \in DOMAIN U : U[n].said \in Rec(rip).blinders /\ ~Vacuous(U[n])}
  <2>1. InForce(Rec(rip)) = Max(S)
    BY DEF InForce, Rec, U
  <2>2. k \in S /\ S \in SUBSET Nat /\ \A n \in S : n <= k
    BY <1>1, <1>5, <1>8, <1>9
  <2> HIDE DEF S
  <2>3. Max(S) \in S /\ k <= Max(S)
    BY <1>8, <2>2, GreatestElement
  <2> QED BY <1>8, <2>1, <2>2, <2>3
<1>11. LastWord(U[k], Bups(rip))
  <2>1. ASSUME NEW v \in Bups(rip), v # U[k], ~Vacuous(v)
        PROVE  v.sn < U[k].sn
    <3>1. PICK n \in DOMAIN U : U[n] = v
      BY <1>1
    <3>2. n <= k /\ n # k /\ U[k].sn = k /\ v.sn = n /\ n \in Nat
      BY <1>1, <1>8, <1>9, <2>1, <3>1
    <3> QED BY <1>8, <3>2
  <2> QED BY <1>1, <1>8, <2>1 DEF LastWord
<1>12. ASSUME NEW v, LastWord(v, Bups(rip))
       PROVE  v = U[k]
  <2>1. v \in Bups(rip) /\ ~Vacuous(v) /\ \A w \in Bups(rip) \ {v} : ~Vacuous(w) => w.sn < v.sn
    BY <1>12 DEF LastWord
  <2>2. v # U[k] => U[k].sn < v.sn /\ v.sn < U[k].sn
    BY <1>1, <1>8, <1>11, <2>1 DEF LastWord
  <2>3. v.sn \in Nat /\ U[k].sn \in Nat
    BY <1>1, <1>8, <2>1
  <2> QED BY <2>2, <2>3
<1> QED BY <1>5, <1>8, <1>10, <1>11, <1>12 DEF U

(***************************************************************************)
(* The vetting.                                                            *)
(***************************************************************************)

\* What may be recorded, and the inceptions that were.
Records == {Rec(x) : x \in {y \in Rips : Clean(y)}}
Turns == [n \in DOMAIN registries |-> registries[n].rip]

\* The loop records what it has come to, in stream order, and nothing it should refuse.
VetInv ==
  /\ Shape
  /\ pc \in {"gate", "vet", "authorize", "own", "emit", "end"}
  /\ pc # "end" => error = "none"
  /\ registries \in Seq(Records) /\ pending \in Seq(Rips)
  /\ Turns \o pending = Listed("rip")
  /\ pc = "gate" => registries = <<>>
  /\ pc \in {"authorize", "own", "emit"} => pending = <<>>

LEMMA RecFields ==
  ASSUME NEW x
  PROVE  /\ Rec(x).rip = x /\ Rec(x).updates = Updates(x)
         /\ Rec(x).credential = Bound(x, BoundTarget(Updates(x)))
BY DEF Rec

\* The messages of a kind, as a sequence.
LEMMA ListedAre ==
  ASSUME Shape, NEW kind
  PROVE  /\ Listed(kind) \in Seq({m \in Carried : m.kind = kind})
         /\ Range(Listed(kind)) = {m \in Carried : m.kind = kind}
         /\ IsInjective(Listed(kind))
<1> DEFINE X == {m \in Carried : m.kind = kind}
<1>1. /\ Len(frames) \in Nat /\ DOMAIN frames = 1 .. Len(frames)
      /\ \A n \in DOMAIN frames : frames[n] \in Carried
  BY CarriedType
<1>2. frames \in Seq(Carried) /\ IsInjective(frames) /\ Range(frames) = Carried
  BY <1>1 DEF Shape, Carried
<1>3. [n \in DOMAIN frames |-> IF frames[n].kind = kind THEN <<frames[n]>> ELSE <<>>]
        = [n \in DOMAIN frames |-> IF frames[n] \in X THEN <<frames[n]>> ELSE <<>>]
  BY <1>1
<1>0. Listed(kind) = FlattenSeq([n \in DOMAIN frames |->
                                 IF frames[n] \in X THEN <<frames[n]>> ELSE <<>>])
  BY <1>3 DEF Listed
<1> HIDE DEF X
<1>4. /\ Listed(kind) \in Seq(Carried) /\ Range(Listed(kind)) = Carried \cap X
      /\ IsInjective(Listed(kind))
  BY <1>0, <1>2, Sifted
<1>5. Range(Listed(kind)) = X
  BY <1>4 DEF X
<1>6. Listed(kind) \in Seq(X)
  BY <1>4, <1>5 DEF Range
<1> QED BY <1>4, <1>5, <1>6 DEF X

\* Once the loop is done, every registry is recorded and would be accepted.
LEMMA AllVetted ==
  ASSUME VetInv, pending = <<>>
  PROVE  /\ Turns = Listed("rip") /\ Range(Turns) = Rips /\ IsInjective(Turns)
         /\ Len(registries) \in Nat /\ DOMAIN registries = 1 .. Len(registries)
         /\ \A n \in DOMAIN registries :
               /\ registries[n].rip \in Rips /\ Clean(registries[n].rip)
               /\ registries[n] = Rec(registries[n].rip)
         /\ \A x \in Rips : Clean(x) /\ Rec(x) \in Range(registries)
         /\ \A r \in Range(registries) : r.rip \in Rips /\ Clean(r.rip) /\ r = Rec(r.rip)
<1>1. /\ registries \in Seq(Records) /\ Turns \o pending = Listed("rip")
  BY DEF VetInv
<1>2. /\ Len(registries) \in Nat /\ DOMAIN registries = 1 .. Len(registries)
      /\ \A n \in DOMAIN registries : registries[n] \in Records
  BY <1>1, LenProperties
<1>3. \A r \in Records : r.rip \in Rips /\ Clean(r.rip) /\ r = Rec(r.rip)
  BY RecFields DEF Records
<1>4. Turns \in Seq(Rips) /\ DOMAIN Turns = DOMAIN registries
  BY <1>2, <1>3 DEF Turns
<1>5. Turns = Listed("rip")
  BY <1>1, <1>4, ConcatEmptySeq
<1>6. Range(Turns) = Rips /\ IsInjective(Turns)
  BY <1>5, ListedAre DEF VetInv, Rips
<1>7. ASSUME NEW x \in Rips
      PROVE  Clean(x) /\ Rec(x) \in Range(registries)
  <2>1. PICK n \in DOMAIN registries : Turns[n] = x
    BY <1>4, <1>6 DEF Range
  <2>2. registries[n].rip = x
    BY <2>1 DEF Turns
  <2> QED BY <1>2, <1>3, <2>2 DEF Range
<1> QED BY <1>2, <1>3, <1>5, <1>6, <1>7 DEF Range

\* What each function that has returned has established.
AuditInv ==
  /\ pc \in {"vet", "authorize", "own", "emit"} =>
       /\ \A m \in Credentials : ~Mismatched(m)
       /\ \A m \in Carried : ~ThirdParty(m)
  /\ pc \in {"authorize", "own", "emit"} =>
       /\ \A m \in Carried : Accounted(m)
       /\ Incomplete = {}
GrantInv ==
  pc \in {"own", "emit"} =>
    /\ standing = [n \in DOMAIN Standing |-> Standing[n].creder]
    /\ \E d \in Range(Standing) : d.creder.covers
OwnInv == pc = "emit" => \A m \in Carried : IsOwned(m)
JudgeInv == VetInv /\ AuditInv /\ GrantInv /\ OwnInv

\* Judgements that a step which leaves messages and registries alone leaves alone.
LEMMA JudgedAlike ==
  ASSUME UNCHANGED <<world, kel, frames, riding, registries>>
  PROVE  /\ Carried' = Carried /\ Credentials' = Credentials
         /\ \A m : Mismatched(m)' <=> Mismatched(m)
         /\ \A m : ThirdParty(m)' <=> ThirdParty(m)
         /\ \A m : Accounted(m)' <=> Accounted(m)
         /\ \A m : IsOwned(m)' <=> IsOwned(m)
         /\ Incomplete' = Incomplete
         /\ Standing' = Standing
<1>1. Carried' = Carried /\ Credentials' = Credentials
  BY DEF Credentials, Carried
<1>2. \A m : (Mismatched(m)' <=> Mismatched(m)) /\ (ThirdParty(m)' <=> ThirdParty(m))
  BY DEF Mismatched, ThirdParty, Carried, Credentials, Inceptions
<1>3. \A m : AnchoringV1(m)' = AnchoringV1(m) /\ AnchoringV2(m)' = AnchoringV2(m)
  BY DEF AnchoringV1, AnchoringV2, V1Anchors
<1>4. PresentedV1' = PresentedV1
  BY DEF PresentedV1, Carried
<1>5. \A m : Placed(m)' <=> Placed(m)
  BY <1>3, <1>4 DEF Placed
<1>6. \A kind : Of(kind)' = Of(kind)
  BY <1>1 DEF Of
<1>7. Opening' = Opening
  BY <1>5, <1>6 DEF Opening
<1>8. Issuing' = Issuing
  BY <1>5, <1>6, <1>7 DEF Issuing
<1>9. Revoking' = Revoking
  BY <1>5, <1>6, <1>8 DEF Revoking
<1>10. Saved' = Saved
  BY <1>6, <1>7, <1>8 DEF Saved
<1>11. \A m : Accounted(m)' <=> Accounted(m)
  <2>1. AcceptedV1' = AcceptedV1
    BY <1>7, <1>8, <1>9, <1>10 DEF AcceptedV1
  <2>2. VettedSaids' = VettedSaids
    BY DEF VettedSaids
  <2> QED BY <2>1, <2>2 DEF Accounted
<1>12. \A m : IsOwned(m)' <=> IsOwned(m)
  BY <1>1, <1>7, <1>10 DEF IsOwned
<1>13. Incomplete' = Incomplete
  BY <1>4 DEF Incomplete, ForLogV1, V1Anchors
<1>14. Standing' = Standing
  <2>1. ASSUME NEW m PROVE Designation(m)' = Designation(m)
    <3>1. LatestV1(m)' = LatestV1(m) /\ RegistryV2(m)' = RegistryV2(m)
      BY <1>4 DEF LatestV1, RegistryV2
    <3>2. \A r : AnchoredAt(r)' = AnchoredAt(r) /\ State(r)' = State(r)
      BY <1>3 DEF AnchoredAt, Anchors, State, InForce, Vacuous, Sn
    <3> QED BY <1>3, <3>1, <3>2 DEF Designation, Sn
  <2>2. \A m : Owned(m)' <=> Owned(m)
    BY <1>1 DEF Owned
  <2>3. Granted' = Granted
    BY <1>1, <2>1, <2>2 DEF Granted
  <2> QED BY <2>3 DEF Standing, InOrder, Before
<1> QED BY <1>1, <1>2, <1>11, <1>12, <1>13, <1>14

LEMMA JudgeInit == Init => JudgeInv
<1> SUFFICES ASSUME Init PROVE JudgeInv
  OBVIOUS
<1>1. Shape
  BY InitShape
<1>2. pc = "gate" /\ error = "none" /\ registries = <<>> /\ pending = Listed("rip")
  BY DEF Init
<1>3. pending \in Seq(Rips)
  BY <1>1, <1>2, ListedAre DEF Rips
<1>4. Turns = <<>>
  BY <1>2 DEF Turns
<1>5. Turns \o pending = Listed("rip") /\ registries \in Seq(Records)
  BY <1>2, <1>3, <1>4, ConcatEmptySeq, EmptySeq
<1> QED BY <1>1, <1>2, <1>3, <1>5 DEF JudgeInv, VetInv, AuditInv, GrantInv, OwnInv

\* A step that leaves the registries as they are.
LEMMA VetKept ==
  ASSUME VetInv, UNCHANGED <<world, kel, frames, riding, pending, registries>>,
         pc' \in {"gate", "vet", "authorize", "own", "emit", "end"},
         pc' # "end" => error' = "none",
         pc' = "gate" => registries = <<>>,
         pc' \in {"authorize", "own", "emit"} => pending = <<>>
  PROVE  VetInv'
<1>1. Records' = Records /\ Rips' = Rips /\ Turns' = Turns
  BY Kept DEF Records, Turns
<1> QED BY <1>1, Kept DEF VetInv

\* The steps, one by one.
LEMMA JudgeRefuses ==
  ASSUME JudgeInv, NEW code, Refuse(code)
  PROVE  JudgeInv'
<1>1. VetInv'
  BY VetKept DEF JudgeInv, Refuse, given
<1> QED BY <1>1 DEF JudgeInv, AuditInv, GrantInv, OwnInv, Refuse

LEMMA JudgeFails ==
  ASSUME JudgeInv, GateFails \/ VetFails \/ AccountFails \/ AuthorizeFails \/ OwnFails
  PROVE  JudgeInv'
<1>1. \E code : Refuse(code)
  BY DEF GateFails, VetFails, AccountFails, AuthorizeFails, OwnFails
<1> QED BY <1>1, JudgeRefuses

LEMMA JudgeGate ==
  ASSUME JudgeInv, Gate
  PROVE  JudgeInv'
<1>1. /\ pc = "gate" /\ pc' = "vet"
      /\ UNCHANGED <<world, kel, frames, riding, pending, registries, error>>
  BY DEF Gate, given
<1>2. VetInv'
  BY <1>1, VetKept DEF JudgeInv, VetInv
<1>3. AuditInv'
  BY <1>1, JudgedAlike DEF Gate, AuditInv
<1> QED BY <1>1, <1>2, <1>3 DEF JudgeInv, GrantInv, OwnInv

LEMMA JudgeVet ==
  ASSUME JudgeInv, Vet
  PROVE  JudgeInv'
<1>1. /\ pc = "vet" /\ pc' = pc /\ pending # <<>> /\ pending' = Tail(pending) /\ error' = error
      /\ UNCHANGED <<world, kel, frames, riding>>
  BY DEF Vet, given
<1>2. PICK rip : rip = pending[1]
  OBVIOUS
<1>3. Clean(rip) /\ registries' = Append(registries, Rec(rip))
  BY <1>2 DEF Vet, Clean, Rec
<1>4. /\ registries \in Seq(Records) /\ pending \in Seq(Rips) /\ Turns \o pending = Listed("rip")
      /\ Shape
  BY DEF JudgeInv, VetInv
<1>5. rip \in Rips /\ pending' \in Seq(Rips) /\ pending = <<rip>> \o Tail(pending)
  BY <1>1, <1>2, <1>4, HeadTailProperties
<1>6. Rec(rip) \in Records /\ Rec(rip).rip = rip
  BY <1>3, <1>5, RecFields DEF Records
<1>7. Records' = Records /\ Rips' = Rips /\ Listed("rip")' = Listed("rip") /\ Shape'
  BY <1>1, <1>4, Kept DEF Records
<1>8. registries' \in Seq(Records)
  BY <1>3, <1>4, <1>6, AppendProperties
<1>9. Turns \in Seq(Rips) /\ Turns' = Turns \o <<rip>>
  <2>1. Len(registries) \in Nat /\ DOMAIN registries = 1 .. Len(registries)
    BY <1>4, LenProperties
  <2>2. \A n \in DOMAIN registries : registries[n].rip \in Rips
    BY <1>4, RecFields DEF Records
  <2>3. Turns \in Seq(Rips) /\ Len(Turns) = Len(registries)
    BY <2>1, <2>2 DEF Turns
  <2>4. Turns' = Append(Turns, rip)
    BY <1>3, <1>4, <1>6, <2>1, <2>3 DEF Turns
  <2> QED BY <2>3, <2>4, <1>5, AppendIsConcat
<1>10. Turns' \o pending' = Listed("rip")
  <2>1. <<rip>> \in Seq(Rips) /\ Tail(pending) \in Seq(Rips)
    BY <1>1, <1>5
  <2>2. (Turns \o <<rip>>) \o Tail(pending) = Turns \o (<<rip>> \o Tail(pending))
    BY <1>9, <2>1, ConcatAssociative
  <2> QED BY <1>1, <1>4, <1>5, <1>9, <2>2
<1>11. VetInv'
  BY <1>1, <1>4, <1>5, <1>7, <1>8, <1>10 DEF JudgeInv, VetInv
<1>12. AuditInv'
  <2>1. /\ Carried' = Carried /\ Credentials' = Credentials
        /\ \A m : (Mismatched(m)' <=> Mismatched(m)) /\ (ThirdParty(m)' <=> ThirdParty(m))
    BY <1>1 DEF Mismatched, ThirdParty, Carried, Credentials, Inceptions
  <2> QED BY <1>1, <2>1 DEF JudgeInv, AuditInv
<1> QED BY <1>1, <1>11, <1>12 DEF JudgeInv, GrantInv, OwnInv

LEMMA JudgePasses ==
  ASSUME JudgeInv, Account \/ Authorize \/ Own
  PROVE  JudgeInv'
<1>1. UNCHANGED <<world, kel, frames, riding, pending, registries, error>>
  BY DEF Account, Authorize, Own, given
<1>2. CASE Account
  <2>1. pc = "vet" /\ pc' = "authorize" /\ pending = <<>>
    BY <1>2 DEF Account
  <2>2. VetInv'
    BY <1>1, <2>1, VetKept DEF JudgeInv, VetInv
  <2>3. AuditInv'
    BY <1>1, <1>2, <2>1, JudgedAlike DEF Account, JudgeInv, AuditInv
  <2> QED BY <2>1, <2>2, <2>3 DEF JudgeInv, GrantInv, OwnInv
<1>3. CASE Authorize
  <2>1. pc = "authorize" /\ pc' = "own"
    BY <1>3 DEF Authorize
  <2>2. VetInv'
    BY <1>1, <2>1, VetKept DEF JudgeInv, VetInv
  <2>3. AuditInv'
    BY <1>1, <2>1, JudgedAlike DEF JudgeInv, AuditInv
  <2>4. GrantInv'
    BY <1>1, <1>3, <2>1, JudgedAlike DEF Authorize, GrantInv
  <2> QED BY <2>1, <2>2, <2>3, <2>4 DEF JudgeInv, OwnInv
<1>4. CASE Own
  <2>1. pc = "own" /\ pc' = "emit" /\ standing' = standing
    BY <1>4 DEF Own
  <2>2. VetInv'
    BY <1>1, <2>1, VetKept DEF JudgeInv, VetInv
  <2>3. AuditInv'
    BY <1>1, <2>1, JudgedAlike DEF JudgeInv, AuditInv
  <2>4. GrantInv'
    BY <1>1, <2>1, JudgedAlike DEF JudgeInv, GrantInv
  <2>5. OwnInv'
    BY <1>1, <1>4, <2>1, JudgedAlike DEF Own, OwnInv
  <2> QED BY <2>2, <2>3, <2>4, <2>5 DEF JudgeInv
<1> QED BY <1>2, <1>3, <1>4

LEMMA JudgeStutters == JudgeInv /\ UNCHANGED vars => JudgeInv'
<1> SUFFICES ASSUME JudgeInv, UNCHANGED vars PROVE JudgeInv'
  OBVIOUS
<1>1. UNCHANGED <<world, kel, frames, riding, pending, registries, pc, error, standing>>
  BY DEF vars
<1>2. VetInv'
  BY <1>1, VetKept DEF JudgeInv, VetInv
<1> QED BY <1>1, <1>2, JudgedAlike DEF JudgeInv, AuditInv, GrantInv, OwnInv

(***************************************************************************)
(* What is emitted is what was submitted, once.                            *)
(***************************************************************************)

\* A credential that is bound names the registry back.
LEMMA BoundIs ==
  ASSUME Shape, NEW x \in Rips, NEW m \in Rec(x).credential
  PROVE  m \in Carried /\ m.kind = "acm" /\ m.log = x.said
BY RecFields DEF Bound

\* Every version 2 message that is accounted for is of a registry that was vetted.
LEMMA ExplainedV2 ==
  ASSUME JudgeInv, pc \in {"authorize", "own", "emit"}, NEW m \in Carried, m.kind \in V2Kinds
  PROVE  \E x \in Rips : m = x \/ m \in Bups(x) \/ m \in Rec(x).credential
<1>1. VetInv /\ pending = <<>> /\ Shape /\ Accounted(m)
  BY DEF JudgeInv, VetInv, AuditInv
<1>2. m.said \in VettedSaids
  BY <1>1 DEF Accounted
<1>3. PICK r \in Range(registries) :
        \E y \in {r.rip} \cup Range(r.updates) \cup r.credential : y.said = m.said
  BY <1>2 DEF VettedSaids, Saids
<1>4. PICK y \in {r.rip} \cup Range(r.updates) \cup r.credential : y.said = m.said
  BY <1>3
<1>5. r.rip \in Rips /\ r = Rec(r.rip)
  BY <1>1, AllVetted
<1>6. y = r.rip \/ y \in Bups(r.rip) \/ y \in Rec(r.rip).credential
  BY <1>1, <1>4, <1>5, RecFields, UpdatesAre
<1>7. y \in Carried
  BY <1>1, <1>5, <1>6, BoundIs DEF Rips, Bups
<1>8. y = m
  BY <1>1, <1>4, <1>7, CarriedType DEF Shape
<1> QED BY <1>5, <1>6, <1>8

\* Every version 1 message that is accounted for is alone at its place, and anchored there.
LEMMA ExplainedV1 ==
  ASSUME JudgeInv, pc \in {"authorize", "own", "emit"}
  PROVE  /\ \A m \in PresentedV1 : Placed(m)
         /\ Of("acdc") \subseteq Saved
<1>1. \A m \in Carried : m.kind \notin V2Kinds => m \in AcceptedV1
  BY DEF JudgeInv, AuditInv, Accounted
<1>2. ASSUME NEW m \in PresentedV1
      PROVE  Placed(m)
  <2>1. m \in AcceptedV1 /\ m \notin Saved
    BY <1>1 DEF PresentedV1, V1Log, V2Kinds, Saved, Of
  <2> QED BY <2>1 DEF AcceptedV1, Opening, Issuing, Revoking
<1>3. ASSUME NEW m \in Of("acdc")
      PROVE  m \in Saved
  <2>1. m \in AcceptedV1
    BY <1>1 DEF Of, V2Kinds
  <2> QED BY <2>1 DEF AcceptedV1, Opening, Issuing, Revoking, Of
<1> QED BY <1>2, <1>3

\* The events of one version 1 log, each once.
LEMMA LogOfIs ==
  ASSUME JudgeInv, pc \in {"authorize", "own", "emit"}, NEW said
  PROVE  /\ LogOf(said) \in Seq(Carried) /\ IsInjective(LogOf(said))
         /\ Range(LogOf(said)) = {m \in PresentedV1 : m.log = said}
<1> DEFINE S == {m \in PresentedV1 : m.log = said}
           R == {p \in S \X S : p[1].sn < p[2].sn}
           Good(t) == \A j, k \in DOMAIN t : j < k => t[j].sn < t[k].sn
<1>1. Shape
  BY DEF JudgeInv, VetInv
<1>2. S \subseteq Carried /\ Carried \subseteq world /\ IsFiniteSet(Carried)
  BY <1>1, CarriedType DEF PresentedV1
<1>3. IsFiniteSet(S)
  BY <1>2, FS_Subset
<1>4. \A a \in S : a.sn \in Nat
  BY <1>1, <1>2, MessageType
<1>5. \A a, b \in S : a.sn = b.sn => a = b
  BY ExplainedV1 DEF Placed
<1>6. \A a, b \in S : <<a, b>> \in R <=> a.sn < b.sn
  OBVIOUS
<1>7. LogOf(said) = CHOOSE t \in SetToSeqs(S) : Good(t)
  BY DEF LogOf, InOrder
<1>8. TotalOn(R, S)
  <2> HIDE DEF R, S
  <2> QED BY <1>4, <1>5, <1>6 DEF TotalOn
<1>9. PICK s \in SetToSeqs(S) : Sorted(s, R)
  BY <1>3, <1>8, OrderExists
<1>10. Good(s)
  BY <1>9 DEF Sorted
<1> HIDE DEF R, S, Good
<1>11. LogOf(said) \in SetToSeqs(S)
  BY <1>7, <1>9, <1>10
<1>12. LogOf(said) \in Seq(S) /\ Range(LogOf(said)) = S /\ IsInjective(LogOf(said))
  BY <1>3, <1>11, RangeOfOrder
<1>13. LogOf(said) \in Seq(Carried)
  BY <1>2, <1>12
<1> QED BY <1>12, <1>13 DEF S

\* What is written of version 1: a registry's log where it is first named, a
\* credential's before the credential.
LEMMA EmittedV1Is ==
  ASSUME JudgeInv, pc = "emit"
  PROVE  /\ EmittedV1 \in Seq(Carried) /\ IsInjective(EmittedV1)
         /\ Range(EmittedV1) = PresentedV1 \cup Of("acdc")
<1> DEFINE creders == Listed("acdc")
           vcps == Listed("vcp")
           all == [n \in DOMAIN creders |-> creders[n].log] \o [n \in DOMAIN vcps |-> vcps[n].log]
           logs == Distinct(all)
           A == [n \in DOMAIN logs |-> LogOf(logs[n])]
           B == [n \in DOMAIN creders |-> Append(LogOf(creders[n].said), creders[n])]
<1>1. Shape /\ pc \in {"authorize", "own", "emit"}
  BY DEF JudgeInv, VetInv
<1>2. /\ creders \in Seq(Of("acdc")) /\ Range(creders) = Of("acdc") /\ IsInjective(creders)
      /\ vcps \in Seq(Of("vcp")) /\ Range(vcps) = Of("vcp")
  BY <1>1, ListedAre DEF Of
<1>3. \A kind : Of(kind) \subseteq Carried /\ Of(kind) \subseteq world
  BY <1>1, CarriedType DEF Of
<1>4. /\ all \in Seq(Nat)
      /\ Range(all) = {m.log : m \in Of("acdc")} \cup {m.log : m \in Of("vcp")}
  <2>1. \A m \in Of("acdc") \cup Of("vcp") : m.log \in Nat
    BY <1>1, <1>3, MessageType
  <2> HIDE DEF creders, vcps
  <2>2. /\ [n \in DOMAIN creders |-> creders[n].log] \in Seq(Nat)
        /\ [n \in DOMAIN vcps |-> vcps[n].log] \in Seq(Nat)
    <3>1. /\ Len(creders) \in Nat /\ DOMAIN creders = 1 .. Len(creders)
          /\ \A n \in DOMAIN creders : creders[n].log \in Nat
      BY <1>2, <2>1
    <3>2. /\ Len(vcps) \in Nat /\ DOMAIN vcps = 1 .. Len(vcps)
          /\ \A n \in DOMAIN vcps : vcps[n].log \in Nat
      BY <1>2, <2>1
    <3>3. [n \in DOMAIN creders |-> creders[n].log] \in Seq(Nat)
      BY <3>1, IsASeq
    <3>4. [n \in DOMAIN vcps |-> vcps[n].log] \in Seq(Nat)
      BY <3>2, IsASeq
    <3> QED BY <3>3, <3>4
  <2>3. /\ Range([n \in DOMAIN creders |-> creders[n].log]) = {m.log : m \in Of("acdc")}
        /\ Range([n \in DOMAIN vcps |-> vcps[n].log]) = {m.log : m \in Of("vcp")}
    BY <1>2 DEF Range
  <2>4. PICK s, t : /\ s = [n \in DOMAIN creders |-> creders[n].log]
                    /\ t = [n \in DOMAIN vcps |-> vcps[n].log]
    OBVIOUS
  <2>6. s \in Seq(Nat) /\ t \in Seq(Nat)
    BY <2>2, <2>4
  <2>5. s \o t \in Seq(Nat) /\ Range(s \o t) = Range(s) \cup Range(t)
    BY <2>6, RangeOfConcat
  <2> QED BY <2>3, <2>4, <2>5
<1>5. {m.log : m \in Of("acdc")} \cup {m.log : m \in Of("vcp")} = Saids(Of("vcp"))
  <2>1. \A m \in Of("vcp") : m.log = m.said
    BY <1>1, <1>3 DEF Shape, Of
  <2>2. \A m \in Of("acdc") : \E x \in Of("vcp") : x.log = m.log
    BY <1>1, ExplainedV1 DEF Saved, Opening
  <2> QED BY <2>1, <2>2 DEF Saids
<1> HIDE DEF all
<1>6. logs \in Seq(Nat) /\ Range(logs) = Saids(Of("vcp")) /\ IsInjective(logs)
  BY <1>4, <1>5, RangeOfOnce, OnceIsInjective DEF Distinct
<1> HIDE DEF logs, creders, vcps
<1>7. \A said : /\ LogOf(said) \in Seq(Carried) /\ IsInjective(LogOf(said))
                /\ Range(LogOf(said)) = {m \in PresentedV1 : m.log = said}
  BY <1>1, LogOfIs
<1>8. /\ FlattenSeq(A) \in Seq(Carried) /\ IsInjective(FlattenSeq(A))
      /\ Range(FlattenSeq(A)) = {m \in PresentedV1 : m.log \in Saids(Of("vcp"))}
  <2>1. A \in Seq(Seq(Carried)) /\ DOMAIN A = DOMAIN logs
    BY <1>6, <1>7
  <2>2. \A n \in DOMAIN A : IsInjective(A[n]) /\ Range(A[n]) = {m \in PresentedV1 : m.log = logs[n]}
    BY <1>7
  <2> HIDE DEF A
  <2>3. \A j, k \in DOMAIN A : j # k => Range(A[j]) \cap Range(A[k]) = {}
    <3>1. \A j, k \in DOMAIN logs : j # k => logs[j] # logs[k]
      BY <1>6 DEF IsInjective
    <3>2. \A j, k \in DOMAIN A : j # k => logs[j] # logs[k]
      BY <2>1, <3>1
    <3> QED BY <2>2, <3>2
  <2>4. /\ FlattenSeq(A) \in Seq(Carried) /\ IsInjective(FlattenSeq(A))
        /\ Range(FlattenSeq(A)) = UNION {Range(A[n]) : n \in DOMAIN A}
    BY <2>1, <2>2, <2>3, RangeOfFlatten, InjectiveFlatten
  <2>5. UNION {Range(A[n]) : n \in DOMAIN A} = {m \in PresentedV1 : m.log \in Range(logs)}
    BY <2>1, <2>2 DEF Range
  <2> QED BY <1>6, <2>4, <2>5
<1>9. /\ FlattenSeq(B) \in Seq(Carried) /\ IsInjective(FlattenSeq(B))
      /\ Range(FlattenSeq(B)) = Of("acdc") \cup {m \in PresentedV1 : m.log \in Saids(Of("acdc"))}
  <2>1. \A n \in DOMAIN creders : creders[n] \in Of("acdc") /\ creders[n] \in Carried
                                  /\ creders[n] \notin PresentedV1
    <3>1. \A n \in DOMAIN creders : creders[n] \in Of("acdc")
      BY <1>2
    <3> QED BY <1>3, <3>1 DEF Of, PresentedV1, V1Log
  <2>2. ASSUME NEW n \in DOMAIN creders
        PROVE  /\ B[n] \in Seq(Carried) /\ IsInjective(B[n])
               /\ Range(B[n]) = {m \in PresentedV1 : m.log = creders[n].said} \cup {creders[n]}
    <3>1. PICK s, x : s = LogOf(creders[n].said) /\ x = creders[n]
      OBVIOUS
    <3>2. /\ s \in Seq(Carried) /\ IsInjective(s) /\ x \in Carried /\ x \notin Range(s)
          /\ Range(s) = {m \in PresentedV1 : m.log = creders[n].said}
      BY <1>7, <2>1, <3>1
    <3>3. /\ Append(s, x) = s \o <<x>> /\ <<x>> \in Seq(Carried)
          /\ Range(<<x>>) = {x} /\ IsInjective(<<x>>)
      BY <3>2, AppendIsConcat DEF Range, IsInjective
    <3>4. PICK t : t = <<x>>
      OBVIOUS
    <3>5. Range(s) \cap Range(t) = {} /\ B[n] = s \o t
      BY <3>1, <3>2, <3>3, <3>4
    <3>6. s \in Seq(Carried) /\ t \in Seq(Carried) /\ IsInjective(s) /\ IsInjective(t)
      BY <3>2, <3>3, <3>4
    <3>7. s \o t \in Seq(Carried) /\ IsInjective(s \o t) /\ Range(s \o t) = Range(s) \cup Range(t)
      BY <3>5, <3>6, OnceConcat
    <3> QED BY <3>1, <3>2, <3>3, <3>4, <3>5, <3>7
  <2>3. DOMAIN B = DOMAIN creders
    OBVIOUS
  <2> HIDE DEF B
  <2>4. B \in Seq(Seq(Carried))
    <3>1. B = [n \in DOMAIN creders |-> B[n]]
      BY <2>3 DEF B
    <3>2. Len(creders) \in Nat /\ DOMAIN creders = 1 .. Len(creders)
      BY <1>2, LenProperties
    <3> QED BY <2>2, <3>1, <3>2
  <2>5. \A j, k \in DOMAIN B : j # k => Range(B[j]) \cap Range(B[k]) = {}
    <3>1. \A j, k \in DOMAIN creders : j # k => creders[j] # creders[k]
      BY <1>2 DEF IsInjective
    <3>2. \A j, k \in DOMAIN creders : j # k => creders[j].said # creders[k].said
      BY <1>1, <1>3, <2>1, <3>1 DEF Shape
    <3> QED BY <2>1, <2>2, <2>3, <3>1, <3>2
  <2>6. /\ FlattenSeq(B) \in Seq(Carried) /\ IsInjective(FlattenSeq(B))
        /\ Range(FlattenSeq(B)) = UNION {Range(B[n]) : n \in DOMAIN B}
    BY <2>2, <2>3, <2>4, <2>5, RangeOfFlatten, InjectiveFlatten
  <2>7. \A x \in Of("acdc") : \E n \in DOMAIN creders : creders[n] = x
    BY <1>2 DEF Range
  <2>8. UNION {Range(B[n]) : n \in DOMAIN B}
          = Of("acdc") \cup {m \in PresentedV1 : m.log \in Saids(Of("acdc"))}
    BY <2>1, <2>2, <2>3, <2>7 DEF Saids
  <2> QED BY <2>6, <2>8
<1>10. Range(FlattenSeq(A)) \cap Range(FlattenSeq(B)) = {}
  <2>1. \A x \in Of("vcp"), y \in Of("acdc") : x.said # y.said
    BY <1>1, <1>3 DEF Shape, Of
  <2>2. \A m \in PresentedV1 : m \notin Of("acdc")
    BY DEF PresentedV1, Of, V1Log
  <2> QED BY <1>8, <1>9, <2>1, <2>2 DEF Saids
<1>11. \A m \in PresentedV1 : m.log \in Saids(Of("vcp")) \cup Saids(Of("acdc"))
  <2> SUFFICES ASSUME NEW m \in PresentedV1
               PROVE  m.log \in Saids(Of("vcp")) \cup Saids(Of("acdc"))
    OBVIOUS
  <2>1. IsOwned(m) /\ m.kind \in V1Log
    BY DEF JudgeInv, OwnInv, PresentedV1
  <2>2. m.kind \notin V2Kinds /\ m \notin Credentials
    BY <2>1 DEF V1Log, V2Kinds, Credentials
  <2>3. (\E x \in Opening : x.log = m.log) \/ \E x \in Saved : x.said = m.log
    BY <2>1, <2>2 DEF IsOwned
  <2>4. \A x \in Opening : x.log = x.said /\ x \in Of("vcp")
    BY <1>1, <1>3 DEF Opening, Shape, Of
  <2> QED BY <2>3, <2>4 DEF Saved, Saids
<1>12. EmittedV1 = FlattenSeq(A) \o FlattenSeq(B)
  BY DEF EmittedV1, logs, all, creders, vcps
<1> HIDE DEF A, B
<1>13. /\ EmittedV1 \in Seq(Carried) /\ IsInjective(EmittedV1)
       /\ Range(EmittedV1) = Range(FlattenSeq(A)) \cup Range(FlattenSeq(B))
  BY <1>8, <1>9, <1>10, <1>12, OnceConcat
<1> QED BY <1>8, <1>9, <1>11, <1>13

\* The registries, in the order they are written.
LEMMA VettedIs ==
  ASSUME JudgeInv, pc = "emit"
  PROVE  /\ Vetted \in Seq(Records) /\ Range(Vetted) = Range(registries)
         /\ Len(Vetted) \in Nat /\ DOMAIN Vetted = 1 .. Len(Vetted)
         /\ \A n \in DOMAIN Vetted : /\ Vetted[n].rip \in Rips /\ Clean(Vetted[n].rip)
                                     /\ Vetted[n] = Rec(Vetted[n].rip)
         /\ \A j, k \in DOMAIN Vetted : Vetted[j].rip = Vetted[k].rip => j = k
         /\ \A x \in Rips : \E n \in DOMAIN Vetted : Vetted[n].rip = x
<1>1. VetInv /\ pending = <<>> /\ registries \in Seq(Records)
  BY DEF JudgeInv, VetInv
<1>2. IsInjective(registries)
  <2>1. IsInjective(Turns) /\ DOMAIN Turns = DOMAIN registries
        /\ \A n \in DOMAIN registries : Turns[n] = registries[n].rip
    BY <1>1, AllVetted DEF Turns
  <2> QED BY <2>1 DEF IsInjective
<1> DEFINE C(b) == {r \in Records : (r.credential # {}) = b}
<1>3. \A n \in DOMAIN registries : registries[n] \in Records
  BY <1>1
<1>4. ASSUME NEW b \in BOOLEAN
      PROVE  /\ Binding(b) \in Seq(Records) /\ Range(Binding(b)) = Range(registries) \cap C(b)
             /\ IsInjective(Binding(b))
  <2>1. Binding(b) = FlattenSeq([n \in DOMAIN registries |->
                        IF registries[n] \in C(b) THEN <<registries[n]>> ELSE <<>>])
    <3>1. \A n \in DOMAIN registries : registries[n] \in C(b) <=> (registries[n].credential # {}) = b
      BY <1>3
    <3> QED BY <3>1 DEF Binding
  <2> HIDE DEF C
  <2> QED BY <1>1, <1>2, <2>1, Sifted
<1>5. Range(registries) \subseteq Records
  BY <1>1, RangeOfSeq
<1>6. C(TRUE) \cap C(FALSE) = {} /\ Records = C(TRUE) \cup C(FALSE)
  OBVIOUS
<1> HIDE DEF C
<1>7. /\ Vetted \in Seq(Records) /\ Range(Vetted) = Range(registries) /\ IsInjective(Vetted)
  <2>1. Vetted = Binding(FALSE) \o Binding(TRUE)
    BY DEF Vetted
  <2>2. PICK s, t : s = Binding(FALSE) /\ t = Binding(TRUE)
    OBVIOUS
  <2>3. /\ s \in Seq(Records) /\ IsInjective(s) /\ Range(s) = Range(registries) \cap C(FALSE)
        /\ t \in Seq(Records) /\ IsInjective(t) /\ Range(t) = Range(registries) \cap C(TRUE)
    BY <1>4, <2>2
  <2>4. Range(s) \cap Range(t) = {} /\ Range(s) \cup Range(t) = Range(registries)
    BY <1>5, <1>6, <2>3
  <2>5. s \o t \in Seq(Records) /\ IsInjective(s \o t) /\ Range(s \o t) = Range(s) \cup Range(t)
    <3>1. s \in Seq(Records) /\ t \in Seq(Records) /\ IsInjective(s) /\ IsInjective(t)
      BY <2>3
    <3>2. Range(s) \cap Range(t) = {}
      BY <2>4
    <3> QED BY <3>1, <3>2, OnceConcat
  <2> QED BY <2>1, <2>2, <2>4, <2>5
<1>8. Len(Vetted) \in Nat /\ DOMAIN Vetted = 1 .. Len(Vetted)
  BY <1>7, LenProperties
<1>9. \A n \in DOMAIN Vetted : Vetted[n] \in Range(registries)
  BY <1>7 DEF Range
<1>10. \A n \in DOMAIN Vetted : /\ Vetted[n].rip \in Rips /\ Clean(Vetted[n].rip)
                                /\ Vetted[n] = Rec(Vetted[n].rip)
  BY <1>1, <1>9, AllVetted
<1>11. \A j, k \in DOMAIN Vetted : Vetted[j].rip = Vetted[k].rip => j = k
  BY <1>7, <1>10 DEF IsInjective
<1>12. ASSUME NEW x \in Rips
       PROVE  \E n \in DOMAIN Vetted : Vetted[n].rip = x
  <2>1. Rec(x) \in Range(Vetted)
    BY <1>1, <1>7, AllVetted
  <2>2. PICK n \in DOMAIN Vetted : Vetted[n] = Rec(x)
    BY <2>1 DEF Range
  <2> QED BY <2>2, RecFields
<1> QED BY <1>7, <1>8, <1>10, <1>11, <1>12

\* What is written of version 2: credentials, then registries with their updates.
LEMMA EmittedV2Is ==
  ASSUME JudgeInv, pc = "emit"
  PROVE  /\ EmittedV2 \in Seq(Carried) /\ IsInjective(EmittedV2)
         /\ Range(EmittedV2) = {m \in Carried : m.kind \in V2Kinds}
<1> DEFINE A == [n \in DOMAIN Vetted |-> SetToSeq(Vetted[n].credential)]
           B == [n \in DOMAIN Vetted |-> <<Vetted[n].rip>> \o Vetted[n].updates]
<1>1. Shape /\ pc \in {"authorize", "own", "emit"}
  BY DEF JudgeInv, VetInv
<1>2. /\ Len(Vetted) \in Nat /\ DOMAIN Vetted = 1 .. Len(Vetted)
      /\ \A n \in DOMAIN Vetted : /\ Vetted[n].rip \in Rips /\ Clean(Vetted[n].rip)
                                  /\ Vetted[n] = Rec(Vetted[n].rip)
      /\ \A j, k \in DOMAIN Vetted : Vetted[j].rip = Vetted[k].rip => j = k
      /\ \A x \in Rips : \E n \in DOMAIN Vetted : Vetted[n].rip = x
  BY VettedIs
<1>3. \A j, k \in DOMAIN Vetted : j # k => Vetted[j].rip.said # Vetted[k].rip.said
  BY <1>1, <1>2, CarriedType DEF Shape, Rips
<1>4. \A n \in DOMAIN Vetted :
        /\ Vetted[n].credential = Rec(Vetted[n].rip).credential
        /\ Vetted[n].updates = Updates(Vetted[n].rip)
  BY <1>2, RecFields
<1>5. \A n \in DOMAIN Vetted : \A m \in Vetted[n].credential :
        m \in Carried /\ m.kind = "acm" /\ m.log = Vetted[n].rip.said
  BY <1>1, <1>2, <1>4, BoundIs
<1>6. /\ FlattenSeq(A) \in Seq(Carried) /\ IsInjective(FlattenSeq(A))
      /\ Range(FlattenSeq(A)) = UNION {Vetted[n].credential : n \in DOMAIN Vetted}
  <2>1. ASSUME NEW n \in DOMAIN Vetted
        PROVE  A[n] \in Seq(Carried) /\ IsInjective(A[n]) /\ Range(A[n]) = Vetted[n].credential
    <3>1. PICK S : S = Vetted[n].credential
      OBVIOUS
    <3>2. S \subseteq Carried
      BY <1>5, <3>1
    <3>3. IsFiniteSet(S)
      BY <1>1, <3>2, CarriedType, FS_Subset
    <3>4. SetToSeq(S) \in Seq(S) /\ Range(SetToSeq(S)) = S /\ IsInjective(SetToSeq(S))
      BY <3>3, RangeOfSetToSeq
    <3>5. SetToSeq(S) \in Seq(Carried)
      BY <3>2, <3>4
    <3> QED BY <3>1, <3>4, <3>5
  <2>2. DOMAIN A = DOMAIN Vetted
    OBVIOUS
  <2> HIDE DEF A
  <2>3. A \in Seq(Seq(Carried))
    <3>1. A = [n \in DOMAIN Vetted |-> A[n]]
      BY <2>2 DEF A
    <3> QED BY <1>2, <2>1, <3>1
  <2>4. \A j, k \in DOMAIN A : j # k => Range(A[j]) \cap Range(A[k]) = {}
    BY <1>3, <1>5, <2>1, <2>2
  <2>5. /\ FlattenSeq(A) \in Seq(Carried) /\ IsInjective(FlattenSeq(A))
        /\ Range(FlattenSeq(A)) = UNION {Range(A[n]) : n \in DOMAIN A}
    BY <2>1, <2>2, <2>3, <2>4, RangeOfFlatten, InjectiveFlatten
  <2>6. UNION {Range(A[n]) : n \in DOMAIN A} = UNION {Vetted[n].credential : n \in DOMAIN Vetted}
    BY <2>1, <2>2
  <2> QED BY <2>5, <2>6
<1>7. /\ FlattenSeq(B) \in Seq(Carried) /\ IsInjective(FlattenSeq(B))
      /\ Range(FlattenSeq(B)) = UNION {{x} \cup Bups(x) : x \in Rips}
  <2>1. ASSUME NEW n \in DOMAIN Vetted
        PROVE  /\ B[n] \in Seq(Carried) /\ IsInjective(B[n])
               /\ Range(B[n]) = {Vetted[n].rip} \cup Bups(Vetted[n].rip)
    <3>1. PICK x, U : x = Vetted[n].rip /\ U = Vetted[n].updates
      OBVIOUS
    <3>2. /\ x \in Carried /\ U \in Seq(Bups(x)) /\ Range(U) = Bups(x) /\ IsInjective(U)
      BY <1>1, <1>2, <1>4, <3>1, UpdatesAre DEF Rips
    <3>3. x \notin Bups(x) /\ Bups(x) \subseteq Carried
      BY <1>2, <3>1 DEF Rips, Bups
    <3>4. U \in Seq(Carried)
      BY <3>2, <3>3
    <3>5. <<x>> \in Seq(Carried) /\ Range(<<x>>) = {x} /\ IsInjective(<<x>>)
      BY <3>2 DEF Range, IsInjective
    <3>7. PICK s : s = <<x>>
      OBVIOUS
    <3>8. Range(s) \cap Range(U) = {}
      BY <3>2, <3>3, <3>5, <3>7
    <3>9. s \in Seq(Carried) /\ IsInjective(s) /\ IsInjective(U)
      BY <3>2, <3>5, <3>7
    <3>6. s \o U \in Seq(Carried) /\ IsInjective(s \o U) /\ Range(s \o U) = Range(s) \cup Range(U)
      BY <3>4, <3>8, <3>9, OnceConcat
    <3> QED BY <3>1, <3>2, <3>5, <3>6, <3>7
  <2>2. DOMAIN B = DOMAIN Vetted
    OBVIOUS
  <2> HIDE DEF B
  <2>3. B \in Seq(Seq(Carried))
    <3>1. B = [n \in DOMAIN Vetted |-> B[n]]
      BY <2>2 DEF B
    <3> QED BY <1>2, <2>1, <3>1
  <2>4. \A j, k \in DOMAIN B : j # k => Range(B[j]) \cap Range(B[k]) = {}
    <3>1. \A n \in DOMAIN Vetted : Vetted[n].rip.kind = "rip"
      BY <1>2 DEF Rips
    <3>2. \A x : \A u \in Bups(x) : u.kind = "bup" /\ u.log = x.said
      BY DEF Bups
    <3>3. ASSUME NEW j \in DOMAIN Vetted, NEW k \in DOMAIN Vetted, j # k,
                 NEW m \in Range(B[j]), m \in Range(B[k])
          PROVE  FALSE
      <4>1. PICK x, y : x = Vetted[j].rip /\ y = Vetted[k].rip
        OBVIOUS
      <4>2. m \in {x} \cup Bups(x) /\ m \in {y} \cup Bups(y) /\ x.kind = "rip" /\ y.kind = "rip"
        BY <2>1, <3>1, <3>3, <4>1
      <4>3. x.said = y.said
        BY <3>2, <4>2
      <4> QED BY <1>2, <1>3, <3>3, <4>1, <4>3
    <3> QED BY <2>2, <3>3
  <2>5. /\ FlattenSeq(B) \in Seq(Carried) /\ IsInjective(FlattenSeq(B))
        /\ Range(FlattenSeq(B)) = UNION {Range(B[n]) : n \in DOMAIN B}
    BY <2>1, <2>2, <2>3, <2>4, RangeOfFlatten, InjectiveFlatten
  <2>6. UNION {Range(B[n]) : n \in DOMAIN B} = UNION {{x} \cup Bups(x) : x \in Rips}
    BY <1>2, <2>1, <2>2
  <2> QED BY <2>5, <2>6
<1>8. Range(FlattenSeq(A)) \cap Range(FlattenSeq(B)) = {}
  <2>1. \A m \in Range(FlattenSeq(A)) : m.kind = "acm"
    BY <1>5, <1>6
  <2>2. \A m \in Range(FlattenSeq(B)) : m.kind # "acm"
    BY <1>7 DEF Rips, Bups
  <2> QED BY <2>1, <2>2
<1>9. EmittedV2 = FlattenSeq(A) \o FlattenSeq(B)
  BY DEF EmittedV2
<1> HIDE DEF A, B
<1>10. /\ EmittedV2 \in Seq(Carried) /\ IsInjective(EmittedV2)
       /\ Range(EmittedV2) = Range(FlattenSeq(A)) \cup Range(FlattenSeq(B))
  BY <1>6, <1>7, <1>8, <1>9, OnceConcat
<1>11. ASSUME NEW m \in Carried, m.kind \in V2Kinds
       PROVE  m \in Range(FlattenSeq(A)) \cup Range(FlattenSeq(B))
  <2>1. PICK x \in Rips : m = x \/ m \in Bups(x) \/ m \in Rec(x).credential
    BY <1>1, <1>11, ExplainedV2
  <2>2. PICK n \in DOMAIN Vetted : Vetted[n].rip = x
    BY <1>2
  <2>3. Vetted[n].credential = Rec(x).credential
    BY <1>4, <2>2
  <2> QED BY <1>6, <1>7, <2>1, <2>3
<1>12. \A m \in Range(FlattenSeq(A)) \cup Range(FlattenSeq(B)) :
         m \in Carried /\ m.kind \in V2Kinds
  BY <1>5, <1>6, <1>7 DEF Rips, Bups, V2Kinds
<1> QED BY <1>10, <1>11, <1>12

\* All of it.
LEMMA EmittedIs ==
  ASSUME JudgeInv, pc = "emit"
  PROVE  /\ EmittedV1 \o EmittedV2 \in Seq(Carried) /\ IsInjective(EmittedV1 \o EmittedV2)
         /\ Range(EmittedV1 \o EmittedV2) = Carried
<1>1. Shape
  BY DEF JudgeInv, VetInv
<1>2. PICK s, t : s = EmittedV1 /\ t = EmittedV2
  OBVIOUS
<1>3. /\ s \in Seq(Carried) /\ IsInjective(s) /\ Range(s) = PresentedV1 \cup Of("acdc")
      /\ t \in Seq(Carried) /\ IsInjective(t) /\ Range(t) = {m \in Carried : m.kind \in V2Kinds}
  BY <1>2, EmittedV1Is, EmittedV2Is
<1>4. Range(s) \cap Range(t) = {} /\ Range(s) \cup Range(t) = Carried
  <2>1. \A m \in Carried : m.kind \in V2Kinds \cup V1Log \cup {"acdc"}
    BY <1>1, CarriedType, MessageType
  <2> QED BY <1>3, <2>1 DEF PresentedV1, Of, V1Log, V2Kinds
<1>5. s \o t \in Seq(Carried) /\ IsInjective(s \o t) /\ Range(s \o t) = Range(s) \cup Range(t)
  BY <1>3, <1>4, OnceConcat
<1> QED BY <1>2, <1>4, <1>5

(***************************************************************************)
(* What a designation is worth, from the messages alone.                   *)
(***************************************************************************)

\* The update that speaks of a credential, and the designation it makes of it.
UpdatesOf(m) == {x \in Carried : x.kind = "bup" /\ x.log = m.log}
Word(m) == CHOOSE u \in UpdatesOf(m) : LastWord(u, UpdatesOf(m))
Worth(m) ==
  IF m.kind = "acm"
  THEN [creder |-> m, revoked |-> Word(m).state # "issued", at |-> Sn(AnchoringV2(Word(m)))]
  ELSE [creder |-> m, revoked |-> LatestV1(m).kind = "rev", at |-> Sn(AnchoringV1(LatestV1(m)))]
Ranked ==
  InOrder({d \in {Worth(m) : m \in {x \in Credentials : Owned(x)}} : ~d.revoked}, Before)

\* The registry of the subject's own credential is its own, of version 2 and binds it.
LEMMA OwnRegistry ==
  ASSUME JudgeInv, pc \in {"authorize", "own", "emit"},
         NEW m \in Carried, m.kind = "acm", Owned(m)
  PROVE  \E rip \in Rips : /\ rip.said = m.log /\ rip.aid = Aid /\ m \in Rec(rip).credential
                           /\ Clean(rip) /\ RegistryV2(m) = Rec(rip)
<1>1. VetInv /\ pending = <<>> /\ Shape /\ \A x \in Credentials : ~Mismatched(x)
  BY DEF JudgeInv, VetInv, AuditInv
<1>2. PICK x \in Carried : x.kind \in {"rip", "vcp"} /\ x.said = m.log /\ x.aid = Aid
  BY DEF Owned
<1>3. x.log = x.said
  BY <1>1, <1>2, CarriedType DEF Shape
<1>4. x.kind = "rip"
  <2>1. ~Mismatched(m)
    BY <1>1 DEF Credentials
  <2>2. x.kind = "vcp" => Mismatched(m)
    BY <1>2, <1>3 DEF Mismatched
  <2> QED BY <1>2, <2>1, <2>2
<1>5. x \in Rips
  BY <1>4 DEF Rips
<1>6. \A y \in Rips : y.said = x.said => y = x
  BY <1>1, <1>5, CarriedType DEF Shape, Rips
<1>7. m \in Rec(x).credential
  <2>1. PICK y \in Rips : m = y \/ m \in Bups(y) \/ m \in Rec(y).credential
    BY ExplainedV2 DEF V2Kinds
  <2>2. m \in Rec(y).credential
    BY <2>1 DEF Rips, Bups
  <2>3. m.log = y.said
    BY <1>1, <2>2, BoundIs
  <2> QED BY <1>2, <1>6, <2>2, <2>3
<1>8. Clean(x) /\ Rec(x) \in Range(registries)
  BY <1>1, <1>5, AllVetted
<1>9. \A r \in Range(registries) : r.rip.said = m.log => r = Rec(x)
  BY <1>1, <1>2, <1>6, AllVetted
<1>10. RegistryV2(m) = Rec(x)
  BY <1>2, <1>8, <1>9, RecFields DEF RegistryV2
<1> QED BY <1>2, <1>5, <1>7, <1>8, <1>10

\* What State and AnchoredAt read of a registry is the last word of its updates.
LEMMA WordIs ==
  ASSUME JudgeInv, pc \in {"authorize", "own", "emit"},
         NEW m \in Carried, m.kind = "acm", Owned(m)
  PROVE  /\ Word(m) \in UpdatesOf(m) /\ LastWord(Word(m), UpdatesOf(m))
         /\ Word(m).names = m.said /\ AnchoringV2(Word(m)) # {}
         /\ State(RegistryV2(m)) = Word(m).state
         /\ AnchoredAt(RegistryV2(m)) = Sn(AnchoringV2(Word(m)))
         /\ Missing(RegistryV2(m).rip, RegistryV2(m).updates) = {}
         /\ RegistryV2(m).rip \in Rips /\ RegistryV2(m).rip.said = m.log
         /\ RegistryV2(m).rip.aid = Aid
         /\ Range(RegistryV2(m).updates) = UpdatesOf(m)
<1>1. Shape
  BY DEF JudgeInv, VetInv
<1>2. PICK rip \in Rips : /\ rip.said = m.log /\ rip.aid = Aid /\ m \in Rec(rip).credential
                          /\ Clean(rip) /\ RegistryV2(m) = Rec(rip)
  BY OwnRegistry
<1>3. UpdatesOf(m) = Bups(rip)
  BY <1>2 DEF UpdatesOf, Bups
<1>4. PICK U : U = Updates(rip)
  OBVIOUS
<1>5. PICK k \in DOMAIN U :
         /\ U[k].names = m.said /\ InForce(Rec(rip)) = k
         /\ LastWord(U[k], Bups(rip)) /\ \A v : LastWord(v, Bups(rip)) => v = U[k]
  BY <1>1, <1>2, <1>4, HeadIs
<1>6. U[k] \in Bups(rip)
  BY <1>5 DEF LastWord
<1>7. Word(m) = U[k]
  BY <1>3, <1>5, <1>6 DEF Word
<1>8. U \in Seq(Bups(rip)) /\ Range(U) = Bups(rip) /\ Len(U) \in Nat /\ DOMAIN U = 1 .. Len(U)
  BY <1>1, <1>4, UpdatesAre, LenProperties
<1>9. AnchoringV2(U[k]) # {}
  BY <1>2, <1>4, <1>6, <1>8, NoFaults DEF Clean
<1>10. Rec(rip).rip = rip /\ Rec(rip).updates = U
  BY <1>4, RecFields
<1>11. State(Rec(rip)) = U[k].state
  BY <1>5, <1>10 DEF State
<1>12. AnchoredAt(Rec(rip)) = Sn(AnchoringV2(U[k]))
  <2>1. PICK events : events = <<rip>> \o U
    OBVIOUS
  <2>2. k + 1 \in DOMAIN events /\ events[k + 1] = U[k]
    <3>1. U \in Seq(Rips \cup Bups(rip)) /\ <<rip>> \in Seq(Rips \cup Bups(rip)) /\ Len(<<rip>>) = 1
      BY <1>8
    <3>2. PICK s : s = <<rip>>
      OBVIOUS
    <3>3. /\ events \in Seq(Rips \cup Bups(rip)) /\ Len(events) = 1 + Len(U)
          /\ \A i \in 1 .. Len(U) : events[1 + i] = U[i]
      BY <2>1, <3>1, <3>2, ConcatExtends
    <3>4. k \in 1 .. Len(U) /\ k + 1 = 1 + k
      BY <1>8
    <3> QED BY <1>8, <3>3, <3>4, LenProperties
  <2>3. Anchors(Rec(rip)) = [n \in DOMAIN events |-> Sn(AnchoringV2(events[n]))]
    BY <1>10, <2>1 DEF Anchors
  <2> QED BY <1>5, <2>2, <2>3 DEF AnchoredAt
<1>13. Missing(rip, U) = {}
  BY <1>2, <1>4 DEF Clean
<1> QED BY <1>2, <1>3, <1>5, <1>6, <1>7, <1>8, <1>9, <1>10, <1>11, <1>12, <1>13

\* So that what stands depends on the messages alone.
LEMMA DesignationIs ==
  ASSUME JudgeInv, pc \in {"authorize", "own", "emit"}
  PROVE  Standing = Ranked
<1>1. \A m \in Carried : m.kind = "acm" /\ Owned(m) => Designation(m) = Worth(m)
  BY WordIs DEF Designation, Worth
<1>2. \A m \in Carried : m.kind = "acdc" => Designation(m) = Worth(m)
  BY DEF Designation, Worth
<1>3. Granted = {Worth(m) : m \in {x \in Credentials : Owned(x)}}
  BY <1>1, <1>2 DEF Granted, Credentials
<1> QED BY <1>3 DEF Standing, Ranked, InOrder, Before

\* The latest version 1 event of a credential is in the stream, and anchored.
LEMMA LatestIs ==
  ASSUME JudgeInv, pc \in {"authorize", "own", "emit"}, NEW m \in Carried, m.kind = "acdc"
  PROVE  /\ LatestV1(m) \in PresentedV1 /\ LatestV1(m).log = m.said
         /\ \A y \in PresentedV1 : y.log = m.said => y.sn <= LatestV1(m).sn
         /\ AnchoringV1(LatestV1(m)) # {}
<1> DEFINE S == {y \in PresentedV1 : y.log = m.said}
<1>1. Shape
  BY DEF JudgeInv, VetInv
<1>2. PICK i \in Issuing : i.log = m.said
  BY ExplainedV1 DEF Of, Saved
<1>3. i \in S
  BY <1>2 DEF Issuing, Of, PresentedV1, V1Log
<1>4. \A y \in S : y.sn \in Nat /\ y.sn <= 1
  <2>1. \A y \in S : y \in world /\ y.kind \in V1Log
    BY <1>1, CarriedType DEF PresentedV1
  <2> QED BY <1>1, <2>1 DEF Shape, V1Log
<1>5. \E x \in S : \A y \in S : y.sn <= x.sn
  <2>1. CASE \E x \in S : x.sn = 1
    BY <1>4, <2>1
  <2>2. CASE \A x \in S : x.sn # 1
    <3>1. \A x \in S : x.sn = 0
      BY <1>4, <2>2
    <3> QED BY <1>3, <3>1
  <2> QED BY <2>1, <2>2
<1>6. LatestV1(m) \in S /\ \A y \in S : y.sn <= LatestV1(m).sn
  <2>1. LatestV1(m) = CHOOSE x \in S : \A y \in S : y.sn <= x.sn
    BY DEF LatestV1
  <2> HIDE DEF S
  <2> QED BY <1>5, <2>1
<1>7. AnchoringV1(LatestV1(m)) # {}
  BY <1>6, ExplainedV1 DEF Placed
<1> QED BY <1>6, <1>7

\* A designation is ordered by a number.
LEMMA AnchoredAtType ==
  ASSUME Shape, NEW m \in world
  PROVE  /\ AnchoringV2(m) # {} => Sn(AnchoringV2(m)) \in Int
         /\ AnchoringV1(m) # {} => Sn(AnchoringV1(m)) \in Int
<1>1. m.aid \in DOMAIN kel
  BY MessageType
<1>2. kel[m.aid] \in Seq(Seq(SealOf))
  BY <1>1 DEF Shape
<1>3. DOMAIN kel[m.aid] \subseteq Nat
  BY <1>2
<1>4. AnchoringV2(m) \subseteq Nat /\ AnchoringV1(m) \subseteq Nat
  BY <1>3 DEF AnchoringV2, AnchoringV1, V1Anchors
<1>5. \A T \in SUBSET Nat : T # {} => Min(T) \in Nat
  BY MinIsLeast
<1> QED BY <1>4, <1>5 DEF Sn

LEMMA WorthType ==
  ASSUME JudgeInv, pc \in {"authorize", "own", "emit"}, NEW m \in Credentials, Owned(m)
  PROVE  Worth(m).creder = m /\ Worth(m).at \in Int /\ m.said \in Nat
<1>1. Shape /\ m \in Carried /\ m \in world /\ Carried \subseteq world /\ m.kind \in {"acm", "acdc"}
  BY CarriedType DEF JudgeInv, VetInv, Credentials
<1>2. CASE m.kind = "acm"
  <2>1. Word(m) \in world /\ AnchoringV2(Word(m)) # {}
    BY <1>1, <1>2, WordIs DEF UpdatesOf
  <2> QED BY <1>1, <1>2, <2>1, AnchoredAtType, MessageType DEF Worth
<1>3. CASE m.kind = "acdc"
  <2>1. LatestV1(m) \in world /\ AnchoringV1(LatestV1(m)) # {}
    BY <1>1, <1>3, LatestIs DEF PresentedV1
  <2> QED BY <1>1, <1>3, <2>1, AnchoredAtType, MessageType DEF Worth
<1> QED BY <1>1, <1>2, <1>3

\* The order of Ranked is that of the sort, on the subject's own standing credentials.
LEMMA RankedIs ==
  ASSUME JudgeInv, pc \in {"authorize", "own", "emit"}
  PROVE  /\ DOMAIN Ranked \subseteq Nat
         /\ \A n \in DOMAIN Ranked :
              \E m \in Credentials : Owned(m) /\ Ranked[n] = Worth(m) /\ ~Ranked[n].revoked
         /\ \A j, k \in DOMAIN Ranked : j < k => Before(Ranked[j], Ranked[k])
<1> DEFINE C == {x \in Credentials : Owned(x)}
           G == {Worth(m) : m \in C}
           S == {d \in G : ~d.revoked}
           R == {p \in S \X S : Before(p[1], p[2])}
           Good(t) == \A j, k \in DOMAIN t : j < k => Before(t[j], t[k])
<1>1. Shape
  BY DEF JudgeInv, VetInv
<1>2. \A m \in C : Worth(m).creder = m /\ Worth(m).at \in Int /\ m.said \in Nat
  BY WorthType
<1>3. \A m, x \in C : m.said = x.said => m = x
  BY <1>1, CarriedType DEF Shape, Credentials
<1>4. IsFiniteSet(S)
  <2>1. IsFiniteSet(C)
    BY <1>1, CarriedType, FS_Subset DEF Credentials
  <2>2. PICK f : f = [m \in C |-> Worth(m)]
    OBVIOUS
  <2> HIDE DEF C
  <2>3. f \in Surjection(C, G)
    BY <2>2 DEF Surjection
  <2>4. IsFiniteSet(G)
    BY <2>1, <2>3, FS_Surjection
  <2> HIDE DEF G
  <2> QED BY <2>4, FS_Subset
<1>5. \A d \in S : d.creder \in C /\ d = Worth(d.creder) /\ d.at \in Int /\ d.creder.said \in Nat
  BY <1>2
<1>6. \A a, b \in S : <<a, b>> \in R <=> Before(a, b)
  OBVIOUS
<1>7. \A a, b \in S : a.creder.said = b.creder.said => a = b
  <2> HIDE DEF C, S
  <2> QED BY <1>3, <1>5
<1>8. Ranked = CHOOSE t \in SetToSeqs(S) : Good(t)
  BY DEF Ranked, InOrder
<1> HIDE DEF C, G, S, R
<1>9. TotalOn(R, S)
  BY <1>5, <1>6, <1>7 DEF TotalOn, Before
<1>10. PICK s \in SetToSeqs(S) : Sorted(s, R)
  BY <1>4, <1>9, OrderExists
<1>11. Good(s)
  <2>1. s \in Seq(S)
    BY <1>4, RangeOfOrder
  <2>2. \A j \in DOMAIN s : s[j] \in S
    BY <2>1
  <2> QED BY <1>6, <1>10, <2>2 DEF Sorted
<1> HIDE DEF Good
<1>12. Ranked \in SetToSeqs(S) /\ Good(Ranked)
  BY <1>8, <1>10, <1>11
<1>13. Ranked \in Seq(S)
  BY <1>4, <1>12, RangeOfOrder
<1>14. DOMAIN Ranked \subseteq Nat /\ \A n \in DOMAIN Ranked : Ranked[n] \in S
  BY <1>13
<1>15. \A d \in S : \E m \in Credentials : Owned(m) /\ d = Worth(m) /\ ~d.revoked
  BY DEF S, G, C
<1>16. \A j, k \in DOMAIN Ranked : j < k => Before(Ranked[j], Ranked[k])
  BY <1>12 DEF Good
<1> QED BY <1>14, <1>15, <1>16

\* And standing is its credentials.
LEMMA StandingIs ==
  ASSUME JudgeInv, pc = "emit"
  PROVE  /\ DOMAIN standing = DOMAIN Ranked
         /\ \A n \in DOMAIN standing :
              /\ standing[n] \in Credentials /\ standing[n] \in Carried /\ Owned(standing[n])
              /\ Ranked[n] = Worth(standing[n]) /\ ~Worth(standing[n]).revoked
<1>1. standing = [n \in DOMAIN Ranked |-> Ranked[n].creder]
  BY DesignationIs DEF JudgeInv, GrantInv
<1>2. ASSUME NEW n \in DOMAIN Ranked
      PROVE  /\ standing[n] \in Credentials /\ standing[n] \in Carried /\ Owned(standing[n])
             /\ Ranked[n] = Worth(standing[n]) /\ ~Worth(standing[n]).revoked
  <2>1. PICK m \in Credentials : Owned(m) /\ Ranked[n] = Worth(m) /\ ~Ranked[n].revoked
    BY RankedIs
  <2>2. standing[n] = m
    BY <1>1, <2>1, WorthType
  <2> QED BY <2>1, <2>2 DEF Credentials
<1> QED BY <1>1, <1>2

(***************************************************************************)
(* The two properties of what is judged.                                   *)
(***************************************************************************)

\* The updates that the log seals are all in the stream (Missing, Incomplete), so that the
\* last word among those submitted is the last word among those known.
LEMMA NotHidden == JudgeInv => RevocationNotHidden
<1> SUFFICES ASSUME JudgeInv, pc = "emit", NEW creder \in Range(standing)
             PROVE  IF creder.kind = "acm"
                    THEN \E u \in world : /\ LastWord(u, Known(creder.log, creder.aid))
                                         /\ u.names = creder.said /\ u.state = "issued"
                    ELSE \A m \in world :
                            m.kind = "rev" /\ m.log = creder.said /\ m.aid = creder.aid
                                => AnchoringV1(m) = {}
  BY DEF RevocationNotHidden
<1>1. Shape /\ Carried \subseteq world
  BY CarriedType DEF JudgeInv, VetInv
<1>2. /\ creder \in Credentials /\ creder \in Carried /\ Owned(creder)
      /\ ~Worth(creder).revoked
  BY StandingIs DEF Range
<1>3. creder.aid = Aid /\ creder.kind \in {"acm", "acdc"}
  BY <1>2 DEF Owned, Credentials
<1>4. CASE creder.kind = "acm"
  <2>1. PICK u : u = Word(creder)
    OBVIOUS
  <2>2. /\ u \in UpdatesOf(creder) /\ LastWord(u, UpdatesOf(creder)) /\ u.names = creder.said
        /\ Missing(RegistryV2(creder).rip, RegistryV2(creder).updates) = {}
        /\ RegistryV2(creder).rip \in Rips /\ RegistryV2(creder).rip.said = creder.log
        /\ RegistryV2(creder).rip.aid = Aid
        /\ Range(RegistryV2(creder).updates) = UpdatesOf(creder)
    BY <1>2, <1>4, <2>1, WordIs
  <2>3. u.state = "issued"
    BY <1>2, <1>4, <2>1 DEF Worth
  <2>4. ASSUME NEW v \in Known(creder.log, creder.aid)
        PROVE  v \in UpdatesOf(creder)
    <3>1. v \in world /\ v.kind = "bup" /\ v.log = creder.log
      BY DEF Known
    <3>2. CASE v \in Carried
      BY <3>1, <3>2 DEF UpdatesOf
    <3>3. CASE \E seal \in Seals(Aid) : seal.d = v.said /\ seal.i \in {creder.log, 0}
      <4>1. v.said \in ForLogV2(Aid, creder.log)
        BY <3>3 DEF ForLogV2
      <4>2. v.said \in Saids({RegistryV2(creder).rip} \cup UpdatesOf(creder)) \cup Saids(Carried)
        BY <2>2, <4>1 DEF Missing
      <4>3. PICK y \in Carried : y.said = v.said
        BY <2>2, <4>2 DEF Saids, Rips, UpdatesOf
      <4>4. y = v
        BY <1>1, <3>1, <4>3 DEF Shape
      <4> QED BY <3>1, <4>3, <4>4 DEF UpdatesOf
    <3> QED BY <1>3, <3>2, <3>3 DEF Known
  <2>5. u \in world /\ u \in Known(creder.log, creder.aid)
    BY <1>1, <2>2 DEF Known, UpdatesOf
  <2>6. LastWord(u, Known(creder.log, creder.aid))
    BY <2>2, <2>4, <2>5 DEF LastWord
  <2> QED BY <1>4, <2>2, <2>3, <2>5, <2>6
<1>5. CASE creder.kind # "acm"
  <2> SUFFICES ASSUME NEW m \in world, m.kind = "rev", m.log = creder.said, m.aid = Aid,
                      NEW n \in AnchoringV1(m)
               PROVE  FALSE
    BY <1>3, <1>5
  <2>1. creder.kind = "acdc"
    BY <1>3, <1>5
  <2>2. /\ LatestV1(creder) \in PresentedV1 /\ LatestV1(creder).log = creder.said
        /\ \A y \in PresentedV1 : y.log = creder.said => y.sn <= LatestV1(creder).sn
    BY <1>2, <2>1, LatestIs
  <2>3. m.said \in ForLogV1(Aid, creder.said)
    BY DEF AnchoringV1, ForLogV1
  <2>4. Incomplete = {}
    BY DEF JudgeInv, AuditInv
  <2>5. ForLogV1(Aid, creder.said) \ Saids(PresentedV1) = {}
    BY <2>2, <2>4 DEF Incomplete
  <2>6. PICK y \in PresentedV1 : y.said = m.said
    BY <2>3, <2>5 DEF Saids
  <2>7. y \in world /\ y = m
    BY <1>1, <2>6 DEF Shape, PresentedV1
  <2>8. m.sn = 1 /\ m.sn <= LatestV1(creder).sn
    BY <1>1, <2>2, <2>6, <2>7 DEF Shape
  <2>9. LatestV1(creder).kind # "rev"
    BY <1>2, <2>1 DEF Worth
  <2>10. LatestV1(creder).sn = 0
    BY <1>1, <2>2, <2>9 DEF Shape, PresentedV1, V1Log
  <2> QED BY <2>8, <2>10
<1> QED BY <1>4, <1>5

\* The key of the sort is what the messages say put each designation in force.
LEMMA Ordered == JudgeInv => DesignationsInOrder
<1> SUFFICES ASSUME JudgeInv, pc = "emit",
                    NEW j \in DOMAIN standing, NEW k \in DOMAIN standing, j < k
             PROVE  \/ ForcedAt(standing[j]) < ForcedAt(standing[k])
                    \/ /\ ForcedAt(standing[j]) = ForcedAt(standing[k])
                       /\ standing[j].said < standing[k].said
  BY DEF DesignationsInOrder
<1>1. Before(Worth(standing[j]), Worth(standing[k]))
  BY StandingIs, RankedIs
<1>2. ASSUME NEW n \in DOMAIN standing
      PROVE  /\ Worth(standing[n]).at = ForcedAt(standing[n])
             /\ Worth(standing[n]).creder = standing[n]
  BY DEF Worth, ForcedAt, Word, UpdatesOf
<1> QED BY <1>1, <1>2 DEF Before

(***************************************************************************)
(* The round trip: that what was emitted passes, from the messages and the *)
(* disclosures alone.                                                      *)
(***************************************************************************)

\* IsOwned, once every registry is vetted.
OwnedAlready(m) ==
  IF m \in Credentials THEN m.aid = Aid
  ELSE IF m.kind \in V2Kinds THEN \E x \in Rips : x.said = m.log /\ x.aid = Aid
  ELSE IF \E x \in Opening : x.log = m.log
    THEN \E x \in Opening : x.log = m.log /\ x.aid = Aid
  ELSE \E x \in Saved : x.said = m.log /\ x.aid = Aid

\* What depends on the set of messages only.
Sound ==
  /\ \A m \in Credentials : ~Mismatched(m)
  /\ \A m \in Carried : ~ThirdParty(m)
  /\ \A m \in Carried : m.kind \notin V2Kinds => m \in AcceptedV1
  /\ Incomplete = {}
  /\ \E d \in Range(Ranked) : d.creder.covers
  /\ \A m \in Carried : OwnedAlready(m)

\* What depends on the disclosures too.
Provable ==
  /\ \A x \in Rips : Clean(x)
  /\ \A m \in Carried : m.kind \in V2Kinds =>
        \E x \in Rips : m = x \/ m \in Bups(x) \/ m \in Rec(x).credential

\* What authorize returns of them.
RankedCreders == [n \in DOMAIN Ranked |-> Ranked[n].creder]

LEMMA OwnedIs ==
  ASSUME VetInv, pending = <<>>, NEW m
  PROVE  IsOwned(m) <=> OwnedAlready(m)
<1>1. (\E r \in Range(registries) : r.rip.said = m.log /\ r.rip.aid = Aid)
        <=> \E x \in Rips : x.said = m.log /\ x.aid = Aid
  BY AllVetted, RecFields
<1> QED BY <1>1 DEF IsOwned, OwnedAlready

\* What comes to be written is sound and provable.
LEMMA PassesAtEmit ==
  ASSUME JudgeInv, pc = "emit"
  PROVE  Sound /\ Provable /\ standing = RankedCreders
<1>1. VetInv /\ pending = <<>> /\ pc \in {"authorize", "own", "emit"}
  BY DEF JudgeInv, VetInv
<1>2. Standing = Ranked
  BY DesignationIs
<1>3. /\ standing = RankedCreders
      /\ \E d \in Range(Ranked) : d.creder.covers
  BY <1>2 DEF JudgeInv, GrantInv, RankedCreders
<1>4. \A m \in Carried : OwnedAlready(m)
  BY <1>1, OwnedIs DEF JudgeInv, OwnInv
<1>5. \A m \in Carried : m.kind \notin V2Kinds => m \in AcceptedV1
  BY DEF JudgeInv, AuditInv, Accounted
<1>6. Provable
  BY <1>1, AllVetted, ExplainedV2 DEF Provable
<1> QED BY <1>3, <1>4, <1>5, <1>6 DEF Sound, JudgeInv, AuditInv

\* What depends on the set of messages and the logs only.
LEMMA ByMessages ==
  ASSUME Carried' = Carried, kel' = kel
  PROVE  /\ Sound' <=> Sound
         /\ RankedCreders' = RankedCreders
         /\ Rips' = Rips /\ \A x : Bups(x)' = Bups(x)
         /\ \A m : AnchoringV2(m)' = AnchoringV2(m)
         /\ \A x, U : Missing(x, U)' = Missing(x, U)
<1>1. Credentials' = Credentials /\ Rips' = Rips /\ PresentedV1' = PresentedV1
      /\ \A x : Bups(x)' = Bups(x)
  BY DEF Credentials, Rips, Bups, PresentedV1
<1>2. \A m : (Mismatched(m)' <=> Mismatched(m)) /\ (ThirdParty(m)' <=> ThirdParty(m))
  BY <1>1 DEF Mismatched, ThirdParty, Inceptions
<1>3. \A m : AnchoringV1(m)' = AnchoringV1(m) /\ AnchoringV2(m)' = AnchoringV2(m)
  BY DEF AnchoringV1, AnchoringV2, V1Anchors
<1>4. \A m : Placed(m)' <=> Placed(m)
  BY <1>1, <1>3 DEF Placed
<1>5. \A kind : Of(kind)' = Of(kind)
  BY DEF Of
<1>6. Opening' = Opening
  BY <1>4, <1>5 DEF Opening
<1>7. Issuing' = Issuing
  BY <1>4, <1>5, <1>6 DEF Issuing
<1>8. Revoking' = Revoking
  BY <1>4, <1>5, <1>7 DEF Revoking
<1>9. Saved' = Saved
  BY <1>5, <1>6, <1>7 DEF Saved
<1>10. AcceptedV1' = AcceptedV1
  BY <1>6, <1>7, <1>8, <1>9 DEF AcceptedV1
<1>11. Incomplete' = Incomplete
  BY <1>1 DEF Incomplete, ForLogV1, V1Anchors
<1>12. Ranked' = Ranked
  <2>1. \A m : UpdatesOf(m)' = UpdatesOf(m)
    BY DEF UpdatesOf
  <2>2. ASSUME NEW m PROVE Word(m)' = Word(m)
    BY <2>1 DEF Word, LastWord, Vacuous
  <2>3. ASSUME NEW m PROVE LatestV1(m)' = LatestV1(m)
    BY <1>1 DEF LatestV1
  <2>4. ASSUME NEW m PROVE Worth(m)' = Worth(m)
    BY <1>3, <2>2, <2>3 DEF Worth, Sn
  <2>5. \A m : Owned(m)' <=> Owned(m)
    BY DEF Owned
  <2>6. {Worth(m) : m \in {x \in Credentials : Owned(x)}}'
          = {Worth(m) : m \in {x \in Credentials : Owned(x)}}
    BY <1>1, <2>4, <2>5
  <2> QED BY <2>6 DEF Ranked, InOrder, Before
<1>13. RankedCreders' = RankedCreders
  BY <1>12 DEF RankedCreders
<1>14. \A m : OwnedAlready(m)' <=> OwnedAlready(m)
  BY <1>1, <1>6, <1>9 DEF OwnedAlready
<1>15. \A x, U : Missing(x, U)' = Missing(x, U)
  BY DEF Missing, ForLogV2, Seals
<1>16. Sound' <=> Sound
  BY <1>1, <1>2, <1>10, <1>11, <1>12, <1>14 DEF Sound
<1> QED BY <1>1, <1>3, <1>13, <1>15, <1>16

\* What UpdatesAre says, in a form that holds of the next state too.
UpdatesFact ==
  \A y : /\ Updates(y) \in Seq(Bups(y)) /\ Range(Updates(y)) = Bups(y)
         /\ IsInjective(Updates(y))
         /\ \A j, k \in DOMAIN Updates(y) :
              j < k => Updates(y)[j].sn <= Updates(y)[k].sn

LEMMA UpdatesAlways == Shape => UpdatesFact
BY UpdatesAre DEF UpdatesFact

LEMMA UpdatesNext == Shape' => UpdatesFact'
BY UpdatesAlways, PTL

\* The same of ListedAre.
LEMMA ListedAlways == Shape => Listed("rip") \in Seq(Rips)
BY ListedAre DEF Rips

\* Updates of which no two are of one place have one order.
LEMMA UpdatesAlike ==
  ASSUME Shape, Shape', Carried' = Carried, kel' = kel, NEW x \in Rips, Clean(x)
  PROVE  Updates(x)' = Updates(x)
<1> DEFINE S == Bups(x)
           R == {p \in S \X S : p[1].sn < p[2].sn}
<1>1. PICK U, V : U = Updates(x) /\ V = Updates(x)'
  OBVIOUS
<1>2. /\ U \in Seq(S) /\ Range(U) = S /\ IsInjective(U)
      /\ \A j, k \in DOMAIN U : j < k => U[j].sn <= U[k].sn
  BY <1>1, UpdatesAre
<1>3. /\ V \in Seq(S) /\ Range(V) = S /\ IsInjective(V)
      /\ \A j, k \in DOMAIN V : j < k => V[j].sn <= V[k].sn
  <2>1. Bups(x)' = S
    BY ByMessages
  <2>2. UpdatesFact'
    BY UpdatesNext
  <2>3. /\ Updates(x)' \in Seq(Bups(x)') /\ Range(Updates(x)') = Bups(x)'
        /\ IsInjective(Updates(x)')
        /\ \A j, k \in DOMAIN (Updates(x)') :
              j < k => (Updates(x)')[j].sn <= (Updates(x)')[k].sn
    BY <2>2 DEF UpdatesFact
  <2> QED BY <1>1, <2>1, <2>3
<1>4. /\ \A n \in DOMAIN U : U[n].sn = n /\ n \in Nat
      /\ \A u \in S : \E n \in DOMAIN U : U[n] = u
  BY <1>1, CleanUpdates
<1>5. \A a, b \in S : a.sn \in Nat /\ (a.sn = b.sn => a = b)
  BY <1>4
<1>6. \A a, b \in S : <<a, b>> \in R <=> a.sn < b.sn
  OBVIOUS
<1> HIDE DEF S, R
<1>7. TotalOn(R, S)
  BY <1>5, <1>6 DEF TotalOn
<1>8. ASSUME NEW s \in Seq(S), IsInjective(s),
             \A j, k \in DOMAIN s : j < k => s[j].sn <= s[k].sn
      PROVE  Sorted(s, R)
  <2> SUFFICES ASSUME NEW j \in DOMAIN s, NEW k \in DOMAIN s, j < k
               PROVE  <<s[j], s[k]>> \in R
    BY DEF Sorted
  <2>1. s[j] \in S /\ s[k] \in S /\ j \in Nat /\ k \in Nat
    OBVIOUS
  <2>2. s[j] # s[k]
    BY <1>8, <2>1 DEF IsInjective
  <2>3. s[j].sn <= s[k].sn /\ s[j].sn # s[k].sn /\ s[j].sn \in Nat /\ s[k].sn \in Nat
    BY <1>5, <1>8, <2>1, <2>2
  <2>4. s[j].sn < s[k].sn
    BY <2>3
  <2> QED BY <1>6, <2>1, <2>4
<1>9. Sorted(U, R) /\ Sorted(V, R)
  BY <1>2, <1>3, <1>8
<1>10. IsFiniteSet(S) /\ U \in SetToSeqs(S) /\ V \in SetToSeqs(S)
  BY <1>2, <1>3, OnceIsAnOrder
<1>11. U = V
  BY <1>7, <1>9, <1>10, OrderIsUnique
<1> QED BY <1>1, <1>11

\* An update is written with a disclosure, one, exactly when it had any.
LEMMA ShownAlike ==
  ASSUME JudgeInv, pc = "emit", riding' = EmittedRiding, NEW x \in Rips, NEW u \in Bups(x)
  PROVE  Disclosures(u)' = IF Shown(u) THEN 1 ELSE 0
<1>1. Shape /\ VetInv /\ pending = <<>>
  BY DEF JudgeInv, VetInv
<1>2. u \in Carried /\ u \in world /\ u.kind = "bup"
  BY <1>1, CarriedType DEF Bups
<1>3. u.said \in DOMAIN riding
  BY <1>1, <1>2 DEF Shape, Saids
<1>4. Range(Vetted) = Range(registries)
  BY VettedIs
<1>5. Disclosures(u)' = IF \E r \in Range(Vetted) : u.said \in r.blinders THEN 1 ELSE 0
  BY <1>3 DEF Disclosures, EmittedRiding
<1>6. Shown(u) => \E r \in Range(Vetted) : u.said \in r.blinders
  BY <1>1, <1>4, AllVetted, CleanUpdates
<1>7. ASSUME NEW r \in Range(Vetted), u.said \in r.blinders
      PROVE  Shown(u)
  <2>1. r.rip \in Rips /\ r = Rec(r.rip)
    BY <1>1, <1>4, AllVetted
  <2>2. PICK v \in Bups(r.rip) : Shown(v) /\ v.said = u.said
    BY <1>1, <1>7, <2>1, UpdatesAre DEF Rec, Saids
  <2>3. v = u
    BY <1>1, <1>2, <2>2, CarriedType DEF Shape, Bups
  <2> QED BY <2>2, <2>3
<1> QED BY <1>5, <1>6, <1>7

\* A registry as it was written is recorded as the one that was read.
LEMMA RecAlike ==
  ASSUME JudgeInv, pc = "emit", riding' = EmittedRiding, Shape', Carried' = Carried, kel' = kel,
         NEW x \in Rips, Clean(x)
  PROVE  Rec(x)' = Rec(x) /\ Clean(x)'
<1>1. Shape
  BY DEF JudgeInv, VetInv
<1>2. PICK U : U = Updates(x) /\ U = Updates(x)'
  BY <1>1, UpdatesAlike
<1>3. /\ Len(U) \in Nat /\ DOMAIN U = 1 .. Len(U) /\ \A n \in DOMAIN U : U[n] \in Bups(x)
      /\ Range(U) = Bups(x) /\ \A n \in DOMAIN U : U[n].sn = n
  BY <1>1, <1>2, CleanUpdates, UpdatesAre
<1>4. \A u \in Bups(x) : Disclosures(u)' = IF Shown(u) THEN 1 ELSE 0
  BY ShownAlike
<1>5. \A u \in Bups(x) : Shown(u)' <=> Shown(u)
  BY <1>4 DEF Shown
<1>6. BoundTarget(U)' = BoundTarget(U)
  <2>1. {n \in DOMAIN U : ~Shown(U[n])' \/ ~Vacuous(U[n])}
          = {n \in DOMAIN U : ~Shown(U[n]) \/ ~Vacuous(U[n])}
    BY <1>3, <1>5
  <2> DEFINE stops == {n \in DOMAIN U : ~Shown(U[n]) \/ ~Vacuous(U[n])}
  <2>2. stops # {} => Max(stops) \in DOMAIN U
    <3>1. stops \in SUBSET Nat /\ \A n \in stops : n <= Len(U)
      BY <1>3
    <3>2. stops \subseteq DOMAIN U
      OBVIOUS
    <3> HIDE DEF stops
    <3> QED BY <1>3, <3>1, <3>2, GreatestElement
  <2>3. stops # {} => (Shown(U[Max(stops)])' <=> Shown(U[Max(stops)]))
    BY <1>3, <1>5, <2>2
  <2>4. BoundTarget(U)' = IF stops = {} \/ ~Shown(U[Max(stops)])' THEN 0 ELSE U[Max(stops)].names
    BY <2>1 DEF BoundTarget, Vacuous
  <2>5. BoundTarget(U) = IF stops = {} \/ ~Shown(U[Max(stops)]) THEN 0 ELSE U[Max(stops)].names
    BY DEF BoundTarget
  <2> QED BY <2>3, <2>4, <2>5
<1>7. Rec(x)' = Rec(x)
  <2>1. \A t : Bound(x, t)' = Bound(x, t)
    BY DEF Bound
  <2>2. {u \in Range(U) : Shown(u)'} = {u \in Range(U) : Shown(u)}
    BY <1>3, <1>5
  <2>3. Rec(x) = [rip |-> x, updates |-> U, credential |-> Bound(x, BoundTarget(U)),
                  blinders |-> Saids({u \in Range(U) : Shown(u)})]
    BY <1>2 DEF Rec
  <2>4. Rec(x)' = [rip |-> x, updates |-> U, credential |-> Bound(x, BoundTarget(U)'),
                   blinders |-> Saids({u \in Range(U) : Shown(u)'})]
    BY <1>2, <2>1 DEF Rec, Saids
  <2> QED BY <1>6, <2>2, <2>3, <2>4
<1>8. Clean(x)'
  <2>0. PICK D : D = [n \in DOMAIN U |-> Disclosures(U[n])']
    OBVIOUS
  <2> DEFINE read == {n \in DOMAIN U : Disclosures(U[n]) # 1 \/ ~Vacuous(U[n])}
             read2 == {n \in DOMAIN U : D[n] # 1 \/ ~Vacuous(U[n])}
  <2>1. /\ \A n \in DOMAIN U : U[n].sn = n
        /\ \A m \in {x} \cup Range(U) : AnchoringV2(m) # {}
        /\ read # {} => Disclosures(U[Max(read)]) = 1
    BY <1>2, NoFaults DEF Clean
  <2>2. \A m : AnchoringV2(m)' = AnchoringV2(m)
    BY ByMessages
  <2>3. Missing(x, U)' = {}
    BY <1>2, ByMessages DEF Clean
  <2>4. read2 \subseteq read
    <3>1. \A n \in DOMAIN U : D[n] = IF Shown(U[n]) THEN 1 ELSE 0
      BY <1>3, <1>4, <2>0
    <3>2. \A n \in DOMAIN U : D[n] # 1 => Disclosures(U[n]) # 1
      BY <3>1 DEF Shown
    <3> QED BY <3>2
  <2>5. ASSUME read2 # {}
        PROVE  Max(read2) \in DOMAIN U /\ D[Max(read2)] = 1
    <3>1. read \in SUBSET Nat /\ read2 \in SUBSET Nat /\ read # {}
      BY <1>3, <2>4, <2>5
    <3>2. (\A n \in read : n <= Len(U)) /\ (\A n \in read2 : n <= Len(U))
      BY <1>3
    <3>3. /\ Max(read) \in read /\ \A n \in read : n <= Max(read)
          /\ Max(read2) \in read2 /\ \A n \in read2 : n <= Max(read2)
      <4> HIDE DEF read, read2
      <4> QED BY <1>3, <2>5, <3>1, <3>2, GreatestElement
    <3>4. PICK k : k = Max(read)
      OBVIOUS
    <3>5. k \in DOMAIN U /\ Disclosures(U[k]) = 1 /\ ~Vacuous(U[k])
      BY <2>1, <3>1, <3>3, <3>4
    <3>6. k \in read2
      BY <3>5
    <3>7. Max(read2) = k
      <4>1. Max(read2) \in read /\ k \in Nat /\ Max(read2) \in Nat
        BY <2>4, <3>1, <3>3, <3>4
      <4>2. Max(read2) <= k /\ k <= Max(read2)
        BY <3>3, <3>4, <3>6, <4>1
      <4> HIDE DEF read, read2
      <4> QED BY <4>1, <4>2
    <3>8. D[k] = 1
      BY <1>3, <1>4, <2>0, <3>5 DEF Shown
    <3> HIDE DEF read, read2
    <3> QED BY <3>5, <3>7, <3>8
  <2>6. \A n \in DOMAIN U : U[n].prior = (<<x.said>> \o [i \in DOMAIN U |-> U[i].said])[n]
    <3>1. "FRAME_REJECTED" \notin Faults(x, U)
      BY <1>2 DEF Clean
    <3> QED BY <3>1 DEF Faults
  <2>7. ASSUME NEW code \in Faults(x, U)'
        PROVE  FALSE
    <3>1. code \in {"FRAME_REJECTED", "ANCHOR_INVALID", "STATE_UNPROVABLE"}
      BY <2>7 DEF Faults
    <3>2. CASE code = "FRAME_REJECTED"
      BY <2>1, <2>6, <2>7, <3>2 DEF Faults
    <3>3. CASE code = "ANCHOR_INVALID"
      BY <2>1, <2>2, <2>7, <3>3 DEF Faults
    <3>4. CASE code = "STATE_UNPROVABLE"
      <4>1. {n \in DOMAIN U : Disclosures(U[n])' # 1 \/ ~Vacuous(U[n])} = read2
        BY <2>0
      <4>2. read2 # {} /\ Disclosures(U[Max(read2)])' # 1
        BY <2>7, <3>4, <4>1 DEF Faults, Vacuous
      <4> HIDE DEF read2
      <4> QED BY <2>0, <2>5, <4>2
    <3> QED BY <3>1, <3>2, <3>3, <3>4
  <2>8. Faults(x, U)' = {}
    BY <2>7
  <2> QED BY <1>2, <2>3, <2>8 DEF Clean
<1> QED BY <1>7, <1>8

\* What is written is a stream.
LEMMA EmitShape ==
  ASSUME JudgeInv, Emit
  PROVE  Shape' /\ Carried' = Carried /\ Len(frames') = Len(frames)
<1>1. /\ pc = "emit" /\ frames' = EmittedV1 \o EmittedV2 /\ riding' = EmittedRiding
      /\ world' = world /\ kel' = kel
  BY DEF Emit
<1>2. Shape /\ Carried \subseteq world
  BY CarriedType DEF JudgeInv, VetInv
<1>3. frames' \in Seq(Carried) /\ IsInjective(frames') /\ Range(frames') = Carried
  BY <1>1, EmittedIs
<1>4. Carried' = Carried
  BY <1>3 DEF Carried
<1>5. frames' \in Seq(world)
  BY <1>2, <1>3
<1>6. riding' \in [Saids({m \in world : m.kind = "bup"}) -> [on : Nat, off : Nat]]
  <2>1. DOMAIN riding = Saids({m \in world : m.kind = "bup"})
    BY <1>2 DEF Shape
  <2> QED BY <1>1, <2>1 DEF EmittedRiding
<1>7. Shape'
  BY <1>1, <1>2, <1>3, <1>5, <1>6 DEF Shape, Saids
<1>8. Len(frames') = Len(frames)
  <2>1. frames \in Seq(world) /\ IsInjective(frames) /\ Range(frames) = Carried
    BY <1>2 DEF Shape, Carried
  <2> QED BY <1>3, <2>1, LengthOfInjective
<1> QED BY <1>4, <1>7, <1>8

\* The last step: what was written is judged from the gate on.
LEMMA JudgeEmit ==
  ASSUME JudgeInv, Emit
  PROVE  JudgeInv'
<1>1. /\ pc = "emit" /\ pc' = "gate" /\ error' = error /\ registries' = <<>>
      /\ pending' = Listed("rip")'
  BY DEF Emit
<1>2. Shape' /\ error = "none"
  BY <1>1, EmitShape DEF JudgeInv, VetInv
<1>3. pending' \in Seq(Rips')
  <2>1. (Shape => Listed("rip") \in Seq(Rips))'
    BY ListedAlways, PTL
  <2> QED BY <1>1, <1>2, <2>1
<1>4. Turns' = <<>> /\ registries' \in Seq(Records')
  BY <1>1, EmptySeq DEF Turns
<1>5. Turns' \o pending' = Listed("rip")'
  BY <1>1, <1>3, <1>4, ConcatEmptySeq
<1> QED BY <1>1, <1>2, <1>3, <1>4, <1>5 DEF JudgeInv, VetInv, AuditInv, GrantInv, OwnInv

LEMMA JudgeNext == JudgeInv /\ [Next]_vars => JudgeInv'
BY JudgeFails, JudgeGate, JudgeVet, JudgePasses, JudgeEmit, JudgeStutters DEF Next

(***************************************************************************)
(* What is hosted is never refused, and gives the same designations.       *)
(***************************************************************************)

\* Of what is hosted, all that the functions could refuse it for is excluded already.
RoundInv ==
  /\ round \in {1, 2}
  /\ round = 2 =>
       /\ Sound /\ Provable
       /\ first.standing = RankedCreders /\ standing = first.standing
       /\ error = "none" /\ pc # "end"
       /\ Carried = Range(first.frames) /\ Len(frames) = Len(first.frames)

\* What was emitted is as sound and as provable as what was submitted.
LEMMA RoundEmit ==
  ASSUME JudgeInv, Emit
  PROVE  RoundInv'
<1>1. /\ pc = "emit" /\ pc' = "gate" /\ error' = error /\ standing' = standing
      /\ round' = 2 /\ first' = [frames |-> frames, standing |-> standing]
      /\ kel' = kel /\ riding' = EmittedRiding
  BY DEF Emit
<1>2. Shape' /\ Carried' = Carried /\ Len(frames') = Len(frames)
  BY EmitShape
<1>3. Sound /\ Provable /\ standing = RankedCreders /\ error = "none"
  BY <1>1, PassesAtEmit DEF JudgeInv, VetInv
<1>4. /\ Sound' /\ RankedCreders' = RankedCreders
      /\ Rips' = Rips /\ \A x : Bups(x)' = Bups(x)
  BY <1>1, <1>2, <1>3, ByMessages
<1>5. \A x \in Rips : Rec(x)' = Rec(x) /\ Clean(x)'
  BY <1>1, <1>2, <1>3, RecAlike DEF Provable
<1>6. Provable'
  <2>1. ASSUME NEW m \in Carried, m.kind \in V2Kinds
        PROVE  \E x \in Rips : m = x \/ m \in Bups(x)' \/ m \in Rec(x)'.credential
    <3>1. PICK x \in Rips : m = x \/ m \in Bups(x) \/ m \in Rec(x).credential
      BY <1>3, <2>1 DEF Provable
    <3>2. Bups(x)' = Bups(x) /\ Rec(x)' = Rec(x)
      BY <1>4, <1>5
    <3>3. m = x \/ m \in Bups(x)' \/ m \in Rec(x)'.credential
      BY <3>1, <3>2
    <3> QED BY <3>3
  <2> QED BY <1>2, <1>4, <1>5, <2>1 DEF Provable
<1>7. Carried' = Range(first'.frames) /\ Len(frames') = Len(first'.frames)
  BY <1>1, <1>2 DEF Carried
<1> QED BY <1>1, <1>3, <1>4, <1>6, <1>7 DEF RoundInv

\* A step that accepts leaves what round 2 is about as it was.
LEMMA RoundKept ==
  ASSUME RoundInv, UNCHANGED given, error' = error,
         round = 2 => pc' # "end" /\ standing' = RankedCreders
  PROVE  RoundInv'
<1>1. UNCHANGED <<world, kel, frames, riding, round, first>>
  BY DEF given
<1>2. CASE round = 2
  <2>1. Carried' = Carried
    BY <1>1 DEF Carried
  <2>2. Sound' /\ RankedCreders' = RankedCreders
    BY <1>1, <1>2, <2>1, ByMessages DEF RoundInv
  <2>3. /\ Rips' = Rips /\ \A x : Bups(x)' = Bups(x)
        /\ \A x : Rec(x)' = Rec(x) /\ Clean(x)' = Clean(x)
    BY <1>1, Kept
  <2>4. Provable'
    BY <1>2, <2>1, <2>3 DEF Provable, RoundInv
  <2> QED BY <1>1, <1>2, <2>1, <2>2, <2>4 DEF RoundInv
<1> QED BY <1>1, <1>2 DEF RoundInv

\* Where the gate, or the vetting of a registry, could refuse.
LEMMA RoundVets ==
  ASSUME JudgeInv, RoundInv, round = 2
  PROVE  ~GateFails /\ ~VetFails
<1>1. ~GateFails
  BY DEF GateFails, RoundInv, Sound
<1>2. ASSUME pending # <<>>
      PROVE  Faults(pending[1], Updates(pending[1])) = {}
             /\ Missing(pending[1], Updates(pending[1])) = {}
  <2>1. pending \in Seq(Rips)
    BY DEF JudgeInv, VetInv
  <2>2. pending[1] \in Rips
    BY <1>2, <2>1
  <2> QED BY <2>2 DEF RoundInv, Provable, Clean
<1>3. ~VetFails
  BY <1>2 DEF VetFails
<1> QED BY <1>1, <1>3

\* Where the audit could: every message is what the vetted registries explain.
LEMMA RoundAudits ==
  ASSUME JudgeInv, RoundInv, round = 2
  PROVE  ~AccountFails
<1>1. Incomplete = {} /\ \A m \in Carried : m.kind \notin V2Kinds => m \in AcceptedV1
  BY DEF RoundInv, Sound
<1>2. ASSUME pending = <<>>, NEW m \in Carried, m.kind \in V2Kinds
      PROVE  m.said \in VettedSaids
  <2>1. VetInv /\ Shape
    BY DEF JudgeInv, VetInv
  <2>2. PICK x \in Rips : m = x \/ m \in Bups(x) \/ m \in Rec(x).credential
    BY <1>2 DEF RoundInv, Provable
  <2>3. Rec(x) \in Range(registries)
    BY <1>2, <2>1, AllVetted
  <2>4. m \in {Rec(x).rip} \cup Range(Rec(x).updates) \cup Rec(x).credential
    BY <2>1, <2>2, RecFields, UpdatesAre
  <2> QED BY <2>3, <2>4 DEF VettedSaids, Saids
<1>3. pending = <<>> => \A m \in Carried : Accounted(m)
  BY <1>1, <1>2 DEF Accounted
<1> QED BY <1>1, <1>3 DEF AccountFails

\* Where authorize could: the same designations stand.
LEMMA RoundGrants ==
  ASSUME JudgeInv, RoundInv, round = 2, pc = "authorize"
  PROVE  ~AuthorizeFails /\ Standing = Ranked
<1>1. Standing = Ranked
  BY DesignationIs
<1>2. PICK d \in Range(Standing) : d.creder.covers
  BY <1>1 DEF RoundInv, Sound
<1>3. Standing # <<>>
  BY <1>2 DEF Range
<1>4. PICK m \in Credentials : Owned(m) /\ d = Worth(m)
  BY <1>1, <1>2, RankedIs DEF Range
<1>5. m \in Carried /\ m.kind \in {"acm", "acdc"}
  BY <1>4 DEF Credentials
<1>6. Granted # {}
  BY <1>4, <1>5 DEF Granted
<1> QED BY <1>1, <1>2, <1>3, <1>5, <1>6 DEF AuthorizeFails

\* Where require_ownership could.
LEMMA RoundOwns ==
  ASSUME JudgeInv, RoundInv, round = 2
  PROVE  ~OwnFails
<1>1. pc = "own" => VetInv /\ pending = <<>>
  BY DEF JudgeInv, VetInv
<1> QED BY <1>1, OwnedIs DEF OwnFails, RoundInv, Sound

\* So that a refusal is of a submission.
LEMMA RoundFails ==
  ASSUME JudgeInv, RoundInv, GateFails \/ VetFails \/ AccountFails \/ AuthorizeFails \/ OwnFails
  PROVE  RoundInv'
<1>1. round' = round
  BY DEF GateFails, VetFails, AccountFails, AuthorizeFails, OwnFails, Refuse, given
<1>2. round # 2
  BY RoundVets, RoundAudits, RoundGrants, RoundOwns DEF AuthorizeFails
<1> QED BY <1>1, <1>2 DEF RoundInv

LEMMA RoundInit == Init => RoundInv
BY DEF Init, RoundInv

LEMMA RoundNext == JudgeInv /\ RoundInv /\ [Next]_vars => RoundInv'
<1> SUFFICES ASSUME JudgeInv, RoundInv, [Next]_vars PROVE RoundInv'
  OBVIOUS
<1>1. CASE GateFails \/ VetFails \/ AccountFails \/ AuthorizeFails \/ OwnFails
  BY <1>1, RoundFails
<1>2. CASE Gate \/ Vet \/ Account \/ Own
  <2>1. UNCHANGED given /\ error' = error /\ standing' = standing
    BY <1>2 DEF Gate, Vet, Account, Own
  <2>2. pc # "end" => pc' # "end"
    BY <1>2 DEF Gate, Vet, Account, Own
  <2> QED BY <2>1, <2>2, RoundKept DEF RoundInv
<1>3. CASE Authorize
  <2>1. /\ pc = "authorize" /\ pc' = "own" /\ UNCHANGED given /\ error' = error
        /\ standing' = [n \in DOMAIN Standing |-> Standing[n].creder]
    BY <1>3 DEF Authorize
  <2>2. round = 2 => standing' = RankedCreders
    BY <2>1, RoundGrants DEF RankedCreders
  <2> QED BY <2>1, <2>2, RoundKept
<1>4. CASE Emit
  BY <1>4, RoundEmit
<1>5. CASE UNCHANGED vars
  <2>1. UNCHANGED given /\ error' = error /\ standing' = standing /\ pc' = pc
    BY <1>5 DEF vars, given
  <2> QED BY <2>1, RoundKept DEF RoundInv
<1> QED BY <1>1, <1>2, <1>3, <1>4, <1>5 DEF Next

(***************************************************************************)
(* The theorems.                                                           *)
(***************************************************************************)

LEMMA Always == Spec => [](JudgeInv /\ RoundInv)
<1>1. Init => JudgeInv /\ RoundInv
  BY JudgeInit, RoundInit
<1>2. (JudgeInv /\ RoundInv) /\ [Next]_vars => (JudgeInv /\ RoundInv)'
  BY JudgeNext, RoundNext
<1> QED BY <1>1, <1>2, PTL DEF Spec

\* Whatever updates, disclosures and version 1 events a submission leaves out, authorize
\* returns no designation that the accepted log shows to be revoked.
THEOREM RevocationCorrect == Spec => []RevocationNotHidden
<1>1. JudgeInv => RevocationNotHidden
  BY NotHidden
<1> QED BY <1>1, Always, PTL

\* authorize sorts what it returns by the key event that put each designation in force,
\* as the messages alone tell it, whatever the order of the stream.
THEOREM OrderCorrect == Spec => []DesignationsInOrder
<1>1. JudgeInv => DesignationsInOrder
  BY Ordered
<1> QED BY <1>1, Always, PTL

\* emit_stream writes every message that was accepted, once, and no other.
THEOREM HostingCorrect == Spec => []NothingDropped
<1>1. RoundInv => NothingDropped
  BY DEF RoundInv, NothingDropped
<1> QED BY <1>1, Always, PTL

\* The bytes emit_stream writes are never refused where the submission was not, and
\* authorize returns the same designations of them in the same order.
THEOREM RoundTripCorrect == Spec => []HostedVetsAlike
<1>1. RoundInv => HostedVetsAlike
  BY DEF RoundInv, HostedVetsAlike
<1> QED BY <1>1, Always, PTL
=============================================================================
