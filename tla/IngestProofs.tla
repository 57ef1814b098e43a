---------------------------- MODULE IngestProofs ----------------------------
(***************************************************************************)
(* Theorems about Ingest, for any messages and any submission of them in   *)
(* any order: the drain of the escrows leaves nothing another pass would   *)
(* move, a fork is what the fork verdict falls on, a submission cannot     *)
(* verify by leaving a revocation out, what is accepted of it does not     *)
(* depend on its order, and what is hosted of it is accepted again.        *)
(***************************************************************************)
EXTENDS Ingest, DataInduction

(***************************************************************************)
(* The invariant.                                                          *)
(***************************************************************************)

Database == [fels : [Aid -> Seq(Frame)], tels : SUBSET Frame, saved : SUBSET Frame,
             rpys : SUBSET Frame]

(* The key event log of a: its own events, its inception first and once,   *)
(* and where one takes a place that was taken, or goes back before it, a   *)
(* rotation there or before came between.                                  *)
IsLogOf(log, a) ==
  /\ log \in Seq(Frame)
  /\ \A i \in DOMAIN log :
       /\ Event[log[i]].class = "kel" /\ Event[log[i]].principal = a
       /\ Event[log[i]].sn = 0 <=> i = 1
  /\ \A i, j \in DOMAIN log :
       i < j /\ Event[log[j]].sn <= Event[log[i]].sn =>
         \E k \in i + 1 .. j : Event[log[k]].ilk = "rot" /\ Event[log[k]].sn <= Event[log[j]].sn

(* What the database d has accepted was submitted: a credential only after *)
(* its issuance, and a delegate's inception after one of its delegator.    *)
IsSound(d) ==
  /\ d \in Database
  /\ \A a \in Aid : IsLogOf(d.fels[a], a) /\ Range(d.fels[a]) \subseteq stream
  /\ \A a \in Aid : d.fels[a] # <<>> /\ Event[d.fels[a][1]].ilk = "dip" =>
                      Knows(d, Event[d.fels[a][1]].di)
  /\ \A t \in d.tels : t \in stream /\ Event[t].class = "tel"
  /\ \A c \in d.saved : c \in stream /\ Event[c].class = "acdc" /\ Issued(d, c)
  /\ \A r \in d.rpys : r \in stream /\ Event[r].class = "rpy"

DatabaseSound == IsSound(db)

(* What may wait in an escrow.                                             *)
MayWait(f, e) ==
  CASE e = "ooes" -> Event[f].class = "kel" /\ Event[f].sn > 0
    [] e = "pdes" -> Event[f].class = "kel" /\ Event[f].sn = 0
    [] e \in {"oots", "taes"} -> Event[f].class = "tel"
    [] e = "mre"  -> Event[f].class = "acdc"
    [] e = "rpes" -> Event[f].class = "rpy"

(* All that a transaction event waits for but its anchor.                  *)
TelReady(d, t) ==
  /\ Event[t].ilk # "vcp" => HasRegistry(d, Event[t].registry)
  /\ Event[t].ilk = "rev" => Issued(d, Event[t].principal)

EscrowsSound ==
  /\ escrow \in [Escrow -> SUBSET (stream \cap Frame)]
  /\ \A e \in Escrow : \A f \in escrow[e] : MayWait(f, e)
  /\ escrow["oots"] \cap escrow["taes"] = {}
  /\ \A t \in escrow["taes"] : TelReady(db, t)
  /\ escrow["rpes"] \cap db.rpys = {}

Phases == {"ooes", "pdes", "tels", "creds", "rpys"}

TodoWaits ==
  /\ todo \subseteq stream
  /\ stage \in Phases => todo \subseteq Waiting(stage)

(* Which phase retries an escrow, and how far the pass is.                 *)
PhaseOf == [ooes |-> 1, pdes |-> 2, oots |-> 3, taes |-> 3, mre |-> 4, rpes |-> 5]
PassAt  == [ooes |-> 1, pdes |-> 2, tels |-> 3, creds |-> 4, rpys |-> 5, compare |-> 6]

Passed(f, e) ==
  PhaseOf[e] < PassAt[stage] \/ (PhaseOf[e] = PassAt[stage] /\ f \notin todo)

(* Within a pass the audited escrows only lose, but for what moves from    *)
(* one escrow of transaction events to the other.                          *)
OnlyLost ==
  /\ seen \in [Audited -> SUBSET stream]
  /\ escrow["ooes"] \subseteq seen["ooes"]
  /\ escrow["pdes"] \subseteq seen["pdes"]
  /\ escrow["oots"] \subseteq seen["oots"]
  /\ escrow["taes"] \subseteq seen["oots"] \cup seen["taes"]

(* In a pass that has changed nothing audited, what it has retried waits    *)
(* where it belongs; and in any pass, credentials and replies do, since     *)
(* nothing after them moves what they wait for.                            *)
PassSound ==
  /\ stage \in {"gate", "parse"} => seen = Unset
  /\ stage \in Phases \cup {"compare"} =>
       /\ seen # Unset => OnlyLost
       /\ \A e \in Escrow : \A f \in escrow[e] :
            Passed(f, e) /\ (e \in Audited => seen = EscrowState) => Verdict(db, f) = e

(* The fork verdict is the last thing said, and what it fell on is there.  *)
ForkStands == verdict = "KEL_FORKED" => stage = "refused" /\ Duplicitous # {}

(* What the audit and the authorization have established is still so.      *)
Audits == stage \in Judged => Unaccounted = {} /\ Omitted = {}
Grants == stage \in {"own", "emit"} => \A c \in designations : c \in Of("acdc") /\ ~Revoked(c)

IngestInv ==
  /\ stage \in Stage
  /\ DatabaseSound /\ EscrowsSound /\ TodoWaits /\ PassSound /\ DrainIsComplete
  /\ ForkStands /\ Audits /\ Grants

(***************************************************************************)
(* Key event logs.                                                         *)
(***************************************************************************)

LEMMA LogEntries ==
  ASSUME KeriAssumption, NEW log, NEW a, IsLogOf(log, a), NEW i \in DOMAIN log
  PROVE  log[i] \in Frame /\ Event[log[i]].sn \in Nat
BY DEF IsLogOf, KeriAssumption

LEMMA LogGrows ==
  ASSUME KeriAssumption, NEW log, NEW a, IsLogOf(log, a), NEW e \in Frame,
         Event[e].class = "kel", Event[e].principal = a,
         IF log = <<>> THEN Event[e].sn = 0
                       ELSE Event[e].sn = HeadSn(log) + 1 \/ Event[e].ilk = "rot"
  PROVE  IsLogOf(Append(log, e), a)
<1> DEFINE new == Append(log, e)
           n == Len(log)
<1>1. new \in Seq(Frame) /\ n \in Nat /\ DOMAIN log = 1 .. n /\ DOMAIN new = 1 .. n + 1
      /\ new[n + 1] = e /\ \A i \in 1 .. n : new[i] = log[i]
  BY AppendProperties, LenProperties DEF IsLogOf
<1>2. \A i \in 1 .. n : Event[log[i]].sn \in Nat
  BY <1>1, LogEntries
<1>3. Event[e].sn \in Nat
  BY DEF KeriAssumption
<1>4. n # 0 => Event[e].sn = Event[log[n]].sn + 1 \/ Event[e].ilk = "rot"
  <2>1. n # 0 => log # <<>>
    OBVIOUS
  <2> QED BY <2>1 DEF HeadSn
<1>5. Event[e].sn = 0 <=> n = 0
  <2>1. CASE n = 0
    <3>1. log = <<>>
      BY <1>1, <2>1, EmptySeq DEF IsLogOf
    <3> QED BY <2>1, <3>1
  <2>2. CASE n # 0
    <3>1. n \in 1 .. n /\ Event[log[n]].sn \in Nat
      BY <1>1, <1>2, <2>2
    <3>2. Event[e].ilk = "rot" => Event[e].sn # 0
      BY DEF KeriAssumption
    <3> QED BY <1>3, <1>4, <2>2, <3>1, <3>2
  <2> QED BY <2>1, <2>2
<1> HIDE DEF new
<1>6. ASSUME NEW i \in DOMAIN new
      PROVE  /\ Event[new[i]].class = "kel" /\ Event[new[i]].principal = a
             /\ Event[new[i]].sn = 0 <=> i = 1
  <2>1. CASE i \in 1 .. n
    BY <1>1, <2>1 DEF IsLogOf
  <2>2. CASE i = n + 1
    BY <1>1, <1>5, <2>2
  <2> QED BY <1>1, <2>1, <2>2
<1>7. ASSUME NEW i \in DOMAIN new, NEW j \in DOMAIN new,
             i < j, Event[new[j]].sn <= Event[new[i]].sn
      PROVE  \E k \in i + 1 .. j : Event[new[k]].ilk = "rot" /\ Event[new[k]].sn <= Event[new[j]].sn
  <2>0. i \in 1 .. n + 1 /\ j \in 1 .. n + 1 /\ i \in 1 .. n
    BY <1>1, <1>7
  <2>1. CASE j \in 1 .. n
    <3>1. \E k \in i + 1 .. j : Event[log[k]].ilk = "rot" /\ Event[log[k]].sn <= Event[log[j]].sn
      BY <1>1, <1>7, <2>0, <2>1 DEF IsLogOf
    <3>2. \A k \in i + 1 .. j : k \in 1 .. n
      BY <1>1, <2>0, <2>1
    <3> QED BY <1>1, <2>1, <3>1, <3>2
  <2>2. CASE j = n + 1 /\ Event[e].ilk = "rot"
    <3>1. j \in i + 1 .. j
      BY <1>1, <1>7, <2>0
    <3>2. Event[new[j]].sn <= Event[new[j]].sn
      BY <1>1, <1>3, <2>2
    <3> QED BY <1>1, <2>2, <3>1, <3>2
  <2>3. CASE j = n + 1 /\ Event[e].sn = Event[log[n]].sn + 1
    <3>1. n \in 1 .. n /\ Event[log[n]].sn \in Nat /\ Event[log[i]].sn \in Nat
      BY <1>1, <1>2, <2>0
    <3>2. Event[log[n]].sn < Event[log[i]].sn
      BY <1>1, <1>7, <2>0, <2>3, <3>1
    <3>3. i < n
      BY <1>1, <2>0, <3>1, <3>2
    <3>4. PICK k \in i + 1 .. n : Event[log[k]].ilk = "rot" /\ Event[log[k]].sn <= Event[log[n]].sn
      <4>1. i \in DOMAIN log /\ n \in DOMAIN log /\ Event[log[n]].sn <= Event[log[i]].sn
        BY <1>1, <2>0, <3>1, <3>2
      <4> QED BY <3>3, <4>1 DEF IsLogOf
    <3>5. k \in 1 .. n /\ k \in i + 1 .. j
      BY <1>1, <2>0, <2>3
    <3>6. Event[log[k]].sn \in Nat
      BY <1>2, <3>5
    <3>7. new[k] = log[k] /\ new[j] = e
      BY <1>1, <2>3, <3>5
    <3>8. Event[new[k]].ilk = "rot" /\ Event[new[k]].sn <= Event[new[j]].sn
      BY <2>3, <3>1, <3>4, <3>6, <3>7
    <3> QED BY <3>5, <3>8
  <2> QED BY <1>1, <1>4, <2>0, <2>1, <2>2, <2>3
<1>8. new \in Seq(Frame)
  BY <1>1
<1>9. IsLogOf(new, a)
  BY <1>6, <1>7, <1>8 DEF IsLogOf
<1> QED BY <1>9 DEF new

LEMMA HeadIsNat ==
  ASSUME KeriAssumption, NEW log, NEW a, IsLogOf(log, a), log # <<>>
  PROVE  HeadSn(log) \in Nat
<1>1. Len(log) \in DOMAIN log
  BY LenProperties, EmptySeq DEF IsLogOf
<1> QED BY <1>1, LogEntries DEF HeadSn

(***************************************************************************)
(* Verdicts.                                                               *)
(***************************************************************************)

(* What keripy accepts of a key event it had not seen.                     *)
LEMMA KelAccepted ==
  ASSUME KeriAssumption, NEW d, NEW f \in Frame, Event[f].class = "kel",
         KelVerdict(d, f) = "accept", ~Seen(d, f)
  PROVE  LET log == Log(d, Event[f].principal) IN
           /\ log = <<>> => Event[f].sn = 0 /\ (Event[f].ilk = "dip" => Sealed(d, f))
           /\ log # <<>> => Event[f].sn = HeadSn(log) + 1 \/ Event[f].ilk = "rot"
<1> DEFINE log == Log(d, Event[f].principal)
<1>1. Event[f].genuine
  BY DEF KelVerdict
<1>2. KelVerdict(d, f) = IF log = <<>>
        THEN IF Event[f].sn > 0 THEN "ooes"
             ELSE IF Event[f].ilk = "dip" /\ ~Sealed(d, f) THEN "pdes" ELSE "accept"
        ELSE IF Event[f].sn > HeadSn(log) + 1 THEN "ooes"
        ELSE IF \/ Event[f].sn = HeadSn(log) + 1 /\ Event[f].prior = log[Len(log)]
                \/ Recovers(log, f)
        THEN "accept" ELSE "drop"
  BY <1>1 DEF KelVerdict
<1> HIDE DEF log
<1>3. Event[f].class = "kel" => Event[f].sn \in Nat
  BY DEF KeriAssumption
<1>4. log = <<>> => Event[f].sn = 0 /\ (Event[f].ilk = "dip" => Sealed(d, f))
  BY <1>2, <1>3
<1>5. log # <<>> => Event[f].sn = HeadSn(log) + 1 \/ Event[f].ilk = "rot"
  BY <1>2 DEF Recovers
<1> QED BY <1>4, <1>5 DEF log

(* A message only waits in an escrow for messages like it.                 *)
LEMMA WaitsWhereItMay ==
  ASSUME KeriAssumption, NEW d, IsSound(d), NEW f \in Frame, NEW e \in Escrow, Verdict(d, f) = e
  PROVE  MayWait(f, e) /\ (e = "taes" => TelReady(d, f)) /\ (e = "rpes" => f \notin d.rpys)
<1>0. e \in {"ooes", "pdes", "oots", "taes", "mre", "rpes"}
  BY DEF Escrow, Audited
<1>1. CASE Event[f].class = "kel"
  <2> DEFINE log == Log(d, Event[f].principal)
  <2>1. Event[f].principal \in Aid /\ Event[f].sn \in Nat
    BY <1>1 DEF KeriAssumption
  <2>2. log # <<>> => HeadSn(log) \in Nat
    BY <2>1, HeadIsNat DEF IsSound, Log
  <2>3. KelVerdict(d, f) = e
    BY <1>1 DEF Verdict
  <2> HIDE DEF log
  <2>4. CASE log = <<>>
    BY <1>0, <1>1, <2>1, <2>3, <2>4 DEF KelVerdict, log, MayWait
  <2>5. CASE log # <<>>
    <3>1. e = "ooes" /\ Event[f].sn > HeadSn(log) + 1
      BY <1>0, <2>3, <2>5 DEF KelVerdict, log
    <3> QED BY <1>1, <2>1, <2>2, <2>5, <3>1 DEF MayWait
  <2> QED BY <2>4, <2>5
<1>2. CASE Event[f].class = "tel"
  BY <1>0, <1>2 DEF Verdict, TelVerdict, MayWait, TelReady
<1>3. CASE Event[f].class = "acdc"
  BY <1>0, <1>3 DEF Verdict, CredentialVerdict, MayWait
<1>4. CASE Event[f].class = "rpy"
  BY <1>0, <1>4 DEF Verdict, ReplyVerdict, MayWait
<1> QED BY <1>1, <1>2, <1>3, <1>4 DEF KeriAssumption

(* Accepting takes nothing back but a reply that a newer one replaces.     *)
LEMMA AcceptingKeeps ==
  ASSUME KeriAssumption, NEW d \in Database, NEW f \in Frame
  PROVE  LET n == Accepting(d, f) IN
           /\ n \in Database
           /\ \A a \in Aid : Range(d.fels[a]) \subseteq Range(n.fels[a])
           /\ \A a : Knows(d, a) => Knows(n, a)
           /\ \A r : HasRegistry(d, r) => HasRegistry(n, r)
           /\ \A c : Issued(d, c) => Issued(n, c)
           /\ n.rpys \subseteq d.rpys \cup {f}
<1> DEFINE n == Accepting(d, f)
<1>1. CASE Event[f].class = "kel" /\ ~Seen(d, f)
  <2> DEFINE p == Event[f].principal
             log == d.fels[p]
  <2>1. p \in Aid /\ log \in Seq(Frame)
    BY <1>1 DEF KeriAssumption, Database
  <2>2. Append(log, f) \in Seq(Frame) /\ Append(log, f) # <<>>
        /\ Range(log) \subseteq Range(Append(log, f))
    <3>1. /\ DOMAIN log = 1 .. Len(log) /\ Len(log) \in Nat
          /\ DOMAIN Append(log, f) = 1 .. Len(log) + 1
          /\ \A i \in 1 .. Len(log) : Append(log, f)[i] = log[i]
      BY <2>1, AppendProperties, LenProperties
    <3> QED BY <2>1, <3>1, AppendProperties DEF Range
  <2>3. n = [d EXCEPT !.fels[p] = Append(@, f)]
    BY <1>1 DEF Accepting
  <2>4. n \in Database /\ n.tels = d.tels /\ n.rpys = d.rpys /\ n.fels[p] = Append(log, f)
        /\ \A a \in Aid : a # p => n.fels[a] = d.fels[a]
    <3> HIDE DEF log, n
    <3>1. n.fels = [d.fels EXCEPT ![p] = Append(log, f)] /\ n.tels = d.tels
          /\ n.rpys = d.rpys /\ n.saved = d.saved
          /\ n = [fels |-> n.fels, tels |-> n.tels, saved |-> n.saved, rpys |-> n.rpys]
      BY <2>3 DEF Database, log
    <3> QED BY <2>1, <2>2, <3>1 DEF Database
  <2>5. \A a \in Aid : Range(d.fels[a]) \subseteq Range(n.fels[a])
    BY <2>2, <2>4
  <2>6. \A a : Knows(d, a) => Knows(n, a)
    BY <2>2, <2>4 DEF Knows, Log
  <2> QED BY <2>4, <2>5, <2>6 DEF HasRegistry, Issued
<1>2. CASE Event[f].class = "kel" /\ Seen(d, f)
  BY <1>2 DEF Accepting
<1>3. CASE Event[f].class = "tel"
  <2>1. n \in Database /\ n.tels = d.tels \cup {f} /\ n.fels = d.fels /\ n.rpys = d.rpys
    BY <1>3 DEF Accepting, Database
  <2> QED BY <2>1 DEF HasRegistry, Issued, Knows, Log
<1>4. CASE Event[f].class = "acdc"
  <2>1. n \in Database /\ n.tels = d.tels /\ n.fels = d.fels /\ n.rpys = d.rpys
    BY <1>4 DEF Accepting, Database
  <2> QED BY <2>1 DEF HasRegistry, Issued, Knows, Log
<1>5. CASE Event[f].class = "rpy"
  <2>1. n \in Database /\ n.tels = d.tels /\ n.fels = d.fels /\ n.rpys \subseteq d.rpys \cup {f}
    BY <1>5 DEF Accepting, Database
  <2> QED BY <2>1 DEF HasRegistry, Issued, Knows, Log
<1> QED BY <1>1, <1>2, <1>3, <1>4, <1>5 DEF KeriAssumption

LEMMA AcceptingSound ==
  ASSUME KeriAssumption, NEW d, IsSound(d), NEW f \in Frame, f \in stream, Verdict(d, f) = "accept"
  PROVE  IsSound(Accepting(d, f))
<1> DEFINE n == Accepting(d, f)
<1>0. /\ d \in Database /\ n \in Database
      /\ \A a : Knows(d, a) => Knows(n, a)
      /\ \A c : Issued(d, c) => Issued(n, c)
  BY AcceptingKeeps DEF IsSound
<1>1. CASE Event[f].class = "kel" /\ ~Seen(d, f)
  <2> DEFINE p == Event[f].principal
             log == d.fels[p]
  <2>0. p \in Aid
    BY <1>1 DEF KeriAssumption
  <2>1. p \in Aid /\ IsLogOf(log, p) /\ Range(log) \subseteq stream /\ log \in Seq(Frame)
    BY <2>0 DEF IsSound, Database
  <2>2. KelVerdict(d, f) = "accept" /\ Log(d, p) = log
    BY <1>1 DEF Verdict, Log
  <2>3. n = [d EXCEPT !.fels[p] = Append(@, f)]
    BY <1>1 DEF Accepting
  <2>4. n.tels = d.tels /\ n.saved = d.saved /\ n.rpys = d.rpys /\ n.fels[p] = Append(log, f)
        /\ \A a \in Aid : a # p => n.fels[a] = d.fels[a]
    BY <1>0, <2>1, <2>3 DEF Database
  <2>5. IsLogOf(Append(log, f), p)
    <3>1. log = <<>> => Event[f].sn = 0
      BY <1>1, <2>2, KelAccepted
    <3>2. log # <<>> => Event[f].sn = HeadSn(log) + 1 \/ Event[f].ilk = "rot"
      BY <1>1, <2>2, KelAccepted
    <3> QED BY <1>1, <2>1, <3>1, <3>2, LogGrows
  <2>6. Range(Append(log, f)) \subseteq stream
    <3>1. /\ DOMAIN log = 1 .. Len(log) /\ Len(log) \in Nat
          /\ DOMAIN Append(log, f) = 1 .. Len(log) + 1
          /\ Append(log, f)[Len(log) + 1] = f
          /\ \A i \in 1 .. Len(log) : Append(log, f)[i] = log[i]
      <4>1. PICK s : s = log
        OBVIOUS
      <4>2. s \in Seq(Frame) /\ f \in Frame
        BY <2>1, <4>1
      <4>3. /\ DOMAIN s = 1 .. Len(s) /\ Len(s) \in Nat
            /\ Append(s, f) \in Seq(Frame) /\ Len(Append(s, f)) = Len(s) + 1
            /\ Append(s, f)[Len(s) + 1] = f
            /\ \A i \in 1 .. Len(s) : Append(s, f)[i] = s[i]
        BY <4>2, AppendProperties, LenProperties
      <4>4. DOMAIN Append(s, f) = 1 .. Len(s) + 1
        BY <4>3, LenProperties
      <4> QED BY <4>1, <4>3, <4>4
    <3>2. ASSUME NEW i \in 1 .. Len(log) + 1
          PROVE  Append(log, f)[i] \in stream
      <4>1. CASE i \in 1 .. Len(log)
        BY <2>1, <3>1, <4>1 DEF Range
      <4>2. CASE i = Len(log) + 1
        BY <3>1, <4>2
      <4> QED BY <3>1, <4>1, <4>2
    <3> QED BY <3>1, <3>2 DEF Range
  <2>7. ASSUME NEW a \in Aid, n.fels[a] # <<>>, Event[n.fels[a][1]].ilk = "dip"
        PROVE  Knows(n, Event[n.fels[a][1]].di)
    <3>1. CASE a # p \/ log # <<>>
      <4>1. d.fels[a] # <<>> /\ n.fels[a][1] = d.fels[a][1]
        <5>1. CASE a # p
          BY <2>4, <2>7, <5>1
        <5>2. CASE a = p
          <6>1. log # <<>> /\ Len(log) \in Nat /\ Len(log) # 0
            BY <2>1, <3>1, <5>2, EmptySeq, LenProperties
          <6>2. 1 \in 1 .. Len(log)
            BY <6>1
          <6> QED BY <2>1, <2>4, <5>2, <6>1, <6>2, AppendProperties
        <5> QED BY <5>1, <5>2
      <4> QED BY <1>0, <2>7, <4>1 DEF IsSound
    <3>2. CASE a = p /\ log = <<>>
      <4>1. n.fels[a][1] = f
        <5>1. Append(log, f)[Len(log) + 1] = f /\ Len(log) = 0
          BY <2>1, <3>2, AppendProperties
        <5> QED BY <2>4, <3>2, <5>1
      <4>2. Sealed(d, f)
        BY <1>1, <2>2, <2>7, <3>2, <4>1, KelAccepted
      <4> QED BY <1>0, <4>1, <4>2 DEF Sealed
    <3> QED BY <3>1, <3>2
  <2> HIDE DEF n
  <2>8. ASSUME NEW a \in Aid
        PROVE  IsLogOf(n.fels[a], a) /\ Range(n.fels[a]) \subseteq stream
    <3>1. CASE a = p
      BY <2>4, <2>5, <2>6, <3>1
    <3>2. CASE a # p
      <4>1. IsLogOf(d.fels[a], a) /\ Range(d.fels[a]) \subseteq stream
        BY <1>0 DEF IsSound
      <4> QED BY <2>4, <3>2, <4>1
    <3> QED BY <3>1, <3>2
  <2>9. IsSound(n)
    BY <1>0, <2>4, <2>7, <2>8 DEF IsSound
  <2> QED BY <2>9 DEF n
<1>2. CASE Event[f].class = "kel" /\ Seen(d, f)
  BY <1>2 DEF Accepting
<1>3. CASE Event[f].class = "tel"
  <2>1. n.tels = d.tels \cup {f} /\ n.fels = d.fels /\ n.rpys = d.rpys /\ n.saved = d.saved
    BY <1>0, <1>3 DEF Accepting, Database
  <2> HIDE DEF n
  <2>9. IsSound(n)
    BY <1>0, <1>3, <2>1 DEF IsSound
  <2> QED BY <2>9 DEF n
<1>4. CASE Event[f].class = "acdc"
  <2>1. n.tels = d.tels /\ n.fels = d.fels /\ n.rpys = d.rpys /\ n.saved = d.saved \cup {f}
    BY <1>0, <1>4 DEF Accepting, Database
  <2>2. Issued(d, f)
    BY <1>4 DEF Verdict, CredentialVerdict
  <2> HIDE DEF n
  <2>9. IsSound(n)
    BY <1>0, <1>4, <2>1, <2>2 DEF IsSound
  <2> QED BY <2>9 DEF n
<1>5. CASE Event[f].class = "rpy"
  <2>1. n.tels = d.tels /\ n.fels = d.fels /\ n.rpys \subseteq d.rpys \cup {f} /\ n.saved = d.saved
    BY <1>0, <1>5 DEF Accepting, Database
  <2> HIDE DEF n
  <2>9. IsSound(n)
    BY <1>0, <1>5, <2>1 DEF IsSound
  <2> QED BY <2>9 DEF n
<1> QED BY <1>1, <1>2, <1>3, <1>4, <1>5 DEF KeriAssumption

(* One verdict, and what it does to the database and the escrows.          *)
LEMMA JudgeKeeps ==
  ASSUME KeriAssumption, DatabaseSound, NEW f \in Frame, Judge(f)
  PROVE  /\ db' \in Database
         /\ \A a : Knows(db, a) => Knows(db', a)
         /\ \A r : HasRegistry(db, r) => HasRegistry(db', r)
         /\ \A c : Issued(db, c) => Issued(db', c)
         /\ db'.rpys \subseteq db.rpys \cup (IF Verdict(db, f) = "accept" THEN {f} ELSE {})
<1>1. db \in Database
  BY DEF DatabaseSound, IsSound
<1>2. CASE Verdict(db, f) = "accept"
  <2>1. db' = Accepting(db, f)
    BY <1>2 DEF Judge
  <2> QED BY <1>1, <1>2, <2>1, AcceptingKeeps
<1>3. CASE Verdict(db, f) # "accept"
  <2>1. db' = db
    BY <1>3 DEF Judge
  <2> QED BY <1>1, <1>3, <2>1
<1> QED BY <1>2, <1>3

LEMMA JudgeSound ==
  ASSUME KeriAssumption, DatabaseSound, EscrowsSound, NEW f \in Frame, f \in stream, Judge(f),
         stream' = stream
  PROVE  DatabaseSound' /\ EscrowsSound'
<1> DEFINE v == Verdict(db, f)
<1>1. DatabaseSound'
  <2>1. CASE v = "accept"
    <3>1. db' = Accepting(db, f)
      BY <2>1 DEF Judge
    <3>2. IsSound(db')
      BY <2>1, <3>1, AcceptingSound DEF DatabaseSound
    <3> QED BY <3>2 DEF DatabaseSound, IsSound
  <2>2. CASE v # "accept"
    <3>1. db' = db
      BY <2>2 DEF Judge
    <3> QED BY <3>1 DEF DatabaseSound, IsSound
  <2> QED BY <2>1, <2>2
<1>2. escrow' \in [Escrow -> SUBSET (stream \cap Frame)]
      /\ \A e \in Escrow : escrow'[e] = IF v = e THEN escrow[e] \cup {f} ELSE escrow[e] \ {f}
  BY DEF Judge, EscrowsSound
<1>3. \A e \in Escrow : v = e => MayWait(f, e) /\ (e = "taes" => TelReady(db, f))
                                 /\ (e = "rpes" => f \notin db.rpys)
  BY WaitsWhereItMay DEF DatabaseSound
<1> HIDE DEF v
<1>4. \A e \in Escrow : \A g \in escrow'[e] : MayWait(g, e)
  BY <1>2, <1>3 DEF EscrowsSound
<1>5. {"oots", "taes", "rpes"} \subseteq Escrow
  BY DEF Escrow, Audited
<1>6. escrow'["oots"] \cap escrow'["taes"] = {}
  BY <1>2, <1>5 DEF EscrowsSound
<1>7. \A t \in escrow'["taes"] : TelReady(db', t)
  <2>1. \A t \in escrow'["taes"] : TelReady(db, t)
    BY <1>2, <1>3, <1>5 DEF EscrowsSound
  <2> QED BY <2>1, JudgeKeeps DEF TelReady
<1>8. escrow'["rpes"] \cap db'.rpys = {}
  <2>1. db'.rpys \subseteq db.rpys \cup (IF v = "accept" THEN {f} ELSE {})
    BY JudgeKeeps DEF v
  <2>2. CASE v = "rpes"
    BY <1>2, <1>3, <1>5, <2>1, <2>2 DEF EscrowsSound
  <2>3. CASE v # "rpes"
    BY <1>2, <1>5, <2>1, <2>3 DEF EscrowsSound
  <2> QED BY <2>2, <2>3
<1> QED BY <1>1, <1>2, <1>4, <1>6, <1>7, <1>8 DEF EscrowsSound

(***************************************************************************)
(* The drain.                                                              *)
(***************************************************************************)

(* What waits goes on waiting until a log or a transaction log grows.      *)
LEMMA WaitsOn ==
  ASSUME KeriAssumption, NEW d, NEW n, n.fels = d.fels, n.tels = d.tels,
         NEW g \in Frame, NEW e \in Escrow, Verdict(d, g) = e, e = "rpes" => g \notin n.rpys
  PROVE  Verdict(n, g) = e
<1>0. e \in {"ooes", "pdes", "oots", "taes", "mre", "rpes"}
  BY DEF Escrow, Audited
<1>1. CASE Event[g].class = "kel"
  <2>1. KelVerdict(n, g) = KelVerdict(d, g)
    BY DEF KelVerdict, Log, Seen, Sealed, Knows
  <2> QED BY <1>1, <2>1 DEF Verdict
<1>2. CASE Event[g].class = "tel"
  <2>1. TelVerdict(n, g) = TelVerdict(d, g)
    BY DEF TelVerdict, HasRegistry, Issued, Anchored, Seen, Log
  <2> QED BY <1>2, <2>1 DEF Verdict
<1>3. CASE Event[g].class = "acdc"
  <2>1. CredentialVerdict(n, g) = CredentialVerdict(d, g)
    BY DEF CredentialVerdict, HasRegistry, Issued
  <2> QED BY <1>3, <2>1 DEF Verdict
<1>4. CASE Event[g].class = "rpy"
  <2>1. e = "rpes" /\ Event[g].role /\ ~Knows(d, Event[g].cid)
    BY <1>0, <1>4 DEF Verdict, ReplyVerdict
  <2>2. ~Knows(n, Event[g].cid)
    BY <2>1 DEF Knows, Log
  <2> QED BY <1>4, <2>1, <2>2 DEF Verdict, ReplyVerdict
<1> QED BY <1>1, <1>2, <1>3, <1>4 DEF KeriAssumption

(* A credential or a reply accepted grows no log and no transaction log.   *)
LEMMA LateJudgement ==
  ASSUME KeriAssumption, DatabaseSound, NEW f \in Frame, Event[f].class \in {"acdc", "rpy"}, Judge(f)
  PROVE  db'.fels = db.fels /\ db'.tels = db.tels
<1>1. CASE Verdict(db, f) = "accept"
  <2>1. db' = Accepting(db, f)
    BY <1>1 DEF Judge
  <2>2. db \in Database
    BY DEF DatabaseSound, IsSound
  <2>3. CASE Event[f].class = "acdc"
    BY <2>1, <2>2, <2>3 DEF Accepting, Database
  <2>4. CASE Event[f].class = "rpy"
    BY <2>1, <2>2, <2>4 DEF Accepting, Database
  <2> QED BY <2>3, <2>4
<1>2. CASE Verdict(db, f) # "accept"
  BY <1>2 DEF Judge
<1> QED BY <1>1, <1>2

LEMMA EscrowNames ==
  /\ Audited = {"ooes", "pdes", "oots", "taes"}
  /\ Escrow = {"ooes", "pdes", "oots", "taes", "mre", "rpes"}
BY DEF Escrow, Audited

(* Which escrow an entry being retried waits in.                           *)
LEMMA TodoIn ==
  ASSUME EscrowsSound, TodoWaits, stage \in Phases, NEW f \in todo
  PROVE  \E e \in Escrow : f \in escrow[e] /\ MayWait(f, e) /\ PhaseOf[e] = PassAt[stage]
<1>1. f \in Waiting(stage)
  BY DEF TodoWaits
<1>2. \A e \in Escrow : f \in escrow[e] => MayWait(f, e)
  BY DEF EscrowsSound
<1>3. CASE stage = "ooes"
  BY <1>1, <1>2, <1>3, EscrowNames DEF Waiting, PhaseOf, PassAt
<1>4. CASE stage = "pdes"
  BY <1>1, <1>2, <1>4, EscrowNames DEF Waiting, PhaseOf, PassAt
<1>5. CASE stage = "tels"
  BY <1>1, <1>2, <1>5, EscrowNames DEF Waiting, PhaseOf, PassAt
<1>6. CASE stage = "creds"
  BY <1>1, <1>2, <1>6, EscrowNames DEF Waiting, PhaseOf, PassAt
<1>7. CASE stage = "rpys"
  BY <1>1, <1>2, <1>7, EscrowNames DEF Waiting, PhaseOf, PassAt
<1> QED BY <1>3, <1>4, <1>5, <1>6, <1>7 DEF Phases

(* A retry leaves an entry where it was, takes it out, or moves a           *)
(* transaction event that found its registry on to wait for its anchor.    *)
LEMMA RetriedWaits ==
  ASSUME KeriAssumption, DatabaseSound, EscrowsSound, TodoWaits, stage \in Phases,
         NEW f \in todo, f \in Frame, NEW v \in Escrow, Verdict(db, f) = v
  PROVE  f \in escrow[v] \/ (v = "taes" /\ f \in escrow["oots"])
<1>1. PICK e \in Escrow : f \in escrow[e] /\ MayWait(f, e)
  BY TodoIn
<1>2. MayWait(f, v)
  BY WaitsWhereItMay DEF DatabaseSound
<1>3. CASE e = v
  BY <1>1, <1>3
<1>4. CASE e # v
  <2>1. (e = "oots" /\ v = "taes") \/ (e = "taes" /\ v = "oots")
    <3>1. e \in {"ooes", "pdes", "oots", "taes", "mre", "rpes"}
          /\ v \in {"ooes", "pdes", "oots", "taes", "mre", "rpes"}
      BY EscrowNames
    <3>2. CASE Event[f].class = "kel"
      <4>1. e \in {"ooes", "pdes"} /\ v \in {"ooes", "pdes"} /\ Event[f].sn \in Nat
        BY <1>1, <1>2, <3>1, <3>2 DEF MayWait, KeriAssumption
      <4>2. \A x : x = "ooes" /\ MayWait(f, x) => Event[f].sn > 0
        BY DEF MayWait
      <4>3. \A x : x = "pdes" /\ MayWait(f, x) => Event[f].sn = 0
        BY DEF MayWait
      <4> QED BY <1>1, <1>2, <1>4, <4>1, <4>2, <4>3
    <3>3. CASE Event[f].class = "tel"
      <4>1. e \in {"oots", "taes"}
        BY <1>1, <3>1, <3>3 DEF MayWait
      <4>2. v \in {"oots", "taes"}
        BY <1>2, <3>1, <3>3 DEF MayWait
      <4> QED BY <1>4, <4>1, <4>2
    <3>4. CASE Event[f].class \notin {"kel", "tel"}
      BY <1>1, <1>2, <1>4, <3>1, <3>4 DEF MayWait
    <3> QED BY <3>2, <3>3, <3>4
  <2>2. CASE v = "taes"
    BY <1>1, <1>4, <2>1, <2>2
  <2>3. CASE v = "oots" /\ e = "taes"
    <3>1. TelReady(db, f) /\ Event[f].class = "tel"
      BY <1>1, <2>3 DEF EscrowsSound, MayWait
    <3>2. TelVerdict(db, f) # "oots"
      BY <3>1 DEF TelVerdict, TelReady
    <3> QED BY <2>3, <3>1, <3>2 DEF Verdict
  <2> QED BY <1>4, <2>1, <2>2, <2>3
<1> QED BY <1>3, <1>4

LEMMA UnsetIsNoState ==
  ASSUME NEW m, DOMAIN m = Audited
  PROVE  m # Unset
<1>1. "ooes" \in Audited
  BY DEF Audited
<1>2. DOMAIN Unset = {}
  BY DEF Unset
<1> QED BY <1>1, <1>2

(* A retry keeps what is said of the pass.                                 *)
LEMMA RetryPasses ==
  ASSUME KeriAssumption, DatabaseSound, EscrowsSound, TodoWaits, PassSound, NEW f \in Frame,
         f \in stream, Retry(f)
  PROVE  TodoWaits' /\ PassSound'
<1> DEFINE v == Verdict(db, f)
<1>1. /\ stage \in Phases /\ stage' = stage /\ f \in todo /\ Judge(f) /\ todo' = todo \ {f}
      /\ stream' = stream /\ seen' = seen
  BY DEF Retry, Drain, Range, Phases
<1>2. /\ \A e \in Escrow : escrow'[e] = IF v = e THEN escrow[e] \cup {f} ELSE escrow[e] \ {f}
      /\ v # "accept" => db' = db
  BY <1>1 DEF Judge
<1>3. v \in Escrow => f \in escrow[v] \/ (v = "taes" /\ f \in escrow["oots"])
  BY <1>1, RetriedWaits
<1>4. PICK e0 \in Escrow : f \in escrow[e0] /\ MayWait(f, e0) /\ PhaseOf[e0] = PassAt[stage]
  BY <1>1, TodoIn
<1>5. DatabaseSound' /\ EscrowsSound'
  BY <1>1, JudgeSound
<1> HIDE DEF v
<1>6. TodoWaits'
  <2>1. \A g \in todo' : g \in Waiting(stage)'
    <3>1. \A g \in todo' : g \in Waiting(stage) /\ g # f
      BY <1>1 DEF TodoWaits
    <3>2. CASE stage = "ooes"
      BY <1>1, <1>2, <3>1, <3>2, EscrowNames DEF Waiting
    <3>3. CASE stage = "pdes"
      BY <1>1, <1>2, <3>1, <3>3, EscrowNames DEF Waiting
    <3>4. CASE stage = "tels"
      BY <1>1, <1>2, <3>1, <3>4, EscrowNames DEF Waiting
    <3>5. CASE stage = "creds"
      BY <1>1, <1>2, <3>1, <3>5, EscrowNames DEF Waiting
    <3>6. CASE stage = "rpys"
      BY <1>1, <1>2, <3>1, <3>6, EscrowNames DEF Waiting
    <3> QED BY <1>1, <3>2, <3>3, <3>4, <3>5, <3>6 DEF Phases
  <2> QED BY <1>1, <2>1 DEF TodoWaits
<1>7. seen # Unset => OnlyLost
  BY <1>1 DEF PassSound
<1>8. /\ escrow'["ooes"] \subseteq escrow["ooes"]
      /\ escrow'["pdes"] \subseteq escrow["pdes"]
      /\ escrow'["oots"] \subseteq escrow["oots"]
      /\ escrow'["taes"] \subseteq escrow["oots"] \cup escrow["taes"]
  BY <1>2, <1>3, EscrowNames
<1>9. seen' # Unset => OnlyLost'
  BY <1>1, <1>7, <1>8 DEF OnlyLost
<1>10. ASSUME NEW e \in Escrow, NEW g \in escrow'[e], Passed(g, e)',
              e \in Audited => seen' = EscrowState'
       PROVE  Verdict(db', g) = e
  <2>1. g = f => v = e
    BY <1>2
  <2>2. g # f => g \in escrow[e] /\ Passed(g, e)
    BY <1>1, <1>2, <1>10 DEF Passed
  <2>3. g \in Frame /\ (e = "rpes" => g \notin db'.rpys)
    <3>1. escrow' \in [Escrow -> SUBSET (stream \cap Frame)]'
      BY <1>5 DEF EscrowsSound
    <3> QED BY <1>5, <3>1 DEF EscrowsSound
  <2>4. v = e => v # "accept"
    BY EscrowNames
  <2>5. CASE e \in Audited
    <3>1. \A a \in Audited : seen[a] = escrow'[a]
      BY <1>1, <1>10, <2>5 DEF EscrowState
    <3>2. OnlyLost
      <4>1. DOMAIN seen = Audited
        BY <1>1, <1>10, <2>5 DEF EscrowState
      <4> QED BY <1>7, <4>1, UnsetIsNoState
    <3>3. \A a \in {"ooes", "pdes", "oots"} : escrow'[a] = escrow[a]
      <4>1. escrow["ooes"] \subseteq escrow'["ooes"] /\ escrow["pdes"] \subseteq escrow'["pdes"]
            /\ escrow["oots"] \subseteq escrow'["oots"]
        BY <3>1, <3>2, EscrowNames DEF OnlyLost
      <4>2. escrow["ooes"] = escrow'["ooes"] /\ escrow["pdes"] = escrow'["pdes"]
            /\ escrow["oots"] = escrow'["oots"]
        BY <1>8, <4>1
      <4> QED BY <4>2
    <3>4. escrow'["taes"] = escrow["taes"]
      <4>1. escrow["oots"] \cap escrow["taes"] = {} /\ escrow'["oots"] \cap escrow'["taes"] = {}
        BY <1>5 DEF EscrowsSound
      <4>2. escrow["taes"] \subseteq escrow'["oots"] \cup escrow'["taes"]
        BY <3>1, <3>2, EscrowNames DEF OnlyLost
      <4>3. escrow'["oots"] = escrow["oots"]
        BY <3>3
      <4> QED BY <1>8, <4>1, <4>2, <4>3
    <3>5. EscrowState = seen
      <4>1. \A a \in Audited : escrow[a] = escrow'[a]
        BY <3>3, <3>4, EscrowNames
      <4> QED BY <1>1, <1>10, <2>5, <4>1 DEF EscrowState
    <3>6. db'.fels = db.fels /\ db'.tels = db.tels
      <4>1. CASE e0 \in Audited
        <5>1. f \in escrow'[e0]
          BY <1>4, <3>3, <3>4, <4>1, EscrowNames
        <5>2. v = e0
          BY <1>2, <5>1
        <5> QED BY <1>2, <5>2, EscrowNames
      <4>2. CASE e0 \notin Audited
        <5>1. Event[f].class \in {"acdc", "rpy"}
          BY <1>4, <4>2, EscrowNames DEF MayWait
        <5> QED BY <1>1, <5>1, LateJudgement
      <4> QED BY <4>1, <4>2
    <3>7. Verdict(db, g) = e
      <4>1. CASE g = f
        BY <2>1, <4>1 DEF v
      <4>2. CASE g # f
        BY <1>1, <2>2, <3>5, <4>2 DEF PassSound
      <4> QED BY <4>1, <4>2
    <3> QED BY <2>3, <3>6, <3>7, WaitsOn
  <2>6. CASE e \in {"mre", "rpes"}
    <3>1. PhaseOf[e] >= 4 /\ PhaseOf[e] <= PassAt[stage]
      <4>1. PhaseOf[e] \in {4, 5} /\ PassAt[stage] \in 1 .. 5
        BY <1>1, <2>6 DEF PhaseOf, PassAt, Phases
      <4>2. PhaseOf[e] < PassAt[stage] \/ PhaseOf[e] = PassAt[stage]
        BY <1>1, <1>10 DEF Passed
      <4> QED BY <4>1, <4>2
    <3>2. e0 \in {"mre", "rpes"}
      BY <1>1, <1>4, <3>1, EscrowNames DEF PhaseOf, PassAt, Phases
    <3>3. Event[f].class \in {"acdc", "rpy"}
      BY <1>4, <3>2 DEF MayWait
    <3>4. db'.fels = db.fels /\ db'.tels = db.tels
      BY <1>1, <3>3, LateJudgement
    <3>5. Verdict(db, g) = e
      <4>1. CASE g = f
        BY <2>1, <4>1 DEF v
      <4>2. CASE g # f
        <5>1. e \notin Audited
          BY <2>6, EscrowNames
        <5> QED BY <1>1, <2>2, <4>2, <5>1 DEF PassSound
      <4> QED BY <4>1, <4>2
    <3> QED BY <2>3, <3>4, <3>5, WaitsOn
  <2> QED BY <2>5, <2>6, EscrowNames
<1>11. stage' \notin {"gate", "parse"}
  BY <1>1 DEF Phases
<1> QED BY <1>6, <1>9, <1>10, <1>11 DEF PassSound

(* A pass or a phase of one begins.                                        *)
LEMMA PhaseBegins ==
  ASSUME KeriAssumption, EscrowsSound, NEW phase \in Phases, Start(phase),
         stream' = stream, escrow' = escrow
  PROVE  TodoWaits' /\ stage' = phase
<1>1. Waiting(phase)' = Waiting(phase)
  BY DEF Waiting
<1>2. Waiting(phase) \subseteq stream
  BY EscrowNames DEF Waiting, EscrowsSound, Phases
<1> QED BY <1>1, <1>2 DEF Start, TodoWaits

LEMMA PhaseWaits ==
  ASSUME NEW phase \in Phases, NEW e \in Escrow, PhaseOf[e] = PassAt[phase]
  PROVE  escrow[e] \subseteq Waiting(phase)
<1>1. CASE phase = "ooes"
  BY <1>1, EscrowNames DEF Waiting, PhaseOf, PassAt
<1>2. CASE phase = "pdes"
  BY <1>2, EscrowNames DEF Waiting, PhaseOf, PassAt
<1>3. CASE phase = "tels"
  BY <1>3, EscrowNames DEF Waiting, PhaseOf, PassAt
<1>4. CASE phase = "creds"
  BY <1>4, EscrowNames DEF Waiting, PhaseOf, PassAt
<1>5. CASE phase = "rpys"
  BY <1>5, EscrowNames DEF Waiting, PhaseOf, PassAt
<1> QED BY <1>1, <1>2, <1>3, <1>4, <1>5 DEF Phases

(* A pass begins: nothing has been retried.                                *)
LEMMA PassBegins ==
  ASSUME KeriAssumption, EscrowsSound, Start("ooes"), stream' = stream, escrow' = escrow,
         seen' # Unset => OnlyLost'
  PROVE  TodoWaits' /\ PassSound'
<1>1. TodoWaits' /\ stage' = "ooes" /\ todo' = Waiting("ooes")
  BY PhaseBegins DEF Phases, Start
<1>2. ASSUME NEW e \in Escrow, NEW g \in escrow'[e]
      PROVE  ~Passed(g, e)'
  <2>1. g \in escrow[e] /\ PassAt["ooes"] = 1
    BY <1>2 DEF PassAt
  <2>2. PhaseOf[e] \in 1 .. 5
    BY EscrowNames DEF PhaseOf
  <2>3. PhaseOf[e] = 1 => g \in todo'
    BY <1>1, <2>1, PhaseWaits DEF Phases
  <2> QED BY <1>1, <2>1, <2>2, <2>3 DEF Passed
<1> QED BY <1>1, <1>2 DEF PassSound, Phases

(* What neither the parser nor the drain touches.                          *)
LEMMA SameMessages ==
  ASSUME DatabaseSound, EscrowsSound, stream' = stream, db' = db, escrow' = escrow
  PROVE  /\ DatabaseSound' /\ EscrowsSound'
         /\ Duplicitous' = Duplicitous /\ Unaccounted' = Unaccounted /\ Omitted' = Omitted
         /\ \A class : Of(class)' = Of(class)
         /\ \A c : Revoked(c)' <=> Revoked(c)
<1>1. DatabaseSound'
  BY DEF DatabaseSound, IsSound
<1>2. EscrowsSound'
  BY DEF EscrowsSound
<1>3. \A f : Accepted(f)' <=> Accepted(f)
  BY DEF Accepted
<1>4. \A class : Of(class)' = Of(class)
  BY DEF Of
<1>5. Duplicitous' = Duplicitous /\ Unaccounted' = Unaccounted
  BY <1>3, <1>4 DEF Duplicitous, Unaccounted, Occupied
<1>6. Omitted' = Omitted
  BY <1>4 DEF Omitted
<1> QED BY <1>1, <1>2, <1>4, <1>5, <1>6 DEF Revoked

(* A step of the drain, or to it.                                          *)
LEMMA DrainStep ==
  ASSUME IngestInv, stage # "refused", stage' \in {"parse", "compare", "audit"} \cup Phases,
         verdict' = verdict,
         DatabaseSound', EscrowsSound', TodoWaits', PassSound', DrainIsComplete'
  PROVE  IngestInv'
<1>1. stage' \notin Judged /\ stage' \notin {"own", "emit"} /\ stage' \in Stage
  BY DEF Judged, Phases, Stage, Drain, Range
<1>2. ForkStands'
  BY DEF IngestInv, ForkStands
<1> QED BY <1>1, <1>2 DEF IngestInv, Audits, Grants

(* A step of the pipeline after it, or a refusal.                          *)
LEMMA PipelineStep ==
  ASSUME IngestInv, stage' \in {"authorize", "own", "emit", "refused", "done"},
         UNCHANGED <<stream, db, escrow, todo>>,
         ForkStands', Audits', Grants'
  PROVE  IngestInv'
<1>1. DatabaseSound' /\ EscrowsSound'
  BY SameMessages DEF IngestInv
<1>2. stage' \notin {"gate", "parse", "compare", "audit"} \cup Phases
  BY DEF Phases
<1>3. TodoWaits' /\ PassSound' /\ DrainIsComplete'
  BY <1>2 DEF IngestInv, TodoWaits, PassSound, DrainIsComplete
<1>4. stage' \in Stage
  BY DEF Stage
<1> QED BY <1>1, <1>3, <1>4 DEF IngestInv

LEMMA GateFaultIs == GateFault # "KEL_FORKED"
BY DEF GateFault

LEMMA AuthorizeFaultIs == AuthorizeFault # "KEL_FORKED"
<1> USE DEF AuthorizeFault
<1>1. CASE Candidates = {}
  BY <1>1
<1>2. CASE Candidates # {} /\ Granted = {}
  BY <1>2
<1>3. CASE Granted # {} /\ Standing = {}
  BY <1>3
<1>4. CASE Standing # {} /\ \A c \in Standing : ~Event[c].covers
  BY <1>4
<1> QED BY <1>1, <1>2, <1>3, <1>4

LEMMA AuditFaultIs ==
  /\ AuditFault = "KEL_FORKED" => Duplicitous # {}
  /\ AuditFault = "none" => Unaccounted = {} /\ Omitted = {}
<1> USE DEF AuditFault
<1>1. CASE Duplicitous # {}
  BY <1>1
<1>2. CASE Duplicitous = {} /\ Regressed
  BY <1>2
<1>3. CASE Duplicitous = {} /\ ~Regressed /\ Unaccounted # {}
  BY <1>3
<1>4. CASE Duplicitous = {} /\ ~Regressed /\ Unaccounted = {} /\ Omitted # {}
  BY <1>4
<1>5. CASE Duplicitous = {} /\ ~Regressed /\ Unaccounted = {} /\ Omitted = {}
  BY <1>5
<1> QED BY <1>1, <1>2, <1>3, <1>4, <1>5

LEMMA EmptyIsSound == IsSound(EmptyDb)
<1>1. EmptyDb \in Database
  BY EmptySeq DEF EmptyDb, Database
<1>2. ASSUME NEW a \in Aid
      PROVE  IsLogOf(EmptyDb.fels[a], a) /\ Range(EmptyDb.fels[a]) = {} /\ EmptyDb.fels[a] = <<>>
  <2>1. EmptyDb.fels[a] = <<>> /\ <<>> \in Seq(Frame) /\ DOMAIN <<>> = {}
    BY EmptySeq DEF EmptyDb
  <2> QED BY <2>1 DEF IsLogOf, Range
<1>3. EmptyDb.tels = {} /\ EmptyDb.saved = {} /\ EmptyDb.rpys = {}
  BY DEF EmptyDb
<1> QED BY <1>1, <1>2, <1>3 DEF IsSound

(* An ingestion begins, with nothing in its scratch database.               *)
LEMMA Begins ==
  ASSUME db' = EmptyDb, escrow' = [e \in Escrow |-> {}], todo' = {}, seen' = Unset,
         stage' = "gate"
  PROVE  /\ DatabaseSound' /\ EscrowsSound' /\ TodoWaits' /\ PassSound' /\ DrainIsComplete'
         /\ Audits' /\ Grants' /\ stage' \in Stage
<1>1. DatabaseSound'
  <2>1. IsSound(EmptyDb)'
    BY EmptyIsSound, PTL
  <2> QED BY <2>1 DEF DatabaseSound, IsSound
<1>2. EscrowsSound'
  BY EscrowNames DEF EscrowsSound
<1>3. stage' \notin Phases \cup {"compare", "audit"} \cup Judged /\ stage' \in Stage
  BY DEF Phases, Judged, Stage
<1>4. TodoWaits' /\ PassSound' /\ DrainIsComplete'
  BY <1>3 DEF TodoWaits, PassSound, DrainIsComplete
<1> QED BY <1>1, <1>2, <1>3, <1>4 DEF Audits, Grants, Judged

LEMMA IngestInit == Init => IngestInv
<1> SUFFICES ASSUME Init
             PROVE  IngestInv
  OBVIOUS
<1>1. DatabaseSound
  BY EmptyIsSound DEF Init, DatabaseSound
<1>2. EscrowsSound
  BY EscrowNames DEF Init, EscrowsSound, EmptyDb
<1>3. stage \notin Phases \cup {"compare", "audit"} \cup Judged /\ stage \in Stage
  BY DEF Init, Phases, Judged, Stage
<1>4. TodoWaits /\ PassSound /\ DrainIsComplete
  BY <1>3 DEF Init, TodoWaits, PassSound, DrainIsComplete
<1>5. ForkStands
  BY DEF Init, ForkStands
<1> QED BY <1>1, <1>2, <1>3, <1>4, <1>5 DEF IngestInv, Audits, Grants, Judged

(***************************************************************************)
(* The steps.                                                              *)
(***************************************************************************)

LEMMA ParseSound ==
  ASSUME KeriAssumption, IngestInv, NEW f \in Frame, Parse(f)
  PROVE  IngestInv'
<1>1. /\ stage = "parse" /\ stage' = stage /\ f \in stream /\ Judge(f) /\ stream' = stream
      /\ todo' = todo /\ seen' = seen
  BY DEF Parse
<1>2. DatabaseSound' /\ EscrowsSound'
  BY <1>1, JudgeSound DEF IngestInv
<1>3. TodoWaits' /\ PassSound' /\ DrainIsComplete'
  BY <1>1 DEF IngestInv, TodoWaits, PassSound, DrainIsComplete, Phases
<1> QED BY <1>1, <1>2, <1>3, DrainStep DEF Parse

LEMMA RetrySound ==
  ASSUME KeriAssumption, IngestInv, NEW f \in Frame, Retry(f)
  PROVE  IngestInv'
<1>1. /\ stage \in Phases /\ stage' = stage /\ f \in todo /\ Judge(f) /\ stream' = stream
  BY DEF Retry, Drain, Range, Phases
<1>2. f \in stream
  BY <1>1 DEF IngestInv, TodoWaits
<1>3. DatabaseSound' /\ EscrowsSound'
  BY <1>1, <1>2, JudgeSound DEF IngestInv
<1>4. TodoWaits' /\ PassSound'
  BY <1>2, RetryPasses DEF IngestInv
<1>5. stage # "refused" /\ stage' # "audit"
  BY <1>1 DEF Phases
<1>6. DrainIsComplete'
  BY <1>5 DEF DrainIsComplete
<1> QED BY <1>1, <1>3, <1>4, <1>5, <1>6, DrainStep DEF Retry

LEMMA GateSound ==
  ASSUME IngestInv, Gate
  PROVE  IngestInv'
<1>1. stage = "gate" /\ UNCHANGED <<round, stream, db, escrow, todo, seen, first>>
  BY DEF Gate
<1>2. DatabaseSound' /\ EscrowsSound'
  BY <1>1, SameMessages DEF IngestInv
<1>3. CASE GateFault = "none"
  <2>1. stage' = "parse" /\ verdict' = verdict
    BY <1>3 DEF Gate
  <2>2. TodoWaits' /\ PassSound' /\ DrainIsComplete'
    BY <1>1, <2>1 DEF IngestInv, TodoWaits, PassSound, DrainIsComplete, Phases
  <2> QED BY <1>1, <1>2, <2>1, <2>2, DrainStep
<1>4. CASE GateFault # "none"
  <2>1. stage' = "refused" /\ verdict' # "KEL_FORKED"
    BY <1>4, GateFaultIs DEF Gate, Refuse
  <2> QED BY <1>1, <2>1, PipelineStep DEF ForkStands, Audits, Grants, Judged
<1> QED BY <1>3, <1>4

LEMMA ParsedSound ==
  ASSUME KeriAssumption, IngestInv, Parsed
  PROVE  IngestInv'
<1>1. /\ stage = "parse" /\ Start("ooes") /\ seen' = seen
      /\ UNCHANGED <<round, stream, db, escrow, first, verdict>>
  BY DEF Parsed, Drain
<1>2. DatabaseSound' /\ EscrowsSound'
  BY <1>1, SameMessages DEF IngestInv
<1>3. TodoWaits' /\ PassSound'
  BY <1>1, PassBegins DEF IngestInv, PassSound
<1>4. stage' = "ooes"
  BY <1>1 DEF Start
<1> QED BY <1>1, <1>2, <1>3, <1>4, DrainStep DEF DrainIsComplete, Phases

LEMMA NextPhaseIs ==
  ASSUME NextPhase
  PROVE  /\ stage \in Phases
         /\ \/ /\ stage = "rpys" /\ stage' = "compare" /\ todo' = todo
            \/ \E phase \in Phases : PassAt[phase] = PassAt[stage] + 1 /\ Start(phase)
<1> DEFINE i == CHOOSE i \in DOMAIN Drain : Drain[i] = stage
<1>1. DOMAIN Drain = 1 .. 5 /\ Len(Drain) = 5
      /\ Drain[1] = "ooes" /\ Drain[2] = "pdes" /\ Drain[3] = "tels" /\ Drain[4] = "creds"
      /\ Drain[5] = "rpys"
  BY DEF Drain
<1>2. \E j \in DOMAIN Drain : Drain[j] = stage
  BY DEF NextPhase, Range
<1>3. i \in 1 .. 5 /\ Drain[i] = stage
  BY <1>1, <1>2
<1>4. IF i < 5 THEN Start(Drain[i + 1]) ELSE stage' = "compare" /\ UNCHANGED todo
  BY <1>1 DEF NextPhase
<1> HIDE DEF i
<1>5. CASE i = 1
  BY <1>1, <1>3, <1>4, <1>5 DEF Phases, PassAt
<1>6. CASE i = 2
  BY <1>1, <1>3, <1>4, <1>6 DEF Phases, PassAt
<1>7. CASE i = 3
  BY <1>1, <1>3, <1>4, <1>7 DEF Phases, PassAt
<1>8. CASE i = 4
  BY <1>1, <1>3, <1>4, <1>8 DEF Phases, PassAt
<1>9. CASE i = 5
  BY <1>1, <1>3, <1>4, <1>9 DEF Phases, PassAt
<1> QED BY <1>3, <1>5, <1>6, <1>7, <1>8, <1>9

LEMMA NextPhaseSound ==
  ASSUME KeriAssumption, IngestInv, NextPhase
  PROVE  IngestInv'
<1>1. /\ stage \in Phases /\ todo = {} /\ seen' = seen
      /\ UNCHANGED <<round, stream, db, escrow, first, verdict>>
  BY NextPhaseIs DEF NextPhase
<1>2. DatabaseSound' /\ EscrowsSound'
  BY <1>1, SameMessages DEF IngestInv
<1>3. PassAt[stage] \in 1 .. 5 /\ \A e \in Escrow : PhaseOf[e] \in 1 .. 5
  BY <1>1, EscrowNames DEF Phases, PassAt, PhaseOf
<1>4. OnlyLost' <=> OnlyLost
  BY <1>1 DEF OnlyLost
<1>5. EscrowState' = EscrowState
  BY <1>1 DEF EscrowState
<1>6. CASE stage = "rpys" /\ stage' = "compare" /\ todo' = todo
  <2>1. \A e \in Escrow : \A g : Passed(g, e)
    BY <1>1, <1>3, <1>6 DEF Passed, PassAt
  <2>2. PassSound'
    BY <1>1, <1>4, <1>5, <1>6, <2>1 DEF IngestInv, PassSound, Phases
  <2>3. TodoWaits' /\ DrainIsComplete'
    BY <1>1, <1>6 DEF TodoWaits, DrainIsComplete, Phases
  <2> QED BY <1>1, <1>2, <1>6, <2>2, <2>3, DrainStep
<1>7. CASE \E phase \in Phases : PassAt[phase] = PassAt[stage] + 1 /\ Start(phase)
  <2>1. PICK phase \in Phases : PassAt[phase] = PassAt[stage] + 1 /\ Start(phase)
    BY <1>7
  <2>2. TodoWaits' /\ stage' = phase /\ todo' = Waiting(phase)
    BY <1>1, <2>1, PhaseBegins DEF IngestInv, Start
  <2>3. \A e \in Escrow : \A g \in escrow[e] : Passed(g, e)' => Passed(g, e)
    <3> SUFFICES ASSUME NEW e \in Escrow, NEW g \in escrow[e], Passed(g, e)'
                 PROVE  Passed(g, e)
      OBVIOUS
    <3>1. CASE PhaseOf[e] = PassAt[phase]
      <4>1. g \in todo'
        BY <2>2, <3>1, PhaseWaits
      <4> QED BY <2>2, <1>3, <2>1, <3>1, <4>1 DEF Passed
    <3>2. CASE PhaseOf[e] # PassAt[phase]
      <4>1. PhaseOf[e] < PassAt[stage] + 1
        BY <2>1, <2>2, <3>2 DEF Passed
      <4> QED BY <1>1, <1>3, <4>1 DEF Passed
    <3> QED BY <3>1, <3>2
  <2>4. PassSound'
    BY <1>1, <1>4, <1>5, <2>2, <2>3 DEF IngestInv, PassSound, Phases
  <2>5. DrainIsComplete'
    BY <2>2 DEF DrainIsComplete, Phases
  <2>6. stage # "refused"
    BY <1>1 DEF Phases
  <2> QED BY <1>1, <1>2, <2>2, <2>4, <2>5, <2>6, DrainStep
<1> QED BY <1>6, <1>7, NextPhaseIs

(* The drain ends with what a pass that changed nothing has established.   *)
LEMMA CompareSound ==
  ASSUME KeriAssumption, IngestInv, Compare
  PROVE  IngestInv'
<1>1. /\ stage = "compare" /\ seen' = EscrowState
      /\ UNCHANGED <<round, stream, db, escrow, first, verdict>>
  BY DEF Compare
<1>2. DatabaseSound' /\ EscrowsSound'
  BY <1>1, SameMessages DEF IngestInv
<1>3. CASE seen = EscrowState
  <2>1. stage' = "audit" /\ todo' = todo
    BY <1>3 DEF Compare
  <2>2. \A e \in Escrow : \A g : Passed(g, e)
    BY <1>1, EscrowNames DEF Passed, PhaseOf, PassAt
  <2>3. DrainIsComplete'
    BY <1>1, <1>3, <2>2 DEF IngestInv, PassSound, DrainIsComplete
  <2>4. TodoWaits' /\ PassSound'
    BY <1>1, <2>1 DEF IngestInv, TodoWaits, PassSound, Phases
  <2> QED BY <1>1, <1>2, <2>1, <2>3, <2>4, DrainStep
<1>4. CASE seen # EscrowState
  <2>1. Start("ooes")
    BY <1>4 DEF Compare, Drain
  <2>2. OnlyLost'
    <3>1. \A e \in Audited : seen'[e] = escrow[e] /\ escrow[e] \subseteq stream
      BY <1>1, EscrowNames DEF EscrowState, IngestInv, EscrowsSound
    <3>2. seen' \in [Audited -> SUBSET stream]
      BY <1>1, <3>1 DEF EscrowState
    <3> QED BY <1>1, <3>1, <3>2, EscrowNames DEF OnlyLost
  <2>3. TodoWaits' /\ PassSound' /\ stage' = "ooes"
    BY <1>1, <2>1, <2>2, PassBegins DEF IngestInv, Start
  <2> QED BY <1>1, <1>2, <2>3, DrainStep DEF DrainIsComplete, Phases
<1> QED BY <1>3, <1>4

LEMMA AuditSound ==
  ASSUME IngestInv, Audit
  PROVE  IngestInv'
<1>1. stage = "audit" /\ UNCHANGED <<round, stream, db, escrow, todo, designations, first>>
  BY DEF Audit
<1>2. Duplicitous' = Duplicitous /\ Unaccounted' = Unaccounted /\ Omitted' = Omitted
  BY <1>1, SameMessages DEF IngestInv
<1>3. CASE AuditFault = "none"
  <2>1. stage' = "authorize" /\ verdict' = verdict /\ verdict # "KEL_FORKED"
    BY <1>1, <1>3 DEF Audit, IngestInv, ForkStands
  <2>2. Audits'
    BY <1>2, <1>3, AuditFaultIs DEF Audits
  <2> QED BY <1>1, <2>1, <2>2, PipelineStep DEF ForkStands, Grants
<1>4. CASE AuditFault # "none"
  <2>1. stage' = "refused" /\ verdict' = AuditFault
    BY <1>4 DEF Audit, Refuse
  <2>2. ForkStands'
    BY <1>2, <2>1, AuditFaultIs DEF ForkStands
  <2> QED BY <1>1, <2>1, <2>2, PipelineStep DEF Audits, Grants, Judged
<1> QED BY <1>3, <1>4

LEMMA AuthorizeSound ==
  ASSUME IngestInv, Authorize
  PROVE  IngestInv'
<1>1. stage = "authorize" /\ UNCHANGED <<round, stream, db, escrow, todo, first>>
  BY DEF Authorize
<1>2. /\ Unaccounted' = Unaccounted /\ Omitted' = Omitted /\ Of("acdc")' = Of("acdc")
      /\ \A c : Revoked(c)' <=> Revoked(c)
  BY <1>1, SameMessages DEF IngestInv
<1>3. CASE AuthorizeFault = "none"
  <2>1. stage' = "own" /\ designations' = Standing /\ verdict' = verdict
    BY <1>3 DEF Authorize
  <2>2. \A c \in Standing : c \in Of("acdc") /\ ~Revoked(c)
    BY DEF Standing, Granted, Candidates
  <2>3. ForkStands' /\ Audits'
    BY <1>1, <1>2, <2>1 DEF IngestInv, ForkStands, Audits, Judged
  <2>4. Grants'
    BY <1>2, <2>1, <2>2 DEF Grants
  <2> QED BY <1>1, <2>1, <2>3, <2>4, PipelineStep
<1>4. CASE AuthorizeFault # "none"
  <2>1. stage' = "refused" /\ verdict' # "KEL_FORKED"
    BY <1>4, AuthorizeFaultIs DEF Authorize, Refuse
  <2> QED BY <1>1, <2>1, PipelineStep DEF ForkStands, Audits, Grants, Judged
<1> QED BY <1>3, <1>4

LEMMA OwnSound ==
  ASSUME IngestInv, Own
  PROVE  IngestInv'
<1>1. /\ stage = "own" /\ UNCHANGED <<round, stream, db, escrow, todo, designations, first>>
      /\ stage' \in {"emit", "refused"} /\ verdict' # "KEL_FORKED"
  BY DEF Own, Settle, Refuse
<1>2. /\ Unaccounted' = Unaccounted /\ Omitted' = Omitted /\ Of("acdc")' = Of("acdc")
      /\ \A c : Revoked(c)' <=> Revoked(c)
  BY <1>1, SameMessages DEF IngestInv
<1>3. ForkStands' /\ Audits' /\ Grants'
  BY <1>1, <1>2 DEF IngestInv, ForkStands, Audits, Grants, Judged
<1> QED BY <1>1, <1>3, PipelineStep

LEMMA EmitSound ==
  ASSUME IngestInv, Emit
  PROVE  IngestInv'
<1>1. /\ stage = "emit" /\ stage' = "gate" /\ db' = EmptyDb /\ todo' = {} /\ seen' = Unset
      /\ escrow' = [e \in Escrow |-> {}] /\ verdict' = verdict
  BY DEF Emit
<1>2. ForkStands'
  BY <1>1 DEF IngestInv, ForkStands
<1> QED BY <1>1, <1>2, Begins DEF IngestInv

LEMMA FinishSound ==
  ASSUME IngestInv, Finish
  PROVE  IngestInv'
<1>1. /\ stage = "emit" /\ stage' = "done"
      /\ UNCHANGED <<round, stream, db, escrow, todo, first, verdict>>
  BY DEF Finish
<1>2. Unaccounted' = Unaccounted /\ Omitted' = Omitted
  BY <1>1, SameMessages DEF IngestInv
<1>3. ForkStands' /\ Audits' /\ Grants'
  BY <1>1, <1>2 DEF IngestInv, ForkStands, Audits, Grants, Judged
<1> QED BY <1>1, <1>3, PipelineStep

LEMMA IngestStutters == IngestInv /\ UNCHANGED vars => IngestInv'
<1> SUFFICES ASSUME IngestInv, UNCHANGED vars
             PROVE  IngestInv'
  OBVIOUS
<1>1. UNCHANGED <<stage, round, stream, parsed, db, escrow, todo, seen, verdict, designations,
                  hosted, first>>
  BY DEF vars
<1>2. /\ DatabaseSound' /\ EscrowsSound' /\ Duplicitous' = Duplicitous
      /\ Unaccounted' = Unaccounted /\ Omitted' = Omitted
      /\ Of("acdc")' = Of("acdc") /\ \A c : Revoked(c)' <=> Revoked(c)
  BY <1>1, SameMessages DEF IngestInv
<1>3. TodoWaits' /\ DrainIsComplete'
  BY <1>1 DEF IngestInv, TodoWaits, Waiting, DrainIsComplete
<1>4. PassSound'
  BY <1>1 DEF IngestInv, PassSound, OnlyLost, EscrowState, Passed
<1>5. ForkStands' /\ Audits' /\ Grants'
  BY <1>1, <1>2 DEF IngestInv, ForkStands, Audits, Grants
<1> QED BY <1>1, <1>2, <1>3, <1>4, <1>5 DEF IngestInv

LEMMA IngestNext == IngestInv /\ [Next]_vars => IngestInv'
<1> SUFFICES ASSUME IngestInv, [Next]_vars
             PROVE  IngestInv'
  OBVIOUS
<1> USE KeriAssumption, IngestAssumption
<1>1. CASE Gate
  BY <1>1, GateSound
<1>2. CASE \E f \in Frame : Parse(f)
  BY <1>2, ParseSound
<1>3. CASE \E f \in Frame : Retry(f)
  BY <1>3, RetrySound
<1>4. CASE Parsed
  BY <1>4, ParsedSound
<1>5. CASE NextPhase
  BY <1>5, NextPhaseSound
<1>6. CASE Compare
  BY <1>6, CompareSound
<1>7. CASE Audit
  BY <1>7, AuditSound
<1>8. CASE Authorize
  BY <1>8, AuthorizeSound
<1>9. CASE Own
  BY <1>9, OwnSound
<1>10. CASE Emit
  BY <1>10, EmitSound
<1>11. CASE Finish
  BY <1>11, FinishSound
<1>12. CASE UNCHANGED vars
  BY <1>12, IngestStutters
<1> QED BY <1>1, <1>2, <1>3, <1>4, <1>5, <1>6, <1>7, <1>8, <1>9, <1>10, <1>11, <1>12 DEF Next

(***************************************************************************)
(* The theorems that rest on it alone.                                     *)
(***************************************************************************)

LEMMA IngestInductive == Spec => []IngestInv
BY IngestInit, IngestNext, PTL DEF Spec

(* The loop of Scratch.load stops at a fixpoint of the whole drain, though *)
(* it compares the audited escrows only.                                   *)
THEOREM DrainCorrect == Spec => []DrainIsComplete
<1>1. IngestInv => DrainIsComplete
  BY DEF IngestInv
<1> QED BY <1>1, IngestInductive, PTL

(***************************************************************************)
(* What the pipeline holds, and what is hosted.                            *)
(***************************************************************************)

(* All that the database d and the escrows x hold is in S.                 *)
Within(d, x, S) ==
  /\ d.tels \cup d.saved \cup d.rpys \subseteq S
  /\ \A a \in Aid : Range(d.fels[a]) \subseteq S
  /\ \A e \in Escrow : x[e] \subseteq S

HostInv ==
  /\ round \in {1, 2}
  /\ stream \subseteq Frame /\ IsFiniteSet(stream) /\ parsed \subseteq stream
  /\ Within(db, escrow, parsed)
  /\ designations \subseteq Of("acdc")
  /\ stage \notin {"gate", "refused"} => \A f \in stream : ~ThirdParty(f)
  /\ stage = "emit" => \A f \in stream : Owned(f)
  /\ NothingDropped

LEMMA JudgeWithin ==
  ASSUME KeriAssumption, DatabaseSound, NEW f \in Frame, Judge(f), NEW S, f \in S,
         Within(db, escrow, S)
  PROVE  Within(db', escrow', S)
<1>1. \A e \in Escrow : escrow'[e] \subseteq S
  BY DEF Judge, Within
<1>2. db \in Database
  BY DEF DatabaseSound, IsSound
<1>3. CASE Verdict(db, f) = "accept"
  <2>1. db' = Accepting(db, f)
    BY <1>3 DEF Judge
  <2>2. CASE Event[f].class = "kel" /\ ~Seen(db, f)
    <3> DEFINE p == Event[f].principal
    <3>1. p \in Aid /\ db.fels[p] \in Seq(Frame)
      BY <1>2, <2>2 DEF KeriAssumption, Database
    <3>2. /\ db'.tels = db.tels /\ db'.saved = db.saved /\ db'.rpys = db.rpys
          /\ db'.fels[p] = Append(db.fels[p], f)
          /\ \A a \in Aid : a # p => db'.fels[a] = db.fels[a]
      BY <1>2, <2>1, <2>2, <3>1 DEF Accepting, Database
    <3>3. Range(Append(db.fels[p], f)) = Range(db.fels[p]) \cup {f}
      BY <3>1, RangeOfAppend
    <3> QED BY <1>1, <3>1, <3>2, <3>3 DEF Within
  <2>3. CASE Event[f].class = "kel" /\ Seen(db, f)
    BY <1>1, <2>1, <2>3 DEF Accepting, Within
  <2>4. CASE Event[f].class = "tel"
    <3>1. db'.tels = db.tels \cup {f} /\ db'.saved = db.saved /\ db'.rpys = db.rpys
          /\ db'.fels = db.fels
      BY <1>2, <2>1, <2>4 DEF Accepting, Database
    <3> QED BY <1>1, <3>1 DEF Within
  <2>5. CASE Event[f].class = "acdc"
    <3>1. db'.tels = db.tels /\ db'.saved = db.saved \cup {f} /\ db'.rpys = db.rpys
          /\ db'.fels = db.fels
      BY <1>2, <2>1, <2>5 DEF Accepting, Database
    <3> QED BY <1>1, <3>1 DEF Within
  <2>6. CASE Event[f].class = "rpy"
    <3>1. db'.tels = db.tels /\ db'.saved = db.saved /\ db'.rpys \subseteq db.rpys \cup {f}
          /\ db'.fels = db.fels
      BY <1>2, <2>1, <2>6 DEF Accepting, Database
    <3> QED BY <1>1, <3>1 DEF Within
  <2> QED BY <2>2, <2>3, <2>4, <2>5, <2>6 DEF KeriAssumption
<1>4. CASE Verdict(db, f) # "accept"
  BY <1>1, <1>4 DEF Judge, Within
<1> QED BY <1>3, <1>4

(***************************************************************************)
(* What is emitted.                                                        *)
(***************************************************************************)

(* The delegation chain of the claimed AID has all its delegators.         *)
LEMMA ChainHolds ==
  ASSUME KeriAssumption, IngestAssumption, DatabaseSound, Unaccounted = {},
         NEW chain \in DelegationChains
  PROVE  chain \in Seq(Aid) /\ Estate \subseteq Range(chain)
<1>1. chain \in Seq(Aid) /\ Len(chain) \in Nat /\ Len(chain) # 0 /\ DOMAIN chain = 1 .. Len(chain)
  <2>1. PICK n \in 1 .. Cardinality(Aid) : chain \in [1 .. n -> Aid]
    BY DEF DelegationChains
  <2>2. n \in Nat /\ n # 0
    BY <2>1, FS_CardinalityType DEF IngestAssumption
  <2> QED BY <2>1, <2>2
<1>2. /\ chain[Len(chain)] = Claimed /\ DelegatorOf(chain[1]) = {}
      /\ \A i \in 2 .. Len(chain) : DelegatorOf(chain[i]) = {chain[i - 1]}
  BY DEF DelegationChains
<1>3. Claimed \in Range(chain) /\ Range(chain) \subseteq Aid
  <2>1. Len(chain) \in DOMAIN chain
    BY <1>1
  <2>2. Claimed \in Range(chain)
    BY <1>2, <2>1 DEF Range
  <2> QED BY <1>1, <2>2, RangeOfSeq
<1>4. ASSUME NEW f \in Of("kel"), Event[f].ilk = "dip", Event[f].principal \in Range(chain) \cup {Claimed}
      PROVE  Event[f].di \in Range(chain)
  <2> DEFINE p == Event[f].principal
             log == Log(db, p)
  <2>1. PICK k \in DOMAIN chain : chain[k] = p
    BY <1>3, <1>4 DEF Range
  <2>0. p \in Aid
    BY <1>1, <2>1
  <2>2. p \in Aid /\ IsLogOf(log, p) /\ log \in Seq(Frame)
    BY <2>0 DEF DatabaseSound, IsSound, Database, Log
  <2>3. f \in Range(log)
    BY DEF Unaccounted, Of, Accepted, Seen
  <2>4. PICK i \in DOMAIN log : log[i] = f
    BY <2>3 DEF Range
  <2>5. f \in Frame /\ Event[f].sn = 0
    BY <1>4, <2>2, <2>4, LogEntries DEF KeriAssumption, Of
  <2>6. i = 1 /\ log # <<>>
    BY <2>2, <2>4, <2>5 DEF IsLogOf
  <2>7. Knows(db, p) /\ Knows(db, Event[f].di) /\ log[1] = f
    BY <1>4, <2>2, <2>4, <2>6 DEF DatabaseSound, IsSound, Knows, Log
  <2>8. DelegatorOf(p) = {Event[f].di}
    BY <1>4, <2>7 DEF DelegatorOf
  <2>9. k \in 2 .. Len(chain) /\ k - 1 \in DOMAIN chain
    <3>1. k # 1
      BY <1>2, <2>1, <2>8
    <3> QED BY <1>1, <2>1, <3>1
  <2>10. Event[f].di = chain[k - 1]
    BY <1>2, <2>1, <2>8, <2>9
  <2> QED BY <2>9, <2>10 DEF Range
<1>5. Delegators \subseteq Range(chain)
  BY <1>3, <1>4 DEF Delegators
<1> QED BY <1>1, <1>3, <1>5 DEF Estate

LEMMA LogsHold ==
  ASSUME DatabaseSound, NEW chain \in Seq(Aid)
  PROVE  /\ Logs(chain) \in Seq(Frame)
         /\ Range(Logs(chain)) = UNION {Range(Log(db, chain[i])) : i \in DOMAIN chain}
<1> DEFINE parts == [i \in DOMAIN chain |-> Log(db, chain[i])]
<1>1. parts \in Seq(Seq(Frame)) /\ DOMAIN parts = DOMAIN chain
  <2>1. \A a \in Aid : Log(db, a) \in Seq(Frame)
    BY DEF DatabaseSound, IsSound, Database, Log
  <2>2. \A i \in 1 .. Len(chain) : Log(db, chain[i]) \in Seq(Frame)
    BY <2>1
  <2> QED BY <2>2
<1>2. Logs(chain) = FlattenSeq(parts)
  BY DEF Logs
<1>3. \A i \in DOMAIN chain : parts[i] = Log(db, chain[i])
  OBVIOUS
<1> HIDE DEF parts
<1>4. FlattenSeq(parts) \in Seq(Frame)
      /\ Range(FlattenSeq(parts)) = UNION {Range(parts[i]) : i \in DOMAIN chain}
  BY <1>1, RangeOfFlatten
<1> QED BY <1>2, <1>3, <1>4

LEMMA TelOfHolds ==
  ASSUME KeriAssumption, DatabaseSound, stream \subseteq Frame, IsFiniteSet(stream), NEW log
  PROVE  /\ TelOf(log) \in Seq(Frame)
         /\ Range(TelOf(log)) = {t \in db.tels : Event[t].principal = log}
<1> DEFINE kind(ilk) == {t \in db.tels : Event[t].principal = log /\ Event[t].ilk = ilk}
           of(ilk) == SetToSeq(kind(ilk))
<1>1. \A t \in db.tels : t \in stream /\ t \in Frame /\ Event[t].ilk \in TelIlk
  BY DEF DatabaseSound, IsSound, KeriAssumption
<1>2. \A ilk \in TelIlk : of(ilk) \in Seq(Frame) /\ Range(of(ilk)) = kind(ilk)
  <2> TAKE ilk \in TelIlk
  <2>1. kind(ilk) \subseteq stream /\ kind(ilk) \subseteq Frame
    BY <1>1
  <2>2. IsFiniteSet(kind(ilk))
    BY <2>1, FS_Subset
  <2> HIDE DEF kind
  <2>3. of(ilk) \in Seq(kind(ilk)) /\ Range(of(ilk)) = kind(ilk)
    BY <2>2, RangeOfSetToSeq
  <2> QED BY <2>1, <2>3, SeqMonotonic
<1>3. TelOf(log) = of("vcp") \o of("iss") \o of("rev")
  BY DEF TelOf
<1>4. kind("vcp") \cup kind("iss") \cup kind("rev") = {t \in db.tels : Event[t].principal = log}
  BY <1>1 DEF TelIlk
<1> HIDE DEF of
<1>5. of("vcp") \in Seq(Frame) /\ of("iss") \in Seq(Frame) /\ of("rev") \in Seq(Frame)
  BY <1>2 DEF TelIlk
<1>6. /\ of("vcp") \o of("iss") \o of("rev") \in Seq(Frame)
      /\ Range(of("vcp") \o of("iss") \o of("rev"))
           = Range(of("vcp")) \cup Range(of("iss")) \cup Range(of("rev"))
  BY <1>5, RangeOfConcats
<1>7. \A ilk \in {"vcp", "iss", "rev"} : Range(of(ilk)) = kind(ilk)
  BY <1>2 DEF TelIlk
<1> QED BY <1>3, <1>4, <1>6, <1>7

LEMMA TelsOfHold ==
  ASSUME KeriAssumption, DatabaseSound, stream \subseteq Frame, IsFiniteSet(stream),
         NEW X, NEW logs \in Seq(X)
  PROVE  /\ TelsOf(logs) \in Seq(Frame)
         /\ Range(TelsOf(logs)) = {t \in db.tels : Event[t].principal \in Range(logs)}
<1> DEFINE parts == [i \in DOMAIN logs |-> TelOf(logs[i])]
<1>1. parts \in Seq(Seq(Frame)) /\ DOMAIN parts = DOMAIN logs
  BY TelOfHolds
<1>2. TelsOf(logs) = FlattenSeq(parts)
  BY DEF TelsOf
<1>3. \A i \in DOMAIN logs : Range(parts[i]) = {t \in db.tels : Event[t].principal = logs[i]}
  BY TelOfHolds
<1> HIDE DEF parts
<1>4. FlattenSeq(parts) \in Seq(Frame)
      /\ Range(FlattenSeq(parts)) = UNION {Range(parts[i]) : i \in DOMAIN logs}
  BY <1>1, RangeOfFlatten
<1>5. UNION {Range(parts[i]) : i \in DOMAIN logs}
        = {t \in db.tels : Event[t].principal \in Range(logs)}
  BY <1>3 DEF Range
<1> QED BY <1>2, <1>4, <1>5

LEMMA CredentialsOfHold ==
  ASSUME KeriAssumption, DatabaseSound, stream \subseteq Frame, IsFiniteSet(stream),
         NEW cs \in Seq(Frame)
  PROVE  /\ CredentialsOf(cs) \in Seq(Frame)
         /\ Range(CredentialsOf(cs))
              = {t \in db.tels : Event[t].principal \in Range(cs)} \cup Range(cs)
<1> DEFINE parts == [i \in DOMAIN cs |-> Append(TelOf(cs[i]), cs[i])]
<1>1. \A i \in DOMAIN cs : cs[i] \in Frame /\ TelOf(cs[i]) \in Seq(Frame)
  BY TelOfHolds
<1>2. parts \in Seq(Seq(Frame)) /\ DOMAIN parts = DOMAIN cs
  <2>1. \A t \in Seq(Frame) : \A f \in Frame : Append(t, f) \in Seq(Frame)
    BY AppendProperties
  <2>2. \A i \in DOMAIN cs : Append(TelOf(cs[i]), cs[i]) \in Seq(Frame)
    BY <1>1, <2>1
  <2>3. DOMAIN cs = 1 .. Len(cs) /\ Len(cs) \in Nat
    OBVIOUS
  <2>4. parts \in [1 .. Len(cs) -> Seq(Frame)]
    BY <2>2, <2>3
  <2> QED BY <2>3, <2>4
<1>3. CredentialsOf(cs) = FlattenSeq(parts)
  BY DEF CredentialsOf
<1>4. \A i \in DOMAIN cs :
        Range(parts[i]) = {t \in db.tels : Event[t].principal = cs[i]} \cup {cs[i]}
  <2> TAKE i \in DOMAIN cs
  <2>1. Range(Append(TelOf(cs[i]), cs[i])) = Range(TelOf(cs[i])) \cup {cs[i]}
    BY <1>1, RangeOfAppend
  <2> QED BY <2>1, TelOfHolds
<1> HIDE DEF parts
<1>5. FlattenSeq(parts) \in Seq(Frame)
      /\ Range(FlattenSeq(parts)) = UNION {Range(parts[i]) : i \in DOMAIN cs}
  BY <1>2, RangeOfFlatten
<1>6. UNION {Range(parts[i]) : i \in DOMAIN cs}
        = {t \in db.tels : Event[t].principal \in Range(cs)} \cup Range(cs)
  BY <1>4 DEF Range
<1> QED BY <1>3, <1>5, <1>6

LEMMA RegistriesHold ==
  ASSUME NEW cs \in Seq(Frame), NEW vs \in Seq(Frame)
  PROVE  LET X == {Event[c].registry : c \in Range(cs)} \cup {Event[v].principal : v \in Range(vs)}
         IN  RegistriesOf(cs, vs) \in Seq(X) /\ Range(RegistriesOf(cs, vs)) = X
<1> DEFINE X == {Event[c].registry : c \in Range(cs)} \cup {Event[v].principal : v \in Range(vs)}
           named == [i \in DOMAIN cs |-> Event[cs[i]].registry]
           spare == [i \in DOMAIN vs |-> Event[vs[i]].principal]
           rs    == named \o spare
           once  == FlattenSeq([i \in DOMAIN rs |->
                      IF \E j \in 1 .. i - 1 : rs[j] = rs[i] THEN <<>> ELSE <<rs[i]>>])
<1>1. named \in Seq(X) /\ Range(named) = {Event[c].registry : c \in Range(cs)}
  <2>1. \A i \in DOMAIN cs : named[i] \in X
    BY DEF Range
  <2> QED BY <2>1 DEF Range
<1>2. spare \in Seq(X) /\ Range(spare) = {Event[v].principal : v \in Range(vs)}
  <2>1. \A i \in DOMAIN vs : spare[i] \in X
    BY DEF Range
  <2> QED BY <2>1 DEF Range
<1>3. RegistriesOf(cs, vs) = once
  BY DEF RegistriesOf
<1>4. X = Range(named) \cup Range(spare)
  BY <1>1, <1>2
<1> HIDE DEF X, named, spare
<1>5. rs \in Seq(X) /\ Range(rs) = Range(named) \cup Range(spare)
  BY <1>1, <1>2, RangeOfConcat
<1> HIDE DEF rs
<1>6. once \in Seq(X) /\ Range(once) = Range(rs)
  BY <1>5, RangeOfOnce
<1> HIDE DEF once
<1>7. RegistriesOf(cs, vs) \in Seq(X) /\ Range(RegistriesOf(cs, vs)) = X
  BY <1>3, <1>4, <1>5, <1>6
<1> QED BY <1>7 DEF X

(* What is assembled is what was submitted.                                *)
LEMMA AssembleHolds ==
  ASSUME KeriAssumption, IngestAssumption, IngestInv, HostInv, stage = "emit",
         NEW chain \in DelegationChains, NEW rs \in Orders(Of("rpy")), NEW cs \in Orders(Of("acdc")),
         NEW vs \in Orders(Incepted)
  PROVE  Range(Assemble(chain, rs, cs, vs)) = stream
<1>1. DatabaseSound /\ Unaccounted = {} /\ stream \subseteq Frame /\ IsFiniteSet(stream)
  BY DEF IngestInv, HostInv, Audits, Judged
<1>2. \A f \in stream : Accepted(f) /\ Owned(f) /\ ~ThirdParty(f)
  BY <1>1 DEF HostInv, Unaccounted
<1>3. /\ Of("rpy") \subseteq stream /\ Of("acdc") \subseteq stream /\ Incepted \subseteq stream
      /\ IsFiniteSet(Of("rpy")) /\ IsFiniteSet(Of("acdc")) /\ IsFiniteSet(Incepted)
  <2>1. Of("rpy") \subseteq stream /\ Of("acdc") \subseteq stream /\ Incepted \subseteq stream
    BY DEF Of, Incepted
  <2> QED BY <1>1, <2>1, FS_Subset
<1>4. rs \in Seq(Frame) /\ Range(rs) = Of("rpy")
  <2>1. rs \in Seq(Of("rpy")) /\ Range(rs) = Of("rpy")
    BY <1>3, RangeOfOrder DEF Orders
  <2> QED BY <1>1, <1>3, <2>1, SeqMonotonic
<1>5. cs \in Seq(Frame) /\ Range(cs) = Of("acdc")
  <2>1. cs \in Seq(Of("acdc")) /\ Range(cs) = Of("acdc")
    BY <1>3, RangeOfOrder DEF Orders
  <2> QED BY <1>1, <1>3, <2>1, SeqMonotonic
<1>6. vs \in Seq(Frame) /\ Range(vs) = Incepted
  <2>1. vs \in Seq(Incepted) /\ Range(vs) = Incepted
    BY <1>3, RangeOfOrder DEF Orders
  <2> QED BY <1>1, <1>3, <2>1, SeqMonotonic
<1>7. chain \in Seq(Aid) /\ Estate \subseteq Range(chain)
  BY <1>1, ChainHolds
<1> DEFINE regs == RegistriesOf(cs, vs)
           kels == Logs(chain)
           tels == TelsOf(regs)
           creds == CredentialsOf(cs)
<1>8. PICK X : regs \in Seq(X) /\ Range(regs)
             = {Event[c].registry : c \in Of("acdc")} \cup {Event[v].principal : v \in Incepted}
  BY <1>5, <1>6, RegistriesHold
<1>9. kels \in Seq(Frame) /\ Range(kels) = UNION {Range(Log(db, chain[i])) : i \in DOMAIN chain}
  BY <1>1, <1>7, LogsHold
<1>10. tels \in Seq(Frame) /\ Range(tels) = {t \in db.tels : Event[t].principal \in Range(regs)}
  BY <1>1, <1>8, TelsOfHold
<1>11. /\ creds \in Seq(Frame)
       /\ Range(creds) = {t \in db.tels : Event[t].principal \in Of("acdc")} \cup Of("acdc")
  BY <1>1, <1>5, CredentialsOfHold
<1>12. Assemble(chain, rs, cs, vs) = kels \o rs \o tels \o creds
  BY DEF Assemble
<1> HIDE DEF regs, kels, tels, creds
<1>13. Range(kels \o rs \o tels \o creds)
         = Range(kels) \cup Range(rs) \cup Range(tels) \cup Range(creds)
  <2>1. PICK most : most = kels \o rs \o tels
    OBVIOUS
  <2>2. most \in Seq(Frame) /\ Range(most) = Range(kels) \cup Range(rs) \cup Range(tels)
    BY <1>4, <1>9, <1>10, <2>1, RangeOfConcats
  <2>3. Range(most \o creds) = Range(most) \cup Range(creds)
    BY <1>11, <2>2, RangeOfConcat
  <2> QED BY <2>1, <2>2, <2>3
<1>14. ASSUME NEW f \in stream
       PROVE  f \in Range(kels) \cup Range(rs) \cup Range(tels) \cup Range(creds)
  <2>1. CASE Event[f].class = "kel"
    <3>1. Event[f].principal \in Estate
      BY <1>2, <2>1 DEF Owned
    <3>2. f \in Range(Log(db, Event[f].principal))
      BY <1>2, <2>1 DEF Accepted, Seen
    <3>3. PICK i \in DOMAIN chain : chain[i] = Event[f].principal
      BY <1>7, <3>1 DEF Range
    <3> QED BY <1>9, <3>2, <3>3
  <2>2. CASE Event[f].class = "tel"
    <3>1. f \in db.tels
      BY <1>2, <2>2 DEF Accepted
    <3>2. Event[f].principal \in {Event[v].principal : v \in Incepted} \cup Of("acdc")
      BY <1>2, <2>2 DEF ThirdParty
    <3> QED BY <1>8, <1>10, <1>11, <3>1, <3>2
  <2>3. CASE Event[f].class = "acdc"
    BY <1>11, <2>3 DEF Of
  <2>4. CASE Event[f].class = "rpy"
    BY <1>4, <2>4 DEF Of
  <2> QED BY <1>1, <2>1, <2>2, <2>3, <2>4 DEF KeriAssumption
<1>15. Range(kels) \subseteq stream
  <2>1. \A a \in Aid : Range(Log(db, a)) \subseteq stream
    BY <1>1 DEF DatabaseSound, IsSound, Log
  <2>2. \A i \in DOMAIN chain : chain[i] \in Aid
    BY <1>7
  <2> QED BY <1>9, <2>1, <2>2
<1>16. db.tels \subseteq stream
  BY <1>1 DEF DatabaseSound, IsSound
<1> QED BY <1>3, <1>4, <1>10, <1>11, <1>12, <1>13, <1>14, <1>15, <1>16

(***************************************************************************)
(* The steps.                                                              *)
(***************************************************************************)

LEMMA EmptyIsWithin ==
  ASSUME NEW d, d = EmptyDb, NEW x, x = [e \in Escrow |-> {}], NEW S
  PROVE  Within(d, x, S)
<1>1. Range(<<>>) = {}
  BY DEF Range
<1> QED BY <1>1 DEF Within, EmptyDb

LEMMA HostInit == Init => HostInv
<1> SUFFICES ASSUME Init
             PROVE  HostInv
  OBVIOUS
<1>1. stream \subseteq Frame /\ IsFiniteSet(stream)
  BY IngestAssumption DEF Init
<1>2. Within(db, escrow, parsed)
  BY EmptyIsWithin DEF Init
<1> QED BY <1>1, <1>2 DEF Init, HostInv, NothingDropped

(* The walked messages are the same, and what is held of them.             *)
LEMMA HostKeeps ==
  ASSUME HostInv, UNCHANGED <<round, stream, parsed, db, escrow, hosted, first>>,
         designations' \subseteq Of("acdc"),
         stage' \notin {"gate", "refused"} => \A f \in stream : ~ThirdParty(f),
         stage' = "emit" => \A f \in stream : Owned(f)
  PROVE  HostInv'
<1>1. designations' \subseteq Of("acdc")'
  BY DEF Of
<1>2. \A f : ThirdParty(f)' <=> ThirdParty(f)
  BY DEF ThirdParty, Estate, Delegators, Incepted, Of
<1>3. \A f : Owned(f)' <=> Owned(f)
  <2>1. Estate' = Estate
    BY DEF Estate, Delegators, Of
  <2>2. Providers' = Providers
    BY <2>1 DEF Providers
  <2> QED BY <2>1, <2>2 DEF Owned
<1>4. Within(db, escrow, parsed)'
  BY DEF HostInv, Within
<1>5. NothingDropped'
  BY DEF HostInv, NothingDropped
<1> QED BY <1>1, <1>2, <1>3, <1>4, <1>5 DEF HostInv

(* A message of S is judged.                                               *)
LEMMA HostJudges ==
  ASSUME KeriAssumption, IngestInv, HostInv, NEW f \in Frame, Judge(f), f \in parsed',
         parsed \subseteq parsed', parsed' \subseteq stream,
         UNCHANGED <<stage, round, stream, designations, hosted, first>>,
         stage \in {"parse"} \cup Phases
  PROVE  HostInv'
<1>1. Within(db, escrow, parsed')
  BY DEF HostInv, Within
<1>2. Within(db', escrow', parsed')
  BY <1>1, JudgeWithin DEF IngestInv
<1>3. stage \notin {"gate", "refused", "emit"}
  BY DEF Phases
<1>4. \A g : ThirdParty(g)' <=> ThirdParty(g)
  BY DEF ThirdParty, Estate, Delegators, Incepted, Of
<1>5. NothingDropped' /\ designations' \subseteq Of("acdc")'
  BY DEF HostInv, NothingDropped, Of
<1> QED BY <1>2, <1>3, <1>4, <1>5 DEF HostInv, Within

LEMMA HostNext == IngestInv /\ HostInv /\ [Next]_vars => HostInv'
<1> SUFFICES ASSUME IngestInv, HostInv, [Next]_vars
             PROVE  HostInv'
  OBVIOUS
<1> USE KeriAssumption, IngestAssumption
<1>0. /\ designations \subseteq Of("acdc")
      /\ stage \notin {"gate", "refused"} => \A f \in stream : ~ThirdParty(f)
      /\ stage = "emit" => \A f \in stream : Owned(f)
  BY DEF HostInv
<1>1. CASE Gate
  <2>1. UNCHANGED <<round, stream, parsed, db, escrow, designations, hosted, first>>
    BY <1>1 DEF Gate
  <2>2. stage' = "parse" \/ stage' = "refused"
    BY <1>1 DEF Gate, Refuse
  <2>3. stage' = "parse" => \A f \in stream : ~ThirdParty(f)
    BY <1>1 DEF Gate, Refuse, GateFault
  <2> QED BY <1>0, <2>1, <2>2, <2>3, HostKeeps
<1>2. ASSUME NEW f \in Frame, Parse(f)
      PROVE  HostInv'
  <2>1. /\ Judge(f) /\ f \in parsed' /\ parsed \subseteq parsed' /\ parsed' \subseteq stream
        /\ UNCHANGED <<stage, round, stream, designations, hosted, first>>
        /\ stage \in {"parse"} \cup Phases
    BY <1>2 DEF Parse, HostInv
  <2> QED BY <2>1, HostJudges
<1>3. ASSUME NEW f \in Frame, Retry(f)
      PROVE  HostInv'
  <2>1. /\ Judge(f) /\ parsed' = parsed /\ f \in todo /\ stage \in Phases
        /\ UNCHANGED <<stage, round, stream, designations, hosted, first>>
    BY <1>3 DEF Retry, Drain, Range, Phases
  <2>2. PICK e \in Escrow : f \in escrow[e]
    BY <2>1, TodoIn DEF IngestInv
  <2>3. f \in parsed /\ parsed \subseteq stream
    BY <2>2 DEF HostInv, Within
  <2> QED BY <2>1, <2>3, HostJudges
<1>4. CASE Parsed
  <2>1. /\ UNCHANGED <<round, stream, parsed, db, escrow, designations, hosted, first>>
        /\ stage = "parse" /\ stage' = "ooes"
    BY <1>4 DEF Parsed, Start, Drain
  <2> QED BY <1>0, <2>1, HostKeeps
<1>5. CASE NextPhase
  <2>1. /\ UNCHANGED <<round, stream, parsed, db, escrow, designations, hosted, first>>
        /\ stage \in Phases
    BY <1>5, NextPhaseIs DEF NextPhase
  <2>2. stage' # "emit"
    BY <1>5, NextPhaseIs DEF Phases, Start
  <2> QED BY <1>0, <2>1, <2>2, HostKeeps DEF Phases
<1>6. CASE Compare
  <2>1. /\ UNCHANGED <<round, stream, parsed, db, escrow, designations, hosted, first>>
        /\ stage = "compare" /\ stage' # "emit"
    BY <1>6 DEF Compare, Start, Drain
  <2> QED BY <1>0, <2>1, HostKeeps
<1>7. CASE Audit
  <2>1. /\ UNCHANGED <<round, stream, parsed, db, escrow, designations, hosted, first>>
        /\ stage = "audit" /\ stage' # "emit"
    BY <1>7 DEF Audit, Refuse
  <2> QED BY <1>0, <2>1, HostKeeps
<1>8. CASE Authorize
  <2>1. /\ UNCHANGED <<round, stream, parsed, db, escrow, hosted, first>>
        /\ stage = "authorize" /\ stage' # "emit"
        /\ designations' = designations \/ designations' = Standing
    BY <1>8 DEF Authorize, Refuse
  <2>2. Standing \subseteq Of("acdc")
    BY DEF Standing, Granted, Candidates
  <2> QED BY <1>0, <2>1, <2>2, HostKeeps
<1>9. CASE Own
  <2>1. /\ UNCHANGED <<round, stream, parsed, db, escrow, designations, hosted, first>>
        /\ stage = "own" /\ (stage' = "emit" => \A f \in stream : Owned(f))
    BY <1>9 DEF Own, Settle, Refuse
  <2> QED BY <1>0, <2>1, HostKeeps
<1>10. CASE Emit
  <2>1. /\ stage = "emit" /\ stage' = "gate" /\ round' = 2 /\ parsed' = {} /\ db' = EmptyDb
        /\ escrow' = [e \in Escrow |-> {}] /\ designations' = {}
        /\ stream' = Range(hosted') /\ first'.stream = stream
    BY <1>10 DEF Emit
  <2>2. Range(hosted') = stream
    <3>1. PICK chain \in DelegationChains, rs \in Orders(Of("rpy")), cs \in Orders(Of("acdc")),
               vs \in Orders(Incepted) : hosted' = Assemble(chain, rs, cs, vs)
      BY <1>10 DEF Emit
    <3> QED BY <2>1, <3>1, AssembleHolds
  <2>3. Within(db', escrow', parsed')
    BY <2>1, EmptyIsWithin
  <2>4. Within(db, escrow, parsed)'
    BY <2>3 DEF Within
  <2> QED BY <2>1, <2>2, <2>4 DEF HostInv, NothingDropped
<1>11. CASE Finish
  <2>1. /\ UNCHANGED <<round, stream, parsed, db, escrow, designations, hosted, first>>
        /\ stage = "emit" /\ stage' = "done"
    BY <1>11 DEF Finish
  <2> QED BY <1>0, <2>1, HostKeeps
<1>12. CASE UNCHANGED vars
  BY <1>0, <1>12, HostKeeps DEF vars
<1> QED BY <1>1, <1>2, <1>3, <1>4, <1>5, <1>6, <1>7, <1>8, <1>9, <1>10, <1>11, <1>12 DEF Next

LEMMA HostInductive == Spec => [](IngestInv /\ HostInv)
BY IngestInit, IngestNext, HostInit, HostNext, PTL DEF Spec

(* Every variable has its type: what was parsed is what was walked, and    *)
(* nothing is in the database or an escrow that was not parsed.            *)
THEOREM TypeCorrect == Spec => []TypeOK
<1>1. IngestInv /\ HostInv => TypeOK
  BY DEF IngestInv, HostInv, TodoWaits, Within, TypeOK
<1> QED BY <1>1, HostInductive, PTL

(* What is hosted is what was submitted, minus no frame and plus none.     *)
THEOREM HostingCorrect == Spec => []NothingDropped
<1>1. HostInv => NothingDropped
  BY DEF HostInv
<1> QED BY <1>1, HostInductive, PTL

(***************************************************************************)
(* Forks and revocations.                                                  *)
(***************************************************************************)

LEMMA ForkIsConflict ==
  ASSUME KeriAssumption, IngestInv, HostInv
  PROVE  ForkVerdict
<1>1. ASSUME verdict = "KEL_FORKED"
      PROVE  \E f, g \in Of("kel") : SamePlace(f, g) /\ ~Accepted(f) /\ Accepted(g)
  <2>1. PICK f \in Of("kel") : ~Accepted(f) /\ Occupied(f)
    BY <1>1 DEF IngestInv, ForkStands, Duplicitous
  <2> DEFINE p == Event[f].principal
             log == Log(db, p)
  <2>2. p \in Aid
    BY DEF HostInv, Of, KeriAssumption
  <2>3. PICK i \in DOMAIN log : Event[log[i]].sn = Event[f].sn
    BY <2>1 DEF Occupied, Placed
  <2>4. /\ IsLogOf(log, p) /\ Range(log) \subseteq stream
    BY <2>2 DEF IngestInv, DatabaseSound, IsSound, Log
  <2>5. /\ log[i] \in Range(log) /\ Event[log[i]].class = "kel" /\ Event[log[i]].principal = p
    BY <2>4 DEF IsLogOf, Range
  <2>6. log[i] \in Of("kel") /\ Accepted(log[i])
    BY <2>2, <2>4, <2>5 DEF Of, Accepted, Seen
  <2> QED BY <2>1, <2>3, <2>5, <2>6 DEF SamePlace
<1>2. ASSUME stage \in Judged, NEW f \in Of("kel"), NEW g \in Of("kel"), SamePlace(f, g)
      PROVE  LET log == Log(db, Event[f].principal) IN
               \E i, j \in DOMAIN log :
                 /\ {log[i], log[j]} = {f, g} /\ i < j
                 /\ \E k \in i + 1 .. j :
                      Event[log[k]].ilk = "rot" /\ Event[log[k]].sn <= Event[f].sn
  <2> DEFINE log == Log(db, Event[f].principal)
  <2>1. Accepted(f) /\ Accepted(g) /\ Event[g].principal = Event[f].principal
        /\ f # g /\ Event[g].sn = Event[f].sn
    BY <1>2 DEF IngestInv, Audits, Unaccounted, Of, SamePlace
  <2>2. f \in Range(log) /\ g \in Range(log)
    BY <2>1 DEF Accepted, Seen, Of
  <2>3. PICK m \in DOMAIN log : log[m] = f
    BY <2>2 DEF Range
  <2>4. PICK n \in DOMAIN log : log[n] = g
    BY <2>2 DEF Range
  <2>5. Event[f].principal \in Aid /\ Event[f].sn \in Nat
    BY DEF HostInv, Of, KeriAssumption
  <2>6. IsLogOf(log, Event[f].principal)
    BY <2>5 DEF IngestInv, DatabaseSound, IsSound, Log
  <2> HIDE DEF log
  <2>9. DOMAIN log = 1 .. Len(log) /\ Len(log) \in Nat
    BY <2>6, LenProperties DEF IsLogOf
  <2>7. CASE m < n
    <3>1. PICK k \in m + 1 .. n : Event[log[k]].ilk = "rot" /\ Event[log[k]].sn <= Event[log[n]].sn
      BY <2>1, <2>3, <2>4, <2>5, <2>6, <2>7 DEF IsLogOf
    <3> QED BY <2>1, <2>3, <2>4, <2>7, <3>1 DEF log
  <2>8. CASE n < m
    <3>1. PICK k \in n + 1 .. m : Event[log[k]].ilk = "rot" /\ Event[log[k]].sn <= Event[log[m]].sn
      BY <2>1, <2>3, <2>4, <2>5, <2>6, <2>8 DEF IsLogOf
    <3> QED BY <2>1, <2>3, <2>4, <2>8, <3>1 DEF log
  <2>10. m < n \/ n < m
    BY <2>1, <2>3, <2>4, <2>9
  <2> QED BY <2>7, <2>8, <2>10
<1> QED BY <1>1, <1>2 DEF ForkVerdict

(* A fork is what the fork verdict falls on, and no submission with one    *)
(* passes the audit: of two events at one place, the later was accepted    *)
(* behind a rotation that recovers the log.                                *)
THEOREM ForkCorrect == Spec => []ForkVerdict
<1>1. IngestInv /\ HostInv => ForkVerdict
  BY ForkIsConflict, KeriAssumption
<1> QED BY <1>1, HostInductive, PTL

(* A seal that commits to a revocation names the log the revocation is of. *)
SealsTheirOwn ==
  \A e \in Frame :
    LET s == Event[e].seal IN
      s.said \in Frame /\ Event[s.said].ilk = "rev" => Event[s.said].principal = s.log

(* Nothing the audit passed over: a revocation that the log seals for a    *)
(* presented log was presented, was accepted, and so revokes.              *)
LEMMA SealedRevokes ==
  ASSUME IngestInv, stage = "emit", IngestAssumption, SealsTheirOwn,
         NEW c \in designations, NEW e \in Range(db.fels[Claimed]),
         Event[e].seal.log = c, Event[e].seal.said \in Frame,
         Event[Event[e].seal.said].ilk = "rev"
  PROVE  FALSE
<1> DEFINE said == Event[e].seal.said
<1>1. Unaccounted = {} /\ Omitted = {} /\ c \in Of("acdc") /\ ~Revoked(c)
  BY DEF IngestInv, Audits, Grants, Judged
<1>2. c \in db.saved
  BY <1>1 DEF Unaccounted, Accepted, Of
<1>3. PICK t \in db.tels : Event[t].principal = c
  BY <1>2 DEF IngestInv, DatabaseSound, IsSound, Issued
<1>4. t \in Of("tel")
  BY DEF IngestInv, DatabaseSound, IsSound, Of
<1>5. said \in Of("tel")
  BY <1>1, <1>3, <1>4 DEF Omitted, Log
<1>6. said \in db.tels
  BY <1>1, <1>5 DEF Unaccounted, Accepted, Of
<1>7. db.fels[Claimed] \in Seq(Frame)
  BY DEF IngestInv, DatabaseSound, IsSound, Database, IngestAssumption
<1>8. e \in Frame
  BY <1>7, LenProperties DEF Range
<1>9. Event[said].principal = c
  BY <1>8 DEF SealsTheirOwn
<1> QED BY <1>1, <1>6, <1>9 DEF Revoked

LEMMA RevocationNext ==
  ASSUME SealsTheirOwn
  PROVE  IngestInv /\ RevocationNotHidden /\ [Next]_vars => RevocationNotHidden'
<1> SUFFICES ASSUME IngestInv, RevocationNotHidden, [Next]_vars
             PROVE  RevocationNotHidden'
  OBVIOUS
<1>1. CASE Emit
  <2>1. stage = "emit" /\ first'.designations = designations /\ first'.db = db
    BY <1>1 DEF Emit
  <2>2. \A c \in designations : \A e \in Range(db.fels[Claimed]) :
          ~(/\ Event[e].seal.log = c
            /\ Event[e].seal.said \in Frame
            /\ Event[Event[e].seal.said].ilk = "rev")
    BY <2>1, IngestAssumption, SealedRevokes
  <2> QED BY <2>1, <2>2 DEF RevocationNotHidden
<1>2. CASE ~Emit
  <2>1. round' = round /\ first' = first
    BY <1>2 DEF Next, Gate, Parse, Retry, Parsed, NextPhase, Compare, Audit, Authorize, Own, Finish,
                vars
  <2> QED BY <2>1 DEF RevocationNotHidden
<1> QED BY <1>1, <1>2

(* No submission verifies by leaving out the revocation of a credential it *)
(* rests on, if the seals of revocations name the log they are of.         *)
THEOREM RevocationCorrect ==
  ASSUME SealsTheirOwn
  PROVE  Spec => []RevocationNotHidden
<1>1. Init => RevocationNotHidden
  BY DEF Init, RevocationNotHidden
<1>2. IngestInv /\ RevocationNotHidden /\ [Next]_vars => RevocationNotHidden'
  BY RevocationNext
<1> QED BY <1>1, <1>2, IngestInductive, PTL DEF Spec

(***************************************************************************)
(* What a submission's own messages justify.                               *)
(***************************************************************************)

Grows(g, n) ==
  g = [i \in 0 .. n |-> IF i = 0 THEN {} ELSE {f \in stream : Justified(f, g[i - 1])}]

ClosedFor(S) == {f \in stream : Justified(f, S)} \subseteq S

(* The least set that holds whatever it justifies.                         *)
Least == {f \in stream : \A S \in SUBSET stream : ClosedFor(S) => f \in S}

LEMMA JustifiedMore ==
  ASSUME KeriAssumption, NEW f \in Frame, NEW S, NEW T, S \subseteq T, Justified(f, S)
  PROVE  Justified(f, T)
<1>1. S \cap Of("kel") \subseteq T \cap Of("kel") /\ S \cap Of("tel") \subseteq T \cap Of("tel")
  OBVIOUS
<1>2. CASE Event[f].class = "kel"
  BY <1>1, <1>2 DEF Justified
<1>3. CASE Event[f].class = "tel"
  BY <1>1, <1>3 DEF Justified
<1>4. CASE Event[f].class = "acdc"
  BY <1>1, <1>4 DEF Justified
<1>5. CASE Event[f].class = "rpy"
  BY <1>1, <1>5 DEF Justified
<1> QED BY <1>2, <1>3, <1>4, <1>5 DEF KeriAssumption

LEMMA LeastIsClosed ==
  ASSUME KeriAssumption, stream \subseteq Frame
  PROVE  ClosedFor(Least)
<1> SUFFICES ASSUME NEW f \in stream, Justified(f, Least), NEW S \in SUBSET stream, ClosedFor(S)
             PROVE  f \in S
  BY DEF ClosedFor, Least
<1>1. Least \subseteq S
  BY DEF Least
<1>2. Justified(f, S)
  BY <1>1, JustifiedMore
<1> QED BY <1>2 DEF ClosedFor

(* The equation of Supported has a solution.                               *)
LEMMA GrowExists ==
  ASSUME NEW N \in Nat
  PROVE  \E g : Grows(g, N)
<1> DEFINE S == {n \in Nat : \E g : Grows(g, n)}
<1>1. 0 \in S
  <2>1. Grows([i \in 0 .. 0 |-> {}], 0)
    BY DEF Grows
  <2> QED BY <2>1
<1>2. ASSUME NEW n \in Nat, n \in S
      PROVE  n + 1 \in S
  <2>1. PICK g : Grows(g, n)
    BY <1>2
  <2>2. PICK next : next = {f \in stream : Justified(f, g[n])}
    OBVIOUS
  <2>3. PICK h : h = [i \in 0 .. n + 1 |-> IF i = n + 1 THEN next ELSE g[i]]
    OBVIOUS
  <2>4. ASSUME NEW i \in 0 .. n + 1
        PROVE  h[i] = IF i = 0 THEN {} ELSE {f \in stream : Justified(f, h[i - 1])}
    <3>1. CASE i = n + 1
      <4>1. i # 0 /\ i - 1 \in 0 .. n + 1 /\ i - 1 # n + 1 /\ i - 1 = n
        BY <3>1
      <4>2. h[i - 1] = g[n] /\ h[i] = next
        BY <2>3, <3>1, <4>1
      <4> QED BY <2>2, <4>1, <4>2
    <3>2. CASE i # n + 1
      <4>1. i \in 0 .. n /\ h[i] = g[i]
        BY <2>3, <3>2
      <4>2. i # 0 => h[i - 1] = g[i - 1]
        <5>1. i # 0 => i - 1 \in 0 .. n + 1 /\ i - 1 # n + 1
          BY <4>1
        <5> QED BY <2>3, <5>1
      <4>3. g[i] = IF i = 0 THEN {} ELSE {f \in stream : Justified(f, g[i - 1])}
        BY <2>1, <4>1 DEF Grows
      <4>4. CASE i = 0
        BY <4>1, <4>3, <4>4
      <4>5. CASE i # 0
        BY <4>1, <4>2, <4>3, <4>5
      <4> QED BY <4>4, <4>5
    <3> QED BY <3>1, <3>2
  <2>5. h = [i \in 0 .. n + 1 |-> h[i]]
    BY <2>3
  <2>6. [i \in 0 .. n + 1 |-> h[i]]
          = [i \in 0 .. n + 1 |-> IF i = 0 THEN {} ELSE {f \in stream : Justified(f, h[i - 1])}]
    BY <2>4
  <2>7. Grows(h, n + 1)
    BY <2>5, <2>6 DEF Grows
  <2>8. n + 1 \in Nat /\ \E f : Grows(f, n + 1)
    BY <2>7
  <2> QED BY <2>8
<1> HIDE DEF S
<1>3. N \in S
  BY <1>1, <1>2, SetInduction
<1> QED BY <1>3 DEF S

LEMMA SupportedIs ==
  ASSUME Cardinality(stream) \in Nat
  PROVE  \E g : Grows(g, Cardinality(stream)) /\ Supported = g[Cardinality(stream)]
<1> DEFINE N == Cardinality(stream)
<1>1. PICK f : f = CHOOSE g : Grows(g, N)
  OBVIOUS
<1>2. Grows(f, N)
  BY <1>1, GrowExists
<1>3. Supported = f[N]
  <2>1. Supported = (CHOOSE g : g = [i \in 0 .. N |-> IF i = 0 THEN {} ELSE {x \in stream : Justified(x, g[i - 1])}])[N]
    BY DEF Supported
  <2>2. (CHOOSE g : g = [i \in 0 .. N |-> IF i = 0 THEN {} ELSE {x \in stream : Justified(x, g[i - 1])}])
          = (CHOOSE g : Grows(g, N))
    BY DEF Grows
  <2> QED BY <1>1, <2>1, <2>2
<1> QED BY <1>2, <1>3

(* As many rounds as there are messages are enough: until nothing is added *)
(* each round adds one.                                                    *)
LEMMA SupportedIsLeast ==
  ASSUME KeriAssumption, stream \subseteq Frame, IsFiniteSet(stream)
  PROVE  Supported = Least
<1> DEFINE N == Cardinality(stream)
<1>0. N \in Nat
  BY FS_CardinalityType
<1>1. PICK g : Grows(g, N) /\ Supported = g[N]
  BY <1>0, SupportedIs
<1> HIDE DEF N
<1>2. ASSUME NEW i \in 0 .. N PROVE g[i] \subseteq stream
  <2>1. g[i] = IF i = 0 THEN {} ELSE {f \in stream : Justified(f, g[i - 1])}
    BY <1>1 DEF Grows
  <2> QED BY <2>1
<1>3. ASSUME NEW i \in Nat, i + 1 \in 0 .. N
      PROVE  g[i + 1] = {f \in stream : Justified(f, g[i])}
  <2>1. PICK j : j = i + 1
    OBVIOUS
  <2>2. j \in 0 .. N /\ j # 0 /\ j - 1 = i
    BY <1>3, <2>1
  <2>3. g[j] = IF j = 0 THEN {} ELSE {f \in stream : Justified(f, g[j - 1])}
    BY <1>1, <2>2 DEF Grows
  <2> QED BY <2>1, <2>2, <2>3
<1>4. g[0] = {}
  <2>1. 0 \in 0 .. N
    BY <1>0 DEF N
  <2> QED BY <1>1, <2>1 DEF Grows
<1>5. \A i \in 0 .. N : g[i] \subseteq Least
  <2> DEFINE S == {i \in Nat : i \in 0 .. N => g[i] \subseteq Least}
  <2>1. 0 \in S
    BY <1>4
  <2>2. ASSUME NEW i \in Nat, i \in S
        PROVE  i + 1 \in S
    <3> SUFFICES ASSUME i + 1 \in 0 .. N
                 PROVE  g[i + 1] \subseteq Least
      OBVIOUS
    <3>1. g[i] \subseteq Least
      BY <1>0, <2>2
    <3>2. ASSUME NEW f \in g[i + 1] PROVE f \in Least
      <4>1. f \in stream /\ Justified(f, g[i])
        BY <1>3
      <4>2. Justified(f, Least)
        BY <3>1, <4>1, JustifiedMore
      <4> QED BY <4>1, <4>2, LeastIsClosed DEF ClosedFor
    <3> QED BY <3>2
  <2> HIDE DEF S
  <2>3. Nat \subseteq S
    BY <2>1, <2>2, SetInduction
  <2>4. ASSUME NEW i \in 0 .. N PROVE g[i] \subseteq Least
    <3>1. i \in Nat
      OBVIOUS
    <3> QED BY <2>3, <3>1 DEF S
  <2> QED BY <2>4
<1>6. \A i \in Nat : i + 1 \in 0 .. N => g[i] \subseteq g[i + 1]
  <2> DEFINE S == {i \in Nat : i + 1 \in 0 .. N => g[i] \subseteq g[i + 1]}
  <2>1. 0 \in S
    BY <1>4
  <2>2. ASSUME NEW i \in Nat, i \in S
        PROVE  i + 1 \in S
    <3> SUFFICES ASSUME i + 1 + 1 \in 0 .. N, NEW f \in g[i + 1]
                 PROVE  f \in g[i + 1 + 1]
      OBVIOUS
    <3>0. i + 1 \in 0 .. N /\ i + 1 \in Nat
      BY <1>0
    <3>1. g[i] \subseteq g[i + 1]
      BY <2>2, <3>0
    <3>2. f \in stream /\ Justified(f, g[i])
      BY <1>3, <3>0
    <3>3. Justified(f, g[i + 1])
      BY <3>1, <3>2, JustifiedMore
    <3> QED BY <1>3, <3>0, <3>2, <3>3
  <2> HIDE DEF S
  <2>3. Nat \subseteq S
    BY <2>1, <2>2, SetInduction
  <2> QED BY <2>3 DEF S
<1>7. ASSUME NEW i \in Nat, i \in 0 .. N, \A k \in Nat : k < i => g[k] # g[k + 1]
      PROVE  Cardinality(g[i]) >= i
  <2> DEFINE S == {k \in Nat : k <= i => Cardinality(g[k]) >= k}
  <2>1. 0 \in S
    <3>1. Cardinality(g[0]) = 0
      BY <1>4, FS_EmptySet
    <3> QED BY <3>1
  <2>2. ASSUME NEW k \in Nat, k \in S
        PROVE  k + 1 \in S
    <3> SUFFICES ASSUME k + 1 <= i
                 PROVE  Cardinality(g[k + 1]) >= k + 1
      OBVIOUS
    <3>0. k \in 0 .. N /\ k + 1 \in 0 .. N /\ k < i /\ k <= i
      BY <1>0, <1>7
    <3>1. g[k] \subseteq g[k + 1] /\ g[k] # g[k + 1]
      BY <1>6, <1>7, <3>0
    <3>2. IsFiniteSet(g[k + 1]) /\ IsFiniteSet(g[k])
      BY <1>2, <3>0, FS_Subset
    <3>3. Cardinality(g[k]) <= Cardinality(g[k + 1]) /\ Cardinality(g[k]) # Cardinality(g[k + 1])
      BY <3>1, <3>2, FS_Subset
    <3>4. Cardinality(g[k]) \in Nat /\ Cardinality(g[k + 1]) \in Nat
      BY <3>2, FS_CardinalityType
    <3>5. Cardinality(g[k]) >= k
      BY <2>2, <3>0
    <3> QED BY <3>3, <3>4, <3>5
  <2> HIDE DEF S
  <2>3. i \in S
    BY <2>1, <2>2, SetInduction
  <2> QED BY <2>3 DEF S
<1>8. ClosedFor(g[N])
  <2>1. CASE \E k \in Nat : k < N /\ g[k] = g[k + 1]
    <3>1. PICK k \in Nat : k < N /\ g[k] = g[k + 1]
      BY <2>1
    <3> DEFINE S == {n \in Nat : k + n <= N => g[k + n] = g[k]}
    <3>2. 0 \in S
      <4>1. k + 0 = k
        OBVIOUS
      <4> QED BY <4>1
    <3>3. ASSUME NEW n \in Nat, n \in S
          PROVE  n + 1 \in S
      <4> SUFFICES ASSUME k + (n + 1) <= N
                   PROVE  g[k + (n + 1)] = g[k]
        OBVIOUS
      <4>1. k + n \in Nat /\ k + (n + 1) = (k + n) + 1 /\ (k + n) + 1 \in 0 .. N
            /\ k + n <= N /\ k + 1 \in 0 .. N
        BY <1>0, <3>1
      <4>2. g[(k + n) + 1] = {f \in stream : Justified(f, g[k + n])}
        BY <1>3, <4>1
      <4>3. g[k + 1] = {f \in stream : Justified(f, g[k])}
        BY <1>3, <3>1, <4>1
      <4>4. g[k + n] = g[k]
        BY <3>3, <4>1
      <4> QED BY <3>1, <4>1, <4>2, <4>3, <4>4
    <3> HIDE DEF S
    <3>4. N - k \in Nat /\ k + (N - k) = N /\ k + 1 \in 0 .. N
      BY <1>0, <3>1
    <3>5. N - k \in S
      BY <3>2, <3>3, <3>4, SetInduction
    <3>6. g[N] = g[k]
      BY <1>0, <3>4, <3>5 DEF S
    <3>7. g[k + 1] = {f \in stream : Justified(f, g[k])}
      BY <1>3, <3>4
    <3> QED BY <3>1, <3>6, <3>7 DEF ClosedFor
  <2>2. CASE \A k \in Nat : k < N => g[k] # g[k + 1]
    <3>1. N \in 0 .. N
      BY <1>0
    <3>2. Cardinality(g[N]) >= N
      BY <1>0, <1>7, <2>2, <3>1
    <3>3. g[N] \subseteq stream
      BY <1>2, <3>1
    <3>4. g[N] = stream
      <4> SUFFICES ASSUME g[N] # stream
                   PROVE  FALSE
        OBVIOUS
      <4>1. Cardinality(g[N]) <= N /\ Cardinality(g[N]) # N
        BY <3>3, FS_Subset DEF N
      <4>2. Cardinality(g[N]) \in Nat
        BY <3>3, FS_Subset, FS_CardinalityType
      <4> QED BY <1>0, <3>2, <4>1, <4>2
    <3> QED BY <3>4 DEF ClosedFor
  <2> QED BY <2>1, <2>2
<1>9. N \in 0 .. N
  BY <1>0
<1>10. g[N] \subseteq Least
  BY <1>5, <1>9
<1>11. g[N] \in SUBSET stream
  BY <1>2, <1>9
<1>12. Least \subseteq g[N]
  BY <1>8, <1>11 DEF Least
<1> QED BY <1>1, <1>10, <1>12

(***************************************************************************)
(* What a database holds, and what each of it rests on.                    *)
(***************************************************************************)

Has(d, f) ==
  CASE Event[f].class = "kel"  -> Seen(d, f)
    [] Event[f].class = "tel"  -> f \in d.tels
    [] Event[f].class = "acdc" -> f \in d.saved
    [] Event[f].class = "rpy"  -> f \in d.rpys

Held(d) == {f \in stream : Has(d, f)}

(* e is the event after the head of the log, or recovers it.               *)
FollowsOn(log, e) ==
  \/ Event[e].sn = HeadSn(log) + 1 /\ Event[e].prior = log[Len(log)]
  \/ Recovers(log, e)

Legal(log) ==
  /\ \A i \in DOMAIN log : Event[log[i]].genuine
  /\ \A i, j \in DOMAIN log : log[i] = log[j] => i = j
  /\ \A n \in 1 .. Len(log) - 1 : FollowsOn(SubSeq(log, 1, n), log[n + 1])

(* Nothing is in the database d without what keripy asked of it.           *)
LedgerSound(d) ==
  /\ \A a \in Aid : Legal(d.fels[a])
  /\ \A a \in Aid : d.fels[a] # <<>> /\ Event[d.fels[a][1]].ilk = "dip" =>
                      Sealed(d, d.fels[a][1])
  /\ \A t \in d.tels : /\ Seals(Event[t].anchor, t) /\ Seen(d, Event[t].anchor)
                       /\ TelReady(d, t)
  /\ \A c \in d.saved : HasRegistry(d, Event[c].registry)
  /\ \A r \in d.rpys : Event[r].role => Knows(d, Event[r].cid)
  /\ \A r, s \in d.rpys : SameTopic(r, s) => r = s

LEMMA AcceptingIs ==
  ASSUME KeriAssumption, NEW d \in Database, NEW f \in Frame, NEW n, n = Accepting(d, f)
  PROVE  /\ n \in Database
         /\ Event[f].class = "kel" =>
              /\ n.tels = d.tels /\ n.saved = d.saved /\ n.rpys = d.rpys
              /\ Event[f].principal \in Aid
              /\ \A a \in Aid : n.fels[a] =
                   IF a = Event[f].principal /\ ~Seen(d, f) THEN Append(d.fels[a], f) ELSE d.fels[a]
         /\ Event[f].class = "tel" =>
              n.fels = d.fels /\ n.tels = d.tels \cup {f} /\ n.saved = d.saved /\ n.rpys = d.rpys
         /\ Event[f].class = "acdc" =>
              n.fels = d.fels /\ n.tels = d.tels /\ n.saved = d.saved \cup {f} /\ n.rpys = d.rpys
         /\ Event[f].class = "rpy" =>
              /\ n.fels = d.fels /\ n.tels = d.tels /\ n.saved = d.saved
              /\ n.rpys = {s \in d.rpys : ~SameTopic(s, f)} \cup {f}
<1>0. n \in Database
  BY AcceptingKeeps
<1>1. CASE Event[f].class = "kel" /\ ~Seen(d, f)
  <2> DEFINE p == Event[f].principal
  <2>1. p \in Aid
    BY <1>1 DEF KeriAssumption
  <2>2. n = [d EXCEPT !.fels[p] = Append(@, f)]
    BY <1>1 DEF Accepting
  <2>3. n.fels = [d.fels EXCEPT ![p] = Append(@, f)] /\ n.tels = d.tels
        /\ n.rpys = d.rpys /\ n.saved = d.saved
    BY <2>2 DEF Database
  <2>4. d.fels \in [Aid -> Seq(Frame)]
    BY DEF Database
  <2>5. \A a \in Aid : n.fels[a] = IF a = p THEN Append(d.fels[a], f) ELSE d.fels[a]
    BY <2>1, <2>3, <2>4
  <2> QED BY <1>0, <1>1, <2>1, <2>3, <2>5
<1>2. CASE Event[f].class = "kel" /\ Seen(d, f)
  BY <1>0, <1>2 DEF Accepting, KeriAssumption
<1>3. CASE Event[f].class = "tel"
  BY <1>0, <1>3 DEF Accepting, Database
<1>4. CASE Event[f].class = "acdc"
  BY <1>0, <1>4 DEF Accepting, Database
<1>5. CASE Event[f].class = "rpy"
  BY <1>0, <1>5 DEF Accepting, Database
<1> QED BY <1>1, <1>2, <1>3, <1>4, <1>5 DEF KeriAssumption

(* What is accepted is held, and nothing else is new.                      *)
LEMMA HasMore ==
  ASSUME KeriAssumption, NEW d \in Database, NEW f \in Frame, NEW n, n = Accepting(d, f)
  PROVE  /\ Has(n, f)
         /\ \A g : Seen(d, g) => Seen(n, g)
         /\ \A g \in Frame : Event[g].class # "rpy" => (Has(n, g) <=> Has(d, g) \/ g = f)
         /\ \A g : Sealed(d, g) => Sealed(n, g)
<1>0. n \in Database
  BY AcceptingIs
<1>1. \A a \in Aid : d.fels[a] \in Seq(Frame)
  BY DEF Database
<1>2. ASSUME NEW a \in Aid
      PROVE  Range(n.fels[a]) = IF a = Event[f].principal /\ Event[f].class = "kel"
                                  THEN Range(d.fels[a]) \cup {f} ELSE Range(d.fels[a])
  <2>1. CASE a = Event[f].principal /\ Event[f].class = "kel" /\ ~Seen(d, f)
    <3>1. n.fels[a] = Append(d.fels[a], f)
      BY <2>1, AcceptingIs
    <3>2. Range(Append(d.fels[a], f)) = Range(d.fels[a]) \cup {f}
      BY <1>1, RangeOfAppend
    <3> QED BY <2>1, <3>1, <3>2
  <2>2. CASE a = Event[f].principal /\ Event[f].class = "kel" /\ Seen(d, f)
    <3>1. n.fels[a] = d.fels[a]
      BY <2>2, AcceptingIs
    <3>2. f \in Range(d.fels[a])
      BY <2>2 DEF Seen, Log
    <3> QED BY <2>2, <3>1, <3>2
  <2>3. CASE ~(a = Event[f].principal /\ Event[f].class = "kel")
    <3>1. n.fels[a] = d.fels[a]
      BY <2>3, AcceptingIs DEF KeriAssumption
    <3> QED BY <2>3, <3>1
  <2> QED BY <2>1, <2>2, <2>3
<1>3. \A g : Seen(d, g) => Seen(n, g)
  BY <1>2 DEF Seen, Log
<1>4. Event[f].class = "kel" => Seen(n, f)
  BY <1>2 DEF Seen, Log, KeriAssumption
<1>5. Has(n, f)
  <2>1. Event[f].class = "tel" => f \in n.tels
    BY AcceptingIs
  <2>2. Event[f].class = "acdc" => f \in n.saved
    BY AcceptingIs
  <2>3. Event[f].class = "rpy" => f \in n.rpys
    BY AcceptingIs
  <2>4. Event[f].class \in {"kel", "tel", "acdc", "rpy"}
    BY DEF KeriAssumption
  <2> QED BY <1>4, <2>1, <2>2, <2>3, <2>4 DEF Has
<1>6. ASSUME NEW g \in Frame, Event[g].class = "kel"
      PROVE  Has(n, g) <=> Has(d, g) \/ g = f
  <2>1. Event[g].principal \in Aid
    BY <1>6 DEF KeriAssumption
  <2>2. Seen(n, g) => Seen(d, g) \/ g = f
    BY <1>2, <2>1 DEF Seen, Log
  <2> QED BY <1>3, <1>4, <1>6, <2>2 DEF Has
<1>7. ASSUME NEW g \in Frame, Event[g].class = "tel"
      PROVE  Has(n, g) <=> Has(d, g) \/ g = f
  BY <1>7, AcceptingIs DEF Has, KeriAssumption
<1>8. ASSUME NEW g \in Frame, Event[g].class = "acdc"
      PROVE  Has(n, g) <=> Has(d, g) \/ g = f
  BY <1>8, AcceptingIs DEF Has, KeriAssumption
<1>9. ASSUME NEW g, Sealed(d, g)
      PROVE  Sealed(n, g)
  <2> DEFINE by == Event[g].di
  <2>1. by \in Aid /\ Knows(n, by)
    BY <1>9, AcceptingKeeps DEF Sealed, Knows
  <2>2. PICK i \in DOMAIN d.fels[by] : Event[d.fels[by][i]].seal.said = g
    BY <1>9 DEF Sealed, Log
  <2>3. d.fels[by][i] \in Range(n.fels[by])
    BY <1>2, <2>1 DEF Range
  <2>4. PICK j \in DOMAIN n.fels[by] : n.fels[by][j] = d.fels[by][i]
    BY <2>3 DEF Range
  <2> QED BY <2>1, <2>2, <2>4 DEF Sealed, Log
<1> QED BY <1>3, <1>5, <1>6, <1>7, <1>8, <1>9 DEF KeriAssumption

LEMMA LegalGrows ==
  ASSUME NEW log \in Seq(Frame), Legal(log), NEW e \in Frame, Event[e].genuine,
         e \notin Range(log), log # <<>> => FollowsOn(log, e)
  PROVE  Legal(Append(log, e))
<1> DEFINE N == Len(log)
<1>1. PICK new : new = Append(log, e)
  OBVIOUS
<1>2. /\ new \in Seq(Frame) /\ N \in Nat /\ Len(new) = N + 1
      /\ DOMAIN log = 1 .. N /\ DOMAIN new = 1 .. N + 1
      /\ new[N + 1] = e /\ \A i \in 1 .. N : new[i] = log[i]
  BY <1>1, AppendProperties, LenProperties
<1>3. \A i \in 1 .. N : log[i] # e /\ log[i] \in Frame
  BY <1>2 DEF Range
<1> HIDE DEF N
<1>4. \A i \in DOMAIN new : Event[new[i]].genuine
  BY <1>2 DEF Legal
<1>5. ASSUME NEW i \in DOMAIN new, NEW j \in DOMAIN new, new[i] = new[j]
      PROVE  i = j
  <2>1. i \in 1 .. N + 1 /\ j \in 1 .. N + 1
    BY <1>2
  <2>2. CASE i \in 1 .. N /\ j \in 1 .. N
    BY <1>2, <1>5, <2>2 DEF Legal
  <2>3. CASE i = N + 1 /\ j \in 1 .. N
    BY <1>2, <1>3, <1>5, <2>3
  <2>4. CASE j = N + 1 /\ i \in 1 .. N
    BY <1>2, <1>3, <1>5, <2>4
  <2> QED BY <1>2, <2>1, <2>2, <2>3, <2>4
<1>6. ASSUME NEW n \in 1 .. Len(new) - 1
      PROVE  FollowsOn(SubSeq(new, 1, n), new[n + 1])
  <2>1. n \in 1 .. N
    BY <1>2
  <2>2. /\ SubSeq(new, 1, n) \in Seq(Frame) /\ Len(SubSeq(new, 1, n)) = n
        /\ SubSeq(log, 1, n) \in Seq(Frame) /\ Len(SubSeq(log, 1, n)) = n
        /\ \A i \in 1 .. n : SubSeq(new, 1, n)[i] = new[i] /\ SubSeq(log, 1, n)[i] = log[i]
    <3>1. n <= Len(log) /\ n <= Len(new)
      BY <1>2, <2>1 DEF N
    <3> QED BY <1>2, <2>1, <3>1, SubSeqProperties DEF N
  <2>3. SubSeq(new, 1, n) = SubSeq(log, 1, n)
    <3>1. PICK s : s = SubSeq(new, 1, n)
      OBVIOUS
    <3>2. PICK t : t = SubSeq(log, 1, n)
      OBVIOUS
    <3>3. \A i \in 1 .. n : s[i] = t[i]
      BY <1>2, <2>1, <2>2, <3>1, <3>2
    <3>4. s \in Seq(Frame) /\ t \in Seq(Frame) /\ Len(s) = Len(t) /\ Len(s) = n
      BY <2>2, <3>1, <3>2
    <3>5. s = t
      BY <3>3, <3>4, SeqEqual
    <3> QED BY <3>1, <3>2, <3>5
  <2>4. CASE n = N
    <3>1. SubSeq(log, 1, n) = log
      BY <2>4, SubSeqFull DEF N
    <3>2. log # <<>>
      BY <2>1, <2>4 DEF N
    <3> QED BY <1>2, <2>3, <2>4, <3>1, <3>2
  <2>5. CASE n # N
    <3>1. n \in 1 .. N - 1 /\ n + 1 \in 1 .. N
      BY <1>2, <2>1, <2>5
    <3>2. FollowsOn(SubSeq(log, 1, n), log[n + 1])
      BY <3>1 DEF Legal, N
    <3> QED BY <1>2, <2>3, <3>1, <3>2
  <2> QED BY <2>4, <2>5
<1>7. Legal(new)
  BY <1>4, <1>5, <1>6 DEF Legal
<1> QED BY <1>1, <1>7

(* What keripy asked of a key event it accepts now.                        *)
LEMMA KelFollows ==
  ASSUME KeriAssumption, NEW d, NEW f \in Frame, Event[f].class = "kel",
         Verdict(d, f) = "accept", ~Seen(d, f)
  PROVE  /\ Event[f].genuine
         /\ Log(d, Event[f].principal) # <<>> => FollowsOn(Log(d, Event[f].principal), f)
<1> DEFINE log == Log(d, Event[f].principal)
<1>1. KelVerdict(d, f) = "accept"
  BY DEF Verdict
<1>2. Event[f].genuine
  BY <1>1 DEF KelVerdict
<1>3. KelVerdict(d, f) = IF log = <<>>
        THEN IF Event[f].sn > 0 THEN "ooes"
             ELSE IF Event[f].ilk = "dip" /\ ~Sealed(d, f) THEN "pdes" ELSE "accept"
        ELSE IF Event[f].sn > HeadSn(log) + 1 THEN "ooes"
        ELSE IF \/ Event[f].sn = HeadSn(log) + 1 /\ Event[f].prior = log[Len(log)]
                \/ Recovers(log, f)
        THEN "accept" ELSE "drop"
  BY <1>2 DEF KelVerdict
<1> HIDE DEF log
<1>4. log # <<>> => FollowsOn(log, f)
  BY <1>1, <1>3 DEF FollowsOn
<1> QED BY <1>2, <1>4 DEF log

LEMMA LedgerGrows ==
  ASSUME KeriAssumption, NEW d, IsSound(d), LedgerSound(d), NEW f \in Frame,
         Verdict(d, f) = "accept"
  PROVE  LedgerSound(Accepting(d, f))
<1>1. PICK n : n = Accepting(d, f)
  OBVIOUS
<1>2. d \in Database /\ \A a \in Aid : d.fels[a] \in Seq(Frame)
  BY DEF IsSound, Database
<1>3. /\ \A a : Knows(d, a) => Knows(n, a)
      /\ \A r : HasRegistry(d, r) => HasRegistry(n, r)
      /\ \A c : Issued(d, c) => Issued(n, c)
  BY <1>1, <1>2, AcceptingKeeps
<1>4. /\ \A g : Seen(d, g) => Seen(n, g)
      /\ \A g : Sealed(d, g) => Sealed(n, g)
  BY <1>1, <1>2, HasMore
<1>5. \A t : TelReady(d, t) => TelReady(n, t)
  BY <1>3 DEF TelReady
<1>6. ASSUME NEW a \in Aid
      PROVE  /\ Legal(n.fels[a])
             /\ n.fels[a] # <<>> /\ Event[n.fels[a][1]].ilk = "dip" => Sealed(n, n.fels[a][1])
  <2>1. CASE a = Event[f].principal /\ Event[f].class = "kel" /\ ~Seen(d, f)
    <3>1. n.fels[a] = Append(d.fels[a], f)
      BY <1>1, <1>2, <2>1, AcceptingIs
    <3>2. f \notin Range(d.fels[a])
      BY <2>1 DEF Seen, Log
    <3>3. Event[f].genuine /\ (d.fels[a] # <<>> => FollowsOn(d.fels[a], f))
      BY <2>1, KelFollows DEF Log
    <3>4. Legal(n.fels[a])
      BY <1>2, <3>1, <3>2, <3>3, LegalGrows DEF LedgerSound
    <3>5. CASE d.fels[a] = <<>>
      <4>1. n.fels[a][1] = f
        <5>1. Append(d.fels[a], f)[Len(d.fels[a]) + 1] = f /\ Len(d.fels[a]) = 0
          BY <1>2, <3>5, AppendProperties
        <5> QED BY <3>1, <5>1
      <4>2. Event[f].ilk = "dip" => Sealed(d, f)
        <5>1. KelVerdict(d, f) = "accept"
          BY <2>1 DEF Verdict
        <5> QED BY <2>1, <3>5, <5>1, KelAccepted DEF Log
      <4> QED BY <1>4, <3>4, <4>1, <4>2
    <3>6. CASE d.fels[a] # <<>>
      <4>1. n.fels[a][1] = d.fels[a][1]
        <5>1. Len(d.fels[a]) \in Nat /\ Len(d.fels[a]) # 0
          BY <1>2, <3>6, EmptySeq, LenProperties
        <5>2. 1 \in 1 .. Len(d.fels[a])
          BY <5>1
        <5> QED BY <1>2, <3>1, <5>2, AppendProperties
      <4> QED BY <1>4, <3>4, <3>6, <4>1 DEF LedgerSound
    <3> QED BY <3>5, <3>6
  <2>2. CASE ~(a = Event[f].principal /\ Event[f].class = "kel" /\ ~Seen(d, f))
    <3>1. n.fels[a] = d.fels[a]
      BY <1>1, <1>2, <2>2, AcceptingIs DEF KeriAssumption
    <3> QED BY <1>4, <3>1 DEF LedgerSound
  <2> QED BY <2>1, <2>2
<1>7. ASSUME NEW t \in n.tels
      PROVE  Seals(Event[t].anchor, t) /\ Seen(n, Event[t].anchor) /\ TelReady(n, t)
  <2>1. CASE t \in d.tels
    BY <1>4, <1>5, <2>1 DEF LedgerSound
  <2>2. CASE t \notin d.tels
    <3>1. t = f /\ Event[f].class = "tel"
      BY <1>1, <1>2, <2>2, AcceptingIs DEF KeriAssumption
    <3>2. TelVerdict(d, f) = "accept"
      BY <3>1 DEF Verdict
    <3>3. Anchored(d, f) /\ TelReady(d, f)
      BY <2>2, <3>1, <3>2 DEF TelVerdict, TelReady
    <3> QED BY <1>4, <1>5, <3>1, <3>3 DEF Anchored
  <2> QED BY <2>1, <2>2
<1>8. ASSUME NEW c \in n.saved
      PROVE  HasRegistry(n, Event[c].registry)
  <2>1. CASE c \in d.saved
    BY <1>3, <2>1 DEF LedgerSound
  <2>2. CASE c \notin d.saved
    <3>1. c = f /\ Event[f].class = "acdc"
      BY <1>1, <1>2, <2>2, AcceptingIs DEF KeriAssumption
    <3> QED BY <1>3, <3>1 DEF Verdict, CredentialVerdict
  <2> QED BY <2>1, <2>2
<1>9. (\A r \in n.rpys : Event[r].role => Knows(n, Event[r].cid))
      /\ \A r, s \in n.rpys : SameTopic(r, s) => r = s
  <2>1. CASE Event[f].class # "rpy"
    <3>1. n.rpys = d.rpys
      BY <1>1, <1>2, <2>1, AcceptingIs DEF KeriAssumption
    <3> QED BY <1>3, <3>1 DEF LedgerSound
  <2>2. CASE Event[f].class = "rpy"
    <3>1. n.rpys = {s \in d.rpys : ~SameTopic(s, f)} \cup {f}
      BY <1>1, <1>2, <2>2, AcceptingIs
    <3>2. Event[f].role => Knows(d, Event[f].cid)
      BY <2>2 DEF Verdict, ReplyVerdict, LedgerSound
    <3>3. \A s : SameTopic(f, s) => SameTopic(s, f)
      BY DEF SameTopic
    <3> QED BY <1>3, <3>1, <3>2, <3>3 DEF LedgerSound
  <2> QED BY <2>1, <2>2
<1>10. LedgerSound(n)
  BY <1>6, <1>7, <1>8, <1>9 DEF LedgerSound
<1> QED BY <1>1, <1>10

LEMMA EmptyLedger == LedgerSound(EmptyDb)
<1>1. Legal(<<>>)
  BY DEF Legal
<1> QED BY <1>1 DEF LedgerSound, EmptyDb

(***************************************************************************)
(* Logs that no two events contend for.                                    *)
(***************************************************************************)

(* Every event is at the place its number says, behind its prior.          *)
LinearLog(log) ==
  \A i \in DOMAIN log :
    Event[log[i]].sn = i - 1 /\ (i > 1 => Event[log[i]].prior = log[i - 1])

Linear(d) == \A a \in Aid : LinearLog(d.fels[a])

LEMMA HeadOfLinear ==
  ASSUME NEW log \in Seq(Frame), log # <<>>, LinearLog(log)
  PROVE  /\ Len(log) \in Nat /\ Len(log) > 0 /\ DOMAIN log = 1 .. Len(log)
         /\ HeadSn(log) = Len(log) - 1
<1>1. Len(log) \in Nat /\ Len(log) > 0 /\ DOMAIN log = 1 .. Len(log)
  BY LenProperties, EmptySeq
<1>2. Len(log) \in DOMAIN log
  BY <1>1
<1>3. Event[log[Len(log)]].sn = Len(log) - 1
  BY <1>2 DEF LinearLog
<1> QED BY <1>1, <1>3 DEF HeadSn

(* The events of a log are walked key events of its principal.             *)
LEMMA OfTheLog ==
  ASSUME KeriAssumption, NEW d, IsSound(d), NEW a \in Aid, NEW i \in DOMAIN d.fels[a]
  PROVE  /\ d.fels[a][i] \in Of("kel") /\ d.fels[a][i] \in Frame
         /\ Event[d.fels[a][i]].principal = a /\ Seen(d, d.fels[a][i])
         /\ d.fels[a][i] \in Range(d.fels[a])
         /\ d.fels[a][i] \in Held(d) \cap Of("kel")
<1>1. IsLogOf(d.fels[a], a) /\ Range(d.fels[a]) \subseteq stream
  BY DEF IsSound
<1>2. PICK e : e = d.fels[a][i]
  OBVIOUS
<1>3. e \in Range(d.fels[a]) /\ Event[e].class = "kel" /\ Event[e].principal = a
  BY <1>1, <1>2 DEF IsLogOf, Range
<1>4. e \in Frame
  BY <1>1, <1>2, LogEntries
<1>5. Seen(d, e)
  BY <1>3 DEF Seen, Log
<1> QED BY <1>1, <1>2, <1>3, <1>4, <1>5 DEF Of, Held, Has

(* Where nothing contends, an unseen event is after the head or nowhere.   *)
LEMMA NothingBelow ==
  ASSUME KeriAssumption, NEW d, IsSound(d), Linear(d), ~Contended, NEW f \in Of("kel"), f \in Frame,
         ~Seen(d, f)
  PROVE  Event[f].principal \in Aid /\ Event[f].sn \in Nat
         /\ Event[f].sn >= Len(d.fels[Event[f].principal])
<1> DEFINE log == d.fels[Event[f].principal]
<1>1. Event[f].principal \in Aid /\ Event[f].sn \in Nat
  BY DEF KeriAssumption, Of
<1>2. log \in Seq(Frame) /\ LinearLog(log)
  BY <1>1 DEF IsSound, Database, Linear
<1>3. Len(log) \in Nat /\ DOMAIN log = 1 .. Len(log)
  BY <1>2, LenProperties
<1>4. ASSUME Event[f].sn < Len(log)
      PROVE  FALSE
  <2>1. PICK i : i = Event[f].sn + 1
    OBVIOUS
  <2>2. i \in DOMAIN log
    BY <1>1, <1>3, <1>4, <2>1
  <2>3. Event[log[i]].sn = Event[f].sn
    <3>1. Event[log[i]].sn = i - 1
      BY <1>2, <2>2 DEF LinearLog
    <3> QED BY <1>1, <2>1, <3>1
  <2>4. log[i] \in Of("kel") /\ Event[log[i]].principal = Event[f].principal /\ Seen(d, log[i])
    BY <1>1, <2>2, OfTheLog
  <2>5. SamePlace(f, log[i])
    BY <2>3, <2>4 DEF SamePlace
  <2> QED BY <2>4, <2>5 DEF Contended
<1> QED BY <1>1, <1>3, <1>4

LEMMA LinearAppend ==
  ASSUME NEW log \in Seq(Frame), LinearLog(log), NEW e \in Frame,
         log = <<>> => Event[e].sn = 0,
         log # <<>> => Event[e].sn = Len(log) /\ Event[e].prior = log[Len(log)]
  PROVE  LinearLog(Append(log, e))
<1>1. PICK new : new = Append(log, e)
  OBVIOUS
<1>2. PICK N : N = Len(log)
  OBVIOUS
<1>3. /\ new \in Seq(Frame) /\ N \in Nat /\ DOMAIN log = 1 .. N /\ DOMAIN new = 1 .. N + 1
      /\ new[N + 1] = e /\ \A i \in 1 .. N : new[i] = log[i]
  BY <1>1, <1>2, AppendProperties, LenProperties
<1>4. log = <<>> <=> N = 0
  BY <1>2, EmptySeq
<1>5. ASSUME NEW i \in DOMAIN new
      PROVE  Event[new[i]].sn = i - 1 /\ (i > 1 => Event[new[i]].prior = new[i - 1])
  <2>1. CASE i = N + 1
    <3>1. N # 0 => new[N] = log[N]
      BY <1>3
    <3> QED BY <1>2, <1>3, <1>4, <2>1, <3>1
  <2>2. CASE i \in 1 .. N
    <3>1. Event[log[i]].sn = i - 1 /\ (i > 1 => Event[log[i]].prior = log[i - 1])
      BY <1>3, <2>2 DEF LinearLog
    <3>2. i > 1 => i - 1 \in 1 .. N
      BY <1>3, <2>2
    <3> QED BY <1>3, <2>2, <3>1, <3>2
  <2> QED BY <1>3, <2>1, <2>2
<1>6. LinearLog(new)
  BY <1>5 DEF LinearLog
<1> QED BY <1>1, <1>6

(* What is accepted now comes right after the head.                        *)
LEMMA AcceptedNext ==
  ASSUME KeriAssumption, NEW d, IsSound(d), Linear(d), ~Contended,
         NEW f \in Of("kel"), f \in Frame, ~Seen(d, f), Verdict(d, f) = "accept"
  PROVE  LET log == d.fels[Event[f].principal] IN
           /\ Event[f].principal \in Aid /\ log \in Seq(Frame) /\ LinearLog(log)
           /\ log = <<>> => Event[f].sn = 0
           /\ log # <<>> => Event[f].sn = Len(log) /\ Event[f].prior = log[Len(log)]
<1> DEFINE log == d.fels[Event[f].principal]
<1>1. /\ Event[f].principal \in Aid /\ Event[f].sn \in Nat /\ Event[f].sn >= Len(log)
  BY NothingBelow
<1>2. log \in Seq(Frame) /\ LinearLog(log)
  BY <1>1 DEF IsSound, Database, Linear
<1>3. Event[f].class = "kel" /\ Log(d, Event[f].principal) = log
  BY DEF Of, Log
<1>4. log = <<>> => Event[f].sn = 0
  <2>1. KelVerdict(d, f) = "accept"
    BY <1>3 DEF Verdict
  <2> QED BY <1>3, <2>1, KelAccepted
<1>5. ASSUME log # <<>>
      PROVE  Event[f].sn = Len(log) /\ Event[f].prior = log[Len(log)]
  <2>1. FollowsOn(log, f)
    BY <1>3, <1>5, KelFollows
  <2>2. Len(log) \in Nat /\ HeadSn(log) = Len(log) - 1
    BY <1>2, <1>5, HeadOfLinear
  <2> HIDE DEF log
  <2>3. ~(Event[f].sn <= HeadSn(log))
    BY <1>1, <2>2
  <2> QED BY <2>1, <2>2, <2>3 DEF FollowsOn, Recovers
<1> QED BY <1>1, <1>2, <1>4, <1>5

LEMMA LinearGrows ==
  ASSUME KeriAssumption, NEW d, IsSound(d), Linear(d), ~Contended,
         NEW f \in stream, f \in Frame, Verdict(d, f) = "accept"
  PROVE  Linear(Accepting(d, f))
<1>1. PICK n : n = Accepting(d, f)
  OBVIOUS
<1>2. d \in Database
  BY DEF IsSound
<1>3. ASSUME NEW a \in Aid
      PROVE  LinearLog(n.fels[a])
  <2>1. CASE a = Event[f].principal /\ Event[f].class = "kel" /\ ~Seen(d, f)
    <3>1. n.fels[a] = Append(d.fels[a], f)
      BY <1>1, <1>2, <2>1, AcceptingIs
    <3>2. f \in Of("kel")
      BY <2>1 DEF Of
    <3>3. /\ d.fels[a] \in Seq(Frame) /\ LinearLog(d.fels[a])
          /\ d.fels[a] = <<>> => Event[f].sn = 0
          /\ d.fels[a] # <<>> =>
               Event[f].sn = Len(d.fels[a]) /\ Event[f].prior = d.fels[a][Len(d.fels[a])]
      BY <2>1, <3>2, AcceptedNext
    <3> QED BY <3>1, <3>3, LinearAppend
  <2>2. CASE ~(a = Event[f].principal /\ Event[f].class = "kel" /\ ~Seen(d, f))
    <3>1. n.fels[a] = d.fels[a]
      BY <1>1, <1>2, <2>2, AcceptingIs DEF KeriAssumption
    <3> QED BY <3>1 DEF Linear
  <2> QED BY <2>1, <2>2
<1> QED BY <1>1, <1>3 DEF Linear

(* What d has accepted of transactions, it holds.                          *)
LEMMA HeldTels ==
  ASSUME NEW d, IsSound(d)
  PROVE  /\ \A r : HasRegistry(d, r) => \E v \in Held(d) \cap Of("tel") : v \in Inception(r)
         /\ \A c : Issued(d, c) => \E t \in Held(d) \cap Of("tel") :
                                      Event[t].ilk = "iss" /\ Event[t].principal = c
<1>1. \A t \in d.tels : t \in Held(d) \cap Of("tel")
  BY DEF IsSound, Held, Has, Of
<1> QED BY <1>1 DEF HasRegistry, Issued

LEMMA TelsHeld ==
  ASSUME NEW d
  PROVE  /\ \A r : (\E v \in Held(d) \cap Of("tel") : v \in Inception(r)) => HasRegistry(d, r)
         /\ \A c : (\E t \in Held(d) \cap Of("tel") : Event[t].ilk = "iss" /\ Event[t].principal = c)
                      => Issued(d, c)
<1>1. \A t \in Held(d) \cap Of("tel") : t \in d.tels
  BY DEF Held, Has, Of
<1> QED BY <1>1 DEF HasRegistry, Issued

(* A message other than a reply is accepted on what is held, and that      *)
(* justifies it.                                                           *)
LEMMA AcceptedIsJustified ==
  ASSUME KeriAssumption, NEW d, IsSound(d), Linear(d), ~Contended,
         NEW f \in stream, f \in Frame, Event[f].class # "rpy",
         Verdict(d, f) = "accept", ~Has(d, f)
  PROVE  Justified(f, Held(d))
<1>1. CASE Event[f].class = "kel"
  <2> DEFINE p == Event[f].principal
             log == d.fels[p]
  <2>1. f \in Of("kel") /\ ~Seen(d, f)
    BY <1>1 DEF Of, Has
  <2>2. /\ p \in Aid /\ log \in Seq(Frame) /\ LinearLog(log)
        /\ log = <<>> => Event[f].sn = 0
        /\ log # <<>> => Event[f].sn = Len(log) /\ Event[f].prior = log[Len(log)]
    BY <2>1, AcceptedNext
  <2>3. Event[f].genuine
    BY <1>1, <2>1, KelFollows
  <2>4. ASSUME Event[f].sn > 0
        PROVE  \E k \in Held(d) \cap Of("kel") :
                 k = Event[f].prior /\ Event[k].principal = p /\ Event[k].sn = Event[f].sn - 1
    <3>0. Event[f].sn # 0
      BY <2>4
    <3>1. log # <<>>
      BY <2>2, <3>0
    <3>2. Len(log) \in DOMAIN log /\ Len(log) \in Nat
      BY <2>2, <3>1, HeadOfLinear
    <3>3. log[Len(log)] \in Held(d) \cap Of("kel") /\ Event[log[Len(log)]].principal = p
      BY <2>2, <3>2, OfTheLog
    <3>4. Event[log[Len(log)]].sn = Len(log) - 1
      BY <2>2, <3>2 DEF LinearLog
    <3> QED BY <2>2, <3>1, <3>3, <3>4
  <2>5. ASSUME Event[f].ilk = "dip"
        PROVE  \E k \in Held(d) \cap Of("kel") :
                 Event[k].principal = Event[f].di /\ Event[k].seal.said = f
    <3>0. Event[f].sn = 0
      BY <1>1, <2>5 DEF KeriAssumption
    <3>1. log = <<>>
      <4>1. log # <<>> => Len(log) # 0
        BY <2>2, EmptySeq
      <4> QED BY <2>2, <3>0, <4>1
    <3>2. Sealed(d, f)
      <4>1. KelVerdict(d, f) = "accept"
        BY <1>1 DEF Verdict
      <4> QED BY <1>1, <2>1, <2>5, <3>1, <4>1, KelAccepted DEF Log
    <3>3. PICK i \in DOMAIN d.fels[Event[f].di] :
            Event[f].di \in Aid /\ Event[d.fels[Event[f].di][i]].seal.said = f
      BY <3>2 DEF Sealed, Knows, Log
    <3>4. /\ d.fels[Event[f].di][i] \in Held(d) \cap Of("kel")
          /\ Event[d.fels[Event[f].di][i]].principal = Event[f].di
      BY <3>3, OfTheLog
    <3> QED BY <3>3, <3>4
  <2> QED BY <1>1, <2>3, <2>4, <2>5 DEF Justified
<1>2. CASE Event[f].class = "tel"
  <2>1. TelVerdict(d, f) = "accept" /\ f \notin d.tels
    BY <1>2 DEF Verdict, Has
  <2>2. Anchored(d, f) /\ TelReady(d, f)
    BY <2>1 DEF TelVerdict, TelReady
  <2> DEFINE k == Event[f].anchor
  <2>3. Seals(k, f) /\ Seen(d, k)
    BY <2>2 DEF Anchored
  <2>4. k \in Held(d) \cap Of("kel")
    <3>1. Event[k].principal \in Aid /\ k \in Range(d.fels[Event[k].principal])
      BY <2>3 DEF Seen, Log
    <3>2. PICK i \in DOMAIN d.fels[Event[k].principal] : k = d.fels[Event[k].principal][i]
      BY <3>1 DEF Range
    <3> HIDE DEF k
    <3>3. PICK a \in Aid : a = Event[k].principal
      BY <3>1
    <3>4. i \in DOMAIN d.fels[a] /\ k = d.fels[a][i]
      BY <3>2, <3>3
    <3> QED BY <3>4, OfTheLog
  <2>5. /\ Event[f].ilk # "vcp" => \E v \in Held(d) \cap Of("tel") : v \in Inception(Event[f].registry)
        /\ Event[f].ilk = "rev" => \E t \in Held(d) \cap Of("tel") :
                                     Event[t].ilk = "iss" /\ Event[t].principal = Event[f].principal
    BY <2>2, HeldTels DEF TelReady
  <2> HIDE DEF k
  <2>6. k = Event[f].anchor
    BY DEF k
  <2> QED BY <1>2, <2>3, <2>4, <2>5, <2>6 DEF Justified
<1>3. CASE Event[f].class = "acdc"
  <2>1. HasRegistry(d, Event[f].registry) /\ Issued(d, f)
    BY <1>3 DEF Verdict, CredentialVerdict
  <2> QED BY <1>3, <2>1, HeldTels DEF Justified
<1> QED BY <1>1, <1>2, <1>3 DEF KeriAssumption

(* Of what nothing contends for, keripy drops only what nothing in the     *)
(* stream would justify.                                                   *)
LEMMA DroppedIsUnjustified ==
  ASSUME KeriAssumption, NEW d, IsSound(d), Linear(d), ~Contended,
         NEW f \in Of("kel"), f \in Frame, Verdict(d, f) = "drop"
  PROVE  ~Justified(f, stream)
<1> DEFINE p == Event[f].principal
           log == d.fels[p]
<1>1. Event[f].class = "kel" /\ KelVerdict(d, f) = "drop"
  BY DEF Of, Verdict
<1>2. CASE ~Event[f].genuine
  BY <1>1, <1>2 DEF Justified
<1>3. CASE Event[f].genuine
  <2>1. ~Seen(d, f)
    BY <1>1, <1>3 DEF KelVerdict
  <2>2. p \in Aid /\ Event[f].sn \in Nat /\ Event[f].sn >= Len(log)
    BY <2>1, NothingBelow
  <2>3. log \in Seq(Frame) /\ LinearLog(log)
    BY <2>2 DEF IsSound, Database, Linear
  <2>4. KelVerdict(d, f) = IF log = <<>>
        THEN IF Event[f].sn > 0 THEN "ooes"
             ELSE IF Event[f].ilk = "dip" /\ ~Sealed(d, f) THEN "pdes" ELSE "accept"
        ELSE IF Event[f].sn > HeadSn(log) + 1 THEN "ooes"
        ELSE IF \/ Event[f].sn = HeadSn(log) + 1 /\ Event[f].prior = log[Len(log)]
                \/ Recovers(log, f)
        THEN "accept" ELSE "drop"
    BY <1>3, <2>1 DEF KelVerdict, Log
  <2>5. log # <<>>
    BY <1>1, <2>4
  <2>6. /\ Len(log) \in Nat /\ Len(log) > 0 /\ Len(log) \in DOMAIN log
        /\ HeadSn(log) = Len(log) - 1
    BY <2>3, <2>5, HeadOfLinear
  <2> DEFINE head == log[Len(log)]
  <2>7. Event[f].sn = Len(log) /\ Event[f].prior # head
    <3> HIDE DEF log
    <3>1. ~(Event[f].sn > HeadSn(log) + 1)
      BY <1>1, <2>4, <2>5
    <3>2. ~(Event[f].sn = HeadSn(log) + 1 /\ Event[f].prior = head)
      BY <1>1, <2>4, <2>5
    <3> QED BY <2>2, <2>6, <3>1, <3>2
  <2>8. head \in Of("kel") /\ Event[head].principal = p /\ Event[head].sn = Len(log) - 1
    <3>1. head \in Of("kel") /\ Event[head].principal = p
      BY <2>2, <2>3, <2>6, OfTheLog
    <3>2. Event[head].sn = Len(log) - 1
      BY <2>6 DEF HeadSn
    <3> QED BY <3>1, <3>2
  <2>9. ASSUME Justified(f, stream)
        PROVE  FALSE
    <3>1. PICK k \in Of("kel") : k = Event[f].prior /\ Event[k].principal = p
                                  /\ Event[k].sn = Event[f].sn - 1
      BY <1>1, <2>2, <2>6, <2>7, <2>9 DEF Justified
    <3>2. SamePlace(k, head)
      BY <2>7, <2>8, <3>1 DEF SamePlace
    <3> QED BY <2>8, <3>1, <3>2 DEF Contended
  <2> QED BY <2>9
<1> QED BY <1>2, <1>3

(* What is held does not justify what waits.                               *)
LEMMA WaitingIsUnjustified ==
  ASSUME KeriAssumption, NEW d, IsSound(d), Linear(d), ~Contended,
         NEW f \in stream, f \in Frame, NEW e \in Escrow, Verdict(d, f) = e
  PROVE  ~Justified(f, Held(d))
<1> SUFFICES ASSUME Justified(f, Held(d))
             PROVE  FALSE
  OBVIOUS
<1>0. e \in {"ooes", "pdes", "oots", "taes", "mre", "rpes"}
  BY DEF Escrow, Audited
<1>9. ASSUME NEW k \in Held(d) \cap Of("kel")
      PROVE  /\ Event[k].principal \in Aid
             /\ \E i \in DOMAIN d.fels[Event[k].principal] : d.fels[Event[k].principal][i] = k
  <2>1. Seen(d, k)
    BY DEF Held, Has, Of
  <2> QED BY <2>1 DEF Seen, Log, Range
<1>1. CASE Event[f].class = "kel"
  <2> DEFINE p == Event[f].principal
             log == d.fels[p]
  <2>1. /\ Event[f].genuine
        /\ Event[f].sn > 0 => \E k \in Held(d) \cap Of("kel") :
                                Event[k].principal = p /\ Event[k].sn = Event[f].sn - 1
        /\ Event[f].ilk = "dip" => \E k \in Held(d) \cap Of("kel") :
                                Event[k].principal = Event[f].di /\ Event[k].seal.said = f
    BY <1>1 DEF Justified
  <2>2. p \in Aid /\ Event[f].sn \in Nat
    BY <1>1 DEF KeriAssumption
  <2>3. log \in Seq(Frame) /\ LinearLog(log)
    BY <2>2 DEF IsSound, Database, Linear
  <2>4. ~Seen(d, f)
    BY <1>0, <1>1, <2>1 DEF Verdict, KelVerdict
  <2>5. e = IF log = <<>>
        THEN IF Event[f].sn > 0 THEN "ooes"
             ELSE IF Event[f].ilk = "dip" /\ ~Sealed(d, f) THEN "pdes" ELSE "accept"
        ELSE IF Event[f].sn > HeadSn(log) + 1 THEN "ooes"
        ELSE IF \/ Event[f].sn = HeadSn(log) + 1 /\ Event[f].prior = log[Len(log)]
                \/ Recovers(log, f)
        THEN "accept" ELSE "drop"
    BY <1>1, <2>1, <2>4 DEF Verdict, KelVerdict, Log
  <2>6. CASE log = <<>>
    <3>1. Event[f].sn = 0
      <4>1. ASSUME Event[f].sn > 0 PROVE FALSE
        <5>1. PICK k \in Held(d) \cap Of("kel") : Event[k].principal = p
          BY <2>1, <4>1
        <5> QED BY <1>9, <2>6, <5>1
      <4> QED BY <2>2, <4>1
    <3>2. Event[f].ilk = "dip" /\ ~Sealed(d, f)
      <4> HIDE DEF log
      <4> QED BY <1>0, <2>2, <2>5, <2>6, <3>1
    <3>3. PICK k \in Held(d) \cap Of("kel") :
            Event[k].principal = Event[f].di /\ Event[k].seal.said = f
      BY <2>1, <3>2
    <3>4. PICK i \in DOMAIN d.fels[Event[f].di] : d.fels[Event[f].di][i] = k
      BY <1>9, <3>3
    <3>5. Event[f].di \in Aid /\ d.fels[Event[f].di] # <<>>
      BY <1>9, <3>3, <3>4
    <3> QED BY <3>2, <3>3, <3>4, <3>5 DEF Sealed, Knows, Log
  <2>7. CASE log # <<>>
    <3>1. /\ Len(log) \in Nat /\ Len(log) > 0 /\ DOMAIN log = 1 .. Len(log)
          /\ HeadSn(log) = Len(log) - 1
      BY <2>3, <2>7, HeadOfLinear
    <3>2. Event[f].sn > Len(log)
      <4> HIDE DEF log
      <4>1. Event[f].sn > HeadSn(log) + 1
        BY <1>0, <2>5, <2>7
      <4> QED BY <2>2, <3>1, <4>1
    <3>3. PICK k \in Held(d) \cap Of("kel") : Event[k].principal = p /\ Event[k].sn = Event[f].sn - 1
      BY <2>1, <2>2, <3>1, <3>2
    <3>4. PICK i \in DOMAIN log : log[i] = k
      BY <1>9, <3>3
    <3>5. Event[k].sn = i - 1
      BY <2>3, <3>4 DEF LinearLog
    <3> QED BY <2>2, <3>1, <3>2, <3>3, <3>4, <3>5
  <2> QED BY <2>6, <2>7
<1>2. CASE Event[f].class = "tel"
  <2> DEFINE k == Event[f].anchor
  <2>1. /\ k \in Held(d) \cap Of("kel") /\ Seals(k, f) /\ TelReady(d, f)
    BY <1>2, TelsHeld DEF Justified, TelReady
  <2>2. TelVerdict(d, f) = e
    BY <1>2 DEF Verdict
  <2>3. ~Anchored(d, f)
    BY <1>0, <2>1, <2>2 DEF TelVerdict, TelReady
  <2>4. PICK i \in DOMAIN d.fels[Event[k].principal] : d.fels[Event[k].principal][i] = k
    BY <1>9, <2>1
  <2>5. Seen(d, k) /\ Event[k].principal \in Aid
    BY <1>9, <2>1 DEF Held, Has, Of
  <2> DEFINE log == d.fels[Event[k].principal]
  <2>6. k = Winner(log, Event[k].sn)
    <3>1. LinearLog(log) /\ log \in Seq(Frame)
      BY <2>5 DEF Linear, IsSound, Database
    <3>2. DOMAIN log = 1 .. Len(log) /\ Len(log) \in Nat
      BY <3>1, LenProperties
    <3> HIDE DEF log
    <3>3. Event[log[i]].sn = i - 1 /\ \A j \in DOMAIN log : Event[log[j]].sn = j - 1
      BY <2>4, <3>1 DEF LinearLog, log
    <3>4. i \in DOMAIN log /\ Event[k].sn = i - 1 /\ log[i] = k
      BY <2>4, <3>3 DEF log
    <3>5. Placed(log, Event[k].sn) = {i}
      BY <3>2, <3>3, <3>4 DEF Placed
    <3>6. \A m : (m \in {i} /\ \A j \in {i} : j <= m) => m = i
      OBVIOUS
    <3>7. i <= i
      BY <3>2, <3>4
    <3>8. (CHOOSE m \in {i} : \A j \in {i} : j <= m) = i
      BY <3>6, <3>7
    <3> QED BY <3>4, <3>5, <3>8 DEF Winner
  <2> QED BY <2>1, <2>3, <2>5, <2>6 DEF Anchored, Log
<1>3. CASE Event[f].class = "acdc"
  <2>1. HasRegistry(d, Event[f].registry) /\ Issued(d, f)
    BY <1>3, TelsHeld DEF Justified
  <2> QED BY <1>0, <1>3, <2>1 DEF Verdict, CredentialVerdict
<1>4. CASE Event[f].class = "rpy"
  <2>1. Event[f].role /\ ~Knows(d, Event[f].cid)
    BY <1>0, <1>4 DEF Verdict, ReplyVerdict
  <2>2. PICK k \in Held(d) \cap Of("kel") : Event[k].principal = Event[f].cid
    BY <1>4, <2>1 DEF Justified
  <2> QED BY <1>9, <2>1, <2>2 DEF Knows, Log
<1> QED BY <1>1, <1>2, <1>3, <1>4 DEF KeriAssumption

(***************************************************************************)
(* The order of a submission.                                              *)
(***************************************************************************)

(* What has been taken was all there was.                                  *)
AllParsed == stage \notin {"gate", "parse", "refused"} => parsed = stream

(* What keripy dropped: a reply for a newer one, a key event for good.     *)
Lost(f) ==
  CASE Event[f].class = "kel" -> Contended \/ ~Justified(f, stream)
    [] Event[f].class = "rpy" -> \E r \in db.rpys : SameTopic(f, r) /\ Event[r].date >= Event[f].date
    [] OTHER -> FALSE

NoneLost == \A f \in parsed : Has(db, f) \/ (\E e \in Escrow : f \in escrow[e]) \/ Lost(f)

HeldIsSupported == \A f \in Held(db) : Event[f].class # "rpy" => f \in Least

OrderInv ==
  /\ LedgerSound(db) /\ AllParsed /\ NoneLost
  /\ ~Contended => Linear(db) /\ HeldIsSupported

(* These depend on the stream alone.                                       *)
LEMMA OfTheStream ==
  ASSUME stream' = stream
  PROVE  /\ (Contended' <=> Contended) /\ Least' = Least
         /\ \A f, S : Justified(f, S)' <=> Justified(f, S)
<1>1. \A c : Of(c)' = Of(c)
  BY DEF Of
<1>2. \A f, S : Justified(f, S)' <=> Justified(f, S)
  BY DEF Justified, Of
<1>3. \A S : ClosedFor(S)' <=> ClosedFor(S)
  BY <1>2 DEF ClosedFor
<1>4. Least' = Least
  BY <1>3 DEF Least
<1>5. Contended' <=> Contended
  BY <1>1 DEF Contended
<1> QED BY <1>2, <1>4, <1>5

LEMMA OrderKeeps ==
  ASSUME OrderInv, UNCHANGED <<stream, parsed, db, escrow>>,
         stage' \notin {"gate", "parse", "refused"} => parsed = stream
  PROVE  OrderInv'
<1>1. LedgerSound(db)'
  BY DEF OrderInv, LedgerSound
<1>2. \A f : Lost(f)' <=> Lost(f)
  BY OfTheStream DEF Lost
<1>3. NoneLost'
  BY <1>2 DEF OrderInv, NoneLost
<1>4. Held(db)' = Held(db)
  BY DEF Held
<1>5. ~Contended' => Linear(db)' /\ HeldIsSupported'
  BY <1>4, OfTheStream DEF OrderInv, HeldIsSupported, Linear
<1> QED BY <1>1, <1>3, <1>5 DEF OrderInv, AllParsed

(* A message is judged: it is held, waits or is lost, and what was before  *)
(* still is.                                                               *)
LEMMA OrderJudges ==
  ASSUME KeriAssumption, IngestInv, HostInv, OrderInv, NEW f \in stream, f \in Frame, Judge(f),
         parsed' = parsed \cup {f}, UNCHANGED <<stream, stage>>, AllParsed'
  PROVE  OrderInv'
<1> DEFINE v == Verdict(db, f)
<1>0. /\ IsSound(db) /\ db \in Database /\ LedgerSound(db) /\ escrow \in [Escrow -> SUBSET (stream \cap Frame)]
      /\ stream \subseteq Frame /\ parsed \subseteq stream
  BY DEF IngestInv, DatabaseSound, EscrowsSound, IsSound, OrderInv, HostInv
<1>1. db' = IF v = "accept" THEN Accepting(db, f) ELSE db
  BY DEF Judge
<1>2. \A e \in Escrow : escrow'[e] = IF v = e THEN escrow[e] \cup {f} ELSE escrow[e] \ {f}
  BY DEF Judge
<1>3. v \in {"accept", "drop"} \cup Escrow
  BY DEF Verdict, KelVerdict, TelVerdict, CredentialVerdict, ReplyVerdict, KeriAssumption,
         Escrow, Audited
<1>4. LedgerSound(db')
  BY <1>0, <1>1, LedgerGrows
<1>5. \A g \in Frame : Event[g].class # "rpy" =>
        (Has(db', g) <=> Has(db, g) \/ (g = f /\ v = "accept"))
  <2>1. CASE v = "accept"
    BY <1>0, <1>1, <2>1, HasMore
  <2>2. CASE v # "accept"
    BY <1>1, <2>2
  <2> QED BY <2>1, <2>2
<1>6. v = "accept" => Has(db', f)
  BY <1>0, <1>1, HasMore
<1>7. \A g \in stream : (Has(db, g) => Has(db', g) \/ Lost(g)') /\ (Lost(g) => Lost(g)')
  <2> TAKE g \in stream
  <2>0. g \in Frame
    BY <1>0
  <2>1. CASE Event[g].class # "rpy"
    <3>1. Has(db, g) => Has(db', g)
      BY <1>5, <2>0, <2>1
    <3>2. Lost(g) => Lost(g)'
      BY <2>1, OfTheStream DEF Lost
    <3> QED BY <3>1, <3>2
  <2>2. CASE Event[g].class = "rpy"
    <3>1. ASSUME NEW r \in db.rpys
          PROVE  \E s \in db'.rpys : SameTopic(r, s) /\ Event[s].date >= Event[r].date
      <4>0. r \in Frame /\ Event[r].class = "rpy" /\ Event[r].date \in Nat
        BY <1>0 DEF IsSound, KeriAssumption
      <4>1. CASE r \in db'.rpys
        <5>1. SameTopic(r, r)
          BY DEF SameTopic
        <5>2. Event[r].date >= Event[r].date
          BY <4>0
        <5> QED BY <4>1, <5>1, <5>2
      <4>2. CASE r \notin db'.rpys
        <5>1. v = "accept" /\ Event[f].class = "rpy"
          BY <1>0, <1>1, <4>2, AcceptingIs DEF KeriAssumption
        <5>2. db'.rpys = {s \in db.rpys : ~SameTopic(s, f)} \cup {f}
          BY <1>0, <1>1, <5>1, AcceptingIs
        <5>3. SameTopic(r, f) /\ SameTopic(f, r) /\ f \in db'.rpys
          BY <4>2, <5>2 DEF SameTopic
        <5>4. Event[f].date \in Nat
          BY <5>1 DEF KeriAssumption
        <5>5. ReplyVerdict(db, f) = "accept"
          BY <5>1 DEF Verdict
        <5>6. CASE f \in db.rpys
          <6>1. r = f
            BY <1>0, <5>3, <5>6 DEF LedgerSound
          <6> QED BY <4>2, <5>3, <6>1
        <5>7. CASE f \notin db.rpys
          <6>1. ~(Event[r].date >= Event[f].date)
            BY <5>3, <5>5, <5>7 DEF ReplyVerdict
          <6>2. Event[f].date >= Event[r].date
            BY <4>0, <5>4, <6>1
          <6> QED BY <5>3, <6>2
        <5> QED BY <5>6, <5>7
      <4> QED BY <4>1, <4>2
    <3>2. \A r, s, t : SameTopic(r, s) /\ SameTopic(s, t) => SameTopic(r, t)
      BY DEF SameTopic
    <3>3. \A r \in db.rpys \cup db'.rpys \cup {g} : Event[r].date \in Nat
      <4>1. \A r \in db.rpys : r \in Frame /\ Event[r].class = "rpy"
        BY <1>0 DEF IsSound
      <4>2. \A r \in db'.rpys : r \in db.rpys \/ (r = f /\ Event[f].class = "rpy")
        BY <1>0, <1>1, AcceptingIs DEF KeriAssumption
      <4> QED BY <2>0, <2>2, <4>1, <4>2 DEF KeriAssumption
    <3>4. Lost(g) => Lost(g)'
      <4> SUFFICES ASSUME NEW r \in db.rpys, SameTopic(g, r), Event[r].date >= Event[g].date
                   PROVE  \E s \in db'.rpys : SameTopic(g, s) /\ Event[s].date >= Event[g].date
        BY <2>2 DEF Lost
      <4>1. PICK s \in db'.rpys : SameTopic(r, s) /\ Event[s].date >= Event[r].date
        BY <3>1
      <4>2. Event[s].date >= Event[g].date
        BY <3>3, <4>1
      <4> QED BY <3>2, <4>1, <4>2
    <3>5. Has(db, g) => Lost(g)'
      BY <2>2, <3>1 DEF Has, Lost
    <3> QED BY <3>4, <3>5
  <2> QED BY <2>1, <2>2
<1>8. v = "drop" => Lost(f)'
  <2> HAVE v = "drop"
  <2>1. db' = db
    BY <1>1, <2>1
  <2>2. CASE Event[f].class = "kel"
    <3>1. f \in Of("kel")
      BY <2>2 DEF Of
    <3>2. ~Contended => ~Justified(f, stream)
      BY <1>0, <3>1, DroppedIsUnjustified DEF OrderInv
    <3> QED BY <2>2, <3>2, OfTheStream DEF Lost
  <2>3. CASE Event[f].class = "rpy"
    <3>1. \E r \in db.rpys : SameTopic(f, r) /\ Event[r].date >= Event[f].date
      BY <2>3 DEF Verdict, ReplyVerdict
    <3> QED BY <2>1, <2>3, <3>1 DEF Lost
  <2>4. CASE Event[f].class \in {"tel", "acdc"}
    BY <2>4 DEF Verdict, TelVerdict, CredentialVerdict
  <2> QED BY <2>2, <2>3, <2>4 DEF KeriAssumption
<1>9. NoneLost'
  <2> SUFFICES ASSUME NEW g \in parsed'
               PROVE  Has(db', g) \/ (\E e \in Escrow : g \in escrow'[e]) \/ Lost(g)'
    BY DEF NoneLost
  <2>0. g \in stream
    BY <1>0
  <2>1. CASE g = f
    BY <1>2, <1>3, <1>6, <1>8, <2>1
  <2>2. CASE g # f
    <3>1. g \in parsed
      BY <2>2
    <3>2. Has(db, g) \/ (\E e \in Escrow : g \in escrow[e]) \/ Lost(g)
      BY <3>1 DEF OrderInv, NoneLost
    <3>3. \A e \in Escrow : g \in escrow[e] => g \in escrow'[e]
      BY <1>2, <2>2
    <3> QED BY <1>7, <2>0, <3>2, <3>3
  <2> QED BY <2>1, <2>2
<1>10. ~Contended => Linear(db') /\ HeldIsSupported'
  <2> HAVE ~Contended
  <2>1. Linear(db) /\ HeldIsSupported
    BY DEF OrderInv
  <2>2. Linear(db')
    BY <1>0, <1>1, <2>1, LinearGrows
  <2>3. ASSUME NEW g \in Held(db)', Event[g].class # "rpy"
        PROVE  g \in Least
    <3>0. g \in stream /\ g \in Frame /\ Has(db', g)
      BY <1>0, <2>3 DEF Held
    <3>1. CASE Has(db, g)
      BY <2>1, <2>3, <3>0, <3>1 DEF HeldIsSupported, Held
    <3>2. CASE ~Has(db, g)
      <4>1. g = f /\ v = "accept"
        BY <1>5, <2>3, <3>0, <3>2
      <4>2. Justified(f, Held(db))
        BY <1>0, <2>1, <2>3, <3>2, <4>1, AcceptedIsJustified
      <4>3. Justified(f, {h \in Held(db) : Event[h].class # "rpy"})
        BY <4>2 DEF Justified, Of
      <4>4. {h \in Held(db) : Event[h].class # "rpy"} \subseteq Least
        BY <2>1 DEF HeldIsSupported
      <4>5. Justified(f, Least)
        BY <4>3, <4>4, JustifiedMore
      <4> QED BY <1>0, <4>1, <4>5, LeastIsClosed DEF ClosedFor
    <3> QED BY <3>1, <3>2
  <2> QED BY <2>2, <2>3, OfTheStream DEF HeldIsSupported
<1> QED BY <1>4, <1>9, <1>10, OfTheStream DEF OrderInv, LedgerSound, Linear

(* What is accepted, once the drain is over, is what is justified.         *)
LEMMA AcceptedIsSupported ==
  ASSUME KeriAssumption, IngestInv, HostInv, OrderInv
  PROVE  OrderIsIrrelevant
<1> SUFFICES ASSUME stage = "audit", ~Contended
             PROVE  {f \in stream : Accepted(f)} = Supported
  BY DEF OrderIsIrrelevant
<1>0. /\ IsSound(db) /\ LedgerSound(db) /\ Linear(db) /\ HeldIsSupported /\ NoneLost
      /\ parsed = stream /\ stream \subseteq Frame /\ IsFiniteSet(stream)
      /\ \A e \in Escrow : \A f \in escrow[e] : Verdict(db, f) = e
  BY DEF IngestInv, DatabaseSound, OrderInv, AllParsed, HostInv, DrainIsComplete
<1>1. {f \in stream : Accepted(f)} = Held(db)
  BY DEF Accepted, Held, Has
<1>2. Supported = Least
  BY <1>0, SupportedIsLeast
<1>3. ASSUME NEW f \in Held(db)
      PROVE  f \in Least
  <2>1. f \in stream /\ f \in Frame /\ Has(db, f)
    BY <1>0 DEF Held
  <2>2. CASE Event[f].class # "rpy"
    BY <1>0, <2>2 DEF HeldIsSupported
  <2>3. CASE Event[f].class = "rpy"
    <3>0. f \in db.rpys
      BY <2>1, <2>3 DEF Has
    <3>1. ASSUME Event[f].role
          PROVE  \E k \in Least \cap Of("kel") : Event[k].principal = Event[f].cid
      <4>1. Event[f].cid \in Aid /\ db.fels[Event[f].cid] # <<>>
        BY <1>0, <3>0, <3>1 DEF LedgerSound, Knows, Log
      <4>2. 1 \in DOMAIN db.fels[Event[f].cid]
        <5>1. db.fels[Event[f].cid] \in Seq(Frame)
          BY <1>0, <4>1 DEF IsSound, Database
        <5> QED BY <4>1, <5>1, LenProperties, EmptySeq
      <4>3. /\ db.fels[Event[f].cid][1] \in Held(db) \cap Of("kel")
            /\ Event[db.fels[Event[f].cid][1]].principal = Event[f].cid
        BY <1>0, <4>1, <4>2, OfTheLog
      <4> QED BY <1>0, <4>3 DEF HeldIsSupported, Of
    <3>2. ASSUME NEW r \in Of("rpy"), SameTopic(r, f)
          PROVE  Event[r].date <= Event[f].date
      <4>0. r \in stream /\ r \in Frame /\ Event[r].class = "rpy"
            /\ Event[r].date \in Nat /\ Event[f].date \in Nat
        BY <1>0, <2>1, <2>3 DEF Of, KeriAssumption
      <4>1. CASE Has(db, r)
        <5>1. r = f
          BY <1>0, <3>0, <3>2, <4>0, <4>1 DEF Has, LedgerSound
        <5> QED BY <4>0, <5>1
      <4>2. CASE \E e \in Escrow : r \in escrow[e]
        <5>1. PICK e \in Escrow : Verdict(db, r) = e
          BY <1>0, <4>2
        <5>2. e \in {"ooes", "pdes", "oots", "taes", "mre", "rpes"}
          BY DEF Escrow, Audited
        <5>3. Event[r].role /\ ~Knows(db, Event[r].cid)
          BY <4>0, <5>1, <5>2 DEF Verdict, ReplyVerdict
        <5>4. Event[f].role = Event[r].role /\ Event[f].cid = Event[r].cid
          BY <3>2 DEF SameTopic
        <5> QED BY <1>0, <3>0, <5>3, <5>4 DEF LedgerSound
      <4>3. CASE Lost(r)
        <5>1. PICK s \in db.rpys : SameTopic(r, s) /\ Event[s].date >= Event[r].date
          BY <4>0, <4>3 DEF Lost
        <5>2. SameTopic(s, f)
          BY <3>2, <5>1 DEF SameTopic
        <5>3. s = f
          BY <1>0, <3>0, <5>2 DEF LedgerSound
        <5> QED BY <4>0, <5>1, <5>3
      <4> QED BY <1>0, <4>0, <4>1, <4>2, <4>3 DEF NoneLost
    <3>3. Justified(f, Least)
      BY <2>3, <3>1, <3>2 DEF Justified
    <3> QED BY <1>0, <2>1, <3>3, LeastIsClosed DEF ClosedFor
  <2> QED BY <2>2, <2>3
<1>4. ClosedFor(Held(db))
  <2> SUFFICES ASSUME NEW f \in stream, Justified(f, Held(db)), ~Has(db, f)
               PROVE  FALSE
    BY DEF ClosedFor, Held
  <2>0. f \in Frame /\ f \in parsed
    BY <1>0
  <2>1. CASE \E e \in Escrow : f \in escrow[e]
    <3>1. PICK e \in Escrow : Verdict(db, f) = e
      BY <1>0, <2>1
    <3> QED BY <1>0, <2>0, <3>1, WaitingIsUnjustified
  <2>2. CASE Lost(f)
    <3>1. Justified(f, stream)
      BY <2>0, JustifiedMore DEF Held
    <3>2. CASE Event[f].class = "rpy"
      <4>1. PICK r \in db.rpys : SameTopic(f, r) /\ Event[r].date >= Event[f].date
        BY <2>2, <3>2 DEF Lost
      <4>2. r \in Of("rpy") /\ r \in Frame /\ f \in Of("rpy")
        BY <1>0, <3>2 DEF IsSound, Of
      <4>3. SameTopic(r, f)
        BY <4>1 DEF SameTopic
      <4>4. Event[r].date <= Event[f].date
        BY <3>1, <3>2, <4>2, <4>3 DEF Justified
      <4>5. Event[r].date = Event[f].date
        <5>1. Event[r].date \in Nat /\ Event[f].date \in Nat
          BY <2>0, <4>2 DEF Of, KeriAssumption
        <5> QED BY <4>1, <4>4, <5>1
      <4>6. r # f
        BY <3>2 DEF Has
      <4> QED BY <4>2, <4>3, <4>5, <4>6 DEF Contended
    <3> QED BY <2>2, <3>1, <3>2 DEF Lost
  <2> QED BY <1>0, <2>0, <2>1, <2>2 DEF NoneLost
<1>5. Held(db) \in SUBSET stream
  BY DEF Held
<1>6. Least \subseteq Held(db)
  BY <1>4, <1>5 DEF Least
<1> QED BY <1>1, <1>2, <1>3, <1>6

LEMMA OrderBegins ==
  ASSUME KeriAssumption, stream' \subseteq Frame, parsed' = {}, db' = EmptyDb, stage' = "gate"
  PROVE  OrderInv'
<1>1. LedgerSound(db)'
  <2>1. LedgerSound(EmptyDb)'
    BY EmptyLedger, PTL
  <2> QED BY <2>1 DEF LedgerSound
<1>2. \A g : ~Has(db', g) \/ Event[g].class \notin {"kel", "tel", "acdc", "rpy"}
  <2>1. \A g : ~Seen(db', g)
    <3>1. Range(<<>>) = {}
      BY DEF Range
    <3> QED BY <3>1 DEF Seen, Log, EmptyDb
  <2>2. db'.tels = {} /\ db'.saved = {} /\ db'.rpys = {}
    BY DEF EmptyDb
  <2> QED BY <2>1, <2>2 DEF Has
<1>3. Linear(db)' /\ HeldIsSupported'
  <2>1. \A a \in Aid : DOMAIN db'.fels[a] = {}
    BY DEF EmptyDb
  <2>2. Linear(db')
    BY <2>1 DEF Linear, LinearLog
  <2>3. HeldIsSupported'
    <3> SUFFICES ASSUME NEW g \in Held(db)', Event[g].class # "rpy"
                 PROVE  g \in Least'
      BY DEF HeldIsSupported
    <3>1. Has(db', g) /\ g \in Frame
      BY DEF Held
    <3> QED BY <1>2, <3>1 DEF KeriAssumption
  <2> QED BY <2>2, <2>3 DEF Linear
<1>4. NoneLost' /\ AllParsed'
  BY DEF NoneLost, AllParsed
<1> QED BY <1>1, <1>3, <1>4 DEF OrderInv

LEMMA OrderInit == Init /\ HostInv => OrderInv
<1> SUFFICES ASSUME Init, HostInv
             PROVE  OrderInv
  OBVIOUS
<1>1. LedgerSound(db)
  BY EmptyLedger DEF Init
<1>2. NoneLost /\ AllParsed
  BY DEF Init, NoneLost, AllParsed
<1>3. \A a \in Aid : db.fels[a] = <<>>
  BY DEF Init, EmptyDb
<1>4. Linear(db)
  BY <1>3 DEF Linear, LinearLog
<1>5. HeldIsSupported
  <2> SUFFICES ASSUME NEW g \in Held(db), Event[g].class # "rpy"
               PROVE  FALSE
    BY DEF HeldIsSupported
  <2>1. Has(db, g) /\ g \in Frame
    BY DEF Held, HostInv
  <2>2. ~Seen(db, g)
    BY <1>3 DEF Seen, Log, Range
  <2>3. db.tels = {} /\ db.saved = {}
    BY DEF Init, EmptyDb
  <2> QED BY <2>1, <2>2, <2>3, KeriAssumption DEF Has, KeriAssumption
<1> QED BY <1>1, <1>2, <1>4, <1>5 DEF OrderInv

LEMMA OrderNext == IngestInv /\ HostInv /\ HostInv' /\ OrderInv /\ [Next]_vars => OrderInv'
<1> SUFFICES ASSUME IngestInv, HostInv, HostInv', OrderInv, [Next]_vars
             PROVE  OrderInv'
  OBVIOUS
<1> USE KeriAssumption, IngestAssumption
<1>0. stage \notin {"gate", "parse", "refused"} => parsed = stream
  BY DEF OrderInv, AllParsed
<1>1. CASE Gate
  <2>1. UNCHANGED <<stream, parsed, db, escrow>> /\ stage' \in {"parse", "refused"}
    BY <1>1 DEF Gate, Refuse
  <2> QED BY <2>1, OrderKeeps
<1>2. ASSUME NEW f \in Frame, Parse(f)
      PROVE  OrderInv'
  <2>1. /\ Judge(f) /\ f \in stream /\ parsed' = parsed \cup {f} /\ UNCHANGED <<stream, stage>>
        /\ stage = "parse"
    BY <1>2 DEF Parse
  <2>2. AllParsed'
    BY <2>1 DEF AllParsed
  <2> QED BY <2>1, <2>2, OrderJudges
<1>3. ASSUME NEW f \in Frame, Retry(f)
      PROVE  OrderInv'
  <2>1. /\ Judge(f) /\ parsed' = parsed /\ f \in todo /\ stage \in Phases
        /\ UNCHANGED <<stream, stage>>
    BY <1>3 DEF Retry, Drain, Range, Phases
  <2>2. f \in stream /\ parsed = stream
    BY <1>0, <2>1 DEF IngestInv, TodoWaits, Phases
  <2>3. parsed' = parsed \cup {f} /\ AllParsed'
    BY <2>1, <2>2 DEF AllParsed
  <2> QED BY <2>1, <2>2, <2>3, OrderJudges
<1>4. CASE Parsed
  <2>1. UNCHANGED <<stream, parsed, db, escrow>> /\ parsed = stream
    BY <1>4 DEF Parsed
  <2> QED BY <2>1, OrderKeeps
<1>5. CASE NextPhase
  <2>1. UNCHANGED <<stream, parsed, db, escrow>> /\ stage \in Phases
    BY <1>5, NextPhaseIs DEF NextPhase
  <2> QED BY <1>0, <2>1, OrderKeeps DEF Phases
<1>6. CASE Compare
  <2>1. UNCHANGED <<stream, parsed, db, escrow>> /\ stage = "compare"
    BY <1>6 DEF Compare
  <2> QED BY <1>0, <2>1, OrderKeeps
<1>7. CASE Audit
  <2>1. UNCHANGED <<stream, parsed, db, escrow>> /\ stage = "audit"
    BY <1>7 DEF Audit
  <2> QED BY <1>0, <2>1, OrderKeeps
<1>8. CASE Authorize
  <2>1. UNCHANGED <<stream, parsed, db, escrow>> /\ stage = "authorize"
    BY <1>8 DEF Authorize
  <2> QED BY <1>0, <2>1, OrderKeeps
<1>9. CASE Own
  <2>1. UNCHANGED <<stream, parsed, db, escrow>> /\ stage = "own"
    BY <1>9 DEF Own
  <2> QED BY <1>0, <2>1, OrderKeeps
<1>10. CASE Emit
  <2>1. parsed' = {} /\ db' = EmptyDb /\ stage' = "gate"
    BY <1>10 DEF Emit
  <2>2. stream' \subseteq Frame
    BY DEF HostInv
  <2> QED BY <2>1, <2>2, OrderBegins
<1>11. CASE Finish
  <2>1. UNCHANGED <<stream, parsed, db, escrow>> /\ stage = "emit"
    BY <1>11 DEF Finish
  <2> QED BY <1>0, <2>1, OrderKeeps
<1>12. CASE UNCHANGED vars
  <2>1. UNCHANGED <<stream, parsed, db, escrow>> /\ stage' = stage
    BY <1>12 DEF vars
  <2> QED BY <1>0, <2>1, OrderKeeps
<1> QED BY <1>1, <1>2, <1>3, <1>4, <1>5, <1>6, <1>7, <1>8, <1>9, <1>10, <1>11, <1>12 DEF Next

LEMMA OrderInductive == Spec => [](IngestInv /\ HostInv /\ OrderInv)
<1>1. Init => OrderInv
  BY HostInit, OrderInit
<1>2. (IngestInv /\ HostInv) /\ (IngestInv /\ HostInv)' /\ OrderInv /\ [Next]_vars => OrderInv'
  BY OrderNext
<1> QED BY <1>1, <1>2, HostInductive, PTL DEF Spec

(* The order of a submission does not decide what is accepted of it: when  *)
(* the drain is over the accepted frames are those its own frames justify, *)
(* unless two key events claim one place or two replies one topic and date.*)
THEOREM OrderCorrect == Spec => []OrderIsIrrelevant
<1>1. IngestInv /\ HostInv /\ OrderInv => OrderIsIrrelevant
  BY AcceptedIsSupported, KeriAssumption
<1> QED BY <1>1, OrderInductive, PTL

(* Every place of what is flattened is a place of one part.                *)
PlaceOf(n, ends, s) == \E i \in 1 .. Len(s) : \E k \in 1 .. Len(s[i]) : n = ends[i - 1] + k

LEMMA LayoutCovers ==
  ASSUME NEW X, NEW s \in Seq(Seq(X)), NEW t \in Seq(X), NEW ends, Layout(ends, s, t),
         NEW n \in 1 .. Len(t)
  PROVE  PlaceOf(n, ends, s)
<1>0. /\ Len(t) \in Nat /\ Len(s) \in Nat /\ ends \in [0 .. Len(s) -> Nat] /\ ends[0] = 0
      /\ ends[Len(s)] = Len(t)
  BY LenProperties DEF Layout
<1> DEFINE T == {i \in 0 .. Len(s) : n <= ends[i]}
<1>1. T \in SUBSET Nat /\ Len(s) \in T
  BY <1>0
<1>2. PICK i \in T : \A m \in T : i <= m
  BY <1>1, LeastElement
<1>3. i \in 0 .. Len(s) /\ i # 0 /\ n <= ends[i]
  BY <1>0, <1>2
<1>4. i \in 1 .. Len(s) /\ i - 1 \in 0 .. Len(s) /\ i - 1 < i
  BY <1>0, <1>3
<1>5. i - 1 \notin T
  BY <1>0, <1>2, <1>4
<1>6. ~(n <= ends[i - 1]) /\ ends[i - 1] \in Nat /\ ends[i] \in Nat
  BY <1>0, <1>4, <1>5
<1>7. ends[i] = ends[i - 1] + Len(s[i]) /\ Len(s[i]) \in Nat
  <2>1. s[i] \in Seq(X)
    BY <1>4
  <2> QED BY <1>4, <2>1, LenProperties DEF Layout
<1>8. PICK k : k = n - ends[i - 1]
  OBVIOUS
<1> HIDE DEF T
<1>9. k \in 1 .. Len(s[i]) /\ n = ends[i - 1] + k
  <2>1. PICK low \in Nat : low = ends[i - 1]
    BY <1>6
  <2>2. PICK len \in Nat : len = Len(s[i])
    BY <1>7
  <2>3. n \in Nat /\ n <= low + len /\ ~(n <= low) /\ k = n - low
    BY <1>0, <1>3, <1>6, <1>7, <1>8, <2>1, <2>2
  <2>4. k \in 1 .. len /\ n = low + k
    BY <2>3
  <2> QED BY <2>1, <2>2, <2>4
<1> QED BY <1>4, <1>9 DEF PlaceOf

(***************************************************************************)
(* The order in which key events are hosted.                               *)
(***************************************************************************)

(* Before a key event, h has the one before it in its log, and before the  *)
(* inception of a delegate the whole log of its delegator.                 *)
Preceded(h, d, n) ==
  \A a \in Aid : \A j \in DOMAIN d.fels[a] : h[n] = d.fels[a][j] =>
    /\ j > 1 => \E m \in 1 .. n - 1 : h[m] = d.fels[a][j - 1]
    /\ j = 1 /\ Event[h[n]].ilk = "dip" =>
         \A x \in Range(d.fels[Event[h[n]].di]) : \E m \in 1 .. n - 1 : h[m] = x

KelsInOrder(h, d) == \A n \in DOMAIN h : Preceded(h, d, n)

LEMMA LogsInOrder ==
  ASSUME KeriAssumption, IsSound(db), LedgerSound(db),
         NEW chain \in DelegationChains, chain \in Seq(Aid)
  PROVE  KelsInOrder(Logs(chain), db)
<1> DEFINE parts == [i \in DOMAIN chain |-> Log(db, chain[i])]
<1>1. parts \in Seq(Seq(Frame)) /\ Len(parts) = Len(chain)
  <2>1. \A a \in Aid : Log(db, a) \in Seq(Frame)
    BY DEF IsSound, Database, Log
  <2>2. \A i \in 1 .. Len(chain) : Log(db, chain[i]) \in Seq(Frame)
    BY <2>1
  <2> QED BY <2>2
<1>2. Logs(chain) = FlattenSeq(parts)
  BY DEF Logs
<1>3. \A i \in 1 .. Len(chain) : parts[i] = db.fels[chain[i]] /\ chain[i] \in Aid
  BY DEF Log
<1> HIDE DEF parts
<1>4. PICK t : t = Logs(chain)
  OBVIOUS
<1>5. t \in Seq(Frame) /\ \E ends : Layout(ends, parts, t)
  BY <1>1, <1>2, <1>4, FlattenLayout, RangeOfFlatten
<1>6. PICK ends : Layout(ends, parts, t)
  BY <1>5
<1>7. /\ Len(t) \in Nat /\ DOMAIN t = 1 .. Len(t) /\ Len(chain) \in Nat
      /\ ends \in [0 .. Len(chain) -> Nat]
      /\ \A i \in 1 .. Len(chain) :
           /\ ends[i] = ends[i - 1] + Len(parts[i])
           /\ \A k \in 1 .. Len(parts[i]) : t[ends[i - 1] + k] = parts[i][k]
  BY <1>1, <1>5, <1>6, LenProperties DEF Layout
<1>8. \A i \in 1 .. Len(chain) : Len(parts[i]) \in Nat /\ DOMAIN parts[i] = 1 .. Len(parts[i])
  <2>1. \A i \in 1 .. Len(chain) : parts[i] \in Seq(Frame)
    BY <1>1
  <2> QED BY <2>1, LenProperties
<1>9. ASSUME NEW n \in DOMAIN t, NEW a \in Aid, NEW j \in DOMAIN db.fels[a], t[n] = db.fels[a][j]
      PROVE  /\ j > 1 => \E m \in 1 .. n - 1 : t[m] = db.fels[a][j - 1]
             /\ j = 1 /\ Event[t[n]].ilk = "dip" =>
                  \A x \in Range(db.fels[Event[t[n]].di]) : \E m \in 1 .. n - 1 : t[m] = x
  <2>0. n \in 1 .. Len(t) /\ Len(parts) = Len(chain)
    BY <1>1, <1>7
  <2>1. PICK i \in 1 .. Len(chain) : \E k \in 1 .. Len(parts[i]) : n = ends[i - 1] + k
    <3>1. PICK s : s = parts
      OBVIOUS
    <3>2. s \in Seq(Seq(Frame))
      BY <1>1, <3>1
    <3>3. t \in Seq(Frame)
      BY <1>5
    <3>4. Layout(ends, s, t)
      BY <1>6, <3>1
    <3>5. n \in 1 .. Len(t)
      BY <2>0
    <3>6. PlaceOf(n, ends, s)
      BY <3>2, <3>3, <3>4, <3>5, LayoutCovers
    <3> QED BY <2>0, <3>1, <3>6 DEF PlaceOf
  <2>2. PICK k \in 1 .. Len(parts[i]) : n = ends[i - 1] + k
    BY <2>1
  <2>3. t[n] = parts[i][k] /\ parts[i] = db.fels[chain[i]] /\ chain[i] \in Aid
        /\ DOMAIN parts[i] = 1 .. Len(parts[i])
    BY <1>3, <1>7, <1>8, <2>2
  <2>4. k \in DOMAIN db.fels[chain[i]] /\ t[n] = db.fels[chain[i]][k]
    BY <2>2, <2>3
  <2>5. chain[i] = a
    <3>1. Event[db.fels[chain[i]][k]].principal = chain[i]
      BY <2>3, <2>4, OfTheLog
    <3>2. Event[db.fels[a][j]].principal = a
      BY OfTheLog
    <3> QED BY <1>9, <2>4, <3>1, <3>2
  <2>6. j = k
    <3>1. Legal(db.fels[a])
      BY DEF LedgerSound
    <3> QED BY <1>9, <2>4, <2>5, <3>1 DEF Legal
  <2>7. k \in Nat /\ k >= 1 /\ ends[i - 1] \in Nat /\ i - 1 \in 0 .. Len(chain) /\ Len(parts[i]) \in Nat
    <3>1. Len(parts[i]) \in Nat /\ i - 1 \in 0 .. Len(chain)
      BY <1>7, <1>8
    <3>2. k \in 1 .. Len(parts[i])
      OBVIOUS
    <3>3. k \in Nat /\ k >= 1
      BY <3>1, <3>2
    <3>4. ends[i - 1] \in Nat
      BY <1>7, <3>1
    <3> QED BY <3>1, <3>3, <3>4
  <2>8. ASSUME j > 1
        PROVE  \E m \in 1 .. n - 1 : t[m] = db.fels[a][j - 1]
    <3>1. PICK m : m = ends[i - 1] + (k - 1)
      OBVIOUS
    <3>2. m \in 1 .. n - 1 /\ k - 1 \in 1 .. Len(parts[i])
      <4>1. PICK low \in Nat : low = ends[i - 1]
        BY <2>7
      <4>2. PICK len \in Nat : len = Len(parts[i])
        BY <2>7
      <4>3. n = low + k /\ k \in 1 .. len /\ k > 1 /\ m = low + (k - 1) /\ k \in Nat
        BY <2>2, <2>6, <2>7, <2>8, <3>1, <4>1, <4>2
      <4>4. m \in 1 .. n - 1 /\ k - 1 \in 1 .. len
        BY <4>3
      <4> QED BY <4>2, <4>4
    <3>3. t[m] = parts[i][k - 1]
      BY <1>7, <3>1, <3>2
    <3> QED BY <2>3, <2>5, <2>6, <3>2, <3>3
  <2>9. ASSUME j = 1, Event[t[n]].ilk = "dip",
               NEW x \in Range(db.fels[Event[t[n]].di])
        PROVE  \E m \in 1 .. n - 1 : t[m] = x
    <3>1. db.fels[a] # <<>> /\ db.fels[a][1] = t[n]
      BY <1>9, <2>9
    <3>2. Knows(db, Event[t[n]].di) /\ Knows(db, a)
      BY <2>9, <3>1 DEF IsSound, Knows, Log
    <3>3. DelegatorOf(chain[i]) = {Event[t[n]].di}
      BY <2>5, <2>9, <3>1, <3>2 DEF DelegatorOf, Log
    <3>4. i # 1
      BY <3>3 DEF DelegationChains
    <3>5. PICK p : p = i - 1
      OBVIOUS
    <3>6. i \in 2 .. Len(chain) /\ p \in 1 .. Len(chain) /\ p - 1 \in 0 .. Len(chain)
      BY <1>7, <3>4, <3>5
    <3>7. chain[p] = Event[t[n]].di
      BY <3>3, <3>5, <3>6 DEF DelegationChains
    <3>8. parts[p] = db.fels[Event[t[n]].di] /\ DOMAIN parts[p] = 1 .. Len(parts[p])
          /\ Len(parts[p]) \in Nat
      BY <1>3, <1>8, <3>6, <3>7
    <3>9. PICK y \in 1 .. Len(parts[p]) : parts[p][y] = x
      BY <2>9, <3>8 DEF Range
    <3>10. /\ ends[p] = ends[p - 1] + Len(parts[p]) /\ ends[p - 1] \in Nat
           /\ t[ends[p - 1] + y] = parts[p][y]
      BY <1>7, <3>6, <3>9
    <3>11. PICK m : m = ends[p - 1] + y
      OBVIOUS
    <3>12. n = ends[p] + k
      BY <2>2, <3>5
    <3>13. m \in 1 .. n - 1
      <4>1. PICK e0, e1 : e0 = ends[p - 1] /\ e1 = ends[p]
        OBVIOUS
      <4>2. PICK len : len = Len(parts[p])
        OBVIOUS
      <4>3. e1 = e0 + len /\ m = e0 + y /\ n = e1 + k
        BY <3>10, <3>11, <3>12, <4>1, <4>2
      <4>4. e0 \in Nat /\ len \in Nat /\ y \in 1 .. len /\ k \in Nat /\ k >= 1
        BY <2>7, <3>8, <3>9, <3>10, <4>1, <4>2
      <4> QED BY <4>3, <4>4
    <3> QED BY <3>9, <3>10, <3>11, <3>13
  <2> QED BY <2>8, <2>9
<1>10. KelsInOrder(t, db)
  BY <1>9 DEF KelsInOrder, Preceded
<1> QED BY <1>4, <1>10

Glued(s, t) == s \o t

LEMMA ConcatOfFour ==
  ASSUME NEW X, NEW a \in Seq(X), NEW b \in Seq(X), NEW c \in Seq(X), NEW d \in Seq(X)
  PROVE  Glued(Glued(Glued(a, b), c), d) = Glued(a, Glued(Glued(b, c), d))
<1>1. \A t \in Seq(X), u \in Seq(X) : t \o u \in Seq(X)
  BY ConcatProperties
<1>2. (a \o b) \o c = a \o (b \o c)
  BY ConcatAssociative, SMTT(60)
<1>3. (a \o (b \o c)) \o d = a \o ((b \o c) \o d)
  <2>1. PICK bc \in Seq(X) : bc = b \o c
    BY <1>1
  <2>2. (a \o bc) \o d = a \o (bc \o d)
    BY ConcatAssociative, SMTT(60)
  <2> QED BY <2>1, <2>2
<1> QED BY <1>2, <1>3 DEF Glued

(* What follows the logs holds no key event.                               *)
LEMMA HostedInOrder ==
  ASSUME KeriAssumption, IngestAssumption, IngestInv, HostInv, OrderInv, stage = "emit",
         NEW chain \in DelegationChains, NEW rs \in Orders(Of("rpy")), NEW cs \in Orders(Of("acdc")),
         NEW vs \in Orders(Incepted)
  PROVE  Assemble(chain, rs, cs, vs) \in Seq(Frame) /\ KelsInOrder(Assemble(chain, rs, cs, vs), db)
<1>1. DatabaseSound /\ Unaccounted = {} /\ stream \subseteq Frame /\ IsFiniteSet(stream)
      /\ IsSound(db) /\ LedgerSound(db)
  BY DEF IngestInv, HostInv, OrderInv, Audits, Judged, DatabaseSound
<1>3. /\ Of("rpy") \subseteq stream /\ Of("acdc") \subseteq stream /\ Incepted \subseteq stream
      /\ IsFiniteSet(Of("rpy")) /\ IsFiniteSet(Of("acdc")) /\ IsFiniteSet(Incepted)
  <2>1. Of("rpy") \subseteq stream /\ Of("acdc") \subseteq stream /\ Incepted \subseteq stream
    BY DEF Of, Incepted
  <2> QED BY <1>1, <2>1, FS_Subset
<1>4. rs \in Seq(Frame) /\ Range(rs) = Of("rpy")
  <2>1. rs \in Seq(Of("rpy")) /\ Range(rs) = Of("rpy")
    BY <1>3, RangeOfOrder DEF Orders
  <2> QED BY <1>1, <1>3, <2>1, SeqMonotonic
<1>5. cs \in Seq(Frame) /\ Range(cs) = Of("acdc")
  <2>1. cs \in Seq(Of("acdc")) /\ Range(cs) = Of("acdc")
    BY <1>3, RangeOfOrder DEF Orders
  <2> QED BY <1>1, <1>3, <2>1, SeqMonotonic
<1>6. vs \in Seq(Frame)
  <2>1. vs \in Seq(Incepted)
    BY <1>3, RangeOfOrder DEF Orders
  <2> QED BY <1>1, <1>3, <2>1, SeqMonotonic
<1>7. chain \in Seq(Aid)
  BY <1>1, ChainHolds
<1>8. PICK kels : kels = Logs(chain)
  OBVIOUS
<1>9. PICK tels : tels = TelsOf(RegistriesOf(cs, vs))
  OBVIOUS
<1>10. PICK creds : creds = CredentialsOf(cs)
  OBVIOUS
<1>11. Assemble(chain, rs, cs, vs) = kels \o rs \o tels \o creds
  BY <1>8, <1>9, <1>10 DEF Assemble
<1>12. kels \in Seq(Frame)
  BY <1>1, <1>7, <1>8, LogsHold
<1>13. tels \in Seq(Frame) /\ Range(tels) \subseteq db.tels
  <2>1. PICK X : RegistriesOf(cs, vs) \in Seq(X)
    BY <1>5, <1>6, RegistriesHold
  <2> QED BY <1>1, <1>9, <2>1, TelsOfHold
<1>14. creds \in Seq(Frame) /\ Range(creds) \subseteq db.tels \cup Of("acdc")
  BY <1>1, <1>5, <1>10, CredentialsOfHold
<1>15. PICK rest : rest = (rs \o tels) \o creds
  OBVIOUS
<1>16. rest \in Seq(Frame) /\ Range(rest) = Range(rs) \cup Range(tels) \cup Range(creds)
  BY <1>4, <1>13, <1>14, <1>15, RangeOfConcats
<1>17. kels \o rs \o tels \o creds = kels \o rest
  <2>1. rs \in Seq(Frame) /\ tels \in Seq(Frame) /\ creds \in Seq(Frame)
    BY <1>4, <1>13, <1>14
  <2> HIDE DEF Frame
  <2>2. Glued(Glued(Glued(kels, rs), tels), creds) = Glued(kels, Glued(Glued(rs, tels), creds))
    BY <1>12, <2>1, ConcatOfFour
  <2> QED BY <1>15, <2>2 DEF Glued
<1>18. \A x \in Range(rest) : Event[x].class # "kel"
  BY <1>1, <1>4, <1>13, <1>14, <1>16 DEF IsSound, Of
<1>19. KelsInOrder(kels, db)
  BY <1>1, <1>7, <1>8, LogsInOrder
<1>20. PICK h : h = kels \o rest
  OBVIOUS
<1>21. /\ Len(kels) \in Nat /\ Len(rest) \in Nat
       /\ DOMAIN kels = 1 .. Len(kels) /\ DOMAIN rest = 1 .. Len(rest)
       /\ h \in Seq(Frame) /\ Len(h) = Len(kels) + Len(rest) /\ DOMAIN h = 1 .. Len(kels) + Len(rest)
       /\ \A n \in 1 .. Len(kels) + Len(rest) :
            h[n] = IF n <= Len(kels) THEN kels[n] ELSE rest[n - Len(kels)]
  <2>1. Len(kels) \in Nat /\ Len(rest) \in Nat /\ DOMAIN kels = 1 .. Len(kels)
        /\ DOMAIN rest = 1 .. Len(rest)
    BY <1>12, <1>16, LenProperties
  <2>2. /\ h \in Seq(Frame) /\ Len(h) = Len(kels) + Len(rest)
        /\ \A n \in 1 .. Len(kels) + Len(rest) :
             h[n] = IF n <= Len(kels) THEN kels[n] ELSE rest[n - Len(kels)]
    BY <1>12, <1>16, <1>20, ConcatProperties
  <2>3. DOMAIN h = 1 .. Len(h)
    BY <2>2, LenProperties
  <2> QED BY <2>1, <2>2, <2>3
<1>22. ASSUME NEW n \in DOMAIN h
       PROVE  Preceded(h, db, n)
  <2>1. CASE n <= Len(kels)
    <3>1. n \in DOMAIN kels /\ h[n] = kels[n] /\ \A m \in 1 .. n - 1 : h[m] = kels[m]
      BY <1>21, <2>1
    <3>2. Preceded(kels, db, n)
      BY <1>19, <3>1 DEF KelsInOrder
    <3> QED BY <3>1, <3>2 DEF Preceded
  <2>2. CASE n > Len(kels)
    <3>1. n - Len(kels) \in DOMAIN rest /\ h[n] = rest[n - Len(kels)]
      BY <1>21, <2>2
    <3>2. Event[h[n]].class # "kel"
      BY <1>18, <3>1 DEF Range
    <3>3. \A a \in Aid : \A j \in DOMAIN db.fels[a] : Event[db.fels[a][j]].class = "kel"
      BY <1>1 DEF IsSound, IsLogOf
    <3> QED BY <3>2, <3>3 DEF Preceded
  <2> QED BY <1>21, <2>1, <2>2
<1> QED BY <1>11, <1>17, <1>20, <1>21, <1>22 DEF KelsInOrder

(***************************************************************************)
(* The second ingestion.                                                   *)
(***************************************************************************)

(* The pipeline's questions, asked of the first ingestion's database.      *)
Then == INSTANCE Ingest WITH db <- first.db

(* What the pipeline has passed on the way to its stage.                   *)
AnswersStand ==
  /\ stage \notin {"gate", "refused"} => GateFault = "none"
  /\ stage \in Judged => AuditFault = "none"
  /\ stage \in {"own", "emit", "done"} => AuthorizeFault = "none" /\ designations = Standing
  /\ stage = "emit" => \A f \in stream : Owned(f)
  /\ stage = "done" => round = 2

(* The first ingestion: it had all that was hosted, which is written in the *)
(* order of its logs, and passed.                                          *)
FirstStands ==
  round = 2 =>
    /\ IsSound(first.db) /\ LedgerSound(first.db) /\ \A f \in stream : Has(first.db, f)
    /\ hosted \in Seq(Frame) /\ Range(hosted) = stream /\ KelsInOrder(hosted, first.db)
    /\ GateFault = "none" /\ Then!AuditFault = "none" /\ Then!AuthorizeFault = "none"
    /\ first.designations = Then!Standing /\ \A f \in stream : Then!Owned(f)

LEMMA SameGate ==
  ASSUME stream' = stream
  PROVE  GateFault' = GateFault /\ Estate' = Estate /\ Of("kel")' = Of("kel")
<1>1. \A c : Of(c)' = Of(c)
  BY DEF Of
<1>2. Delegators' = Delegators /\ Incepted' = Incepted
  BY DEF Delegators, Incepted, Of
<1>3. Estate' = Estate
  BY <1>2 DEF Estate
<1>4. \A f : ThirdParty(f)' <=> ThirdParty(f)
  BY <1>2, <1>3 DEF ThirdParty, Of
<1>5. GateFault' = GateFault
  BY <1>2, <1>4 DEF GateFault, Of
<1> QED BY <1>1, <1>3, <1>5

LEMMA SameQuestions ==
  ASSUME UNCHANGED <<stream, db>>
  PROVE  /\ GateFault' = GateFault /\ AuditFault' = AuditFault
         /\ AuthorizeFault' = AuthorizeFault /\ Standing' = Standing
         /\ \A f : Owned(f)' <=> Owned(f)
<1>3. Estate' = Estate
  BY SameGate
<1>5. GateFault' = GateFault
  BY SameGate
<1>6. \A f : (Accepted(f)' <=> Accepted(f)) /\ (Occupied(f)' <=> Occupied(f))
  BY DEF Accepted, Occupied
<1>7. Duplicitous' = Duplicitous /\ Unaccounted' = Unaccounted
  BY <1>6 DEF Duplicitous, Unaccounted, Of
<1>8. (Regressed' <=> Regressed) /\ Omitted' = Omitted
  BY DEF Regressed, Omitted, Of
<1>9. AuditFault' = AuditFault
  BY <1>7, <1>8 DEF AuditFault
<1>10. /\ \A r : AnchoredIn(r)' <=> AnchoredIn(r)
       /\ \A c : Revoked(c)' <=> Revoked(c)
  BY DEF AnchoredIn, Revoked
<1>11. Candidates' = Candidates
  BY DEF Candidates, Of
<1>12. Granted' = Granted
  BY <1>10, <1>11 DEF Granted
<1>13. Standing' = Standing
  BY <1>10, <1>12 DEF Standing
<1>14. AuthorizeFault' = AuthorizeFault
  BY <1>11, <1>12, <1>13 DEF AuthorizeFault
<1>15. Providers' = Providers
  BY <1>3 DEF Providers
<1>16. \A f : Owned(f)' <=> Owned(f)
  BY <1>3, <1>15 DEF Owned
<1> QED BY <1>5, <1>9, <1>13, <1>14, <1>16

(* What keripy answers of a database is no matter of when it is asked.      *)
LEMMA KeriThen ==
  /\ \A d, a : Then!Log(d, a) = Log(d, a) /\ (Then!Knows(d, a) <=> Knows(d, a))
  /\ \A d, e : Then!Seen(d, e) <=> Seen(d, e)
  /\ \A log, n : Then!Placed(log, n) = Placed(log, n) /\ Then!Winner(log, n) = Winner(log, n)
  /\ \A log : /\ Then!HeadSn(log) = HeadSn(log)
              /\ Then!LastEstablishment(log) = LastEstablishment(log)
  /\ \A r : Then!Inception(r) = Inception(r) /\ Then!IssuerOf(r) = IssuerOf(r)
  /\ \A d, r : Then!HasRegistry(d, r) <=> HasRegistry(d, r)
  /\ \A f : Then!Range(f) = Range(f)
<1>0. \A f : Then!Range(f) = Range(f)
  BY DEF Range, Then!Range
<1>1. \A d, a : Then!Log(d, a) = Log(d, a)
  BY DEF Log, Then!Log
<1>2. \A d, a : Then!Knows(d, a) <=> Knows(d, a)
  BY <1>1 DEF Knows, Then!Knows
<1>3. \A d, e : Then!Seen(d, e) <=> Seen(d, e)
  BY <1>0, <1>1 DEF Seen, Then!Seen
<1>4. \A log, n : Then!Placed(log, n) = Placed(log, n)
  BY DEF Placed, Then!Placed
<1>5. \A log, n : Then!Winner(log, n) = Winner(log, n)
  BY <1>4 DEF Winner, Then!Winner
<1>6. \A log : Then!HeadSn(log) = HeadSn(log)
  BY DEF HeadSn, Then!HeadSn
<1>7. \A log : Then!LastEstablishment(log) = LastEstablishment(log)
  BY DEF LastEstablishment, Then!LastEstablishment
<1>8. \A r : Then!Inception(r) = Inception(r)
  BY DEF Inception, Then!Inception, Frame, Then!Frame
<1>9. \A r : Then!IssuerOf(r) = IssuerOf(r)
  BY <1>8 DEF IssuerOf, Then!IssuerOf
<1>10. \A d, r : Then!HasRegistry(d, r) <=> HasRegistry(d, r)
  BY <1>8 DEF HasRegistry, Then!HasRegistry
<1> QED BY <1>0, <1>1, <1>2, <1>3, <1>4, <1>5, <1>6, <1>7, <1>8, <1>9, <1>10

(* Of the database it was, the questions have the answers they had.        *)
LEMMA ThenAsNow ==
  ASSUME db = first.db, stream \subseteq Frame
  PROVE  /\ Then!AuditFault = AuditFault /\ Then!AuthorizeFault = AuthorizeFault
         /\ Then!Standing = Standing /\ \A f : (Then!Owned(f) <=> Owned(f))
<1>1. \A c : Then!Of(c) = Of(c)
  BY DEF Of, Then!Of
<1>2. Then!Delegators = Delegators /\ Then!Incepted = Incepted
  BY DEF Delegators, Then!Delegators, Incepted, Then!Incepted, Of, Then!Of
<1>3. Then!Estate = Estate
  BY <1>2 DEF Estate, Then!Estate
<1>4. \A f \in stream : (Then!Accepted(f) <=> Accepted(f)) /\ (Then!Occupied(f) <=> Occupied(f))
  <2>1. ASSUME NEW f \in stream PROVE Then!Accepted(f) <=> Accepted(f)
    <3>1. Event[f].class \in {"kel", "tel", "acdc", "rpy"}
      BY KeriAssumption DEF KeriAssumption
    <3>2. CASE Event[f].class = "kel"
      BY <3>2, KeriThen DEF Accepted, Then!Accepted
    <3>3. CASE Event[f].class = "tel"
      BY <3>3 DEF Accepted, Then!Accepted
    <3>4. CASE Event[f].class = "acdc"
      BY <3>4 DEF Accepted, Then!Accepted
    <3>5. CASE Event[f].class = "rpy"
      BY <3>5 DEF Accepted, Then!Accepted
    <3> QED BY <3>1, <3>2, <3>3, <3>4, <3>5
  <2>2. \A f : Then!Occupied(f) <=> Occupied(f)
    BY KeriThen DEF Occupied, Then!Occupied
  <2> QED BY <2>1, <2>2
<1>5. Then!Duplicitous = Duplicitous /\ Then!Unaccounted = Unaccounted
  BY <1>4 DEF Duplicitous, Then!Duplicitous, Unaccounted, Then!Unaccounted, Of, Then!Of
<1>6. (Then!Regressed <=> Regressed) /\ Then!Omitted = Omitted
  BY KeriThen DEF Regressed, Then!Regressed, Omitted, Then!Omitted, Of, Then!Of
<1>7. Then!AuditFault = AuditFault
  BY <1>5, <1>6 DEF AuditFault, Then!AuditFault
<1>8. \A r : (Then!AnchoredIn(r) <=> AnchoredIn(r)) /\ (Then!Revoked(r) <=> Revoked(r))
  BY KeriThen DEF AnchoredIn, Then!AnchoredIn, Revoked, Then!Revoked
<1>9. Then!Candidates = Candidates
  BY DEF Candidates, Then!Candidates, Of, Then!Of
<1>10. Then!Granted = Granted
  BY <1>8, <1>9 DEF Granted, Then!Granted
<1>11. Then!Standing = Standing
  BY <1>8, <1>10 DEF Standing, Then!Standing
<1>12. Then!AuthorizeFault = AuthorizeFault
  BY <1>9, <1>10, <1>11 DEF AuthorizeFault, Then!AuthorizeFault
<1>13. Then!Providers = Providers
  BY <1>3, KeriThen DEF Providers, Then!Providers
<1>14. \A f : (Then!Owned(f) <=> Owned(f))
  BY <1>3, <1>13, KeriThen DEF Owned, Then!Owned
<1> QED BY <1>7, <1>11, <1>12, <1>14

(* And they keep them, whatever database is asked next.                    *)
LEMMA SameThen ==
  ASSUME UNCHANGED <<stream, first>>
  PROVE  /\ Then!AuditFault' = Then!AuditFault /\ Then!AuthorizeFault' = Then!AuthorizeFault
         /\ Then!Standing' = Then!Standing /\ \A f : (Then!Owned(f)' <=> Then!Owned(f))
<1>1. \A c : Then!Of(c)' = Then!Of(c)
  BY DEF Then!Of
<1>2. Then!Delegators' = Then!Delegators /\ Then!Incepted' = Then!Incepted
  BY DEF Then!Delegators, Then!Incepted, Then!Of
<1>3. Then!Estate' = Then!Estate
  BY <1>2 DEF Then!Estate
<1>4. \A f : (Then!Accepted(f)' <=> Then!Accepted(f)) /\ (Then!Occupied(f)' <=> Then!Occupied(f))
  BY DEF Then!Accepted, Then!Occupied
<1>5. Then!Duplicitous' = Then!Duplicitous /\ Then!Unaccounted' = Then!Unaccounted
  BY <1>4 DEF Then!Duplicitous, Then!Unaccounted, Then!Of
<1>6. (Then!Regressed' <=> Then!Regressed) /\ Then!Omitted' = Then!Omitted
  BY DEF Then!Regressed, Then!Omitted, Then!Of
<1>7. Then!AuditFault' = Then!AuditFault
  BY <1>5, <1>6 DEF Then!AuditFault
<1>8. \A r : (Then!AnchoredIn(r)' <=> Then!AnchoredIn(r)) /\ (Then!Revoked(r)' <=> Then!Revoked(r))
  BY DEF Then!AnchoredIn, Then!Revoked
<1>9. Then!Candidates' = Then!Candidates
  BY DEF Then!Candidates, Then!Of
<1>10. Then!Granted' = Then!Granted
  BY <1>8, <1>9 DEF Then!Granted
<1>11. Then!Standing' = Then!Standing
  BY <1>8, <1>10 DEF Then!Standing
<1>12. Then!AuthorizeFault' = Then!AuthorizeFault
  BY <1>9, <1>10, <1>11 DEF Then!AuthorizeFault
<1>13. Then!Providers' = Then!Providers
  BY <1>3 DEF Then!Providers
<1>14. \A f : (Then!Owned(f)' <=> Then!Owned(f))
  BY <1>3, <1>13 DEF Then!Owned
<1> QED BY <1>7, <1>11, <1>12, <1>14

(* What is emitted keeps the answers of the database it is emitted from.   *)
LEMMA NowIsThen ==
  ASSUME stream' = stream, first'.db = db, stream \subseteq Frame
  PROVE  /\ Then!AuditFault' = AuditFault /\ Then!AuthorizeFault' = AuthorizeFault
         /\ Then!Standing' = Standing /\ \A f : (Then!Owned(f)' <=> Owned(f))
<1>1. \A c : Then!Of(c)' = Of(c)
  BY DEF Of, Then!Of
<1>2. Then!Delegators' = Delegators /\ Then!Incepted' = Incepted
  BY DEF Delegators, Then!Delegators, Incepted, Then!Incepted, Of, Then!Of
<1>3. Then!Estate' = Estate
  BY <1>2 DEF Estate, Then!Estate
<1>4. \A f \in stream : (Then!Accepted(f)' <=> Accepted(f)) /\ (Then!Occupied(f)' <=> Occupied(f))
  <2>1. ASSUME NEW f \in stream PROVE Then!Accepted(f)' <=> Accepted(f)
    <3>1. Event[f].class \in {"kel", "tel", "acdc", "rpy"}
      BY KeriAssumption DEF KeriAssumption
    <3>2. CASE Event[f].class = "kel"
      BY <3>2, KeriThen DEF Accepted, Then!Accepted
    <3>3. CASE Event[f].class = "tel"
      BY <3>3 DEF Accepted, Then!Accepted
    <3>4. CASE Event[f].class = "acdc"
      BY <3>4 DEF Accepted, Then!Accepted
    <3>5. CASE Event[f].class = "rpy"
      BY <3>5 DEF Accepted, Then!Accepted
    <3> QED BY <3>1, <3>2, <3>3, <3>4, <3>5
  <2>2. \A f : Then!Occupied(f)' <=> Occupied(f)
    BY KeriThen DEF Occupied, Then!Occupied
  <2> QED BY <2>1, <2>2
<1>5. Then!Duplicitous' = Duplicitous /\ Then!Unaccounted' = Unaccounted
  BY <1>4 DEF Duplicitous, Then!Duplicitous, Unaccounted, Then!Unaccounted, Of, Then!Of
<1>6. (Then!Regressed' <=> Regressed) /\ Then!Omitted' = Omitted
  BY KeriThen DEF Regressed, Then!Regressed, Omitted, Then!Omitted, Of, Then!Of
<1>7. Then!AuditFault' = AuditFault
  BY <1>5, <1>6 DEF AuditFault, Then!AuditFault
<1>8. \A r : (Then!AnchoredIn(r)' <=> AnchoredIn(r)) /\ (Then!Revoked(r)' <=> Revoked(r))
  BY KeriThen DEF AnchoredIn, Then!AnchoredIn, Revoked, Then!Revoked
<1>9. Then!Candidates' = Candidates
  BY DEF Candidates, Then!Candidates, Of, Then!Of
<1>10. Then!Granted' = Granted
  BY <1>8, <1>9 DEF Granted, Then!Granted
<1>11. Then!Standing' = Standing
  BY <1>8, <1>10 DEF Standing, Then!Standing
<1>12. Then!AuthorizeFault' = AuthorizeFault
  BY <1>9, <1>10, <1>11 DEF AuthorizeFault, Then!AuthorizeFault
<1>13. Then!Providers' = Providers
  BY <1>3, KeriThen DEF Providers, Then!Providers
<1>14. \A f : (Then!Owned(f)' <=> Owned(f))
  BY <1>3, <1>13, KeriThen DEF Owned, Then!Owned
<1> QED BY <1>7, <1>11, <1>12, <1>14

LEMMA PrefixAppend ==
  ASSUME NEW X, NEW s \in Seq(X), NEW t \in Seq(X), IsPrefixOf(s, t), Len(s) < Len(t)
  PROVE  IsPrefixOf(Append(s, t[Len(s) + 1]), t)
<1>1. PICK N \in Nat : N = Len(s) /\ Len(t) \in Nat
  BY LenProperties
<1>2. PICK e : e = t[N + 1]
  OBVIOUS
<1>3. e \in X /\ N + 1 \in 1 .. Len(t)
  BY <1>1, <1>2
<1>4. PICK new : new = Append(s, e)
  OBVIOUS
<1>5. Len(new) = N + 1 /\ new[N + 1] = e /\ \A i \in 1 .. N : new[i] = s[i]
  BY <1>1, <1>3, <1>4, AppendProperties
<1>6. \A i \in 1 .. N + 1 : t[i] = new[i]
  BY <1>1, <1>2, <1>5 DEF IsPrefixOf
<1>7. IsPrefixOf(new, t)
  BY <1>1, <1>3, <1>5, <1>6 DEF IsPrefixOf
<1> QED BY <1>1, <1>2, <1>4, <1>7

(* The logs of d are what those of o began with, and have of them all that *)
(* is in S.                                                                *)
Tracks(d, o, S) ==
  \A a \in Aid :
    /\ IsPrefixOf(d.fels[a], o.fels[a]) /\ Range(d.fels[a]) \subseteq S
    /\ \A x \in Range(o.fels[a]) : x \in S => x \in Range(d.fels[a])

LEMMA TracksTo ==
  ASSUME KeriAssumption, NEW d, IsSound(d), NEW o, IsSound(o), LedgerSound(o),
         NEW S, Tracks(d, o, S), NEW a \in Aid, NEW j \in DOMAIN o.fels[a], o.fels[a][j] \notin S,
         j > 1 => o.fels[a][j - 1] \in S
  PROVE  /\ Len(d.fels[a]) = j - 1 /\ d.fels[a] = SubSeq(o.fels[a], 1, j - 1)
         /\ d.fels[a] \in Seq(Frame) /\ o.fels[a] \in Seq(Frame)
         /\ IsPrefixOf(Append(d.fels[a], o.fels[a][j]), o.fels[a])
<1>1. PICK s \in Seq(Frame) : s = d.fels[a]
  BY DEF IsSound, Database
<1>2. PICK t \in Seq(Frame) : t = o.fels[a]
  BY DEF IsSound, Database
<1>3. Len(s) \in Nat /\ DOMAIN s = 1 .. Len(s) /\ Len(t) \in Nat /\ DOMAIN t = 1 .. Len(t)
  BY LenProperties
<1>4. j \in 1 .. Len(t)
  BY <1>2, <1>3
<1>5. IsPrefixOf(s, t) /\ Range(s) \subseteq S /\ \A x \in Range(t) : x \in S => x \in Range(s)
  BY <1>1, <1>2 DEF Tracks
<1>6. Len(s) <= Len(t) /\ \A i \in 1 .. Len(s) : t[i] = s[i]
  BY <1>5 DEF IsPrefixOf
<1>7. \A i, k \in DOMAIN t : t[i] = t[k] => i = k
  BY <1>2 DEF LedgerSound, Legal
<1>8. t[j] \notin S /\ (j > 1 => t[j - 1] \in S)
  BY <1>2
<1>9. ~(Len(s) >= j)
  <2> SUFFICES ASSUME Len(s) >= j
               PROVE  FALSE
    OBVIOUS
  <2>1. j \in DOMAIN s /\ s[j] = t[j]
    BY <1>3, <1>4, <1>6
  <2>2. s[j] \in Range(s)
    BY <2>1 DEF Range
  <2> QED BY <1>5, <1>8, <2>1, <2>2
<1>10. Len(s) >= j - 1
  <2>1. CASE j = 1
    BY <1>3, <2>1
  <2>2. CASE j > 1
    <3>1. j - 1 \in DOMAIN t
      BY <1>3, <1>4, <2>2
    <3>2. t[j - 1] \in Range(t)
      BY <3>1 DEF Range
    <3>3. t[j - 1] \in Range(s)
      BY <1>5, <1>8, <2>2, <3>2
    <3>4. PICK i \in DOMAIN s : s[i] = t[j - 1]
      BY <3>3 DEF Range
    <3>5. i \in DOMAIN t /\ t[i] = t[j - 1]
      BY <1>3, <1>6, <3>4
    <3>6. i = j - 1
      BY <1>7, <3>1, <3>5
    <3> QED BY <1>3, <3>4, <3>6
  <2> QED BY <1>4, <2>1, <2>2
<1>11. Len(s) = j - 1
  BY <1>3, <1>4, <1>9, <1>10
<1>12. s = SubSeq(t, 1, j - 1)
  <2>1. j - 1 \in 0 .. Len(t) /\ \A i \in 1 .. j - 1 : i \in 1 .. Len(t)
    BY <1>3, <1>4
  <2>2. PICK u : u = SubSeq(t, 1, j - 1)
    OBVIOUS
  <2>3. u \in Seq(Frame) /\ Len(u) = j - 1 /\ \A i \in 1 .. j - 1 : u[i] = t[i]
    BY <1>3, <2>1, <2>2, SubSeqProperties
  <2>4. \A i \in 1 .. Len(s) : s[i] = u[i]
    BY <1>6, <1>11, <2>3
  <2>5. s = u
    BY <1>11, <2>3, <2>4, SeqEqual
  <2> QED BY <2>2, <2>5
<1>13. IsPrefixOf(Append(s, t[j]), t)
  <2>1. Len(s) < Len(t) /\ Len(s) + 1 = j
    BY <1>3, <1>4, <1>11
  <2>2. IsPrefixOf(Append(s, t[Len(s) + 1]), t)
    BY <1>5, <2>1, PrefixAppend
  <2> QED BY <2>1, <2>2
<1> QED BY <1>1, <1>2, <1>11, <1>12, <1>13

(* A key event that is read with what it rests on behind it is accepted,   *)
(* as it was before.                                                       *)
LEMMA KelIsNext ==
  ASSUME KeriAssumption, NEW d, IsSound(d), NEW o, IsSound(o), LedgerSound(o),
         NEW S, Tracks(d, o, S), NEW h \in Seq(Frame), NEW n \in DOMAIN h, Preceded(h, o, n),
         \A m \in 1 .. n - 1 : h[m] \in S, NEW f, f = h[n], f \in Frame, f \notin S,
         Event[f].class = "kel", Seen(o, f)
  PROVE  /\ Event[f].principal \in Aid /\ ~Seen(d, f) /\ Verdict(d, f) = "accept"
         /\ IsPrefixOf(Append(d.fels[Event[f].principal], f), o.fels[Event[f].principal])
<1>1. PICK a \in Aid : a = Event[f].principal
  BY DEF Seen
<1>2. PICK j \in DOMAIN o.fels[a] : o.fels[a][j] = f
  BY <1>1 DEF Seen, Log, Range
<1>3. /\ j > 1 => \E m \in 1 .. n - 1 : h[m] = o.fels[a][j - 1]
      /\ j = 1 /\ Event[f].ilk = "dip" =>
           \A x \in Range(o.fels[Event[f].di]) : \E m \in 1 .. n - 1 : h[m] = x
  <2>1. h[n] = o.fels[a][j] /\ h[n] = f
    BY <1>2
  <2> QED BY <2>1 DEF Preceded
<1>4. o.fels[a][j] \notin S /\ (j > 1 => o.fels[a][j - 1] \in S)
  BY <1>2, <1>3
<1>5. /\ Len(d.fels[a]) = j - 1 /\ d.fels[a] = SubSeq(o.fels[a], 1, j - 1)
      /\ d.fels[a] \in Seq(Frame) /\ o.fels[a] \in Seq(Frame)
      /\ IsPrefixOf(Append(d.fels[a], o.fels[a][j]), o.fels[a])
  BY <1>4, TracksTo
<1>6. ~Seen(d, f)
  BY <1>1 DEF Seen, Log, Tracks
<1>7. Event[f].genuine
  BY <1>2 DEF LedgerSound, Legal
<1>8. (Event[f].sn = 0 <=> j = 1) /\ IsLogOf(d.fels[a], a)
  <2>1. IsLogOf(d.fels[a], a) /\ IsLogOf(o.fels[a], a)
    BY DEF IsSound
  <2>2. Event[o.fels[a][j]].sn = 0 <=> j = 1
    BY <2>1 DEF IsLogOf
  <2> QED BY <1>2, <2>1, <2>2
<1>9. j \in Nat /\ j >= 1 /\ j <= Len(o.fels[a]) /\ Len(o.fels[a]) \in Nat
  BY <1>5, LenProperties
<1>10. Log(d, a) = d.fels[a] /\ (d.fels[a] = <<>> <=> j = 1)
  <2>1. d.fels[a] = <<>> => Len(d.fels[a]) = 0
    OBVIOUS
  <2>2. Len(d.fels[a]) = 0 => d.fels[a] = <<>>
    BY <1>5, EmptySeq
  <2>3. Log(d, a) = d.fels[a]
    BY DEF Log
  <2>4. Len(d.fels[a]) = 0 <=> j = 1
    BY <1>5, <1>9
  <2> QED BY <2>1, <2>2, <2>3, <2>4
<1>11. Event[f].sn \in Nat
  BY DEF KeriAssumption
<1>12. CASE j = 1
  <2>1. Event[f].ilk = "dip" => Sealed(d, f)
    <3> SUFFICES ASSUME Event[f].ilk = "dip"
                 PROVE  Sealed(d, f)
      OBVIOUS
    <3> DEFINE by == Event[f].di
    <3>1. Sealed(o, f)
      <4>1. o.fels[a] # <<>> /\ o.fels[a][1] = f
        BY <1>2, <1>9, <1>12
      <4> QED BY <4>1 DEF LedgerSound
    <3>2. by \in Aid /\ \E i \in DOMAIN o.fels[by] : Event[o.fels[by][i]].seal.said = f
      BY <3>1 DEF Sealed, Knows, Log
    <3> HIDE DEF by
    <3>3. PICK i \in DOMAIN o.fels[by] : Event[o.fels[by][i]].seal.said = f
      BY <3>2
    <3>4. o.fels[by][i] \in Range(o.fels[by])
      BY DEF Range
    <3>5. o.fels[by][i] \in S
      BY <1>3, <1>12, <3>4 DEF by
    <3>6. o.fels[by][i] \in Range(d.fels[by])
      BY <3>2, <3>4, <3>5 DEF Tracks
    <3>7. PICK k \in DOMAIN d.fels[by] : d.fels[by][k] = o.fels[by][i]
      BY <3>6 DEF Range
    <3>8. d.fels[by] # <<>>
      BY <3>7
    <3>9. Knows(d, by) /\ Event[Log(d, by)[k]].seal.said = f
      BY <3>2, <3>3, <3>7, <3>8 DEF Knows, Log
    <3>10. k \in DOMAIN Log(d, by)
      BY <3>7 DEF Log
    <3> QED BY <3>9, <3>10 DEF Sealed, by
  <2>2. KelVerdict(d, f) = "accept"
    BY <1>1, <1>6, <1>7, <1>8, <1>10, <1>12, <2>1 DEF KelVerdict
  <2> QED BY <1>1, <1>2, <1>5, <1>6, <2>2 DEF Verdict
<1>13. CASE j # 1
  <2>1. FollowsOn(d.fels[a], f)
    <3>1. j - 1 \in 1 .. Len(o.fels[a]) - 1 /\ (j - 1) + 1 = j
      BY <1>9, <1>13
    <3>2. Legal(o.fels[a])
      BY DEF LedgerSound
    <3>3. FollowsOn(SubSeq(o.fels[a], 1, j - 1), o.fels[a][(j - 1) + 1])
      BY <3>1, <3>2 DEF Legal
    <3> QED BY <1>2, <1>5, <3>1, <3>3
  <2>2. HeadSn(d.fels[a]) \in Nat
    BY <1>8, <1>10, <1>13, HeadIsNat
  <2>3. ~(Event[f].sn > HeadSn(d.fels[a]) + 1)
    BY <1>11, <2>1, <2>2 DEF FollowsOn, Recovers
  <2>4. KelVerdict(d, f) = "accept"
    BY <1>1, <1>6, <1>7, <1>10, <1>13, <2>1, <2>3 DEF KelVerdict, FollowsOn
  <2> QED BY <1>1, <1>2, <1>5, <1>6, <2>4 DEF Verdict
<1> QED BY <1>12, <1>13

(* The reader has taken what was hosted from its beginning, and of the     *)
(* logs it takes, nothing has had to wait.                                 *)
Follows ==
  round = 2 =>
    /\ parsed = {hosted[i] : i \in 1 .. Cardinality(parsed)}
    /\ escrow["ooes"] = {} /\ escrow["pdes"] = {}
    /\ Tracks(db, first.db, parsed)

LEMMA FollowsKeeps ==
  ASSUME Follows, UNCHANGED <<round, parsed, db, escrow, hosted, first>>
  PROVE  Follows'
BY DEF Follows, Tracks

LEMMA EventsOfLog ==
  ASSUME KeriAssumption, NEW d, IsSound(d), NEW a \in Aid, NEW x \in Range(d.fels[a])
  PROVE  Event[x].class = "kel" /\ Event[x].principal = a
<1>1. PICK i \in DOMAIN d.fels[a] : d.fels[a][i] = x
  BY DEF Range
<1> QED BY <1>1 DEF IsSound, IsLogOf

(* What is judged and is no key event moves no log.                        *)
LEMMA LogsStand ==
  ASSUME KeriAssumption, IngestInv, NEW f \in Frame, Judge(f), Event[f].class # "kel"
  PROVE  /\ db'.fels = db.fels
         /\ escrow'["ooes"] \subseteq escrow["ooes"] /\ escrow'["pdes"] \subseteq escrow["pdes"]
<1>1. IsSound(db) /\ db \in Database
  BY DEF IngestInv, DatabaseSound, IsSound
<1>2. Verdict(db, f) \notin {"ooes", "pdes"}
  BY <1>1, WaitsWhereItMay, EscrowNames DEF MayWait
<1>3. db'.fels = db.fels
  <2>1. CASE Verdict(db, f) = "accept"
    <3>1. db' = Accepting(db, f)
      BY <2>1 DEF Judge
    <3> QED BY <1>1, <3>1, AcceptingIs DEF KeriAssumption
  <2>2. CASE Verdict(db, f) # "accept"
    BY <2>2 DEF Judge
  <2> QED BY <2>1, <2>2
<1> QED BY <1>2, <1>3, EscrowNames DEF Judge

LEMMA FollowsParse ==
  ASSUME KeriAssumption, IngestInv, HostInv, FirstStands, Follows, NEW f \in Frame, Parse(f)
  PROVE  Follows'
<1> SUFFICES ASSUME round = 2
             PROVE  Follows'
  BY DEF Follows, Parse
<1>0. UNCHANGED <<round, stream, hosted, first>> /\ parsed' = parsed \cup {f}
      /\ f \in stream /\ f \notin parsed /\ f = hosted[Cardinality(parsed) + 1] /\ Judge(f)
  BY DEF Parse
<1> DEFINE o == first.db
           p == Event[f].principal
<1>1. /\ IsSound(o) /\ LedgerSound(o) /\ Has(o, f) /\ hosted \in Seq(Frame)
      /\ Range(hosted) = stream /\ KelsInOrder(hosted, o)
  BY <1>0 DEF FirstStands
<1>2. /\ parsed = {hosted[i] : i \in 1 .. Cardinality(parsed)}
      /\ escrow["ooes"] = {} /\ escrow["pdes"] = {} /\ Tracks(db, o, parsed)
  BY DEF Follows
<1>3. IsFiniteSet(parsed) /\ IsSound(db) /\ db \in Database
  BY FS_Subset DEF HostInv, IngestInv, DatabaseSound, IsSound
<1>4. PICK N \in Nat : N = Cardinality(parsed)
  BY <1>3, FS_CardinalityType
<1>5. Cardinality(parsed') = N + 1
  BY <1>0, <1>3, <1>4, FS_AddElement
<1>6. N + 1 \in DOMAIN hosted
  <2>1. PICK M \in Nat : M = Len(hosted) /\ DOMAIN hosted = 1 .. M
    BY <1>1, LenProperties
  <2>2. ASSUME M <= N
        PROVE  FALSE
    <3>1. PICK i \in DOMAIN hosted : hosted[i] = f
      BY <1>0, <1>1 DEF Range
    <3>2. i \in 1 .. N
      BY <2>1, <2>2, <3>1
    <3> QED BY <1>0, <1>2, <1>4, <3>1, <3>2
  <2> QED BY <2>1, <2>2
<1>7. parsed' = {hosted[i] : i \in 1 .. N + 1}
  <2>1. \A i : i \in 1 .. N + 1 <=> i \in 1 .. N \/ i = N + 1
    OBVIOUS
  <2> QED BY <1>0, <1>2, <1>4, <2>1
<1>8. parsed' = {hosted'[i] : i \in 1 .. Cardinality(parsed')}
  BY <1>0, <1>5, <1>7
<1>9. CASE Event[f].class = "kel"
  <2>1. \A m \in 1 .. (N + 1) - 1 : hosted[m] \in parsed
    BY <1>2, <1>4
  <2>2. Preceded(hosted, o, N + 1) /\ f = hosted[N + 1]
    BY <1>0, <1>1, <1>4, <1>6 DEF KelsInOrder
  <2>3. Seen(o, f)
    BY <1>1, <1>9 DEF Has
  <2> HIDE DEF o
  <2>4. /\ p \in Aid /\ ~Seen(db, f) /\ Verdict(db, f) = "accept"
        /\ IsPrefixOf(Append(db.fels[p], f), o.fels[p])
    <3>1. IsSound(o) /\ LedgerSound(o) /\ hosted \in Seq(Frame) /\ Tracks(db, o, parsed)
      BY <1>1, <1>2
    <3>2. f \in Frame /\ f \notin parsed
      BY <1>0
    <3> HIDE DEF p
    <3>3. p = Event[f].principal
      BY DEF p
    <3> QED BY <1>3, <1>6, <1>9, <2>1, <2>2, <2>3, <3>1, <3>2, <3>3, KelIsNext
  <2>5. db' = Accepting(db, f)
    BY <1>0, <2>4 DEF Judge
  <2>6. \A a \in Aid : db'.fels[a] = IF a = p THEN Append(db.fels[a], f) ELSE db.fels[a]
    BY <1>3, <1>9, <2>4, <2>5, AcceptingIs
  <2>7. escrow'["ooes"] = {} /\ escrow'["pdes"] = {}
    BY <1>0, <1>2, <2>4, EscrowNames DEF Judge
  <2>8. Range(db'.fels[p]) = Range(db.fels[p]) \cup {f}
    <3>1. db.fels[p] \in Seq(Frame)
      BY <1>3, <2>4 DEF Database
    <3> QED BY <2>4, <2>6, <3>1, RangeOfAppend
  <2>9. Tracks(db', o, parsed')
    <3> SUFFICES ASSUME NEW a \in Aid
                 PROVE  /\ IsPrefixOf(db'.fels[a], o.fels[a]) /\ Range(db'.fels[a]) \subseteq parsed'
                        /\ \A x \in Range(o.fels[a]) : x \in parsed' => x \in Range(db'.fels[a])
      BY DEF Tracks
    <3>1. CASE a = p
      BY <1>0, <1>2, <2>4, <2>6, <2>8, <3>1 DEF Tracks
    <3>2. CASE a # p
      <4>1. f \notin Range(o.fels[a])
        BY <1>1, <3>2, EventsOfLog
      <4> QED BY <1>0, <1>2, <2>6, <3>2, <4>1 DEF Tracks
    <3> QED BY <3>1, <3>2
  <2> QED BY <1>0, <1>8, <2>7, <2>9 DEF Follows, o
<1>10. CASE Event[f].class # "kel"
  <2>1. /\ db'.fels = db.fels /\ escrow'["ooes"] = {} /\ escrow'["pdes"] = {}
    BY <1>0, <1>2, <1>10, LogsStand
  <2> HIDE DEF o
  <2>2. \A a \in Aid : f \notin Range(o.fels[a])
    BY <1>1, <1>10, EventsOfLog
  <2>3. Tracks(db', o, parsed')
    BY <1>0, <1>2, <2>1, <2>2 DEF Tracks
  <2> QED BY <1>0, <1>8, <2>1, <2>3 DEF Follows, o
<1> QED BY <1>9, <1>10

LEMMA FollowsRetry ==
  ASSUME KeriAssumption, IngestInv, HostInv, Follows, NEW f \in Frame, Retry(f)
  PROVE  Follows'
<1> SUFFICES ASSUME round = 2
             PROVE  Follows'
  BY DEF Follows, Retry
<1>0. UNCHANGED <<round, parsed, hosted, first>> /\ f \in todo /\ Judge(f)
      /\ stage \in Range(Drain)
  BY DEF Retry
<1>1. /\ parsed = {hosted[i] : i \in 1 .. Cardinality(parsed)}
      /\ escrow["ooes"] = {} /\ escrow["pdes"] = {} /\ Tracks(db, first.db, parsed)
  BY DEF Follows
<1>2. stage \in Phases
  BY <1>0 DEF Drain, Range, Phases
<1>3. PICK e \in Escrow : f \in escrow[e] /\ MayWait(f, e)
  BY <1>0, <1>2, TodoIn DEF IngestInv
<1>4. Event[f].class # "kel"
  BY <1>1, <1>3, EscrowNames DEF MayWait
<1>5. /\ db'.fels = db.fels /\ escrow'["ooes"] = {} /\ escrow'["pdes"] = {}
  BY <1>0, <1>1, <1>4, LogsStand
<1> QED BY <1>0, <1>1, <1>5 DEF Follows, Tracks

LEMMA FollowsBegins ==
  ASSUME parsed' = {}, db' = EmptyDb, escrow' = [e \in Escrow |-> {}], IsSound(first'.db)
  PROVE  Follows'
<1>1. Cardinality(parsed') = 0
  BY FS_EmptySet
<1>2. parsed' = {hosted'[i] : i \in 1 .. Cardinality(parsed')}
  BY <1>1
<1>3. escrow'["ooes"] = {} /\ escrow'["pdes"] = {}
  BY EscrowNames
<1>4. Tracks(db', first'.db, parsed')
  <2> SUFFICES ASSUME NEW a \in Aid
               PROVE  /\ IsPrefixOf(db'.fels[a], first'.db.fels[a]) /\ Range(db'.fels[a]) \subseteq parsed'
                      /\ \A x \in Range(first'.db.fels[a]) : x \in parsed' => x \in Range(db'.fels[a])
    BY DEF Tracks
  <2>1. db'.fels[a] = <<>> /\ Len(<<>>) = 0 /\ Range(<<>>) = {}
    BY DEF EmptyDb, Range
  <2>2. PICK L : L = first'.db.fels[a]
    OBVIOUS
  <2>3. L \in Seq(Frame)
    BY <2>2 DEF IsSound, Database
  <2>4. IsPrefixOf(<<>>, L)
    BY <2>1, <2>3, LenProperties DEF IsPrefixOf
  <2> QED BY <2>1, <2>2, <2>4
<1> QED BY <1>2, <1>3, <1>4 DEF Follows

(* Every transaction event of the first ingestion is anchored in an event   *)
(* that still stands.                                                      *)
Seated == \A t \in first.db.tels : ~Unseated(t)

(* What is not in any escrow and was never dropped is held.                *)
LEMMA NotWaiting ==
  ASSUME KeriAssumption, IngestInv, HostInv, OrderInv, stage = "audit", NEW f \in stream,
         \A e \in Escrow : Verdict(db, f) = e => ~MayWait(f, e), ~Lost(f)
  PROVE  Has(db, f)
<1>1. f \in parsed
  BY DEF OrderInv, AllParsed
<1>2. Has(db, f) \/ \E e \in Escrow : f \in escrow[e]
  BY <1>1 DEF OrderInv, NoneLost
<1>3. ASSUME NEW e \in Escrow, f \in escrow[e]
      PROVE  FALSE
  <2>1. Verdict(db, f) = e
    BY <1>3 DEF IngestInv, DrainIsComplete
  <2>2. MayWait(f, e)
    BY <1>3 DEF IngestInv, EscrowsSound
  <2> QED BY <2>1, <2>2
<1> QED BY <1>2, <1>3

LEMMA SameLogs ==
  ASSUME KeriAssumption, IngestInv, HostInv, OrderInv, FirstStands, Follows,
         round = 2, stage = "audit"
  PROVE  db.fels = first.db.fels
<1> DEFINE o == first.db
<1>1. IsSound(o) /\ LedgerSound(o) /\ o \in Database
  BY DEF FirstStands, IsSound
<1>2. Tracks(db, o, parsed) /\ parsed = stream
  BY DEF Follows, OrderInv, AllParsed
<1>3. db \in Database
  BY DEF IngestInv, DatabaseSound, IsSound
<1> HIDE DEF o
<1>4. ASSUME NEW a \in Aid
      PROVE  db.fels[a] = o.fels[a]
  <2>1. PICK s \in Seq(Frame) : s = db.fels[a]
    BY <1>3 DEF Database
  <2>2. PICK t \in Seq(Frame) : t = o.fels[a]
    BY <1>1 DEF Database
  <2>3. IsPrefixOf(s, t) /\ Range(t) \subseteq Range(s)
    BY <1>1, <1>2, <2>1, <2>2 DEF Tracks, IsSound
  <2>4. \A i, j \in DOMAIN t : t[i] = t[j] => i = j
    BY <1>1, <2>2 DEF LedgerSound, Legal
  <2>5. Len(s) \in Nat /\ DOMAIN s = 1 .. Len(s) /\ Len(t) \in Nat /\ DOMAIN t = 1 .. Len(t)
    BY LenProperties
  <2>6. Len(s) <= Len(t) /\ \A i \in 1 .. Len(s) : t[i] = s[i]
    BY <2>3 DEF IsPrefixOf
  <2>7. Len(s) >= Len(t)
    <3> SUFFICES ASSUME Len(s) < Len(t)
                 PROVE  FALSE
      BY <2>5
    <3>1. Len(t) \in DOMAIN t
      BY <2>5
    <3>2. t[Len(t)] \in Range(s)
      BY <2>3, <3>1 DEF Range
    <3>3. PICK i \in DOMAIN s : s[i] = t[Len(t)]
      BY <3>2 DEF Range
    <3>4. i \in DOMAIN t /\ t[i] = t[Len(t)]
      BY <2>5, <2>6, <3>3
    <3>5. i = Len(t)
      BY <2>4, <3>1, <3>4
    <3> QED BY <2>5, <3>3, <3>5
  <2>8. Len(s) = Len(t) /\ \A i \in 1 .. Len(s) : s[i] = t[i]
    <3>1. Len(s) = Len(t)
      <4>1. Len(s) <= Len(t)
        BY <2>6
      <4>2. PICK m \in Nat : m = Len(s)
        BY <2>5
      <4>3. PICK n \in Nat : n = Len(t)
        BY <2>5
      <4>4. m <= n /\ m >= n
        BY <2>7, <4>1, <4>2, <4>3
      <4>5. m = n
        BY <4>4
      <4> QED BY <4>2, <4>3, <4>5
    <3>2. \A i \in 1 .. Len(s) : s[i] = t[i]
      BY <2>6
    <3> QED BY <3>1, <3>2
  <2>9. s = t
    BY <2>8, SeqEqual
  <2> QED BY <2>1, <2>2, <2>9
<1>5. db.fels \in [Aid -> Seq(Frame)] /\ o.fels \in [Aid -> Seq(Frame)]
  BY <1>1, <1>3 DEF Database
<1>6. db.fels = o.fels
  BY <1>4, <1>5
<1> QED BY <1>6 DEF o

(* With the logs as they were, an anchor that still stands is one again.   *)
LEMMA AnchoredAgain ==
  ASSUME NEW d, NEW o, LedgerSound(o), d.fels = o.fels, o = first.db,
         NEW t \in o.tels, ~Unseated(t)
  PROVE  Anchored(d, t)
<1>1. Seals(Event[t].anchor, t) /\ Seen(o, Event[t].anchor)
  BY DEF LedgerSound
<1>2. Seen(d, Event[t].anchor)
  BY <1>1 DEF Seen, Log
<1>3. LET k == Event[t].anchor IN k = Winner(Log(d, Event[k].principal), Event[k].sn)
  BY DEF Unseated, Log
<1> QED BY <1>1, <1>2, <1>3 DEF Anchored

LEMMA SameTels ==
  ASSUME KeriAssumption, IngestInv, HostInv, OrderInv, FirstStands, Follows, Seated,
         round = 2, stage = "audit"
  PROVE  db.tels = first.db.tels
<1> DEFINE o == first.db
<1>1. IsSound(o) /\ LedgerSound(o) /\ o \in Database /\ IsSound(db)
  BY DEF FirstStands, IsSound, IngestInv, DatabaseSound
<1>2. db.fels = o.fels
  BY SameLogs
<1>3. o.tels = Of("tel")
  BY <1>1 DEF IsSound, FirstStands, Has, Of
<1>4. db.tels \subseteq Of("tel")
  BY <1>1 DEF IsSound, Of
<1>5. \A t \in o.tels : Anchored(db, t) /\ TelReady(o, t)
  BY <1>1, <1>2, AnchoredAgain DEF Seated, LedgerSound
<1> HIDE DEF o
<1>6. \A t \in Of("tel") : t \in stream /\ t \in Frame /\ Event[t].class = "tel" /\ Event[t].ilk \in TelIlk
  BY DEF Of, HostInv, KeriAssumption
<1>7. ASSUME NEW t \in Of("tel"), TelReady(db, t)
      PROVE  t \in db.tels
  <2>1. Anchored(db, t)
    BY <1>3, <1>5
  <2>2. TelVerdict(db, t) = "accept"
    BY <1>7, <2>1 DEF TelVerdict, TelReady
  <2>3. Verdict(db, t) = "accept" /\ "accept" \notin Escrow
    BY <1>6, <2>2, EscrowNames DEF Verdict
  <2>4. ~Lost(t)
    BY <1>6 DEF Lost
  <2>5. Has(db, t)
    BY <1>6, <2>3, <2>4, NotWaiting
  <2> QED BY <1>6, <2>5 DEF Has
<1>8. ASSUME NEW r, HasRegistry(o, r)
      PROVE  HasRegistry(db, r)
  <2>1. PICK v \in o.tels : v \in Inception(r)
    BY <1>8 DEF HasRegistry
  <2>2. TelReady(db, v)
    BY <2>1 DEF TelReady, Inception
  <2> QED BY <1>3, <1>7, <2>1, <2>2 DEF HasRegistry
<1>9. ASSUME NEW c, Issued(o, c)
      PROVE  Issued(db, c)
  <2>1. PICK t \in o.tels : Event[t].ilk = "iss" /\ Event[t].principal = c
    BY <1>9 DEF Issued
  <2>2. TelReady(db, t)
    BY <1>5, <1>8, <2>1 DEF TelReady
  <2> QED BY <1>3, <1>7, <2>1, <2>2 DEF Issued
<1>10. \A t \in Of("tel") : t \in db.tels
  <2> TAKE t \in Of("tel")
  <2>1. TelReady(o, t)
    BY <1>3, <1>5
  <2>2. TelReady(db, t)
    BY <1>8, <1>9, <2>1 DEF TelReady
  <2> QED BY <1>7, <2>2
<1> QED BY <1>3, <1>4, <1>10 DEF o

(* The second ingestion ends with the database of the first.               *)
LEMMA SameDatabase ==
  ASSUME KeriAssumption, IngestInv, HostInv, OrderInv, FirstStands, Follows, Seated,
         round = 2, stage = "audit"
  PROVE  db = first.db
<1> DEFINE o == first.db
<1>1. IsSound(o) /\ LedgerSound(o) /\ o \in Database /\ IsSound(db) /\ db \in Database
  BY DEF FirstStands, IsSound, IngestInv, DatabaseSound
<1>2. db.fels = o.fels /\ db.tels = o.tels
  BY SameLogs, SameTels
<1>3. /\ o.saved = Of("acdc") /\ db.saved \subseteq Of("acdc")
      /\ o.rpys = Of("rpy") /\ db.rpys \subseteq Of("rpy")
  BY <1>1 DEF IsSound, FirstStands, Has, Of
<1> HIDE DEF o
<1>4. ASSUME NEW c \in Of("acdc")
      PROVE  c \in db.saved
  <2>1. c \in stream /\ Event[c].class = "acdc"
    BY DEF Of
  <2>2. HasRegistry(o, Event[c].registry) /\ Issued(o, c)
    BY <1>1, <1>3 DEF IsSound, LedgerSound
  <2>3. Verdict(db, c) = "accept" /\ "accept" \notin Escrow
    BY <1>2, <2>1, <2>2, EscrowNames DEF Verdict, CredentialVerdict, HasRegistry, Issued
  <2>4. ~Lost(c)
    BY <2>1 DEF Lost
  <2>5. Has(db, c)
    BY <2>1, <2>3, <2>4, NotWaiting
  <2> QED BY <2>1, <2>5 DEF Has
<1>5. ASSUME NEW r \in Of("rpy")
      PROVE  r \in db.rpys
  <2>1. r \in stream /\ Event[r].class = "rpy"
    BY DEF Of
  <2>2. Event[r].role => Knows(db, Event[r].cid)
    BY <1>1, <1>2, <1>3 DEF LedgerSound, Knows, Log
  <2>3. Verdict(db, r) \notin Escrow
    BY <2>1, <2>2, EscrowNames DEF Verdict, ReplyVerdict
  <2>4. SUFFICES ASSUME r \notin db.rpys
                 PROVE  FALSE
    OBVIOUS
  <2>5. ~Lost(r)
    <3>1. ASSUME NEW s \in db.rpys, SameTopic(r, s)
          PROVE  FALSE
      <4>1. r = s
        BY <1>1, <1>3, <3>1 DEF LedgerSound
      <4> QED BY <2>4, <4>1
    <3> QED BY <2>1, <3>1 DEF Lost
  <2>6. Has(db, r)
    BY <2>1, <2>3, <2>5, NotWaiting
  <2> QED BY <2>1, <2>4, <2>6 DEF Has
<1>6. db.saved = o.saved /\ db.rpys = o.rpys
  BY <1>3, <1>4, <1>5
<1>7. /\ db = [fels |-> db.fels, tels |-> db.tels, saved |-> db.saved, rpys |-> db.rpys]
      /\ o = [fels |-> o.fels, tels |-> o.tels, saved |-> o.saved, rpys |-> o.rpys]
  BY <1>1 DEF Database
<1> QED BY <1>2, <1>6, <1>7 DEF o

(* The second ingestion is refused at no stage, and from the audit on its  *)
(* database is that of the first.                                          *)
Agrees == round = 2 /\ Seated => stage # "refused" /\ (stage \in Judged => db = first.db)

ReingestInv == AnswersStand /\ FirstStands /\ Follows /\ Agrees

LEMMA FirstKeeps ==
  ASSUME FirstStands, UNCHANGED <<round, stream, hosted, first>>
  PROVE  FirstStands'
<1>0. SUFFICES ASSUME round = 2
               PROVE  FirstStands'
  BY DEF FirstStands
<1>1. IsSound(first.db)' /\ LedgerSound(first.db)' /\ \A f \in stream' : Has(first.db, f)'
  BY <1>0 DEF FirstStands, IsSound
<1>2. GateFault' = GateFault
  BY SameGate
<1>3. /\ Then!AuditFault' = Then!AuditFault /\ Then!AuthorizeFault' = Then!AuthorizeFault
      /\ Then!Standing' = Then!Standing /\ \A f : (Then!Owned(f)' <=> Then!Owned(f))
  BY SameThen
<1>4. /\ hosted' \in Seq(Frame) /\ Range(hosted') = stream' /\ KelsInOrder(hosted, first.db)'
      /\ GateFault = "none" /\ Then!AuditFault = "none" /\ Then!AuthorizeFault = "none"
      /\ first'.designations = Then!Standing /\ \A f \in stream' : Then!Owned(f)
  BY <1>0 DEF FirstStands
<1> QED BY <1>1, <1>2, <1>3, <1>4 DEF FirstStands

(* Before the audit is over.                                               *)
LEMMA BeforeJudged ==
  ASSUME ReingestInv, UNCHANGED <<round, stream, hosted, first>>, Follows',
         stage \notin {"gate", "refused"}, stage' \notin {"gate", "refused"} \cup Judged
  PROVE  ReingestInv'
<1>1. FirstStands'
  BY FirstKeeps DEF ReingestInv
<1>2. GateFault' = GateFault
  BY SameGate
<1>3. AnswersStand'
  BY <1>2 DEF ReingestInv, AnswersStand, Judged
<1>4. Agrees'
  BY DEF Agrees
<1> QED BY <1>1, <1>3, <1>4 DEF ReingestInv

(* While the database stands.                                              *)
LEMMA WhileJudged ==
  ASSUME ReingestInv, UNCHANGED <<round, stream, parsed, db, escrow, hosted, first>>,
         AnswersStand', Agrees'
  PROVE  ReingestInv'
BY FirstKeeps, FollowsKeeps DEF ReingestInv

LEMMA ReingestGate == ReingestInv /\ Gate => ReingestInv'
<1> SUFFICES ASSUME ReingestInv, Gate
             PROVE  ReingestInv'
  OBVIOUS
<1>0. UNCHANGED <<round, stream, parsed, db, escrow, hosted, first, designations>>
      /\ stage' \in {"parse", "refused"} /\ (GateFault = "none" <=> stage' = "parse")
  BY DEF Gate, Refuse
<1>1. GateFault' = GateFault
  BY <1>0, SameGate
<1>2. AnswersStand'
  BY <1>0, <1>1 DEF AnswersStand, Judged
<1>3. round = 2 => GateFault = "none"
  BY DEF ReingestInv, FirstStands
<1>4. Agrees'
  BY <1>0, <1>3 DEF Agrees, Judged
<1> QED BY <1>0, <1>2, <1>4, WhileJudged

LEMMA ReingestAudit ==
  KeriAssumption /\ IngestInv /\ HostInv /\ OrderInv /\ ReingestInv /\ Audit => ReingestInv'
<1> SUFFICES ASSUME KeriAssumption, IngestInv, HostInv, OrderInv, ReingestInv, Audit
             PROVE  ReingestInv'
  OBVIOUS
<1>0. UNCHANGED <<round, stream, parsed, db, escrow, hosted, first, designations>>
      /\ stage = "audit" /\ stage' \in {"authorize", "refused"}
      /\ (AuditFault = "none" <=> stage' = "authorize")
  BY DEF Audit, Refuse
<1>1. GateFault' = GateFault /\ AuditFault' = AuditFault
  BY <1>0, SameQuestions
<1>2. AnswersStand'
  BY <1>0, <1>1 DEF ReingestInv, AnswersStand, Judged
<1>3. ASSUME round = 2, Seated
      PROVE  db = first.db /\ AuditFault = "none"
  <2>1. db = first.db
    BY <1>0, <1>3, SameDatabase DEF ReingestInv
  <2>2. Then!AuditFault = AuditFault
    BY <2>1, ThenAsNow DEF HostInv
  <2> QED BY <1>3, <2>1, <2>2 DEF ReingestInv, FirstStands
<1>4. Seated' <=> Seated
  BY <1>0 DEF Seated, Unseated
<1>5. Agrees'
  BY <1>0, <1>3, <1>4 DEF Agrees
<1> QED BY <1>0, <1>2, <1>5, WhileJudged

LEMMA ReingestAuthorize == HostInv /\ ReingestInv /\ Authorize => ReingestInv'
<1> SUFFICES ASSUME HostInv, ReingestInv, Authorize
             PROVE  ReingestInv'
  OBVIOUS
<1>0. UNCHANGED <<round, stream, parsed, db, escrow, hosted, first>>
      /\ stage = "authorize" /\ stage' \in {"own", "refused"}
      /\ (AuthorizeFault = "none" <=> stage' = "own") /\ (stage' = "own" => designations' = Standing)
  BY DEF Authorize, Refuse
<1>1. /\ GateFault' = GateFault /\ AuditFault' = AuditFault
      /\ AuthorizeFault' = AuthorizeFault /\ Standing' = Standing
  BY <1>0, SameQuestions
<1>2. AnswersStand'
  BY <1>0, <1>1 DEF ReingestInv, AnswersStand, Judged
<1>3. ASSUME round = 2, Seated
      PROVE  db = first.db /\ AuthorizeFault = "none"
  <2>1. db = first.db
    BY <1>0, <1>3 DEF ReingestInv, Agrees, Judged
  <2>2. Then!AuthorizeFault = AuthorizeFault
    BY <2>1, ThenAsNow DEF HostInv
  <2> QED BY <1>3, <2>1, <2>2 DEF ReingestInv, FirstStands
<1>4. Seated' <=> Seated
  BY <1>0 DEF Seated, Unseated
<1>5. Agrees'
  BY <1>0, <1>3, <1>4 DEF Agrees
<1> QED BY <1>0, <1>2, <1>5, WhileJudged

LEMMA ReingestOwn == HostInv /\ ReingestInv /\ Own => ReingestInv'
<1> SUFFICES ASSUME HostInv, ReingestInv, Own
             PROVE  ReingestInv'
  OBVIOUS
<1>0. UNCHANGED <<round, stream, parsed, db, escrow, hosted, first, designations>>
      /\ stage = "own" /\ stage' \in {"emit", "refused"}
      /\ ((\A f \in stream : Owned(f)) <=> stage' = "emit")
  BY DEF Own, Settle, Refuse
<1>1. /\ GateFault' = GateFault /\ AuditFault' = AuditFault
      /\ AuthorizeFault' = AuthorizeFault /\ Standing' = Standing
      /\ \A f : Owned(f)' <=> Owned(f)
  BY <1>0, SameQuestions
<1>2. AnswersStand'
  BY <1>0, <1>1 DEF ReingestInv, AnswersStand, Judged
<1>3. ASSUME round = 2, Seated
      PROVE  db = first.db /\ \A f \in stream : Owned(f)
  <2>1. db = first.db
    BY <1>0, <1>3 DEF ReingestInv, Agrees, Judged
  <2>2. \A f : Then!Owned(f) <=> Owned(f)
    BY <2>1, ThenAsNow DEF HostInv
  <2> QED BY <1>3, <2>1, <2>2 DEF ReingestInv, FirstStands
<1>4. Seated' <=> Seated
  BY <1>0 DEF Seated, Unseated
<1>5. Agrees'
  BY <1>0, <1>3, <1>4 DEF Agrees
<1> QED BY <1>0, <1>2, <1>5, WhileJudged

LEMMA ReingestFinish == ReingestInv /\ Finish => ReingestInv'
<1> SUFFICES ASSUME ReingestInv, Finish
             PROVE  ReingestInv'
  OBVIOUS
<1>0. UNCHANGED <<round, stream, parsed, db, escrow, hosted, first, designations>>
      /\ stage = "emit" /\ stage' = "done" /\ round = 2
  BY DEF Finish
<1>1. /\ GateFault' = GateFault /\ AuditFault' = AuditFault
      /\ AuthorizeFault' = AuthorizeFault /\ Standing' = Standing
  BY <1>0, SameQuestions
<1>2. AnswersStand'
  BY <1>0, <1>1 DEF ReingestInv, AnswersStand, Judged
<1>3. Seated' <=> Seated
  BY <1>0 DEF Seated, Unseated
<1>4. Agrees'
  BY <1>0, <1>3 DEF ReingestInv, Agrees, Judged
<1> QED BY <1>0, <1>2, <1>4, WhileJudged

(* What is emitted rests on what the first ingestion accepted and found.   *)
LEMMA ReingestEmit ==
  KeriAssumption /\ IngestAssumption /\ IngestInv /\ HostInv /\ OrderInv /\ ReingestInv /\ Emit
    => ReingestInv'
<1> SUFFICES ASSUME KeriAssumption, IngestAssumption, IngestInv, HostInv, OrderInv, ReingestInv, Emit
             PROVE  ReingestInv'
  OBVIOUS
<1>0. /\ stage = "emit" /\ stage' = "gate" /\ round' = 2 /\ parsed' = {} /\ db' = EmptyDb
      /\ escrow' = [e \in Escrow |-> {}] /\ stream' = Range(hosted')
      /\ first' = [designations |-> designations, stream |-> stream, db |-> db]
  BY DEF Emit
<1>1. PICK chain \in DelegationChains, rs \in Orders(Of("rpy")), cs \in Orders(Of("acdc")),
        vs \in Orders(Incepted) : hosted' = Assemble(chain, rs, cs, vs)
  BY DEF Emit
<1>2. PICK h : h = Assemble(chain, rs, cs, vs)
  OBVIOUS
<1>3. h \in Seq(Frame) /\ Range(h) = stream /\ KelsInOrder(h, db)
  BY <1>0, <1>2, AssembleHolds, HostedInOrder
<1>4. hosted' = h /\ stream' = stream /\ first'.db = db /\ first'.designations = designations
  BY <1>0, <1>1, <1>2, <1>3
<1>5. stream \subseteq Frame /\ IsSound(db) /\ LedgerSound(db)
  BY DEF HostInv, IngestInv, DatabaseSound, OrderInv
<1>6. \A f \in stream : Has(db, f)
  <2>1. \A f \in stream : Accepted(f)
    BY <1>0 DEF IngestInv, Audits, Judged, Unaccounted
  <2> QED BY <2>1 DEF Accepted, Has
<1>7. /\ GateFault = "none" /\ AuditFault = "none" /\ AuthorizeFault = "none"
      /\ designations = Standing /\ \A f \in stream : Owned(f)
  BY <1>0 DEF ReingestInv, AnswersStand, Judged
<1>8. /\ Then!AuditFault' = AuditFault /\ Then!AuthorizeFault' = AuthorizeFault
      /\ Then!Standing' = Standing /\ \A f : (Then!Owned(f)' <=> Owned(f))
  BY <1>4, <1>5, NowIsThen
<1>9. GateFault' = GateFault
  BY <1>4, SameGate
<1>10. IsSound(first.db)' /\ LedgerSound(first.db)' /\ \A f \in stream' : Has(first.db, f)'
  BY <1>4, <1>5, <1>6 DEF IsSound
<1>11. hosted' \in Seq(Frame) /\ Range(hosted') = stream' /\ KelsInOrder(hosted, first.db)'
  BY <1>3, <1>4
<1>12. FirstStands'
  BY <1>4, <1>7, <1>8, <1>9, <1>10, <1>11 DEF FirstStands
<1>13. Follows'
  BY <1>0, <1>4, <1>5, FollowsBegins
<1>14. AnswersStand' /\ Agrees'
  BY <1>0 DEF AnswersStand, Agrees, Judged
<1> QED BY <1>12, <1>13, <1>14 DEF ReingestInv

LEMMA ReingestInit == Init => ReingestInv
BY DEF Init, ReingestInv, AnswersStand, FirstStands, Follows, Agrees, Judged

LEMMA ReingestNext ==
  IngestInv /\ HostInv /\ OrderInv /\ ReingestInv /\ [Next]_vars => ReingestInv'
<1> SUFFICES ASSUME IngestInv, HostInv, OrderInv, ReingestInv, [Next]_vars
             PROVE  ReingestInv'
  OBVIOUS
<1> USE KeriAssumption, IngestAssumption
<1>1. CASE Gate
  BY <1>1, ReingestGate
<1>2. ASSUME NEW f \in Frame, Parse(f)
      PROVE  ReingestInv'
  <2>1. Follows'
    BY <1>2, FollowsParse DEF ReingestInv
  <2>2. UNCHANGED <<round, stream, hosted, first>> /\ stage = "parse" /\ stage' = "parse"
    BY <1>2 DEF Parse
  <2> QED BY <2>1, <2>2, BeforeJudged DEF Judged
<1>3. ASSUME NEW f \in Frame, Retry(f)
      PROVE  ReingestInv'
  <2>1. Follows'
    BY <1>3, FollowsRetry DEF ReingestInv
  <2>2. UNCHANGED <<round, stream, hosted, first>> /\ stage \in Phases /\ stage' \in Phases
    BY <1>3 DEF Retry, Drain, Range, Phases
  <2> QED BY <2>1, <2>2, BeforeJudged DEF Judged, Phases
<1>4. CASE Parsed
  <2>1. UNCHANGED <<round, stream, parsed, db, escrow, hosted, first>>
        /\ stage = "parse" /\ stage' = "ooes"
    BY <1>4 DEF Parsed, Start, Drain
  <2>2. Follows'
    BY <2>1, FollowsKeeps DEF ReingestInv
  <2> QED BY <2>1, <2>2, BeforeJudged DEF Judged
<1>5. CASE NextPhase
  <2>1. UNCHANGED <<round, stream, parsed, db, escrow, hosted, first>> /\ stage \in Phases
        /\ stage' \in Phases \cup {"compare"}
    <3>1. UNCHANGED <<round, stream, parsed, db, escrow, hosted, first>>
      BY <1>5 DEF NextPhase
    <3>2. /\ stage \in Phases
          /\ \/ stage' = "compare"
             \/ \E phase \in Phases : Start(phase)
      BY <1>5, NextPhaseIs
    <3> QED BY <3>1, <3>2 DEF Start
  <2>2. Follows'
    BY <2>1, FollowsKeeps DEF ReingestInv
  <2> QED BY <2>1, <2>2, BeforeJudged DEF Judged, Phases
<1>6. CASE Compare
  <2>1. UNCHANGED <<round, stream, parsed, db, escrow, hosted, first>>
        /\ stage = "compare" /\ stage' \in {"audit", "ooes"}
    BY <1>6 DEF Compare, Start, Drain
  <2>2. Follows'
    BY <2>1, FollowsKeeps DEF ReingestInv
  <2> QED BY <2>1, <2>2, BeforeJudged DEF Judged
<1>7. CASE Audit
  BY <1>7, ReingestAudit
<1>8. CASE Authorize
  BY <1>8, ReingestAuthorize
<1>9. CASE Own
  BY <1>9, ReingestOwn
<1>10. CASE Emit
  BY <1>10, ReingestEmit
<1>11. CASE Finish
  BY <1>11, ReingestFinish
<1>12. CASE UNCHANGED vars
  <2>1. UNCHANGED <<round, stream, parsed, db, escrow, hosted, first, stage, designations>>
    BY <1>12 DEF vars
  <2>2. /\ GateFault' = GateFault /\ AuditFault' = AuditFault
        /\ AuthorizeFault' = AuthorizeFault /\ Standing' = Standing
        /\ \A f : Owned(f)' <=> Owned(f)
    BY <2>1, SameQuestions
  <2>3. AnswersStand'
    BY <2>1, <2>2 DEF ReingestInv, AnswersStand
  <2>4. Seated' <=> Seated
    BY <2>1 DEF Seated, Unseated
  <2>5. Agrees'
    BY <2>1, <2>4 DEF ReingestInv, Agrees
  <2> QED BY <2>1, <2>3, <2>5, WhileJudged
<1> QED BY <1>1, <1>2, <1>3, <1>4, <1>5, <1>6, <1>7, <1>8, <1>9, <1>10, <1>11, <1>12 DEF Next

(* "Every hosted keri.cesr re-ingests cleanly through this same pipeline", *)
(* to the designations and the key event log it was emitted from, whatever *)
(* was submitted in whatever order: unless it hosts a transaction event    *)
(* whose anchor a recovery has superseded.                                 *)
THEOREM ReingestCorrect == Spec => []HostedReingests
<1>1. HostInv /\ ReingestInv => HostedReingests
  <2> SUFFICES ASSUME HostInv, ReingestInv, Seated
               PROVE  /\ round = 2 => stage # "refused"
                      /\ stage = "done" => /\ designations = first.designations
                                           /\ Log(db, Claimed) = Log(first.db, Claimed)
    BY DEF HostedReingests, Seated
  <2>1. round = 2 => stage # "refused"
    BY DEF ReingestInv, Agrees
  <2>2. ASSUME stage = "done"
        PROVE  designations = first.designations /\ db = first.db
    <3>1. round = 2 /\ designations = Standing
      BY <2>2 DEF ReingestInv, AnswersStand
    <3>2. db = first.db
      BY <2>2, <3>1 DEF ReingestInv, Agrees, Judged
    <3>3. Then!Standing = Standing
      BY <3>2, ThenAsNow DEF HostInv
    <3> QED BY <3>1, <3>2, <3>3 DEF ReingestInv, FirstStands
  <2> QED BY <2>1, <2>2
<1>2. Init => ReingestInv
  BY ReingestInit
<1>3. IngestInv /\ HostInv /\ OrderInv /\ ReingestInv /\ [Next]_vars => ReingestInv'
  BY ReingestNext
<1> QED BY <1>1, <1>2, <1>3, OrderInductive, PTL DEF Spec
=============================================================================
