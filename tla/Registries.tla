----------------------------- MODULE Registries -----------------------------
(***************************************************************************)
(* The registries of a submission whose key event logs have been accepted:  *)
(* how ingest.py vets the version 2 ones, demands every transaction event   *)
(* the issuer's log anchors, in either version, and orders the designations *)
(* that stand; and how assemble.py writes registries back, for the next     *)
(* ingestion to judge (round 2).                                           *)
(*                                                                         *)
(* A message is a record.  kind: "rip" and "bup", a version 2 inception and *)
(* update; "acm", a version 2 credential; "vcp", "iss", "rev" and "acdc",   *)
(* the same of version 1.  log: the log an event belongs to, or the         *)
(* registry of a credential.  An update's blinded state is `names` and      *)
(* `state`: the credential it names (0 for none) and what it says of it ("" *)
(* for nothing); an update of neither is vacuous.  A disclosure is known by *)
(* the update whose BLID it has.  SAIDs are numbers, ordered like the text. *)
(*                                                                         *)
(* keripy's verifiers of registries are external: of a fault they refuse    *)
(* for, they may refuse for any that is there.                              *)
(***************************************************************************)
EXTENDS Integers, SequencesExt

CONSTANTS
    Aid,            \* the AID of the DID that is published
    Submissions     \* records [world, kel, frames, riding], as the variables of these names

VARIABLES
    world,      \* every registry message there is, whether submitted or not
    kel,        \* kel[a]: the accepted key event log of a, a sequence of lists of seals
    frames,     \* the walked registry messages and credentials, in stream order
    riding,     \* riding[u]: the disclosures of update u on version 2 registry messages and
                \* credentials, and on other messages
    pending,    \* the inceptions vet_registries has yet to come to
    registries, \* Scratch.registries, in the order they were vetted
    pc,         \* the function ingest is about to call
    error,      \* the code the submission was refused with, or "none"
    standing,   \* what authorize returns
    round,      \* 1 for the submission, 2 for what was hosted of it
    first       \* what round 1 had of frames and standing, once it is hosted

vars == <<world, kel, frames, riding, pending, registries, pc, error, standing, round, first>>
given == <<world, kel, frames, riding, round, first>>

V2Kinds == {"rip", "bup", "acm"}
V1Log == {"vcp", "iss", "rev"}

Messages(aids) ==
    [kind : V2Kinds \cup V1Log \cup {"acdc"}, said : Nat \ {0}, log : Nat, sn : Nat, aid : aids,
     reg : Nat, prior : Nat, names : Nat, state : STRING, covers : BOOLEAN, valid : BOOLEAN]
SealOf == [i : Nat, d : Nat, full : BOOLEAN]

Carried == Range(frames)
Saids(msgs) == {m.said : m \in msgs}

\* A SAID is a digest of the message; a registry's own inception is the event 0 of its log, and
\* of a credential's log the issuance is 0 and the revocation 1.  No message is submitted twice.
ASSUME RegistriesAssumption ==
    \A sub \in Submissions :
        /\ sub.world \subseteq Messages(DOMAIN sub.kel)
        /\ \A x, y \in sub.world : x.said = y.said => x = y
        /\ \A m \in sub.world :
              /\ m.kind \in {"rip", "vcp"} => m.log = m.said
              /\ m.kind \in {"vcp", "iss"} => m.sn = 0
              /\ m.kind = "rev" => m.sn = 1
        /\ sub.frames \in Seq(sub.world) /\ IsInjective(sub.frames)
        /\ \A a \in DOMAIN sub.kel : sub.kel[a] \in Seq(Seq(SealOf))
        /\ sub.riding \in [Saids({m \in sub.world : m.kind = "bup"}) -> [on : Nat, off : Nat]]

\* The messages of a kind, in stream order.
Listed(kind) ==
    FlattenSeq([n \in DOMAIN frames |-> IF frames[n].kind = kind THEN <<frames[n]>> ELSE <<>>])

\* S in the order of Before, which is total on it.
InOrder(S, Before(_, _)) ==
    CHOOSE s \in SetToSeqs(S) : \A j, k \in DOMAIN s : j < k => Before(s[j], s[k])

Refuse(code) ==
    /\ error' = code
    /\ pc' = "end"
    /\ UNCHANGED <<given, pending, registries, standing>>

(***************************************************************************)
(* The gate, as far as registries go: require_supported and                 *)
(* require_no_third_party.                                                 *)
(***************************************************************************)

Inceptions == {m \in Carried : m.kind \in {"rip", "vcp"}}
Credentials == {m \in Carried : m.kind \in {"acm", "acdc"}}

\* _mismatched_registry: a credential whose registry is of the other version.
Mismatched(m) ==
    \E x \in Carried :
        x.kind \in {"rip", "bup", "vcp"} /\ x.log = m.log /\ (x.kind = "vcp") = (m.kind = "acm")

\* _is_third_party.
ThirdParty(m) ==
    IF m \in Credentials
    THEN m.aid \notin {Aid} \cup {x.aid : x \in Inceptions}
    ELSE m.log \notin Saids(Inceptions \cup Credentials)

GateFails ==
    /\ pc = "gate"
    /\ \/ (\E m \in Credentials : Mismatched(m)) /\ Refuse("REGISTRY_VERSION")
       \/ /\ \A m \in Credentials : ~Mismatched(m)
          /\ \E m \in Carried : ThirdParty(m)
          /\ Refuse("THIRD_PARTY")

Gate ==
    /\ pc = "gate"
    /\ \A m \in Credentials : ~Mismatched(m)
    /\ \A m \in Carried : ~ThirdParty(m)
    /\ pc' = "vet"
    /\ UNCHANGED <<given, pending, registries, error, standing>>

(***************************************************************************)
(* What a key event log anchors: _kel_seals, _v1_anchor and AnchorIndex.    *)
(* A seal has the log it names, 0 if none, the digest, and whether it is a  *)
(* full {i, s, d}.                                                         *)
(***************************************************************************)

Seals(aid) == UNION {Range(kel[aid][n]) : n \in DOMAIN kel[aid]}

Mutant_ForLogNamed(aid, log) == {seal.d : seal \in {x \in Seals(aid) : x.i = log}}

\* AnchorIndex.for_log of the version 2 index: by the log named, or unattributed.
ForLogV2(aid, log) == {seal.d : seal \in {x \in Seals(aid) : x.i \in {log, 0}}}

\* The events whose seals can anchor a version 1 event: one full seal alone.
V1Anchors(aid) == {n \in DOMAIN kel[aid] : Len(kel[aid][n]) = 1 /\ kel[aid][n][1].full}

\* AnchorIndex.for_log of the version 1 index.
ForLogV1(aid, log) ==
    {kel[aid][n][1].d : n \in {k \in V1Anchors(aid) : kel[aid][k][1].i = log}}

\* Where keripy finds an event's anchor: version 2 by digest alone.
AnchoringV2(m) ==
    {n \in DOMAIN kel[m.aid] : \E seal \in Range(kel[m.aid][n]) : seal.d = m.said}
AnchoringV1(m) ==
    {n \in V1Anchors(m.aid) : kel[m.aid][n][1].d = m.said /\ kel[m.aid][n][1].i = m.log}
Sn(anchoring) == Min(anchoring) - 1

(***************************************************************************)
(* vet_registries.                                                         *)
(***************************************************************************)

\* Sorted by sequence number, those with the same as in the stream.
Updates(rip) ==
    LET places == {n \in DOMAIN frames : frames[n].kind = "bup" /\ frames[n].log = rip.said}
        Before(j, k) == frames[j].sn < frames[k].sn \/ (frames[j].sn = frames[k].sn /\ j < k)
        sorted == InOrder(places, Before)
    IN [n \in DOMAIN sorted |-> frames[sorted[n]]]

Vacuous(update) == update.names = 0 /\ update.state = ""

\* _disclosures: the walk keeps what rides on ACDC messages, each occurrence of it.
Disclosures(update) == riding[update.said].on
Shown(update) == Disclosures(update) > 0

\* _bound_target: what the latest update that says anything names, as far as shown; the
\* reading, newest first, stops at the latest of `stops`.
BoundTarget(updates) ==
    LET stops == {n \in DOMAIN updates : ~Shown(updates[n]) \/ ~Vacuous(updates[n])}
    IN IF stops = {} \/ ~Shown(updates[Max(stops)]) THEN 0 ELSE updates[Max(stops)].names

\* External: what vetBinds, or vet, may refuse a registry for.
Faults(rip, updates) ==
    LET read == {n \in DOMAIN updates : Disclosures(updates[n]) # 1 \/ ~Vacuous(updates[n])}
        priors == <<rip.said>> \o [n \in DOMAIN updates |-> updates[n].said]
    IN { code \in {"FRAME_REJECTED", "ANCHOR_INVALID", "STATE_UNPROVABLE"} :
           \/ /\ code = "FRAME_REJECTED"
              /\ \E n \in DOMAIN updates : updates[n].sn # n \/ updates[n].prior # priors[n]
           \/ /\ code = "ANCHOR_INVALID"
              /\ \E m \in {rip} \cup Range(updates) : AnchoringV2(m) = {}
           \/ /\ code = "STATE_UNPROVABLE"
              /\ read # {} /\ Disclosures(updates[Max(read)]) # 1 }

\* VettedRegistry.in_force: the place among rip and updates of the state in force.
InForce(registry) ==
    Max({n \in DOMAIN registry.updates :
             LET u == registry.updates[n] IN u.said \in registry.blinders /\ ~Vacuous(u)})

\* record.anchors: the sequence number of the event anchoring each, inception first.
Anchors(registry) ==
    LET events == <<registry.rip>> \o registry.updates
    IN [n \in DOMAIN events |-> Sn(AnchoringV2(events[n]))]

\* record.state, of a registry some update of which says something.
State(registry) == registry.updates[InForce(registry)].state

\* The digests the log seals that neither the registry nor the stream explains.
Missing(rip, updates) ==
    (ForLogV2(rip.aid, rip.said) \ Saids({rip} \cup Range(updates))) \ Saids(Carried)

\* The credential the head binds, if it is in the stream, names the registry back
\* and validates against its schema.
Bound(rip, target) ==
    {m \in Carried : m.kind = "acm" /\ m.said = target /\ m.log = rip.said /\ m.valid}

\* One turn of the loop over the inceptions that ends in a refusal.
VetFails ==
    /\ pc = "vet" /\ pending # <<>>
    /\ LET rip == pending[1]
           updates == Updates(rip)
       IN \/ \E code \in Faults(rip, updates) : Refuse(code)
          \/ /\ Faults(rip, updates) = {}
             /\ Missing(rip, updates) # {}
             /\ Refuse("EVENT_MISSING")

\* One that records the registry.
Vet ==
    /\ pc = "vet" /\ pending # <<>>
    /\ LET rip == pending[1]
           updates == Updates(rip)
           bound == Bound(rip, BoundTarget(updates))
       IN /\ Faults(rip, updates) = {}
          /\ Missing(rip, updates) = {}
          /\ registries' = Append(registries,
                [rip |-> rip, updates |-> updates, credential |-> bound,
                 blinders |-> Saids({u \in Range(updates) : Shown(u)})])
    /\ pending' = Tail(pending)
    /\ UNCHANGED <<given, pc, error, standing>>

(***************************************************************************)
(* The rest of the audit: accounting, and completeness of version 1.        *)
(***************************************************************************)

\* Scratch.vetted.
VettedSaids ==
    UNION {Saids({r.rip} \cup Range(r.updates) \cup r.credential) : r \in Range(registries)}

PresentedV1 == {m \in Carried : m.kind \in V1Log}

\* External: the version 1 messages keripy accepts of those presented, once the escrows
\* have settled. Of two events at one place of a log it keeps one; neither is taken here,
\* as one that is left over has the stream refused all the same.
Of(kind) == {m \in Carried : m.kind = kind}
Placed(m) ==
    /\ AnchoringV1(m) # {}
    /\ \A x \in PresentedV1 : x.log = m.log /\ x.sn = m.sn => x = m
Opening == {m \in Of("vcp") : Placed(m)}
Issuing == {m \in Of("iss") : Placed(m) /\ \E x \in Opening : x.log = m.reg}
Revoking == {m \in Of("rev") : Placed(m) /\ \E x \in Issuing : x.log = m.log}
Saved ==
    {m \in Of("acdc") : (\E x \in Opening : x.log = m.log) /\ \E x \in Issuing : x.log = m.said}
AcceptedV1 == Opening \cup Issuing \cup Revoking \cup Saved

Accounted(m) == IF m.kind \in V2Kinds THEN m.said \in VettedSaids ELSE m \in AcceptedV1

\* require_complete_v1: the logs some event of which is presented and not all are.
Incomplete ==
    {log \in {m.log : m \in PresentedV1} : ForLogV1(Aid, log) \ Saids(PresentedV1) # {}}

AccountFails ==
    /\ pc = "vet" /\ pending = <<>>
    /\ \/ (\E m \in Carried : ~Accounted(m)) /\ Refuse("UNACCOUNTED")
       \/ (\A m \in Carried : Accounted(m)) /\ Incomplete # {} /\ Refuse("EVENT_MISSING")

Account ==
    /\ pc = "vet" /\ pending = <<>>
    /\ \A m \in Carried : Accounted(m)
    /\ Incomplete = {}
    /\ pc' = "authorize"
    /\ UNCHANGED <<given, pending, registries, error, standing>>

(***************************************************************************)
(* authorize.                                                              *)
(***************************************************************************)

\* The latest event of a version 1 credential's log: Tever.vcState.
LatestV1(m) ==
    CHOOSE x \in {y \in PresentedV1 : y.log = m.said} :
        \A y \in PresentedV1 : y.log = m.said => y.sn <= x.sn

\* Of the registry, by the identifier a credential gives.
RegistryV2(m) == CHOOSE r \in Range(registries) : r.rip.said = m.log

Mutant_AnchoredAtBefore(r) == Anchors(r)[InForce(r)]

\* anchors[in_force][0]: the inception is at 0 there, at 1 here.
AnchoredAt(r) == Anchors(r)[InForce(r) + 1]

\* _designation: what an accounted credential is worth.
Designation(m) ==
    IF m.kind = "acm"
    THEN LET r == RegistryV2(m)
         IN [creder |-> m, revoked |-> State(r) # "issued", at |-> AnchoredAt(r)]
    ELSE LET latest == LatestV1(m)
         IN [creder |-> m, revoked |-> latest.kind = "rev", at |-> Sn(AnchoringV1(latest))]

\* Whether it is of Aid, in a registry that is Aid's and anchored in Aid's log.
Owned(m) ==
    /\ m.aid = Aid
    /\ \E x \in Carried : x.kind \in {"rip", "vcp"} /\ x.said = m.log /\ x.aid = Aid

\* The sort key of authorize.
Before(a, b) == a.at < b.at \/ (a.at = b.at /\ a.creder.said < b.creder.said)

Granted ==
    {Designation(m) : m \in {x \in Carried : x.kind \in {"acm", "acdc"} /\ Owned(x)}}
Standing == InOrder({d \in Granted : ~d.revoked}, Before)

AuthorizeFails ==
    /\ pc = "authorize"
    /\ \/ (\A m \in Carried : m.kind \notin {"acm", "acdc"}) /\ Refuse("ACDC_MISSING")
       \/ /\ \E m \in Carried : m.kind \in {"acm", "acdc"}
          /\ Granted = {} /\ Refuse("GRANT_MISSING")
       \/ Granted # {} /\ Standing = <<>> /\ Refuse("ACDC_REVOKED")
       \/ /\ Standing # <<>>
          /\ \A d \in Range(Standing) : ~d.creder.covers
          /\ Refuse("GRANT_SCOPE")

Authorize ==
    /\ pc = "authorize"
    /\ \E d \in Range(Standing) : d.creder.covers
    /\ standing' = [n \in DOMAIN Standing |-> Standing[n].creder]
    /\ pc' = "own"
    /\ UNCHANGED <<given, pending, registries, error>>

\* owned, of the messages here: the events of a registry are its issuer's, of either
\* version; those of a version 1 credential are the issuer's of the one that was saved.
IsOwned(m) ==
    IF m \in Credentials THEN m.aid = Aid
    ELSE IF m.kind \in V2Kinds
      THEN \E r \in Range(registries) : r.rip.said = m.log /\ r.rip.aid = Aid
    ELSE IF \E x \in Opening : x.log = m.log
      THEN \E x \in Opening : x.log = m.log /\ x.aid = Aid
    ELSE \E x \in Saved : x.said = m.log /\ x.aid = Aid

\* require_ownership.
OwnFails ==
    /\ pc = "own"
    /\ \E m \in Carried : ~IsOwned(m)
    /\ Refuse("THIRD_PARTY")

Own ==
    /\ pc = "own"
    /\ \A m \in Carried : IsOwned(m)
    /\ pc' = "emit"
    /\ UNCHANGED <<given, pending, registries, error, standing>>

(***************************************************************************)
(* emit_stream: version 1 first, registries before what they issued; then   *)
(* the version 2 credentials and registries, those that bind none first.    *)
(***************************************************************************)

LogOf(said) == InOrder({m \in PresentedV1 : m.log = said}, LAMBDA a, b : a.sn < b.sn)

\* dict.fromkeys.
Distinct(seq) ==
    FlattenSeq([n \in DOMAIN seq |->
        IF \E k \in 1..(n - 1) : seq[k] = seq[n] THEN <<>> ELSE <<seq[n]>>])

EmittedV1 ==
    LET creders == Listed("acdc")
        vcps == Listed("vcp")
        logs == Distinct([n \in DOMAIN creders |-> creders[n].log]
                         \o [n \in DOMAIN vcps |-> vcps[n].log])
    IN FlattenSeq([n \in DOMAIN logs |-> LogOf(logs[n])])
       \o FlattenSeq([n \in DOMAIN creders |-> Append(LogOf(creders[n].said), creders[n])])

\* The registries that bind a credential, or those that do not.
Binding(binds) ==
    FlattenSeq([n \in DOMAIN registries |->
        IF (registries[n].credential # {}) = binds THEN <<registries[n]>> ELSE <<>>])

Mutant_VettedBinding == Binding(TRUE)

\* `vetted`: a stable sort, the registries that bind no credential first.
Vetted == Binding(FALSE) \o Binding(TRUE)

EmittedV2 ==
    FlattenSeq([n \in DOMAIN Vetted |-> SetToSeq(Vetted[n].credential)])
        \o FlattenSeq([n \in DOMAIN Vetted |-> <<Vetted[n].rip>> \o Vetted[n].updates])

\* Only what says which state the registry has.
Mutant_EmittedRidingHead ==
    [u \in DOMAIN riding |->
        [on |-> IF \E r \in Range(Vetted) : r.updates # <<>> /\ u = Last(r.updates).said
                THEN 1 ELSE 0,
         off |-> 0]]

\* registry_v2_bytes: each update with the disclosure it was vetted with, if any.
EmittedRiding ==
    [u \in DOMAIN riding |->
        [on |-> IF \E r \in Range(Vetted) : u \in r.blinders THEN 1 ELSE 0, off |-> 0]]

\* What is hosted is judged in its turn, once.
Emit ==
    /\ pc = "emit"
    /\ round = 1
    /\ frames' = EmittedV1 \o EmittedV2
    /\ riding' = EmittedRiding
    /\ pending' = Listed("rip")'
    /\ registries' = <<>>
    /\ pc' = "gate"
    /\ round' = 2
    /\ first' = [frames |-> frames, standing |-> standing]
    /\ UNCHANGED <<world, kel, error, standing>>

Init ==
    /\ \E sub \in Submissions :
          /\ world = sub.world /\ kel = sub.kel
          /\ frames = sub.frames /\ riding = sub.riding
    /\ pending = Listed("rip")
    /\ registries = <<>>
    /\ pc = "gate" /\ error = "none" /\ standing = <<>>
    /\ round = 1 /\ first = [frames |-> <<>>, standing |-> <<>>]

Next ==
    \/ GateFails \/ Gate
    \/ VetFails \/ Vet
    \/ AccountFails \/ Account
    \/ AuthorizeFails \/ Authorize
    \/ OwnFails \/ Own
    \/ Emit

Spec == Init /\ [][Next]_vars

(***************************************************************************)
(* Properties.                                                             *)
(***************************************************************************)

\* The updates of a registry that are submitted, and those that the issuer's log seals for it.
Known(log, aid) ==
    {m \in world : m.kind = "bup" /\ m.log = log
        /\ (m \in Carried \/ \E seal \in Seals(aid) : seal.d = m.said /\ seal.i \in {log, 0})}

\* That u, of the updates, is the last that says anything.
LastWord(u, updates) ==
    u \in updates /\ ~Vacuous(u) /\ \A v \in updates \ {u} : ~Vacuous(v) => v.sn < u.sn

\* A designation that authorizes a publication is one its issuer has not revoked,
\* as far as the accepted log tells: no choice of which updates, disclosures and
\* events to submit hides a revocation that log seals under the registry's name or
\* under none, nor one it seals alone and in full for a version 1 credential.
RevocationNotHidden ==
    pc = "emit" =>
        \A creder \in Range(standing) :
            IF creder.kind = "acm"
            THEN \E u \in world : /\ LastWord(u, Known(creder.log, creder.aid))
                                 /\ u.names = creder.said /\ u.state = "issued"
            ELSE \A m \in world :
                    m.kind = "rev" /\ m.log = creder.said /\ m.aid = creder.aid
                        => AnchoringV1(m) = {}

\* The key event that put a designation in force, read off the messages.
ForcedAt(creder) ==
    IF creder.kind = "acm"
    THEN LET updates == {m \in Carried : m.kind = "bup" /\ m.log = creder.log}
         IN Sn(AnchoringV2(CHOOSE u \in updates : LastWord(u, updates)))
    ELSE Sn(AnchoringV1(LatestV1(creder)))

\* Designations are published in the order their issuer put them in force, whatever
\* the order of the stream and of the registries in it, so that two resolvers
\* order them alike.
DesignationsInOrder ==
    pc = "emit" =>
        \A j, k \in DOMAIN standing : j < k =>
            \/ ForcedAt(standing[j]) < ForcedAt(standing[k])
            \/ /\ ForcedAt(standing[j]) = ForcedAt(standing[k])
               /\ standing[j].said < standing[k].said

\* Everything submitted is hosted, spare registries and older updates included, and
\* nothing else.
NothingDropped ==
    round = 2 => Carried = Range(first.frames) /\ Len(frames) = Len(first.frames)

\* What is hosted is accepted again and gives the same designations in the same order:
\* the disclosures that are written are the ones that are needed.
HostedVetsAlike ==
    round = 2 => error = "none" /\ standing = first.standing

=============================================================================
