------------------------------ MODULE MCIngest ------------------------------
(***************************************************************************)
(* Instances of Ingest for TLC: the messages of three small worlds.        *)
(***************************************************************************)
EXTENDS Ingest, TLC

Blank ==
  [class |-> "", principal |-> "", ilk |-> "", sn |-> 0, prior |-> "", seal |-> NoSeal,
   di |-> "", version |-> 1, wits |-> {}, genuine |-> TRUE, registry |-> "",
   issuer |-> "", anchor |-> "", alias |-> FALSE, covers |-> FALSE,
   role |-> FALSE, cid |-> "", eid |-> "", date |-> 0]

Kel(aid, ilk, sn, prior, log, said) ==
  [Blank EXCEPT !.class = "kel", !.principal = aid, !.ilk = ilk, !.sn = sn,
                !.prior = prior, !.seal = [log |-> log, said |-> said]]
Tel(ilk, log, registry, issuer, anchor) ==
  [Blank EXCEPT !.class = "tel", !.ilk = ilk, !.principal = log, !.registry = registry,
                !.issuer = issuer, !.anchor = anchor]
Credential(issuer, registry, covers) ==
  [Blank EXCEPT !.class = "acdc", !.principal = issuer, !.registry = registry,
                !.alias = TRUE, !.covers = covers]
Role(cid, eid, date) ==
  [Blank EXCEPT !.class = "rpy", !.role = TRUE, !.cid = cid, !.eid = eid, !.date = date]
Location(eid, date) == [Blank EXCEPT !.class = "rpy", !.eid = eid, !.date = date]

(* A controller that issues its designation and revokes it.  The event     *)
(* that seals the revocation has a rival, and a recovery may supersede     *)
(* either, or go back as far as the issuance, and the log go on from it.   *)
Own1 ==
  [a0 |-> Kel("A", "icp", 0, "", "", ""),
   a1 |-> Kel("A", "ixn", 1, "a0", "R", "vcp"),
   a2 |-> Kel("A", "ixn", 2, "a1", "C", "iss"),
   a3 |-> Kel("A", "ixn", 3, "a2", "C", "rev"),
   f3 |-> Kel("A", "ixn", 3, "a2", "", ""),
   r3 |-> Kel("A", "rot", 3, "a2", "", ""),
   r2 |-> Kel("A", "rot", 2, "a1", "", ""),
   s3 |-> Kel("A", "ixn", 3, "r2", "", ""),
   vcp |-> Tel("vcp", "R", "R", "A", "a1"),
   iss |-> Tel("iss", "C", "R", "", "a2"),
   rev |-> Tel("rev", "C", "R", "", "a3"),
   C |-> Credential("A", "R", TRUE)]

(* A delegated controller, its delegator, a mailbox that tells where it    *)
(* is, and a spare registry.                                               *)
Own2 ==
  [d0 |-> Kel("D", "icp", 0, "", "", ""),
   d1 |-> Kel("D", "ixn", 1, "d0", "A", "b0"),
   b0 |-> [Kel("A", "dip", 0, "", "", "") EXCEPT !.di = "D"],
   b1 |-> Kel("A", "ixn", 1, "b0", "S", "bvcp"),
   b2 |-> Kel("A", "ixn", 2, "b1", "B", "biss"),
   b3 |-> Kel("A", "ixn", 3, "b2", "T", "spare"),
   bvcp |-> Tel("vcp", "S", "S", "A", "b1"),
   biss |-> Tel("iss", "B", "S", "", "b2"),
   spare |-> Tel("vcp", "T", "T", "A", "b3"),
   B |-> Credential("A", "S", TRUE)]

(* A stranger's whole publication, replies about the controller's mailbox  *)
(* M, two of them on one topic, and further events of the controller's     *)
(* log: one in version 2 and one after it back in version 1, a recovery    *)
(* from both, a recovery from the spare registry, and one nobody signed.   *)
Strange ==
  [x0 |-> Kel("X", "icp", 0, "", "", ""),
   x1 |-> Kel("X", "ixn", 1, "x0", "XR", "xvcp"),
   xvcp |-> Tel("vcp", "XR", "XR", "X", "x1"),
   role1 |-> Role("A", "M", 1),
   role2 |-> Role("A", "M", 2),
   loc |-> Location("M", 1),
   u4 |-> [Kel("A", "ixn", 4, "b3", "", "") EXCEPT !.version = 2],
   u5 |-> Kel("A", "ixn", 5, "u4", "", ""),
   w4 |-> Kel("A", "rot", 4, "b3", "", ""),
   w3 |-> Kel("A", "rot", 3, "b2", "", ""),
   forged |-> [Kel("A", "ixn", 3, "b2", "", "") EXCEPT !.genuine = FALSE]]

(* A definition of its own, so that TLC puts the worlds together once.     *)
Worlds == Own1 @@ Own2 @@ Strange
MCEvent == Worlds
MCAid == {"A", "D", "X"}

(* The first world up to the seal of the issuance, its credential, and any *)
(* part of the rest; the longer recovery goes on in some.                  *)
Issuance == {"a0", "a1", "a2", "vcp", "C"}
MCRecovery ==
  {Issuance \cup s : s \in SUBSET {"a3", "f3", "r3", "r2", "iss", "rev"}}
    \cup {Issuance \cup {"r2", "s3"} \cup s : s \in {{"iss"}, {"f3", "iss"}}}
(* The second whole, or without one of its messages, or with one further   *)
(* event; and without the spare registry, with replies or the stranger's   *)
(* publication.                                                            *)
Replies == {"role1", "role2", "loc"}
Stranger == {"x0", "x1", "xvcp"}
Unspared == DOMAIN Own2 \ {"b3", "spare"}
MCEstate ==
  {DOMAIN Own2 \ {f} : f \in DOMAIN Own2}
    \cup {DOMAIN Own2 \cup s : s \in {{}, {"u4", "u5"}, {"u4", "u5", "w4"}, {"w3"}, {"forged"}}}
    \cup {Unspared \cup s : s \in SUBSET Replies}
    \cup {Unspared \cup s : s \in {Stranger, Stranger \ {"xvcp"}}}
MCSubmission == MCRecovery \cup MCEstate
=============================================================================
