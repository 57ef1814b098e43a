-------------------------------- MODULE Keri --------------------------------
(***************************************************************************)
(* What ingest.py relies on in keripy, which is external: the verdict on   *)
(* one message, given what the database has accepted before it.            *)
(*                                                                         *)
(* A message is known by its SAID.  Event says what each one is:           *)
(*   class      "kel", "tel", "acdc" or "rpy"                              *)
(*   principal  whom it is about: an AID, a log, an issuer                 *)
(*   ilk        icp, dip, rot, ixn; vcp, iss, rev                          *)
(*   sn, prior  its place in a key event log and the event before it       *)
(*   seal       what a key event anchors: the log and SAID of one event    *)
(*   di         the delegator of a dip                                     *)
(*   version    the protocol version of a key event                       *)
(*   wits       the witnesses an establishment event names                 *)
(*   genuine    its signatures verify                                      *)
(*   registry   the registry of a TEL event, a vcp's own, or a credential's *)
(*   issuer     the AID a vcp names in `ii`                                *)
(*   anchor     the key event a TEL event claims to be sealed by           *)
(*   alias, covers  a credential of the designated-aliases schema, and one *)
(*              that designates both spellings of the DID                  *)
(*   role, cid, eid, date  a reply: role authorization or location scheme, *)
(*              whom it binds, the endpoint, and when it was made          *)
(***************************************************************************)
EXTENDS Integers, Sequences, FiniteSets, Functions

CONSTANTS
  Aid,          \* autonomic identifiers with key event logs
  Event,        \* a function from SAIDs to what each message is
  AnchorStands  \* TRUE: a TEL event's anchor must not be superseded when it
                \* is judged.  Which of the two keripy asks is not settled by
                \* anything in this repository.

Frame == DOMAIN Event

KelIlk  == {"icp", "dip", "rot", "ixn"}
TelIlk  == {"vcp", "iss", "rev"}
NoSeal  == [log |-> "", said |-> ""]

ASSUME KeriAssumption ==
  /\ AnchorStands \in BOOLEAN
  /\ \A f \in Frame :
       /\ Event[f].class \in {"kel", "tel", "acdc", "rpy"}
       /\ Event[f].class = "kel" =>
            /\ Event[f].principal \in Aid /\ Event[f].ilk \in KelIlk /\ Event[f].sn \in Nat
            /\ Event[f].ilk \in {"icp", "dip"} <=> Event[f].sn = 0
       /\ Event[f].class = "tel" => Event[f].ilk \in TelIlk
       /\ Event[f].class = "rpy" => Event[f].role \in BOOLEAN /\ Event[f].date \in Nat

(* The database: key event logs in first-seen order, and the transaction   *)
(* events, credentials and replies accepted.                               *)
EmptyDb == [fels |-> [a \in Aid |-> <<>>], tels |-> {}, saved |-> {}, rpys |-> {}]

Log(db, a) == db.fels[a]
Seen(db, e) == Event[e].principal \in Aid /\ e \in Range(Log(db, Event[e].principal))
Knows(db, a) == a \in Aid /\ Log(db, a) # <<>>

(* Each acceptance moves the head of the log to the event accepted, a      *)
(* recovery moving it back, so the last one first seen is the head.        *)
HeadSn(log) == Event[log[Len(log)]].sn

(* kels.getLast: the event that stands at a sequence number, or none.      *)
Placed(log, n) == {i \in DOMAIN log : Event[log[i]].sn = n}
Winner(log, n) == log[CHOOSE i \in Placed(log, n) : \A j \in Placed(log, n) : j <= i]

LastEstablishment(log) ==
  LET est == {i \in DOMAIN log : Event[log[i]].ilk # "ixn"}
  IN  Event[log[CHOOSE i \in est : \A j \in est : j <= i]]

Sealed(db, e) ==
  LET by == Event[e].di IN
  Knows(db, by) /\ \E i \in DOMAIN Log(db, by) : Event[Log(db, by)[i]].seal.said = e

(* The superseding rule: a rotation may take the place of interactions     *)
(* signed since the last establishment.                                    *)
Recovers(log, e) ==
  /\ Event[e].ilk = "rot"
  /\ Event[e].sn <= HeadSn(log)
  /\ Event[e].sn > LastEstablishment(log).sn
  /\ Event[e].prior = Winner(log, Event[e].sn - 1)

----------------------------------------------------------------------------
(* The verdict on a message: "accept", the escrow it waits in, or "drop".  *)

KelVerdict(db, e) ==
  LET log == Log(db, Event[e].principal)
      sn  == Event[e].sn
  IN  IF ~Event[e].genuine THEN "drop"
      ELSE IF Seen(db, e) THEN "accept"
      ELSE IF log = <<>>
        THEN IF sn > 0 THEN "ooes"
             ELSE IF Event[e].ilk = "dip" /\ ~Sealed(db, e) THEN "pdes" ELSE "accept"
      ELSE IF sn > HeadSn(log) + 1 THEN "ooes"
      ELSE IF \/ sn = HeadSn(log) + 1 /\ Event[e].prior = log[Len(log)]
              \/ Recovers(log, e)
        THEN "accept"
        ELSE "drop"

Inception(r) == {t \in Frame : Event[t].class = "tel" /\ Event[t].ilk = "vcp"
                               /\ Event[t].principal = r}
HasRegistry(db, r) == \E t \in db.tels : t \in Inception(r)
IssuerOf(r) == Event[CHOOSE t \in Inception(r) : TRUE].issuer
Issued(db, c) == \E t \in db.tels : Event[t].ilk = "iss" /\ Event[t].principal = c

(* Tever.verifyAnchor: the claimed anchor is in the issuer's log, seals    *)
(* exactly this event of this log, and, on one reading, still stands.      *)
Seals(k, t) ==
  /\ k \in Frame
  /\ Event[k].seal = [log |-> Event[t].principal, said |-> t]
  /\ Event[k].principal = IssuerOf(Event[t].registry)

Anchored(db, t) ==
  LET k == Event[t].anchor
  IN  /\ Seals(k, t)
      /\ Seen(db, k)
      /\ AnchorStands => k = Winner(Log(db, Event[k].principal), Event[k].sn)

TelVerdict(db, t) ==
  LET e == Event[t] IN
  IF t \in db.tels THEN "accept"
  ELSE IF \/ e.ilk # "vcp" /\ ~HasRegistry(db, e.registry)
          \/ e.ilk = "rev" /\ ~Issued(db, e.principal)
    THEN "oots"
  ELSE IF Anchored(db, t) THEN "accept" ELSE "taes"

CredentialVerdict(db, c) ==
  IF HasRegistry(db, Event[c].registry) /\ Issued(db, c) THEN "accept" ELSE "mre"

(* Replies about one thing: only a newer one takes another's place.  A     *)
(* location scheme is signed by the endpoint, which here is its own key.   *)
SameTopic(r, s) == \A k \in {"role", "cid", "eid"} : Event[r][k] = Event[s][k]

ReplyVerdict(db, r) ==
  IF r \in db.rpys THEN "accept"
  ELSE IF Event[r].role /\ ~Knows(db, Event[r].cid) THEN "rpes"
  ELSE IF \E s \in db.rpys : SameTopic(r, s) /\ Event[s].date >= Event[r].date THEN "drop"
  ELSE "accept"

Verdict(db, f) ==
  CASE Event[f].class = "kel"  -> KelVerdict(db, f)
    [] Event[f].class = "tel"  -> TelVerdict(db, f)
    [] Event[f].class = "acdc" -> CredentialVerdict(db, f)
    [] Event[f].class = "rpy"  -> ReplyVerdict(db, f)

(* The database after accepting f.                                         *)
Accepting(db, f) ==
  CASE Event[f].class = "kel" ->
         IF Seen(db, f) THEN db
         ELSE [db EXCEPT !.fels[Event[f].principal] = Append(@, f)]
    [] Event[f].class = "tel"  -> [db EXCEPT !.tels = @ \cup {f}]
    [] Event[f].class = "acdc" -> [db EXCEPT !.saved = @ \cup {f}]
    [] Event[f].class = "rpy"  ->
         [db EXCEPT !.rpys = {s \in @ : ~SameTopic(s, f)} \cup {f}]
=============================================================================
