------------------------------ MODULE Document ------------------------------
(***************************************************************************)
(* document.py: the DID document as a projection of accepted state -- the   *)
(* signing threshold, the endpoints, the delegator's, the aliases -- and    *)
(* the did:web form of it that is hosted.                                  *)
(*                                                                         *)
(* The state it reads is what keripy keeps of a submission: replies come in *)
(* any order and the newest of a topic stays (external).  A designated      *)
(* identifier is its method, the name it stands for and the AID it ends on,  *)
(* and how it is spelled: two spellings are two strings of one identifier.  *)
(* A threshold is a number of keys, or clauses of weighted groups: a key of *)
(* its own is the group of one.  A key is known by its place <<clause,      *)
(* group, key>>; a weight is a fraction <<n, d>>.                           *)
(***************************************************************************)
EXTENDS Integers, SequencesExt

CONSTANTS
    Aid,    \* the AID of the DID
    Name,   \* the rest of the DID: host, port and path
    Inputs  \* records [keys, threshold, wits, replies, anchoring, designated]

VARIABLES
    given,      \* the input
    pending,    \* the replies keripy has not come to
    ends, locs, \* Baser.ends and Baser.locs: the newest reply of each topic
    pc,         \* "parse", "derive", "transform" or "end"
    outcome,    \* "none", a code, or "fault" for an exception that is no refusal
    doc,        \* the did:webs document
    hosted      \* its did:web form

vars == <<given, pending, ends, locs, pc, outcome, doc, hosted>>

\* A fraction, and what a clause is made of: a plain key is the group of one.
Weight == Nat \X (Nat \ {0})
Group == [w : Weight, of : Seq(Weight)]
Listed(designated) == UNION {Range(list) : list \in Range(designated)}

\* What keripy has accepted: an event that its own threshold was met for, witnesses
\* each once, replies that bear a date.
DocumentAssumption ==
    \A g \in Inputs :
        /\ g.threshold \in [keys : Nat, num : Nat, clauses : Seq(Seq(Group))]
        /\ g.threshold.clauses = <<>> => g.threshold.num > 0
        /\ \A clause \in Range(g.threshold.clauses) : \A group \in Range(clause) :
              Len(group.of) = 1 => group.of[1] = <<1, 1>>
        /\ g.wits \in Seq(Int) /\ IsInjective(g.wits)
        /\ IsFiniteSet(g.replies)
        /\ \A r \in g.replies : r.eid \in Int /\ r.stamp \in Nat
        /\ g.designated \in Seq(Seq(Listed(g.designated)))

ASSUME DocumentAssumption

(***************************************************************************)
(* Verification methods and the threshold.                                 *)
(***************************************************************************)

\* The product of the denominators.
Product(weights) ==
    LET product[n \in 0 .. Len(weights)] ==
            IF n = 0 THEN 1 ELSE product[n - 1] * weights[n][2]
    IN product[Len(weights)]

Mutant_LcdGreatest(weights) == Max({1} \cup {w[2] : w \in Range(weights)})

\* math.lcm of the denominators.
Lcd(weights) ==
    Min({m \in 1..Product(weights) : \A w \in Range(weights) : m % w[2] = 0})

Plain(group) == Len(group.of) = 1

\* What ConditionalProof2022 can say: a count, or one flat clause.
Expressible(t) ==
    t.clauses = <<>> \/ (Len(t.clauses) = 1 /\ \A g \in Range(t.clauses[1]) : Plain(g))

\* threshold_method: the threshold and each key's weight, {} for no such method.
ThresholdMethod(t) ==
    IF t.clauses = <<>>
    THEN IF t.num <= 1 THEN {}
         ELSE {[threshold |-> t.num, weight |-> [n \in 1..t.keys |-> 1]]}
    ELSE LET weights == [n \in DOMAIN t.clauses[1] |-> t.clauses[1][n].w]
             lcd == Lcd(weights)
         IN {[threshold |-> lcd,
              weight |-> [n \in DOMAIN weights |-> (weights[n][1] * lcd) \div weights[n][2]]]}

(***************************************************************************)
(* Services.                                                               *)
(***************************************************************************)

Schemes == <<"https", "http">>
Roles == <<"mailbox", "agent">>

Mutant_UrlsAll(eid) == {loc.scheme : loc \in {x \in locs : x.eid = eid}}

\* _urls: the schemes an endpoint has declared and not withdrawn.
Urls(eid) == {loc.scheme : loc \in {x \in locs : x.eid = eid /\ x.on}}

\* The endpoints of a role, in the database's order of keys.
Authorized(role) ==
    CHOOSE eids \in SetToSeqs({end.eid : end \in {x \in ends : x.role = role /\ x.on}}) :
        \A j, k \in DOMAIN eids : j < k => eids[j] < eids[k]

Service(eid, role) == [id |-> eid, type |-> role, at |-> Urls(eid)]

\* _service, of each endpoint that has a URL.
Located(eids, role) ==
    FlattenSeq([n \in DOMAIN eids |->
        IF Urls(eids[n]) = {} THEN <<>> ELSE <<Service(eids[n], role)>>])

\* The seals of the event anchoring the delegate's inception that name the delegate.
Naming(seals) == {n \in DOMAIN seals : seals[n].i = Aid}

\* delegator_service takes the first; one that is no mapping, before it, is an error.
SealFault(seals) == \E n \in DOMAIN seals : seals[n].bare /\ \A k \in Naming(seals) : n < k
Committed(seals) == seals[CHOOSE n \in Naming(seals) : \A k \in Naming(seals) : n <= k].d

\* _oobi: on the best of the schemes the delegator declared.
Oobi(eid) ==
    LET declared == {n \in DOMAIN Schemes : Schemes[n] \in Urls(eid)}
    IN IF declared = {} THEN {} ELSE {Schemes[Min(declared)]}

\* Whether there is an entry for the delegator.
HasDelegatorService == given.anchoring.seals # <<>> /\ Oobi(given.anchoring.by) # {}

DelegatorService ==
    [id |-> Committed(given.anchoring.seals), type |-> "delegator",
     at |-> Oobi(given.anchoring.by)]

\* services: the witnesses', those of either role, the delegator's.
Services ==
    Located(given.wits, "witness")
        \o FlattenSeq([n \in DOMAIN Roles |-> Located(Authorized(Roles[n]), Roles[n])])
        \o (IF HasDelegatorService THEN <<DelegatorService>> ELSE <<>>)

(***************************************************************************)
(* Aliases.                                                                *)
(***************************************************************************)

Entry(method, name, aid, spelling) ==
    [method |-> method, name |-> name, aid |-> aid, spelling |-> spelling]

\* The identifier a text stands for, whatever its spelling.
Identifier(e) == <<e.method, e.name, e.aid>>
Readable(e) == e.method \in {"webs", "web"}
Subject == Entry("webs", Name, Aid, 0)
KeriForm == Entry("keri", "", Aid, 0)

\* dict.fromkeys: each text once, where it comes first.
Once(seq) ==
    FlattenSeq([n \in DOMAIN seq |->
        IF \E k \in 1 .. n - 1 : seq[k] = seq[n] THEN <<>> ELSE <<seq[n]>>])

\* Verified.ids.
Ids == Once(FlattenSeq(given.designated))

\* Only the subject's own spelling of it left out.
Mutant_AlsoKnownAsText(ids) ==
    Append(SelectSeq(ids, LAMBDA e : Readable(e) /\ e # Subject), KeriForm)

Alias(e) == Readable(e) /\ Identifier(e) # Identifier(Subject)

\* also_known_as, of identifiers that all name the AID.
AlsoKnownAs(ids) ==
    Append(FlattenSeq([n \in DOMAIN ids |-> IF Alias(ids[n]) THEN <<ids[n]>> ELSE <<>>]),
           KeriForm)

(***************************************************************************)
(* Steps.                                                                  *)
(***************************************************************************)

SameTopic(a, b) == a.eid = b.eid /\ a.role = b.role /\ a.scheme = b.scheme
Stored == ends \cup locs

\* External: the newest reply of a topic is kept, in whatever order they come.
Accept ==
    /\ pc = "parse"
    /\ \E r \in pending :
          LET older == {x \in Stored : SameTopic(x, r)}
              kept == IF \A x \in older : x.stamp < r.stamp
                      THEN (Stored \ older) \cup {r} ELSE Stored
          IN /\ pending' = pending \ {r}
             /\ ends' = {x \in kept : x.role # ""}
             /\ locs' = {x \in kept : x.role = ""}
    /\ UNCHANGED <<given, pc, outcome, doc, hosted>>

Ingested ==
    /\ pc = "parse" /\ pending = {}
    /\ pc' = "derive"
    /\ UNCHANGED <<given, pending, ends, locs, outcome, doc, hosted>>

Raise(code) ==
    /\ outcome' = code
    /\ pc' = "end"
    /\ UNCHANGED <<given, pending, ends, locs, doc, hosted>>

\* project_document, in the order its parts are evaluated.
KeyFails ==
    /\ pc = "derive"
    /\ \/ given.keys # "ed25519" /\ Raise("KEY_ALG_UNSUPPORTED")
       \/ /\ given.keys = "ed25519"
          /\ ~Expressible(given.threshold) /\ Raise("THRESHOLD_UNSUPPORTED")

KeysProject == given.keys = "ed25519" /\ Expressible(given.threshold)

ServiceFails ==
    /\ pc = "derive" /\ KeysProject
    /\ HasDelegatorService /\ SealFault(given.anchoring.seals)
    /\ Raise("fault")

ServicesProject == HasDelegatorService => ~SealFault(given.anchoring.seals)

Foreign == {n \in DOMAIN Ids : Readable(Ids[n]) /\ Ids[n].aid # Aid}

AliasFails ==
    /\ pc = "derive" /\ KeysProject /\ ServicesProject
    /\ Foreign # {}
    /\ Raise("ALIAS_AID_MISMATCH")

Derive ==
    /\ pc = "derive" /\ KeysProject /\ ServicesProject
    /\ Foreign = {}
    /\ doc' = [id |-> Subject, threshold |-> ThresholdMethod(given.threshold),
               service |-> Services, alsoKnownAs |-> AlsoKnownAs(Ids)]
    /\ pc' = "transform"
    /\ UNCHANGED <<given, pending, ends, locs, outcome, hosted>>

WebForm == Entry("web", Name, Aid, 0)

\* to_did_web.
Transform ==
    /\ pc = "transform"
    /\ LET Reciprocal(e) == Identifier(e) = Identifier(WebForm)
           swapped == [n \in DOMAIN doc.alsoKnownAs |->
                          IF Reciprocal(doc.alsoKnownAs[n]) THEN Subject ELSE doc.alsoKnownAs[n]]
           replaced == \E n \in DOMAIN doc.alsoKnownAs : Reciprocal(doc.alsoKnownAs[n])
       IN hosted' = [doc EXCEPT !.id = WebForm,
                                !.alsoKnownAs = IF replaced THEN swapped
                                                ELSE <<Subject>> \o swapped]
    /\ pc' = "end"
    /\ UNCHANGED <<given, pending, ends, locs, outcome, doc>>

NoDocument == [id |-> Subject, threshold |-> {}, service |-> <<>>, alsoKnownAs |-> <<>>]

Init ==
    /\ given \in Inputs
    /\ pending = given.replies
    /\ ends = {} /\ locs = {}
    /\ pc = "parse" /\ outcome = "none"
    /\ doc = NoDocument /\ hosted = NoDocument

Next ==
    \/ Accept \/ Ingested
    \/ KeyFails \/ ServiceFails \/ AliasFails \/ Derive
    \/ Transform

Spec == Init /\ [][Next]_vars

(***************************************************************************)
(* Properties.                                                             *)
(***************************************************************************)

Published == pc = "end" /\ outcome = "none"

Total(amounts) ==
    LET total[n \in 0 .. Len(amounts)] == IF n = 0 THEN 0 ELSE total[n - 1] + amounts[n]
    IN total[Len(amounts)]

\* The sum of the fractions at these places is at least one, over the product of all
\* denominators.
Reaches(fractions, places) ==
    Total([n \in DOMAIN fractions |->
              IF n \in places THEN (fractions[n][1] * Product(fractions)) \div fractions[n][2]
              ELSE 0]) >= Product(fractions)

\* The places of the keys of a threshold.
Places(t) ==
    IF t.clauses = <<>> THEN {<<1, n, 1>> : n \in 1..t.keys}
    ELSE UNION {UNION {{<<c, g, k>> : k \in DOMAIN t.clauses[c][g].of} :
                          g \in DOMAIN t.clauses[c]} : c \in DOMAIN t.clauses}

\* Whether keripy takes the signatures of the keys at these places for enough.
Satisfied(t, signed) ==
    IF t.clauses = <<>> THEN Cardinality(signed) >= t.num
    ELSE \A c \in DOMAIN t.clauses :
            LET clause == t.clauses[c]
                Holds(g) ==
                    Reaches(clause[g].of, {k \in DOMAIN clause[g].of : <<c, g, k>> \in signed})
            IN Reaches([g \in DOMAIN clause |-> clause[g].w], {g \in DOMAIN clause : Holds(g)})

\* Whether the document takes them for enough: any one key it lists, or the proof.
Authenticates(document, signed) ==
    IF document.threshold = {} THEN signed # {}
    ELSE LET proof == CHOOSE p \in document.threshold : TRUE
         IN Total([n \in DOMAIN proof.weight |->
                      IF <<1, n, 1>> \in signed THEN proof.weight[n] ELSE 0]) >= proof.threshold

\* What a published document asks of a signature is what the controller committed to:
\* the same sets of keys are enough, none fewer and none more (KRT-F3, document.py:131-138).
ThresholdIsKept ==
    Published =>
        \A signed \in SUBSET Places(given.threshold) :
            Authenticates(hosted, signed) <=> Satisfied(given.threshold, signed)

\* The newest of the replies on a topic.
Newest == {r \in given.replies : \A x \in given.replies : SameTopic(x, r) => x.stamp <= r.stamp}

\* Two replies on one topic with one date: which of them stays depends on their order.
Contended == \E x, y \in given.replies : x # y /\ SameTopic(x, y) /\ x.stamp = y.stamp

\* The services are those the newest replies leave, in whatever order the replies came:
\* no endpoint that was withdrawn or cut off, none without a location, none left out and
\* none twice in one role.
ServicesAreCurrent ==
    Published /\ ~Contended =>
        LET At(eid) == {r.scheme : r \in {x \in Newest : x.role = "" /\ x.eid = eid /\ x.on}}
            witnesses == {<<eid, "witness">> : eid \in Range(given.wits)}
            providers == {<<r.eid, r.role>> : r \in {x \in Newest : x.role \in Range(Roles) /\ x.on}}
            listed == {s \in Range(hosted.service) : s.type # "delegator"}
        IN /\ listed = {[id |-> p[1], type |-> p[2], at |-> At(p[1])] :
                            p \in {q \in witnesses \cup providers : At(q[1]) # {}}}
           /\ IsInjective([n \in DOMAIN hosted.service |->
                              <<hosted.service[n].id, hosted.service[n].type>>])

\* Neither form lists itself among its aliases, under any spelling; the hosted form has
\* the did:webs form among them; and every alias is of the AID that is verified.
AliasesAreOfTheSubject ==
    Published =>
        /\ \A e \in Range(doc.alsoKnownAs) : Identifier(e) # Identifier(doc.id)
        /\ \A e \in Range(hosted.alsoKnownAs) : Identifier(e) # Identifier(hosted.id)
        /\ Subject \in Range(hosted.alsoKnownAs)
        /\ \A e \in Range(hosted.alsoKnownAs) : e.aid = Aid

=============================================================================
