------------------------------- MODULE Ingest -------------------------------
(***************************************************************************)
(* ingest.py and the emission half of assemble.py: a submitted stream is   *)
(* walked, gated, parsed into a scratch database whose escrows are drained *)
(* to a fixpoint, audited against what was walked, checked for an          *)
(* authorizing designation and for ownership, and re-assembled from the    *)
(* accepted state into the stream that is hosted.                          *)
(*                                                                         *)
(* A submission is a set of messages and an order: the parser takes any    *)
(* message of the set next.  What is hosted is then ingested in its turn,  *)
(* in the order it was written, as the resolver that fetches it does.      *)
(* Version 1 transaction logs only.  The error a frame earns when keripy   *)
(* did not accept it is one code here, UNACCOUNTED; which leaf of the      *)
(* taxonomy names it is a matter of wording.                               *)
(***************************************************************************)
EXTENDS Keri, SequencesExt

CONSTANTS
  Claimed,      \* the AID of the DID being published
  Submission    \* the sets of messages that may be submitted

ASSUME IngestAssumption ==
  /\ Claimed \in Aid /\ IsFiniteSet(Aid)
  /\ \A s \in Submission : s \subseteq Frame /\ IsFiniteSet(s)

VARIABLES
  stage,        \* where the pipeline is
  round,        \* 1: the submission; 2: what was hosted, ingested again
  stream,       \* the messages walked
  parsed,       \* those the parser has taken
  db,           \* the scratch database
  escrow,       \* what waits in each escrow
  todo,         \* what this processEscrows call has still to retry
  seen,         \* the escrow state of the pass before
  verdict,      \* the error, or "verified"
  designations, \* the credentials that authorize the publication
  hosted,       \* keri.cesr
  first         \* history: the designations and database of round 1

vars == <<stage, round, stream, parsed, db, escrow, todo, seen, verdict,
          designations, hosted, first>>

Audited == {"ooes", "pdes", "oots", "taes"}
Escrow  == Audited \cup {"mre", "rpes"}
Drain   == <<"ooes", "pdes", "tels", "creds", "rpys">>
Stage   == {"gate", "parse", "compare", "audit", "authorize", "own", "emit",
            "refused", "done"} \cup Range(Drain)

Unset == <<>>

Of(class) == {f \in stream : Event[f].class = class}

Refuse(code) == stage' = "refused" /\ verdict' = code

----------------------------------------------------------------------------
(* Whose frames may appear at all.                                         *)

(* The claimed AID's delegator chain, as the walked dip events declare it. *)
Delegators ==
  LET Closed(above) == \A f \in Of("kel") :
        Event[f].ilk = "dip" /\ Event[f].principal \in above \cup {Claimed} =>
          Event[f].di \in above
  IN  {a \in Aid : \A above \in SUBSET Aid : Closed(above) => a \in above}

Estate == {Claimed} \cup Delegators

Incepted == {f \in Of("tel") : Event[f].ilk = "vcp"}

ThirdParty(f) ==
  CASE Event[f].class \in {"kel", "acdc"} ->
         Event[f].principal \notin Estate \cup {Event[v].issuer : v \in Incepted}
    [] Event[f].class = "tel" ->
         Event[f].principal \notin {Event[v].principal : v \in Incepted} \cup Of("acdc")
    [] OTHER -> FALSE

GateFault ==
  IF stream = {} THEN "STREAM_UNWALKABLE"
  ELSE IF \E f \in stream : ThirdParty(f) THEN "THIRD_PARTY_FRAME"
  ELSE IF \E d \in Delegators : \A f \in Of("kel") : Event[f].principal # d
    THEN "DELEGATOR_MISSING"
  ELSE "none"

Gate ==
  /\ stage = "gate"
  /\ IF GateFault = "none" THEN stage' = "parse" /\ UNCHANGED verdict
                           ELSE Refuse(GateFault)
  /\ UNCHANGED <<round, stream, parsed, db, escrow, todo, seen, designations, hosted, first>>

----------------------------------------------------------------------------
(* Scratch.load: parse, then drain.                                        *)

Judge(f) ==
  LET v == Verdict(db, f) IN
  /\ db' = IF v = "accept" THEN Accepting(db, f) ELSE db
  /\ escrow' = [e \in Escrow |-> IF v = e THEN escrow[e] \cup {f} ELSE escrow[e] \ {f}]

Parse(f) ==
  /\ stage = "parse"
  /\ f \in stream \ parsed
  /\ round = 2 => f = hosted[Cardinality(parsed) + 1]
  /\ Judge(f)
  /\ parsed' = parsed \cup {f}
  /\ UNCHANGED <<stage, round, stream, todo, seen, verdict, designations, hosted, first>>

(* The escrows a phase of the drain retries.                               *)
Waiting(phase) ==
  CASE phase \in {"ooes", "pdes"} -> escrow[phase]
    [] phase = "tels"  -> escrow["oots"] \cup escrow["taes"]
    [] phase = "creds" -> escrow["mre"]
    [] phase = "rpys"  -> escrow["rpes"]

Start(phase) == stage' = phase /\ todo' = Waiting(phase)

Parsed ==
  /\ stage = "parse"
  /\ parsed = stream
  /\ Start(Drain[1])
  /\ UNCHANGED <<round, stream, parsed, db, escrow, seen, verdict, designations, hosted, first>>

(* One entry of an escrow is judged again; those of one key event log are  *)
(* read in sequence order.                                                 *)
Retry(f) ==
  /\ stage \in Range(Drain)
  /\ f \in todo
  /\ Event[f].class = "kel" =>
       \A g \in todo : Event[g].principal = Event[f].principal => Event[f].sn <= Event[g].sn
  /\ Judge(f)
  /\ todo' = todo \ {f}
  /\ UNCHANGED <<stage, round, stream, parsed, seen, verdict, designations, hosted, first>>

NextPhase ==
  /\ stage \in Range(Drain)
  /\ todo = {}
  /\ LET i == CHOOSE i \in DOMAIN Drain : Drain[i] = stage IN
       IF i < Len(Drain) THEN Start(Drain[i + 1]) ELSE stage' = "compare" /\ UNCHANGED todo
  /\ UNCHANGED <<round, stream, parsed, db, escrow, seen, verdict, designations, hosted, first>>

(* Mutant: only the key event escrows are compared.                        *)
Mutant_EscrowStateOfKels == [e \in {"ooes", "pdes"} |-> escrow[e]]

EscrowState == [e \in Audited |-> escrow[e]]

(* Mutant: one pass over the escrows is taken to be enough.                *)
Mutant_CompareOnce ==
  /\ stage = "compare"
  /\ seen' = EscrowState
  /\ stage' = "audit" /\ UNCHANGED todo
  /\ UNCHANGED <<round, stream, parsed, db, escrow, verdict, designations, hosted, first>>

(* Mutant: each pass is compared with the state before the first.          *)
Mutant_CompareForgets ==
  /\ stage = "compare"
  /\ IF seen = EscrowState THEN stage' = "audit" /\ UNCHANGED todo ELSE Start(Drain[1])
  /\ UNCHANGED <<round, stream, parsed, db, escrow, seen, verdict, designations, hosted, first>>

Compare ==
  /\ stage = "compare"
  /\ seen' = EscrowState
  /\ IF seen = EscrowState THEN stage' = "audit" /\ UNCHANGED todo ELSE Start(Drain[1])
  /\ UNCHANGED <<round, stream, parsed, db, escrow, verdict, designations, hosted, first>>

----------------------------------------------------------------------------
(* The audit.                                                              *)

Accepted(f) ==
  CASE Event[f].class = "kel"  -> Seen(db, f)
    [] Event[f].class = "tel"  -> f \in db.tels
    [] Event[f].class = "acdc" -> f \in db.saved
    [] Event[f].class = "rpy"  -> f \in db.rpys

Occupied(f) == Placed(Log(db, Event[f].principal), Event[f].sn) # {}

(* Mutant: any frame that is not the winner at its place is a conflict,    *)
(* first seen or not.                                                      *)
Mutant_DuplicitousSuperseded ==
  {f \in Of("kel") :
    Occupied(f) /\ Winner(Log(db, Event[f].principal), Event[f].sn) # f}

(* What keripy would not accept where it accepted something else.  The     *)
(* likely-duplicitous escrow the code unions with it is inert.             *)
Duplicitous == {f \in Of("kel") : ~Accepted(f) /\ Occupied(f)}

(* The version of the standing event at each place of a log never goes     *)
(* down.                                                                   *)
Regressed ==
  \E a \in {Event[f].principal : f \in Of("kel")} :
    /\ Knows(db, a)
    /\ LET log == Log(db, a) IN
         \E m, n \in 0 .. HeadSn(log) :
           m < n /\ Event[Winner(log, m)].version > Event[Winner(log, n)].version

Unaccounted == {f \in stream : ~Accepted(f)}

(* Mutant: completeness is never asked.                                    *)
Mutant_OmittedNone == {}

(* The events of the presented transaction logs that the claimed AID's     *)
(* log seals, superseded seals included, and the stream leaves out.        *)
Omitted ==
  {Event[e].seal.said : e \in
     {e \in Range(Log(db, Claimed)) :
        Event[e].seal.log \in {Event[t].principal : t \in Of("tel")}}} \ Of("tel")

AuditFault ==
  CASE Duplicitous # {} -> "KEL_FORKED"
    [] Duplicitous = {} /\ Regressed -> "KEL_VERSION_REGRESSED"
    [] Duplicitous = {} /\ ~Regressed /\ Unaccounted # {} -> "UNACCOUNTED"
    [] Duplicitous = {} /\ ~Regressed /\ Unaccounted = {} /\ Omitted # {} ->
         "REGISTRY_EVENT_MISSING"
    [] OTHER -> "none"

Audit ==
  /\ stage = "audit"
  /\ IF AuditFault = "none" THEN stage' = "authorize" /\ UNCHANGED verdict
                            ELSE Refuse(AuditFault)
  /\ UNCHANGED <<round, stream, parsed, db, escrow, todo, seen, designations, hosted, first>>

----------------------------------------------------------------------------
(* The designated-aliases credential.                                      *)

(* The registry names the claimed AID and is sealed in its log.            *)
AnchoredIn(r) ==
  /\ HasRegistry(db, r)
  /\ IssuerOf(r) = Claimed
  /\ \E t \in db.tels \cap Inception(r) : Event[t].anchor \in Range(Log(db, Claimed))

Revoked(c) == \E t \in db.tels : Event[t].ilk = "rev" /\ Event[t].principal = c

Candidates == {c \in Of("acdc") : Event[c].alias}
Granted    == {c \in Candidates : Event[c].principal = Claimed /\ AnchoredIn(Event[c].registry)}

(* Mutant: a credential keripy has saved is taken to stand.                *)
Mutant_StandingSaved == Granted

Standing == {c \in Granted : ~Revoked(c)}

AuthorizeFault ==
  CASE Candidates = {} -> "ALIAS_ACDC_MISSING"
    [] Candidates # {} /\ Granted = {} -> "ALIAS_GRANT_MISSING"
    [] Granted # {} /\ Standing = {} -> "ALIAS_ACDC_REVOKED"
    [] Standing # {} /\ \A c \in Standing : ~Event[c].covers -> "ALIAS_GRANT_SCOPE"
    [] OTHER -> "none"

Authorize ==
  /\ stage = "authorize"
  /\ IF AuthorizeFault = "none"
       THEN stage' = "own" /\ designations' = Standing /\ UNCHANGED verdict
       ELSE Refuse(AuthorizeFault) /\ UNCHANGED designations
  /\ UNCHANGED <<round, stream, parsed, db, escrow, todo, seen, hosted, first>>

----------------------------------------------------------------------------
(* Ownership: every accepted frame is the claimed AID's to publish.        *)

Providers ==
  UNION {LastEstablishment(Log(db, a)).wits : a \in {a \in Estate : Knows(db, a)}}
    \cup {Event[r].eid : r \in {r \in db.rpys \cap stream :
                                  Event[r].role /\ Event[r].cid \in Estate}}

Owned(f) ==
  CASE Event[f].class = "kel"  -> Event[f].principal \in Estate
    [] Event[f].class = "acdc" -> Event[f].principal = Claimed
    [] Event[f].class = "tel"  ->
         IF HasRegistry(db, Event[f].principal)
           THEN IssuerOf(Event[f].principal) = Claimed
           ELSE \E c \in db.saved : c = Event[f].principal /\ Event[c].principal = Claimed
    [] Event[f].class = "rpy"  ->
         /\ f \in db.rpys
         /\ IF Event[f].role THEN Event[f].cid \in Estate
                             ELSE Event[f].eid \in Estate \cup Providers

Settle ==
  /\ stage' = "emit"
  /\ verdict' = "verified"

(* Mutant: whoever is admitted to be judged is hosted.                     *)
Mutant_OwnUnasked ==
  /\ stage = "own"
  /\ Settle
  /\ UNCHANGED <<round, stream, parsed, db, escrow, todo, seen, designations, hosted, first>>

Own ==
  /\ stage = "own"
  /\ IF \A f \in stream : Owned(f) THEN Settle ELSE Refuse("THIRD_PARTY_FRAME")
  /\ UNCHANGED <<round, stream, parsed, db, escrow, todo, seen, designations, hosted, first>>

----------------------------------------------------------------------------
(* assemble.emit_stream.  Frames of one class keep the order of the        *)
(* submission, which here is any order.                                    *)

Orders(S) == SetToSeqs(S)

(* The delegator of an accepted delegated AID, if its log was accepted.    *)
DelegatorOf(a) ==
  IF Knows(db, a) /\ Event[Log(db, a)[1]].ilk = "dip" /\ Knows(db, Event[Log(db, a)[1]].di)
    THEN {Event[Log(db, a)[1]].di} ELSE {}

(* Root delegator first, the claimed AID last.                             *)
DelegationChains ==
  {chain \in UNION {[1 .. n -> Aid] : n \in 1 .. Cardinality(Aid)} :
     /\ chain[Len(chain)] = Claimed
     /\ DelegatorOf(chain[1]) = {}
     /\ \A i \in 2 .. Len(chain) : DelegatorOf(chain[i]) = {chain[i - 1]}}

(* Mutant: a log is written in the order of its sequence numbers.          *)
Mutant_LogsBySequence(chain) ==
  FlattenSeq([i \in DOMAIN chain |->
    SortSeq(Log(db, chain[i]), LAMBDA e, g : Event[e].sn < Event[g].sn)])

Logs(chain) == FlattenSeq([i \in DOMAIN chain |-> Log(db, chain[i])])

(* A transaction log as accepted: the inception, or the issuance and then  *)
(* the revocation.                                                         *)
TelOf(log) ==
  LET of(ilk) == SetToSeq({t \in db.tels : Event[t].principal = log /\ Event[t].ilk = ilk})
  IN  of("vcp") \o of("iss") \o of("rev")

(* The registries of the credentials, then the spare ones, each once.      *)
RegistriesOf(cs, vs) ==
  LET named == [i \in DOMAIN cs |-> Event[cs[i]].registry]
      spare == [i \in DOMAIN vs |-> Event[vs[i]].principal]
      rs    == named \o spare
  IN  FlattenSeq([i \in DOMAIN rs |->
        IF \E j \in 1 .. i - 1 : rs[j] = rs[i] THEN <<>> ELSE <<rs[i]>>])

TelsOf(logs) == FlattenSeq([i \in DOMAIN logs |-> TelOf(logs[i])])

CredentialsOf(cs) == FlattenSeq([i \in DOMAIN cs |-> Append(TelOf(cs[i]), cs[i])])

Assemble(chain, rs, cs, vs) ==
  Logs(chain) \o rs \o TelsOf(RegistriesOf(cs, vs)) \o CredentialsOf(cs)

(* Mutant: the second ingestion finds the database of the first.           *)
Mutant_EmitSharesScratch ==
  /\ stage = "emit"
  /\ round = 1
  /\ \E chain \in DelegationChains, rs \in Orders(Of("rpy")), cs \in Orders(Of("acdc")),
        vs \in Orders(Incepted) :
       hosted' = Assemble(chain, rs, cs, vs)
  /\ stream' = Range(hosted')
  /\ first' = [designations |-> designations, stream |-> stream, db |-> db]
  /\ round' = 2
  /\ stage' = "gate"
  /\ parsed' = {}
  /\ UNCHANGED <<db, escrow, todo, seen, verdict, designations>>

(* The hosted stream is fetched and ingested by the same pipeline, in a    *)
(* scratch database of its own.                                            *)
Emit ==
  /\ stage = "emit"
  /\ round = 1
  /\ \E chain \in DelegationChains, rs \in Orders(Of("rpy")), cs \in Orders(Of("acdc")),
        vs \in Orders(Incepted) :
       hosted' = Assemble(chain, rs, cs, vs)
  /\ stream' = Range(hosted')
  /\ first' = [designations |-> designations, stream |-> stream, db |-> db]
  /\ round' = 2
  /\ stage' = "gate"
  /\ parsed' = {}
  /\ db' = EmptyDb
  /\ escrow' = [e \in Escrow |-> {}]
  /\ todo' = {}
  /\ seen' = Unset
  /\ designations' = {}
  /\ UNCHANGED verdict

Finish ==
  /\ stage = "emit"
  /\ round = 2
  /\ stage' = "done"
  /\ UNCHANGED <<round, stream, parsed, db, escrow, todo, seen, verdict, designations,
                 hosted, first>>

----------------------------------------------------------------------------

Init ==
  /\ stage = "gate"
  /\ round = 1
  /\ stream \in Submission
  /\ parsed = {}
  /\ db = EmptyDb
  /\ escrow = [e \in Escrow |-> {}]
  /\ todo = {}
  /\ seen = Unset
  /\ verdict = "none"
  /\ designations = {}
  /\ hosted = <<>>
  /\ first = [designations |-> {}, stream |-> {}, db |-> EmptyDb]

Next ==
  \/ Gate
  \/ \E f \in Frame : Parse(f) \/ Retry(f)
  \/ Parsed \/ NextPhase \/ Compare
  \/ Audit \/ Authorize \/ Own
  \/ Emit \/ Finish

(* One thread runs the pipeline, and nothing in it waits for anyone.       *)
Spec == Init /\ [][Next]_vars /\ WF_vars(Next)

----------------------------------------------------------------------------
(* Properties.                                                             *)

Judged == {"authorize", "own", "emit", "done"}

(* Every variable has its type.                                            *)
TypeOK ==
  /\ stage \in Stage
  /\ round \in {1, 2}
  /\ stream \subseteq Frame /\ parsed \subseteq stream /\ todo \subseteq stream
  /\ db.tels \cup db.saved \cup db.rpys \subseteq parsed
  /\ \A a \in Aid : Range(db.fels[a]) \subseteq parsed
  /\ \A e \in Escrow : escrow[e] \subseteq parsed
  /\ designations \subseteq Of("acdc")

(* The loop of Scratch.load stops at a fixpoint: nothing is left in an     *)
(* escrow, the unaudited ones included, that another pass would move.      *)
DrainIsComplete ==
  stage = "audit" => \A e \in Escrow : \A f \in escrow[e] : Verdict(db, f) = e

(* What a message needs to have been accepted, whatever the order.         *)
Justified(f, S) ==
  LET e    == Event[f]
      kels == S \cap Of("kel")
      tels == S \cap Of("tel")
      Registered == \E v \in tels : v \in Inception(e.registry)
      HasIssuance(c) == \E t \in tels : Event[t].ilk = "iss" /\ Event[t].principal = c
  IN
  CASE e.class = "kel" ->
         /\ e.genuine
         /\ e.sn > 0 => \E k \in kels : /\ k = e.prior /\ Event[k].principal = e.principal
                                       /\ Event[k].sn = e.sn - 1
         /\ e.ilk = "dip" => \E k \in kels : Event[k].principal = e.di /\ Event[k].seal.said = f
    [] e.class = "tel" ->
         /\ e.anchor \in kels /\ Seals(e.anchor, f)
         /\ e.ilk # "vcp" => Registered
         /\ e.ilk = "rev" => HasIssuance(e.principal)
    [] e.class = "acdc" -> Registered /\ HasIssuance(f)
    [] e.class = "rpy" ->
         /\ e.role => \E k \in kels : Event[k].principal = e.cid
         /\ \A r \in Of("rpy") : SameTopic(r, f) => Event[r].date <= e.date

Supported ==
  LET grow[n \in 0 .. Cardinality(stream)] ==
        IF n = 0 THEN {}
        ELSE LET before == grow[n - 1] IN {f \in stream : Justified(f, before)}
  IN  grow[Cardinality(stream)]

SamePlace(f, g) ==
  /\ f # g
  /\ Event[f].principal = Event[g].principal
  /\ Event[f].sn = Event[g].sn

(* Two messages, of which only one is what the other says it is.           *)
Contended ==
  \/ \E f, g \in Of("kel") : SamePlace(f, g)
  \/ \E f, g \in Of("rpy") : f # g /\ SameTopic(f, g) /\ Event[f].date = Event[g].date

(* Unless two key events claim one place, or two replies on one topic one  *)
(* date, the order of a submission does not decide what is accepted of it: *)
(* exactly what its own frames justify.                                    *)
OrderIsIrrelevant ==
  stage = "audit" /\ ~Contended => {f \in stream : Accepted(f)} = Supported

(* "A first-seen frame is never a fork": the fork verdict falls on a       *)
(* submission that holds a conflicting frame keripy refused, and no        *)
(* submission passes the audit with two events at one place unless a       *)
(* rotation that recovers the log, there or before, came between them.     *)
ForkVerdict ==
  /\ verdict = "KEL_FORKED" =>
       \E f, g \in Of("kel") : SamePlace(f, g) /\ ~Accepted(f) /\ Accepted(g)
  /\ stage \in Judged =>
       \A f, g \in Of("kel") : SamePlace(f, g) =>
         LET log == Log(db, Event[f].principal) IN
           \E i, j \in DOMAIN log :
             /\ {log[i], log[j]} = {f, g} /\ i < j
             /\ \E k \in i + 1 .. j : Event[log[k]].ilk = "rot" /\ Event[log[k]].sn <= Event[f].sn

(* No submission that verifies leaves out the revocation of a credential   *)
(* it rests on, whatever it leaves out: the log it carries seals none.     *)
RevocationNotHidden ==
  round = 2 =>
    \A c \in first.designations : \A e \in Range(first.db.fels[Claimed]) :
      LET sealed == Event[e].seal IN
        ~(sealed.log = c /\ sealed.said \in Frame /\ Event[sealed.said].ilk = "rev")

(* What is hosted is what was submitted, minus no frame and plus none.     *)
NothingDropped == round = 2 => Range(hosted) = first.stream

(* A transaction event accepted before a recovery superseded its anchor.    *)
Unseated(t) ==
  LET k == Event[t].anchor IN
  k # Winner(Log(first.db, Event[k].principal), Event[k].sn)

(* "Every hosted keri.cesr re-ingests cleanly through this same pipeline", *)
(* to the same designations and the same key event log: unless it hosts a  *)
(* transaction event whose anchor a recovery superseded after it was       *)
(* accepted, which a reader meets with its log already recovered.          *)
HostedReingests ==
  ~(\E t \in first.db.tels : Unseated(t)) =>
    /\ round = 2 => stage # "refused"
    /\ stage = "done" =>
         /\ designations = first.designations
         /\ Log(db, Claimed) = Log(first.db, Claimed)

(* Every submission gets an answer.                                        *)
IngestEnds == <>(stage \in {"refused", "done"})
=============================================================================
