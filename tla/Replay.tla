------------------------------- MODULE Replay -------------------------------
(***************************************************************************)
(* The key event logs as assemble.emit_stream writes them: the delegators'  *)
(* before the delegate's, each in the order it was first seen, each event   *)
(* in its own genus, and with a version 1 event the receipts of its         *)
(* witnesses, made of the indexed signatures keripy stored.                *)
(*                                                                         *)
(* A log is a sequence of events in first-seen order.  An event has         *)
(*   v        its version                                                  *)
(*   prior    the place in its log of the event it follows, 0 for an        *)
(*            inception; a recovery follows an earlier event than the last  *)
(*   estive   whether it establishes keys and witnesses                     *)
(*   wits     the witnesses in force after it, db.wits, if it is estive      *)
(*   wigs     db.wigs: the signatures stored, each the place of a witness    *)
(*            in a list and the witness it is really of                     *)
(*   clone    the shape of keripy's clone of it (external): "usual", or      *)
(*            with a wrapper that miscounts, or not ended by the couple     *)
(*            that says when it was first seen                              *)
(* Lengths are in quadlets of four characters.                             *)
(***************************************************************************)
EXTENDS Integers, SequencesExt

CONSTANTS
    Aid,        \* the claimed AID
    Witness,    \* witnesses
    Stores      \* scratch databases: [kevers, delegator, logs], by AID

VARIABLES
    store,      \* the scratch database
    chain,      \* the AIDs whose logs are still to be written
    at,         \* how many events of the first are
    witnesses,  \* the witness list `_kel_pieces` has come to
    pieces,     \* the events written
    outcome     \* "none", "corrupt" or "emitted"

vars == <<store, chain, at, witnesses, pieces, outcome>>

Events ==
    [v : 1..2, prior : Nat, estive : BOOLEAN, wits : Seq(Witness),
     wigs : Seq([index : Int, by : Witness]), clone : {"usual", "miscounted", "unended"}]

\* A log begins with its inception, and an interaction follows the event before it: keripy
\* takes a recovery by a rotation alone.
Recoverable(log) == \A n \in DOMAIN log : ~log[n].estive => n > 1 /\ log[n].prior = n - 1

\* keripy accepts no delegated inception before the delegator's own log, which anchors it.
ASSUME ReplayAssumption ==
    \A s \in Stores :
        /\ IsFiniteSet(s.kevers) /\ Aid \in s.kevers
        /\ \A a \in s.kevers : s.logs[a] \in Seq(Events) /\ Recoverable(s.logs[a])
        /\ \E accepted \in [s.kevers -> 1..Cardinality(s.kevers)] :
              \A a \in s.kevers :
                  s.delegator[a] \in s.kevers => accepted[s.delegator[a]] < accepted[a]

(***************************************************************************)
(* _delegation_chain.                                                      *)
(***************************************************************************)

\* One turn of the loop: the delegator of the first, if its log is known.
Mutant_ClimbBehind(aids, s) ==
    LET delegator == s.delegator[Last(aids)]
    IN IF delegator \in s.kevers THEN Append(aids, delegator) ELSE aids

Climb(aids, s) ==
    LET delegator == s.delegator[Head(aids)]
    IN IF delegator \in s.kevers THEN <<delegator>> \o aids ELSE aids

\* The chain and the AID it leads to. There are no more turns than logs.
DelegationChain(s) ==
    LET climbed[n \in 0..Cardinality(s.kevers)] ==
            IF n = 0 THEN <<Aid>> ELSE Climb(climbed[n - 1], s)
    IN climbed[Cardinality(s.kevers)]

(***************************************************************************)
(* One event.                                                              *)
(***************************************************************************)

Group(code, size) == [code |-> code, size |-> size]
SizeOf(groups) ==
    LET sum[n \in 0..Len(groups)] == IF n = 0 THEN 0 ELSE sum[n - 1] + groups[n].size
    IN sum[Len(groups)]
FirstSeen == Group("firstseen", 16)

\* External: cloneEvtMsg, with what is attached in either genus.
CloneOf(e) ==
    LET signed == <<Group("sigs", 23)>>
                      \o (IF e.wigs = <<>> THEN <<>> ELSE <<Group("wigs", 1 + 22 * Len(e.wigs))>>)
        groups == IF e.clone = "unended" THEN <<FirstSeen>> \o signed ELSE Append(signed, FirstSeen)
    IN [v |-> e.v, wrapper |-> SizeOf(groups) + (IF e.clone = "miscounted" THEN 1 ELSE 0),
        groups |-> groups, receipts |-> <<>>]

\* _witness_receipt_couples: every signature verifies by the witness at its place.
Verified(wigs, wits) ==
    \A n \in DOMAIN wigs : wigs[n].index \in 0..(Len(wits) - 1) /\ wits[wigs[n].index + 1] = wigs[n].by

\* A couple names the witness at the place the signature has; its bytes are the signature's.
Couples(wigs, wits) ==
    [n \in DOMAIN wigs |-> [of |-> wits[wigs[n].index + 1], by |-> wigs[n].by]]

CouplesSize(wigs) == IF wigs = <<>> THEN 0 ELSE 1 + 33 * Len(wigs)

\* What `_with_witness_receipts` can put receipts into.
Placeable(clone) ==
    Last(clone.groups) = FirstSeen /\ clone.wrapper = SizeOf(clone.groups)

\* The wrapper left as it was.
Mutant_WithReceiptsUncounted(clone, couples, size) ==
    [clone EXCEPT !.groups = Front(@) \o <<Group("receipts", size), Last(@)>>,
                  !.receipts = couples]

\* The receipts go before the last group, and the wrapper counts them.
WithReceipts(clone, couples, size) ==
    [clone EXCEPT !.wrapper = @ + size,
                  !.groups = Front(@) \o <<Group("receipts", size), Last(@)>>,
                  !.receipts = couples]

\* The list of the inception for the whole log.
Mutant_FollowInception(e) == IF e.prior = 0 THEN e.wits ELSE witnesses

\* The list follows every establishment event.
Follow(e) == IF e.estive THEN e.wits ELSE witnesses

(***************************************************************************)
(* emit_stream's first part.                                               *)
(***************************************************************************)

Log == store.logs[Head(chain)]
Writing == outcome = "none" /\ chain # <<>> /\ at < Len(Log)
Piece(n, msg) == [pre |-> Head(chain), n |-> n, msg |-> msg]

Write(msg) ==
    /\ pieces' = Append(pieces, Piece(at + 1, msg))
    /\ at' = at + 1
    /\ UNCHANGED <<store, chain, outcome>>

\* An event with nothing to add: version 2's, or one without witness signatures.
WriteClone ==
    /\ Writing
    /\ LET e == Log[at + 1]
       IN /\ e.v = 2 \/ e.wigs = <<>>
          /\ witnesses' = Follow(e)
          /\ Write(CloneOf(e))

\* A version 1 event with its receipts.
WriteReceipted ==
    /\ Writing
    /\ LET e == Log[at + 1]
           clone == CloneOf(e)
       IN /\ e.v = 1 /\ e.wigs # <<>>
          /\ witnesses' = Follow(e)
          /\ Verified(e.wigs, Follow(e)) /\ Placeable(clone)
          /\ Write(WithReceipts(clone, Couples(e.wigs, Follow(e)), CouplesSize(e.wigs)))

\* WITNESS_REPLAY_CORRUPT: nothing is published.
Corrupt ==
    /\ Writing
    /\ LET e == Log[at + 1]
       IN /\ e.v = 1 /\ e.wigs # <<>>
          /\ ~(Verified(e.wigs, Follow(e)) /\ Placeable(CloneOf(e)))
    /\ outcome' = "corrupt"
    /\ pieces' = <<>>
    /\ UNCHANGED <<store, chain, at, witnesses>>

\* The next log starts with no witness.
NextLog ==
    /\ outcome = "none" /\ chain # <<>> /\ at = Len(Log)
    /\ chain' = Tail(chain)
    /\ at' = 0 /\ witnesses' = <<>>
    /\ UNCHANGED <<store, pieces, outcome>>

Finish ==
    /\ outcome = "none" /\ chain = <<>>
    /\ outcome' = "emitted"
    /\ UNCHANGED <<store, chain, at, witnesses, pieces>>

Init ==
    /\ store \in Stores
    /\ chain = DelegationChain(store)
    /\ at = 0 /\ witnesses = <<>>
    /\ pieces = <<>> /\ outcome = "none"

Next == WriteClone \/ WriteReceipted \/ Corrupt \/ NextLog \/ Finish

Spec == Init /\ [][Next]_vars

(***************************************************************************)
(* Properties.                                                             *)
(***************************************************************************)

EventOf(p) == store.logs[p.pre][p.n]

\* The establishment event that governs the n-th of a log, by what each event follows:
\* the nearest that is one.
Follows(log, n, m) ==
    \E ks \in SUBSET (m..n) :
        /\ {m, n} \subseteq ks
        /\ \A k \in ks \ {m} : log[k].prior \in ks /\ \A j \in ks : j < k => j <= log[k].prior
Governing(log, n) ==
    Max({m \in 1..n : log[m].estive /\ Follows(log, n, m)})

\* The witnesses of an event, by its own history.
WitnessesOf(log, n) == log[Governing(log, n)].wits
Sound(log, n) ==
    log[n].clone = "usual" /\ Verified(log[n].wigs, WitnessesOf(log, n))

\* A receipt is hosted for a witness exactly if it is a witness of that event -- by the
\* event's own history, whatever recovery the log carries -- and the signature is its own
\* (assemble.py:431-432, "must never grant a false receipt"); and no log is refused of
\* which every signature and clone is in order.
ReceiptsAreTheWitnesses ==
    /\ \A p \in Range(pieces) :
          LET e == EventOf(p)
          IN /\ \A r \in Range(p.msg.receipts) :
                   r.of = r.by /\ r.of \in Range(WitnessesOf(store.logs[p.pre], p.n))
             /\ e.v = 1 => {r.of : r \in Range(p.msg.receipts)} = {w.by : w \in Range(e.wigs)}
    /\ outcome = "corrupt" =>
          \E a \in store.kevers : \E n \in DOMAIN store.logs[a] : ~Sound(store.logs[a], n)

\* A reader that goes by the wrapper's count reads all that is attached and nothing of the
\* message after it, and finds when the event was first seen at the end, if keripy wrote
\* the clone so (assemble.py:459-463).
CountedReaderReadsAll ==
    \A p \in Range(pieces) :
        EventOf(p).clone = "usual" \/ p.msg.receipts # <<>> =>
            /\ p.msg.wrapper = SizeOf(p.msg.groups)
            /\ Last(p.msg.groups) = FirstSeen

\* What is emitted is every log of the chain, whole and in first-seen order, none before its
\* delegator's, so that a reader that takes the events as they come can verify each.
DelegatorsComeFirst ==
    /\ \A j, k \in DOMAIN pieces :
          /\ store.delegator[pieces[j].pre] = pieces[k].pre => k < j
          /\ pieces[j].pre = pieces[k].pre /\ j < k => pieces[j].n < pieces[k].n
    /\ outcome = "emitted" =>
          \A a \in store.kevers :
              (a = Aid \/ \E p \in Range(pieces) : store.delegator[p.pre] = a) =>
                  {p.n : p \in {x \in Range(pieces) : x.pre = a}} = DOMAIN store.logs[a]

=============================================================================
