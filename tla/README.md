# A verification of did-webs in TLA+

This directory models the publish side of `did-webs`: a controller's CESR stream
goes in, is judged through keripy in a scratch database, and comes out as two
hosted artifacts, `did.json` and `keri.cesr`. It says what the program promises of
that path, checks those promises with TLC on small instances, and proves many of
them with TLAPS for instances of any size. Paths below are under
`src/src/didwebs/` unless they say otherwise.

## The system and its parts

| Part | State it keeps | Operations | Interacts with | What makes it hard | What makes it correct |
|---|---|---|---|---|---|
| Command line (`cli.py`) | its exit status | `_publish`, `main` | runs every other part in order | an exception at any step; several runs at once | exit 0 means both artifacts are hosted, 64 that nothing was judged |
| Publication (`publish.py`) | two temporary files, two hosted names, on disk and in cache | `_write`, `publish`, `artifact_dir` | the filesystem; resolvers read the names at any moment | two files and no atomic rename of both; handlers in handlers; kill and power loss | each artifact whole; a document never newer than its evidence; nothing left behind; distinct DIDs, distinct places |
| Walk (`ingest.py`) | frames and the genus they were read under | `walk`, `_final_frame`, `require_supported` | keripy's extractor | what keripy leaves unread without a word | every byte accounted for; every switch of version announced |
| Ingestion (`ingest.py`) | a scratch keripy database and its escrows | `require_*`, `Scratch.load`, `audit`, `authorize`, `require_ownership` | keripy, which accepts, escrows or silently drops | message order; escrows that wait on one another; recovery against fork; omitted frames | what is accepted depends on the messages and not on their order; every frame is accounted for; a revocation cannot be left out |
| Version 2 registries (`ingest.py`) | vetted registries and credentials | `vet_registries`, `AnchorIndex` | audit, authorization, assembly | disclosure, update and seal must agree; omission | as above, for version 2 |
| Scratch life cycle (`ingest.py`, `bounds.py`) | temporary directories, open databases | `open_scratch`, `Scratch.close`, `read_bounded` | every exit of `_publish`; other runs on the disk | a step of opening or closing raises | no directory outlives its run; no run takes another's |
| Assembly (`assemble.py`) | none | `emit_stream` | reads the scratch database, writes the stream | recovered logs, receipts, delegation order, genus changes | hosts exactly what was submitted, and what is hosted ingests again |
| Issuance (`assemble.py`) | a keystore | `issue_aliases*`, `revoke_aliases*` | fixtures and demonstrations only | - | produces streams that ingest |
| DID document (`document.py`) | none | `derive_document`, `to_did_web` | reads accepted state | thresholds in fractions, replies in any order | asks of a signature what the controller did |
| DID syntax (`did.py`) | none | `parse`, `WebsDid` | the command line, `artifact_dir` | splitting from the left | takes what the grammar has and no more, reads every part from where it stands, and loses nothing but case |
| Schemas (`schemaing.py`), errors (`errors.py`) | none | loading, texts | ingestion | - | constant data |

`tools/`, `scripts/`, `.github/` and `tests/` hold no behaviour of the program.

## Modules

### Publication

**`Publish`** models the runs of `didwebs publish` for one DID. `pc[p]` is the next
step of run `p` and `file[p]` the artifact the step is about. One action is one
system call of `publish.py`, and each has its failing twin: `Make`/`MakeFails`
(`mkstemp`), `Write`/`WriteFails`, `Sync`/`SyncFails` (`fsync`),
`Replace`/`ReplaceFails` (the two `os.replace`), `Report`/`ReportFails` (the two
`print`). The handlers are two values of `pc`: `unwind` is `_write`'s `except` and the
one around the stream's `_write`, `sweep` the loop over the leftovers of the renames;
`Unlink` and `UnlinkFails` are their steps. `Begin` is everything in `cli._publish`
that precedes `publish.publish` (`Scratch` has it step by step), `Refuse` its raising.
An exception that arrives between two statements (`KeyboardInterrupt`) is covered
twice: as the failure of the step it interrupts, where a handler is active, and as
`Kill`, where none is. A payload is its version: which publication it belongs to.

The filesystem is external to the program. `served` is what readers see, `durable`
what the disk holds; a rename is atomic, is seen at once, and reaches the disk later
in the order of the renames (`journal`, `Writeback`). `Outage` takes every name back
to `durable`, ends every run, and empties every file that was not fsynced.
`publish.py` does not fsync the directory, so an outage after exit 0 may bring back
the publication before; the model has that behaviour, and `NeverWithdrawn` excepts it.

**`HostedArtifacts`** is what `publish.py` promises, with no file in it: each name
changes in one step to a publication whose stream has been hosted, and an outage loses
the last changes first. `Publish` implements it (`RefinesHostedArtifacts`).

**`Resolution`** composes `Publish` with a resolver that fetches the two artifacts
one after the other, derives, compares and retries. It is external: the reader
described in `publish.py:22-26`.

**`Scratch`** models several runs of the command line on one disk, up to the publication
(one step here). `Parse`, `ReadSome`, `Admit`, `Unreadable` are the argument, `open_stream`
and `read_bounded`, in which a buffered handle asks for pieces of any length; `Gate`
the walk; `MakeStore`, `OpenFails`, `FindRoots` are `open_scratch` and `_temp_root`; `Use`
everything inside the `try` of `ingest` and the body of the `with`; `CloseStores`,
`CloseFails`, `RemoveRoot`, `Closed` are `Scratch.close`, whose `closed` flag is set before
anything that can raise. A directory is a path with the run it was made for, so that
"whose directory is removed" is a question about prefixes of paths. A store may sit
outside its head (`Stray`), which `_temp_root` refuses to remove.

### Ingestion and assembly

**`Walk`** models `ingest.walk` and `require_supported` over parts of a stream: counters,
messages of either version with what is attached to them, and bytes that are nothing.
keripy's extractor is external and may do what its contract allows. `_final_frame`, the
residue that holds one last version 2 frame, is part of the walk, and `assemble._runs`,
which announces versions, is checked against it.

**`Keri`** is external: the verdict on one message given what the database has
accepted, as `ingest.py`, its comments and the tests rely on it. It holds the superseding rule,
the delegation seal, the transaction events' anchors, and replies of which the newer is
kept. Receipts and signature thresholds are not in it: a message is `genuine`
or it is dropped, so the escrows `pses`, `pwes`, `twes` and `cmse` are always empty.

**`Ingest`** models `ingest.ingest` followed by `assemble.emit_stream`, and then
`ingest.ingest` of what was emitted (`round` 2), for version 1 registries. `Gate` is
`require_supported`, `require_no_third_party` and `require_delegator`; `Parse` one message
judged by keripy in `Scratch.load`; `Retry`, `NextPhase` and `Compare` its drain loop, entry by
entry and escrow by escrow; `Audit`, `Authorize`, `Own` and `Emit` the functions of those
names. A submission is a set of messages which the parser takes in any order, so
duplicates of one message are left out. The errors of `attribute`, which say why
a frame was not accepted, are one code, `UNACCOUNTED`.

**`Registries`** takes a submission whose key event logs are accepted and judges its
registries and credentials of either version, in stream order, then writes them back and
judges them again. `Vet` is one turn of `vet_registries`; the audit's completeness uses
both anchor indexes, `AnchoringV2` finding an anchor by digest alone and `AnchoringV1`
by a single full seal; `Authorize` orders the designations; the emission chooses the
disclosures to write back. A disclosure is how often it rides on which kind of
message. `IsOwned` is `owned`: an event of a registry is its issuer's, and one of a version 1
credential the issuer's of the credential keripy saved, so an issuance that names a
version 2 credential is refused. keripy's `vetBinds` is external: of the faults that are
there it may report any.

**`Replay`** models how `emit_stream` writes the logs: `_delegation_chain`, then per log
`_kel_pieces` event by event with the witness list it carries along, and for version 1
events the receipts made of the stored indexed signatures, put into the clone's counted
wrapper (`_with_witness_receipts`). Lengths are in quadlets, as the counters count.

### Projections

**`Document`** models `derive_document` and `to_did_web`: `threshold_method` with its
least common multiple, the services from accepted replies, the delegator's service from
its anchoring event, `also_known_as` with its removal of duplicates, and what each raises.

**`Did`** models `parse`, `WebsDid` and `artifact_dir` over symbols, split and searched as
the code does; then two publications, of DIDs parsed or constructed, are placed.

### Proofs

`PublishProofs` (about `Publish` and `Resolution`), `ScratchProofs`, `IngestProofs`,
`RegistriesProofs`, `WalkProofs`, `ReplayProofs` and `ProjectionProofs` (about `Document` and
`Did`), and under the last five `DataInduction`, which has the lemmas about sequences and about recursive functions they share. `MC*`
modules give TLC its instances.

## Runs

| Run | Instance | Asks |
|---|---|---|
| `publish_crash` | 3 runs one after another, 2 versions, every fault, 1 outage | `TypeOK`, `WholeArtifacts`, `EvidenceNotOlder`, `ExitZeroHostsBoth`, `FailedWritePublishesNothing`, `NoLitter`, `NeverWithdrawn` |
| `publish_overlap` | 2 runs at once, versions in any order, every fault, 1 outage | `RefinesHostedArtifacts` |
| `publish_mix` | 2 runs at once, nothing fails | `SurvivingMix`, violated |
| `publish_contract` | 2 runs, a rename may fail | `NonzeroExitPublishesNothing`, violated |
| `resolution` | 2 runs one after another, 1 resolver, `fsync` or rename failing, kills | `AcceptedWasHosted`, `ResolversCatchUp` |
| `ingest` | 66 parts of a history with a revocation, its rival and two recoveries; a delegated controller, whole, lacking a message or carrying further ones; every order | `TypeOK`, `DrainIsComplete`, `OrderIsIrrelevant`, `ForkVerdict`, `RevocationNotHidden`, `NothingDropped`, `HostedReingests`, `IngestEnds` |
| `scratch` | 2 runs on one disk, every fault, files from empty to two bytes too long | `OpenStoresStand`, `EndsWithoutLitter`, `HostsAfterClosing`, `ExitStatusTells`, `BoundIsExact`, `RunsEnd` |
| `registries` | parts of seven worlds of registries of both versions, in many orders | `RevocationNotHidden`, `DesignationsInOrder`, `NothingDropped`, `HostedVetsAlike` |
| `walk` | every stream of 4 parts and every publication of 4 messages | `NothingUnread`, `SwitchesAreAnnounced`, `JoinedIsReadBack` |
| `projections` | each part of the accepted state varied: thresholds, replies, delegation, aliases; and every text of up to 4 symbols, many longer ones, 2 publications | `ThresholdIsKept`, `ServicesAreCurrent`, `AliasesAreOfTheSubject`, `AcceptsTheGrammar`, `ReadsAsWritten`, `PlacesAreTheirOwn` |
| `did_grammar` | the same texts | `AcceptsOnlyTheGrammar`, violated |
| `replay` | logs of up to 4 events with recoveries and a migration; delegates of delegates; one thing wrong in the store | `ReceiptsAreTheWitnesses`, `CountedReaderReadsAll`, `DelegatorsComeFirst` |

**Bounds.** *Publication.* Three runs one after another are what it takes for a failed or
killed run to stand between two that succeed; two versions and two artifacts give every
mix; one outage reaches every state a second one could start from except through the
history it carries. Symmetry is over runs, used where no liveness is checked.
`publish_overlap` need not repeat the invariants of `publish_crash`: those that survive an
overlap are proved for overlapping runs.
*Ingest.* A history of five key event places is the shortest in which an issuance, its
revocation, a rival of the revocation and recoveries from either and from both can stand
together; an interaction behind the longer recovery takes a place anew that a recovery
*before* that place has freed. The submissions of it all hold the log up to the issuance, its registry
and its credential, without which the authorization refuses; the issuance, the revocation,
its seal, the rival and both recoveries are each there or not. The delegated estate lacks each of
its messages in turn, and is three passes of the drain deep, one more than a single pass
and its confirmation could settle.
*Scratch.* Two runs and a stray directory give every pair of owner and remover; a limit of
one byte has a file below, at, one and two past it.
*Registries.* The submissions are parts of seven worlds, in many orders: a designation and
its revocation (every part in every order), two designations, updates that say nothing, two
updates at one place, both versions, another AID's, and credentials crossed with the other
version. Three updates are what a vacuous one before and after the one that counts
take; two registries give every order of two designations; every disclosure is absent,
there once or twice, on either kind of message.
*Walk.* Four parts hold a change of version and its return, each with or without a
counter. *Replay.* Four events hold a rotation, interactions and a recovery from behind
the rotation. *Document.* Three keys and denominators 1 to 4 have least common multiples
that are neither the product nor the greatest. *Did.* Four symbols are a host, a
separator and two more; longer texts are built from parts that are each right or wrong.

**Fairness.** `Resolution` assumes that a run which is going goes on, and that a
resolver's requests are answered and its attempts repeated; it assumes nothing about
runs beginning, failing or being killed, so `ResolversCatchUp` is conditional on a
publication having exited 0 with no later one begun. `Ingest` assumes `WF_vars(Next)`:
one thread runs the pipeline and waits for nobody. `Scratch` assumes that a process that is not
stopped goes on, `WF_vars(Proceed(p))` for each: `Proceed` holds the program's own steps
and no fault, so `RunsEnd` has to hold whether faults happen or not.

**Deadlock** is not checked: every model ends, a run with its exit status, an ingestion
with its answer, a resolver when it has accepted.

### What the checks show

Everything asked of one run at a time holds, the runs of an operator who publishes
newer streams one after another included. Three documented promises do not hold as
written (`PROJECT.json`, `findings`):

* Two overlapping runs, neither failing, can leave a document newer than its stream
  for good (`publish_mix`), against `publish.py:22-26`. Nothing keeps two runs for one
  DID apart; a resolver's comparison still refuses the pair.
* A second rename that raises leaves the new stream hosted and exits 1
  (`publish_contract`), against `cli.py:13-14`. The stream is valid and the
  document that stays is older than it, which a resolver refuses until the next
  run.
* `parse` takes texts the ABNF has not (`did_grammar`), against `did.py:303-305` ("any
  deviation from the spec ABNF/RFC host rules raises"). The patterns end in `$`, which matches
  before a final line's end, too. One gets through in three places: behind the AID (`a:E\n`),
  behind the last label of a host (`a\n:E`, a DID of the host `a\n`) and behind the port of
  such a host, where it is lost, so that `a%3A8\n:E` is the DID that `a%3A8:E` is
  (`did.py:215-221`). `AcceptsTheGrammar` shows that the parser takes exactly the grammar with
  these three added, and `ReadsAsWritten` that the one behind the port is, besides case, all
  that is lost.

One promise holds with an exception that depends on keripy. `ingest.py:24-26` says
that every hosted stream re-ingests cleanly. `emit_stream` writes the whole recovered
log before any transaction event, so a transaction event accepted *before* a recovery
superseded its anchor is met by the next reader *after* it. If keripy's `verifyAnchor`
asks that the anchor still stands (`AnchorStands = TRUE`, the value the runs use), that
reader leaves it in escrow and refuses the stream; if it only asks that the anchor was
first seen, it accepts. `HostedReingests` excepts exactly these streams, so that it says
the same of either. No test of the repository publishes such a stream.

The order of a submission does not decide what is accepted of it when no two key events
claim one place, and no two replies of one topic bear one date (`OrderIsIrrelevant`,
against a definition of what the messages justify that knows no order and no escrow).
Otherwise it does: an interaction that arrives after the recovery superseding it is
refused as a fork, as `ForkVerdict` allows, and of two replies of one date the first stays.

The services of a document do not depend on the order of replies either, unless two of one
topic bear one date, which `ServicesAreCurrent` excepts (`Contended`).

`ThresholdIsKept` compares the document with the controller's weighted threshold set of
keys by set of keys, `AcceptsTheGrammar` the left-to-right parser with the ABNF read as
a set of cuts (and the three line's ends named above), and `ReceiptsAreTheWitnesses` the witness list carried from event to event
with each event's own history.

Where the code and what is written of it differ in a way the models allow for, and no run
singles out:

* `ingest.py:511-512` says that a run leaves no litter. A step of `open_scratch` that
  raises, one of the two closes of `Scratch.close`, or a removal that fails (its errors are
  ignored) leaves directories;
  `EndsWithoutLitter` excepts the runs this befalls (`slipped`).
* `document.py:233-234` says the entry names the seal of the inception; `257` takes the
  first seal with the delegate's prefix, which may be a later event's. Before such a seal,
  one that is a bare string raises an `AttributeError`, which is no refusal (`391-393`).
* `ingest.py:939-943` says that a disclosure may ride on any message and is collected
  from every frame; `_frame` (`277-289`) keeps none that rides on a KERI message. A
  registry that needs one found nowhere else is refused as unprovable.
* `ingest.py:1561-1562` says every identifier is once in the list; it is once in each
  spelling. `AliasesAreOfTheSubject` compares identifiers, not spellings.
* `artifact_dir` leaves host and port out of the directory (`publish.py:57-58`, `108`;
  `tests/test_publish.py:277`): `PlacesAreTheirOwn` asks for two directories on one host
  and for two URLs everywhere.
* `assemble.py:618-622` says that a stream with a version 2 registry ends on an attached
  update; one whose only version 2 registry is spare and has no update yet ends on its
  bare inception. The walk reads it out of the residue: `JoinedIsReadBack` has such
  publications.

## Proofs

All for any sets of runs, versions, resolvers and messages, and from the named assumptions
on the constants alone unless a condition is given.

| Theorem | Module | Condition |
|---|---|---|
| `TypeCorrect`, `WholeCorrect`, `FailedWriteCorrect`, `NoLitterCorrect` | `PublishProofs` | none: overlapping runs included |
| `HostingRefines` | `PublishProofs` | none: overlapping runs included |
| `EvidenceCorrect`, `ExitZeroCorrect`, `NeverWithdrawnCorrect` | `PublishProofs` | runs one after another, streams only newer |
| `AcceptedCorrect` | `PublishProofs` | as above, and no outage |
| `BoundCorrect`, `HostsAfterClosingCorrect`, `ExitStatusCorrect` | `ScratchProofs` | none |
| `OpenStoresStandCorrect`, `EndsWithoutLitterCorrect` | `ScratchProofs` | none |
| `TypeCorrect`, `DrainCorrect`, `ForkCorrect`, `HostingCorrect` | `IngestProofs` | none |
| `OrderCorrect`, `ReingestCorrect` | `IngestProofs` | none |
| `RevocationCorrect` | `IngestProofs` | `SealsTheirOwn` |
| `RevocationCorrect`, `OrderCorrect`, `HostingCorrect`, `RoundTripCorrect` | `RegistriesProofs` | none |
| `WalkCorrect`, `SwitchesCorrect`, `JoinCorrect` | `WalkProofs` | none |
| `ReceiptsCorrect`, `CountedCorrect`, `DelegationCorrect` | `ReplayProofs` | none |
| `ThresholdCorrect`, `ServicesCorrect`, `AliasesCorrect` | `ProjectionProofs` | none |
| `PlacesCorrect`, `ReadsCorrect`, `GrammarCorrect` | `ProjectionProofs` | none |

* **`PublishProofs`.** `WholeArtifacts` speaks of `served` only and is not inductive: an
  outage sets `served` from `durable`, which comes from `journal`, which comes from the
  temporary files. `WholeInv` therefore says that all three hold absent or
  whole-and-fsynced files (`HostedSound`), and that a run about to rename has fsynced what
  it will rename (`TempsSound`). `FailInv`: nothing is renamed before the renames, and a
  run in its forward path has no fault. `LitterInv`: what each step and each handler may
  find left.
  The refinement is a step simulation under `HostingInv`, `WholeInv`
  and `FailInv` with `OwnVersion`: a run renames what it was begun to publish, its stream
  first. What serial runs add is `SerialInv`: at most one run is going and its version is
  the newest (`RunsSerial`); how far it has come (`RunsReached`); and that the renames
  still on their way to the disk are ordered by version with a stream as new before each
  document (`DiskOrdered`), without which an outage could take the names back to a document
  ahead of its stream. TLC checked `SerialInv` on the instance of `publish_crash` first.
  For a resolver, `AttemptSound` says of half an attempt what it may still come
  to: the artifact already fetched can be matched only by one that was, or will be, hosted
  beside it since the attempt began. An outage would bring back an older stream beside a
  document fetched before it, whence the condition.
* **`ScratchProofs`.** `RunInv` ties what a run has read, opened, raised and hosted to how far
  it is. Each lemma has one part for the run that steps and one for the others (`Alike`).
  `DirInv` adds where directories are: each is on a path `mkdtemp` made for
  a store, each open store sits in its own, each is traced by its run to its removal
  (`Traced`), and the roots of a run are its own directories in the head. `RootFound` (a
  store below its head has for root exactly its own directory) and `UnderIsOwn` (what
  lies under such a root is that run's) are the facts about paths this rests on.
  They need two assumptions on the machine: `mkdtemp` gives no name twice, and none
  that stands.
* **`IngestProofs`.** `DrainIsComplete` says that the loop, which compares four escrows
  between two passes, has settled all six, and that what it retried early in the last
  pass still waits. `IngestInv` says why. In a pass the audited escrows only lose, except
  that a transaction event may go on from `oots` to `taes` (`OnlyLost`); so in a pass
  after which they are what they were, nothing left one, hence no log and no transaction
  log grew, hence whatever was retried still waits where it did (`PassSound`). A credential
  or a reply is retried after all that it waits for, and neither phase grows a log
  (`LateJudgement`). The other parts: the database holds what was submitted, each log its own
  events, and an event takes a place again only behind a rotation, there or before
  (`IsLogOf`, from keripy's superseding rule), whence `ForkCorrect`; what the audit and the
  authorization found still holds while the database does not change (`Audits`, `Grants`).
  `HostInv` adds that nothing is held that was not parsed, and at the emission that every
  frame passed the gate, the audit and `Own`. `HostingCorrect` then goes through `Assemble`
  kind by kind: `ChainHolds` (the chain has every delegator, by induction along the walked
  `dip` events), `TelOfHolds`, `RegistriesHold`, `CredentialsOfHold`.
  In `RevocationCorrect` the audit has every event sealed for a log the submission speaks
  of, the revocation among them, and the authorization refuses it. `SealsTheirOwn` says that
  a seal committing to a revocation names the log the revocation is of, as every issuer's
  does; without it the completeness audit, which goes by the log a seal names, does not
  look for it.
  `OrderCorrect` is two inclusions. `LedgerSound`: nothing is in the database without what
  keripy asked before it put it there, its predecessor, anchor, delegator or registry, so
  by induction along the rounds of the closure all of it is justified (`HeldIsSupported`).
  `NoneLost`: whatever was parsed is held, waits in an escrow, or was dropped for a reason
  that no later message takes away; so after the drain, by `DrainIsComplete`, a justified
  message that is not held would have what it waits for. Without two claims on one place a log
  is a line (`Linear`), which is why a verdict then depends on the set of messages alone. The
  closure, a recursive function, is first shown to have a solution and to be the least.
  `ReingestCorrect` compares two executions inside one. `Then` is the model read with the
  database the first run left, and what the first run asked of it is kept at hand
  (`AnswersStand`, `FirstStands`). What the first run hosts has each key event behind its
  predecessor and a delegate's inception behind its delegator's log (`HostedInOrder`, with
  the chain laid out by `Assemble`), so while the second run reads it, each log it holds is
  a prefix of the first's, nothing waits in the escrows of key events, and what the other escrows
  hold has yet to meet what is still unread (`Follows`). When the drain is over the two
  databases hold the same of whatever was written (`SameDatabase`), so every question
  of the audit and of the authorization has the answer it had (`Agrees`).
* **`RegistriesProofs`.** `JudgeInv` is what each function that has returned has established:
  the loop has recorded exactly the inceptions it has come to and would record each of them
  again (`VetInv`), every message is accounted for and no log is incomplete (`AuditInv`),
  and `standing` is what stands (`GrantInv`). For `RevocationCorrect`, `HeadIs` shows that
  the update which binds a credential, found by reading down from the newest, is the one in
  force and the last word of the registry's updates, and `WordIs` that what `authorize`
  reads off the record is that word's state and anchor; completeness then leaves no
  sealed update or revocation outside the stream (`NotHidden`). The same lemma gives
  `DesignationIs`: what stands, and its order, is a function of the set of messages
  (`Ranked`), which is `OrderCorrect`. For `HostingCorrect`, `EmittedIs` follows each kind
  to its one place in the output; that nothing is dropped rests on the audit, as only what
  was vetted or accepted is written. For `RoundTripCorrect`, what a second reading could
  refuse is split into what depends on the set of messages (`Sound`) and on the
  disclosures as well (`Provable`). The first survives the writing because the set does; the
  second because an update is written with a disclosure exactly when it had one
  (`ShownAlike`), so that each registry is recorded again as the same record
  (`RecAlike`). `RoundInv` then excludes each refusal in turn.
* **`WalkProofs`.** `WalkInv`: up to where the walk has read, the frames are exactly the
  messages and what was passed over is counters (`Accounted`), and the genus kept is the
  one announced (`GenusSound`), whatever the extractor did within its contract. `JoinInv`
  follows a stream that `_runs` joined: as many of its messages have been read as there are
  frames, the walk stands at the end of one of the flattened parts (`LaidOut`), and the next
  message is due under its genus; so the extractor can neither raise nor stop short before
  the end (`NextPiece`), in either genus a reader starts in.
* **`ReplayProofs`.** `WitnessesFollow` is the heart of `ReceiptsCorrect`: the list carried
  from event to event is that of the nearest establishment event in the event's own
  history, whatever recoveries came between, because only a rotation recovers.
  `PutBeforeLast`: receipts put before the last group lengthen what is attached by their
  own size, which is what the wrapper's count is raised by. `DelegationChainIs`: the loop
  ends at a root or at one whose delegator is not known, and with no AID twice, because a delegate was
  accepted after its delegator; after each turn it has the end of that chain (`ClimbsOn`).
  `ReplayInv` has the pieces in the order of the chain and of each log (`InOrder`).
* **`ProjectionProofs`, `Document`.** `DocumentInv`: of the replies read so far one of each topic is stored,
  and none that was read is newer (`StoredSound`), so when all are read what is stored is
  `Newest`, whatever their order; and what was derived stays a function of that. For
  `ServicesCorrect` each loop lists an endpoint of its role once (`LocatedIs`), in the
  database's order for a role (`AuthorizedIs`), and services of two roles are never the same
  entry. For `AliasesCorrect`, `AliasesAre` says what `also_known_as` leaves, and
  `TransformedIs` what the web form puts for it, by identifier and not by spelling. For
  `ThresholdCorrect` the document's weights are over the least common multiple of the
  denominators and the controller's are compared over their product: both are multiples of every
  denominator (`LcdIsMultiple`, `ProductIsMultiple`), so no division loses anything
  (`OverBoth`), the two sums of any set of keys are in proportion (`TotalsInProportion`)
  and so reach their bounds together (`SameVerdict`). A count is a sum of ones (`TotalOfMarks`).
* **`ProjectionProofs`, `Did`.** A split is shown to be the one way to take a text apart at a
  separator (`Cut`, `FieldsAreCut`, `CutUnique`), by induction along the recursion of
  `Fields`; a join of parts without the separator is undone by it (`JoinedUnique`). For
  `PlacesCorrect`, `DidInv` says that every DID in hand is `Formed` and every published
  one `Named`, in the directory of its components: a walk of single names enters them one
  by one (`WalkedIs`). A URL has one authority, which ends at its first slash, and an
  authority one host and one port, because a host has a colon only inside its brackets
  (`HeadOfJoined`, `AuthorityUnique`, `UrlUnique`). For `ReadsCorrect`, `Laid` is a text with
  its host, its marker and port, and the rest in their places, and `ReadAs` what the checks
  say of these. `ParseSplit` says what `parse` has taken whenever it takes a text: a span
  that is a host and a port, or these with one line's end behind them, then a colon and the
  rest (`MarkerRead` finds the port the pattern finds, and what the pattern may leave behind
  it). Whatever is laid out so without the line's end is taken, as just that DID
  (`ParseLaid`: the separator, the bracket and the marker that are searched for are found
  where they were laid). `PortSpelled` makes of what stands between host and rest one of the
  spellings of the port. A host in lower case is a host and its own canonical form
  (`HostLower`), so the canonical spelling is laid out, too, and reads back (`RoundTrip`).
  `GrammarCorrect` compares two definitions that share nothing: the parser splits at a
  separator and matches each part, the grammar says of each symbol what may stand there.
  They meet in `LiesAt`: by induction on the parts of a join, every part lies somewhere in
  the text between two separators, and every place of the text is in a part or is the
  separator before one. So a host whose labels all match has a letter, a digit or a hyphen
  wherever there is no dot, and the other way about (`LabelledIsLdh`, `LdhIsLabelled`). A
  line's end is let through where it is behind the last part of a split (`FieldsEnd`), which
  gives a host (`LabelledEnd`, `HostLines`), a port (`PortEnded`) and what follows them
  (`RestLines`, `RestGrammar`) theirs, in both directions. What `ParseSplit` took apart is then
  in the grammar part by part (`TakenIsInGrammar`), and what is in the grammar is laid out,
  with the line's end behind its port or without, so that it is taken (`EndedIsTaken`,
  `GrammarIsTaken`).
* **`DataInduction`.** The library's induction theorems have an operator for parameter and cannot
  be instantiated here. That a strict subset of a finite set is smaller is a plain fact,
  and from its well-foundedness follow `LeastElement` and `SetInduction`, an induction for a
  *set* of numbers. With these a recursive function is shown to have a solution
  (`FlattenExists`, `SumsExist`), without which `CHOOSE` would say nothing of it, and lemmas
  about `FlattenSeq`, `SetToSeq` and sums are proved for every length. A finite set with
  a total order has exactly one sequence that lists it in that order (`OrderExists`,
  `OrderIsUnique`), which is what makes a sort, written as a `CHOOSE`, mean something.

**Assumptions on the constants.** `KeriAssumption` is the shape of messages (of a reply: whether it grants a role, and that its
date is a number), and that an event
is an inception exactly at sequence number 0, which keripy's parser requires.
`IngestAssumption` and `ReplayAssumption` say that what is submitted and stored is finite;
the latter also what keripy guarantees of an accepted log (`Recoverable`: it opens with its
inception, and only a rotation recovers) and of delegation (a delegate's inception needs
its anchor in the delegator's log, so acceptance ranks delegators first).
`WalkAssumption` is about what `assemble.py` joins: JSON, attachments the walk accounts for,
and nothing of version 1 behind a message without any attachment, since only a version 2
registry writes one and registries come last (`assemble.py:618-622`). `RegistriesAssumption`
says that a SAID tells messages apart, that an inception is event 0 of the log it names and
a version 1 credential's revocation event 1, and that no message is submitted
twice. `DocumentAssumption` is what keripy has accepted: a threshold with at least one key to
satisfy it (an event is accepted on signatures that meet its own), fractions with a
denominator, a plain key written as the group of one, witnesses that are each listed once,
and finitely many replies with dates. `DidAssumption` says that texts are over the symbols of
the model and that an address between brackets has letters, digits, colons and dots and is
one in lower case, too; a DID that is constructed has a host without a slash, and a colon in
it only before a closing bracket, and a port of digits, but any path and any AID. TLC
evaluates all seven on the instances of the runs.

**Only model-checked.** Liveness (`ResolversCatchUp`, `IngestEnds`, `RunsEnd`), which is
out of the prover's reach. Every other property that a passing run checks is a theorem.

## Not modelled

* Issuance and revocation (`issue_aliases*`, `revoke_aliases*`, `keystore_stream*`): keripy's
  own issuance with one seal after another, used by fixtures and demonstrations. What it
  produces is among the submissions of `Ingest` and `Registries`.
* Schema loading and the error registry: constant data, with no state and no choice.
* `attribute` and `_signature_fails`, which choose the code of a refusal that is certain.
* In `Keri`: escrow timeouts (a run is shorter than any), witness receipts and signature
  thresholds (`genuine`). `Replay` has receipts, on the side that writes them. Of the kinds
  of event, delegated rotations (`drt`, `ingest.py:109`), and in `Ingest` the rotation of a
  registry and the backed issuance and revocation (`vrt`, `bis`, `brv`, `ingest.py:113`,
  `119`, `1235`).
* In `Walk`: the `ValueError` or `TypeError` of `_frame`, of a message whose number is not
  hexadecimal, which is one more refusal of the format (`ingest.py:423-434`).
* In `Scratch`: `--help`, with which argparse exits 0 before anything is read
  (`cli.py:66`, `111`).
* In `Document`: `json_web_key` and `@context`, constant layout; `is_abandoned`, which no
  step of a publication calls.
* In `Did`: lengths of labels and hosts, IPv4 addresses, percent-encoded characters in hosts.
* A path segment named `did.json`, which makes the directory of one DID the file of another
  (`publish.py:111`): one of the two publications fails with an `OSError`, which `Publish`
  has as a refusal or as `ReplaceFails`.
* The lengths and codes inside a message.

## Plan

1. A composition of `Registries` with `Ingest`'s drain, so that registries are vetted
   against logs that arrive in any order and not only against accepted ones.
2. `attribute`: that the code of a refusal names a frame that is at fault, over `Keri`'s
   escrows, and receipts and thresholds in `Keri`.
