------------------------------ MODULE Publish ------------------------------
(***************************************************************************)
(* publish.py: how one run of the command line puts did.json and keri.cesr *)
(* where a DID says they live, on a filesystem that can fail, beside other *)
(* runs that do the same, on a machine that can lose power.                *)
(*                                                                         *)
(* One publisher is one run of `didwebs publish` for one DID.  It writes   *)
(* each artifact into a temporary file beside its target, and renames the  *)
(* stream and then the document over the hosted names.  All of a payload   *)
(* that matters here is which publication it belongs to: its version.      *)
(*                                                                         *)
(* The filesystem is external.  A rename is atomic and is seen at once by  *)
(* every reader; it reaches the disk later, in the order of the renames (a *)
(* metadata journal).  The bytes of a file reach the disk when it is       *)
(* fsynced, and may be lost by an outage until then.                       *)
(***************************************************************************)
EXTENDS Naturals, Sequences

CONSTANTS
  Publisher,   \* runs of the command line, each made once
  Version,     \* publications of the DID, in the order the controller made them
  Overlap,     \* TRUE: the operator may start a run while another is going
  NewerOnly,   \* TRUE: the operator never submits an older stream than before
  Fault,       \* the steps that may fail
  MaxOutage    \* bound: power losses in a behaviour

FaultKind == {"refuse", "make", "write", "sync", "replace", "print", "unlink", "kill"}

Nobody == "nobody"

ASSUME PublishAssumption ==
  /\ Version \subseteq Nat \ {0}
  /\ Overlap \in BOOLEAN
  /\ NewerOnly \in BOOLEAN
  /\ Fault \subseteq FaultKind
  /\ MaxOutage \in Nat
  /\ Nobody \notin Publisher

VARIABLES
  pc,          \* the next step of each publisher
  file,        \* the artifact that step is about
  version,     \* what it publishes; 0 until it has ingested a stream
  fault,       \* the exception that ends it, "none" while there is none
  temp,        \* its two temporary files
  served,      \* what the hosted names hold, as any reader sees it
  durable,     \* what the disk says they hold
  journal,     \* renames that readers see and the disk does not have yet
  outage,      \* power losses so far
  installed,   \* history: the artifacts each publisher has renamed
  unswept,     \* history: the publishers that failed to unlink a file
  settled      \* history: the publisher that exited 0, none begun since

hosting == <<served, durable, journal, outage>>
history == <<installed, unswept, settled>>
vars    == <<pc, file, version, fault, temp, hosting, history>>

Document == "did.json"
Stream   == "keri.cesr"
Artifact == {Document, Stream}

----------------------------------------------------------------------------
(* Files.                                                                  *)

NoFile == [version |-> 0, body |-> "absent", synced |-> FALSE]

Inode == [version : Version \cup {0},
          body    : {"absent", "empty", "partial", "whole"},
          synced  : BOOLEAN]

Exists(inode) == inode.body # "absent"

(* What an outage leaves of a file: its contents if they were fsynced, and *)
(* at worst an empty file if they were not.                                *)
Surviving(inode) ==
  IF Exists(inode) /\ ~inode.synced THEN [inode EXCEPT !.body = "empty"] ELSE inode

----------------------------------------------------------------------------
(* Control.                                                                *)

Ended == {"exit", "dead"}
PC    == {"idle", "make", "write", "sync", "replace", "print", "unwind", "sweep"} \cup Ended

Live == {p \in Publisher : pc[p] \notin Ended \cup {"idle"}}

Goto(p, step, f) ==
  /\ pc' = [pc EXCEPT ![p] = step]
  /\ file' = [file EXCEPT ![p] = f]

SetTemp(p, f, inode) == temp' = [temp EXCEPT ![p][f] = inode]

Raise(p, kind) ==
  /\ kind \in Fault
  /\ fault' = [fault EXCEPT ![p] = kind]

----------------------------------------------------------------------------
(* cli._publish before publish.publish: the DID parses, the stream is      *)
(* accepted, the directory is there.  Or one of them is not, and the run   *)
(* ends having touched neither artifact.                                   *)

Begin(p, v) ==
  /\ pc[p] = "idle"
  /\ Overlap \/ Live = {}
  /\ NewerOnly => \A q \in Publisher : version[q] <= v
  /\ Goto(p, "make", Document)
  /\ version' = [version EXCEPT ![p] = v]
  /\ settled' = Nobody
  /\ UNCHANGED <<fault, temp, hosting, installed, unswept>>

(* Mutant: what ends a run is not known to anyone.                         *)
Mutant_RefuseUnattributed(p) ==
  /\ pc[p] = "idle"
  /\ Overlap \/ Live = {}
  /\ "refuse" \in Fault
  /\ fault' = [fault EXCEPT ![p] = "unknown"]
  /\ Goto(p, "exit", Document)
  /\ UNCHANGED <<version, temp, hosting, history>>

Refuse(p) ==
  /\ pc[p] = "idle"
  /\ Overlap \/ Live = {}
  /\ Raise(p, "refuse")
  /\ Goto(p, "exit", Document)
  /\ UNCHANGED <<version, temp, hosting, history>>

----------------------------------------------------------------------------
(* _write, once for the document and once for the stream.  An exception in *)
(* it unlinks its own temporary file, and publish's handler then unlinks   *)
(* the document's when it was the stream's that failed.                    *)

Make(p) ==
  /\ pc[p] = "make"
  /\ SetTemp(p, file[p], [version |-> version[p], body |-> "empty", synced |-> FALSE])
  /\ Goto(p, "write", file[p])
  /\ UNCHANGED <<version, fault, hosting, history>>

(* Mutant: publish writes the stream outside any handler.                  *)
Mutant_MakeFailsUnhandled(p) ==
  /\ pc[p] = "make"
  /\ Raise(p, "make")
  /\ Goto(p, "exit", Document)
  /\ UNCHANGED <<version, temp, hosting, history>>

(* mkstemp raised: this file was never made.                               *)
MakeFails(p) ==
  /\ pc[p] = "make"
  /\ Raise(p, "make")
  /\ Goto(p, IF file[p] = Stream THEN "unwind" ELSE "exit", Document)
  /\ UNCHANGED <<version, temp, hosting, history>>

Write(p) ==
  /\ pc[p] = "write"
  /\ SetTemp(p, file[p], [temp[p][file[p]] EXCEPT !.body = "whole"])
  /\ Goto(p, "sync", file[p])
  /\ UNCHANGED <<version, fault, hosting, history>>

WriteFails(p) ==
  /\ pc[p] = "write"
  /\ Raise(p, "write")
  /\ SetTemp(p, file[p], [temp[p][file[p]] EXCEPT !.body = "partial"])
  /\ Goto(p, "unwind", file[p])
  /\ UNCHANGED <<version, hosting, history>>

(* Mutant: _write returns without the fsync.                               *)
Mutant_SyncWithoutFsync(p) ==
  /\ pc[p] = "sync"
  /\ Goto(p, IF file[p] = Document THEN "make" ELSE "replace", Stream)
  /\ UNCHANGED <<version, fault, temp, hosting, history>>

(* Mutant: each artifact goes live as soon as it is written.               *)
Mutant_SyncAndReplace(p) ==
  /\ pc[p] = "sync"
  /\ served' = [served EXCEPT ![file[p]] = [temp[p][file[p]] EXCEPT !.synced = TRUE]]
  /\ journal' = Append(journal, [name |-> file[p], inode |-> served'[file[p]]])
  /\ SetTemp(p, file[p], NoFile)
  /\ installed' = [installed EXCEPT ![p] = @ \cup {file[p]}]
  /\ Goto(p, IF file[p] = Document THEN "make" ELSE "print", Stream)
  /\ UNCHANGED <<version, fault, durable, outage, unswept, settled>>

(* After the document comes the stream, and after both the renames, of     *)
(* which the stream's is the first.                                        *)
Sync(p) ==
  /\ pc[p] = "sync"
  /\ SetTemp(p, file[p], [temp[p][file[p]] EXCEPT !.synced = TRUE])
  /\ Goto(p, IF file[p] = Document THEN "make" ELSE "replace", Stream)
  /\ UNCHANGED <<version, fault, hosting, history>>

SyncFails(p) ==
  /\ pc[p] = "sync"
  /\ Raise(p, "sync")
  /\ Goto(p, "unwind", file[p])
  /\ UNCHANGED <<version, temp, hosting, history>>

----------------------------------------------------------------------------
(* The two renames.  Nothing undoes the first when the second raises.      *)

(* Mutant: the document is renamed first.                                  *)
Mutant_ReplaceDocumentFirst(p) ==
  LET f == IF file[p] = Stream THEN Document ELSE Stream IN
  /\ pc[p] = "replace"
  /\ served' = [served EXCEPT ![f] = temp[p][f]]
  /\ journal' = Append(journal, [name |-> f, inode |-> temp[p][f]])
  /\ SetTemp(p, f, NoFile)
  /\ installed' = [installed EXCEPT ![p] = @ \cup {f}]
  /\ Goto(p, IF file[p] = Stream THEN "replace" ELSE "print", Document)
  /\ UNCHANGED <<version, fault, durable, outage, unswept, settled>>

Replace(p) ==
  /\ pc[p] = "replace"
  /\ served' = [served EXCEPT ![file[p]] = temp[p][file[p]]]
  /\ journal' = Append(journal, [name |-> file[p], inode |-> temp[p][file[p]]])
  /\ SetTemp(p, file[p], NoFile)
  /\ installed' = [installed EXCEPT ![p] = @ \cup {file[p]}]
  /\ Goto(p, IF file[p] = Stream THEN "replace" ELSE "print", Document)
  /\ UNCHANGED <<version, fault, durable, outage, unswept, settled>>

(* Mutant: the handler of the renames forgets to raise again.              *)
Mutant_ReplaceFailsSwallowed(p) ==
  /\ pc[p] = "replace"
  /\ "replace" \in Fault
  /\ Goto(p, "print", Document)
  /\ SetTemp(p, file[p], NoFile)
  /\ UNCHANGED <<version, fault, hosting, history>>

(* Mutant: a failed publication takes down what is hosted.                 *)
Mutant_ReplaceFailsWithdraws(p) ==
  /\ pc[p] = "replace"
  /\ Raise(p, "replace")
  /\ served' = [f \in Artifact |-> NoFile]
  /\ Goto(p, "sweep", Stream)
  /\ UNCHANGED <<version, temp, durable, journal, outage, history>>

ReplaceFails(p) ==
  /\ pc[p] = "replace"
  /\ Raise(p, "replace")
  /\ Goto(p, "sweep", Stream)
  /\ UNCHANGED <<version, temp, hosting, history>>

(* cli._publish prints the two paths and returns 0; a print that raises is *)
(* reported by main as any other fault is, with status 1.                  *)
Report(p) ==
  /\ pc[p] = "print"
  /\ Goto(p, "exit", Document)
  /\ settled' = p
  /\ UNCHANGED <<version, fault, temp, hosting, installed, unswept>>

ReportFails(p) ==
  /\ pc[p] = "print"
  /\ Raise(p, "print")
  /\ Goto(p, "exit", Document)
  /\ UNCHANGED <<version, temp, hosting, history>>

----------------------------------------------------------------------------
(* The handlers.  "unwind" is _write's and the first of publish's, "sweep" *)
(* the loop over the leftovers of the renames.                             *)

Unlink(p) ==
  /\ pc[p] \in {"unwind", "sweep"}
  /\ SetTemp(p, file[p], NoFile)
  /\ Goto(p, IF file[p] = Stream THEN pc[p] ELSE "exit", Document)
  /\ UNCHANGED <<version, fault, hosting, history>>

(* An unlink that raises ends the handler it is in: the next handler out   *)
(* still unlinks the document, the loop does not.                          *)
UnlinkFails(p) ==
  /\ pc[p] \in {"unwind", "sweep"}
  /\ "unlink" \in Fault
  /\ Exists(temp[p][file[p]])
  /\ Goto(p, IF pc[p] = "unwind" /\ file[p] = Stream THEN "unwind" ELSE "exit", Document)
  /\ unswept' = unswept \cup {p}
  /\ UNCHANGED <<version, fault, temp, hosting, installed, settled>>

----------------------------------------------------------------------------
(* What happens to a run from outside: a signal it cannot handle, and a    *)
(* power loss, which ends every run.  Renames reach the disk on their own. *)

Kill(p) ==
  /\ p \in Live
  /\ Raise(p, "kill")
  /\ Goto(p, "dead", file[p])
  /\ UNCHANGED <<version, temp, hosting, history>>

Writeback ==
  /\ journal # <<>>
  /\ durable' = [durable EXCEPT ![Head(journal).name] = Head(journal).inode]
  /\ journal' = Tail(journal)
  /\ UNCHANGED <<pc, file, version, fault, temp, served, outage, history>>

Outage ==
  /\ outage < MaxOutage
  /\ outage' = outage + 1
  /\ durable' = [f \in Artifact |-> Surviving(durable[f])]
  /\ served' = durable'
  /\ journal' = <<>>
  /\ temp' = [p \in Publisher |-> [f \in Artifact |-> Surviving(temp[p][f])]]
  /\ pc' = [p \in Publisher |-> IF p \in Live THEN "dead" ELSE pc[p]]
  /\ fault' = [p \in Publisher |-> IF p \in Live THEN "kill" ELSE fault[p]]
  /\ settled' = Nobody
  /\ UNCHANGED <<file, version, installed, unswept>>

----------------------------------------------------------------------------

Init ==
  /\ pc = [p \in Publisher |-> "idle"]
  /\ file = [p \in Publisher |-> Document]
  /\ version = [p \in Publisher |-> 0]
  /\ fault = [p \in Publisher |-> "none"]
  /\ temp = [p \in Publisher |-> [f \in Artifact |-> NoFile]]
  /\ served = [f \in Artifact |-> NoFile]
  /\ durable = [f \in Artifact |-> NoFile]
  /\ journal = <<>>
  /\ outage = 0
  /\ installed = [p \in Publisher |-> {}]
  /\ unswept = {}
  /\ settled = Nobody

Step(p) ==
  \/ Make(p)    \/ MakeFails(p)
  \/ Write(p)   \/ WriteFails(p)
  \/ Sync(p)    \/ SyncFails(p)
  \/ Replace(p) \/ ReplaceFails(p)
  \/ Report(p)   \/ ReportFails(p)
  \/ Unlink(p)  \/ UnlinkFails(p)

Next ==
  \/ \E p \in Publisher, v \in Version : Begin(p, v)
  \/ \E p \in Publisher : Refuse(p) \/ Step(p) \/ Kill(p)
  \/ Writeback
  \/ Outage

Spec == Init /\ [][Next]_vars

----------------------------------------------------------------------------
(* Properties.                                                             *)

(* Every variable has its type.                                            *)
TypeOK ==
  /\ pc \in [Publisher -> PC]
  /\ file \in [Publisher -> Artifact]
  /\ version \in [Publisher -> Version \cup {0}]
  /\ fault \in [Publisher -> FaultKind \cup {"none"}]
  /\ temp \in [Publisher -> [Artifact -> Inode]]
  /\ served \in [Artifact -> Inode]
  /\ durable \in [Artifact -> Inode]
  /\ journal \in Seq([name : Artifact, inode : Inode])
  /\ outage \in Nat
  /\ installed \in [Publisher -> SUBSET Artifact]
  /\ unswept \subseteq Publisher
  /\ settled \in Publisher \cup {Nobody}

(* "Each artifact is wholly old or wholly new": what a reader is served is *)
(* never the empty file, nor a prefix, not even after power came back.     *)
WholeArtifacts == \A f \in Artifact : served[f].body \in {"absent", "whole"}

(* A run that could not write both artifacts has changed neither: the      *)
(* renames start only when both temporary files are complete.              *)
FailedWritePublishesNothing ==
  \A p \in Publisher :
    fault[p] \in {"refuse", "make", "write", "sync"} => installed[p] = {}

(* A run that exits, with whatever status, leaves no temporary file beside *)
(* the artifacts unless an unlink failed.                                  *)
NoLitter ==
  \A p \in Publisher \ unswept :
    pc[p] = "exit" => \A f \in Artifact : ~Exists(temp[p][f])

(* "The mix that can survive is a document backed by evidence newer than   *)
(* itself": no failure, kill or outage leaves a document newer than the    *)
(* stream hosted with it.                                                  *)
EvidenceNotOlder == served[Document].version <= served[Stream].version

(* With every run over, no document is newer than the stream beside it,    *)
(* whether the runs overlapped or not.                                     *)
SurvivingMix == Live = {} => EvidenceNotOlder

(* "Nothing is ever removed", and nothing published is replaced by older:  *)
(* only a power loss takes a reader back.                                  *)
NeverWithdrawn ==
  [][outage' = outage =>
       \A f \in Artifact : served[f].version <= served'[f].version]_vars

(* "Exit 0 and both artifacts exist": after a run that exited 0, and until *)
(* the next, both hosted names hold what that run published.               *)
ExitZeroHostsBoth ==
  settled # Nobody => \A f \in Artifact : served[f].version = version[settled]

(* "Or a nonzero exit, nothing published".                                 *)
NonzeroExitPublishesNothing ==
  \A p \in Publisher : pc[p] = "exit" /\ fault[p] # "none" => installed[p] = {}

----------------------------------------------------------------------------
(* Publish implements HostedArtifacts.  A file that is not whole maps to   *)
(* no publication at all, so that serving one is a step no abstract action *)
(* allows.                                                                 *)

Torn == "torn"

Publication(inode) ==
  CASE inode.body = "whole"  -> inode.version
    [] inode.body = "absent" -> 0
    [] OTHER                 -> Torn

Hosting(names) ==
  [document |-> Publication(names[Document]), stream |-> Publication(names[Stream])]

NameOf(f) == IF f = Stream THEN "stream" ELSE "document"

Hosted == INSTANCE HostedArtifacts WITH
  hosted   <- Hosting(served),
  stable   <- Hosting(durable),
  backlog  <- [i \in 1 .. Len(journal) |->
                 [name |-> NameOf(journal[i].name),
                  version |-> Publication(journal[i].inode)]],
  evidence <- {version[p] : p \in {q \in Publisher : Stream \in installed[q]}}

(* However the runs interleave, fail or are cut short, the two hosted      *)
(* names change only as HostedArtifacts allows.                            *)
RefinesHostedArtifacts == Hosted!Spec
=============================================================================
