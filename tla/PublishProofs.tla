--------------------------- MODULE PublishProofs ---------------------------
(***************************************************************************)
(* Theorems about Publish, for any publishers, publications, faults and    *)
(* number of power losses, whether runs overlap or not, and at the end     *)
(* about Resolution: what a resolver accepts, for any number of resolvers, *)
(* as long as runs do not overlap, streams only get newer and the power    *)
(* does not fail.                                                          *)
(***************************************************************************)
EXTENDS Resolution, SequenceTheorems, TLAPS

USE DEF FaultKind, Artifact, Document, Stream, PC, Ended

(* What a step of one run leaves alone, for the step's own cases to add to. *)
LEMMA GotoType ==
  ASSUME TypeOK, NEW p \in Publisher, NEW step \in PC, NEW f \in Artifact, Goto(p, step, f)
  PROVE  pc' \in [Publisher -> PC] /\ file' \in [Publisher -> Artifact]
BY DEF TypeOK, Goto

LEMMA SetTempType ==
  ASSUME TypeOK, NEW p \in Publisher, NEW f \in Artifact, NEW inode \in Inode,
         SetTemp(p, f, inode)
  PROVE  temp' \in [Publisher -> [Artifact -> Inode]]
BY DEF TypeOK, SetTemp

LEMMA RaiseType ==
  ASSUME TypeOK, NEW p \in Publisher, NEW kind, Raise(p, kind)
  PROVE  fault' \in [Publisher -> FaultKind \cup {"none"}]
BY PublishAssumption DEF TypeOK, Raise

LEMMA NoFileType == NoFile \in Inode
BY DEF NoFile, Inode

LEMMA SurvivingType ==
  ASSUME NEW inode \in Inode
  PROVE  Surviving(inode) \in Inode
BY DEF Surviving, Exists, Inode

LEMMA TempType ==
  ASSUME TypeOK, NEW p \in Publisher
  PROVE  temp[p][file[p]] \in Inode /\ file[p] \in Artifact
BY DEF TypeOK

LEMMA UpdateType ==
  ASSUME NEW inode \in Inode
  PROVE  /\ \A b \in {"empty", "partial", "whole"} : [inode EXCEPT !.body = b] \in Inode
         /\ [inode EXCEPT !.synced = TRUE] \in Inode
BY DEF Inode

LEMMA InitType == Init => TypeOK
BY NoFileType, PublishAssumption DEF Init, TypeOK

LEMMA StepType ==
  ASSUME TypeOK, NEW p \in Publisher, Step(p)
  PROVE  TypeOK'
<1> USE DEF hosting, history
<1>1. CASE Make(p)
  <2>1. [version |-> version[p], body |-> "empty", synced |-> FALSE] \in Inode
    BY DEF TypeOK, Inode
  <2>2. /\ temp' \in [Publisher -> [Artifact -> Inode]]
        /\ pc' \in [Publisher -> PC] /\ file' \in [Publisher -> Artifact]
    <3>1. file[p] \in Artifact
      BY DEF TypeOK
    <3> QED BY <1>1, <2>1, <3>1, GotoType, SetTempType DEF Make
  <2>3. UNCHANGED <<version, fault, served, durable, journal, outage, installed, unswept, settled>>
    BY <1>1 DEF Make
  <2> QED BY <2>2, <2>3 DEF TypeOK
<1>2. CASE MakeFails(p)
  BY <1>2, GotoType, RaiseType DEF TypeOK, MakeFails
<1>3. CASE Write(p)
  <2>1. [temp[p][file[p]] EXCEPT !.body = "whole"] \in Inode
    BY TempType, UpdateType
  <2> QED BY <1>3, <2>1, GotoType, SetTempType DEF TypeOK, Write
<1>4. CASE WriteFails(p)
  <2>1. [temp[p][file[p]] EXCEPT !.body = "partial"] \in Inode
    BY TempType, UpdateType
  <2> QED BY <1>4, <2>1, GotoType, SetTempType, RaiseType DEF TypeOK, WriteFails
<1>5. CASE Sync(p)
  <2>1. [temp[p][file[p]] EXCEPT !.synced = TRUE] \in Inode
    BY TempType, UpdateType
  <2> QED BY <1>5, <2>1, GotoType, SetTempType DEF TypeOK, Sync
<1>6. CASE SyncFails(p)
  <2>1. pc' \in [Publisher -> PC] /\ file' \in [Publisher -> Artifact]
    <3>1. file[p] \in Artifact
      BY DEF TypeOK
    <3> QED BY <1>6, <3>1, GotoType DEF SyncFails
  <2>2. fault' \in [Publisher -> FaultKind \cup {"none"}]
    BY <1>6, RaiseType DEF SyncFails
  <2>3. UNCHANGED <<version, temp, served, durable, journal, outage, installed, unswept, settled>>
    BY <1>6 DEF SyncFails
  <2> QED BY <2>1, <2>2, <2>3 DEF TypeOK
<1>7. CASE Replace(p)
  <2>1. temp[p][file[p]] \in Inode /\ file[p] \in Artifact
    BY TempType
  <2>2. served' \in [Artifact -> Inode]
    BY <1>7, <2>1 DEF TypeOK, Replace
  <2>3. journal' \in Seq([name : Artifact, inode : Inode])
    BY <1>7, <2>1, AppendProperties DEF TypeOK, Replace
  <2>4. installed' \in [Publisher -> SUBSET Artifact]
    BY <1>7, <2>1 DEF TypeOK, Replace
  <2> QED
    BY <1>7, <2>1, <2>2, <2>3, <2>4, NoFileType, GotoType, SetTempType DEF TypeOK, Replace
<1>8. CASE ReplaceFails(p)
  BY <1>8, GotoType, RaiseType DEF TypeOK, ReplaceFails
<1>9. CASE Report(p)
  BY <1>9, GotoType DEF TypeOK, Report
<1>10. CASE ReportFails(p)
  BY <1>10, GotoType, RaiseType DEF TypeOK, ReportFails
<1>11. CASE Unlink(p)
  BY <1>11, NoFileType, GotoType, SetTempType DEF TypeOK, Unlink
<1>12. CASE UnlinkFails(p)
  BY <1>12, GotoType DEF TypeOK, UnlinkFails
<1> QED
  BY <1>1, <1>2, <1>3, <1>4, <1>5, <1>6, <1>7, <1>8, <1>9, <1>10, <1>11, <1>12 DEF Step

LEMMA NextType == TypeOK /\ [Next]_vars => TypeOK'
<1> SUFFICES ASSUME TypeOK, [Next]_vars
             PROVE  TypeOK'
  OBVIOUS
<1> USE DEF hosting, history
<1>1. CASE \E p \in Publisher, v \in Version : Begin(p, v)
  BY <1>1, GotoType DEF TypeOK, Begin
<1>2. CASE \E p \in Publisher : Refuse(p)
  BY <1>2, GotoType, RaiseType DEF TypeOK, Refuse
<1>3. CASE \E p \in Publisher : Step(p)
  BY <1>3, StepType
<1>4. CASE \E p \in Publisher : Kill(p)
  <2>1. PICK p \in Publisher : Kill(p)
    BY <1>4
  <2>2. pc' \in [Publisher -> PC] /\ file' \in [Publisher -> Artifact]
    <3>1. file[p] \in Artifact
      BY DEF TypeOK
    <3> QED BY <2>1, <3>1, GotoType DEF Kill
  <2>3. fault' \in [Publisher -> FaultKind \cup {"none"}]
    BY <2>1, RaiseType DEF Kill
  <2>4. UNCHANGED <<version, temp, served, durable, journal, outage, installed, unswept, settled>>
    BY <2>1 DEF Kill
  <2> QED BY <2>2, <2>3, <2>4 DEF TypeOK
<1>5. CASE Writeback
  <2>1. Head(journal) \in [name : Artifact, inode : Inode]
    BY <1>5, HeadTailProperties DEF TypeOK, Writeback
  <2>2. journal' \in Seq([name : Artifact, inode : Inode])
    BY <1>5, HeadTailProperties DEF TypeOK, Writeback
  <2> QED BY <1>5, <2>1, <2>2 DEF TypeOK, Writeback
<1>6. CASE Outage
  <2>1. durable' \in [Artifact -> Inode]
    BY <1>6, SurvivingType DEF TypeOK, Outage
  <2>2. temp' \in [Publisher -> [Artifact -> Inode]]
    BY <1>6, SurvivingType DEF TypeOK, Outage
  <2>3. journal' \in Seq([name : Artifact, inode : Inode])
    BY <1>6 DEF Outage
  <2>4. pc' \in [Publisher -> PC] /\ fault' \in [Publisher -> FaultKind \cup {"none"}]
    BY <1>6 DEF TypeOK, Outage
  <2> QED BY <1>6, <2>1, <2>2, <2>3, <2>4 DEF TypeOK, Outage
<1>7. CASE UNCHANGED vars
  BY <1>7 DEF TypeOK, vars
<1> QED BY <1>1, <1>2, <1>3, <1>4, <1>5, <1>6, <1>7 DEF Next

(* Every variable of the publishers and of the filesystem keeps its type.  *)
THEOREM TypeCorrect == Spec => []TypeOK
<1>1. Init => TypeOK
  BY InitType
<1>2. TypeOK /\ [Next]_vars => TypeOK'
  BY NextType
<1> QED BY <1>1, <1>2, PTL DEF Spec
----------------------------------------------------------------------------
(* What is hosted is whole.  Neither artifact is renamed before both were  *)
(* written and fsynced, so the names, the disk and the renames on the way  *)
(* to it hold nothing that an outage could empty.                          *)

Sound(inode)    == inode.body = "whole" /\ inode.synced
Hostable(inode) == inode.body = "absent" \/ Sound(inode)

HostedSound ==
  /\ \A f \in Artifact : Hostable(served[f]) /\ Hostable(durable[f])
  /\ \A i \in 1 .. Len(journal) : Hostable(journal[i].inode)

TempsSound ==
  \A p \in Publisher :
    /\ pc[p] = "sync" => temp[p][file[p]].body = "whole"
    /\ pc[p] \in {"make", "write", "sync"} /\ file[p] = Stream => Sound(temp[p][Document])
    /\ pc[p] = "replace" => Sound(temp[p][Document]) /\ Sound(temp[p][file[p]])

WholeInv == TypeOK /\ HostedSound /\ TempsSound

LEMMA WholeInit == Init => WholeInv
BY InitType DEF Init, WholeInv, HostedSound, TempsSound, Hostable, NoFile

(* A step that renames nothing leaves the hosted names sound.              *)
LEMMA HostedUntouched ==
  ASSUME HostedSound, UNCHANGED <<served, durable, journal>>
  PROVE  HostedSound'
BY DEF HostedSound

LEMMA StepSoundTemps ==
  ASSUME WholeInv, NEW p \in Publisher, Step(p)
  PROVE  TempsSound'
<1>0. temp \in [Publisher -> [Artifact -> Inode]] /\ pc \in [Publisher -> PC]
      /\ file \in [Publisher -> Artifact]
  BY DEF WholeInv, TypeOK
<1>1. \A q \in Publisher \ {p} : pc'[q] = pc[q] /\ file'[q] = file[q] /\ temp'[q] = temp[q]
  BY <1>0 DEF Step, Make, MakeFails, Write, WriteFails, Sync, SyncFails, Replace, ReplaceFails,
     Report, ReportFails, Unlink, UnlinkFails, Goto, SetTemp
<1>2. /\ pc'[p] = "sync" => temp'[p][file'[p]].body = "whole"
      /\ pc'[p] \in {"make", "write", "sync"} /\ file'[p] = Stream => Sound(temp'[p][Document])
      /\ pc'[p] = "replace" => Sound(temp'[p][Document]) /\ Sound(temp'[p][file'[p]])
  <2> USE <1>0 DEF WholeInv, TempsSound, Sound, Goto, SetTemp
  <2>1. CASE Make(p)
    BY <2>1 DEF Make
  <2>2. CASE MakeFails(p) \/ WriteFails(p) \/ SyncFails(p) \/ ReplaceFails(p)
    BY <2>2 DEF MakeFails, WriteFails, SyncFails, ReplaceFails
  <2>3. CASE Write(p)
    <3>1. temp'[p][file[p]].body = "whole"
      BY <2>3 DEF Write, Inode
    <3> QED BY <2>3, <3>1 DEF Write
  <2>4. CASE Sync(p)
    <3>1. Sound(temp'[p][file[p]])
      BY <2>4 DEF Sync, Inode
    <3>2. \A f \in Artifact \ {file[p]} : temp'[p][f] = temp[p][f]
      BY <2>4 DEF Sync
    <3> QED BY <2>4, <3>1, <3>2 DEF Sync
  <2>5. CASE Replace(p)
    BY <2>5 DEF Replace
  <2>6. CASE Report(p) \/ ReportFails(p)
    BY <2>6 DEF Report, ReportFails
  <2>7. CASE Unlink(p) \/ UnlinkFails(p)
    BY <2>7 DEF Unlink, UnlinkFails
  <2> QED BY <2>1, <2>2, <2>3, <2>4, <2>5, <2>6, <2>7 DEF Step
<1> QED BY <1>0, <1>1, <1>2 DEF WholeInv, TempsSound, Sound

LEMMA StepSoundHosted ==
  ASSUME WholeInv, NEW p \in Publisher, Step(p)
  PROVE  HostedSound'
<1>1. CASE Replace(p)
  <2>1. Hostable(temp[p][file[p]]) /\ file[p] \in Artifact
    BY <1>1 DEF WholeInv, TypeOK, TempsSound, Hostable, Replace
  <2>2. \A f \in Artifact : Hostable(served'[f]) /\ Hostable(durable'[f])
    BY <1>1, <2>1 DEF WholeInv, TypeOK, HostedSound, Replace
  <2>3. \A i \in 1 .. Len(journal') : Hostable(journal'[i].inode)
    <3>1. [name |-> file[p], inode |-> temp[p][file[p]]] \in [name : Artifact, inode : Inode]
      BY TempType DEF WholeInv
    <3> QED BY <1>1, <2>1, <3>1, AppendProperties DEF WholeInv, TypeOK, HostedSound, Replace
  <2> QED BY <2>2, <2>3 DEF HostedSound
<1>2. CASE ~Replace(p)
  BY <1>2, HostedUntouched DEF WholeInv, Step, Make, MakeFails, Write, WriteFails, Sync, SyncFails,
     ReplaceFails, Report, ReportFails, Unlink, UnlinkFails, hosting
<1> QED BY <1>1, <1>2

LEMMA WholeNext == WholeInv /\ [Next]_vars => WholeInv'
<1> SUFFICES ASSUME WholeInv, [Next]_vars
             PROVE  HostedSound' /\ TempsSound'
  BY NextType DEF WholeInv
<1>0. TypeOK
  BY DEF WholeInv
<1>1. CASE \E p \in Publisher, v \in Version : Begin(p, v)
  BY <1>1, HostedUntouched DEF WholeInv, TypeOK, TempsSound, Begin, Goto, hosting
<1>2. CASE \E p \in Publisher : Refuse(p) \/ Kill(p)
  <2>1. PICK p \in Publisher : Refuse(p) \/ Kill(p)
    BY <1>2
  <2>2. UNCHANGED <<temp, hosting>> /\ \E step \in {"exit", "dead"}, f \in Artifact : Goto(p, step, f)
    BY <1>0, <2>1 DEF Refuse, Kill, TypeOK
  <2>3. \A q \in Publisher : pc'[q] \in {"exit", "dead"} \/ (pc'[q] = pc[q] /\ file'[q] = file[q])
    BY <1>0, <2>2 DEF Goto, TypeOK
  <2>4. TempsSound'
    BY <2>2, <2>3 DEF WholeInv, TempsSound
  <2> QED BY <2>2, <2>4, HostedUntouched DEF WholeInv, hosting
<1>3. CASE \E p \in Publisher : Step(p)
  BY <1>3, StepSoundTemps, StepSoundHosted
<1>4. CASE Writeback
  <2>1. TempsSound'
    BY <1>4 DEF WholeInv, TempsSound, Writeback
  <2>2. Hostable(Head(journal).inode) /\ Head(journal).name \in Artifact
    <3>1. journal \in Seq([name : Artifact, inode : Inode]) /\ journal # <<>>
      BY <1>4 DEF WholeInv, TypeOK, Writeback
    <3>2. 1 \in 1 .. Len(journal)
      BY <3>1, LenProperties, EmptySeq
    <3>3. Head(journal) = journal[1]
      BY <3>1
    <3>4. Head(journal) \in [name : Artifact, inode : Inode]
      BY <3>1, HeadTailProperties
    <3>5. Head(journal).name \in Artifact
      BY <3>4
    <3> QED BY <3>2, <3>3, <3>5 DEF WholeInv, HostedSound
  <2>3. \A i \in 1 .. Len(journal') : Hostable(journal'[i].inode)
    BY <1>4, HeadTailProperties DEF WholeInv, TypeOK, HostedSound, Writeback
  <2> QED BY <1>4, <2>1, <2>2, <2>3 DEF WholeInv, TypeOK, HostedSound, Writeback
<1>5. CASE Outage
  <2>1. \A p \in Publisher : pc'[p] \in Ended \cup {"idle"}
    BY <1>5 DEF WholeInv, TypeOK, Outage, Live
  <2>2. \A inode \in Inode : Hostable(inode) => Hostable(Surviving(inode))
    BY DEF Hostable, Sound, Surviving, Exists
  <2>3. \A f \in Artifact : Hostable(durable'[f]) /\ served'[f] = durable'[f]
    BY <1>5, <2>2 DEF WholeInv, TypeOK, HostedSound, Outage
  <2>4. journal' = <<>>
    BY <1>5 DEF Outage
  <2>5. HostedSound'
    BY <2>3, <2>4 DEF HostedSound
  <2> QED BY <2>1, <2>5 DEF TempsSound
<1>6. CASE UNCHANGED vars
  BY <1>6, HostedUntouched DEF WholeInv, TempsSound, vars, hosting
<1> QED BY <1>1, <1>2, <1>3, <1>4, <1>5, <1>6 DEF Next

(* No reader is ever served an empty or a partial artifact, before or      *)
(* after an outage, however many runs publish at once.                     *)
THEOREM WholeCorrect == Spec => []WholeArtifacts
<1>1. Init => WholeInv
  BY WholeInit
<1>2. WholeInv /\ [Next]_vars => WholeInv'
  BY WholeNext
<1>3. WholeInv => WholeArtifacts
  BY DEF WholeInv, HostedSound, Hostable, Sound, WholeArtifacts
<1> QED BY <1>1, <1>2, <1>3, PTL DEF Spec
----------------------------------------------------------------------------
(* Nothing is hosted by a run that fails to write.  An exception in _write *)
(* leads only to the handlers before the renames.                          *)

FailInv ==
  /\ TypeOK
  /\ \A p \in Publisher :
       /\ pc[p] \in {"idle", "make", "write", "sync", "unwind"} => installed[p] = {}
       /\ pc[p] \in {"idle", "make", "write", "sync", "replace", "print"} => fault[p] = "none"
       /\ fault[p] \in {"refuse", "make", "write", "sync"} => installed[p] = {}

LEMMA FailInit == Init => FailInv
BY InitType DEF Init, FailInv

LEMMA FailStep ==
  ASSUME FailInv, NEW p \in Publisher, Step(p)
  PROVE  FailInv'
<1>0. TypeOK'
  BY StepType DEF FailInv
<1> USE DEF FailInv, TypeOK, Goto, Raise
<1>1. \A q \in Publisher \ {p} :
        pc'[q] = pc[q] /\ fault'[q] = fault[q] /\ installed'[q] = installed[q]
  BY DEF Step, Make, MakeFails, Write, WriteFails, Sync, SyncFails, Replace, ReplaceFails,
     Report, ReportFails, Unlink, UnlinkFails, history
<1>2. /\ pc'[p] \in {"idle", "make", "write", "sync", "unwind"} => installed'[p] = {}
      /\ pc'[p] \in {"idle", "make", "write", "sync", "replace", "print"} => fault'[p] = "none"
      /\ fault'[p] \in {"refuse", "make", "write", "sync"} => installed'[p] = {}
  <2>1. CASE Make(p) \/ Write(p) \/ Sync(p)
    BY <2>1 DEF Make, Write, Sync, history
  <2>2. CASE MakeFails(p) \/ WriteFails(p) \/ SyncFails(p)
    BY <2>2 DEF MakeFails, WriteFails, SyncFails, history
  <2>3. CASE Replace(p) \/ ReplaceFails(p)
    BY <2>3 DEF Replace, ReplaceFails, history
  <2>4. CASE Report(p) \/ ReportFails(p)
    BY <2>4 DEF Report, ReportFails, history
  <2>5. CASE Unlink(p) \/ UnlinkFails(p)
    BY <2>5 DEF Unlink, UnlinkFails, history
  <2> QED BY <2>1, <2>2, <2>3, <2>4, <2>5 DEF Step
<1> QED BY <1>0, <1>1, <1>2 DEF FailInv

LEMMA FailNext == FailInv /\ [Next]_vars => FailInv'
<1> SUFFICES ASSUME FailInv, [Next]_vars
             PROVE  FailInv'
  OBVIOUS
<1>0. TypeOK'
  BY NextType DEF FailInv
<1> USE DEF FailInv, TypeOK, Goto, Raise, history
<1>1. CASE \E p \in Publisher, v \in Version : Begin(p, v)
  BY <1>0, <1>1 DEF Begin
<1>2. CASE \E p \in Publisher : Refuse(p) \/ Kill(p)
  <2>1. PICK p \in Publisher : Refuse(p) \/ Kill(p)
    BY <1>2
  <2>2. CASE Refuse(p)
    BY <1>0, <2>2 DEF Refuse
  <2>3. CASE Kill(p)
    BY <1>0, <2>3 DEF Kill, Live
  <2> QED BY <2>1, <2>2, <2>3
<1>3. CASE \E p \in Publisher : Step(p)
  BY <1>3, FailStep
<1>4. CASE Writeback
  BY <1>0, <1>4 DEF Writeback
<1>5. CASE Outage
  BY <1>0, <1>5 DEF Outage, Live
<1>6. CASE UNCHANGED vars
  BY <1>0, <1>6 DEF vars
<1> QED BY <1>1, <1>2, <1>3, <1>4, <1>5, <1>6 DEF Next

(* A run that was refused, or failed to make, write or fsync either        *)
(* artifact, has renamed neither.                                          *)
THEOREM FailedWriteCorrect == Spec => []FailedWritePublishesNothing
<1>1. Init => FailInv
  BY FailInit
<1>2. FailInv /\ [Next]_vars => FailInv'
  BY FailNext
<1>3. FailInv => FailedWritePublishesNothing
  BY DEF FailInv, FailedWritePublishesNothing
<1> QED BY <1>1, <1>2, <1>3, PTL DEF Spec

----------------------------------------------------------------------------
(* Nothing is left behind.  Each handler is entered with exactly the       *)
(* temporary files it unlinks still there.                                 *)

Gone(p, f) == temp[p][f].body = "absent" \/ p \in unswept

LitterInv ==
  /\ TypeOK
  /\ \A p \in Publisher :
       /\ pc[p] \in {"idle", "print", "exit"} => \A f \in Artifact : Gone(p, f)
       /\ pc[p] = "make" => Gone(p, file[p])
       /\ pc[p] \in PC \ {"dead"} /\ file[p] = Document => Gone(p, Stream)

LEMMA LitterInit == Init => LitterInv
BY InitType DEF Init, LitterInv, Gone, NoFile

LEMMA LitterStep ==
  ASSUME LitterInv, NEW p \in Publisher, Step(p)
  PROVE  LitterInv'
<1>0. TypeOK'
  BY StepType DEF LitterInv
<1> USE DEF LitterInv, TypeOK, Gone, Goto, SetTemp, NoFile
<1>1. \A q \in Publisher \ {p} :
        pc'[q] = pc[q] /\ file'[q] = file[q] /\ temp'[q] = temp[q] /\ (q \in unswept => q \in unswept')
  BY DEF Step, Make, MakeFails, Write, WriteFails, Sync, SyncFails, Replace, ReplaceFails,
     Report, ReportFails, Unlink, UnlinkFails, history
<1>2. /\ pc'[p] \in {"idle", "print", "exit"} => \A f \in Artifact : Gone(p, f)'
      /\ pc'[p] = "make" => Gone(p, file[p])'
      /\ pc'[p] \in PC \ {"dead"} /\ file'[p] = Document => Gone(p, Stream)'
  <2>1. CASE Make(p)
    BY <2>1 DEF Make, history
  <2>2. CASE MakeFails(p) \/ SyncFails(p) \/ ReplaceFails(p)
    BY <2>2 DEF MakeFails, SyncFails, ReplaceFails, history
  <2>3. CASE Write(p) \/ WriteFails(p)
    <3>1. /\ \A f \in Artifact \ {file[p]} : temp'[p][f] = temp[p][f]
          /\ unswept' = unswept /\ file'[p] = file[p] /\ pc'[p] \in {"sync", "unwind"}
      BY <2>3 DEF Write, WriteFails, history
    <3>2. pc[p] = "write"
      BY <2>3 DEF Write, WriteFails
    <3> QED BY <3>1, <3>2
  <2>4. CASE Sync(p)
    BY <2>4 DEF Sync, history
  <2>5. CASE Replace(p)
    BY <2>5 DEF Replace
  <2>6. CASE Report(p) \/ ReportFails(p)
    BY <2>6 DEF Report, ReportFails, history
  <2>7. CASE Unlink(p)
    BY <2>7 DEF Unlink, history
  <2>8. CASE UnlinkFails(p)
    BY <2>8 DEF UnlinkFails
  <2> QED BY <2>1, <2>2, <2>3, <2>4, <2>5, <2>6, <2>7, <2>8 DEF Step
<1>3. ASSUME NEW q \in Publisher
      PROVE  /\ pc'[q] \in {"idle", "print", "exit"} => \A f \in Artifact : Gone(q, f)'
             /\ pc'[q] = "make" => Gone(q, file[q])'
             /\ pc'[q] \in PC \ {"dead"} /\ file'[q] = Document => Gone(q, Stream)'
  <2>1. CASE q = p
    BY <1>2, <2>1
  <2>2. CASE q # p
    BY <1>1, <2>2
  <2> QED BY <2>1, <2>2
<1> HIDE DEF TypeOK, Gone
<1> QED BY <1>0, <1>3

LEMMA LitterNext == LitterInv /\ [Next]_vars => LitterInv'
<1> SUFFICES ASSUME LitterInv, [Next]_vars
             PROVE  LitterInv'
  OBVIOUS
<1>0. TypeOK'
  BY NextType DEF LitterInv
<1> USE DEF LitterInv, TypeOK, Gone, Goto, Raise, history
<1>1. CASE \E p \in Publisher, v \in Version : Begin(p, v)
  BY <1>0, <1>1 DEF Begin
<1>2. CASE \E p \in Publisher : Refuse(p) \/ Kill(p)
  <2>1. PICK p \in Publisher : Refuse(p) \/ Kill(p)
    BY <1>2
  <2>2. /\ temp' = temp /\ unswept' = unswept
        /\ pc'[p] = "dead" \/ (pc[p] = "idle" /\ pc'[p] = "exit")
        /\ \A q \in Publisher \ {p} : pc'[q] = pc[q] /\ file'[q] = file[q]
    BY <2>1 DEF Refuse, Kill
  <2> QED BY <1>0, <2>2
<1>3. CASE \E p \in Publisher : Step(p)
  BY <1>3, LitterStep
<1>4. CASE Writeback
  BY <1>0, <1>4 DEF Writeback
<1>5. CASE Outage
  <2>1. \A inode \in Inode : inode.body = "absent" => Surviving(inode).body = "absent"
    BY DEF Surviving, Exists
  <2>2. \A p \in Publisher, f \in Artifact : temp'[p][f] = Surviving(temp[p][f])
    BY <1>5 DEF Outage
  <2>3. \A p \in Publisher, f \in Artifact : Gone(p, f) => Gone(p, f)'
    BY <1>5, <2>1, <2>2 DEF Outage
  <2>4. \A p \in Publisher : pc'[p] = pc[p] \/ pc'[p] = "dead"
    BY <1>5 DEF Outage
  <2> QED BY <1>0, <1>5, <2>3, <2>4 DEF Outage
<1>6. CASE UNCHANGED vars
  BY <1>0, <1>6 DEF vars
<1> QED BY <1>1, <1>2, <1>3, <1>4, <1>5, <1>6 DEF Next

(* A run that exits has unlinked every temporary file it made, unless an   *)
(* unlink raised.                                                          *)
THEOREM NoLitterCorrect == Spec => []NoLitter
<1>1. Init => LitterInv
  BY LitterInit
<1>2. LitterInv /\ [Next]_vars => LitterInv'
  BY LitterNext
<1>3. LitterInv => NoLitter
  BY DEF LitterInv, Gone, NoLitter, Exists
<1> QED BY <1>1, <1>2, <1>3, PTL DEF Spec

(***************************************************************************)
(* What the two hosted names hold over time: that Publish implements       *)
(* HostedArtifacts however the runs overlap, and what an operator who      *)
(* publishes newer streams one run after another may rely on.              *)
(***************************************************************************)

(* A run renames what it was begun to publish, and its stream first.       *)
OwnVersion ==
  \A p \in Publisher :
    /\ pc[p] \notin Ended \cup {"idle"} => version[p] \in Version
    /\ pc[p] \in {"write", "sync"} => temp[p][file[p]].version = version[p]
    /\ pc[p] \in {"make", "write", "sync"} /\ file[p] = Stream
         => temp[p][Document].version = version[p]
    /\ pc[p] = "replace" =>
         /\ temp[p][Document].version = version[p]
         /\ temp[p][file[p]].version = version[p]
         /\ file[p] = Document => Stream \in installed[p]

HostingInv == WholeInv /\ FailInv /\ OwnVersion

LEMMA OwnInit == Init => OwnVersion
<1>1. Init => \A p \in Publisher : pc[p] = "idle"
  BY DEF Init
<1> QED BY <1>1 DEF OwnVersion

LEMMA OwnStep ==
  ASSUME TypeOK, OwnVersion, NEW p \in Publisher, Step(p)
  PROVE  OwnVersion'
<1>0. /\ temp \in [Publisher -> [Artifact -> Inode]] /\ pc \in [Publisher -> PC]
      /\ file \in [Publisher -> Artifact] /\ installed \in [Publisher -> SUBSET Artifact]
  BY DEF TypeOK
<1>1. \A q \in Publisher \ {p} :
        pc'[q] = pc[q] /\ file'[q] = file[q] /\ temp'[q] = temp[q] /\ installed'[q] = installed[q]
  BY <1>0 DEF Step, Make, MakeFails, Write, WriteFails, Sync, SyncFails, Replace, ReplaceFails,
     Report, ReportFails, Unlink, UnlinkFails, Goto, SetTemp, history
<1>2. version' = version
  BY DEF Step, Make, MakeFails, Write, WriteFails, Sync, SyncFails, Replace, ReplaceFails,
     Report, ReportFails, Unlink, UnlinkFails
<1>3. /\ pc'[p] \notin Ended \cup {"idle"} => version[p] \in Version
      /\ pc'[p] \in {"write", "sync"} => temp'[p][file'[p]].version = version[p]
      /\ pc'[p] \in {"make", "write", "sync"} /\ file'[p] = Stream
           => temp'[p][Document].version = version[p]
      /\ pc'[p] = "replace" =>
           /\ temp'[p][Document].version = version[p]
           /\ temp'[p][file'[p]].version = version[p]
           /\ file'[p] = Document => Stream \in installed'[p]
  <2> USE <1>0 DEF OwnVersion, Goto, SetTemp, history
  <2>1. CASE Make(p)
    BY <2>1 DEF Make
  <2>2. CASE MakeFails(p) \/ SyncFails(p) \/ ReplaceFails(p)
    BY <2>2 DEF MakeFails, SyncFails, ReplaceFails
  <2>3. CASE Write(p) \/ WriteFails(p)
    <3>1. temp'[p][file[p]].version = version[p]
      <4>1. CASE Write(p)
        BY <4>1 DEF Write, Inode
      <4>2. CASE WriteFails(p)
        BY <4>2 DEF WriteFails, Inode
      <4> QED BY <2>3, <4>1, <4>2
    <3>2. \A f \in Artifact \ {file[p]} : temp'[p][f] = temp[p][f]
      BY <2>3 DEF Write, WriteFails
    <3>3. pc[p] = "write" /\ pc'[p] \in {"sync", "unwind"} /\ file'[p] = file[p]
      BY <2>3 DEF Write, WriteFails
    <3> QED BY <3>1, <3>2, <3>3
  <2>4. CASE Sync(p)
    <3>1. temp'[p][file[p]].version = version[p]
      BY <2>4 DEF Sync, Inode
    <3>2. \A f \in Artifact \ {file[p]} : temp'[p][f] = temp[p][f]
      BY <2>4 DEF Sync
    <3>3. /\ pc[p] = "sync" /\ file'[p] = Stream
          /\ pc'[p] = IF file[p] = Document THEN "make" ELSE "replace"
      BY <2>4 DEF Sync
    <3> QED BY <3>1, <3>2, <3>3
  <2>5. CASE Replace(p)
    BY <2>5 DEF Replace
  <2>6. CASE Report(p) \/ ReportFails(p)
    BY <2>6 DEF Report, ReportFails
  <2>7. CASE Unlink(p) \/ UnlinkFails(p)
    BY <2>7 DEF Unlink, UnlinkFails
  <2> QED BY <2>1, <2>2, <2>3, <2>4, <2>5, <2>6, <2>7 DEF Step
<1> QED BY <1>0, <1>1, <1>2, <1>3 DEF OwnVersion

LEMMA HostingInit == Init => HostingInv
BY WholeInit, FailInit, OwnInit DEF HostingInv

LEMMA HostingNext == HostingInv /\ [Next]_vars => HostingInv'
<1> SUFFICES ASSUME HostingInv, [Next]_vars
             PROVE  OwnVersion'
  BY WholeNext, FailNext DEF HostingInv
<1>0. TypeOK /\ OwnVersion
  BY DEF HostingInv, WholeInv
<1> USE DEF history
<1>1. CASE \E p \in Publisher, v \in Version : Begin(p, v)
  BY <1>0, <1>1 DEF TypeOK, OwnVersion, Begin, Goto
<1>2. CASE \E p \in Publisher : Refuse(p) \/ Kill(p)
  <2>1. PICK p \in Publisher : Refuse(p) \/ Kill(p)
    BY <1>2
  <2>2. /\ pc'[p] \in Ended /\ \A q \in Publisher \ {p} : pc'[q] = pc[q] /\ file'[q] = file[q]
        /\ UNCHANGED <<version, temp, installed>>
    BY <1>0, <2>1 DEF TypeOK, Refuse, Kill, Goto
  <2>3. pc'[p] \notin {"make", "write", "sync", "replace"}
    BY <2>2
  <2> QED BY <1>0, <2>2, <2>3 DEF OwnVersion
<1>3. CASE \E p \in Publisher : Step(p)
  BY <1>0, <1>3, OwnStep
<1>4. CASE Writeback
  BY <1>0, <1>4 DEF OwnVersion, Writeback
<1>5. CASE Outage
  <2>1. \A p \in Publisher : pc'[p] \in Ended \cup {"idle"}
    BY <1>0, <1>5 DEF TypeOK, Outage, Live
  <2> QED BY <2>1 DEF OwnVersion
<1>6. CASE UNCHANGED vars
  BY <1>0, <1>6 DEF OwnVersion, vars
<1> QED BY <1>1, <1>2, <1>3, <1>4, <1>5, <1>6 DEF Next
----------------------------------------------------------------------------
(* Publish implements HostedArtifacts.  Of its steps only the renames, the *)
(* writeback and the outage move what HostedArtifacts speaks of.           *)

Backlog ==
  [i \in 1 .. Len(journal) |->
     [name |-> NameOf(journal[i].name), version |-> Publication(journal[i].inode)]]

Evidence == {version[p] : p \in {q \in Publisher : Stream \in installed[q]}}

Entry == [name : {"stream", "document"}, version : Version \cup {0, Torn}]

LEMMA EntryType ==
  ASSUME NEW f \in Artifact, NEW inode \in Inode
  PROVE  [name |-> NameOf(f), version |-> Publication(inode)] \in Entry
BY DEF Entry, NameOf, Publication, Inode

LEMMA BacklogType == TypeOK => Backlog \in Seq(Entry) /\ Len(Backlog) = Len(journal)
<1> SUFFICES ASSUME TypeOK
             PROVE  Backlog \in Seq(Entry) /\ Len(Backlog) = Len(journal)
  OBVIOUS
<1>1. journal \in Seq([name : Artifact, inode : Inode]) /\ Len(journal) \in Nat
  BY LenProperties DEF TypeOK
<1>2. \A i \in 1 .. Len(journal) : journal[i].name \in Artifact /\ journal[i].inode \in Inode
  <2>1. \A i \in 1 .. Len(journal) : journal[i] \in [name : Artifact, inode : Inode]
    BY <1>1, ElementOfSeq
  <2> QED BY <2>1
<1>3. Backlog \in [1 .. Len(journal) -> Entry]
  BY <1>2, EntryType DEF Backlog
<1> QED BY <1>1, <1>3, IsASeq, LenProperties

LEMMA SurvivingSound ==
  ASSUME NEW inode, Hostable(inode)
  PROVE  Surviving(inode) = inode
BY DEF Hostable, Sound, Surviving, Exists

LEMMA RefineInit == Init => Hosted!Init
<1> SUFFICES ASSUME Init
             PROVE  Hosted!Init
  OBVIOUS
<1>1. Publication(NoFile) = 0
  BY DEF Publication, NoFile
<1>2. Hosting(served) = [document |-> 0, stream |-> 0] /\ Hosting(durable) = Hosting(served)
  BY <1>1 DEF Init, Hosting
<1>3. Backlog = <<>>
  BY DEF Init, Backlog
<1>4. Evidence = {}
  BY DEF Init, Evidence
<1> QED BY <1>2, <1>3, <1>4 DEF Hosted!Init, Backlog, Evidence

LEMMA Unmoved ==
  ASSUME UNCHANGED <<served, durable, journal>>, Evidence' = Evidence
  PROVE  UNCHANGED Hosted!abstractVars
BY DEF Hosted!abstractVars, Evidence

LEMMA RefineReplace ==
  ASSUME HostingInv, NEW p \in Publisher, Replace(p)
  PROVE  Hosted!Next
<1> DEFINE f == file[p]
           inode == temp[p][f]
           v == version[p]
<1>1. /\ TypeOK /\ f \in Artifact /\ inode \in Inode /\ v \in Version
      /\ inode.version = v /\ inode.body = "whole" /\ pc[p] = "replace"
      /\ f = Document => Stream \in installed[p]
  <2>1. pc[p] = "replace"
    BY DEF Replace
  <2>2. TypeOK /\ f \in Artifact /\ inode \in Inode
    BY DEF HostingInv, WholeInv, TypeOK
  <2>3. inode.body = "whole"
    BY <2>1 DEF HostingInv, WholeInv, TempsSound, Sound
  <2>4. v \in Version /\ inode.version = v /\ (f = Document => Stream \in installed[p])
    BY <2>1 DEF HostingInv, OwnVersion
  <2> QED BY <2>1, <2>2, <2>3, <2>4
<1>2. Publication(inode) = v
  BY <1>1 DEF Publication
<1>3. Hosting(served)' = [Hosting(served) EXCEPT ![NameOf(f)] = v]
  <2>1. served' = [served EXCEPT ![f] = inode]
    BY DEF Replace
  <2> QED BY <1>1, <1>2, <2>1 DEF Hosting, TypeOK, NameOf
<1>4. Backlog' = Append(Backlog, [name |-> NameOf(f), version |-> v])
  <2>1. journal' = Append(journal, [name |-> f, inode |-> inode])
    BY DEF Replace
  <2>2. journal \in Seq([name : Artifact, inode : Inode])
    BY <1>1 DEF TypeOK
  <2> DEFINE entry == [name |-> NameOf(f), version |-> v]
  <2>3. [name |-> f, inode |-> inode] \in [name : Artifact, inode : Inode]
    BY <1>1
  <2>4. /\ Len(journal') = Len(journal) + 1 /\ Len(journal) \in Nat
        /\ \A i \in 1 .. Len(journal) : journal'[i] = journal[i]
        /\ journal'[Len(journal) + 1] = [name |-> f, inode |-> inode]
    BY <2>1, <2>2, <2>3, AppendProperties, LenProperties
  <2>5. entry \in Entry
    BY <1>1, <1>2, EntryType
  <2>6. TypeOK'
    BY <1>1, StepType DEF Step
  <2> DEFINE longer == Append(Backlog, entry)
  <2>7. /\ longer \in Seq(Entry) /\ Len(longer) = Len(journal) + 1
        /\ \A i \in 1 .. Len(journal) : longer[i] = Backlog[i]
        /\ longer[Len(journal) + 1] = entry
    BY <1>1, <2>5, BacklogType, AppendProperties
  <2>8. Backlog' \in Seq(Entry) /\ Len(Backlog') = Len(journal) + 1
    <3>1. (TypeOK => Backlog \in Seq(Entry) /\ Len(Backlog) = Len(journal))'
      BY BacklogType, PTL
    <3> QED BY <2>4, <2>6, <3>1
  <2>9. \A i \in 1 .. Len(journal) + 1 : Backlog'[i] = longer[i]
    BY <1>2, <2>4, <2>7 DEF Backlog
  <2> QED BY <2>4, <2>7, <2>8, <2>9, SeqEqual
<1>5. UNCHANGED Hosting(durable)
  BY DEF Replace, Hosting
<1>6. Evidence' = IF f = Stream THEN Evidence \cup {v} ELSE Evidence
  BY <1>1 DEF Replace, Evidence, TypeOK
<1>7. f = Document => v \in Evidence
  BY <1>1 DEF Evidence
<1> HIDE DEF f, inode, v
<1>8. CASE f = Stream
  BY <1>1, <1>3, <1>4, <1>5, <1>6, <1>8
     DEF Hosted!Next, Hosted!InstallStream, Hosted!Install, Backlog, Evidence, NameOf
<1>9. CASE f = Document
  BY <1>1, <1>3, <1>4, <1>5, <1>6, <1>7, <1>9
     DEF Hosted!Next, Hosted!InstallDocument, Hosted!Install, Backlog, Evidence, NameOf
<1> QED BY <1>1, <1>8, <1>9

LEMMA RefineWriteback ==
  ASSUME HostingInv, Writeback
  PROVE  Hosted!Settle
<1>1. /\ journal \in Seq([name : Artifact, inode : Inode]) /\ journal # <<>>
      /\ durable \in [Artifact -> Inode]
  BY DEF HostingInv, WholeInv, TypeOK, Writeback
<1>2. /\ Len(journal) \in Nat /\ Len(journal) > 0 /\ Head(journal) = journal[1]
      /\ Head(journal).name \in Artifact
  <2>1. Head(journal) \in [name : Artifact, inode : Inode]
    BY <1>1, HeadTailProperties
  <2> QED BY <1>1, <2>1, LenProperties, EmptySeq
<1>3. /\ Backlog \in Seq(Entry) /\ Len(Backlog) = Len(journal) /\ Backlog # <<>>
      /\ Head(Backlog) = [name |-> NameOf(journal[1].name),
                           version |-> Publication(journal[1].inode)]
  <2>1. Backlog \in Seq(Entry) /\ Len(Backlog) = Len(journal)
    BY BacklogType DEF HostingInv, WholeInv
  <2>2. Backlog # <<>> /\ Head(Backlog) = Backlog[1]
    BY <1>2, <2>1, EmptySeq
  <2> QED BY <1>2, <2>1, <2>2 DEF Backlog
<1>4. Backlog' = Tail(Backlog)
  <2>1. /\ Len(journal') = Len(journal) - 1
        /\ \A i \in 1 .. Len(journal) - 1 : journal'[i] = journal[i + 1]
    BY <1>1, <1>2, HeadTailProperties DEF Writeback
  <2>2. TypeOK'
    BY NextType DEF HostingInv, WholeInv, Next
  <2>3. Backlog' \in Seq(Entry) /\ Len(Backlog') = Len(journal) - 1
    <3>1. (TypeOK => Backlog \in Seq(Entry) /\ Len(Backlog) = Len(journal))'
      BY BacklogType, PTL
    <3> QED BY <2>1, <2>2, <3>1
  <2>4. /\ Tail(Backlog) \in Seq(Entry) /\ Len(Tail(Backlog)) = Len(journal) - 1
        /\ \A i \in 1 .. Len(journal) - 1 : Tail(Backlog)[i] = Backlog[i + 1]
    BY <1>2, <1>3, HeadTailProperties
  <2>5. \A i \in 1 .. Len(journal) - 1 : Backlog'[i] = Backlog[i + 1]
    BY <1>2, <2>1 DEF Backlog
  <2> QED BY <1>2, <2>3, <2>4, <2>5, SeqEqual
<1>5. Hosting(durable)' =
        [Hosting(durable) EXCEPT ![Head(Backlog).name] = Head(Backlog).version]
  <2>1. durable' = [durable EXCEPT ![journal[1].name] = journal[1].inode]
    BY <1>2 DEF Writeback
  <2>2. Hosting(durable)' =
        [Hosting(durable) EXCEPT ![NameOf(journal[1].name)] = Publication(journal[1].inode)]
    BY <1>1, <1>2, <2>1 DEF Hosting, NameOf
  <2>3. /\ Head(Backlog).name = NameOf(journal[1].name)
        /\ Head(Backlog).version = Publication(journal[1].inode)
    BY <1>3
  <2> QED BY <2>2, <2>3, Zenon
<1>6. UNCHANGED Hosting(served)
  BY DEF Writeback, Hosting
<1>7. Evidence' = Evidence
  BY DEF Writeback, Evidence, history
<1> QED
  BY <1>3, <1>4, <1>5, <1>6, <1>7 DEF Hosted!Settle, Backlog, Evidence

LEMMA RefineOutage ==
  ASSUME HostingInv, Outage
  PROVE  Hosted!Lose
<1>1. durable \in [Artifact -> Inode] /\ \A f \in Artifact : Hostable(durable[f])
  BY DEF HostingInv, WholeInv, TypeOK, HostedSound
<1>2. durable' = durable /\ served' = durable
  BY <1>1, SurvivingSound DEF Outage
<1>3. Backlog' = <<>>
  BY DEF Outage, Backlog
<1>4. Evidence' = Evidence
  BY DEF Outage, Evidence
<1> QED BY <1>2, <1>3, <1>4 DEF Hosted!Lose, Hosting, Backlog, Evidence

LEMMA RefineStep ==
  ASSUME HostingInv, [Next]_vars
  PROVE  [Hosted!Next]_Hosted!abstractVars
<1> USE DEF hosting, history
<1>1. CASE \E p \in Publisher, v \in Version : Begin(p, v)
  <2>1. PICK p \in Publisher, v \in Version : Begin(p, v)
    BY <1>1
  <2>2. Stream \notin installed[p] /\ installed' = installed
    BY <2>1 DEF HostingInv, FailInv, Begin
  <2>3. \A q \in Publisher \ {p} : version'[q] = version[q]
    BY <2>1 DEF HostingInv, WholeInv, TypeOK, Begin
  <2>4. Evidence' = Evidence
    BY <2>2, <2>3 DEF Evidence
  <2> QED BY <2>1, <2>4, Unmoved DEF Begin
<1>2. CASE \E p \in Publisher : Refuse(p) \/ Kill(p)
  BY <1>2, Unmoved DEF Refuse, Kill, Evidence
<1>3. CASE \E p \in Publisher : Step(p)
  <2>1. PICK p \in Publisher : Step(p)
    BY <1>3
  <2>2. CASE Replace(p)
    BY <2>2, RefineReplace
  <2>3. CASE ~Replace(p)
    <3>1. UNCHANGED <<served, durable, journal, version, installed>>
      BY <2>1, <2>3 DEF Step, Make, MakeFails, Write, WriteFails, Sync, SyncFails,
         ReplaceFails, Report, ReportFails, Unlink, UnlinkFails
    <3> QED BY <3>1, Unmoved DEF Evidence
  <2> QED BY <2>2, <2>3
<1>4. CASE Writeback
  BY <1>4, RefineWriteback DEF Hosted!Next
<1>5. CASE Outage
  BY <1>5, RefineOutage DEF Hosted!Next
<1>6. CASE UNCHANGED vars
  BY <1>6, Unmoved DEF vars, Evidence
<1> QED BY <1>1, <1>2, <1>3, <1>4, <1>5, <1>6 DEF Next

(* However many runs overlap, fail, are killed or lose power, the hosted   *)
(* names change only as HostedArtifacts allows: whole publications, each   *)
(* document after the stream it was derived from.                          *)
THEOREM HostingRefines == Spec => RefinesHostedArtifacts
<1>1. Init => HostingInv
  BY HostingInit
<1>2. HostingInv /\ [Next]_vars => HostingInv'
  BY HostingNext
<1>3. Init => Hosted!Init
  BY RefineInit
<1>4. HostingInv /\ [Next]_vars => [Hosted!Next]_Hosted!abstractVars
  BY RefineStep
<1> QED BY <1>1, <1>2, <1>3, <1>4, PTL DEF Spec, RefinesHostedArtifacts, Hosted!Spec
----------------------------------------------------------------------------
(* One run after another, each with a stream no older than those before.   *)
(* The run that is going then publishes the newest of all, and what is on  *)
(* its way to the disk is ordered as it was renamed.                       *)

(* No name holds, or will hold after an outage, anything newer than v.     *)
Under(v) ==
  /\ \A f \in Artifact : served[f].version <= v /\ durable[f].version <= v
  /\ \A i \in 1 .. Len(journal) : journal[i].inode.version <= v

RunsSerial ==
  /\ \A p \in Live : \A q \in Live : p = q
  /\ \A p \in Live : \A q \in Publisher : version[q] <= version[p]
  /\ \A v \in Version : (\A q \in Publisher : version[q] <= v) => Under(v)

(* How far the run that is going, or the last to exit 0, has come.         *)
RunsReached ==
  /\ \A p \in Publisher :
       /\ pc[p] = "replace" /\ file[p] = Document => served[Stream].version = version[p]
       /\ pc[p] = "print" => \A f \in Artifact : served[f].version = version[p]
  /\ settled # Nobody =>
       Live = {} /\ \A f \in Artifact : served[f].version = version[settled]

(* A disk has a stream at least as new as v, or gets one by the first n    *)
(* renames on their way to it.                                             *)
Backed(v, disk, renames, n) ==
  \/ v <= disk[Stream].version
  \/ \E j \in 1 .. n : renames[j].name = Stream /\ v <= renames[j].inode.version

(* The renames reach the disk in the order of their publications, each     *)
(* document after a stream as new, and with them the stream that is served. *)
DiskOrdered ==
  /\ durable[Document].version <= durable[Stream].version
  /\ \A i \in 1 .. Len(journal) :
       /\ \A f \in Artifact : durable[f].version <= journal[i].inode.version
       /\ \A j \in 1 .. i : journal[j].inode.version <= journal[i].inode.version
       /\ journal[i].name = Document => Backed(journal[i].inode.version, durable, journal, i - 1)
  /\ Backed(served[Stream].version, durable, journal, Len(journal))

SerialInv ==
  /\ HostingInv
  /\ RunsSerial
  /\ RunsReached
  /\ DiskOrdered
  /\ served[Document].version <= served[Stream].version

LEMMA VersionsOrdered ==
  ASSUME TypeOK
  PROVE  /\ \A p \in Publisher : version[p] \in Nat
         /\ \A f \in Artifact : served[f].version \in Nat /\ durable[f].version \in Nat
         /\ Len(journal) \in Nat
         /\ \A i \in 1 .. Len(journal) :
              journal[i].name \in Artifact /\ journal[i].inode.version \in Nat
<1>0. Version \cup {0} \subseteq Nat
  BY PublishAssumption
<1>1. \A inode \in Inode : inode.version \in Nat
  BY <1>0 DEF Inode
<1>2. journal \in Seq([name : Artifact, inode : Inode])
  BY DEF TypeOK
<1>3. \A i \in 1 .. Len(journal) : journal[i] \in [name : Artifact, inode : Inode]
  BY <1>2, ElementOfSeq
<1>4. \A i \in 1 .. Len(journal) :
        journal[i].name \in Artifact /\ journal[i].inode.version \in Nat
  BY <1>1, <1>3
<1>5. \A f \in Artifact : served[f].version \in Nat /\ durable[f].version \in Nat
  BY <1>1 DEF TypeOK
<1>6. \A p \in Publisher : version[p] \in Nat
  BY <1>0 DEF TypeOK
<1> QED BY <1>2, <1>4, <1>5, <1>6, LenProperties

LEMMA SerialInit == Init => SerialInv
<1> SUFFICES ASSUME Init
             PROVE  SerialInv
  OBVIOUS
<1>1. /\ \A f \in Artifact : served[f].version = 0 /\ durable[f].version = 0
      /\ journal = <<>> /\ Len(journal) = 0 /\ Live = {} /\ settled = Nobody
  BY DEF Init, NoFile, Live
<1>2. \A v \in Version : Under(v)
  BY <1>1, PublishAssumption DEF Under
<1>3. DiskOrdered
  BY <1>1 DEF DiskOrdered, Backed
<1>4. RunsReached
  BY <1>1 DEF RunsReached, Init
<1> QED BY <1>1, <1>2, <1>3, <1>4, HostingInit DEF SerialInv, RunsSerial

(* A step that moves neither the names, nor the disk, nor what is on its   *)
(* way to it, leaves their order alone.                                    *)
LEMMA OrderUntouched ==
  ASSUME UNCHANGED <<served, durable, journal>>, SerialInv
  PROVE  /\ DiskOrdered'
         /\ served'[Document].version <= served'[Stream].version
         /\ \A v \in Version : Under(v) <=> Under(v)'
BY DEF SerialInv, DiskOrdered, Backed, Under

(* A step of the run that is going.                                        *)
LEMMA StepRuns ==
  ASSUME TypeOK, NEW p \in Publisher, Step(p)
  PROVE  /\ p \in Live /\ Live' \subseteq Live /\ version' = version
         /\ \A q \in Publisher \ {p} : pc'[q] = pc[q] /\ file'[q] = file[q]
<1>1. pc \in [Publisher -> PC] /\ file \in [Publisher -> Artifact]
  BY DEF TypeOK
<1>2. pc[p] \in {"make", "write", "sync", "replace", "print", "unwind", "sweep"}
      /\ version' = version
      /\ \A q \in Publisher \ {p} : pc'[q] = pc[q] /\ file'[q] = file[q]
  BY <1>1 DEF Step, Make, MakeFails, Write, WriteFails, Sync, SyncFails, Replace, ReplaceFails,
     Report, ReportFails, Unlink, UnlinkFails, Goto
<1> QED BY <1>2 DEF Live

LEMMA SerialRuns ==
  ASSUME SerialInv, Live' \subseteq Live, version' = version,
         \A v \in Version : Under(v) => Under(v)'
  PROVE  RunsSerial'
BY DEF SerialInv, RunsSerial

LEMMA SerialQuiet ==
  ASSUME SerialInv, NEW p \in Publisher, Step(p), ~Replace(p)
  PROVE  RunsSerial' /\ RunsReached' /\ DiskOrdered'
         /\ served'[Document].version <= served'[Stream].version
<1>0. TypeOK
  BY DEF SerialInv, HostingInv, WholeInv
<1>1. UNCHANGED <<served, durable, journal>>
  BY DEF Step, Make, MakeFails, Write, WriteFails, Sync, SyncFails, ReplaceFails,
     Report, ReportFails, Unlink, UnlinkFails, hosting
<1>2. RunsSerial'
  BY <1>0, <1>1, StepRuns, SerialRuns, OrderUntouched
<1>3. pc'[p] = "replace" => file'[p] = Stream
  BY <1>0 DEF TypeOK, Step, Make, MakeFails, Write, WriteFails, Sync, SyncFails, ReplaceFails,
     Report, ReportFails, Unlink, UnlinkFails, Goto
<1>4. pc'[p] # "print"
  <2>1. pc \in [Publisher -> PC] /\ file \in [Publisher -> Artifact]
    BY <1>0 DEF TypeOK
  <2>2. CASE Make(p) \/ MakeFails(p) \/ Write(p) \/ WriteFails(p) \/ Sync(p) \/ SyncFails(p)
    BY <2>1, <2>2 DEF Make, MakeFails, Write, WriteFails, Sync, SyncFails, Goto
  <2>3. CASE ReplaceFails(p) \/ Report(p) \/ ReportFails(p)
    BY <2>1, <2>3 DEF ReplaceFails, Report, ReportFails, Goto
  <2>4. CASE Unlink(p) \/ UnlinkFails(p)
    BY <2>1, <2>4 DEF Unlink, UnlinkFails, Goto
  <2> QED BY <2>2, <2>3, <2>4 DEF Step
<1>5. \A q \in Publisher :
        /\ pc'[q] = "replace" /\ file'[q] = Document => served'[Stream].version = version'[q]
        /\ pc'[q] = "print" => \A f \in Artifact : served'[f].version = version'[q]
  BY <1>0, <1>1, <1>3, <1>4, StepRuns DEF SerialInv, RunsReached
<1>6. settled' # Nobody => /\ Live' = {}
                          /\ \A f \in Artifact : served'[f].version = version'[settled']
  <2>1. settled = Nobody
    BY <1>0, StepRuns DEF SerialInv, RunsReached
  <2>2. CASE Report(p)
    <3>1. pc[p] = "print" /\ settled' = p /\ pc'[p] = "exit"
      BY <1>0, <2>2 DEF Report, Goto, TypeOK
    <3>2. Live' = {}
      BY <1>0, <3>1, StepRuns DEF SerialInv, RunsSerial, Live
    <3> QED BY <1>0, <1>1, <3>1, <3>2, StepRuns DEF SerialInv, RunsReached
  <2>3. CASE ~Report(p)
    BY <2>1, <2>3 DEF Step, Make, MakeFails, Write, WriteFails, Sync, SyncFails, ReplaceFails,
       ReportFails, Unlink, UnlinkFails, history
  <2> QED BY <2>2, <2>3
<1> QED BY <1>1, <1>2, <1>5, <1>6, OrderUntouched DEF RunsReached

LEMMA SerialReplace ==
  ASSUME SerialInv, NEW p \in Publisher, Replace(p)
  PROVE  RunsSerial' /\ RunsReached' /\ DiskOrdered'
         /\ served'[Document].version <= served'[Stream].version
<1> DEFINE f == file[p]
           v == version[p]
           n == Len(journal)
<1>0. TypeOK /\ HostingInv /\ Step(p)
  BY DEF SerialInv, HostingInv, WholeInv, Step
<1>1. /\ f \in Artifact /\ v \in Version /\ v \in Nat /\ n \in Nat /\ p \in Live
      /\ temp[p][f].version = v /\ temp[p][f] \in Inode
      /\ served' = [served EXCEPT ![f] = temp[p][f]] /\ durable' = durable
      /\ journal' = Append(journal, [name |-> f, inode |-> temp[p][f]])
      /\ pc'[p] = (IF f = Stream THEN "replace" ELSE "print") /\ file'[p] = Document
      /\ settled' = settled /\ pc[p] = "replace"
  <2>1. v \in Version /\ temp[p][f].version = v
    BY <1>0 DEF HostingInv, OwnVersion, Replace
  <2> QED BY <1>0, <2>1, StepRuns, VersionsOrdered DEF Replace, Goto, TypeOK
<1>2. /\ \A g \in Artifact \ {f} : served'[g] = served[g]
      /\ served'[f].version = v
  BY <1>0, <1>1 DEF TypeOK
<1>3. /\ Len(journal') = n + 1
      /\ \A i \in 1 .. n : journal'[i] = journal[i]
      /\ journal'[n + 1].name = f /\ journal'[n + 1].inode.version = v
  <2>1. [name |-> f, inode |-> temp[p][f]] \in [name : Artifact, inode : Inode]
    BY <1>1
  <2>2. journal \in Seq([name : Artifact, inode : Inode])
    BY <1>0 DEF TypeOK
  <2> QED BY <1>1, <2>1, <2>2, AppendProperties
<1>4. /\ Under(v) /\ (\A q \in Publisher : version[q] <= v)
      /\ settled = Nobody
      /\ f = Document => served[Stream].version = v
  BY <1>1 DEF SerialInv, RunsSerial, RunsReached
<1> HIDE DEF f, v, n
<1>5. RunsSerial'
  <2>1. \A u \in Version : (\A q \in Publisher : version[q] <= u) => Under(u)'
    <3> SUFFICES ASSUME NEW u \in Version, \A q \in Publisher : version[q] <= u
                 PROVE  Under(u)'
      OBVIOUS
    <3>1. Under(u) /\ v <= u
      BY DEF SerialInv, RunsSerial, v
    <3> QED BY <1>1, <1>2, <1>3, <3>1 DEF Under, n
  <2> QED BY <1>0, <2>1, StepRuns DEF SerialInv, RunsSerial
<1>6. RunsReached'
  <2>1. version' = version /\ \A q \in Publisher \ {p} : pc'[q] = pc[q] /\ file'[q] = file[q]
    BY <1>0, StepRuns
  <2>2. \A q \in Publisher \ {p} : pc[q] \notin {"replace", "print"}
    BY <1>1 DEF SerialInv, RunsSerial, Live
  <2>3. /\ pc'[p] = "replace" /\ file'[p] = Document => served'[Stream].version = version'[p]
        /\ pc'[p] = "print" => \A g \in Artifact : served'[g].version = version'[p]
    BY <1>1, <1>2, <1>4, <2>1 DEF v
  <2>4. settled' = Nobody
    BY <1>1, <1>4
  <2> QED BY <2>1, <2>2, <2>3, <2>4 DEF RunsReached
<1>7. /\ Backed(v, durable, journal, n) \/ f = Stream
      /\ \A u, m : m \in 0 .. n /\ Backed(u, durable, journal, m) => Backed(u, durable', journal', m)
  <2>1. f = Document => Backed(v, durable, journal, n)
    BY <1>4 DEF SerialInv, DiskOrdered, n
  <2>2. \A u, m : m \in 0 .. n /\ Backed(u, durable, journal, m) => Backed(u, durable', journal', m)
    BY <1>1, <1>3 DEF Backed
  <2> QED BY <1>1, <2>1, <2>2
<1>8. \A i \in 1 .. n + 1 :
        /\ \A g \in Artifact : durable'[g].version <= journal'[i].inode.version
        /\ \A j \in 1 .. i : journal'[j].inode.version <= journal'[i].inode.version
        /\ journal'[i].name = Document => Backed(journal'[i].inode.version, durable', journal', i - 1)
  <2>1. ASSUME NEW i \in 1 .. n
        PROVE  /\ \A g \in Artifact : durable'[g].version <= journal'[i].inode.version
               /\ \A j \in 1 .. i : journal'[j].inode.version <= journal'[i].inode.version
               /\ journal'[i].name = Document => Backed(journal'[i].inode.version, durable', journal', i - 1)
    <3>1. i - 1 \in 0 .. n /\ \A j \in 1 .. i : j \in 1 .. n
      BY <1>1
    <3>2. /\ \A g \in Artifact : durable[g].version <= journal[i].inode.version
          /\ \A j \in 1 .. i : journal[j].inode.version <= journal[i].inode.version
          /\ journal[i].name = Document => Backed(journal[i].inode.version, durable, journal, i - 1)
      BY DEF SerialInv, DiskOrdered, n
    <3> QED BY <1>1, <1>3, <1>7, <3>1, <3>2
  <2>2. /\ \A g \in Artifact : durable'[g].version <= journal'[n + 1].inode.version
        /\ \A j \in 1 .. n + 1 : journal'[j].inode.version <= journal'[n + 1].inode.version
        /\ journal'[n + 1].name = Document => Backed(journal'[n + 1].inode.version, durable', journal', n)
    <3>1. \A j \in 1 .. n : journal[j].inode.version <= v
      BY <1>4 DEF Under, n
    <3>2. \A g \in Artifact : durable[g].version <= v
      BY <1>4 DEF Under
    <3>3. f = Document => Backed(v, durable', journal', n)
      BY <1>1, <1>7
    <3> QED BY <1>1, <1>3, <3>1, <3>2, <3>3
  <2>3. \A i \in 1 .. n + 1 : i \in 1 .. n \/ i = n + 1
    BY <1>1
  <2>4. (n + 1) - 1 = n
    BY <1>1
  <2> QED BY <2>1, <2>2, <2>3, <2>4
<1>9. Backed(served'[Stream].version, durable', journal', n + 1)
  <2>1. CASE f = Stream
    BY <1>1, <1>2, <1>3, <2>1 DEF Backed
  <2>2. CASE f = Document
    <3>1. Backed(v, durable', journal', n) /\ served'[Stream].version = v
      BY <1>1, <1>2, <1>4, <1>7, <2>2
    <3>2. \A j \in 1 .. n : j \in 1 .. n + 1
      BY <1>1
    <3>3. Backed(v, durable', journal', n + 1)
      BY <3>1, <3>2 DEF Backed
    <3> QED BY <3>1, <3>3
  <2> QED BY <1>1, <2>1, <2>2
<1>10. served'[Document].version <= served'[Stream].version
  <2>1. served[Document].version <= v
    BY <1>4 DEF Under
  <2> QED BY <1>1, <1>2, <1>4, <2>1
<1>11. DiskOrdered'
  BY <1>1, <1>3, <1>8, <1>9 DEF SerialInv, DiskOrdered
<1> QED BY <1>5, <1>6, <1>10, <1>11
LEMMA SerialBegin ==
  ASSUME Overlap = FALSE, NewerOnly = TRUE, SerialInv,
         NEW p \in Publisher, NEW v \in Version, Begin(p, v)
  PROVE  RunsSerial' /\ RunsReached' /\ DiskOrdered'
         /\ served'[Document].version <= served'[Stream].version
<1>0. TypeOK
  BY DEF SerialInv, HostingInv, WholeInv
<1>1. /\ Live = {} /\ \A q \in Publisher : version[q] <= v
      /\ UNCHANGED <<served, durable, journal>> /\ settled' = Nobody
  BY DEF Begin, hosting
<1>2. /\ pc'[p] = "make" /\ version'[p] = v
      /\ \A q \in Publisher \ {p} : pc'[q] = pc[q] /\ file'[q] = file[q] /\ version'[q] = version[q]
  BY <1>0 DEF TypeOK, Begin, Goto
<1>3. \A q \in Publisher : pc[q] \in Ended \cup {"idle"}
  BY <1>1 DEF Live
<1>4. \A q \in Live' : q = p
  BY <1>2, <1>3 DEF Live
<1>5. \A q \in Publisher : version'[q] <= v
  <2>1. v \in Nat
    BY PublishAssumption
  <2>2. v <= v
    BY <2>1
  <2> QED BY <1>1, <1>2, <2>2
<1>6. \A u \in Version : (\A q \in Publisher : version'[q] <= u) => Under(u)'
  <2> SUFFICES ASSUME NEW u \in Version, \A q \in Publisher : version'[q] <= u
               PROVE  Under(u)'
    OBVIOUS
  <2>1. v <= u
    BY <1>2
  <2>2. u \in Nat /\ v \in Nat
    BY PublishAssumption
  <2>3. \A q \in Publisher : version[q] <= u
    BY <1>0, <1>1, <2>1, <2>2, VersionsOrdered
  <2>4. Under(u)
    BY <2>3 DEF SerialInv, RunsSerial
  <2> QED BY <1>1, <2>4, OrderUntouched
<1>7. RunsSerial'
  BY <1>2, <1>4, <1>5, <1>6 DEF RunsSerial
<1>8. RunsReached'
  BY <1>1, <1>2, <1>3 DEF RunsReached
<1> QED BY <1>1, <1>7, <1>8, OrderUntouched

(* A run ends otherwise than by a step of its own.                         *)
LEMMA SerialEnd ==
  ASSUME Overlap = FALSE, SerialInv, NEW p \in Publisher, Refuse(p) \/ Kill(p)
  PROVE  RunsSerial' /\ RunsReached' /\ DiskOrdered'
         /\ served'[Document].version <= served'[Stream].version
<1>0. TypeOK
  BY DEF SerialInv, HostingInv, WholeInv
<1>1. /\ UNCHANGED <<served, durable, journal>> /\ version' = version /\ settled' = settled
      /\ pc'[p] \in Ended /\ \A q \in Publisher \ {p} : pc'[q] = pc[q] /\ file'[q] = file[q]
  BY <1>0 DEF TypeOK, Refuse, Kill, Goto, hosting, history
<1>2. Live' \subseteq Live
  BY <1>1 DEF Live
<1>3. RunsSerial'
  BY <1>1, <1>2, SerialRuns, OrderUntouched
<1>4. RunsReached'
  BY <1>1, <1>2 DEF SerialInv, RunsReached
<1> QED BY <1>1, <1>3, <1>4, OrderUntouched

LEMMA SerialWriteback ==
  ASSUME SerialInv, Writeback
  PROVE  RunsSerial' /\ RunsReached' /\ DiskOrdered'
         /\ served'[Document].version <= served'[Stream].version
<1> DEFINE n == Len(journal)
<1>0. TypeOK
  BY DEF SerialInv, HostingInv, WholeInv
<1>1. /\ UNCHANGED <<pc, file, version, served, settled>>
      /\ journal # <<>> /\ journal' = Tail(journal)
      /\ durable' = [durable EXCEPT ![Head(journal).name] = Head(journal).inode]
  BY DEF Writeback, history
<1>2. /\ journal \in Seq([name : Artifact, inode : Inode])
      /\ n \in Nat /\ n > 0 /\ Head(journal) = journal[1]
  BY <1>0, <1>1, LenProperties, EmptySeq DEF TypeOK
<1>3. Len(journal') = n - 1 /\ \A i \in 1 .. n - 1 : journal'[i] = journal[i + 1]
  BY <1>1, <1>2, HeadTailProperties
<1>4. /\ journal[1].name \in Artifact /\ journal[1].inode.version \in Nat
      /\ \A f \in Artifact :
           durable'[f] = IF f = journal[1].name THEN journal[1].inode ELSE durable[f]
  BY <1>0, <1>1, <1>2, VersionsOrdered DEF TypeOK
<1>5. /\ \A i \in 1 .. n :
           /\ \A f \in Artifact : durable[f].version <= journal[i].inode.version
           /\ \A j \in 1 .. i : journal[j].inode.version <= journal[i].inode.version
           /\ journal[i].name = Document => Backed(journal[i].inode.version, durable, journal, i - 1)
      /\ Backed(served[Stream].version, durable, journal, n)
      /\ durable[Document].version <= durable[Stream].version
  BY DEF SerialInv, DiskOrdered
<1> HIDE DEF n
<1>6. \A u \in Nat, m \in 1 .. n :
        Backed(u, durable, journal, m) => Backed(u, durable', journal', m - 1)
  <2> SUFFICES ASSUME NEW u \in Nat, NEW m \in 1 .. n, Backed(u, durable, journal, m)
               PROVE  Backed(u, durable', journal', m - 1)
    OBVIOUS
  <2>1. durable[Stream].version <= durable'[Stream].version
        /\ durable[Stream].version \in Nat /\ durable'[Stream].version \in Nat
    BY <1>0, <1>2, <1>4, <1>5, VersionsOrdered
  <2>2. CASE u <= durable[Stream].version
    BY <2>1, <2>2 DEF Backed
  <2>3. CASE \E j \in 1 .. m : journal[j].name = Stream /\ u <= journal[j].inode.version
    <3>1. PICK j \in 1 .. m : journal[j].name = Stream /\ u <= journal[j].inode.version
      BY <2>3
    <3>2. CASE j = 1
      BY <1>4, <3>1, <3>2 DEF Backed
    <3>3. CASE j # 1
      <4>1. j - 1 \in 1 .. m - 1 /\ j - 1 \in 1 .. n - 1 /\ (j - 1) + 1 = j
        BY <1>2, <3>3
      <4>2. journal'[j - 1] = journal[j]
        BY <1>3, <4>1
      <4> QED BY <3>1, <4>1, <4>2 DEF Backed
    <3> QED BY <3>2, <3>3
  <2> QED BY <2>2, <2>3 DEF Backed
<1>7. durable'[Document].version <= durable'[Stream].version
  <2>1. CASE journal[1].name = Stream
    <3>1. durable[Document].version <= journal[1].inode.version
      BY <1>2, <1>5
    <3> QED BY <1>4, <2>1, <3>1
  <2>2. CASE journal[1].name = Document
    <3>1. Backed(journal[1].inode.version, durable, journal, 0)
      BY <1>2, <1>5, <2>2
    <3>2. journal[1].inode.version <= durable[Stream].version
      BY <3>1 DEF Backed
    <3> QED BY <1>4, <2>2, <3>2
  <2> QED BY <1>4, <2>1, <2>2
<1>8. ASSUME NEW i \in 1 .. n - 1
      PROVE  /\ \A f \in Artifact : durable'[f].version <= journal'[i].inode.version
             /\ \A j \in 1 .. i : journal'[j].inode.version <= journal'[i].inode.version
             /\ journal'[i].name = Document => Backed(journal'[i].inode.version, durable', journal', i - 1)
  <2>1. i + 1 \in 1 .. n /\ i \in 1 .. n /\ (i + 1) - 1 = i /\ 1 \in 1 .. i + 1
        /\ \A j \in 1 .. i : j \in 1 .. n - 1 /\ j + 1 \in 1 .. i + 1
    BY <1>2
  <2>2. journal'[i] = journal[i + 1] /\ journal[i + 1].inode.version \in Nat
    BY <1>0, <1>3, <2>1, VersionsOrdered DEF n
  <2>3. \A f \in Artifact : durable'[f].version <= journal'[i].inode.version
    BY <1>4, <1>5, <2>1, <2>2
  <2>4. \A j \in 1 .. i : journal'[j].inode.version <= journal'[i].inode.version
    BY <1>3, <1>5, <2>1, <2>2
  <2>5. journal[i + 1].name = Document =>
          Backed(journal[i + 1].inode.version, durable, journal, i)
    BY <1>5, <2>1
  <2> QED BY <1>6, <2>1, <2>2, <2>3, <2>4, <2>5
<1>9. Backed(served[Stream].version, durable', journal', n - 1)
  BY <1>0, <1>2, <1>5, <1>6, VersionsOrdered
<1>10. DiskOrdered'
  BY <1>1, <1>3, <1>7, <1>8, <1>9 DEF DiskOrdered
<1>11. \A v \in Version : Under(v) => Under(v)'
  <2> SUFFICES ASSUME NEW v \in Version, Under(v)
               PROVE  Under(v)'
    OBVIOUS
  <2>1. \A i \in 1 .. n - 1 : i + 1 \in 1 .. n
    BY <1>2
  <2>2. \A i \in 1 .. n - 1 : journal'[i].inode.version <= v
    BY <1>3, <2>1 DEF Under, n
  <2>3. \A f \in Artifact : durable'[f].version <= v
    BY <1>2, <1>4 DEF Under, n
  <2> QED BY <1>1, <1>3, <2>2, <2>3 DEF Under
<1>12. RunsSerial' /\ RunsReached'
  BY <1>1, <1>11, SerialRuns DEF SerialInv, RunsReached, Live
<1> QED BY <1>1, <1>10, <1>12 DEF SerialInv

LEMMA SerialOutage ==
  ASSUME SerialInv, Outage
  PROVE  RunsSerial' /\ RunsReached' /\ DiskOrdered'
         /\ served'[Document].version <= served'[Stream].version
<1>0. TypeOK
  BY DEF SerialInv, HostingInv, WholeInv
<1>1. durable \in [Artifact -> Inode] /\ \A f \in Artifact : Hostable(durable[f])
  BY <1>0 DEF SerialInv, HostingInv, WholeInv, TypeOK, HostedSound
<1>2. durable' = durable /\ served' = durable /\ journal' = <<>> /\ Len(journal') = 0
      /\ version' = version /\ settled' = Nobody
  BY <1>1, SurvivingSound DEF Outage
<1>3. \A q \in Publisher : pc'[q] \in Ended \cup {"idle"}
  BY <1>0 DEF TypeOK, Outage, Live
<1>4. Live' = {}
  BY <1>3 DEF Live
<1>5. \A v \in Version : Under(v) => Under(v)'
  BY <1>2 DEF Under
<1>6. RunsSerial'
  BY <1>2, <1>4, <1>5, SerialRuns
<1>7. DiskOrdered'
  BY <1>0, <1>2, VersionsOrdered DEF SerialInv, DiskOrdered, Backed
<1>8. RunsReached'
  BY <1>2, <1>3 DEF RunsReached
<1> QED BY <1>2, <1>6, <1>7, <1>8 DEF SerialInv, DiskOrdered

LEMMA SerialNext ==
  ASSUME Overlap = FALSE, NewerOnly = TRUE
  PROVE  SerialInv /\ [Next]_vars => SerialInv'
<1> SUFFICES ASSUME SerialInv, [Next]_vars
             PROVE  RunsSerial' /\ RunsReached' /\ DiskOrdered'
                    /\ served'[Document].version <= served'[Stream].version
  BY HostingNext DEF SerialInv
<1>1. CASE \E p \in Publisher, v \in Version : Begin(p, v)
  BY <1>1, SerialBegin
<1>2. CASE \E p \in Publisher : Refuse(p) \/ Kill(p)
  BY <1>2, SerialEnd
<1>3. CASE \E p \in Publisher : Step(p)
  BY <1>3, SerialReplace, SerialQuiet
<1>4. CASE Writeback
  BY <1>4, SerialWriteback
<1>5. CASE Outage
  BY <1>5, SerialOutage
<1>6. CASE UNCHANGED vars
  BY <1>6 DEF vars, hosting, history, SerialInv, RunsSerial, RunsReached, DiskOrdered, Under, Live
<1> QED BY <1>1, <1>2, <1>3, <1>4, <1>5, <1>6 DEF Next

(* When runs do not overlap and streams only get newer, no failure, kill   *)
(* or outage leaves a document newer than the stream hosted with it.       *)
THEOREM EvidenceCorrect ==
  ASSUME Overlap = FALSE, NewerOnly = TRUE
  PROVE  Spec => []EvidenceNotOlder
<1>1. Init => SerialInv
  BY SerialInit
<1>2. SerialInv /\ [Next]_vars => SerialInv'
  BY SerialNext
<1>3. SerialInv => EvidenceNotOlder
  BY DEF SerialInv, EvidenceNotOlder
<1> QED BY <1>1, <1>2, <1>3, PTL DEF Spec

(* Under the same conditions a run that exited 0 hosts both artifacts,     *)
(* until the next begins or the power fails.                               *)
THEOREM ExitZeroCorrect ==
  ASSUME Overlap = FALSE, NewerOnly = TRUE
  PROVE  Spec => []ExitZeroHostsBoth
<1>1. Init => SerialInv
  BY SerialInit
<1>2. SerialInv /\ [Next]_vars => SerialInv'
  BY SerialNext
<1>3. SerialInv => ExitZeroHostsBoth
  BY DEF SerialInv, RunsReached, ExitZeroHostsBoth
<1> QED BY <1>1, <1>2, <1>3, PTL DEF Spec

(* A rename by the run that is going replaces nothing newer.               *)
LEMMA SerialForward ==
  ASSUME SerialInv, [Next]_vars, outage' = outage, NEW f \in Artifact
  PROVE  served[f].version <= served'[f].version
<1>0. TypeOK
  BY DEF SerialInv, HostingInv, WholeInv
<1>1. CASE \E p \in Publisher : Replace(p)
  <2>1. PICK p \in Publisher : Replace(p)
    BY <1>1
  <2>2. p \in Live /\ version[p] \in Version /\ temp[p][file[p]].version = version[p]
    BY <2>1, <1>0, StepRuns DEF SerialInv, HostingInv, OwnVersion, Replace, Step
  <2>3. Under(version[p])
    BY <2>2 DEF SerialInv, RunsSerial
  <2>4. served' = [served EXCEPT ![file[p]] = temp[p][file[p]]] /\ served \in [Artifact -> Inode]
    BY <1>0, <2>1 DEF Replace, TypeOK
  <2> QED BY <1>0, <2>2, <2>3, <2>4, VersionsOrdered DEF Under
<1>2. CASE ~\E p \in Publisher : Replace(p)
  <2>1. ~Outage
    BY <1>0 DEF Outage, TypeOK
  <2>2. served' = served
    BY <1>2, <2>1 DEF Next, Begin, Refuse, Kill, Writeback, vars, hosting, Step, Make, MakeFails,
       Write, WriteFails, Sync, SyncFails, ReplaceFails, Report, ReportFails, Unlink, UnlinkFails
  <2> QED BY <1>0, <2>2, VersionsOrdered
<1> QED BY <1>1, <1>2

(* Under the same conditions nothing hosted is withdrawn or replaced by    *)
(* anything older, except by a power loss.                                 *)
THEOREM NeverWithdrawnCorrect ==
  ASSUME Overlap = FALSE, NewerOnly = TRUE
  PROVE  Spec => NeverWithdrawn
<1>1. Init => SerialInv
  BY SerialInit
<1>2. SerialInv /\ [Next]_vars => SerialInv'
  BY SerialNext
<1>3. SerialInv /\ [Next]_vars =>
        [outage' = outage => \A f \in Artifact : served[f].version <= served'[f].version]_vars
  BY SerialForward
<1> QED BY <1>1, <1>2, <1>3, PTL DEF Spec, NeverWithdrawn

(***************************************************************************)
(* What a resolver accepts.                                                *)
(***************************************************************************)

(* A name without a file holds no publication.                             *)
NamesFilled == \A f \in Artifact : served[f].body = "absent" => served[f].version = 0

(* What a resolver has fetched so far can be matched later only by what    *)
(* was hosted beside it at some moment of the attempt.                     *)
AttemptSound(r) ==
  LET v(f)    == fetched[r][f].version
      Read(f) == fetched[r][f] # Unread
      Seen(u) == u # 0 => u \in together[r]
  IN  /\ accepted[r] # 0 => ~Fetching(r) /\ accepted[r] \in together[r]
      /\ Read(Document) /\ ~Read(Stream) =>
           /\ v(Document) <= served[Stream].version
           /\ served[Stream].version = v(Document) => Seen(v(Document))
      /\ Read(Stream) /\ ~Read(Document) =>
           /\ v(Stream) <= served[Stream].version
           /\ served[Document].version = v(Stream) => Seen(v(Stream))
      /\ Read(Document) /\ Read(Stream) /\ v(Document) = v(Stream) => Seen(v(Stream))

ResolveInv ==
  /\ SerialInv
  /\ NamesFilled
  /\ fetched \in [Resolver -> [Artifact -> Inode \cup {Unread}]]
  /\ accepted \in [Resolver -> Version \cup {0}]
  /\ DOMAIN together = Resolver
  /\ \A r \in Resolver : AttemptSound(r)

LEMMA UnreadIsNoInode == Unread \notin Inode
BY DEF Unread, NoFile, Inode

LEMMA ResolveInit == RInit => ResolveInv
<1> SUFFICES ASSUME RInit
             PROVE  ResolveInv
  OBVIOUS
<1>1. SerialInv
  BY SerialInit DEF RInit
<1>2. NamesFilled
  BY DEF RInit, Init, NamesFilled, NoFile
<1>3. \A r \in Resolver : \A f \in Artifact : fetched[r][f] = Unread /\ accepted[r] = 0
  BY DEF RInit
<1>4. \A r \in Resolver : AttemptSound(r)
  BY <1>3 DEF AttemptSound, Fetching
<1> QED BY <1>1, <1>2, <1>4 DEF ResolveInv, RInit

(* Both names at one version are one publication, and hosted together.     *)
LEMMA PairedNow ==
  TypeOK /\ HostedSound /\ NamesFilled =>
    \A v : v # 0 /\ (\A f \in Artifact : served[f].version = v) => v \in Paired(served)
<1> SUFFICES ASSUME TypeOK, HostedSound, NamesFilled, NEW v, v # 0,
                    \A f \in Artifact : served[f].version = v
             PROVE  v \in Paired(served)
  OBVIOUS
<1>1. \A f \in Artifact : served[f].body = "whole"
  BY DEF HostedSound, Hostable, Sound, NamesFilled
<1>2. v \in Version
  BY DEF TypeOK, Inode
<1> QED BY <1>1, <1>2 DEF Paired

LEMMA NamesStayFilled ==
  ASSUME SerialInv, NamesFilled, [Next]_vars, MaxOutage = 0
  PROVE  NamesFilled' /\ outage' = outage
<1>0. TypeOK
  BY DEF SerialInv, HostingInv, WholeInv
<1>1. ~Outage
  BY <1>0 DEF Outage, TypeOK
<1>2. CASE \E p \in Publisher : Replace(p)
  <2>1. PICK p \in Publisher : Replace(p)
    BY <1>2
  <2>2. temp[p][file[p]].body = "whole"
    BY <2>1 DEF SerialInv, HostingInv, WholeInv, TempsSound, Sound, Replace
  <2>3. served' = [served EXCEPT ![file[p]] = temp[p][file[p]]] /\ outage' = outage
    BY <2>1 DEF Replace
  <2> QED BY <1>0, <2>2, <2>3 DEF TypeOK, NamesFilled
<1>3. CASE ~\E p \in Publisher : Replace(p)
  <2>1. served' = served /\ outage' = outage
    BY <1>1, <1>3 DEF Next, Begin, Refuse, Kill, Writeback, vars, hosting, Step, Make, MakeFails,
       Write, WriteFails, Sync, SyncFails, ReplaceFails, Report, ReportFails, Unlink, UnlinkFails
  <2> QED BY <2>1 DEF NamesFilled
<1> QED BY <1>2, <1>3

(* A document is renamed only beside its own stream.                       *)
LEMMA DocumentBesideStream ==
  ASSUME SerialInv, [Next]_vars, MaxOutage = 0,
         served'[Document].version # served[Document].version
  PROVE  served'[Stream].version = served'[Document].version
<1>0. TypeOK
  BY DEF SerialInv, HostingInv, WholeInv
<1>1. ~Outage
  BY <1>0 DEF Outage, TypeOK
<1>2. CASE \E p \in Publisher : Replace(p)
  <2>1. PICK p \in Publisher : Replace(p)
    BY <1>2
  <2>2. /\ served' = [served EXCEPT ![file[p]] = temp[p][file[p]]]
        /\ served \in [Artifact -> Inode] /\ file[p] \in Artifact /\ pc[p] = "replace"
    BY <1>0, <2>1 DEF Replace, TypeOK
  <2>3. file[p] = Document
    BY <2>2
  <2>4. served[Stream].version = version[p] /\ temp[p][file[p]].version = version[p]
    BY <2>2, <2>3 DEF SerialInv, RunsReached, HostingInv, OwnVersion
  <2> QED BY <2>2, <2>3, <2>4
<1>3. CASE ~\E p \in Publisher : Replace(p)
  BY <1>1, <1>3 DEF Next, Begin, Refuse, Kill, Writeback, vars, hosting, Step, Make, MakeFails,
     Write, WriteFails, Sync, SyncFails, ReplaceFails, Report, ReportFails, Unlink, UnlinkFails
<1> QED BY <1>2, <1>3

LEMMA FetchSound ==
  ASSUME ResolveInv, NEW r \in Resolver, NEW f \in Artifact, Fetch(r, f)
  PROVE  AttemptSound(r)'
<1> DEFINE g == IF f = Document THEN Stream ELSE Document
<1>0. /\ TypeOK /\ HostedSound /\ NamesFilled /\ AttemptSound(r)
      /\ served[Document].version <= served[Stream].version
  BY DEF ResolveInv, SerialInv, HostingInv, WholeInv
<1>1. /\ accepted' = accepted /\ accepted[r] = 0 /\ served' = served
      /\ fetched'[r][f] = served[f] /\ fetched'[r][g] = fetched[r][g] /\ fetched[r][f] = Unread
      /\ together'[r] = (IF Fetching(r) THEN together[r] ELSE {}) \cup Paired(served)
  BY DEF ResolveInv, Fetch, vars, hosting
<1>2. served[f] # Unread
  BY <1>0, UnreadIsNoInode DEF TypeOK
<1>3. \A h \in Artifact : served[h].version \in Nat
  BY <1>0, VersionsOrdered
<1>4. served[Document].version = served[Stream].version /\ served[Stream].version # 0 =>
        served[Stream].version \in together'[r]
  <2>1. served[Document].version = served[Stream].version /\ served[Stream].version # 0 =>
          served[Stream].version \in Paired(served)
    BY <1>0, PairedNow
  <2> QED BY <1>1, <2>1
<1>5. fetched[r][g] # Unread => together[r] \subseteq together'[r]
  BY <1>1 DEF Fetching
<1>6. CASE f = Document
  BY <1>0, <1>1, <1>2, <1>3, <1>4, <1>5, <1>6 DEF AttemptSound
<1>7. CASE f = Stream
  BY <1>0, <1>1, <1>2, <1>3, <1>4, <1>5, <1>7 DEF AttemptSound
<1> QED BY <1>6, <1>7

LEMMA ResolveSound ==
  ASSUME ResolveInv, NEW r \in Resolver, Resolve(r)
  PROVE  AttemptSound(r)' /\ accepted'[r] \in Version \cup {0}
<1>1. /\ AttemptSound(r) /\ Fetched(r)
      /\ \A f \in Artifact : fetched'[r][f] = Unread
      /\ together' = together
  BY DEF ResolveInv, Resolve
<1>2. /\ accepted'[r] # 0 => /\ fetched[r][Document].version = fetched[r][Stream].version
                             /\ accepted'[r] = fetched[r][Stream].version
      /\ accepted'[r] = 0 \/ accepted'[r] = fetched[r][Stream].version
  BY DEF ResolveInv, Resolve
<1>3. accepted'[r] # 0 => accepted'[r] \in together'[r]
  BY <1>1, <1>2 DEF AttemptSound, Fetched
<1>4. fetched[r][Stream] \in Inode
  BY <1>1 DEF ResolveInv, Fetched
<1>5. fetched[r][Stream].version \in Version \cup {0}
  BY <1>4 DEF Inode
<1> QED BY <1>1, <1>2, <1>3, <1>5 DEF AttemptSound, Fetching

LEMMA PublishingSound ==
  ASSUME Overlap = FALSE, NewerOnly = TRUE, MaxOutage = 0,
         ResolveInv, Publishing, NEW r \in Resolver
  PROVE  AttemptSound(r)'
<1>0. TypeOK /\ SerialInv /\ AttemptSound(r) /\ [Next]_vars
  BY DEF ResolveInv, SerialInv, HostingInv, WholeInv, Publishing
<1>1. /\ fetched' = fetched /\ accepted' = accepted /\ together[r] \subseteq together'[r]
      /\ Fetching(r) => Paired(served') \subseteq together'[r]
  BY DEF Publishing
<1>2. SerialInv' /\ TypeOK' /\ HostedSound' /\ NamesFilled' /\ outage' = outage
  <2>1. SerialInv'
    BY <1>0, SerialNext
  <2>2. NamesFilled' /\ outage' = outage
    BY <1>0, NamesStayFilled DEF ResolveInv
  <2> QED BY <2>1, <2>2 DEF SerialInv, HostingInv, WholeInv
<1>3. \A f \in Artifact : /\ served[f].version \in Nat /\ served'[f].version \in Nat
                          /\ served[f].version <= served'[f].version
  <2>1. \A f \in Artifact : served[f].version <= served'[f].version
    BY <1>0, <1>2, SerialForward
  <2>2. \A f \in Artifact : served[f].version \in Nat
    BY <1>0, VersionsOrdered
  <2>3. \A f \in Artifact : served'[f].version \in Nat
    <3>1. Version \cup {0} \subseteq Nat
      BY PublishAssumption
    <3> QED BY <1>2, <3>1 DEF TypeOK, Inode
  <2> QED BY <2>1, <2>2, <2>3
<1>4. served'[Document].version # served[Document].version =>
        served'[Stream].version = served'[Document].version
  BY <1>0, DocumentBesideStream
<1>5. Fetching(r) /\ served'[Stream].version = served'[Document].version
        /\ served'[Stream].version # 0 => served'[Stream].version \in together'[r]
  <2>1. (TypeOK /\ HostedSound /\ NamesFilled =>
          \A v : v # 0 /\ (\A f \in Artifact : served[f].version = v) => v \in Paired(served))'
    BY PairedNow, PTL
  <2> QED BY <1>1, <1>2, <2>1
<1>6. CASE fetched[r][Document] # Unread /\ fetched[r][Stream] = Unread
  <2>1. fetched[r][Document].version \in Nat
    <3>1. fetched[r][Document] \in Inode /\ Version \cup {0} \subseteq Nat
      BY <1>6, PublishAssumption DEF ResolveInv
    <3> QED BY <3>1 DEF Inode
  <2> QED BY <1>0, <1>1, <1>3, <1>6, <2>1 DEF AttemptSound, Fetching
<1>7. CASE fetched[r][Document] = Unread /\ fetched[r][Stream] # Unread
  <2>1. fetched[r][Stream].version \in Nat
    <3>1. fetched[r][Stream] \in Inode /\ Version \cup {0} \subseteq Nat
      BY <1>7, PublishAssumption DEF ResolveInv
    <3> QED BY <3>1 DEF Inode
  <2>2. Fetching(r)
    BY <1>7 DEF Fetching
  <2> QED BY <1>0, <1>1, <1>3, <1>4, <1>5, <1>7, <2>1, <2>2 DEF AttemptSound
<1>8. CASE (fetched[r][Document] = Unread) = (fetched[r][Stream] = Unread)
  BY <1>0, <1>1, <1>8 DEF AttemptSound, Fetching
<1> QED BY <1>6, <1>7, <1>8

LEMMA ResolveNext ==
  ASSUME Overlap = FALSE, NewerOnly = TRUE, MaxOutage = 0
  PROVE  ResolveInv /\ [RNext]_<<vars, rvars>> => ResolveInv'
<1> SUFFICES ASSUME ResolveInv, [RNext]_<<vars, rvars>>
             PROVE  ResolveInv'
  OBVIOUS
<1>1. [Next]_vars
  BY DEF RNext, Publishing, Resolve, Fetch
<1>2. SerialInv' /\ NamesFilled'
  BY <1>1, SerialNext, NamesStayFilled DEF ResolveInv
<1>3. CASE Publishing
  BY <1>2, <1>3, PublishingSound DEF ResolveInv, Publishing
<1>4. CASE \E r \in Resolver : Resolve(r)
  <2>1. PICK r \in Resolver : Resolve(r)
    BY <1>4
  <2>2. AttemptSound(r)' /\ accepted'[r] \in Version \cup {0}
    BY <2>1, ResolveSound
  <2>3. \A q \in Resolver \ {r} : AttemptSound(q)'
    <3>1. \A q \in Resolver \ {r} : /\ fetched'[q] = fetched[q] /\ accepted'[q] = accepted[q]
                                    /\ together'[q] = together[q] /\ served' = served
      BY <2>1 DEF ResolveInv, Resolve, vars, hosting
    <3> QED BY <3>1 DEF ResolveInv, AttemptSound, Fetching
  <2>4. fetched' \in [Resolver -> [Artifact -> Inode \cup {Unread}]]
    BY <2>1 DEF ResolveInv, Resolve
  <2>5. accepted' \in [Resolver -> Version \cup {0}]
    BY <2>1, <2>2 DEF ResolveInv, Resolve
  <2> QED BY <1>2, <2>1, <2>2, <2>3, <2>4, <2>5 DEF ResolveInv, Resolve
<1>5. CASE \E r \in Resolver, f \in Artifact : Fetch(r, f)
  <2>1. PICK r \in Resolver, f \in Artifact : Fetch(r, f)
    BY <1>5
  <2>2. AttemptSound(r)'
    BY <2>1, FetchSound
  <2>3. \A q \in Resolver \ {r} : AttemptSound(q)'
    <3>1. \A q \in Resolver \ {r} : /\ fetched'[q] = fetched[q] /\ accepted'[q] = accepted[q]
                                    /\ together'[q] = together[q] /\ served' = served
      BY <2>1 DEF ResolveInv, Fetch, vars, hosting
    <3> QED BY <3>1 DEF ResolveInv, AttemptSound, Fetching
  <2>4. fetched' \in [Resolver -> [Artifact -> Inode \cup {Unread}]]
    BY <2>1 DEF ResolveInv, Fetch, SerialInv, HostingInv, WholeInv, TypeOK
  <2> QED BY <1>2, <2>1, <2>2, <2>3, <2>4 DEF ResolveInv, Fetch
<1>6. CASE UNCHANGED <<vars, rvars>>
  BY <1>2, <1>6 DEF ResolveInv, AttemptSound, Fetching, vars, rvars, hosting
<1> QED BY <1>3, <1>4, <1>5, <1>6 DEF RNext

(* Whatever the two fetches of an attempt straddle, what a resolver        *)
(* accepts was hosted under both names at one moment of the attempt.       *)
THEOREM AcceptedCorrect ==
  ASSUME Overlap = FALSE, NewerOnly = TRUE, MaxOutage = 0
  PROVE  RSpec => []AcceptedWasHosted
<1>1. RInit => ResolveInv
  BY ResolveInit
<1>2. ResolveInv /\ [RNext]_<<vars, rvars>> => ResolveInv'
  BY ResolveNext
<1>3. ResolveInv => AcceptedWasHosted
  BY DEF ResolveInv, AttemptSound, AcceptedWasHosted
<1> QED BY <1>1, <1>2, <1>3, PTL DEF RSpec

=============================================================================
