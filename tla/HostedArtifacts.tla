-------------------------- MODULE HostedArtifacts --------------------------
(***************************************************************************)
(* What publish.py promises of the two hosted names, with no file in it:   *)
(* each holds nothing or one whole publication, changes in one step, and   *)
(* never goes back to nothing; a document appears only after the stream it *)
(* was derived from; and an outage takes both back to a state that was on  *)
(* the disk, the renames being lost from the last one backwards.           *)
(***************************************************************************)
EXTENDS Naturals, Sequences

CONSTANT Version   \* publications; 0 stands for none

VARIABLES
  hosted,     \* the publication each name holds
  stable,     \* the publication each name would hold after an outage
  backlog,    \* installations not yet stable, oldest first
  evidence    \* publications whose stream has been hosted

abstractVars == <<hosted, stable, backlog, evidence>>

Init ==
  /\ hosted = [document |-> 0, stream |-> 0]
  /\ stable = hosted
  /\ backlog = <<>>
  /\ evidence = {}

Install(name, v) ==
  /\ hosted' = [hosted EXCEPT ![name] = v]
  /\ backlog' = Append(backlog, [name |-> name, version |-> v])
  /\ UNCHANGED stable

InstallStream(v) ==
  /\ Install("stream", v)
  /\ evidence' = evidence \cup {v}

InstallDocument(v) ==
  /\ v \in evidence
  /\ Install("document", v)
  /\ UNCHANGED evidence

Settle ==
  /\ backlog # <<>>
  /\ stable' = [stable EXCEPT ![Head(backlog).name] = Head(backlog).version]
  /\ backlog' = Tail(backlog)
  /\ UNCHANGED <<hosted, evidence>>

Lose ==
  /\ hosted' = stable
  /\ backlog' = <<>>
  /\ UNCHANGED <<stable, evidence>>

Next ==
  \/ \E v \in Version : InstallStream(v) \/ InstallDocument(v)
  \/ Settle
  \/ Lose

Spec == Init /\ [][Next]_abstractVars
=============================================================================
