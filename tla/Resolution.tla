----------------------------- MODULE Resolution ----------------------------
(***************************************************************************)
(* A resolver reading what Publish writes.  It fetches the two artifacts   *)
(* one after the other, in either order, while publications go on; derives *)
(* the document from the stream and compares; and tries again when the two *)
(* do not agree.  The resolver is external: what is modelled is the reader *)
(* publish.py is written for.                                              *)
(***************************************************************************)
EXTENDS Publish

CONSTANT Resolver

VARIABLES
  fetched,    \* what a resolver has fetched in this attempt
  accepted,   \* the publication it has accepted, 0 while there is none
  together    \* history: the publications hosted under both names at some
              \* moment of this attempt

rvars == <<fetched, accepted, together>>

Unread == [NoFile EXCEPT !.body = "unread"]

(* The publication hosted under both names, if there is one.               *)
Paired(names) ==
  {v \in Version : \A f \in Artifact : names[f].version = v /\ names[f].body = "whole"}

Fetching(r) == \E f \in Artifact : fetched[r][f] # Unread
Fetched(r)  == \A f \in Artifact : fetched[r][f] # Unread

----------------------------------------------------------------------------

Fetch(r, f) ==
  /\ accepted[r] = 0
  /\ fetched[r][f] = Unread
  /\ fetched' = [fetched EXCEPT ![r][f] = served[f]]
  /\ together' = [together EXCEPT
                    ![r] = (IF Fetching(r) THEN @ ELSE {}) \cup Paired(served)]
  /\ UNCHANGED <<accepted, vars>>

(* Mutant: a whole stream is taken as proof of any whole document.         *)
Mutant_ResolveUncompared(r) ==
  /\ Fetched(r)
  /\ accepted' = [accepted EXCEPT
       ![r] = IF \A f \in Artifact : fetched[r][f].body = "whole"
                THEN fetched[r][Stream].version ELSE 0]
  /\ fetched' = [fetched EXCEPT ![r] = [f \in Artifact |-> Unread]]
  /\ UNCHANGED <<together, vars>>

(* Accepted when both artifacts are there and whole and the document is    *)
(* the one the stream derives; otherwise the attempt is made again.        *)
Resolve(r) ==
  /\ Fetched(r)
  /\ accepted' = [accepted EXCEPT
       ![r] = IF /\ \A f \in Artifact : fetched[r][f].body = "whole"
                 /\ fetched[r][Document].version = fetched[r][Stream].version
                THEN fetched[r][Stream].version ELSE 0]
  /\ fetched' = [fetched EXCEPT ![r] = [f \in Artifact |-> Unread]]
  /\ UNCHANGED <<together, vars>>

(* A step of the publishing side, seen from every attempt under way.       *)
Publishing ==
  /\ Next
  /\ together' = [r \in Resolver |->
                    IF Fetching(r) THEN together[r] \cup Paired(served') ELSE together[r]]
  /\ UNCHANGED <<fetched, accepted>>

RInit ==
  /\ Init
  /\ fetched = [r \in Resolver |-> [f \in Artifact |-> Unread]]
  /\ accepted = [r \in Resolver |-> 0]
  /\ together = [r \in Resolver |-> {}]

RNext ==
  \/ Publishing
  \/ \E r \in Resolver : Resolve(r) \/ \E f \in Artifact : Fetch(r, f)

(* Runs that are going go on, and the resolver's requests are answered and *)
(* its attempts repeated.  Nothing makes a run begin, fail or be killed.   *)
RSpec ==
  /\ RInit
  /\ [][RNext]_<<vars, rvars>>
  /\ \A p \in Publisher : WF_<<vars, rvars>>(Step(p) /\ Publishing)
  /\ \A r \in Resolver :
       /\ WF_<<vars, rvars>>(Resolve(r))
       /\ \A f \in Artifact : WF_<<vars, rvars>>(Fetch(r, f))

----------------------------------------------------------------------------
(* Properties.                                                             *)

(* "Either mismatch is caught by the resolver's derive-and-compare gate":  *)
(* whatever the two fetches straddle, what a resolver accepts was hosted   *)
(* under both names at one moment between them.                            *)
AcceptedWasHosted ==
  \A r \in Resolver : accepted[r] # 0 => accepted[r] \in together[r]

(* A mismatch is never the end of it: once a publication has exited 0 and  *)
(* no other is begun, every resolver that keeps trying accepts.            *)
ResolversCatchUp ==
  <>[](Live = {} /\ settled # Nobody) =>
    \A r \in Resolver : <>(accepted[r] # 0)
=============================================================================
