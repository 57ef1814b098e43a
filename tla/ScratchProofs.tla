---------------------------- MODULE ScratchProofs ----------------------------
(***************************************************************************)
(* Theorems about Scratch, for any runs, any bound on the input, any faults *)
(* and wherever the stores sit.                                            *)
(***************************************************************************)
EXTENDS Scratch, SequenceTheorems, FiniteSetTheorems, TLAPS

Before == {"parse", "read", "gate"}
Steps == Before \cup {"make", "pin", "judge", "derive", "close", "publish", "done"}

\* The types the steps of one run rest on.
TypeInv ==
    /\ pc \in [Run -> Steps]
    /\ size \in [Run -> Nat] /\ held \in [Run -> Nat]
    /\ raised \in [Run -> Failures \cup {"none"}]
    /\ DOMAIN open = Run /\ DOMAIN made = Run

\* What each part of a run's state says of how far the run is: what it has read,
\* what it has opened, what is on its way up, and whether it has published.
Reading(p) ==
    /\ held[p] <= size[p] /\ held[p] <= Limit + 1
    /\ pc[p] \notin {"parse", "read", "done"} => held[p] = size[p] /\ size[p] <= Limit
    /\ raised[p] = "range" => pc[p] = "done" /\ size[p] > Limit /\ open[p] = {}
Opened(p) == pc[p] \in Before => open[p] = {} /\ \A s \in Store : made[p][s] = <<>>
Rising(p) ==
    /\ pc[p] \notin {"close", "done"} => raised[p] = "none"
    /\ pc[p] = "close" => raised[p] # "usage"
    /\ raised[p] = "usage" => \A s \in Store : made[p][s] = <<>>
Told(p) ==
    /\ p \in hosted => pc[p] = "done" /\ raised[p] = "none"
    /\ pc[p] = "done" /\ raised[p] = "none" => p \in hosted
    /\ pc[p] = "publish" \/ p \in hosted => open[p] = {}

Fine(p) == Reading(p) /\ Opened(p) /\ Rising(p) /\ Told(p)
RunInv == TypeInv /\ \A p \in Run : Fine(p)

\* What a step of one run leaves of another.
Alike(q) ==
    /\ pc'[q] = pc[q] /\ size'[q] = size[q] /\ held'[q] = held[q]
    /\ made'[q] = made[q] /\ open'[q] = open[q] /\ raised'[q] = raised[q]
    /\ q \in hosted' <=> q \in hosted

LEMMA AlikeFine ==
  ASSUME NEW q \in Run, Fine(q), Alike(q)
  PROVE  Fine(q)'
BY DEF Fine, Reading, Opened, Rising, Told, Alike

LEMMA InitRun == Init => RunInv
<1> SUFFICES ASSUME Init PROVE RunInv
  OBVIOUS
<1>1. TypeInv
  BY ScratchAssumption DEF Init, TypeInv, Steps, Before, Failures
<1>2. ASSUME NEW p \in Run PROVE Fine(p)
  <2>1. held[p] = 0 /\ size[p] \in 0..(Limit + 2) /\ Limit \in Nat
    BY ScratchAssumption DEF Init, ScratchAssumption
  <2>2. Reading(p)
    BY <2>1 DEF Init, Reading
  <2>3. Opened(p) /\ Rising(p) /\ Told(p)
    BY DEF Init, Opened, Rising, Told, Before
  <2> QED BY <2>2, <2>3 DEF Fine
<1> QED BY <1>1, <1>2 DEF RunInv

LEMMA ParseRun ==
  ASSUME RunInv, NEW p \in Run, Parse(p)
  PROVE  RunInv'
<1> USE DEF Goto, Raise
<1>1. TypeInv'
  BY ScratchAssumption DEF Parse, RunInv, TypeInv, Steps, Before, Failures
<1>2. ASSUME NEW q \in Run, q # p PROVE Alike(q)
  BY <1>2 DEF Parse, RunInv, TypeInv, Alike
<1>3. Fine(p)'
  BY ScratchAssumption DEF Parse, RunInv, TypeInv, Fine, Reading, Opened, Rising, Told, Before, Failures
<1> QED BY <1>1, <1>2, <1>3, AlikeFine DEF RunInv

LEMMA ReadSomeRun ==
  ASSUME RunInv, NEW p \in Run, ReadSome(p)
  PROVE  RunInv'
<1> USE DEF Goto, Raise, Asked
<1>1. TypeInv'
  BY ScratchAssumption DEF ReadSome, RunInv, TypeInv, Steps, Before, Failures
<1>2. ASSUME NEW q \in Run, q # p PROVE Alike(q)
  BY <1>2 DEF ReadSome, RunInv, TypeInv, Alike
<1>3. Fine(p)'
  <2>1. Limit \in Nat /\ held[p] \in Nat /\ size[p] \in Nat
    BY ScratchAssumption DEF ScratchAssumption, RunInv, TypeInv
  <2>2. held'[p] <= size[p] /\ held'[p] <= Limit + 1
    BY <2>1 DEF ReadSome, RunInv, TypeInv
  <2>3. Reading(p)'
    BY <2>2 DEF ReadSome, RunInv, Fine, Reading
  <2>4. Opened(p)' /\ Rising(p)' /\ Told(p)'
    BY DEF ReadSome, RunInv, Fine, Opened, Rising, Told
  <2> QED BY <2>3, <2>4 DEF Fine
<1> QED BY <1>1, <1>2, <1>3, AlikeFine DEF RunInv

LEMMA AdmitRun ==
  ASSUME RunInv, NEW p \in Run, Admit(p)
  PROVE  RunInv'
<1> USE DEF Goto, Raise, Asked
<1>1. TypeInv'
  BY ScratchAssumption DEF Admit, RunInv, TypeInv, Steps, Before, Failures
<1>2. ASSUME NEW q \in Run, q # p PROVE Alike(q)
  BY <1>2 DEF Admit, RunInv, TypeInv, Alike
<1>3. Fine(p)'
  <2>1. Limit \in Nat /\ held[p] \in Nat /\ size[p] \in Nat
    BY ScratchAssumption DEF ScratchAssumption, RunInv, TypeInv
  <2>2. pc'[p] = "gate" => held[p] = size[p] /\ size[p] <= Limit
    BY <2>1 DEF Admit, RunInv, TypeInv, Fine, Reading
  <2>3. pc'[p] \in {"gate", "done"}
    BY DEF Admit, RunInv, TypeInv
  <2>4. raised'[p] = "range" => pc'[p] = "done" /\ size[p] > Limit /\ open[p] = {}
    <3>1. pc[p] = "read" /\ raised[p] = "none" /\ open[p] = {} /\ held[p] <= size[p]
      BY DEF Admit, RunInv, Fine, Reading, Rising, Opened, Before
    <3>2. pc \in [Run -> Steps] /\ raised \in [Run -> Failures \cup {"none"}]
      BY DEF RunInv, TypeInv
    <3>3. CASE held[p] > Limit
      BY <2>1, <3>1, <3>2, <3>3 DEF Admit
    <3>4. CASE ~(held[p] > Limit)
      <4>1. raised'[p] = "none"
        BY <3>1, <3>2, <3>4 DEF Admit
      <4> QED BY <4>1
    <3> QED BY <3>3, <3>4
  <2>5. Reading(p)'
    BY <2>2, <2>3, <2>4 DEF Admit, RunInv, Fine, Reading
  <2>6. Opened(p)' /\ Rising(p)' /\ Told(p)'
    BY <2>3 DEF Admit, RunInv, TypeInv, Fine, Opened, Rising, Told, Before
  <2> QED BY <2>5, <2>6 DEF Fine
<1> QED BY <1>1, <1>2, <1>3, AlikeFine DEF RunInv

LEMMA UnreadableRun ==
  ASSUME RunInv, NEW p \in Run, Unreadable(p)
  PROVE  RunInv'
<1> USE DEF Goto, Raise
<1>1. TypeInv'
  BY ScratchAssumption DEF Unreadable, RunInv, TypeInv, Steps, Before, Failures
<1>2. ASSUME NEW q \in Run, q # p PROVE Alike(q)
  BY <1>2 DEF Unreadable, RunInv, TypeInv, Alike
<1>3. Fine(p)'
  BY ScratchAssumption DEF Unreadable, RunInv, TypeInv, Fine, Reading, Opened, Rising, Told, Before, Failures
<1> QED BY <1>1, <1>2, <1>3, AlikeFine DEF RunInv

LEMMA GateRun ==
  ASSUME RunInv, NEW p \in Run, Gate(p)
  PROVE  RunInv'
<1> USE DEF Goto, Raise
<1>1. TypeInv'
  BY ScratchAssumption DEF Gate, RunInv, TypeInv, Steps, Before, Failures
<1>2. ASSUME NEW q \in Run, q # p PROVE Alike(q)
  BY <1>2 DEF Gate, RunInv, TypeInv, Alike
<1>3. Fine(p)'
  BY ScratchAssumption DEF Gate, RunInv, TypeInv, Fine, Reading, Opened, Rising, Told, Before, Failures
<1> QED BY <1>1, <1>2, <1>3, AlikeFine DEF RunInv

LEMMA MakeStoreRun ==
  ASSUME RunInv, NEW p \in Run, MakeStore(p)
  PROVE  RunInv'
<1> USE DEF Goto, Raise
<1>1. TypeInv'
  BY ScratchAssumption DEF MakeStore, RunInv, TypeInv, Steps, Before, Failures
<1>2. ASSUME NEW q \in Run, q # p PROVE Alike(q)
  BY <1>2 DEF MakeStore, RunInv, TypeInv, Alike
<1>3. Fine(p)'
  BY ScratchAssumption DEF MakeStore, RunInv, TypeInv, Fine, Reading, Opened, Rising, Told, Before, Failures
<1> QED BY <1>1, <1>2, <1>3, AlikeFine DEF RunInv

LEMMA OpenFailsRun ==
  ASSUME RunInv, NEW p \in Run, OpenFails(p)
  PROVE  RunInv'
<1> USE DEF Goto, Raise
<1>1. TypeInv'
  BY ScratchAssumption DEF OpenFails, RunInv, TypeInv, Steps, Before, Failures
<1>2. ASSUME NEW q \in Run, q # p PROVE Alike(q)
  BY <1>2 DEF OpenFails, RunInv, TypeInv, Alike
<1>3. Fine(p)'
  BY ScratchAssumption DEF OpenFails, RunInv, TypeInv, Fine, Reading, Opened, Rising, Told, Before, Failures
<1> QED BY <1>1, <1>2, <1>3, AlikeFine DEF RunInv

LEMMA FindRootsRun ==
  ASSUME RunInv, NEW p \in Run, FindRoots(p)
  PROVE  RunInv'
<1> USE DEF Goto, Raise
<1>1. TypeInv'
  BY ScratchAssumption DEF FindRoots, RunInv, TypeInv, Steps, Before, Failures
<1>2. ASSUME NEW q \in Run, q # p PROVE Alike(q)
  BY <1>2 DEF FindRoots, RunInv, TypeInv, Alike
<1>3. Fine(p)'
  BY ScratchAssumption DEF FindRoots, RunInv, TypeInv, Fine, Reading, Opened, Rising, Told, Before, Failures
<1> QED BY <1>1, <1>2, <1>3, AlikeFine DEF RunInv

LEMMA UseRun ==
  ASSUME RunInv, NEW p \in Run, Use(p)
  PROVE  RunInv'
<1> USE DEF Goto, Raise
<1>1. TypeInv'
  BY ScratchAssumption DEF Use, RunInv, TypeInv, Steps, Before, Failures
<1>2. ASSUME NEW q \in Run, q # p PROVE Alike(q)
  BY <1>2 DEF Use, RunInv, TypeInv, Alike
<1>3. Fine(p)'
  BY ScratchAssumption DEF Use, RunInv, TypeInv, Fine, Reading, Opened, Rising, Told, Before, Failures
<1> QED BY <1>1, <1>2, <1>3, AlikeFine DEF RunInv

LEMMA CloseStoresRun ==
  ASSUME RunInv, NEW p \in Run, CloseStores(p)
  PROVE  RunInv'
<1> USE DEF Goto, Raise
<1>1. TypeInv'
  BY ScratchAssumption DEF CloseStores, RunInv, TypeInv, Steps, Before, Failures
<1>2. ASSUME NEW q \in Run, q # p PROVE Alike(q)
  BY <1>2 DEF CloseStores, RunInv, TypeInv, Alike
<1>3. Fine(p)'
  BY ScratchAssumption DEF CloseStores, RunInv, TypeInv, Fine, Reading, Opened, Rising, Told, Before, Failures
<1> QED BY <1>1, <1>2, <1>3, AlikeFine DEF RunInv

LEMMA CloseFailsRun ==
  ASSUME RunInv, NEW p \in Run, CloseFails(p)
  PROVE  RunInv'
<1> USE DEF Goto, Raise
<1>1. TypeInv'
  BY ScratchAssumption DEF CloseFails, RunInv, TypeInv, Steps, Before, Failures
<1>2. ASSUME NEW q \in Run, q # p PROVE Alike(q)
  BY <1>2 DEF CloseFails, RunInv, TypeInv, Alike
<1>3. Fine(p)'
  BY ScratchAssumption DEF CloseFails, RunInv, TypeInv, Fine, Reading, Opened, Rising, Told, Before, Failures
<1> QED BY <1>1, <1>2, <1>3, AlikeFine DEF RunInv

LEMMA RemoveRootRun ==
  ASSUME RunInv, NEW p \in Run, RemoveRoot(p)
  PROVE  RunInv'
<1> USE DEF Goto, Raise
<1>1. TypeInv'
  BY ScratchAssumption DEF RemoveRoot, RunInv, TypeInv, Steps, Before, Failures
<1>2. ASSUME NEW q \in Run, q # p PROVE Alike(q)
  BY <1>2 DEF RemoveRoot, RunInv, TypeInv, Alike
<1>3. Fine(p)'
  BY ScratchAssumption DEF RemoveRoot, RunInv, TypeInv, Fine, Reading, Opened, Rising, Told, Before, Failures
<1> QED BY <1>1, <1>2, <1>3, AlikeFine DEF RunInv

LEMMA ClosedRun ==
  ASSUME RunInv, NEW p \in Run, Closed(p)
  PROVE  RunInv'
<1> USE DEF Goto, Raise
<1>1. TypeInv'
  BY ScratchAssumption DEF Closed, RunInv, TypeInv, Steps, Before, Failures
<1>2. ASSUME NEW q \in Run, q # p PROVE Alike(q)
  BY <1>2 DEF Closed, RunInv, TypeInv, Alike
<1>3. Fine(p)'
  BY ScratchAssumption DEF Closed, RunInv, TypeInv, Fine, Reading, Opened, Rising, Told, Before, Failures
<1> QED BY <1>1, <1>2, <1>3, AlikeFine DEF RunInv

LEMMA PublishRun ==
  ASSUME RunInv, NEW p \in Run, Publish(p)
  PROVE  RunInv'
<1> USE DEF Goto, Raise
<1>1. TypeInv'
  BY ScratchAssumption DEF Publish, RunInv, TypeInv, Steps, Before, Failures
<1>2. ASSUME NEW q \in Run, q # p PROVE Alike(q)
  BY <1>2 DEF Publish, RunInv, TypeInv, Alike
<1>3. Fine(p)'
  BY ScratchAssumption DEF Publish, RunInv, TypeInv, Fine, Reading, Opened, Rising, Told, Before, Failures
<1> QED BY <1>1, <1>2, <1>3, AlikeFine DEF RunInv

LEMMA NextRun == RunInv /\ [Next]_vars => RunInv'
<1> SUFFICES ASSUME RunInv, [Next]_vars PROVE RunInv'
  OBVIOUS
<1>1. ASSUME NEW p \in Run, Proceed(p) PROVE RunInv'
  BY <1>1, ParseRun, ReadSomeRun, AdmitRun, GateRun, MakeStoreRun, FindRootsRun, UseRun,
     CloseStoresRun, RemoveRootRun, ClosedRun, PublishRun DEF Proceed
<1>2. ASSUME NEW p \in Run, Fault(p) PROVE RunInv'
  BY <1>2, UnreadableRun, OpenFailsRun, CloseFailsRun DEF Fault
<1>3. CASE UNCHANGED vars
  BY <1>3 DEF RunInv, TypeInv, Fine, Reading, Opened, Rising, Told, vars
<1> QED BY <1>1, <1>2, <1>3 DEF Next

LEMMA RunInvariant == Spec => []RunInv
BY InitRun, NextRun, PTL DEF Spec

\* A stream is judged whole and within the bound, what is refused for its size is past the
\* bound and has nothing opened for it, and no more than a byte beyond the bound is ever
\* held, for any bound and in whatever pieces the stream arrives.
THEOREM BoundCorrect == Spec => []BoundIsExact
<1>1. RunInv => BoundIsExact
  BY DEF RunInv, Fine, Reading, BoundIsExact
<1> QED BY <1>1, RunInvariant, PTL

\* No run publishes with a store open or an exception on its way, whatever fails in
\* whichever of any number of runs.
THEOREM HostsAfterClosingCorrect == Spec => []HostsAfterClosing
<1>1. RunInv => HostsAfterClosing
  BY DEF RunInv, Fine, Rising, Told, HostsAfterClosing
<1> QED BY <1>1, RunInvariant, PTL

\* Exit 0 exactly if the run has hosted, and exit 64 only if nothing was opened for it.
THEOREM ExitStatusCorrect == Spec => []ExitStatusTells
<1>1. RunInv => ExitStatusTells
  <2> SUFFICES ASSUME RunInv, NEW p \in Run, pc[p] = "done"
               PROVE  /\ ExitStatus(p) = 0 <=> p \in hosted
                      /\ ExitStatus(p) = 64 => \A s \in Store : made[p][s] = <<>>
    BY DEF ExitStatusTells
  <2>1. raised[p] \in Failures \cup {"none"}
    BY DEF RunInv, TypeInv
  <2>2. ExitStatus(p) = 0 <=> raised[p] = "none"
    BY <2>1 DEF ExitStatus, Failures
  <2>3. ExitStatus(p) = 64 <=> raised[p] = "usage"
    BY <2>1 DEF ExitStatus, Failures
  <2> QED BY <2>2, <2>3 DEF RunInv, Fine, Rising, Told
<1> QED BY <1>1, RunInvariant, PTL

(***************************************************************************)
(* The directories: none is taken from under an open store, and none        *)
(* outlives its run, wherever the stores sit and for any number of runs.    *)
(***************************************************************************)

\* What a path is made of, the provers taking no string for a member of STRING.
Name == STRING \cup Store \cup {"keri"}
Base == {TempHeadDir} \cup Stray
RootOf(p, s, base) == Append(base, TempName(p, s))
PathOf(p, s, base) == RootOf(p, s, base) \o <<"keri", s>>

(***************************************************************************)
(* Paths.                                                                  *)
(***************************************************************************)

LEMMA StoreIs == Store = {"ks", "db", "cf", "reger"}
<1>1. DOMAIN Stores = 1..4
  BY DEF Stores
<1>2. Stores[1] = "ks" /\ Stores[2] = "db" /\ Stores[3] = "cf" /\ Stores[4] = "reger"
  BY DEF Stores
<1> QED BY <1>1, <1>2 DEF Store, Range

LEMMA PrefixIs ==
  ASSUME NEW s \in Seq(Name), NEW t \in Seq(Name)
  PROVE  IsPrefix(s, t) <=> Len(s) <= Len(t) /\ \A i \in 1..Len(s) : s[i] = t[i]
<1>1. CASE Len(s) <= Len(t)
  <2>1. SubSeq(s, 1, Len(s)) = s
    BY SubSeqFull
  <2>2. /\ SubSeq(t, 1, Len(s)) \in Seq(Name)
        /\ Len(SubSeq(t, 1, Len(s))) = Len(s)
        /\ \A i \in 1..Len(s) : SubSeq(t, 1, Len(s))[i] = t[i]
    BY <1>1
  <2>3. s = SubSeq(t, 1, Len(s)) <=> \A i \in 1..Len(s) : s[i] = SubSeq(t, 1, Len(s))[i]
    BY <2>2, SeqEqual
  <2> QED BY <1>1, <2>1, <2>2, <2>3 DEF IsPrefix
<1>2. CASE ~(Len(s) <= Len(t))
  BY <1>2 DEF IsPrefix
<1> QED BY <1>1, <1>2

LEMMA ExtendedPath ==
  ASSUME NEW S, NEW base \in Seq(S), NEW name \in S, NEW a \in S, NEW b \in S
  PROVE  /\ Append(base, name) \in Seq(S)
         /\ Len(Append(base, name)) = Len(base) + 1
         /\ \A i \in 1..Len(base) : Append(base, name)[i] = base[i]
         /\ Append(base, name)[Len(base) + 1] = name
         /\ Append(base, name) \o <<a, b>> \in Seq(S)
         /\ Len(Append(base, name) \o <<a, b>>) = Len(base) + 3
         /\ \A i \in 1..(Len(base) + 1) :
               (Append(base, name) \o <<a, b>>)[i] = Append(base, name)[i]
<1>1. /\ Append(base, name) \in Seq(S)
      /\ Len(Append(base, name)) = Len(base) + 1
      /\ \A i \in 1..Len(base) : Append(base, name)[i] = base[i]
      /\ Append(base, name)[Len(base) + 1] = name
  BY AppendProperties
<1>2. <<a, b>> \in Seq(S) /\ Len(<<a, b>>) = 2
  OBVIOUS
<1>3. Len(base) \in Nat
  BY LenProperties
<1> QED BY <1>1, <1>2, <1>3, ConcatProperties

LEMMA PathShape ==
  ASSUME NEW p \in Run, NEW s \in Store, NEW base \in Base
  PROVE  /\ base \in Seq(Name) /\ Len(base) \in Nat
         /\ RootOf(p, s, base) \in Seq(Name)
         /\ Len(RootOf(p, s, base)) = Len(base) + 1
         /\ \A i \in 1..Len(base) : RootOf(p, s, base)[i] = base[i]
         /\ RootOf(p, s, base)[Len(base) + 1] = TempName(p, s)
         /\ PathOf(p, s, base) \in Seq(Name)
         /\ Len(PathOf(p, s, base)) = Len(base) + 3
         /\ \A i \in 1..(Len(base) + 1) : PathOf(p, s, base)[i] = RootOf(p, s, base)[i]
<1>1. base \in Seq(Name)
  <2>1. base \in Seq(STRING)
    BY ScratchAssumption DEF ScratchAssumption, Base
  <2> QED BY <2>1, SeqMonotonic DEF Name
<1>2. TempName(p, s) \in Name /\ s \in Name /\ "keri" \in Name
  BY ScratchAssumption DEF ScratchAssumption, Name
<1>7. Len(base) \in Nat
  BY <1>1, LenProperties
<1>8. /\ RootOf(p, s, base) \in Seq(Name)
      /\ Len(RootOf(p, s, base)) = Len(base) + 1
      /\ \A i \in 1..Len(base) : RootOf(p, s, base)[i] = base[i]
      /\ RootOf(p, s, base)[Len(base) + 1] = TempName(p, s)
  BY <1>1, <1>2, ExtendedPath DEF RootOf
<1>9. /\ PathOf(p, s, base) \in Seq(Name)
      /\ Len(PathOf(p, s, base)) = Len(base) + 3
      /\ \A i \in 1..(Len(base) + 1) : PathOf(p, s, base)[i] = RootOf(p, s, base)[i]
  BY <1>1, <1>2, ExtendedPath DEF RootOf, PathOf
<1> QED BY <1>1, <1>7, <1>8, <1>9, Zenon

\* A store sits below its own directory.
LEMMA RootAbove ==
  ASSUME NEW p \in Run, NEW s \in Store, NEW base \in Base
  PROVE  IsPrefix(RootOf(p, s, base), PathOf(p, s, base))
BY PathShape, PrefixIs

\* A store made outside the head does not sit below it, and one made in it has its own
\* directory for root.
LEMMA RootFound ==
  ASSUME NEW p \in Run, NEW s \in Store, NEW base \in Base, Sits(PathOf(p, s, base))
  PROVE  base = TempHeadDir /\ TempRoot(PathOf(p, s, base)) = RootOf(p, s, TempHeadDir)
<1> DEFINE path == PathOf(p, s, base)
           root == RootOf(p, s, base)
<1>1. TempHeadDir \in Seq(Name) /\ TempHeadDir \in Base
  <2>1. TempHeadDir \in Base
    BY DEF Base
  <2> QED BY <2>1, PathShape
<1>2. /\ Len(TempHeadDir) \in Nat /\ Len(base) \in Nat
      /\ base \in Seq(Name) /\ root \in Seq(Name) /\ path \in Seq(Name)
      /\ Len(root) = Len(base) + 1 /\ Len(path) = Len(base) + 3
      /\ \A i \in 1..Len(base) : root[i] = base[i]
      /\ \A i \in 1..(Len(base) + 1) : path[i] = root[i]
  BY <1>1, PathShape
<1>3. /\ Len(TempHeadDir) <= Len(path)
      /\ \A i \in 1..Len(TempHeadDir) : TempHeadDir[i] = path[i]
  BY <1>1, <1>2, PrefixIs DEF Sits, IsStrictPrefix
<1>4. IsPrefix(root, path)
  BY RootAbove
<1>5. base \in Stray => ~IsPrefix(TempHeadDir, base) /\ ~IsPrefix(root, TempHeadDir)
  BY ScratchAssumption DEF ScratchAssumption, RootOf
<1> HIDE DEF path, root
<1>6. base = TempHeadDir
  <2> SUFFICES ASSUME base \in Stray PROVE FALSE
    BY DEF Base
  <2>1. CASE Len(TempHeadDir) <= Len(base)
    <3>1. \A i \in 1..Len(TempHeadDir) : path[i] = base[i]
      BY <1>2, <2>1
    <3>2. \A i \in 1..Len(TempHeadDir) : TempHeadDir[i] = base[i]
      BY <1>3, <3>1
    <3> QED BY <1>1, <1>2, <1>5, <2>1, <3>2, PrefixIs
  <2>2. CASE Len(TempHeadDir) > Len(base)
    <3>1. Len(root) <= Len(TempHeadDir)
      BY <1>2, <2>2
    <3>2. \A i \in 1..Len(root) : root[i] = TempHeadDir[i]
      BY <1>2, <1>3, <3>1
    <3> QED BY <1>1, <1>2, <1>5, <3>1, <3>2, PrefixIs
  <2> QED BY <1>2, <2>1, <2>2
<1>7. SubSeq(path, 1, Len(root)) = root
  BY <1>2, <1>4, SubSeqFull DEF IsPrefix
<1>8. TempRoot(path) = root
  BY <1>2, <1>6, <1>7 DEF TempRoot
<1> QED BY <1>6, <1>8 DEF path, root

\* What lies at or below the directory of a store in the head is that store's.
LEMMA UnderIsOwn ==
  ASSUME NEW p \in Run, NEW s \in Store, NEW q \in Run, NEW t \in Store, NEW base \in Base,
         IsPrefix(RootOf(p, s, TempHeadDir), RootOf(q, t, base))
  PROVE  p = q
<1> DEFINE root == RootOf(p, s, TempHeadDir)
           path == RootOf(q, t, base)
<1>1. TempHeadDir \in Seq(Name) /\ TempHeadDir \in Base
  <2>1. TempHeadDir \in Base
    BY DEF Base
  <2> QED BY <2>1, PathShape
<1>2. /\ Len(TempHeadDir) \in Nat /\ Len(base) \in Nat
      /\ base \in Seq(Name) /\ root \in Seq(Name) /\ path \in Seq(Name)
      /\ Len(root) = Len(TempHeadDir) + 1 /\ Len(path) = Len(base) + 1
      /\ \A i \in 1..Len(TempHeadDir) : root[i] = TempHeadDir[i]
      /\ \A i \in 1..Len(base) : path[i] = base[i]
      /\ root[Len(TempHeadDir) + 1] = TempName(p, s)
      /\ path[Len(base) + 1] = TempName(q, t)
  BY <1>1, PathShape
<1>3. Len(root) <= Len(path) /\ \A i \in 1..Len(root) : root[i] = path[i]
  BY <1>2, PrefixIs
<1> HIDE DEF path, root
<1>4. base = TempHeadDir
  <2> SUFFICES ASSUME base \in Stray PROVE FALSE
    BY DEF Base
  <2>1. Len(TempHeadDir) <= Len(base)
    BY <1>2, <1>3
  <2>2. \A i \in 1..Len(TempHeadDir) : root[i] = path[i] /\ path[i] = base[i]
    BY <1>2, <1>3, <2>1
  <2>3. \A i \in 1..Len(TempHeadDir) : TempHeadDir[i] = base[i]
    BY <1>2, <2>2
  <2> QED BY <1>1, <1>2, <2>1, <2>3, PrefixIs, ScratchAssumption DEF ScratchAssumption
<1>5. TempName(p, s) = TempName(q, t)
  BY <1>2, <1>3, <1>4
<1> QED BY <1>5, ScratchAssumption DEF ScratchAssumption

(***************************************************************************)
(* The directories of a run.                                               *)
(***************************************************************************)

Dir(p, s, base) == [run |-> p, path |-> RootOf(p, s, base)]
Own(p) == {d \in disk : d.run = p}
RootsOf(p) == {RootOf(p, s, TempHeadDir) : s \in Store}

\* The stores of a run are opened in their order.
Opening(p) ==
    /\ pc[p] = "make" => open[p] \in {{}, {"ks"}, {"ks", "db"}, {"ks", "db", "cf"}}
    /\ pc[p] = "pin" => open[p] = Store

\* An open store sits in a directory made for it, which stands.
Standing(p) ==
    \A s \in open[p] :
        s \in Store /\ \E base \in Base :
            made[p][s] = PathOf(p, s, base) /\ Dir(p, s, base) \in disk

\* Every directory a run has made is on the way to its removal.
Traced(p) ==
    p \notin slipped =>
        /\ pc[p] \in Before \cup {"publish", "done"} => Own(p) = {}
        /\ pc[p] \in {"make", "pin"} =>
              \A d \in Own(p) : \E s \in open[p], base \in Base :
                  d.path = RootOf(p, s, base) /\ made[p][s] = PathOf(p, s, base)
        /\ pc[p] \in {"judge", "derive", "close"} =>
              \A d \in Own(p) : \E n \in 1..Len(roots[p]) : roots[p][n] = d.path

Tidy(p) ==
    /\ DOMAIN made[p] = Store /\ roots[p] \in Seq(RootsOf(p))
    /\ Opening(p) /\ Standing(p) /\ Traced(p)

Directories ==
    \A d \in disk : d.run \in Run /\ \E s \in Store, base \in Base : d = Dir(d.run, s, base)

DirInv == RunInv /\ DOMAIN roots = Run /\ Directories /\ \A p \in Run : Tidy(p)

\* What a step of one run leaves of another.
Apart(q) ==
    /\ pc'[q] = pc[q] /\ made'[q] = made[q] /\ open'[q] = open[q] /\ roots'[q] = roots[q]
    /\ q \in slipped' <=> q \in slipped
    /\ Own(q)' = Own(q)

LEMMA ApartTidy ==
  ASSUME NEW q \in Run, Tidy(q), Apart(q)
  PROVE  Tidy(q)'
<1>1. Traced(q)'
  BY DEF Tidy, Traced, Apart
<1>2. Standing(q)'
  <2> SUFFICES ASSUME NEW s \in open[q]
               PROVE  s \in Store /\ \E base \in Base :
                          made[q][s] = PathOf(q, s, base) /\ Dir(q, s, base) \in disk'
    BY DEF Standing, Apart
  <2>1. PICK base \in Base : made[q][s] = PathOf(q, s, base) /\ Dir(q, s, base) \in disk
    BY DEF Tidy, Standing
  <2>2. Dir(q, s, base) \in disk'
    BY <2>1 DEF Apart, Own, Dir
  <2> QED BY <2>1, <2>2 DEF Tidy, Standing
<1>3. Opening(q)'
  BY DEF Tidy, Opening, Apart
<1> QED BY <1>1, <1>2, <1>3 DEF Tidy, Apart

LEMMA InitDir == Init => DirInv
<1> SUFFICES ASSUME Init PROVE DirInv
  OBVIOUS
<1>1. RunInv
  BY InitRun
<1>2. ASSUME NEW p \in Run PROVE Tidy(p)
  <2>1. roots[p] = <<>> /\ roots[p] \in Seq(RootsOf(p))
    BY DEF Init
  <2>2. Opening(p) /\ Standing(p) /\ Traced(p)
    BY DEF Init, Opening, Standing, Traced, Own
  <2> QED BY <2>1, <2>2 DEF Tidy, Init
<1> QED BY <1>1, <1>2 DEF DirInv, Init, Directories

\* A step that opens, closes and removes nothing: it may go on only to where what
\* stands is on the way to its removal still, or the run has slipped.
Leaves(p) ==
    /\ UNCHANGED <<made, open, roots, disk>>
    /\ \A q \in Run \ {p} : pc'[q] = pc[q] /\ (q \in slipped' <=> q \in slipped)
    /\ \/ pc'[p] = "done" /\ p \in slipped'
       \/ /\ p \in slipped' <=> p \in slipped
          /\ \/ pc[p] \in Before \cup {"publish"} /\ pc'[p] \in Before \cup {"done"}
             \/ pc[p] = "gate" /\ pc'[p] = "make"
             \/ pc[p] \in {"judge", "derive"} /\ pc'[p] \in {"derive", "close"}
             \/ pc[p] = "close" /\ roots[p] = <<>> /\ pc'[p] \in {"publish", "done"}

LEMMA LeavesDir ==
  ASSUME DirInv, RunInv', NEW p \in Run, Leaves(p)
  PROVE  DirInv'
<1>1. ASSUME NEW q \in Run, q # p PROVE Apart(q)
  BY <1>1 DEF Leaves, Apart, Own
<1>2. Tidy(p)'
  <2>1. Standing(p)' /\ DOMAIN made'[p] = Store /\ roots'[p] \in Seq(RootsOf(p))
    BY DEF DirInv, Tidy, Standing, Leaves
  <2>2. Own(p)' = Own(p)
    BY DEF Leaves, Own
  <2>3. pc[p] = "gate" => open[p] = {} /\ (p \notin slipped => Own(p) = {})
    BY DEF DirInv, Tidy, Traced, RunInv, Fine, Opened, Before
  <2>4. Opening(p)'
    BY <2>3 DEF Opening, Leaves, Before
  <2>5. roots[p] = <<>> => 1..Len(roots[p]) = {}
    OBVIOUS
  <2>6. Traced(p)'
    BY <2>2, <2>3, <2>5 DEF DirInv, Tidy, Traced, Leaves, Before
  <2> QED BY <2>1, <2>4, <2>6 DEF Tidy
<1>3. Directories'
  BY DEF DirInv, Directories, Leaves
<1>4. DOMAIN roots' = Run
  BY DEF DirInv, Leaves
<1> QED BY <1>1, <1>2, <1>3, <1>4, ApartTidy DEF DirInv

LEMMA LeavingSteps ==
  ASSUME DirInv, RunInv', NEW p \in Run,
         \/ Parse(p) \/ ReadSome(p) \/ Admit(p) \/ Gate(p) \/ Use(p) \/ Closed(p)
         \/ Publish(p) \/ Fault(p)
  PROVE  DirInv'
<1> USE DEF DirInv, RunInv, TypeInv, Leaves, Goto, Raise, Before
<1>1. CASE Parse(p)
  <2>1. Leaves(p) BY <1>1 DEF Parse
  <2> QED BY <2>1, LeavesDir
<1>2. CASE ReadSome(p)
  <2>1. Leaves(p) BY <1>2 DEF ReadSome
  <2> QED BY <2>1, LeavesDir
<1>3. CASE Admit(p)
  <2>1. Leaves(p) BY <1>3 DEF Admit
  <2> QED BY <2>1, LeavesDir
<1>4. CASE Gate(p)
  <2>1. Leaves(p) BY <1>4 DEF Gate
  <2> QED BY <2>1, LeavesDir
<1>5. CASE Use(p)
  <2>1. Leaves(p) BY <1>5 DEF Use
  <2> QED BY <2>1, LeavesDir
<1>6. CASE Closed(p)
  <2>1. Leaves(p) BY <1>6 DEF Closed
  <2> QED BY <2>1, LeavesDir
<1>7. CASE Publish(p)
  <2>1. Leaves(p) BY <1>7 DEF Publish
  <2> QED BY <2>1, LeavesDir
<1>8. CASE Fault(p)
  <2>1. Leaves(p) BY <1>8 DEF Fault, Unreadable, OpenFails, CloseFails
  <2> QED BY <2>1, LeavesDir
<1> QED BY <1>1, <1>2, <1>3, <1>4, <1>5, <1>6, <1>7, <1>8

LEMMA NextStore ==
  ASSUME DirInv, NEW p \in Run, pc[p] = "make"
  PROVE  LET s == Stores[Cardinality(open[p]) + 1]
         IN  /\ s \in Store \ open[p]
             /\ s # "reger" => open[p] \cup {s} \in {{"ks"}, {"ks", "db"}, {"ks", "db", "cf"}}
             /\ s = "reger" => open[p] \cup {s} = Store
<1>1. open[p] \in {{}, {"ks"}, {"ks", "db"}, {"ks", "db", "cf"}}
  BY DEF DirInv, Tidy, Opening
<1>2. /\ Cardinality({}) = 0 /\ IsFiniteSet({})
      /\ Cardinality({"ks"}) = 1 /\ IsFiniteSet({"ks"})
  BY FS_EmptySet, FS_Singleton
<1>3. {"ks", "db"} = {"ks"} \cup {"db"} /\ {"ks", "db", "cf"} = {"ks", "db"} \cup {"cf"}
  OBVIOUS
<1>4. Cardinality({"ks", "db"}) = 2 /\ IsFiniteSet({"ks", "db"})
  <2>1. /\ IsFiniteSet({"ks"} \cup {"db"})
        /\ Cardinality({"ks"} \cup {"db"}) = Cardinality({"ks"}) + 1
    BY <1>2, FS_AddElement
  <2> QED BY <1>2, <1>3, <2>1
<1>5. Cardinality({"ks", "db", "cf"}) = 3
  <2>1. Cardinality({"ks", "db"} \cup {"cf"}) = Cardinality({"ks", "db"}) + 1
    BY <1>4, FS_AddElement
  <2> QED BY <1>3, <1>4, <2>1
<1>6. Stores[1] = "ks" /\ Stores[2] = "db" /\ Stores[3] = "cf" /\ Stores[4] = "reger"
  BY DEF Stores
<1>7. CASE open[p] = {}
  BY <1>2, <1>6, <1>7, StoreIs
<1>8. CASE open[p] = {"ks"}
  BY <1>2, <1>6, <1>8, StoreIs
<1>9. CASE open[p] = {"ks", "db"}
  BY <1>4, <1>6, <1>9, StoreIs
<1>10. CASE open[p] = {"ks", "db", "cf"}
  BY <1>5, <1>6, <1>10, StoreIs
<1> QED BY <1>1, <1>7, <1>8, <1>9, <1>10

LEMMA MakeStoreDir ==
  ASSUME DirInv, RunInv', NEW p \in Run, MakeStore(p)
  PROVE  DirInv'
<1> DEFINE s == Stores[Cardinality(open[p]) + 1]
<1>1. pc[p] = "make"
  BY DEF MakeStore
<1>2. /\ s \in Store \ open[p]
      /\ s # "reger" => open[p] \cup {s} \in {{"ks"}, {"ks", "db"}, {"ks", "db", "cf"}}
      /\ s = "reger" => open[p] \cup {s} = Store
  BY <1>1, NextStore
<1>3. PICK base \in Base :
          /\ made' = [made EXCEPT ![p][s] = PathOf(p, s, base)]
          /\ disk' = disk \cup {Dir(p, s, base)}
          /\ open' = [open EXCEPT ![p] = @ \cup {s}]
          /\ pc' = [pc EXCEPT ![p] = IF s = "reger" THEN "pin" ELSE "make"]
  BY DEF MakeStore, MakeTemp, Base, RootOf, PathOf, Dir, Goto
<1>4. UNCHANGED <<roots, slipped>>
  BY DEF MakeStore
<1> HIDE DEF s
<1>5. ASSUME NEW q \in Run, q # p PROVE Apart(q)
  BY <1>3, <1>4, <1>5 DEF Apart, Own, Dir, DirInv, RunInv, TypeInv
<1>6. Tidy(p)'
  <2>1. pc'[p] = (IF s = "reger" THEN "pin" ELSE "make") /\ open'[p] = open[p] \cup {s}
    BY <1>3 DEF DirInv, RunInv, TypeInv
  <2>2. /\ DOMAIN made'[p] = Store /\ made'[p][s] = PathOf(p, s, base)
        /\ \A t \in Store : t # s => made'[p][t] = made[p][t]
    BY <1>2, <1>3 DEF DirInv, RunInv, TypeInv, Tidy
  <2>3. Opening(p)'
    BY <1>2, <2>1 DEF Opening
  <2>4. Standing(p)'
    BY <1>2, <1>3, <2>1, <2>2 DEF Standing, DirInv, Tidy
  <2>5. ASSUME p \notin slipped, NEW d \in Own(p)'
        PROVE  \E t \in open'[p], b \in Base :
                   d.path = RootOf(p, t, b) /\ made'[p][t] = PathOf(p, t, b)
    <3>1. CASE d = Dir(p, s, base)
      BY <2>1, <2>2, <3>1 DEF Dir
    <3>2. CASE d # Dir(p, s, base)
      <4>1. d \in Own(p)
        BY <1>3, <2>5, <3>2 DEF Own
      <4>2. PICK t \in open[p], b \in Base :
                d.path = RootOf(p, t, b) /\ made[p][t] = PathOf(p, t, b)
        BY <1>1, <2>5, <4>1 DEF DirInv, Tidy, Traced
      <4>3. t \in Store /\ t # s
        BY <1>2, <4>2 DEF DirInv, Tidy, Standing
      <4> QED BY <2>1, <2>2, <4>2, <4>3
    <3> QED BY <3>1, <3>2
  <2>6. Traced(p)'
    BY <1>4, <2>1, <2>5 DEF Traced, Before
  <2> QED BY <1>4, <2>2, <2>3, <2>4, <2>6 DEF Tidy, DirInv
<1>7. Directories'
  BY <1>2, <1>3 DEF DirInv, Directories, Dir
<1> QED BY <1>4, <1>5, <1>6, <1>7, ApartTidy DEF DirInv

LEMMA FindRootsDir ==
  ASSUME DirInv, RunInv', NEW p \in Run, FindRoots(p)
  PROVE  DirInv'
<1>1. pc[p] = "pin" /\ open[p] = Store /\ UNCHANGED <<made, open, disk>>
  BY DEF FindRoots, DirInv, Tidy, Opening
<1>2. CASE \A s \in Store : Sits(made[p][s])
  <2> DEFINE found == [n \in DOMAIN Stores |-> TempRoot(made[p][Stores[n]])]
  <2>1. roots' = [roots EXCEPT ![p] = found] /\ pc' = [pc EXCEPT ![p] = "judge"]
        /\ UNCHANGED slipped
    BY <1>2 DEF FindRoots, Goto
  <2>2. ASSUME NEW s \in Store
        PROVE  /\ TempRoot(made[p][s]) = RootOf(p, s, TempHeadDir)
               /\ \A b \in Base : made[p][s] = PathOf(p, s, b) => b = TempHeadDir
    <3>1. PICK base \in Base : made[p][s] = PathOf(p, s, base)
      BY <1>1 DEF DirInv, Tidy, Standing
    <3> QED BY <1>2, <3>1, RootFound
  <2>3. DOMAIN Stores = 1..4 /\ \A n \in 1..4 : Stores[n] \in Store
    BY StoreIs DEF Stores
  <2>4. found \in Seq(RootsOf(p)) /\ Len(found) = 4
    BY <2>2, <2>3, IsASeq DEF RootsOf
  <2>5. ASSUME NEW q \in Run, q # p PROVE Apart(q)
    BY <1>1, <2>1, <2>5 DEF Apart, Own, DirInv, RunInv, TypeInv
  <2>6. Tidy(p)'
    <3>1. pc'[p] = "judge" /\ roots'[p] = found
      BY <2>1 DEF DirInv, RunInv, TypeInv
    <3>2. Opening(p)' /\ Standing(p)' /\ DOMAIN made'[p] = Store
      BY <1>1, <3>1 DEF DirInv, Tidy, Opening, Standing
    <3>3. ASSUME p \notin slipped, NEW d \in Own(p)
          PROVE  \E n \in 1..4 : found[n] = d.path
      <4>1. PICK s \in open[p], base \in Base :
                d.path = RootOf(p, s, base) /\ made[p][s] = PathOf(p, s, base)
        BY <1>1, <3>3 DEF DirInv, Tidy, Traced
      <4>2. d.path = TempRoot(made[p][s])
        BY <1>1, <2>2, <4>1
      <4>3. \E n \in 1..4 : Stores[n] = s
        BY <1>1, <2>3, <4>1, StoreIs DEF Stores
      <4> QED BY <2>3, <4>2, <4>3
    <3>4. Traced(p)'
      <4>1. Len(roots'[p]) = 4 /\ Own(p)' = Own(p) /\ slipped' = slipped
        BY <1>1, <2>1, <2>4, <3>1 DEF Own
      <4>2. pc'[p] \notin Before \cup {"publish", "done", "make", "pin"}
        BY <3>1 DEF Before
      <4> HIDE DEF found
      <4>3. p \notin slipped => \A d \in Own(p) : \E n \in 1 .. 4 : roots'[p][n] = d.path
        BY <3>1, <3>3
      <4> QED BY <4>1, <4>2, <4>3 DEF Traced
    <3> QED BY <2>4, <3>1, <3>2, <3>4 DEF Tidy, RootsOf
  <2>7. Directories' /\ DOMAIN roots' = Run
    BY <1>1, <2>1 DEF DirInv, Directories
  <2> QED BY <2>5, <2>6, <2>7, ApartTidy DEF DirInv
<1>3. CASE ~\A s \in Store : Sits(made[p][s])
  <2>1. Leaves(p)
    BY <1>1, <1>3 DEF FindRoots, Leaves, Raise, Goto, DirInv, RunInv, TypeInv
  <2> QED BY <2>1, LeavesDir
<1> QED BY <1>2, <1>3

LEMMA CloseStoresDir ==
  ASSUME DirInv, RunInv', NEW p \in Run, CloseStores(p)
  PROVE  DirInv'
<1>1. /\ pc[p] = "close" /\ UNCHANGED <<pc, made, roots, disk, slipped>>
      /\ open'[p] \subseteq open[p] /\ \A q \in Run : q # p => open'[q] = open[q]
  BY DEF CloseStores, DirInv, RunInv, TypeInv
<1>2. ASSUME NEW q \in Run, q # p PROVE Apart(q)
  BY <1>1, <1>2 DEF Apart, Own
<1>3. Tidy(p)'
  BY <1>1 DEF DirInv, Tidy, Opening, Standing, Traced, Own, Before
<1>4. Directories' /\ DOMAIN roots' = Run
  BY <1>1 DEF DirInv, Directories
<1> QED BY <1>2, <1>3, <1>4, ApartTidy DEF DirInv

LEMMA RemoveRootDir ==
  ASSUME DirInv, RunInv', NEW p \in Run, RemoveRoot(p)
  PROVE  DirInv'
<1>1. /\ pc[p] = "close" /\ open[p] = {} /\ roots[p] # <<>>
      /\ roots' = [roots EXCEPT ![p] = Tail(@)] /\ UNCHANGED <<pc, made, open>>
      /\ \/ disk' = disk \ Under(Head(roots[p])) /\ UNCHANGED slipped
         \/ slipped' = slipped \cup {p} /\ UNCHANGED disk
  BY DEF RemoveRoot
<1>2. roots[p] \in Seq(RootsOf(p)) /\ roots'[p] = Tail(roots[p])
  BY <1>1 DEF DirInv, Tidy
<1>3. /\ Tail(roots[p]) \in Seq(RootsOf(p)) /\ Head(roots[p]) \in RootsOf(p)
      /\ Len(roots[p]) \in Nat /\ Len(Tail(roots[p])) = Len(roots[p]) - 1
      /\ Head(roots[p]) = roots[p][1]
      /\ \A i \in 1..(Len(roots[p]) - 1) : Tail(roots[p])[i] = roots[p][i + 1]
  BY <1>1, <1>2, HeadTailProperties
<1>4. ASSUME NEW q \in Run, q # p PROVE Own(q)' = Own(q)
  <2> SUFFICES ASSUME NEW d \in disk, d.run = q, d \in Under(Head(roots[p])) PROVE FALSE
    BY <1>1 DEF Own
  <2>1. PICK s \in Store : Head(roots[p]) = RootOf(p, s, TempHeadDir)
    BY <1>3 DEF RootsOf
  <2>2. PICK t \in Store, base \in Base : d = Dir(q, t, base)
    BY DEF DirInv, Directories
  <2>3. IsPrefix(RootOf(p, s, TempHeadDir), RootOf(q, t, base))
    BY <2>1, <2>2 DEF Under, Dir
  <2> QED BY <1>4, <2>3, UnderIsOwn
<1>5. ASSUME NEW q \in Run, q # p PROVE Apart(q)
  BY <1>1, <1>4, <1>5 DEF Apart, DirInv
<1>6. Tidy(p)'
  <2>1. Opening(p)' /\ Standing(p)' /\ DOMAIN made'[p] = Store
    BY <1>1 DEF DirInv, Tidy, Opening, Standing
  <2>2. ASSUME p \notin slipped', NEW d \in Own(p)'
        PROVE  \E n \in 1..Len(roots'[p]) : roots'[p][n] = d.path
    <3>1. d \in Own(p) /\ d \notin Under(Head(roots[p])) /\ p \notin slipped
      BY <1>1, <2>2 DEF Own
    <3>2. PICK n \in 1..Len(roots[p]) : roots[p][n] = d.path
      BY <1>1, <3>1 DEF DirInv, Tidy, Traced
    <3>3. n # 1
      <4> SUFFICES ASSUME n = 1 PROVE FALSE
        OBVIOUS
      <4>1. Head(roots[p]) = d.path
        BY <1>3, <3>2
      <4>2. PICK s \in Store : d.path = RootOf(p, s, TempHeadDir)
        BY <1>3, <4>1 DEF RootsOf
      <4>3. d.path \in Seq(Name)
        BY <4>2, PathShape DEF Base
      <4>4. IsPrefix(d.path, d.path)
        BY <4>3, PrefixIs, LenProperties
      <4> QED BY <3>1, <4>1, <4>4 DEF Under, Own
    <3>4. n - 1 \in 1..Len(roots'[p]) /\ roots'[p][n - 1] = d.path
      BY <1>2, <1>3, <3>2, <3>3
    <3> QED BY <3>4
  <2>3. Traced(p)'
    BY <1>1, <2>2 DEF Traced, Before
  <2> QED BY <1>2, <1>3, <2>1, <2>3 DEF Tidy, RootsOf
<1>7. Directories' /\ DOMAIN roots' = Run
  BY <1>1 DEF DirInv, Directories
<1> QED BY <1>5, <1>6, <1>7, ApartTidy DEF DirInv

LEMMA NextDir == DirInv /\ [Next]_vars => DirInv'
<1> SUFFICES ASSUME DirInv, [Next]_vars PROVE DirInv'
  OBVIOUS
<1>1. RunInv'
  BY NextRun DEF DirInv
<1>2. ASSUME NEW p \in Run, Proceed(p) PROVE DirInv'
  BY <1>1, <1>2, LeavingSteps, MakeStoreDir, FindRootsDir, CloseStoresDir, RemoveRootDir
  DEF Proceed
<1>3. ASSUME NEW p \in Run, Fault(p) PROVE DirInv'
  BY <1>1, <1>3, LeavingSteps
<1>4. CASE UNCHANGED vars
  <2>1. ASSUME NEW q \in Run PROVE Apart(q)
    BY <1>4 DEF Apart, Own, vars
  <2>2. Directories' /\ DOMAIN roots' = Run
    BY <1>4 DEF DirInv, Directories, vars
  <2> QED BY <1>1, <2>1, <2>2, ApartTidy DEF DirInv
<1> QED BY <1>2, <1>3, <1>4 DEF Next

LEMMA DirInvariant == Spec => []DirInv
BY InitDir, NextDir, PTL DEF Spec

\* No run removes the directory of a store another has open, however many share the
\* disk and wherever a store came to sit: what is removed lies below the directory
\* mkdtemp made for the remover.
THEOREM OpenStoresStandCorrect == Spec => []OpenStoresStand
<1>1. DirInv => OpenStoresStand
  <2> SUFFICES ASSUME DirInv, NEW p \in Run, NEW s \in open[p]
               PROVE  \E d \in disk : d.run = p /\ IsPrefix(d.path, made[p][s])
    BY DEF OpenStoresStand
  <2>1. PICK base \in Base : made[p][s] = PathOf(p, s, base) /\ Dir(p, s, base) \in disk
    BY DEF DirInv, Tidy, Standing
  <2>2. s \in Store
    BY DEF DirInv, Tidy, Standing
  <2>3. Dir(p, s, base).run = p /\ IsPrefix(Dir(p, s, base).path, made[p][s])
    BY <2>1, <2>2, RootAbove DEF Dir
  <2> QED BY <2>1, <2>3
<1> QED BY <1>1, DirInvariant, PTL

\* A run in whose opening and closing nothing went wrong has removed, when it has ended,
\* every directory it made, whatever was raised in between.
THEOREM EndsWithoutLitterCorrect == Spec => []EndsWithoutLitter
<1>1. DirInv => EndsWithoutLitter
  BY DEF DirInv, Tidy, Traced, Own, EndsWithoutLitter
<1> QED BY <1>1, DirInvariant, PTL
=============================================================================
