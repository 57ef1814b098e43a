------------------------------- MODULE Scratch -------------------------------
(***************************************************************************)
(* The life of the scratch databases of a run of `didwebs publish`: the     *)
(* command line up to the publication (cli.py), the door the stream enters  *)
(* by (bounds.py) and the opening and closing of the keripy stack around an *)
(* ingestion (ingest.py). Publish has the publication step by step; here it *)
(* is one step. Several runs share one temporary head and one disk.         *)
(***************************************************************************)
EXTENDS Naturals, SequencesExt

CONSTANTS
    Run,        \* processes, one `didwebs publish` each
    Limit,      \* Door.limit, in bytes
    TempHeadDir, \* where keripy's store classes make theirs, a path
    TempDir,    \* tempfile.gettempdir() of the processes, a path
    TempName(_, _), \* the name mkdtemp gives to a run's directory for a store
    Stray,      \* paths outside TempHeadDir where a store may sit all the same
    MayRaise    \* the steps a fault of the machine may strike

\* The databases of the stack, in the order they are opened.
Stores == <<"ks", "db", "cf", "reger">>
Store == Range(Stores)

ScratchAssumption ==
    /\ Limit \in Nat
    /\ TempHeadDir \in Seq(STRING) /\ TempDir \in Seq(STRING)
    /\ \A path \in Stray : path \in Seq(STRING) /\ ~IsPrefix(TempHeadDir, path)
    /\ \A p, q \in Run, s, t \in Store :
          /\ TempName(p, s) \in STRING
          /\ TempName(p, s) = TempName(q, t) => p = q /\ s = t
    \* What mkdtemp makes is new.
    /\ \A path \in Stray, p \in Run, s \in Store :
          ~IsPrefix(Append(path, TempName(p, s)), TempHeadDir)

ASSUME ScratchAssumption

VARIABLES
    pc,         \* pc[p]: the step run p is about to take
    size,       \* size[p]: the bytes in the file p is given
    held,       \* held[p]: the bytes p has read of it
    made,       \* made[p][s]: where s of p is, <<>> before it is opened
    open,       \* open[p]: the stores of p that are open
    roots,      \* roots[p]: Scratch.roots, the directories still to remove
    disk,       \* the directories standing, each made for one store of one run
    raised,     \* raised[p]: the exception on its way up, "none" if there is none
    hosted,     \* the runs whose publication has returned
    slipped     \* the runs a step of whose opening or closing went wrong

vars == <<pc, size, held, made, open, roots, disk, raised, hosted, slipped>>

\* "range" is the door's refusal, errors.TOO_LARGE; "refusal" is every other one.
Failures == {"usage", "range", "refusal", "fault", "interrupt"}

Init ==
    /\ pc = [p \in Run |-> "parse"]
    /\ size \in [Run -> 0..(Limit + 2)]
    /\ held = [p \in Run |-> 0]
    /\ made = [p \in Run |-> [s \in Store |-> <<>>]]
    /\ open = [p \in Run |-> {}]
    /\ roots = [p \in Run |-> <<>>]
    /\ disk = {}
    /\ raised = [p \in Run |-> "none"]
    /\ hosted = {}
    /\ slipped = {}

Goto(p, step) == pc' = [pc EXCEPT ![p] = step]

\* A raise: to `main` while there is no scratch to close, else through close.
Raise(p, failure, handler) ==
    /\ raised' = [raised EXCEPT ![p] = failure]
    /\ Goto(p, handler)

(***************************************************************************)
(* The command line and the door.                                          *)
(***************************************************************************)

\* _Parser.parse_args and did.parse: a usage error, a refusal of the DID, or on.
Parse(p) ==
    /\ pc[p] = "parse"
    /\ \/ Goto(p, "read") /\ UNCHANGED raised
       \/ Raise(p, "usage", "done")
       \/ Raise(p, "refusal", "done")
    /\ UNCHANGED <<size, held, made, open, roots, disk, hosted, slipped>>

\* The most bytes one call asks for.
Asked == Limit + 1

\* The handle is buffered: it goes on asking until it has what was asked or the
\* file ends, in pieces of any length.
ReadSome(p) ==
    /\ pc[p] = "read"
    /\ \E n \in 1..(Limit + 2) :
          /\ held[p] + n <= size[p]
          /\ held[p] + n <= Asked
          /\ held' = [held EXCEPT ![p] = @ + n]
    /\ UNCHANGED <<pc, size, made, open, roots, disk, raised, hosted, slipped>>

\* read_bounded waits for more after the end of the file.
Mutant_AdmitFull(p) ==
    /\ pc[p] = "read"
    /\ held[p] = Asked
    /\ Raise(p, "range", "done")
    /\ UNCHANGED <<size, held, made, open, roots, disk, hosted, slipped>>

\* A file that fills the bound counts as too long.
Mutant_AdmitAtTheLimit(p) ==
    /\ pc[p] = "read"
    /\ held[p] = Asked \/ held[p] = size[p]
    /\ IF held[p] >= Limit
       THEN Raise(p, "range", "done")
       ELSE Goto(p, "gate") /\ UNCHANGED raised
    /\ UNCHANGED <<size, held, made, open, roots, disk, hosted, slipped>>

\* read_bounded has its answer: too long, or the file.
Admit(p) ==
    /\ pc[p] = "read"
    /\ held[p] = Asked \/ held[p] = size[p]
    /\ IF held[p] > Limit
       THEN Raise(p, "range", "done")
       ELSE Goto(p, "gate") /\ UNCHANGED raised
    /\ UNCHANGED <<size, held, made, open, roots, disk, hosted, slipped>>

\* The file cannot be opened, or a read of it fails: a mistake in the invocation.
Unreadable(p) ==
    /\ pc[p] = "read"
    /\ "read" \in MayRaise
    /\ Raise(p, "usage", "done")
    /\ UNCHANGED <<size, held, made, open, roots, disk, hosted, slipped>>

\* walk and the checks that need no database.
Gate(p) ==
    /\ pc[p] = "gate"
    /\ \/ Goto(p, "make") /\ UNCHANGED raised
       \/ Raise(p, "refusal", "done")
    /\ UNCHANGED <<size, held, made, open, roots, disk, hosted, slipped>>

(***************************************************************************)
(* open_scratch: outside any handler, so that what raises here goes to main.*)
(***************************************************************************)

\* The directory mkdtemp makes for a store, directly in the one it was asked for.
MakeTemp(p, s, base) == Append(base, TempName(p, s))

\* Habery opens ks, db and cf, Regery opens reger; each makes a directory.
MakeStore(p) ==
    /\ pc[p] = "make"
    /\ LET s == Stores[Cardinality(open[p]) + 1]
       IN \E base \in {TempHeadDir} \cup Stray :
             LET root == MakeTemp(p, s, base)
             IN /\ made' = [made EXCEPT ![p][s] = root \o <<"keri", s>>]
                /\ disk' = disk \cup {[run |-> p, path |-> root]}
                /\ open' = [open EXCEPT ![p] = @ \cup {s}]
                /\ Goto(p, IF s = "reger" THEN "pin" ELSE "make")
    /\ UNCHANGED <<size, held, roots, raised, hosted, slipped>>

\* A store that cannot be opened, or a schema that cannot be pinned: what is
\* open stays open.
OpenFails(p) ==
    /\ pc[p] \in {"make", "pin"}
    /\ "open" \in MayRaise
    /\ \E failure \in {"refusal", "fault", "interrupt"} : Raise(p, failure, "done")
    /\ slipped' = slipped \cup {p}
    /\ UNCHANGED <<size, held, made, open, roots, disk, hosted>>

\* With the process's temporary directory for the store's own head.
Mutant_TempRootOfProcess(path) == SubSeq(path, 1, Len(TempDir) + 1)

\* _temp_root: the directory below the store's head that holds the store.
Sits(path) == IsStrictPrefix(TempHeadDir, path)
TempRoot(path) == SubSeq(path, 1, Len(TempHeadDir) + 1)

\* The schema is pinned, the handlers are built, and the roots are found, or one
\* store sits outside its head and nothing is known to be safe to remove.
FindRoots(p) ==
    /\ pc[p] = "pin"
    /\ IF \A s \in Store : Sits(made[p][s])
       THEN /\ roots' = [roots EXCEPT ![p] =
                            [n \in DOMAIN Stores |-> TempRoot(made[p][Stores[n]])]]
            /\ Goto(p, "judge")
            /\ UNCHANGED <<raised, slipped>>
       ELSE /\ Raise(p, "fault", "done")
            /\ slipped' = slipped \cup {p}
            /\ UNCHANGED roots
    /\ UNCHANGED <<size, held, made, open, disk, hosted>>

(***************************************************************************)
(* ingest's try block, then the body of the `with`; then Scratch.close.     *)
(***************************************************************************)

\* An ingestion without its handler.
Mutant_UseUnguarded(p) ==
    /\ pc[p] \in {"judge", "derive"}
    /\ \/ Goto(p, IF pc[p] = "judge" THEN "derive" ELSE "close") /\ UNCHANGED raised
       \/ Raise(p, "refusal", IF pc[p] = "judge" THEN "done" ELSE "close")
    /\ UNCHANGED <<size, held, made, open, roots, disk, hosted, slipped>>

\* The handler of OSError around the whole pipeline.
Mutant_UseAsUsage(p) ==
    /\ pc[p] \in {"judge", "derive"}
    /\ \/ Goto(p, IF pc[p] = "judge" THEN "derive" ELSE "close") /\ UNCHANGED raised
       \/ \E failure \in {"usage", "refusal"} : Raise(p, failure, "close")
    /\ UNCHANGED <<size, held, made, open, roots, disk, hosted, slipped>>

\* load, audit, authorize and require_ownership; derive_document and emit_stream.
Use(p) ==
    /\ pc[p] \in {"judge", "derive"}
    /\ \/ Goto(p, IF pc[p] = "judge" THEN "derive" ELSE "close") /\ UNCHANGED raised
       \/ \E failure \in {"refusal", "fault", "interrupt"} : Raise(p, failure, "close")
    /\ UNCHANGED <<size, held, made, open, roots, disk, hosted, slipped>>

\* regery.close() and hby.close(clear=True).
CloseStores(p) ==
    /\ pc[p] = "close"
    /\ open[p] # {}
    /\ open' = [open EXCEPT ![p] = IF "reger" \in @ THEN @ \ {"reger"} ELSE {}]
    /\ UNCHANGED <<pc, size, held, made, roots, disk, raised, hosted, slipped>>

\* One of them raises: the exception replaces any on its way, and `closed` being
\* set already, no later call removes anything.
CloseFails(p) ==
    /\ pc[p] = "close"
    /\ open[p] # {}
    /\ "close" \in MayRaise
    /\ \E failure \in {"fault", "interrupt"} : Raise(p, failure, "done")
    /\ slipped' = slipped \cup {p}
    /\ UNCHANGED <<size, held, made, open, roots, disk, hosted>>

\* The directories of the disk that go when the tree at root is removed.
Under(root) == {d \in disk : IsPrefix(root, d.path)}

\* shutil.rmtree of one root, which ignores every error.
RemoveRoot(p) ==
    /\ pc[p] = "close"
    /\ open[p] = {}
    /\ roots[p] # <<>>
    /\ roots' = [roots EXCEPT ![p] = Tail(@)]
    /\ \/ disk' = disk \ Under(Head(roots[p])) /\ UNCHANGED slipped
       \/ "rmtree" \in MayRaise /\ slipped' = slipped \cup {p} /\ UNCHANGED disk
    /\ UNCHANGED <<pc, size, held, made, open, raised, hosted>>

\* An __exit__ that swallows what it is given.
Mutant_ClosedSwallows(p) ==
    /\ pc[p] = "close"
    /\ open[p] = {} /\ roots[p] = <<>>
    /\ Goto(p, "publish")
    /\ UNCHANGED <<size, held, made, open, roots, disk, raised, hosted, slipped>>

\* The last root is gone; what was raised before goes on.
Closed(p) ==
    /\ pc[p] = "close"
    /\ open[p] = {} /\ roots[p] = <<>>
    /\ Goto(p, IF raised[p] = "none" THEN "publish" ELSE "done")
    /\ UNCHANGED <<size, held, made, open, roots, disk, raised, hosted, slipped>>

\* publish.publish and the two lines of output.
Publish(p) ==
    /\ pc[p] = "publish"
    /\ \/ hosted' = hosted \cup {p} /\ Goto(p, "done") /\ UNCHANGED raised
       \/ Raise(p, "fault", "done") /\ UNCHANGED hosted
    /\ UNCHANGED <<size, held, made, open, roots, disk, slipped>>

\* The steps the program takes of itself, and those a fault of the machine takes for it.
Proceed(p) ==
    \/ Parse(p) \/ ReadSome(p) \/ Admit(p) \/ Gate(p)
    \/ MakeStore(p) \/ FindRoots(p)
    \/ Use(p) \/ CloseStores(p) \/ RemoveRoot(p) \/ Closed(p)
    \/ Publish(p)
Fault(p) == Unreadable(p) \/ OpenFails(p) \/ CloseFails(p)

Next == \E p \in Run : Proceed(p) \/ Fault(p)

\* A process that is not stopped goes on; no fault has to happen.
Spec == Init /\ [][Next]_vars /\ \A p \in Run : WF_vars(Proceed(p))

\* main's exit status.
ExitStatus(p) ==
    CASE raised[p] = "none" -> 0
      [] raised[p] = "usage" -> 64
      [] raised[p] \in {"range", "refusal", "fault"} -> 1
      [] OTHER -> 130

(***************************************************************************)
(* Properties.                                                             *)
(***************************************************************************)

\* No run takes the database from under another: whatever one run removes, the
\* directories of every store that is open elsewhere stand (ingest.py:514-516,
\* "it is the directory that store's own mkdtemp call used").
OpenStoresStand ==
    \A p \in Run : \A s \in open[p] :
        \E d \in disk : d.run = p /\ IsPrefix(d.path, made[p][s])

\* A run that has ended leaves no temporary directory, however it ended, unless a
\* step of opening or of closing the stack itself went wrong.
EndsWithoutLitter ==
    \A p \in Run :
        pc[p] = "done" /\ p \notin slipped => \A d \in disk : d.run # p

\* What a run hosts it hosts after its scratch state is gone and only if nothing was
\* raised: neither a refusal nor a failure of close is overtaken by the publication.
HostsAfterClosing ==
    \A p \in Run :
        pc[p] = "publish" \/ p \in hosted => open[p] = {} /\ raised[p] = "none"

\* Exit 64 means that no submission was judged: nothing was opened for it, however
\* much of the file had been read when it failed (cli.py:15-16). Exit 0 means hosted.
ExitStatusTells ==
    \A p \in Run :
        pc[p] = "done" =>
            /\ ExitStatus(p) = 0 <=> p \in hosted
            /\ ExitStatus(p) = 64 => \A s \in Store : made[p][s] = <<>>

\* However the file arrives, what is judged is the whole of it and no more than the
\* bound, what is refused for its size is larger and nothing was opened for it, and no
\* more than one byte past the bound is ever held (bounds.py:77-80). A file that fills
\* the bound to the byte is judged.
BoundIsExact ==
    \A p \in Run :
        /\ held[p] <= Limit + 1
        /\ pc[p] \notin {"parse", "read", "done"} => held[p] = size[p] /\ size[p] <= Limit
        /\ raised[p] = "range" => size[p] > Limit /\ open[p] = {}

\* A run comes to its end whatever fails on the way, the reader of a short file and
\* the remover of a directory that cannot be removed included.
RunsEnd == \A p \in Run : <>(pc[p] = "done")

=============================================================================
