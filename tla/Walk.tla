-------------------------------- MODULE Walk --------------------------------
(***************************************************************************)
(* ingest.walk and the gate's judgment of it: from a stream of bytes to the *)
(* frames the audit will account for, each with the CESR genus it was read  *)
(* under; and assemble._runs, which writes messages of either version into  *)
(* one stream.                                                             *)
(*                                                                         *)
(* A stream is a sequence of parts: a genus-version counter, bytes that are *)
(* nothing, or a message, which has the version of its body, a kind of      *)
(* serialization and what is attached to it:                               *)
(*   "none", "one"   nothing, or attachments the walk can account for       *)
(*   "nested"        a message inside an attachment group                   *)
(*   "grouped"       two attachment groups, or an enclosing group           *)
(*   "cut"           attachments that end too soon                          *)
(* keripy's extractor is external: where its behaviour is not known, it may *)
(* do any of the things it could.                                          *)
(***************************************************************************)
EXTENDS Naturals, SequencesExt

CONSTANTS
    Streams,    \* submitted streams
    Published   \* sequences of the messages assemble.py joins

VARIABLES
    stream,     \* the stream that is walked
    pieces,     \* the messages it was joined from, <<>> if it was not
    opening,    \* Walk.opening
    genus,      \* the genus the next message is read under, unless a counter says
    at,         \* how many parts have been read
    frames,     \* Walk.frames: the place of each in the stream, and its genus
    failure,    \* Walk.failure: "none", "format" or "serialization"
    verdict     \* what require_supported says, "none" before it has

vars == <<stream, pieces, opening, genus, at, frames, failure, verdict>>

Counter(v) == [part |-> "counter", v |-> v]
Junk == [part |-> "junk"]
Message(v, json, attached) ==
    [part |-> "message", v |-> v, json |-> json, attached |-> attached]

IsCounter(p) == p.part = "counter"
IsMessage(p) == p.part = "message"

MessageParts ==
    {Message(v, json, attached) :
        v \in 1..2, json \in BOOLEAN, attached \in {"none", "one", "nested", "grouped", "cut"}}
Parts == {Counter(1), Counter(2), Junk} \cup MessageParts

Bare(m) == m.attached = "none"

(* What assemble.py joins is JSON; a message of version 1 always has its    *)
(* attachments, and no message without any is followed by one of version 1. *)
ASSUME WalkAssumption ==
    /\ Streams \subseteq Seq(Parts)
    /\ Published \subseteq Seq({m \in MessageParts : m.json /\ m.attached \in {"none", "one"}})
    /\ \A s \in Published : \A j, k \in DOMAIN s : j <= k /\ Bare(s[j]) => s[k].v = 2

(***************************************************************************)
(* _runs: a counter before the first message of every run of one version,   *)
(* but none for a stream all of version 1.                                  *)
(***************************************************************************)

Mutant_StartMixed(mixed) == 1

\* The genus `_runs` takes a reader to be in before it writes anything.
StartsIn(mixed) == IF mixed THEN 0 ELSE 1

Mixed(messages) == \E j, k \in DOMAIN messages : messages[j].v # messages[k].v

Before(messages, n) ==
    IF n = 1 THEN StartsIn(Mixed(messages)) ELSE messages[n - 1].v

Announcing(messages, n) ==
    IF messages[n].v # Before(messages, n)
    THEN <<Counter(messages[n].v), messages[n]>>
    ELSE <<messages[n]>>

Runs(messages) == FlattenSeq([n \in DOMAIN messages |-> Announcing(messages, n)])

(***************************************************************************)
(* The walk.                                                               *)
(***************************************************************************)

\* stream_version.
Opens(parts) == IF parts # <<>> /\ parts[1] = Counter(2) THEN 2 ELSE 1

Residue == SubSeq(stream, at + 1, Len(stream))

\* The counters before the next message, and the genus they leave.
Leading == Cardinality({n \in DOMAIN Residue : \A k \in 1..n : IsCounter(Residue[k])})
ReadUnder == IF Leading = 0 THEN genus ELSE Residue[Leading].v

\* parser.version, which keeps what a counter said until the next.
KeptGenus == ReadUnder

\* External: how keripy's msgParsator may end on the residue.
Extraction ==
    IF Leading = Len(Residue) THEN {"short"}
    ELSE IF ~IsMessage(Residue[Leading + 1]) THEN {"raise"}
    ELSE LET m == Residue[Leading + 1]
             last == Leading + 1 = Len(Residue)
             unsure == Leading > 1 \/ m.v # ReadUnder
         IN (IF unsure THEN {"raise"} ELSE {})
            \cup (IF m.attached = "cut" THEN IF last THEN {"short"} ELSE {"raise"}
                  ELSE IF m.attached # "none" THEN {"done"}
                  ELSE IF last THEN {"short"}
                  ELSE IF IsCounter(Residue[Leading + 2]) THEN {"done", "raise"}
                  ELSE IF IsMessage(Residue[Leading + 2]) THEN {"done"} ELSE {"raise"})

\* _classify: a readable version 1 message of another serialization, or no frame.
Classified ==
    LET p == Residue[1]
    IN IF IsMessage(p) /\ p.v = 1 /\ ~p.json THEN "serialization" ELSE "format"

Fails(fault) ==
    /\ failure' = fault
    /\ UNCHANGED <<stream, pieces, opening, genus, at, frames, verdict>>

Walking == verdict = "none" /\ failure = "none" /\ at < Len(stream)

Mutant_UnaccountableGroups(m) == m.attached = "grouped"

\* message.nests, or _unaccountable.
Unaccountable(m) == m.attached \in {"nested", "grouped"}

\* One message extracted, counted and described by _frame.
Extract ==
    /\ Walking
    /\ "done" \in Extraction
    /\ ~Unaccountable(Residue[Leading + 1])
    /\ frames' = Append(frames, [place |-> at + Leading + 1, genus |-> ReadUnder])
    /\ genus' = KeptGenus
    /\ at' = at + Leading + 1
    /\ UNCHANGED <<stream, pieces, opening, failure, verdict>>

\* One whose attachments hold what no account would ever show.
ExtractUnaccountable ==
    /\ Walking
    /\ "done" \in Extraction
    /\ Unaccountable(Residue[Leading + 1])
    /\ Fails("format")

\* Any exception of keripy's but the one for a stream that ends.
ExtractRaises ==
    /\ Walking
    /\ "raise" \in Extraction
    /\ Fails(Classified)

\* The residue as _final_frame reads it: a body in genus 2, or nothing it will read.
FinalBody ==
    IF Residue[1] = Counter(2) THEN Tail(Residue) ELSE IF genus = 2 THEN Residue ELSE <<>>

IsFinalFrame ==
    /\ Len(FinalBody) = 1
    /\ IsMessage(FinalBody[1])
    /\ FinalBody[1].v = 2 /\ FinalBody[1].attached = "none"

\* The stream ended where an attachment could have begun: one whole body is a frame.
Final ==
    /\ Walking
    /\ "short" \in Extraction
    /\ IsFinalFrame
    /\ frames' = Append(frames, [place |-> Len(stream), genus |-> 2])
    /\ at' = Len(stream)
    /\ UNCHANGED <<stream, pieces, opening, genus, failure, verdict>>

Short ==
    /\ Walking
    /\ "short" \in Extraction
    /\ ~IsFinalFrame
    /\ Fails(Classified)

(***************************************************************************)
(* require_supported, of a stream with nothing else to refuse.              *)
(***************************************************************************)

Body(frame) == stream[frame.place]

Mutant_FormatFaultOfWalk == failure = "format" \/ (frames = <<>> /\ failure = "none")

FormatFault ==
    \/ failure = "format"
    \/ \E n \in DOMAIN frames : Body(frames[n]).v # frames[n].genus
    \/ frames = <<>> /\ failure = "none"

SerializationFault ==
    failure = "serialization" \/ \E n \in DOMAIN frames : ~Body(frames[n]).json

Support ==
    /\ verdict = "none"
    /\ failure # "none" \/ at = Len(stream)
    /\ verdict' = IF FormatFault THEN "format"
                  ELSE IF SerializationFault THEN "serialization" ELSE "supported"
    /\ UNCHANGED <<stream, pieces, opening, genus, at, frames, failure>>

Init ==
    /\ \/ stream \in Streams /\ pieces = <<>>
       \/ pieces \in Published /\ stream = Runs(pieces)
    /\ opening = Opens(stream)
    \* A reader of what is hosted may start in keripy's default genus instead.
    /\ \/ genus = opening
       \/ (\E n \in DOMAIN pieces : pieces[n].v = 2) /\ genus = 2
    /\ at = 0 /\ frames = <<>> /\ failure = "none" /\ verdict = "none"

Next ==
    \/ Extract \/ ExtractUnaccountable \/ ExtractRaises \/ Final \/ Short
    \/ Support

Spec == Init /\ [][Next]_vars

(***************************************************************************)
(* Properties.                                                             *)
(***************************************************************************)

Messages == {n \in DOMAIN stream : IsMessage(stream[n])}

\* A stream that passes the gate has every byte of it accounted for: there is one frame
\* for each message, in the order of the stream, there is nothing else in it, and no
\* message hides another or attachments keripy would leave unread (ingest.py:350-354).
NothingUnread ==
    verdict = "supported" =>
        /\ {frames[n].place : n \in DOMAIN frames} = Messages
        /\ \A n \in 1..(Len(frames) - 1) : frames[n].place < frames[n + 1].place
        /\ \A n \in Messages : stream[n].attached \in {"none", "one"}
        /\ Junk \notin Range(stream)

\* The genus announced for a place: by the last counter before it, or by the opening.
Announced(place) ==
    LET before == {n \in 1..place : IsCounter(stream[n])}
    IN IF before = {} THEN 1 ELSE stream[CHOOSE n \in before : \A k \in before : k <= n].v

\* Every message that passes is of the version announced for it: a switch of version
\* with no counter never passes, however the switches before it went.
SwitchesAreAnnounced ==
    verdict = "supported" =>
        \A n \in DOMAIN frames : Body(frames[n]).v = Announced(frames[n].place)

\* Whatever assemble.py joins passes the gate and is read back message by message, by a
\* reader that starts in the genus the stream opens in and by one that starts in
\* keripy's default, version 2 (assemble.py:527-529). The walk ends on it.
JoinedIsReadBack ==
    pieces # <<>> /\ verdict # "none" =>
        /\ verdict = "supported"
        /\ [n \in DOMAIN frames |-> Body(frames[n])] = pieces

=============================================================================
