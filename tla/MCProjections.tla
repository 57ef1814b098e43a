---------------------------- MODULE MCProjections ----------------------------
(* Document and Did in one run: a behaviour is of the one or of the other.    *)
EXTENDS MCDocument, MCDid

VARIABLE part   \* the model the behaviour is of

ProjectionsInit ==
    /\ part \in {"document", "did"}
    /\ Init /\ (part = "did" => given = Plainest)
    /\ DidInit

ProjectionsNext ==
    \/ part = "document" /\ Next /\ UNCHANGED <<didVars, part>>
    \/ part = "did" /\ DidNext /\ UNCHANGED <<vars, part>>

ProjectionsSpec == ProjectionsInit /\ [][ProjectionsNext]_<<vars, didVars, part>>
=============================================================================
