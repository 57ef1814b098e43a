---------------------------- MODULE MCResolution ----------------------------
(* Instances of Resolution for TLC.                                        *)
EXTENDS Resolution, TLC

MCVersion == {1, 2}
=============================================================================
