----------------------------- MODULE MCScratch -----------------------------
(* Instances of Scratch for TLC.                                           *)
EXTENDS Scratch

MCTempHeadDir == <<"tmp", "pytest">>
MCTempDir == <<"tmp">>
MCTempName(p, s) == ToString(<<p, s>>)
MCStray == {<<"var">>}
AllFaults == {"read", "open", "close", "rmtree"}
=============================================================================
