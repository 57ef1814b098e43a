----------------------------- MODULE MCPublish -----------------------------
(* Instances of Publish for TLC: the runs of the command line are numbered *)
(* by their place in a set of model values, the publications by 1, 2, ...  *)
EXTENDS Publish, TLC

MCVersion == {1, 2}

Runs == Permutations(Publisher)
=============================================================================
