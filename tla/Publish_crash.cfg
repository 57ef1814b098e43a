\* One operator, one run after another, each step able to fail.
CONSTANTS
  Publisher = {p1, p2, p3}
  Version <- MCVersion
  Overlap = FALSE
  NewerOnly = TRUE
  Fault = {"refuse", "make", "write", "sync", "replace", "print", "unlink", "kill"}
  MaxOutage = 1
SPECIFICATION Spec
SYMMETRY Runs
CHECK_DEADLOCK FALSE
INVARIANTS
  TypeOK
  WholeArtifacts
  EvidenceNotOlder
  ExitZeroHostsBoth
  FailedWritePublishesNothing
  NoLitter
PROPERTIES
  NeverWithdrawn
