\* Two runs for one DID at the same time, publishing in any order.
CONSTANTS
  Publisher = {p1, p2}
  Version <- MCVersion
  Overlap = TRUE
  NewerOnly = FALSE
  Fault = {"refuse", "make", "write", "sync", "replace", "print", "unlink", "kill"}
  MaxOutage = 1
SPECIFICATION Spec
SYMMETRY Runs
CHECK_DEADLOCK FALSE
PROPERTY
  RefinesHostedArtifacts
