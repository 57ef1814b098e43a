\* One run after another, where a rename may fail.
CONSTANTS
  Publisher = {p1, p2}
  Version <- MCVersion
  Overlap = FALSE
  NewerOnly = TRUE
  Fault = {"replace"}
  MaxOutage = 0
SPECIFICATION Spec
SYMMETRY Runs
CHECK_DEADLOCK FALSE
INVARIANT
  NonzeroExitPublishesNothing
