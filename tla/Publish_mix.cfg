\* Two runs for one DID at the same time, publishing the newer stream second, and nothing fails.
CONSTANTS
  Publisher = {p1, p2}
  Version <- MCVersion
  Overlap = TRUE
  NewerOnly = TRUE
  Fault = {}
  MaxOutage = 0
SPECIFICATION Spec
SYMMETRY Runs
CHECK_DEADLOCK FALSE
INVARIANT
  SurvivingMix
