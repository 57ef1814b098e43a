\* A resolver fetching at any moment of two runs of the command line.
CONSTANTS
  Publisher = {p1, p2}
  Version <- MCVersion
  Overlap = FALSE
  NewerOnly = TRUE
  Fault = {"sync", "replace", "kill"}
  MaxOutage = 0
  Resolver = {r1}
SPECIFICATION RSpec
CHECK_DEADLOCK FALSE
INVARIANTS
  AcceptedWasHosted
PROPERTIES
  ResolversCatchUp
