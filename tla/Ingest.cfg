\* A designation, its revocation, a fork and two recoveries, submitted in any part, and a
\* delegated controller whose submission lacks a message, or carries replies, a stranger's
\* publication or a change of version: in any order, to the answer.
CONSTANTS
  Aid <- MCAid
  Event <- MCEvent
  AnchorStands = TRUE
  Claimed = "A"
  Submission <- MCSubmission
SPECIFICATION Spec
CHECK_DEADLOCK FALSE
INVARIANTS
  TypeOK
  DrainIsComplete
  OrderIsIrrelevant
  ForkVerdict
  RevocationNotHidden
  NothingDropped
  HostedReingests
PROPERTY
  IngestEnds
