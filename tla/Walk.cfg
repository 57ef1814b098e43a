\* Every stream of four parts, and every publication of four messages.
CONSTANTS
    MaxParts = 4
    Streams <- MCStreams
    Published <- MCPublished
SPECIFICATION Spec
CHECK_DEADLOCK FALSE
INVARIANTS
    NothingUnread
    SwitchesAreAnnounced
    JoinedIsReadBack
