\* Logs with recoveries, migrations and delegations, and databases with one thing wrong.
CONSTANTS
    Aid = "d"
    Witness = {1, 2}
    Stores <- MCStores
SPECIFICATION Spec
CHECK_DEADLOCK FALSE
INVARIANTS
    ReceiptsAreTheWitnesses
    CountedReaderReadsAll
    DelegatorsComeFirst
