\* Parts of seven worlds of registries, in many orders.
CONSTANTS
    Aid = 1
    Submissions <- MCSubmissions
SPECIFICATION Spec
CHECK_DEADLOCK FALSE
INVARIANTS
    RevocationNotHidden
    DesignationsInOrder
    NothingDropped
    HostedVetsAlike
