\* Every text of four symbols and many longer, against the ABNF to the letter.
CONSTANTS
    Texts <- MCTexts
    Later <- FewTexts
    Built <- MCBuilt
    Addresses <- MCAddresses
    PortDigits = 2
    MaxPlaced = 2
SPECIFICATION DidSpec
CHECK_DEADLOCK FALSE
INVARIANT
    AcceptsOnlyTheGrammar
