\* Each part of the accepted state varied: thresholds, replies in every order, delegations,
\* aliases. Every text of four symbols and many longer; and after a first publication a
\* second, of a text that is a DID or of a DID nobody parsed.
CONSTANTS
    Aid = "Eaid"
    Name = "host"
    MaxIds = 3
    Inputs <- MCInputs
    Texts <- MCTexts
    Later <- FewTexts
    Built <- MCBuilt
    Addresses <- MCAddresses
    PortDigits = 2
    MaxPlaced = 2
SPECIFICATION ProjectionsSpec
CHECK_DEADLOCK FALSE
INVARIANTS
    ThresholdIsKept
    ServicesAreCurrent
    AliasesAreOfTheSubject
    AcceptsTheGrammar
    ReadsAsWritten
    PlacesAreTheirOwn
