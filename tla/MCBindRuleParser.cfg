CONSTANTS
    MaxTokens = 7
SPECIFICATION Spec
INVARIANTS
    OperandsMatchOperators
    FaultsOnlyOnEmptyGroup
    ReadsBack
PROPERTIES
    ImplementsGrammar
CHECK_DEADLOCK FALSE
