CONSTANTS
    Entries = {"guide", "enhanced"}
    Texts <- Inputs
    MaxChunks = 3
    Deep = TRUE
SPECIFICATION CodecSpec
INVARIANTS
    GrammarAccepted
    LaxOnlyFor
    ReadsBack
    RoundTrips
PROPERTIES
    Answers
CHECK_DEADLOCK FALSE
