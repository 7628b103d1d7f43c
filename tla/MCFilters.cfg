CONSTANTS
    p = p
    q = q
    Items = {p, q}
    Chars <- MCChars
    Texts <- Inputs
    MaxChunks = 4
    Forms <- MCForms
SPECIFICATION CodecSpec
INVARIANTS
    FaultsOnlyOnHollow
    GrammarAccepted
    KeepsSkeleton
    ReadsBack
    RoundTrips
PROPERTIES
    Answers
CHECK_DEADLOCK FALSE
