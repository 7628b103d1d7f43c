CONSTANTS
    Texts <- Inputs
    Receivers <- MCReceivers
SPECIFICATION CodecSpec
INVARIANTS
    FaultsOnlyOnOpenBase
    SpellingsAccepted
    ReadsBack
    RoundTrips
CHECK_DEADLOCK FALSE
