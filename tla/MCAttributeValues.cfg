SPECIFICATION AttributeValuesSpec
CONSTANTS
    Handles <- MCHandles
    Cells <- MCCells
    Texts <- MCTexts
    ByteBits = 1
    NativeBytes = 2
    MaxMagnitude = 3
    BitHandles <- MCHandles
    Arrays <- MCCells
    BitsPerByte = 2
    MaxBits = 4
    Rules = {"caseIgnore", "caseExact", "ia5", "list"}
    Calls <- Inputs
    MaxValue = 5
    MaxAssertion = 4
    MaxOdd = 3
INVARIANTS
    RoundTrips
    PaddingIsClear
    FirstOccurrenceSuffices
    ReadsBack
PROPERTIES
    OnlyCopiesFollow
CHECK_DEADLOCK FALSE
