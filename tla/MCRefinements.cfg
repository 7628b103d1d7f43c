CONSTANTS
    OIDs = {o1, o2}
    person = person
    groupOfNames = groupOfNames
    groupofnames = groupofnames
    Descrs <- MCDescrs
    Lower <- MCLower
    Lists <- MCLists
    Odd = Odd
    Malformed = Malformed
    Empty = Empty
    Refused = Refused
    MaxRefs = 2
    MaxArguments = 4
SPECIFICATION Spec
INVARIANTS
    RegisteredTogether
    PushKeeps
PROPERTIES
    VerificationIsLostFor
