CONSTANTS
    p = p
    q = q
    Items = {p, q}
    Chars <- MCChars
    Texts <- Inputs
    MaxChunks = 1
    Forms <- MCForms
SPECIFICATION CodecSpec
INVARIANTS
    InvalidIsAnError
CHECK_DEADLOCK FALSE
