\* Three objects are enough for a shared child, a two-step cycle and a self
\* push beside an item; two children a slice for order and a prefix.
SPECIFICATION Spec
CONSTANTS
    Objs = {o1, o2, o3}
    Keywords = {k1, k2}
    DNKeywords = {k1}
    Flags = {}
    MaxKids = 2
    NoObj = NoObj
    NoKw = NoKw
    NoRule = NoRule
    ZeroItem = ZeroItem
    ZeroAnd = ZeroAnd
    ZeroOr = ZeroOr
    ZeroNot = ZeroNot
SYMMETRY Sym
CHECK_DEADLOCK FALSE
INVARIANTS
    NotHoldsOneRule
    FaultsHaveACause
PROPERTIES
    CyclesCloseOverValidRules
    ValidityIsLostFor

