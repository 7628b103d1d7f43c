\* Two objects of each kind, so that they can be shared or not; of the three rights
\* "all" stands for two; one bit has no name.
CONSTANTS
    Perms = {p1, p2}
    Rules = {b1, b2}
    PBRs = {o1, o2}
    Insts = {i1}
    Named = {read, write, proxy}
    Proxy = proxy
    Unnamed = {bit10}
    NoPBR = NoPBR
    NoInst = NoInst
    MaxItems = 2
SPECIFICATION Spec
SYMMETRY Sym
CONSTRAINT FewItems
CHECK_DEADLOCK FALSE
INVARIANTS
    RightsReadBack
PROPERTIES
    AcceptedIsComplete
    ValidityIsLostFor

