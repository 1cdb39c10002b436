SPECIFICATION Spec
CONSTANTS
    Nodes <- Chain
    MaxAncestors = 2
    MaxChanges = 1
    MayFail = TRUE
    MaxLists = 10
INVARIANTS
    TypeOK
    AbsenceIsReal
    ClaimsAreReal
    ExactWhenListable
    ProbesAreBounded
