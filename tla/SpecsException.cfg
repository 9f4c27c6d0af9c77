SPECIFICATION FairSpec
CONSTANT MaxDuWrites = 2
INVARIANTS
    SpecsTypeOK
    NothingLeaks
PROPERTIES
    IllegalHasCause
    ViolationAnswered
