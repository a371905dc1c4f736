CONSTANTS
    Trees <- MCTrees
    Ids = {i1, i2, i3}
    Clients = {c1, c2}
    RootName = RootName
    Base = Base
    Top = Top
    Faults = TRUE
SPECIFICATION Spec
SYMMETRY MCSymmetry
CHECK_DEADLOCK FALSE
INVARIANTS
    PlanCovers
    SkipsAreStored
    RightPlace
    
