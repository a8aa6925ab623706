SPECIFICATION Spec
CONSTANTS
    Agents = {a1, a2}
    Files = {code, notes}
    Contents = {before, after}
    Gone = Gone
    None = None
    Words = Words
    Broken = Broken
    MaxChanges = 4
    MaxSnapshots = 2
    MaxCuts = 1
SYMMETRY MCSymmetry
CHECK_DEADLOCK FALSE
INVARIANTS
    CutsCostOneEach
    LatestIsLastCreated
PROPERTIES
    RollbackRestores
