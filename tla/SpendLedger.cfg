SPECIFICATION Spec
CONSTANTS
    Agents = {a1, a2}
    Requests = {"edit", "deploy", "secrets"}
    Permission <- MCPermission
    Risk <- MCRisk
    Scope <- MCScope
    Estimate <- MCEstimate
    Actuals = {3}
    Limit = 2
    ActionThreshold = 2
    MaxCalls = 2
    Absent = Absent
    Empty = Empty
    NotMeasured = NotMeasured
    MaxMarkers = 2
    MaxCrashes = 1
    MaxDays = 1
SYMMETRY MCSymmetry
CHECK_DEADLOCK FALSE
INVARIANTS
    SpendIsBounded
    CallsAreAudited
PROPERTIES
    SessionEndsByReset
