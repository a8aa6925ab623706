SPECIFICATION Spec
CONSTANTS
    Procs = {p1, p2}
    Operations <- MCOperations
    Weights <- MCWeights
    UnknownWeight = 2
    Repeats = {1, 3}
    Penalty = 5
    Initial = 100
    ApprovalThreshold = 40
    DenyThreshold = 10
    Absent = Absent
    Empty = Empty
    Torn = Torn
    MaxRecords = 3
SYMMETRY MCSymmetry
INVARIANTS
    DocumentsBalance
    SessionAccounted
    PermissionsTighten
PROPERTY
    UnreadableStaysClosed
