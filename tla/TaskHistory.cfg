SPECIFICATION HistorySpec
CONSTANTS
    Agents = {a1, a2}
    Tasks = {"release", "docs"}
    Priority <- MCPriority
    Margin = 10
    CautionPercent = 50
    BaseCost = 2
    Readings <- MCReadings
    EndLevels = {10}
    Capacities = {1000, 2000}
    EstimatedTokens = {400}
    UsedTokens = {200, 800}
    FixedThresholds = {15, 20}
    MaxCost = 50
    NumFolds = 2
    MinEvents = 2
    GoodMax = 25
    AcceptableMax = 50
    None = None
    Corrupted = Corrupted
    MaxRecords = 3
    MaxCuts = 1
SYMMETRY Symmetry
CHECK_DEADLOCK FALSE
INVARIANTS
    HistoryTypeOK
    LossIsReported
    ReportsAgree
    FoldsAreChronological
    
