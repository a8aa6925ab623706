SPECIFICATION Spec
CHECK_DEADLOCK FALSE
CONSTANTS
    Tasks = {"feature", "tidy"}
    Calls = {"auto_1"}
    Units <- MCUnits
    Plan <- MCPlan
    Priority <- MCPriority
    Cost <- MCCost
    CostPerUnit = 5
    BaseCost = 2
    Margin = 3
    CautionPercent = 50
    Budgets = {2, 6, 12, 25, 27, 100}
    NoCheckpoint = NoCheckpoint
    Corrupt = Corrupt
    None = None
    MaxCommands = 5
PROPERTY
    DecoratedWorkIsCalled
