SPECIFICATION Spec
CONSTANTS
    Margin = 3
    CautionPercent = 50
    Levels = {2, 13, 40, 100}
    Tasks <- MCTasks
    Required <- MCRequired
    Complexity <- MCComplexity
    Understood <- MCUnderstood
    Classified <- MCClassified
    Progress = {50, 90}
    StaleAfter = 2
    MaxLatency = 1
    None = None
INVARIANTS
    TypeOK
    EstimatedWasTrue
    SafeWasAffordable
    DecisionIsCoherent
PROPERTIES
    AgingNeverLoosens
