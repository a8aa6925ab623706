SPECIFICATION Spec
CONSTANTS
    Models <- MCModels
    NoModel = "none"
    Foreign = "unlisted"
    Providers = {"anthropic", "openai", "mock"}
    Adapters = {"anthropic", "openai"}
    Features <- MCFeatures
    Catalog <- MCCatalog
    Requests <- MCRequests
    Facades <- MCFacades
    InputCounts <- MCInputCounts
    OutputCounts <- MCOutputCounts
INVARIANTS
    PlannedModelsFit
    BudgetConserved
    LedgerFollowsAnswers
    OneOverrunAtMost
    TraceTellsTheRun
PROPERTIES
    RetryMakesProgress
    RunEnds
    ImplementsBoundedRun
