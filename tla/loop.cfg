CONSTANTS
    Routes <- AllRoutes
    Controller = "plan"
    MaxAttempts <- TwoEach
    Dependencies <- Chain
    Repeatable = {"draft"}
    Instructions <- TheInstructions
    ModelRoutes <- TheModelRoutes
    Values = {"good", "bad"}
    Cloud = {"polish"}
    Decider = TRUE
    MaxOptions = 3
    Polish = "draft"
    NoRoute = "none"
    Candidates <- TheCandidates
    WriteClass <- LocalAndRemote
    Calls = {"check", "post"}
    CallsOf <- PostRepeatsCheck
    PlannerRetries = 1
    MaxIterations = 6
    MaxModelCalls = 9
    MaxMcpCalls = 3
SPECIFICATION FairSpec
INVARIANTS CompletionIsEarned DependenciesStand BudgetsHold OneActionRuns
PROPERTY Termination
CHECK_DEADLOCK FALSE
