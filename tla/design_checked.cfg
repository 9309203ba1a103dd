CONSTANTS
    SignalOrder <- TheSignals
    Parts <- TheParts
    Null = Null
    MaxInteger = 3
    Designs <- TheDesigns
    Sources <- TheSources
    Routes <- TheRoutes
    DefaultRoute = "plan"
    Results = {0, 1}
    MaxIterations = 5
    MaxWallTime = 4
    Ttl = 1
    MaxTime = 1
    MaxDeltas = 6
    MaxNesting = 2
SPECIFICATION CheckedSpec
INVARIANTS FlowsStayLabeled CallsStayCleared GuardNeverRefuses RunsAreFirings NetsAreSound DenialsMatchTheChecker CausesAreDrawn LoopFreeDesignsSettle
CHECK_DEADLOCK FALSE
