CONSTANTS
    SignalOrder <- TheSignals
    Parts <- TheParts
    Null = Null
    MaxInteger = 4
    Designs <- AllDesigns
    Results = {0, 1}
    MaxIterations = 8
    MaxWallTime = 9
    Ttl = 1
    MaxTime = 9
    MaxDeltas = 9
    MaxNesting = 2
SPECIFICATION FairSpec
INVARIANTS TypeOK NoLostWakeup OnlyHandlersOfLateProcesses ReleasesAreAllowed TicksKeepTime
PROPERTIES CommitsAreDeltas BarrierCounts RunEnds
CHECK_DEADLOCK FALSE
