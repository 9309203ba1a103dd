CONSTANTS
    SignalOrder <- TheSignals
    Parts <- TheParts
    Null = Null
    MaxInteger = 4
    Designs <- TwiceNamed
    Results = {0, 1}
    MaxIterations = 8
    MaxWallTime = 9
    Ttl = 1
    MaxTime = 1
    MaxDeltas = 9
    MaxNesting = 2
SPECIFICATION Spec
PROPERTY BarrierCounts
CHECK_DEADLOCK FALSE
