CONSTANTS
    Names = {n1}
    Topics = {t1}
    Payloads = {p1, p2}
    NoPayload = NoPayload
    Operations = {act, plan}
    Requests = {}
    MaxTtl = 1
    MaxGeneration = 1
    MaxHistory = 4
SPECIFICATION Spec
SYMMETRY Symmetry
INVARIANTS RestoreAccepts SerialAttempts BarrierUnique
PROPERTIES LateResultsAreInert BarrierStable
CHECK_DEADLOCK FALSE
