CONSTANTS
    Names = {}
    Topics = {}
    Payloads = {}
    NoPayload = NoPayload
    Operations = {"act"}
    Requests <- TwoVariants
    MaxTtl = 2
    Ttl = 1
    MaxRecords = 3
    MaxEvents = 0
    MaxApprovals = 3
    MaxTime = 0
    MaxCrashes = 1
SPECIFICATION Spec
INVARIANT NoUnresolvedVariants
CHECK_DEADLOCK FALSE
