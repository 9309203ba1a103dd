CONSTANTS
    Names = {}
    Topics = {}
    Payloads = {}
    NoPayload = NoPayload
    Operations = {"act", "drop"}
    Requests <- ApprovedWrites
    MaxTtl = 2
    Ttl = 1
    MaxRecords = 2
    MaxEvents = 0
    MaxApprovals = 2
    MaxTime = 2
    MaxCrashes = 1
SPECIFICATION Spec
INVARIANT EachRequestSpentAGrant
PROPERTY DispatchNeedsLiveGrant
CHECK_DEADLOCK FALSE
