CONSTANTS
    Names = {}
    Topics = {}
    Payloads = {}
    NoPayload = NoPayload
    Operations = {"act"}
    Requests <- OneRemoteWrite
    MaxTtl = 2
    Ttl = 1
    MaxRecords = 2
    MaxEvents = 0
    MaxApprovals = 0
    MaxTime = 0
    MaxCrashes = 1
SPECIFICATION Spec
PROPERTY TimeoutIsUncertain
CHECK_DEADLOCK FALSE
