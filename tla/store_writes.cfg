CONSTANTS
    Names = {n1}
    Topics = {t1}
    Payloads = {p1}
    NoPayload = NoPayload
    Operations = {"act"}
    Requests <- RemoteAndLocal
    MaxTtl = 2
    Ttl = 1
    MaxRecords = 3
    MaxEvents = 1
    MaxApprovals = 0
    MaxTime = 0
    MaxCrashes = 1
SPECIFICATION FairSpec
INVARIANTS CheckpointsRestore JournalIsTrue DeliveredAtMostOnce
PROPERTIES RemoteWritesHappenOnce SettledStaysSettled UnresolvedIsSettled
CHECK_DEADLOCK FALSE
