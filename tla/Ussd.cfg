\* A request of either kind, live or queued, and any three faults.
SPECIFICATION FairSpec
CONSTANTS
    Reqs = {r1}
    Slots = {s1, s2}
    NoReq = NoReq
    NoSlot = NoSlot
    MaxAttempts = 2
    MaxStalled = 1
    Polls = 2
    FaultKinds = {"crash", "lock", "db", "redis"}
    MaxFaults = 3
INVARIANTS
    TypeOK
    FailedMeansSilent
    TariffIsPolled
PROPERTIES
    SettledIsFinal
    RequestSettles
CHECK_DEADLOCK FALSE
