\* One message, every kind of fault, a fleet that may shrink at a restart.
SPECIFICATION FairSpec
CONSTANTS
    d1 = d1
    d2 = d2
    Msgs = {m1}
    Modems = {d1, d2}
    Slots = {s1, s2}
    NoMsg = NoMsg
    NoModem = NoModem
    NoSlot = NoSlot
    Fleets <- Refitted
    MaxAttempts = 2
    MaxStalled = 1
    Subscribed = {m1}
    SendIntermediate = TRUE
    UssdModems = {d1}
    FaultKinds = {"crash", "lock", "db", "redis"}
    MaxFaults = 2
INVARIANTS
    TypeOK
    NoAvoidableDuplicate
    FailedMeansUnsent
    RunsBounded
    TerminalCallbackLast
    OneSendPerModem
    OutcomeNamesModem
PROPERTIES
    TerminalRowStable
    UnconfirmedNotRetried
    ImplementsContract
    JobEnds
    Settles
CHECK_DEADLOCK FALSE
