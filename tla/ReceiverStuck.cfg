\* README: receivers key on logId+status and order by occurredAt.
SPECIFICATION PathSpec
CONSTANTS
    d1 = d1
    Msgs = {m1}
    Modems = {d1}
    Slots = {s1}
    NoMsg = NoMsg
    NoModem = NoModem
    NoSlot = NoSlot
    Fleets <- OneModem
    MaxAttempts = 3
    MaxStalled = 1
    Subscribed = {m1}
    SendIntermediate = TRUE
    UssdModems = {}
    FaultKinds = {"crash"}
    MaxFaults = 1
    MaxCallbacks = 4
    HookAttempts = 1
    MaxLost = 0
    HookConcurrency = 1
    Answers = {"ok"}
INVARIANTS
    ReceiverShowsRow
CHECK_DEADLOCK FALSE
