\* Any one fault; two attempts to send, so that there is a `retrying` to arrive
\* late, twice or after the final status; callbacks delivered two at a time.
SPECIFICATION PathSpec
CONSTANTS
    d1 = d1
    Msgs = {m1}
    Modems = {d1}
    Slots = {s1}
    NoMsg = NoMsg
    NoModem = NoModem
    NoSlot = NoSlot
    Fleets <- OneModem
    MaxAttempts = 2
    MaxStalled = 1
    Subscribed = {m1}
    SendIntermediate = TRUE
    UssdModems = {}
    FaultKinds = {"crash", "lock", "db", "redis"}
    MaxFaults = 1
    MaxCallbacks = 3
    HookAttempts = 1
    HookConcurrency = 2
    MaxLost = 0
    Answers = {"ok", "busy"}
INVARIANTS
    ReceiverShowsOutcome
    ReceiverFollowsRow
CHECK_DEADLOCK FALSE
