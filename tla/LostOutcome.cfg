\* README: at-least-once callbacks, also across a gateway restart.
SPECIFICATION Spec
CONSTANTS
    d1 = d1
    d2 = d2
    Msgs = {m1}
    Modems = {d1, d2}
    Slots = {s1, s2}
    NoMsg = NoMsg
    NoModem = NoModem
    NoSlot = NoSlot
    Fleets <- BothModems
    MaxAttempts = 2
    MaxStalled = 1
    Subscribed = {m1}
    SendIntermediate = FALSE
    UssdModems = {}
    FaultKinds = {"crash"}
    MaxFaults = 1
INVARIANTS
    OutcomeReported
CHECK_DEADLOCK FALSE
