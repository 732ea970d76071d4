\* README: modemId is the modem that carried or last attempted the message.
SPECIFICATION Spec
CONSTANTS
    d1 = d1
    d2 = d2
    Msgs = {m1}
    Modems = {d1, d2}
    Slots = {s1, s2}
    NoMsg = NoMsg
    NoModem = NoModem
    NoSlot = NoSlot
    Fleets <- BothModems
    MaxAttempts = 2
    MaxStalled = 1
    Subscribed = {}
    SendIntermediate = FALSE
    UssdModems = {}
    FaultKinds = {}
    MaxFaults = 0
INVARIANTS
    UnconfirmedNamesModem
CHECK_DEADLOCK FALSE
