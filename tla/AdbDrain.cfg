\* README: a read deletes only the messages that were read.
SPECIFICATION Spec
CONSTANTS
    Msgs = {m1, m2}
    NoMsg = NoMsg
    Drivers = {"adb"}
    Capacity = 1
    FaultKinds = {"modem", "db"}
    MaxFaults = 2
INVARIANTS
    DeletesOnlyRead
CHECK_DEADLOCK FALSE
