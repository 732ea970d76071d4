\* Three messages on one modem of any driver, a SIM for two, any two faults.
SPECIFICATION FairSpec
CONSTANTS
    Msgs = {m1, m2, m3}
    NoMsg = NoMsg
    Drivers = {"serial", "zte", "adb"}
    Capacity = 2
    FaultKinds = {"crash", "db", "modem"}
    MaxFaults = 2
INVARIANTS
    NothingLost
    StoredOnce
PROPERTIES
    Collected
CHECK_DEADLOCK FALSE
