\* Two fleets, one with each driver; every text once, two of them with a restart, modems
\* that come and go and a sent.json in any state.
SPECIFICATION Spec
CONSTANTS
    s1 = s1
    z1 = z1
    a1 = a1
    Octets = 14
    GsmSingle = 16
    GsmPart = 9
    UcsSingle = 7
    UcsPart = 4
    MaxSegments = 3
    LegacyIds = {e1, e2}
    Modems = {s1, z1, a1}
    NoModem = NoModem
    DriverOf <- Kind
    Fleets <- TwoFleets
    Texts <- AllTexts
    Disturbed <- Samples
    Numbers <- TwoNumbers
    Row = row
    MaxAttempts = 3
    MaxCrashes = 1
INVARIANTS
    ImportSafe
    AcceptedFits
    Spread
    Readable
CHECK_DEADLOCK FALSE
