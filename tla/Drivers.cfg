\* A serial modem: two calls of any kind besides initModem, one of which may find
\* its port closed.  Or a stick or phone: three calls after those of an earlier
\* process.
SPECIFICATION DriversSpec
CONSTANTS
    Kinds = {"single", "multi", "ussd", "read", "ping"}
    MaxCalls = 3
    MaxCloses = 1
    DrainsInQuiet = TRUE
    CloseCancels = TRUE
    Drivers = {"goform", "reqproc", "adb"}
    PhoneParts = 2
    HandlesInOrder = TRUE
    StatusIsOwn = TRUE
    RejectMeansRefused = TRUE
INVARIANTS
    DriversTypeOK
    OwnReply
    NothingSwallowed
    ModeMatches
    FreshReply
    ExpiryCured
PROPERTIES
    ImplementsDriver
    RemoteImplementsDriver
    DriverCallsEnd
CHECK_DEADLOCK FALSE
