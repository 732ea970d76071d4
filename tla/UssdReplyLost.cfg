\* Comment: runUssd returns the +CUSD line, or null on no reply.
SPECIFICATION Spec
CONSTANTS
    Kinds = {"ussd"}
    MaxCalls = 3
    MaxCloses = 0
    DrainsInQuiet = TRUE
    CloseCancels = TRUE
INVARIANTS
    NullMeansNoReply
CHECK_DEADLOCK FALSE
