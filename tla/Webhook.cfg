\* Two callbacks of one message that may overtake each other, a receiver that
\* answers in every way or not at all, one restart and one lost lock.
SPECIFICATION FairSpec
CONSTANTS
    Msgs = {m1}
    Statuses = {"retrying", "sent"}
    MaxCallbacks = 2
    Attempts = 2
    HookStalled = 1
    Concurrency = 1
    Answers = {"ok", "reject", "busy"}
    MaxCrashes = 1
    MaxLost = 1
INVARIANTS
    TypeOK
    ReceiverConverges
    GivenUpOnlyWhenSpent
PROPERTIES
    EveryCallbackEnds
CHECK_DEADLOCK FALSE
