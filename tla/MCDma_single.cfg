\* Every single channel test and its scenario, on one and on two processors.
CONSTANTS
    NoSlot = NoSlot
    Slots <- MCSlots
    Tests = {"poll", "prio_high", "prio_low", "stop", "stop_twice", "stop_invalid", "selflink", "threads"}
    MaxCount = 3
    ThreadCount = 1
    TRANSFER_COUNT <- MCTransferCount
    POLL_COUNT = 2
SPECIFICATION FairSpec
INVARIANTS TypeOK PassedMeansVerified FailedHasReason StopIsFinal ReleasedOnUnload BuffersOutliveCallbacks ShownIsFinal
PROPERTIES ScenarioEnds
