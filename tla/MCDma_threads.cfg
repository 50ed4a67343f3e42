\* dma_thread_access.c: two threads with two transfers each.
CONSTANTS
    NoSlot = NoSlot
    Slots <- MCSlots
    Tests = {"threads"}
    MaxCount = 2
    ThreadCount = 2
    TRANSFER_COUNT <- MCTransferCount
    POLL_COUNT = 2
SPECIFICATION FairSpec
INVARIANTS ThreadsPassedMeansVerified
