------------------------------- MODULE MCDma -------------------------------
(* Small instances of DmaTests.                                            *)
EXTENDS DmaTests

CONSTANTS
    MaxCount,      \* length of the longest transfers[]
    ThreadCount    \* length of the two of dma_thread_access.c

MCSlots == Threads \X (0 .. MaxCount - 1)

MCTransferCount ==
    [x \in AllTests |->
        IF x = "threads" THEN ThreadCount ELSE IF x = "stop_invalid" THEN 2 ELSE MaxCount]
=============================================================================
