\* Two processes, I/O errors included.
CONSTANTS
    Clients = {a, b}
    Ops <- MCOps
    Accepts <- MCAccepts
    SeekMayFail = TRUE
    MaxLines = 3
SPECIFICATION FairSpec
INVARIANTS ScanIsCurrent
PROPERTIES Atomic NoLineLost CallsReturn
