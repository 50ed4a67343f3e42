\* bump is used as meant: on the name of a pan.
CONSTANTS
    KeepActive = 2
    Cnt = 2
    Options <- SuiteOnly
    BadCmds = {}
    ForkMayFail = FALSE
    Pids = {p1, p2}
    PanPid = pan
    Outcomes = {"exit0", "exit1"}
    Daemons = TRUE
    UserSignals = {}
    MaxSignals = 2
    SaFlags <- AllFlags
    BumpTags = {"pan"}
    BumpSig = "INT"
    MaxBumps = 2
SPECIFICATION BFairSpec
INVARIANTS ZooExact
PROPERTIES StaleLineCleared
