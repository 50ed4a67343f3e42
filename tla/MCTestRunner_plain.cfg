\* The script without -o, interrupted up to twice.
CONSTANTS
    KeepActive = 2
    Cnt = 2
    Options <- SuiteOptions
    BadCmds = {}
    ForkMayFail = FALSE
    Pids = {p1, p2}
    PanPid = pan
    Outcomes = {"exit0", "exit1"}
    Daemons = TRUE
    UserSignals = {"INT"}
    MaxSignals = 2
    SaFlags <- AllFlags
    OO_LOG = FALSE
SPECIFICATION RFairSpec
INVARIANTS VerdictTold CleanAfterTests
PROPERTIES DrainTerminates
