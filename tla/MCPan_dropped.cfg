\* A SIGINT while run_child() waits for the exec: the failure of the test is not told.
CONSTANTS
    KeepActive = 1
    Cnt = 2
    Options <- SuiteOnly
    BadCmds = {}
    ForkMayFail = FALSE
    Pids = {p1, p2}
    PanPid = pan
    Outcomes = {"exit0", "exit1", "signaled"}
    Daemons = FALSE
    UserSignals = {"INT"}
    MaxSignals = 1
    SaFlags <- NoFlags
SPECIFICATION Spec
INVARIANTS FailuresTold
