\* Every command of the file once, in order (-S -e -p, as test_runner.sh), two at a time (-x 2), interrupted up to twice.
CONSTANTS
    KeepActive = 2
    Cnt = 3
    Options <- SuiteOnly
    BadCmds = {}
    ForkMayFail = FALSE
    Pids = {p1, p2, p3}
    PanPid = pan
    Outcomes = {"exit0", "exit1", "exit130", "signaled"}
    Daemons = TRUE
    UserSignals = {"INT"}
    MaxSignals = 2
    SaFlags <- NoFlags
SYMMETRY Symm
SPECIFICATION Spec
INVARIANTS TypeOK SlotAccounting ZooExact NeverGivesUp NoTestLeftBehind AtMostOneUnrecorded StartsHonoured
