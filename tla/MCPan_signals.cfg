\* Signals at every point of the code, under every value of sa_flags.
CONSTANTS
    KeepActive = 2
    Cnt = 2
    Options <- Finite
    BadCmds = {}
    ForkMayFail = FALSE
    Pids = {p1, p2}
    PanPid = pan
    Outcomes = {"exit0", "exit1", "signaled"}
    Daemons = FALSE
    UserSignals = {"INT", "USR1", "USR2"}
    MaxSignals = 2
    SaFlags <- AllFlags
SYMMETRY Symm
SPECIFICATION Spec
INVARIANTS AtMostOneLateStart FailuresCounted FailuresLogged
