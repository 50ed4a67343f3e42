\* Runs end if their tests do: with a start count, idling (-y), and by PAN_STOP_FILE; a bad command, forks that fail.
CONSTANTS
    KeepActive = 2
    Cnt = 2
    Options <- Ending
    BadCmds = {1}
    ForkMayFail = TRUE
    Pids = {p1, p2, p3}
    PanPid = pan
    Outcomes = {"exit0", "exit1"}
    Daemons = FALSE
    UserSignals = {"INT", "USR1", "ALRM"}
    MaxSignals = 1
    SaFlags <- Restarts
SPECIFICATION ForkFairSpec
PROPERTIES Terminates IdleEnds StopFileHonoured
