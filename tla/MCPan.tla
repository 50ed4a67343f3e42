------------------------------- MODULE MCPan -------------------------------
(* Command lines of pan for the runs of PanProperties.                     *)
EXTENDS PanProperties, TLC

Opt(n, seq, brakes, road, track, fmt) ==
    [s |-> n, sequential |-> seq, has_brakes |-> brakes,
     fork_in_road |-> road, track_exit_stats |-> track, fmt_print |-> fmt]

\* "-S -e -p", what the suites' test_runner.sh builds on; "-s 3 -A -p"; "-y -A"; "-s 0"
OptSuite  == Opt(-1, TRUE, FALSE, FALSE, TRUE, TRUE)
OptAll    == Opt(3, FALSE, TRUE, FALSE, TRUE, TRUE)
OptIdle   == Opt(-1, TRUE, TRUE, TRUE, TRUE, TRUE)
OptForever == Opt(0, TRUE, FALSE, FALSE, FALSE, FALSE)

SuiteOnly == {OptSuite}
Finite    == {OptSuite, OptAll, OptIdle}
Ending    == {OptSuite, OptIdle, OptForever}
AllFlags  == SUBSET {"RESTART", "RESETHAND"}
NoFlags   == {{}}
Restarts  == {{}, {"RESTART"}}
Symm      == Permutations(Pids)
============================================================================
