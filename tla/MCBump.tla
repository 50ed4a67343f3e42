------------------------------ MODULE MCBump ------------------------------
EXTENDS Bump, TLC

OptSuite == [s |-> -1, sequential |-> TRUE, has_brakes |-> FALSE, fork_in_road |-> FALSE,
             track_exit_stats |-> TRUE, fmt_print |-> TRUE]
SuiteOnly == {OptSuite}
AllFlags  == SUBSET {"RESTART", "RESETHAND"}
============================================================================
