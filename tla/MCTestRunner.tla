--------------------------- MODULE MCTestRunner ---------------------------
(* pan as test_runner.sh calls it: -e -S and -p.                           *)
EXTENDS TestRunner, TLC

SuiteOptions ==
    {[s |-> -1, sequential |-> TRUE, has_brakes |-> FALSE, fork_in_road |-> FALSE,
      track_exit_stats |-> TRUE, fmt_print |-> TRUE]}

AllFlags     == SUBSET {"RESTART", "RESETHAND"}
NoFlags      == {{}}
============================================================================
