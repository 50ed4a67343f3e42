---------------------------- MODULE TestRunner ----------------------------
(***************************************************************************)
(* The script that every suite is started with (test_runner.sh; the copy   *)
(* of the dma suite) around the pan that it runs: check the set-up, run    *)
(* pan, turn its exit status into a verdict, remove the files of the run.  *)
(* BugRunInBackground and BugStatusLost are mistakes that the properties   *)
(* are known to catch.                                                     *)
(***************************************************************************)
EXTENDS PanProperties

CONSTANT OO_LOG      \* -o: the output of pan goes through tee

ASSUME LogAssumption == OO_LOG \in BOOLEAN

VARIABLES rpc, VALUE    \* place in the script; its exit status

runnerVars == <<rpc, VALUE>>
rvars      == <<vars, runnerVars>>

Quiescent == \A p \in Pids : ~GroupExists(p)

RInit == Init /\ rpc = "sanity_check" /\ VALUE = 0

(* setup() and sanity_check() prepare the run or die(); die() calls        *)
(* usage(), which exits with 0 before die() comes to its own exit 1.       *)
SanityCheck ==
    /\ rpc = "sanity_check"
    /\ rpc' \in {"pan", "trap"}
    /\ UNCHANGED <<vars, VALUE>>

(* "$PAN_COMMAND" is over when pan is; "$PAN_COMMAND|tee" only when tee    *)
(* has seen the end of its input, which pan's tests have inherited.        *)
BugRunInBackground == TRUE
CommandOver == pc \in Terminal /\ (OO_LOG => Quiescent)

(* $? is pan's exit status, or in a pipeline that of tee.                  *)
BugStatusLost == 0
ShellStatus ==
    IF OO_LOG THEN 0
    ELSE IF pc = "done" THEN ExitCode ELSE 1

PanReported ==
    /\ rpc = "pan"
    /\ CommandOver
    /\ VALUE' = IF ShellStatus = 0 THEN 0 ELSE 1
    /\ rpc' = "cleanup"
    /\ UNCHANGED vars

(* cleanup() is called by main() and again by the trap on exit.            *)
cleanup ==
    /\ rpc \in {"cleanup", "trap"}
    /\ rpc' = IF rpc = "cleanup" THEN "trap" ELSE "gone"
    /\ UNCHANGED <<vars, VALUE>>

(* pan runs as a child of the script; its tests may outlive it.            *)
PanRuns == (rpc = "pan" \/ pc \in Terminal) /\ Next /\ UNCHANGED runnerVars

Gone == rpc = "gone" /\ UNCHANGED rvars

RNext == SanityCheck \/ PanReported \/ cleanup \/ PanRuns \/ Gone

RSpec == RInit /\ [][RNext]_rvars

(* pan is scheduled; its tests and the script need not be.                 *)
RFairSpec == RSpec /\ WF_rvars(PanStep /\ UNCHANGED runnerVars)

(* "pan reported all tests PASS": the script exits with 0 only if no test  *)
(* exited with a failure status, but for the tests that pan has dropped.   *)
VerdictTold == rpc = "gone" /\ VALUE = 0 /\ NoStray => hist.failed = 0

(* "Ctrl+c stops and cleans up for you": the script removes the test       *)
(* directory, the temporary directory and the zoo only when no test is     *)
(* running in them any more but the ones that pan has dropped, unless      *)
(* SA_RESETHAND lets a signal kill pan or dropping a test did.             *)
DiedDropping == pc = "killed" /\ Dropped # {}

CleanAfterTests ==
    /\ "RESETHAND" \notin sa_flags /\ NoStray /\ ~DiedDropping
    /\ rpc \in {"cleanup", "trap", "gone"}
    => OnlyDroppedLeft
============================================================================
