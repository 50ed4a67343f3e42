--------------------------- MODULE PanProperties ---------------------------
(***************************************************************************)
(* What pan promises, stated over Pan.tla.                                 *)
(***************************************************************************)
EXTENDS Pan

Labels == Startup \cup Terminal \cup
          {"start", "fork", "read", "waitpid", "mark", "signals", "test", "reset_rec", "kill", "reset_send", "reap",
           "wait", "blocked", "clear", "orphan", "after", "round", "drain", "nap"}

(* The variables of main() and of the signal handler keep to the values    *)
(* the code can give them.                                                 *)
ControlType == /\ pc \in Labels /\ draining \in BOOLEAN
               /\ i \in 0 .. KeepActive /\ cpid \in Pids \cup {0} /\ c \in Cmds
OptType     == opt \in Options /\ sa_flags \in SaFlags /\ dfl \subseteq Signals
SlotType    == /\ running \in [Slots -> [pgrp : Pids \cup {0}, stopping : BOOLEAN]]
               /\ num_active \in Int
SchedType   == /\ starts \in Int /\ stop \in BOOLEAN
               /\ go_idle \in BOOLEAN /\ fork_in_road \in BOOLEAN
ResultType  == err \in BOOLEAN /\ exit_stat \in Nat /\ failcnt \in Nat
SigType     == /\ rec_signal \in Signals \cup {None}
               /\ send_signal \in Signals \cup {None} /\ lastsent \in Signals \cup {None}
Groups      == [leader : AllOutcomes \cup {"run", "doomed", None}, others : BOOLEAN]
ProcType    == proc \in [Pids -> Groups] /\ orphans \subseteq Pids
EnvType     == stopfile \in BOOLEAN /\ sigs_left \in Nat
HistType    == hist \in [ran : [Cmds -> Nat], started : Nat, refused : BOOLEAN,
                         seen : BOOLEAN, late : Nat, failed : Nat, interrupted : BOOLEAN,
                         dropped : SUBSET Pids, strays : Nat, missed : Nat]
ZooLines    == [pid : Pids \cup {PanPid} \cup Slots \cup {-1},
                tag : {"#", "pan", "tag", "panorphan"}]
ZooType     == zoo \in Seq(ZooLines)

TypeOK == /\ ControlType /\ OptType /\ SlotType /\ SchedType /\ ResultType /\ SigType
          /\ ProcType /\ EnvType /\ HistType /\ ZooType

(* A signal without SA_RESTART during the read() or the waitpid() of       *)
(* run_child() makes pan drop a child that is running.  A dropped child    *)
(* that a wait() of check_pids() returns later is a stray: it was never    *)
(* counted in num_active and is counted out all the same.                  *)
Dropped == hist.dropped
NoStray == hist.strays = 0

(* num_active is the number of used slots less one for every stray (the    *)
(* child being recorded is counted last), and the unreaped children that   *)
(* pan has not dropped are exactly the groups in the slots, one each, and  *)
(* the child that run_child() is looking after.                            *)
InRunChild == IF pc \in {"read", "waitpid"} THEN {cpid} \ Dropped ELSE {}

SlotAccounting ==
    pc # "killed" =>
        /\ Cardinality(UsedSlots) = num_active + hist.strays + (IF pc = "mark" THEN 1 ELSE 0)
        /\ \A s, t \in UsedSlots : running[s].pgrp = running[t].pgrp => s = t
        /\ Children \ Dropped = {running[s].pgrp : s \in UsedSlots} \cup InRunChild

(* The zoo lists pan, the children it has not dropped and its orphaned     *)
(* groups, each once, and nothing else: no line is lost or left behind,    *)
(* whatever the order of deaths, and a pan that has had no stray leaves an *)
(* empty file.                                                             *)
Unmarked == IF pc \in {"read", "waitpid", "mark"} THEN {cpid} ELSE {}
Listed   == Children \ (Dropped \cup Unmarked)

Recorded ==
    (IF pc = "done" THEN {} ELSE {PanPid})
    \cup Listed
    \cup (IF pc = "clear" THEN {cpid} ELSE {})
    \cup orphans

OneLineEach == \A j, k \in DOMAIN zoo \ FreeLines : zoo[j].pid = zoo[k].pid => j = k

ZooExact ==
    pc \notin Startup \cup {"killed"} =>
        Pids_in_zoo = Recorded /\ OneLineEach

(* zoo_clear() always finds the line of a child that pan reaped, so pan    *)
(* never gives up with status 1 in the middle of a run.                    *)
NeverGivesUp == pc # "exit1"

(* When pan ends normally and has had no stray, no process of any test it  *)
(* started is left, but of those it dropped: all children are reaped and   *)
(* every orphaned group is gone.                                           *)
OnlyDroppedLeft  == \A p \in Pids : GroupExists(p) => p \in Dropped
NoTestLeftBehind == pc = "done" /\ NoStray => OnlyDroppedLeft

(* "If the system crashes, we should be able to look at the zoo file to    *)
(* find out what was currently running" (zoolib.c): wherever that happens, *)
(* at most one living group lacks a line (the one just forked, or the one  *)
(* whose leader was just reaped), apart from those that pan dropped.       *)
Unrecorded == {p \in Pids \ Dropped : GroupExists(p) /\ LinesOf(p) = {}}
AtMostOneUnrecorded == Cardinality(Unrecorded) <= 1

(* A run that nobody interrupts starts exactly as many commands as it was  *)
(* asked to, whatever becomes of them, and in sequential mode it goes      *)
(* round the collection: as long as run_child() has not failed, no command *)
(* has been started twice more often than another.                         *)
StartsHonoured ==
    /\ pc = "done" /\ ~hist.interrupted /\ opt.s # 0 =>
          hist.started = InitialStarts(opt)
    /\ opt.sequential /\ ~hist.refused =>
          \A a, b \in Cmds : hist.ran[a] - hist.ran[b] <= 1

(* Once a signal has arrived (and pan is not to restart, -y), at most the  *)
(* one child whose start was already decided is started.                   *)
AtMostOneLateStart == hist.late <= 1

(* With -e every test that exits with a failure status adds to pan's exit  *)
(* status, also one that fails while pan is stopping it, unless pan has    *)
(* dropped the test or has had a stray.                                    *)
FailuresCounted ==
    pc = "done" /\ opt.track_exit_stats /\ NoStray => exit_stat >= hist.failed

(* What the exit status counts as a failure, the -p log calls FAIL, until  *)
(* a stray's failure is counted and not logged.                            *)
FailuresLogged == opt.fmt_print /\ NoStray => exit_stat <= failcnt

(* "exit non-zero if any test exits non-zero" (pan.c, -e).                 *)
FailuresTold ==
    pc = "done" /\ opt.track_exit_stats /\ hist.failed + hist.missed > 0 => exit_stat > 0

----------------------------------------------------------------------------
(* pan is scheduled.  Tests may run for ever unless FairTests holds, and   *)
(* fork() may fail for ever unless FairForks holds.                        *)
FairPan   == WF_vars(PanStep)
FairTests == \A p \in Pids : WF_vars(ChildEnds(p))
FairForks == SF_vars(ForkChild /\ c \notin BadCmds)

PanFairSpec  == Spec /\ FairPan
FairSpec     == Spec /\ FairPan /\ FairTests
ForkFairSpec == FairSpec /\ FairForks

(* If the tests end, a run with a start count ends, unless a stray has put *)
(* num_active out of step.                                                 *)
Terminates == opt.s # 0 => <>(pc \in Terminal \/ ~NoStray)

(* Orphans that ignore every signal do not keep pan: the artificial        *)
(* SIGINTs of the last loop reach SIGKILL from any state of the ratchet.   *)
DrainTerminates == draining ~> pc \in Terminal

(* PAN_STOP_FILE ends a run without a start count, if there is no stray.   *)
StopFileHonoured == (stopfile /\ pc \notin Terminal) ~> (pc \in Terminal \/ ~NoStray)

(* Idling (-y) ends: scheduling resumes, or pan stops, or has had a stray. *)
IdleEnds == go_idle ~> (~go_idle \/ pc \in Terminal \/ ~NoStray)

(* "Ctrl+c stops and cleans up for you": pan passes a SIGINT on to the     *)
(* tests, also to one that would not end by itself.                        *)
InterruptReaches ==
    \A s \in Slots : (rec_signal = "INT" /\ ~IsFree(s)) ~> (IsFree(s) \/ running[s].stopping)
============================================================================
