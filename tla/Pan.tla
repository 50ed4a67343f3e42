------------------------------- MODULE Pan -------------------------------
(***************************************************************************)
(* utils/pan/pan.c, the driver every suite of this repository runs its     *)
(* scenarios with: it keeps KeepActive commands running, reaps them, turns *)
(* the signals it receives into signals for its children's process groups, *)
(* follows the process groups whose leader died before its members         *)
(* (orphans), and records all of them in the zoo.                          *)
(*                                                                         *)
(* pc names the place in main() and in the functions it calls.  A step     *)
(* ends where another process or a signal handler can make a difference:   *)
(* at every zoo critical section, at every read or write of rec_signal and *)
(* send_signal, at fork(), and at the calls pan sleeps in: wait(), and the *)
(* read() and waitpid() of run_child().                                    *)
(*                                                                         *)
(* The operators called Bug... are no part of the model: each is a mistake *)
(* in the definition below it that a property is known to catch.           *)
(***************************************************************************)
EXTENDS Zoo, FiniteSets

CONSTANTS
    KeepActive,   \* -x: how many commands to keep running
    Cnt,          \* number of commands in the collection
    Options,      \* the command lines under study
    BadCmds,      \* commands whose exec fails
    ForkMayFail,  \* fork(), pipe() or the output file's open() may fail
    Pids,         \* pids the kernel may give to children
    PanPid,       \* pan's own pid
    Outcomes,     \* how a child may end
    Daemons,      \* children may leave processes of their group behind
    UserSignals,  \* the signals pan may receive
    MaxSignals,   \* bound: how many of them it receives
    SaFlags       \* possible contents of the uninitialised sa.sa_flags

None    == "none"
Signals == {"INT", "TERM", "HUP", "USR1", "USR2", "ALRM", "KILL"}
Cmds    == 0 .. Cnt - 1
Slots   == 0 .. KeepActive - 1
AllOutcomes == {"exit0", "exit1", "exit130", "signaled"}

OptionRecords ==
    [s : Int, sequential : BOOLEAN, has_brakes : BOOLEAN, fork_in_road : BOOLEAN,
     track_exit_stats : BOOLEAN, fmt_print : BOOLEAN]

ASSUME KeepActiveAssumption == KeepActive \in Nat \ {0}
ASSUME CntAssumption == Cnt \in Nat \ {0}
ASSUME OptionsAssumption == Options \subseteq OptionRecords
ASSUME PidsAssumption ==
    /\ PanPid \notin Pids
    /\ (Pids \cup {PanPid}) \cap (Slots \cup {-1}) = {}    \* real pids lie above the preallocated ones
ASSUME OutcomesAssumption == Outcomes \subseteq AllOutcomes /\ Outcomes # {}
ASSUME SignalsAssumption == UserSignals \subseteq Signals \ {"KILL"} /\ MaxSignals \in Nat
ASSUME SaFlagsAssumption == SaFlags \subseteq SUBSET {"RESTART", "RESETHAND"}
ASSUME FlagsAssumption == ForkMayFail \in BOOLEAN /\ Daemons \in BOOLEAN

VARIABLES
    pc,                                            \* place in the code
    opt, sa_flags, dfl,                            \* options; sigaction flags; signals back at SIG_DFL
    running, num_active, i, cpid,                  \* the slots and the scan over them
    starts, c, stop, go_idle, fork_in_road,        \* the scheduler
    err, exit_stat, failcnt,                       \* results
    orphans, draining,                             \* orphaned groups; main loop left
    rec_signal, send_signal, lastsent,             \* the signal ratchet
    proc, stopfile, sigs_left,                     \* the processes, PAN_STOP_FILE, signals to come
    hist                                           \* history, read by properties only

sigVars   == <<rec_signal, send_signal, lastsent>>
schedVars == <<starts, stop, go_idle, fork_in_road>>
resVars   == <<err, exit_stat, failcnt>>
slotVars  == <<running, num_active>>
envVars   == <<stopfile, sigs_left>>
optVars   == <<opt, sa_flags, dfl>>
vars == <<pc, optVars, slotVars, i, cpid, schedVars, c, resVars, orphans, draining,
          sigVars, proc, envVars, hist, zoo>>

Startup  == {"mark_self", "prealloc", "unalloc"}
Terminal == {"done", "exit1", "killed"}

----------------------------------------------------------------------------
(* Processes: a group is led by the child itself; others is its remaining  *)
(* members.  A leader that ended is a zombie until pan waits for it.  One  *)
(* that is "doomed" has not ended yet, but its exec fails.                 *)

NoProc == [leader |-> None, others |-> FALSE]
GroupExists(p) == proc[p] # NoProc
Children == {p \in Pids : proc[p].leader # None}
Zombies  == {p \in Pids : proc[p].leader \in AllOutcomes}
Alive(p) == proc[p].leader \in {"run", "doomed"}

(* A pid is given out again once no process or group has it.  That pan's   *)
(* next check_orphans() comes before the pid space wraps is assumed.       *)
FreshPids == {p \in Pids : ~GroupExists(p) /\ p \notin orphans}

(* kill(-p, sig).  Everything but SIGKILL may be caught or ignored.        *)
Killed(pr, sig) ==
    IF sig # "KILL" THEN pr
    ELSE [leader |-> IF pr.leader = "run" THEN "signaled" ELSE pr.leader, others |-> FALSE]

FreeSlot   == [pgrp |-> 0, stopping |-> FALSE]
IsFree(s)  == running[s].pgrp = 0
FreeSlots  == {s \in Slots : IsFree(s)}
UsedSlots  == Slots \ FreeSlots
SlotsOf(p) == {s \in Slots : running[s].pgrp = p}

BugSlotKept(s) == running
SlotFreed(s)   == [running EXCEPT ![s] = FreeSlot]

----------------------------------------------------------------------------
(* wait_handler(sig), the signal handler; main() calls it too.             *)

BugNextSendNoKill(sig) ==
    IF lastsent = None THEN sig
    ELSE IF lastsent = "USR1" THEN "INT"
    ELSE IF lastsent = sig THEN "TERM"
    ELSE IF lastsent = "TERM" THEN "HUP"
    ELSE send_signal

NextSend(sig) ==
    IF lastsent = None THEN sig
    ELSE IF lastsent = "USR1" THEN "INT"
    ELSE IF lastsent = sig THEN "TERM"
    ELSE IF lastsent = "TERM" THEN "HUP"
    ELSE IF lastsent = "HUP" THEN "KILL"
    ELSE send_signal

wait_handler(sig) ==
    \/ /\ sig = None
       /\ lastsent' = None
       /\ UNCHANGED <<rec_signal, send_signal>>
    \/ /\ sig = "USR2"
       /\ rec_signal' = sig
       /\ UNCHANGED <<send_signal, lastsent>>
    \/ /\ sig \notin {None, "USR2"}
       /\ rec_signal' = sig
       /\ send_signal' = NextSend(sig)
       /\ lastsent' = NextSend(sig)

(* check_orphans(sig): signal every orphaned group; the ones that are gone *)
(* leave the list and the zoo (a missing line is only reported).           *)
BugOrphansForgotten(sig) ==
    /\ zoo_clear_each(orphans)
    /\ orphans' = {}
    /\ proc' = [p \in Pids |-> IF p \in orphans THEN Killed(proc[p], sig) ELSE proc[p]]

BugOrphanLinesKept(sig) ==
    /\ orphans' = {p \in orphans : GroupExists(p)}
    /\ proc' = [p \in Pids |-> IF p \in orphans THEN Killed(proc[p], sig) ELSE proc[p]]
    /\ UNCHANGED zoo

check_orphans(sig) ==
    LET gone == {p \in orphans : ~GroupExists(p)}
    IN  /\ zoo_clear_each(gone)
        /\ orphans' = orphans \ gone
        /\ proc' = [p \in Pids |-> IF p \in orphans THEN Killed(proc[p], sig) ELSE proc[p]]

----------------------------------------------------------------------------
(* Start-up: pan's own line, then KeepActive lines for the pids 0, 1, ...  *)
(* that are freed at once, so that the file has room.                      *)

InitialStarts(o) ==
    IF o.s = -1 THEN (IF o.sequential THEN Cnt ELSE 1)
    ELSE IF o.s = 0 THEN -1
    ELSE IF o.s < KeepActive THEN KeepActive
    ELSE o.s

Init ==
    /\ pc = "mark_self"
    /\ opt \in Options /\ sa_flags \in SaFlags /\ dfl = {}
    /\ running = [s \in Slots |-> FreeSlot] /\ num_active = 0 /\ i = 0 /\ cpid = 0
    /\ starts = InitialStarts(opt) /\ c = 0
    /\ stop = FALSE /\ go_idle = FALSE /\ fork_in_road = opt.fork_in_road
    /\ err = FALSE /\ exit_stat = 0 /\ failcnt = 0
    /\ orphans = {} /\ draining = FALSE
    /\ rec_signal = None /\ send_signal = None /\ lastsent = None
    /\ proc = [p \in Pids |-> NoProc] /\ stopfile = FALSE /\ sigs_left = MaxSignals
    /\ hist = [ran |-> [k \in Cmds |-> 0], started |-> 0, refused |-> FALSE,
               seen |-> FALSE, late |-> 0, failed |-> 0, interrupted |-> FALSE,
               dropped |-> {}, strays |-> 0, missed |-> 0]
    /\ zoo = <<>>

MarkSelf ==
    /\ pc = "mark_self"
    /\ zoo_mark(PanPid, "pan")
    /\ pc' = "prealloc"
    /\ UNCHANGED <<optVars, slotVars, i, cpid, schedVars, c, resVars, orphans, draining,
                   sigVars, proc, envVars, hist>>

PreallocMark ==
    /\ pc = "prealloc"
    /\ zoo_mark(i, "pan")
    /\ IF i + 1 < KeepActive THEN i' = i + 1 /\ UNCHANGED pc
                             ELSE i' = 0 /\ pc' = "unalloc"
    /\ UNCHANGED <<optVars, slotVars, cpid, schedVars, c, resVars, orphans, draining,
                   sigVars, proc, envVars, hist>>

PreallocClear ==
    /\ pc = "unalloc"
    /\ zoo_clear(i)
    /\ i' = IF i + 1 < KeepActive THEN i + 1 ELSE 0
    /\ pc' = IF ClearWarns(i) THEN "exit1"
             ELSE IF i + 1 < KeepActive THEN pc ELSE "start"
    /\ UNCHANGED <<optVars, slotVars, cpid, schedVars, c, resVars, orphans, draining,
                   sigVars, proc, envVars, hist>>

----------------------------------------------------------------------------
(* The inner start loop of main().                                         *)

BugMayStartBlind == num_active < KeepActive /\ starts # 0 /\ ~stop /\ ~go_idle

MayStart == /\ num_active < KeepActive /\ starts # 0
            /\ ~stop /\ rec_signal = None /\ ~go_idle

LeaveStartLoop ==
    /\ pc = "start"
    /\ ~MayStart
    /\ pc' = "signals"
    /\ UNCHANGED <<optVars, slotVars, i, cpid, schedVars, c, resVars, orphans, draining,
                   sigVars, proc, envVars, hist, zoo>>

(* Choose a command and a slot.  Without a free slot pan reports           *)
(* "Aborting: i == keep_active" and interrupts itself.                     *)
PickSlot ==
    /\ pc = "start"
    /\ MayStart
    /\ c' \in IF opt.sequential THEN {c} ELSE Cmds
    /\ IF FreeSlots = {}
       THEN /\ wait_handler("INT")
            /\ exit_stat' = exit_stat + 1
            /\ pc' = "signals"
            /\ UNCHANGED i
       ELSE /\ \E s \in FreeSlots : IsFirst(s, FreeSlots) /\ i' = s
            /\ pc' = "fork"
            /\ UNCHANGED <<sigVars, exit_stat>>
    /\ UNCHANGED <<optVars, slotVars, cpid, schedVars, err, failcnt, orphans, draining,
                   proc, envVars, hist, zoo>>

BugNextCmdPast == IF ~opt.sequential THEN c ELSE IF c + 1 > Cnt THEN 0 ELSE c + 1

NextCmd == IF ~opt.sequential THEN c ELSE IF c + 1 >= Cnt THEN 0 ELSE c + 1

(* run_child() forks a child with a group of its own ...                   *)
ForkChild ==
    /\ pc = "fork"
    /\ \E p \in FreshPids :
         /\ proc' = [proc EXCEPT ![p] =
                        [leader |-> IF c \in BadCmds THEN "doomed" ELSE "run", others |-> FALSE]]
         /\ cpid' = p
         /\ hist' = [hist EXCEPT
                !.ran[c] = IF starts = -1 \/ c \in BadCmds THEN @ ELSE @ + 1,
                !.started = IF starts = -1 \/ c \in BadCmds THEN @ ELSE @ + 1,
                !.refused = @ \/ (starts # -1 /\ c \in BadCmds),
                !.late = IF hist.seen /\ c \notin BadCmds /\ @ < 2 THEN @ + 1 ELSE @,
                !.dropped = @ \ {p}]
    /\ pc' = "read"
    /\ UNCHANGED <<optVars, slotVars, i, schedVars, c, resVars, orphans, draining, sigVars,
                   envVars, zoo>>

(* ... and returns -1 when it cannot.                                      *)
ForkFails ==
    /\ pc = "fork"
    /\ ForkMayFail \/ FreshPids = {}
    /\ c' = NextCmd
    /\ hist' = [hist EXCEPT !.refused = @ \/ starts # -1]
    /\ pc' = "start"
    /\ UNCHANGED <<optVars, slotVars, i, cpid, schedVars, resVars, orphans, draining,
                   sigVars, proc, envVars, zoo>>

(* The child has exec'd when read(errpipe) sees the end of the pipe: the   *)
(* child gets its slot ...                                                 *)
ExecDone ==
    /\ pc = "read"
    /\ c \notin BadCmds
    /\ running' = [running EXCEPT ![i] = [pgrp |-> cpid, stopping |-> FALSE]]
    /\ pc' = "mark"
    /\ UNCHANGED <<optVars, num_active, i, cpid, schedVars, c, resVars, orphans, draining,
                   sigVars, proc, envVars, hist, zoo>>

(* ... and only then gets its line in the zoo and is counted.              *)
MarkChild ==
    /\ pc = "mark"
    /\ zoo_mark(cpid, "tag")
    /\ num_active' = num_active + 1
    /\ starts' = IF starts > 0 THEN starts - 1 ELSE starts
    /\ c' = NextCmd
    /\ pc' = "start"
    /\ UNCHANGED <<optVars, running, i, cpid, stop, go_idle, fork_in_road, resVars,
                   orphans, draining, sigVars, proc, envVars, hist>>

(* Anything else that read() returns means that the exec failed: run_child *)
(* waits for the child, forgets it and returns -1.                         *)
ExecFailed ==
    /\ pc = "read"
    /\ c \in BadCmds
    /\ pc' = "waitpid"
    /\ UNCHANGED <<optVars, slotVars, i, cpid, schedVars, c, resVars, orphans, draining,
                   sigVars, proc, envVars, hist, zoo>>

ForgetChild ==
    /\ pc = "waitpid"
    /\ cpid \in Zombies
    /\ proc' = [proc EXCEPT ![cpid].leader = None]
    /\ c' = NextCmd
    /\ pc' = "start"
    /\ UNCHANGED <<optVars, slotVars, i, cpid, schedVars, resVars, orphans, draining,
                   sigVars, envVars, hist, zoo>>

----------------------------------------------------------------------------
(* Stop conditions and signals.                                            *)

BugStopOnFileOnly  == starts = -1 /\ stopfile
BugStopOnCountOnly == starts = 0
BugStopOneEarly    == starts \in {0, 1} \/ (starts = -1 /\ stopfile)

MustStop == starts = 0 \/ (starts = -1 /\ stopfile)

CheckStop ==
    /\ pc = "signals"
    /\ stop' = (stop \/ MustStop)
    /\ stopfile' = (stopfile /\ starts # -1)
    /\ hist' = [hist EXCEPT !.interrupted = @ \/ (starts = -1 /\ stopfile)]
    /\ pc' = "test"
    /\ UNCHANGED <<optVars, slotVars, i, cpid, starts, go_idle, fork_in_road, c, resVars,
                   orphans, draining, sigVars, proc, sigs_left, zoo>>

(* propagate_signal() calls the alarm a SIGTERM, in rec_signal only.       *)
AlarmAsTerm(sig) == IF sig = "ALRM" THEN "TERM" ELSE sig

NoSignal ==
    /\ pc = "test"
    /\ rec_signal = None
    /\ pc' = "reap"
    /\ UNCHANGED <<optVars, slotVars, i, cpid, schedVars, c, resVars, orphans, draining,
                   sigVars, proc, envVars, hist, zoo>>

SeeUsr2 ==
    /\ pc = "test"
    /\ rec_signal = "USR2"
    /\ pc' = "reset_send"
    /\ UNCHANGED <<optVars, slotVars, i, cpid, schedVars, c, resVars, orphans, draining,
                   sigVars, proc, envVars, hist, zoo>>

SeeSignal ==
    /\ pc = "test"
    /\ rec_signal \notin {None, "USR2"}
    /\ fork_in_road' = (fork_in_road /\ rec_signal # "USR1")
    /\ rec_signal' = AlarmAsTerm(rec_signal)
    /\ i' = 0
    /\ pc' = "kill"
    /\ UNCHANGED <<optVars, slotVars, cpid, starts, stop, go_idle, c, resVars, orphans,
                   draining, send_signal, lastsent, proc, envVars, hist, zoo>>

(* propagate_signal(): one kill() per used slot, then the orphans.         *)
KillSlot ==
    /\ pc = "kill"
    /\ i < KeepActive
    /\ IF IsFree(i) THEN UNCHANGED <<proc, running>>
       ELSE /\ running' = [running EXCEPT ![i].stopping = TRUE]
            /\ proc' = [proc EXCEPT ![running[i].pgrp] = Killed(@, send_signal)]
    /\ i' = i + 1
    /\ UNCHANGED <<pc, optVars, num_active, cpid, schedVars, c, resVars, orphans, draining,
                   sigVars, envVars, hist, zoo>>

KillOrphans ==
    /\ pc = "kill"
    /\ i = KeepActive
    /\ check_orphans(send_signal)
    /\ pc' = "reset_send"
    /\ UNCHANGED <<optVars, slotVars, i, cpid, schedVars, c, resVars, draining, sigVars,
                   envVars, hist>>

(* rec_signal = send_signal = 0, whatever the handler puts there meanwhile *)
(* (SIGUSR2 comes here at once); then main() does ++go_idle or ++stop, as  *)
(* fork_in_road says.                                                      *)
ResetSend ==
    /\ pc = "reset_send"
    /\ send_signal' = None
    /\ pc' = "reset_rec"
    /\ UNCHANGED <<optVars, slotVars, i, cpid, schedVars, c, resVars, orphans, draining,
                   rec_signal, lastsent, proc, envVars, hist, zoo>>

IdleOrStop ==
    /\ go_idle' = (go_idle \/ fork_in_road)
    /\ stop' = (stop \/ ~fork_in_road)

ResetRec ==
    /\ pc = "reset_rec"
    /\ rec_signal' = None
    /\ IF draining THEN pc' = "drain" /\ UNCHANGED <<go_idle, stop>>
                   ELSE pc' = "reap" /\ IdleOrStop
    /\ UNCHANGED <<optVars, slotVars, i, cpid, starts, fork_in_road, c, resVars, orphans,
                   draining, send_signal, lastsent, proc, envVars, hist, zoo>>

----------------------------------------------------------------------------
(* check_pids().                                                           *)

ReapOrphans ==
    /\ pc = "reap"
    /\ check_orphans(None)
    /\ pc' = "wait"
    /\ UNCHANGED <<optVars, slotVars, i, cpid, schedVars, c, resVars, draining, sigVars,
                   envVars, hist>>

(* wait(): ECHILD at once without children, otherwise pan sleeps.          *)
EnterWait ==
    /\ pc = "wait"
    /\ IF Children = {} THEN pc' = "after" /\ err' = FALSE
                        ELSE pc' = "blocked" /\ UNCHANGED err
    /\ UNCHANGED <<optVars, slotVars, i, cpid, schedVars, c, exit_stat, failcnt, orphans,
                   draining, sigVars, proc, envVars, hist, zoo>>

(* A child's status is in.  A stopping child that exits with 130 is        *)
(* excused, and so is one that dies of a signal.                           *)
Excused(o, stopping) == stopping /\ o = "exit130"
BugErrorUnlessStopping(o, stopping) == o # "exit0" /\ ~stopping
BugLogsExitsOnly(o, stopping) == o \in {"exit1", "exit130"} /\ ~Excused(o, stopping)

IsError(o, stopping) ==
    \/ o \in {"exit1", "exit130"} /\ ~Excused(o, stopping)
    \/ o = "signaled" /\ ~stopping
LogsFail(o, stopping) == o # "exit0" /\ ~Excused(o, stopping)

Reap ==
    /\ pc = "blocked"
    /\ \E p \in Zombies :
         /\ proc' = [proc EXCEPT ![p].leader = None]
         /\ num_active' = num_active - 1
         /\ cpid' = p
         /\ IF SlotsOf(p) = {}
            THEN /\ err' = (proc[p].leader \in {"exit1", "exit130"})
                 /\ hist' = [hist EXCEPT !.strays = @ + 1]
                 /\ pc' = "after"
                 /\ UNCHANGED <<failcnt, running>>
            ELSE \E s \in SlotsOf(p) :
                 /\ IsFirst(s, SlotsOf(p))
                 /\ err' = IsError(proc[p].leader, running[s].stopping)
                 /\ failcnt' = IF opt.fmt_print /\ LogsFail(proc[p].leader, running[s].stopping)
                               THEN failcnt + 1 ELSE failcnt
                 /\ running' = SlotFreed(s)
                 /\ pc' = "clear"
                 /\ UNCHANGED hist
    /\ UNCHANGED <<optVars, i, schedVars, c, exit_stat, orphans, draining, sigVars, envVars,
                   zoo>>

(* A zoo_clear() that does not find the child's line ends pan.             *)
ClearChild ==
    /\ pc = "clear"
    /\ zoo_clear(cpid)
    /\ pc' = IF ClearWarns(cpid) THEN "exit1" ELSE "orphan"
    /\ UNCHANGED <<optVars, slotVars, i, cpid, schedVars, c, resVars, orphans, draining,
                   sigVars, proc, envVars, hist>>

(* The leader is gone; if its group is not, the group is an orphan (and is *)
(* sent a SIGTERM, which it may ignore).                                   *)
CheckOrphan ==
    /\ pc = "orphan"
    /\ IF GroupExists(cpid)
       THEN zoo_mark(cpid, "panorphan") /\ orphans' = orphans \cup {cpid}
       ELSE UNCHANGED <<zoo, orphans>>
    /\ pc' = "after"
    /\ UNCHANGED <<optVars, slotVars, i, cpid, schedVars, c, resVars, draining, sigVars,
                   proc, envVars, hist>>

----------------------------------------------------------------------------
(* The end of a round of main()'s loop.                                    *)

HandleError ==
    /\ pc = "after"
    /\ go_idle' = (go_idle \/ (err /\ fork_in_road))
    /\ exit_stat' = IF err /\ opt.track_exit_stats THEN exit_stat + 1 ELSE exit_stat
    /\ IF err /\ opt.has_brakes
       THEN wait_handler("INT") /\ hist' = [hist EXCEPT !.interrupted = TRUE]
       ELSE UNCHANGED <<sigVars, hist>>
    /\ pc' = "round"
    /\ UNCHANGED <<optVars, slotVars, i, cpid, starts, stop, fork_in_road, c, err, failcnt,
                   orphans, draining, proc, envVars, zoo>>

BugIdleOverAtStop == go_idle /\ num_active = 0 /\ stop
IdleOver == go_idle /\ num_active = 0

EndRound ==
    /\ pc = "round"
    /\ IF stop /\ num_active = 0
       THEN pc' = "drain" /\ draining' = TRUE /\ UNCHANGED <<go_idle, sigVars>>
       ELSE /\ pc' = "start" /\ UNCHANGED draining
            /\ IF IdleOver
               THEN go_idle' = FALSE /\ wait_handler(None)
               ELSE UNCHANGED <<go_idle, sigVars>>
    /\ UNCHANGED <<optVars, slotVars, i, cpid, starts, stop, fork_in_road, c, resVars,
                   orphans, proc, envVars, hist, zoo>>

----------------------------------------------------------------------------
(* After the loop: drive the orphans through the signal ratchet, then go.  *)

OrphansLeft ==
    /\ pc = "drain"
    /\ orphans # {}
    /\ pc' = "nap"
    /\ UNCHANGED <<optVars, slotVars, i, cpid, schedVars, c, resVars, orphans, draining,
                   sigVars, proc, envVars, hist, zoo>>

Nap ==
    /\ pc = "nap"
    /\ IF rec_signal = None THEN wait_handler("INT")
       ELSE rec_signal' = AlarmAsTerm(rec_signal) /\ UNCHANGED <<send_signal, lastsent>>
    /\ i' = 0
    /\ pc' = "kill"
    /\ UNCHANGED <<optVars, slotVars, cpid, schedVars, c, resVars, orphans, draining, proc,
                   envVars, hist, zoo>>

Finish ==
    /\ pc = "drain"
    /\ orphans = {}
    /\ zoo_clear(PanPid)
    /\ exit_stat' = IF ClearWarns(PanPid) THEN exit_stat + 1 ELSE exit_stat
    /\ pc' = "done"
    /\ UNCHANGED <<optVars, slotVars, i, cpid, schedVars, c, err, failcnt, orphans,
                   draining, sigVars, proc, envVars, hist>>

(* What the parent of pan sees of exit_stat: its low eight bits.           *)
ExitCode == exit_stat % 256

----------------------------------------------------------------------------
(* The rest of the world.                                                  *)

(* A signal reaches pan.  SIGKILL, any signal before sigaction(), and one  *)
(* whose handler SA_RESETHAND has taken away end pan; otherwise it runs    *)
(* the handler.                                                            *)
Fatal(sig) == sig = "KILL" \/ pc \in Startup \/ sig \in dfl

(* Without SA_RESTART it also ends the call pan sleeps in: a wait() with   *)
(* nothing to report ...                                                   *)
Handled(drop) == [hist EXCEPT !.seen = @ \/ ~fork_in_road, !.interrupted = TRUE,
                              !.dropped = @ \cup drop]

WaitInterrupted ==
    /\ pc = "blocked" /\ Zombies = {} /\ "RESTART" \notin sa_flags
    /\ pc' = "after" /\ err' = FALSE
    /\ hist' = Handled({})
    /\ UNCHANGED c

(* ... the read() of run_child(), whose -1 is taken for the report of a    *)
(* failed exec (the length that was not read then decides where a zero is  *)
(* written in or off the stack: pan goes on or dies of it) ...             *)
ReadInterrupted ==
    /\ pc = "read" /\ Alive(cpid) /\ "RESTART" \notin sa_flags
    /\ pc' \in {"waitpid", "killed"}
    /\ hist' = Handled({cpid})
    /\ UNCHANGED <<err, c>>

(* ... or its waitpid(), and run_child() returns with the child alive.     *)
WaitpidInterrupted ==
    /\ pc = "waitpid" /\ Alive(cpid) /\ "RESTART" \notin sa_flags
    /\ c' = NextCmd
    /\ pc' = "start"
    /\ hist' = Handled({cpid})
    /\ UNCHANGED err

(* Elsewhere, and where pan is not asleep yet, nothing else happens.       *)
NotInterrupted ==
    /\ pc = "blocked" => Zombies # {} \/ "RESTART" \in sa_flags
    /\ hist' = Handled({})
    /\ UNCHANGED <<pc, err, c>>

Signal(sig) ==
    /\ pc \notin Terminal
    /\ sigs_left > 0
    /\ sigs_left' = sigs_left - 1
    /\ \/ /\ Fatal(sig)
          /\ pc' = "killed"
          /\ UNCHANGED <<sigVars, dfl, err, c, hist>>
       \/ /\ ~Fatal(sig)
          /\ wait_handler(sig)
          /\ dfl' = IF "RESETHAND" \in sa_flags THEN dfl \cup {sig} ELSE dfl
          /\ NotInterrupted \/ WaitInterrupted \/ ReadInterrupted \/ WaitpidInterrupted
    /\ UNCHANGED <<opt, sa_flags, slotVars, i, cpid, schedVars, exit_stat, failcnt,
                   orphans, draining, proc, stopfile, zoo>>

worldUnchanged == UNCHANGED <<pc, optVars, slotVars, i, cpid, schedVars, c, resVars, orphans,
                              draining, sigVars, sigs_left, zoo>>

(* A child that cannot exec ends with errno, or when run_child() has given *)
(* it up with a SIGPIPE.                                                   *)
WaysToEnd(p) ==
    IF proc[p].leader = "run" THEN Outcomes
    ELSE IF p \in hist.dropped THEN {"exit1", "signaled"} ELSE {"exit1"}

ChildEnds(p) ==
    /\ Alive(p)
    /\ \E o \in WaysToEnd(p) :
         LET fails == proc[p].leader = "run" /\ o = "exit1" /\ starts # -1
         IN  /\ proc' = [proc EXCEPT ![p].leader = o]
             /\ hist' = [hist EXCEPT
                    !.failed = IF fails /\ p \notin hist.dropped THEN @ + 1 ELSE @,
                    !.missed = IF fails /\ p \in hist.dropped THEN @ + 1 ELSE @]
    /\ worldUnchanged /\ UNCHANGED stopfile

ChildForks(p) ==
    /\ Daemons
    /\ proc[p].leader = "run" /\ ~proc[p].others
    /\ proc' = [proc EXCEPT ![p].others = TRUE]
    /\ worldUnchanged /\ UNCHANGED <<stopfile, hist>>

OthersEnd(p) ==
    /\ proc[p].others
    /\ proc' = [proc EXCEPT ![p].others = FALSE]
    /\ worldUnchanged /\ UNCHANGED <<stopfile, hist>>

TouchStopFile ==
    /\ opt.s = 0 /\ ~stopfile /\ pc \notin Terminal
    /\ stopfile' = TRUE
    /\ worldUnchanged /\ UNCHANGED <<proc, hist>>

(* pan has ended; its children may still run. *)
Ended == pc \in Terminal /\ UNCHANGED vars

----------------------------------------------------------------------------
PanStep ==
    \/ MarkSelf \/ PreallocMark \/ PreallocClear
    \/ LeaveStartLoop \/ PickSlot \/ ForkChild \/ ForkFails
    \/ ExecDone \/ MarkChild \/ ExecFailed \/ ForgetChild
    \/ CheckStop \/ NoSignal \/ SeeUsr2 \/ SeeSignal
    \/ KillSlot \/ KillOrphans \/ ResetSend \/ ResetRec
    \/ ReapOrphans \/ EnterWait \/ Reap \/ ClearChild \/ CheckOrphan
    \/ HandleError \/ EndRound \/ OrphansLeft \/ Nap \/ Finish

World ==
    \/ \E sig \in UserSignals : Signal(sig)
    \/ \E p \in Pids : ChildEnds(p) \/ ChildForks(p) \/ OthersEnd(p)
    \/ TouchStopFile

Next == PanStep \/ World \/ Ended

Spec == Init /\ [][Next]_vars
============================================================================
