-------------------------- MODULE PanResultProofs --------------------------
(***************************************************************************)
(* What pan reports, and what it starts, for every number of slots,        *)
(* commands, pids and signals: the exit status against the tests that      *)
(* failed, against the -p log and against the number of tests (LoggedInv,  *)
(* CountedInv, BoundInv), and the starts against the options (StartsInv,   *)
(* StopInv, RoundInv).                                                     *)
(***************************************************************************)
EXTENDS PanZooProofs

(* An error that check_pids() has seen and main() has not yet added.       *)
Pending == IF pc \in {"clear", "orphan", "after"} /\ err THEN 1 ELSE 0

(* Tests that have failed and that pan has not yet waited for: neither     *)
(* dropped nor the child of a failed exec.                                 *)
GivenUp == Dropped \cup (IF Hopeless THEN {cpid} ELSE {})
Failing == {p \in Pids \ GivenUp : proc[p].leader = "exit1"}

LoggedInv == opt.fmt_print /\ NoStray => exit_stat + Pending <= failcnt

CountedInv ==
    pc \notin Aborted /\ opt.track_exit_stats /\ NoStray =>
        hist.failed <= exit_stat + Pending + Cardinality(Failing)

(* The start count goes down with every start, and only when a child is    *)
(* recorded: one that is being recorded has not been counted yet.          *)
Uncounted == IF pc = "mark" \/ (pc = "read" /\ c \notin BadCmds) THEN 1 ELSE 0

StartsInv ==
    IF opt.s = 0 THEN starts = -1
    ELSE /\ starts \in 0 .. InitialStarts(opt)
         /\ pc \in {"fork", "read", "waitpid", "mark"} => starts > 0
         /\ pc \notin Aborted /\ ~hist.interrupted =>
              hist.started = InitialStarts(opt) - starts + Uncounted

BoundInv ==
    opt.s # 0 /\ NoStray =>
        IF pc \in Aborted THEN exit_stat <= InitialStarts(opt)
        ELSE exit_stat + Pending + num_active <= InitialStarts(opt) - starts

(* Without an interruption only the start count stops pan, and the signal  *)
(* handler is not called before the orphans are driven out.                *)
StopInv ==
    ~hist.interrupted =>
        /\ stop => starts = 0
        /\ draining \/ (rec_signal = None /\ pc \notin {"kill", "reset_send", "reset_rec"})

(* In sequential mode the commands before the current one are one start    *)
(* ahead of the others.                                                    *)
Turn == IF pc \in {"read", "waitpid", "mark"} THEN c + 1 ELSE c

Evenly == \A a, b \in Cmds : hist.ran[a] - hist.ran[b] <= 1

RoundInv ==
    /\ opt.s = 0 => \A k \in Cmds : hist.ran[k] = 0
    /\ opt.sequential /\ ~hist.refused =>
          /\ Evenly
          /\ opt.s # 0 /\ pc \notin Aborted =>
               \E n \in Nat : \A k \in Cmds : hist.ran[k] = IF k < Turn THEN n + 1 ELSE n

----------------------------------------------------------------------------
(* What a step does to the results.  Only Reap, HandleError, a fatal       *)
(* signal and the two branches that SlotAccounting and ZooInv exclude      *)
(* change them.                                                            *)

(* Strays and interruptions are not forgotten.                             *)
LEMMA StrayStays ==
    ASSUME TypeOK, Shape, [AnyNext]_vars
    PROVE  /\ NoStray' => NoStray
           /\ hist.interrupted => hist'.interrupted
  <1>0. HistType /\ c \in Cmds
    BY DEF TypeOK, ControlType
  <1>1. CASE \/ MarkSelf \/ PreallocMark \/ PreallocClear
             \/ LeaveStartLoop \/ PickSlot \/ ForkFails \/ ExecDone \/ MarkChild \/ ExecFailed
             \/ ForgetChild \/ CheckStop \/ NoSignal \/ SeeUsr2 \/ SeeSignal
             \/ KillSlot \/ KillOrphans \/ ResetSend \/ ResetRec \/ ReapOrphans
             \/ EnterWait \/ ClearChild \/ CheckOrphan
             \/ HandleError \/ EndRound \/ OrphansLeft \/ Nap \/ Finish
    <2>1. \/ hist' = hist
          \/ \E x \in BOOLEAN : hist' = [hist EXCEPT !.refused = x]
          \/ \E x \in BOOLEAN : hist' = [hist EXCEPT !.interrupted = hist.interrupted \/ x]
      BY <1>1, Zenon DEF MarkSelf, PreallocMark, PreallocClear, LeaveStartLoop, PickSlot, ForkFails,
           ExecDone, MarkChild, ExecFailed, ForgetChild, CheckStop, NoSignal, SeeUsr2, SeeSignal,
           KillSlot, KillOrphans, ResetSend, ResetRec, ReapOrphans, EnterWait, ClearChild,
           CheckOrphan, HandleError, EndRound, OrphansLeft, Nap, Finish
    <2> QED BY <1>0, <2>1 DEF HistType, NoStray
  <1>2. CASE ForkChild
    BY <1>0, <1>2, ForkHist DEF NoStray
  <1>3. CASE Reap
    <2>1. hist' = hist \/ hist' = [hist EXCEPT !.strays = hist.strays + 1]
      BY <1>3 DEF Reap
    <2> QED BY <1>0, <2>1, StrayHist DEF NoStray
  <1>4. ASSUME NEW sig \in Signals, Signal(sig)
        PROVE  hist'.strays = hist.strays /\ (hist.interrupted => hist'.interrupted)
    BY <1>4, SignalIs DEF SameCounts
  <1>5. ASSUME NEW p \in Pids, ChildEnds(p) \/ ChildForks(p) \/ OthersEnd(p)
        PROVE  hist'.strays = hist.strays /\ (hist.interrupted => hist'.interrupted)
    BY <1>5, ChildEndsIs DEF ChildForks, OthersEnd
  <1>6. CASE TouchStopFile \/ UNCHANGED vars
    BY <1>6 DEF TouchStopFile, vars, NoStray
  <1> QED BY <1>1, <1>2, <1>3, <1>4, <1>5, <1>6 DEF AnyNext, PanStep, AnyWorld, Ended, NoStray

LEMMA PendingType == Pending \in {0, 1}
  BY DEF Pending

LEMMA FinishFindsLine ==
    ASSUME DrainInv, ZooInv, Finish
    PROVE  ~ClearWarns(PanPid)
  <1>1. pc = "drain"
    BY DEF Finish
  <1>2. PanPid \in Pids_in_zoo
    BY <1>1, ExpectedIs DEF ZooInv, Plain, Quiet
  <1> QED BY <1>2, WarnsIs

LEMMA OptKept == [AnyNext]_vars => opt' = opt
  BY DEF AnyNext, PanStep, AnyWorld, Ended, vars, optVars, MarkSelf, PreallocMark, PreallocClear,
         LeaveStartLoop, PickSlot, ForkChild, ForkFails, ExecDone, MarkChild, ExecFailed, ForgetChild, CheckStop, NoSignal,
         SeeUsr2, SeeSignal, KillSlot, KillOrphans, ResetSend, ResetRec, ReapOrphans, EnterWait,
         Reap, ClearChild, CheckOrphan, HandleError, EndRound, OrphansLeft, Nap, Finish, Signal,
         ChildEnds, ChildForks, OthersEnd, TouchStopFile, worldUnchanged

LEMMA ResultSteps ==
    ASSUME TypeOK, Shape, SlotInv, DrainInv, ZooInv, ZooInv', NoStray, [AnyNext]_vars,
           ~Reap, ~HandleError
    PROVE  /\ exit_stat' = exit_stat /\ failcnt' = failcnt
           /\ Pending' = Pending \/ (pc' \in Aborted /\ Pending' = 0)
  <1> DEFINE Goal == /\ exit_stat' = exit_stat /\ failcnt' = failcnt
                     /\ Pending' = Pending \/ (pc' \in Aborted /\ Pending' = 0)
  <1>1. CASE \/ MarkSelf \/ PreallocMark \/ PreallocClear \/ LeaveStartLoop \/ ForkChild
             \/ ForkFails \/ ExecDone \/ MarkChild \/ ExecFailed \/ ForgetChild \/ CheckStop \/ NoSignal \/ SeeUsr2 \/ SeeSignal
             \/ KillSlot \/ KillOrphans \/ ResetSend \/ ResetRec \/ ReapOrphans
             \/ EndRound \/ OrphansLeft \/ Nap
    <2>1. /\ UNCHANGED <<exit_stat, failcnt>>
          /\ pc \notin {"clear", "orphan", "after"} /\ pc' \notin {"clear", "orphan", "after"}
      BY <1>1 DEF resVars, MarkSelf, PreallocMark, PreallocClear, LeaveStartLoop, ForkChild,
           ForkFails, ExecDone, MarkChild, ExecFailed, ForgetChild, CheckStop, NoSignal, SeeUsr2, SeeSignal, KillSlot,
           KillOrphans, ResetSend, ResetRec, ReapOrphans, EndRound, OrphansLeft, Nap
    <2> QED BY <2>1 DEF Pending
  <1>2. CASE PickSlot
    <2>1. FreeSlots # {}
      BY <1>2, SlotFree DEF PickSlot, SlotInv
    <2>2. UNCHANGED <<exit_stat, failcnt>> /\ pc = "start" /\ pc' = "fork"
      BY <1>2, <2>1 DEF PickSlot
    <2> QED BY <2>2 DEF Pending
  <1>3. CASE EnterWait
    <2>1. /\ UNCHANGED <<exit_stat, failcnt>> /\ pc = "wait"
          /\ pc' = "blocked" \/ (pc' = "after" /\ err' = FALSE)
      BY <1>3 DEF EnterWait
    <2> QED BY <2>1 DEF Pending
  <1>4. CASE ClearChild \/ CheckOrphan
    <2>1. /\ UNCHANGED resVars /\ pc \in {"clear", "orphan"}
          /\ pc' \in {"orphan", "after", "exit1"}
      BY <1>4 DEF ClearChild, CheckOrphan
    <2>2. pc' # "exit1"
      BY <2>1 DEF ZooInv
    <2> QED BY <2>1, <2>2 DEF Pending, resVars
  <1>5. CASE Finish
    <2>1. pc = "drain" /\ pc' = "done" /\ UNCHANGED <<exit_stat, failcnt>>
      BY <1>5, FinishFindsLine DEF Finish
    <2> QED BY <2>1 DEF Pending
  <1>6. ASSUME NEW sig \in Signals, Signal(sig) PROVE Goal
    <2>1. UNCHANGED <<exit_stat, failcnt>>
      BY <1>6, SignalIs
    <2>2. \/ pc' = "killed"
          \/ pc' = pc /\ err' = err
          \/ pc = "blocked" /\ pc' = "after" /\ err' = FALSE
          \/ pc \in {"read", "waitpid"} /\ pc' \in {"waitpid", "start"}
      BY <1>6, SignalIs
    <2> QED BY <2>1, <2>2 DEF Pending, Aborted
  <1>7. CASE \/ \E p \in Pids : ChildEnds(p) \/ ChildForks(p) \/ OthersEnd(p)
             \/ TouchStopFile \/ UNCHANGED vars
    <2>1. UNCHANGED <<pc, resVars>>
      BY <1>7 DEF ChildEnds, ChildForks, OthersEnd, TouchStopFile, worldUnchanged, vars
    <2> QED BY <2>1 DEF Pending, resVars
  <1> QED BY <1>1, <1>2, <1>3, <1>4, <1>5, <1>6, <1>7 DEF AnyNext, PanStep, AnyWorld, Ended

LEMMA ReapIs ==
    ASSUME TypeOK, SlotInv, Reap, NoStray'
    PROVE  \E p \in Zombies, s \in Slots :
             /\ running[s].pgrp = p /\ p \notin Dropped
             /\ proc' = [proc EXCEPT ![p].leader = None]
             /\ num_active' = num_active - 1
             /\ err' = IsError(proc[p].leader, running[s].stopping)
             /\ failcnt' = IF opt.fmt_print /\ LogsFail(proc[p].leader, running[s].stopping)
                           THEN failcnt + 1 ELSE failcnt
             /\ pc = "blocked" /\ pc' = "clear"
             /\ UNCHANGED <<exit_stat, hist, starts, opt>>
  <1>1. pc = "blocked" /\ UNCHANGED <<exit_stat, starts, opt>>
    BY DEF Reap, schedVars, optVars
  <1>2. PICK p \in Zombies :
          /\ proc' = [proc EXCEPT ![p].leader = None]
          /\ num_active' = num_active - 1
          /\ SlotsOf(p) = {} => hist' = [hist EXCEPT !.strays = hist.strays + 1]
          /\ SlotsOf(p) # {} =>
               /\ pc' = "clear" /\ UNCHANGED hist
               /\ \E s \in SlotsOf(p) :
                    /\ err' = IsError(proc[p].leader, running[s].stopping)
                    /\ failcnt' = IF opt.fmt_print /\ LogsFail(proc[p].leader, running[s].stopping)
                                  THEN failcnt + 1 ELSE failcnt
    BY DEF Reap
  <1>3. SlotsOf(p) # {}
    BY <1>2, StrayHist DEF NoStray, TypeOK
  <1>4. p \notin Dropped
    <2>1. PICK s \in Slots : running[s].pgrp = p
      BY <1>3 DEF SlotsOf
    <2>2. s \in UsedSlots
      BY <2>1, ZeroIsNoPid DEF UsedSlots, FreeSlots, IsFree, Zombies
    <2> QED BY <1>1, <2>1, <2>2 DEF SlotInv, SlotAccounting, InRunChild
  <1> QED BY <1>1, <1>2, <1>3, <1>4 DEF SlotsOf

LEMMA HandleErrorIs ==
    ASSUME HandleError
    PROVE  /\ pc = "after" /\ pc' = "round"
           /\ exit_stat' = IF err /\ opt.track_exit_stats THEN exit_stat + 1 ELSE exit_stat
           /\ UNCHANGED <<failcnt, opt, slotVars, proc, starts>>
           /\ Pending = (IF err THEN 1 ELSE 0) /\ Pending' = 0
  <1>1. /\ pc = "after" /\ pc' = "round"
        /\ exit_stat' = IF err /\ opt.track_exit_stats THEN exit_stat + 1 ELSE exit_stat
        /\ UNCHANGED <<failcnt, opt, slotVars, proc, starts>>
    BY DEF HandleError, optVars
  <1> QED BY <1>1 DEF Pending

----------------------------------------------------------------------------
(* FailuresLogged.                                                         *)

LEMMA LoggedInit == Init => LoggedInv
  BY DEF Init, LoggedInv, Pending

LEMMA LoggedNext ==
    ASSUME TypeOK, Shape, SlotInv, DrainInv, ZooInv, ZooInv', LoggedInv, [AnyNext]_vars
    PROVE  LoggedInv'
  <1> SUFFICES ASSUME NoStray', NoStray PROVE LoggedInv'
    BY StrayStays DEF LoggedInv
  <1>0. exit_stat \in Nat /\ failcnt \in Nat /\ opt' = opt /\ Pending \in {0, 1} /\ ProcType
    BY OptKept, PendingType DEF TypeOK, ResultType
  <1>1. CASE Reap
    <2>1. PICK p \in Zombies, s \in Slots :
             /\ err' = IsError(proc[p].leader, running[s].stopping)
             /\ failcnt' = IF opt.fmt_print /\ LogsFail(proc[p].leader, running[s].stopping)
                           THEN failcnt + 1 ELSE failcnt
             /\ pc = "blocked" /\ pc' = "clear" /\ UNCHANGED exit_stat
      BY <1>1, ReapIs
    <2>2. err' => LogsFail(proc[p].leader, running[s].stopping)
      BY <2>1, Zenon DEF IsError, LogsFail, Excused
    <2>3. Pending = 0 /\ Pending' = IF err' THEN 1 ELSE 0
      BY <2>1 DEF Pending
    <2> QED BY <1>0, <2>1, <2>2, <2>3 DEF LoggedInv
  <1>2. CASE HandleError
    BY <1>0, <1>2, HandleErrorIs DEF LoggedInv
  <1>3. CASE ~Reap /\ ~HandleError
    BY <1>0, <1>3, ResultSteps DEF LoggedInv
  <1> QED BY <1>1, <1>2, <1>3

(* A failure that counts in the exit status is one that the -p log calls   *)
(* FAIL, as long as there is no stray.                                     *)
THEOREM LoggedTheorem == Spec => []FailuresLogged
  <1>1. TypeOK /\ LoggedInv => FailuresLogged
    BY PendingType DEF LoggedInv, FailuresLogged, TypeOK, ResultType
  <1> QED BY <1>1, LoggedInit, LoggedNext, StepIsAny, TypeTheorem, SlotInvHolds, GroupTheorem, PTL
          DEF Spec

----------------------------------------------------------------------------
(* FailuresCounted.                                                        *)

LEMMA FailingFinite ==
    ASSUME TypeOK, SlotInv, pc # "killed"
    PROVE  IsFiniteSet(Failing) /\ Cardinality(Failing) \in Nat
  <1> DEFINE S == {running[s].pgrp : s \in UsedSlots}
             f == [s \in UsedSlots |-> running[s].pgrp]
  <1>1. Children \ Dropped = S \cup InRunChild
    BY DEF SlotInv, SlotAccounting
  <1>2. f \in Surjection(UsedSlots, S)
    BY DEF Surjection
  <1>3. IsFiniteSet(S)
    BY <1>2, UsedFinite, FS_Surjection
  <1>4. IsFiniteSet(InRunChild)
    <2>1. IsFiniteSet({cpid})
      BY FS_Singleton
    <2>2. InRunChild \subseteq {cpid}
      BY DEF InRunChild
    <2> QED BY <2>1, <2>2, FS_Subset
  <1>5. IsFiniteSet(S \cup InRunChild)
    BY <1>3, <1>4, FS_Union
  <1>6. Failing \subseteq Children \ Dropped
    BY DEF Failing, Children, None, GivenUp
  <1> QED BY <1>1, <1>5, <1>6, FS_Subset, FS_CardinalityType

LEMMA AbortedStays == pc \in Aborted /\ [AnyNext]_vars => UNCHANGED <<pc, exit_stat, starts>>
  BY DEF Aborted, Terminal, AnyNext, PanStep, AnyWorld, Ended, vars, schedVars, resVars, MarkSelf,
         PreallocMark, PreallocClear, LeaveStartLoop, PickSlot, ForkChild, ForkFails, ExecDone,
         MarkChild, ExecFailed, ForgetChild, CheckStop, NoSignal, SeeUsr2, SeeSignal, KillSlot, KillOrphans, ResetSend,
         ResetRec, ReapOrphans, EnterWait, Reap, ClearChild, CheckOrphan, HandleError, EndRound,
         OrphansLeft, Nap, Finish, Signal, ChildEnds, ChildForks, OthersEnd, TouchStopFile,
         worldUnchanged

(* A kill() does not turn a status that is in into another one.            *)
LEMMA KilledKeepsExit ==
    ASSUME NEW pr \in Groups, NEW sig
    PROVE  Killed(pr, sig).leader = "exit1" <=> pr.leader = "exit1"
  BY DEF Killed, Groups

LEMMA FailingKept ==
    ASSUME TypeOK, Shape, SlotInv, PanStep, ~Reap
    PROVE  Failing' = Failing /\ hist'.failed = hist.failed
  <1>0. proc \in [Pids -> Groups] /\ HistType /\ c \in Cmds
    BY DEF TypeOK, ProcType, ControlType
  <1>1. CASE ForkChild
    <2>1. PICK p \in FreshPids, l \in {"run", "doomed"} :
            /\ proc' = [proc EXCEPT ![p] = [leader |-> l, others |-> FALSE]] /\ cpid' = p
      BY <1>1 DEF ForkChild
    <2>2. p \in Pids /\ proc[p] = [leader |-> None, others |-> FALSE]
      BY DEF FreshPids, GroupExists, NoProc
    <2>3. proc[p].leader # "exit1" /\ proc'[p].leader # "exit1"
      BY <1>0, <2>1, <2>2 DEF None
    <2>4. \A q \in Pids : q # p => (q \in GivenUp' <=> q \in GivenUp) /\ proc'[q] = proc[q]
      <3>1. pc = "fork" /\ pc' = "read" /\ hist'.dropped = hist.dropped \ {p}
        BY <1>0, <1>1, <2>1, ForkHist DEF ForkChild
      <3> QED BY <1>0, <2>1, <3>1 DEF GivenUp, Hopeless, Dropped
    <2>5. Failing' = Failing
      BY <2>3, <2>4 DEF Failing
    <2> QED BY <1>0, <1>1, <2>5, ForkHist
  <1>2. CASE KillSlot
    <2>1. GivenUp' = GivenUp /\ hist' = hist
      BY <1>2 DEF KillSlot, GivenUp, Hopeless, Dropped
    <2>2. \A p \in Pids : proc'[p].leader = "exit1" <=> proc[p].leader = "exit1"
      <3>1. CASE IsFree(i)
        BY <1>2, <3>1 DEF KillSlot
      <3>2. CASE ~IsFree(i)
        <4>1. proc' = [proc EXCEPT ![running[i].pgrp] = Killed(proc[running[i].pgrp], send_signal)]
          BY <1>2, <3>2 DEF KillSlot
        <4> QED BY <1>0, <4>1, KilledKeepsExit
      <3> QED BY <3>1, <3>2
    <2> QED BY <2>1, <2>2 DEF Failing
  <1>3. CASE KillOrphans \/ ReapOrphans
    <2>1. PICK sig : check_orphans(sig)
      BY <1>3 DEF KillOrphans, ReapOrphans
    <2>2. proc' = [p \in Pids |-> IF p \in orphans THEN Killed(proc[p], sig) ELSE proc[p]]
      BY <2>1 DEF check_orphans
    <2>3. \A p \in Pids : proc'[p].leader = "exit1" <=> proc[p].leader = "exit1"
      BY <1>0, <2>2, KilledKeepsExit
    <2>4. GivenUp' = GivenUp /\ hist' = hist
      BY <1>3 DEF KillOrphans, ReapOrphans, GivenUp, Hopeless, Dropped
    <2> QED BY <2>3, <2>4 DEF Failing
  <1>4. CASE \/ MarkSelf \/ PreallocMark \/ PreallocClear \/ MarkChild \/ ClearChild
             \/ CheckOrphan \/ Finish \/ Busy
    <2>1. UNCHANGED proc /\ hist'.dropped = hist.dropped
      BY <1>0, <1>4, BusySteps DEF MarkSelf, PreallocMark, PreallocClear, MarkChild, ClearChild,
           CheckOrphan, Finish
    <2>2. ~Hopeless /\ ~Hopeless'
      BY <1>0, <1>4, BusySteps DEF MarkSelf, PreallocMark, PreallocClear, MarkChild, ClearChild,
           CheckOrphan, Finish, Hopeless, Quiet
    <2>3. hist'.failed = hist.failed
      BY <1>0, <1>4 DEF HistType, Busy, MarkSelf, PreallocMark, PreallocClear, MarkChild,
           ClearChild, CheckOrphan, Finish, LeaveStartLoop, PickSlot, ForkFails, CheckStop,
           NoSignal, SeeUsr2, SeeSignal, ResetSend, ResetRec, EnterWait, HandleError, EndRound,
           OrphansLeft, Nap
    <2> QED BY <2>1, <2>2, <2>3 DEF Failing, GivenUp, Dropped
  <1>5. CASE ExecDone \/ ExecFailed
    <2>1. /\ UNCHANGED <<proc, hist, cpid, c>> /\ pc = "read" /\ cpid \notin Dropped
          /\ pc' = IF c \in BadCmds THEN "waitpid" ELSE "mark"
      BY <1>5 DEF ExecDone, ExecFailed, SlotInv, RunChildInv
    <2>2. Hopeless' = Hopeless
      BY <2>1 DEF Hopeless, Dropped
    <2> QED BY <2>1, <2>2 DEF Failing, GivenUp, Dropped
  <1>6. CASE ForgetChild
    <2>1. /\ proc' = [proc EXCEPT ![cpid].leader = None] /\ UNCHANGED <<hist, cpid>>
          /\ pc = "waitpid" /\ pc' = "start" /\ cpid \in Pids
      BY <1>6 DEF ForgetChild, Shape
    <2>2. cpid \in GivenUp /\ proc'[cpid].leader # "exit1"
      BY <1>0, <2>1 DEF GivenUp, Hopeless, None
    <2>3. \A q \in Pids : q # cpid => (q \in GivenUp' <=> q \in GivenUp) /\ proc'[q] = proc[q]
      BY <1>0, <2>1 DEF GivenUp, Hopeless, Dropped
    <2> QED BY <2>1, <2>2, <2>3 DEF Failing
  <1> QED BY <1>1, <1>2, <1>3, <1>4, <1>5, <1>6 DEF PanStep, Busy

(* A test that fails is counted in hist.failed when it joins Failing; a    *)
(* test that a signal makes pan drop has not ended.                        *)
LEMMA FailingWorld ==
    ASSUME TypeOK, Shape, SlotInv, FollowInv, AnyWorld \/ UNCHANGED vars, pc' \notin Aborted
    PROVE  \/ Failing' = Failing /\ hist'.failed = hist.failed
           \/ \E p \in Pids : /\ p \notin Failing /\ Failing' = Failing \cup {p}
                              /\ hist'.failed \in {hist.failed, hist.failed + 1}
  <1>0. proc \in [Pids -> Groups] /\ HistType
    BY DEF TypeOK, ProcType
  <1>1. ASSUME NEW p \in Pids, ChildEnds(p)
        PROVE  \/ Failing' = Failing /\ hist'.failed = hist.failed
               \/ /\ p \notin Failing /\ Failing' = Failing \cup {p}
                  /\ hist'.failed \in {hist.failed, hist.failed + 1}
    <2>1. PICK o \in AllOutcomes :
            /\ proc' = [proc EXCEPT ![p].leader = o] /\ Alive(p)
            /\ hist'.dropped = hist.dropped
            /\ hist'.failed = IF /\ proc[p].leader = "run" /\ o = "exit1" /\ starts # -1
                                 /\ p \notin hist.dropped
                              THEN hist.failed + 1 ELSE hist.failed
      BY <1>1, ChildEndsIs
    <2>2. proc[p].leader # "exit1"
      BY <2>1 DEF Alive
    <2>3. GivenUp' = GivenUp
      BY <1>1, <2>1 DEF GivenUp, Hopeless, Dropped, ChildEnds, worldUnchanged
    <2>4. p \in GivenUp => p \in Dropped \/ proc[p].leader # "run"
      <3>1. pc' = pc
        BY <1>1 DEF ChildEnds, worldUnchanged
      <3> QED BY <3>1 DEF GivenUp, FollowInv
    <2>5. hist'.failed \in {hist.failed, hist.failed + 1}
      BY <1>0, <2>1 DEF HistType
    <2>6. CASE o = "exit1" /\ p \notin GivenUp
      <3>1. p \notin Failing /\ Failing' = Failing \cup {p}
        BY <1>0, <2>1, <2>2, <2>3, <2>6 DEF Failing
      <3> QED BY <2>5, <3>1
    <2>7. CASE ~(o = "exit1" /\ p \notin GivenUp)
      <3>1. Failing' = Failing
        BY <1>0, <2>1, <2>2, <2>3, <2>7 DEF Failing
      <3>2. hist'.failed = hist.failed
        BY <2>1, <2>4, <2>7 DEF Dropped
      <3> QED BY <3>1, <3>2
    <2> QED BY <2>6, <2>7
  <1>2. ASSUME NEW p \in Pids, ChildForks(p) \/ OthersEnd(p)
        PROVE  Failing' = Failing /\ hist'.failed = hist.failed
    <2>1. \A q \in Pids : proc'[q].leader = proc[q].leader
      BY <1>0, <1>2 DEF ChildForks, OthersEnd, Groups
    <2>2. GivenUp' = GivenUp /\ hist' = hist
      BY <1>2 DEF GivenUp, Hopeless, Dropped, ChildForks, OthersEnd, worldUnchanged
    <2> QED BY <2>1, <2>2 DEF Failing
  <1>3. ASSUME NEW sig \in Signals, Signal(sig)
        PROVE  Failing' = Failing /\ hist'.failed = hist.failed
    <2>1. hist'.failed = hist.failed /\ UNCHANGED <<proc, cpid>>
      BY <1>3, SignalIs DEF SameCounts
    <2>2. \/ pc' = pc /\ c' = c /\ hist'.dropped = hist.dropped
          \/ /\ pc \notin {"read", "waitpid"} /\ pc' \notin {"read", "waitpid"}
             /\ hist'.dropped = hist.dropped
          \/ /\ pc \in {"read", "waitpid"} /\ pc' \in {"waitpid", "start"} /\ Alive(cpid)
             /\ hist'.dropped = hist.dropped \cup {cpid}
      BY <1>3, SignalIs DEF Aborted
    <2>3. CASE GivenUp' = GivenUp
      BY <2>1, <2>3 DEF Failing
    <2>4. CASE Alive(cpid) /\ \A q \in Pids : q # cpid => (q \in GivenUp' <=> q \in GivenUp)
      <3>1. proc[cpid].leader # "exit1"
        BY <2>4 DEF Alive
      <3> QED BY <2>1, <2>4, <3>1 DEF Failing
    <2>5. GivenUp' = GivenUp \/ Alive(cpid)
      BY <2>1, <2>2 DEF GivenUp, Hopeless, Dropped
    <2>6. \A q \in Pids : q # cpid => (q \in GivenUp' <=> q \in GivenUp)
      BY <2>1, <2>2 DEF GivenUp, Dropped
    <2> QED BY <2>3, <2>4, <2>5, <2>6
  <1>4. CASE TouchStopFile \/ UNCHANGED vars
    BY <1>4 DEF TouchStopFile, worldUnchanged, vars, Failing, GivenUp, Hopeless, Dropped
  <1> QED BY <1>1, <1>2, <1>3, <1>4 DEF AnyWorld

LEMMA CountedInit == Init => CountedInv
  <1> SUFFICES ASSUME Init PROVE CountedInv
    OBVIOUS
  <1>1. Failing = {}
    BY DEF Init, Failing, NoProc, None
  <1> QED BY <1>1, FS_EmptySet DEF Init, CountedInv, Pending

LEMMA CountedNext ==
    ASSUME TypeOK, TypeOK', Shape, SlotInv, DrainInv, FollowInv, ZooInv, ZooInv',
           CountedInv, [AnyNext]_vars
    PROVE  CountedInv'
  <1> SUFFICES ASSUME pc' \notin Aborted, opt.track_exit_stats, NoStray', NoStray
               PROVE  hist'.failed <= exit_stat' + Pending' + Cardinality(Failing')
    BY OptKept, StrayStays DEF CountedInv
  <1>0. /\ exit_stat \in Nat /\ exit_stat' \in Nat /\ hist.failed \in Nat /\ hist'.failed \in Nat
        /\ Pending \in {0, 1} /\ Pending' \in {0, 1} /\ proc \in [Pids -> Groups]
    BY PendingType DEF TypeOK, ResultType, HistType, ProcType, Pending
  <1>a. CASE pc \in Aborted
    <2>1. UNCHANGED pc
      BY <1>a, AbortedStays
    <2> QED BY <1>a, <2>1
  <1>b. CASE pc \notin Aborted
    <2>0. hist.failed <= exit_stat + Pending + Cardinality(Failing)
      BY <1>b DEF CountedInv
    <2>f. /\ IsFiniteSet(Failing) /\ Cardinality(Failing) \in Nat
      BY <1>b, FailingFinite DEF Aborted
    <2>1. CASE Reap
      <3>1. PICK p \in Zombies, s \in Slots :
               /\ proc' = [proc EXCEPT ![p].leader = None]
               /\ err' = IsError(proc[p].leader, running[s].stopping)
               /\ pc = "blocked" /\ pc' = "clear" /\ UNCHANGED <<exit_stat, hist>>
               /\ p \notin Dropped
        BY <2>1, ReapIs
      <3>g. GivenUp' = GivenUp /\ p \notin GivenUp /\ p \in Pids
        BY <3>1 DEF GivenUp, Hopeless, Dropped, Zombies
      <3>2. Failing' = Failing \ {p}
        BY <1>0, <3>1, <3>g DEF Failing, None
      <3>3. Cardinality(Failing') = IF p \in Failing THEN Cardinality(Failing) - 1
                                    ELSE Cardinality(Failing)
        BY <2>f, <3>2, FS_RemoveElement
      <3>4. p \in Failing => err'
        BY <3>1, Zenon DEF Failing, IsError, Excused
      <3>5. Pending = 0 /\ Pending' = IF err' THEN 1 ELSE 0
        BY <3>1 DEF Pending
      <3> QED BY <1>0, <2>0, <2>f, <3>1, <3>3, <3>4, <3>5
    <2>2. CASE HandleError
      <3>1. Failing' = Failing /\ hist'.failed = hist.failed
        BY <2>2, FailingKept DEF PanStep, HandleError, Reap
      <3> QED BY <1>0, <2>0, <2>2, <2>f, <3>1, HandleErrorIs
    <2>3. CASE ~Reap /\ ~HandleError
      <3>1. exit_stat' = exit_stat /\ Pending' = Pending
        BY <2>3, ResultSteps
      <3>2. CASE Failing' = Failing /\ hist'.failed = hist.failed
        BY <1>0, <2>0, <2>f, <3>1, <3>2
      <3>3. ASSUME NEW p \in Pids, p \notin Failing, Failing' = Failing \cup {p},
                   hist'.failed \in {hist.failed, hist.failed + 1}
            PROVE  hist'.failed <= exit_stat' + Pending' + Cardinality(Failing')
        <4>1. Cardinality(Failing') = Cardinality(Failing) + 1
          BY <2>f, <3>3, FS_AddElement
        <4> QED BY <1>0, <2>0, <2>f, <3>1, <3>3, <4>1
      <3> QED BY <2>3, <3>2, <3>3, FailingKept, FailingWorld DEF AnyNext, Ended
    <2> QED BY <2>1, <2>2, <2>3
  <1> QED BY <1>a, <1>b

(* With -e every test that exits with a failure status is in pan's exit    *)
(* status when pan ends, however the deaths, the signals and the reaping   *)
(* interleave, if pan has not dropped the test and has had no stray.       *)
THEOREM CountedTheorem == Spec => []FailuresCounted
  <1>1. TypeOK /\ CountedInv /\ DrainInv => FailuresCounted
    <2> SUFFICES ASSUME TypeOK, CountedInv, DrainInv, pc = "done", opt.track_exit_stats, NoStray
                 PROVE  exit_stat >= hist.failed
      BY DEF FailuresCounted
    <2>1. Failing = {}
      BY DEF DrainInv, Failing, Children, None, GivenUp
    <2>2. Cardinality(Failing) = 0 /\ Pending = 0
      BY <2>1, FS_EmptySet DEF Pending
    <2> QED BY <2>2 DEF CountedInv, Aborted, TypeOK, ResultType, HistType
  <1> QED BY <1>1, CountedInit, CountedNext, StepIsAny, TypeTheorem, SlotInvHolds, GroupTheorem,
             PTL DEF Spec

----------------------------------------------------------------------------
(* The starts.                                                             *)

LEMMA InitialStartsIs ==
    ASSUME NEW o \in Options
    PROVE  IF o.s = 0 THEN InitialStarts(o) = -1 ELSE InitialStarts(o) \in Nat \ {0}
  BY OptionsAssumption, KeepActiveAssumption, CntAssumption DEF InitialStarts, OptionRecords

(* Every step but these three leaves the start count and what was started  *)
(* alone.                                                                  *)
LEMMA StartSteps ==
    ASSUME TypeOK, Shape, [AnyNext]_vars, ~PickSlot, ~ForkChild, ~MarkChild
    PROVE  /\ starts' = starts /\ num_active' \in {num_active, num_active - 1}
           /\ hist'.started = hist.started /\ hist'.ran = hist.ran
  <1>0. HistType
    BY DEF TypeOK
  <1>1. CASE \/ MarkSelf \/ PreallocMark \/ PreallocClear \/ LeaveStartLoop
             \/ ForkFails \/ ExecDone \/ ExecFailed \/ ForgetChild
             \/ CheckStop \/ NoSignal \/ SeeUsr2 \/ SeeSignal
             \/ KillSlot \/ KillOrphans \/ ResetSend \/ ResetRec \/ ReapOrphans \/ EnterWait
             \/ Reap \/ ClearChild \/ CheckOrphan \/ HandleError \/ EndRound \/ OrphansLeft
             \/ Nap \/ Finish
    <2>1. starts' = starts /\ num_active' \in {num_active, num_active - 1}
      BY <1>1 DEF MarkSelf, PreallocMark, PreallocClear, LeaveStartLoop, ForkFails, ExecDone,
           ExecFailed, ForgetChild,
           CheckStop, NoSignal, SeeUsr2, SeeSignal, KillSlot, KillOrphans, ResetSend, ResetRec,
           ReapOrphans, EnterWait, Reap, ClearChild, CheckOrphan, HandleError, EndRound,
           OrphansLeft, Nap, Finish, schedVars, slotVars
    <2>2. hist'.started = hist.started /\ hist'.ran = hist.ran
      BY <1>0, <1>1, StrayHist DEF HistType, MarkSelf, PreallocMark, PreallocClear,
           LeaveStartLoop, ForkFails, ExecDone, ExecFailed, ForgetChild,
           CheckStop, NoSignal, SeeUsr2, SeeSignal, KillSlot, KillOrphans,
           ResetSend, ResetRec, ReapOrphans, EnterWait, Reap, ClearChild, CheckOrphan,
           HandleError, EndRound, OrphansLeft, Nap, Finish
    <2> QED BY <2>1, <2>2
  <1>2. ASSUME NEW sig \in Signals, Signal(sig)
        PROVE  /\ UNCHANGED <<starts, num_active>>
               /\ hist'.started = hist.started /\ hist'.ran = hist.ran
    BY <1>2, SignalIs DEF SameCounts, schedVars, slotVars
  <1>3. ASSUME NEW p \in Pids, ChildEnds(p) \/ ChildForks(p) \/ OthersEnd(p)
        PROVE  /\ UNCHANGED <<starts, num_active>>
               /\ hist'.started = hist.started /\ hist'.ran = hist.ran
    BY <1>3, ChildEndsIs DEF ChildEnds, ChildForks, OthersEnd, worldUnchanged, schedVars, slotVars
  <1>4. CASE TouchStopFile \/ UNCHANGED vars
    BY <1>4 DEF TouchStopFile, worldUnchanged, vars, schedVars, slotVars
  <1> QED BY <1>1, <1>2, <1>3, <1>4 DEF AnyNext, PanStep, AnyWorld, Ended

(* Where such a step leads: it stays outside run_child() or where it is in *)
(* it, goes on in it, or leaves it with the next command.                  *)
Starting == {"fork", "read", "waitpid", "mark"}

LEMMA StartPlaces ==
    ASSUME TypeOK, Shape, [AnyNext]_vars, ~PickSlot, ~ForkChild, ~MarkChild, pc' # "killed"
    PROVE  \/ pc \notin Starting /\ pc' \notin Starting /\ c' = c
           \/ pc' = pc /\ c' = c
           \/ pc = "fork" /\ pc' = "start" /\ ForkFails
           \/ pc = "read" /\ pc' = "mark" /\ c \notin BadCmds /\ c' = c
           \/ pc = "read" /\ pc' = "waitpid" /\ c' = c /\ (c \in BadCmds \/ hist'.interrupted)
           \/ pc = "waitpid" /\ pc' = "start" /\ c' = NextCmd
  <1>1. CASE PanStep
    BY <1>1 DEF Starting, PanStep, MarkSelf, PreallocMark, PreallocClear, LeaveStartLoop,
       ForkFails, ExecDone, ExecFailed, ForgetChild,
       CheckStop, NoSignal, SeeUsr2, SeeSignal, KillSlot, KillOrphans, ResetSend, ResetRec,
       ReapOrphans, EnterWait, Reap, ClearChild, CheckOrphan, HandleError, EndRound,
       OrphansLeft, Nap, Finish
  <1>2. ASSUME NEW sig \in Signals, Signal(sig)
        PROVE  \/ pc \notin Starting /\ pc' \notin Starting /\ c' = c
               \/ pc' = pc /\ c' = c
               \/ pc = "read" /\ pc' = "waitpid" /\ c' = c /\ hist'.interrupted
               \/ pc = "waitpid" /\ pc' = "start" /\ c' = NextCmd
    BY <1>2, SignalIs DEF Starting
  <1>3. CASE \/ \E p \in Pids : ChildEnds(p) \/ ChildForks(p) \/ OthersEnd(p)
             \/ TouchStopFile \/ UNCHANGED vars
    BY <1>3 DEF ChildEnds, ChildForks, OthersEnd, TouchStopFile, worldUnchanged, vars
  <1> QED BY <1>1, <1>2, <1>3 DEF AnyNext, AnyWorld, Ended

LEMMA StartsInit == Init => StartsInv
  <1> SUFFICES ASSUME Init PROVE StartsInv
    OBVIOUS
  <1> QED BY InitialStartsIs DEF Init, StartsInv, Uncounted

LEMMA StartsNext ==
    ASSUME TypeOK, Shape, StartsInv, [AnyNext]_vars
    PROVE  StartsInv'
  <1>0. /\ opt \in Options /\ opt' = opt /\ starts \in Int /\ hist.started \in Nat /\ HistType
        /\ IF opt.s = 0 THEN InitialStarts(opt) = -1 ELSE InitialStarts(opt) \in Nat \ {0}
        /\ c \in Cmds
    BY OptKept, InitialStartsIs DEF TypeOK, OptType, SchedType, HistType, ControlType
  <1>1. CASE PickSlot
    <2>1. starts # 0 /\ pc = "start"
      BY <1>1 DEF PickSlot, MayStart
    <2>2. UNCHANGED <<starts, hist>> /\ pc' \in {"fork", "signals"}
      BY <1>1 DEF PickSlot, schedVars
    <2> QED BY <1>0, <2>1, <2>2 DEF StartsInv, Aborted, Uncounted
  <1>2. CASE ForkChild
    <2>1. pc = "fork" /\ pc' = "read" /\ UNCHANGED <<starts, c>>
      BY <1>2 DEF ForkChild, schedVars
    <2>2. /\ hist'.started = IF starts = -1 \/ c \in BadCmds THEN hist.started
                             ELSE hist.started + 1
          /\ hist'.interrupted = hist.interrupted
      BY <1>0, <1>2, ForkHist
    <2> QED BY <1>0, <2>1, <2>2 DEF StartsInv, Aborted, Uncounted
  <1>3. CASE MarkChild
    <2>1. /\ pc = "mark" /\ pc' = "start" /\ UNCHANGED hist
          /\ starts' = IF starts > 0 THEN starts - 1 ELSE starts
      BY <1>3 DEF MarkChild
    <2> QED BY <1>0, <2>1 DEF StartsInv, Aborted, Uncounted
  <1>4. CASE ~PickSlot /\ ~ForkChild /\ ~MarkChild
    <2>1. starts' = starts /\ hist'.started = hist.started
      BY <1>4, StartSteps
    <2>2. CASE pc' \in Aborted
      BY <1>0, <2>1, <2>2 DEF StartsInv, Aborted
    <2>3. CASE pc' \notin Aborted
      <3>1. pc \notin Aborted /\ (hist.interrupted => hist'.interrupted)
        BY <2>3, AbortedStays, StrayStays
      <3>2. pc' \in Starting => pc \in Starting
        BY <1>4, <2>3, StartPlaces DEF Aborted, Starting
      <3>3. hist'.interrupted \/ Uncounted' = Uncounted
        BY <1>4, <2>3, StartPlaces DEF Aborted, Uncounted, Starting
      <3> QED BY <1>0, <2>1, <3>1, <3>2, <3>3 DEF StartsInv, Starting
    <2> QED BY <2>2, <2>3
  <1> QED BY <1>1, <1>2, <1>3, <1>4

(* Without strays num_active does not fall below zero.                     *)
LEMMA ActiveNatural ==
    ASSUME TypeOK, Shape, SlotAccounting, NoStray, pc # "killed"
    PROVE  num_active \in Nat
  <1>0. num_active \in Int
    BY DEF TypeOK, SlotType
  <1>1. CASE pc = "mark"
    <2>1. i \in Slots /\ running[i].pgrp = cpid /\ cpid \in Pids
      BY <1>1 DEF Shape
    <2>2. UsedSlots # {}
      BY <2>1, ZeroIsNoPid DEF UsedSlots, FreeSlots, IsFree
    <2>3. Cardinality(UsedSlots) # 0
      BY <2>2, UsedFinite, FS_EmptySet
    <2> QED BY <1>0, <1>1, <2>3, UsedFinite DEF SlotAccounting, NoStray
  <1>2. CASE pc # "mark"
    BY <1>0, <1>2, UsedFinite DEF SlotAccounting, NoStray
  <1> QED BY <1>1, <1>2

LEMMA BoundInit == Init => BoundInv
  <1> SUFFICES ASSUME Init PROVE BoundInv
    OBVIOUS
  <1> QED BY InitialStartsIs DEF Init, BoundInv, Pending, Aborted

LEMMA BoundNext ==
    ASSUME TypeOK, Shape, SlotInv, DrainInv, ZooInv, ZooInv', StartsInv, BoundInv,
           [AnyNext]_vars
    PROVE  BoundInv'
  <1> SUFFICES ASSUME opt.s # 0, NoStray', NoStray
               PROVE  IF pc' \in Aborted THEN exit_stat' <= InitialStarts(opt)
                      ELSE exit_stat' + Pending' + num_active' <= InitialStarts(opt) - starts'
    BY OptKept, StrayStays DEF BoundInv, InitialStarts
  <1>0. /\ opt \in Options /\ InitialStarts(opt) \in Nat /\ starts \in Nat
        /\ exit_stat \in Nat /\ Pending \in {0, 1} /\ Pending' \in {0, 1}
    BY InitialStartsIs DEF TypeOK, OptType, ResultType, StartsInv, Pending
  <1>1. CASE pc \in Aborted
    BY <1>1, AbortedStays DEF BoundInv
  <1>2. CASE pc \notin Aborted
    <2>0. exit_stat + Pending + num_active <= InitialStarts(opt) - starts /\ num_active \in Nat
      BY <1>2, ActiveNatural DEF BoundInv, Aborted, SlotInv
    <2>1. CASE Reap
      BY <1>0, <2>0, <2>1, ReapIs DEF Aborted, Pending
    <2>2. CASE HandleError
      <3>1. num_active' = num_active
        BY <2>2, HandleErrorIs DEF slotVars
      <3> QED BY <1>0, <2>0, <2>2, <3>1, HandleErrorIs DEF Aborted
    <2>3. CASE PickSlot \/ ForkChild
      <3>1. UNCHANGED <<starts, num_active>>
        BY <2>3 DEF PickSlot, ForkChild, schedVars, slotVars
      <3>2. ~Reap /\ ~HandleError
        BY <2>3 DEF PickSlot, ForkChild, Reap, HandleError
      <3> QED BY <1>0, <2>0, <3>1, <3>2, ResultSteps
    <2>4. CASE MarkChild
      <3>1. starts > 0 /\ starts' = starts - 1 /\ num_active' = num_active + 1
        BY <1>0, <2>4 DEF MarkChild, StartsInv
      <3>2. ~Reap /\ ~HandleError
        BY <2>4 DEF MarkChild, Reap, HandleError
      <3> QED BY <1>0, <2>0, <3>1, <3>2, ResultSteps
    <2>5. CASE ~Reap /\ ~HandleError /\ ~PickSlot /\ ~ForkChild /\ ~MarkChild
      <3>1. starts' = starts /\ num_active' \in {num_active, num_active - 1}
        BY <2>5, StartSteps
      <3>2. exit_stat' = exit_stat /\ (Pending' = Pending \/ pc' \in Aborted)
        BY <2>5, ResultSteps
      <3> QED BY <1>0, <2>0, <3>1, <3>2
    <2> QED BY <2>1, <2>2, <2>3, <2>4, <2>5
  <1> QED BY <1>1, <1>2

LEMMA StartsTheorem == Spec => [](StartsInv /\ BoundInv)
  <1>1. Init => StartsInv /\ BoundInv
    BY StartsInit, BoundInit
  <1>2. /\ TypeOK /\ Shape /\ SlotInv /\ DrainInv /\ ZooInv /\ ZooInv'
        /\ StartsInv /\ BoundInv /\ [AnyNext]_vars
        => StartsInv' /\ BoundInv'
    BY StartsNext, BoundNext
  <1> QED BY <1>1, <1>2, StepIsAny, TypeTheorem, SlotInvHolds, GroupTheorem, PTL DEF Spec

(* A run with a start count adds at most one to its exit status for each   *)
(* start that it counts, as long as there is no stray: with fewer than 256 *)
(* of them exit() loses nothing.                                           *)
THEOREM ExitBoundTheorem == Spec => [](opt.s # 0 /\ NoStray => exit_stat <= InitialStarts(opt))
  <1>1. TypeOK /\ Shape /\ SlotAccounting /\ StartsInv /\ BoundInv
        => (opt.s # 0 /\ NoStray => exit_stat <= InitialStarts(opt))
    <2> SUFFICES ASSUME TypeOK, Shape, SlotAccounting, StartsInv, BoundInv, opt.s # 0, NoStray
                 PROVE  exit_stat <= InitialStarts(opt)
      OBVIOUS
    <2>1. exit_stat \in Nat /\ starts \in Nat /\ Pending \in {0, 1} /\ InitialStarts(opt) \in Nat
      BY InitialStartsIs, PendingType DEF TypeOK, ResultType, StartsInv, OptType
    <2>2. pc \notin Aborted => num_active \in Nat
      BY ActiveNatural DEF Aborted
    <2> QED BY <2>1, <2>2 DEF BoundInv
  <1> QED BY <1>1, StartsTheorem, TypeTheorem, SlotTheorem, PTL

----------------------------------------------------------------------------
(* StartsHonoured.                                                         *)

LEMMA StopInit == Init => StopInv
  BY DEF Init, StopInv

LEMMA StopNext ==
    ASSUME TypeOK, Shape, SlotInv, DrainInv, Undisturbed => NothingLost, StartsInv, StopInv,
           [AnyNext]_vars
    PROVE  StopInv'
  <1> SUFFICES ASSUME ~hist'.interrupted
               PROVE  /\ stop' => starts' = 0
                      /\ \/ draining'
                         \/ rec_signal' = None /\ pc' \notin {"kill", "reset_send", "reset_rec"}
    BY DEF StopInv
  <1>0. HistType /\ SchedType /\ c \in Cmds
    BY DEF TypeOK, ControlType
  <1>1. CASE \/ MarkSelf \/ PreallocMark \/ PreallocClear \/ LeaveStartLoop \/ ForkFails \/ ExecDone
             \/ ExecFailed \/ ForgetChild \/ ForkChild \/ NoSignal \/ SeeUsr2 \/ SeeSignal \/ KillSlot \/ KillOrphans
             \/ ResetSend \/ ReapOrphans \/ EnterWait \/ Reap \/ ClearChild \/ CheckOrphan
             \/ OrphansLeft \/ Nap \/ Finish
    <2>1. UNCHANGED <<stop, starts, draining>>
      BY <1>1 DEF MarkSelf, PreallocMark, PreallocClear, LeaveStartLoop, ForkFails, ExecDone,
           ExecFailed, ForgetChild, ForkChild, NoSignal, SeeUsr2, SeeSignal, KillSlot, KillOrphans, ResetSend, ReapOrphans,
           EnterWait, Reap, ClearChild, CheckOrphan, OrphansLeft, Nap, Finish, schedVars
    <2>2. hist'.interrupted = hist.interrupted
      BY <1>0, <1>1, ForkHist, StrayHist DEF HistType, MarkSelf, PreallocMark, PreallocClear,
           LeaveStartLoop, ForkFails, ExecDone, ExecFailed, ForgetChild, NoSignal, SeeUsr2, SeeSignal, KillSlot, KillOrphans,
           ResetSend, ReapOrphans, EnterWait, Reap, ClearChild, CheckOrphan, OrphansLeft, Nap,
           Finish
    <2>3. /\ stop => starts = 0
          /\ draining \/ (rec_signal = None /\ pc \notin {"kill", "reset_send", "reset_rec"})
      BY <2>2 DEF StopInv
    <2>4. draining \/ (rec_signal' = None /\ pc' \notin {"kill", "reset_send", "reset_rec"})
      BY <1>1, <2>3 DEF MarkSelf, PreallocMark, PreallocClear, LeaveStartLoop, ForkFails, ExecDone,
           ExecFailed, ForgetChild, ForkChild, NoSignal, SeeUsr2, SeeSignal, KillSlot, KillOrphans, ResetSend, ReapOrphans,
           EnterWait, Reap, ClearChild, CheckOrphan, OrphansLeft, Nap, Finish, sigVars, None,
           DrainInv
    <2> QED BY <2>1, <2>3, <2>4
  <1>2. CASE PickSlot
    <2>0. UNCHANGED hist /\ NoStray /\ SlotAccounting
      BY <1>2 DEF PickSlot, Undisturbed, NothingLost, SlotInv
    <2>1. UNCHANGED <<stop, starts, draining, rec_signal, hist>> /\ pc' = "fork"
      BY <1>2, <2>0, SlotFree DEF PickSlot, schedVars, sigVars
    <2> QED BY <2>1 DEF StopInv
  <1>3. CASE MarkChild
    <2>1. /\ UNCHANGED <<hist, stop, draining, rec_signal>> /\ pc = "mark" /\ pc' = "start"
          /\ starts = 0 => starts' = 0
      BY <1>3 DEF MarkChild, sigVars
    <2> QED BY <2>1 DEF StopInv
  <1>4. CASE CheckStop
    <2>1. /\ UNCHANGED <<starts, draining, rec_signal>> /\ pc' = "test"
          /\ stop' => stop \/ starts = 0 \/ (starts = -1 /\ stopfile)
          /\ hist'.interrupted = (hist.interrupted \/ (starts = -1 /\ stopfile))
      BY <1>0, <1>4 DEF CheckStop, MustStop, sigVars, HistType
    <2> QED BY <2>1 DEF StopInv
  <1>5. CASE ResetRec
    <2>1. hist' = hist /\ pc = "reset_rec" /\ UNCHANGED <<starts, draining>>
      BY <1>5 DEF ResetRec
    <2>2. draining /\ (stop => starts = 0)
      BY <2>1 DEF StopInv
    <2> QED BY <1>5, <2>1, <2>2 DEF ResetRec
  <1>6. CASE HandleError
    <2>1. ~(err /\ opt.has_brakes) /\ UNCHANGED <<hist, sigVars>>
      BY <1>0, <1>6 DEF HandleError, HistType
    <2> QED BY <1>6, <2>1 DEF HandleError, StopInv, sigVars
  <1>7. CASE EndRound
    <2>1. /\ UNCHANGED <<hist, stop, starts, rec_signal>> /\ pc' \in {"start", "drain"}
          /\ draining => draining'
      BY <1>7 DEF EndRound, wait_handler, sigVars, None
    <2> QED BY <2>1 DEF StopInv
  <1>8. CASE AnyWorld \/ UNCHANGED vars
    <2>1. /\ UNCHANGED <<stop, starts, draining, rec_signal>>
          /\ hist'.interrupted = hist.interrupted
          /\ pc' \in {pc, "killed"}
      <3>1. ASSUME NEW sig \in Signals, Signal(sig)
            PROVE  /\ UNCHANGED <<stop, starts, draining, rec_signal, hist>>
                   /\ pc' = "killed"
        <4>1. Fatal(sig)
          BY <3>1, SignalIs
        <4> QED BY <3>1, <4>1, SignalIs DEF schedVars, sigVars
      <3>2. ASSUME NEW p \in Pids, ChildEnds(p) \/ ChildForks(p) \/ OthersEnd(p)
            PROVE  /\ UNCHANGED <<stop, starts, draining, rec_signal, pc>>
                   /\ hist'.interrupted = hist.interrupted
        BY <3>2, ChildEndsIs DEF ChildEnds, ChildForks, OthersEnd, worldUnchanged, schedVars,
             sigVars
      <3>3. CASE TouchStopFile \/ UNCHANGED vars
        BY <3>3 DEF TouchStopFile, worldUnchanged, vars, schedVars, sigVars
      <3> QED BY <1>8, <3>1, <3>2, <3>3 DEF AnyWorld
    <2> QED BY <2>1 DEF StopInv
  <1> QED BY <1>1, <1>2, <1>3, <1>4, <1>5, <1>6, <1>7, <1>8 DEF AnyNext, PanStep, Ended

LEMMA RoundInit == Init => RoundInv
  <1> SUFFICES ASSUME Init PROVE RoundInv
    OBVIOUS
  <1>1. \A k \in Cmds : hist.ran[k] = 0 /\ ~(k < Turn)
    BY DEF Init, Turn, Cmds
  <1> QED BY <1>1 DEF RoundInv, Evenly

(* Where the commands stand once the current one has run and the turn has  *)
(* passed to t.                                                            *)
Standing(t, n) == \A k \in Cmds : hist.ran[k] = IF k < t THEN n + 1 ELSE n

LEMMA RefusedSteps ==
    ASSUME TypeOK, Shape, [AnyNext]_vars, ~ForkChild, ~ForkFails
    PROVE  hist'.refused = hist.refused
  <1>0. HistType
    BY DEF TypeOK
  <1>1. CASE PanStep
    <2>1. \/ hist' = hist
          \/ \E x \in BOOLEAN : hist' = [hist EXCEPT !.interrupted = x]
          \/ hist' = [hist EXCEPT !.strays = hist.strays + 1]
      BY <1>0, <1>1, Zenon DEF PanStep, MarkSelf, PreallocMark, PreallocClear, LeaveStartLoop, PickSlot,
           ExecDone, MarkChild, ExecFailed, ForgetChild, CheckStop, NoSignal, SeeUsr2, SeeSignal,
           KillSlot, KillOrphans, ResetSend, ResetRec, ReapOrphans, EnterWait, Reap, ClearChild,
           CheckOrphan, HandleError, EndRound, OrphansLeft, Nap, Finish
    <2> QED BY <1>0, <2>1, StrayHist DEF HistType
  <1>2. CASE AnyWorld \/ UNCHANGED vars
    <2>1. ASSUME NEW sig \in Signals, Signal(sig) PROVE hist'.refused = hist.refused
      BY <2>1, SignalIs DEF SameCounts
    <2>2. ASSUME NEW p \in Pids, ChildEnds(p) \/ ChildForks(p) \/ OthersEnd(p)
          PROVE  hist'.refused = hist.refused
      BY <2>2, ChildEndsIs DEF ChildForks, OthersEnd
    <2>3. CASE TouchStopFile \/ UNCHANGED vars
      BY <2>3 DEF TouchStopFile, vars
    <2> QED BY <1>2, <2>1, <2>2, <2>3 DEF AnyWorld
  <1> QED BY <1>1, <1>2 DEF AnyNext, Ended

(* The turn passes to the next command when run_child() returns.           *)
LEMMA TurnPasses ==
    ASSUME TypeOK, RoundInv, opt.sequential, ~hist.refused, opt.s # 0,
           pc \in {"waitpid", "mark"}, c' = NextCmd, pc' = "start"
    PROVE  \E n \in Nat : \A k \in Cmds : hist.ran[k] = IF k < Turn' THEN n + 1 ELSE n
  <1>0. c \in 0 .. Cnt - 1 /\ Cnt \in Nat \ {0} /\ hist.ran \in [Cmds -> Nat]
    BY CntAssumption DEF TypeOK, HistType, ControlType, Cmds
  <1>1. PICK n \in Nat : \A k \in Cmds : hist.ran[k] = IF k < c + 1 THEN n + 1 ELSE n
    BY DEF RoundInv, Turn, Aborted
  <1>2. Turn' = IF c + 1 >= Cnt THEN 0 ELSE c + 1
    BY DEF NextCmd, Turn
  <1>3. CASE c + 1 >= Cnt
    <2>1. \A k \in Cmds : hist.ran[k] = n + 1 /\ ~(k < Turn')
      BY <1>0, <1>1, <1>2, <1>3 DEF Cmds
    <2> QED BY <2>1
  <1>4. CASE ~(c + 1 >= Cnt)
    BY <1>1, <1>2, <1>4
  <1> QED BY <1>3, <1>4

LEMMA RoundNext ==
    ASSUME TypeOK, Shape, StartsInv, RoundInv, [AnyNext]_vars
    PROVE  RoundInv'
  <1>0. /\ opt' = opt /\ HistType /\ c \in 0 .. Cnt - 1 /\ c \in Cmds /\ Cnt \in Nat \ {0}
        /\ hist.ran \in [Cmds -> Nat]
    BY OptKept, CntAssumption DEF TypeOK, HistType, ControlType, Cmds
  <1>1. CASE PickSlot
    <2>1. UNCHANGED hist /\ pc = "start" /\ pc' \in {"fork", "signals"} /\ (opt.sequential => c' = c)
      BY <1>1 DEF PickSlot
    <2>2. opt.sequential => Turn' = Turn
      BY <2>1 DEF Turn
    <2> QED BY <1>0, <2>1, <2>2 DEF RoundInv, Evenly, Aborted
  <1>2. CASE ForkChild
    <2>1. pc = "fork" /\ pc' = "read" /\ UNCHANGED c
      BY <1>2 DEF ForkChild
    <2>2. /\ hist'.refused = (hist.refused \/ (starts # -1 /\ c \in BadCmds))
          /\ hist'.ran = IF starts = -1 \/ c \in BadCmds THEN hist.ran
                         ELSE [hist.ran EXCEPT ![c] = hist.ran[c] + 1]
      BY <1>0, <1>2, ForkHist
    <2>3. CASE opt.s = 0
      <3>1. hist'.ran = hist.ran /\ hist'.refused = hist.refused
        BY <1>0, <2>2, <2>3 DEF StartsInv, HistType
      <3> QED BY <1>0, <2>3, <3>1 DEF RoundInv, Evenly
    <2>5. CASE opt.s # 0 /\ c \in BadCmds
      <3>1. starts # -1
        BY <2>5 DEF StartsInv
      <3>2. hist'.refused
        BY <2>2, <2>5, <3>1, Zenon
      <3> QED BY <1>0, <2>5, <3>2 DEF RoundInv
    <2>4. CASE opt.s # 0 /\ c \notin BadCmds
      <3>1. hist'.ran = [hist.ran EXCEPT ![c] = hist.ran[c] + 1] /\ hist'.refused = hist.refused
        BY <1>0, <2>2, <2>4 DEF StartsInv, HistType
      <3>2. ASSUME opt.sequential, ~hist.refused
            PROVE  \E n \in Nat : Standing(Turn, n)'
        <4>1. PICK n \in Nat : \A k \in Cmds : hist.ran[k] = IF k < c THEN n + 1 ELSE n
          BY <2>1, <2>4, <3>2 DEF RoundInv, Turn, Aborted
        <4>2. \A k \in Cmds : hist'.ran[k] = IF k < c + 1 THEN n + 1 ELSE n
          BY <1>0, <3>1, <4>1 DEF Cmds
        <4>3. Turn' = c + 1
          BY <2>1 DEF Turn
        <4> QED BY <4>2, <4>3 DEF Standing
      <3>3. Turn' \in Int
        BY <1>0, <2>1 DEF Turn
      <3>4. (\E n \in Nat : Standing(Turn, n)') => Evenly'
        BY <3>3 DEF Standing, Evenly
      <3> QED BY <1>0, <2>4, <3>1, <3>2, <3>4 DEF RoundInv, Standing
    <2> QED BY <2>3, <2>4, <2>5
  <1>3. CASE ForkFails
    <2>1. /\ hist'.refused = (hist.refused \/ starts # -1) /\ hist'.ran = hist.ran
      BY <1>0, <1>3 DEF ForkFails, HistType
    <2>2. opt.s # 0 => starts # -1
      BY DEF StartsInv
    <2> QED BY <1>0, <2>1, <2>2 DEF RoundInv, Evenly
  <1>4. CASE ~PickSlot /\ ~ForkChild /\ ~ForkFails
    <2>1. hist'.ran = hist.ran /\ hist'.refused = hist.refused
      <3>1. CASE MarkChild
        BY <3>1 DEF MarkChild
      <3>2. CASE ~MarkChild
        BY <1>4, <3>2, StartSteps, RefusedSteps
      <3> QED BY <3>1, <3>2
    <2>2. pc \in Aborted => pc' \in Aborted
      BY AbortedStays
    <2>3. \/ pc' \in Aborted
          \/ Turn' = Turn
          \/ pc \in {"waitpid", "mark"} /\ c' = NextCmd /\ pc' = "start"
      <3>1. CASE MarkChild
        BY <3>1 DEF MarkChild
      <3>2. CASE ~MarkChild
        BY <1>4, <3>2, StartPlaces DEF Aborted, Turn, Starting
      <3> QED BY <3>1, <3>2
    <2>4. CASE pc' \in Aborted \/ Turn' = Turn
      <3>1. (opt.s = 0 => \A k \in Cmds : hist'.ran[k] = 0)
            /\ (opt.sequential /\ ~hist.refused => Evenly')
        BY <2>1 DEF RoundInv, Evenly
      <3>2. ASSUME opt.sequential, ~hist.refused, opt.s # 0, pc' \notin Aborted
            PROVE  \E n \in Nat : \A k \in Cmds : hist'.ran[k] = IF k < Turn' THEN n + 1 ELSE n
        BY <2>1, <2>2, <2>4, <3>2 DEF RoundInv
      <3> QED BY <1>0, <2>1, <3>1, <3>2 DEF RoundInv
    <2>5. CASE pc \in {"waitpid", "mark"} /\ c' = NextCmd /\ pc' = "start"
      <3>1. opt.sequential /\ ~hist.refused /\ opt.s # 0 =>
              \E n \in Nat : \A k \in Cmds : hist'.ran[k] = IF k < Turn' THEN n + 1 ELSE n
        BY <2>1, <2>5, TurnPasses
      <3> QED BY <1>0, <2>1, <3>1 DEF RoundInv, Evenly
    <2> QED BY <2>3, <2>4, <2>5
  <1> QED BY <1>1, <1>2, <1>3, <1>4

(* A run that nobody interrupts starts exactly as many commands as it was  *)
(* asked to, and sequential mode goes round the collection.                *)
THEOREM StartsHonouredTheorem == Spec => []StartsHonoured
  <1> DEFINE Inv == StopInv /\ RoundInv
  <1>1. Init => Inv
    BY StopInit, RoundInit
  <1>2. /\ TypeOK /\ Shape /\ SlotInv /\ DrainInv /\ (Undisturbed => NothingLost) /\ StartsInv
        /\ Inv /\ [AnyNext]_vars
        => Inv'
    BY StopNext, RoundNext
  <1>3. TypeOK /\ DrainInv /\ LateInv /\ StartsInv /\ Inv => StartsHonoured
    <2> SUFFICES ASSUME TypeOK, DrainInv, LateInv, StartsInv, Inv PROVE StartsHonoured
      OBVIOUS
    <2>1. ASSUME pc = "done", ~hist.interrupted, opt.s # 0
          PROVE  hist.started = InitialStarts(opt)
      <3>1. stop
        BY <2>1 DEF DrainInv, LateInv
      <3>2. starts = 0
        BY <2>1, <3>1 DEF StopInv
      <3>n. InitialStarts(opt) \in Int
        BY <2>1, InitialStartsIs DEF TypeOK, OptType
      <3>3. hist.started = InitialStarts(opt) - 0
        BY <2>1, <3>2, <3>n DEF StartsInv, Aborted, Uncounted
      <3> QED BY <3>3, <3>n
    <2>2. opt.sequential /\ ~hist.refused => Evenly
      BY DEF RoundInv
    <2> QED BY <2>1, <2>2 DEF StartsHonoured, Evenly
  <1>4. Spec => []LateInv
    BY LateInit, LateNext, StepIsAny, TypeTheorem, PTL DEF Spec
  <1>5. Spec => []Inv
    BY <1>1, <1>2, StepIsAny, TypeTheorem, SlotInvHolds, GroupTheorem, RestartTheorem,
       StartsTheorem, PTL DEF Spec
  <1> QED BY <1>3, <1>4, <1>5, TypeTheorem, GroupTheorem, StartsTheorem, PTL
============================================================================
