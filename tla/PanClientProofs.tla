-------------------------- MODULE PanClientProofs --------------------------
(***************************************************************************)
(* What pan's theorems give the programs around it: test_runner.sh, whose  *)
(* verdict and clean-up depend on how pan ends, and bump, which signals    *)
(* pan and writes to pan's zoo.                                            *)
(***************************************************************************)
EXTENDS TestRunner, Bump, PanResultProofs

----------------------------------------------------------------------------
(* test_runner.sh.                                                         *)

(* pan has not been started. *)
Fresh == pc = "mark_self" /\ Quiescent /\ hist.failed = 0

PanOver == {"cleanup", "trap", "gone"}

ScriptInv ==
    /\ rpc \in {"sanity_check", "pan"} \cup PanOver
    /\ rpc = "sanity_check" => Fresh /\ VALUE = 0
    /\ rpc \in PanOver => Fresh \/ pc \in Terminal

(* Without SA_RESETHAND a signal kills pan only before it handles signals, *)
(* when it has started no test, or where it makes pan drop one.            *)
KillInv ==
    "RESETHAND" \notin sa_flags => dfl = {} /\ (pc = "killed" => Quiescent \/ Dropped # {})

VerdictInv ==
    rpc \in PanOver /\ VALUE = 0 /\ NoStray => hist.failed = 0 /\ pc \in {"mark_self", "done"}

(* The script looks at pan's own status, and pan counts the failures and   *)
(* cannot count past what exit() passes on.                                *)
StatusReaches ==
    ~OO_LOG /\ \A o \in Options : o.track_exit_stats /\ o.s # 0 /\ InitialStarts(o) < 256

(* Whatever the script does, pan takes only steps of its own.              *)
LEMMA RunnerStep == [RNext]_rvars => [Next]_vars
  BY DEF RNext, SanityCheck, PanReported, cleanup, PanRuns, Gone, rvars

(* So everything that is proved about pan holds under the script.          *)
THEOREM RunnerRunsPan == RSpec => Spec
  <1>1. RInit => Init
    BY DEF RInit
  <1> QED BY <1>1, RunnerStep, PTL DEF RSpec, Spec

(* pan's own invariants, as the script's proofs use them.                  *)
PanInv == TypeOK /\ Shape /\ FollowInv /\ ZooInv /\ DrainInv

LEMMA PanUnderScript == RSpec => []PanInv
  BY RunnerRunsPan, TypeTheorem, GroupTheorem, PTL DEF PanInv

LEMMA ScriptInit == RInit => ScriptInv /\ KillInv
  BY DEF RInit, Init, ScriptInv, KillInv, Fresh, Quiescent, GroupExists

LEMMA TerminalStays ==
    ASSUME PanInv, pc \in Terminal, [AnyNext]_vars
    PROVE  /\ pc' = pc /\ UNCHANGED zoo
           /\ \A p \in Pids : GroupExists(p)' => GroupExists(p)
           /\ hist'.dropped = hist.dropped /\ (NoStray' => NoStray)
           /\ pc = "done" /\ NoStray => hist'.failed = hist.failed
  <1>1. AnyWorld \/ UNCHANGED vars
    BY DEF Terminal, AnyNext, Ended, PanStep, MarkSelf, PreallocMark, PreallocClear,
           LeaveStartLoop, PickSlot, ForkChild, ForkFails, ExecDone, MarkChild, ExecFailed,
           ForgetChild, CheckStop, NoSignal, SeeUsr2, SeeSignal, KillSlot, KillOrphans, ResetSend, ResetRec, ReapOrphans, EnterWait,
           Reap, ClearChild, CheckOrphan, HandleError, EndRound, OrphansLeft, Nap, Finish
  <1>2. /\ UNCHANGED zoo /\ \A p \in Pids : GroupExists(p)' => GroupExists(p)
        /\ hist'.dropped = hist.dropped /\ hist'.strays = hist.strays
    BY <1>1, WorldSteps DEF AnyWorld, PanInv, Drops, Terminal
  <1>3. pc' = pc
    BY <1>1 DEF AnyWorld, Signal, ChildEnds, ChildForks, OthersEnd, TouchStopFile, worldUnchanged,
           vars
  <1>4. ASSUME pc = "done", NoStray PROVE hist'.failed = hist.failed
    <2>1. \A p \in Pids : Alive(p) => p \in hist.dropped
      BY <1>4 DEF PanInv, DrainInv, Children, None, Alive, Dropped
    <2>2. ASSUME NEW p \in Pids, ChildEnds(p) PROVE hist'.failed = hist.failed
      BY <2>1, <2>2, ChildEndsIs DEF PanInv
    <2>3. CASE ~\E p \in Pids : ChildEnds(p)
      BY <1>1, <1>4, <2>3 DEF AnyWorld, Signal, ChildForks, OthersEnd, TouchStopFile, vars, Terminal
    <2> QED BY <2>2, <2>3
  <1> QED BY <1>2, <1>3, <1>4 DEF NoStray

LEMMA ScriptNext ==
    ASSUME PanInv, ScriptInv, [RNext]_rvars
    PROVE  ScriptInv'
  <1>1. CASE SanityCheck \/ PanReported \/ cleanup \/ Gone \/ UNCHANGED rvars
    <2>1. UNCHANGED vars
      BY <1>1 DEF SanityCheck, PanReported, cleanup, Gone, rvars
    <2>2. /\ pc' = pc /\ (Fresh' <=> Fresh)
      BY <2>1 DEF vars, Fresh, Quiescent, GroupExists
    <2> QED BY <1>1, <2>2 DEF SanityCheck, PanReported, cleanup, Gone, rvars, runnerVars, ScriptInv,
                PanOver, CommandOver
  <1>2. CASE PanRuns
    <2>1. [Next]_vars /\ UNCHANGED <<rpc, VALUE>> /\ (rpc = "pan" \/ pc \in Terminal)
      BY <1>2 DEF PanRuns, runnerVars
    <2>2. pc \in Terminal => pc' = pc
      BY <2>1, StepIsAny, TerminalStays
    <2>3. rpc = "sanity_check" => pc \notin Terminal
      BY DEF ScriptInv, Fresh, Terminal
    <2> QED BY <2>1, <2>2, <2>3 DEF ScriptInv, PanOver
  <1> QED BY <1>1, <1>2 DEF RNext

LEMMA KillNext ==
    ASSUME PanInv, KillInv, [Next]_vars
    PROVE  KillInv'
  <1>0. UNCHANGED sa_flags
    BY DEF Next, PanStep, World, Ended, vars, optVars, MarkSelf, PreallocMark, PreallocClear,
           LeaveStartLoop, PickSlot, ForkChild, ForkFails, ExecDone, MarkChild, ExecFailed,
           ForgetChild, CheckStop, NoSignal, SeeUsr2, SeeSignal, KillSlot, KillOrphans, ResetSend, ResetRec, ReapOrphans, EnterWait,
           Reap, ClearChild, CheckOrphan, HandleError, EndRound, OrphansLeft, Nap, Finish, Signal,
           ChildEnds, ChildForks, OthersEnd, TouchStopFile, worldUnchanged
  <1> SUFFICES ASSUME "RESETHAND" \notin sa_flags
               PROVE  dfl' = {} /\ (pc' = "killed" => Quiescent' \/ Dropped' # {})
    BY <1>0 DEF KillInv
  <1>1. dfl = {} /\ (pc = "killed" => Quiescent \/ Dropped # {})
    BY DEF KillInv
  <1>2. ASSUME NEW sig \in UserSignals, Signal(sig)
        PROVE  dfl' = {} /\ (pc' = "killed" => Quiescent' \/ Dropped' # {})
    <2>1. sig # "KILL"
      BY SignalsAssumption
    <2>2. CASE Fatal(sig)
      <3>1. pc \in Startup /\ dfl' = dfl /\ proc' = proc
        BY <1>1, <1>2, <2>1, <2>2 DEF Fatal, Signal
      <3>2. Quiescent \/ Dropped # {}
        BY <3>1 DEF PanInv, FollowInv, Startup, Aborted, Quiescent
      <3>3. hist' = hist
        BY <1>2, <2>2 DEF Signal
      <3> QED BY <1>1, <3>1, <3>2, <3>3 DEF Quiescent, GroupExists, Dropped
    <2>3. CASE ~Fatal(sig)
      <3>1. dfl' = dfl
        BY <1>2, <2>3 DEF Signal
      <3>2. pc' = "killed" => hist'.dropped # {}
        <4>1. pc # "killed" /\ (NotInterrupted \/ WaitInterrupted \/ ReadInterrupted
                                                             \/ WaitpidInterrupted)
          BY <1>2, <2>3 DEF Signal, Terminal
        <4>2. CASE NotInterrupted \/ WaitInterrupted \/ WaitpidInterrupted
          BY <4>1, <4>2 DEF NotInterrupted, WaitInterrupted, WaitpidInterrupted
        <4>3. CASE ReadInterrupted
          <5>1. HistType /\ cpid \in Pids /\ hist' = Handled({cpid})
            BY <4>3 DEF ReadInterrupted, PanInv, TypeOK, Shape
          <5>2. cpid \in hist'.dropped
            BY <5>1 DEF Handled, HistType
          <5> QED BY <5>2
        <4> QED BY <4>1, <4>2, <4>3
      <3> QED BY <1>1, <3>1, <3>2 DEF Dropped
    <2> QED BY <2>2, <2>3
  <1>3. CASE PanStep
    <2>1. dfl' = dfl /\ pc' # "killed"
      BY <1>3 DEF PanStep, optVars, MarkSelf, PreallocMark, PreallocClear,
           LeaveStartLoop, PickSlot, ForkChild, ForkFails, ExecDone, MarkChild, ExecFailed,
           ForgetChild, CheckStop, NoSignal, SeeUsr2, SeeSignal, KillSlot, KillOrphans, ResetSend, ResetRec, ReapOrphans, EnterWait,
           Reap, ClearChild, CheckOrphan, HandleError, EndRound, OrphansLeft, Nap, Finish
    <2> QED BY <1>1, <2>1
  <1>4. CASE \/ \E p \in Pids : ChildEnds(p) \/ ChildForks(p) \/ OthersEnd(p)
             \/ TouchStopFile \/ UNCHANGED vars
    <2>1. UNCHANGED <<dfl, pc>>
      BY <1>4 DEF ChildEnds, ChildForks, OthersEnd, TouchStopFile, worldUnchanged, vars, optVars
    <2>2. \A p \in Pids : GroupExists(p)' => GroupExists(p)
      BY <1>4, WorldSteps DEF PanInv
    <2>3. pc = "killed" => hist'.dropped = hist.dropped
      BY <1>4, WorldSteps DEF PanInv, Drops
    <2> QED BY <1>1, <2>1, <2>2, <2>3 DEF Quiescent, Dropped
  <1> QED BY <1>2, <1>3, <1>4 DEF Next, World, Ended

(* The script removes the test directory, the temporary directory and the  *)
(* zoo only when no test that pan has not dropped runs in them any more,   *)
(* whatever signals arrive and whether or not the output goes through tee. *)
THEOREM CleanTheorem == RSpec => []CleanAfterTests
  <1>1. ScriptInv /\ KillInv /\ PanInv => CleanAfterTests
    <2> SUFFICES ASSUME ScriptInv, KillInv, PanInv, "RESETHAND" \notin sa_flags, NoStray,
                        ~DiedDropping, rpc \in PanOver
                 PROVE  OnlyDroppedLeft
      BY DEF CleanAfterTests, PanOver
    <2>1. CASE Fresh
      BY <2>1 DEF Fresh, Quiescent, OnlyDroppedLeft
    <2>2. CASE pc = "done"
      BY <2>2 DEF PanInv, DrainInv, FollowInv, Aborted, OnlyDroppedLeft
    <2>3. CASE pc = "killed"
      BY <2>3 DEF KillInv, DiedDropping, Quiescent, OnlyDroppedLeft
    <2>4. pc # "exit1"
      BY DEF PanInv, ZooInv
    <2> QED BY <2>1, <2>2, <2>3, <2>4 DEF ScriptInv, Terminal
  <1>2. RSpec => []KillInv
    BY ScriptInit, KillNext, RunnerStep, PanUnderScript, PTL DEF RSpec
  <1>3. RSpec => []ScriptInv
    BY ScriptInit, ScriptNext, PanUnderScript, PTL DEF RSpec
  <1> QED BY <1>1, <1>2, <1>3, PanUnderScript, PTL

LEMMA VerdictNext ==
    ASSUME StatusReaches, PanInv, ScriptInv, FailuresCounted,
           opt.s # 0 /\ NoStray => exit_stat <= InitialStarts(opt),
           VerdictInv, [RNext]_rvars
    PROVE  VerdictInv'
  <1>1. CASE SanityCheck
    BY <1>1 DEF SanityCheck, VerdictInv, ScriptInv, Fresh, vars, NoStray
  <1>2. CASE PanReported
    <2>1. UNCHANGED <<pc, hist>> /\ (VALUE' = 0 => ShellStatus = 0)
      BY <1>2 DEF PanReported, vars
    <2>2. ASSUME ShellStatus = 0, NoStray PROVE pc = "done" /\ hist.failed = 0
      <3>1. pc = "done" /\ exit_stat % 256 = 0
        BY <2>2 DEF ShellStatus, StatusReaches, ExitCode
      <3>2. /\ opt.track_exit_stats /\ exit_stat \in Nat /\ hist.failed \in Nat
            /\ exit_stat <= InitialStarts(opt) /\ InitialStarts(opt) < 256
            /\ InitialStarts(opt) \in Nat
        BY <2>2, InitialStartsIs DEF StatusReaches, PanInv, TypeOK, OptType, ResultType, HistType
      <3>3. exit_stat = 0
        BY <3>1, <3>2
      <3> QED BY <2>2, <3>1, <3>2, <3>3 DEF FailuresCounted
    <2> QED BY <2>1, <2>2 DEF VerdictInv, NoStray
  <1>3. CASE cleanup \/ Gone \/ UNCHANGED rvars
    BY <1>3 DEF cleanup, Gone, rvars, runnerVars, vars, VerdictInv, PanOver, NoStray
  <1>4. CASE PanRuns
    <2>1. [Next]_vars /\ UNCHANGED <<rpc, VALUE>> /\ (rpc = "pan" \/ pc \in Terminal)
      BY <1>4 DEF PanRuns, runnerVars
    <2>2. pc \in Terminal => /\ pc' = pc /\ (NoStray' => NoStray)
                             /\ pc = "done" /\ NoStray => hist'.failed = hist.failed
      BY <2>1, StepIsAny, TerminalStays
    <2> QED BY <2>1, <2>2 DEF VerdictInv, PanOver, Terminal
  <1> QED BY <1>1, <1>2, <1>3, <1>4 DEF RNext

(* "pan reported all tests PASS": the script without -o exits with 0 only  *)
(* if no test that pan has not dropped exited with a failure status, as    *)
(* long as there is no stray.  Fewer than 256 starts are needed: exit()    *)
(* passes on eight bits of the count.                                      *)
THEOREM VerdictTheorem == ASSUME StatusReaches PROVE RSpec => []VerdictTold
  <1>1. VerdictInv => VerdictTold
    BY DEF VerdictInv, VerdictTold, PanOver
  <1>2. RInit => VerdictInv
    BY DEF RInit, VerdictInv, PanOver
  <1>3. RSpec => [](FailuresCounted /\ (opt.s # 0 /\ NoStray => exit_stat <= InitialStarts(opt)))
    BY RunnerRunsPan, CountedTheorem, ExitBoundTheorem, PTL
  <1>4. RSpec => []ScriptInv
    BY ScriptInit, ScriptNext, PanUnderScript, PTL DEF RSpec
  <1>5. /\ PanInv /\ ScriptInv /\ FailuresCounted
        /\ (opt.s # 0 /\ NoStray => exit_stat <= InitialStarts(opt))
        /\ VerdictInv /\ [RNext]_rvars
        => VerdictInv'
    BY VerdictNext
  <1> QED BY <1>1, <1>2, <1>3, <1>4, <1>5, PanUnderScript, PTL DEF RSpec

----------------------------------------------------------------------------
(* bump.                                                                   *)

(* pan's line is the first of the file as long as pan lives. *)
LineInv ==
    /\ pc = "mark_self" => zoo = <<>>
    /\ pc \notin Terminal \cup {"mark_self"} => 1 \in DOMAIN zoo /\ zoo[1] = Entry(PanPid, "pan")

(* So bump signals pan or nobody, and clears no line of a pan that lives. *)
NannyInv ==
    /\ bpc \in {"kill", "clear"} => nanny = PanPid \/ pc = "killed"
    /\ bpc = "clear" => pc \in Terminal

PanLine == Entry(PanPid, "pan")

LEMMA PanLineIs == PanLine # Free /\ PanLine.pid = PanPid /\ PanLine.tag = "pan"
  BY DEF PanLine, Entry, Free

(* The zoo operations on other pids leave pan's line where it is.          *)
LEMMA FirstLineKept ==
    ASSUME zoo \in Seq(ZooLines), 1 \in DOMAIN zoo, zoo[1] = PanLine,
           \/ \E p \in Pids \cup Slots, t \in ZTags : zoo_mark(p, t)
           \/ \E p \in Pids \cup Slots : zoo_clear(p)
           \/ \E P \in SUBSET Pids : zoo_clear_each(P)
    PROVE  1 \in DOMAIN zoo' /\ zoo'[1] = PanLine
  <1>0. PanPid \notin Pids \cup Slots
    BY PidsAssumption
  <1>1. ASSUME NEW p, NEW t, zoo_mark(p, t) PROVE 1 \in DOMAIN zoo' /\ zoo'[1] = PanLine
    <2>1. 1 \notin FreeLines
      BY PanLineIs DEF FreeLines, FreeLinesOf
    <2>2. CASE \E k \in FreeLines : zoo' = [zoo EXCEPT ![k] = Entry(p, t)]
      BY <2>1, <2>2
    <2>3. CASE zoo' = Append(zoo, Entry(p, t))
      BY <2>3
    <2> QED BY <1>1, <2>2, <2>3 DEF zoo_mark
  <1>2. ASSUME NEW p \in Pids \cup Slots, zoo_clear(p)
        PROVE  1 \in DOMAIN zoo' /\ zoo'[1] = PanLine
    <2>1. 1 \notin LinesOf(p)
      BY <1>0, PanLineIs DEF LinesOf, LinesIn
    <2>2. CASE \E k \in LinesOf(p) : zoo' = [zoo EXCEPT ![k] = Free]
      BY <2>1, <2>2
    <2> QED BY <1>2, <2>2 DEF zoo_clear
  <1>3. ASSUME NEW P \in SUBSET Pids, zoo_clear_each(P)
        PROVE  1 \in DOMAIN zoo' /\ zoo'[1] = PanLine
    <2>1. \A p \in P : ~IsFirst(1, LinesOf(p))
      BY <1>0, PanLineIs DEF LinesOf, LinesIn, IsFirst
    <2> QED BY <1>3, <2>1 DEF zoo_clear_each
  <1> QED BY <1>1, <1>2, <1>3

LEMMA LineInit == Init => LineInv
  BY DEF Init, LineInv

LEMMA LineNext ==
    ASSUME TypeOK, Shape, LineInv, [AnyNext]_vars
    PROVE  LineInv'
  <1>0. zoo \in Seq(ZooLines) /\ orphans \subseteq Pids /\ ProcType /\ ZooType /\ HistType
    BY DEF TypeOK, ZooType, ProcType
  <1> USE DEF PanLine
  <1>1. CASE MarkSelf
    <2>1. zoo = <<>> /\ pc' = "prealloc" /\ zoo_mark(PanPid, "pan")
      BY <1>1 DEF MarkSelf, LineInv
    <2>2. zoo' = Append(zoo, PanLine)
      BY <2>1 DEF zoo_mark, FreeLines, FreeLinesOf
    <2> QED BY <2>1, <2>2 DEF LineInv
  <1>2. CASE \/ PreallocMark \/ PreallocClear \/ MarkChild \/ ClearChild
             \/ (CheckOrphan /\ GroupExists(cpid)) \/ KillOrphans \/ ReapOrphans
    <2>1. pc \notin Terminal \cup {"mark_self"} /\ pc' # "mark_self"
      BY <1>2 DEF Terminal, PreallocMark, PreallocClear, MarkChild, ClearChild, CheckOrphan,
           KillOrphans, ReapOrphans
    <2>2. \/ \E p \in Pids \cup Slots, t \in ZTags : zoo_mark(p, t)
          \/ \E p \in Pids \cup Slots : zoo_clear(p)
          \/ \E P \in SUBSET Pids : zoo_clear_each(P)
      <3>1. CASE PreallocMark
        <4>1. i \in Slots /\ zoo_mark(i, "pan")
          BY <3>1 DEF PreallocMark, Shape, Startup
        <4> QED BY <4>1 DEF ZTags
      <3>2. CASE PreallocClear
        <4>1. i \in Slots /\ zoo_clear(i)
          BY <3>2 DEF PreallocClear, Shape, Startup
        <4> QED BY <4>1
      <3>3. CASE MarkChild
        <4>1. cpid \in Pids /\ zoo_mark(cpid, "tag")
          BY <3>3 DEF MarkChild, Shape
        <4> QED BY <4>1 DEF ZTags
      <3>4. CASE ClearChild
        <4>1. cpid \in Pids /\ zoo_clear(cpid)
          BY <3>4 DEF ClearChild, Shape
        <4> QED BY <4>1
      <3>5. CASE CheckOrphan /\ GroupExists(cpid)
        <4>1. cpid \in Pids /\ zoo_mark(cpid, "panorphan")
          BY <3>5 DEF CheckOrphan, Shape
        <4> QED BY <4>1 DEF ZTags
      <3>6. CASE KillOrphans \/ ReapOrphans
        <4>1. \E sig : check_orphans(sig)
          BY <3>6 DEF KillOrphans, ReapOrphans
        <4>2. zoo_clear_each(orphans \ orphans')
          BY <1>0, <4>1, OrphanSteps
        <4> QED BY <1>0, <4>2
      <3> QED BY <1>2, <3>1, <3>2, <3>3, <3>4, <3>5, <3>6
    <2>3. 1 \in DOMAIN zoo' /\ zoo'[1] = PanLine
      BY <1>0, <2>1, <2>2, FirstLineKept DEF LineInv
    <2> QED BY <2>1, <2>3 DEF LineInv
  <1>3. CASE \/ ForkChild \/ ExecDone \/ ExecFailed \/ ForgetChild \/ Reap
             \/ (CheckOrphan /\ ~GroupExists(cpid)) \/ Busy \/ KillSlot
    <2>1. UNCHANGED zoo /\ pc \notin Terminal \cup {"mark_self"} /\ pc' # "mark_self"
      <3>1. CASE Busy
        BY <1>0, <3>1, BusySteps DEF Quiet, Terminal
      <3>2. CASE \/ ForkChild \/ ExecDone \/ ExecFailed \/ ForgetChild \/ Reap
                 \/ (CheckOrphan /\ ~GroupExists(cpid)) \/ KillSlot
        BY <3>2 DEF ForkChild, ExecDone, ExecFailed, ForgetChild, Reap, CheckOrphan, KillSlot, Terminal
      <3> QED BY <1>3, <3>1, <3>2
    <2> QED BY <2>1 DEF LineInv
  <1>4. CASE Finish
    BY <1>4 DEF Finish, LineInv, Terminal
  <1>5. CASE AnyWorld \/ UNCHANGED vars
    <2>1. /\ UNCHANGED zoo
          /\ pc' = pc \/ pc' = "killed" \/ (pc \notin Terminal \cup {"mark_self"} /\ pc' # "mark_self")
      BY <1>5, WorldSteps DEF AnyWorld, Drops, Terminal
    <2> QED BY <2>1 DEF LineInv, Terminal
  <1> QED BY <1>1, <1>2, <1>3, <1>4, <1>5 DEF AnyNext, PanStep, Ended, Busy

(* The names that begin with pan are those of pan and of its orphans.      *)
TagInv ==
    pc # "killed" =>
        \A k \in DOMAIN zoo : /\ zoo[k].tag = "pan" => zoo[k].pid \notin Pids
                              /\ zoo[k].tag = "panorphan" => zoo[k].pid \in orphans

LEMMA LinesAfterMark ==
    ASSUME zoo \in Seq(ZooLines), NEW p, NEW t, zoo_mark(p, t), NEW k \in DOMAIN zoo'
    PROVE  \/ zoo'[k].tag = t /\ zoo'[k].pid = p
           \/ k \in DOMAIN zoo /\ zoo'[k] = zoo[k]
  <1>1. Entry(p, t).tag = t /\ Entry(p, t).pid = p
    BY DEF Entry
  <1>2. CASE \E j \in FreeLines : zoo' = [zoo EXCEPT ![j] = Entry(p, t)]
    BY <1>1, <1>2
  <1>3. CASE zoo' = Append(zoo, Entry(p, t))
    BY <1>1, <1>3
  <1> QED BY <1>2, <1>3 DEF zoo_mark

LEMMA LinesAfterClear ==
    ASSUME zoo \in Seq(ZooLines),
           \/ \E p : zoo_clear(p)
           \/ \E P : zoo_clear_each(P),
           NEW k \in DOMAIN zoo'
    PROVE  zoo'[k] = Free \/ (k \in DOMAIN zoo /\ zoo'[k] = zoo[k])
  <1>1. ASSUME NEW p, zoo_clear(p)
        PROVE  zoo'[k] = Free \/ (k \in DOMAIN zoo /\ zoo'[k] = zoo[k])
    BY <1>1 DEF zoo_clear
  <1>2. ASSUME NEW P, zoo_clear_each(P)
        PROVE  zoo'[k] = Free \/ (k \in DOMAIN zoo /\ zoo'[k] = zoo[k])
    BY <1>2 DEF zoo_clear_each
  <1> QED BY <1>1, <1>2

LEMMA TagInit == Init => TagInv
  BY DEF Init, TagInv

LEMMA TagNext ==
    ASSUME TypeOK, Shape, ZooInv, TagInv, [AnyNext]_vars
    PROVE  TagInv'
  <1>0. /\ zoo \in Seq(ZooLines) /\ orphans \subseteq Pids /\ ProcType /\ ZooType /\ HistType
        /\ Free.tag = "#"
    BY DEF TypeOK, ZooType, ProcType, Free, Entry
  <1>a. PanPid \notin Pids /\ \A s \in Slots : s \notin Pids
    BY <1>0, PidsApart
  <1>1. CASE \/ MarkSelf \/ PreallocMark \/ MarkChild \/ (CheckOrphan /\ GroupExists(cpid))
    <2>1. PICK p \in Pids \cup {PanPid} \cup Slots, t \in ZTags :
             /\ zoo_mark(p, t) /\ orphans \subseteq orphans'
             /\ t = "pan" => p \notin Pids
             /\ t = "panorphan" => p \in orphans'
      <3>1. CASE MarkSelf
        BY <1>a, <3>1 DEF MarkSelf, ZTags
      <3>2. CASE PreallocMark
        BY <1>a, <3>2 DEF PreallocMark, Shape, Startup, ZTags
      <3>3. CASE MarkChild
        BY <3>3 DEF MarkChild, Shape, ZTags
      <3>4. CASE CheckOrphan /\ GroupExists(cpid)
        BY <3>4 DEF CheckOrphan, Shape, ZTags
      <3> QED BY <1>1, <3>1, <3>2, <3>3, <3>4
    <2>2. pc # "killed"
      BY <1>1 DEF MarkSelf, PreallocMark, MarkChild, CheckOrphan
    <2> QED BY <1>0, <2>1, <2>2, LinesAfterMark DEF TagInv
  <1>2. CASE PreallocClear \/ ClearChild \/ Finish
    <2>1. (\E p : zoo_clear(p)) /\ pc # "killed" /\ UNCHANGED orphans
      BY <1>2 DEF PreallocClear, ClearChild, Finish
    <2> QED BY <1>0, <2>1, LinesAfterClear DEF TagInv
  <1>3. CASE KillOrphans \/ ReapOrphans
    <2>1. (\E sig : check_orphans(sig)) /\ pc # "killed"
      BY <1>3 DEF KillOrphans, ReapOrphans
    <2>2. zoo_clear_each(orphans \ orphans')
      BY <1>0, <2>1, OrphanSteps
    <2>3. Pids_in_zoo' = Pids_in_zoo \ (orphans \ orphans')
      BY <1>0, <2>1, <2>2, ClearEachRemoves DEF ZooInv
    <2>4. \A k \in DOMAIN zoo' : zoo'[k] # Free => zoo'[k].pid \in Pids_in_zoo'
      BY DEF Pids_in_zoo, FreeLines, FreeLinesOf
    <2>5. \A k \in DOMAIN zoo' : zoo'[k] = Free \/ (k \in DOMAIN zoo /\ zoo'[k] = zoo[k])
      BY <1>0, <2>2, LinesAfterClear
    <2> QED BY <1>0, <2>1, <2>3, <2>4, <2>5 DEF TagInv
  <1>4. CASE \/ ForkChild \/ ExecDone \/ ExecFailed \/ ForgetChild \/ Reap
             \/ (CheckOrphan /\ ~GroupExists(cpid)) \/ Busy \/ KillSlot
    <2>1. UNCHANGED <<zoo, orphans>> /\ pc # "killed"
      <3>1. CASE Busy
        BY <1>0, <3>1, BusySteps DEF Quiet
      <3>2. CASE \/ ForkChild \/ ExecDone \/ ExecFailed \/ ForgetChild \/ Reap
                 \/ (CheckOrphan /\ ~GroupExists(cpid)) \/ KillSlot
        BY <3>2 DEF ForkChild, ExecDone, ExecFailed, ForgetChild, Reap, CheckOrphan, KillSlot
      <3> QED BY <1>4, <3>1, <3>2
    <2> QED BY <2>1 DEF TagInv
  <1>5. CASE AnyWorld \/ UNCHANGED vars
    <2>1. UNCHANGED <<zoo, orphans>> /\ (pc' # "killed" => pc # "killed")
      BY <1>5, WorldSteps DEF AnyWorld, Drops
    <2> QED BY <2>1 DEF TagInv
  <1> QED BY <1>1, <1>2, <1>3, <1>4, <1>5 DEF AnyNext, PanStep, Ended, Busy

(* pan's invariants under the steps of pan and of whoever signals it.      *)
SharedInv ==
    /\ TypeOK /\ Shape /\ SlotInv /\ DrainInv /\ FollowInv /\ ZooInv
    /\ LineInv /\ TagInv

LEMMA SharedInit == Init => SharedInv
  BY InitType, AccountsInit, DrainInit, FollowInit, ZooInit, LineInit, TagInit DEF SharedInv

LEMMA SharedNext == SharedInv /\ [AnyNext]_vars => SharedInv'
  BY TypeNext, AccountsNext, DrainNext, FollowNext, ZooNext, LineNext, TagNext DEF SharedInv

(* A bump of pan's name finds pan's line, or none.                         *)
LEMMA GetpidFinds ==
    ASSUME SharedInv, pc # "killed"
    PROVE  zoo_getpid(StartsWith("pan")) \in {-1, PanPid}
  <1> DEFINE hits == {k \in DOMAIN zoo : zoo[k] # Free /\ zoo[k].tag \in StartsWith("pan")}
  <1>0. zoo \in Seq(ZooLines)
    BY DEF SharedInv, TypeOK, ZooType
  <1>1. CASE pc \in Terminal \cup {"mark_self"}
    <2>2. hits = {}
      <3>1. CASE pc = "mark_self"
        BY <3>1 DEF SharedInv, LineInv
      <3>2. CASE pc = "done"
        <4>1. Pids_in_zoo \subseteq Pids /\ orphans = {}
          BY <3>2, ExpectedIs, PidsApart DEF SharedInv, ZooInv, DrainInv, TypeOK
        <4>2. \A k \in hits : zoo[k].pid \in Pids
          BY <4>1 DEF Pids_in_zoo, FreeLines, FreeLinesOf
        <4>3. \A k \in hits : zoo[k].tag \in {"pan", "panorphan"}
          BY DEF StartsWith
        <4>4. \A k \in hits : FALSE
          <5>1. \A k \in DOMAIN zoo : /\ zoo[k].tag = "pan" => zoo[k].pid \notin Pids
                                      /\ zoo[k].tag = "panorphan" => zoo[k].pid \in orphans
            BY <3>2 DEF SharedInv, TagInv
          <5> QED BY <4>1, <4>2, <4>3, <5>1
        <4> QED BY <4>4
      <3> QED BY <1>1, <3>1, <3>2 DEF Terminal, SharedInv, ZooInv
    <2> QED BY <2>2 DEF zoo_getpid
  <1>2. CASE pc \notin Terminal \cup {"mark_self"}
    <2>1. 1 \in hits /\ zoo[1].pid = PanPid
      BY <1>2, PanLineIs DEF SharedInv, LineInv, PanLine, StartsWith
    <2>2. \A k \in hits : k \in Nat /\ k >= 1
      BY <1>0
    <2>3. \A k \in hits : IsFirst(k, hits) <=> k = 1
      <3> HIDE DEF hits
      <3> QED BY <2>1, <2>2 DEF IsFirst
    <2>4. (CHOOSE k \in hits : IsFirst(k, hits)) = 1
      BY <2>1, <2>3
    <2>5. zoo_getpid(StartsWith("pan")) = zoo[CHOOSE k \in hits : IsFirst(k, hits)].pid
      BY <2>1 DEF zoo_getpid
    <2> QED BY <2>1, <2>4, <2>5
  <1> QED BY <1>1, <1>2

LEMMA BumpNext ==
    ASSUME BumpTags \subseteq {"pan"}, SharedInv, NannyInv, [BNext]_allVars
    PROVE  SharedInv' /\ NannyInv'
  <1>s. PanInv
    BY DEF SharedInv, PanInv
  <1>1. ASSUME [AnyNext]_vars, bpc' = "idle" \/ UNCHANGED <<bpc, nanny>>
        PROVE  SharedInv' /\ NannyInv'
    <2>1. SharedInv'
      BY <1>1, SharedNext
    <2>2. pc \in Terminal => pc' = pc
      BY <1>1, <1>s, TerminalStays
    <2> QED BY <1>1, <2>1, <2>2 DEF NannyInv, Terminal
  <1>2. CASE Next /\ UNCHANGED bumpVars
    BY <1>1, <1>2, StepIsAny DEF bumpVars
  <1>3. CASE BumpStart \/ UNCHANGED allVars
    <2>1. UNCHANGED vars
      BY <1>3 DEF BumpStart, allVars
    <2>2. SharedInv' /\ pc' = pc
      BY <2>1, SharedNext DEF vars
    <2> QED BY <1>3, <2>2 DEF BumpStart, allVars, bumpVars, NannyInv
  <1>4. CASE BumpGetpid("pan")
    <2>1. /\ UNCHANGED vars /\ nanny' = zoo_getpid(StartsWith("pan"))
          /\ bpc' = IF nanny' = -1 THEN "idle" ELSE "kill"
      BY <1>4 DEF BumpGetpid
    <2>2. SharedInv' /\ pc' = pc
      BY <2>1, SharedNext DEF vars
    <2>3. pc # "killed" => nanny' \in {-1, PanPid}
      BY <2>1, GetpidFinds
    <2> QED BY <2>1, <2>2, <2>3 DEF NannyInv
  <1>5. CASE BumpKill
    <2>1. [AnyNext]_vars /\ bpc' = "idle"
      BY <1>5, BumpAssumption DEF BumpKill, AnyNext, AnyWorld
    <2> QED BY <1>1, <2>1
  <1>6. CASE BumpDead
    <2>1. UNCHANGED <<vars, nanny>> /\ bpc = "kill" /\ bpc' = "clear" /\ ~ProcessExists
      BY <1>6 DEF BumpDead
    <2>2. SharedInv' /\ pc' = pc
      BY <2>1, SharedNext DEF vars
    <2>3. pc \in Terminal
      BY <2>1 DEF NannyInv, ProcessExists, Terminal
    <2> QED BY <2>1, <2>2, <2>3 DEF NannyInv
  <1>7. CASE BumpClear
    <2>1. /\ bpc = "clear" /\ bpc' = "idle" /\ zoo_clear(nanny)
          /\ UNCHANGED <<pc, optVars, slotVars, i, cpid, schedVars, c, resVars, orphans, draining,
                         sigVars, proc, envVars, hist>>
      BY <1>7 DEF BumpClear
    <2>2. CASE pc = "killed"
      <3>1. ZooType'
        BY <2>1, ClearType DEF SharedInv, TypeOK, ZooType
      <3>2. ControlType'
        BY <2>1 DEF SharedInv, TypeOK, ControlType
      <3>3. TypeOK'
        BY <2>1, <3>1, <3>2, Kept DEF SharedInv, TypeOK
      <3>4. Shape' /\ SlotInv'
        BY <2>1, <2>2 DEF SharedInv, Shape, SlotInv, SlotAccounting, RunChildInv, Startup
      <3>5. DrainInv'
        BY <2>1 DEF SharedInv, DrainInv, Children, NoStray, Dropped
      <3>6. FollowInv' /\ ZooInv' /\ LineInv' /\ TagInv'
        BY <2>1, <2>2 DEF FollowInv, ZooInv, LineInv, TagInv, Aborted, Terminal
      <3> QED BY <2>1, <3>3, <3>4, <3>5, <3>6 DEF SharedInv, NannyInv
    <2>3. CASE pc # "killed"
      <3>1. pc = "done" /\ nanny = PanPid
        BY <2>1, <2>3 DEF NannyInv, Terminal, SharedInv, ZooInv
      <3>2. PanPid \notin Pids_in_zoo
        BY <3>1, ExpectedIs, PidsApart DEF SharedInv, ZooInv, TypeOK
      <3>3. UNCHANGED zoo
        BY <2>1, <3>1, <3>2, WarnsIs DEF zoo_clear, ClearWarns
      <3>4. UNCHANGED vars
        BY <2>1, <3>3 DEF vars
      <3> QED BY <1>1, <2>1, <3>4
    <2> QED BY <2>2, <2>3
  <1> QED BY <1>2, <1>3, <1>4, <1>5, <1>6, <1>7 DEF BNext, BumpStep

LEMMA BumpInvariance ==
    ASSUME BumpTags \subseteq {"pan"} PROVE BSpec => []SharedInv
  <1>1. BInit => SharedInv /\ NannyInv
    BY SharedInit DEF BInit, NannyInv
  <1>2. SharedInv /\ NannyInv /\ [BNext]_allVars => SharedInv' /\ NannyInv'
    BY BumpNext
  <1> QED BY <1>1, <1>2, PTL DEF BSpec

(* Bumping a pan by its name, with any signal and at any moment, takes no  *)
(* line of a living process out of the zoo; the signal may make pan drop a *)
(* test that has no line yet.                                              *)
THEOREM BumpZooTheorem == ASSUME BumpTags \subseteq {"pan"} PROVE BSpec => []ZooExact
  <1>1. SharedInv => ZooExact
    BY DEF SharedInv, ZooInv, ZooExact, Expected, Startup
  <1> QED BY <1>1, BumpInvariance, PTL

(* Nor does it make pan miss a line and give up, or, if there is no stray, *)
(* leave a test behind that pan has not dropped.                           *)
THEOREM BumpHarmless ==
    ASSUME BumpTags \subseteq {"pan"} PROVE BSpec => [](NeverGivesUp /\ NoTestLeftBehind)
  <1>1. SharedInv => NeverGivesUp /\ NoTestLeftBehind
    BY DEF SharedInv, ZooInv, DrainInv, FollowInv, NeverGivesUp, NoTestLeftBehind,
           OnlyDroppedLeft, Aborted
  <1> QED BY <1>1, BumpInvariance, PTL
============================================================================
