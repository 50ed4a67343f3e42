----------------------------- MODULE PanProofs -----------------------------
(***************************************************************************)
(* Theorems about pan for every number of slots, commands, pids and        *)
(* signals: its types, its bookkeeping of its children, and its reaction   *)
(* to signals.                                                             *)
(***************************************************************************)
EXTENDS PanProperties, FiniteSetTheorems, TLAPS

ZTags == {"pan", "tag", "panorphan"}

(* Whoever can write to the zoo can also signal pan: the lemmas about      *)
(* steps allow every signal, SIGKILL included (bump -s 9), not only those  *)
(* of UserSignals.                                                         *)
AnyWorld ==
    \/ \E sig \in Signals : Signal(sig)
    \/ \E p \in Pids : ChildEnds(p) \/ ChildForks(p) \/ OthersEnd(p)
    \/ TouchStopFile

AnyNext == PanStep \/ AnyWorld \/ Ended

LEMMA StepIsAny == [Next]_vars => [AnyNext]_vars
  BY SignalsAssumption DEF Next, AnyNext, World, AnyWorld

----------------------------------------------------------------------------
(* The zoo operations keep the lines well-formed.                          *)

LEMMA MarkType ==
    ASSUME zoo \in Seq(ZooLines), NEW p \in Pids \cup {PanPid} \cup Slots, NEW t \in ZTags,
           zoo_mark(p, t)
    PROVE  zoo' \in Seq(ZooLines)
  <1>1. Entry(p, t) \in ZooLines
    BY DEF Entry, ZooLines, ZTags
  <1>2. CASE \E k \in FreeLines : zoo' = [zoo EXCEPT ![k] = Entry(p, t)]
    <2>1. PICK k \in DOMAIN zoo : zoo' = [zoo EXCEPT ![k] = Entry(p, t)]
      BY <1>2 DEF FreeLines, FreeLinesOf
    <2> QED BY <1>1, <2>1
  <1>3. CASE zoo' = Append(zoo, Entry(p, t))
    BY <1>1, <1>3
  <1> QED BY <1>2, <1>3 DEF zoo_mark

LEMMA FreeType == Free \in ZooLines
  BY DEF Free, Entry, ZooLines

LEMMA ClearType ==
    ASSUME zoo \in Seq(ZooLines), NEW p, zoo_clear(p)
    PROVE  zoo' \in Seq(ZooLines)
  <1>1. CASE \E k \in LinesOf(p) : zoo' = [zoo EXCEPT ![k] = Free]
    <2>1. PICK k \in DOMAIN zoo : zoo' = [zoo EXCEPT ![k] = Free]
      BY <1>1 DEF LinesOf, LinesIn
    <2> QED BY FreeType, <2>1
  <1>2. CASE UNCHANGED zoo
    BY <1>2
  <1> QED BY <1>1, <1>2 DEF zoo_clear

LEMMA ClearEachType ==
    ASSUME zoo \in Seq(ZooLines), NEW P, zoo_clear_each(P)
    PROVE  zoo' \in Seq(ZooLines)
  <1>1. zoo' \in [1 .. Len(zoo) -> ZooLines]
    BY FreeType DEF zoo_clear_each
  <1> QED BY <1>1

(* The signal handler and check_orphans().                                 *)

LEMMA HandlerType ==
    ASSUME SigType, NEW sig \in (Signals \ {"KILL"}) \cup {None}, wait_handler(sig)
    PROVE  SigType'
  <1>1. sig \in Signals => NextSend(sig) \in Signals \cup {None}
    BY DEF NextSend, SigType, Signals, None
  <1> QED BY <1>1 DEF wait_handler, SigType, None, Signals

LEMMA KilledType ==
    ASSUME NEW pr \in Groups, NEW sig
    PROVE  /\ Killed(pr, sig) \in Groups
           /\ Killed(pr, sig).leader = None <=> pr.leader = None
           /\ Killed(pr, sig).others => pr.others
  BY DEF Killed, Groups, AllOutcomes, None

LEMMA OrphansType ==
    ASSUME zoo \in Seq(ZooLines), proc \in [Pids -> Groups], orphans \subseteq Pids,
           NEW sig, check_orphans(sig)
    PROVE  /\ zoo' \in Seq(ZooLines) /\ proc' \in [Pids -> Groups] /\ orphans' \subseteq orphans
           /\ \A p \in Pids : /\ proc'[p].leader = None <=> proc[p].leader = None
                              /\ proc'[p].others => proc[p].others
  <1> DEFINE gone == {p \in orphans : ~GroupExists(p)}
  <1>1. zoo' \in Seq(ZooLines)
    BY ClearEachType DEF check_orphans
  <1>2. \A p \in Pids : /\ proc'[p] \in Groups
                        /\ proc'[p].leader = None <=> proc[p].leader = None
                        /\ proc'[p].others => proc[p].others
    BY KilledType DEF check_orphans
  <1>3. proc' \in [Pids -> Groups]
    BY <1>2 DEF check_orphans
  <1> QED BY <1>1, <1>2, <1>3 DEF check_orphans

----------------------------------------------------------------------------
(* Types, together with what the slot index and cpid mean where they are   *)
(* used.                                                                   *)

Shape ==
    /\ pc \in Startup \cup {"fork", "read", "mark"} => i \in Slots
    /\ pc \in {"read", "waitpid", "mark", "clear", "orphan"} => cpid \in Pids
    /\ pc \in {"fork", "read"} => IsFree(i)
    /\ pc = "mark" => running[i].pgrp = cpid

LEMMA InitType == Init => TypeOK /\ Shape
  <1> SUFFICES ASSUME Init PROVE TypeOK /\ Shape
    OBVIOUS
  <1>1. opt \in OptionRecords
    BY OptionsAssumption DEF Init
  <1>2. InitialStarts(opt) \in Int
    BY <1>1, KeepActiveAssumption, CntAssumption DEF InitialStarts, OptionRecords
  <1>3. SchedType
    BY <1>1, <1>2 DEF Init, SchedType, OptionRecords
  <1>4. ControlType /\ i \in Slots
    <2>1. pc \in Labels /\ draining \in BOOLEAN
      BY DEF Init, Labels, Startup
    <2>2. i \in 0 .. KeepActive /\ i \in Slots /\ c \in Cmds /\ cpid = 0
      BY KeepActiveAssumption, CntAssumption DEF Init, Cmds, Slots
    <2> QED BY <2>1, <2>2 DEF ControlType
  <1>5. HistType
    BY DEF Init, HistType
  <1>6. ProcType
    BY DEF Init, NoProc, ProcType, Groups
  <1>7. SlotType
    BY DEF Init, FreeSlot, SlotType
  <1>8. OptType /\ ResultType /\ SigType /\ EnvType /\ ZooType
    <2>1. OptType /\ ResultType /\ SigType
      BY DEF Init, OptType, ResultType, SigType
    <2>2. EnvType
      BY SignalsAssumption DEF Init, EnvType
    <2>3. ZooType
      BY DEF Init, ZooType
    <2> QED BY <2>1, <2>2, <2>3
  <1>9. Shape
    BY <1>4 DEF Init, Shape, Startup
  <1> QED BY <1>3, <1>4, <1>5, <1>6, <1>7, <1>8, <1>9 DEF TypeOK

(* What a step leaves alone keeps its type.                                *)
LEMMA Kept ==
    ASSUME TypeOK
    PROVE  /\ UNCHANGED optVars => OptType'
           /\ UNCHANGED slotVars => SlotType'
           /\ UNCHANGED schedVars => SchedType'
           /\ UNCHANGED resVars => ResultType'
           /\ UNCHANGED sigVars => SigType'
           /\ UNCHANGED <<proc, orphans>> => ProcType'
           /\ UNCHANGED envVars => EnvType'
           /\ UNCHANGED hist => HistType'
           /\ UNCHANGED zoo => ZooType'
  BY DEF TypeOK, OptType, SlotType, SchedType, ResultType, SigType, ProcType, EnvType, HistType,
         ZooType, optVars, slotVars, schedVars, resVars, sigVars, envVars

(* Actions that touch neither the processes nor the zoo.                   *)
LEMMA TypeControl ==
    ASSUME TypeOK, Shape,
           \/ LeaveStartLoop \/ NoSignal \/ SeeUsr2 \/ SeeSignal \/ ResetSend
           \/ ResetRec \/ EnterWait \/ OrphansLeft
    PROVE  TypeOK' /\ Shape'
  <1>0. ControlType /\ SigType /\ SchedType /\ ResultType
    BY DEF TypeOK
  <1> USE DEF Shape, ControlType, Labels, Startup, Terminal, IsFree
  <1>1. CASE LeaveStartLoop \/ NoSignal \/ SeeUsr2 \/ OrphansLeft
    <2>1. ControlType' /\ Shape'
      BY <1>0, <1>1 DEF LeaveStartLoop, NoSignal, SeeUsr2, OrphansLeft, slotVars
    <2> QED BY <1>1, <2>1, Kept DEF LeaveStartLoop, NoSignal, SeeUsr2, OrphansLeft, TypeOK
  <1>3. CASE SeeSignal
    <2>1. ControlType' /\ Shape'
      BY <1>0, <1>3, KeepActiveAssumption DEF SeeSignal, slotVars
    <2>2. SigType'
      BY <1>0, <1>3 DEF SeeSignal, SigType, AlarmAsTerm, Signals
    <2>3. SchedType'
      BY <1>0, <1>3 DEF SeeSignal, SchedType
    <2> QED BY <1>3, <2>1, <2>2, <2>3, Kept DEF SeeSignal, TypeOK
  <1>4. CASE ResetSend
    <2>1. ControlType' /\ Shape'
      BY <1>0, <1>4 DEF ResetSend, slotVars
    <2>2. SigType'
      BY <1>0, <1>4 DEF ResetSend, SigType
    <2>3. SchedType'
      BY <1>0, <1>4 DEF ResetSend, SchedType, schedVars
    <2> QED BY <1>4, <2>1, <2>2, <2>3, Kept DEF ResetSend, TypeOK
  <1>5. CASE ResetRec
    <2>1. ControlType' /\ Shape'
      BY <1>0, <1>5 DEF ResetRec, slotVars
    <2>2. SigType'
      BY <1>0, <1>5 DEF ResetRec, SigType
    <2>3. SchedType'
      BY <1>0, <1>5 DEF ResetRec, SchedType, IdleOrStop
    <2> QED BY <1>5, <2>1, <2>2, <2>3, Kept DEF ResetRec, TypeOK
  <1>6. CASE EnterWait
    <2>1. ControlType' /\ Shape'
      BY <1>0, <1>6 DEF EnterWait, slotVars
    <2>2. ResultType'
      BY <1>0, <1>6 DEF EnterWait, ResultType
    <2> QED BY <1>6, <2>1, <2>2, Kept DEF EnterWait, TypeOK
  <1> QED BY <1>1, <1>3, <1>4, <1>5, <1>6

LEMMA TypeStartup ==
    ASSUME TypeOK, Shape, MarkSelf \/ PreallocMark \/ PreallocClear
    PROVE  TypeOK' /\ Shape'
  <1>0. ControlType /\ zoo \in Seq(ZooLines)
    BY DEF TypeOK, ZooType
  <1> USE DEF Shape, ControlType, Labels, Startup, Terminal, IsFree
  <1>1. CASE MarkSelf
    <2>1. ControlType' /\ Shape'
      BY <1>0, <1>1 DEF MarkSelf, slotVars
    <2>2. ZooType'
      BY <1>0, <1>1, MarkType DEF MarkSelf, ZTags, ZooType
    <2> QED BY <1>1, <2>1, <2>2, Kept DEF MarkSelf, TypeOK
  <1>2. CASE PreallocMark
    <2>1. ControlType' /\ Shape'
      BY <1>0, <1>2, KeepActiveAssumption DEF PreallocMark, slotVars, Slots
    <2>2. ZooType'
      BY <1>0, <1>2, MarkType DEF PreallocMark, ZTags, ZooType
    <2> QED BY <1>2, <2>1, <2>2, Kept DEF PreallocMark, TypeOK
  <1>3. CASE PreallocClear
    <2>1. ControlType' /\ Shape'
      BY <1>0, <1>3, KeepActiveAssumption DEF PreallocClear, slotVars, Slots
    <2>2. ZooType'
      BY <1>0, <1>3, ClearType DEF PreallocClear, ZooType
    <2> QED BY <1>3, <2>1, <2>2, Kept DEF PreallocClear, TypeOK
  <1> QED BY <1>1, <1>2, <1>3

(* The history's fields that only pan and its tests write.                 *)
SameCounts ==
    /\ hist'.ran = hist.ran /\ hist'.started = hist.started /\ hist'.refused = hist.refused
    /\ hist'.late = hist.late /\ hist'.failed = hist.failed
    /\ hist'.strays = hist.strays /\ hist'.missed = hist.missed

(* What a fork records.                                                    *)
LEMMA ForkHist ==
    ASSUME HistType, c \in Cmds, ForkChild
    PROVE  /\ HistType'
           /\ hist'.ran = IF starts = -1 \/ c \in BadCmds THEN hist.ran
                          ELSE [hist.ran EXCEPT ![c] = @ + 1]
           /\ hist'.started = IF starts = -1 \/ c \in BadCmds THEN hist.started
                              ELSE hist.started + 1
           /\ hist'.refused = (hist.refused \/ (starts # -1 /\ c \in BadCmds))
           /\ hist'.late = IF hist.seen /\ c \notin BadCmds /\ hist.late < 2
                           THEN hist.late + 1 ELSE hist.late
           /\ hist'.seen = hist.seen /\ hist'.interrupted = hist.interrupted
           /\ hist'.failed = hist.failed /\ hist'.missed = hist.missed
           /\ hist'.strays = hist.strays
           /\ hist'.dropped = hist.dropped \ {cpid'}
  <1> DEFINE r == IF starts = -1 \/ c \in BadCmds THEN hist.ran[c] ELSE hist.ran[c] + 1
             k == IF starts = -1 \/ c \in BadCmds THEN hist.started ELSE hist.started + 1
             f == hist.refused \/ (starts # -1 /\ c \in BadCmds)
             l == IF hist.seen /\ c \notin BadCmds /\ hist.late < 2
                  THEN hist.late + 1 ELSE hist.late
             d == hist.dropped \ {cpid'}
  <1>1. hist.ran \in [Cmds -> Nat] /\ hist.started \in Nat /\ hist.late \in Nat
        /\ hist.refused \in BOOLEAN /\ hist.dropped \in SUBSET Pids
    BY DEF HistType
  <1>2. r \in Nat /\ k \in Nat /\ l \in Nat /\ d \in SUBSET Pids
    BY <1>1
  <1>3. f \in BOOLEAN
    OBVIOUS
  <1>4. hist' = [hist EXCEPT !.ran[c] = r, !.started = k, !.refused = f, !.late = l, !.dropped = d]
    BY DEF ForkChild
  <1>5. [hist.ran EXCEPT ![c] = r] \in [Cmds -> Nat]
    BY <1>1, <1>2
  <1>6. starts = -1 \/ c \in BadCmds => [hist.ran EXCEPT ![c] = r] = hist.ran
    BY <1>1
  <1> HIDE DEF r, k, f, l, d
  <1>7. /\ HistType'
        /\ hist'.ran = [hist.ran EXCEPT ![c] = r] /\ hist'.started = k /\ hist'.refused = f
        /\ hist'.late = l /\ hist'.dropped = d
        /\ hist'.seen = hist.seen /\ hist'.interrupted = hist.interrupted
        /\ hist'.failed = hist.failed /\ hist'.missed = hist.missed
        /\ hist'.strays = hist.strays
    BY <1>2, <1>3, <1>4, <1>5 DEF HistType
  <1>8. hist'.ran = IF starts = -1 \/ c \in BadCmds THEN hist.ran
                    ELSE [hist.ran EXCEPT ![c] = @ + 1]
    BY <1>6, <1>7 DEF r
  <1> QED BY <1>7, <1>8 DEF k, f, l, d

LEMMA TypeScheduler ==
    ASSUME TypeOK, Shape,
           \/ PickSlot \/ ForkChild \/ ForkFails \/ ExecDone \/ MarkChild \/ ExecFailed
           \/ ForgetChild \/ CheckStop
    PROVE  TypeOK' /\ Shape'
  <1>0. /\ ControlType /\ SigType /\ SchedType /\ ResultType /\ SlotType /\ ProcType /\ HistType
        /\ EnvType /\ zoo \in Seq(ZooLines)
    BY DEF TypeOK, ZooType
  <1>n. NextCmd \in Cmds
    BY <1>0, CntAssumption DEF ControlType, NextCmd, Cmds
  <1> USE DEF Shape, ControlType, Labels, Startup, Terminal, IsFree
  <1>1. CASE PickSlot
    <2>1. CASE FreeSlots = {}
      <3>1. wait_handler("INT") /\ exit_stat' = exit_stat + 1 /\ pc' = "signals" /\ UNCHANGED i
        BY <1>1, <2>1 DEF PickSlot
      <3>2. SigType'
        BY <1>0, <3>1, HandlerType DEF Signals
      <3>3. ResultType'
        BY <1>0, <1>1, <3>1 DEF ResultType, PickSlot
      <3>4. ControlType' /\ Shape'
        BY <1>0, <1>1, <3>1 DEF PickSlot, slotVars
      <3> QED BY <1>1, <3>2, <3>3, <3>4, Kept DEF PickSlot, TypeOK
    <2>2. CASE FreeSlots # {}
      <3>1. (i' \in FreeSlots) /\ pc' = "fork" /\ UNCHANGED <<sigVars, exit_stat>>
        BY <1>1, <2>2 DEF PickSlot, IsFirst
      <3>2. ControlType' /\ Shape'
        BY <1>0, <1>1, <3>1, KeepActiveAssumption DEF PickSlot, slotVars, FreeSlots, Slots
      <3> QED BY <1>1, <3>1, <3>2, Kept DEF PickSlot, TypeOK, resVars
    <2> QED BY <2>1, <2>2
  <1>2. CASE ForkChild
    <2>1. PICK p \in FreshPids, l \in {"run", "doomed"} :
            /\ proc' = [proc EXCEPT ![p] = [leader |-> l, others |-> FALSE]]
            /\ cpid' = p
      BY <1>2 DEF ForkChild
    <2>2. p \in Pids /\ i \in Slots
      BY <1>2 DEF FreshPids, ForkChild
    <2>3. ControlType' /\ Shape'
      BY <1>0, <1>2, <2>1, <2>2 DEF ForkChild, SlotType, slotVars
    <2>4. ProcType'
      BY <1>0, <1>2, <2>1, <2>2 DEF ForkChild, ProcType, Groups
    <2>5. HistType'
      BY <1>0, <1>2, ForkHist
    <2> QED BY <1>2, <2>3, <2>4, <2>5, Kept DEF ForkChild, TypeOK
  <1>3. CASE MarkChild
    <2>1. ControlType' /\ Shape'
      BY <1>0, <1>3, <1>n DEF MarkChild
    <2>2. SlotType' /\ SchedType'
      BY <1>0, <1>3 DEF MarkChild, SlotType, SchedType
    <2>3. ZooType'
      BY <1>0, <1>3, MarkType DEF MarkChild, ZTags, ZooType
    <2> QED BY <1>3, <2>1, <2>2, <2>3, Kept DEF MarkChild, TypeOK
  <1>4. CASE ForkFails
    <2>1. ControlType' /\ Shape'
      BY <1>0, <1>4, <1>n DEF ForkFails, slotVars
    <2>2. HistType'
      BY <1>0, <1>4 DEF ForkFails, HistType
    <2> QED BY <1>4, <2>1, <2>2, Kept DEF ForkFails, TypeOK
  <1>6. CASE ExecDone
    <2>1. ControlType' /\ Shape'
      BY <1>0, <1>6 DEF ExecDone, SlotType
    <2>2. SlotType'
      BY <1>0, <1>6 DEF ExecDone, SlotType
    <2> QED BY <1>6, <2>1, <2>2, Kept DEF ExecDone, TypeOK
  <1>7. CASE ExecFailed
    <2>1. ControlType' /\ Shape'
      BY <1>0, <1>7 DEF ExecFailed, slotVars
    <2> QED BY <1>7, <2>1, Kept DEF ExecFailed, TypeOK
  <1>8. CASE ForgetChild
    <2>1. ControlType' /\ Shape'
      BY <1>0, <1>8, <1>n DEF ForgetChild, slotVars
    <2>2. ProcType'
      BY <1>0, <1>8 DEF ForgetChild, ProcType, Groups
    <2> QED BY <1>8, <2>1, <2>2, Kept DEF ForgetChild, TypeOK
  <1>5. CASE CheckStop
    <2>1. ControlType' /\ Shape'
      BY <1>0, <1>5 DEF CheckStop, slotVars
    <2>2. SchedType'
      BY <1>0, <1>5 DEF CheckStop, SchedType
    <2>3. EnvType'
      BY <1>0, <1>5 DEF CheckStop, EnvType
    <2>4. HistType'
      BY <1>0, <1>5 DEF CheckStop, HistType
    <2> QED BY <1>5, <2>1, <2>2, <2>3, <2>4, Kept DEF CheckStop, TypeOK
  <1> QED BY <1>1, <1>2, <1>3, <1>4, <1>5, <1>6, <1>7, <1>8

(* What a stray adds.                                                      *)
LEMMA StrayHist ==
    ASSUME HistType, hist' = [hist EXCEPT !.strays = hist.strays + 1]
    PROVE  /\ HistType' /\ hist'.strays = hist.strays + 1 /\ hist'.strays > 0
           /\ hist'.ran = hist.ran /\ hist'.started = hist.started
           /\ hist'.refused = hist.refused /\ hist'.late = hist.late
           /\ hist'.failed = hist.failed /\ hist'.missed = hist.missed
           /\ hist'.seen = hist.seen /\ hist'.interrupted = hist.interrupted
           /\ hist'.dropped = hist.dropped
  <1>1. PICK n \in Nat : n = hist.strays + 1 /\ n > 0
    BY DEF HistType
  <1>2. hist' = [hist EXCEPT !.strays = n]
    BY <1>1
  <1> QED BY <1>1, <1>2 DEF HistType

LEMMA TypeReaper ==
    ASSUME TypeOK, Shape,
           KillSlot \/ KillOrphans \/ ReapOrphans \/ Reap \/ ClearChild \/ CheckOrphan
    PROVE  TypeOK' /\ Shape'
  <1>0. /\ ControlType /\ SigType /\ ResultType /\ SlotType /\ ProcType /\ HistType
        /\ zoo \in Seq(ZooLines)
    BY DEF TypeOK, ZooType
  <1> USE DEF Shape, ControlType, Labels, Startup, Terminal, IsFree
  <1>1. CASE KillSlot
    <2>1. i \in Slots /\ i' \in 0 .. KeepActive /\ pc' = "kill" /\ pc = "kill"
      BY <1>0, <1>1, KeepActiveAssumption DEF KillSlot, Slots
    <2>2. ControlType' /\ Shape'
      BY <1>0, <1>1, <2>1 DEF KillSlot
    <2>3. SlotType' /\ ProcType'
      <3>1. CASE IsFree(i)
        BY <1>0, <1>1, <3>1 DEF KillSlot, SlotType, ProcType
      <3>2. CASE ~IsFree(i)
        <4>1. running[i].pgrp \in Pids
          BY <1>0, <2>1, <3>2 DEF SlotType
        <4>2. Killed(proc[running[i].pgrp], send_signal) \in Groups
          BY <1>0, <4>1, KilledType DEF ProcType
        <4>3. SlotType'
          BY <1>0, <1>1, <2>1, <3>2 DEF KillSlot, SlotType
        <4>4. ProcType'
          BY <1>0, <1>1, <3>2, <4>1, <4>2 DEF KillSlot, ProcType
        <4> QED BY <4>3, <4>4
      <3> QED BY <3>1, <3>2
    <2> QED BY <1>1, <2>2, <2>3, Kept DEF KillSlot, TypeOK
  <1>2. CASE KillOrphans
    <2>1. ControlType' /\ Shape'
      BY <1>0, <1>2 DEF KillOrphans, slotVars
    <2>2. ProcType' /\ ZooType'
      BY <1>0, <1>2, OrphansType DEF KillOrphans, ProcType, ZooType
    <2> QED BY <1>2, <2>1, <2>2, Kept DEF KillOrphans, TypeOK
  <1>3. CASE ReapOrphans
    <2>1. ControlType' /\ Shape'
      BY <1>0, <1>3 DEF ReapOrphans, slotVars
    <2>2. ProcType' /\ ZooType'
      BY <1>0, <1>3, OrphansType DEF ReapOrphans, ProcType, ZooType
    <2> QED BY <1>3, <2>1, <2>2, Kept DEF ReapOrphans, TypeOK
  <1>4. CASE Reap
    <2>1. PICK p \in Zombies :
         /\ proc' = [proc EXCEPT ![p].leader = None]
         /\ num_active' = num_active - 1
         /\ cpid' = p
         /\ IF SlotsOf(p) = {}
            THEN /\ err' = (proc[p].leader \in {"exit1", "exit130"})
                 /\ hist' = [hist EXCEPT !.strays = hist.strays + 1]
                 /\ pc' = "after"
                 /\ UNCHANGED <<failcnt, running>>
            ELSE \E s \in SlotsOf(p) :
                 /\ IsFirst(s, SlotsOf(p))
                 /\ UNCHANGED hist
                 /\ err' = IsError(proc[p].leader, running[s].stopping)
                 /\ failcnt' = IF opt.fmt_print /\ LogsFail(proc[p].leader, running[s].stopping)
                               THEN failcnt + 1 ELSE failcnt
                 /\ running' = [running EXCEPT ![s] = FreeSlot]
                 /\ pc' = "clear"
      BY <1>4 DEF Reap, SlotFreed
    <2>2. p \in Pids
      BY DEF Zombies
    <2>3. ControlType' /\ Shape'
      BY <1>0, <1>4, <2>1, <2>2 DEF Reap
    <2>4. ProcType'
      BY <1>0, <1>4, <2>1, <2>2 DEF Reap, ProcType, Groups
    <2>5. CASE SlotsOf(p) = {}
      <3>1. err' \in BOOLEAN /\ UNCHANGED <<failcnt, running>>
        BY <2>1, <2>5
      <3>2. SlotType' /\ ResultType'
        BY <1>0, <1>4, <2>1, <3>1 DEF Reap, ResultType, SlotType
      <3>3. hist' = [hist EXCEPT !.strays = hist.strays + 1]
        BY <2>1, <2>5
      <3>4. HistType'
        BY <1>0, <3>3, StrayHist
      <3> QED BY <1>4, <2>3, <2>4, <3>2, <3>4, Kept DEF Reap, TypeOK
    <2>6. CASE SlotsOf(p) # {}
      <3>1. PICK s \in SlotsOf(p) :
                 /\ err' = IsError(proc[p].leader, running[s].stopping)
                 /\ failcnt' = IF opt.fmt_print /\ LogsFail(proc[p].leader, running[s].stopping)
                               THEN failcnt + 1 ELSE failcnt
                 /\ running' = [running EXCEPT ![s] = FreeSlot]
                 /\ UNCHANGED hist
        BY <2>1, <2>6
      <3>2. SlotType'
        BY <1>0, <2>1, <3>1 DEF SlotType, FreeSlot, SlotsOf
      <3>3. err' \in BOOLEAN
        BY <3>1, Zenon DEF IsError
      <3>4. failcnt' \in Nat
        BY <1>0, <3>1 DEF ResultType
      <3>5. ResultType'
        BY <1>0, <1>4, <3>3, <3>4 DEF Reap, ResultType
      <3> QED BY <1>4, <2>3, <2>4, <3>1, <3>2, <3>5, Kept DEF Reap, TypeOK
    <2> QED BY <2>5, <2>6
  <1>5. CASE ClearChild
    <2>1. ControlType' /\ Shape'
      BY <1>0, <1>5 DEF ClearChild, slotVars
    <2>2. ZooType'
      BY <1>0, <1>5, ClearType DEF ClearChild, ZooType
    <2> QED BY <1>5, <2>1, <2>2, Kept DEF ClearChild, TypeOK
  <1>6. CASE CheckOrphan
    <2>1. ControlType' /\ Shape'
      BY <1>0, <1>6 DEF CheckOrphan, slotVars
    <2>2. ProcType'
      BY <1>0, <1>6 DEF CheckOrphan, ProcType
    <2>3. ZooType'
      BY <1>0, <1>6, MarkType DEF CheckOrphan, ZTags, ZooType
    <2> QED BY <1>6, <2>1, <2>2, <2>3, Kept DEF CheckOrphan, TypeOK
  <1> QED BY <1>1, <1>2, <1>3, <1>4, <1>5, <1>6

LEMMA TypeRound ==
    ASSUME TypeOK, Shape, HandleError \/ EndRound \/ Nap \/ Finish
    PROVE  TypeOK' /\ Shape'
  <1>0. /\ ControlType /\ SigType /\ SchedType /\ ResultType /\ HistType
        /\ zoo \in Seq(ZooLines)
    BY DEF TypeOK, ZooType
  <1> USE DEF Shape, ControlType, Labels, Startup, Terminal, IsFree
  <1>1. CASE HandleError
    <2>1. ControlType' /\ Shape'
      BY <1>0, <1>1 DEF HandleError, slotVars
    <2>2. SchedType'
      BY <1>0, <1>1 DEF HandleError, SchedType
    <2>3. ResultType'
      BY <1>0, <1>1 DEF HandleError, ResultType
    <2>4. SigType' /\ HistType'
      <3>1. CASE err /\ opt.has_brakes
        <4>1. wait_handler("INT") /\ hist' = [hist EXCEPT !.interrupted = TRUE]
          BY <1>1, <3>1 DEF HandleError
        <4>2. SigType'
          BY <1>0, <4>1, HandlerType DEF Signals
        <4> QED BY <1>0, <4>1, <4>2 DEF HistType
      <3>2. CASE ~(err /\ opt.has_brakes)
        BY <1>1, <3>2, Kept DEF HandleError
      <3> QED BY <3>1, <3>2
    <2> QED BY <1>1, <2>1, <2>2, <2>3, <2>4, Kept DEF HandleError, TypeOK
  <1>2. CASE EndRound
    <2>1. ControlType' /\ Shape'
      BY <1>0, <1>2 DEF EndRound, slotVars
    <2>2. SchedType'
      BY <1>0, <1>2 DEF EndRound, SchedType
    <2>3. SigType'
      <3>1. CASE wait_handler(None)
        BY <1>0, <3>1, HandlerType
      <3>2. CASE UNCHANGED sigVars
        BY <3>2, Kept
      <3> QED BY <1>2, <3>1, <3>2 DEF EndRound
    <2> QED BY <1>2, <2>1, <2>2, <2>3, Kept DEF EndRound, TypeOK
  <1>3. CASE Nap
    <2>1. ControlType' /\ Shape'
      BY <1>0, <1>3, KeepActiveAssumption DEF Nap, slotVars
    <2>2. SigType'
      <3>1. CASE wait_handler("INT")
        BY <1>0, <3>1, HandlerType DEF Signals
      <3>2. CASE rec_signal' = AlarmAsTerm(rec_signal) /\ UNCHANGED <<send_signal, lastsent>>
        BY <1>0, <3>2 DEF SigType, AlarmAsTerm, Signals
      <3> QED BY <1>3, <3>1, <3>2 DEF Nap
    <2> QED BY <1>3, <2>1, <2>2, Kept DEF Nap, TypeOK
  <1>4. CASE Finish
    <2>1. ControlType' /\ Shape'
      BY <1>0, <1>4 DEF Finish, slotVars
    <2>2. ResultType'
      BY <1>0, <1>4 DEF Finish, ResultType
    <2>3. ZooType'
      BY <1>0, <1>4, ClearType DEF Finish, ZooType
    <2> QED BY <1>4, <2>1, <2>2, <2>3, Kept DEF Finish, TypeOK
  <1> QED BY <1>1, <1>2, <1>3, <1>4

(* What a signal may do: kill pan, leave it where it is, or end the wait() *)
(* of check_pids(), or the read() or the waitpid() of run_child().         *)
LEMMA SignalIs ==
    ASSUME TypeOK, Shape, NEW sig \in Signals, Signal(sig)
    PROVE  /\ UNCHANGED <<opt, sa_flags, slotVars, i, cpid, schedVars, exit_stat, failcnt,
                          orphans, draining, proc, stopfile, zoo>>
           /\ HistType' /\ SameCounts
           /\ hist.interrupted => hist'.interrupted
           /\ pc \notin Terminal
           /\ Fatal(sig) => hist' = hist /\ UNCHANGED sigVars /\ pc' = "killed"
           /\ ~Fatal(sig) => /\ hist'.seen = (hist.seen \/ ~fork_in_road)
                             /\ hist'.interrupted /\ wait_handler(sig)
           /\ \/ /\ pc' = "killed" /\ UNCHANGED <<c, err>>
                 /\ \/ hist'.dropped = hist.dropped
                    \/ /\ pc = "read" /\ "RESTART" \notin sa_flags /\ hist'.interrupted
                       /\ Alive(cpid)
                       /\ hist'.dropped = hist.dropped \cup {cpid}
              \/ pc' = pc /\ UNCHANGED <<c, err>> /\ hist'.dropped = hist.dropped
              \/ /\ pc = "blocked" /\ pc' = "after" /\ Zombies = {} /\ c' = c /\ err' = FALSE
                 /\ hist'.dropped = hist.dropped
              \/ /\ pc = "read" /\ pc' = "waitpid" /\ UNCHANGED <<c, err>>
                 /\ "RESTART" \notin sa_flags /\ hist'.interrupted /\ Alive(cpid)
                 /\ hist'.dropped = hist.dropped \cup {cpid}
              \/ /\ pc = "waitpid" /\ pc' = "start" /\ c' = NextCmd /\ err' = err
                 /\ "RESTART" \notin sa_flags /\ hist'.interrupted /\ Alive(cpid)
                 /\ hist'.dropped = hist.dropped \cup {cpid}
  <1>1. HistType
    BY DEF TypeOK
  <1>2. pc \in {"read", "waitpid"} => cpid \in Pids
    BY DEF Shape
  <1>3. \A D \in SUBSET Pids :
          hist' = Handled(D) =>
            /\ HistType' /\ SameCounts /\ hist'.interrupted
            /\ hist'.seen = (hist.seen \/ ~fork_in_road)
            /\ hist'.dropped = hist.dropped \cup D
    BY <1>1 DEF Handled, HistType, SameCounts
  <1>4. CASE Fatal(sig)
    BY <1>1, <1>4 DEF Signal, HistType, SameCounts
  <1>5. CASE ~Fatal(sig)
    <2>1. /\ UNCHANGED <<opt, sa_flags, slotVars, i, cpid, schedVars, exit_stat, failcnt,
                         orphans, draining, proc, stopfile, zoo>>
          /\ pc \notin Terminal /\ wait_handler(sig)
          /\ NotInterrupted \/ WaitInterrupted \/ ReadInterrupted \/ WaitpidInterrupted
      BY <1>5 DEF Signal
    <2>2. CASE NotInterrupted
      BY <1>3, <1>5, <2>1, <2>2 DEF NotInterrupted
    <2>3. CASE WaitInterrupted
      BY <1>3, <1>5, <2>1, <2>3 DEF WaitInterrupted
    <2>4. CASE ReadInterrupted
      BY <1>2, <1>3, <1>5, <2>1, <2>4 DEF ReadInterrupted
    <2>5. CASE WaitpidInterrupted
      BY <1>2, <1>3, <1>5, <2>1, <2>5 DEF WaitpidInterrupted
    <2> QED BY <2>1, <2>2, <2>3, <2>4, <2>5
  <1> QED BY <1>4, <1>5

(* What the end of a child records.                                        *)
LEMMA ChildEndsIs ==
    ASSUME TypeOK, NEW p \in Pids, ChildEnds(p)
    PROVE  \E o \in AllOutcomes :
             /\ Alive(p) /\ o \in WaysToEnd(p)
             /\ proc' = [proc EXCEPT ![p].leader = o]
             /\ HistType'
             /\ hist'.ran = hist.ran /\ hist'.started = hist.started
             /\ hist'.refused = hist.refused /\ hist'.late = hist.late
             /\ hist'.seen = hist.seen /\ hist'.interrupted = hist.interrupted
             /\ hist'.dropped = hist.dropped /\ hist'.strays = hist.strays
             /\ hist'.failed = IF /\ proc[p].leader = "run" /\ o = "exit1" /\ starts # -1
                                  /\ p \notin hist.dropped
                               THEN hist.failed + 1 ELSE hist.failed
             /\ p \notin hist.dropped => hist'.missed = hist.missed
  <1>0. HistType
    BY DEF TypeOK
  <1>1. PICK o \in WaysToEnd(p) :
          /\ proc' = [proc EXCEPT ![p].leader = o]
          /\ hist' = [hist EXCEPT
                !.failed = IF /\ (proc[p].leader = "run" /\ o = "exit1" /\ starts # -1)
                              /\ p \notin hist.dropped
                           THEN hist.failed + 1 ELSE hist.failed,
                !.missed = IF /\ (proc[p].leader = "run" /\ o = "exit1" /\ starts # -1)
                              /\ p \in hist.dropped
                           THEN hist.missed + 1 ELSE hist.missed]
    BY DEF ChildEnds
  <1>2. o \in AllOutcomes /\ Alive(p)
    BY OutcomesAssumption DEF WaysToEnd, ChildEnds, AllOutcomes
  <1>3. PICK f \in Nat, m \in Nat :
          /\ hist' = [hist EXCEPT !.failed = f, !.missed = m]
          /\ f = IF /\ proc[p].leader = "run" /\ o = "exit1" /\ starts # -1
                    /\ p \notin hist.dropped
                 THEN hist.failed + 1 ELSE hist.failed
          /\ p \notin hist.dropped => m = hist.missed
    <2> DEFINE f == IF /\ (proc[p].leader = "run" /\ o = "exit1" /\ starts # -1)
                       /\ p \notin hist.dropped
                    THEN hist.failed + 1 ELSE hist.failed
               m == IF /\ (proc[p].leader = "run" /\ o = "exit1" /\ starts # -1)
                       /\ p \in hist.dropped
                    THEN hist.missed + 1 ELSE hist.missed
    <2>1. f \in Nat /\ m \in Nat
      BY <1>0 DEF HistType
    <2>2. hist' = [hist EXCEPT !.failed = f, !.missed = m]
      BY <1>1
    <2> QED BY <2>1, <2>2
  <1>4. HistType' /\ hist'.failed = f /\ hist'.missed = m
        /\ hist'.ran = hist.ran /\ hist'.started = hist.started
        /\ hist'.refused = hist.refused /\ hist'.late = hist.late
        /\ hist'.seen = hist.seen /\ hist'.interrupted = hist.interrupted
        /\ hist'.dropped = hist.dropped /\ hist'.strays = hist.strays
    BY <1>0, <1>3 DEF HistType
  <1> QED BY <1>1, <1>2, <1>3, <1>4

LEMMA TypeWorld ==
    ASSUME TypeOK, Shape, AnyWorld
    PROVE  TypeOK' /\ Shape'
  <1>0. /\ ControlType /\ OptType /\ SigType /\ ResultType /\ ProcType /\ HistType /\ EnvType
    BY DEF TypeOK
  <1> USE DEF Shape, ControlType, Labels, Startup, Terminal, IsFree
  <1>1. ASSUME NEW sig \in Signals, Signal(sig)
        PROVE  TypeOK' /\ Shape'
    <2>1. NextCmd \in Cmds
      BY <1>0, CntAssumption DEF NextCmd, Cmds
    <2>2. ControlType' /\ Shape'
      <3>1. UNCHANGED <<slotVars, i, cpid, draining>>
        BY <1>1, SignalIs
      <3>2. /\ pc' \in {"killed", pc, "after", "waitpid", "start"} /\ c' \in {c, NextCmd}
            /\ pc' = "waitpid" => pc \in {"read", "waitpid"}
        BY <1>1, SignalIs
      <3> QED BY <1>0, <2>1, <3>1, <3>2 DEF slotVars
    <2>3. SigType' /\ OptType' /\ ResultType' /\ HistType'
      <3>1. SigType'
        <4>1. CASE Fatal(sig)
          BY <1>1, <4>1, Kept, SignalIs
        <4>2. CASE ~Fatal(sig)
          BY <1>0, <1>1, <4>2, HandlerType, SignalIs DEF Fatal
        <4> QED BY <4>1, <4>2
      <3>2. OptType'
        BY <1>0, <1>1 DEF Signal, OptType
      <3>3. ResultType'
        <4>1. UNCHANGED <<exit_stat, failcnt>> /\ err' \in {err, FALSE}
          BY <1>1, SignalIs
        <4> QED BY <1>0, <4>1 DEF ResultType
      <3>4. HistType'
        BY <1>1, SignalIs
      <3> QED BY <3>1, <3>2, <3>3, <3>4
    <2>4. EnvType'
      BY <1>0, <1>1 DEF Signal, EnvType
    <2> QED BY <1>1, <2>2, <2>3, <2>4, Kept DEF Signal, TypeOK
  <1>2. ASSUME NEW p \in Pids, ChildEnds(p) \/ ChildForks(p) \/ OthersEnd(p)
        PROVE  TypeOK' /\ Shape'
    <2>1. worldUnchanged /\ UNCHANGED stopfile
      BY <1>2 DEF ChildEnds, ChildForks, OthersEnd
    <2>2. ControlType' /\ Shape'
      BY <1>0, <2>1 DEF worldUnchanged, slotVars
    <2>3. ProcType'
      <3>1. CASE ChildEnds(p)
        <4>1. PICK o \in AllOutcomes : proc' = [proc EXCEPT ![p].leader = o]
          BY <3>1, ChildEndsIs
        <4> QED BY <1>0, <2>1, <4>1 DEF ProcType, Groups, worldUnchanged
      <3>2. CASE ChildForks(p) \/ OthersEnd(p)
        BY <1>0, <2>1, <3>2 DEF ChildForks, OthersEnd, ProcType, Groups, worldUnchanged
      <3> QED BY <1>2, <3>1, <3>2
    <2>4. HistType'
      BY <1>0, <1>2, ChildEndsIs DEF ChildForks, OthersEnd, HistType
    <2>5. EnvType'
      BY <1>0, <2>1 DEF worldUnchanged, EnvType
    <2> QED BY <2>1, <2>2, <2>3, <2>4, <2>5, Kept DEF worldUnchanged, TypeOK
  <1>3. CASE TouchStopFile
    <2>1. ControlType' /\ Shape'
      BY <1>0, <1>3 DEF TouchStopFile, worldUnchanged, slotVars
    <2>2. EnvType' /\ ProcType'
      BY <1>0, <1>3 DEF TouchStopFile, worldUnchanged, EnvType, ProcType
    <2> QED BY <1>3, <2>1, <2>2, Kept DEF TouchStopFile, worldUnchanged, TypeOK
  <1> QED BY <1>1, <1>2, <1>3 DEF AnyWorld

LEMMA TypeStutter ==
    ASSUME TypeOK, Shape, UNCHANGED vars
    PROVE  TypeOK' /\ Shape'
  <1>1. ControlType' /\ Shape'
    BY DEF vars, TypeOK, ControlType, Shape, slotVars, IsFree
  <1> QED BY <1>1, Kept DEF vars, TypeOK

LEMMA TypeNext == TypeOK /\ Shape /\ [AnyNext]_vars => TypeOK' /\ Shape'
  BY TypeControl, TypeStartup, TypeScheduler, TypeReaper, TypeRound, TypeWorld, TypeStutter
     DEF AnyNext, PanStep, Ended

(* The type invariant, and what i and cpid mean where they are used.       *)
THEOREM TypeTheorem == Spec => [](TypeOK /\ Shape)
  BY InitType, TypeNext, StepIsAny, PTL DEF Spec


----------------------------------------------------------------------------
(* SlotAccounting is inductive relative to the types, together with what   *)
(* is known of the child run_child() is looking after: it is there, it has *)
(* no slot yet, and while pan reads its pipe it is not dropped.            *)

RunChildInv ==
    /\ pc = "read" => cpid \notin Dropped
    /\ pc \in {"read", "waitpid"} =>
          cpid \in Children /\ \A s \in Slots : running[s].pgrp # cpid

SlotInv == SlotAccounting /\ RunChildInv

LEMMA SlotsFinite == IsFiniteSet(Slots) /\ Cardinality(Slots) = KeepActive
  BY FS_Interval, KeepActiveAssumption DEF Slots

LEMMA UsedFinite == IsFiniteSet(UsedSlots) /\ Cardinality(UsedSlots) \in Nat
  BY SlotsFinite, FS_Subset, FS_CardinalityType DEF UsedSlots

(* 0 marks a free slot and is no process's pid.                            *)
LEMMA ZeroIsNoPid == 0 \notin Pids
  BY PidsAssumption, KeepActiveAssumption DEF Slots

(* Outside run_child() the children that are not dropped have the slots.   *)
SlotGroups == {running[s].pgrp : s \in UsedSlots}

(* A step that gives no slot to another group, creates, drops or reaps no  *)
(* child and counts none keeps the accounts.                               *)
LEMMA AccountsKept ==
    ASSUME TypeOK, TypeOK', SlotInv,
           pc = "killed" => pc' = "killed",
           pc' # "killed" => \A l \in {"read", "waitpid", "mark"} : pc = l <=> pc' = l,
           pc \in {"read", "waitpid"} => cpid' = cpid,
           num_active' = num_active,
           hist'.dropped = hist.dropped, hist'.strays = hist.strays,
           \A s \in Slots : running'[s].pgrp = running[s].pgrp,
           \A p \in Pids : proc'[p].leader = None <=> proc[p].leader = None
    PROVE  SlotInv'
  <1>1. UsedSlots' = UsedSlots
    BY DEF UsedSlots, FreeSlots, IsFree
  <1>2. Children' = Children
    BY DEF Children
  <1>3. {running'[s].pgrp : s \in UsedSlots} = {running[s].pgrp : s \in UsedSlots}
    BY DEF UsedSlots
  <1>4. \A s \in UsedSlots : running'[s].pgrp = running[s].pgrp
    BY DEF UsedSlots
  <1>5. pc' # "killed" => InRunChild' = InRunChild
    BY DEF InRunChild, Dropped
  <1>6. SlotAccounting'
    BY <1>1, <1>2, <1>3, <1>4, <1>5 DEF SlotInv, SlotAccounting, Dropped
  <1>7. RunChildInv'
    <2>1. CASE pc' = "killed"
      BY <2>1 DEF RunChildInv
    <2>2. CASE pc' # "killed"
      BY <1>2, <2>2 DEF SlotInv, RunChildInv, Dropped
    <2> QED BY <2>1, <2>2
  <1> QED BY <1>6, <1>7 DEF SlotInv

LEMMA AccountsInit == Init => SlotInv
  <1> SUFFICES ASSUME Init PROVE SlotInv
    OBVIOUS
  <1>1. UsedSlots = {}
    BY DEF Init, UsedSlots, FreeSlots, IsFree, FreeSlot
  <1>2. Children = {} /\ InRunChild = {}
    BY DEF Init, Children, NoProc, InRunChild
  <1>3. Cardinality(UsedSlots) = num_active + hist.strays + (IF pc = "mark" THEN 1 ELSE 0)
    BY <1>1, FS_EmptySet DEF Init
  <1> QED BY <1>1, <1>2, <1>3 DEF Init, SlotInv, SlotAccounting, RunChildInv

(* fork(): a child without a slot, in the care of run_child().             *)
LEMMA AccountsFork ==
    ASSUME TypeOK, Shape, SlotInv, ForkChild
    PROVE  SlotInv'
  <1>1. PICK p \in FreshPids, l \in {"run", "doomed"} :
          /\ proc' = [proc EXCEPT ![p] = [leader |-> l, others |-> FALSE]]
          /\ cpid' = p
    BY DEF ForkChild
  <1>2. /\ p \in Pids /\ p # 0 /\ p \notin Children
        /\ pc = "fork" /\ pc' = "read" /\ UNCHANGED <<num_active, running>>
    BY ZeroIsNoPid DEF FreshPids, GroupExists, NoProc, Children, ForkChild, slotVars
  <1>3. proc \in [Pids -> Groups] /\ hist'.dropped = hist.dropped \ {p} /\ hist'.strays = hist.strays
    BY <1>1, ForkHist DEF TypeOK, ProcType, ControlType
  <1>4. UsedSlots' = UsedSlots /\ SlotGroups' = SlotGroups
    BY <1>2 DEF UsedSlots, FreeSlots, IsFree, SlotGroups
  <1>5. Children' = Children \cup {p}
    BY <1>1, <1>2, <1>3 DEF Children, None
  <1>6. Children \ Dropped = SlotGroups
    BY <1>2 DEF SlotInv, SlotAccounting, InRunChild, SlotGroups
  <1>7. Children' \ Dropped' = SlotGroups' \cup InRunChild'
    BY <1>1, <1>2, <1>3, <1>4, <1>5, <1>6 DEF InRunChild, Dropped
  <1>8. SlotAccounting'
    BY <1>2, <1>3, <1>4, <1>7 DEF SlotInv, SlotAccounting, SlotGroups
  <1>9. \A s \in Slots : running'[s].pgrp # p
    <2>1. \A s \in UsedSlots : running[s].pgrp \in Children
      BY <1>6 DEF SlotGroups
    <2> QED BY <1>2, <2>1 DEF UsedSlots, FreeSlots, IsFree
  <1> QED BY <1>1, <1>2, <1>3, <1>5, <1>8, <1>9 DEF SlotInv, RunChildInv, Dropped

(* The exec is done: the child gets its slot.                              *)
LEMMA AccountsExec ==
    ASSUME TypeOK, Shape, SlotInv, ExecDone
    PROVE  SlotInv'
  <1>1. /\ running' = [running EXCEPT ![i] = [pgrp |-> cpid, stopping |-> FALSE]]
        /\ pc = "read" /\ pc' = "mark" /\ UNCHANGED <<num_active, cpid, proc, hist>>
    BY DEF ExecDone
  <1>2. /\ cpid \in Pids /\ cpid # 0 /\ cpid \in Children /\ cpid \notin Dropped
        /\ \A s \in Slots : running[s].pgrp # cpid
        /\ i \in Slots /\ i \notin UsedSlots
    BY <1>1, ZeroIsNoPid DEF Shape, SlotInv, RunChildInv, UsedSlots, FreeSlots
  <1>3. DOMAIN running = Slots /\ num_active \in Int /\ hist.strays \in Nat
    BY DEF TypeOK, SlotType, HistType
  <1>4. UsedSlots' = UsedSlots \cup {i}
    BY <1>1, <1>2, <1>3 DEF UsedSlots, FreeSlots, IsFree
  <1>5. Cardinality(UsedSlots') = Cardinality(UsedSlots) + 1
    BY <1>2, <1>4, UsedFinite, FS_AddElement
  <1>6. Children' = Children /\ Dropped' = Dropped /\ InRunChild' = {} /\ InRunChild = {cpid}
    BY <1>1, <1>2 DEF Children, Dropped, InRunChild
  <1>7. \A s \in UsedSlots : running'[s] = running[s]
    BY <1>1, <1>2, <1>3 DEF UsedSlots
  <1>8. running'[i].pgrp = cpid
    BY <1>1, <1>2, <1>3
  <1>9. Children \ Dropped = {running[s].pgrp : s \in UsedSlots} \cup {cpid}
    BY <1>1, <1>6 DEF SlotInv, SlotAccounting
  <1>10. Children' \ Dropped' = {running'[s].pgrp : s \in UsedSlots'} \cup InRunChild'
    BY <1>4, <1>6, <1>7, <1>8, <1>9
  <1>11. \A s, t \in UsedSlots' : running'[s].pgrp = running'[t].pgrp => s = t
    <2>1. \A s \in UsedSlots : running[s].pgrp # cpid
      BY <1>2 DEF UsedSlots
    <2>2. \A s, t \in UsedSlots : running[s].pgrp = running[t].pgrp => s = t
      BY <1>1 DEF SlotInv, SlotAccounting
    <2> QED BY <1>4, <1>7, <1>8, <2>1, <2>2
  <1>12. Cardinality(UsedSlots') = num_active' + hist'.strays + 1
    BY <1>1, <1>3, <1>5 DEF SlotInv, SlotAccounting
  <1> QED BY <1>1, <1>10, <1>11, <1>12 DEF SlotInv, SlotAccounting, RunChildInv

(* run_child() has waited for its child, or a signal makes it drop it.     *)
LEMMA AccountsForget ==
    ASSUME TypeOK, SlotInv, pc \in {"read", "waitpid"}, pc' \in {"waitpid", "start"},
           UNCHANGED <<slotVars, cpid>>, hist'.strays = hist.strays,
           \/ /\ UNCHANGED proc
              /\ hist'.dropped = hist.dropped \cup {cpid}
           \/ /\ proc' = [proc EXCEPT ![cpid].leader = None] /\ pc' = "start"
              /\ hist'.dropped = hist.dropped
    PROVE  SlotInv'
  <1>1. UsedSlots' = UsedSlots /\ SlotGroups' = SlotGroups
    BY DEF UsedSlots, FreeSlots, IsFree, SlotGroups, slotVars
  <1>2. /\ cpid \in Children /\ cpid \notin SlotGroups
        /\ Children \ Dropped = SlotGroups \cup ({cpid} \ Dropped)
    BY DEF SlotInv, RunChildInv, SlotAccounting, InRunChild, SlotGroups, UsedSlots
  <1>3. proc \in [Pids -> Groups]
    BY DEF TypeOK, ProcType
  <1>4. Children' \ Dropped' = SlotGroups' \cup InRunChild'
    <2>1. CASE UNCHANGED proc /\ hist'.dropped = hist.dropped \cup {cpid}
      <3>1. Children' = Children /\ Dropped' = Dropped \cup {cpid}
        BY <2>1 DEF Children, Dropped
      <3>2. InRunChild' = {}
        BY <3>1 DEF InRunChild
      <3> QED BY <1>1, <1>2, <3>1, <3>2
    <2>2. CASE /\ proc' = [proc EXCEPT ![cpid].leader = None] /\ pc' = "start"
               /\ hist'.dropped = hist.dropped
      <3>1. Children' = Children \ {cpid} /\ Dropped' = Dropped
        BY <1>2, <1>3, <2>2 DEF Children, Dropped
      <3>2. InRunChild' = {}
        BY <2>2 DEF InRunChild
      <3> QED BY <1>1, <1>2, <3>1, <3>2
    <2> QED BY <2>1, <2>2
  <1>5. SlotAccounting'
    BY <1>1, <1>4 DEF SlotInv, SlotAccounting, SlotGroups, slotVars
  <1>6. RunChildInv'
    <2>1. pc' = "waitpid" => UNCHANGED proc
      OBVIOUS
    <2> QED BY <1>2, <2>1 DEF SlotInv, RunChildInv, Children, slotVars
  <1> QED BY <1>5, <1>6 DEF SlotInv

(* wait() returns a child that has exactly one slot, or a dropped one.     *)
LEMMA AccountsReap ==
    ASSUME TypeOK, SlotInv, Reap
    PROVE  SlotInv'
  <1>0. pc = "blocked"
    BY DEF Reap
  <1>1. PICK p \in Zombies :
          /\ proc' = [proc EXCEPT ![p].leader = None]
          /\ num_active' = num_active - 1
          /\ IF SlotsOf(p) = {}
             THEN /\ hist' = [hist EXCEPT !.strays = hist.strays + 1]
                  /\ pc' = "after" /\ UNCHANGED running
             ELSE \E s \in SlotsOf(p) :
                    /\ running' = [running EXCEPT ![s] = FreeSlot]
                    /\ pc' = "clear" /\ UNCHANGED hist
    BY DEF Reap, SlotFreed
  <1>2. /\ proc \in [Pids -> Groups] /\ DOMAIN running = Slots /\ num_active \in Int
        /\ HistType /\ hist.strays \in Nat
    BY DEF TypeOK, ProcType, SlotType, HistType
  <1>3. /\ Children \ Dropped = {running[s].pgrp : s \in UsedSlots}
        /\ \A s, t \in UsedSlots : running[s].pgrp = running[t].pgrp => s = t
        /\ Cardinality(UsedSlots) = num_active + hist.strays
    BY <1>0, <1>2, UsedFinite DEF SlotInv, SlotAccounting, InRunChild
  <1>4. p \in Pids /\ p # 0 /\ p \in Children
    BY ZeroIsNoPid DEF Zombies, Children, AllOutcomes, None
  <1>5. Children' = Children \ {p}
    BY <1>1, <1>2, <1>4 DEF Children
  <1>6. pc' \in {"after", "clear"} /\ InRunChild' = {} /\ RunChildInv'
    BY <1>1 DEF InRunChild, RunChildInv
  <1>7. CASE SlotsOf(p) = {}
    <2>1. /\ UNCHANGED running /\ hist'.strays = hist.strays + 1
          /\ hist'.dropped = hist.dropped /\ pc' = "after"
      BY <1>1, <1>2, <1>7 DEF HistType
    <2>2. UsedSlots' = UsedSlots
      BY <2>1 DEF UsedSlots, FreeSlots, IsFree
    <2>3. p \notin {running[s].pgrp : s \in UsedSlots}
      BY <1>7 DEF SlotsOf, UsedSlots
    <2>4. Children' \ Dropped' = {running'[t].pgrp : t \in UsedSlots'} \cup InRunChild'
      BY <1>3, <1>5, <1>6, <2>1, <2>2, <2>3 DEF Dropped
    <2>5. Cardinality(UsedSlots') = num_active' + hist'.strays + (IF pc' = "mark" THEN 1 ELSE 0)
      BY <1>1, <1>2, <1>3, <2>1, <2>2
    <2>6. \A t, u \in UsedSlots' : running'[t].pgrp = running'[u].pgrp => t = u
      BY <1>3, <2>1, <2>2
    <2> QED BY <1>6, <2>4, <2>5, <2>6, Zenon DEF SlotInv, SlotAccounting
  <1>8. CASE SlotsOf(p) # {}
    <2>1. PICK s \in SlotsOf(p) :
            running' = [running EXCEPT ![s] = FreeSlot] /\ pc' = "clear" /\ UNCHANGED hist
      BY <1>1, <1>8
    <2>2. s \in UsedSlots /\ running[s].pgrp = p
      BY <1>4 DEF SlotsOf, UsedSlots, FreeSlots, IsFree
    <2>3. UsedSlots' = UsedSlots \ {s}
      BY <1>2, <2>1, <2>2 DEF UsedSlots, FreeSlots, IsFree, FreeSlot
    <2>4. Cardinality(UsedSlots') = Cardinality(UsedSlots) - 1
      BY <2>2, <2>3, UsedFinite, FS_RemoveElement
    <2>5. \A t \in UsedSlots' : running'[t] = running[t] /\ t \in UsedSlots /\ t # s
      BY <1>2, <2>1, <2>3 DEF UsedSlots
    <2>6. Children' \ Dropped' = {running'[t].pgrp : t \in UsedSlots'} \cup InRunChild'
      <3>1. \A t \in UsedSlots : t # s => running[t].pgrp # p
        BY <1>3, <2>2
      <3>2. Dropped' = Dropped
        BY <2>1 DEF Dropped
      <3> QED BY <1>3, <1>5, <1>6, <2>2, <2>3, <2>5, <3>1, <3>2
    <2>7. \A t, u \in UsedSlots' : running'[t].pgrp = running'[u].pgrp => t = u
      BY <1>3, <2>5
    <2>8. Cardinality(UsedSlots') = num_active' + hist'.strays + (IF pc' = "mark" THEN 1 ELSE 0)
      BY <1>1, <1>2, <1>3, <2>1, <2>4
    <2> QED BY <1>6, <2>6, <2>7, <2>8, Zenon DEF SlotInv, SlotAccounting
  <1> QED BY <1>7, <1>8

LEMMA AccountsMark ==
    ASSUME TypeOK, SlotInv, MarkChild
    PROVE  SlotInv'
  <1>1. UsedSlots' = UsedSlots /\ Children' = Children /\ Dropped' = Dropped
    BY DEF MarkChild, UsedSlots, FreeSlots, IsFree, Children, Dropped
  <1>2. InRunChild' = {} /\ InRunChild = {} /\ UNCHANGED <<running, hist>>
        /\ num_active' = num_active + 1 /\ pc = "mark" /\ pc' = "start"
    BY DEF MarkChild, InRunChild
  <1>3. num_active \in Int /\ hist.strays \in Nat
    BY DEF TypeOK, SlotType, HistType
  <1> QED BY <1>1, <1>2, <1>3 DEF SlotInv, SlotAccounting, RunChildInv

LEMMA AccountsSignal ==
    ASSUME TypeOK, Shape, TypeOK', SlotInv, NEW sig \in Signals, Signal(sig)
    PROVE  SlotInv'
  <1>1. /\ UNCHANGED <<slotVars, proc, cpid>> /\ pc # "killed" /\ hist'.strays = hist.strays
    BY SignalIs DEF Terminal, SameCounts
  <1>2. CASE pc' = "killed"
    BY <1>2 DEF SlotInv, SlotAccounting, RunChildInv
  <1>3. CASE /\ pc' = pc \/ (pc = "blocked" /\ pc' = "after")
             /\ hist'.dropped = hist.dropped
    BY <1>1, <1>3, AccountsKept DEF slotVars
  <1>4. CASE /\ (pc = "read" /\ pc' = "waitpid") \/ (pc = "waitpid" /\ pc' = "start")
             /\ hist'.dropped = hist.dropped \cup {cpid}
    BY <1>1, <1>4, AccountsForget
  <1> QED BY <1>2, <1>3, <1>4, SignalIs

LEMMA AccountsNext ==
    ASSUME TypeOK, Shape, TypeOK', SlotInv, [AnyNext]_vars
    PROVE  SlotInv'
  <1>0. ProcType /\ SlotType /\ HistType
    BY DEF TypeOK
  <1>1. CASE ForkChild \/ ExecDone \/ MarkChild \/ Reap
    BY <1>1, AccountsFork, AccountsExec, AccountsMark, AccountsReap
  <1>2. CASE \/ MarkSelf \/ PreallocMark \/ PreallocClear
             \/ LeaveStartLoop \/ PickSlot \/ ForkFails
             \/ CheckStop \/ NoSignal \/ SeeUsr2 \/ SeeSignal \/ ResetSend \/ ResetRec
             \/ EnterWait \/ ClearChild \/ CheckOrphan
             \/ HandleError \/ EndRound \/ OrphansLeft \/ Nap \/ Finish
    <2>1. /\ UNCHANGED <<slotVars, proc>>
          /\ pc \notin {"read", "waitpid", "mark", "killed"} /\ pc' \notin {"read", "waitpid", "mark"}
      BY <1>2 DEF MarkSelf, PreallocMark, PreallocClear, LeaveStartLoop, PickSlot, ForkFails,
                  CheckStop, NoSignal, SeeUsr2, SeeSignal, ResetSend, ResetRec, EnterWait,
                  ClearChild, CheckOrphan, HandleError, EndRound, OrphansLeft, Nap, Finish
    <2>2. hist'.dropped = hist.dropped /\ hist'.strays = hist.strays
      BY <1>0, <1>2 DEF MarkSelf, PreallocMark, PreallocClear, LeaveStartLoop, PickSlot, ForkFails,
                  CheckStop, NoSignal, SeeUsr2, SeeSignal, ResetSend, ResetRec, EnterWait,
                  ClearChild, CheckOrphan, HandleError, EndRound, OrphansLeft, Nap, Finish, HistType
    <2> QED BY <2>1, <2>2, AccountsKept DEF slotVars
  <1>3. CASE KillSlot
    <2>1. pc = "kill" /\ pc' = "kill" /\ num_active' = num_active /\ UNCHANGED hist
      BY <1>3 DEF KillSlot
    <2>2. CASE IsFree(i)
      BY <1>3, <2>1, <2>2, AccountsKept DEF KillSlot
    <2>3. CASE ~IsFree(i)
      <3>1. /\ running' = [running EXCEPT ![i].stopping = TRUE]
            /\ proc' = [proc EXCEPT ![running[i].pgrp] = Killed(proc[running[i].pgrp], send_signal)]
        BY <1>3, <2>3 DEF KillSlot
      <3>2. \A s \in Slots : running'[s].pgrp = running[s].pgrp
        BY <1>0, <3>1 DEF SlotType
      <3>3. \A p \in Pids : proc'[p].leader = None <=> proc[p].leader = None
        BY <1>0, <3>1, KilledType DEF ProcType
      <3> QED BY <2>1, <3>2, <3>3, AccountsKept
    <2> QED BY <2>2, <2>3
  <1>4. CASE KillOrphans \/ ReapOrphans
    <2>1. /\ UNCHANGED <<slotVars, hist>>
          /\ pc \notin {"read", "waitpid", "mark", "killed"} /\ pc' \notin {"read", "waitpid", "mark"}
      BY <1>4 DEF KillOrphans, ReapOrphans
    <2>2. \A p \in Pids : proc'[p].leader = None <=> proc[p].leader = None
      BY <1>0, <1>4, OrphansType DEF KillOrphans, ReapOrphans, TypeOK, ZooType, ProcType
    <2> QED BY <2>1, <2>2, AccountsKept DEF slotVars
  <1>5. CASE ExecFailed
    <2>1. /\ UNCHANGED <<slotVars, proc, cpid, hist>> /\ pc = "read" /\ pc' = "waitpid"
      BY <1>5 DEF ExecFailed
    <2>2. /\ UsedSlots' = UsedSlots /\ Children' = Children /\ Dropped' = Dropped
          /\ InRunChild' = InRunChild /\ UNCHANGED <<running, num_active>>
      BY <2>1 DEF UsedSlots, FreeSlots, IsFree, Children, Dropped, InRunChild, slotVars
    <2> QED BY <2>1, <2>2 DEF SlotInv, SlotAccounting, RunChildInv
  <1>6. CASE ForgetChild
    BY <1>6, AccountsForget DEF ForgetChild
  <1>7. ASSUME NEW sig \in Signals, Signal(sig) PROVE SlotInv'
    BY <1>7, AccountsSignal
  <1>8. ASSUME NEW p \in Pids, ChildEnds(p) \/ ChildForks(p) \/ OthersEnd(p)
        PROVE  SlotInv'
    <2>1. UNCHANGED <<slotVars, pc, cpid>>
      BY <1>8 DEF ChildEnds, ChildForks, OthersEnd, worldUnchanged
    <2>2. \A q \in Pids : proc'[q].leader = None <=> proc[q].leader = None
      <3>1. CASE ChildEnds(p)
        <4>1. PICK o \in AllOutcomes : proc' = [proc EXCEPT ![p].leader = o]
          BY <3>1, ChildEndsIs
        <4>2. proc[p].leader \in {"run", "doomed"}
          BY <3>1 DEF ChildEnds, Alive
        <4> QED BY <1>0, <4>1, <4>2 DEF ProcType, AllOutcomes, None
      <3>2. CASE ChildForks(p) \/ OthersEnd(p)
        BY <1>0, <3>2 DEF ChildForks, OthersEnd, ProcType, Groups
      <3> QED BY <1>8, <3>1, <3>2
    <2>3. hist'.dropped = hist.dropped /\ hist'.strays = hist.strays
      BY <1>8, ChildEndsIs DEF ChildForks, OthersEnd
    <2> QED BY <2>1, <2>2, <2>3, AccountsKept DEF slotVars
  <1>9. CASE TouchStopFile \/ UNCHANGED vars
    <2>1. UNCHANGED <<slotVars, pc, cpid, proc, hist>>
      BY <1>9 DEF TouchStopFile, worldUnchanged, vars
    <2> QED BY <2>1, AccountsKept DEF slotVars
  <1> QED BY <1>1, <1>2, <1>3, <1>4, <1>5, <1>6, <1>7, <1>8, <1>9
          DEF AnyNext, PanStep, AnyWorld, Ended

LEMMA SlotInvHolds == Spec => []SlotInv
  BY AccountsInit, AccountsNext, TypeTheorem, StepIsAny, PTL DEF Spec

(* num_active counts the used slots, less the strays, and the children     *)
(* that have not been dropped have one slot each: wait() returns a child   *)
(* that check_pids() finds in exactly one slot, or a dropped one.          *)
THEOREM SlotTheorem == Spec => []SlotAccounting
  <1>1. SlotInv => SlotAccounting
    BY DEF SlotInv
  <1> QED BY <1>1, SlotInvHolds, PTL

(* When the start loop looks for a slot there is one.                      *)
LEMMA SlotFree ==
    ASSUME TypeOK, SlotAccounting, pc = "start", MayStart, NoStray
    PROVE  FreeSlots # {}
  <1> SUFFICES ASSUME FreeSlots = {} PROVE FALSE
    OBVIOUS
  <1>1. UsedSlots = Slots
    BY DEF UsedSlots
  <1>2. Cardinality(UsedSlots) = num_active /\ num_active < KeepActive
    BY DEF SlotAccounting, MayStart, TypeOK, SlotType, NoStray
  <1> QED BY <1>1, <1>2, SlotsFinite, KeepActiveAssumption DEF TypeOK, SlotType

(* The message "Aborting: i == keep_active" is never printed by a pan that *)
(* has had no stray.                                                       *)
THEOREM AbortUnreachable == Spec => [](pc = "start" /\ MayStart /\ NoStray => FreeSlots # {})
  BY SlotFree, TypeTheorem, SlotTheorem, PTL

----------------------------------------------------------------------------
(* What SA_RESTART is worth.  No test is dropped, no failure missed and    *)
(* there is no stray if the uninitialised sa_flags happen to contain it,   *)
(* or as long as no signal arrives.                                        *)

Undisturbed == "RESTART" \in sa_flags \/ ~hist.interrupted
NothingLost == Dropped = {} /\ NoStray /\ hist.missed = 0

LEMMA LostInit == Init => (Undisturbed => NothingLost)
  BY DEF Init, NothingLost, Dropped, NoStray

LEMMA LostNext ==
    ASSUME TypeOK, Shape, SlotInv, Undisturbed => NothingLost, [AnyNext]_vars
    PROVE  Undisturbed' => NothingLost'
  <1>0. HistType /\ c \in Cmds
    BY DEF TypeOK, ControlType
  <1> USE DEF Undisturbed, NothingLost, Dropped, NoStray
  <1>1. CASE \/ MarkSelf \/ PreallocMark \/ PreallocClear
             \/ LeaveStartLoop \/ PickSlot \/ ForkFails \/ ExecDone \/ MarkChild \/ ExecFailed
             \/ ForgetChild \/ CheckStop \/ NoSignal \/ SeeUsr2 \/ SeeSignal
             \/ KillSlot \/ KillOrphans \/ ResetSend \/ ResetRec \/ ReapOrphans
             \/ EnterWait \/ ClearChild \/ CheckOrphan
             \/ HandleError \/ EndRound \/ OrphansLeft \/ Nap \/ Finish
    <2>1. /\ sa_flags' = sa_flags
          /\ \/ hist' = hist
             \/ \E b \in BOOLEAN : hist' = [hist EXCEPT !.refused = b]
             \/ \E b \in BOOLEAN : hist' = [hist EXCEPT !.interrupted = hist.interrupted \/ b]
      BY <1>1, Zenon DEF MarkSelf, PreallocMark, PreallocClear, LeaveStartLoop, PickSlot, ForkFails,
           ExecDone, MarkChild, ExecFailed, ForgetChild, CheckStop, NoSignal, SeeUsr2, SeeSignal,
           KillSlot, KillOrphans, ResetSend, ResetRec, ReapOrphans, EnterWait, ClearChild,
           CheckOrphan, HandleError, EndRound, OrphansLeft, Nap, Finish, optVars
    <2> QED BY <1>0, <2>1 DEF HistType
  <1>2. CASE ForkChild
    <2>1. sa_flags' = sa_flags
      BY <1>2 DEF ForkChild, optVars
    <2> QED BY <1>0, <1>2, <2>1, ForkHist
  <1>3. CASE Reap
    <2>1. /\ sa_flags' = sa_flags
          /\ hist' = hist \/ \E p \in Zombies : /\ SlotsOf(p) = {}
                                                /\ hist' = [hist EXCEPT !.strays = @ + 1]
      BY <1>3 DEF Reap, optVars
    <2>2. \A p \in Zombies : SlotsOf(p) = {} => p \in hist.dropped
      <3> SUFFICES ASSUME NEW p \in Zombies, SlotsOf(p) = {} PROVE p \in hist.dropped
        OBVIOUS
      <3>1. Children \ Dropped = {running[s].pgrp : s \in UsedSlots}
        BY <1>3 DEF Reap, SlotInv, SlotAccounting, InRunChild
      <3>2. p \in Children
        BY DEF Zombies, Children, AllOutcomes, None
      <3> QED BY <3>1, <3>2 DEF SlotsOf, UsedSlots
    <2> QED BY <1>0, <2>1, <2>2 DEF HistType
  <1>4. ASSUME NEW sig \in Signals, Signal(sig)
        PROVE  Undisturbed' => NothingLost'
    BY <1>4, SignalIs DEF SameCounts
  <1>5. ASSUME NEW p \in Pids, ChildEnds(p) \/ ChildForks(p) \/ OthersEnd(p)
        PROVE  Undisturbed' => NothingLost'
    <2>1. sa_flags' = sa_flags
      BY <1>5 DEF ChildEnds, ChildForks, OthersEnd, worldUnchanged, optVars
    <2> QED BY <1>5, <2>1, ChildEndsIs DEF ChildForks, OthersEnd
  <1>6. CASE TouchStopFile \/ UNCHANGED vars
    <2>1. UNCHANGED <<sa_flags, hist>>
      BY <1>6 DEF TouchStopFile, worldUnchanged, vars, optVars
    <2> QED BY <2>1
  <1> QED BY <1>1, <1>2, <1>3, <1>4, <1>5, <1>6 DEF AnyNext, PanStep, AnyWorld, Ended

(* With SA_RESTART, or without a signal, run_child() drops no test: the    *)
(* properties that except dropped tests and strays then hold without       *)
(* exception.                                                              *)
THEOREM RestartTheorem == Spec => [](Undisturbed => NothingLost)
  BY LostInit, LostNext, TypeTheorem, SlotInvHolds, StepIsAny, PTL DEF Spec

----------------------------------------------------------------------------
(* AtMostOneLateStart.  Once a signal was noticed (seen) there is a reason *)
(* not to start: the signal is pending, or it has been turned into stop.   *)
(* Only a start that was decided before (pc = "fork") still happens.       *)

LateInv ==
    /\ hist.seen => ~fork_in_road /\ (rec_signal # None \/ stop)
    /\ ~hist.seen \/ pc = "fork" => hist.late = 0
    /\ hist.late <= 1
    /\ draining => stop

LEMMA LateInit == Init => LateInv
  BY DEF Init, LateInv

(* A step that neither starts anything nor forgets a signal.               *)
LEMMA LateKept ==
    ASSUME LateInv, UNCHANGED <<fork_in_road, draining>>,
           hist'.seen = hist.seen, hist'.late = hist.late,
           pc' = "fork" => pc = "fork",
           stop => stop',
           hist.seen => rec_signal' # None \/ stop'
    PROVE  LateInv'
  BY DEF LateInv

LEMMA LateNext ==
    ASSUME TypeOK, Shape, LateInv, [AnyNext]_vars
    PROVE  LateInv'
  <1>0. HistType /\ SchedType /\ SigType /\ c \in Cmds
    BY DEF TypeOK, ControlType
  <1>1. CASE \/ MarkSelf \/ PreallocMark \/ PreallocClear \/ LeaveStartLoop \/ ExecDone
             \/ MarkChild \/ ExecFailed \/ ForgetChild \/ NoSignal \/ SeeUsr2 \/ KillSlot \/ KillOrphans \/ ReapOrphans \/ EnterWait
             \/ ClearChild \/ CheckOrphan \/ OrphansLeft \/ Finish
    <2>1. /\ UNCHANGED <<hist, fork_in_road, draining, stop, rec_signal>>
          /\ pc' # "fork"
      BY <1>1 DEF MarkSelf, PreallocMark, PreallocClear, LeaveStartLoop, ExecDone, MarkChild,
           ExecFailed, ForgetChild, NoSignal,
           SeeUsr2, KillSlot, KillOrphans, ReapOrphans, EnterWait, ClearChild, CheckOrphan,
           OrphansLeft, Finish, schedVars, sigVars
    <2> QED BY <2>1, LateKept DEF LateInv
  <1>2. CASE PickSlot
    <2>1. ~hist.seen
      BY <1>2 DEF PickSlot, MayStart, LateInv
    <2> QED BY <1>2, <2>1 DEF PickSlot, LateInv, schedVars
  <1>3. CASE ForkChild
    <2>0. hist.late = 0
      BY <1>3 DEF ForkChild, LateInv
    <2>1. hist'.seen = hist.seen /\ hist'.late \in {0, 1}
      BY <1>0, <1>3, <2>0, ForkHist
    <2>2. ~hist.seen => hist'.late = 0
      BY <1>0, <1>3, <2>0, ForkHist
    <2> QED BY <1>0, <1>3, <2>1, <2>2 DEF ForkChild, LateInv, HistType, schedVars, sigVars
  <1>4. CASE ForkFails
    <2>1. hist'.seen = hist.seen /\ hist'.late = hist.late
      BY <1>0, <1>4 DEF ForkFails, HistType
    <2> QED BY <1>4, <2>1 DEF ForkFails, LateInv, schedVars, sigVars
  <1>15. CASE Reap
    <2>1. hist'.seen = hist.seen /\ hist'.late = hist.late /\ pc' # "fork"
      BY <1>0, <1>15 DEF Reap, HistType
    <2> QED BY <1>15, <2>1, LateKept DEF Reap, LateInv, schedVars, sigVars
  <1>5. CASE CheckStop
    <2>1. hist'.seen = hist.seen /\ hist'.late = hist.late
      BY <1>0, <1>5 DEF CheckStop, HistType
    <2> QED BY <1>5, <2>1 DEF CheckStop, LateInv, sigVars
  <1>6. CASE SeeSignal
    <2>1. /\ UNCHANGED <<hist, draining, stop>> /\ pc' # "fork"
          /\ rec_signal' # None /\ (fork_in_road' => fork_in_road)
      BY <1>6 DEF SeeSignal, AlarmAsTerm, None
    <2> QED BY <2>1 DEF LateInv
  <1>7. CASE ResetSend
    <2>1. /\ UNCHANGED <<hist, draining, fork_in_road>> /\ pc' # "fork"
          /\ UNCHANGED <<stop, rec_signal>>
      BY <1>7 DEF ResetSend, schedVars
    <2> QED BY <2>1, LateKept DEF LateInv
  <1>8. CASE ResetRec
    <2>1. /\ UNCHANGED <<hist, draining, fork_in_road>> /\ pc' # "fork"
          /\ (stop => stop') /\ (~draining /\ ~fork_in_road => stop')
      BY <1>8 DEF ResetRec, IdleOrStop
    <2> QED BY <2>1, LateKept DEF LateInv
  <1>9. CASE HandleError
    <2>1. /\ UNCHANGED <<draining, fork_in_road, stop>> /\ pc' # "fork"
          /\ rec_signal' # None \/ UNCHANGED rec_signal
      BY <1>9 DEF HandleError, wait_handler, None, sigVars
    <2>2. hist'.seen = hist.seen /\ hist'.late = hist.late
      BY <1>0, <1>9 DEF HandleError, HistType
    <2> QED BY <2>1, <2>2 DEF LateInv
  <1>10. CASE EndRound
    <2>1. /\ UNCHANGED <<hist, fork_in_road, stop, rec_signal>> /\ pc' # "fork"
          /\ draining' => draining \/ stop
      BY <1>10 DEF EndRound, wait_handler, None, sigVars
    <2> QED BY <2>1 DEF LateInv
  <1>11. CASE Nap
    <2>1. /\ UNCHANGED <<hist, fork_in_road, draining, stop>> /\ pc' # "fork"
          /\ rec_signal' # None
      BY <1>11 DEF Nap, wait_handler, None, AlarmAsTerm, schedVars
    <2> QED BY <2>1, LateKept
  <1>12. ASSUME NEW sig \in Signals, Signal(sig) PROVE LateInv'
    <2>1. sig # None
      BY DEF Signals, None
    <2>2. UNCHANGED <<fork_in_road, draining, stop>> /\ (pc' = "fork" => pc = "fork")
      BY <1>12, SignalIs DEF schedVars
    <2>3. hist'.late = hist.late
      BY <1>12, SignalIs DEF SameCounts
    <2>4. CASE Fatal(sig)
      <3>1. hist'.seen = hist.seen /\ UNCHANGED rec_signal
        BY <1>12, <2>4, SignalIs DEF sigVars
      <3> QED BY <2>2, <2>3, <3>1 DEF LateInv
    <2>5. CASE ~Fatal(sig)
      <3>1. rec_signal' # None
        BY <1>12, <2>1, <2>5, SignalIs DEF wait_handler, None
      <3>2. hist'.seen = (hist.seen \/ ~fork_in_road)
        BY <1>12, <2>5, SignalIs
      <3> QED BY <2>2, <2>3, <3>1, <3>2 DEF LateInv
    <2> QED BY <2>4, <2>5
  <1>13. ASSUME NEW p \in Pids, ChildEnds(p) \/ ChildForks(p) \/ OthersEnd(p)
         PROVE  LateInv'
    <2>1. UNCHANGED <<pc, fork_in_road, draining, stop, rec_signal>>
      BY <1>13 DEF ChildEnds, ChildForks, OthersEnd, worldUnchanged, schedVars, sigVars
    <2>2. hist'.seen = hist.seen /\ hist'.late = hist.late
      BY <1>0, <1>13, ChildEndsIs DEF ChildForks, OthersEnd, HistType
    <2> QED BY <2>1, <2>2 DEF LateInv
  <1>14. CASE TouchStopFile \/ UNCHANGED vars
    <2>1. UNCHANGED <<pc, hist, fork_in_road, draining, stop, rec_signal>>
      BY <1>14 DEF TouchStopFile, worldUnchanged, vars, schedVars, sigVars
    <2> QED BY <2>1, LateKept DEF LateInv
  <1> QED BY <1>1, <1>2, <1>3, <1>4, <1>5, <1>6, <1>7, <1>8, <1>9, <1>10, <1>11, <1>12, <1>13,
             <1>14, <1>15 DEF AnyNext, PanStep, AnyWorld, Ended

(* After a signal at most the one start already decided happens, whatever  *)
(* the number and the timing of the signals.                               *)
THEOREM LateStartTheorem == Spec => []AtMostOneLateStart
  <1>1. LateInv => AtMostOneLateStart
    BY DEF LateInv, AtMostOneLateStart
  <1> QED BY <1>1, LateInit, LateNext, TypeTheorem, StepIsAny, PTL DEF Spec
============================================================================
