---------------------------- MODULE PanZooProofs ----------------------------
(***************************************************************************)
(* The zoo against the processes that exist, for every number of slots,    *)
(* commands, pids and signals.                                             *)
(***************************************************************************)
EXTENDS PanProofs

----------------------------------------------------------------------------
(* The zoo operations on a file with at most one line for each pid.        *)

LEMMA MarkAdds ==
    ASSUME zoo \in Seq(ZooLines), OneLineEach, NEW p, p \notin Pids_in_zoo, NEW t \in ZTags,
           zoo_mark(p, t)
    PROVE  OneLineEach' /\ Pids_in_zoo' = Pids_in_zoo \cup {p}
  <1> DEFINE e == Entry(p, t)
  <1>1. e # Free /\ e.pid = p
    BY DEF Entry, Free, ZTags
  <1>2. PICK k \in Nat : /\ k \in DOMAIN zoo' /\ DOMAIN zoo' = DOMAIN zoo \cup {k}
                         /\ k \in DOMAIN zoo => zoo[k] = Free
                         /\ zoo'[k] = e
                         /\ \A j \in DOMAIN zoo : j # k => zoo'[j] = zoo[j]
    <2>1. CASE \E k \in FreeLines : zoo' = [zoo EXCEPT ![k] = e]
      <3>1. PICK k \in DOMAIN zoo : zoo[k] = Free /\ zoo' = [zoo EXCEPT ![k] = e]
        BY <2>1 DEF FreeLines, FreeLinesOf
      <3>2. k \in Nat /\ DOMAIN zoo' = DOMAIN zoo /\ zoo'[k] = e
        BY <3>1
      <3>3. \A j \in DOMAIN zoo : j # k => zoo'[j] = zoo[j]
        BY <3>1
      <3> QED BY <3>1, <3>2, <3>3
    <2>2. CASE zoo' = Append(zoo, e)
      <3> DEFINE k == Len(zoo) + 1
      <3>1. k \in Nat /\ k \in DOMAIN zoo' /\ k \notin DOMAIN zoo /\ zoo'[k] = e
        BY <2>2
      <3>2. DOMAIN zoo' = DOMAIN zoo \cup {k} /\ \A j \in DOMAIN zoo : zoo'[j] = zoo[j]
        BY <2>2
      <3> QED BY <3>1, <3>2
    <2> QED BY <2>1, <2>2 DEF zoo_mark
  <1> HIDE DEF e
  <1>3. DOMAIN zoo' \ FreeLines' = (DOMAIN zoo \ FreeLines) \cup {k}
    BY <1>1, <1>2 DEF FreeLines, FreeLinesOf
  <1>4. k \notin DOMAIN zoo \ FreeLines
    BY <1>2 DEF FreeLines, FreeLinesOf
  <1>5. \A j \in DOMAIN zoo \ FreeLines : zoo'[j] = zoo[j] /\ zoo[j].pid # p
    BY <1>2, <1>4 DEF Pids_in_zoo
  <1>6. Pids_in_zoo' = Pids_in_zoo \cup {p}
    BY <1>1, <1>2, <1>3, <1>5 DEF Pids_in_zoo
  <1>7. OneLineEach'
    BY <1>1, <1>2, <1>3, <1>5 DEF OneLineEach
  <1> QED BY <1>6, <1>7

LEMMA ClearEachRemoves ==
    ASSUME zoo \in Seq(ZooLines), OneLineEach, NEW P, zoo_clear_each(P)
    PROVE  OneLineEach' /\ Pids_in_zoo' = Pids_in_zoo \ P
  <1>1. \A k \in DOMAIN zoo \ FreeLines, p \in P : IsFirst(k, LinesOf(p)) <=> zoo[k].pid = p
    BY DEF IsFirst, LinesOf, LinesIn, FreeLines, FreeLinesOf, OneLineEach
  <1>2. \A k \in FreeLines, p \in P : ~IsFirst(k, LinesOf(p))
    BY DEF IsFirst, LinesOf, LinesIn, FreeLines, FreeLinesOf
  <1>3. DOMAIN zoo' = DOMAIN zoo
    BY DEF zoo_clear_each
  <1>4. \A k \in DOMAIN zoo \ FreeLines :
          /\ zoo[k].pid \in P => zoo'[k] = Free
          /\ zoo[k].pid \notin P => zoo'[k] = zoo[k]
    BY <1>1 DEF zoo_clear_each
  <1>5. \A k \in FreeLines : zoo'[k] = Free
    BY <1>2 DEF zoo_clear_each, FreeLines, FreeLinesOf
  <1>6. DOMAIN zoo' \ FreeLines' = {k \in DOMAIN zoo \ FreeLines : zoo[k].pid \notin P}
    BY <1>3, <1>4, <1>5 DEF FreeLines, FreeLinesOf
  <1>7. Pids_in_zoo' = Pids_in_zoo \ P
    BY <1>4, <1>6 DEF Pids_in_zoo
  <1>8. OneLineEach'
    BY <1>4, <1>6 DEF OneLineEach
  <1> QED BY <1>7, <1>8

LEMMA WarnsIs == ASSUME NEW p PROVE ClearWarns(p) <=> p \notin Pids_in_zoo
  BY DEF ClearWarns, LinesOf, LinesIn, Pids_in_zoo, FreeLines, FreeLinesOf

LEMMA ClearRemoves ==
    ASSUME zoo \in Seq(ZooLines), OneLineEach, NEW p, p \in Pids_in_zoo, zoo_clear(p)
    PROVE  OneLineEach' /\ Pids_in_zoo' = Pids_in_zoo \ {p}
  <1>1. PICK k \in LinesOf(p) : IsFirst(k, LinesOf(p)) /\ zoo' = [zoo EXCEPT ![k] = Free]
    BY WarnsIs DEF zoo_clear
  <1>2. \A j \in DOMAIN zoo : IsFirst(j, LinesOf(p)) <=> j = k
    BY <1>1 DEF LinesOf, LinesIn, IsFirst, OneLineEach, FreeLines, FreeLinesOf
  <1>3. zoo_clear_each({p})
    BY <1>1, <1>2 DEF zoo_clear_each
  <1> QED BY <1>3, ClearEachRemoves

----------------------------------------------------------------------------
(* After the main loop there is no child, but for dropped ones and after a *)
(* stray, and no orphan at the end.                                        *)

DrainInv ==
    /\ draining => /\ NoStray => Children \subseteq Dropped
                   /\ pc \in {"drain", "nap", "kill", "reset_send", "reset_rec", "done", "killed"}
    /\ pc \in {"drain", "nap", "done"} => draining
    /\ pc = "done" => orphans = {}

(* An existing group is led by a child, is an orphan, has just lost its    *)
(* leader (cpid), or was dropped.  The child of a failed exec, that        *)
(* run_child() waits for without looking after its group, has no group.    *)
Aborted == {"killed", "exit1"}

Hopeless == (pc = "read" /\ c \in BadCmds) \/ (pc = "waitpid" /\ cpid \notin Dropped)

FollowInv ==
    pc \notin Aborted =>
      /\ orphans \cap Children = {}
      /\ pc \in {"clear", "orphan"} => cpid \notin Children \cup orphans
      /\ \A p \in Pids : GroupExists(p) =>
            p \in Children \cup orphans \cup Dropped \/ (pc \in {"clear", "orphan"} /\ p = cpid)
      /\ pc \in Startup => orphans = {} /\ Children = {}
      /\ Hopeless => proc[cpid].leader # "run" /\ ~proc[cpid].others

(* While pan starts, the zoo holds what was preallocated so far.           *)
Expected ==
    CASE pc = "mark_self" -> {}
      [] pc = "prealloc" -> {PanPid} \cup 0 .. i - 1
      [] pc = "unalloc" -> {PanPid} \cup i .. KeepActive - 1
      [] OTHER -> Recorded

ZooInv ==
    pc # "killed" => /\ Pids_in_zoo = Expected /\ OneLineEach
                     /\ pc # "exit1"
                     /\ pc = "mark_self" => i = 0

LEMMA GroupIs ==
    ASSUME ProcType, NEW p \in Pids
    PROVE  GroupExists(p) <=> proc[p].leader # None \/ proc[p].others
  BY DEF GroupExists, NoProc, ProcType, Groups

(* What each step does to the processes.                                   *)

Busy == \/ LeaveStartLoop \/ PickSlot \/ ForkFails
        \/ CheckStop \/ NoSignal \/ SeeUsr2 \/ SeeSignal \/ ResetSend \/ ResetRec
        \/ EnterWait \/ HandleError \/ EndRound \/ OrphansLeft \/ Nap

Quiet == {"start", "fork", "signals", "test", "reset_rec", "kill", "reset_send", "reap",
          "wait", "blocked", "after", "round", "drain", "nap"}

LEMMA BusySteps ==
    ASSUME HistType, Busy
    PROVE  /\ UNCHANGED <<proc, orphans, zoo, cpid>> /\ pc \in Quiet /\ pc' \in Quiet
           /\ hist'.dropped = hist.dropped /\ hist'.strays = hist.strays
  <1>1. UNCHANGED <<proc, orphans, zoo, cpid>> /\ pc \in Quiet /\ pc' \in Quiet
    BY DEF Busy, Quiet, LeaveStartLoop, PickSlot, ForkFails, CheckStop, NoSignal, SeeUsr2,
           SeeSignal, ResetSend, ResetRec, EnterWait, HandleError, EndRound, OrphansLeft, Nap
  <1>2. hist'.dropped = hist.dropped /\ hist'.strays = hist.strays
    BY DEF Busy, LeaveStartLoop, PickSlot, ForkFails, CheckStop, NoSignal, SeeUsr2,
           SeeSignal, ResetSend, ResetRec, EnterWait, HandleError, EndRound, OrphansLeft, Nap,
           HistType
  <1> QED BY <1>1, <1>2

LEMMA KillSteps ==
    ASSUME ProcType, SlotType, ControlType, KillSlot
    PROVE  /\ UNCHANGED <<orphans, zoo, cpid, pc, draining, hist>> /\ pc = "kill"
           /\ Children' = Children
           /\ \A p \in Pids : GroupExists(p)' => GroupExists(p)
  <1>1. UNCHANGED <<orphans, zoo, cpid, pc, draining, hist>> /\ pc = "kill"
    BY DEF KillSlot
  <1>2. \A p \in Pids : /\ proc'[p].leader = None <=> proc[p].leader = None
                        /\ proc'[p].others => proc[p].others
                        /\ proc'[p] \in Groups
    <2>1. CASE IsFree(i)
      BY <2>1 DEF KillSlot, ProcType
    <2>2. CASE ~IsFree(i)
      <3>1. proc' = [proc EXCEPT ![running[i].pgrp] = Killed(proc[running[i].pgrp], send_signal)]
        BY <2>2 DEF KillSlot
      <3> QED BY <3>1, KilledType DEF ProcType
    <2> QED BY <2>1, <2>2
  <1>3. Children' = Children
    BY <1>2 DEF Children
  <1>4. ASSUME NEW p \in Pids, GroupExists(p)' PROVE GroupExists(p)
    BY <1>2, <1>4, GroupIs DEF GroupExists, NoProc, Groups
  <1> QED BY <1>1, <1>3, <1>4

LEMMA OrphanSteps ==
    ASSUME ProcType, ZooType, NEW sig, check_orphans(sig)
    PROVE  /\ Children' = Children
           /\ \A p \in Pids : GroupExists(p)' => GroupExists(p)
           /\ \A p \in orphans : GroupExists(p)' => p \in orphans'
           /\ orphans' \subseteq orphans
           /\ zoo_clear_each(orphans \ orphans')
  <1>1. \A p \in Pids : /\ proc'[p].leader = None <=> proc[p].leader = None
                        /\ proc'[p].others => proc[p].others
                        /\ proc'[p] \in Groups
    BY OrphansType DEF ProcType, ZooType
  <1>2. Children' = Children
    BY <1>1 DEF Children
  <1>3. ASSUME NEW p \in Pids, GroupExists(p)' PROVE GroupExists(p)
    BY <1>1, <1>3, GroupIs DEF GroupExists, NoProc, Groups
  <1>4. \A p \in orphans : GroupExists(p) <=> p \in orphans'
    BY DEF check_orphans
  <1>5. orphans' \subseteq orphans
    BY DEF check_orphans
  <1>6. zoo_clear_each(orphans \ orphans')
    <2>1. {p \in orphans : ~GroupExists(p)} = orphans \ orphans'
      BY <1>4
    <2> QED BY <2>1 DEF check_orphans
  <1> QED BY <1>2, <1>3, <1>4, <1>5, <1>6 DEF ProcType

(* A signal may drop the child that run_child() is looking after.          *)
Drops ==
    /\ \/ pc = "read" /\ pc' \in {"waitpid", "killed"}
       \/ pc = "waitpid" /\ pc' = "start"
    /\ hist'.dropped = hist.dropped \cup {cpid}
    /\ Alive(cpid) /\ UNCHANGED proc

LEMMA WorldSteps ==
    ASSUME TypeOK, Shape,
           \/ \E sig \in Signals : Signal(sig)
           \/ \E p \in Pids : ChildEnds(p) \/ ChildForks(p) \/ OthersEnd(p)
           \/ TouchStopFile \/ UNCHANGED vars
    PROVE  /\ UNCHANGED <<orphans, zoo, cpid, i, draining>> /\ hist'.strays = hist.strays
           /\ \/ Drops
              \/ /\ pc' = pc \/ pc' = "killed" \/ (pc = "blocked" /\ pc' = "after")
                 /\ hist'.dropped = hist.dropped /\ c' = c
           /\ Children' = Children
           /\ \A p \in Pids : GroupExists(p)' => GroupExists(p)
           /\ \A p \in Pids : /\ proc'[p].leader = "run" => proc[p].leader = "run"
                              /\ proc'[p].others => proc[p].others \/ proc[p].leader = "run"
  <1>0. ProcType
    BY DEF TypeOK
  <1>1. CASE \E sig \in Signals : Signal(sig)
    <2>1. /\ UNCHANGED <<orphans, zoo, cpid, i, draining, proc>> /\ hist'.strays = hist.strays
          /\ \/ Drops
             \/ /\ pc' = pc \/ pc' = "killed" \/ (pc = "blocked" /\ pc' = "after")
                /\ hist'.dropped = hist.dropped /\ c' = c
      BY <1>1, SignalIs DEF SameCounts, Drops
    <2> QED BY <2>1 DEF Children, GroupExists
  <1>2. CASE TouchStopFile \/ UNCHANGED vars
    <2>1. UNCHANGED <<orphans, zoo, cpid, i, draining, proc, hist, pc, c>>
      BY <1>2 DEF TouchStopFile, worldUnchanged, vars
    <2> QED BY <2>1 DEF Children, GroupExists
  <1>3. ASSUME NEW p \in Pids, ChildEnds(p) \/ ChildForks(p) \/ OthersEnd(p)
        PROVE  /\ UNCHANGED <<orphans, zoo, cpid, i, draining, pc, c>>
               /\ hist'.dropped = hist.dropped /\ hist'.strays = hist.strays
               /\ Children' = Children
               /\ \A q \in Pids : GroupExists(q)' => GroupExists(q)
               /\ \A q \in Pids : /\ proc'[q].leader = "run" => proc[q].leader = "run"
                                  /\ proc'[q].others => proc[q].others \/ proc[q].leader = "run"
    <2>1. UNCHANGED <<orphans, zoo, cpid, i, draining, pc, c>>
      BY <1>3 DEF ChildEnds, ChildForks, OthersEnd, worldUnchanged
    <2>2. /\ proc[p].leader # None \/ proc[p].others
          /\ proc'[p].leader = None <=> proc[p].leader = None
          /\ proc'[p].leader = "run" => proc[p].leader = "run"
          /\ proc'[p].others => proc[p].others \/ proc[p].leader = "run"
          /\ \A q \in Pids : q # p => proc'[q] = proc[q]
      <3>1. CASE ChildEnds(p)
        <4>1. PICK o \in AllOutcomes : proc' = [proc EXCEPT ![p].leader = o]
          BY <3>1, ChildEndsIs
        <4>2. proc[p].leader \in {"run", "doomed"}
          BY <3>1 DEF ChildEnds, Alive
        <4> QED BY <1>0, <4>1, <4>2 DEF ProcType, AllOutcomes, None, Groups
      <3>2. CASE ChildForks(p) \/ OthersEnd(p)
        BY <1>0, <3>2 DEF ChildForks, OthersEnd, ProcType, Groups, None
      <3> QED BY <1>3, <3>1, <3>2
    <2>3. Children' = Children
      BY <2>2 DEF Children
    <2>4. \A q \in Pids : GroupExists(q)' => GroupExists(q)
      <3>1. GroupExists(p)
        BY <1>0, <2>2, GroupIs
      <3> QED BY <2>2, <3>1 DEF GroupExists
    <2>5. hist'.dropped = hist.dropped /\ hist'.strays = hist.strays
      BY <1>3, ChildEndsIs DEF ChildForks, OthersEnd
    <2> QED BY <2>1, <2>2, <2>3, <2>4, <2>5
  <1> QED BY <1>1, <1>2, <1>3

----------------------------------------------------------------------------
LEMMA DrainInit == Init => DrainInv
  BY DEF Init, DrainInv

LEMMA DrainNext ==
    ASSUME TypeOK, Shape, SlotInv, DrainInv, [AnyNext]_vars
    PROVE  DrainInv'
  <1>0. ProcType /\ SlotType /\ ControlType /\ ZooType /\ HistType
    BY DEF TypeOK
  <1>1. CASE \/ MarkSelf \/ PreallocMark \/ PreallocClear \/ ForkChild \/ ExecDone \/ MarkChild
             \/ ExecFailed \/ ForgetChild \/ Reap \/ ClearChild \/ CheckOrphan \/ ReapOrphans
             \/ LeaveStartLoop \/ PickSlot \/ ForkFails \/ CheckStop \/ NoSignal \/ SeeUsr2
             \/ SeeSignal \/ EnterWait \/ HandleError
    <2>1. /\ UNCHANGED draining /\ pc' \notin {"drain", "nap", "done"}
          /\ pc \notin {"drain", "nap", "kill", "reset_send", "reset_rec", "done", "killed"}
      BY <1>1 DEF MarkSelf, PreallocMark, PreallocClear, ForkChild, ExecDone, MarkChild,
           ExecFailed, ForgetChild, Reap,
           ClearChild, CheckOrphan, ReapOrphans, LeaveStartLoop, PickSlot, ForkFails,
           CheckStop, NoSignal, SeeUsr2, SeeSignal, EnterWait, HandleError
    <2> QED BY <2>1 DEF DrainInv
  <1>2. CASE EndRound
    <2>1. /\ UNCHANGED <<proc, orphans, hist>> /\ pc = "round" /\ pc' \in {"drain", "start"}
          /\ (pc' = "drain" <=> num_active = 0 /\ stop)
          /\ draining' = (draining \/ pc' = "drain")
      BY <1>0, <1>2 DEF EndRound, ControlType
    <2>2. Children' = Children /\ Dropped' = Dropped /\ NoStray' = NoStray /\ ~draining
      BY <2>1 DEF Children, DrainInv, Dropped, NoStray
    <2>3. num_active = 0 /\ NoStray => Children \subseteq Dropped
      <3>1. num_active = 0 /\ NoStray => Cardinality(UsedSlots) = 0
        BY <2>1 DEF SlotInv, SlotAccounting, NoStray
      <3>2. num_active = 0 /\ NoStray => UsedSlots = {}
        BY <3>1, UsedFinite, FS_EmptySet
      <3>3. Children \ Dropped = {running[s].pgrp : s \in UsedSlots}
        BY <2>1 DEF SlotInv, SlotAccounting, InRunChild
      <3> QED BY <3>2, <3>3
    <2> QED BY <2>1, <2>2, <2>3 DEF DrainInv
  <1>3. CASE ResetSend \/ ResetRec \/ OrphansLeft \/ Nap
    <2>1. /\ UNCHANGED <<proc, orphans, draining, hist>>
          /\ pc \in {"reset_send", "reset_rec", "drain", "nap"}
          /\ pc \in {"drain", "nap"} \/ draining => pc' \in {"nap", "kill", "reset_rec", "drain"}
          /\ pc' \in {"drain", "nap", "done"} => draining
      BY <1>3 DEF ResetSend, ResetRec, OrphansLeft, Nap, DrainInv
    <2> QED BY <2>1 DEF DrainInv, Children, Dropped, NoStray
  <1>4. CASE KillSlot
    BY <1>0, <1>4, KillSteps DEF DrainInv, Dropped, NoStray
  <1>5. CASE KillOrphans
    <2>1. Children' = Children
      BY <1>0, <1>5, OrphanSteps DEF KillOrphans
    <2> QED BY <1>5, <2>1 DEF KillOrphans, DrainInv, Dropped, NoStray
  <1>6. CASE Finish
    BY <1>6 DEF Finish, DrainInv, Children, Dropped, NoStray
  <1>7. CASE AnyWorld \/ UNCHANGED vars
    <2>1. /\ UNCHANGED <<orphans, draining>> /\ Children' = Children
          /\ hist'.strays = hist.strays /\ hist.dropped \subseteq hist'.dropped
          /\ \/ pc' = pc \/ pc' = "killed" \/ (pc = "blocked" /\ pc' = "after")
             \/ (pc = "read" /\ pc' = "waitpid") \/ (pc = "waitpid" /\ pc' = "start")
      BY <1>7, WorldSteps DEF AnyWorld, Drops
    <2> QED BY <2>1 DEF DrainInv, Dropped, NoStray
  <1> QED BY <1>1, <1>2, <1>3, <1>4, <1>5, <1>6, <1>7 DEF AnyNext, PanStep, Ended

----------------------------------------------------------------------------
LEMMA FollowInit == Init => FollowInv
  BY DEF Init, FollowInv, Children, GroupExists, NoProc, Hopeless

LEMMA FollowKept ==
    ASSUME FollowInv, UNCHANGED orphans, Children' = Children,
           \A p \in Pids : GroupExists(p)' => GroupExists(p),
           pc \in Aborted => pc' \in Aborted,
           hist.dropped \subseteq hist'.dropped,
           pc' \notin Aborted => /\ pc \in {"clear", "orphan"} <=> pc' \in {"clear", "orphan"}
                                 /\ pc \in {"clear", "orphan"} => UNCHANGED cpid
                                 /\ pc' \in Startup => pc \in Startup
                                 /\ Hopeless' => proc'[cpid'].leader # "run" /\ ~proc'[cpid'].others
    PROVE  FollowInv'
  <1> SUFFICES ASSUME pc' \notin Aborted
               PROVE  /\ orphans' \cap Children' = {}
                      /\ pc' \in {"clear", "orphan"} => cpid' \notin Children' \cup orphans'
                      /\ \A p \in Pids : GroupExists(p)' =>
                            \/ p \in Children' \cup orphans' \cup Dropped'
                            \/ (pc' \in {"clear", "orphan"} /\ p = cpid')
                      /\ pc' \in Startup => orphans' = {} /\ Children' = {}
    BY DEF FollowInv
  <1>1. \A p \in Pids : GroupExists(p) =>
            \/ p \in Children \cup orphans \cup Dropped
            \/ (pc \in {"clear", "orphan"} /\ p = cpid)
    BY DEF FollowInv
  <1> QED BY <1>1 DEF FollowInv, Dropped

(* wait() returns a child with a slot, or a dropped one.                   *)
LEMMA ReapIsSlotOrStray ==
    ASSUME TypeOK, SlotInv, Reap
    PROVE  \E p \in Zombies :
             /\ p \in Pids /\ p \in Children /\ cpid' = p
             /\ proc' = [proc EXCEPT ![p].leader = None]
             /\ \/ /\ SlotsOf(p) # {} /\ p \notin Dropped
                   /\ pc' = "clear" /\ UNCHANGED hist
                \/ /\ SlotsOf(p) = {} /\ p \in Dropped /\ pc' = "after"
                   /\ hist' = [hist EXCEPT !.strays = hist.strays + 1]
  <1>1. PICK p \in Zombies :
          /\ proc' = [proc EXCEPT ![p].leader = None] /\ cpid' = p
          /\ SlotsOf(p) # {} => pc' = "clear" /\ UNCHANGED hist
          /\ SlotsOf(p) = {} => /\ pc' = "after"
                                /\ hist' = [hist EXCEPT !.strays = hist.strays + 1]
    BY DEF Reap
  <1>2. p \in Children /\ p \in Pids /\ p # 0 /\ pc = "blocked"
    BY ZeroIsNoPid DEF Zombies, Children, AllOutcomes, None, Reap
  <1>3. Children \ Dropped = {running[s].pgrp : s \in UsedSlots}
    BY <1>2 DEF SlotInv, SlotAccounting, InRunChild
  <1>4. SlotsOf(p) = {} <=> p \in Dropped
    <2>1. SlotsOf(p) # {} <=> \E s \in UsedSlots : running[s].pgrp = p
      BY <1>2 DEF SlotsOf, UsedSlots, FreeSlots, IsFree
    <2> QED BY <1>2, <1>3, <2>1
  <1> QED BY <1>1, <1>2, <1>4

LEMMA FollowNext ==
    ASSUME TypeOK, Shape, SlotInv, FollowInv, [AnyNext]_vars
    PROVE  FollowInv'
  <1>0. ProcType /\ SlotType /\ ControlType /\ ZooType /\ HistType
    BY DEF TypeOK
  <1>1. CASE Busy
    <2>1. /\ UNCHANGED <<proc, orphans>> /\ pc \in Quiet /\ pc' \in Quiet
          /\ hist'.dropped = hist.dropped
      BY <1>0, <1>1, BusySteps
    <2> QED BY <2>1, FollowKept DEF Children, GroupExists, Quiet, Startup, Aborted, Hopeless
  <1>2. CASE \/ MarkSelf \/ PreallocMark \/ PreallocClear \/ ExecDone \/ MarkChild \/ ExecFailed
             \/ ClearChild \/ Finish
    <2>1. /\ UNCHANGED <<proc, orphans, cpid, hist>> /\ pc \notin Aborted
          /\ pc \in {"clear", "orphan"} => pc' \in {"orphan", "exit1"}
          /\ pc' \in {"clear", "orphan"} => pc \in {"clear", "orphan"}
          /\ pc' \in Startup => pc \in Startup
          /\ pc' # "read" /\ (pc' = "waitpid" => pc = "read" /\ c \in BadCmds)
      BY <1>2 DEF MarkSelf, PreallocMark, PreallocClear, ExecDone, MarkChild, ExecFailed,
                  ClearChild, Finish, Startup, Aborted
    <2>2. Children' = Children /\ \A p \in Pids : GroupExists(p)' <=> GroupExists(p)
      BY <2>1 DEF Children, GroupExists
    <2>3. Hopeless' => proc'[cpid'].leader # "run" /\ ~proc'[cpid'].others
      BY <2>1 DEF Hopeless, FollowInv
    <2> QED BY <2>1, <2>2, <2>3, FollowKept DEF Aborted
  <1>3. CASE KillSlot
    BY <1>0, <1>3, KillSteps, FollowKept DEF Aborted, Startup, Hopeless
  <1>4. CASE AnyWorld \/ UNCHANGED vars
    <2>1. /\ UNCHANGED <<orphans, cpid>> /\ Children' = Children
          /\ \A p \in Pids : GroupExists(p)' => GroupExists(p)
          /\ \A p \in Pids : /\ proc'[p].leader = "run" => proc[p].leader = "run"
                             /\ proc'[p].others => proc[p].others \/ proc[p].leader = "run"
      BY <1>4, WorldSteps DEF AnyWorld
    <2>2. CASE Drops
      <3>1. /\ hist.dropped \subseteq hist'.dropped /\ ~Hopeless'
            /\ pc \notin Aborted \cup Startup \cup {"clear", "orphan"}
            /\ pc' \notin Startup \cup {"clear", "orphan"}
        BY <2>1, <2>2 DEF Drops, Hopeless, Dropped, Aborted, Startup
      <3> QED BY <2>1, <3>1, FollowKept
    <2>3. CASE /\ pc' = pc \/ pc' = "killed" \/ (pc = "blocked" /\ pc' = "after")
               /\ hist'.dropped = hist.dropped /\ c' = c
      <3>1. pc' \notin Aborted /\ Hopeless' =>
              proc'[cpid'].leader # "run" /\ ~proc'[cpid'].others
        BY <2>1, <2>3 DEF Hopeless, Dropped, FollowInv, Aborted, Shape
      <3> QED BY <2>1, <2>3, <3>1, FollowKept DEF Aborted, Startup
    <2> QED BY <1>4, <2>2, <2>3, WorldSteps DEF AnyWorld
  <1>5. CASE KillOrphans \/ ReapOrphans
    <2>1. /\ pc \in {"kill", "reap"} /\ pc' \in {"reset_send", "wait"} /\ UNCHANGED hist
          /\ \E sig : check_orphans(sig)
      BY <1>5 DEF KillOrphans, ReapOrphans
    <2>2. /\ Children' = Children /\ orphans' \subseteq orphans
          /\ \A p \in Pids : GroupExists(p)' => GroupExists(p)
          /\ \A p \in orphans : GroupExists(p)' => p \in orphans'
      BY <1>0, <2>1, OrphanSteps
    <2>3. /\ orphans \cap Children = {}
          /\ \A p \in Pids : GroupExists(p) => p \in Children \cup orphans \cup Dropped
      BY <2>1 DEF FollowInv, Aborted
    <2>4. orphans' \cap Children' = {} /\ Dropped' = Dropped /\ ~Hopeless'
      BY <2>1, <2>2, <2>3 DEF Dropped, Hopeless
    <2>5. \A p \in Pids : GroupExists(p)' => p \in Children' \cup orphans' \cup Dropped'
      BY <2>2, <2>3, <2>4
    <2> QED BY <2>1, <2>4, <2>5 DEF FollowInv, Startup
  <1>6. CASE ForkChild
    <2>1. PICK p \in FreshPids, l \in {"run", "doomed"} :
             /\ proc' = [proc EXCEPT ![p] = [leader |-> l, others |-> FALSE]]
             /\ cpid' = p /\ (c \in BadCmds => l = "doomed")
      BY <1>6 DEF ForkChild
    <2>2. /\ p \in Pids /\ p \notin orphans /\ UNCHANGED <<orphans, c>>
          /\ pc = "fork" /\ pc' = "read"
      BY <1>6 DEF FreshPids, ForkChild
    <2>3. Children' = Children \cup {p} /\ Dropped' = Dropped \ {p}
      BY <1>0, <1>6, <2>1, <2>2, ForkHist DEF Children, ProcType, None, Dropped, ControlType
    <2>4. \A q \in Pids : q # p => (GroupExists(q)' <=> GroupExists(q))
      BY <1>0, <2>1 DEF GroupExists, ProcType
    <2>5. /\ orphans \cap Children = {}
          /\ \A q \in Pids : GroupExists(q) => q \in Children \cup orphans \cup Dropped
      BY <2>2 DEF FollowInv, Aborted
    <2>6. orphans' \cap Children' = {}
      BY <2>2, <2>3, <2>5
    <2>7. \A q \in Pids : GroupExists(q)' => q \in Children' \cup orphans' \cup Dropped'
      BY <2>2, <2>3, <2>4, <2>5
    <2>8. Hopeless' => proc'[cpid'].leader # "run" /\ ~proc'[cpid'].others
      BY <1>0, <2>1, <2>2 DEF Hopeless, ProcType
    <2> QED BY <2>2, <2>6, <2>7, <2>8 DEF FollowInv, Startup
  <1>7. CASE Reap
    <2>1. PICK p \in Zombies :
             /\ p \in Pids /\ p \in Children /\ cpid' = p
             /\ proc' = [proc EXCEPT ![p].leader = None]
             /\ \/ pc' = "clear" /\ UNCHANGED hist
                \/ /\ p \in Dropped /\ pc' = "after"
                   /\ hist' = [hist EXCEPT !.strays = hist.strays + 1]
      BY <1>7, ReapIsSlotOrStray
    <2>2. UNCHANGED orphans /\ pc = "blocked" /\ pc' \in {"clear", "after"}
      BY <1>7, <2>1 DEF Reap
    <2>3. Children' = Children \ {p} /\ Dropped' = Dropped
      BY <1>0, <2>1, StrayHist DEF Children, ProcType, Dropped
    <2>4. \A q \in Pids : q # p => (GroupExists(q)' <=> GroupExists(q))
      BY <1>0, <2>1 DEF GroupExists, ProcType
    <2>5. /\ orphans \cap Children = {}
          /\ \A q \in Pids : GroupExists(q) => q \in Children \cup orphans \cup Dropped
      BY <2>2 DEF FollowInv, Aborted
    <2>6. orphans' \cap Children' = {} /\ cpid' \notin Children' \cup orphans'
      BY <2>1, <2>2, <2>3, <2>5
    <2>7. \A q \in Pids : GroupExists(q)' =>
             q \in Children' \cup orphans' \cup Dropped' \/ (pc' = "clear" /\ q = cpid')
      BY <2>1, <2>2, <2>3, <2>4, <2>5
    <2> QED BY <2>2, <2>6, <2>7 DEF FollowInv, Startup, Hopeless
  <1>8. CASE CheckOrphan
    <2>1. /\ pc = "orphan" /\ pc' = "after" /\ UNCHANGED <<proc, hist>>
          /\ orphans' = orphans \cup (IF GroupExists(cpid) THEN {cpid} ELSE {})
      BY <1>8 DEF CheckOrphan
    <2>2. /\ Children' = Children /\ Dropped' = Dropped /\ ~Hopeless'
          /\ \A p \in Pids : GroupExists(p)' <=> GroupExists(p)
      BY <2>1 DEF Children, GroupExists, Dropped, Hopeless
    <2>3. /\ orphans \cap Children = {} /\ cpid \notin Children \cup orphans
          /\ \A p \in Pids : GroupExists(p) => p \in Children \cup orphans \cup Dropped \cup {cpid}
      BY <2>1 DEF FollowInv, Aborted
    <2>4. orphans' \cap Children' = {}
      BY <2>1, <2>2, <2>3
    <2>5. \A p \in Pids : GroupExists(p)' => p \in Children' \cup orphans' \cup Dropped'
      BY <2>1, <2>2, <2>3
    <2> QED BY <2>1, <2>2, <2>4, <2>5 DEF FollowInv, Startup
  <1>9. CASE ForgetChild
    <2>1. /\ proc' = [proc EXCEPT ![cpid].leader = None] /\ cpid \in Pids /\ cpid \in Children
          /\ UNCHANGED <<orphans, hist, cpid>> /\ pc = "waitpid" /\ pc' = "start"
      BY <1>9 DEF ForgetChild, Shape, SlotInv, RunChildInv
    <2>2. Children' = Children \ {cpid} /\ Dropped' = Dropped /\ ~Hopeless'
      BY <1>0, <2>1 DEF Children, ProcType, Dropped, Hopeless
    <2>3. \A q \in Pids : q # cpid => (GroupExists(q)' <=> GroupExists(q))
      BY <1>0, <2>1 DEF GroupExists, ProcType
    <2>4. GroupExists(cpid)' => cpid \in Dropped
      <3>1. cpid \notin Dropped => ~proc[cpid].others
        BY <2>1 DEF FollowInv, Hopeless, Aborted
      <3>2. proc'[cpid] = [leader |-> None, others |-> proc[cpid].others]
        BY <1>0, <2>1 DEF ProcType, Groups
      <3>3. proc[cpid].others \in BOOLEAN
        BY <1>0, <2>1 DEF ProcType, Groups
      <3> QED BY <2>1, <3>1, <3>2, <3>3 DEF GroupExists, NoProc
    <2>5. /\ orphans \cap Children = {}
          /\ \A q \in Pids : GroupExists(q) => q \in Children \cup orphans \cup Dropped
      BY <2>1 DEF FollowInv, Aborted
    <2>6. orphans' \cap Children' = {}
      BY <2>1, <2>2, <2>5
    <2>7. \A q \in Pids : GroupExists(q)' => q \in Children' \cup orphans' \cup Dropped'
      BY <2>1, <2>2, <2>3, <2>4, <2>5
    <2> QED BY <2>1, <2>2, <2>6, <2>7 DEF FollowInv, Startup
  <1> QED BY <1>1, <1>2, <1>3, <1>4, <1>5, <1>6, <1>7, <1>8, <1>9 DEF AnyNext, PanStep, Ended, Busy

----------------------------------------------------------------------------
(* The zoo.  Away from Startup, "clear" and "done" it is to list pan, the  *)
(* children that are listed and the orphans.                               *)

Plain == {PanPid} \cup Listed \cup orphans

LEMMA ExpectedIs ==
    /\ pc \in Quiet \cup {"orphan", "read", "waitpid", "mark"} => Expected = Plain
    /\ pc = "clear" => Expected = Plain \cup {cpid}
    /\ pc = "done" => Expected = Listed \cup orphans
  BY DEF Expected, Recorded, Plain, Quiet

LEMMA ZooInit == Init => ZooInv
  BY DEF Init, ZooInv, Expected, Pids_in_zoo, OneLineEach

(* Nothing that another pid is used for is pan's or a preallocated line's. *)
LEMMA PidsApart ==
    ASSUME ProcType
    PROVE  /\ Children \subseteq Pids /\ Listed \subseteq Pids /\ orphans \subseteq Pids
           /\ PanPid \notin Pids /\ PanPid \notin Slots /\ \A s \in Slots : s \notin Pids
  BY PidsAssumption DEF Children, Listed, ProcType

LEMMA ZooStartup ==
    ASSUME TypeOK, Shape, FollowInv, ZooInv, MarkSelf \/ PreallocMark \/ PreallocClear
    PROVE  ZooInv'
  <1>0. ProcType /\ ControlType /\ zoo \in Seq(ZooLines)
    BY DEF TypeOK, ZooType
  <1>1. /\ pc \in Startup /\ Pids_in_zoo = Expected /\ OneLineEach
        /\ i \in Slots /\ orphans = {} /\ Children = {}
        /\ orphans' = {} /\ Children' = {}
    BY DEF MarkSelf, PreallocMark, PreallocClear, Startup, ZooInv, FollowInv, Shape, Children,
           Aborted
  <1>2. CASE MarkSelf
    <2>1. pc = "mark_self" /\ pc' = "prealloc" /\ i' = i /\ zoo_mark(PanPid, "pan")
      BY <1>2 DEF MarkSelf
    <2>2. Pids_in_zoo = {}
      BY <1>1, <2>1 DEF Expected
    <2>3. OneLineEach' /\ Pids_in_zoo' = {PanPid}
      BY <1>0, <1>1, <2>1, <2>2, MarkAdds DEF ZTags
    <2>4. i = 0
      BY <2>1 DEF ZooInv
    <2> QED BY <2>1, <2>3, <2>4 DEF ZooInv, Expected
  <1>3. CASE PreallocMark
    <2>1. pc = "prealloc" /\ zoo_mark(i, "pan") /\ Pids_in_zoo = {PanPid} \cup 0 .. i - 1
      BY <1>1, <1>3 DEF PreallocMark, Expected
    <2>2. i \notin Pids_in_zoo
      BY <1>0, <1>1, <2>1, PidsApart, KeepActiveAssumption DEF Slots
    <2>3. OneLineEach' /\ Pids_in_zoo' = Pids_in_zoo \cup {i}
      BY <1>0, <1>1, <2>1, <2>2, MarkAdds DEF ZTags
    <2>4. Pids_in_zoo' = {PanPid} \cup 0 .. i
      BY <1>1, <2>1, <2>3, KeepActiveAssumption DEF Slots
    <2>5. CASE i + 1 < KeepActive
      <3>1. pc' = "prealloc" /\ i' = i + 1
        BY <1>3, <2>1, <2>5 DEF PreallocMark
      <3>2. i' - 1 = i
        BY <1>1, <3>1, KeepActiveAssumption DEF Slots
      <3> QED BY <2>3, <2>4, <3>1, <3>2 DEF ZooInv, Expected
    <2>6. CASE ~(i + 1 < KeepActive)
      <3>1. pc' = "unalloc" /\ i' = 0
        BY <1>3, <2>6 DEF PreallocMark
      <3>2. i = KeepActive - 1
        BY <1>1, <2>6, KeepActiveAssumption DEF Slots
      <3> QED BY <2>3, <2>4, <3>1, <3>2 DEF ZooInv, Expected
    <2> QED BY <2>5, <2>6
  <1>4. CASE PreallocClear
    <2>1. pc = "unalloc" /\ zoo_clear(i) /\ Pids_in_zoo = {PanPid} \cup i .. KeepActive - 1
      BY <1>1, <1>4 DEF PreallocClear, Expected
    <2>2. i \in Pids_in_zoo
      BY <1>1, <2>1, KeepActiveAssumption DEF Slots
    <2>3. OneLineEach' /\ Pids_in_zoo' = Pids_in_zoo \ {i}
      BY <1>0, <1>1, <2>1, <2>2, ClearRemoves
    <2>4. Pids_in_zoo' = {PanPid} \cup (i + 1) .. KeepActive - 1
      <3>1. PanPid # i
        BY <1>0, <1>1, PidsApart
      <3>2. (i .. KeepActive - 1) \ {i} = (i + 1) .. KeepActive - 1
        BY <1>1, KeepActiveAssumption DEF Slots
      <3> QED BY <2>1, <2>3, <3>1, <3>2
    <2>5. ~ClearWarns(i)
      BY <2>2, WarnsIs
    <2>6. CASE i + 1 < KeepActive
      <3>1. pc' = "unalloc" /\ i' = i + 1
        BY <1>4, <2>1, <2>5, <2>6 DEF PreallocClear
      <3> QED BY <2>3, <2>4, <3>1 DEF ZooInv, Expected
    <2>7. CASE ~(i + 1 < KeepActive)
      <3>1. pc' = "start"
        BY <1>4, <2>5, <2>7 DEF PreallocClear
      <3>2. (i + 1) .. KeepActive - 1 = {}
        BY <1>1, <2>7, KeepActiveAssumption DEF Slots
      <3> QED BY <1>1, <2>3, <2>4, <3>1, <3>2 DEF ZooInv, Expected, Recorded, Listed
    <2> QED BY <2>6, <2>7
  <1> QED BY <1>2, <1>3, <1>4

(* The steps of run_child() before zoo_mark() do not change what is to be  *)
(* listed, nor does dropping a child or counting a stray.                  *)
LEMMA ZooRunChild ==
    ASSUME TypeOK, Shape, SlotInv, FollowInv, ZooInv,
           ForkChild \/ ExecDone \/ ExecFailed \/ ForgetChild
    PROVE  ZooInv'
  <1>0. ProcType /\ ControlType /\ HistType
    BY DEF TypeOK
  <1>1. /\ Pids_in_zoo = Plain /\ OneLineEach /\ UNCHANGED <<zoo, orphans>>
        /\ pc' \in {"read", "mark", "waitpid", "start"}
    BY ExpectedIs DEF ForkChild, ExecDone, ExecFailed, ForgetChild, ZooInv, Quiet
  <1>2. Listed' = Listed
    <2>1. CASE ForkChild
      <3>1. PICK p \in FreshPids, l \in {"run", "doomed"} :
               /\ proc' = [proc EXCEPT ![p] = [leader |-> l, others |-> FALSE]] /\ cpid' = p
        BY <2>1 DEF ForkChild
      <3>a. p \in Pids /\ proc[p] = [leader |-> None, others |-> FALSE]
        BY DEF FreshPids, GroupExists, NoProc
      <3>2. p \in Pids /\ p \notin Children /\ pc = "fork" /\ pc' = "read"
        <4>1. proc[p].leader = None
          BY <3>a
        <4>2. p \notin Children
          BY <4>1 DEF Children
        <4>3. pc = "fork" /\ pc' = "read"
          BY <2>1 DEF ForkChild
        <4> QED BY <3>a, <4>2, <4>3
      <3>3. Children' = Children \cup {p} /\ Dropped' = Dropped \ {p}
        BY <1>0, <2>1, <3>1, <3>2, ForkHist DEF Children, ProcType, None, Dropped, ControlType
      <3> QED BY <3>1, <3>2, <3>3 DEF Listed, Unmarked
    <2>2. CASE ExecDone \/ ExecFailed
      BY <2>2 DEF ExecDone, ExecFailed, Listed, Unmarked, Children, Dropped
    <2>3. CASE ForgetChild
      <3>1. /\ proc' = [proc EXCEPT ![cpid].leader = None] /\ cpid \in Pids
            /\ UNCHANGED <<cpid, hist>> /\ pc = "waitpid" /\ pc' = "start"
        BY <2>3 DEF ForgetChild, Shape
      <3>2. Children' = Children \ {cpid} /\ Dropped' = Dropped
        BY <1>0, <3>1 DEF Children, ProcType, Dropped
      <3> QED BY <3>1, <3>2 DEF Listed, Unmarked
    <2> QED BY <2>1, <2>2, <2>3
  <1>3. Expected' = Plain
    BY <1>1, <1>2 DEF Expected, Recorded, Plain
  <1> QED BY <1>1, <1>3 DEF ZooInv, Pids_in_zoo, OneLineEach, FreeLines

LEMMA ZooChild ==
    ASSUME TypeOK, Shape, SlotInv, FollowInv, ZooInv,
           MarkChild \/ Reap \/ ClearChild \/ CheckOrphan
    PROVE  ZooInv'
  <1>0. ProcType /\ ControlType /\ HistType /\ zoo \in Seq(ZooLines)
    BY DEF TypeOK, ZooType
  <1>1. /\ Pids_in_zoo = Expected /\ OneLineEach /\ orphans \cap Children = {}
        /\ pc \in {"clear", "orphan"} => cpid \in Pids /\ cpid \notin Children \cup orphans
    BY DEF MarkChild, Reap, ClearChild, CheckOrphan, ZooInv, FollowInv, Aborted, Shape
  <1>3. CASE MarkChild
    <2>1. /\ UNCHANGED <<proc, orphans, cpid, hist>> /\ pc = "mark" /\ pc' = "start"
          /\ zoo_mark(cpid, "tag")
      BY <1>3 DEF MarkChild
    <2>2. cpid \in Children \ Dropped /\ cpid \in Pids /\ cpid \notin orphans
      <3>1. i \in Slots /\ running[i].pgrp = cpid /\ cpid \in Pids
        BY <2>1 DEF Shape
      <3>2. i \in UsedSlots
        BY <3>1, ZeroIsNoPid DEF UsedSlots, FreeSlots, IsFree
      <3>3. cpid \in Children \ Dropped
        BY <2>1, <3>1, <3>2 DEF SlotInv, SlotAccounting
      <3> QED BY <1>1, <3>1, <3>3
    <2>3. Listed' = Listed \cup {cpid} /\ cpid \notin Listed
      BY <2>1, <2>2 DEF Children, Listed, Unmarked, Dropped
    <2>4. Pids_in_zoo = Plain
      BY <1>1, <2>1, ExpectedIs
    <2>5. cpid \notin Pids_in_zoo
      BY <1>0, <2>2, <2>3, <2>4, PidsApart DEF Plain
    <2>6. OneLineEach' /\ Pids_in_zoo' = Pids_in_zoo \cup {cpid}
      BY <1>0, <1>1, <2>1, <2>5, MarkAdds DEF ZTags
    <2>7. Pids_in_zoo' = {PanPid} \cup Listed' \cup orphans'
      BY <2>1, <2>3, <2>4, <2>6 DEF Plain
    <2> QED BY <2>1, <2>6, <2>7 DEF ZooInv, Expected, Recorded
  <1>4. CASE Reap
    <2>1. PICK p \in Zombies :
             /\ p \in Pids /\ p \in Children /\ cpid' = p
             /\ proc' = [proc EXCEPT ![p].leader = None]
             /\ \/ p \notin Dropped /\ pc' = "clear" /\ UNCHANGED hist
                \/ /\ p \in Dropped /\ pc' = "after"
                   /\ hist' = [hist EXCEPT !.strays = hist.strays + 1]
      BY <1>4, ReapIsSlotOrStray
    <2>2. UNCHANGED <<zoo, orphans>> /\ pc = "blocked"
      BY <1>4 DEF Reap
    <2>3. Children' = Children \ {p} /\ Dropped' = Dropped
      BY <1>0, <2>1, StrayHist DEF Children, ProcType, Dropped
    <2>4. Expected' = Expected
      <3>1. Expected = {PanPid} \cup (Children \ Dropped) \cup orphans
        BY <2>2 DEF Expected, Recorded, Listed, Unmarked
      <3>2. CASE pc' = "clear"
        <4>1. Expected' = {PanPid} \cup (Children' \ Dropped') \cup {p} \cup orphans
          BY <2>1, <2>2, <3>2 DEF Expected, Recorded, Listed, Unmarked
        <4> QED BY <2>1, <2>3, <3>1, <3>2, <4>1
      <3>3. CASE pc' = "after"
        <4>1. Expected' = {PanPid} \cup (Children' \ Dropped') \cup orphans
          BY <2>1, <2>2, <3>3 DEF Expected, Recorded, Listed, Unmarked
        <4> QED BY <2>1, <2>3, <3>1, <3>3, <4>1
      <3> QED BY <2>1, <3>2, <3>3
    <2> QED BY <1>1, <2>1, <2>2, <2>4 DEF ZooInv, Pids_in_zoo, OneLineEach, FreeLines
  <1>5. CASE ClearChild
    <2>1. /\ UNCHANGED <<proc, orphans, cpid, hist>> /\ pc = "clear" /\ zoo_clear(cpid)
          /\ ~ClearWarns(cpid) => pc' = "orphan"
      BY <1>5 DEF ClearChild
    <2>2. Pids_in_zoo = Plain \cup {cpid}
      BY <1>1, <2>1, ExpectedIs
    <2>3. pc' = "orphan"
      BY <2>1, <2>2, WarnsIs
    <2>4. Listed' = Listed
      BY <2>1, <2>3 DEF Children, Listed, Unmarked, Dropped
    <2>5. OneLineEach' /\ Pids_in_zoo' = Pids_in_zoo \ {cpid}
      BY <1>0, <1>1, <2>1, <2>2, ClearRemoves
    <2>6. cpid \notin Plain
      BY <1>0, <1>1, <2>1, PidsApart DEF Plain, Listed
    <2>7. Pids_in_zoo' = {PanPid} \cup Listed' \cup orphans'
      BY <2>1, <2>2, <2>4, <2>5, <2>6 DEF Plain
    <2> QED BY <2>3, <2>5, <2>7 DEF ZooInv, Expected, Recorded
  <1>6. CASE CheckOrphan
    <2>1. UNCHANGED <<proc, cpid, hist>> /\ pc = "orphan" /\ pc' = "after"
      BY <1>6 DEF CheckOrphan
    <2>2. Listed' = Listed
      BY <2>1 DEF Children, Listed, Unmarked, Dropped
    <2>3. Pids_in_zoo = Plain
      BY <1>1, <2>1, ExpectedIs
    <2>4. CASE GroupExists(cpid)
      <3>1. zoo_mark(cpid, "panorphan") /\ orphans' = orphans \cup {cpid}
        BY <1>6, <2>4 DEF CheckOrphan
      <3>2. cpid \notin Plain
        BY <1>0, <1>1, <2>1, PidsApart DEF Plain, Listed
      <3>3. OneLineEach' /\ Pids_in_zoo' = Pids_in_zoo \cup {cpid}
        BY <1>0, <1>1, <2>3, <3>1, <3>2, MarkAdds DEF ZTags
      <3> QED BY <2>1, <2>2, <2>3, <3>1, <3>3 DEF ZooInv, Expected, Recorded, Plain
    <2>5. CASE ~GroupExists(cpid)
      <3>1. UNCHANGED <<zoo, orphans>>
        BY <1>6, <2>5 DEF CheckOrphan
      <3>2. UNCHANGED <<Pids_in_zoo, OneLineEach>>
        BY <3>1 DEF Pids_in_zoo, OneLineEach, FreeLines
      <3> QED BY <1>1, <2>1, <2>2, <2>3, <3>1, <3>2 DEF ZooInv, Expected, Recorded, Plain
    <2> QED BY <2>4, <2>5
  <1> QED BY <1>3, <1>4, <1>5, <1>6

LEMMA ZooNext ==
    ASSUME TypeOK, Shape, SlotInv, FollowInv, ZooInv, [AnyNext]_vars
    PROVE  ZooInv'
  <1>0. ProcType /\ SlotType /\ ControlType /\ HistType /\ ZooType /\ zoo \in Seq(ZooLines)
    BY DEF TypeOK, ZooType
  <1>1. CASE MarkSelf \/ PreallocMark \/ PreallocClear
    BY <1>1, ZooStartup
  <1>2. CASE ForkChild \/ ExecDone \/ ExecFailed \/ ForgetChild
    BY <1>2, ZooRunChild
  <1>7. CASE MarkChild \/ Reap \/ ClearChild \/ CheckOrphan
    BY <1>7, ZooChild
  <1>3. CASE Busy \/ KillSlot
    <2>1. /\ UNCHANGED <<orphans, zoo>> /\ Children' = Children /\ Dropped' = Dropped
          /\ pc \in Quiet /\ pc' \in Quiet
      BY <1>0, <1>3, BusySteps, KillSteps DEF Children, Quiet, Dropped
    <2>2. Listed' = Listed
      BY <2>1 DEF Listed, Unmarked, Quiet
    <2>3. Expected = Plain /\ Expected' = Plain
      BY <2>1, <2>2 DEF Expected, Recorded, Plain, Quiet
    <2> QED BY <2>1, <2>3 DEF ZooInv, Pids_in_zoo, OneLineEach, FreeLines, Quiet
  <1>4. CASE KillOrphans \/ ReapOrphans
    <2>1. /\ pc \in {"kill", "reap"} /\ pc' \in {"reset_send", "wait"} /\ UNCHANGED hist
          /\ \E sig : check_orphans(sig)
      BY <1>4 DEF KillOrphans, ReapOrphans
    <2>2. /\ Children' = Children /\ orphans' \subseteq orphans
          /\ zoo_clear_each(orphans \ orphans')
      BY <1>0, <2>1, OrphanSteps
    <2>3. /\ Pids_in_zoo = Plain /\ OneLineEach /\ orphans \cap Children = {}
      BY <2>1, ExpectedIs DEF ZooInv, FollowInv, Aborted, Quiet
    <2>4. OneLineEach' /\ Pids_in_zoo' = Plain \ (orphans \ orphans')
      BY <1>0, <2>2, <2>3, ClearEachRemoves
    <2>5. Listed' = Listed
      BY <2>1, <2>2 DEF Listed, Unmarked, Dropped
    <2>6. Pids_in_zoo' = {PanPid} \cup Listed' \cup orphans'
      BY <1>0, <2>2, <2>3, <2>4, <2>5, PidsApart DEF Plain, Listed
    <2> QED BY <2>1, <2>4, <2>6 DEF ZooInv, Expected, Recorded
  <1>5. CASE Finish
    <2>1. /\ pc = "drain" /\ pc' = "done" /\ zoo_clear(PanPid) /\ UNCHANGED <<proc, orphans, hist>>
      BY <1>5 DEF Finish
    <2>2. Listed' = Listed
      BY <2>1 DEF Listed, Unmarked, Children, Dropped
    <2>3. Pids_in_zoo = Plain /\ OneLineEach
      BY <2>1, ExpectedIs DEF ZooInv, Quiet
    <2>4. OneLineEach' /\ Pids_in_zoo' = Pids_in_zoo \ {PanPid}
      BY <1>0, <2>1, <2>3, ClearRemoves DEF Plain
    <2>5. Pids_in_zoo' = Listed' \cup orphans'
      BY <1>0, <2>1, <2>2, <2>3, <2>4, PidsApart DEF Plain
    <2> QED BY <2>1, <2>4, <2>5 DEF ZooInv, Expected, Recorded
  <1>6. CASE AnyWorld \/ UNCHANGED vars
    <2>1. /\ UNCHANGED <<orphans, zoo, cpid, i>> /\ Children' = Children
          /\ \/ Drops
             \/ /\ pc' = pc \/ pc' = "killed" \/ (pc = "blocked" /\ pc' = "after")
                /\ hist'.dropped = hist.dropped
      BY <1>6, WorldSteps DEF AnyWorld
    <2>2. pc' # "killed" => Listed' = Listed
      <3>1. CASE Drops
        BY <2>1, <3>1 DEF Drops, Listed, Unmarked, Dropped
      <3>2. CASE /\ pc' = pc \/ pc' = "killed" \/ (pc = "blocked" /\ pc' = "after")
                 /\ hist'.dropped = hist.dropped
        BY <2>1, <3>2 DEF Listed, Unmarked, Dropped
      <3> QED BY <2>1, <3>1, <3>2
    <2>3. pc' # "killed" => Expected' = Expected /\ pc # "killed" /\ (pc' = "exit1" => pc = "exit1")
                            /\ (pc' = "mark_self" => pc = "mark_self")
      BY <2>1, <2>2 DEF Expected, Recorded, Drops
    <2> QED BY <2>1, <2>3 DEF ZooInv, Pids_in_zoo, OneLineEach, FreeLines
  <1> QED BY <1>1, <1>2, <1>3, <1>4, <1>5, <1>6, <1>7 DEF AnyNext, PanStep, Ended, Busy

----------------------------------------------------------------------------
(* Every group without a line was dropped or is the one pan is busy with,  *)
(* cpid; that stays so when pan is killed, because nobody touches the zoo any more    *)
(* and no new group appears.                                               *)

UnrecordedInv == Unrecorded \subseteq {cpid}

LEMMA UnrecordedAlive == FollowInv /\ ZooInv => pc = "killed" \/ UnrecordedInv
  <1> SUFFICES ASSUME FollowInv, ZooInv, pc # "killed",
                      NEW p \in Pids \ Dropped, GroupExists(p), LinesOf(p) = {}, p # cpid
               PROVE  FALSE
    BY DEF UnrecordedInv, Unrecorded
  <1>1. pc \notin Aborted /\ Pids_in_zoo = Expected /\ p \notin Pids_in_zoo
    BY WarnsIs DEF ZooInv, Aborted, ClearWarns
  <1>2. p \in Children \cup orphans /\ pc \notin Startup
    BY <1>1 DEF FollowInv
  <1>3. p \in Expected
    BY <1>2 DEF Expected, Recorded, Startup, Listed, Unmarked
  <1> QED BY <1>1, <1>3

LEMMA UnrecordedNext ==
    ASSUME TypeOK, Shape, UnrecordedInv, FollowInv', ZooInv', [AnyNext]_vars
    PROVE  UnrecordedInv'
  <1>1. (pc = "killed" \/ UnrecordedInv)'
    BY UnrecordedAlive, PTL
  <1>2. CASE pc' = "killed"
    <2>1. AnyWorld \/ UNCHANGED vars
      BY <1>2 DEF AnyNext, PanStep, Ended, MarkSelf, PreallocMark, PreallocClear, LeaveStartLoop,
           PickSlot, ForkChild, ForkFails, ExecDone, MarkChild, ExecFailed, ForgetChild, CheckStop, NoSignal, SeeUsr2, SeeSignal,
           ResetSend, KillSlot, KillOrphans, ResetRec, ReapOrphans, EnterWait, Reap,
           ClearChild, CheckOrphan, HandleError, EndRound, OrphansLeft, Nap, Finish
    <2>2. /\ UNCHANGED <<zoo, cpid>> /\ hist.dropped \subseteq hist'.dropped
          /\ \A p \in Pids : GroupExists(p)' => GroupExists(p)
      BY <2>1, WorldSteps DEF AnyWorld, Drops
    <2> QED BY <2>2 DEF UnrecordedInv, Unrecorded, LinesOf, Dropped
  <1> QED BY <1>1, <1>2

LEMMA GroupTheorem == Spec => [](DrainInv /\ FollowInv /\ ZooInv /\ UnrecordedInv)
  <1> DEFINE Inv == DrainInv /\ FollowInv /\ ZooInv /\ UnrecordedInv
  <1>1. Init => Inv
    <2>1. Init => pc # "killed"
      BY DEF Init
    <2> QED BY <2>1, DrainInit, FollowInit, ZooInit, UnrecordedAlive
  <1>2. TypeOK /\ Shape /\ SlotInv /\ Inv /\ [AnyNext]_vars => Inv'
    BY DrainNext, FollowNext, ZooNext, UnrecordedNext
  <1> QED BY <1>1, <1>2, TypeTheorem, SlotInvHolds, StepIsAny, PTL DEF Spec

(* The zoo lists pan, the children that pan has neither reaped nor dropped *)
(* and the orphaned groups, each on one line, whatever the order of        *)
(* deaths, signals and failures.                                           *)
THEOREM ZooTheorem == Spec => []ZooExact
  <1>1. ZooInv => ZooExact
    BY DEF ZooInv, ZooExact, Expected, Startup
  <1> QED BY <1>1, GroupTheorem, PTL

(* zoo_clear() always finds the line of a reaped child: pan never exits    *)
(* with status 1 in the middle of a run.                                   *)
THEOREM NeverGivesUpTheorem == Spec => []NeverGivesUp
  <1>1. ZooInv => NeverGivesUp
    BY DEF ZooInv, NeverGivesUp
  <1> QED BY <1>1, GroupTheorem, PTL

(* When pan ends normally and has had no stray, nothing that it started is *)
(* left but what it dropped.                                               *)
THEOREM LeftBehindTheorem == Spec => []NoTestLeftBehind
  <1>1. DrainInv /\ FollowInv => NoTestLeftBehind
    BY DEF DrainInv, FollowInv, NoTestLeftBehind, OnlyDroppedLeft, Aborted
  <1> QED BY <1>1, GroupTheorem, PTL

(* Killed at any point, pan leaves at most one group out of the zoo, apart *)
(* from those it dropped.                                                  *)
THEOREM UnrecordedTheorem == Spec => []AtMostOneUnrecorded
  <1>1. UnrecordedInv => AtMostOneUnrecorded
    <2> SUFFICES ASSUME UnrecordedInv PROVE Cardinality(Unrecorded) <= 1
      BY DEF AtMostOneUnrecorded
    <2>1. IsFiniteSet({cpid}) /\ Cardinality({cpid}) = 1
      BY FS_Singleton
    <2> QED BY <2>1, FS_Subset DEF UnrecordedInv
  <1> QED BY <1>1, GroupTheorem, PTL
============================================================================
