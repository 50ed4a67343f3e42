------------------------------ MODULE DmaProofs ------------------------------
(***************************************************************************)
(* The single channel DMA tests, for any number of transfers and polls.    *)
(* First their state keeps its shape, the verdict that cat prints is       *)
(* final, and rmmod releases what the test was given: the invariants say   *)
(* where the threads are when the scenario is somewhere (PlaceOK), how far *)
(* the unlocked counter of dma_thread_access.c can be (CountOK) and who    *)
(* owns channels and buffers (OwnOK).  Then the verdicts: PASSED and       *)
(* FAILED both have their reasons, a stopped transfer stays stopped, and   *)
(* on one processor a callback has its buffers; the invariants relate what *)
(* the engine did with a transfer to the flags that its callback has left  *)
(* (FlagOK), and the flags to the place of the test (PlaceFlag).           *)
(***************************************************************************)
EXTENDS DmaTests, WellFoundedInduction, TLAPS

Unloading == {"exit_stop", "exit_free", "cat", "rmmod_common", "end"}
Unloaded  == {"cat", "rmmod_common", "end"}

(* Where the threads are.                                                  *)
PlaceOK ==
    /\ script \in {"insmod_common", "insmod"} => \A t \in Threads : pc[t] = "off"
    /\ script = "init" => test # "threads"
    /\ script \in Unloading \/ (script = "rmmod" /\ test # "threads") =>
          \A t \in Workers : pc[t] = "end"
    /\ \A t \in Threads : t \notin Workers => pc[t] = "off"
    /\ \A t \in Threads : pc[t] \in {"stop", "free", "again", "check_stop"} => test \in StopTests
    /\ \A t \in Threads : pc[t] \in {"poll", "check"} => test \notin StopTests
    /\ \A t \in Threads : pc[t] \in {"verdict", "load", "store"} => test = "threads"
    /\ script \in {"exit_stop", "exit_free"} => Releases /\ cursor[2] < N
    /\ script \in Unloaded /\ Releases => cursor[2] = N
    /\ script \notin Unloading => cursor = <<0, 0>>
    /\ cursor[1] \in Workers

(* How many threads can have been counted: a thread that has not ended has *)
(* not stored, and loads what the other can have stored.                   *)
CountOK ==
    /\ count > 0 => \E t \in Threads : pc[t] = "end"
    /\ count = 2 => \A t \in Threads : pc[t] = "end"
    /\ \A t \in Threads : pc[t] = "store" =>
          /\ tmp[t] <= 1
          /\ tmp[t] = 1 => \E u \in Threads : pc[u] = "end"

(* A thread that has polls to come has used fewer than there are.          *)
PollsOK ==
    \A t \in Threads :
        pc[t] \in {"off", "request", "buffers", "start", "poll"} => polls[t] < POLL_COUNT

(* The verdict that was shown, and no thread that could change it.         *)
ShownOK ==
    /\ shown # -1 => script \in {"rmmod_common", "end"}
    /\ ShownIsFinal

Before(s, c) == s[2] < c[2] \/ (s[2] = c[2] /\ s[1] < c[1])

(* A channel or a buffer belongs to a transfer that was granted, and a     *)
(* transfer in the engine has its buffers.                                 *)
SlotOwn(s) ==
    /\ request_success[s] => s \in All
    /\ ~request_success[s] => chan[s] = "free" /\ mem[s] = {}
    /\ chan[s] \in {"running", "irq"} => mem[s] = Buffers

(* Transfer i of thread t, as the place of the thread tells.               *)
LoopOwn(t, i) ==
    /\ pc[t] = "off" => idx[t] = 0
    /\ pc[t] = "off" \/ (pc[t] = "request" /\ i >= idx[t]) \/ (pc[t] = "buffers" /\ i > idx[t])
          => ~request_success[<<t, i>>]
    /\ pc[t] = "buffers" /\ i = idx[t] => request_success[<<t, i>>] /\ chan[<<t, i>>] = "idle"
    /\ (pc[t] \in {"request", "buffers"} /\ i < idx[t]) \/ pc[t] \in {"start", "poll", "check", "stop"}
          => mem[<<t, i>>] = Buffers
    /\ pc[t] = "free" => chan[<<t, i>>] = "free"

(* What the exit function has passed is released.                          *)
ExitOwn ==
    /\ script = "exit_free" => chan[cursor] = "free"
    /\ script \in Unloading /\ Releases =>
          \A s \in Slots : request_success[s] => ~Before(s, cursor)

OwnOK ==
    /\ \A s \in Slots : SlotOwn(s)
    /\ \A t \in Workers : \A i \in 0 .. N - 1 : LoopOwn(t, i)
    /\ ExitOwn

-----------------------------------------------------------------------------
(* A set of natural numbers has a least element.                           *)
LEMMA LeastNat ==
    ASSUME NEW T, T \subseteq Nat, T # {}
    PROVE  \E m \in T : \A k \in T : m <= k
<1>1. PICK m \in T : \A k \in T : ~(<<k, m>> \in OpToRel(<, Nat))
  BY NatLessThanWellFounded, WFMin
<1>2. ASSUME NEW k \in T PROVE m <= k
  <2>1. <<k, m>> \in Nat \X Nat /\ k \in Nat /\ m \in Nat
    OBVIOUS
  <2>2. ~(k < m)
    <3> SUFFICES ASSUME k < m PROVE <<k, m>> \in OpToRel(<, Nat)
      BY <1>1
    <3> QED BY <2>1 DEF OpToRel
  <2> QED BY <2>1, <2>2
<1> QED BY <1>2

(* The transfers of the threads are elements of transfers[].               *)
LEMMA SlotFacts ==
    ASSUME test \in Tests
    PROVE  /\ N \in Nat /\ N >= 1
           /\ Workers \subseteq Threads /\ 0 \in Workers
           /\ \A t \in Threads : \A i \in 0 .. N - 1 : <<t, i>> \in Slots
           /\ All \subseteq Slots
           /\ \A s : s \in All <=> \E t \in Workers : \E i \in 0 .. N - 1 : s = <<t, i>>
<1>1. test \in AllTests /\ TRANSFER_COUNT[test] \in Nat \ {0}
  BY TestAssumption
<1>2. N \in Nat /\ N >= 1 /\ N <= TRANSFER_COUNT[test]
  BY <1>1 DEF N
<1>3. Workers \subseteq Threads /\ 0 \in Workers
  BY DEF Workers, Threads
<1>4. ASSUME NEW t \in Threads, NEW i \in 0 .. N - 1 PROVE <<t, i>> \in Slots
  <2>1. i \in 0 .. TRANSFER_COUNT[test] - 1
    BY <1>1, <1>2
  <2>2. Threads \X (0 .. TRANSFER_COUNT[test] - 1) \subseteq Slots
    BY <1>1, TestAssumption
  <2> QED BY <2>1, <2>2
<1>5. \A s : s \in All <=> \E t \in Workers : \E i \in 0 .. N - 1 : s = <<t, i>>
  BY DEF All, Mine
<1>6. All \subseteq Slots
  BY <1>3, <1>4, <1>5
<1> QED BY <1>2, <1>3, <1>4, <1>5, <1>6

(* What depends on the test alone does not change.                         *)
LEMMA SetFrame ==
    ASSUME test' = test
    PROVE  N' = N /\ Workers' = Workers /\ All' = All /\ (Releases' <=> Releases)
  BY DEF N, Workers, All, Mine, Releases

(* The operations of Dma keep the types.                                   *)
LEMMA RequestType ==
    ASSUME DmaTypeOK, NEW s \in Slots, NEW ok \in BOOLEAN, request_dma(s, ok),
           test_passed' \in {-1, 0, 1}
    PROVE  DmaTypeOK'
  BY DEF DmaTypeOK, request_dma

(* So do the operations that change one transfer, or none.                 *)
LEMMA OperationType ==
    ASSUME DmaTypeOK, NEW s \in Slots, test_passed' \in {-1, 0, 1},
           \/ \E got \in SUBSET Buffers : create_transfer_buffers(s, got)
           \/ start_dma_transfer(s) \/ stop_channel(s) \/ free_buffers(s)
           \/ UNCHANGED <<transferVars, engineVars>>
    PROVE  DmaTypeOK'
<1> USE DEF transferVars, engineVars
<1>1. CASE \E got \in SUBSET Buffers : create_transfer_buffers(s, got)
  BY <1>1 DEF DmaTypeOK, create_transfer_buffers
<1>2. CASE start_dma_transfer(s)
  BY <1>2 DEF DmaTypeOK, start_dma_transfer
<1>3. CASE stop_channel(s)
  BY <1>3 DEF DmaTypeOK, stop_channel
<1>4. CASE free_buffers(s)
  BY <1>4 DEF DmaTypeOK, free_buffers
<1>5. CASE UNCHANGED <<transferVars, engineVars>>
  BY <1>5 DEF DmaTypeOK
<1> QED BY <1>1, <1>2, <1>3, <1>4, <1>5

(* And the engine and the callback.                                        *)
LEMMA EngineType ==
    ASSUME DmaTypeOK, NEW s \in Slots, NEW selflink \in BOOLEAN,
           Complete(s) \/ CallbackEntry(s, selflink) \/ CallbackVerify(s)
    PROVE  DmaTypeOK'
<1> USE DEF transferVars, verdictVars
<1>1. CASE Complete(s)
  BY <1>1 DEF DmaTypeOK, Complete
<1>2. CASE CallbackEntry(s, selflink)
  <2>1. /\ first' \in Slots \cup {NoSlot}
        /\ cb' \in [Slots -> {"none", "verify"}]
        /\ chan' \in [Slots -> {"free", "idle", "running", "irq"}]
    BY <1>2 DEF DmaTypeOK, CallbackEntry
  <2> QED BY <1>2, <2>1 DEF DmaTypeOK, CallbackEntry
<1>3. CASE CallbackVerify(s)
  <2>1. data_correct' \in [Slots -> BOOLEAN]
    <3>1. PICK equal \in verify_buffers(s) : data_correct' = [data_correct EXCEPT ![s] = equal]
      BY <1>3 DEF CallbackVerify
    <3>2. equal \in BOOLEAN
      BY Zenon DEF verify_buffers
    <3> QED BY <3>1, <3>2 DEF DmaTypeOK
  <2> QED BY <1>3, <2>1 DEF DmaTypeOK, CallbackVerify
<1> QED BY <1>1, <1>2, <1>3

-----------------------------------------------------------------------------
(* A step of thread t from a place in the test to the place l.             *)
Moves(t, l) ==
    /\ t \in Workers /\ pc[t] \notin {"off", "end"}
    /\ l \in PC \ {"off"}
    /\ pc' = [pc EXCEPT ![t] = l]
    /\ l \in {"stop", "free", "again", "check_stop"} => test \in StopTests
    /\ l \in {"poll", "check"} => test \notin StopTests
    /\ l \in {"verdict", "load", "store"} => test = "threads"
    /\ l = "store" => pc[t] = "load"
    /\ UNCHANGED <<test, smp, slow, script, cursor, shown>>

(* The end of a loop body goes back to it or on, and i stays in range.     *)
LEMMA LoopMoves ==
    ASSUME TypeOK, NEW t \in Threads, NEW body, NEW after, NextTransfer(t, body, after)
    PROVE  /\ pc' = [pc EXCEPT ![t] = body] \/ pc' = [pc EXCEPT ![t] = after]
           /\ idx' \in [Threads -> 0 .. N - 1]
<1>1. idx \in [Threads -> 0 .. N - 1] /\ N \in Nat /\ N >= 1
  BY SlotFacts DEF TypeOK
<1> QED BY <1>1 DEF NextTransfer, Go

(* Every step of a thread moves it along its test.                         *)
LEMMA ThreadMoves ==
    ASSUME TypeOK, PlaceOK, NEW t \in Threads, Thread(t)
    PROVE  \E l \in PC : Moves(t, l)
<1> USE DEF At, Go, PC, setVars, scriptVars
<1>1. CASE Request(t)
  BY <1>1 DEF Request, Moves
<1>2. CASE CreateBuffers(t)
  <2>1. pc' \in {[pc EXCEPT ![t] = l] : l \in {"request", "start", "end"}}
    BY <1>2, LoopMoves DEF CreateBuffers
  <2> QED BY <1>2, <2>1 DEF CreateBuffers, Moves
<1>3. CASE Start(t)
  <2>1. \/ pc' = [pc EXCEPT ![t] = "start"]
        \/ pc' = [pc EXCEPT ![t] = IF test \in StopTests THEN "stop" ELSE "poll"]
    BY <1>3, LoopMoves DEF Start
  <2> QED BY <1>3, <2>1 DEF Start, Moves
<1>4. CASE Poll(t)
  <2>1. CASE pc' = pc
    <3>1. pc' = [pc EXCEPT ![t] = "poll"]
      BY <1>4, <2>1 DEF Poll, TypeOK
    <3> QED BY <1>4, <3>1 DEF Poll, Moves, PlaceOK
  <2> QED BY <1>4, <2>1 DEF Poll, Moves, PlaceOK
<1>5. CASE Check(t)
  BY <1>5 DEF Check, Moves
<1>6. CASE Verdict(t) \/ CountLoad(t) \/ CountStore(t)
  BY <1>6 DEF Verdict, CountLoad, CountStore, Moves, PlaceOK
<1>7. CASE Stop(t) \/ Free(t) \/ StopAgain(t) \/ CheckStop(t)
  BY <1>7 DEF Stop, Free, StopAgain, CheckStop, Moves, PlaceOK
<1> QED BY <1>1, <1>2, <1>3, <1>4, <1>5, <1>6, <1>7 DEF Thread

(* A thread that moves is not being unloaded, and stays in its test.       *)
LEMMA MovesPlace ==
    ASSUME TypeOK, PlaceOK, ShownOK, NEW t \in Threads, NEW l \in PC, Moves(t, l)
    PROVE  PlaceOK' /\ ShownOK' /\ pc' \in [Threads -> PC] /\ script \notin Unloading
<1>1. script \notin Unloading
  BY DEF Moves, PlaceOK
<1>2. pc' \in [Threads -> PC]
  BY DEF Moves, TypeOK
<1>3. ShownOK'
  BY <1>1 DEF ShownOK, ShownIsFinal, Moves, Unloading
<1>4. PlaceOK'
  BY <1>1, SetFrame, SlotFacts DEF PlaceOK, Moves, TypeOK, Unloading, Unloaded
<1> QED BY <1>1, <1>2, <1>3, <1>4

(* A thread that is not at its end and stores nothing leaves CountOK.      *)
LEMMA MovesCount ==
    ASSUME TypeOK, CountOK, NEW t \in Threads, NEW l \in PC, Moves(t, l),
           l # "store", UNCHANGED <<tmp, count>>
    PROVE  CountOK'
  BY DEF CountOK, Moves, TypeOK

(* count += 1 without a lock counts at most two, and both only when both   *)
(* threads are at their ends.                                              *)
LEMMA ThreadCounts ==
    ASSUME TypeOK, PlaceOK, CountOK, NEW t \in Threads, Thread(t)
    PROVE  CountOK' /\ tmp' \in [Threads -> 0 .. 2] /\ count' \in 0 .. 2
<1>0. PICK l \in PC : Moves(t, l)
  BY ThreadMoves
<1>1. CASE CountLoad(t)
  <2>1. /\ pc[t] = "load" /\ pc' = [pc EXCEPT ![t] = "store"]
        /\ tmp' = [tmp EXCEPT ![t] = count] /\ count' = count
    BY <1>1 DEF CountLoad, At, Go
  <2>2. count \in 0 .. 1
    BY <2>1 DEF CountOK, TypeOK
  <2> QED BY <2>1, <2>2 DEF CountOK, TypeOK
<1>2. CASE CountStore(t)
  <2>1. /\ pc[t] = "store" /\ pc' = [pc EXCEPT ![t] = "end"]
        /\ tmp' = tmp /\ count' = tmp[t] + 1
    BY <1>2 DEF CountStore, At, Go
  <2>2. tmp[t] \in 0 .. 1
    BY <2>1 DEF CountOK, TypeOK
  <2>3. tmp[t] = 1 => \A u \in Threads : pc[u] = "end" \/ u = t
    BY <2>1 DEF CountOK, Threads
  <2> QED BY <2>1, <2>2, <2>3 DEF CountOK, TypeOK
<1>3. CASE ~CountLoad(t) /\ ~CountStore(t)
  <2>1. UNCHANGED <<tmp, count>>
    BY <1>3 DEF Thread, Request, CreateBuffers, Start, Poll, Check, Verdict,
        Stop, Free, StopAgain, CheckStop
  <2>2. pc[t] # "load"
    BY <1>3 DEF Thread, Request, CreateBuffers, Start, Poll, Check,
        Verdict, Stop, Free, StopAgain, CheckStop, At
  <2> QED BY <1>0, <2>1, <2>2, MovesCount DEF Moves, TypeOK
<1> QED BY <1>1, <1>2, <1>3

(* The polling loop ends when its turns are used up.                       *)
LEMMA ThreadPolls ==
    ASSUME TypeOK, PlaceOK, PollsOK, NEW t \in Threads, Thread(t)
    PROVE  PollsOK' /\ polls' \in [Threads -> 0 .. POLL_COUNT]
<1>0. PICK l \in PC : Moves(t, l)
  BY ThreadMoves
<1> USE TestAssumption
<1>1. CASE Poll(t)
  <2>1. pc[t] = "poll" /\ polls[t] \in 0 .. POLL_COUNT - 1
    BY <1>1 DEF Poll, At, PollsOK, TypeOK
  <2>2. CASE polls' = polls
    BY <1>0, <2>1, <2>2 DEF TypeOK, PollsOK, Moves
  <2>3. CASE polls' = [polls EXCEPT ![t] = polls[t] + 1] /\ (polls[t] + 1 < POLL_COUNT \/ pc' = [pc EXCEPT ![t] = "verdict"] \/ pc' = [pc EXCEPT ![t] = "end"])
    BY <1>0, <2>1, <2>3 DEF TypeOK, PollsOK, Moves
  <2> QED BY <1>1, <2>2, <2>3 DEF Poll, Go
<1>2. CASE ~Poll(t)
  <2>1. polls' = polls
    BY <1>2 DEF Thread, Request, CreateBuffers, Start, Check, Verdict,
      CountLoad, CountStore, Stop, Free, StopAgain, CheckStop
  <2>2. pc[t] \in {"off", "request", "buffers", "start", "poll"} \/ l \notin {"off", "request", "buffers", "start", "poll"}
    BY <1>0, <1>2, LoopMoves DEF Thread, Request, CreateBuffers, Start, Check, Verdict,
      CountLoad, CountStore, Stop, Free, StopAgain, CheckStop, At, Go, Moves, TypeOK
  <2> QED BY <1>0, <2>1, <2>2 DEF TypeOK, PollsOK, Moves
<1> QED BY <1>1, <1>2

(* A step of a thread keeps every type.                                    *)
LEMMA ThreadType ==
    ASSUME TypeOK, PlaceOK, CountOK, PollsOK, ShownOK, NEW t \in Threads, Thread(t)
    PROVE  TypeOK'
<1>0. PICK l \in PC : Moves(t, l)
  BY ThreadMoves
<1>1. /\ test' = test /\ UNCHANGED <<smp, slow, script, cursor, shown>>
      /\ pc' \in [Threads -> PC] /\ N' = N
  BY <1>0, MovesPlace, SetFrame DEF Moves
<1>2. /\ tmp' \in [Threads -> 0 .. 2] /\ count' \in 0 .. 2
      /\ polls' \in [Threads -> 0 .. POLL_COUNT]
  BY ThreadCounts, ThreadPolls
<1>3. Slot(t) \in Slots
  BY SlotFacts DEF Slot, TypeOK
<1>4. idx' \in [Threads -> 0 .. N - 1]
  BY LoopMoves DEF Thread, Request, CreateBuffers, Start, Poll, Check, Verdict,
      CountLoad, CountStore, Stop, Free, StopAgain, CheckStop, TypeOK
<1>5. error' \in [Threads -> Int]
  <2>1. CASE Check(t)
    <3> DEFINE mine == [i \in 0 .. N - 1 |-> <<t, i>>]
    <3>1. check_dma_transfer_complete(mine, N) \in Int
      <4> HIDE DEF mine
      <4>1. CASE \A i \in 0 .. N - 1 : data_correct[mine[i]]
        BY <4>1 DEF check_dma_transfer_complete
      <4>2. CASE \E i \in 0 .. N - 1 : ~data_correct[mine[i]]
        <5> DEFINE bad == {i \in 0 .. N - 1 : ~data_correct[mine[i]]}
        <5>a. bad \subseteq Nat /\ bad # {}
          BY <4>2
        <5>1. \E m \in bad : \A k \in bad : m <= k
          <6> HIDE DEF bad
          <6> QED BY <5>a, LeastNat
        <5>2. \E m \in 0 .. N - 1 :
                 ~data_correct[mine[m]] /\ \A j \in 0 .. m - 1 : data_correct[mine[j]]
          BY <5>1, SlotFacts DEF TypeOK
        <5> QED BY <5>2, <4>2 DEF check_dma_transfer_complete
      <4> QED BY <4>1, <4>2
    <3> QED BY <2>1, <3>1 DEF Check, TypeOK
  <2> QED BY <2>1 DEF Thread, Request, CreateBuffers, Start, Poll, Verdict,
      CountLoad, CountStore, Stop, Free, StopAgain, CheckStop, TypeOK
<1>6. DmaTypeOK'
  <2> USE DEF TypeOK, set_test_passed, verdictVars, DmaTypeOK
  <2>1. CASE Request(t)
    <3>1. test_passed' \in {-1, 0, 1}
      BY <2>1 DEF Request
    <3> QED BY <1>3, <2>1, <3>1, RequestType DEF Request
  <2>2. CASE CreateBuffers(t)
    <3>1. test_passed' \in {-1, 0, 1}
      BY <2>2 DEF CreateBuffers
    <3> QED BY <1>3, <2>2, <3>1, OperationType DEF CreateBuffers
  <2>3. CASE Start(t) \/ Stop(t)
    <3>1. test_passed' \in {-1, 0, 1}
      BY <2>3 DEF Start, Stop
    <3> QED BY <1>3, <2>3, <3>1, OperationType DEF Start, Stop
  <2>4. CASE Free(t)
    <3>1. test_passed' \in {-1, 0, 1}
      BY <2>4 DEF Free
    <3> QED BY <1>3, <2>4, <3>1, OperationType DEF Free
  <2>5. CASE Poll(t) \/ Check(t) \/ Verdict(t) \/ StopAgain(t) \/ CheckStop(t)
    <3>1. test_passed' \in {-1, 0, 1}
      BY <2>5 DEF Poll, Check, Verdict, StopAgain, CheckStop
    <3> QED BY <1>3, <2>5, <3>1, OperationType DEF Poll, Check, Verdict, StopAgain, CheckStop
  <2>6. CASE CountLoad(t) \/ CountStore(t)
    BY <2>6 DEF CountLoad, CountStore, dmaVars, transferVars, engineVars
  <2> QED BY <2>1, <2>2, <2>3, <2>4, <2>5, <2>6 DEF Thread
<1> QED BY <1>1, <1>2, <1>4, <1>5, <1>6 DEF TypeOK

-----------------------------------------------------------------------------
(* The scenario, the interrupts and the engine.                            *)

CoreInv == TypeOK /\ PlaceOK /\ CountOK /\ PollsOK /\ ShownOK

(* What the steps of the exit function leave alone.                        *)
LEMMA ScenarioFrame ==
    ASSUME CoreInv, Scenario
    PROVE  /\ UNCHANGED <<test, smp, slow, idx, polls, error, tmp, count, test_passed>>
           /\ pc' = pc \/ Insmod
  BY DEF Scenario, InsmodCommon, Insmod, InitDone, Rmmod, ExitRefused, ExitStop,
      ExitFree, dma_read_proc, RmmodCommon, setVars, threadVars, verdictVars, dmaVars

(* The exit function stays within the arrays until it is through.          *)
LEMMA AdvanceFacts ==
    ASSUME CoreInv, Advance, script \in {"exit_stop", "exit_free"}
    PROVE  /\ cursor' \in Threads \X (0 .. N) /\ cursor'[1] \in Workers
           /\ script' \in {"cat", "exit_stop"}
           /\ script' = "cat" <=> cursor'[2] = N
           /\ script' = "exit_stop" <=> cursor'[2] < N
<1>1. /\ cursor \in Threads \X (0 .. N) /\ cursor[2] < N /\ N \in Nat /\ N >= 1
      /\ 0 \in Workers /\ Workers \subseteq Threads
  BY SlotFacts DEF CoreInv, TypeOK, PlaceOK
<1>2. CASE test = "threads" /\ cursor[1] = 0
  <2>1. cursor' = <<1, cursor[2]>>
    BY <1>2 DEF Advance, NextCursor
  <2>2. 1 \in Workers
    BY <1>2 DEF Workers, Threads
  <2> QED BY <1>1, <1>2, <2>1, <2>2 DEF Advance, NextCursor
<1>3. CASE ~(test = "threads" /\ cursor[1] = 0)
  <2>1. cursor' = <<0, cursor[2] + 1>>
    BY <1>3 DEF Advance, NextCursor
  <2> QED BY <1>1, <1>3, <2>1 DEF Advance, NextCursor
<1> QED BY <1>2, <1>3

(* The commands of the scenario keep the places, counts and the verdict.   *)
LEMMA ScenarioCore == CoreInv /\ Scenario => CoreInv'
<1> SUFFICES ASSUME CoreInv, Scenario PROVE CoreInv'
  OBVIOUS
<1>0. /\ UNCHANGED <<test, smp, slow, idx, polls, error, tmp, count, test_passed>>
      /\ N' = N /\ Workers' = Workers /\ (Releases' <=> Releases)
  BY ScenarioFrame, SetFrame
<1>f. /\ N \in Nat /\ N >= 1 /\ 0 \in Workers /\ Workers \subseteq Threads
      /\ TypeOK /\ PlaceOK /\ CountOK /\ PollsOK /\ ShownOK /\ DmaTypeOK
  BY SlotFacts DEF CoreInv, TypeOK
<1> USE DEF setVars, threadVars
<1>1. CASE InsmodCommon
  <2>1. UNCHANGED <<dmaVars, pc, cursor, shown>> /\ script = "insmod_common" /\ script' = "insmod"
    BY <1>1 DEF InsmodCommon
  <2>2. DmaTypeOK'
    BY <1>f, <2>1 DEF DmaTypeOK, dmaVars, verdictVars, transferVars, engineVars
  <2>3. TypeOK' /\ CountOK' /\ PollsOK'
    BY <1>0, <1>f, <2>1, <2>2 DEF TypeOK, CountOK, PollsOK, Script
  <2>4. PlaceOK' /\ ShownOK'
    BY <1>0, <1>f, <2>1 DEF PlaceOK, ShownOK, ShownIsFinal, Unloading, Unloaded
  <2> QED BY <2>3, <2>4 DEF CoreInv
<1>2. CASE Insmod
  <2>1. /\ UNCHANGED <<dmaVars, cursor, shown>> /\ script = "insmod"
        /\ script' = IF test = "threads" THEN "rmmod" ELSE "init"
        /\ pc' = [t \in Threads |-> IF t \in Workers THEN "request" ELSE "off"]
    BY <1>2 DEF Insmod
  <2>2. DmaTypeOK'
    BY <1>f, <2>1 DEF DmaTypeOK, dmaVars, verdictVars, transferVars, engineVars
  <2>3. TypeOK'
    BY <1>0, <1>f, <2>1, <2>2 DEF TypeOK, Script, PC
  <2>4. \A t \in Threads : pc[t] = "off"
    BY <1>f, <2>1 DEF PlaceOK
  <2>5. count = 0
    BY <1>f, <2>4 DEF CountOK, TypeOK
  <2>6. CountOK' /\ PollsOK'
    BY <1>0, <1>f, <2>1, <2>4, <2>5 DEF CountOK, PollsOK
  <2>7. PlaceOK' /\ ShownOK'
    BY <1>0, <1>f, <2>1 DEF PlaceOK, ShownOK, ShownIsFinal, Unloading, Unloaded
  <2> QED BY <2>3, <2>6, <2>7 DEF CoreInv
<1>3. CASE InitDone \/ Rmmod \/ dma_read_proc \/ RmmodCommon
  <2>1. UNCHANGED <<dmaVars, pc, cursor>>
    BY <1>3 DEF InitDone, Rmmod, dma_read_proc, RmmodCommon
  <2>2. DmaTypeOK'
    BY <1>f, <2>1 DEF DmaTypeOK, dmaVars, verdictVars, transferVars, engineVars
  <2>3. script' \in Script /\ shown' \in {-1, 0, 1}
    BY <1>3, <1>f DEF InitDone, Rmmod, dma_read_proc, RmmodCommon, Script, TypeOK, DmaTypeOK
  <2>4. TypeOK' /\ CountOK' /\ PollsOK'
    BY <1>0, <1>f, <2>1, <2>2, <2>3 DEF TypeOK, CountOK, PollsOK
  <2>5. ShownOK'
    BY <1>0, <1>3, <1>f DEF InitDone, Rmmod, dma_read_proc, RmmodCommon, ShownOK, ShownIsFinal
  <2>6. CASE InitDone
    <3>1. script = "init" /\ script' = "rmmod" /\ pc[0] = "end" /\ test # "threads" /\ Workers = {0}
      BY <2>6, <1>f DEF InitDone, PlaceOK, Workers
    <3>2. PlaceOK'
      BY <1>0, <1>f, <2>1, <3>1 DEF PlaceOK, Unloading, Unloaded
    <3> QED BY <2>4, <2>5, <3>2 DEF CoreInv
  <2>7. CASE Rmmod
    <3>1. script = "rmmod" /\ script' = IF Releases THEN "exit_stop" ELSE "cat"
      BY <2>7 DEF Rmmod
    <3>2. \A t \in Workers : pc[t] = "end"
      <4>1. CASE test = "threads"
        BY <1>f, <2>7, <4>1 DEF Rmmod, ThreadsCounted, CountOK, TypeOK
      <4> QED BY <1>f, <3>1, <4>1 DEF PlaceOK
    <3>3. cursor = <<0, 0>>
      BY <1>f, <3>1 DEF PlaceOK, Unloading
    <3>4. PlaceOK'
      BY <1>0, <1>f, <2>1, <3>1, <3>2, <3>3 DEF PlaceOK, Unloading, Unloaded
    <3> QED BY <2>4, <2>5, <3>4 DEF CoreInv
  <2>8. CASE dma_read_proc \/ RmmodCommon
    <3>1. script \in {"cat", "rmmod_common"} /\ script' \in {"rmmod_common", "end"}
      BY <2>8 DEF dma_read_proc, RmmodCommon
    <3>2. PlaceOK'
      BY <1>0, <1>f, <2>1, <3>1 DEF PlaceOK, Unloading, Unloaded
    <3> QED BY <2>4, <2>5, <3>2 DEF CoreInv
  <2> QED BY <1>3, <2>6, <2>7, <2>8
<1>4. CASE ExitStop
  <2>1. /\ UNCHANGED <<pc, cursor, shown>>
        /\ script = "exit_stop" /\ script' = "exit_free" /\ stop_channel(cursor)
    BY <1>4 DEF ExitStop
  <2>2. cursor \in Slots
    BY <1>f, <2>1, SlotFacts DEF PlaceOK, TypeOK
  <2>3. DmaTypeOK'
    BY <1>0, <1>f, <2>1, <2>2, OperationType DEF DmaTypeOK
  <2>4. TypeOK' /\ CountOK' /\ PollsOK' /\ ShownOK'
    BY <1>0, <1>f, <2>1, <2>3 DEF TypeOK, CountOK, PollsOK, Script, ShownOK, ShownIsFinal
  <2>5. PlaceOK'
    BY <1>0, <1>f, <2>1 DEF PlaceOK, Unloading, Unloaded
  <2> QED BY <2>4, <2>5 DEF CoreInv
<1>5. CASE ExitRefused \/ ExitFree
  <2>1. /\ UNCHANGED <<pc, shown>> /\ Advance
        /\ script \in {"exit_stop", "exit_free"}
        /\ free_buffers(cursor) \/ UNCHANGED <<transferVars, engineVars>>
    BY <1>5 DEF ExitRefused, ExitFree, dmaVars
  <2>2. cursor \in Slots
    BY <1>f, <2>1, SlotFacts DEF PlaceOK, TypeOK
  <2>3. DmaTypeOK'
    BY <1>0, <1>f, <2>1, <2>2, OperationType DEF DmaTypeOK
  <2>4. /\ cursor' \in Threads \X (0 .. N) /\ cursor'[1] \in Workers
        /\ script' \in {"cat", "exit_stop"}
        /\ script' = "cat" <=> cursor'[2] = N
        /\ script' = "exit_stop" <=> cursor'[2] < N
    BY <2>1, AdvanceFacts
  <2>5. TypeOK' /\ CountOK' /\ PollsOK' /\ ShownOK'
    BY <1>0, <1>f, <2>1, <2>3, <2>4 DEF TypeOK, CountOK, PollsOK, Script, ShownOK, ShownIsFinal
  <2>6. PlaceOK'
    BY <1>0, <1>f, <2>1, <2>4 DEF PlaceOK, Unloading, Unloaded
  <2> QED BY <2>5, <2>6 DEF CoreInv
<1> QED BY <1>1, <1>2, <1>3, <1>4, <1>5 DEF Scenario

(* So do the engine and the callback, which touch neither.                 *)
LEMMA InterruptCore == \A s \in Slots : CoreInv /\ (Interrupt(s) \/ Engine(s)) => CoreInv'
<1> SUFFICES ASSUME NEW s \in Slots, CoreInv, Interrupt(s) \/ Engine(s) PROVE CoreInv'
  OBVIOUS
<1>1. UNCHANGED <<setVars, threadVars, scriptVars, test_passed>>
  BY DEF Interrupt, Engine, CallbackEntry, CallbackVerify, Complete, verdictVars
<1>2. DmaTypeOK'
  BY EngineType DEF Interrupt, Engine, CoreInv, TypeOK
<1>3. TypeOK'
  BY <1>1, <1>2, SetFrame DEF CoreInv, TypeOK, setVars, threadVars, scriptVars
<1>4. PlaceOK' /\ CountOK' /\ PollsOK' /\ ShownOK'
  BY <1>1, SetFrame DEF CoreInv, PlaceOK, CountOK, PollsOK, ShownOK, ShownIsFinal,
      setVars, threadVars, scriptVars
<1> QED BY <1>3, <1>4 DEF CoreInv

(* The invariants hold when nothing is loaded.                             *)
LEMMA InitCore == Init => CoreInv
<1> SUFFICES ASSUME Init PROVE CoreInv
  OBVIOUS
<1>1. DmaTypeOK
  BY DEF Init, DmaInit, DmaTypeOK
<1>2. N \in Nat /\ N >= 1 /\ 0 \in Workers /\ POLL_COUNT \in Nat \ {0}
  BY SlotFacts, TestAssumption DEF Init
<1>3. TypeOK
  <2>1. idx \in [Threads -> 0 .. N - 1] /\ cursor \in Threads \X (0 .. N)
    BY <1>2 DEF Init, Threads
  <2>2. polls \in [Threads -> 0 .. POLL_COUNT]
    BY <1>2 DEF Init
  <2> QED BY <1>1, <2>1, <2>2 DEF Init, TypeOK, PC, Script
<1>4. PlaceOK /\ CountOK /\ PollsOK /\ ShownOK
  BY <1>2 DEF Init, PlaceOK, CountOK, PollsOK, ShownOK, ShownIsFinal, Unloading, Unloaded
<1> QED BY <1>3, <1>4 DEF CoreInv

(* Every step keeps them.                                                  *)
LEMMA StepCore == CoreInv /\ [Next]_vars => CoreInv'
<1> SUFFICES ASSUME CoreInv, [Next]_vars PROVE CoreInv'
  OBVIOUS
<1>1. ASSUME NEW t \in Threads, Thread(t) PROVE CoreInv'
  <2>1. PICK l \in PC : Moves(t, l)
    BY <1>1, ThreadMoves DEF CoreInv
  <2> QED BY <1>1, <2>1, MovesPlace, ThreadCounts, ThreadPolls, ThreadType DEF CoreInv
<1>2. CASE UNCHANGED vars
  <2>1. UNCHANGED <<setVars, threadVars, scriptVars, test_passed>> /\ DmaTypeOK'
    BY <1>2 DEF vars, CoreInv, TypeOK, DmaTypeOK, dmaVars, verdictVars, transferVars, engineVars
  <2>2. TypeOK'
    BY <2>1, SetFrame DEF CoreInv, TypeOK, setVars, threadVars, scriptVars
  <2>3. PlaceOK' /\ CountOK' /\ PollsOK' /\ ShownOK'
    BY <2>1, SetFrame DEF CoreInv, PlaceOK, CountOK, PollsOK, ShownOK, ShownIsFinal,
        setVars, threadVars, scriptVars
  <2> QED BY <2>2, <2>3 DEF CoreInv
<1> QED
  BY <1>1, <1>2, ScenarioCore, InterruptCore DEF Next, Over

(* They hold in every state, for every number of transfers and polls.      *)
THEOREM CoreInvariance == Spec => []CoreInv
  BY InitCore, StepCore, PTL DEF Spec

(* Every variable of the tests keeps its shape: the loops of request,      *)
(* start and exit stay within transfers[], the polls within                *)
(* TRANSFER_POLL_COUNT and the unlocked count of dma_thread_access.c       *)
(* within two.                                                             *)
THEOREM DmaTypeCorrect == Spec => []TypeOK
<1>1. CoreInv => TypeOK
  BY DEF CoreInv
<1> QED BY <1>1, CoreInvariance, PTL

(* What cat has printed is the final verdict, in every test: nothing that  *)
(* can set a verdict runs when the scenario reads it, although             *)
(* dma_thread_access.c counts its threads without a lock.                  *)
THEOREM ShownVerdictFinal == Spec => []ShownIsFinal
<1>1. CoreInv => ShownIsFinal
  BY DEF CoreInv, ShownOK
<1> QED BY <1>1, CoreInvariance, PTL

-----------------------------------------------------------------------------
(* Channels and buffers.                                                   *)

(* A step of a test keeps track of its channels and buffers, where it      *)
(* fails too.                                                              *)
LEMMA ThreadOwn ==
    ASSUME CoreInv, OwnOK, NEW t \in Threads, Thread(t)
    PROVE  OwnOK'
<1>0. PICK l \in PC : Moves(t, l)
  BY ThreadMoves DEF CoreInv
<1>1. /\ t \in Workers /\ script' = script /\ script \notin Unloading
      /\ N' = N /\ Workers' = Workers /\ All' = All
      /\ test' = test /\ pc' = [pc EXCEPT ![t] = l]
  BY <1>0, MovesPlace, SetFrame DEF Moves, CoreInv
<1>2. /\ N \in Nat /\ N >= 1 /\ Workers \subseteq Threads /\ 0 \in Workers
      /\ \A u \in Threads : \A i \in 0 .. N - 1 : <<u, i>> \in Slots
      /\ \A u \in Workers : \A i \in 0 .. N - 1 : <<u, i>> \in All
      /\ TypeOK /\ DmaTypeOK
  BY SlotFacts DEF CoreInv, TypeOK
<1>3. Slot(t) = <<t, idx[t]>> /\ idx[t] \in 0 .. N - 1 /\ Slot(t) \in Slots /\ Slot(t) \in All
  BY <1>1, <1>2 DEF Slot, TypeOK
<1>4. /\ pc \in [Threads -> PC] /\ idx \in [Threads -> 0 .. N - 1]
      /\ request_success \in [Slots -> BOOLEAN] /\ mem \in [Slots -> SUBSET Buffers]
      /\ chan \in [Slots -> {"free", "idle", "running", "irq"}]
  BY <1>2 DEF TypeOK, DmaTypeOK
<1>5. /\ \A s \in Slots : SlotOwn(s)
      /\ \A u \in Workers : \A i \in 0 .. N - 1 : LoopOwn(u, i)
  BY DEF OwnOK
<1>6. SUFFICES \A s \in Slots : \A u \in Workers : \A i \in 0 .. N - 1 :
                  SlotOwn(s)' /\ LoopOwn(u, i)'
  <2>1. \A s \in Slots : SlotOwn(s)'
    BY <1>2, <1>6
  <2>2. \A u \in Workers' : \A i \in 0 .. N' - 1 : LoopOwn(u, i)'
    BY <1>1, <1>2, <1>6, SlotFacts DEF CoreInv, TypeOK
  <2> QED BY <1>1, <2>1, <2>2 DEF OwnOK, ExitOwn, Unloading
<1> SUFFICES ASSUME NEW s \in Slots, NEW u \in Workers, NEW i \in 0 .. N - 1
             PROVE  SlotOwn(s)' /\ LoopOwn(u, i)'
  OBVIOUS
<1>s. SlotOwn(s) /\ LoopOwn(u, i) /\ LoopOwn(t, idx[t]) /\ SlotOwn(<<t, idx[t]>>) /\ SlotOwn(<<u, i>>)
  BY <1>1, <1>2, <1>3, <1>5
<1> USE DEF At, Go
<1>7. CASE Request(t)
  <2>1. /\ pc[t] = "request" /\ idx' = idx /\ mem' = mem
        /\ \/ /\ request_success' = [request_success EXCEPT ![<<t, idx[t]>>] = TRUE]
              /\ chan' = [chan EXCEPT ![<<t, idx[t]>>] = "idle"]
              /\ pc' = [pc EXCEPT ![t] = "buffers"]
           \/ /\ request_success' = [request_success EXCEPT ![<<t, idx[t]>>] = FALSE]
              /\ chan' = chan
              /\ pc' = [pc EXCEPT ![t] = "end"]
    BY <1>3, <1>4, <1>7 DEF Request, request_dma
  <2>2. ~request_success[<<t, idx[t]>>]
    BY <1>1, <1>3, <1>s, <2>1 DEF LoopOwn
  <2>a. SlotOwn(s)'
    BY <1>1, <1>3, <1>4, <1>s, <2>1, <2>2 DEF SlotOwn, Buffers, LoopOwn
  <2>b. LoopOwn(u, i)'
    BY <1>1, <1>2, <1>3, <1>4, <1>s, <2>1, <2>2 DEF LoopOwn
  <2> QED BY <2>a, <2>b
<1>8. CASE CreateBuffers(t)
  <2>1. PICK got \in SUBSET Buffers :
          /\ mem' = [mem EXCEPT ![<<t, idx[t]>>] = got]
          /\ \/ /\ got = Buffers /\ idx[t] + 1 < N
                /\ pc' = [pc EXCEPT ![t] = "request"] /\ idx' = [idx EXCEPT ![t] = idx[t] + 1]
             \/ /\ got = Buffers /\ ~(idx[t] + 1 < N)
                /\ pc' = [pc EXCEPT ![t] = "start"] /\ idx' = [idx EXCEPT ![t] = 0]
             \/ pc' = [pc EXCEPT ![t] = "end"] /\ UNCHANGED idx
    BY <1>3, <1>8 DEF CreateBuffers, create_transfer_buffers, NextTransfer
  <2>2. pc[t] = "buffers" /\ UNCHANGED <<request_success, chan>>
    BY <1>8 DEF CreateBuffers, create_transfer_buffers, engineVars
  <2>3. request_success[<<t, idx[t]>>] /\ chan[<<t, idx[t]>>] = "idle"
    BY <1>1, <1>3, <1>4, <1>s, <2>2 DEF LoopOwn
  <2>a. SlotOwn(s)'
    BY <1>1, <1>3, <1>4, <1>s, <2>1, <2>2, <2>3 DEF SlotOwn, Buffers, LoopOwn
  <2>b. CASE u # t
    <3>1. UNCHANGED <<pc[u], idx[u], mem[<<u, i>>]>>
      BY <1>1, <1>2, <1>3, <1>4, <2>1, <2>b
    <3> QED BY <1>1, <1>s, <2>a, <2>2, <3>1 DEF LoopOwn
  <2>c. CASE u = t
    <3>1. mem'[<<t, i>>] = IF i = idx[t] THEN got ELSE mem[<<t, i>>]
      BY <1>2, <1>3, <1>4, <2>1
    <3>2. i <= idx[t] \/ idx[t] + 1 < N
      BY <1>2, <1>3
    <3>3. /\ pc'[t] \in {"request", "start", "end"}
          /\ pc'[t] = "request" => idx'[t] = idx[t] + 1 /\ got = Buffers
          /\ pc'[t] = "start" => got = Buffers /\ ~(idx[t] + 1 < N)
      BY <1>2, <1>4, <2>1
    <3>4. LoopOwn(t, i)
      BY <1>s, <2>c
    <3>5. LoopOwn(t, i)'
      BY <1>2, <1>3, <2>2, <3>1, <3>2, <3>3, <3>4 DEF LoopOwn
    <3> QED BY <2>a, <2>c, <3>5
  <2> QED BY <2>a, <2>b, <2>c
<1>9. CASE Start(t)
  <2>1. /\ chan' = [chan EXCEPT ![<<t, idx[t]>>] = "running"]
        /\ UNCHANGED <<request_success, mem>> /\ pc[t] = "start"
    BY <1>3, <1>9 DEF Start, start_dma_transfer, transferVars
  <2>2. /\ idx' \in [Threads -> 0 .. N - 1]
        /\ \/ pc' = [pc EXCEPT ![t] = "start"]
           \/ pc' = [pc EXCEPT ![t] = "poll"]
           \/ pc' = [pc EXCEPT ![t] = "stop"]
        /\ \A v \in Threads : v # t => idx'[v] = idx[v]
    BY <1>4, <1>9, LoopMoves DEF Start, NextTransfer, CoreInv
  <2>a. SlotOwn(s)'
    BY <1>1, <1>3, <1>4, <1>s, <2>1, <2>2 DEF SlotOwn, Buffers, LoopOwn
  <2>b. LoopOwn(u, i)'
    BY <1>1, <1>2, <1>3, <1>4, <1>s, <2>1, <2>2 DEF LoopOwn
  <2> QED BY <2>a, <2>b
<1>10. CASE Stop(t)
  <2>1. /\ chan' = [chan EXCEPT ![<<t, idx[t]>>] = "free"]
        /\ UNCHANGED <<request_success, mem, idx>> /\ pc[t] = "stop"
        /\ pc' = [pc EXCEPT ![t] = "free"]
    BY <1>3, <1>10 DEF Stop, stop_channel, transferVars
  <2>2. N = 1
    BY <1>2, <2>1 DEF CoreInv, PlaceOK, N
  <2>a. SlotOwn(s)'
    BY <1>1, <1>3, <1>4, <1>s, <2>1, <2>2 DEF SlotOwn, Buffers, LoopOwn
  <2>b. LoopOwn(u, i)'
    BY <1>1, <1>2, <1>3, <1>4, <1>s, <2>1, <2>2 DEF LoopOwn
  <2> QED BY <2>a, <2>b
<1>11. CASE Free(t)
  <2>1. /\ mem' = [mem EXCEPT ![<<t, idx[t]>>] = {}]
        /\ request_success' = [request_success EXCEPT ![<<t, idx[t]>>] = FALSE]
        /\ UNCHANGED <<chan, idx>> /\ pc[t] = "free"
        /\ pc' = [pc EXCEPT ![t] = "check_stop"] \/ pc' = [pc EXCEPT ![t] = "again"]
    BY <1>3, <1>11 DEF Free, free_buffers, engineVars
  <2>a. SlotOwn(s)'
    BY <1>1, <1>3, <1>4, <1>s, <2>1 DEF SlotOwn, Buffers, LoopOwn
  <2>b. LoopOwn(u, i)'
    BY <1>1, <1>2, <1>3, <1>4, <1>s, <2>1 DEF LoopOwn
  <2> QED BY <2>a, <2>b
<1>12. CASE Poll(t) \/ Check(t) \/ Verdict(t) \/ CountLoad(t) \/ CountStore(t)
             \/ StopAgain(t) \/ CheckStop(t)
  <2>1. /\ UNCHANGED <<request_success, mem, chan, idx>>
        /\ pc[t] \in {"poll", "check", "verdict", "load", "store", "again", "check_stop"}
        /\ l \in {"poll", "check"} => pc[t] = "poll"
        /\ l \notin {"off", "request", "buffers", "start", "stop", "free"}
    BY <1>0, <1>2, <1>4, <1>12 DEF Poll, Check, Verdict, CountLoad, CountStore, StopAgain,
        CheckStop, dmaVars, transferVars, engineVars, Moves, TypeOK
  <2>a. SlotOwn(s)'
    BY <1>1, <1>3, <1>4, <1>s, <2>1 DEF SlotOwn, Buffers, LoopOwn
  <2>b. LoopOwn(u, i)'
    BY <1>1, <1>2, <1>3, <1>4, <1>s, <2>1 DEF LoopOwn
  <2> QED BY <2>a, <2>b
<1> QED BY <1>7, <1>8, <1>9, <1>10, <1>11, <1>12 DEF Thread

(* The exit function goes through the transfers in the order of Before.    *)
LEMMA AdvanceBefore ==
    ASSUME CoreInv, Advance, script \in {"exit_stop", "exit_free"},
           NEW s \in All, s # cursor, ~Before(s, cursor)
    PROVE  ~Before(s, cursor')
<1>1. PICK u \in Workers, i \in 0 .. N - 1 : s = <<u, i>>
  BY SlotFacts DEF CoreInv, TypeOK
<1>2. PICK v \in Workers, k \in 0 .. N : cursor = <<v, k>>
  BY SlotFacts DEF CoreInv, TypeOK, PlaceOK
<1>3. N \in Nat /\ Workers \subseteq {0, 1}
  BY SlotFacts DEF CoreInv, TypeOK, Threads
<1>4. u # v \/ i # k
  BY <1>1, <1>2
<1>5. CASE test = "threads" /\ v = 0
  <2>1. cursor' = <<1, k>>
    BY <1>2, <1>5 DEF Advance, NextCursor
  <2> QED BY <1>1, <1>2, <1>3, <1>4, <1>5, <2>1 DEF Before
<1>6. CASE ~(test = "threads" /\ v = 0)
  <2>1. cursor' = <<0, k + 1>>
    BY <1>2, <1>6 DEF Advance, NextCursor
  <2>2. u <= v
    BY <1>3, <1>6 DEF Workers, Threads
  <2> QED BY <1>1, <1>2, <1>3, <1>4, <2>1, <2>2 DEF Before
<1> QED BY <1>5, <1>6

(* The exit function releases the transfer it is at and goes to the next.  *)
LEMMA ScenarioOwn ==
    ASSUME CoreInv, OwnOK, Scenario
    PROVE  OwnOK'
<1>0. /\ test' = test /\ idx' = idx /\ (pc' = pc \/ Insmod)
      /\ N' = N /\ Workers' = Workers /\ All' = All /\ (Releases' <=> Releases)
  BY ScenarioFrame, SetFrame
<1>1. /\ N \in Nat /\ N >= 1 /\ Workers \subseteq Threads /\ 0 \in Workers
      /\ \A u \in Threads : \A i \in 0 .. N - 1 : <<u, i>> \in Slots
      /\ TypeOK /\ DmaTypeOK /\ PlaceOK /\ All \subseteq Slots
  BY SlotFacts DEF CoreInv, TypeOK
<1>2. /\ request_success \in [Slots -> BOOLEAN] /\ mem \in [Slots -> SUBSET Buffers]
      /\ chan \in [Slots -> {"free", "idle", "running", "irq"}]
  BY <1>1 DEF DmaTypeOK
<1>3. /\ \A s \in Slots : SlotOwn(s)
      /\ \A u \in Workers : \A i \in 0 .. N - 1 : LoopOwn(u, i)
      /\ ExitOwn
  BY DEF OwnOK
<1>4. ASSUME \A u \in Workers : pc[u] = "end", pc' = pc
      PROVE  \A u \in Workers : \A i \in 0 .. N - 1 : LoopOwn(u, i)'
  BY <1>4 DEF LoopOwn
<1>5. CASE InsmodCommon \/ Insmod \/ InitDone \/ Rmmod \/ dma_read_proc \/ RmmodCommon
  <2>1. UNCHANGED <<request_success, mem, chan, cursor>>
    BY <1>5 DEF InsmodCommon, Insmod, InitDone, Rmmod, dma_read_proc, RmmodCommon,
        dmaVars, transferVars, engineVars
  <2>2. \A s \in Slots : SlotOwn(s)'
    BY <1>0, <1>3, <2>1 DEF SlotOwn
  <2>3. \A u \in Workers : \A i \in 0 .. N - 1 : LoopOwn(u, i)'
    <3>1. CASE Insmod
      <4>1. /\ \A u \in Threads : pc[u] = "off"
            /\ \A u \in Workers : pc'[u] = "request"
        BY <1>1, <3>1 DEF Insmod, PlaceOK
      <4>2. ASSUME NEW u \in Workers, NEW i \in 0 .. N - 1 PROVE LoopOwn(u, i)'
        <5>1. idx'[u] = 0 /\ ~request_success'[<<u, i>>] /\ pc'[u] = "request"
          BY <1>0, <1>1, <1>3, <2>1, <4>1 DEF LoopOwn
        <5> QED BY <5>1, <1>1 DEF LoopOwn
      <4> QED BY <4>2
    <3>2. CASE pc' = pc
      BY <1>0, <1>3, <2>1, <3>2 DEF LoopOwn
    <3> QED BY <1>0, <3>1, <3>2
  <2>4. ExitOwn'
    <3>1. CASE Rmmod
      <4>1. cursor = <<0, 0>> /\ script' \in {"exit_stop", "cat"}
        BY <1>1, <3>1 DEF Rmmod, PlaceOK, Unloading
      <4>2. ASSUME NEW s \in All PROVE ~Before(s, <<0, 0>>)
        <5>1. PICK u \in Threads, i \in 0 .. N - 1 : s = <<u, i>>
          BY <1>1, SlotFacts DEF TypeOK
        <5> QED BY <1>1, <5>1 DEF Before, Threads
      <4> QED BY <1>3, <2>1, <4>1, <4>2 DEF ExitOwn, SlotOwn
    <3>2. CASE InsmodCommon \/ Insmod \/ InitDone
      BY <3>2 DEF InsmodCommon, Insmod, InitDone, ExitOwn, Unloading
    <3>3. CASE dma_read_proc \/ RmmodCommon
      BY <1>0, <1>3, <2>1, <3>3 DEF dma_read_proc, RmmodCommon, ExitOwn, Unloading
    <3> QED BY <1>5, <3>1, <3>2, <3>3
  <2> QED BY <1>0, <2>2, <2>3, <2>4 DEF OwnOK
<1>6. CASE ExitStop
  <2>1. /\ chan' = [chan EXCEPT ![cursor] = "free"]
        /\ UNCHANGED <<request_success, mem, cursor, pc>>
        /\ script = "exit_stop" /\ script' = "exit_free"
    BY <1>6 DEF ExitStop, stop_channel, transferVars, threadVars
  <2>2. cursor \in Slots /\ \A u \in Workers : pc[u] = "end"
    BY <1>1, <2>1 DEF PlaceOK, TypeOK, Unloading
  <2>3. \A s \in Slots : SlotOwn(s)'
    BY <1>0, <1>2, <1>3, <2>1, <2>2 DEF SlotOwn
  <2>4. ExitOwn'
    BY <1>0, <1>2, <1>3, <2>1, <2>2 DEF ExitOwn, Unloading
  <2> QED BY <1>0, <1>4, <2>1, <2>2, <2>3, <2>4 DEF OwnOK
<1>7. CASE ExitRefused \/ ExitFree
  <2>1. /\ pc' = pc /\ Advance /\ chan' = chan
        /\ script \in {"exit_stop", "exit_free"}
        /\ \/ ~request_success[cursor] /\ UNCHANGED <<request_success, mem>>
           \/ /\ script = "exit_free"
              /\ mem' = [mem EXCEPT ![cursor] = {}]
              /\ request_success' = [request_success EXCEPT ![cursor] = FALSE]
    BY <1>7 DEF ExitRefused, ExitFree, free_buffers, dmaVars, transferVars, engineVars, threadVars
  <2>2. cursor \in Slots /\ \A u \in Workers : pc[u] = "end"
    BY <1>1, <2>1 DEF PlaceOK, TypeOK, Unloading
  <2>3. script = "exit_free" => chan[cursor] = "free"
    BY <1>3 DEF ExitOwn
  <2>4. \A s \in Slots : SlotOwn(s)'
    BY <1>0, <1>2, <1>3, <2>1, <2>2, <2>3 DEF SlotOwn, Buffers
  <2>5. ~request_success'[cursor] /\ \A s \in Slots : request_success'[s] => request_success[s]
    BY <1>2, <2>1, <2>2
  <2>6. ASSUME Releases, NEW s \in Slots, request_success'[s] PROVE ~Before(s, cursor')
    BY <1>3, <2>1, <2>5, <2>6, AdvanceBefore DEF ExitOwn, SlotOwn, Unloading
  <2>7. ExitOwn'
    BY <1>0, <2>1, <2>6, AdvanceFacts DEF ExitOwn
  <2> QED BY <1>0, <1>4, <2>1, <2>2, <2>4, <2>7 DEF OwnOK
<1> QED BY <1>5, <1>6, <1>7 DEF Scenario

(* A callback gives nothing back that it does not own.                     *)
LEMMA InterruptOwn ==
    ASSUME CoreInv, OwnOK, NEW s \in Slots, Interrupt(s) \/ Engine(s)
    PROVE  OwnOK'
<1>0. /\ UNCHANGED <<test, idx, pc, script, cursor, request_success, mem>>
      /\ N' = N /\ Workers' = Workers /\ All' = All /\ (Releases' <=> Releases)
  BY SetFrame DEF Interrupt, Engine, CallbackEntry, CallbackVerify, Complete,
      setVars, threadVars, scriptVars, transferVars
<1>1. chan \in [Slots -> {"free", "idle", "running", "irq"}]
  BY DEF CoreInv, TypeOK, DmaTypeOK
<1>2. \/ chan' = chan
      \/ chan[s] = "running" /\ chan' = [chan EXCEPT ![s] = "irq"]
      \/ chan[s] = "irq" /\ chan' = [chan EXCEPT ![s] = "idle"]
      \/ chan[s] = "irq" /\ chan' = [chan EXCEPT ![s] = "free"]
  BY DEF Interrupt, Engine, CallbackEntry, CallbackVerify, Complete
<1>3. \A r \in Slots : SlotOwn(r)'
  BY <1>0, <1>1, <1>2 DEF OwnOK, SlotOwn
<1>4. \A u \in Workers : \A i \in 0 .. N - 1 : LoopOwn(u, i)'
  <2>1. \A r \in Slots : chan[r] \in {"free", "idle"} => chan'[r] = chan[r]
    BY <1>1, <1>2
  <2>2. \A u \in Workers : \A i \in 0 .. N - 1 : <<u, i>> \in Slots
    BY SlotFacts DEF CoreInv, TypeOK
  <2> QED BY <1>0, <2>1, <2>2 DEF OwnOK, LoopOwn
<1>5. ExitOwn'
  <2>1. script = "exit_free" => cursor \in Slots
    BY SlotFacts DEF CoreInv, TypeOK, PlaceOK
  <2> QED BY <1>0, <1>1, <1>2, <2>1 DEF OwnOK, ExitOwn
<1> QED BY <1>0, <1>3, <1>4, <1>5 DEF OwnOK

-----------------------------------------------------------------------------
Inv == CoreInv /\ OwnOK

(* Nothing is owned when nothing is loaded.                                *)
LEMMA InitOwn == Init => OwnOK
<1> SUFFICES ASSUME Init PROVE OwnOK
  OBVIOUS
<1>1. \A t \in Workers : \A i \in 0 .. N - 1 : <<t, i>> \in Slots /\ t \in Threads
  BY SlotFacts DEF Init
<1>2. \A s \in Slots : SlotOwn(s)
  BY DEF Init, DmaInit, SlotOwn
<1>3. \A t \in Workers : \A i \in 0 .. N - 1 : LoopOwn(t, i)
  BY <1>1 DEF Init, DmaInit, LoopOwn
<1> QED BY <1>2, <1>3 DEF OwnOK, ExitOwn, Init, Unloading

(* Every step keeps both parts.                                            *)
LEMMA StepInv == Inv /\ [Next]_vars => Inv'
<1> SUFFICES ASSUME Inv, [Next]_vars PROVE Inv'
  OBVIOUS
<1>1. CoreInv'
  BY StepCore DEF Inv
<1>2. CASE UNCHANGED vars
  <2>1. UNCHANGED <<test, idx, pc, script, cursor, request_success, mem, chan>>
    BY <1>2 DEF vars, setVars, threadVars, scriptVars, dmaVars, transferVars, engineVars
  <2>2. N' = N /\ Workers' = Workers /\ All' = All /\ (Releases' <=> Releases)
    BY <2>1, SetFrame
  <2>3. OwnOK'
    BY <2>1, <2>2 DEF Inv, OwnOK, SlotOwn, LoopOwn, ExitOwn
  <2> QED BY <1>1, <2>3 DEF Inv
<1> QED
  BY <1>1, <1>2, ThreadOwn, ScenarioOwn, InterruptOwn DEF Inv, Next, Over

(* The whole invariant holds in every state.                               *)
THEOREM Invariance == Spec => []Inv
<1>1. Init => Inv
  BY InitCore, InitOwn DEF Inv
<1> QED BY <1>1, StepInv, PTL DEF Spec

(* At the end of the exit function every transfer is before the cursor.    *)
LEMMA InvReleased == Inv => ReleasedOnUnload
<1>1. ASSUME Inv, Releases, script \in Unloaded, NEW s \in Slots
      PROVE  chan[s] = "free" /\ mem[s] = {}
  <2>1. cursor[2] = N /\ script \in Unloading
    BY <1>1 DEF Inv, CoreInv, PlaceOK, Unloading, Unloaded
  <2>2. \A r \in All : Before(r, cursor)
    BY <2>1, <1>1, SlotFacts DEF Inv, CoreInv, TypeOK, Before
  <2>3. ~request_success[s]
    BY <1>1, <2>1, <2>2 DEF Inv, OwnOK, SlotOwn, ExitOwn
  <2> QED BY <1>1, <2>3 DEF Inv, OwnOK, SlotOwn
<1> QED
  BY <1>1 DEF ReleasedOnUnload, Unloaded

(* Every test whose exit function stops its transfers has given back every *)
(* channel and buffer when it is unloaded, wherever its init function gave *)
(* up.                                                                     *)
THEOREM UnloadReleases == Spec => []ReleasedOnUnload
  BY InvReleased, Invariance, PTL

----------------------------------------------------------------------------
(* The verdicts.                                                           *)


Polling == {"poll", "prio_high", "prio_low", "selflink"}
Bad     == {"bad_status", "mismatch"}

Active(s) == chan[s] \in {"running", "irq"}
Quiet(s)  ==
    ~Active(s) /\ cb[s] = "none" /\ ~finished[s] /\ ~data_correct[s] /\ result[s] = "none"

(* What is left of a transfer, whoever started it.                         *)
FlagOK(s) ==
    /\ s \notin All => Quiet(s)
    /\ Active(s) => ~finished[s] /\ ~data_correct[s] /\ cb[s] = "none"
    /\ chan[s] = "running" => result[s] = "none"
    /\ chan[s] = "irq" => result[s] # "none"
    /\ cb[s] # "none" => finished[s] /\ ~data_correct[s] /\ result[s] \in {"good", "mismatch"}
    /\ data_correct[s] => finished[s]
    /\ finished[s] => first # NoSlot

(* As long as nothing is freed, the flags tell the result.                 *)
EvidenceOK(s) ==
    test \notin StopTests /\ script \notin Unloading =>
        /\ cb[s] # "none" => mem[s] = Buffers
        /\ data_correct[s] => result[s] = "good"
        /\ finished[s] /\ cb[s] = "none" /\ ~data_correct[s] => result[s] \in Bad

(* Transfer i of thread t, as the place of the thread tells.               *)
PlaceFlag(t, i) ==
    /\ pc[t] \in {"off", "request", "buffers"} \/ (pc[t] = "start" /\ i >= idx[t]) => Quiet(<<t, i>>)
    /\ pc[t] = "check" => finished[<<t, i>>]

(* The tests that stop their transfer.                                     *)
StopOK ==
    test \in StopTests =>
        /\ pc[0] \in {"free", "again", "check_stop", "end"} => \A s \in Slots : ~Active(s)
        /\ pc[0] \in {"again", "check_stop"} => ~request_success[<<0, 0>>]
        /\ test # "stop_invalid" /\ pc[0] = "end" /\ test_passed = 1 =>
              \A s \in Slots : ~finished[s] /\ ~request_success[s]

Evidence ==
    /\ \A s \in All : ~Active(s) /\ result[s] = "good"
    /\ test = "prio_high" => first = <<0, N - 1>>
    /\ test = "prio_low" => first \in All \ {<<0, 0>>}

Reason ==
    \/ \E s \in All : ~request_success[s] \/ mem[s] # Buffers
    \/ polls[0] = POLL_COUNT
    \/ \E s \in All : result[s] \in Bad
    \/ test = "prio_high" /\ first \notin {NoSlot, <<0, N - 1>>}
    \/ test = "prio_low" /\ first = <<0, 0>>

(* The tests that poll.                                                    *)
PollOK ==
    test \in Polling =>
        /\ pc[0] # "end" => test_passed = -1
        /\ test_passed = 1 => Evidence
        /\ test_passed = 0 /\ ~slow /\ script = "init" => Reason

(* One processor.                                                          *)
BufferOK(s) ==
    ~smp /\ test # "selflink" /\ cb[s] # "none" => mem[s] = Buffers /\ script \notin Unloaded

FlagsOK ==
    /\ \A s \in Slots : FlagOK(s) /\ EvidenceOK(s) /\ BufferOK(s)
    /\ first # NoSlot => first \in All
    /\ \A t \in Workers : \A i \in 0 .. N - 1 : PlaceFlag(t, i)

VerdictInv == Inv /\ FlagsOK /\ StopOK /\ PollOK

-----------------------------------------------------------------------------
(* What the invariant of DmaProofs says of the types, in one place.        *)
LEMMA Types ==
    ASSUME Inv
    PROVE  /\ N \in Nat /\ N >= 1 /\ Workers \subseteq Threads /\ 0 \in Workers
           /\ \A t \in Threads : \A i \in 0 .. N - 1 : <<t, i>> \in Slots
           /\ \A t \in Workers : \A i \in 0 .. N - 1 : <<t, i>> \in All
           /\ All \subseteq Slots
           /\ CoreInv /\ OwnOK /\ TypeOK /\ PlaceOK /\ PollsOK
           /\ finished \in [Slots -> BOOLEAN] /\ data_correct \in [Slots -> BOOLEAN]
           /\ request_success \in [Slots -> BOOLEAN] /\ mem \in [Slots -> SUBSET Buffers]
           /\ chan \in [Slots -> {"free", "idle", "running", "irq"}]
           /\ result \in [Slots -> {"none", "good", "bad_status", "mismatch"}]
           /\ cb \in [Slots -> {"none", "verify"}]
           /\ first \in Slots \cup {NoSlot} /\ test_passed \in {-1, 0, 1}
           /\ pc \in [Threads -> PC] /\ idx \in [Threads -> 0 .. N - 1]
  BY SlotFacts DEF Inv, CoreInv, TypeOK, DmaTypeOK

(* A test that stops its transfers on exit has none when it is unloaded.   *)
LEMMA Released ==
    ASSUME Inv, Releases, script \in Unloaded, NEW s \in Slots
    PROVE  chan[s] = "free"
<1>1. Inv => ReleasedOnUnload
  BY InvReleased
<1> QED BY <1>1 DEF ReleasedOnUnload, Unloaded

(* The engine ends a transfer.                                             *)
LEMMA CompleteVerdict ==
    ASSUME VerdictInv, NEW r \in Slots, Engine(r)
    PROVE  FlagsOK' /\ StopOK' /\ PollOK'
<1>0. /\ UNCHANGED <<test, smp, slow, pc, idx, polls, script, test_passed, finished,
                     data_correct, request_success, mem, cb, first>>
      /\ N' = N /\ Workers' = Workers /\ All' = All
  BY SetFrame DEF Engine, Complete, setVars, threadVars, scriptVars, transferVars, verdictVars
<1>1. PICK how \in {"good", "bad_status", "mismatch"} :
          /\ chan[r] = "running" /\ chan' = [chan EXCEPT ![r] = "irq"]
          /\ result' = [result EXCEPT ![r] = how]
  BY DEF Engine, Complete
<1>2. Inv /\ FlagsOK /\ StopOK /\ PollOK
  BY DEF VerdictInv
<1>3. FlagOK(r) /\ EvidenceOK(r) /\ Active(r) /\ r \in All
  BY <1>1, <1>2 DEF FlagsOK, FlagOK, Active, Quiet
<1>4. /\ ~finished[r] /\ ~data_correct[r] /\ cb[r] = "none" /\ result[r] = "none"
  BY <1>1, <1>3 DEF FlagOK
<1>5. ASSUME NEW s \in Slots PROVE FlagOK(s)' /\ EvidenceOK(s)' /\ BufferOK(s)'
  <2>1. FlagOK(s) /\ EvidenceOK(s) /\ BufferOK(s)
    BY <1>2 DEF FlagsOK
  <2>2. CASE s = r
    BY <1>0, <1>1, <1>2, <1>3, <1>4, <2>1, <2>2, Types DEF FlagOK, EvidenceOK, BufferOK, Active, Quiet
  <2>3. CASE s # r
    <3>1. chan'[s] = chan[s] /\ result'[s] = result[s]
      BY <1>1, <1>2, <2>3, Types
    <3> QED BY <1>0, <2>1, <3>1 DEF FlagOK, EvidenceOK, BufferOK, Active, Quiet
  <2> QED BY <2>2, <2>3
<1>6. ASSUME NEW t \in Workers, NEW i \in 0 .. N - 1 PROVE PlaceFlag(t, i)'
  <2>1. PlaceFlag(t, i) /\ <<t, i>> \in Slots
    BY <1>2, Types DEF FlagsOK
  <2>2. CASE <<t, i>> = r
    BY <1>0, <1>3, <2>1, <2>2 DEF PlaceFlag, Quiet
  <2>3. CASE <<t, i>> # r
    <3>1. chan'[<<t, i>>] = chan[<<t, i>>] /\ result'[<<t, i>>] = result[<<t, i>>]
      BY <1>1, <1>2, <2>1, <2>3, Types
    <3> QED BY <1>0, <2>1, <3>1 DEF PlaceFlag, Active, Quiet
  <2> QED BY <2>2, <2>3
<1>7. FlagsOK'
  BY <1>0, <1>2, <1>5, <1>6 DEF FlagsOK
<1>8. StopOK'
  BY <1>0, <1>1, <1>2, <1>3, Types DEF StopOK, Active
<1>9. PollOK'
  <2>1. Evidence => FALSE
    BY <1>3 DEF Evidence
  <2>2. Reason => Reason'
    BY <1>0, <1>1, <1>2, <1>4, Types DEF Reason, Bad
  <2> QED BY <1>0, <1>2, <2>1, <2>2 DEF PollOK
<1> QED BY <1>7, <1>8, <1>9

(* The callback is entered.                                                *)
LEMMA EntryVerdict ==
    ASSUME VerdictInv, NEW r \in Slots, CallbackEntry(r, test = "selflink"),
           UNCHANGED <<setVars, threadVars, scriptVars>>
    PROVE  FlagsOK' /\ StopOK' /\ PollOK'
<1>0. /\ UNCHANGED <<test, smp, slow, pc, idx, polls, script, test_passed,
                     request_success, mem, result>>
      /\ N' = N /\ Workers' = Workers /\ All' = All
  BY SetFrame DEF CallbackEntry, setVars, threadVars, scriptVars, verdictVars
<1>1. /\ chan[r] = "irq"
      /\ chan' = [chan EXCEPT ![r] = "free"] \/ chan' = [chan EXCEPT ![r] = "idle"]
      /\ data_correct' = [data_correct EXCEPT ![r] = FALSE]
      /\ finished' = [finished EXCEPT ![r] = TRUE]
      /\ first' = IF first = NoSlot THEN r ELSE first
      /\ cb' = [cb EXCEPT ![r] = IF result[r] = "bad_status" THEN "none" ELSE "verify"]
  BY DEF CallbackEntry
<1>2. Inv /\ FlagsOK /\ StopOK /\ PollOK
  BY DEF VerdictInv
<1>3. FlagOK(r) /\ EvidenceOK(r) /\ Active(r) /\ r \in All /\ result[r] \in {"good", "bad_status", "mismatch"}
  BY <1>1, <1>2, Types DEF FlagsOK, FlagOK, Active, Quiet
<1>4. mem[r] = Buffers /\ request_success[r]
  BY <1>1, <1>2, Types DEF OwnOK, SlotOwn
<1>5. first' # NoSlot /\ first' \in All
  BY <1>1, <1>2, <1>3, SlotAssumption DEF FlagsOK
<1>6. test # "selflink" => script \notin Unloaded
  <2>1. SUFFICES ASSUME test # "selflink", script \in Unloaded PROVE FALSE
    OBVIOUS
  <2>2. CASE Releases
    BY <1>2, <1>3, <1>4, <2>1, <2>2, Released DEF Active
  <2>3. CASE test \in StopTests
    BY <1>2, <1>3, <2>1, <2>3, Types DEF StopOK, PlaceOK, Unloaded, Unloading
  <2>4. test \in AllTests
    BY <1>2, Types, TestAssumption DEF TypeOK
  <2> QED BY <2>1, <2>2, <2>3, <2>4 DEF Releases, AllTests
<1>7. ASSUME NEW s \in Slots PROVE FlagOK(s)' /\ EvidenceOK(s)' /\ BufferOK(s)'
  <2>1. FlagOK(s) /\ EvidenceOK(s) /\ BufferOK(s)
    BY <1>2 DEF FlagsOK
  <2>2. CASE s = r
    <3>1. /\ ~Active(s)' /\ ~data_correct'[s] /\ finished'[s]
          /\ cb'[s] = IF result[s] = "bad_status" THEN "none" ELSE "verify"
      BY <1>1, <1>2, <2>2, Types DEF Active
    <3> QED BY <1>0, <1>3, <1>4, <1>5, <1>6, <2>2, <3>1 DEF FlagOK, EvidenceOK, BufferOK, Quiet, Bad, Active
  <2>3. CASE s # r
    <3>1. UNCHANGED <<chan[s], finished[s], data_correct[s], cb[s]>>
      BY <1>1, <1>2, <2>3, Types
    <3> QED BY <1>0, <1>5, <2>1, <3>1 DEF FlagOK, EvidenceOK, BufferOK, Active, Quiet
  <2> QED BY <2>2, <2>3
<1>8. ASSUME NEW t \in Workers, NEW i \in 0 .. N - 1 PROVE PlaceFlag(t, i)'
  <2>1. PlaceFlag(t, i) /\ <<t, i>> \in Slots
    BY <1>2, Types DEF FlagsOK
  <2>2. CASE <<t, i>> = r
    BY <1>0, <1>1, <1>2, <1>3, <2>1, <2>2, Types DEF PlaceFlag, Quiet
  <2>3. CASE <<t, i>> # r
    <3>1. UNCHANGED <<chan[<<t, i>>], finished[<<t, i>>], data_correct[<<t, i>>], cb[<<t, i>>]>>
      BY <1>1, <1>2, <2>1, <2>3, Types
    <3> QED BY <1>0, <2>1, <3>1 DEF PlaceFlag, Active, Quiet
  <2> QED BY <2>2, <2>3
<1>9. FlagsOK'
  BY <1>0, <1>5, <1>7, <1>8 DEF FlagsOK
<1>10. StopOK'
  <2>1. \A s \in Slots : ~Active(s) => ~Active(s)'
    BY <1>1, <1>2, Types DEF Active
  <2>2. test \in StopTests /\ test # "stop_invalid" /\ pc[0] = "end" /\ test_passed = 1 => FALSE
    BY <1>2, <1>4 DEF StopOK
  <2> QED BY <1>0, <1>2, <2>1, <2>2 DEF StopOK
<1>11. PollOK'
  <2>1. Evidence => FALSE
    BY <1>3 DEF Evidence
  <2>a. <<0, 0>> # NoSlot
    <3>1. <<0, 0>> \in Slots
      BY <1>2, Types DEF Threads
    <3> QED BY <3>1, SlotAssumption
  <2>2. Reason => Reason'
    BY <1>0, <1>1, <2>a DEF Reason
  <2> QED BY <1>0, <1>2, <2>1, <2>2 DEF PollOK
<1> QED BY <1>9, <1>10, <1>11

(* The callback compares the buffers.                                      *)
LEMMA VerifyVerdict ==
    ASSUME VerdictInv, NEW r \in Slots, CallbackVerify(r),
           UNCHANGED <<setVars, threadVars, scriptVars>>
    PROVE  FlagsOK' /\ StopOK' /\ PollOK'
<1>0. /\ UNCHANGED <<test, smp, slow, pc, idx, polls, script, test_passed,
                     request_success, mem, result, chan, finished, first>>
      /\ N' = N /\ Workers' = Workers /\ All' = All
  BY SetFrame DEF CallbackVerify, setVars, threadVars, scriptVars, verdictVars
<1>1. PICK equal \in verify_buffers(r) :
          /\ cb[r] = "verify" /\ cb' = [cb EXCEPT ![r] = "none"]
          /\ data_correct' = [data_correct EXCEPT ![r] = equal]
  BY DEF CallbackVerify
<1>2. Inv /\ FlagsOK /\ StopOK /\ PollOK
  BY DEF VerdictInv
<1>a. equal \in BOOLEAN /\ (mem[r] = Buffers => (equal <=> result[r] = "good"))
  BY Zenon DEF verify_buffers
<1>3. FlagOK(r) /\ EvidenceOK(r) /\ ~Active(r) /\ r \in All /\ finished[r]
      /\ result[r] \in {"good", "mismatch"}
  BY <1>1, <1>2, Types DEF FlagsOK, FlagOK, Active, Quiet
<1>7. ASSUME NEW s \in Slots PROVE FlagOK(s)' /\ EvidenceOK(s)' /\ BufferOK(s)'
  <2>1. FlagOK(s) /\ EvidenceOK(s) /\ BufferOK(s)
    BY <1>2 DEF FlagsOK
  <2>2. CASE s = r
    <3>1. /\ ~Active(s)' /\ data_correct'[s] = equal /\ finished'[s] /\ cb'[s] = "none"
      BY <1>0, <1>1, <1>2, <1>3, <2>2, Types DEF Active
    <3>2. FlagOK(s)' /\ BufferOK(s)'
      BY <1>0, <1>1, <1>3, <2>2, <3>1 DEF FlagOK, BufferOK, Quiet, Active
    <3>3. EvidenceOK(s)'
      BY <1>0, <1>1, <1>a, <1>3, <2>2, <3>1 DEF EvidenceOK, Bad
    <3> QED BY <3>2, <3>3
  <2>3. CASE s # r
    <3>1. UNCHANGED <<data_correct[s], cb[s]>>
      BY <1>1, <1>2, <2>3, Types
    <3> QED BY <1>0, <2>1, <3>1 DEF FlagOK, EvidenceOK, BufferOK, Active, Quiet
  <2> QED BY <2>2, <2>3
<1>8. ASSUME NEW t \in Workers, NEW i \in 0 .. N - 1 PROVE PlaceFlag(t, i)'
  <2>1. PlaceFlag(t, i) /\ <<t, i>> \in Slots
    BY <1>2, Types DEF FlagsOK
  <2>2. CASE <<t, i>> = r
    BY <1>0, <1>1, <1>3, <2>1, <2>2 DEF PlaceFlag, Quiet
  <2>3. CASE <<t, i>> # r
    <3>1. UNCHANGED <<data_correct[<<t, i>>], cb[<<t, i>>]>>
      BY <1>1, <1>2, <2>1, <2>3, Types
    <3> QED BY <1>0, <2>1, <3>1 DEF PlaceFlag, Active, Quiet
  <2> QED BY <2>2, <2>3
<1>9. FlagsOK'
  BY <1>0, <1>2, <1>7, <1>8 DEF FlagsOK
<1>10. StopOK' /\ PollOK'
  BY <1>0, <1>2 DEF StopOK, PollOK, Active, Evidence, Reason
<1> QED BY <1>9, <1>10

-----------------------------------------------------------------------------
(* A step of a thread leaves the flags of the callbacks alone.             *)
LEMMA ThreadFlagFrame ==
    ASSUME VerdictInv, NEW t \in Threads, Thread(t)
    PROVE  /\ UNCHANGED <<test, smp, slow, script, data_correct, result, cb, first, finished>>
           /\ N' = N /\ Workers' = Workers /\ All' = All
           /\ script \notin Unloading /\ t \in Workers
           /\ ~smp => \A s \in Slots : cb[s] = "none"
<1>1. PICK l \in PC : Moves(t, l)
  BY ThreadMoves DEF VerdictInv, Inv, CoreInv
<1>2. /\ UNCHANGED <<test, smp, slow, script>> /\ script \notin Unloading /\ t \in Workers
      /\ N' = N /\ Workers' = Workers /\ All' = All
  BY <1>1, MovesPlace, SetFrame DEF Moves, VerdictInv, Inv, CoreInv
<1>3. Runs
  BY DEF Thread, Request, CreateBuffers, Start, Poll, Check, Verdict, CountLoad,
      CountStore, Stop, Free, StopAgain, CheckStop, At
<1>4. UNCHANGED <<data_correct, result, cb, first>>
  BY DEF Thread, Request, CreateBuffers, Start, Poll, Check, Verdict, CountLoad,
      CountStore, Stop, Free, StopAgain, CheckStop, request_dma, create_transfer_buffers,
      start_dma_transfer, stop_channel, free_buffers, dmaVars, transferVars, engineVars
<1>5. finished' = finished
  <2>1. CASE Request(t)
    <3>1. finished' = [finished EXCEPT ![<<t, idx[t]>>] = FALSE] /\ pc[t] = "request"
      BY <2>1 DEF Request, request_dma, Slot, At
    <3>2. idx[t] \in 0 .. N - 1 /\ <<t, idx[t]>> \in Slots /\ finished \in [Slots -> BOOLEAN]
      BY Types DEF VerdictInv
    <3>3. PlaceFlag(t, idx[t])
      BY <1>2, <3>2 DEF VerdictInv, FlagsOK
    <3>4. finished[<<t, idx[t]>>] = FALSE
      BY <3>1, <3>2, <3>3 DEF PlaceFlag, Quiet
    <3> QED BY <3>1, <3>2, <3>4
  <2> QED BY <2>1 DEF Thread, CreateBuffers, Start, Poll, Check, Verdict, CountLoad,
      CountStore, Stop, Free, StopAgain, CheckStop, create_transfer_buffers,
      start_dma_transfer, stop_channel, free_buffers, dmaVars, transferVars, engineVars
<1> QED BY <1>2, <1>3, <1>4, <1>5 DEF Runs, InCallback

(* A step of a test keeps flags and places in agreement: what is started   *)
(* is quiet, and a test checks only what is finished.                      *)
LEMMA ThreadFlags ==
    ASSUME VerdictInv, NEW t \in Threads, Thread(t)
    PROVE  FlagsOK'
<1>0. /\ UNCHANGED <<test, smp, slow, script, data_correct, result, cb, first, finished>>
      /\ N' = N /\ Workers' = Workers /\ All' = All
      /\ script \notin Unloading /\ t \in Workers
      /\ ~smp => \A s \in Slots : cb[s] = "none"
  BY ThreadFlagFrame
<1>1. Inv /\ FlagsOK
  BY DEF VerdictInv
<1>2. PICK l \in PC : Moves(t, l)
  BY <1>1, Types, ThreadMoves
<1>3. /\ idx[t] \in 0 .. N - 1 /\ <<t, idx[t]>> \in Slots /\ <<t, idx[t]>> \in All
      /\ Slot(t) = <<t, idx[t]>> /\ pc' = [pc EXCEPT ![t] = l]
  BY <1>0, <1>1, <1>2, Types DEF Slot, Moves
<1>4. SUFFICES ASSUME NEW s \in Slots, NEW u \in Workers, NEW i \in 0 .. N - 1
               PROVE  FlagOK(s)' /\ EvidenceOK(s)' /\ PlaceFlag(u, i)'
  <2>1. \A s \in Slots : FlagOK(s)' /\ EvidenceOK(s)'
    BY <1>1, <1>4, Types
  <2>2. \A u \in Workers' : \A i \in 0 .. N' - 1 : PlaceFlag(u, i)'
    BY <1>0, <1>3, <1>4
  <2>3. \A s \in Slots : BufferOK(s)'
    BY <1>0 DEF BufferOK
  <2> QED BY <1>0, <1>1, <2>1, <2>2, <2>3 DEF FlagsOK
<1>5. /\ FlagOK(s) /\ EvidenceOK(s) /\ PlaceFlag(u, i) /\ <<u, i>> \in Slots
      /\ PlaceFlag(t, idx[t]) /\ u \in Threads
  BY <1>0, <1>1, <1>3, Types DEF FlagsOK
<1>6. /\ chan \in [Slots -> {"free", "idle", "running", "irq"}]
      /\ mem \in [Slots -> SUBSET Buffers] /\ pc \in [Threads -> PC]
      /\ idx \in [Threads -> 0 .. N - 1] /\ N \in Nat
  BY <1>1, Types
<1> USE DEF At, Go
<1>7. CASE Request(t)
  <2>1. /\ chan' = chan \/ chan' = [chan EXCEPT ![<<t, idx[t]>>] = "idle"]
        /\ pc[t] = "request" /\ l \in {"buffers", "end"} /\ UNCHANGED <<mem, idx>>
    BY <1>2, <1>3, <1>6, <1>7 DEF Request, request_dma
  <2>2. \A r \in Slots : Active(r)' => Active(r) /\ chan'[r] = chan[r]
    BY <1>6, <2>1 DEF Active
  <2>3. FlagOK(s)' /\ EvidenceOK(s)'
    BY <1>0, <1>5, <2>1, <2>2 DEF FlagOK, EvidenceOK, Quiet, Active
  <2>4. PlaceFlag(u, i)'
    BY <1>0, <1>3, <1>5, <1>6, <2>1, <2>2 DEF PlaceFlag, Quiet
  <2> QED BY <2>3, <2>4
<1>8. CASE CreateBuffers(t)
  <2>1. PICK got \in SUBSET Buffers : mem' = [mem EXCEPT ![<<t, idx[t]>>] = got]
    BY <1>3, <1>8 DEF CreateBuffers, create_transfer_buffers
  <2>2. /\ chan' = chan /\ pc[t] = "buffers" /\ l \in {"request", "start", "end"}
        /\ l = "start" => idx'[t] = 0
        /\ \A v \in Threads : v # t => idx'[v] = idx[v]
        /\ l = "start" => ~(idx[t] + 1 < N)
    BY <1>2, <1>3, <1>6, <1>8 DEF CreateBuffers, create_transfer_buffers, NextTransfer, engineVars
  <2>3. Quiet(<<t, idx[t]>>)
    BY <1>5, <2>2 DEF PlaceFlag
  <2>4. FlagOK(s)' /\ EvidenceOK(s)'
    BY <1>0, <1>3, <1>5, <1>6, <2>1, <2>2, <2>3 DEF FlagOK, EvidenceOK, Quiet, Active
  <2>5. PlaceFlag(u, i)'
    BY <1>0, <1>3, <1>5, <1>6, <2>2 DEF PlaceFlag, Quiet, Active
  <2> QED BY <2>4, <2>5
<1>9. CASE Start(t)
  <2>1. /\ chan' = [chan EXCEPT ![<<t, idx[t]>>] = "running"]
        /\ mem' = mem /\ pc[t] = "start" /\ l \in {"start", "poll", "stop"}
        /\ \A v \in Threads : v # t => idx'[v] = idx[v]
        /\ l = "start" => idx'[t] = idx[t] + 1
    BY <1>2, <1>3, <1>6, <1>9 DEF Start, start_dma_transfer, transferVars, NextTransfer
  <2>2. Quiet(<<t, idx[t]>>)
    BY <1>3, <1>5, <2>1 DEF PlaceFlag
  <2>3. FlagOK(s)' /\ EvidenceOK(s)'
    <3>1. CASE s = <<t, idx[t]>>
      BY <1>0, <1>3, <1>5, <1>6, <2>1, <2>2, <3>1 DEF FlagOK, EvidenceOK, Quiet, Active
    <3>2. CASE s # <<t, idx[t]>>
      <4>1. chan'[s] = chan[s]
        BY <1>6, <2>1, <3>2
      <4> QED BY <1>0, <1>5, <2>1, <4>1 DEF FlagOK, EvidenceOK, Quiet, Active
    <3> QED BY <3>1, <3>2
  <2>4. PlaceFlag(u, i)'
    <3>1. CASE u = t /\ i = idx[t]
      BY <1>0, <1>3, <1>6, <2>1, <3>1 DEF PlaceFlag
    <3>2. CASE ~(u = t /\ i = idx[t])
      <4>1. chan'[<<u, i>>] = chan[<<u, i>>]
        BY <1>5, <1>6, <2>1, <3>2
      <4> QED BY <1>0, <1>3, <1>5, <1>6, <2>1, <4>1 DEF PlaceFlag, Quiet, Active
    <3> QED BY <3>1, <3>2
  <2> QED BY <2>3, <2>4
<1>10. CASE Stop(t) \/ Free(t)
  <2>1. /\ chan' = chan \/ chan' = [chan EXCEPT ![<<t, idx[t]>>] = "free"]
        /\ pc[t] \in {"stop", "free"} /\ l \in {"free", "again", "check_stop"} /\ idx' = idx
    BY <1>2, <1>3, <1>6, <1>10 DEF Stop, Free, stop_channel, free_buffers, engineVars
  <2>2. \A r \in Slots : Active(r)' => Active(r) /\ chan'[r] = chan[r]
    BY <1>6, <2>1 DEF Active
  <2>3. test \in StopTests
    BY <1>1, <2>1, Types DEF PlaceOK
  <2>4. FlagOK(s)' /\ EvidenceOK(s)'
    BY <1>0, <1>5, <2>2, <2>3 DEF FlagOK, EvidenceOK, Quiet, Active
  <2>5. PlaceFlag(u, i)'
    BY <1>0, <1>3, <1>5, <1>6, <2>1, <2>2 DEF PlaceFlag, Quiet
  <2> QED BY <2>4, <2>5
<1>11. CASE Poll(t)
  <2>1. /\ UNCHANGED <<chan, mem, idx>> /\ pc[t] = "poll" /\ l \in {"poll", "check", "verdict", "end"}
        /\ l = "check" => get_transfers_finished(t)
    BY <1>2, <1>3, <1>6, <1>11 DEF Poll, transferVars, engineVars
  <2>2. l = "check" => \A k \in 0 .. N - 1 : finished[<<t, k>>]
    BY <2>1 DEF get_transfers_finished, Mine
  <2>3. FlagOK(s)' /\ EvidenceOK(s)'
    BY <1>0, <1>5, <2>1 DEF FlagOK, EvidenceOK, Quiet, Active
  <2>4. PlaceFlag(u, i)'
    BY <1>0, <1>3, <1>5, <1>6, <2>1, <2>2 DEF PlaceFlag, Quiet, Active
  <2> QED BY <2>3, <2>4
<1>12. CASE Check(t) \/ Verdict(t) \/ CountLoad(t) \/ CountStore(t) \/ StopAgain(t) \/ CheckStop(t)
  <2>1. /\ UNCHANGED <<chan, mem, idx>> /\ l \in {"verdict", "load", "store", "check_stop", "end"}
    BY <1>2, <1>3, <1>6, <1>12 DEF Check, Verdict, CountLoad, CountStore, StopAgain, CheckStop,
        dmaVars, transferVars, engineVars
  <2>2. FlagOK(s)' /\ EvidenceOK(s)'
    BY <1>0, <1>5, <2>1 DEF FlagOK, EvidenceOK, Quiet, Active
  <2>3. PlaceFlag(u, i)'
    BY <1>0, <1>3, <1>5, <1>6, <2>1 DEF PlaceFlag, Quiet, Active
  <2> QED BY <2>2, <2>3
<1> QED BY <1>7, <1>8, <1>9, <1>10, <1>11, <1>12 DEF Thread

(* A test that stops its transfer has one.                                 *)
LEMMA StopFacts ==
    ASSUME VerdictInv, test \in StopTests
    PROVE  /\ Workers = {0} /\ N = 1
           /\ \A s \in Slots : s # <<0, 0>> => Quiet(s) /\ ~request_success[s]
<1>1. Workers = {0} /\ N = 1
  BY DEF StopTests, Workers, N
<1>2. All = {<<0, 0>>}
  BY <1>1 DEF All, Mine
<1> QED
  BY <1>1, <1>2 DEF VerdictInv, FlagsOK, FlagOK, Inv, OwnOK, SlotOwn

(* Stopping the transfer silences it before the test looks.                *)
LEMMA ThreadStop ==
    ASSUME VerdictInv, NEW t \in Threads, Thread(t)
    PROVE  StopOK'
<1>1. SUFFICES ASSUME test' \in StopTests PROVE StopOK'
  BY DEF StopOK
<1>2. /\ UNCHANGED <<test, finished>> /\ t \in Workers /\ test \in StopTests
  BY <1>1, ThreadFlagFrame
<1>3. /\ t = 0 /\ N = 1 /\ idx[0] = 0 /\ Slot(t) = <<0, 0>>
      /\ \A s \in Slots : s # <<0, 0>> => Quiet(s) /\ ~request_success[s]
  BY <1>2, StopFacts, Types DEF VerdictInv, Slot
<1>4. PICK l \in PC : Moves(t, l)
  BY ThreadMoves, Types DEF VerdictInv
<1>5. /\ <<0, 0>> \in Slots /\ pc' = [pc EXCEPT ![0] = l] /\ 0 \in Threads
      /\ Inv /\ FlagsOK /\ StopOK /\ PlaceFlag(0, 0) /\ pc[0] \notin {"off", "end"}
  BY <1>2, <1>3, <1>4, Types DEF VerdictInv, Moves, FlagsOK
<1>6. /\ chan \in [Slots -> {"free", "idle", "running", "irq"}]
      /\ request_success \in [Slots -> BOOLEAN] /\ pc \in [Threads -> PC]
  BY <1>5, Types
<1> USE DEF At, Go
<1>7. CASE Request(t) \/ CreateBuffers(t) \/ Start(t)
  <2>1. /\ l = "end" => test_passed' = 0 /\ chan' = chan /\ pc[0] \in {"request", "buffers"}
        /\ l \in {"request", "buffers", "start", "stop", "poll", "end"}
    BY <1>3, <1>5, <1>6, <1>7 DEF Request, request_dma, CreateBuffers, create_transfer_buffers, Start,
        NextTransfer, set_test_passed, engineVars
  <2>2. l = "end" => \A s \in Slots : ~Active(s)'
    BY <1>3, <1>5, <2>1 DEF PlaceFlag, Quiet, Active
  <2> QED BY <1>5, <1>6, <2>1, <2>2 DEF StopOK
<1>8. CASE Stop(t)
  <2>1. l = "free" /\ chan' = [chan EXCEPT ![<<0, 0>>] = "free"]
    BY <1>3, <1>5, <1>6, <1>8 DEF Stop, stop_channel
  <2>2. \A s \in Slots : ~Active(s)'
    BY <1>3, <1>6, <2>1 DEF Active, Quiet
  <2> QED BY <1>5, <1>6, <2>1, <2>2 DEF StopOK
<1>9. CASE Free(t)
  <2>1. /\ l \in {"again", "check_stop"} /\ chan' = chan /\ pc[0] = "free"
        /\ request_success' = [request_success EXCEPT ![<<0, 0>>] = FALSE]
    BY <1>3, <1>5, <1>6, <1>9 DEF Free, free_buffers, engineVars
  <2> QED BY <1>2, <1>5, <1>6, <2>1 DEF StopOK, Active
<1>10. CASE StopAgain(t)
  <2>1. l = "check_stop" /\ UNCHANGED <<chan, request_success>> /\ pc[0] = "again"
    BY <1>3, <1>5, <1>6, <1>10 DEF StopAgain, transferVars, engineVars
  <2> QED BY <1>2, <1>5, <1>6, <2>1 DEF StopOK, Active
<1>11. CASE CheckStop(t)
  <2>1. /\ l = "end" /\ UNCHANGED <<chan, request_success>> /\ pc[0] = "check_stop"
        /\ test # "stop_invalid" /\ test_passed' = 1 => ~finished[<<0, 0>>]
    BY <1>3, <1>5, <1>6, <1>11 DEF CheckStop, set_test_passed, transferVars, engineVars
  <2> QED BY <1>2, <1>3, <1>5, <1>6, <2>1 DEF StopOK, Active, Quiet
<1>12. CASE Poll(t) \/ Check(t) \/ Verdict(t) \/ CountLoad(t) \/ CountStore(t)
  BY <1>2, <1>5, <1>12, Types DEF Poll, Check, Verdict, CountLoad, CountStore, PlaceOK, StopTests
<1> QED BY <1>7, <1>8, <1>9, <1>10, <1>11, <1>12 DEF Thread

(* A polling test gives one verdict, for the reasons it should.            *)
LEMMA ThreadPoll ==
    ASSUME VerdictInv, NEW t \in Threads, Thread(t)
    PROVE  PollOK'
<1>1. SUFFICES ASSUME test' \in Polling PROVE PollOK'
  BY DEF PollOK
<1>2. /\ UNCHANGED <<test, slow, script, data_correct, result, cb, first, finished>>
      /\ N' = N /\ All' = All /\ script \notin Unloading /\ t \in Workers
      /\ test \in Polling
  BY <1>1, ThreadFlagFrame
<1>3. t = 0 /\ Workers = {0} /\ test \notin StopTests /\ test # "threads"
  BY <1>2 DEF Polling, Workers, StopTests
<1>4. PICK l \in PC : Moves(t, l)
  BY ThreadMoves, Types DEF VerdictInv
<1>5. /\ Inv /\ FlagsOK /\ PollOK /\ pc' = [pc EXCEPT ![0] = l] /\ pc[0] \notin {"off", "end"}
      /\ test_passed = -1
  BY <1>2, <1>3, <1>4 DEF VerdictInv, Moves, PollOK
<1>6. /\ idx[0] \in 0 .. N - 1 /\ <<0, idx[0]>> \in Slots /\ <<0, idx[0]>> \in All
      /\ Slot(t) = <<0, idx[0]>> /\ pc \in [Threads -> PC] /\ 0 \in Threads
      /\ N \in Nat /\ N >= 1
      /\ \A s \in All : \E i \in 0 .. N - 1 : s = <<0, i>>
      /\ All = Mine(0)
  BY <1>3, <1>5, Types DEF Slot, All, Mine
<1>7. ASSUME test_passed' = -1 \/ (l = "end" /\ test_passed' = 1 /\ Evidence')
             \/ (l = "end" /\ test_passed' = 0 /\ (slow \/ Reason')),
             l # "end" => test_passed' = -1
      PROVE  PollOK'
  BY <1>2, <1>5, <1>6, <1>7 DEF PollOK
<1> USE DEF At, Go, set_test_passed, verdictVars
<1>8. CASE Request(t)
  <2>1. \/ test_passed' = test_passed /\ l = "buffers"
        \/ /\ test_passed' = 0 /\ l = "end"
           /\ request_success' = [request_success EXCEPT ![<<0, idx[0]>>] = FALSE]
    BY <1>5, <1>6, <1>8 DEF Request, request_dma
  <2>2. l = "end" => Reason'
    BY <1>2, <1>5, <1>6, <2>1, Types DEF Reason
  <2> QED BY <1>5, <1>7, <2>1, <2>2
<1>9. CASE CreateBuffers(t)
  <2>1. PICK got \in SUBSET Buffers :
            /\ mem' = [mem EXCEPT ![<<0, idx[0]>>] = got]
            /\ \/ test_passed' = test_passed /\ l \in {"request", "start"}
               \/ test_passed' = 0 /\ l = "end" /\ got # Buffers
    BY <1>3, <1>5, <1>6, <1>9 DEF CreateBuffers, create_transfer_buffers, NextTransfer
  <2>2. l = "end" => Reason'
    BY <1>2, <1>5, <1>6, <2>1, Types DEF Reason
  <2> QED BY <1>5, <1>7, <2>1, <2>2
<1>10. CASE Start(t)
  <2>1. test_passed' = test_passed /\ l \in {"start", "poll", "stop"}
    BY <1>3, <1>5, <1>6, <1>10 DEF Start, NextTransfer
  <2> QED BY <1>5, <1>7, <2>1
<1>11. CASE Poll(t)
  <2>1. \/ test_passed' = test_passed /\ l \in {"poll", "check"}
        \/ /\ test_passed' = 0 /\ l = "end"
           /\ polls' = [polls EXCEPT ![0] = polls[0] + 1] /\ ~(polls[0] + 1 < POLL_COUNT)
    BY <1>3, <1>5, <1>6, <1>11 DEF Poll
  <2>2. polls[0] < POLL_COUNT /\ polls \in [Threads -> 0 .. POLL_COUNT] /\ POLL_COUNT \in Nat
    BY <1>3, <1>5, <1>6, <1>11, Types, TestAssumption DEF Poll, PollsOK, TypeOK
  <2>3. l = "end" => polls'[0] = POLL_COUNT
    BY <1>6, <2>1, <2>2
  <2>4. l = "end" => Reason'
    BY <2>3, TestAssumption DEF Reason
  <2> QED BY <1>5, <1>7, <2>1, <2>4
<1>12. CASE Check(t)
  <2>1. /\ l = "end" /\ test_passed' = IF check_test_passed THEN 1 ELSE 0
        /\ slow \/ \A s \in All : cb[s] = "none"
        /\ pc[0] = "check" /\ chan' = chan
    BY <1>3, <1>5, <1>6, <1>12 DEF Check, Waited, engineVars
  <2>2. \A s \in All : finished[s] /\ FlagOK(s) /\ EvidenceOK(s)
    BY <1>3, <1>5, <1>6, <2>1, Types DEF FlagsOK, PlaceFlag
  <2>3. first # NoSlot /\ first \in All
    BY <1>5, <1>6, <2>2 DEF FlagOK, FlagsOK
  <2>4. CASE check_test_passed
    <3>1. \A s \in All : ~Active(s) /\ result[s] = "good"
      BY <1>2, <1>3, <2>2, <2>4 DEF check_test_passed, FlagOK, EvidenceOK
    <3>2. Evidence'
      BY <1>2, <2>1, <2>3, <2>4, <3>1 DEF Evidence, Active, check_test_passed
    <3> QED BY <1>7, <2>1, <2>4, <3>2
  <2>5. CASE ~check_test_passed
    <3>1. ASSUME ~slow PROVE Reason'
      <4>1. CASE \E s \in All : ~data_correct[s]
        <5>1. PICK s \in All : ~data_correct[s]
          BY <4>1
        <5>2. result[s] \in Bad
          BY <1>2, <1>3, <2>1, <2>2, <3>1, <5>1 DEF EvidenceOK
        <5> QED BY <1>2, <5>2 DEF Reason
      <4>2. CASE test = "prio_high" /\ first # <<0, N - 1>>
        BY <1>2, <2>3, <4>2 DEF Reason
      <4>3. CASE test = "prio_low" /\ first = <<0, 0>>
        BY <1>2, <4>3 DEF Reason
      <4> QED BY <2>5, <4>1, <4>2, <4>3 DEF check_test_passed
    <3> QED BY <1>7, <2>1, <2>5, <3>1
  <2> QED BY <2>4, <2>5
<1>13. CASE Verdict(t) \/ CountLoad(t) \/ CountStore(t) \/ Stop(t) \/ Free(t) \/ StopAgain(t) \/ CheckStop(t)
  BY <1>3, <1>5, <1>13, Types DEF Verdict, CountLoad, CountStore, Stop, Free, StopAgain, CheckStop, PlaceOK
<1> QED BY <1>8, <1>9, <1>10, <1>11, <1>12, <1>13 DEF Thread

-----------------------------------------------------------------------------
(* Unloading frees buffers after the verdict only.                         *)
LEMMA ScenarioVerdict ==
    ASSUME VerdictInv, Scenario
    PROVE  FlagsOK' /\ StopOK' /\ PollOK'
<1>0. /\ UNCHANGED <<test, smp, slow, idx, polls, test_passed>> /\ (pc' = pc \/ Insmod)
      /\ N' = N /\ Workers' = Workers /\ All' = All
  BY ScenarioFrame, SetFrame DEF VerdictInv, Inv
<1>1. Inv /\ FlagsOK /\ StopOK /\ PollOK
  BY DEF VerdictInv
<1> USE DEF dmaVars, transferVars, engineVars
<1>2. UNCHANGED <<data_correct, result, cb, first, finished>>
  BY DEF Scenario, InsmodCommon, Insmod, InitDone, Rmmod, ExitRefused, ExitStop,
      ExitFree, dma_read_proc, RmmodCommon, stop_channel, free_buffers
<1>3. /\ \A s \in Slots : chan'[s] = chan[s] \/ chan'[s] = "free"
      /\ \A s \in Slots : request_success'[s] => request_success[s]
      /\ script \notin Unloading => UNCHANGED <<mem, request_success>>
  BY <1>1, Types DEF Scenario, InsmodCommon, Insmod, InitDone, Rmmod, ExitRefused, ExitStop,
      ExitFree, dma_read_proc, RmmodCommon, stop_channel, free_buffers, Unloading
<1>4. \A s \in Slots : Active(s)' => Active(s) /\ chan'[s] = chan[s]
  BY <1>3 DEF Active
<1>5. /\ script' \notin Unloading => script \notin Unloading
      /\ script' = "init" => Insmod
      /\ smp \/ (\A s \in Slots : cb[s] = "none")
              \/ (script \notin Unloading /\ script' \notin Unloading)
  BY DEF Scenario, InsmodCommon, Insmod, InitDone, Rmmod, ExitRefused, ExitStop,
      ExitFree, dma_read_proc, RmmodCommon, Advance, Unloading, Runs, InCallback
<1>6. Insmod => /\ \A u \in Workers : pc[u] = "off" /\ pc'[u] = "request"
                /\ pc[0] = "off" /\ pc'[0] = "request"
  BY <1>1, Types DEF Insmod, PlaceOK
<1>7. ASSUME NEW s \in Slots PROVE FlagOK(s)' /\ EvidenceOK(s)' /\ BufferOK(s)'
  <2>1. FlagOK(s) /\ EvidenceOK(s) /\ BufferOK(s)
    BY <1>1 DEF FlagsOK
  <2>2. FlagOK(s)'
    BY <1>0, <1>2, <1>3, <1>4, <2>1 DEF FlagOK, Quiet, Active
  <2>3. EvidenceOK(s)' /\ BufferOK(s)'
    BY <1>0, <1>2, <1>3, <1>5, <2>1 DEF EvidenceOK, BufferOK, Unloading, Unloaded
  <2> QED BY <2>2, <2>3
<1>8. ASSUME NEW u \in Workers, NEW i \in 0 .. N - 1 PROVE PlaceFlag(u, i)'
  <2>1. PlaceFlag(u, i) /\ <<u, i>> \in Slots
    BY <1>1, Types DEF FlagsOK
  <2> QED BY <1>0, <1>2, <1>4, <1>6, <2>1 DEF PlaceFlag, Quiet
<1>9. FlagsOK'
  BY <1>0, <1>1, <1>2, <1>7, <1>8 DEF FlagsOK
<1>10. StopOK'
  <2>1. <<0, 0>> \in Slots
    BY <1>1, Types DEF Threads
  <2> QED BY <1>0, <1>1, <1>2, <1>3, <1>4, <1>6, <2>1 DEF StopOK
<1>11. PollOK'
  <2>1. Evidence => Evidence'
    BY <1>0, <1>1, <1>2, <1>4, Types DEF Evidence
  <2> QED BY <1>0, <1>1, <1>5, <1>6, <2>1 DEF PollOK
<1> QED BY <1>9, <1>10, <1>11

(* The invariant holds when nothing is loaded.                             *)
LEMMA InitVerdict == Init => VerdictInv
<1> SUFFICES ASSUME Init PROVE VerdictInv
  OBVIOUS
<1>1. Inv
  BY InitCore, InitOwn DEF Inv
<1>2. \A s \in Slots : FlagOK(s) /\ EvidenceOK(s) /\ BufferOK(s)
  BY DEF Init, DmaInit, FlagOK, EvidenceOK, BufferOK, Quiet, Active
<1>3. \A t \in Workers : \A i \in 0 .. N - 1 : PlaceFlag(t, i)
  BY <1>1, Types DEF Init, DmaInit, PlaceFlag, Quiet, Active
<1>4. FlagsOK
  BY <1>2, <1>3 DEF FlagsOK, Init, DmaInit
<1>5. StopOK /\ PollOK
  BY DEF Init, DmaInit, StopOK, PollOK, Threads
<1> QED BY <1>1, <1>4, <1>5 DEF VerdictInv

(* Every step keeps it.                                                    *)
LEMMA StepVerdict == VerdictInv /\ [Next]_vars => VerdictInv'
<1> SUFFICES ASSUME VerdictInv, [Next]_vars PROVE VerdictInv'
  OBVIOUS
<1>1. Inv'
  BY StepInv DEF VerdictInv
<1>2. CASE UNCHANGED vars
  <2>1. /\ UNCHANGED <<test, smp, slow, idx, polls, pc, script, test_passed, request_success,
                       mem, chan, data_correct, result, cb, first, finished>>
    BY <1>2 DEF vars, setVars, threadVars, scriptVars, dmaVars, verdictVars, transferVars, engineVars
  <2>2. N' = N /\ Workers' = Workers /\ All' = All
    BY <2>1, SetFrame
  <2>3. FlagsOK'
    BY <2>1, <2>2 DEF VerdictInv, FlagsOK, FlagOK, EvidenceOK, BufferOK, PlaceFlag, Quiet, Active
  <2>4. StopOK' /\ PollOK'
    BY <2>1, <2>2 DEF VerdictInv, StopOK, PollOK, Evidence, Reason, Active
  <2> QED BY <1>1, <2>3, <2>4 DEF VerdictInv
<1>3. ASSUME NEW t \in Threads, Thread(t) PROVE VerdictInv'
  BY <1>1, <1>3, ThreadFlags, ThreadStop, ThreadPoll DEF VerdictInv
<1>4. ASSUME NEW s \in Slots, Interrupt(s) \/ Engine(s) PROVE VerdictInv'
  BY <1>1, <1>4, CompleteVerdict, EntryVerdict, VerifyVerdict DEF VerdictInv, Interrupt
<1>5. CASE Scenario
  BY <1>1, <1>5, ScenarioVerdict DEF VerdictInv
<1> QED BY <1>2, <1>3, <1>4, <1>5 DEF Next, Over

(* It holds in every state.                                                *)
THEOREM VerdictInvariance == Spec => []VerdictInv
  BY InitVerdict, StepVerdict, PTL DEF Spec

(* PASSED of a polling test means that every transfer of its array         *)
(* completed and arrived undamaged, and in the priority tests that the     *)
(* first callback was an expected one, for any number of transfers and any *)
(* order of callbacks.                                                     *)
THEOREM PassedCorrect == Spec => []PassedMeansVerified
<1>1. VerdictInv => PassedMeansVerified
  BY DEF VerdictInv, PollOK, Evidence, Polling, PassedMeansVerified
<1> QED BY <1>1, VerdictInvariance, PTL

(* FAILED of a polling test has one of its reasons; the check never        *)
(* overtakes a callback that fits into the delay.                          *)
THEOREM FailedCorrect == Spec => []FailedHasReason
<1>1. VerdictInv => FailedHasReason
  <2> SUFFICES ASSUME VerdictInv, test_passed = 0, test \notin {"threads"} \cup StopTests,
                      ~slow, script = "init"
               PROVE  FailedHasReason
    BY DEF FailedHasReason
  <2>1. test \in Polling
    BY Types, TestAssumption DEF VerdictInv, TypeOK, Polling, AllTests
  <2>2. Reason
    BY <2>1 DEF VerdictInv, PollOK
  <2> QED BY <2>2 DEF Reason, FailedHasReason, Bad
<1> QED BY <1>1, VerdictInvariance, PTL

(* A transfer that dma_stop_transfer.c or dma_stop_transfer_twice.c has    *)
(* stopped in time never calls back.                                       *)
THEOREM StopCorrect == Spec => []StopIsFinal
<1>1. VerdictInv => StopIsFinal
  BY DEF VerdictInv, StopOK, StopTests, StopIsFinal, Inv, OwnOK, SlotOwn
<1> QED BY <1>1, VerdictInvariance, PTL

(* On one processor no callback runs on freed buffers or after its module  *)
(* is gone.                                                                *)
THEOREM BuffersCorrect == Spec => []BuffersOutliveCallbacks
<1>1. VerdictInv => BuffersOutliveCallbacks
  BY DEF VerdictInv, FlagsOK, BufferOK, BuffersOutliveCallbacks, Unloaded
<1> QED BY <1>1, VerdictInvariance, PTL
=============================================================================
