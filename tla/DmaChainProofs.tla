-------------------------- MODULE DmaChainProofs --------------------------
(***************************************************************************)
(* The chained DMA tests, for any number of transfers, rounds and polls    *)
(* and any scenario.  Each group of invariants is kept by every step on    *)
(* its own or with the help of the groups before it:                       *)
(*    PlaceOK    where the scenario and the test are;                      *)
(*    JudgeOK    who has set the verdict;                                  *)
(*    EngineOK   what the engine holds belongs to the loaded test;         *)
(*    MemOK      which buffers are allocated;                              *)
(*    RoundOK    the flags of a static chain;                              *)
(*    FlightOK   a dynamic chain has one transfer in flight, the last one  *)
(*               that was linked;                                          *)
(*    ReleaseOK  what the exit function has released.                      *)
(***************************************************************************)
EXTENDS DmaChain, FiniteSetTheorems, TLAPS

InitPlaces == {"request", "link", "start", "poll", "check", "done"}
ExitPlaces == {"exit_stop", "exit_free", "kfree", "off"}
Removed    == script = "cat" \/ (script = "rmmod" /\ pc = "off")

PlaceOK ==
    /\ script = "init" => pc \in InitPlaces
    /\ script = "rmmod" => pc \in ExitPlaces
    /\ script \in {"insmod", "cat", "end"} => pc = "off"
    /\ pc \in {"request", "exit_stop", "exit_free"} => idx = 0
    /\ pc = "link" => idx < (IF static THEN TRANSFER_COUNT ELSE 1)
    /\ script # "insmod" => current <= TRANSFER_COUNT
    /\ pc \in {"request", "link", "start"} => polls = 0
    /\ pc = "poll" => polls < POLL_COUNT

JudgeOK ==
    /\ judge <= at
    /\ script = "insmod" \/ (script = "init" /\ pc # "done") => judge < at
    /\ (script = "init" /\ pc = "done") \/ script \in {"rmmod", "cat"} => judge = at
    /\ pc \in {"link", "start", "poll", "check"} => request_success
    /\ test_passed = 1 /\ judge = at => request_success

EngineOK ==
    /\ script # "insmod" =>
          /\ queue \in Seq(Mine) /\ pending \subseteq Mine
          /\ cb \in Mine \cup {NoCb} /\ bad \subseteq Mine
          /\ \A i \in pending : result[i] # "none"
          /\ cb # NoCb => result[cb] # "none"
          /\ \A i \in Transfers : data_correct[i] => result[i] # "none"
          /\ pc = "request" => queue = <<>> /\ pending = {} /\ cb = NoCb
    /\ script # "insmod" /\ ~smp /\ state = "none" => pending = {} /\ cb = NoCb

(* Buffers of a transfer that was not linked are those of the one that     *)
(* could not be linked.                                                    *)
Stray(i) == mem[i] # {} /\ ~linked[i]

MemOK ==
    script # "insmod" =>
        /\ \A i \in Transfers : mem[i] # {} \/ linked[i] => i < TRANSFER_COUNT
        /\ static => \A i, j \in Transfers : Stray(i) /\ Stray(j) => i = j
        /\ static /\ pc \in InitPlaces \ {"done"} => \A i \in Transfers : ~Stray(i)
        /\ static /\ test_passed = 1 /\ judge = at => \A i \in Transfers : ~Stray(i)
        /\ ~static => \A i \in Transfers :
              /\ i >= current => ~linked[i]
              /\ i > current => mem[i] = {}
              /\ Stray(i) => i = current

RoundOK ==
    script # "insmod" /\ static =>
        /\ \A i \in bad : ~data_correct[i] /\ rounds[i] = max_rounds
        /\ pc = "request" => bad = {}
        /\ cb # NoCb => ~data_correct[cb] /\ cb \notin bad

InFlight ==
    /\ current > 0
    /\ ~data_correct[current - 1]
    /\ script = "init" => mem[current - 1] = Buffers
    /\ \/ queue = <<current - 1>> /\ pending = {} /\ cb = NoCb
       \/ queue = <<>> /\ pending = {current - 1} /\ cb = NoCb
       \/ queue = <<>> /\ pending = {} /\ cb = current - 1 /\ current < TRANSFER_COUNT

Grounded == queue = <<>> /\ pending = {} /\ cb = NoCb

DynamicResult ==
    /\ \A i \in Mine : result[i] # "none"
    /\ \A i \in Mine \ {TRANSFER_COUNT - 1} : result[i] = "good"

FlightOK ==
    script # "insmod" /\ ~static =>
        /\ Grounded \/ InFlight
        /\ pc \in {"request", "link"} => Grounded /\ current = 0
        /\ \A i \in Transfers : data_correct[i] => i < current
        /\ script = "init" => \A i \in Transfers :
              data_correct[i] /\ i # TRANSFER_COUNT - 1 => result[i] = "good"
        /\ test_passed = 1 /\ judge = at => Grounded /\ current = TRANSFER_COUNT /\ DynamicResult

ReleaseOK ==
    ~smp =>
        /\ pc = "kfree" /\ state = "none" =>
              \A i \in Transfers : i < idx /\ linked[i] => mem[i] = {}
        /\ Removed /\ state = "none" => \A i \in Transfers : linked[i] => mem[i] = {}
        /\ (pc = "kfree" \/ Removed) /\ test_passed = 1 => state = "none"

Inv == /\ TypeOK /\ PlaceOK /\ JudgeOK /\ EngineOK /\ MemOK /\ RoundOK /\ FlightOK
       /\ ReleaseOK

-----------------------------------------------------------------------------
(* The loaded test and its transfers.                                      *)
LEMMA Counts ==
    ASSUME TypeOK
    PROVE  /\ TRANSFER_COUNT \in Nat /\ TRANSFER_COUNT >= 1 /\ TRANSFER_COUNT <= MaxCount
           /\ MaxCount \in Nat /\ MaxCount >= 1
           /\ Mine \subseteq Transfers /\ Transfers \subseteq Nat
           /\ ~static => TRANSFER_COUNT = DynamicCount
           /\ Len(scenario) \in Nat /\ at \in 1 .. Len(scenario) /\ judge \in Nat
           /\ idx \in Nat /\ current \in Nat
<1>1. scenario \in Seq({"static", "dynamic"})
  BY ChainAssumption DEF TypeOK
<1>2. Len(scenario) \in Nat /\ at \in 1 .. Len(scenario)
  BY <1>1 DEF TypeOK
<1> QED BY <1>2, ChainAssumption DEF TypeOK, TRANSFER_COUNT, MaxCount, Mine, Transfers

(* The loaded test is the same as long as its place in the scenario is.    *)
LEMMA SameTest ==
    ASSUME UNCHANGED <<scenario, at>>
    PROVE  static' = static /\ TRANSFER_COUNT' = TRANSFER_COUNT /\ Mine' = Mine
  BY DEF static, TRANSFER_COUNT, Mine

(* What linking a transfer changes.                                        *)
LEMMA Linked ==
    ASSUME TypeOK, NEW i \in Mine, NEW got \in SUBSET Buffers, NEW ok \in BOOLEAN,
           LinkTransfer(i, got, ok)
    PROVE  /\ mem' \in [Transfers -> SUBSET Buffers] /\ linked' \in [Transfers -> BOOLEAN]
           /\ \A j \in Transfers \ {i} : mem'[j] = mem[j] /\ linked'[j] = linked[j]
           /\ ok => mem'[i] = Buffers /\ linked'[i] /\ queue' = Append(queue, i)
           /\ ~ok => ~linked'[i] /\ queue' = queue
<1>1. i \in Transfers
  BY Counts
<1> QED BY <1>1 DEF LinkTransfer, TypeOK

(* The head and the tail of a queue.                                       *)
LEMMA Queues ==
    ASSUME NEW S, NEW q \in Seq(S)
    PROVE  /\ q # <<>> => /\ Head(q) \in S /\ Tail(q) \in Seq(S)
                          /\ Append(Tail(q), Head(q)) \in Seq(S)
           /\ \A x \in S : Append(q, x) \in Seq(S)
           /\ \A T : S \subseteq T => q \in Seq(T)
  OBVIOUS

(* A queue of one element.                                                 *)
LEMMA OneInQueue ==
    ASSUME NEW x
    PROVE  Head(<<x>>) = x /\ Tail(<<x>>) = <<>> /\ Append(<<>>, x) = <<x>> /\ <<x>> # <<>>
  OBVIOUS

(* The chain is requested.                                                 *)
LEMMA request_dma_chainKeeps ==
    ASSUME Inv, request_dma_chain
    PROVE  Inv'
<1>0. /\ UNCHANGED <<scenario, at, smp, script, shown, idx, polls, linked,
                    data_correct, rounds, current, transfer_end, mem, queue,
                    pending, result, cb, bad>>
      /\ static' = static /\ TRANSFER_COUNT' = TRANSFER_COUNT /\ Mine' = Mine
  BY SameTest DEF request_dma_chain, In, scriptVars, judgeVars, pcVars, testVars, engineVars,
     cbVars
<1>1. /\ TypeOK /\ PlaceOK /\ JudgeOK /\ EngineOK /\ MemOK /\ RoundOK
      /\ FlightOK /\ ReleaseOK
  BY DEF Inv
<1>2. /\ TRANSFER_COUNT \in Nat /\ TRANSFER_COUNT >= 1 /\ TRANSFER_COUNT <= MaxCount
      /\ MaxCount \in Nat /\ Mine \subseteq Transfers /\ Transfers \subseteq Nat
      /\ ~static => TRANSFER_COUNT = DynamicCount
      /\ Len(scenario) \in Nat /\ at \in 1 .. Len(scenario) /\ judge \in Nat
      /\ idx \in Nat /\ current \in Nat
  BY <1>1, Counts
<1>3. script = "init" /\ pc = "request" /\ pc' \in {"link", "done"}
  BY <1>1 DEF request_dma_chain, In, TypeOK, PlaceOK, InitPlaces, ExitPlaces
<1>11. TypeOK'
  <2>1. max_rounds' \in {1, TRANSFER_ROUNDS}
    BY <1>0, <1>1, <1>2, ChainAssumption
    DEF request_dma_chain, judgeVars, set_test_passed_chain, TypeOK
  <2>2. test_passed' \in {-1, 0, 1}
    BY <1>0, <1>1, <1>2, ChainAssumption
    DEF request_dma_chain, judgeVars, set_test_passed_chain, TypeOK
  <2>3. judge' \in 0 .. Len(scenario)
    BY <1>0, <1>1, <1>2, ChainAssumption
    DEF request_dma_chain, judgeVars, set_test_passed_chain, TypeOK
  <2>4. state' \in {"none", "requested", "running", "stopped"}
    BY <1>0, <1>1, <1>2, ChainAssumption
    DEF request_dma_chain, judgeVars, set_test_passed_chain, TypeOK
  <2>5. request_success' \in BOOLEAN
    BY <1>0, <1>1, <1>2, ChainAssumption
    DEF request_dma_chain, judgeVars, set_test_passed_chain, TypeOK
  <2> QED BY <1>0, <1>1, <1>3, <2>1, <2>2, <2>3, <2>4, <2>5 DEF TypeOK
<1>12. PlaceOK'
  BY <1>0, <1>1, <1>2, <1>3
  DEF request_dma_chain, In, judgeVars, set_test_passed_chain, PlaceOK, InitPlaces, ExitPlaces
<1>13. JudgeOK'
  BY <1>0, <1>1, <1>2, <1>3 DEF request_dma_chain, In, judgeVars, set_test_passed_chain, JudgeOK
<1>14. EngineOK'
  BY <1>0, <1>1, <1>2, <1>3
  DEF request_dma_chain, In, judgeVars, set_test_passed_chain, EngineOK
<1>15. MemOK'
  BY <1>0, <1>1, <1>2, <1>3
  DEF request_dma_chain, In, judgeVars, set_test_passed_chain, MemOK, Stray, InitPlaces
<1>16. RoundOK'
  BY <1>0, <1>1, <1>2, <1>3 DEF request_dma_chain, In, judgeVars, set_test_passed_chain, RoundOK
<1>17. FlightOK'
  <2>1. (Grounded \/ InFlight) => (Grounded' \/ InFlight')
    BY <1>0 DEF Grounded, InFlight
  <2>2. Grounded => Grounded'
    BY <1>0 DEF Grounded
  <2>3. DynamicResult' = DynamicResult
    BY <1>0 DEF DynamicResult
  <2> QED BY <1>0, <1>1, <1>2, <1>3, <2>1, <2>2, <2>3
          DEF request_dma_chain, judgeVars, set_test_passed_chain, JudgeOK, FlightOK
<1>18. ReleaseOK'
  BY <1>0, <1>3 DEF ReleaseOK, Removed
<1> QED BY <1>11, <1>12, <1>13, <1>14, <1>15, <1>16, <1>17, <1>18 DEF Inv

(* A transfer is linked before the start.                                  *)
LEMMA LinkKeeps ==
    ASSUME Inv, Link
    PROVE  Inv'
<1>0. /\ UNCHANGED <<scenario, at, smp, script, shown, max_rounds, polls,
                    request_success, data_correct, rounds, transfer_end, state,
                    pending, result, cb, bad>>
      /\ static' = static /\ TRANSFER_COUNT' = TRANSFER_COUNT /\ Mine' = Mine
  BY SameTest DEF Link, In, scriptVars, judgeVars, pcVars, testVars, engineVars,
     cbVars
<1>1. /\ TypeOK /\ PlaceOK /\ JudgeOK /\ EngineOK /\ MemOK /\ RoundOK
      /\ FlightOK /\ ReleaseOK
  BY DEF Inv
<1>2. /\ TRANSFER_COUNT \in Nat /\ TRANSFER_COUNT >= 1 /\ TRANSFER_COUNT <= MaxCount
      /\ MaxCount \in Nat /\ Mine \subseteq Transfers /\ Transfers \subseteq Nat
      /\ ~static => TRANSFER_COUNT = DynamicCount
      /\ Len(scenario) \in Nat /\ at \in 1 .. Len(scenario) /\ judge \in Nat
      /\ idx \in Nat /\ current \in Nat
  BY <1>1, Counts
<1>3. script = "init" /\ pc = "link" /\ pc' \in {"link", "start", "done"}
  BY <1>1 DEF Link, In, TypeOK, PlaceOK, InitPlaces, ExitPlaces
<1>4. /\ idx \in Mine /\ Mine \subseteq Transfers
      /\ DynamicCount \in Nat \ {0} /\ 1 <= DynamicCount
  BY <1>1, <1>2, <1>3, ChainAssumption DEF PlaceOK, Mine
<1>5. PICK got \in SUBSET Buffers, ok \in BOOLEAN :
         /\ LinkTransfer(idx, got, ok)
         /\ IF ~ok
            THEN pc' = "done" /\ set_test_passed_chain(0) /\ UNCHANGED <<idx, current>>
            ELSE /\ UNCHANGED judgeVars
                 /\ IF static /\ idx + 1 < TRANSFER_COUNT
                    THEN idx' = idx + 1 /\ UNCHANGED <<pc, current>>
                    ELSE /\ pc' = "start"
                         /\ idx' = 0
                         /\ current' = IF static THEN 0 ELSE 1
  BY DEF Link
<1>6. /\ mem' \in [Transfers -> SUBSET Buffers] /\ linked' \in [Transfers -> BOOLEAN]
      /\ \A j \in Transfers \ {idx} : mem'[j] = mem[j] /\ linked'[j] = linked[j]
      /\ ok => mem'[idx] = Buffers /\ linked'[idx] /\ queue' = Append(queue, idx)
      /\ ~ok => ~linked'[idx] /\ queue' = queue
  BY <1>1, <1>4, <1>5, Linked
<1>7. ~(test_passed' = 1 /\ judge' = at)
  BY <1>1, <1>2, <1>3, <1>5 DEF JudgeOK, judgeVars, set_test_passed_chain
<1>8. ~static => /\ idx = 0 /\ current = 0 /\ current' = (IF ok THEN 1 ELSE 0)
                 /\ pc' \in {"start", "done"} /\ Grounded
  BY <1>1, <1>2, <1>3, <1>5 DEF PlaceOK, FlightOK
<1>9. queue' \in Seq(Mine)
  BY <1>1, <1>3, <1>4, <1>6, Queues DEF EngineOK
<1>11. TypeOK'
  <2>1. mem' \in [Transfers -> SUBSET Buffers]
    BY <1>6
  <2>2. linked' \in [Transfers -> BOOLEAN]
    BY <1>6
  <2>3. queue' \in Seq(Transfers)
    BY <1>2, <1>9, Queues
  <2>4. test_passed' \in {-1, 0, 1}
    BY <1>1, <1>2, <1>5 DEF judgeVars, set_test_passed_chain, TypeOK
  <2>5. judge' \in 0 .. Len(scenario)
    BY <1>1, <1>2, <1>5 DEF judgeVars, set_test_passed_chain, TypeOK
  <2>6. idx' \in 0 .. MaxCount
    BY <1>1, <1>2, <1>4, <1>5 DEF TypeOK
  <2>7. current' \in 0 .. DynamicCount
    BY <1>1, <1>4, <1>5 DEF TypeOK
  <2> QED BY <1>0, <1>1, <1>3, <2>1, <2>2, <2>3, <2>4, <2>5, <2>6, <2>7 DEF TypeOK
<1>12. PlaceOK'
  BY <1>0, <1>1, <1>2, <1>3
  DEF Link, In, judgeVars, set_test_passed_chain, PlaceOK, InitPlaces, ExitPlaces, LinkTransfer
<1>13. JudgeOK'
  BY <1>0, <1>1, <1>2, <1>3
  DEF Link, In, judgeVars, set_test_passed_chain, JudgeOK, LinkTransfer
<1>14. EngineOK'
  BY <1>0, <1>1, <1>3, <1>9 DEF EngineOK
<1>15. MemOK'
  <2>1. CASE static
    <3>1. \A i \in Transfers : ~Stray(i)
      BY <1>1, <1>3, <2>1 DEF MemOK, InitPlaces
    <3>2. \A i \in Transfers : Stray(i)' => i = idx /\ ~ok
      BY <1>6, <3>1 DEF Stray
    <3>3. ~ok => pc' = "done"
      BY <1>5
    <3>4. \A i \in Transfers : mem'[i] # {} \/ linked'[i] => i < TRANSFER_COUNT
      BY <1>1, <1>2, <1>3, <1>4, <1>6 DEF MemOK, Mine
    <3> QED BY <1>0, <1>3, <1>7, <2>1, <3>2, <3>3, <3>4 DEF MemOK, InitPlaces
  <2>2. CASE ~static
    <3>1. \A i \in Transfers : ~linked[i] /\ (i > 0 => mem[i] = {})
      BY <1>1, <1>2, <1>3, <1>8, <2>2 DEF MemOK
    <3>2. \A i \in Transfers : /\ i >= current' => ~linked'[i]
                               /\ i > current' => mem'[i] = {}
                               /\ Stray(i)' => i = current'
      BY <1>2, <1>6, <1>8, <2>2, <3>1 DEF Stray
    <3>3. \A i \in Transfers : mem'[i] # {} \/ linked'[i] => i < TRANSFER_COUNT
      <4>1. ASSUME NEW i \in Transfers, i # 0
            PROVE  mem'[i] = {} /\ ~linked'[i]
        <5>1. i > 0 /\ mem'[i] = mem[i] /\ linked'[i] = linked[i]
          BY <1>2, <1>6, <1>8, <2>2, <4>1
        <5> QED BY <3>1, <5>1
      <4> QED BY <1>2, <4>1
    <3> QED BY <1>0, <2>2, <3>2, <3>3 DEF MemOK
  <2> QED BY <2>1, <2>2
<1>16. RoundOK'
  BY <1>0, <1>1, <1>2, <1>3
  DEF Link, In, judgeVars, set_test_passed_chain, RoundOK, LinkTransfer
<1>17. FlightOK'
  <2>1. CASE static
    BY <1>0, <2>1 DEF FlightOK
  <2>2. CASE ~static
    <3>1. /\ \A i \in Transfers : ~data_correct[i]
          /\ queue = <<>> /\ pending = {} /\ cb = NoCb
      BY <1>1, <1>2, <1>3, <1>8, <2>2 DEF FlightOK, Grounded
    <3>2. CASE ok
      <4>1. queue' = <<0>> /\ mem'[0] = Buffers /\ current' = 1 /\ 0 \in Transfers
        BY <1>4, <1>6, <1>8, <2>2, <3>1, <3>2, OneInQueue
      <4>2. InFlight'
        BY <1>0, <3>1, <4>1 DEF InFlight
      <4> QED BY <1>0, <1>7, <1>8, <2>2, <3>1, <4>2 DEF FlightOK
    <3>3. CASE ~ok
      BY <1>0, <1>6, <1>7, <1>8, <2>2, <3>1, <3>3 DEF FlightOK, Grounded
    <3> QED BY <3>2, <3>3
  <2> QED BY <2>1, <2>2
<1>18. ReleaseOK'
  BY <1>0, <1>3 DEF ReleaseOK, Removed
<1> QED BY <1>11, <1>12, <1>13, <1>14, <1>15, <1>16, <1>17, <1>18 DEF Inv

(* The chain is started.                                                   *)
LEMMA start_dma_chainKeeps ==
    ASSUME Inv, start_dma_chain
    PROVE  Inv'
<1>0. /\ UNCHANGED <<scenario, at, smp, script, shown, test_passed, judge,
                    max_rounds, idx, polls, request_success, linked, data_correct,
                    rounds, current, transfer_end, mem, queue, pending, result, cb,
                    bad>>
      /\ static' = static /\ TRANSFER_COUNT' = TRANSFER_COUNT /\ Mine' = Mine
  BY SameTest DEF start_dma_chain, In, scriptVars, judgeVars, pcVars, testVars, engineVars,
     cbVars
<1>1. /\ TypeOK /\ PlaceOK /\ JudgeOK /\ EngineOK /\ MemOK /\ RoundOK
      /\ FlightOK /\ ReleaseOK
  BY DEF Inv
<1>2. /\ TRANSFER_COUNT \in Nat /\ TRANSFER_COUNT >= 1 /\ TRANSFER_COUNT <= MaxCount
      /\ MaxCount \in Nat /\ Mine \subseteq Transfers /\ Transfers \subseteq Nat
      /\ ~static => TRANSFER_COUNT = DynamicCount
      /\ Len(scenario) \in Nat /\ at \in 1 .. Len(scenario) /\ judge \in Nat
      /\ idx \in Nat /\ current \in Nat
  BY <1>1, Counts
<1>3. script = "init" /\ pc = "start" /\ pc' \in {"poll"}
  BY <1>1 DEF start_dma_chain, In, TypeOK, PlaceOK, InitPlaces, ExitPlaces
<1>11. TypeOK'
  BY <1>0, <1>1, <1>2, <1>3, ChainAssumption DEF start_dma_chain, In, TypeOK
<1>12. PlaceOK'
  BY <1>0, <1>1, <1>3, ChainAssumption DEF PlaceOK, InitPlaces, ExitPlaces
<1>13. JudgeOK'
  BY <1>0, <1>1, <1>2, <1>3 DEF start_dma_chain, In, JudgeOK
<1>14. EngineOK'
  BY <1>0, <1>1, <1>2, <1>3 DEF start_dma_chain, In, EngineOK
<1>15. MemOK'
  BY <1>0, <1>1, <1>2, <1>3 DEF start_dma_chain, In, MemOK, Stray, InitPlaces
<1>16. RoundOK'
  BY <1>0, <1>1, <1>2, <1>3 DEF start_dma_chain, In, RoundOK
<1>17. FlightOK'
  BY <1>0, <1>1, <1>2, <1>3 DEF start_dma_chain, In, FlightOK, Grounded, InFlight, DynamicResult
<1>18. ReleaseOK'
  BY <1>0, <1>3 DEF ReleaseOK, Removed
<1> QED BY <1>11, <1>12, <1>13, <1>14, <1>15, <1>16, <1>17, <1>18 DEF Inv

(* A turn of the polling loop.                                             *)
LEMMA PollKeeps ==
    ASSUME Inv, Poll
    PROVE  Inv'
<1>0. /\ UNCHANGED <<scenario, at, smp, script, shown, max_rounds, idx,
                    request_success, linked, data_correct, rounds, current,
                    transfer_end, mem, state, queue, pending, result, cb, bad>>
      /\ static' = static /\ TRANSFER_COUNT' = TRANSFER_COUNT /\ Mine' = Mine
  BY SameTest DEF Poll, In, scriptVars, judgeVars, pcVars, testVars, engineVars,
     cbVars
<1>1. /\ TypeOK /\ PlaceOK /\ JudgeOK /\ EngineOK /\ MemOK /\ RoundOK
      /\ FlightOK /\ ReleaseOK
  BY DEF Inv
<1>2. /\ TRANSFER_COUNT \in Nat /\ TRANSFER_COUNT >= 1 /\ TRANSFER_COUNT <= MaxCount
      /\ MaxCount \in Nat /\ Mine \subseteq Transfers /\ Transfers \subseteq Nat
      /\ ~static => TRANSFER_COUNT = DynamicCount
      /\ Len(scenario) \in Nat /\ at \in 1 .. Len(scenario) /\ judge \in Nat
      /\ idx \in Nat /\ current \in Nat
  BY <1>1, Counts
<1>3. script = "init" /\ pc = "poll" /\ pc' \in {"poll", "check", "done"}
  BY <1>1 DEF Poll, In, TypeOK, PlaceOK, InitPlaces, ExitPlaces
<1>11. TypeOK'
  <2>1. polls' \in 0 .. POLL_COUNT
    <3>1. polls \in Nat /\ polls < POLL_COUNT /\ POLL_COUNT \in Nat
      BY <1>1, <1>3, ChainAssumption DEF TypeOK, PlaceOK
    <3> QED BY <3>1 DEF Poll
  <2>2. test_passed' \in {-1, 0, 1}
    BY <1>0, <1>1, <1>2, <1>3, ChainAssumption
    DEF Poll, judgeVars, set_test_passed_chain, PlaceOK, TypeOK
  <2>3. judge' \in 0 .. Len(scenario)
    BY <1>0, <1>1, <1>2, <1>3, ChainAssumption
    DEF Poll, judgeVars, set_test_passed_chain, PlaceOK, TypeOK
  <2> QED BY <1>0, <1>1, <1>3, <2>1, <2>2, <2>3 DEF TypeOK
<1>12. PlaceOK'
  BY <1>0, <1>1, <1>2, <1>3
  DEF Poll, In, judgeVars, set_test_passed_chain, PlaceOK, InitPlaces, ExitPlaces
<1>13. JudgeOK'
  BY <1>0, <1>1, <1>2, <1>3 DEF Poll, In, judgeVars, set_test_passed_chain, JudgeOK
<1>14. EngineOK'
  BY <1>0, <1>1, <1>2, <1>3 DEF Poll, In, judgeVars, set_test_passed_chain, EngineOK
<1>15. MemOK'
  BY <1>0, <1>1, <1>2, <1>3
  DEF Poll, In, judgeVars, set_test_passed_chain, MemOK, Stray, InitPlaces
<1>16. RoundOK'
  BY <1>0, <1>1, <1>2, <1>3 DEF Poll, In, judgeVars, set_test_passed_chain, RoundOK
<1>17. FlightOK'
  <2>1. (Grounded \/ InFlight) => (Grounded' \/ InFlight')
    BY <1>0 DEF Grounded, InFlight
  <2>2. Grounded => Grounded'
    BY <1>0 DEF Grounded
  <2>3. DynamicResult' = DynamicResult
    BY <1>0 DEF DynamicResult
  <2> QED BY <1>0, <1>1, <1>2, <1>3, <2>1, <2>2, <2>3
          DEF Poll, judgeVars, set_test_passed_chain, JudgeOK, FlightOK
<1>18. ReleaseOK'
  BY <1>0, <1>3 DEF ReleaseOK, Removed
<1> QED BY <1>11, <1>12, <1>13, <1>14, <1>15, <1>16, <1>17, <1>18 DEF Inv

(* The check of the flags.                                                 *)
LEMMA CheckKeeps ==
    ASSUME Inv, Check
    PROVE  Inv'
<1>0. /\ UNCHANGED <<scenario, at, smp, script, shown, max_rounds, idx, polls,
                    request_success, linked, data_correct, rounds, current,
                    transfer_end, mem, state, queue, pending, result, cb, bad>>
      /\ static' = static /\ TRANSFER_COUNT' = TRANSFER_COUNT /\ Mine' = Mine
  BY SameTest DEF Check, In, scriptVars, judgeVars, pcVars, testVars, engineVars,
     cbVars
<1>1. /\ TypeOK /\ PlaceOK /\ JudgeOK /\ EngineOK /\ MemOK /\ RoundOK
      /\ FlightOK /\ ReleaseOK
  BY DEF Inv
<1>2. /\ TRANSFER_COUNT \in Nat /\ TRANSFER_COUNT >= 1 /\ TRANSFER_COUNT <= MaxCount
      /\ MaxCount \in Nat /\ Mine \subseteq Transfers /\ Transfers \subseteq Nat
      /\ ~static => TRANSFER_COUNT = DynamicCount
      /\ Len(scenario) \in Nat /\ at \in 1 .. Len(scenario) /\ judge \in Nat
      /\ idx \in Nat /\ current \in Nat
  BY <1>1, Counts
<1>3. script = "init" /\ pc = "check" /\ pc' \in {"done"}
  BY <1>1 DEF Check, In, TypeOK, PlaceOK, InitPlaces, ExitPlaces
<1>11. TypeOK'
  BY <1>0, <1>1, <1>2, <1>3, ChainAssumption
  DEF Check, In, judgeVars, set_test_passed_chain, TypeOK
<1>12. PlaceOK'
  BY <1>0, <1>1, <1>2, <1>3
  DEF Check, In, judgeVars, set_test_passed_chain, PlaceOK, InitPlaces, ExitPlaces
<1>13. JudgeOK'
  BY <1>0, <1>1, <1>2, <1>3 DEF Check, In, judgeVars, set_test_passed_chain, JudgeOK
<1>14. EngineOK'
  BY <1>0, <1>1, <1>2, <1>3 DEF Check, In, judgeVars, set_test_passed_chain, EngineOK
<1>15. MemOK'
  BY <1>0, <1>1, <1>2, <1>3
  DEF Check, In, judgeVars, set_test_passed_chain, MemOK, Stray, InitPlaces
<1>16. RoundOK'
  BY <1>0, <1>1, <1>2, <1>3 DEF Check, In, judgeVars, set_test_passed_chain, RoundOK
<1>17. FlightOK'
  <2>1. CASE static
    BY <2>1, <1>0 DEF FlightOK
  <2>2. CASE ~static
    <3>1. /\ Grounded \/ InFlight
          /\ \A i \in Transfers : data_correct[i] => i < current
          /\ \A i \in Transfers : data_correct[i] /\ i # TRANSFER_COUNT - 1 => result[i] = "good"
          /\ \A i \in Transfers : data_correct[i] => result[i] # "none"
          /\ current <= TRANSFER_COUNT
      BY <1>1, <1>3, <2>2 DEF FlightOK, EngineOK, PlaceOK
    <3>2. ASSUME check_test_passed
          PROVE  Grounded /\ current = TRANSFER_COUNT /\ DynamicResult
      <4>1. \A i \in Mine : data_correct[i]
        BY <3>2 DEF check_test_passed
      <4>2. TRANSFER_COUNT - 1 \in Mine
        BY <1>2 DEF Mine
      <4>3. current = TRANSFER_COUNT
        BY <1>2, <3>1, <4>1, <4>2
      <4>4. Grounded
        BY <3>1, <4>1, <4>2, <4>3 DEF InFlight
      <4>5. DynamicResult
        BY <1>2, <3>1, <4>1 DEF DynamicResult
      <4> QED BY <4>3, <4>4, <4>5
    <3>3. Grounded' = Grounded /\ DynamicResult' = DynamicResult
      BY <1>0 DEF Grounded, DynamicResult
    <3>4. InFlight => InFlight'
      BY <1>0 DEF InFlight
    <3>5. test_passed' = 1 => check_test_passed
      BY DEF Check, set_test_passed_chain
    <3> QED BY <1>0, <1>3, <3>1, <3>2, <3>3, <3>4, <3>5, <2>2 DEF FlightOK
  <2> QED BY <2>1, <2>2
<1>18. ReleaseOK'
  BY <1>0, <1>3 DEF ReleaseOK, Removed
<1> QED BY <1>11, <1>12, <1>13, <1>14, <1>15, <1>16, <1>17, <1>18 DEF Inv

(* The exit function of a test without a chain.                            *)
LEMMA ExitSkipKeeps ==
    ASSUME Inv, ExitSkip
    PROVE  Inv'
<1>0. /\ UNCHANGED <<scenario, at, smp, script, shown, test_passed, judge,
                    max_rounds, idx, polls, request_success, linked, data_correct,
                    rounds, current, transfer_end, mem, state, queue, pending,
                    result, cb, bad>>
      /\ static' = static /\ TRANSFER_COUNT' = TRANSFER_COUNT /\ Mine' = Mine
  BY SameTest DEF ExitSkip, In, scriptVars, judgeVars, pcVars, testVars, engineVars,
     cbVars
<1>1. /\ TypeOK /\ PlaceOK /\ JudgeOK /\ EngineOK /\ MemOK /\ RoundOK
      /\ FlightOK /\ ReleaseOK
  BY DEF Inv
<1>2. /\ TRANSFER_COUNT \in Nat /\ TRANSFER_COUNT >= 1 /\ TRANSFER_COUNT <= MaxCount
      /\ MaxCount \in Nat /\ Mine \subseteq Transfers /\ Transfers \subseteq Nat
      /\ ~static => TRANSFER_COUNT = DynamicCount
      /\ Len(scenario) \in Nat /\ at \in 1 .. Len(scenario) /\ judge \in Nat
      /\ idx \in Nat /\ current \in Nat
  BY <1>1, Counts
<1>3. script = "rmmod" /\ pc = "exit_stop" /\ pc' \in {"kfree"}
  BY <1>1 DEF ExitSkip, In, TypeOK, PlaceOK, InitPlaces, ExitPlaces
<1>11. TypeOK'
  BY <1>0, <1>1, <1>2, <1>3, ChainAssumption DEF ExitSkip, In, TypeOK
<1>12. PlaceOK'
  BY <1>0, <1>1, <1>2, <1>3 DEF ExitSkip, In, PlaceOK, InitPlaces, ExitPlaces
<1>13. JudgeOK'
  BY <1>0, <1>1, <1>2, <1>3 DEF ExitSkip, In, JudgeOK
<1>14. EngineOK'
  BY <1>0, <1>1, <1>2, <1>3 DEF ExitSkip, In, EngineOK
<1>15. MemOK'
  BY <1>0, <1>1, <1>2, <1>3 DEF ExitSkip, In, MemOK, Stray, InitPlaces
<1>16. RoundOK'
  BY <1>0, <1>1, <1>2, <1>3 DEF ExitSkip, In, RoundOK
<1>17. FlightOK'
  BY <1>0, <1>1, <1>2, <1>3 DEF ExitSkip, In, FlightOK, Grounded, InFlight, DynamicResult
<1>18. ReleaseOK'
  BY <1>0, <1>1, <1>2, <1>3 DEF ExitSkip, PlaceOK, JudgeOK, ReleaseOK, Removed
<1> QED BY <1>11, <1>12, <1>13, <1>14, <1>15, <1>16, <1>17, <1>18 DEF Inv

(* The exit function stops the chain.                                      *)
LEMMA ExitStopKeeps ==
    ASSUME Inv, ExitStop
    PROVE  Inv'
<1>0. /\ UNCHANGED <<scenario, at, smp, script, shown, max_rounds, idx, polls,
                    request_success, linked, data_correct, rounds, current,
                    transfer_end, mem, queue, pending, result, cb, bad>>
      /\ static' = static /\ TRANSFER_COUNT' = TRANSFER_COUNT /\ Mine' = Mine
  BY SameTest DEF ExitStop, In, scriptVars, judgeVars, pcVars, testVars, engineVars,
     cbVars
<1>1. /\ TypeOK /\ PlaceOK /\ JudgeOK /\ EngineOK /\ MemOK /\ RoundOK
      /\ FlightOK /\ ReleaseOK
  BY DEF Inv
<1>2. /\ TRANSFER_COUNT \in Nat /\ TRANSFER_COUNT >= 1 /\ TRANSFER_COUNT <= MaxCount
      /\ MaxCount \in Nat /\ Mine \subseteq Transfers /\ Transfers \subseteq Nat
      /\ ~static => TRANSFER_COUNT = DynamicCount
      /\ Len(scenario) \in Nat /\ at \in 1 .. Len(scenario) /\ judge \in Nat
      /\ idx \in Nat /\ current \in Nat
  BY <1>1, Counts
<1>3. script = "rmmod" /\ pc = "exit_stop" /\ pc' \in {"exit_free"}
  BY <1>1 DEF ExitStop, In, TypeOK, PlaceOK, InitPlaces, ExitPlaces
<1>11. TypeOK'
  <2>1. state' \in {"none", "requested", "running", "stopped"}
    BY <1>0, <1>1, <1>2, ChainAssumption
    DEF ExitStop, judgeVars, set_test_passed_chain, ExitVerdict, TypeOK
  <2>2. test_passed' \in {-1, 0, 1}
    BY <1>0, <1>1, <1>2, ChainAssumption
    DEF ExitStop, judgeVars, set_test_passed_chain, ExitVerdict, TypeOK
  <2>3. judge' \in 0 .. Len(scenario)
    BY <1>0, <1>1, <1>2, ChainAssumption
    DEF ExitStop, judgeVars, set_test_passed_chain, ExitVerdict, TypeOK
  <2> QED BY <1>0, <1>1, <1>3, <2>1, <2>2, <2>3 DEF TypeOK
<1>12. PlaceOK'
  BY <1>0, <1>1, <1>2, <1>3
  DEF ExitStop, In, judgeVars, set_test_passed_chain, PlaceOK, InitPlaces, ExitPlaces, ExitVerdict
<1>13. JudgeOK'
  BY <1>0, <1>1, <1>2, <1>3
  DEF ExitStop, In, judgeVars, set_test_passed_chain, JudgeOK, ExitVerdict
<1>14. EngineOK'
  BY <1>0, <1>1, <1>2, <1>3
  DEF ExitStop, In, judgeVars, set_test_passed_chain, EngineOK, ExitVerdict
<1>15. MemOK'
  BY <1>0, <1>1, <1>2, <1>3
  DEF ExitStop, ExitVerdict, judgeVars, set_test_passed_chain, MemOK, Stray, InitPlaces
<1>16. RoundOK'
  BY <1>0, <1>1, <1>2, <1>3
  DEF ExitStop, In, judgeVars, set_test_passed_chain, RoundOK, ExitVerdict
<1>17. FlightOK'
  <2>1. (Grounded \/ InFlight) => (Grounded' \/ InFlight')
    BY <1>0 DEF Grounded, InFlight
  <2>2. Grounded => Grounded'
    BY <1>0 DEF Grounded
  <2>3. DynamicResult' = DynamicResult
    BY <1>0 DEF DynamicResult
  <2> QED BY <1>0, <1>1, <1>2, <1>3, <2>1, <2>2, <2>3
          DEF ExitStop, ExitVerdict, judgeVars, set_test_passed_chain, JudgeOK, FlightOK
<1>18. ReleaseOK'
  BY <1>0, <1>1, <1>2, <1>3
  DEF ExitStop, In, judgeVars, set_test_passed_chain, ReleaseOK, Removed, ExitVerdict
<1> QED BY <1>11, <1>12, <1>13, <1>14, <1>15, <1>16, <1>17, <1>18 DEF Inv

(* The exit function frees the chain.                                      *)
LEMMA ExitFreeKeeps ==
    ASSUME Inv, ExitFree
    PROVE  Inv'
<1>0. /\ UNCHANGED <<scenario, at, smp, script, shown, max_rounds, idx, polls,
                    request_success, linked, data_correct, rounds, current,
                    transfer_end, mem, result, cb, bad>>
      /\ static' = static /\ TRANSFER_COUNT' = TRANSFER_COUNT /\ Mine' = Mine
  BY SameTest DEF ExitFree, In, scriptVars, judgeVars, pcVars, testVars, engineVars,
     cbVars
<1>1. /\ TypeOK /\ PlaceOK /\ JudgeOK /\ EngineOK /\ MemOK /\ RoundOK
      /\ FlightOK /\ ReleaseOK
  BY DEF Inv
<1>2. /\ TRANSFER_COUNT \in Nat /\ TRANSFER_COUNT >= 1 /\ TRANSFER_COUNT <= MaxCount
      /\ MaxCount \in Nat /\ Mine \subseteq Transfers /\ Transfers \subseteq Nat
      /\ ~static => TRANSFER_COUNT = DynamicCount
      /\ Len(scenario) \in Nat /\ at \in 1 .. Len(scenario) /\ judge \in Nat
      /\ idx \in Nat /\ current \in Nat
  BY <1>1, Counts
<1>3. script = "rmmod" /\ pc = "exit_free" /\ pc' \in {"kfree"}
  BY <1>1 DEF ExitFree, In, TypeOK, PlaceOK, InitPlaces, ExitPlaces
<1>11. TypeOK'
  <2>1. state' \in {"none", "requested", "running", "stopped"}
    BY <1>0, <1>1, <1>2, ChainAssumption
    DEF ExitFree, judgeVars, set_test_passed_chain, ExitVerdict, TypeOK
  <2>2. pending' \subseteq Transfers
    BY <1>0, <1>1, <1>2, ChainAssumption
    DEF ExitFree, judgeVars, set_test_passed_chain, ExitVerdict, TypeOK
  <2>3. queue' \in Seq(Transfers)
    BY <1>0, <1>1, <1>2, ChainAssumption
    DEF ExitFree, judgeVars, set_test_passed_chain, ExitVerdict, TypeOK
  <2>4. test_passed' \in {-1, 0, 1}
    BY <1>0, <1>1, <1>2, ChainAssumption
    DEF ExitFree, judgeVars, set_test_passed_chain, ExitVerdict, TypeOK
  <2>5. judge' \in 0 .. Len(scenario)
    BY <1>0, <1>1, <1>2, ChainAssumption
    DEF ExitFree, judgeVars, set_test_passed_chain, ExitVerdict, TypeOK
  <2> QED BY <1>0, <1>1, <1>3, <2>1, <2>2, <2>3, <2>4, <2>5 DEF TypeOK
<1>12. PlaceOK'
  BY <1>0, <1>1, <1>2, <1>3
  DEF ExitFree, In, judgeVars, set_test_passed_chain, PlaceOK, InitPlaces, ExitPlaces, ExitVerdict
<1>13. JudgeOK'
  BY <1>0, <1>1, <1>2, <1>3
  DEF ExitFree, In, judgeVars, set_test_passed_chain, JudgeOK, ExitVerdict
<1>14. EngineOK'
  BY <1>0, <1>1, <1>3 DEF ExitFree, In, Runs, EngineOK
<1>15. MemOK'
  BY <1>0, <1>1, <1>2, <1>3
  DEF ExitFree, ExitVerdict, judgeVars, set_test_passed_chain, MemOK, Stray, InitPlaces
<1>16. RoundOK'
  BY <1>0, <1>1, <1>2, <1>3
  DEF ExitFree, In, judgeVars, set_test_passed_chain, RoundOK, ExitVerdict
<1>17. FlightOK'
  BY <1>0, <1>1, <1>2, <1>3
  DEF ExitFree, In, judgeVars, set_test_passed_chain, FlightOK, Grounded, InFlight, DynamicResult, ExitVerdict
<1>18. ReleaseOK'
  BY <1>0, <1>1, <1>2, <1>3
  DEF ExitFree, ExitVerdict, set_test_passed_chain, PlaceOK, ReleaseOK, Removed
<1> QED BY <1>11, <1>12, <1>13, <1>14, <1>15, <1>16, <1>17, <1>18 DEF Inv

(* The exit function frees the buffers.                                    *)
LEMMA KFreeKeeps ==
    ASSUME Inv, KFree
    PROVE  Inv'
<1>0. /\ UNCHANGED <<scenario, at, smp, script, shown, test_passed, judge,
                    max_rounds, polls, request_success, linked, data_correct,
                    rounds, current, transfer_end, state, queue, pending, result,
                    cb, bad>>
      /\ static' = static /\ TRANSFER_COUNT' = TRANSFER_COUNT /\ Mine' = Mine
  BY SameTest DEF KFree, In, scriptVars, judgeVars, pcVars, testVars, engineVars,
     cbVars
<1>1. /\ TypeOK /\ PlaceOK /\ JudgeOK /\ EngineOK /\ MemOK /\ RoundOK
      /\ FlightOK /\ ReleaseOK
  BY DEF Inv
<1>2. /\ TRANSFER_COUNT \in Nat /\ TRANSFER_COUNT >= 1 /\ TRANSFER_COUNT <= MaxCount
      /\ MaxCount \in Nat /\ Mine \subseteq Transfers /\ Transfers \subseteq Nat
      /\ ~static => TRANSFER_COUNT = DynamicCount
      /\ Len(scenario) \in Nat /\ at \in 1 .. Len(scenario) /\ judge \in Nat
      /\ idx \in Nat /\ current \in Nat
  BY <1>1, Counts
<1>3. script = "rmmod" /\ pc = "kfree" /\ pc' \in {"kfree", "off"}
  BY <1>1 DEF KFree, In, TypeOK, PlaceOK, InitPlaces, ExitPlaces
<1>4. ExitCount \in Nat /\ ExitCount <= TRANSFER_COUNT
  BY <1>1, <1>2, <1>3 DEF PlaceOK, ExitCount
<1>5. idx < ExitCount => idx \in Transfers
  BY <1>2, <1>4 DEF Transfers
<1>6. \A i \in Transfers : mem'[i] = mem[i] \/ (mem'[i] = {} /\ linked[i])
  BY <1>1, <1>5 DEF KFree, TypeOK
<1>11. TypeOK'
  <2>1. mem' \in [Transfers -> SUBSET Buffers]
    BY <1>0, <1>1, <1>2, <1>4, <1>5, ChainAssumption DEF KFree, TypeOK
  <2>2. idx' \in 0 .. MaxCount
    BY <1>0, <1>1, <1>2, <1>4, <1>5, ChainAssumption DEF KFree, TypeOK
  <2> QED BY <1>0, <1>1, <1>3, <2>1, <2>2 DEF TypeOK
<1>12. PlaceOK'
  BY <1>0, <1>1, <1>2, <1>3 DEF KFree, In, PlaceOK, InitPlaces, ExitPlaces, ExitCount
<1>13. JudgeOK'
  BY <1>0, <1>1, <1>2, <1>3 DEF KFree, In, JudgeOK, ExitCount
<1>14. EngineOK'
  BY <1>0, <1>1, <1>2, <1>3 DEF KFree, In, EngineOK, ExitCount
<1>15. MemOK'
  BY <1>0, <1>1, <1>3, <1>6 DEF MemOK, Stray, InitPlaces
<1>16. RoundOK'
  BY <1>0, <1>1, <1>2, <1>3 DEF KFree, In, RoundOK, ExitCount
<1>17. FlightOK'
  BY <1>0, <1>1, <1>2, <1>3
  DEF KFree, In, FlightOK, Grounded, InFlight, DynamicResult, ExitCount
<1>18. ReleaseOK'
  <2> SUFFICES ASSUME ~smp
               PROVE  ReleaseOK'
    BY <1>0 DEF ReleaseOK
  <2>1. CASE idx < ExitCount
    <3>1. /\ pc' = "kfree" /\ idx' = idx + 1 /\ idx \in Transfers
          /\ linked[idx] => mem'[idx] = {}
      BY <1>1, <1>3, <1>5, <2>1 DEF KFree, TypeOK
    <3>2. state = "none" => \A i \in Transfers : i < idx /\ linked[i] => mem[i] = {}
      BY <1>1, <1>3 DEF ReleaseOK
    <3>3. state = "none" => \A i \in Transfers : i < idx' /\ linked[i] => mem'[i] = {}
      <4> SUFFICES ASSUME state = "none", NEW i \in Transfers, i < idx', linked[i]
                   PROVE  mem'[i] = {}
        OBVIOUS
      <4>1. i = idx \/ i < idx
        BY <1>2, <3>1
      <4> QED BY <1>6, <3>1, <3>2, <4>1
    <3>4. test_passed = 1 => state = "none"
      BY <1>1, <1>3 DEF ReleaseOK
    <3> QED BY <1>0, <1>3, <3>1, <3>3, <3>4 DEF ReleaseOK, Removed
  <2>2. CASE ~(idx < ExitCount)
    <3>1. pc' = "off" /\ mem' = mem
      BY <2>2 DEF KFree
    <3>2. \A i \in Transfers : linked[i] => i < idx
      BY <1>1, <1>2, <1>3, <1>4, <2>2 DEF MemOK, ExitCount
    <3> QED BY <1>0, <1>1, <1>3, <3>1, <3>2 DEF ReleaseOK, Removed
  <2> QED BY <2>1, <2>2
<1> QED BY <1>11, <1>12, <1>13, <1>14, <1>15, <1>16, <1>17, <1>18 DEF Inv

(* A transfer ends.                                                        *)
LEMMA CompleteKeeps ==
    ASSUME Inv, Loaded, Complete
    PROVE  Inv'
<1>0. /\ UNCHANGED <<scenario, at, smp, script, shown, test_passed, judge,
                    max_rounds, pc, idx, polls, request_success, linked,
                    data_correct, rounds, current, transfer_end, mem, state, cb,
                    bad>>
      /\ static' = static /\ TRANSFER_COUNT' = TRANSFER_COUNT /\ Mine' = Mine
  BY SameTest DEF Complete, In, scriptVars, judgeVars, pcVars, testVars, engineVars,
     cbVars
<1>1. /\ TypeOK /\ PlaceOK /\ JudgeOK /\ EngineOK /\ MemOK /\ RoundOK
      /\ FlightOK /\ ReleaseOK
  BY DEF Inv
<1>2. /\ TRANSFER_COUNT \in Nat /\ TRANSFER_COUNT >= 1 /\ TRANSFER_COUNT <= MaxCount
      /\ MaxCount \in Nat /\ Mine \subseteq Transfers /\ Transfers \subseteq Nat
      /\ ~static => TRANSFER_COUNT = DynamicCount
      /\ Len(scenario) \in Nat /\ at \in 1 .. Len(scenario) /\ judge \in Nat
      /\ idx \in Nat /\ current \in Nat
  BY <1>1, Counts
<1>3. script # "insmod" /\ state = "running" /\ queue # <<>>
  BY DEF Complete, Loaded
<1>4. /\ Head(queue) \in Mine /\ Head(queue) \in Transfers
      /\ Tail(queue) \in Seq(Mine) /\ Append(Tail(queue), Head(queue)) \in Seq(Mine)
  BY <1>1, <1>2, <1>3, Queues DEF EngineOK
<1>5. queue' \in Seq(Mine) /\ pending' = pending \cup {Head(queue)}
  BY <1>4 DEF Complete
<1>6. /\ result' \in [Transfers -> {"none", "good", "bad"}]
      /\ result'[Head(queue)] # "none"
      /\ \A i \in Transfers : i # Head(queue) => result'[i] = result[i]
  BY <1>1, <1>4 DEF Complete, TypeOK
<1>11. TypeOK'
  <2>1. queue' \in Seq(Transfers)
    BY <1>2, <1>5, Queues
  <2>2. pending' \subseteq Transfers
    BY <1>1, <1>4, <1>5 DEF TypeOK
  <2> QED BY <1>0, <1>1, <1>6, <2>1, <2>2 DEF TypeOK
<1>12. PlaceOK'
  BY <1>0, <1>1, <1>2, <1>3, <1>4 DEF Complete, Loaded, PlaceOK, InitPlaces, ExitPlaces
<1>13. JudgeOK'
  BY <1>0, <1>1, <1>2, <1>3, <1>4 DEF Complete, Loaded, JudgeOK
<1>14. EngineOK'
  <2>1. /\ pending \subseteq Mine /\ cb \in Mine \cup {NoCb} /\ bad \subseteq Mine
        /\ \A i \in pending : result[i] # "none"
        /\ cb # NoCb => result[cb] # "none"
        /\ \A i \in Transfers : data_correct[i] => result[i] # "none"
        /\ pc # "request"
    BY <1>1, <1>3 DEF EngineOK
  <2>2. \A i \in Transfers : result[i] # "none" => result'[i] # "none"
    BY <1>6
  <2> QED BY <1>0, <1>2, <1>3, <1>4, <1>5, <1>6, <2>1, <2>2 DEF EngineOK
<1>15. MemOK'
  BY <1>0, <1>1, <1>2, <1>3, <1>4 DEF Complete, Loaded, MemOK, Stray, InitPlaces
<1>16. RoundOK'
  BY <1>0, <1>1, <1>2, <1>3, <1>4 DEF Complete, Loaded, RoundOK
<1>17. FlightOK'
  <2>1. CASE static
    BY <1>0, <2>1 DEF FlightOK
  <2>2. CASE ~static
    <3>1. InFlight /\ ~Grounded
      BY <1>1, <1>3, <2>2 DEF FlightOK, Grounded
    <3>2. queue = <<current - 1>> /\ pending = {} /\ cb = NoCb
      BY <1>3, <3>1 DEF InFlight
    <3>3. Head(queue) = current - 1 /\ queue' = <<>> /\ pending' = {current - 1}
      BY <1>5, <2>2, <3>2, OneInQueue DEF Complete
    <3>4. InFlight'
      BY <1>0, <3>1, <3>2, <3>3 DEF InFlight
    <3>5. \A i \in Transfers : data_correct[i] => result'[i] = result[i]
      BY <1>6, <3>1, <3>3 DEF InFlight
    <3> QED BY <1>0, <1>1, <1>3, <2>2, <3>1, <3>4, <3>5 DEF FlightOK
  <2> QED BY <2>1, <2>2
<1>18. ReleaseOK'
  BY <1>0, <1>1, <1>2, <1>3, <1>4 DEF Complete, Loaded, ReleaseOK, Removed
<1> QED BY <1>11, <1>12, <1>13, <1>14, <1>15, <1>16, <1>17, <1>18 DEF Inv

(* A callback stops the chain.                                             *)
LEMMA CallbackStopKeeps ==
    ASSUME Inv, NEW k \in Transfers, Loaded, CallbackStop(k)
    PROVE  Inv'
<1>0. /\ UNCHANGED <<scenario, at, smp, script, shown, test_passed, judge,
                    max_rounds, pc, idx, polls, request_success, linked, rounds,
                    current, mem, queue, result, cb, bad>>
      /\ static' = static /\ TRANSFER_COUNT' = TRANSFER_COUNT /\ Mine' = Mine
  BY SameTest DEF CallbackStop, In, scriptVars, judgeVars, pcVars, testVars, engineVars,
     cbVars
<1>1. /\ TypeOK /\ PlaceOK /\ JudgeOK /\ EngineOK /\ MemOK /\ RoundOK
      /\ FlightOK /\ ReleaseOK
  BY DEF Inv
<1>2. /\ TRANSFER_COUNT \in Nat /\ TRANSFER_COUNT >= 1 /\ TRANSFER_COUNT <= MaxCount
      /\ MaxCount \in Nat /\ Mine \subseteq Transfers /\ Transfers \subseteq Nat
      /\ ~static => TRANSFER_COUNT = DynamicCount
      /\ Len(scenario) \in Nat /\ at \in 1 .. Len(scenario) /\ judge \in Nat
      /\ idx \in Nat /\ current \in Nat
  BY <1>1, Counts
<1>3. script # "insmod" /\ k \in pending /\ k \in Mine /\ cb = NoCb /\ UsedUp(k) /\ k # NoCb
      /\ pending' = pending \ {k} /\ state' = "stopped"
  BY <1>1, <1>2 DEF CallbackStop, Loaded, EngineOK, NoCb
<1>4. /\ data_correct' \in [Transfers -> BOOLEAN]
      /\ static => data_correct' = data_correct
      /\ ~static => data_correct'[k] /\ \A i \in Transfers : i # k => data_correct'[i] = data_correct[i]
  BY <1>1 DEF CallbackStop, TypeOK
<1>11. TypeOK'
  <2>1. pending' \subseteq Transfers
    BY <1>0, <1>1, <1>2, <1>3, <1>4, ChainAssumption DEF CallbackStop, TypeOK
  <2>2. state' \in {"none", "requested", "running", "stopped"}
    BY <1>0, <1>1, <1>2, <1>3, <1>4, ChainAssumption DEF CallbackStop, TypeOK
  <2>3. data_correct' \in [Transfers -> BOOLEAN]
    BY <1>0, <1>1, <1>2, <1>3, <1>4, ChainAssumption DEF CallbackStop, TypeOK
  <2>4. transfer_end' \in BOOLEAN
    BY <1>0, <1>1, <1>2, <1>3, <1>4, ChainAssumption DEF CallbackStop, TypeOK
  <2> QED BY <1>0, <1>1, <2>1, <2>2, <2>3, <2>4 DEF TypeOK
<1>12. PlaceOK'
  BY <1>0, <1>1, <1>2 DEF CallbackStop, Loaded, PlaceOK, InitPlaces, ExitPlaces, UsedUp, NoCb
<1>13. JudgeOK'
  BY <1>0, <1>1, <1>2 DEF CallbackStop, Loaded, JudgeOK, UsedUp, NoCb
<1>14. EngineOK'
  BY <1>0, <1>1, <1>2, <1>3, <1>4 DEF EngineOK
<1>15. MemOK'
  BY <1>0, <1>1, <1>2 DEF CallbackStop, Loaded, MemOK, Stray, InitPlaces, UsedUp, NoCb
<1>16. RoundOK'
  BY <1>0, <1>1, <1>2 DEF CallbackStop, Loaded, RoundOK, UsedUp, NoCb
<1>17. FlightOK'
  <2>1. CASE static
    BY <1>0, <2>1 DEF FlightOK
  <2>2. CASE ~static
    <3>1. InFlight /\ ~Grounded
      BY <1>1, <1>3, <2>2 DEF FlightOK, Grounded
    <3>2. queue = <<>> /\ pending = {current - 1} /\ cb = NoCb /\ k = current - 1
      BY <1>3, <3>1 DEF InFlight
    <3>3. current = TRANSFER_COUNT
      BY <1>3, <2>2 DEF UsedUp
    <3>4. Grounded'
      BY <1>0, <1>3, <3>2 DEF Grounded
    <3>5. \A i \in Transfers : data_correct'[i] => i < current
      BY <1>1, <1>2, <1>3, <1>4, <2>2, <3>2 DEF FlightOK
    <3>6. script = "init" => \A i \in Transfers :
             data_correct'[i] /\ i # TRANSFER_COUNT - 1 => result[i] = "good"
      BY <1>1, <1>3, <1>4, <2>2, <3>2, <3>3 DEF FlightOK
    <3> QED BY <1>0, <1>1, <1>3, <2>2, <3>1, <3>4, <3>5, <3>6 DEF FlightOK
  <2> QED BY <2>1, <2>2
<1>18. ReleaseOK'
  BY <1>0, <1>1, <1>3 DEF EngineOK, ReleaseOK, Removed
<1> QED BY <1>11, <1>12, <1>13, <1>14, <1>15, <1>16, <1>17, <1>18 DEF Inv

(* A callback begins.                                                      *)
LEMMA CallbackEntryKeeps ==
    ASSUME Inv, NEW k \in Transfers, Loaded, CallbackEntry(k)
    PROVE  Inv'
<1>0. /\ UNCHANGED <<scenario, at, smp, script, shown, test_passed, judge,
                    max_rounds, pc, idx, polls, request_success, linked, current,
                    transfer_end, mem, state, queue, result, bad>>
      /\ static' = static /\ TRANSFER_COUNT' = TRANSFER_COUNT /\ Mine' = Mine
  BY SameTest DEF CallbackEntry, In, scriptVars, judgeVars, pcVars, testVars, engineVars,
     cbVars
<1>1. /\ TypeOK /\ PlaceOK /\ JudgeOK /\ EngineOK /\ MemOK /\ RoundOK
      /\ FlightOK /\ ReleaseOK
  BY DEF Inv
<1>2. /\ TRANSFER_COUNT \in Nat /\ TRANSFER_COUNT >= 1 /\ TRANSFER_COUNT <= MaxCount
      /\ MaxCount \in Nat /\ Mine \subseteq Transfers /\ Transfers \subseteq Nat
      /\ ~static => TRANSFER_COUNT = DynamicCount
      /\ Len(scenario) \in Nat /\ at \in 1 .. Len(scenario) /\ judge \in Nat
      /\ idx \in Nat /\ current \in Nat
  BY <1>1, Counts
<1>3. script # "insmod" /\ k \in pending /\ k \in Mine /\ cb = NoCb /\ ~UsedUp(k) /\ k # NoCb
      /\ pending' = pending \ {k} /\ cb' = k
  BY <1>1, <1>2 DEF CallbackEntry, Loaded, EngineOK, NoCb
<1>4. /\ data_correct' \in [Transfers -> BOOLEAN] /\ ~data_correct'[k]
      /\ \A i \in Transfers : i # k => data_correct'[i] = data_correct[i]
      /\ \A i \in Transfers : i # k => rounds'[i] = rounds[i]
  BY <1>1 DEF CallbackEntry, TypeOK
<1>11. TypeOK'
  <2>1. pending' \subseteq Transfers
    BY <1>0, <1>1, <1>2, <1>3, <1>4, ChainAssumption DEF CallbackEntry, TypeOK
  <2>2. rounds' \in [Transfers -> Nat]
    BY <1>0, <1>1, <1>2, <1>3, <1>4, ChainAssumption DEF CallbackEntry, TypeOK
  <2>3. data_correct' \in [Transfers -> BOOLEAN]
    BY <1>0, <1>1, <1>2, <1>3, <1>4, ChainAssumption DEF CallbackEntry, TypeOK
  <2>4. cb' \in Transfers \cup {NoCb}
    BY <1>0, <1>1, <1>2, <1>3, <1>4, ChainAssumption DEF CallbackEntry, TypeOK
  <2> QED BY <1>0, <1>1, <2>1, <2>2, <2>3, <2>4 DEF TypeOK
<1>12. PlaceOK'
  BY <1>0, <1>1, <1>2 DEF CallbackEntry, Loaded, PlaceOK, InitPlaces, ExitPlaces, UsedUp, NoCb
<1>13. JudgeOK'
  BY <1>0, <1>1, <1>2 DEF CallbackEntry, Loaded, JudgeOK, UsedUp, NoCb
<1>14. EngineOK'
  BY <1>0, <1>1, <1>2, <1>3, <1>4 DEF EngineOK
<1>15. MemOK'
  BY <1>0, <1>1, <1>2 DEF CallbackEntry, Loaded, MemOK, Stray, InitPlaces, UsedUp, NoCb
<1>16. RoundOK'
  <2> SUFFICES ASSUME static
               PROVE  RoundOK'
    BY <1>0 DEF RoundOK
  <2>1. k \notin bad
    BY <1>1, <1>3 DEF RoundOK, UsedUp
  <2>2. bad \subseteq Transfers
    BY <1>1 DEF TypeOK
  <2> QED BY <1>0, <1>1, <1>3, <1>4, <2>1, <2>2 DEF RoundOK
<1>17. FlightOK'
  <2>1. CASE static
    BY <1>0, <2>1 DEF FlightOK
  <2>2. CASE ~static
    <3>1. InFlight /\ ~Grounded
      BY <1>1, <1>3, <2>2 DEF FlightOK, Grounded
    <3>2. queue = <<>> /\ pending = {current - 1} /\ cb = NoCb /\ k = current - 1
      BY <1>3, <3>1 DEF InFlight
    <3>3. current < TRANSFER_COUNT
      BY <1>1, <1>2, <1>3, <2>2 DEF UsedUp, PlaceOK
    <3>4. InFlight'
      BY <1>0, <1>3, <1>4, <3>1, <3>2, <3>3 DEF InFlight
    <3>5. \A i \in Transfers : data_correct'[i] => data_correct[i]
      BY <1>4
    <3> QED BY <1>0, <1>1, <1>3, <2>2, <3>1, <3>4, <3>5 DEF FlightOK
  <2> QED BY <2>1, <2>2
<1>18. ReleaseOK'
  BY <1>0, <1>1, <1>2 DEF CallbackEntry, Loaded, ReleaseOK, Removed, UsedUp, NoCb
<1> QED BY <1>11, <1>12, <1>13, <1>14, <1>15, <1>16, <1>17, <1>18 DEF Inv

(* A callback finds damage.                                                *)
LEMMA CallbackBadKeeps ==
    ASSUME Inv, NEW k \in Transfers, Loaded, CallbackBad(k)
    PROVE  Inv'
<1>0. /\ UNCHANGED <<scenario, at, smp, script, shown, test_passed, judge,
                    max_rounds, pc, idx, polls, request_success, linked,
                    data_correct, current, mem, state, queue, pending, result>>
      /\ static' = static /\ TRANSFER_COUNT' = TRANSFER_COUNT /\ Mine' = Mine
  BY SameTest DEF CallbackBad, In, scriptVars, judgeVars, pcVars, testVars, engineVars,
     cbVars
<1>1. /\ TypeOK /\ PlaceOK /\ JudgeOK /\ EngineOK /\ MemOK /\ RoundOK
      /\ FlightOK /\ ReleaseOK
  BY DEF Inv
<1>2. /\ TRANSFER_COUNT \in Nat /\ TRANSFER_COUNT >= 1 /\ TRANSFER_COUNT <= MaxCount
      /\ MaxCount \in Nat /\ Mine \subseteq Transfers /\ Transfers \subseteq Nat
      /\ ~static => TRANSFER_COUNT = DynamicCount
      /\ Len(scenario) \in Nat /\ at \in 1 .. Len(scenario) /\ judge \in Nat
      /\ idx \in Nat /\ current \in Nat
  BY <1>1, Counts
<1>3. script # "insmod" /\ cb = k /\ k \in Mine /\ k # NoCb
      /\ bad' = bad \cup {k} /\ cb' = NoCb
  BY <1>1, <1>2 DEF CallbackBad, Loaded, EngineOK, NoCb, Transfers
<1>4. /\ \A i \in Transfers : i # k => rounds'[i] = rounds[i]
      /\ static => rounds'[k] = max_rounds
  BY <1>1 DEF CallbackBad, TypeOK
<1>11. TypeOK'
  <2>1. bad' \subseteq Transfers
    BY <1>0, <1>1, <1>2, ChainAssumption DEF CallbackBad, TypeOK
  <2>2. cb' \in Transfers \cup {NoCb}
    BY <1>0, <1>1, <1>2, ChainAssumption DEF CallbackBad, TypeOK
  <2>3. rounds' \in [Transfers -> Nat]
    BY <1>0, <1>1, <1>2, ChainAssumption DEF CallbackBad, TypeOK
  <2>4. transfer_end' \in BOOLEAN
    BY <1>0, <1>1, <1>2, ChainAssumption DEF CallbackBad, TypeOK
  <2> QED BY <1>0, <1>1, <2>1, <2>2, <2>3, <2>4 DEF TypeOK
<1>12. PlaceOK'
  BY <1>0, <1>1, <1>2 DEF CallbackBad, Loaded, PlaceOK, InitPlaces, ExitPlaces, NoCb
<1>13. JudgeOK'
  BY <1>0, <1>1, <1>2 DEF CallbackBad, Loaded, JudgeOK, NoCb
<1>14. EngineOK'
  BY <1>0, <1>1, <1>2 DEF CallbackBad, Loaded, EngineOK, NoCb
<1>15. MemOK'
  BY <1>0, <1>1, <1>2 DEF CallbackBad, Loaded, MemOK, Stray, InitPlaces, NoCb
<1>16. RoundOK'
  <2> SUFFICES ASSUME static
               PROVE  RoundOK'
    BY <1>0 DEF RoundOK
  <2>1. pc # "request"
    BY <1>1, <1>3 DEF EngineOK
  <2>2. bad \subseteq Transfers
    BY <1>1 DEF TypeOK
  <2> QED BY <1>0, <1>1, <1>2, <1>3, <1>4, <2>1, <2>2 DEF RoundOK
<1>17. FlightOK'
  BY <1>0, <1>1, <1>2 DEF CallbackBad, Loaded, FlightOK, Grounded, InFlight, DynamicResult, NoCb
<1>18. ReleaseOK'
  BY <1>0, <1>1, <1>2 DEF CallbackBad, Loaded, ReleaseOK, Removed, NoCb
<1> QED BY <1>11, <1>12, <1>13, <1>14, <1>15, <1>16, <1>17, <1>18 DEF Inv

(* A callback finds no damage.                                             *)
LEMMA CallbackGoodKeeps ==
    ASSUME Inv, NEW k \in Transfers, Loaded, CallbackGood(k)
    PROVE  Inv'
<1>0. /\ UNCHANGED <<scenario, at, smp, script, shown, test_passed, judge,
                    max_rounds, pc, idx, polls, request_success, rounds, state,
                    pending, result, bad>>
      /\ static' = static /\ TRANSFER_COUNT' = TRANSFER_COUNT /\ Mine' = Mine
  BY SameTest DEF CallbackGood, In, scriptVars, judgeVars, pcVars, testVars, engineVars,
     cbVars
<1>1. /\ TypeOK /\ PlaceOK /\ JudgeOK /\ EngineOK /\ MemOK /\ RoundOK
      /\ FlightOK /\ ReleaseOK
  BY DEF Inv
<1>2. /\ TRANSFER_COUNT \in Nat /\ TRANSFER_COUNT >= 1 /\ TRANSFER_COUNT <= MaxCount
      /\ MaxCount \in Nat /\ Mine \subseteq Transfers /\ Transfers \subseteq Nat
      /\ ~static => TRANSFER_COUNT = DynamicCount
      /\ Len(scenario) \in Nat /\ at \in 1 .. Len(scenario) /\ judge \in Nat
      /\ idx \in Nat /\ current \in Nat
  BY <1>1, Counts
<1>3. script # "insmod" /\ cb = k /\ k \in Mine /\ k # NoCb /\ cb' = NoCb /\ pc # "request"
  BY <1>1, <1>2 DEF CallbackGood, Loaded, EngineOK, NoCb, Transfers
<1>4. ~static => /\ k = current - 1 /\ current < TRANSFER_COUNT /\ current \in Mine
                 /\ queue = <<>> /\ pending = {} /\ InFlight /\ ~Grounded
  BY <1>1, <1>2, <1>3 DEF FlightOK, Grounded, InFlight, Mine
<1>5. static => /\ UNCHANGED <<linked, current, transfer_end, mem, queue>>
                /\ data_correct' = [data_correct EXCEPT ![k] = TRUE]
  BY DEF CallbackGood
<1>6. ASSUME ~static
      PROVE  \E ok \in BOOLEAN :
                /\ mem' \in [Transfers -> SUBSET Buffers] /\ linked' \in [Transfers -> BOOLEAN]
                /\ \A j \in Transfers \ {current} : mem'[j] = mem[j] /\ linked'[j] = linked[j]
                /\ ok => /\ mem'[current] = Buffers /\ linked'[current]
                         /\ queue' = Append(queue, current) /\ current' = current + 1
                /\ ~ok => ~linked'[current] /\ queue' = queue /\ current' = current
                /\ data_correct' = [data_correct EXCEPT ![k] = ok]
                /\ transfer_end' = (transfer_end \/ ~ok)
  <2>1. PICK got \in SUBSET Buffers, ok \in BOOLEAN :
               /\ LinkTransfer(current, got, ok)
               /\ current' = IF ok THEN current + 1 ELSE current
               /\ data_correct' = [data_correct EXCEPT ![k] = ok]
               /\ transfer_end' = (transfer_end \/ ~ok)
    BY <1>6 DEF CallbackGood
  <2>2. /\ mem' \in [Transfers -> SUBSET Buffers] /\ linked' \in [Transfers -> BOOLEAN]
        /\ \A j \in Transfers \ {current} : mem'[j] = mem[j] /\ linked'[j] = linked[j]
        /\ ok => mem'[current] = Buffers /\ linked'[current] /\ queue' = Append(queue, current)
        /\ ~ok => ~linked'[current] /\ queue' = queue
    BY <1>1, <1>4, <1>6, <2>1, Linked
  <2> QED BY <2>1, <2>2
<1>7. /\ data_correct' \in [Transfers -> BOOLEAN]
      /\ \A i \in Transfers : i # k => data_correct'[i] = data_correct[i]
  BY <1>1, <1>5, <1>6 DEF TypeOK
<1>8. queue' \in Seq(Mine) /\ current' \in 0 .. DynamicCount /\ current' >= current
  <2>1. CASE static
    BY <1>1, <1>2, <1>3, <1>5, <2>1 DEF EngineOK, TypeOK
  <2>2. CASE ~static
    <3>1. queue \in Seq(Mine)
      BY <1>1, <1>3 DEF EngineOK
    <3>2. Append(queue, current) \in Seq(Mine)
      BY <1>4, <2>2, <3>1, Queues
    <3>3. /\ queue' \in {queue, Append(queue, current)} /\ current' \in {current, current + 1}
      BY <1>6, <2>2
    <3>4. current \in Nat /\ current + 1 <= DynamicCount /\ DynamicCount \in Nat
      BY <1>2, <1>4, <2>2, ChainAssumption
    <3> QED BY <3>1, <3>2, <3>3, <3>4
  <2> QED BY <2>1, <2>2
<1>11. TypeOK'
  <2>1. queue' \in Seq(Transfers)
    BY <1>2, <1>8, Queues
  <2>2. mem' \in [Transfers -> SUBSET Buffers] /\ linked' \in [Transfers -> BOOLEAN]
    BY <1>1, <1>5, <1>6 DEF TypeOK
  <2>3. transfer_end' \in BOOLEAN
    <3>1. transfer_end \in BOOLEAN
      BY <1>1 DEF TypeOK
    <3> QED BY <1>5, <1>6, <3>1
  <2> QED BY <1>0, <1>1, <1>3, <1>7, <1>8, <2>1, <2>2, <2>3 DEF TypeOK
<1>12. PlaceOK'
  <2>1. current' <= TRANSFER_COUNT
    BY <1>1, <1>2, <1>3, <1>4, <1>5, <1>6 DEF PlaceOK
  <2> QED BY <1>0, <1>1, <1>3, <2>1 DEF PlaceOK
<1>13. JudgeOK'
  BY <1>0, <1>1, <1>2 DEF CallbackGood, Loaded, JudgeOK, LinkTransfer, NoCb
<1>14. EngineOK'
  BY <1>0, <1>1, <1>2, <1>3, <1>7, <1>8 DEF EngineOK
<1>15. MemOK'
  <2>1. CASE static
    BY <1>0, <1>1, <1>3, <1>5, <2>1 DEF MemOK, Stray
  <2>2. CASE ~static
    <3>1. \A i \in Transfers : /\ mem[i] # {} \/ linked[i] => i < TRANSFER_COUNT
                               /\ i >= current => ~linked[i]
                               /\ i > current => mem[i] = {}
                               /\ mem[i] # {} /\ ~linked[i] => i = current
      BY <1>1, <1>3, <2>2 DEF MemOK, Stray
    <3>2. \A i \in Transfers : /\ i >= current' => ~linked'[i]
                               /\ i > current' => mem'[i] = {}
                               /\ Stray(i)' => i = current'
      BY <1>2, <1>6, <2>2, <3>1 DEF Stray
    <3>3. \A i \in Transfers : mem'[i] # {} \/ linked'[i] => i < TRANSFER_COUNT
      BY <1>4, <1>6, <2>2, <3>1
    <3> QED BY <1>0, <2>2, <3>2, <3>3 DEF MemOK
  <2> QED BY <2>1, <2>2
<1>16. RoundOK'
  <2> SUFFICES ASSUME static
               PROVE  RoundOK'
    BY <1>0 DEF RoundOK
  <2>1. k \notin bad /\ bad \subseteq Transfers
    BY <1>1, <1>3 DEF RoundOK, TypeOK
  <2> QED BY <1>0, <1>1, <1>3, <1>7, <2>1 DEF RoundOK
<1>17. FlightOK'
  <2>1. CASE static
    BY <1>0, <2>1 DEF FlightOK
  <2>2. CASE ~static
    <3>1. PICK ok \in BOOLEAN :
             /\ ok => /\ mem'[current] = Buffers /\ queue' = Append(queue, current)
                      /\ current' = current + 1
             /\ ~ok => queue' = queue /\ current' = current
      BY <1>6, <2>2
    <3>2. ~data_correct[current] /\ current \in Transfers /\ current # k
      BY <1>1, <1>2, <1>3, <1>4, <2>2 DEF FlightOK
    <3>3. ok => InFlight'
      <4> SUFFICES ASSUME ok
                   PROVE  InFlight'
        OBVIOUS
      <4>1. queue' = <<current>>
        BY <1>4, <2>2, <3>1, OneInQueue
      <4>2. current' - 1 = current /\ current' > 0
        BY <1>2, <3>1
      <4> QED BY <1>0, <1>3, <1>4, <1>7, <2>2, <3>1, <3>2, <4>1, <4>2 DEF InFlight
    <3>4. ~ok => Grounded'
      BY <1>0, <1>3, <1>4, <2>2, <3>1 DEF Grounded
    <3>5. \A i \in Transfers : data_correct'[i] => i < current'
      BY <1>1, <1>2, <1>3, <1>4, <1>7, <1>8, <2>2 DEF FlightOK
    <3>6. script = "init" => result[k] = "good"
      BY <1>4, <2>2 DEF CallbackGood, Verified, InFlight
    <3>7. script = "init" => \A i \in Transfers :
             data_correct'[i] /\ i # TRANSFER_COUNT - 1 => result[i] = "good"
      BY <1>1, <1>3, <1>7, <2>2, <3>6 DEF FlightOK
    <3> QED BY <1>0, <1>1, <1>3, <1>4, <2>2, <3>3, <3>4, <3>5, <3>7 DEF FlightOK
  <2> QED BY <2>1, <2>2
<1>18. ReleaseOK'
  BY <1>0, <1>1, <1>3 DEF EngineOK, ReleaseOK, Removed
<1> QED BY <1>11, <1>12, <1>13, <1>14, <1>15, <1>16, <1>17, <1>18 DEF Inv

(* A test is loaded.                                                       *)
LEMMA InsmodKeeps ==
    ASSUME Inv, Insmod
    PROVE  Inv'
<1>0. /\ UNCHANGED <<scenario, at, smp, shown, test_passed, judge, max_rounds>>
      /\ static' = static /\ TRANSFER_COUNT' = TRANSFER_COUNT /\ Mine' = Mine
  BY SameTest DEF Insmod, In, scriptVars, judgeVars, pcVars, testVars, engineVars,
     cbVars
<1>1. /\ TypeOK /\ PlaceOK /\ JudgeOK /\ EngineOK /\ MemOK /\ RoundOK
      /\ FlightOK /\ ReleaseOK
  BY DEF Inv
<1>2. /\ TRANSFER_COUNT \in Nat /\ TRANSFER_COUNT >= 1 /\ TRANSFER_COUNT <= MaxCount
      /\ MaxCount \in Nat /\ Mine \subseteq Transfers /\ Transfers \subseteq Nat
      /\ ~static => TRANSFER_COUNT = DynamicCount
      /\ Len(scenario) \in Nat /\ at \in 1 .. Len(scenario) /\ judge \in Nat
      /\ idx \in Nat /\ current \in Nat
  BY <1>1, Counts
<1>11. TypeOK'
  <2>1. script' \in {"insmod", "init", "rmmod", "cat", "end"}
    BY <1>0, <1>1, <1>2, ChainAssumption DEF Insmod, TypeOK
  <2>2. idx' \in 0 .. MaxCount
    BY <1>0, <1>1, <1>2, ChainAssumption DEF Insmod, TypeOK
  <2>3. polls' \in 0 .. POLL_COUNT
    BY <1>0, <1>1, <1>2, ChainAssumption DEF Insmod, TypeOK
  <2>4. request_success' \in BOOLEAN
    BY <1>0, <1>1, <1>2, ChainAssumption DEF Insmod, TypeOK
  <2>5. linked' \in [Transfers -> BOOLEAN]
    BY <1>0, <1>1, <1>2, ChainAssumption DEF Insmod, TypeOK
  <2>6. data_correct' \in [Transfers -> BOOLEAN]
    BY <1>0, <1>1, <1>2, ChainAssumption DEF Insmod, TypeOK
  <2>7. rounds' \in [Transfers -> Nat]
    BY <1>0, <1>1, <1>2, ChainAssumption DEF Insmod, TypeOK
  <2>8. current' \in 0 .. DynamicCount
    BY <1>0, <1>1, <1>2, ChainAssumption DEF Insmod, TypeOK
  <2>9. transfer_end' \in BOOLEAN
    BY <1>0, <1>1, <1>2, ChainAssumption DEF Insmod, TypeOK
  <2>10. mem' \in [Transfers -> SUBSET Buffers]
    BY <1>0, <1>1, <1>2, ChainAssumption DEF Insmod, TypeOK
  <2>11. state' \in {"none", "requested", "running", "stopped"}
    BY <1>0, <1>1, <1>2, ChainAssumption DEF Insmod, TypeOK
  <2>12. queue' \in Seq(Transfers)
    BY <1>0, <1>1, <1>2, ChainAssumption DEF Insmod, TypeOK
  <2>13. pending' \subseteq Transfers
    BY <1>0, <1>1, <1>2, ChainAssumption DEF Insmod, TypeOK
  <2>14. result' \in [Transfers -> {"none", "good", "bad"}]
    BY <1>0, <1>1, <1>2, ChainAssumption DEF Insmod, TypeOK
  <2>15. cb' \in Transfers \cup {NoCb}
    BY <1>0, <1>1, <1>2, ChainAssumption DEF Insmod, TypeOK
  <2>16. bad' \subseteq Transfers
    BY <1>0, <1>1, <1>2, ChainAssumption DEF Insmod, TypeOK
  <2> QED BY <1>0, <1>1, <2>1, <2>2, <2>3, <2>4, <2>5, <2>6, <2>7, <2>8, <2>9, <2>10, <2>11,
             <2>12, <2>13, <2>14, <2>15, <2>16
          DEF Insmod, TypeOK
<1>12. PlaceOK'
  BY <1>0, <1>1, <1>2 DEF Insmod, PlaceOK, InitPlaces, ExitPlaces, NoCb
<1>13. JudgeOK'
  BY <1>0, <1>1, <1>2 DEF Insmod, JudgeOK, NoCb
<1>14. EngineOK'
  BY <1>0, <1>1, <1>2 DEF Insmod, EngineOK, NoCb
<1>15. MemOK'
  BY <1>0, <1>1, <1>2 DEF Insmod, MemOK, Stray, InitPlaces, NoCb
<1>16. RoundOK'
  BY <1>0, <1>1, <1>2 DEF Insmod, RoundOK, NoCb
<1>17. FlightOK'
  BY <1>0, <1>1, <1>2 DEF Insmod, JudgeOK, FlightOK, Grounded
<1>18. ReleaseOK'
  BY <1>0, <1>1, <1>2 DEF Insmod, ReleaseOK, Removed, NoCb
<1> QED BY <1>11, <1>12, <1>13, <1>14, <1>15, <1>16, <1>17, <1>18 DEF Inv

(* A test is removed.                                                      *)
LEMMA RmmodKeeps ==
    ASSUME Inv, Rmmod
    PROVE  Inv'
<1>0. /\ UNCHANGED <<scenario, at, smp, shown, test_passed, judge, max_rounds,
                    polls, request_success, linked, data_correct, rounds, current,
                    transfer_end, mem, state, queue, pending, result, cb, bad>>
      /\ static' = static /\ TRANSFER_COUNT' = TRANSFER_COUNT /\ Mine' = Mine
  BY SameTest DEF Rmmod, In, scriptVars, judgeVars, pcVars, testVars, engineVars,
     cbVars
<1>1. /\ TypeOK /\ PlaceOK /\ JudgeOK /\ EngineOK /\ MemOK /\ RoundOK
      /\ FlightOK /\ ReleaseOK
  BY DEF Inv
<1>2. /\ TRANSFER_COUNT \in Nat /\ TRANSFER_COUNT >= 1 /\ TRANSFER_COUNT <= MaxCount
      /\ MaxCount \in Nat /\ Mine \subseteq Transfers /\ Transfers \subseteq Nat
      /\ ~static => TRANSFER_COUNT = DynamicCount
      /\ Len(scenario) \in Nat /\ at \in 1 .. Len(scenario) /\ judge \in Nat
      /\ idx \in Nat /\ current \in Nat
  BY <1>1, Counts
<1>11. TypeOK'
  BY <1>0, <1>1, <1>2, ChainAssumption DEF Rmmod, TypeOK
<1>12. PlaceOK'
  BY <1>0, <1>1, <1>2 DEF Rmmod, PlaceOK, InitPlaces, ExitPlaces
<1>13. JudgeOK'
  BY <1>0, <1>1, <1>2 DEF Rmmod, JudgeOK
<1>14. EngineOK'
  BY <1>0, <1>1, <1>2 DEF Rmmod, EngineOK
<1>15. MemOK'
  BY <1>0, <1>1, <1>2 DEF Rmmod, MemOK, Stray, InitPlaces
<1>16. RoundOK'
  BY <1>0, <1>1, <1>2 DEF Rmmod, RoundOK
<1>17. FlightOK'
  BY <1>0, <1>1, <1>2 DEF Rmmod, FlightOK, Grounded, InFlight, DynamicResult
<1>18. ReleaseOK'
  BY <1>0, <1>1, <1>2 DEF Rmmod, ReleaseOK, Removed
<1> QED BY <1>11, <1>12, <1>13, <1>14, <1>15, <1>16, <1>17, <1>18 DEF Inv

(* The exit function is over.                                              *)
LEMMA UnloadedKeeps ==
    ASSUME Inv, Unloaded
    PROVE  Inv'
<1>0. /\ UNCHANGED <<scenario, at, smp, shown, test_passed, judge, max_rounds, pc,
                    idx, polls, request_success, linked, data_correct, rounds,
                    current, transfer_end, mem, state, queue, pending, result, cb,
                    bad>>
      /\ static' = static /\ TRANSFER_COUNT' = TRANSFER_COUNT /\ Mine' = Mine
  BY SameTest DEF Unloaded, In, scriptVars, judgeVars, pcVars, testVars, engineVars,
     cbVars
<1>1. /\ TypeOK /\ PlaceOK /\ JudgeOK /\ EngineOK /\ MemOK /\ RoundOK
      /\ FlightOK /\ ReleaseOK
  BY DEF Inv
<1>2. /\ TRANSFER_COUNT \in Nat /\ TRANSFER_COUNT >= 1 /\ TRANSFER_COUNT <= MaxCount
      /\ MaxCount \in Nat /\ Mine \subseteq Transfers /\ Transfers \subseteq Nat
      /\ ~static => TRANSFER_COUNT = DynamicCount
      /\ Len(scenario) \in Nat /\ at \in 1 .. Len(scenario) /\ judge \in Nat
      /\ idx \in Nat /\ current \in Nat
  BY <1>1, Counts
<1>11. TypeOK'
  BY <1>0, <1>1, <1>2, ChainAssumption DEF Unloaded, TypeOK
<1>12. PlaceOK'
  BY <1>0, <1>1, <1>2 DEF Unloaded, PlaceOK, InitPlaces, ExitPlaces
<1>13. JudgeOK'
  BY <1>0, <1>1, <1>2 DEF Unloaded, JudgeOK
<1>14. EngineOK'
  BY <1>0, <1>1, <1>2 DEF Unloaded, EngineOK
<1>15. MemOK'
  BY <1>0, <1>1, <1>2 DEF Unloaded, MemOK, Stray, InitPlaces
<1>16. RoundOK'
  BY <1>0, <1>1, <1>2 DEF Unloaded, RoundOK
<1>17. FlightOK'
  BY <1>0, <1>1, <1>2 DEF Unloaded, FlightOK, Grounded, InFlight, DynamicResult
<1>18. ReleaseOK'
  BY <1>0, <1>1, <1>2 DEF Unloaded, ReleaseOK, Removed
<1> QED BY <1>11, <1>12, <1>13, <1>14, <1>15, <1>16, <1>17, <1>18 DEF Inv

(* The verdict is printed.                                                 *)
LEMMA dma_read_procKeeps ==
    ASSUME Inv, dma_read_proc
    PROVE  Inv'
<1>0. /\ UNCHANGED <<scenario, smp, test_passed, judge, max_rounds, pc, idx, polls,
                    request_success, linked, data_correct, rounds, current,
                    transfer_end, mem, state, queue, pending, result, cb, bad>>
  BY DEF dma_read_proc, In, scriptVars, judgeVars, pcVars, testVars, engineVars,
     cbVars
<1>1. /\ TypeOK /\ PlaceOK /\ JudgeOK /\ EngineOK /\ MemOK /\ RoundOK
      /\ FlightOK /\ ReleaseOK
  BY DEF Inv
<1>2. /\ TRANSFER_COUNT \in Nat /\ TRANSFER_COUNT >= 1 /\ TRANSFER_COUNT <= MaxCount
      /\ MaxCount \in Nat /\ Mine \subseteq Transfers /\ Transfers \subseteq Nat
      /\ ~static => TRANSFER_COUNT = DynamicCount
      /\ Len(scenario) \in Nat /\ at \in 1 .. Len(scenario) /\ judge \in Nat
      /\ idx \in Nat /\ current \in Nat
  BY <1>1, Counts
<1>3. script = "cat" /\ pc = "off"
  BY <1>1 DEF dma_read_proc, PlaceOK
<1>4. \/ script' = "insmod" /\ at' = at + 1 /\ at + 1 \in 1 .. Len(scenario)
      \/ script' = "end" /\ at' = at /\ static' = static
         /\ TRANSFER_COUNT' = TRANSFER_COUNT /\ Mine' = Mine
  BY <1>0, <1>2, SameTest DEF dma_read_proc
<1>11. TypeOK'
  BY <1>0, <1>1, <1>2, <1>3, <1>4, ChainAssumption DEF dma_read_proc, TypeOK
<1>12. PlaceOK'
  BY <1>0, <1>1, <1>3, <1>4 DEF PlaceOK, InitPlaces, ExitPlaces
<1>13. JudgeOK'
  BY <1>0, <1>1, <1>2, <1>3, <1>4 DEF dma_read_proc, JudgeOK
<1>14. EngineOK'
  BY <1>0, <1>1, <1>3, <1>4 DEF EngineOK
<1>15. MemOK'
  BY <1>0, <1>1, <1>3, <1>4 DEF MemOK, Stray, InitPlaces
<1>16. RoundOK'
  BY <1>0, <1>1, <1>3, <1>4 DEF RoundOK
<1>17. FlightOK'
  BY <1>0, <1>1, <1>3, <1>4 DEF FlightOK, Grounded, InFlight, DynamicResult
<1>18. ReleaseOK'
  BY <1>0, <1>1, <1>2, <1>3, <1>4 DEF dma_read_proc, ReleaseOK, Removed
<1> QED BY <1>11, <1>12, <1>13, <1>14, <1>15, <1>16, <1>17, <1>18 DEF Inv

-----------------------------------------------------------------------------
(* Every state of the chained tests satisfies the inductive invariant.     *)
THEOREM ChainInvariance == Spec => []Inv
<1>1. Init => Inv
  <2> SUFFICES ASSUME Init
               PROVE  Inv
    OBVIOUS
  <2>1. TypeOK
    <3>1. scenario \in Seq({"static", "dynamic"}) /\ scenario # <<>>
      BY ChainAssumption DEF Init
    <3>2. at \in DOMAIN scenario /\ 0 \in 0 .. Len(scenario)
      BY <3>1 DEF Init
    <3>3. MaxCount \in Nat
      BY ChainAssumption DEF MaxCount
    <3>4. queue \in Seq(Transfers)
      BY DEF Init, Fresh
    <3>5. idx \in 0 .. MaxCount /\ polls \in 0 .. POLL_COUNT /\ current \in 0 .. DynamicCount
      BY <3>3, ChainAssumption DEF Init, Fresh
    <3>7. /\ linked \in [Transfers -> BOOLEAN] /\ data_correct \in [Transfers -> BOOLEAN]
          /\ request_success \in BOOLEAN /\ transfer_end \in BOOLEAN
      BY DEF Init, Fresh
    <3>8. rounds \in [Transfers -> Nat] /\ mem \in [Transfers -> SUBSET Buffers]
      BY DEF Init, Fresh
    <3>6. /\ result \in [Transfers -> {"none", "good", "bad"}]
          /\ cb \in Transfers \cup {NoCb} /\ bad \subseteq Transfers /\ pending \subseteq Transfers
      BY DEF Init, Fresh
    <3> QED BY <3>2, <3>4, <3>5, <3>6, <3>7, <3>8 DEF Init, Fresh, TypeOK
  <2>2. PlaceOK /\ JudgeOK /\ EngineOK /\ MemOK /\ RoundOK /\ FlightOK /\ ReleaseOK
    BY DEF Init, Fresh, PlaceOK, JudgeOK, EngineOK, MemOK, RoundOK, FlightOK, ReleaseOK,
           Removed
  <2> QED BY <2>1, <2>2 DEF Inv
<1>2. Inv /\ [Next]_vars => Inv'
  <2> SUFFICES ASSUME Inv, [Next]_vars
               PROVE  Inv'
    OBVIOUS
  <2>1. CASE Test
    BY <2>1, request_dma_chainKeeps, LinkKeeps, start_dma_chainKeeps, PollKeeps, CheckKeeps,
       ExitSkipKeeps, ExitStopKeeps, ExitFreeKeeps, KFreeKeeps DEF Test
  <2>2. CASE Interrupt
    <3>1. Loaded
      BY <2>2 DEF Interrupt
    <3>2. PICK k \in Transfers :
             CallbackStop(k) \/ CallbackEntry(k) \/ CallbackBad(k) \/ CallbackGood(k)
      BY <2>2 DEF Interrupt
    <3> QED BY <3>1, <3>2, CallbackStopKeeps, CallbackEntryKeeps, CallbackBadKeeps,
               CallbackGoodKeeps
  <2>3. CASE Loaded /\ Complete
    BY <2>3, CompleteKeeps
  <2>4. CASE Script
    BY <2>4, InsmodKeeps, RmmodKeeps, UnloadedKeeps, dma_read_procKeeps DEF Script
  <2>5. CASE UNCHANGED vars
    <3>1. /\ UNCHANGED <<scenario, at, smp, script, shown, test_passed, judge, max_rounds,
                         pc, idx, polls, request_success, linked, data_correct, rounds>>
          /\ UNCHANGED <<current, transfer_end, mem, state, queue, pending, result, cb, bad>>
      BY <2>5 DEF vars, scriptVars, judgeVars, pcVars, testVars, engineVars, cbVars
    <3>2. static' = static /\ TRANSFER_COUNT' = TRANSFER_COUNT /\ Mine' = Mine
      BY <3>1, SameTest
    <3>3. TypeOK' = TypeOK
      BY <3>1 DEF TypeOK
    <3>4. PlaceOK' = PlaceOK /\ JudgeOK' = JudgeOK /\ ReleaseOK' = ReleaseOK
      BY <3>1, <3>2 DEF PlaceOK, JudgeOK, ReleaseOK, Removed
    <3>5. EngineOK' = EngineOK /\ RoundOK' = RoundOK
      BY <3>1, <3>2 DEF EngineOK, RoundOK
    <3>6. MemOK' = MemOK
      BY <3>1, <3>2 DEF MemOK, Stray
    <3>7. FlightOK' = FlightOK
      BY <3>1, <3>2 DEF FlightOK, Grounded, InFlight, DynamicResult
    <3> QED BY <3>3, <3>4, <3>5, <3>6, <3>7 DEF Inv
  <2> QED BY <2>1, <2>2, <2>3, <2>4, <2>5 DEF Next, Over
<1> QED BY <1>1, <1>2, PTL DEF Spec

(* The verdict that cat prints was set by the test that was just removed,  *)
(* although test_passed outlives a test: every way out of the init         *)
(* function sets it.                                                       *)
THEOREM VerdictOwn == Spec => []VerdictIsOwn
<1>1. Inv => VerdictIsOwn
  BY DEF Inv, JudgeOK, VerdictIsOwn
<1> QED BY <1>1, ChainInvariance, PTL

(* On one processor a PASSED test leaves the chain free, no interrupt and  *)
(* no callback, and no buffer allocated.                                   *)
THEOREM ChainReleases == Spec => []PassedMeansReleased
<1>1. ASSUME Inv
      PROVE  PassedMeansReleased
  <2> SUFFICES ASSUME script = "cat", ~smp, test_passed = 1
               PROVE  /\ state = "none" /\ pending = {} /\ cb = NoCb
                      /\ \A i \in Transfers : mem[i] = {}
    BY DEF PassedMeansReleased
  <2>1. state = "none" /\ \A i \in Transfers : linked[i] => mem[i] = {}
    BY <1>1 DEF Inv, ReleaseOK, Removed
  <2>2. pending = {} /\ cb = NoCb
    BY <1>1, <2>1 DEF Inv, EngineOK
  <2>3. judge = at
    BY <1>1 DEF Inv, JudgeOK
  <2>4. \A i \in Transfers : ~Stray(i)
    <3>1. CASE static
      BY <1>1, <2>3, <3>1 DEF Inv, MemOK
    <3>2. CASE ~static
      BY <1>1, <2>3, <3>2 DEF Inv, MemOK, FlightOK, Stray
    <3> QED BY <3>1, <3>2
  <2> QED BY <2>1, <2>2, <2>4 DEF Stray
<1> QED BY <1>1, ChainInvariance, PTL

(* A test that could free its chain leaves at most the buffers of one      *)
(* transfer, the one that could not be linked.                             *)
THEOREM LeakCorrect == Spec => []LeakBounded
<1>1. ASSUME Inv
      PROVE  LeakBounded
  <2> SUFFICES ASSUME script = "cat", ~smp, state = "none"
               PROVE  Cardinality({i \in Transfers : mem[i] # {}}) <= 1
    BY DEF LeakBounded
  <2> DEFINE L == {i \in Transfers : mem[i] # {}}
  <2>1. \A i \in L : Stray(i)
    BY <1>1 DEF Inv, ReleaseOK, Removed, Stray
  <2>2. \A i, j \in L : i = j
    BY <1>1, <2>1 DEF Inv, MemOK
  <2>3. L = {} => Cardinality(L) = 0
    BY FS_EmptySet
  <2>4. ASSUME NEW x \in L
        PROVE  Cardinality(L) = 1
    <3>1. L = {x}
      BY <2>2
    <3>2. Cardinality({x}) = 1
      BY FS_Singleton
    <3> QED BY <3>1, <3>2
  <2> HIDE DEF L
  <2>5. Cardinality(L) <= 1
    BY <2>3, <2>4
  <2> QED BY <2>5 DEF L
<1> QED BY <1>1, ChainInvariance, PTL

(* A dynamic test says PASSED only if every transfer has completed and     *)
(* every one but the last was verified.                                    *)
THEOREM DynamicCorrect == Spec => []DynamicPassedMeansVerified
<1>1. Inv => DynamicPassedMeansVerified
  BY DEF Inv, FlightOK, DynamicResult, DynamicPassedMeansVerified
<1> QED BY <1>1, ChainInvariance, PTL

(* A static test says PASSED only if no callback has found damage in any   *)
(* round and every transfer has completed.                                 *)
THEOREM BadRoundsRemembered == Spec => NoBadRoundForgotten
<1>1. ASSUME Inv, Check, static, test_passed' = 1
      PROVE  bad = {} /\ \A i \in Mine : result[i] # "none"
  <2>1. \A i \in Mine : data_correct[i]
    BY <1>1 DEF Check, set_test_passed_chain, check_test_passed
  <2>2. script # "insmod"
    BY <1>1 DEF Inv, PlaceOK, Check, In
  <2>3. bad \subseteq Mine /\ Mine \subseteq Transfers
    BY <1>1, <2>2, Counts DEF Inv, EngineOK
  <2> QED BY <1>1, <2>1, <2>2, <2>3 DEF Inv, RoundOK, EngineOK
<1>2. Inv => (Check /\ static /\ test_passed' = 1 =>
                bad = {} /\ \A i \in Mine : result[i] # "none")
  BY <1>1
<1> QED BY <1>2, ChainInvariance, PTL DEF NoBadRoundForgotten
=============================================================================
