------------------------------ MODULE DmaChain ------------------------------
(***************************************************************************)
(* The chained DMA tests: the common module dma_chain_transfer.c, the test *)
(* modules dma_chain_static.c and dma_chain_dynamic.c, and a scenario that *)
(* runs one or more of them while the common module stays loaded:          *)
(*     insmod common; (insmod test; rmmod test; cat /proc/...)*            *)
(*                                                                         *)
(* static   every transfer is linked before the start, the channels form a *)
(*          ring that runs for TRANSFER_ROUNDS rounds;                     *)
(* dynamic  one transfer is linked before the start, and each callback     *)
(*          links the next one.                                            *)
(*                                                                         *)
(* The chain and its interrupt are the kernel's and external here.  The    *)
(* flag "finished" is left out: these tests set it and never read it.  The *)
(* definitions named Bug... are mistakes that the properties are known to  *)
(* catch.                                                                  *)
(***************************************************************************)
EXTENDS Integers, Sequences, FiniteSets

CONSTANTS
    StaticCount,      \* TRANSFER_COUNT of the static test
    DynamicCount,     \* TRANSFER_COUNT of the dynamic test
    TRANSFER_ROUNDS,  \* rounds of a static chain
    POLL_COUNT,       \* TRANSFER_POLL_COUNT, a bound on the polls
    Scenarios         \* the scenarios: sequences of tests

ASSUME ChainAssumption ==
    /\ StaticCount \in Nat \ {0} /\ DynamicCount \in Nat \ {0}
    /\ TRANSFER_ROUNDS \in Nat \ {0}
    /\ POLL_COUNT \in Nat \ {0}
    /\ Scenarios \subseteq Seq({"static", "dynamic"}) \ {<<>>}

MaxCount  == IF StaticCount > DynamicCount THEN StaticCount ELSE DynamicCount
Transfers == 0 .. MaxCount - 1
Buffers   == {"src", "dest"}
NoCb      == -1

VARIABLES
    scenario, at,     \* the scenario and the place of the test in it
    smp,              \* the machine has two processors
    script,           \* place in the scenario's commands
    shown,            \* what the last cat has printed, -1 before
    test_passed,      \* the verdict: -1 none, 0 FAILED, 1 PASSED
    judge,            \* the test that has set it
    max_rounds,       \* of the common module
    pc, idx, polls,   \* place and loop variables of the init or exit function
    request_success,  \* struct dma_chain
    linked,           \* struct dma_transfer: request_success
    data_correct,     \* struct dma_transfer
    rounds,           \* struct dma_transfer, static chains
    current,          \* current_transfer, dynamic chains
    transfer_end,     \* dynamic chains
    mem,              \* the buffers that are allocated
    state, queue,     \* engine: the chain and the transfers waiting in it
    pending, result,  \* engine: interrupts, how each transfer last ended
    cb,               \* the transfer whose callback is in progress
    bad               \* the transfers whose callback has found damage

scriptVars == <<scenario, at, smp, script, shown>>
judgeVars  == <<test_passed, judge>>
pcVars     == <<pc, idx, polls>>
testVars   == <<request_success, linked, data_correct, rounds, current, transfer_end>>
engineVars == <<state, queue, pending, result>>
cbVars     == <<cb, bad>>
vars == <<scriptVars, judgeVars, max_rounds, pcVars, testVars, mem, engineVars, cbVars>>

static == scenario[at] = "static"
TRANSFER_COUNT == IF static THEN StaticCount ELSE DynamicCount
Mine == 0 .. TRANSFER_COUNT - 1

(* The state of a test module that has just been loaded.                   *)
Fresh ==
    /\ idx = 0 /\ polls = 0
    /\ request_success = FALSE
    /\ linked = [i \in Transfers |-> FALSE]
    /\ data_correct = [i \in Transfers |-> FALSE]
    /\ rounds = [i \in Transfers |-> 0]
    /\ current = 0
    /\ transfer_end = FALSE
    /\ mem = [i \in Transfers |-> {}]
    /\ state = "none" /\ queue = <<>> /\ pending = {}
    /\ result = [i \in Transfers |-> "none"]
    /\ cb = NoCb /\ bad = {}

TypeOK ==
    /\ scenario \in Scenarios /\ at \in DOMAIN scenario /\ smp \in BOOLEAN
    /\ script \in {"insmod", "init", "rmmod", "cat", "end"}
    /\ shown \in {-1, 0, 1} /\ test_passed \in {-1, 0, 1}
    /\ judge \in 0 .. Len(scenario)
    /\ max_rounds \in {1, TRANSFER_ROUNDS}
    /\ pc \in {"off", "request", "link", "start", "poll", "check", "done",
               "exit_stop", "exit_free", "kfree"}
    /\ idx \in 0 .. MaxCount /\ polls \in 0 .. POLL_COUNT
    /\ request_success \in BOOLEAN /\ transfer_end \in BOOLEAN
    /\ linked \in [Transfers -> BOOLEAN] /\ data_correct \in [Transfers -> BOOLEAN]
    /\ rounds \in [Transfers -> Nat]
    /\ current \in 0 .. DynamicCount
    /\ mem \in [Transfers -> SUBSET Buffers]
    /\ state \in {"none", "requested", "running", "stopped"}
    /\ queue \in Seq(Transfers)
    /\ pending \subseteq Transfers
    /\ result \in [Transfers -> {"none", "good", "bad"}]
    /\ cb \in Transfers \cup {NoCb} /\ bad \subseteq Transfers

Init ==
    /\ scenario \in Scenarios /\ at = 1 /\ smp \in BOOLEAN
    /\ script = "insmod" /\ shown = -1
    /\ test_passed = -1 /\ judge = 0
    /\ max_rounds = 1
    /\ pc = "off"
    /\ Fresh

-----------------------------------------------------------------------------
(* The init function of the test.                                          *)

Runs == smp \/ cb = NoCb

In(l) ==
    /\ Runs
    /\ pc = l
    /\ UNCHANGED scriptVars

set_test_passed_chain(passed) == test_passed' = passed /\ judge' = at

BugRequestSilent ==
    /\ In("request")
    /\ max_rounds' = IF static THEN TRANSFER_ROUNDS ELSE max_rounds
    /\ \E ok \in BOOLEAN :
          /\ request_success' = ok
          /\ pc' = IF ok THEN "link" ELSE "done"
          /\ state' = IF ok THEN "requested" ELSE state
    /\ UNCHANGED <<judgeVars, idx, polls, linked, data_correct, rounds, current, transfer_end,
                   mem, queue, pending, result, cbVars>>

(* set_max_rounds() and request_dma_chain().  (The dynamic test also calls *)
(* omap_set_dma_callback(), for the callback the chain has already.)       *)
request_dma_chain ==
    /\ In("request")
    /\ max_rounds' = IF static THEN TRANSFER_ROUNDS ELSE max_rounds
    /\ \E ok \in BOOLEAN :
          /\ request_success' = ok
          /\ IF ok
             THEN pc' = "link" /\ state' = "requested" /\ UNCHANGED judgeVars
             ELSE pc' = "done" /\ set_test_passed_chain(0) /\ UNCHANGED state
    /\ UNCHANGED <<idx, polls, linked, data_correct, rounds, current, transfer_end,
                   mem, queue, pending, result, cbVars>>

(* create_transfer_buffers_chain() and chain_transfer() for transfer i:    *)
(* what was allocated, and whether the kernel took the transfer.           *)
LinkTransfer(i, got, ok) ==
    /\ ok => got = Buffers
    /\ mem' = [mem EXCEPT ![i] = got]
    /\ linked' = [linked EXCEPT ![i] = ok]
    /\ queue' = IF ok THEN Append(queue, i) ELSE queue

Link ==
    /\ In("link")
    /\ \E got \in SUBSET Buffers, ok \in BOOLEAN :
          /\ LinkTransfer(idx, got, ok)
          /\ IF ~ok
             THEN pc' = "done" /\ set_test_passed_chain(0) /\ UNCHANGED <<idx, current>>
             ELSE /\ UNCHANGED judgeVars
                  /\ IF static /\ idx + 1 < TRANSFER_COUNT
                     THEN idx' = idx + 1 /\ UNCHANGED <<pc, current>>
                     ELSE /\ pc' = "start"
                          /\ idx' = 0
                          /\ current' = IF static THEN 0 ELSE 1
    /\ UNCHANGED <<max_rounds, polls, request_success, data_correct, rounds, transfer_end,
                   state, pending, result, cbVars>>

(* The tests do not look at what start_dma_chain() returns.                *)
start_dma_chain ==
    /\ In("start")
    /\ state' \in {"running", "requested"}
    /\ pc' = "poll"
    /\ UNCHANGED <<judgeVars, max_rounds, idx, polls, testVars, mem, queue, pending, result, cbVars>>

get_transfers_finished ==
    IF static
    THEN \E i \in Mine : rounds[i] = TRANSFER_ROUNDS
    ELSE transfer_end

BugTimeoutSilent ==
    /\ In("poll")
    /\ IF get_transfers_finished
       THEN pc' = "check" /\ UNCHANGED polls
       ELSE /\ polls' = polls + 1
            /\ pc' = IF polls + 1 < POLL_COUNT THEN pc ELSE "done"
    /\ UNCHANGED <<judgeVars, max_rounds, idx, testVars, mem, engineVars, cbVars>>

Poll ==
    /\ In("poll")
    /\ IF get_transfers_finished
       THEN pc' = "check" /\ UNCHANGED <<judgeVars, polls>>
       ELSE /\ polls' = polls + 1
            /\ IF polls + 1 < POLL_COUNT
               THEN UNCHANGED <<judgeVars, pc>>
               ELSE pc' = "done" /\ set_test_passed_chain(0)
    /\ UNCHANGED <<max_rounds, idx, testVars, mem, engineVars, cbVars>>

BugFirstOnly == data_correct[0]
check_test_passed == \A i \in Mine : data_correct[i]

(* The chain need not have stopped by then: a static test is "finished"    *)
(* when one transfer has done its rounds.  The flags are read in one step, *)
(* so the check is as of the start of check_test_passed()'s loop.          *)
Check ==
    /\ In("check")
    /\ pc' = "done"
    /\ set_test_passed_chain(IF check_test_passed THEN 1 ELSE 0)
    /\ UNCHANGED <<max_rounds, idx, polls, testVars, mem, engineVars, cbVars>>

-----------------------------------------------------------------------------
(* The exit function: stop and free the chain, then the buffers of the     *)
(* transfers that were linked.                                             *)

ExitSkip ==
    /\ In("exit_stop")
    /\ ~request_success
    /\ pc' = "kfree"
    /\ UNCHANGED <<judgeVars, max_rounds, idx, polls, testVars, mem, engineVars, cbVars>>

BugExitSilent(ok) == UNCHANGED judgeVars
ExitVerdict(ok) == IF ok THEN UNCHANGED judgeVars ELSE set_test_passed_chain(0)

ExitStop ==
    /\ In("exit_stop")
    /\ request_success
    /\ \E ok \in BOOLEAN :
          /\ state' = IF ok THEN "stopped" ELSE state
          /\ ExitVerdict(ok)
    /\ pc' = "exit_free"
    /\ UNCHANGED <<max_rounds, idx, polls, testVars, mem, queue, pending, result, cbVars>>

ExitFree ==
    /\ In("exit_free")
    /\ \E ok \in BOOLEAN :
          /\ state' = IF ok THEN "none" ELSE state
          /\ pending' = IF ok THEN {} ELSE pending
          /\ queue' = IF ok THEN <<>> ELSE queue
          /\ ExitVerdict(ok)
    /\ pc' = "kfree"
    /\ UNCHANGED <<max_rounds, idx, polls, testVars, mem, result, cbVars>>

(* stop_dma_transfer_chain() for i < channel_count, or i < current.        *)
BugLastKept == IF static THEN TRANSFER_COUNT - 1 ELSE current - 1
ExitCount == IF static THEN TRANSFER_COUNT ELSE current

KFree ==
    /\ In("kfree")
    /\ IF idx < ExitCount
       THEN /\ mem' = IF linked[idx] THEN [mem EXCEPT ![idx] = {}] ELSE mem
            /\ idx' = idx + 1
            /\ UNCHANGED pc
       ELSE pc' = "off" /\ UNCHANGED <<mem, idx>>
    /\ UNCHANGED <<judgeVars, max_rounds, polls, testVars, engineVars, cbVars>>

-----------------------------------------------------------------------------
(* The engine, external: the transfer at the head of the queue ends; in a  *)
(* static chain it will be started again after the others.  A second       *)
(* interrupt of a channel falls together with one still pending.           *)
Complete ==
    /\ state = "running"
    /\ queue # <<>>
    /\ pending' = pending \cup {Head(queue)}
    /\ \E r \in {"good", "bad"} :
          result' = [result EXCEPT ![Head(queue)] = r]
    /\ queue' = IF static THEN Append(Tail(queue), Head(queue)) ELSE Tail(queue)
    /\ UNCHANGED <<scriptVars, judgeVars, max_rounds, pcVars, testVars, mem, state, cbVars>>

(* dma_callback_chain().  A callback that comes when the rounds, or the    *)
(* transfers, are used up stops the chain; in a dynamic chain that is the  *)
(* callback of the last transfer, which is taken to be correct.            *)
UsedUp(i) == IF static THEN rounds[i] = max_rounds ELSE current = TRANSFER_COUNT

CallbackStop(i) ==
    /\ i \in pending /\ cb = NoCb
    /\ UsedUp(i)
    /\ pending' = pending \ {i}
    /\ state' = "stopped"
    /\ IF static
       THEN UNCHANGED <<data_correct, transfer_end>>
       ELSE data_correct' = [data_correct EXCEPT ![i] = TRUE] /\ transfer_end' = TRUE
    /\ UNCHANGED <<scriptVars, judgeVars, max_rounds, pcVars, request_success, linked,
                   rounds, current, mem, queue, result, cbVars>>

BugFlagKept(i) ==
    /\ i \in pending /\ cb = NoCb
    /\ ~UsedUp(i)
    /\ pending' = pending \ {i}
    /\ rounds' = IF static THEN [rounds EXCEPT ![i] = @ + 1] ELSE rounds
    /\ cb' = i
    /\ UNCHANGED <<scriptVars, judgeVars, max_rounds, pcVars, request_success, linked,
                   data_correct, current, transfer_end, mem, state, queue, result, bad>>

CallbackEntry(i) ==
    /\ i \in pending /\ cb = NoCb
    /\ ~UsedUp(i)
    /\ pending' = pending \ {i}
    /\ rounds' = IF static THEN [rounds EXCEPT ![i] = @ + 1] ELSE rounds
    /\ data_correct' = [data_correct EXCEPT ![i] = FALSE]
    /\ cb' = i
    /\ UNCHANGED <<scriptVars, judgeVars, max_rounds, pcVars, request_success, linked,
                   current, transfer_end, mem, state, queue, result, bad>>

(* The test of the status and verify_buffers_chain(): a transfer ended     *)
(* badly if either objects.  Freed buffers may hold anything.              *)
Verified(i) ==
    IF mem[i] = Buffers THEN {result[i] = "good"} ELSE BOOLEAN

(* The rest of the callback after a failed verification.                   *)
CallbackBad(i) ==
    /\ cb = i
    /\ FALSE \in Verified(i)
    /\ bad' = bad \cup {i}
    /\ cb' = NoCb
    /\ IF static
       THEN rounds' = [rounds EXCEPT ![i] = max_rounds] /\ UNCHANGED transfer_end
       ELSE transfer_end' = TRUE /\ UNCHANGED rounds
    /\ UNCHANGED <<scriptVars, judgeVars, max_rounds, pcVars, request_success, linked,
                   data_correct, current, mem, engineVars>>

(* And after a good one: the next transfer of a dynamic chain is linked.   *)
CallbackGood(i) ==
    /\ cb = i
    /\ TRUE \in Verified(i)
    /\ cb' = NoCb
    /\ IF static
       THEN /\ data_correct' = [data_correct EXCEPT ![i] = TRUE]
            /\ UNCHANGED <<linked, current, transfer_end, mem, queue>>
       ELSE \E got \in SUBSET Buffers, ok \in BOOLEAN :
               /\ LinkTransfer(current, got, ok)
               /\ current' = IF ok THEN current + 1 ELSE current
               /\ data_correct' = [data_correct EXCEPT ![i] = ok]
               /\ transfer_end' = (transfer_end \/ ~ok)
    /\ UNCHANGED <<scriptVars, judgeVars, max_rounds, pcVars, request_success,
                   rounds, state, pending, result, bad>>

(* A callback of a module that is gone brings the machine down and is not  *)
(* followed; PassedMeansReleased is about it.                              *)
Loaded == script \in {"init", "rmmod"}

Interrupt ==
    /\ Loaded
    /\ \E i \in Transfers :
          CallbackStop(i) \/ CallbackEntry(i) \/ CallbackBad(i) \/ CallbackGood(i)

-----------------------------------------------------------------------------
(* The scenario.  Loading a test gives it fresh variables; what an earlier *)
(* one has leaked is not followed further.                                 *)

Insmod ==
    /\ script = "insmod"
    /\ script' = "init"
    /\ pc' = "request" /\ idx' = 0 /\ polls' = 0
    /\ request_success' = FALSE
    /\ linked' = [i \in Transfers |-> FALSE]
    /\ data_correct' = [i \in Transfers |-> FALSE]
    /\ rounds' = [i \in Transfers |-> 0]
    /\ current' = 0
    /\ transfer_end' = FALSE
    /\ mem' = [i \in Transfers |-> {}]
    /\ state' = "none" /\ queue' = <<>> /\ pending' = {}
    /\ result' = [i \in Transfers |-> "none"]
    /\ cb' = NoCb /\ bad' = {}
    /\ UNCHANGED <<scenario, at, smp, shown, judgeVars, max_rounds>>

Rmmod ==
    /\ Runs
    /\ script = "init" /\ pc = "done"
    /\ script' = "rmmod"
    /\ pc' = "exit_stop"
    /\ idx' = 0
    /\ UNCHANGED <<scenario, at, smp, shown, judgeVars, max_rounds, polls, testVars, mem,
                   engineVars, cbVars>>

Unloaded ==
    /\ Runs
    /\ script = "rmmod" /\ pc = "off"
    /\ script' = "cat"
    /\ UNCHANGED <<scenario, at, smp, shown, judgeVars, max_rounds, pcVars, testVars, mem,
                   engineVars, cbVars>>

(* cat, and the next test or the end.                                      *)
dma_read_proc ==
    /\ Runs
    /\ script = "cat"
    /\ test_passed # -1
    /\ shown' = test_passed
    /\ IF at < Len(scenario)
       THEN script' = "insmod" /\ at' = at + 1
       ELSE script' = "end" /\ UNCHANGED at
    /\ UNCHANGED <<scenario, smp, judgeVars, max_rounds, pcVars, testVars, mem,
                   engineVars, cbVars>>

Test ==
    \/ request_dma_chain \/ Link \/ start_dma_chain \/ Poll \/ Check
    \/ ExitSkip \/ ExitStop \/ ExitFree \/ KFree

Script == Insmod \/ Rmmod \/ Unloaded \/ dma_read_proc

Over == script = "end" /\ UNCHANGED vars

Next == Test \/ Interrupt \/ (Loaded /\ Complete) \/ Script \/ Over

Spec == Init /\ [][Next]_vars

(* Processes and interrupts are served; the engine promises nothing.       *)
FairSpec == Spec /\ WF_vars(Test) /\ WF_vars(Interrupt) /\ WF_vars(Script)

-----------------------------------------------------------------------------
(* Properties.                                                             *)

(* A static test says PASSED only if no callback has found damage in any   *)
(* round before the check, although data_correct is reset and set in every *)
(* round: the bad round leaves rounds at its limit, so that a later        *)
(* callback of the transfer cannot set the flag again.                     *)
NoBadRoundForgotten ==
    [][Check /\ static /\ test_passed' = 1 => bad = {} /\ \A i \in Mine : result[i] # "none"]_vars

(* A dynamic test says PASSED only if every transfer but the last was      *)
(* verified and the last one completed: the callback does not verify it.   *)
DynamicPassedMeansVerified ==
    test_passed = 1 /\ judge = at /\ ~static /\ script # "insmod" =>
        /\ \A i \in Mine : result[i] # "none"
        /\ \A i \in Mine \ {TRANSFER_COUNT - 1} : result[i] = "good"

(* The verdict that cat prints is that of the test that was just removed,  *)
(* not one left from the test before it: test_passed outlives a test.      *)
VerdictIsOwn == script = "cat" => judge = at

(* On one processor, when the removed test leaves PASSED, the chain is     *)
(* free, no callback can come any more and no buffer is left allocated.    *)
PassedMeansReleased ==
    script = "cat" /\ ~smp /\ test_passed = 1 =>
        /\ state = "none" /\ pending = {} /\ cb = NoCb
        /\ \A i \in Transfers : mem[i] = {}

(* And when it leaves FAILED but could free its chain, the buffers of at   *)
(* most one transfer, the one that could not be linked, stay allocated.    *)
LeakBounded ==
    script = "cat" /\ ~smp /\ state = "none" => Cardinality({i \in Transfers : mem[i] # {}}) <= 1

(* The scenario comes to its end whatever the engine does.                 *)
ChainScenarioEnds == <>(script = "end")
=============================================================================
