------------------------------ MODULE DmaTests ------------------------------
(***************************************************************************)
(* The single channel DMA tests, each a kernel module above Dma, and the   *)
(* scenario that runs one of them:                                         *)
(*     insmod common; insmod test; rmmod test; cat /proc/...; rmmod common *)
(* A test works in its init function, so that insmod returns when it is    *)
(* over; dma_thread_access alone starts two kernel threads and returns.    *)
(* The test, the machine and its speed are chosen in the initial state.    *)
(*                                                                         *)
(*   poll          dma_burst_*.c, dma_addrmode_*.c                         *)
(*   prio_high/low dma_priority_high.c, dma_priority_low.c                 *)
(*   stop...       dma_stop_transfer.c, _twice.c, _invalid.c               *)
(*   selflink      dma_static_self_link.c, dma_unlink_*.c                  *)
(*   threads       dma_thread_access.c                                     *)
(*                                                                         *)
(* The definitions named Bug... are mistakes that the properties are known *)
(* to catch.                                                               *)
(***************************************************************************)
EXTENDS Dma

CONSTANTS
    Tests,           \* the tests that are run
    TRANSFER_COUNT,  \* length of a test's transfers[]
    POLL_COUNT       \* TRANSFER_POLL_COUNT, a bound on the polls

Threads   == {0, 1}
StopTests == {"stop", "stop_twice", "stop_invalid"}
AllTests  == {"poll", "prio_high", "prio_low", "selflink", "threads"} \cup StopTests

ASSUME TestAssumption ==
    /\ Tests \subseteq AllTests
    /\ TRANSFER_COUNT \in [AllTests -> Nat \ {0}]
    /\ TRANSFER_COUNT["stop_invalid"] > 1
    /\ POLL_COUNT \in Nat \ {0}
    /\ \A x \in AllTests : Threads \X (0 .. TRANSFER_COUNT[x] - 1) \subseteq Slots

VARIABLES
    test,    \* the test that is run
    smp,     \* the machine has two processors
    slow,    \* a callback may take longer than TRANSFER_POLL_TIME
    pc,      \* place of each thread in the test
    idx,     \* its loop variable i
    polls,   \* and the one of the polling loop
    error,   \* its variable error
    tmp,     \* the value of count it has loaded
    count,   \* threads that are over, as dma_thread_access.c counts them
    script,  \* place in the scenario
    cursor,  \* the transfer that the exit function is at
    shown    \* what cat has printed, -1 before

setVars    == <<test, smp, slow>>
threadVars == <<pc, idx, polls, error, tmp, count>>
scriptVars == <<script, cursor, shown>>
vars       == <<dmaVars, setVars, threadVars, scriptVars>>

(* The threads of the test and the transfers each of them works on.        *)
Workers   == IF test = "threads" THEN Threads ELSE {0}
N         == IF test \in StopTests THEN 1 ELSE TRANSFER_COUNT[test]
Mine(t)   == {<<t, i>> : i \in 0 .. N - 1}
All       == UNION {Mine(t) : t \in Workers}
Releases  == test \in {"poll", "prio_high", "prio_low", "threads"}

PC == {"off", "request", "buffers", "start", "poll", "check", "verdict",
       "load", "store", "stop", "free", "again", "check_stop", "end"}
Script == {"insmod_common", "insmod", "init", "rmmod", "exit_stop", "exit_free",
           "cat", "rmmod_common", "end"}

TypeOK ==
    /\ DmaTypeOK
    /\ test \in Tests /\ smp \in BOOLEAN /\ slow \in BOOLEAN
    /\ pc \in [Threads -> PC]
    /\ idx \in [Threads -> 0 .. N - 1]
    /\ polls \in [Threads -> 0 .. POLL_COUNT]
    /\ error \in [Threads -> Int]
    /\ tmp \in [Threads -> 0 .. 2] /\ count \in 0 .. 2
    /\ script \in Script
    /\ cursor \in Threads \X (0 .. N)
    /\ shown \in {-1, 0, 1}

Init ==
    /\ DmaInit
    /\ test \in Tests /\ smp \in BOOLEAN /\ slow \in BOOLEAN
    /\ test = "threads" => smp       \* kthread_bind(p2, 1)
    /\ slow => smp
    /\ pc = [t \in Threads |-> "off"]
    /\ idx = [t \in Threads |-> 0]
    /\ polls = [t \in Threads |-> 0]
    /\ error = [t \in Threads |-> 0]
    /\ tmp = [t \in Threads |-> 0]
    /\ count = 0
    /\ script = "insmod_common"
    /\ cursor = <<0, 0>>
    /\ shown = -1

-----------------------------------------------------------------------------
(* A thread of the test.  It does not run while the only processor is in   *)
(* the interrupt handler.                                                  *)

Runs == smp \/ ~InCallback

At(t, l) ==
    /\ Runs
    /\ t \in Workers
    /\ pc[t] = l
    /\ UNCHANGED <<setVars, scriptVars>>

Slot(t)  == <<t, idx[t]>>
Go(t, l) == pc' = [pc EXCEPT ![t] = l]

BugOneTooMany(t, body, after) ==
    IF idx[t] < N
    THEN Go(t, body) /\ idx' = [idx EXCEPT ![t] = @ + 1]
    ELSE Go(t, after) /\ idx' = [idx EXCEPT ![t] = 0]

(* i++ at the end of the loop body, or on to what follows the loop.        *)
NextTransfer(t, body, after) ==
    IF idx[t] + 1 < N
    THEN Go(t, body) /\ idx' = [idx EXCEPT ![t] = @ + 1]
    ELSE Go(t, after) /\ idx' = [idx EXCEPT ![t] = 0]

Request(t) ==
    /\ At(t, "request")
    /\ \/ /\ request_dma(Slot(t), TRUE)
          /\ Go(t, "buffers")
          /\ UNCHANGED verdictVars
       \/ /\ request_dma(Slot(t), FALSE)
          /\ set_test_passed(0)
          /\ Go(t, "end")
    /\ UNCHANGED <<idx, polls, error, tmp, count>>

(* create_transfer_buffers(), fill_source_buffer(), setup_dma_transfer().  *)
CreateBuffers(t) ==
    /\ At(t, "buffers")
    /\ \E got \in SUBSET Buffers :
          /\ create_transfer_buffers(Slot(t), got)
          /\ IF got = Buffers
             THEN NextTransfer(t, "request", "start") /\ UNCHANGED verdictVars
             ELSE set_test_passed(0) /\ Go(t, "end") /\ UNCHANGED idx
    /\ UNCHANGED <<polls, error, tmp, count>>

Start(t) ==
    /\ At(t, "start")
    /\ start_dma_transfer(Slot(t))
    /\ NextTransfer(t, "start", IF test \in StopTests THEN "stop" ELSE "poll")
    /\ UNCHANGED <<verdictVars, polls, error, tmp, count>>

get_transfers_finished(t) == \A s \in Mine(t) : finished[s]

(* One turn of the polling loop.  The turn that finds every transfer       *)
(* finished leaves it for the check; when the turns are used up the test   *)
(* has failed, except that a thread goes on with its error variable, which *)
(* still is the 0 of its last create_transfer_buffers().                   *)
BugTimeoutSilent(t) ==
    /\ At(t, "poll")
    /\ IF get_transfers_finished(t)
       THEN Go(t, "check") /\ UNCHANGED polls
       ELSE /\ polls' = [polls EXCEPT ![t] = @ + 1]
            /\ IF polls[t] + 1 < POLL_COUNT THEN UNCHANGED pc ELSE Go(t, "end")
    /\ UNCHANGED <<dmaVars, idx, error, tmp, count>>

Poll(t) ==
    /\ At(t, "poll")
    /\ IF get_transfers_finished(t)
       THEN Go(t, "check") /\ UNCHANGED <<verdictVars, polls, error>>
       ELSE /\ polls' = [polls EXCEPT ![t] = @ + 1]
            /\ IF polls[t] + 1 < POLL_COUNT
               THEN UNCHANGED <<verdictVars, pc, error>>
               ELSE IF test = "threads"
               THEN Go(t, "verdict") /\ UNCHANGED <<verdictVars, error>>
               ELSE Go(t, "end") /\ set_test_passed(0) /\ UNCHANGED error
    /\ UNCHANGED <<transferVars, engineVars, idx, tmp, count>>

(* mdelay(TRANSFER_POLL_TIME) before the check: the last callback is over  *)
(* by then, unless it is slow.                                             *)
BugNoDelay(t) == TRUE
Waited(t) == slow \/ \A s \in Mine(t) : cb[s] = "none"

(* check_test_passed() of the tests that poll.                             *)
check_test_passed ==
    /\ \A s \in All : data_correct[s]
    /\ test = "prio_high" => first = <<0, N - 1>>
    /\ test = "prio_low" => first # <<0, 0>>

Check(t) ==
    /\ At(t, "check")
    /\ Waited(t)
    /\ IF test = "threads"
       THEN /\ error' = [error EXCEPT ![t] =
                  check_dma_transfer_complete([i \in 0 .. N - 1 |-> <<t, i>>], N)]
            /\ Go(t, "verdict")
            /\ UNCHANGED verdictVars
       ELSE /\ set_test_passed(IF check_test_passed THEN 1 ELSE 0)
            /\ Go(t, "end")
            /\ UNCHANGED error
    /\ UNCHANGED <<transferVars, engineVars, idx, polls, tmp, count>>

Verdict(t) ==
    /\ At(t, "verdict")
    /\ set_test_passed(IF error[t] = 0 THEN 1 ELSE 0)
    /\ Go(t, "load")
    /\ UNCHANGED <<transferVars, engineVars, idx, polls, error, tmp, count>>

(* count += 1 without a lock: a load, then a store.                        *)
CountLoad(t) ==
    /\ At(t, "load")
    /\ tmp' = [tmp EXCEPT ![t] = count]
    /\ Go(t, "store")
    /\ UNCHANGED <<dmaVars, idx, polls, error, count>>

CountStore(t) ==
    /\ At(t, "store")
    /\ count' = tmp[t] + 1
    /\ Go(t, "end")
    /\ UNCHANGED <<dmaVars, idx, polls, error, tmp>>

(* The tests that stop their transfer while it runs.  "again" is the       *)
(* second stop_dma_transfer() of stop_twice, which must be refused, and in *)
(* stop_invalid the stop of a transfer that was never requested, which     *)
(* changes nothing; were it not refused, the model would deadlock here.    *)
Stop(t) ==
    /\ At(t, "stop")
    /\ request_success[Slot(t)]
    /\ stop_channel(Slot(t))
    /\ Go(t, "free")
    /\ UNCHANGED <<verdictVars, idx, polls, error, tmp, count>>

Free(t) ==
    /\ At(t, "free")
    /\ free_buffers(Slot(t))
    /\ IF test = "stop" THEN Go(t, "check_stop") ELSE Go(t, "again")
    /\ IF test = "stop_twice" THEN set_test_passed(1) ELSE UNCHANGED verdictVars
    /\ UNCHANGED <<idx, polls, error, tmp, count>>

StopAgain(t) ==
    /\ At(t, "again")
    /\ IF test = "stop_twice"
       THEN ~request_success[Slot(t)] /\ set_test_passed(1)
       ELSE ~request_success[<<0, 1>>] /\ UNCHANGED verdictVars
    /\ Go(t, "check_stop")
    /\ UNCHANGED <<transferVars, engineVars, idx, polls, error, tmp, count>>

BugAlwaysPassed(t) ==
    /\ At(t, "check_stop")
    /\ set_test_passed(1)
    /\ Go(t, "end")
    /\ UNCHANGED <<transferVars, engineVars, idx, polls, error, tmp, count>>

CheckStop(t) ==
    /\ At(t, "check_stop")
    /\ LET checked == IF test = "stop_invalid" THEN <<0, 1>> ELSE Slot(t)
       IN  set_test_passed(IF finished[checked] THEN 0 ELSE 1)
    /\ Go(t, "end")
    /\ UNCHANGED <<transferVars, engineVars, idx, polls, error, tmp, count>>

-----------------------------------------------------------------------------
(* The scenario.                                                           *)

InsmodCommon ==
    /\ script = "insmod_common"
    /\ script' = "insmod"
    /\ UNCHANGED <<dmaVars, setVars, threadVars, cursor, shown>>

(* The init function begins, or starts the threads and is over.            *)
Insmod ==
    /\ script = "insmod"
    /\ pc' = [t \in Threads |-> IF t \in Workers THEN "request" ELSE "off"]
    /\ script' = IF test = "threads" THEN "rmmod" ELSE "init"
    /\ UNCHANGED <<dmaVars, setVars, idx, polls, error, tmp, count, cursor, shown>>

(* insmod returns; the module stays loaded whatever init returned.         *)
InitDone ==
    /\ Runs
    /\ script = "init"
    /\ pc[0] = "end"
    /\ script' = "rmmod"
    /\ UNCHANGED <<dmaVars, setVars, threadVars, cursor, shown>>

(* The exit function: nothing, or stop_dma_transfer() of each transfer, in *)
(* dma_thread_access.c once both threads are counted and in turn for the   *)
(* two arrays.                                                             *)
BugNoWaitForThreads == TRUE
ThreadsCounted == test = "threads" => count >= 2

Rmmod ==
    /\ Runs
    /\ script = "rmmod"
    /\ ThreadsCounted
    /\ script' = IF Releases THEN "exit_stop" ELSE "cat"
    /\ UNCHANGED <<dmaVars, setVars, threadVars, cursor, shown>>

BugFirstArrayOnly == <<0, cursor[2] + 1>>

NextCursor ==
    IF test = "threads" /\ cursor[1] = 0
    THEN <<1, cursor[2]>>
    ELSE <<0, cursor[2] + 1>>

Advance ==
    /\ cursor' = NextCursor
    /\ script' = IF NextCursor[2] = N THEN "cat" ELSE "exit_stop"

ExitRefused ==
    /\ Runs
    /\ script = "exit_stop"
    /\ ~request_success[cursor]
    /\ Advance
    /\ UNCHANGED <<dmaVars, setVars, threadVars, shown>>

ExitStop ==
    /\ Runs
    /\ script = "exit_stop"
    /\ request_success[cursor]
    /\ stop_channel(cursor)
    /\ script' = "exit_free"
    /\ UNCHANGED <<verdictVars, setVars, threadVars, cursor, shown>>

ExitFree ==
    /\ Runs
    /\ script = "exit_free"
    /\ free_buffers(cursor)
    /\ Advance
    /\ UNCHANGED <<verdictVars, setVars, threadVars, shown>>

(* dma_read_proc() waits for a verdict and prints it.                      *)
dma_read_proc ==
    /\ Runs
    /\ script = "cat"
    /\ test_passed # -1
    /\ shown' = test_passed
    /\ script' = "rmmod_common"
    /\ UNCHANGED <<dmaVars, setVars, threadVars, cursor>>

RmmodCommon ==
    /\ Runs
    /\ script = "rmmod_common"
    /\ script' = "end"
    /\ UNCHANGED <<dmaVars, setVars, threadVars, cursor, shown>>

-----------------------------------------------------------------------------
Interrupt(s) ==
    /\ CallbackEntry(s, test = "selflink") \/ CallbackVerify(s)
    /\ UNCHANGED <<setVars, threadVars, scriptVars>>

Engine(s) == Complete(s) /\ UNCHANGED <<setVars, threadVars, scriptVars>>

Thread(t) ==
    \/ Request(t) \/ CreateBuffers(t) \/ Start(t)
    \/ Poll(t) \/ Check(t) \/ Verdict(t) \/ CountLoad(t) \/ CountStore(t)
    \/ Stop(t) \/ Free(t) \/ StopAgain(t) \/ CheckStop(t)

Scenario ==
    \/ InsmodCommon \/ Insmod \/ InitDone
    \/ Rmmod \/ ExitRefused \/ ExitStop \/ ExitFree
    \/ dma_read_proc \/ RmmodCommon

(* A thread that failed early is not counted and rmmod waits for ever, as  *)
(* it does when one of two counts is lost.                                 *)
Uncounted ==
    test = "threads" /\ count < 2 /\ \A t \in Threads : pc[t] = "end"

Over == (script = "end" \/ Uncounted) /\ UNCHANGED vars

Next ==
    \/ \E t \in Threads : Thread(t)
    \/ \E s \in Slots : Interrupt(s) \/ Engine(s)
    \/ Scenario
    \/ Over

Spec == Init /\ [][Next]_vars

(* Processes and interrupts are served; the engine promises nothing.       *)
FairSpec ==
    /\ Spec
    /\ \A t \in Threads : WF_vars(Thread(t))
    /\ \A s \in Slots : WF_vars(Interrupt(s))
    /\ WF_vars(Scenario)

-----------------------------------------------------------------------------
(* Properties.                                                             *)

(* A test that polls says PASSED only if every one of its transfers        *)
(* completed and arrived undamaged, and in the priority tests the first    *)
(* callback was that of an expected transfer: the flags that the interrupt *)
(* handler leaves are enough evidence for check_test_passed().             *)
PassedMeansVerified ==
    test_passed = 1 /\ test \in {"poll", "prio_high", "prio_low", "selflink"} =>
        /\ \A s \in All : result[s] = "good"
        /\ test = "prio_high" => first = <<0, N - 1>>
        /\ test = "prio_low" => first \in All \ {<<0, 0>>}

(* The same of dma_thread_access.c and the verdict that cat prints; its    *)
(* comment says of set_test_passed(0) that "This will happen if the poll   *)
(* retries have been reached".                                             *)
ThreadsPassedMeansVerified ==
    shown = 1 /\ test = "threads" =>
        \A s \in All : result[s] = "good"

(* A polling test that says FAILED has a reason: a request or an           *)
(* allocation failed, the polls ran out, a transfer arrived damaged, or    *)
(* the order was wrong.  It never fails because the check overtook a       *)
(* callback, as long as a callback fits into the delay.                    *)
FailedHasReason ==
    test_passed = 0 /\ test \notin {"threads"} \cup StopTests /\ ~slow /\ script = "init" =>
        \/ \E s \in All : ~request_success[s] \/ mem[s] # Buffers
        \/ polls[0] = POLL_COUNT
        \/ \E s \in All : result[s] \in {"bad_status", "mismatch"}
        \/ test = "prio_high" /\ first # <<0, N - 1>>
        \/ test = "prio_low" /\ first = <<0, 0>>

(* A transfer that was stopped in time stays stopped: once stop and        *)
(* stop_twice have said PASSED at their end, the callback of their         *)
(* transfer never comes, on one processor.                                 *)
StopIsFinal ==
    test \in {"stop", "stop_twice"} /\ ~smp /\ pc[0] = "end" /\ test_passed = 1 =>
        \A s \in Slots : ~finished[s] /\ chan[s] = "free"

(* After rmmod nothing is left: every channel that the test was given is   *)
(* free and every buffer it got is freed, wherever its init function gave  *)
(* up (a refused channel, one of two buffers, a time-out).                 *)
ReleasedOnUnload ==
    Releases /\ script \in {"cat", "rmmod_common", "end"} =>
        \A s \in Slots : chan[s] = "free" /\ mem[s] = {}

(* A callback never runs on freed buffers, or after its module is gone,    *)
(* when there is one processor: stop_dma_transfer() frees the channel      *)
(* before the buffers.                                                     *)
BuffersOutliveCallbacks ==
    ~smp /\ test # "selflink" => \A s \in Slots :
        /\ cb[s] # "none" => mem[s] = Buffers
        /\ cb[s] # "none" => script \notin {"cat", "rmmod_common", "end"}

(* The verdict that cat has printed is the final one.  The scenario gets   *)
(* this by removing the test first, and the threads by being counted after *)
(* they have set their verdict.                                            *)
ShownIsFinal == shown # -1 => shown = test_passed

(* The scenario comes to its end whatever the engine does, unless a thread *)
(* was not counted: every way through a test sets a verdict for cat.       *)
ScenarioEnds == <>(script = "end" \/ Uncounted)
=============================================================================
