-------------------------------- MODULE Dma --------------------------------
(***************************************************************************)
(* The common module of the single channel DMA tests                       *)
(* (dma_single_channel.c): the verdict behind /proc, the operations on a   *)
(* transfer and the callback, above the engine that omap_request_dma(),    *)
(* omap_start_dma() and their like drive, which is the kernel's and        *)
(* external here.  A slot is one element of a transfers[] array.           *)
(*                                                                         *)
(* The callback runs in the interrupt handler and takes two steps: its     *)
(* entry, which publishes "finished", and the verification of the buffers. *)
(* On a machine with one processor nothing else runs in between.           *)
(***************************************************************************)
EXTENDS Integers, FiniteSets

CONSTANTS
    Slots,    \* the elements of the transfers[] arrays
    NoSlot    \* no element

ASSUME SlotAssumption == NoSlot \notin Slots

VARIABLES
    test_passed,      \* the verdict: -1 none, 0 FAILED, 1 PASSED
    finished,         \* struct dma_transfer: the callback was called
    data_correct,     \*    the buffers were compared and found equal
    request_success,  \*    the transfer owns a channel and its buffers
    mem,              \*    the buffers that are allocated
    chan,             \* engine: state of the slot's channel
    result,           \* engine: how the transfer ended, "none" before
    cb,               \* callback in progress on the slot
    first             \* transfer_finished_order[0]

verdictVars  == <<test_passed>>
transferVars == <<finished, data_correct, request_success, mem>>
engineVars   == <<chan, result, cb, first>>
dmaVars      == <<verdictVars, transferVars, engineVars>>

Buffers == {"src", "dest"}

DmaTypeOK ==
    /\ test_passed \in {-1, 0, 1}
    /\ finished \in [Slots -> BOOLEAN]
    /\ data_correct \in [Slots -> BOOLEAN]
    /\ request_success \in [Slots -> BOOLEAN]
    /\ mem \in [Slots -> SUBSET Buffers]
    /\ chan \in [Slots -> {"free", "idle", "running", "irq"}]
    /\ result \in [Slots -> {"none", "good", "bad_status", "mismatch"}]
    /\ cb \in [Slots -> {"none", "verify"}]
    /\ first \in Slots \cup {NoSlot}

DmaInit ==
    /\ test_passed = -1
    /\ finished = [s \in Slots |-> FALSE]
    /\ data_correct = [s \in Slots |-> FALSE]
    /\ request_success = [s \in Slots |-> FALSE]
    /\ mem = [s \in Slots |-> {}]
    /\ chan = [s \in Slots |-> "free"]
    /\ result = [s \in Slots |-> "none"]
    /\ cb = [s \in Slots |-> "none"]
    /\ first = NoSlot

InCallback == \E s \in Slots : cb[s] # "none"

-----------------------------------------------------------------------------
(* Operations.  Each is the conjunct of an action of the test that calls   *)
(* it and says what becomes of dmaVars.                                    *)

set_test_passed(passed) == test_passed' = passed

(* -(i) for the first transfer i that is not correct, 0 if there is none.  *)
check_dma_transfer_complete(seq, n) ==
    IF \A i \in 0 .. n - 1 : data_correct[seq[i]] THEN 0
    ELSE -(CHOOSE i \in 0 .. n - 1 :
             ~data_correct[seq[i]] /\ \A j \in 0 .. i - 1 : data_correct[seq[j]])

(* omap_request_dma() may be out of channels.                              *)
request_dma(s, ok) ==
    /\ finished' = [finished EXCEPT ![s] = FALSE]
    /\ request_success' = [request_success EXCEPT ![s] = ok]
    /\ chan' = [chan EXCEPT ![s] = IF ok THEN "idle" ELSE @]
    /\ UNCHANGED <<data_correct, mem, result, cb, first>>

(* Each of the two kmalloc() may fail; what was got is kept.               *)
create_transfer_buffers(s, got) ==
    /\ mem' = [mem EXCEPT ![s] = got]
    /\ UNCHANGED <<finished, data_correct, request_success, engineVars>>

start_dma_transfer(s) ==
    /\ chan' = [chan EXCEPT ![s] = "running"]
    /\ UNCHANGED <<transferVars, result, cb, first>>

(* stop_dma_transfer() in two steps: the channel, then the buffers.        *)
BugStopForgotten(s) == UNCHANGED <<transferVars, engineVars>>

stop_channel(s) ==
    /\ chan' = [chan EXCEPT ![s] = "free"]
    /\ UNCHANGED <<transferVars, result, cb, first>>

free_buffers(s) ==
    /\ mem' = [mem EXCEPT ![s] = {}]
    /\ request_success' = [request_success EXCEPT ![s] = FALSE]
    /\ UNCHANGED <<finished, data_correct, engineVars>>

-----------------------------------------------------------------------------
(* The engine and the interrupt.                                           *)

(* External: a running transfer ends, well or badly, or never.             *)
Complete(s) ==
    /\ chan[s] = "running"
    /\ chan' = [chan EXCEPT ![s] = "irq"]
    /\ \E r \in {"good", "bad_status", "mismatch"} :
          result' = [result EXCEPT ![s] = r]
    /\ UNCHANGED <<verdictVars, transferVars, cb, first>>

(* dma_callback() up to the test of the status.  The engine has one        *)
(* interrupt, so callbacks do not overlap.  A self linked transfer stops   *)
(* and frees its own channel here.                                         *)
BugAssumedCorrect(s, selflink) ==
    /\ chan[s] = "irq"
    /\ ~InCallback
    /\ data_correct' = [data_correct EXCEPT ![s] = TRUE]
    /\ finished' = [finished EXCEPT ![s] = TRUE]
    /\ chan' = [chan EXCEPT ![s] = IF selflink THEN "free" ELSE "idle"]
    /\ first' = IF first = NoSlot THEN s ELSE first
    /\ cb' = [cb EXCEPT ![s] = IF result[s] = "bad_status" THEN "none" ELSE "verify"]
    /\ UNCHANGED <<verdictVars, request_success, mem, result>>

CallbackEntry(s, selflink) ==
    /\ chan[s] = "irq"
    /\ ~InCallback
    /\ data_correct' = [data_correct EXCEPT ![s] = FALSE]
    /\ finished' = [finished EXCEPT ![s] = TRUE]
    /\ chan' = [chan EXCEPT ![s] = IF selflink THEN "free" ELSE "idle"]
    /\ first' = IF first = NoSlot THEN s ELSE first
    /\ cb' = [cb EXCEPT ![s] = IF result[s] = "bad_status" THEN "none" ELSE "verify"]
    /\ UNCHANGED <<verdictVars, request_success, mem, result>>

(* verify_buffers(): reads of freed memory may say anything.               *)
verify_buffers(s) ==
    IF mem[s] = Buffers THEN {result[s] = "good"} ELSE BOOLEAN

CallbackVerify(s) ==
    /\ cb[s] = "verify"
    /\ \E equal \in verify_buffers(s) :
          data_correct' = [data_correct EXCEPT ![s] = equal]
    /\ cb' = [cb EXCEPT ![s] = "none"]
    /\ UNCHANGED <<verdictVars, finished, request_success, mem, chan, result, first>>
=============================================================================
