------------------------------ MODULE Parallel ------------------------------
(***************************************************************************)
(* handlerProcessParallelism.sh, its executors and handlerError.sh, as the *)
(* scenarios use them: blocks of "clean", several "add" and one "execute", *)
(* each a process of its own, one after the other.  "execute" starts one   *)
(* handlerProcessParallelismExecutor.sh for each command and waits.  The   *)
(* executors share the list files; a command may itself be a handler and   *)
(* log a "halt" error, which makes every later operation refuse.           *)
(*                                                                         *)
(* A command is known by its instance, the number of its line in the list, *)
(* and a list of results by how many of its lines name each instance.  The *)
(* list of pids is left out: the executors write it and nobody reads it.   *)
(* The definitions named Bug... are mistakes that the properties are known *)
(* to catch.                                                               *)
(***************************************************************************)
EXTENDS Integers

CONSTANTS
    Plans,          \* the scenarios: numbers of commands of their blocks
    MaxBlocks,      \* bound on the blocks of a scenario
    MaxCommands     \* bound on the commands of a block

ASSUME PlanAssumption ==
    /\ MaxBlocks \in Nat \ {0} /\ MaxCommands \in Nat \ {0}
    /\ Plans \subseteq UNION {[1 .. n -> 1 .. MaxCommands] : n \in 1 .. MaxBlocks}

VARIABLES
    plan, block,     \* the scenario and the block it is in
    op, added,       \* the next operation, the commands added in the block
    pc,              \* place in the operation
    status,          \* exit status of the last operation
    executed,        \* the last operation executed a list
    instance,        \* LOCAL_COMMAND_INSTANCE
    totals,          \* HPPA_LIST_CMDS_TOTALS, its length
    passed,          \* HPPA_LIST_CMDS_PASSED
    failed,          \* HPPA_LIST_CMDS_FAILED
    failedFile,      \* HPPA_LIST_CMDS_FAILED exists
    ex,              \* place of each executor
    ok,              \* whether its command exited with 0
    halt             \* HE_ERROR_FILE_HALT exists

fileVars == <<totals, passed, failed, failedFile>>
placeVars == <<plan, block, op, added>>
opVars   == <<placeVars, pc, status, executed, instance>>
exVars   == <<ex, ok>>
vars     == <<opVars, fileVars, exVars, halt>>

Executors == 1 .. MaxCommands

NoLines == [i \in Executors |-> 0]

ExStates == {"none", "run", "fail", "pass", "gone"}

(* The shapes of the state; the loop starts no executor the list does not  *)
(* name.                                                                   *)
TypeOK ==
    /\ plan \in Plans /\ block \in DOMAIN plan
    /\ op \in {"clean", "add", "execute", "end"} /\ added \in 0 .. MaxCommands
    /\ pc \in {"test", "body", "spawn", "wait"}
    /\ status \in {0, 1} /\ executed \in BOOLEAN
    /\ totals \in 0 .. MaxCommands
    /\ instance \in 0 .. MaxCommands
    /\ pc \in {"spawn", "wait"} => instance <= totals
    /\ passed \in [Executors -> Nat] /\ failed \in [Executors -> Nat]
    /\ failedFile \in BOOLEAN
    /\ ex \in [Executors -> ExStates] /\ ok \in [Executors -> BOOLEAN]
    /\ halt \in BOOLEAN

(* The lists are what an earlier scenario left.                            *)
Init ==
    /\ plan \in Plans /\ block = 1
    /\ op = "clean" /\ added = 0
    /\ pc = "test"
    /\ status = 0 /\ executed = FALSE
    /\ instance = 0
    /\ totals \in {0, 1}
    /\ passed \in {NoLines, [NoLines EXCEPT ![1] = totals]}
    /\ failedFile \in BOOLEAN
    /\ failed = [NoLines EXCEPT ![1] = IF failedFile THEN 1 ELSE 0]
    /\ ex = [i \in Executors |-> "none"]
    /\ ok = [i \in Executors |-> FALSE]
    /\ halt = FALSE

-----------------------------------------------------------------------------
(* An operation exits with s and the scenario goes on to the next one,     *)
(* whatever s is.                                                          *)
Exits(s, didExecute) ==
    /\ status' = s
    /\ executed' = didExecute
    /\ pc' = "test"
    /\ \/ op = "clean" /\ op' = "add" /\ added' = 0 /\ UNCHANGED block
       \/ /\ op = "add"
          /\ added' = added + 1
          /\ op' = IF added + 1 < plan[block] THEN "add" ELSE "execute"
          /\ UNCHANGED block
       \/ /\ op = "execute" /\ block + 1 \in DOMAIN plan
          /\ block' = block + 1 /\ op' = "clean"
          /\ UNCHANGED added
       \/ /\ op = "execute" /\ block + 1 \notin DOMAIN plan
          /\ op' = "end"
          /\ UNCHANGED <<block, added>>
    /\ UNCHANGED <<plan, instance>>

(* handlerError.sh "test", with which every operation begins.              *)
BugNoTest ==
    /\ pc = "test" /\ op # "end"
    /\ pc' = "body"
    /\ UNCHANGED <<placeVars, status, executed, instance, fileVars, exVars, halt>>

TestHalt ==
    /\ pc = "test" /\ op # "end"
    /\ \/ halt /\ Exits(1, FALSE)
       \/ ~halt /\ pc' = "body" /\ UNCHANGED <<placeVars, status, executed, instance>>
    /\ UNCHANGED <<fileVars, exVars, halt>>

BugFailedKept ==
    /\ pc = "body" /\ op = "clean"
    /\ totals' = 0 /\ passed' = NoLines
    /\ Exits(0, FALSE)
    /\ UNCHANGED <<failed, failedFile, exVars, halt>>

clean ==
    /\ pc = "body" /\ op = "clean"
    /\ totals' = 0 /\ passed' = NoLines
    /\ failed' = NoLines /\ failedFile' = FALSE
    /\ Exits(0, FALSE)
    /\ UNCHANGED <<exVars, halt>>

add ==
    /\ pc = "body" /\ op = "add"
    /\ totals' = totals + 1
    /\ Exits(0, FALSE)
    /\ UNCHANGED <<passed, failed, failedFile, exVars, halt>>

execute ==
    /\ pc = "body" /\ op = "execute"
    /\ pc' = "spawn" /\ instance' = 0
    /\ ex' = [i \in Executors |-> "none"]
    /\ ok' = [i \in Executors |-> FALSE]
    /\ UNCHANGED <<placeVars, status, executed, fileVars, halt>>

(* The loop over the list starts an executor for each line in turn.        *)
LineLeft == instance < totals

Spawn ==
    /\ pc = "spawn"
    /\ \/ /\ LineLeft
          /\ instance' = instance + 1
          /\ ex' = [ex EXCEPT ![instance + 1] = "run"]
          /\ UNCHANGED pc
       \/ ~LineLeft /\ pc' = "wait" /\ UNCHANGED <<instance, ex>>
    /\ UNCHANGED <<placeVars, status, executed, fileVars, ok, halt>>

(* wait, then a failed list decides the exit status.                       *)
BugWaitsForPassed == \A i \in 1 .. totals : passed[i] > 0
AllWaitedFor == \A i \in Executors : ex[i] \in {"none", "gone"}

Wait ==
    /\ pc = "wait"
    /\ AllWaitedFor
    /\ Exits(IF failedFile THEN 1 ELSE 0, TRUE)
    /\ UNCHANGED <<fileVars, exVars, halt>>

-----------------------------------------------------------------------------
(* An executor's command ends when and how it likes and may have logged an *)
(* error with the flag "halt".                                             *)
CommandEnds(i) ==
    /\ ex[i] = "run"
    /\ \E well \in BOOLEAN :
          /\ ok' = [ok EXCEPT ![i] = well]
          /\ ex' = [ex EXCEPT ![i] = IF well THEN "pass" ELSE "fail"]
    /\ halt' \in {halt, TRUE}
    /\ UNCHANGED <<opVars, fileVars>>

BugGoesOn(i) ==
    /\ ex[i] = "fail"
    /\ failed' = [failed EXCEPT ![i] = @ + 1] /\ failedFile' = TRUE
    /\ ex' = [ex EXCEPT ![i] = "pass"]
    /\ UNCHANGED <<opVars, totals, passed, ok, halt>>

Failed(i) ==
    /\ ex[i] = "fail"
    /\ failed' = [failed EXCEPT ![i] = @ + 1] /\ failedFile' = TRUE
    /\ ex' = [ex EXCEPT ![i] = "gone"]
    /\ UNCHANGED <<opVars, totals, passed, ok, halt>>

Passed(i) ==
    /\ ex[i] = "pass"
    /\ passed' = [passed EXCEPT ![i] = @ + 1]
    /\ ex' = [ex EXCEPT ![i] = "gone"]
    /\ UNCHANGED <<opVars, totals, failed, failedFile, ok, halt>>

Executor(i) == CommandEnds(i) \/ Failed(i) \/ Passed(i)

Handler == TestHalt \/ clean \/ add \/ execute \/ Spawn \/ Wait

Over == op = "end" /\ UNCHANGED vars

Next == Handler \/ (\E i \in Executors : Executor(i)) \/ Over

Spec == Init /\ [][Next]_vars

(* The scripts are scheduled and the commands end.                         *)
FairSpec ==
    /\ Spec
    /\ WF_vars(Handler)
    /\ \A i \in Executors : WF_vars(Executor(i))

-----------------------------------------------------------------------------
(* The block whose list was executed, when executed.                       *)
ExecutedBlock == IF op = "end" THEN block ELSE block - 1

(* "execute" exits with 0 if and only if every command that was added in   *)
(* this block exited with 0, whatever earlier blocks and scenarios left in *)
(* the lists: the failed list is the executors' only message to it.        *)
VerdictExact ==
    executed =>
        (status = 0 <=> \A i \in 1 .. plan[ExecutedBlock] : ex[i] = "gone" /\ ok[i])

(* When "execute" reports, each command of the block has exactly one line, *)
(* in the passed list or in the failed list, and the lists have no others. *)
Accounted ==
    executed =>
        \A i \in Executors :
            passed[i] + failed[i] = IF i <= plan[ExecutedBlock] THEN 1 ELSE 0

(* From the time a halt is logged, once the executors are gone, no later   *)
(* operation of the scenario changes a list: what failed stays on disk.    *)
EvidenceKept ==
    [][halt /\ pc = "test" => UNCHANGED fileVars /\ pc' = "test"]_vars

(* An "execute" that has started its executors returns, whatever they do.  *)
ExecuteReturns == (pc = "wait") ~> (pc = "test")
=============================================================================
