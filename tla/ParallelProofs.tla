--------------------------- MODULE ParallelProofs ---------------------------
(***************************************************************************)
(* For any scenario and any number of commands, what "execute" reports is  *)
(* what its commands did.  The invariant follows the lists through a       *)
(* block: until a halt they hold what this block's operations wrote, and   *)
(* while the executors run each of them is in the list its place says.     *)
(***************************************************************************)
EXTENDS Parallel, TLAPS

Quiet == \A i \in Executors : ex[i] \in {"none", "gone"}

(* Where a block is, and that only "execute" has executors.                *)
PhaseOK ==
    /\ pc \in {"spawn", "wait"} => op = "execute"
    /\ op = "end" => pc = "test"
    /\ pc \in {"test", "body"} => Quiet
    /\ pc \in {"body"} => ~halt
    /\ op = "add" => added < plan[block]
    /\ op = "execute" => added = plan[block]
    /\ op \in {"add", "execute"} => ~executed

(* What a block that was not halted has put into the lists.                *)
ListsOK ==
    /\ ~halt /\ op = "add" => totals = added
    /\ ~halt /\ op = "execute" => totals = plan[block]
    /\ pc \in {"spawn", "wait"} => totals = plan[block]
    /\ ~halt /\ (op = "add" \/ (op = "execute" /\ pc \in {"test", "body"})) =>
          passed = NoLines /\ failed = NoLines /\ ~failedFile

(* The executors' lines, of n commands that were started.                  *)
LinesOK(n) ==
    /\ \A i \in Executors :
          /\ ex[i] # "none" <=> i <= n
          /\ passed[i] = IF ex[i] = "gone" /\ ok[i] THEN 1 ELSE 0
          /\ failed[i] = IF ex[i] = "gone" /\ ~ok[i] THEN 1 ELSE 0
          /\ ex[i] = "pass" => ok[i]
          /\ ex[i] = "fail" => ~ok[i]
    /\ failedFile <=> \E i \in Executors : ex[i] = "gone" /\ ~ok[i]

ExecutionOK ==
    /\ pc \in {"spawn", "wait"} => LinesOK(instance)
    /\ pc = "wait" => instance = totals

ReportOK ==
    executed =>
        /\ ExecutedBlock \in DOMAIN plan
        /\ LinesOK(plan[ExecutedBlock])
        /\ VerdictExact

Inv == TypeOK /\ PhaseOK /\ ListsOK /\ ExecutionOK /\ ReportOK

-----------------------------------------------------------------------------
(* A scenario is a function from its blocks to numbers of commands.        *)
LEMMA PlanFacts ==
    ASSUME NEW p \in Plans
    PROVE  \E n \in 1 .. MaxBlocks :
               /\ DOMAIN p = 1 .. n
               /\ \A b \in 1 .. n : p[b] \in 1 .. MaxCommands
  BY PlanAssumption

(* The blocks after the first have a predecessor.                          *)
LEMMA PlanType ==
    ASSUME TypeOK
    PROVE  /\ block \in Nat /\ block >= 1
           /\ plan[block] \in 1 .. MaxCommands
           /\ \A b \in DOMAIN plan : plan[b] \in 1 .. MaxCommands
           /\ MaxCommands \in Nat \ {0}
           /\ 1 \in DOMAIN plan
<1>1. PICK n \in 1 .. MaxBlocks :
          DOMAIN plan = 1 .. n /\ \A b \in 1 .. n : plan[b] \in 1 .. MaxCommands
  BY PlanFacts DEF TypeOK
<1> QED
  BY <1>1, PlanAssumption DEF TypeOK

(* The invariant holds whatever lists an earlier scenario left.            *)
LEMMA InitInv == Init => Inv
<1> SUFFICES ASSUME Init PROVE Inv
  OBVIOUS
<1>1. PICK n \in 1 .. MaxBlocks :
          DOMAIN plan = 1 .. n /\ \A b \in 1 .. n : plan[b] \in 1 .. MaxCommands
  BY PlanFacts DEF Init
<1>a. /\ MaxCommands \in Nat \ {0}
      /\ 1 \in Executors /\ NoLines \in [Executors -> Nat]
  BY PlanAssumption DEF Executors, NoLines
<1>b. passed \in [Executors -> Nat] /\ failed \in [Executors -> Nat]
  BY <1>a DEF Init
<1>c. /\ ex \in [Executors -> ExStates] /\ ok \in [Executors -> BOOLEAN]
      /\ block \in DOMAIN plan /\ totals \in 0 .. MaxCommands
      /\ added \in 0 .. MaxCommands /\ instance \in 0 .. MaxCommands
  BY <1>1, <1>a DEF Init, ExStates
<1>2. TypeOK
  BY <1>b, <1>c DEF Init, TypeOK
<1>3. PhaseOK /\ ListsOK /\ ExecutionOK /\ ReportOK
  BY DEF Init, PhaseOK, Quiet, ListsOK, ExecutionOK, ReportOK
<1> QED
  BY <1>2, <1>3 DEF Inv

-----------------------------------------------------------------------------
(* TestHalt: a refused operation leaves the lists, and executes nothing.   *)
LEMMA TestHaltInv == Inv /\ TestHalt => Inv'
<1> SUFFICES ASSUME Inv, TestHalt PROVE Inv'
  OBVIOUS
<1> USE DEF Inv
<1>0. /\ UNCHANGED <<totals, passed, failed, failedFile, ex, ok, halt, plan, instance>>
      /\ pc = "test" /\ pc' \in {"test", "body"}
  BY DEF TestHalt, Exits, fileVars, exVars, placeVars
<1>1. CASE halt /\ Exits(1, FALSE)
  <2>a. added' \in 0 .. MaxCommands /\ block' \in DOMAIN plan
    BY <1>1, PlanType DEF TypeOK, PhaseOK, Exits
  <2>b. op' \in {"clean", "add", "execute", "end"} /\ status' = 1 /\ executed' = FALSE
    BY <1>1 DEF TypeOK, Exits
  <2>c. pc' = "test"
    BY <1>1 DEF Exits
  <2>1. TypeOK'
    BY <1>0, <2>a, <2>b, <2>c DEF TypeOK
  <2>2. PhaseOK'
    BY <1>0, <1>1, PlanType DEF TypeOK, PhaseOK, Exits, Quiet
  <2>3. ListsOK' /\ ExecutionOK' /\ ReportOK'
    BY <1>0, <1>1 DEF ListsOK, ExecutionOK, ReportOK, Exits
  <2> QED BY <2>1, <2>2, <2>3
<1>2. CASE ~halt /\ pc' = "body" /\ UNCHANGED <<placeVars, status, executed, instance>>
  <2>1. TypeOK'
    BY <1>0, <1>2 DEF TypeOK, placeVars
  <2>2. PhaseOK' /\ ListsOK' /\ ExecutionOK'
    BY <1>0, <1>2 DEF PhaseOK, Quiet, ListsOK, ExecutionOK, placeVars, TestHalt
  <2>3. ReportOK'
    BY <1>0, <1>2 DEF ReportOK, placeVars, LinesOK, ExecutedBlock, VerdictExact
  <2> QED BY <2>1, <2>2, <2>3
<1> QED
  BY <1>1, <1>2 DEF TestHalt

(* clean empties every list.                                               *)
LEMMA CleanInv == Inv /\ clean => Inv'
<1> SUFFICES ASSUME Inv, clean PROVE Inv'
  OBVIOUS
<1> USE DEF Inv
<1>0. /\ op = "clean" /\ op' = "add" /\ added' = 0 /\ pc = "body" /\ pc' = "test"
      /\ totals' = 0 /\ passed' = NoLines /\ failed' = NoLines /\ failedFile' = FALSE
      /\ status' = 0 /\ executed' = FALSE
      /\ UNCHANGED <<plan, block, instance, ex, ok, halt>>
  BY DEF clean, Exits, exVars
<1>a. 0 \in 0 .. MaxCommands /\ NoLines \in [Executors -> Nat]
  BY PlanType DEF NoLines
<1>1. TypeOK'
  BY <1>0, <1>a DEF TypeOK
<1>2. PhaseOK'
  BY <1>0, PlanType DEF PhaseOK, Quiet
<1>3. ListsOK' /\ ExecutionOK' /\ ReportOK'
  BY <1>0 DEF ListsOK, ExecutionOK, ReportOK, NoLines
<1> QED BY <1>1, <1>2, <1>3

(* add lengthens the list of commands and executes nothing.                *)
LEMMA AddInv == Inv /\ add => Inv'
<1> SUFFICES ASSUME Inv, add PROVE Inv'
  OBVIOUS
<1> USE DEF Inv
<1>0. /\ op = "add" /\ pc = "body" /\ pc' = "test"
      /\ added' = added + 1 /\ totals' = totals + 1
      /\ op' = IF added + 1 < plan[block] THEN "add" ELSE "execute"
      /\ status' = 0 /\ executed' = FALSE
      /\ UNCHANGED <<plan, block, instance, passed, failed, failedFile, ex, ok, halt>>
  BY DEF add, Exits, exVars
<1>1. totals = added /\ added < plan[block]
  BY <1>0 DEF PhaseOK, ListsOK
<1>a. added + 1 \in 0 .. MaxCommands
  BY <1>1, PlanType DEF TypeOK
<1>b. op' \in {"add", "execute"}
  BY <1>0
<1>2. TypeOK'
  BY <1>0, <1>1, <1>a, <1>b DEF TypeOK
<1>3. PhaseOK'
  BY <1>0, <1>1, PlanType DEF PhaseOK, Quiet, TypeOK
<1>4. ListsOK'
  BY <1>0, <1>1, PlanType DEF ListsOK, TypeOK, NoLines, PhaseOK
<1>5. ExecutionOK' /\ ReportOK'
  BY <1>0 DEF ExecutionOK, ReportOK
<1> QED BY <1>2, <1>3, <1>4, <1>5

(* execute begins with no executor and with empty lists of results.        *)
LEMMA ExecuteInv == Inv /\ execute => Inv'
<1> SUFFICES ASSUME Inv, execute PROVE Inv'
  OBVIOUS
<1> USE DEF Inv
<1>0. /\ op = "execute" /\ pc = "body" /\ pc' = "spawn" /\ instance' = 0
      /\ ex' = [i \in Executors |-> "none"]
      /\ ok' = [i \in Executors |-> FALSE]
      /\ UNCHANGED <<plan, block, op, added, status, executed, totals, passed, failed, failedFile, halt>>
  BY DEF execute, placeVars, fileVars
<1>1. /\ ~halt /\ ~executed /\ totals = plan[block] /\ passed = NoLines
      /\ failed = NoLines /\ ~failedFile
  BY <1>0 DEF PhaseOK, ListsOK
<1>2. TypeOK'
  BY <1>0, PlanType DEF TypeOK, ExStates
<1>3. PhaseOK' /\ ListsOK' /\ ReportOK'
  BY <1>0, <1>1 DEF PhaseOK, ListsOK, ReportOK
<1>4. LinesOK(instance)'
  BY <1>0, <1>1, PlanType DEF LinesOK, NoLines, Executors
<1>5. ExecutionOK'
  BY <1>0, <1>4 DEF ExecutionOK
<1> QED BY <1>2, <1>3, <1>5

(* Spawn: the loop stops at the end of the list of commands.               *)
LEMMA SpawnInv == Inv /\ Spawn => Inv'
<1> SUFFICES ASSUME Inv, Spawn PROVE Inv'
  OBVIOUS
<1> USE DEF Inv
<1>0. /\ pc = "spawn" /\ pc' \in {"spawn", "wait"} /\ op = "execute"
      /\ UNCHANGED <<plan, block, op, added, status, executed, totals, passed, failed, failedFile, ok, halt>>
  BY DEF Spawn, placeVars, fileVars, PhaseOK
<1>1. ~executed /\ instance \in Nat /\ totals \in 0 .. MaxCommands /\ instance <= totals
  BY <1>0, PlanType DEF PhaseOK, TypeOK
<1>2. CASE LineLeft /\ instance' = instance + 1 /\ ex' = [ex EXCEPT ![instance + 1] = "run"] /\ UNCHANGED pc
  <2>1. instance + 1 \in Executors /\ ex[instance + 1] = "none"
    BY <1>0, <1>1, <1>2, PlanType DEF LineLeft, Executors, ExecutionOK, LinesOK
  <2>2. TypeOK'
    BY <1>0, <1>1, <1>2, <2>1, PlanType DEF LineLeft, TypeOK, ExStates
  <2>3. PhaseOK' /\ ListsOK' /\ ReportOK'
    BY <1>0, <1>1, <1>2 DEF PhaseOK, ListsOK, ReportOK
  <2>4. LinesOK(instance)
    BY <1>0 DEF ExecutionOK
  <2>5. LinesOK(instance)'
    BY <1>0, <1>1, <1>2, <2>1, <2>4 DEF LinesOK, TypeOK, Executors
  <2> QED BY <1>0, <1>2, <2>2, <2>3, <2>5 DEF ExecutionOK
<1>3. CASE ~LineLeft /\ pc' = "wait" /\ UNCHANGED <<instance, ex>>
  <2>1. instance = totals
    BY <1>1, <1>3 DEF LineLeft
  <2>2. TypeOK'
    BY <1>0, <1>1, <1>3 DEF TypeOK
  <2>3. PhaseOK' /\ ListsOK' /\ ReportOK'
    BY <1>0, <1>1, <1>3 DEF PhaseOK, ListsOK, ReportOK
  <2>4. LinesOK(instance)
    BY <1>0 DEF ExecutionOK
  <2>5. LinesOK(instance)'
    BY <1>0, <1>3, <2>4 DEF LinesOK
  <2> QED BY <1>0, <1>3, <2>1, <2>2, <2>3, <2>5 DEF ExecutionOK
<1> QED
  BY <1>2, <1>3 DEF Spawn

(* Wait: the executors are gone, and the failed list tells how.            *)
LEMMA WaitInv == Inv /\ Wait => Inv'
<1> SUFFICES ASSUME Inv, Wait PROVE Inv'
  OBVIOUS
<1> USE DEF Inv
<1>0. /\ pc = "wait" /\ pc' = "test" /\ op = "execute" /\ executed' = TRUE
      /\ status' = IF failedFile THEN 1 ELSE 0
      /\ UNCHANGED <<plan, instance, added, totals, passed, failed, failedFile, ex, ok, halt>>
      /\ Quiet
  BY DEF Wait, AllWaitedFor, Quiet, Exits, fileVars, exVars, PhaseOK
<1>1. /\ instance = plan[block] /\ LinesOK(instance)
      /\ plan[block] \in 1 .. MaxCommands
  BY <1>0, PlanType DEF ExecutionOK, ListsOK
<1>2. /\ op' \in {"clean", "end"} /\ block' \in DOMAIN plan
      /\ ExecutedBlock' = block
  <2>1. CASE block + 1 \in DOMAIN plan /\ block' = block + 1 /\ op' = "clean"
    BY <2>1, PlanType DEF ExecutedBlock
  <2>2. CASE op' = "end" /\ UNCHANGED block
    BY <2>2 DEF ExecutedBlock, TypeOK
  <2> QED BY <1>0, <2>1, <2>2 DEF Wait, Exits
<1>3. TypeOK'
  BY <1>0, <1>2 DEF TypeOK
<1>4. PhaseOK' /\ ListsOK' /\ ExecutionOK'
  BY <1>0, <1>2 DEF PhaseOK, ListsOK, ExecutionOK, Quiet
<1>5. LinesOK(plan[block])
  BY <1>1
<1>6. \A i \in Executors : i <= plan[block] <=> ex[i] = "gone"
  BY <1>0, <1>5 DEF LinesOK, Quiet, Executors
<1>7. failedFile <=> ~(\A i \in 1 .. plan[block] : ex[i] = "gone" /\ ok[i])
  <2>1. \A i \in 1 .. plan[block] : i \in Executors
    BY <1>1, PlanType DEF Executors
  <2>2. ASSUME NEW i \in Executors, ex[i] = "gone" PROVE i \in 1 .. plan[block]
    BY <2>2, <1>1, <1>6, PlanType DEF Executors
  <2> QED BY <2>1, <2>2, <1>5, <1>6 DEF LinesOK
<1>8. ReportOK'
  BY <1>0, <1>1, <1>2, <1>5, <1>7 DEF ReportOK, VerdictExact, LinesOK, TypeOK
<1> QED BY <1>3, <1>4, <1>8

-----------------------------------------------------------------------------
(* What a step of an executor leaves alone, and that "execute" waits for   *)
(* it.                                                                     *)
LEMMA ExecutorFrame ==
    ASSUME Inv, NEW i \in Executors, Executor(i)
    PROVE  /\ UNCHANGED <<plan, block, op, added, pc, status, executed, instance, totals>>
           /\ pc \in {"spawn", "wait"} /\ op = "execute" /\ ~executed
           /\ LinesOK(instance) /\ halt' \in {halt, TRUE}
<1>1. /\ UNCHANGED <<plan, block, op, added, pc, status, executed, instance, totals>>
      /\ halt' \in {halt, TRUE}
      /\ ex[i] \in {"run", "fail", "pass"}
  BY DEF Executor, CommandEnds, Failed, Passed, opVars, placeVars, fileVars
<1>2. pc \in {"spawn", "wait"}
  BY <1>1 DEF Inv, PhaseOK, Quiet, TypeOK
<1> QED
  BY <1>1, <1>2 DEF Inv, PhaseOK, ExecutionOK

(* A step of an executor that keeps its lines right keeps the invariant.   *)
LEMMA ExecutorKeeps ==
    ASSUME Inv, NEW i \in Executors, Executor(i),
           passed' \in [Executors -> Nat], failed' \in [Executors -> Nat],
           failedFile' \in BOOLEAN, ex' \in [Executors -> ExStates],
           ok' \in [Executors -> BOOLEAN], LinesOK(instance)'
    PROVE  Inv'
<1> USE DEF Inv
<1>1. TypeOK'
  BY ExecutorFrame DEF TypeOK
<1>2. PhaseOK' /\ ListsOK' /\ ExecutionOK' /\ ReportOK'
  BY ExecutorFrame DEF PhaseOK, ListsOK, ExecutionOK, ReportOK
<1> QED BY <1>1, <1>2

(* An executor moves its command into the list of its result, once.        *)
LEMMA ExecutorInv == \A i \in Executors : Inv /\ Executor(i) => Inv'
<1> SUFFICES ASSUME NEW i \in Executors, Inv, Executor(i) PROVE Inv'
  OBVIOUS
<1>0. /\ UNCHANGED instance /\ LinesOK(instance) /\ TypeOK
  BY ExecutorFrame DEF Inv
<1>1. CASE CommandEnds(i)
  <2>1. UNCHANGED <<passed, failed, failedFile>> /\ ex[i] = "run"
    BY <1>1 DEF CommandEnds, fileVars
  <2>2. PICK well \in BOOLEAN :
            /\ ok' = [ok EXCEPT ![i] = well]
            /\ ex' = [ex EXCEPT ![i] = IF well THEN "pass" ELSE "fail"]
    BY <1>1 DEF CommandEnds
  <2>3. ex' \in [Executors -> ExStates] /\ ok' \in [Executors -> BOOLEAN]
    BY <1>0, <2>2 DEF TypeOK, ExStates
  <2>4. LinesOK(instance)'
    BY <1>0, <2>1, <2>2 DEF LinesOK, TypeOK
  <2> QED BY <1>0, <2>1, <2>3, <2>4, ExecutorKeeps DEF TypeOK
<1>2. CASE Failed(i)
  <2>1. /\ ex[i] = "fail" /\ UNCHANGED <<passed, ok>>
        /\ failed' = [failed EXCEPT ![i] = @ + 1] /\ failedFile' = TRUE
        /\ ex' = [ex EXCEPT ![i] = "gone"]
    BY <1>2 DEF Failed
  <2>2. ~ok[i] /\ failed[i] = 0
    BY <1>0, <2>1 DEF LinesOK
  <2>3. ex' \in [Executors -> ExStates] /\ failed' \in [Executors -> Nat]
    BY <1>0, <2>1, <2>2 DEF TypeOK, ExStates
  <2>4. LinesOK(instance)'
    BY <1>0, <2>1, <2>2 DEF LinesOK, TypeOK
  <2> QED BY <1>0, <2>1, <2>3, <2>4, ExecutorKeeps DEF TypeOK
<1>3. CASE Passed(i)
  <2>1. /\ ex[i] = "pass" /\ UNCHANGED <<failed, failedFile, ok>>
        /\ passed' = [passed EXCEPT ![i] = @ + 1]
        /\ ex' = [ex EXCEPT ![i] = "gone"]
    BY <1>3 DEF Passed
  <2>2. ok[i] /\ passed[i] = 0
    BY <1>0, <2>1 DEF LinesOK
  <2>3. ex' \in [Executors -> ExStates] /\ passed' \in [Executors -> Nat]
    BY <1>0, <2>1, <2>2 DEF TypeOK, ExStates
  <2>4. LinesOK(instance)'
    BY <1>0, <2>1, <2>2 DEF LinesOK, TypeOK
  <2> QED BY <1>0, <2>1, <2>3, <2>4, ExecutorKeeps DEF TypeOK
<1> QED BY <1>1, <1>2, <1>3 DEF Executor

-----------------------------------------------------------------------------
(* Every step of a handler or of an executor keeps the invariant.          *)
LEMMA StepInv == Inv /\ [Next]_vars => Inv'
<1> SUFFICES ASSUME Inv, [Next]_vars PROVE Inv'
  OBVIOUS
<1>1. CASE UNCHANGED vars
  BY <1>1 DEF vars, opVars, placeVars, fileVars, exVars, Inv, TypeOK, PhaseOK,
      Quiet, ListsOK, LinesOK, ExecutionOK, ReportOK, VerdictExact, ExecutedBlock
<1>2. CASE Handler
  BY <1>2, TestHaltInv, CleanInv, AddInv, ExecuteInv, SpawnInv, WaitInv DEF Handler
<1> QED
  BY <1>1, <1>2, ExecutorInv DEF Next, Over

(* The invariant holds in every state of every scenario.                   *)
THEOREM Invariance == Spec => []Inv
  BY InitInv, StepInv, PTL DEF Spec

(* The lists and the places keep their shapes, and the loop of "execute"   *)
(* starts no executor that the list of commands does not name, for every   *)
(* scenario.                                                               *)
THEOREM ParallelTypeCorrect == Spec => []TypeOK
<1>1. Inv => TypeOK
  BY DEF Inv
<1> QED
  BY <1>1, Invariance, PTL

(* The exit status of handlerProcessParallelism.sh "execute" is 0 if and   *)
(* only if every command of its block exited with 0, for every scenario,   *)
(* every order of the executors and whatever an earlier one left on disk.  *)
THEOREM VerdictCorrect == Spec => []VerdictExact
<1>1. Inv => VerdictExact
  BY DEF Inv, ReportOK, VerdictExact
<1> QED
  BY <1>1, Invariance, PTL

(* When "execute" reports, each command of the block has exactly one line  *)
(* in one of the two lists, and the lists have no others.                  *)
THEOREM AccountsCorrect == Spec => []Accounted
<1>1. ASSUME Inv, executed PROVE Accounted
  <2>1. ExecutedBlock \in DOMAIN plan /\ LinesOK(plan[ExecutedBlock]) /\ VerdictExact
    BY <1>1 DEF Inv, ReportOK
  <2>2. Quiet
    BY <1>1 DEF Inv, PhaseOK, TypeOK
  <2> QED BY <2>1, <2>2 DEF Accounted, LinesOK, Quiet
<1>2. Inv => Accounted
  BY <1>1 DEF Accounted
<1> QED
  BY <1>2, Invariance, PTL

(* After a halt was logged no operation that begins touches a list.        *)
THEOREM EvidenceCorrect == Spec => EvidenceKept
<1>1. ASSUME Inv, [Next]_vars, halt, pc = "test"
      PROVE  UNCHANGED fileVars /\ pc' = "test"
  <2>1. CASE UNCHANGED vars
    BY <1>1, <2>1 DEF vars, opVars
  <2>2. CASE Handler
    BY <1>1, <2>2 DEF Handler, TestHalt, Exits, clean, add, execute, Spawn, Wait
  <2>3. ASSUME NEW i \in Executors, Executor(i) PROVE FALSE
    BY <1>1, <2>3, ExecutorFrame
  <2> QED BY <1>1, <2>1, <2>2, <2>3 DEF Next, Over
<1>2. Inv /\ [Next]_vars => [halt /\ pc = "test" => UNCHANGED fileVars /\ pc' = "test"]_vars
  BY <1>1
<1> QED
  BY <1>2, Invariance, PTL DEF Spec, EvidenceKept
=============================================================================
