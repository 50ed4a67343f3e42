# Verification of the device driver test suites' test driver

The repository is a collection of test suites for OMAP kernel drivers. Every suite is
started by a script (`test_runner.sh`), which runs the commands of a scenario file under
one common driver, `utils/pan/pan.c`. `pan` starts and reaps tests, passes signals on to
them, follows processes that tests leave behind, and records what is running in a shared
text file, the *zoo* (`utils/pan/zoolib.c`). `bump` (`utils/pan/bump.c`) signals whatever
the zoo lists under a name. Under them run the tests themselves: kernel modules such as
those of the dma suite, shell handlers (`utils/handlers`), small programs, scenario files
and a large amount of third-party code.

This project models the concurrent core (zoo, pan, bump, test runner), the dma suite's
single channel and chained tests with their scenarios, and the handler that runs commands
in parallel.

## 1. Inventory

| component | state | operations | interacts through |
|---|---|---|---|
| zoolib | lines of the zoo file, the fcntl lock, the stdio position | `zoo_mark`, `zoo_clear`, `zoo_getpid`, `zoo_lock`, `zoo_unlock` | a file shared by all pan and bump processes |
| pan | slots `running[]`, `num_active`, `starts`, `stop`, `go_idle`, `rec_signal`, `send_signal`, `lastsent`, orphan list, `exit_stat`, `failcnt` | start loop, `run_child`, `check_pids`, `propagate_signal`, `check_orphans`, `wait_handler` | fork, wait, kill, signals, the zoo, `PAN_STOP_FILE` |
| bump | the pid looked up | look-up, kill, clear | the zoo, signals |
| test runner | its exit status | set-up, run pan, verdict, `cleanup` | pan's exit status, the test directories |
| handlers (`utils/handlers`) | lists of commands and pids in files, error flag files | parallel execution, CPU hot-plug, IRQ affinity, ... | files, background jobs |
| dma common modules (`dma_single_channel.c`, `dma_chain_transfer.c`) | the verdict `test_passed` behind `/proc`; per transfer `finished`, `data_correct`, `request_success`, buffers, rounds | request, create buffers, start, stop, link, callback, verify, `/proc` read | exported functions, the DMA interrupt |
| dma test modules | `transfers[]`, loop and poll counters, `count`, `current_transfer` | init function, kernel threads, exit function | the common module, `insmod`, `rmmod` |
| mcbsp, mcspi modules | buffers, threads | transmit, receive, synchronous messages | driver calls |
| reporter (`scanner.c`, `symbol.c`, `tag_report.c`) | symbol table | parse pan's output, print a report | files |
| other suites, vendored tools | - | device I/O, third-party programs | - |

What is hard about the core:

* **interleaving**: several processes read and rewrite the zoo; signals arrive between any
  two statements of pan; tests end in any order, and a leader before its group;
* **order of two effects**: fork and mark, clear and re-mark, reset of the signal flags;
* **partial failure**: exec, fork or fseek fail in the middle of an operation;
* **liveness**: orphans that ignore signals, idling, runs without a start count, a reader of
  `/proc` that polls for a verdict for ever;
* **callbacks**: a DMA callback runs between any two statements of a test, on another
  processor beside them, or after the test has given up waiting for it;
* **state that outlives its user**: `test_passed` of a common module and the list files of the
  handlers are read by the next test;
* **undefined input**: `sa_flags` is never initialised, so a signal may or may not interrupt
  the calls pan sleeps in: `wait`, and the `read` and `waitpid` of `run_child`.

What makes each part correct: the zoo calls are atomic and lose no line; pan's counters,
its slots and its children agree; the zoo lists exactly what runs; a pan that ends leaves
nothing behind; a run ends if its tests do; failures reach the exit status, the log and the
script's verdict; files are removed only after the tests. A DMA test says PASSED only on
evidence from every transfer and FAILED only for a reason, what `cat` prints is that
test's final verdict, and everything is released on `rmmod`. A parallel block reports what
its commands did, and leaves the evidence on disk.
`PROJECT.json` lists the hazards with their source lines and the properties that cover them.

## 2. Modules

| module | what it models |
|---|---|
| `Zoo` | the file as a sequence of lines and the three calls as single steps |
| `ZooAtomic` | abstract specification: clients whose calls take effect at one instant |
| `ZooLock` | the calls line by line: lock, read, find, write or fail, unlock, return |
| `ZooLockProofs` | theorems about `ZooLock` |
| `Pan` | `pan.c` with its children, signals and the zoo |
| `PanProperties` | types, invariants and liveness of `Pan`, fairness |
| `PanProofs`, `PanZooProofs`, `PanResultProofs` | theorems about `Pan`: types and slots, the zoo and the orphans, exit status and starts |
| `Bump` | a `bump` next to a pan that uses the same zoo (extends `Pan`) |
| `TestRunner` | `test_runner.sh` around a pan (extends `Pan`) |
| `PanClientProofs` | theorems about `TestRunner` and `Bump`, from those about `Pan` |
| `Dma` | `dma_single_channel.c`: verdict, operations on a transfer, callback, and the engine |
| `DmaTests` | the single channel tests and the scenario around each of them (extends `Dma`) |
| `DmaProofs` | theorems about `DmaTests` |
| `DmaChain` | `dma_chain_transfer.c`, the static and dynamic chain tests, scenarios of several tests |
| `DmaChainProofs` | theorems about `DmaChain` |
| `Parallel` | `handlerProcessParallelism.sh`, its executors, the halt flag of `handlerError.sh` |
| `ParallelProofs` | theorems about `Parallel` |
| `MC...` | option records and sets for TLC |

The operators whose names start with `Bug` are not part of any model. Each is a plausible
mistake in the definition that follows it; a property is known to be violated when that
definition is replaced by it.

### Zoo, ZooLock, ZooAtomic

A line is a record of the two fields that readers look at, the pid before the first comma
and the tag behind it. `zoo_clear` only overwrites the first character with `#`, and no
reader looks further, so a free line carries nothing. Padding and truncation to 79
characters are left out: a pid and a tag are taken to fit.

`ZooLock` has a program counter per process. `Lock` is `zoo_lock` and `rewind`; `Skip`,
`Found` and `AtEnd` are the outcomes of one `fgets`; `Write` is the seek, the write and the
flush; `SeekError` is the early return of `zoolib.c:157-163`, `173-178` and `238-244`, which
keeps the lock; `Exit` is the end of a process, with which the kernel drops its lock.
fcntl locks belong to a process, hence `holder \in {NoClient, x}` in `Lock`.
A caller's view is the mapping `calls`: a call is pending until its result is known.
`CallsReturn` excuses a call only if another process has the lock for ever, having left a call
of its own with it. Every call reads the file as it is once the lock is granted; that `rewind`
has stdio forget what it read before is assumed. A C library may keep its buffer when it seeks
inside it; bump's `zoo_clear`, which follows its `zoo_getpid` on the same stream, would then
scan what the file held before.
Under `calls` `ZooLock` implements `ZooAtomic` (`Atomic`). `Pan` and `Bump` use the atomic calls
of `Zoo`, which is what this refinement justifies.

### Pan

`pc` is the place in `main()` and the functions it calls:

| pc | code |
|---|---|
| `mark_self`, `prealloc`, `unalloc` | `main` 385-416: pan's own line, then room for the children |
| `start`, `fork` | the start loop 435-466, `run_child` up to the fork at 811 |
| `read`, `waitpid`, `mark` | `run_child`: asleep at 899 until the child has exec'd, asleep at 910 for one that has not, `zoo_mark_cmdline` at 948 |
| `signals`, `test`, `kill`, `reset_send`, `reset_rec` | stop conditions 468-501, `propagate_signal` |
| `reap`, `wait`, `blocked`, `clear`, `orphan` | `check_pids` |
| `after`, `round` | 509-527 |
| `drain`, `nap` | the last loop, 531-550 |
| `done`, `exit1`, `killed` | normal end, `exit(1)` for a zoo line that is not there, death by a signal |

A step ends at every critical section of the zoo, at every access to `rec_signal` or
`send_signal`, at fork and at the three calls pan sleeps in. `check_orphans` is one step: its calls for
different groups touch different groups and different lines, and pan looks at no flag in
between.
A process group is its leader (running, ended with an outcome, or waited for) and a flag
for further members. A test's outcome is one of `exit0`, `exit1` (any failure status),
`exit130` and `signaled`. Signals other than SIGKILL may be ignored. `Signal` is the
delivery of a signal at any step: it kills pan before the handlers are installed or after
`SA_RESETHAND` has removed one, always if it is SIGKILL (`Fatal`), and otherwise runs the
handler. `sa_flags` ranges over every combination of `SA_RESETHAND` and `SA_RESTART`, and
without the latter the signal also ends the call pan sleeps in, if nothing has come in yet
that the call would return:

* `WaitInterrupted`: `wait` in `check_pids`; pan goes on without a child;
* `ReadInterrupted`: `read` at 899 returns -1, which the `if` takes for the report of a
  failed exec. pan goes on to `waitpid` and will forget the child, which is *dropped*: it has
  no slot, no line and no start count, its status is thrown away and its group not followed.
  `errlen` is then uninitialised and says where line 908 writes a zero byte; pan survives that
  or dies of it (`pc' \in {"waitpid", "killed"}`). Other effects of a stray byte in pan's
  memory are outside the model. The second `read` at 906 only delays pan;
* `WaitpidInterrupted`: `waitpid` at 910; `run_child` returns with the child alive. When a
  `wait` returns that child later, it is a *stray*: `num_active` is counted down for a child
  that was never counted up.

A child is `run` from its fork on, or `doomed` if its exec will fail; what a good child does
between fork and exec changes nothing that others see, so its exec has no step of its own.
A doomed child that pan has dropped may die of SIGPIPE instead of its `exit(errno)`.

`stop` and `go_idle` are counters in the code of which only zero or not is ever looked at;
here they are Booleans. `hist` is history that no step reads: how often each command ran, how
many starts there were, whether one was refused and how many tests failed (these four in runs
with a start count only, since they grow without end in others), whether a signal has been
seen, tests started after that, whether the run was interrupted, the children pan has
dropped (`Dropped`), how many strays there were and how many dropped tests failed. `failed`
does not count those: they are in `missed`.

Assumptions and omissions: zoo calls do not fail with an I/O error in `Pan` (the error path
is in `ZooLock`); `-p` is used with a log file; a pid is not given out again while pan still
has it on its orphan list; `stopping` of a free slot is meaningless and reset; children
change neither their group nor their session; `-O` output files, log lines and debug output
are left out (failing to open an output file is one of the causes of `ForkFails`).
`Cnt` is the number of commands that `get_collection` found; its parsing is not modelled.

### Bump

`BumpGetpid`, `BumpKill` / `BumpDead` and `BumpClear` are the three separate steps for a
name; pan, its tests and its signals go on in between. The tag match is a prefix match
(`strncmp` with the length of the wanted tag), so the name of a pan called `pan` also
matches `panorphan` and the preallocated lines of the pids 0, 1, ....

### TestRunner

`test_runner.sh` (the copy of the dma suite; about 40 suites have one): set-up or `die`,
`$PAN_COMMAND` or `$PAN_COMMAND|tee`, the verdict from `$?`, `cleanup` in `main` and again
in the exit trap. `tee` ends when all writers of the pipe, the tests included, have ended.
The assembly of the command file and a Ctrl+c that ends the script itself are left out.

### Dma, DmaTests

A slot is an element of a `transfers[]` array. `Dma` gives each function of the common module
as the conjunct of an action: what becomes of `finished`, `data_correct`, `request_success`
and the buffers. Contents of buffers, channel numbers and sizes are left out; the outcome of
a transfer is `good`, `bad_status` or `mismatch`, and what `verify_buffers()` says follows
from it, unless the buffers are freed, when it may say anything. The engine (`Complete`) is
the kernel's: a started transfer ends at any time or never. The callback takes two steps,
since a poll on another processor sees `finished` before `data_correct`; callbacks do not
overlap (one interrupt). `stop_dma_transfer()` takes two steps too, the channel and
the buffers.

`DmaTests` chooses the test, one or two processors (`smp`) and whether a callback may outlast
the delay of the polling loop (`slow`) in the initial state:

| test | code |
|---|---|
| `poll` | `dma_burst_*.c`, `dma_addrmode_*.c`: request, buffers, start for all, poll, check |
| `prio_high`, `prio_low` | the same with a check of the order of the callbacks |
| `stop`, `stop_twice`, `stop_invalid` | start one transfer, stop it (twice, or another one), check that it has not finished |
| `selflink` | `dma_static_self_link.c`, `dma_unlink_*.c`: the callback frees its channel, the exit function releases nothing |
| `threads` | `dma_thread_access.c`: two kernel threads, a verdict each, an unlocked counter that the exit function waits for |

The scenario is the command line of the suite: insmod of both modules, rmmod of the test,
`cat`, rmmod of the common module. Two processes can therefore run at once only in `threads`
and where a callback meets the test or the exit function on two processors. A thread that
gives up early is never counted, and a lost update of `count` has the same effect: rmmod then
waits for ever (`Uncounted`).

### DmaChain

The common module of the chains stays loaded for several tests, so a scenario is a sequence
of `static` and `dynamic` tests (`L_DD_DMA_0026_0001` runs two); `Insmod` gives a test fresh variables while `test_passed` and
`max_rounds` stay. `judge` is history: the test that has set the verdict. A static chain is a
ring whose queue the engine turns; a dynamic one has a queue that its callbacks extend.
`CallbackStop`, `CallbackEntry`, `CallbackBad` and `CallbackGood` are the ways through
`dma_callback_chain()`; `rounds`, `current` and `transfer_end` are its counters. The kernel may
refuse every request, link, start, stop and free. A static test looks at its flags while the
ring may still be running; a dynamic one takes its last transfer for correct.

`dma_chain_static_invalid.c` and `dma_chain_dynamic_invalid.c` are the same code with a larger
`TRANSFER_COUNT`, which the theorems cover; the `_removed` tests differ in link calls of the
kernel and in an interim verdict that the final one overwrites. `Check` reads all flags in one
step where the code reads one after the other: `NoBadRoundForgotten` is about the rounds
before the start of that loop. The call of `omap_set_dma_callback()` in
`dma_chain_dynamic.c:205`, which comes before the test of the request's result, is left out: it
names the callback that the chain has anyway, and the data it sets are set again with each
transfer that is linked.

### Parallel

A scenario is a sequence of blocks `clean`, `add` ..., `execute`, each line a process; every
operation first asks `handlerError.sh test` whether a halt was logged. A list of results is
the number of lines per command. `Spawn` and `Wait` are the loop of `execute`; `CommandEnds`,
`Failed` and `Passed` are an executor. The initial state is whatever an earlier scenario may
have left in the lists. Left out: the pid list, which is written and never read, and
executors that are killed (see below).

## 3. Runs

| run | instance | shows |
|---|---|---|
| `zoo` | 2 processes, 5 kinds of calls, files of up to 3 lines, seek errors | `ScanIsCurrent`, `Atomic`, `NoLineLost`, `CallsReturn` |
| `suite` | `-S -e -p -x 2`, 3 commands, 3 pids, all outcomes, daemons, 2 SIGINTs without `SA_RESTART` | accounting, exact zoo, only dropped tests left behind, starts honoured in turn |
| `signals` | 3 command lines, 2 signals out of INT, USR1, USR2 at any step, all `sa_flags` | late starts, failures counted and logged |
| `live` | `-S`, `-y` and `-s 0`; 2 commands, one of which cannot be executed, failing forks, 1 signal out of 3, with and without `SA_RESTART`, stop file | runs and idling end, `PAN_STOP_FILE` is honoured |
| `bump_pan` | two bumps of pan's name, all `sa_flags` | the zoo stays exact, a dead pan's line is cleared |
| `runner_plain` | script without `-o`, 2 Ctrl+c, all `sa_flags`, daemons that ignore signals | verdict and clean-up; the last loop ends |
| `dma_single` | all eight tests, 3 transfers (2 x 1 in `threads`), 2 polls, one and two processors | PASSED and FAILED have reasons, everything is released, `cat` prints the final verdict and the scenario ends |
| `dma_chain` | a static test; a dynamic and a static one in both orders; 2 and 3 transfers, 2 rounds, 2 polls | the verdict is the test's own, no bad round is forgotten, leaks are bounded, the scenario ends |
| `parallel` | blocks of (4), (2,3), (3,1) and (1,2,2) commands over lists left by an earlier scenario | exit status, lists and commands agree, a halt freezes the lists, `execute` returns |
| `interrupt` | *violation* | lost wake-up: SIGINT between the test of `rec_signal` and `wait` |
| `dropped` | *violation* | a SIGINT in the `read` of `run_child`: a test fails and pan exits with 0 |
| `dma_threads` | *violation*, two threads with two transfers each | PASSED after the polls ran out |

Why the bounds are enough: two processes are what a lock race needs, and three lines give a
free line before, at and behind the one that is looked for. With two slots and three
commands a slot is reused while the other is busy; three pids allow two running tests next
to an orphan, and an orphan's pid can be reused. Two signals put one into each of the
windows between two accesses of the flags, and the second after the first was handled.
The two signals of `suite` and `runner_plain` are also what a stray takes: one in `read`, one in
`waitpid`. `live` has three pids for two slots and no daemons, so a dropped child leaves a pid
for each slot and fork never fails for lack of one, which would be an artefact of the bound;
daemons that never end are in `runner_plain`. Three transfers are a first, a last and one between, so that an
init function can give up with some transfers complete and some not begun; two polls let a
callback come before, between and after them. Two rounds are what hiding a bad round behind a
good one takes. Four parallel commands end in all orders, and a shorter list after a longer
one shows what `clean` leaves. Symmetry over pids is used in safety runs only. `hist.late`
saturates at 2. The theorems below do not depend on these bounds.

Fairness: `FairPan` is the kernel's scheduler (a pan that can take a step takes one).
`FairTests` says that each test ends and `FairForks` that fork succeeds again and again for a
command that can be executed; both are assumed in `live`, whose properties are false of a
test that runs for ever, and while forks fail the start loop is not left and does not look at
the stop file. `DrainTerminates` is checked in `runner_plain` with neither, since the last loop
waits for orphans only, and of those no fairness is assumed: it is SIGKILL that ends them.
`interrupt` is checked under `FairPan` alone, since the question is what happens
to a test that does not end by itself. In `ZooLock` the lock is granted fairly and a process
inside a call proceeds. In the dma modules threads, the script and interrupts are
served, and nothing is assumed of the engine: a transfer need not end. In `Parallel` the
scripts are scheduled and every command ends, as `wait` needs. Begin, Exit, seek errors,
signals, deaths, refusals and halts are never forced.

Deadlock is checked in all runs; a finished system has an explicit stuttering step
(`Ended`, `AllGone`, `Gone`, `Over`).

### What the violations say

`findings` in `PROJECT.json` tells about the three runs that end in a violation. The other
disagreements between the code and what it says of itself, met while modelling:

pan and its callers

* what the finding at `pan.c:899` leads to, if `sa_flags` lacks `SA_RESTART`. After one signal a
  test that runs is dropped: its failure is not counted (`dropped`), its daemons are not
  followed, and pan waits for it without passing the signal on. After a second one in
  `waitpid` it also lives on, and as a stray it makes `num_active` one too small: pan may end
  before its tests, report a failure that the log does not have, look for a slot that is not
  free ("Aborting: i == keep_active"), or, with `num_active` at -1 and nothing running, go round
  for ever. The properties of `Pan`, `TestRunner` and `Bump` therefore speak of the tests that
  are not in `Dropped`, and those that a stray makes false have `NoStray` as a hypothesis.
  `RestartTheorem` says when neither matters;
* with no executable command the start loop (`pan.c:435`) never ends, since a failed start is
  not counted; `pan.c:896` says "clean up the mess, note it, and move on". `Terminates`
  therefore needs one command that can be executed. For the same reason a command that
  cannot be executed makes another one run twice;
* a command that cannot be executed leaves the exit status 0 (`pan.c:456`), although
  `track_exit_stats` is to "exit non-zero if any test exits non-zero" (`pan.c:163`);
* a bump of a test that has just ended takes its line, and pan then gives up with `exit(1)`
  (`pan.c:738`), although a missing line is "1 as warning" (`zoolib.h:78`); `bump_pan`
  therefore bumps pan's name only;
* with `-o` the verdict of `test_runner.sh` is that of `tee` (`:252`, `:255`), and "INFO: pan
  reported all tests PASS" (`:256`) is printed whatever pan reported;
* a test runs between fork and `zoo_mark_cmdline`, and an orphaned group between
  `zoo_clear` and its new line, without a line in the zoo, while `zoolib.c:38` wants the file
  to tell what ran at a crash. `AtMostOneUnrecorded` is what does hold;
* 256 failed tests give the exit status 0 (`ExitCode`, `pan.c:571`);
* `die()` calls `usage()`, which ends with `exit 0`, so the `exit 1` behind it is dead code
  and a script that could not run anything reports success;
* `zoo_getpid` returns -1 when there is no such tag; `zoolib.h` says 0;
* with `SA_RESETHAND` in `sa_flags` a second Ctrl+c kills pan and the script removes files
  under running tests; `CleanAfterTests` therefore excludes that value, and a pan that died of
  the zero byte of line 908 (`DiedDropping`).

dma suite

* `check_dma_transfer_complete()` returns `-(i)` (`dma_single_channel.c:79`), which is 0, success,
  when the first transfer is the bad one; together with the time-out of the finding this is
  why no property about PASSED includes `threads`;
* on two processors `stop_dma_transfer()` may free the buffers under a callback that is
  comparing them; `BuffersOutliveCallbacks`, `StopIsFinal` and `PassedMeansReleased` say what
  holds on one;
* `dma_static_self_link.c` and `dma_unlink_*.c` never free their buffers; `ReleasedOnUnload`
  leaves them out;
* a static chain counts as finished when any one transfer has done its rounds, and the last
  transfer of a dynamic chain is taken for correct without a comparison;
* `dma_chain_dynamic_break.c` says PASSED when its chain fails early, and the callback of
  `dma_chain_thread_access.c` (`:168`) indexes from the transfer it was called for, not from the
  start of the array, so it writes behind the array's end.

handlers

* an executor that is killed writes neither list, and `execute` exits with 0.

## 4. Theorems

All are proved for every value of the constants that satisfies the named assumptions:
positive `KeepActive` and `Cnt`, well-formed options, real pids that differ from pan's and
from the preallocated ones (`PidsAssumption`), for `ZooLock` well-formed calls
(`OpsAssumption`), for the dma modules positive counts and slots for every transfer
(`SlotAssumption`, `TestAssumption`, `ChainAssumption`), and for `Parallel` plans of at least one block
of at least one command (`PlanAssumption`).

| theorem | statement | argument |
|---|---|---|
| `ScanTheorem` | types and `ScanIsCurrent` | inductive as it stands, once joined with the types: only the holder is between lock and unlock, so nobody moves the file under a scan |
| `AtomicTheorem` | `ZooLock` implements `ZooAtomic` | each step of a call that yields a result is the abstract step, all others stutter; `ScanIsCurrent` says that the line found is the first one that fits |
| `NoLineLostTheorem` | no line in use is overwritten | from `ScanIsCurrent` |
| `TypeTheorem` | types and `Shape` | `Shape` ties `pc` to the index, the child and the slot in use |
| `SlotTheorem`, `AbortUnreachable` | `SlotAccounting`; without a stray a free slot is always found | `SlotInv`: cardinality of the used slots, and the child in `run_child` is there and has no slot yet; one step per action |
| `RestartTheorem` | with `SA_RESTART`, or before the first signal, nothing is dropped or missed and there is no stray | a child is dropped only by an interrupted call, and a stray was dropped before (`SlotInv`) |
| `LateStartTheorem` | at most one test is started after a signal | `LateInv`: after a signal either `rec_signal` is set or the run has stopped, and the one start in flight is at `fork` |
| `ZooTheorem` | `ZooExact`, dropped children excepted | `ZooInv`: exactness plus what is in the file during start-up, and at `clear` and `orphan` |
| `NeverGivesUpTheorem` | `exit(1)` is unreachable without a bump | the line to be cleared is there by `ZooInv` |
| `LeftBehindTheorem` | without a stray only dropped tests are left behind at `done` | `FollowInv`: every group that is not dropped is led by a child, has just lost its leader, or is an orphan; `DrainInv`: without a stray the last loop has only dropped children |
| `UnrecordedTheorem` | at most one unrecorded group that is not dropped | `UnrecordedInv`: the only candidate is `cpid`, from `read` to `mark` or at `orphan` |
| `LoggedTheorem` | `FailuresLogged` | `LoggedInv`: the status and the error that `check_pids` is about to return never exceed `failcnt` |
| `CountedTheorem` | `FailuresCounted` | `CountedInv`: the failures so far are in the status, in that pending error, or still zombies; at the end there are none of the latter two |
| `ExitBoundTheorem` | without a stray the status never exceeds the number of starts | `StartsInv` and `BoundInv`: status, pending error and running tests together are paid for by starts that were used |
| `StartsHonouredTheorem` | `StartsHonoured` | `StopInv`: without an interruption only the start count stops pan; `RoundInv`: two commands differ by at most one start, and those before `c` are ahead |
| `RunnerRunsPan` | `TestRunner` implements `Pan` | every step of the script stutters in pan or is a step of pan |
| `CleanTheorem` | `CleanAfterTests` | `KillInv`: without `SA_RESETHAND` a signal kills pan only before its first test, or by making it drop one; a pan that ends otherwise has left nothing behind |
| `VerdictTheorem` | `VerdictTold` | `VerdictInv`, `CountedTheorem`, and `ExitBoundTheorem` for the eight bits of `exit()` |
| `BumpZooTheorem`, `BumpHarmless` | `ZooExact`, `NeverGivesUp`, `NoTestLeftBehind` with bumps of pan's name | `LineInv`: pan's own line is the first of the file while pan lives; `TagInv`: a line with the tag `pan` is no child's, one with `panorphan` an orphan's; `NannyInv`: bump holds pan's pid or pan is dead, and it clears a line only then |
| `DmaTypeCorrect`, `ShownVerdictFinal` | types; what `cat` prints is final | `PlaceOK` places the threads relative to the script; `CountOK` bounds the unlocked counter: it says 2 only when both threads have set their verdict |
| `UnloadReleases` | `ReleasedOnUnload` | `OwnOK`: a channel or buffer belongs to a transfer with `request_success`, or to the one the loop is at; the exit function's cursor separates released from not released |
| `PassedCorrect`, `FailedCorrect` | `PassedMeansVerified`, `FailedHasReason` | `FlagOK` ties the flags of a transfer to what the engine did; `PollOK` ties a verdict to its evidence or its reason |
| `StopCorrect`, `BuffersCorrect` | `StopIsFinal`, `BuffersOutliveCallbacks` | on one processor no step of the test comes between the two steps of a callback, and a free channel has no interrupt |
| `ChainInvariance` | the inductive invariant of `DmaChain` | seven groups: places, judge, engine, memory, rounds, the transfer in flight, release; one lemma per action |
| `VerdictOwn` | `VerdictIsOwn` | `JudgeOK`: `judge < at` until the init function leaves, `judge = at` afterwards |
| `DynamicCorrect` | `DynamicPassedMeansVerified` | `FlightOK`: a dynamic chain has at most one transfer in flight, the last one that was linked, and every earlier flag was set on a good result |
| `BadRoundsRemembered` | `NoBadRoundForgotten` | `RoundOK`: a transfer once found bad keeps `rounds = max_rounds` and its flag off, so it is used up |
| `ChainReleases`, `LeakCorrect` | `PassedMeansReleased`, `LeakBounded` | `MemOK`: only the transfer that could not be linked has buffers without being linked; `ReleaseOK`: the exit loop has freed the linked ones before its index, and a verdict 1 means the chain was freed |
| `ParallelTypeCorrect`, `VerdictCorrect`, `AccountsCorrect` | types, `VerdictExact`, `Accounted` | `ListsOK` follows the lists through a block, `ExecutionOK` the executors that have and have not written theirs |
| `EvidenceCorrect` | `EvidenceKept` | `PhaseOK`: with no operation in progress all executors are gone |

Two more hypotheses are as in the runs. `VerdictTheorem` is about
the script without `-o` and a pan with `-e`, a start count and fewer than 256 starts
(`StatusReaches`): otherwise the status is `tee`'s, is not kept, or loses bits, and the
statement is false. `BumpZooTheorem` and `BumpHarmless` are about bumps of the name of pan;
a bump of a test's name may take the line that pan is about to clear.

`Dropped` and `NoStray` are part of the properties, in the runs and in the theorems alike. They
are exactly what the interrupted calls of `run_child` cost, and both are void when `sa_flags`
happens to contain `SA_RESTART` or no signal arrives (`RestartTheorem`).

Lemmas about single steps of pan are stated for `AnyNext`, which lets every signal arrive and
not only the `UserSignals` of an instance. The steps of `Next` are such steps, and so is the
kill of a bump, so the same lemmas serve pan alone, under the script and next to a bump.

The inductive invariants were checked as invariants of the instances above before they were
proved. Every invariant and every safety property of a passing run is a theorem. Only
model-checked are the liveness properties, which are beyond this prover: `CallsReturn`,
`Terminates`, `IdleEnds`, `DrainTerminates`, `StopFileHonoured`, `StaleLineCleared`,
`ScenarioEnds`, `ChainScenarioEnds` and `ExecuteReturns`.

## 5. Plan and limits

Done: the zoo, pan, bump, the test runner, the single channel and chained dma tests and the
parallel handler, with the theorems above. Next:

1. The chain tests that break a chain from a callback (`dma_chain_*_break.c`) and those that
   run two chains in threads, as variants of `DmaChain`.
2. Algorithms: `get_collection`, `splitstr`, the symbol table of the reporter.

### Not modelled

The map covers a small share of the tree's lines. Nearly all of the 650 000 lines are
third-party programs that the suites carry for the target (LTP's file-system and SCSI tests,
in three copies, lmbench, bc, memtester, nuttcp, i2c-tools, fbtest with its fonts), which are
not this program's logic. Of its own parts:

* dma: descriptor loading (`dma_dload*.c`), off-mode (`*_oswr*.c`) and register dumps drive
  hardware state that the modules do not judge; chain breaks and chain threads are planned;
* handlers for CPU hot-plug, CPU and interrupt affinity, priorities, frequencies and power:
  loops over `/sys` and `/proc` whose outcome depends on the hardware, without a promise that
  a property could state;
* mcbsp: transmits and receives until told to stop, compares nothing and gives no verdict;
  mcspi: a straight line of synchronous messages and a comparison;
* the reporter and its symbol table (sequential text processing), the flex scanner (generated);
* gpio, gpadc, timer, watchdog, serial, camera, video, framebuffer and audio suites: straight-line
  device I/O;
* scenario files and Makefiles: data.
