------------------------------ MODULE ZooLock ------------------------------
(***************************************************************************)
(* utils/pan/zoolib.c as it runs: every call takes the fcntl lock, reads   *)
(* the file line by line from the start, writes at the place it found, and *)
(* unlocks.  Clients are processes; fcntl locks belong to processes, so a  *)
(* client that holds the lock gets it again at once.  The operators called *)
(* Bug... are mistakes that the properties are known to catch.             *)
(***************************************************************************)
EXTENDS Zoo

CONSTANTS Clients, Ops, Accepts,
          SeekMayFail,   \* fseek() may fail (an I/O error)
          MaxLines       \* bound: no new zoo_mark() once the file has this many lines

Kinds == {"mark", "clear", "getpid"}
Tags  == DOMAIN Accepts
NoOp  == [kind |-> "none"]
NoClient == "nobody"

ASSUME OpsAssumption ==
    \A o \in Ops : o \in [kind : Kinds, pid : Nat, tag : Tags]
ASSUME ClientsAssumption == NoClient \notin Clients
ASSUME BoundAssumption == SeekMayFail \in BOOLEAN /\ MaxLines \in Nat

VARIABLES
    holder,   \* who holds the fcntl lock
    pc, op,   \* per client: place in the call, and the call
    pos,      \* per client: the line about to be read, or the one to write to
    ret       \* per client: the value being returned

vars == <<zoo, holder, pc, op, pos, ret>>

(* The test a call makes on each line it reads. *)
BugMatchAnyPid(o, line) ==
    \/ o.kind = "mark" /\ line = Free
    \/ o.kind = "clear" /\ line # Free
    \/ o.kind = "getpid" /\ line # Free /\ line.tag \in Accepts[o.tag]

BugMatchWholeTag(o, line) ==
    \/ o.kind = "mark" /\ line = Free
    \/ o.kind = "clear" /\ line # Free /\ line.pid = o.pid
    \/ o.kind = "getpid" /\ line # Free /\ line.tag = o.tag

Match(o, line) ==
    \/ o.kind = "mark" /\ line = Free
    \/ o.kind = "clear" /\ line # Free /\ line.pid = o.pid
    \/ o.kind = "getpid" /\ line # Free /\ line.tag \in Accepts[o.tag]

Init ==
    /\ zoo = <<>> /\ holder = NoClient
    /\ pc = [x \in Clients |-> "idle"]
    /\ op = [x \in Clients |-> NoOp]
    /\ pos = [x \in Clients |-> 1]
    /\ ret = [x \in Clients |-> 0]

Begin(x, o) ==
    /\ pc[x] = "idle"
    /\ o.kind = "mark" => Len(zoo) < MaxLines
    /\ pc' = [pc EXCEPT ![x] = "lock"]
    /\ op' = [op EXCEPT ![x] = o]
    /\ UNCHANGED <<zoo, holder, pos, ret>>

(* zoo_lock() and rewind(). *)
BugLockIgnored(x) ==
    /\ pc[x] = "lock"
    /\ holder' = x
    /\ pos' = [pos EXCEPT ![x] = 1]
    /\ pc' = [pc EXCEPT ![x] = "scan"]
    /\ UNCHANGED <<zoo, op, ret>>

BugLockNotOwned(x) ==
    /\ pc[x] = "lock"
    /\ holder = NoClient
    /\ holder' = x
    /\ pos' = [pos EXCEPT ![x] = 1]
    /\ pc' = [pc EXCEPT ![x] = "scan"]
    /\ UNCHANGED <<zoo, op, ret>>

Lock(x) ==
    /\ pc[x] = "lock"
    /\ holder \in {NoClient, x}
    /\ holder' = x
    /\ pos' = [pos EXCEPT ![x] = 1]
    /\ pc' = [pc EXCEPT ![x] = "scan"]
    /\ UNCHANGED <<zoo, op, ret>>

(* fgets() delivers a line that is not the wanted one ... *)
Skip(x) ==
    /\ pc[x] = "scan"
    /\ pos[x] \in DOMAIN zoo
    /\ ~Match(op[x], zoo[pos[x]])
    /\ pos' = [pos EXCEPT ![x] = @ + 1]
    /\ UNCHANGED <<zoo, holder, pc, op, ret>>

(* ... or the wanted one: zoo_getpid() is done, the others write to it ... *)
Found(x) ==
    /\ pc[x] = "scan"
    /\ pos[x] \in DOMAIN zoo
    /\ Match(op[x], zoo[pos[x]])
    /\ IF op[x].kind = "getpid"
       THEN /\ ret' = [ret EXCEPT ![x] = zoo[pos[x]].pid]
            /\ pc' = [pc EXCEPT ![x] = "unlock"]
       ELSE /\ pc' = [pc EXCEPT ![x] = "write"]
            /\ UNCHANGED ret
    /\ UNCHANGED <<zoo, holder, op, pos>>

(* ... or nothing: zoo_mark() goes on to the end, the others give up.      *)
AtEnd(x) ==
    /\ pc[x] = "scan"
    /\ pos[x] \notin DOMAIN zoo
    /\ IF op[x].kind = "mark"
       THEN /\ pc' = [pc EXCEPT ![x] = "write"]
            /\ UNCHANGED ret
       ELSE /\ pc' = [pc EXCEPT ![x] = "unlock"]
            /\ ret' = [ret EXCEPT ![x] = IF op[x].kind = "clear" THEN 1 ELSE -1]
    /\ UNCHANGED <<zoo, holder, op, pos>>

(* fseek(), fprintf() or fputs("#"), fflush(). *)
Write(x) ==
    /\ pc[x] = "write"
    /\ zoo' = IF op[x].kind = "clear" THEN [zoo EXCEPT ![pos[x]] = Free]
               ELSE IF pos[x] \in DOMAIN zoo
                    THEN [zoo EXCEPT ![pos[x]] = Entry(op[x].pid, op[x].tag)]
               ELSE Append(zoo, Entry(op[x].pid, op[x].tag))
    /\ ret' = [ret EXCEPT ![x] = 0]
    /\ pc' = [pc EXCEPT ![x] = "unlock"]
    /\ UNCHANGED <<holder, op, pos>>

(* The seek error paths return -1 and keep the lock. *)
SeekError(x) ==
    /\ SeekMayFail
    /\ pc[x] = "write"
    /\ ret' = [ret EXCEPT ![x] = -1]
    /\ pc' = [pc EXCEPT ![x] = "return"]
    /\ UNCHANGED <<zoo, holder, op, pos>>

(* zoo_unlock() *)
Unlock(x) ==
    /\ pc[x] = "unlock"
    /\ holder' = NoClient
    /\ pc' = [pc EXCEPT ![x] = "return"]
    /\ UNCHANGED <<zoo, op, pos, ret>>

(* Back in the caller. *)
Return(x) ==
    /\ pc[x] = "return"
    /\ pc' = [pc EXCEPT ![x] = "idle"]
    /\ op' = [op EXCEPT ![x] = NoOp]
    /\ pos' = [pos EXCEPT ![x] = 1]
    /\ ret' = [ret EXCEPT ![x] = 0]
    /\ UNCHANGED <<zoo, holder>>

(* The process ends between two calls; the kernel drops its lock.          *)
Exit(x) ==
    /\ pc[x] = "idle"
    /\ pc' = [pc EXCEPT ![x] = "gone"]
    /\ holder' = IF holder = x THEN NoClient ELSE holder
    /\ UNCHANGED <<zoo, op, pos, ret>>

Step(x) ==
    \/ \E o \in Ops : Begin(x, o)
    \/ Lock(x) \/ Skip(x) \/ Found(x) \/ AtEnd(x) \/ Write(x) \/ SeekError(x)
    \/ Unlock(x) \/ Return(x) \/ Exit(x)

AllGone == (\A x \in Clients : pc[x] = "gone") /\ UNCHANGED vars

Next == (\E x \in Clients : Step(x)) \/ AllGone

Spec == Init /\ [][Next]_vars

(* The lock is granted to everyone who keeps asking, and a process that is *)
(* inside a call goes on.                                                  *)
Fairness ==
    \A x \in Clients :
        /\ SF_vars(Lock(x))
        /\ WF_vars(Skip(x) \/ Found(x) \/ AtEnd(x) \/ Write(x) \/ Unlock(x) \/ Return(x))

FairSpec == Spec /\ Fairness

----------------------------------------------------------------------------
Lines == [pid : Int, tag : Tags \cup {"#"}]

TypeOK ==
    /\ zoo \in Seq(Lines)
    /\ holder \in Clients \cup {NoClient}
    /\ pc \in [Clients -> {"idle", "lock", "scan", "write", "unlock", "return", "gone"}]
    /\ op \in [Clients -> Ops \cup {NoOp}]
    /\ pos \in [Clients -> Nat \ {0}]
    /\ ret \in [Clients -> Int]

(* The view of a caller: a call takes effect when it has its result.       *)
CallOf(x) ==
    IF pc[x] \in {"idle", "gone"} THEN [st |-> "idle"]
    ELSE IF pc[x] \in {"lock", "scan", "write"} THEN [st |-> "pending", op |-> op[x]]
    ELSE [st |-> "returned", op |-> op[x], ret |-> ret[x]]

calls == [x \in Clients |-> CallOf(x)]

Abs == INSTANCE ZooAtomic WITH call <- calls

(* The line-by-line calls implement the atomic ones.                       *)
Atomic == Abs!ASpec

(* Only the holder of the lock is between lock and unlock, and it works on *)
(* what is in the file now: it has passed no line it was looking for, and  *)
(* the line it is about to overwrite is still the one it found.            *)
ScanIsCurrent ==
    \A x \in Clients : pc[x] \in {"scan", "write", "unlock"} =>
        /\ holder = x
        /\ pc[x] # "unlock" =>
             /\ \A k \in DOMAIN zoo : k < pos[x] => ~Match(op[x], zoo[k])
             /\ pc[x] = "write" /\ pos[x] \in DOMAIN zoo => Match(op[x], zoo[pos[x]])

(* No line is overwritten while its owner still counts on it: a line only  *)
(* changes from free to taken by a mark or from taken to free by a clear   *)
(* of that very pid, and the file never shrinks.                           *)
NoLineLost ==
    [][ /\ Len(zoo') >= Len(zoo)
        /\ \A k \in DOMAIN zoo : zoo'[k] # zoo[k] =>
             \/ zoo[k] = Free
             \/ /\ zoo'[k] = Free
                /\ \E x \in Clients : op[x].kind = "clear" /\ op[x].pid = zoo[k].pid ]_vars

(* A call returns, unless another process has the lock for ever because it *)
(* left a call of its own with it (a seek error), and neither ends nor has *)
(* a call that gives it back.  A process that left a call with the lock is *)
(* not in its own way.                                                     *)
KeptBy(y)        == holder = y /\ pc[y] \notin {"scan", "write", "unlock"}
KeptForEverBy(y) == <>[](holder = y) /\ []<>KeptBy(y)

CallsReturn ==
    \A x \in Clients :
        \/ (pc[x] = "lock") ~> (pc[x] = "idle")
        \/ \E y \in Clients \ {x} : KeptForEverBy(y)
============================================================================
