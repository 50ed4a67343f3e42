----------------------------- MODULE ZooAtomic -----------------------------
(***************************************************************************)
(* What zoolib.h promises its callers (pan and bump processes): a call     *)
(* takes effect on the whole file at one instant between its invocation    *)
(* and its return.  An I/O error may make a call return -1 without effect. *)
(***************************************************************************)
EXTENDS Zoo

CONSTANTS Clients,   \* processes that have the zoo open
          Ops,       \* the calls they make: [kind, pid, tag]
          Accepts    \* tag |-> the tags that have it as a prefix

VARIABLE call        \* per client: idle, or a call that is pending or returned

Kinds == {"mark", "clear", "getpid"}
Idle == [st |-> "idle"]
Pending(op) == [st |-> "pending", op |-> op]
Returned(op, ret) == [st |-> "returned", op |-> op, ret |-> ret]

avars == <<zoo, call>>

AInit == zoo = <<>> /\ call = [x \in Clients |-> Idle]

Invoke(x, op) ==
    /\ call[x] = Idle
    /\ call' = [call EXCEPT ![x] = Pending(op)]
    /\ UNCHANGED zoo

(* The call takes effect on the file as it is, and so does its result.     *)
Effect(op) ==
    \/ op.kind = "mark" /\ zoo_mark(op.pid, op.tag)
    \/ op.kind = "clear" /\ zoo_clear(op.pid)
    \/ op.kind = "getpid" /\ UNCHANGED zoo

Result(op) ==
    IF op.kind = "mark" THEN 0
    ELSE IF op.kind = "clear" THEN (IF ClearWarns(op.pid) THEN 1 ELSE 0)
    ELSE zoo_getpid(Accepts[op.tag])

Do(x, op) ==
    /\ call[x] = Pending(op)
    /\ Effect(op)
    /\ call' = [call EXCEPT ![x] = Returned(op, Result(op))]

Fail(x, op) ==
    /\ call[x] = Pending(op)
    /\ call' = [call EXCEPT ![x] = Returned(op, -1)]
    /\ UNCHANGED zoo

Return(x) ==
    /\ call[x].st = "returned"
    /\ call' = [call EXCEPT ![x] = Idle]
    /\ UNCHANGED zoo

ANext ==
    \E x \in Clients :
        \/ \E op \in Ops : Invoke(x, op) \/ Do(x, op) \/ Fail(x, op)
        \/ Return(x)

ASpec == AInit /\ [][ANext]_avars
============================================================================
