--------------------------- MODULE ZooLockProofs ---------------------------
(***************************************************************************)
(* For any number of processes and any calls: the line-by-line code under  *)
(* the fcntl lock implements the atomic zoo of ZooAtomic.tla.              *)
(***************************************************************************)
EXTENDS ZooLock, TLAPS

InCall == {"lock", "scan", "write", "unlock", "return"}

(* What ScanIsCurrent needs to be inductive: the call is known, a scan is  *)
(* at most one line past the end, only zoo_mark() writes there, and only   *)
(* the calls that write reach the write.                                   *)
CallShape ==
    \A x \in Clients :
        /\ pc[x] \in InCall => op[x] \in Ops
        /\ pc[x] \in {"scan", "write"} => pos[x] <= Len(zoo) + 1
        /\ pc[x] = "write" => \/ op[x].kind = "mark"
                              \/ op[x].kind = "clear" /\ pos[x] \in DOMAIN zoo

IInv == TypeOK /\ CallShape /\ ScanIsCurrent

LEMMA OpFields ==
    ASSUME NEW o \in Ops
    PROVE  /\ o.kind \in Kinds /\ o.pid \in Nat /\ o.tag \in Tags
           /\ Entry(o.pid, o.tag) \in Lines /\ Entry(o.pid, o.tag) # Free
           /\ o # NoOp
  <1>1. o \in [kind : Kinds, pid : Nat, tag : Tags]
    BY OpsAssumption
  <1>2. o.kind \in Kinds /\ o.pid \in Nat /\ o.tag \in Tags
    BY <1>1
  <1>3. Entry(o.pid, o.tag) \in Lines
    BY <1>2 DEF Entry, Lines
  <1>4. Entry(o.pid, o.tag) # Free
    BY <1>2 DEF Entry, Free
  <1>5. o # NoOp
    BY <1>2 DEF Kinds, NoOp
  <1> QED BY <1>2, <1>3, <1>4, <1>5

LEMMA FreeIsALine == Free \in Lines
  BY DEF Free, Entry, Lines

LEMMA InitIInv == Init => IInv
  BY ClientsAssumption DEF Init, IInv, TypeOK, CallShape, ScanIsCurrent, InCall, NoOp, Lines

(* The file after a write, and that the holder is the only one scanning.   *)
LEMMA WriteShape ==
    ASSUME IInv, NEW x \in Clients, Write(x)
    PROVE  zoo' \in Seq(Lines) /\ Len(zoo') >= Len(zoo)
  <1>1. op[x] \in Ops /\ pos[x] \in Nat \ {0} /\ pc[x] = "write"
    BY DEF IInv, CallShape, InCall, Write, TypeOK
  <1>2. Entry(op[x].pid, op[x].tag) \in Lines /\ Free \in Lines
    BY <1>1, OpFields, FreeIsALine
  <1>3. zoo \in Seq(Lines)
    BY DEF IInv, TypeOK
  <1>4. CASE op[x].kind = "clear"
    <2>1. pos[x] \in DOMAIN zoo
      BY <1>1, <1>4 DEF IInv, CallShape
    <2>2. zoo' = [zoo EXCEPT ![pos[x]] = Free]
      BY <1>4 DEF Write
    <2> QED BY <1>2, <1>3, <2>1, <2>2
  <1>5. CASE op[x].kind # "clear" /\ pos[x] \in DOMAIN zoo
    <2>1. zoo' = [zoo EXCEPT ![pos[x]] = Entry(op[x].pid, op[x].tag)]
      BY <1>5 DEF Write
    <2> QED BY <1>2, <1>3, <1>5, <2>1
  <1>6. CASE op[x].kind # "clear" /\ pos[x] \notin DOMAIN zoo
    <2>1. zoo' = Append(zoo, Entry(op[x].pid, op[x].tag))
      BY <1>6 DEF Write
    <2> QED BY <1>2, <1>3, <2>1
  <1> QED BY <1>4, <1>5, <1>6

LEMMA StepIInv ==
    ASSUME IInv, NEW x \in Clients, Step(x)
    PROVE  IInv'
  <1> USE DEF IInv, TypeOK, CallShape, ScanIsCurrent, InCall
  <1>1. ASSUME NEW o \in Ops, Begin(x, o) PROVE IInv'
    BY <1>1, OpFields DEF Begin, NoOp, Match, Free, Entry
  <1>2. CASE Lock(x)
    BY <1>2, ClientsAssumption DEF Lock
  <1>3. CASE Skip(x)
    BY <1>3 DEF Skip
  <1>4. CASE Found(x)
    <2>0. zoo[pos[x]] \in Lines
      BY <1>4 DEF Found
    <2>1. zoo[pos[x]].pid \in Int
      BY <2>0 DEF Lines
    <2>2. op[x].kind \in Kinds
      BY <1>4, OpFields DEF Found
    <2> QED BY <1>4, <2>1, <2>2 DEF Found, Kinds
  <1>5. CASE AtEnd(x)
    <2>1. CASE op[x].kind = "mark"
      BY <1>5, <2>1 DEF AtEnd
    <2>2. CASE op[x].kind # "mark"
      <3>1. pc' = [pc EXCEPT ![x] = "unlock"] /\ UNCHANGED <<zoo, holder, op, pos>>
        BY <1>5, <2>2 DEF AtEnd
      <3>2. ret' \in [Clients -> Int]
        BY <1>5, <2>2 DEF AtEnd
      <3> QED BY <1>5, <3>1, <3>2 DEF AtEnd
    <2> QED BY <2>1, <2>2
  <1>6. CASE Write(x)
    <2>1. zoo' \in Seq(Lines) /\ Len(zoo') >= Len(zoo)
      BY <1>6, WriteShape
    <2>2. holder = x /\ pc[x] = "write"
      BY <1>6 DEF Write
    <2>3. TypeOK'
      BY <1>6, <2>1 DEF Write
    <2>4. \A y \in Clients : pc'[y] \in {"scan", "write", "unlock"} => y = x /\ pc'[y] = "unlock"
      BY <1>6, <2>2 DEF Write
    <2>5. CallShape'
      BY <1>6, <2>4 DEF Write
    <2>6. ScanIsCurrent'
      BY <1>6, <2>2, <2>4 DEF Write
    <2> QED BY <2>3, <2>5, <2>6
  <1>7. CASE SeekError(x)
    BY <1>7 DEF SeekError
  <1>8. CASE Unlock(x)
    BY <1>8 DEF Unlock
  <1>9. CASE Return(x)
    BY <1>9 DEF Return
  <1>10. CASE Exit(x)
    BY <1>10 DEF Exit
  <1> QED BY <1>1, <1>2, <1>3, <1>4, <1>5, <1>6, <1>7, <1>8, <1>9, <1>10 DEF Step

LEMMA StepPreserves == IInv /\ [Next]_vars => IInv'
  <1> SUFFICES ASSUME IInv, [Next]_vars PROVE IInv'
    OBVIOUS
  <1>1. CASE UNCHANGED vars
    BY <1>1 DEF vars, IInv, TypeOK, CallShape, ScanIsCurrent, InCall, Match
  <1>2. ASSUME NEW x \in Clients, Step(x) PROVE IInv'
    BY <1>2, StepIInv
  <1> QED BY <1>1, <1>2 DEF Next, AllGone

(* The invariant that TLC checks on two processes holds for any number:    *)
(* what a process has read under the lock is still in the file when it     *)
(* writes.                                                                 *)
THEOREM ScanTheorem == Spec => [](TypeOK /\ ScanIsCurrent)
  <1>1. IInv => TypeOK /\ ScanIsCurrent
    BY DEF IInv
  <1> QED BY InitIInv, StepPreserves, <1>1, PTL DEF Spec

----------------------------------------------------------------------------
(* A step of one client changes the caller's view of that client only.     *)
LEMMA OthersKeepTheirCalls ==
    ASSUME NEW x \in Clients,
           \A y \in Clients \ {x} : pc'[y] = pc[y] /\ op'[y] = op[y] /\ ret'[y] = ret[y]
    PROVE  calls' = [calls EXCEPT ![x] = CallOf(x)']
  BY DEF calls, CallOf

(* The place that a scan stops at is the first one there is ...            *)
LEMMA FoundIsFirst ==
    ASSUME IInv, NEW x \in Clients, pc[x] \in {"scan", "write"},
           pos[x] \in DOMAIN zoo, Match(op[x], zoo[pos[x]])
    PROVE  IsFirst(pos[x], {k \in DOMAIN zoo : Match(op[x], zoo[k])})
  <1>1. \A k \in DOMAIN zoo : k < pos[x] => ~Match(op[x], zoo[k])
    BY DEF IInv, ScanIsCurrent
  <1>2. pos[x] \in Nat /\ DOMAIN zoo \subseteq Nat
    BY DEF IInv, TypeOK
  <1> QED BY <1>1, <1>2 DEF IsFirst

(* ... and a scan that reaches the end has seen that there is none.        *)
LEMMA EndMeansNone ==
    ASSUME IInv, NEW x \in Clients, pc[x] \in {"scan", "write"}, pos[x] \notin DOMAIN zoo
    PROVE  \A k \in DOMAIN zoo : ~Match(op[x], zoo[k])
  <1>1. \A k \in DOMAIN zoo : k < pos[x] => ~Match(op[x], zoo[k])
    BY DEF IInv, ScanIsCurrent
  <1>2. zoo \in Seq(Lines) /\ pos[x] \in Nat \ {0}
    BY DEF IInv, TypeOK
  <1>3. \A k \in DOMAIN zoo : k < pos[x]
    BY <1>2
  <1> QED BY <1>1, <1>3

LEMMA FirstIsUnique ==
    ASSUME NEW S \in SUBSET Nat, NEW j, NEW k, IsFirst(j, S), IsFirst(k, S)
    PROVE  j = k
  BY DEF IsFirst

(* A call that takes effect in the scan or in the write is an atomic one.  *)
LEMMA WriteIsDo ==
    ASSUME IInv, NEW x \in Clients, Write(x)
    PROVE  Abs!Do(x, op[x]) /\ op[x] \in Ops
  <1> DEFINE o == op[x]
  <1>1. o \in Ops /\ pc[x] = "write" /\ pos[x] \in Nat \ {0}
    BY DEF IInv, CallShape, InCall, Write, TypeOK
  <1>2. calls' = [calls EXCEPT ![x] = CallOf(x)']
    BY OthersKeepTheirCalls DEF Write, IInv, TypeOK
  <1>3. CallOf(x)' = Abs!Returned(o, 0) /\ calls[x] = Abs!Pending(o)
    BY <1>1 DEF Write, CallOf, calls, Abs!Returned, Abs!Pending, IInv, TypeOK
  <1>4. CASE o.kind = "clear"
    <2>1. pos[x] \in DOMAIN zoo /\ Match(o, zoo[pos[x]])
      BY <1>1, <1>4 DEF IInv, CallShape, ScanIsCurrent
    <2>2. IsFirst(pos[x], {k \in DOMAIN zoo : Match(o, zoo[k])})
      BY <1>1, <2>1, FoundIsFirst
    <2>3. {k \in DOMAIN zoo : Match(o, zoo[k])} = Abs!LinesOf(o.pid)
      BY <1>4 DEF Match, Abs!LinesOf, Abs!LinesIn, Abs!Free, Abs!Entry, Free, Entry
    <2>4. Abs!IsFirst(pos[x], Abs!LinesOf(o.pid)) /\ pos[x] \in Abs!LinesOf(o.pid)
      BY <2>2, <2>3 DEF Abs!IsFirst, IsFirst
    <2>5. zoo' = [zoo EXCEPT ![pos[x]] = Abs!Free]
      BY <1>4 DEF Write, Abs!Free, Abs!Entry, Free, Entry
    <2>6. Abs!zoo_clear(o.pid)
      BY <2>4, <2>5 DEF Abs!zoo_clear
    <2>7. Abs!Result(o) = 0
      BY <1>4, <2>4 DEF Abs!Result, Abs!ClearWarns
    <2>8. Abs!Effect(o)
      BY <1>4, <2>6 DEF Abs!Effect
    <2> QED BY <1>1, <1>2, <1>3, <2>7, <2>8 DEF Abs!Do
  <1>5. CASE o.kind = "mark"
    <2>1. {k \in DOMAIN zoo : Match(o, zoo[k])} = Abs!FreeLines
      BY <1>5 DEF Match, Abs!FreeLines, Abs!FreeLinesOf, Abs!Free, Abs!Entry, Free, Entry
    <2>2. Abs!zoo_mark(o.pid, o.tag)
      <3>1. CASE pos[x] \in DOMAIN zoo
        <4>1. Match(o, zoo[pos[x]])
          BY <1>1, <3>1 DEF IInv, ScanIsCurrent
        <4>2. Abs!IsFirst(pos[x], Abs!FreeLines) /\ pos[x] \in Abs!FreeLines
          BY <1>1, <3>1, <4>1, <2>1, FoundIsFirst DEF Abs!IsFirst, IsFirst
        <4>3. zoo' = [zoo EXCEPT ![pos[x]] = Abs!Entry(o.pid, o.tag)]
          BY <1>5, <3>1 DEF Write, Abs!Entry, Entry
        <4> QED BY <4>2, <4>3 DEF Abs!zoo_mark
      <3>2. CASE pos[x] \notin DOMAIN zoo
        <4>1. Abs!FreeLines = {}
          BY <1>1, <3>2, <2>1, EndMeansNone
        <4>2. zoo' = Append(zoo, Abs!Entry(o.pid, o.tag))
          BY <1>5, <3>2 DEF Write, Abs!Entry, Entry
        <4> QED BY <4>1, <4>2 DEF Abs!zoo_mark
      <3> QED BY <3>1, <3>2
    <2>3. Abs!Result(o) = 0
      BY <1>5 DEF Abs!Result
    <2>4. Abs!Effect(o)
      BY <1>5, <2>2 DEF Abs!Effect
    <2> QED BY <1>1, <1>2, <1>3, <2>3, <2>4 DEF Abs!Do
  <1> QED BY <1>1, <1>4, <1>5 DEF IInv, CallShape

LEMMA FoundRefines ==
    ASSUME IInv, NEW x \in Clients, Found(x)
    PROVE  UNCHANGED <<zoo, calls>> \/ (op[x] \in Ops /\ Abs!Do(x, op[x]))
  <1> DEFINE o == op[x]
             hits == {k \in DOMAIN zoo : zoo[k] # Abs!Free /\ zoo[k].tag \in Accepts[o.tag]}
  <1>1. o \in Ops /\ pc[x] = "scan" /\ pos[x] \in DOMAIN zoo /\ Match(o, zoo[pos[x]])
    BY DEF IInv, CallShape, InCall, Found
  <1>2. calls' = [calls EXCEPT ![x] = CallOf(x)']
    BY OthersKeepTheirCalls DEF Found, IInv, TypeOK
  <1>3. CASE o.kind = "getpid"
    <2>1. {k \in DOMAIN zoo : Match(o, zoo[k])} = hits
      BY <1>3 DEF Match, Abs!Free, Abs!Entry, Free, Entry
    <2>2. IsFirst(pos[x], hits)
      BY <1>1, <2>1, FoundIsFirst
    <2>3. hits \in SUBSET Nat
      BY DEF IInv, TypeOK
    <2>4. Abs!IsFirst(pos[x], hits)
      BY <2>2 DEF Abs!IsFirst, IsFirst
    <2>5. \A k : Abs!IsFirst(k, hits) => k = pos[x]
      BY <2>2, <2>3, FirstIsUnique DEF Abs!IsFirst, IsFirst
    <2>6. pos[x] \in hits
      BY <2>2 DEF IsFirst
    <2>7. (CHOOSE k \in hits : Abs!IsFirst(k, hits)) = pos[x]
      BY <2>4, <2>5, <2>6
    <2>8. Abs!zoo_getpid(Accepts[o.tag]) = zoo[pos[x]].pid
      BY <2>6, <2>7 DEF Abs!zoo_getpid
    <2>9. Abs!Result(o) = zoo[pos[x]].pid
      BY <1>3, <2>8 DEF Abs!Result
    <2>10. CallOf(x)' = Abs!Returned(o, zoo[pos[x]].pid) /\ calls[x] = Abs!Pending(o)
      BY <1>1, <1>3 DEF Found, CallOf, calls, Abs!Returned, Abs!Pending, IInv, TypeOK
    <2>11. Abs!Effect(o)
      BY <1>3 DEF Abs!Effect, Found
    <2> QED BY <1>1, <1>2, <2>9, <2>10, <2>11 DEF Abs!Do
  <1>4. CASE o.kind # "getpid"
    <2>1. CallOf(x)' = CallOf(x) /\ UNCHANGED zoo
      BY <1>1, <1>4 DEF Found, CallOf, IInv, TypeOK
    <2> QED BY <1>2, <2>1 DEF calls
  <1> QED BY <1>3, <1>4

LEMMA AtEndRefines ==
    ASSUME IInv, NEW x \in Clients, AtEnd(x)
    PROVE  UNCHANGED <<zoo, calls>> \/ (op[x] \in Ops /\ Abs!Do(x, op[x]))
  <1> DEFINE o == op[x]
  <1>1. o \in Ops /\ pc[x] = "scan"
    BY DEF IInv, CallShape, InCall, AtEnd
  <1>2. calls' = [calls EXCEPT ![x] = CallOf(x)']
    BY OthersKeepTheirCalls DEF AtEnd, IInv, TypeOK
  <1>3. \A k \in DOMAIN zoo : ~Match(o, zoo[k])
    BY <1>1, EndMeansNone DEF AtEnd
  <1>4. CASE o.kind = "mark"
    <2>1. CallOf(x)' = CallOf(x) /\ UNCHANGED zoo
      BY <1>1, <1>4 DEF AtEnd, CallOf, IInv, TypeOK
    <2> QED BY <1>2, <2>1 DEF calls
  <1>5. CASE o.kind = "clear"
    <2>1. Abs!ClearWarns(o.pid)
      BY <1>3, <1>5 DEF Match, Abs!ClearWarns, Abs!LinesOf, Abs!LinesIn, Abs!Free, Abs!Entry,
                        Free, Entry
    <2>2. Abs!Result(o) = 1 /\ Abs!Effect(o)
      BY <1>5, <2>1 DEF Abs!Result, Abs!Effect, Abs!zoo_clear, AtEnd
    <2>3. CallOf(x)' = Abs!Returned(o, 1) /\ calls[x] = Abs!Pending(o)
      BY <1>1, <1>5 DEF AtEnd, CallOf, calls, Abs!Returned, Abs!Pending, IInv, TypeOK
    <2> QED BY <1>1, <1>2, <2>2, <2>3 DEF Abs!Do
  <1>6. CASE o.kind = "getpid"
    <2>1. Abs!zoo_getpid(Accepts[o.tag]) = -1
      BY <1>3, <1>6 DEF Match, Abs!zoo_getpid, Abs!Free, Abs!Entry, Free, Entry
    <2>2. Abs!Result(o) = -1 /\ Abs!Effect(o)
      BY <1>6, <2>1 DEF Abs!Result, Abs!Effect, AtEnd
    <2>3. CallOf(x)' = Abs!Returned(o, -1) /\ calls[x] = Abs!Pending(o)
      BY <1>1, <1>6 DEF AtEnd, CallOf, calls, Abs!Returned, Abs!Pending, IInv, TypeOK
    <2> QED BY <1>1, <1>2, <2>2, <2>3 DEF Abs!Do
  <1> QED BY <1>1, <1>4, <1>5, <1>6, OpFields DEF Kinds

LEMMA StepRefines ==
    ASSUME IInv, NEW x \in Clients, Step(x)
    PROVE  UNCHANGED <<zoo, calls>> \/ Abs!ANext
  <1> USE DEF IInv, TypeOK
  <1>1. ASSUME NEW o \in Ops, Begin(x, o) PROVE Abs!Invoke(x, o)
    <2>1. calls' = [calls EXCEPT ![x] = CallOf(x)']
      BY <1>1, OthersKeepTheirCalls DEF Begin
    <2> QED BY <1>1, <2>1 DEF Begin, CallOf, calls, Abs!Invoke, Abs!Idle, Abs!Pending
  <1>2. CASE Lock(x) \/ Skip(x) \/ Unlock(x) \/ Exit(x)
    <2>1. calls' = [calls EXCEPT ![x] = CallOf(x)']
      BY <1>2, OthersKeepTheirCalls DEF Lock, Skip, Unlock, Exit
    <2>2. CallOf(x)' = CallOf(x) /\ UNCHANGED zoo
      BY <1>2 DEF Lock, Skip, Unlock, Exit, CallOf
    <2> QED BY <2>1, <2>2 DEF calls
  <1>3. CASE SeekError(x)
    <2>1. calls' = [calls EXCEPT ![x] = CallOf(x)']
      BY <1>3, OthersKeepTheirCalls DEF SeekError
    <2>2. op[x] \in Ops
      BY <1>3 DEF SeekError, CallShape, InCall
    <2>3. Abs!Fail(x, op[x])
      BY <1>3, <2>1 DEF SeekError, CallOf, calls, Abs!Fail, Abs!Pending, Abs!Returned
    <2> QED BY <2>2, <2>3 DEF Abs!ANext
  <1>4. CASE Return(x)
    <2>1. calls' = [calls EXCEPT ![x] = CallOf(x)']
      BY <1>4, OthersKeepTheirCalls DEF Return
    <2>2. Abs!Return(x)
      BY <1>4, <2>1 DEF Return, CallOf, calls, Abs!Return, Abs!Idle
    <2> QED BY <2>2 DEF Abs!ANext
  <1>5. CASE Found(x)
    BY <1>5, FoundRefines DEF Abs!ANext
  <1>6. CASE AtEnd(x)
    BY <1>6, AtEndRefines DEF Abs!ANext
  <1>7. CASE Write(x)
    BY <1>7, WriteIsDo DEF Abs!ANext
  <1> QED BY <1>1, <1>2, <1>3, <1>4, <1>5, <1>6, <1>7 DEF Step, Abs!ANext

(* Each zoo call takes effect at one instant, whatever the number of pans  *)
(* and bumps on the file and wherever their seeks fail.                    *)
THEOREM AtomicTheorem == Spec => Atomic
  <1>1. Init => Abs!AInit
    BY DEF Init, Abs!AInit, calls, CallOf, Abs!Idle
  <1>2. IInv /\ [Next]_vars => [Abs!ANext]_Abs!avars
    <2> SUFFICES ASSUME IInv, [Next]_vars PROVE [Abs!ANext]_Abs!avars
      OBVIOUS
    <2>1. CASE UNCHANGED vars
      BY <2>1 DEF vars, Abs!avars, calls, CallOf
    <2>2. ASSUME NEW x \in Clients, Step(x) PROVE [Abs!ANext]_Abs!avars
      BY <2>2, StepRefines DEF Abs!avars
    <2> QED BY <2>1, <2>2 DEF Next, AllGone
  <1>3. IInv /\ [Next]_vars => IInv'
    BY StepPreserves
  <1> QED BY InitIInv, <1>1, <1>2, <1>3, PTL DEF Spec, Atomic, Abs!ASpec

(* Where a call overwrites a line, the line was free, or it was the one of *)
(* the pid that is being cleared.                                          *)
THEOREM NoLineLostTheorem == Spec => NoLineLost
  <1> DEFINE Keeps ==
        /\ Len(zoo') >= Len(zoo)
        /\ \A k \in DOMAIN zoo : zoo'[k] # zoo[k] =>
             \/ zoo[k] = Free
             \/ /\ zoo'[k] = Free
                /\ \E x \in Clients : op[x].kind = "clear" /\ op[x].pid = zoo[k].pid
  <1>1. ASSUME IInv, NEW x \in Clients, Write(x) PROVE Keeps
    <2>1. Len(zoo') >= Len(zoo) /\ zoo \in Seq(Lines) /\ pos[x] \in Nat \ {0} /\ pc[x] = "write"
      BY <1>1, WriteShape DEF IInv, TypeOK, Write
    <2>2. CASE op[x].kind = "clear"
      <3>1. Match(op[x], zoo[pos[x]]) /\ pos[x] \in DOMAIN zoo
        BY <1>1, <2>1, <2>2 DEF IInv, CallShape, ScanIsCurrent
      <3>2. zoo' = [zoo EXCEPT ![pos[x]] = Free]
        BY <1>1, <2>2 DEF Write
      <3> QED BY <2>1, <2>2, <3>1, <3>2 DEF Match
    <2>3. CASE op[x].kind = "mark"
      <3>1. pos[x] \in DOMAIN zoo => zoo[pos[x]] = Free
        BY <1>1, <2>1, <2>3 DEF IInv, ScanIsCurrent, Match
      <3>2. zoo' = IF pos[x] \in DOMAIN zoo THEN [zoo EXCEPT ![pos[x]] = Entry(op[x].pid, op[x].tag)]
                   ELSE Append(zoo, Entry(op[x].pid, op[x].tag))
        BY <1>1, <2>3 DEF Write
      <3> QED BY <2>1, <3>1, <3>2
    <2> QED BY <1>1, <2>1, <2>2, <2>3 DEF IInv, CallShape
  <1>2. ASSUME IInv, NEW x \in Clients, Step(x), ~Write(x) PROVE UNCHANGED zoo
    BY <1>2 DEF Step, Begin, Lock, Skip, Found, AtEnd, SeekError, Unlock, Return, Exit
  <1>3. ASSUME IInv, UNCHANGED zoo PROVE Keeps
    BY <1>3 DEF IInv, TypeOK
  <1>4. IInv /\ [Next]_vars => [Keeps]_vars
    BY <1>1, <1>2, <1>3 DEF Next, AllGone, vars
  <1>5. IInv /\ [Next]_vars => IInv'
    BY StepPreserves
  <1> QED BY InitIInv, <1>4, <1>5, PTL DEF Spec, NoLineLost

============================================================================
