----------------------------- MODULE MCZooLock -----------------------------
(* pan 7 with child 8 and pan 9 with an orphan 8 left by an earlier pan    *)
(* share the file; bump looks up the tag "pan", a prefix of "panorphan".   *)
EXTENDS ZooLock

MCOps ==
    {[kind |-> "mark", pid |-> 7, tag |-> "pan"],
     [kind |-> "mark", pid |-> 8, tag |-> "panorphan"],
     [kind |-> "clear", pid |-> 7, tag |-> "pan"],
     [kind |-> "clear", pid |-> 8, tag |-> "panorphan"],
     [kind |-> "getpid", pid |-> 0, tag |-> "pan"]}

MCAccepts == [t \in {"pan", "panorphan"} |->
                IF t = "pan" THEN {"pan", "panorphan"} ELSE {"panorphan"}]
============================================================================
