------------------------------- MODULE Zoo -------------------------------
(***************************************************************************)
(* The "zoo" (active file) of utils/pan/zoolib.c: a text file with one     *)
(* line per running tag, shared by every pan and bump on the machine.      *)
(*                                                                         *)
(* A line is what its readers look at: the pid before the first comma and  *)
(* the tag after it.  Lines that start with '#' are free.  zoo_clear only  *)
(* overwrites the first character, and no reader looks behind a '#', so a  *)
(* free line carries nothing.  Every operation here is one critical        *)
(* section (zoo_lock ... zoo_unlock); ZooLock.tla shows that the           *)
(* line-by-line code implements them.  The operators called Bug... are     *)
(* mistakes that the properties are known to catch.                        *)
(***************************************************************************)
EXTENDS Integers, Sequences

VARIABLE zoo              \* the lines of the file

Entry(p, tag) == [pid |-> p, tag |-> tag]
Free == Entry(-1, "#")

FreeLinesOf(z) == {k \in DOMAIN z : z[k] = Free}
LinesIn(z, p)  == {k \in DOMAIN z : z[k] # Free /\ z[k].pid = p}
FreeLines      == FreeLinesOf(zoo)
LinesOf(p)     == LinesIn(zoo, p)

IsFirst(k, S) == k \in S /\ \A j \in S : k <= j

(* zoo_mark: first fit, else append. *)
BugMarkRewound(p, tag) ==
    \/ zoo = <<>> /\ zoo' = <<Entry(p, tag)>>
    \/ zoo # <<>> /\ zoo' = [zoo EXCEPT ![1] = Entry(p, tag)]

zoo_mark(p, tag) ==
    \/ \E k \in FreeLines : /\ IsFirst(k, FreeLines)
                            /\ zoo' = [zoo EXCEPT ![k] = Entry(p, tag)]
    \/ /\ FreeLines = {}
       /\ zoo' = Append(zoo, Entry(p, tag))

(* zoo_clear: frees the first line of p and returns 0; with no such line   *)
(* the file stays and the return value is 1 (ClearWarns).                  *)
ClearWarns(p) == LinesOf(p) = {}

BugClearUnwritten(p) == UNCHANGED zoo

zoo_clear(p) ==
    \/ \E k \in LinesOf(p) : /\ IsFirst(k, LinesOf(p))
                             /\ zoo' = [zoo EXCEPT ![k] = Free]
    \/ ClearWarns(p) /\ UNCHANGED zoo

(* zoo_clear once for every member of P. *)
zoo_clear_each(P) ==
    zoo' = [k \in DOMAIN zoo |->
              IF \E p \in P : IsFirst(k, LinesOf(p)) THEN Free ELSE zoo[k]]

(* zoo_getpid: the first line with one of the tags that strncmp accepts    *)
(* (the ones that start with the wanted tag), -1 if there is none.         *)
zoo_getpid(accepted) ==
    LET hits == {k \in DOMAIN zoo : zoo[k] # Free /\ zoo[k].tag \in accepted}
    IN  IF hits = {} THEN -1
        ELSE zoo[CHOOSE k \in hits : IsFirst(k, hits)].pid

Pids_in_zoo == {zoo[k].pid : k \in DOMAIN zoo \ FreeLines}
============================================================================
