------------------------------- MODULE Bump -------------------------------
(***************************************************************************)
(* utils/pan/bump.c next to a pan that uses the same zoo: look up a tag,   *)
(* signal its pid, and clear its line if there is no such process.  These  *)
(* are three separate steps; pan, its children and further bumps go on     *)
(* between them.  BugNeverExists is a mistake (the test for ESRCH is left  *)
(* out) that the properties are known to catch.                            *)
(***************************************************************************)
EXTENDS PanProperties

CONSTANTS BumpTags,    \* the names bump is called with
          BumpSig,     \* -s, -1, -2; SIGINT by default
          MaxBumps     \* bound: how many names are bumped

ASSUME BumpAssumption == BumpTags \subseteq {"pan", "tag"} /\ BumpSig \in Signals /\ MaxBumps \in Nat

VARIABLES bpc, nanny, bumps_left

bumpVars == <<bpc, nanny, bumps_left>>
allVars  == <<vars, bumpVars>>

(* strncmp(line, tag, strlen(tag)) *)
StartsWith(tag) == IF tag = "pan" THEN {"pan", "panorphan"} ELSE {tag}

BInit == Init /\ bpc = "idle" /\ nanny = -1 /\ bumps_left = MaxBumps

BumpStart ==
    /\ bpc = "idle"
    /\ bumps_left > 0
    /\ bumps_left' = bumps_left - 1
    /\ bpc' = "getpid"
    /\ UNCHANGED <<vars, nanny>>

BumpGetpid(tag) ==
    /\ bpc = "getpid"
    /\ nanny' = zoo_getpid(StartsWith(tag))
    /\ bpc' = IF nanny' = -1 THEN "idle" ELSE "kill"
    /\ UNCHANGED <<vars, bumps_left>>

(* kill(nanny, sig) finds a process: pan handles the signal; a test may    *)
(* (ChildEnds) or may not end; pid 0 is bump's own group.                  *)
BugNeverExists == FALSE

ProcessExists ==
    \/ nanny = PanPid /\ pc \notin Terminal
    \/ nanny \in Pids /\ proc[nanny].leader # None
    \/ nanny \in Slots

BumpKill ==
    /\ bpc = "kill"
    /\ ProcessExists
    /\ IF nanny = PanPid THEN Signal(BumpSig) ELSE UNCHANGED vars
    /\ bpc' = "idle"
    /\ nanny' = -1
    /\ UNCHANGED bumps_left

(* ESRCH: "seems to be dead already". *)
BumpDead ==
    /\ bpc = "kill"
    /\ ~ProcessExists
    /\ bpc' = "clear"
    /\ UNCHANGED <<vars, nanny, bumps_left>>

BumpClear ==
    /\ bpc = "clear"
    /\ zoo_clear(nanny)
    /\ bpc' = "idle"
    /\ nanny' = -1
    /\ UNCHANGED <<pc, optVars, slotVars, i, cpid, schedVars, c, resVars, orphans, draining,
                   sigVars, proc, envVars, hist, bumps_left>>

BumpStep == \/ \E tag \in BumpTags : BumpGetpid(tag)
            \/ BumpKill \/ BumpDead \/ BumpClear

BNext == (Next /\ UNCHANGED bumpVars) \/ BumpStart \/ BumpStep

BSpec     == BInit /\ [][BNext]_allVars
BFairSpec == BSpec /\ WF_allVars(BumpStep)

(* A pan that was killed leaves its line; a bump of its name removes it.   *)
StaleLineCleared == (pc = "killed" /\ bpc = "getpid") ~> (LinesOf(PanPid) = {})
============================================================================
