---------------------------- MODULE VfsBranches ----------------------------
(***************************************************************************)
(* The state of the locks of a file system's branches and what they        *)
(* promise together; BranchLocks says how the calls of branch_locks.cpp    *)
(* change it.  A thread that has locked a branch holds one lock of every   *)
(* folder from the root to its node, softly above the node.                *)
(***************************************************************************)
EXTENDS LockUsers, LockModes, VfsTree

VARIABLES
    taken,          \* taken[n][t]: the lock of node n that t holds
    branch,         \* the branch each thread has locked, or NoBranch
    job             \* the call each thread is in

NoBranch == [node |-> Root, mode |-> Unlocked]
NoJob    == [op |-> "none", node |-> Root, mode |-> Unlocked, blocking |-> FALSE, i |-> 0]

Below(n, m) == \E i \in 1..Len(Path[m]) : Path[m][i] = n

\* Mutant: the parents of a written branch are locked like those of a read one.
SoftenAsRead(mode) ==
    IF mode \in {"read", "write"} THEN "soft_read" ELSE mode

soften_lock(mode) ==
    CASE mode = "read"  -> "soft_read"
      [] mode = "write" -> "soft_write"
      [] OTHER          -> mode

\* The lock of its i-th node that a branch lock of n in `mode` consists of.
ModeAt(n, mode, i) == IF i = Len(Path[n]) THEN mode ELSE soften_lock(mode)

Here(t) == Path[job[t].node][job[t].i]

-----------------------------------------------------------------------------
\* A branch that is written is nobody else's, however the two branches lie to
\* each other: the soft locks above a node tell the whole way to the root.
SubtreeExclusion ==
    \A t, u \in Threads :
        t # u /\ NoBranch \notin {branch[t], branch[u]} /\ branch[t].node \in Folders
              /\ Below(branch[t].node, branch[u].node)
            => branch[t].mode = "read" /\ branch[u].mode = "read"

\* Whatever happened on the way (failed tries, upgrades, descents), a thread
\* outside of these calls holds the locks of its branch and no other lock, so
\* unlock_branch, which goes by the node and the mode alone, leaves nothing.
LocksAreBranch ==
    \A t \in Threads : job[t] = NoJob =>
        \A n \in Nodes : taken[n][t] =
            IF branch[t] # NoBranch /\ n \in Folders /\ Below(n, branch[t].node)
            THEN ModeAt(branch[t].node, branch[t].mode, Len(Path[n]))
            ELSE Unlocked

\* Calls that wait for a folder instead of backing off, and for whom.
Waiting(t) == job[t].op \in {"upgrade_root", "upgrade_relock", "soften"}
Wanted(t)  == IF job[t].op = "soften" THEN "soft_read"
              ELSE ModeAt(job[t].node, job[t].mode, job[t].i)
WaitsFor(t, u) ==
    /\ Waiting(t) /\ Here(t) \in Folders /\ t # u
    /\ ~Compatible(Wanted(t), taken[Here(t)][u])

\* Threads that all wait for each other are several upgrades of the root: no
\* other combination of these calls can stop, and two finds that both hold the
\* root and both have something to expand do.
OnlyRootUpgradesDeadlock ==
    \A S \in SUBSET Threads :
        S # {} /\ (\A t \in S : \E u \in S : WaitsFor(t, u))
            => \E t, u \in S : t # u /\ job[t].op = "upgrade_root" /\ job[u].op = "upgrade_root"
=============================================================================
