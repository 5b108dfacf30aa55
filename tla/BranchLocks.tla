----------------------------- MODULE BranchLocks -----------------------------
(***************************************************************************)
(* Locks of whole branches of the virtual file system: branch_locks.cpp    *)
(* and the loop around it in hashset.cpp.  A branch is locked from the     *)
(* root down, softly above its node, and unlocked from the node up.  The   *)
(* lock of one folder is GranularLock, which NodeLock implements, so one   *)
(* lock, unlock or upgrade of a folder is one step here.                   *)
(*                                                                         *)
(* upgrade_branch cannot keep what it has: it gives up every lock below    *)
(* the root, upgrades the root in place and locks its way down again.      *)
(* A find descends without lock_branch: it tries to lock the child and     *)
(* then softens its lock of the parent.                                    *)
(***************************************************************************)
EXTENDS VfsBranches

vars == <<taken, branch, job>>

Folder(n) == INSTANCE GranularLock WITH held <- taken[n]

Ops == {"none", "lock", "back_off", "unlock", "upgrade_unlock", "upgrade_root",
        "upgrade_relock", "descend", "soften"}

Init ==
    /\ taken = [n \in Nodes |-> [t \in Threads |-> Unlocked]]
    /\ branch = [t \in Threads |-> NoBranch]
    /\ job = [t \in Threads |-> NoJob]

-----------------------------------------------------------------------------
\* lock_node, upgrade_node and unlock_node: nothing to do where there is no lock.
Hold(t, n, mode) ==
    IF n \in Folders
    THEN /\ Folder(n)!MayHold(t, mode)
         /\ taken' = [taken EXCEPT ![n][t] = mode]
    ELSE UNCHANGED taken
LetGo(t, n) == taken' = [taken EXCEPT ![n][t] = Unlocked]

Step(t, op, i) == job' = [job EXCEPT ![t].op = op, ![t].i = i]
Ends(t) == job' = [job EXCEPT ![t] = NoJob]
Locked(t) == branch' = [branch EXCEPT ![t] = [node |-> job[t].node, mode |-> job[t].mode]]

Last(t) == job[t].i = Len(Path[job[t].node])

-----------------------------------------------------------------------------
(* find_and_lock_branch, lock_branch, unlock_branch.                       *)

\* find_and_lock_branch of `n`; a find that walks starts with the root.
Lock(t) ==
    /\ job[t] = NoJob /\ branch[t] = NoBranch
    /\ \E n \in Nodes, mode \in {"read", "write"}, blocking \in BOOLEAN :
          job' = [job EXCEPT ![t] = [op |-> "lock", node |-> n, mode |-> mode,
                                     blocking |-> blocking, i |-> 1]]
    /\ UNCHANGED <<taken, branch>>

\* lock_branch, one node further down; job.op is "lock" or "upgrade_relock".
LockNode(t) ==
    /\ job[t].op \in {"lock", "upgrade_relock"}
    /\ Hold(t, Here(t), ModeAt(job[t].node, job[t].mode, job[t].i))
    /\ \/ ~Last(t) /\ Step(t, job[t].op, job[t].i + 1) /\ UNCHANGED branch
       \/ Last(t) /\ Ends(t) /\ Locked(t)

\* Mutant: the parents stay locked when a try fails.
TryFailsQuietly(t) ==
    /\ job[t].op = "lock" /\ Here(t) \in Folders
    /\ Ends(t)
    /\ UNCHANGED <<taken, branch>>

\* A try of one node fails, also when only its compare-exchange does: the
\* parents are unlocked, and find_and_lock_branch starts again unless it is
\* a try itself.
TryFails(t) ==
    /\ job[t].op = "lock" /\ Here(t) \in Folders
    /\ Step(t, "back_off", job[t].i - 1)
    /\ UNCHANGED <<taken, branch>>

BackOff(t) ==
    /\ job[t].op = "back_off"
    /\ \/ /\ job[t].i > 0
          /\ LetGo(t, Here(t)) /\ Step(t, "back_off", job[t].i - 1)
       \/ /\ job[t].i = 0 /\ UNCHANGED taken
          /\ IF job[t].blocking THEN Step(t, "lock", 1) ELSE Ends(t)
    /\ UNCHANGED branch

Begin(t, op, n, mode, i) ==
    /\ job' = [job EXCEPT ![t] = [op |-> op, node |-> n, mode |-> mode,
                                  blocking |-> FALSE, i |-> i]]
    /\ UNCHANGED taken

Unlock(t) ==
    /\ job[t] = NoJob /\ branch[t] # NoBranch
    /\ Begin(t, "unlock", branch[t].node, branch[t].mode, Len(Path[branch[t].node]))
    /\ branch' = [branch EXCEPT ![t] = NoBranch]

UnlockNode(t) ==
    /\ job[t].op = "unlock"
    /\ LetGo(t, Here(t))
    /\ IF job[t].i = 1 THEN Ends(t) ELSE Step(t, "unlock", job[t].i - 1)
    /\ UNCHANGED branch

-----------------------------------------------------------------------------
(* upgrade_branch: read to write (query_expand_nodes), write to read       *)
(* (finish_branch, finish_tree).                                           *)

Upgrade(t) ==
    /\ job[t] = NoJob /\ branch[t] # NoBranch
    /\ Begin(t, "upgrade_unlock", branch[t].node,
             IF branch[t].mode = "read" THEN "write" ELSE "read", Len(Path[branch[t].node]))
    /\ branch' = [branch EXCEPT ![t] = NoBranch]

\* Mutant: the locks below the root are kept.
UpgradeKeeps(t) ==
    /\ job[t].op = "upgrade_unlock"
    /\ UNCHANGED taken
    /\ IF job[t].i = 1 THEN Step(t, "upgrade_root", 1)
                       ELSE Step(t, "upgrade_unlock", job[t].i - 1)
    /\ UNCHANGED branch

UpgradeUnlock(t) ==
    /\ job[t].op = "upgrade_unlock"
    /\ IF job[t].i = 1 THEN Step(t, "upgrade_root", 1) /\ UNCHANGED taken
                       ELSE Step(t, "upgrade_unlock", job[t].i - 1) /\ LetGo(t, Here(t))
    /\ UNCHANGED branch

UpgradeRoot(t) ==
    /\ job[t].op = "upgrade_root"
    /\ Hold(t, Root, ModeAt(job[t].node, job[t].mode, 1))
    /\ IF Last(t) THEN Ends(t) /\ Locked(t)
                  ELSE Step(t, "upgrade_relock", 2) /\ UNCHANGED branch

-----------------------------------------------------------------------------
(* One step of a find down its path (find_async.cpp, find_sync.cpp).       *)

Descend(t) ==
    /\ job[t] = NoJob /\ branch[t].mode = "read"
    /\ \E n \in Nodes : /\ Path[n] = Append(Path[branch[t].node], n)
                        /\ Begin(t, "descend", n, "read", Len(Path[n]))
    /\ UNCHANGED branch

\* find_no_branch_lock: try to lock the child, else give up the whole branch.
TryChild(t) ==
    /\ job[t].op = "descend"
    /\ \/ Hold(t, Here(t), "read") /\ Step(t, "soften", job[t].i - 1) /\ UNCHANGED branch
       \/ /\ Here(t) \in Folders
          /\ Step(t, "unlock", job[t].i - 1)
          /\ branch' = [branch EXCEPT ![t] = NoBranch]
          /\ UNCHANGED taken

\* upgrade_node (node_parent, read, soft_read)
SoftenParent(t) ==
    /\ job[t].op = "soften"
    /\ Hold(t, Here(t), "soft_read")
    /\ Ends(t) /\ Locked(t)

Next ==
    \E t \in Threads :
        \/ Lock(t) \/ LockNode(t) \/ TryFails(t) \/ BackOff(t)
        \/ Unlock(t) \/ UnlockNode(t)
        \/ Upgrade(t) \/ UpgradeUnlock(t) \/ UpgradeRoot(t)
        \/ Descend(t) \/ TryChild(t) \/ SoftenParent(t)

Spec == Init /\ [][Next]_vars

-----------------------------------------------------------------------------
TypeOK ==
    /\ taken \in [Nodes -> [Threads -> Modes \cup {Unlocked}]]
    /\ branch \in [Threads -> [node : Nodes, mode : {"read", "write", Unlocked}]]
    /\ job \in [Threads -> [op : Ops, node : Nodes, mode : {"read", "write", Unlocked},
                            blocking : BOOLEAN, i : Nat]]
    /\ \A t \in Threads : job[t].i <= Len(Path[job[t].node])
=============================================================================
