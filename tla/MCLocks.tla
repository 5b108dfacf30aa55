------------------------------- MODULE MCLocks -------------------------------
(***************************************************************************)
(* Instantiates the locks with soft or shared modes for TLC: the engine's  *)
(* reader_writer_lock, the lock of one vfs folder and the locks of vfs     *)
(* branches.  They share nothing: `subject` says which one a behaviour is  *)
(* about, the others stay as they begin.  The properties of a folder's     *)
(* lock and of branches are those of NodeWord and VfsBranches.             *)
(***************************************************************************)
EXTENDS ReaderWriterLock, NodeWord, VfsBranches, TLC

CONSTANTS folder, subfolder, file     \* the nodes of the tree below Root

Tree == (Root :> <<Root>>) @@ (folder :> <<Root, folder>>)
        @@ (subfolder :> <<Root, folder, subfolder>>) @@ (file :> <<Root, file>>)

VARIABLES subject, nodeCall, nodeCopy

Node   == INSTANCE NodeLock WITH call <- nodeCall, copy <- nodeCopy
Branch == INSTANCE BranchLocks

nodeVars   == <<held, counters, nodeCall, nodeCopy>>
branchVars == <<taken, branch, job>>

LocksInit ==
    /\ Init /\ Node!Init /\ Branch!Init
    /\ subject \in {"reader_writer_lock", "vfs_reader_writer_lock", "branch_locks"}

LocksNext ==
    /\ UNCHANGED subject
    /\ \/ subject = "reader_writer_lock"     /\ Next        /\ UNCHANGED <<nodeVars, branchVars>>
       \/ subject = "vfs_reader_writer_lock" /\ Node!Next   /\ UNCHANGED <<vars, branchVars>>
       \/ subject = "branch_locks"           /\ Branch!Next /\ UNCHANGED <<vars, nodeVars>>

LocksSpec == LocksInit /\ [][LocksNext]_<<vars, nodeVars, branchVars, subject>>

Symmetry == Permutations(Threads)

\* The types of the three components.
LocksTypesOK == TypeOK /\ Node!TypeOK /\ Branch!TypeOK
=============================================================================
