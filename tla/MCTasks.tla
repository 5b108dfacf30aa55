------------------------------- MODULE MCTasks -------------------------------
(***************************************************************************)
(* Instantiates for TLC the safety of what tasks are made of: the task     *)
(* tree, the allocator's free list and the queue of pending tasks.  They   *)
(* share no variable: `subject` says which one a behaviour is about, the   *)
(* others stay as they begin.                                              *)
(***************************************************************************)
EXTENDS TaskTree, TLC

CONSTANTS
    Subjects,                                   \* the subjects of the run
    Buffers, Null, Layouts, MaxAllocations      \* FreeList, IntrusiveQueue

ASSUME BuffersAssumption ==
    /\ IsFiniteSet(Buffers) /\ Buffers # {}
    /\ Null \notin Buffers \cup AllThreads
    /\ MaxAllocations \in Nat

VARIABLES
    subject,
    layout, head, next, free, owned, allocAt, copy, node, allocations,
    pushList, popList, link, mutex, queueAt, mine, seen, pushed, popped

FreeList == INSTANCE FreeList
            WITH Users <- AllThreads, Nodes <- Buffers, link <- next, at <- allocAt
Queue    == INSTANCE IntrusiveQueue
            WITH Users <- AllThreads, Nodes <- Buffers, at <- queueAt

freeVars  == <<layout, head, next, free, owned, allocAt, copy, node, allocations>>
queueVars == <<pushList, popList, link, mutex, queueAt, mine, seen, pushed, popped>>

TasksInit ==
    /\ Init /\ FreeList!Init /\ Queue!Init
    /\ subject \in Subjects
    /\ subject # "free_list" => layout = CHOOSE l \in Layouts : TRUE

\* Bounds: more tasks than the allocator has are spawned, so that garbage is
\* collected, and a task waits twice, only while at most one worker is awake.
WorkersBound ==
    /\ waits'[User] <= 1
    /\ \/ spawns' <= Cardinality(Tasks) /\ \A t \in AllThreads : waits'[t] <= 1
       \/ Cardinality({w \in Workers : Top(w)'.at # "idle"}) <= 1

TasksNext ==
    /\ UNCHANGED subject
    /\ \/ subject = "task_tree"  /\ Next /\ WorkersBound /\ UNCHANGED <<freeVars, queueVars>>
       \/ subject = "free_list"  /\ FreeList!Next /\ UNCHANGED <<vars, queueVars>>
       \/ subject = "task_queue" /\ Queue!Next    /\ UNCHANGED <<vars, freeVars>>

TasksSpec == TasksInit /\ [][TasksNext]_<<subject, vars, freeVars, queueVars>>

\* The workers of the tree and the tasks are interchangeable; the buffers are
\* not, the allocator chains them at first.
Symmetry == {w @@ k : w \in Permutations(Workers), k \in Permutations(Tasks)}

\* The types of the three components.
TasksTypesOK == TypeOK /\ FreeList!TypeOK /\ Queue!TypeOK

\* The properties of the other modules, stated there.
PoppedIsFree       == FreeList!PoppedIsFree
EachNodeInOnePlace == FreeList!EachNodeInOnePlace
FirstInFirstOut    == Queue!FirstInFirstOut
=============================================================================
