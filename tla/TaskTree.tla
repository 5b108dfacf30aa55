------------------------------ MODULE TaskTree ------------------------------
(***************************************************************************)
(* xray::tasks::task and task_manager: a task from spawn_task to the       *)
(* allocator that takes it back, its children, and the threads that wait   *)
(* for them (tasks_task.h, tasks_task.cpp, tasks_manager.cpp, and          *)
(* wait_for_all_children of tasks_thread_pool.cpp).                        *)
(*                                                                         *)
(* A spawned task is in the queue of all tasks, in the queue of its type   *)
(* and in its parent's list of children; whoever pops it anywhere tries to *)
(* grab it.  Four references keep it allocated: those three and the one of *)
(* its execution.  Every access that another thread may see is a step.     *)
(*                                                                         *)
(* A thread is a stack of frames, the innermost first: the task it is in,  *)
(* the place in that task's code, and what that code holds in a local.     *)
(* The pool is abstracted: an idle worker looks at the queues at any time. *)
(* The build is one with assertions: when one fails the program stops.     *)
(***************************************************************************)
EXTENDS Integers, Sequences, SequencesExt, FiniteSets

CONSTANTS
    Workers,            \* task threads
    User,               \* a registered user thread
    Tasks,              \* the tasks the allocator can hand out
    Root,               \* user_thread_root_task of User
    None,               \* NULL
    MaxSpawns,          \* bound: tasks spawned in one behaviour
    MaxWaits,           \* bound: wait_for_all_children calls of one thread
    TasksSpawn,         \* may a task spawn children, or only the user?
    TasksSkipWait       \* may a task return without waiting for its children?

AllThreads == Workers \cup {User}
Nodes   == Tasks \cup {Root}

ASSUME TreeAssumption ==
    /\ IsFiniteSet(Workers) /\ IsFiniteSet(Tasks)
    /\ User \notin Workers /\ Root \notin Tasks
    /\ None \notin AllThreads \cup Nodes
    /\ MaxSpawns \in Nat /\ MaxWaits \in Nat
    /\ TasksSpawn \in BOOLEAN /\ TasksSkipWait \in BOOLEAN

VARIABLES
    state,          \* task::m_state
    references,     \* task::m_reference_counter
    parent,         \* task::m_parent
    children,       \* task::m_children
    counter,        \* task::m_child_counter
    waiter,         \* task::m_event_wait_for_children: the thread that owns the event
    pendingTasks,   \* task_manager::m_pending_tasks
    typeTasks,      \* task_type::m_tasks
    signalled,      \* thread_tls::event_wait_for_children
    current,        \* thread_tls::current_task
    stack,          \* the calls each thread is in
    stopped,        \* has an assertion failed, or a null pointer been used?
    spawns, waits   \* how much of the bounds is used

nodes  == <<state, references, parent>>
tree   == <<children, counter, waiter>>
queues == <<pendingTasks, typeTasks>>
bounds == <<spawns, waits>>
running == <<nodes, tree, queues, signalled, current, stack, bounds>>
vars   == <<running, stopped>>

Frame(k, at, held) == [task |-> k, at |-> at, held |-> held]

Init ==
    /\ state = [k \in Nodes |-> IF k = Root THEN "grabbed" ELSE "deallocated"]
    /\ references = [k \in Nodes |-> 0]
    /\ parent = [k \in Nodes |-> None]
    /\ children = [k \in Nodes |-> <<>>]
    /\ counter = [k \in Nodes |-> 0]
    /\ waiter = [k \in Nodes |-> None]
    /\ pendingTasks = <<>> /\ typeTasks = <<>>
    /\ signalled = [t \in AllThreads |-> FALSE]
    /\ current = [t \in AllThreads |-> IF t = User THEN Root ELSE None]
    /\ stack = [t \in AllThreads |-> IF t = User THEN <<Frame(Root, "body", None)>>
                                               ELSE <<Frame(None, "idle", None)>>]
    /\ stopped = FALSE /\ spawns = 0 /\ waits = [t \in AllThreads |-> 0]

Top(t)  == Head(stack[t])
Mine(t) == Top(t).task
Held(t) == Top(t).held

\* thread t moves on within its innermost call
Goes(t, from, to, held) ==
    /\ Top(t).at = from
    /\ stack' = [stack EXCEPT ![t] = <<Frame(Mine(t), to, held)>> \o Tail(@)]

\* Mutant: deallocated one reference too early.
DropReferenceEarly(k) ==
    /\ references' = [references EXCEPT ![k] = @ - 1]
    /\ state' = IF references[k] = 2 THEN [state EXCEPT ![k] = "deallocated"] ELSE state

\* decrement_reference_count_and_deallocate_when_zero on task k
DropReference(k) ==
    /\ references' = [references EXCEPT ![k] = @ - 1]
    /\ state' = IF references[k] = 1 THEN [state EXCEPT ![k] = "deallocated"] ELSE state

-----------------------------------------------------------------------------
(* spawn_task: the new task becomes visible by its push to the queue of    *)
(* all tasks; the push to its type's queue is a later step.  When no task  *)
(* is free the spawning thread collects the garbage of the two queues.     *)

Collecting == {"collect_queue", "drop_pending", "collect_types", "drop_typed"}
InGrabNextTask(t) == Top(t).at = "try_grab" /\ Mine(t) = None

\* what spawn_task does once it has been given task k
Create(t, from, k) ==
    /\ state[k] = "deallocated"
    /\ current[t] # None                     \* line 200: ASSERT(parent)
    /\ Goes(t, from, "push_type", k)
    /\ state' = [state EXCEPT ![k] = "allocated"]
    /\ references' = [references EXCEPT ![k] = 4]
    /\ parent' = [parent EXCEPT ![k] = current[t]]
    /\ children' = [children EXCEPT ![k] = <<>>, ![current[t]] = Append(@, k)]
    /\ counter' = [counter EXCEPT ![k] = 0, ![current[t]] = @ + 1]
    /\ waiter' = [waiter EXCEPT ![k] = None]
    /\ pendingTasks' = Append(pendingTasks, k)
    /\ UNCHANGED <<typeTasks, signalled, current, waits>>

MaySpawn(t) == (Mine(t) = Root \/ TasksSpawn) /\ current[t] # None /\ spawns < MaxSpawns

Spawn(t, k) == MaySpawn(t) /\ Create(t, "body", k) /\ spawns' = spawns + 1

\* No task is free: take the mutex, and wait until nobody is in
\* grab_next_task, which nobody enters then (its test of m_collecting_garbage
\* and its raise of in_grab_next_task are one step here).
StartCollecting(t) ==
    /\ MaySpawn(t) /\ spawns' = spawns + 1
    /\ \A k \in Tasks : state[k] # "deallocated"
    /\ \A u \in AllThreads : Top(u).at \notin Collecting /\ ~InGrabNextTask(u)
    /\ Goes(t, "body", "collect_queue", None)
    /\ UNCHANGED <<nodes, tree, queues, signalled, current, waits>>

\* Only a collector pops now: what does not wait for its first grab any more.
CollectPending(t) ==
    /\ IF pendingTasks # <<>> /\ state[Head(pendingTasks)] # "allocated"
         THEN Goes(t, "collect_queue", "drop_pending", Head(pendingTasks))
              /\ pendingTasks' = Tail(pendingTasks)
         ELSE Goes(t, "collect_queue", "collect_types", None) /\ UNCHANGED pendingTasks
    /\ UNCHANGED <<nodes, tree, typeTasks, signalled, current, bounds>>

CollectTyped(t) ==
    /\ IF typeTasks # <<>> /\ state[Head(typeTasks)] # "allocated"
         THEN Goes(t, "collect_types", "drop_typed", Head(typeTasks))
              /\ typeTasks' = Tail(typeTasks)
         ELSE Goes(t, "collect_types", "collected", None) /\ UNCHANGED typeTasks
    /\ UNCHANGED <<nodes, tree, pendingTasks, signalled, current, bounds>>

DropCollected(t) ==
    /\ \/ Goes(t, "drop_pending", "collect_queue", None)
       \/ Goes(t, "drop_typed", "collect_types", None)
    /\ DropReference(Held(t))
    /\ UNCHANGED <<parent, tree, queues, signalled, current, bounds>>

\* line 182: the second attempt to allocate
AllocateAgain(t) == \E k \in Tasks : Create(t, "collected", k) /\ UNCHANGED spawns

PushType(t) ==
    /\ Goes(t, "push_type", "body", None)
    /\ typeTasks' = Append(typeTasks, Held(t))
    /\ UNCHANGED <<nodes, tree, pendingTasks, signalled, current, bounds>>

-----------------------------------------------------------------------------
(* grab_next_task and grab_next_child: pop, then try to grab.              *)

\* Mutant: a task that another thread runs can be grabbed.
GrabbableTwice(k) == state[k] \in {"allocated", "grabbed"}

\* try_grab's compare-exchange
Grabbable(k) == state[k] = "allocated"

\* An idle worker pops a queue; which of the two comes first depends on the
\* ages of their tasks, which are not modelled.
PopQueue(w) ==
    /\ \A t \in AllThreads : Top(t).at \notin Collecting        \* line 216
    /\ \/ /\ pendingTasks # <<>>
          /\ Goes(w, "idle", "try_grab", Head(pendingTasks))
          /\ pendingTasks' = Tail(pendingTasks)
          /\ UNCHANGED typeTasks
       \/ /\ typeTasks # <<>>
          /\ Goes(w, "idle", "try_grab", Head(typeTasks))
          /\ typeTasks' = Tail(typeTasks)
          /\ UNCHANGED pendingTasks
    /\ UNCHANGED <<nodes, tree, signalled, current, bounds>>

\* grab_next_child, line 134
PopChild(t) ==
    /\ Top(t).at = "children"
    /\ children[Mine(t)] # <<>>
    /\ Goes(t, "children", "try_grab", Head(children[Mine(t)]))
    /\ children' = [children EXCEPT ![Mine(t)] = Tail(@)]
    /\ UNCHANGED <<nodes, counter, waiter, queues, signalled, current, bounds>>

\* try_grab and the reference of the container it was popped from
TryGrab(t) ==
    LET k    == Held(t)
        home == IF Mine(t) = None THEN "idle" ELSE "children"
    IN
    /\ Top(t).at = "try_grab"
    /\ \/ /\ Grabbable(k)
          /\ state' = [state EXCEPT ![k] = "grabbed"]
          /\ references' = [references EXCEPT ![k] = @ - 1]
          /\ current' = [current EXCEPT ![t] = k]
          /\ stack' = [stack EXCEPT ![t] =
                <<Frame(k, "body", None), Frame(Mine(t), "after_child", None)>> \o Tail(@)]
       \/ /\ ~Grabbable(k)
          /\ DropReference(k)
          /\ Goes(t, "try_grab", home, None)
          /\ UNCHANGED current
    /\ UNCHANGED <<parent, tree, queues, signalled, bounds>>

-----------------------------------------------------------------------------
(* wait_for_all_children: a call, for the children of current_task, which  *)
(* need not be the task the thread is in.                                  *)

StartWait(t) ==
    /\ Top(t).at = "body"
    /\ waits[t] < MaxWaits
    /\ waits' = [waits EXCEPT ![t] = @ + 1]
    /\ stack' = [stack EXCEPT ![t] = <<Frame(current[t], "wait", None)>> \o @]
    /\ UNCHANGED <<nodes, tree, queues, signalled, current, spawns>>

\* line 221: R_ASSERT(current_task)
WaitForCurrent(t) ==
    /\ Mine(t) # None
    /\ \/ Goes(t, "wait", "children", None)
       \/ Goes(t, "wait", "arm", None)         \* execute_while_wait_for_children_false
    /\ UNCHANGED <<nodes, tree, queues, signalled, current, bounds>>

\* what follows wait_for_task_list (line 224): a user thread, in whatever task
\* it is, unlinks what is left of the children
WaitDone(t) ==
    IF t = User THEN Goes(t, Top(t).at, "unlink", None)
                ELSE stack' = [stack EXCEPT ![t] = Tail(@)]

\* Mutant: children that were grabbed by others are not awaited.
NoMoreChildrenHere(t) ==
    /\ Top(t).at = "children"
    /\ children[Mine(t)] = <<>>
    /\ WaitDone(t)
    /\ UNCHANGED <<nodes, tree, queues, signalled, current, bounds>>

\* lines 206, 237-241: no child left to execute here
NoMoreChildren(t) ==
    /\ Top(t).at = "children"
    /\ children[Mine(t)] = <<>>
    /\ IF counter[Mine(t)] = 0 THEN WaitDone(t) ELSE Goes(t, "children", "arm", None)
    /\ UNCHANGED <<nodes, tree, queues, signalled, current, bounds>>

\* line 210: after a child, go on unless the core is oversubscribed
AfterChild(t) ==
    /\ \/ Mine(t) # None /\ Goes(t, "after_child", "children", None)
       \/ Mine(t) # None /\ Goes(t, "after_child", "arm", None)
       \/ Mine(t) = None /\ Goes(t, "after_child", "idle", None)
    /\ UNCHANGED <<nodes, tree, queues, signalled, current, bounds>>

\* Mutant: the event is not published.
ArmNothing(t) ==
    Goes(t, "arm", "check", None) /\ UNCHANGED <<nodes, tree, queues, signalled, current, bounds>>

\* lines 246-248
Arm(t) ==
    /\ Goes(t, "arm", "check", None)
    /\ waiter' = [waiter EXCEPT ![Mine(t)] = t]
    /\ UNCHANGED <<nodes, children, counter, queues, signalled, current, bounds>>

Check(t) ==
    /\ Top(t).at = "check"
    /\ Goes(t, "check", IF counter[Mine(t)] = 0 THEN "disarm" ELSE "await", None)
    /\ UNCHANGED <<nodes, tree, queues, signalled, current, bounds>>

Await(t) ==
    /\ signalled[t]
    /\ signalled' = [signalled EXCEPT ![t] = FALSE]
    /\ Goes(t, "await", "awoken", None)
    /\ UNCHANGED <<nodes, tree, queues, current, bounds>>

\* lines 250-251: R_ASSERT(no_children_to_execute), then forget the event
Disarm(t) ==
    /\ Top(t).at \in {"awoken", "disarm"}
    /\ counter[Mine(t)] = 0
    /\ WaitDone(t)
    /\ waiter' = [waiter EXCEPT ![Mine(t)] = None]
    /\ UNCHANGED <<nodes, children, counter, queues, signalled, current, bounds>>

-----------------------------------------------------------------------------
(* execute, from the return of the task's function, which has waited for   *)
(* its children unless TasksSkipWait.                                      *)

Return(t) ==
    /\ Top(t).at = "body"
    /\ Mine(t) # Root
    /\ counter[Mine(t)] = 0 \/ TasksSkipWait
    /\ Goes(t, "body", "capture", None)
    /\ current' = [current EXCEPT ![t] = None]
    /\ UNCHANGED <<nodes, tree, queues, signalled, bounds>>

\* Mutants: does not wait while its parent holds it; does not tell its parent.
CaptureCaptured(t) ==
    LET k == Mine(t) IN
    /\ Top(t).at = "capture"
    /\ Goes(t, "capture", IF parent[k] = None THEN "mark" ELSE "decrement", parent[k])
    /\ state' = [state EXCEPT ![k] = "captured"]
    /\ UNCHANGED <<references, parent, tree, queues, signalled, current, bounds>>

CaptureQuietly(t) ==
    /\ Top(t).at = "capture"
    /\ state[Mine(t)] = "grabbed"
    /\ Goes(t, "capture", "mark", None)
    /\ state' = [state EXCEPT ![Mine(t)] = "captured"]
    /\ UNCHANGED <<references, parent, tree, queues, signalled, current, bounds>>

\* lines 74-79: waits while the parent holds the task captured
Capture(t) ==
    LET k == Mine(t) IN
    /\ Top(t).at = "capture"
    /\ state[k] = "grabbed"
    /\ Goes(t, "capture", IF parent[k] = None THEN "mark" ELSE "decrement", parent[k])
    /\ state' = [state EXCEPT ![k] = "captured"]
    /\ UNCHANGED <<references, parent, tree, queues, signalled, current, bounds>>

\* on_child_task_ended of the parent, lines 55-59; Held is the parent, then
\* the event that was read
Decrement(t) ==
    /\ Goes(t, "decrement", "recheck", Held(t))
    /\ counter' = [counter EXCEPT ![Held(t)] = @ - 1]
    /\ UNCHANGED <<nodes, children, waiter, queues, signalled, current, bounds>>

Recheck(t) ==
    /\ Top(t).at = "recheck"
    /\ Goes(t, "recheck", IF counter[Held(t)] = 0 THEN "look" ELSE "mark", Held(t))
    /\ UNCHANGED <<nodes, tree, queues, signalled, current, bounds>>

\* line 58: the event is read for the test, and again for the call unless the
\* compiler has kept it
Look(t) ==
    /\ Top(t).at = "look"
    /\ LET event == waiter[Held(t)] IN
       IF event = None THEN Goes(t, "look", "mark", None)
       ELSE Goes(t, "look", "signal", event) \/ Goes(t, "look", "reread", Held(t))
    /\ UNCHANGED <<nodes, tree, queues, signalled, current, bounds>>

Reread(t) ==
    /\ Top(t).at = "reread"
    /\ waiter[Held(t)] # None
    /\ Goes(t, "reread", "signal", waiter[Held(t)])
    /\ UNCHANGED <<nodes, tree, queues, signalled, current, bounds>>

Signal(t) ==
    /\ Goes(t, "signal", "mark", None)
    /\ signalled' = [signalled EXCEPT ![Held(t)] = TRUE]
    /\ UNCHANGED <<nodes, tree, queues, current, bounds>>

\* lines 81-82
Mark(t) ==
    /\ Goes(t, "mark", "unlink", None)
    /\ state' = [state EXCEPT ![Mine(t)] = "executed"]
    /\ UNCHANGED <<references, parent, tree, queues, signalled, current, bounds>>

\* unlink_from_children: the end of execute, and on a user thread of each wait
UnlinkNext(t) ==
    /\ Top(t).at = "unlink"
    /\ children[Mine(t)] # <<>>
    /\ Goes(t, "unlink", "unlink_child", Head(children[Mine(t)]))
    /\ children' = [children EXCEPT ![Mine(t)] = Tail(@)]
    /\ UNCHANGED <<nodes, counter, waiter, queues, signalled, current, bounds>>

\* unlink_from_child: cut a running child off, and wait until it is executed
CutOff(t) ==
    LET c == Held(t) IN
    /\ \/ /\ Top(t).at = "unlink_child" /\ state[c] = "grabbed"
          /\ Goes(t, "unlink_child", "unlink_captured", c)
          /\ state' = [state EXCEPT ![c] = "captured"]
          /\ UNCHANGED parent
       \/ /\ Goes(t, "unlink_captured", "unlink_child", c)
          /\ parent' = [parent EXCEPT ![c] = None]
          /\ state' = [state EXCEPT ![c] = "grabbed"]
    /\ UNCHANGED <<references, tree, queues, signalled, current, bounds>>

ChildExecuted(t) ==
    /\ Top(t).at = "unlink_child"
    /\ state[Held(t)] = "executed"
    /\ Goes(t, "unlink_child", "unlink", None)
    /\ DropReference(Held(t))
    /\ UNCHANGED <<parent, tree, queues, signalled, current, bounds>>

\* line 227, for a user
EndWait(t) ==
    LET k == Mine(t) IN
    /\ Top(t).at = "unlink"
    /\ children[k] = <<>> /\ state[k] # "executed"
    /\ stack' = [stack EXCEPT ![t] = Tail(@)]
    /\ current' = [current EXCEPT ![t] = Root]
    /\ UNCHANGED <<nodes, tree, queues, signalled, bounds>>

\* line 92: the reference of the execution; the call of execute() returns
Release(t) ==
    LET k == Mine(t) IN
    /\ Top(t).at = "unlink"
    /\ children[k] = <<>> /\ state[k] = "executed"
    /\ DropReference(k)
    /\ stack' = [stack EXCEPT ![t] = Tail(@)]
    /\ UNCHANGED <<parent, tree, queues, signalled, current, bounds>>

-----------------------------------------------------------------------------
(* Where the program stops: R_ASSERT of tasks_thread_pool.cpp:221 and :250 *)
(* and of tasks_manager.cpp:183, and the null event of tasks_task.cpp:59.  *)

Stop(t) ==
    /\ \/ Top(t).at = "wait" /\ Mine(t) = None
       \/ Top(t).at \in {"awoken", "disarm"} /\ counter[Mine(t)] # 0
       \/ Top(t).at = "collected" /\ \A k \in Tasks : state[k] # "deallocated"
       \/ Top(t).at = "reread" /\ waiter[Held(t)] = None
    /\ stopped' = TRUE
    /\ UNCHANGED running

Move(t) ==
    \/ CollectPending(t) \/ CollectTyped(t) \/ DropCollected(t) \/ AllocateAgain(t)
    \/ PushType(t) \/ PopQueue(t) \/ PopChild(t) \/ TryGrab(t)
    \/ WaitForCurrent(t) \/ NoMoreChildren(t) \/ AfterChild(t) \/ Arm(t) \/ Check(t)
    \/ Await(t) \/ Disarm(t) \/ Return(t) \/ Capture(t) \/ Decrement(t) \/ Recheck(t)
    \/ Look(t) \/ Reread(t) \/ Signal(t) \/ Mark(t) \/ UnlinkNext(t) \/ CutOff(t)
    \/ ChildExecuted(t) \/ EndWait(t) \/ Release(t)

Run(t) == ~stopped /\ (Stop(t) \/ (Move(t) /\ UNCHANGED stopped))

\* What the program's functions decide.
Decide(t) ==
    /\ ~stopped /\ UNCHANGED stopped
    /\ StartWait(t) \/ StartCollecting(t) \/ \E k \in Tasks : Spawn(t, k)

Next == \E t \in AllThreads : Run(t) \/ Decide(t)

Spec == Init /\ [][Next]_vars

\* Every thread is scheduled; spawning and waiting are up to the program.
FairSpec == Spec /\ \A t \in AllThreads : WF_vars(Run(t))

-----------------------------------------------------------------------------
(* Properties.                                                             *)

States == {"deallocated", "allocated", "grabbed", "captured", "executed"}

\* A thread waits for tasks, executes one, or does either or neither.
Waiting   == {"wait", "children", "try_grab", "after_child", "arm", "check", "await",
              "awoken", "disarm"}
Unlinking == {"unlink", "unlink_child", "unlink_captured"}
Running   == {"body", "push_type", "collected", "capture"} \cup Collecting
Ending    == {"decrement", "recheck", "look", "reread", "signal", "mark"}
Places    == Waiting \cup Running \cup Ending \cup Unlinking \cup {"idle"}
FrameType == [task : Nodes \cup {None}, at : Places, held : Nodes \cup AllThreads \cup {None}]

TypeOK ==
    /\ state \in [Nodes -> States]
    /\ references \in [Nodes -> 0..4]
    /\ parent \in [Nodes -> Nodes \cup {None}]
    /\ children \in [Nodes -> Seq(Tasks)]
    /\ counter \in [Nodes -> 0..Cardinality(Tasks)]
    /\ waiter \in [Nodes -> AllThreads \cup {None}]
    /\ pendingTasks \in Seq(Tasks) /\ typeTasks \in Seq(Tasks)
    /\ signalled \in [AllThreads -> BOOLEAN]
    /\ current \in [AllThreads -> Nodes \cup {None}]
    /\ stack \in [AllThreads -> Seq(FrameType)]
    /\ stopped \in BOOLEAN /\ spawns \in 0..MaxSpawns /\ waits \in [AllThreads -> 0..MaxWaits]

TopAt(places) == {t \in AllThreads : Top(t).at \in places}
Frames(t)     == Range(stack[t])
Count(k, s)   == Cardinality({i \in DOMAIN s : s[i] = k})

\* Who may still touch task k: the containers it is in, the thread that has
\* just popped it or is about to push it, and its execution, done or to come.
Containers(k) ==
    Count(k, pendingTasks) + Count(k, typeTasks)
      + Cardinality({n \in Nodes : k \in Range(children[n])})
Handlers(k) ==
    {t \in TopAt({"push_type", "try_grab", "unlink_child", "unlink_captured",
                  "drop_pending", "drop_typed"}) : Held(t) = k}
Executors(k) == {t \in AllThreads : \E f \in Frames(t) : f.task = k}
Executions(k) == IF state[k] = "allocated" \/ Executors(k) # {} THEN 1 ELSE 0

\* m_reference_counter counts exactly those, so a task goes back to the
\* allocator when the last of them lets go and never before.
ReferencesCountHolders ==
    \A k \in Tasks :
        references[k] = IF state[k] = "deallocated" THEN 0
                        ELSE Containers(k) + Cardinality(Handlers(k)) + Executions(k)

\* m_child_counter of a task is the number of its children that have not got
\* to their decrement, until the task cuts off those it did not wait for.
Unfinished(k) == \/ state[k] \in {"allocated", "grabbed"}
                 \/ \E t \in TopAt({"decrement"}) : Mine(t) = k
CounterCountsChildren ==
    \A p \in Nodes :
        state[p] \in {"grabbed", "captured"} =>
            counter[p] = Cardinality({k \in Tasks : parent[k] = p /\ Unfinished(k)})

\* A task is executed by one thread, once, whoever popped it from which of the
\* three containers; and one that is queued for its first grab by none.
RunsOnce ==
    \A k \in Tasks :
        /\ Cardinality(Executors(k)) <= 1
        /\ state[k] \in {"allocated", "deallocated"} => Executors(k) = {}
        /\ state[k] = "grabbed" => Executors(k) # {}

\* ASSERT_U of tasks_task.cpp:83 and :109: what holds a task captured, itself at
\* its end or its parent while it cuts it off, is alone and finds it captured.
CapturedByOne ==
    /\ \A t \in TopAt(Ending) : state[Mine(t)] = "captured"
    /\ \A t \in TopAt({"unlink_captured"}) : state[Held(t)] = "captured"

\* R_ASSERT of tasks_thread_pool.cpp:250: when the wait for the event is over,
\* no child is left to execute.
EventMeansNoChildren == \A t \in TopAt({"awoken", "disarm"}) : counter[Mine(t)] = 0

\* A child that ends only touches a parent that is still there: the parent told
\* it otherwise before it went.
ParentOutlivesChildsEnd ==
    \A t \in TopAt({"decrement", "recheck", "look", "reread"}) : state[Held(t)] # "deallocated"

\* The children of p have got to their decrement, or have been cut off.
Collected(p) == \A k \in Tasks : parent[k] = p => ~Unfinished(k)
LeavesWait(t) == stack'[t] = Tail(stack[t]) \/ Head(stack'[t]).at = "unlink"

\* A wait_for_all_children that has seen the counter at zero, once it had found
\* no more child to execute or after it published its event, has no child left
\* that was not executed, and gets none: there its R_ASSERT holds.  (A wait that
\* slept may be woken early: see EventMeansNoChildren.)
WaitCollectsChildren ==
    /\ [](\A t \in TopAt({"disarm"} \cup Unlinking) :
             state[Mine(t)] # "executed" => counter[Mine(t)] = 0 /\ Collected(Mine(t)))
    /\ [][\A t \in AllThreads : Top(t).at = "children" /\ LeavesWait(t) => Collected(Mine(t))]_vars

\* Every wait ends, unless the program stops: of a failed assertion or of the
\* null event.  No wait is left asleep.
WaitEnds ==
    \A t \in AllThreads : (Top(t).at = "arm") ~> (Top(t).at = "body" \/ stopped)
=============================================================================
