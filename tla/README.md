# TLA+ models of the X-Ray 2.0 engine's threading core

This directory holds TLA+ specifications of the concurrent core of the engine in
`src/xray`, TLC configurations that check them on small instances, and proofs
that TLAPS checks for every value of the constants. Line numbers below and in the
comments of the modules are those of the sources named beside them.

## The system

The engine is a set of C++ libraries under `src/xray/<library>`. Threads are few
and long-lived (render, logic, editor, resources, file devices, sound, network,
and one task thread per core); they talk through queues, channels, locks and
mailboxes written in this repository rather than taken from a library. Those are
where an interleaving nobody tested can break the rest, so the models start there.

| component | state it keeps | operations | who uses it | what is hard | what makes it correct |
|---|---|---|---|---|---|
| reader-writer lock (`threading_reader_writer_lock.*`) | one 8-byte word: readers, writers, owner | `lock_read`, `lock_write`, the `try_` forms, unlocks | the log's filter tree, the hash sets of the vfs | plain copies of the word that may be torn, nested writing, 16-bit counts | exclusion, exact counts, assertions of unlock |
| simple lock (`threading_simple_lock.h`) | owner, plain nesting count | `lock`, `try_lock`, `unlock` | shared strings, resource flags | the count changes outside the atomic word | exclusion, one release per acquisition |
| task thread pool (`tasks_thread_pool*.cpp`) | state, core and event of each worker; threads per core; active count | spawn notification, worker loop, lock hooks, pause, resume, destruction | every library that spawns tasks | who wakes whom; three counters and a state changed one by one | no lost or doubled wake-up, exact counters, tasks run, pauses are quiet |
| tasks-aware mutex and event (`threading_mutex.cpp`, `threading_event.cpp`) | an operating system object | lock and wait, bracketed by the pool's hooks | all threads the pool counts | the hooks run between two steps of the pool | the hooks leave state and counters consistent |
| task tree (`tasks_task.*`, `tasks_manager.cpp`) | state, references, parent, children and counter of each task; two queues; current task and event of each thread | spawn, grab, execute, wait for children, unlink, garbage collection | the pool's workers and every spawning thread | a task sits in three containers and is held by four references | runs once, freed after the last holder, a wait collects all children |
| task allocator (`tasks_allocator.*`) | free list with a counter | allocate, deallocate | the task manager | ABA on the free list | a task is handed out once |
| intrusive queues (`intrusive_*_queue_inline.h`) | linked nodes, one of them the null node | push, pop | channels, task lists | a node is released while a producer spins on it | first in, first out, no node lost |
| thread channels (`one_way_threads_channel*_inline.h`, `sound/two_way_thread_channel.h`) | a forward and a backward queue that share the nodes' link | owner pushes and frees, user pops and gives back | render, sound, network, file devices | a node is in one queue or the other, never both | each value delivered once, freed once |
| render command channel (`one_way_render_channel.cpp`) | the channel, deferred lists of scenes and views, frame number | process, draw, end of frame | logic and editor to the render thread | a deferred command may be the channel's null node | each command executed, then freed once |
| frame loop and remote calls (`engine_world*.cpp`, `apc.cpp`, `rpc.cpp`) | frame numbers, one mailbox per thread | tick, run, wait, process | logic, render, editor | two callers of one mailbox; frame number turned back | logic at most one frame ahead; a call runs once |
| vfs locks (`vfs/sources/node_lock.*`, `branch_locks.cpp`) | four counts per folder | lock, unlock, upgrade of a node or a path | mounting, unmounting, finding | upgrades of several holders, tries that fail half way | whole subtrees exclude each other, no lock is left behind |
| vfs mounting and finding (`vfs/sources`) | tree of nodes, overlapping mounts, mount history | mount, unmount, find sync and async | resources manager | a find while a mount is in progress | a find sees a mount wholly or not at all |
| resources manager (`core/sources/resources_*`) | queries and their state, name registry, caches, queues per thread | query, cook, allocate, read, finish, release | everything that loads data | a query passes five threads; several queries of one name; a resource is let go while it is asked for; out of memory | each query ends once, what the registry names is alive |
| file systems and devices (`fs/sources`) | two channels of queries per device, the thread with synchronous access, watchers | push, process, synchronous access, dispatch of callbacks, end | vfs, resources manager | a query is the null node of two queues and is deleted by the thread that sent it | executed and called back once, the device is used by one thread |
| login and lobby servers, network (`login_server`, `lobby_server`, `network`) | sessions, orders | sign up, in, out; send, receive | client, server | callbacks after a session is gone | a session ends once |
| logging, console, configuration, memory, strings | sequential state under the locks above | | everybody | little beyond the locks | |
| sound, render, animation, AI, physics, collision, particles, game, editor, exporters, tools | numeric or user-interface code | | | mostly single-threaded | |

`PROJECT.json` lists the same components with their sources and status, and the
hazards with the line where each bites. Modelled so far are the locks, the task
system (pool, tree, allocator, queue), the channel to the renderer, the frame loop
with its remote calls, the queries of a device, and the name registry of the resources
manager.

## Modules

| module | models | abstracts |
|---|---|---|
| `LockUsers` | the threads that share a lock | |
| `SharedExclusiveLock` | what a lock promises: shared reading, exclusive and nested writing | everything but who owns it |
| `ReaderWriterLock` | `reader_writer_lock`: the word, the copy each call takes, the compare-exchange | the spin's `yield` |
| `SimpleLock` | `simple_lock` with its plain `m_lock` | the spin's `yield` |
| `LockModes` | the four modes of a folder's lock and which exclude each other | |
| `GranularLock` | what the lock of a folder promises | everything but who holds what |
| `NodeWord` | the word of a folder's lock and what must hold of it | |
| `NodeLock` | `vfs_reader_writer_lock`: four counts in one word, `lock`, `try_lock`, `unlock`, `upgrade` | the spin's `yield` |
| `VfsTree` | a file system's nodes, each with its path from the root, and which of them are folders | names, data |
| `VfsBranches` | the locks of the nodes, who has locked which branch and what must hold of them | |
| `BranchLocks` | `lock_branch`, `unlock_branch`, `upgrade_branch`, the descent of a find | one operation on one folder is a step of `GranularLock` |
| `ThreadPool` | the pool, the lock hooks, the worker loop, the thread that spawns, waits, pauses and destroys | a task is a member of a count |
| `TaskTree` | tasks, their references and children, the waits | the pool: an idle worker may look at the queues at any time |
| `FreeList` | the task allocator's stack of free buffers | what is constructed in a buffer |
| `IntrusiveQueue` | the queue of pending tasks: pushed stack, popped list, its mutex | the values |
| `Delivery` | what a channel between two threads promises: order, one user, freed once | how |
| `ThreadsChannel` | `one_way_threads_channel` over two queues of one producer and one consumer | a push or a pop is one step: only the link is shared |
| `RenderChannel` | `one_way_render_channel`: waiting, popping, deferring, drawing, giving back | what a command draws |
| `FrameLoop` | frames of logic, editor and renderer, the switch of the game | a command is one of two counts |
| `RemoteCallers` | the functions the engine has the logic thread run, and what must hold of the calls | |
| `RemoteCalls` | `apc`: one mailbox from initialization to finalization | what a call does, beyond breaking the loop |
| `DeviceQueries` | `asynchronous_device_interface`: the channel with responses over a queue of several producers, the order of queries, synchronous access | what a query does to a file |
| `NamedQueries` | the queries of one name, and what the registry may name | |
| `NameRegistry` | queries of one resource name: hosts, referers, cook, end, release, destruction | sub-queries, data, devices |
| `LocksProofs`, `TasksProofs`, `EngineProofs` | the theorems about the locks of `MCLocks`, about the allocator and the queue of `MCTasks`, and about the render channel, the frames and the devices of `MCEngine` and all of its parts together (see Proofs) | |
| other `...Proofs` | the theorems about the module of that name (see Proofs) | |
| `MC...` | the instances TLC checks | |

How they are composed:

* `NodeLock`, `BranchLocks`, `RemoteCalls` and `NameRegistry` each extend a module that
  holds the part of their state that a property speaks of, and the property:
  `NodeWord`, `VfsBranches`, `RemoteCallers`, `NamedQueries`. The instances for TLC
  extend those modules too, so a run checks the very definition that a theorem states.
* `ReaderWriterLock` and `SimpleLock` refine `SharedExclusiveLock`, `NodeLock` refines
  `GranularLock`, and `BranchLocks` is built of one `GranularLock` per folder: what
  is checked of branches holds for the real lock because that implements the
  abstract one.
* `RenderChannel` extends `ThreadsChannel` (the calls) with who makes them and when, and
  the two together refine `Delivery`. `FrameLoop` uses what `Delivery` promises: a frame's
  end is a command in a counted queue.
* `ThreadPool` and `TaskTree` look at the two sides of one subsystem: the pool counts
  tasks and cares who is awake, the tree follows each task and lets any worker come
  along. `FreeList` is where the tasks of `TaskTree` come from, `IntrusiveQueue` where
  it pushes them.
* `MCLocks`, `MCTasks` and `MCEngine` each instantiate several modules that share no
  variable. A variable `subject`, chosen in the initial state and never changed, says
  which one the behaviour is about; the others stay in their initial states. The states of
  such a run are the sum and not the product of the states of its subjects, and an
  invariant or a step property of one module is checked on all of its behaviours.
  Fairness and liveness are conditioned on the subject.

### How state and actions correspond to the code

*ReaderWriterLock.* `word` is `m_counters`; `copy[t]` is `previous_counters` of the
call in `call[t]`. On the 32-bit build the copy is read in halves, so `LoadCounts`
and `LoadOwner` are two steps and the copy may mix two words; the compare-exchange
(`EnterRead`, `EnterWrite`, `LeaveRead`, `LeaveWrite`, or `ExchangeFails`) compares
all of it. `reading` and `writing` say who owns the lock and are what the refinement
maps to `SharedExclusiveLock`. The counts wrap at `CountLimit` as `u16` does.

*SimpleLock.* `threadId` is the interlocked word, `depth` is `m_lock`, `owes` what each
thread has still to unlock. `Acquire` and
`CountFirst` are two steps of `lock`, `Unlock` and `Release` two of `unlock`,
because others may look between them.

*NodeLock.* `counters` is the word, `copy[t]` what a call decided on, `held[t]` the mode
an operation holds. `Trying` copies and decides, `Exchange` succeeds only on an
unchanged word; `unlock` asserts on one copy (`BeginUnlock`) and then subtracts.
`upgrade` may go down as well (`SoftenParent` of a find does).

*BranchLocks.* The nodes are given with their paths from the root, which have at their
place `i` the node of depth `i`. `taken[n][t]` is the lock of each folder, `branch[t]` what the operation
believes to hold, `job[t]` the call it is in and how far down the path. `TryFails` also
stands for a compare-exchange that fails; then `BackOff` unlocks the parents.

*ThreadPool.* One variable per field of `thread_tls` and of the pool that the
protocol uses, and `at`, the place of each thread in its code. Each interlocked
operation is a step. `try_activate_task_thread` is three steps after its
compare-exchange (`CountActivated`, `PlaceActivated`, `SignalActivated`), and
`help[t]` is how far thread `t` has come in it, for whomever it is called.
`on_current_thread_locks` and `on_current_thread_unlocks` are the actions
`Locks...` and `Unlocks...`; a blocked thread remembers in `back` where it goes on.
The hardware threads of a core are not told apart. `setting` holds what the program
around the pool may do and the size of the instance; it never changes.

*TaskTree.* One variable per field of `task` and of `thread_tls`. A thread is a
stack of frames, because a task executed inside a wait runs on the same thread. Each
access another thread may see is a step: the decrement of the parent's counter, the
second look at it, the read of its event, and the signal are four. The references
are the four of `spawn_task`: queue of all tasks, queue of the type, list of
children, execution. When no task is free, `spawn_task` collects garbage
(tasks_manager.cpp:179-184): `StartCollecting` to `DropCollected` take what no longer
waits for its first grab out of the two queues, while nobody is in `grab_next_task`, and
`AllocateAgain` tries once more. The build is one where `R_ASSERT` stops the program.
`Stop` sets `stopped`, after which nothing happens: a wait without a current task
(tasks_thread_pool.cpp:221), children left at the end of a wait (:250), no task free after
the collection (tasks_manager.cpp:183), and the null event of a child that reads its
parent's event twice (tasks_task.cpp:58-59, `Look`, `Reread`). In a `MASTER_GOLD` build the
assertions are compiled out; it is not modelled. There a wait that is woken early returns
with a child left. A spawn without a parent (:200) is not made.

*FreeList.* `head` is the pointer and the counter; `layout` is the build: `whole` (the 64
bits copied at once), `halves` (32-bit code that copies them one by one: `CopyHalf`,
`CopyOtherHalf`), `pointer_only` (64-bit code, the counter outside of what is
exchanged). The link is read (`LoadLink`) steps before the exchange (`Pop`).

*IntrusiveQueue.* `pushList` and `popList` are the two heads, `mutex` the one that is
held while the stack is turned round. `pushed` and `popped` are history.

*ThreadsChannel, RenderChannel.* `forward` and `backward` are the nodes from the tail
to the head, the first one the null node. `look` is what `owner_push_back` saw before it
pushed, `event` the renderer's event, `list[s]` the deferred commands of a scene,
`cursor` the deferred command the renderer is about to give back, `deferred_next` of which
it still reads.

*FrameLoop.* Frame numbers are kept relative to the renderer's. `unprocessed` counts the
`end_frame` commands in each channel; `isLogicEnabled`, `logicEnded`, `editorEnded` are
the fields of `render::world`, changed one by one.

*RemoteCalls.* `callback`, `breakParameters` and `pending` are the mailbox, three plain
words written in that order. The callers are the calls of `initialize`, calls that are
waited for in the game, and those of `finalize`.

*DeviceQueries.* A node is the address of a query or of a queue's first null node. `link` is
`m_next_forward`, `head` and `tail` are `m_forward_queue`; `back[c][u]` is the backward queue
of a user from its tail to its head, the first one its null node. One query is in both queues,
and the null node of either may be deleted by `Dispatch` only when the other is past it.
`push_back` reads `m_head` (`ReadHead`), exchanges the link found there (`Link`) and moves
`m_head` (`MoveHead`). Between the two first steps the node may have been deleted; the access
then sets `strayed`, and a behaviour is not followed further, because what a thread does
in freed memory is undefined. `device` is where the device's thread is: in `process_queries` of the
first channel, of the second, or of the first one nested in the second's (`loop`), and the
query it executes; `popped` is the query of the second channel that waits for the nested loop.
`started` and `ended` are the two events of each request for synchronous access.

*NameRegistry.* `host` and `shared` are the registry's entry for the name: a query or a
resource. `guard` is `m_on_created_resource_guard`, which the end of
`translate_query_if_needed` and `finish_query` count down; who is last hands the query
to the resources thread (`created`). `walk` is that thread in `on_create_resource_end`,
`next` and `isReferer` the ring of referers. Actions that hold `m_name_registry_mutex`
are one step; `destroy` looks at the count once before it has the mutex (`StillUnused`,
`ReadEntry`, `Unregister`). A cook may finish before `translate_query` returns.

## Runs

| run | instance | shows |
|---|---|---|
| `locks` | 3 threads; counts below 4, writing nested twice; a tree of 3 folders and a file | exclusion, exact counts, assertions of unlock; `ReaderWriterLock` implements `SharedExclusiveLock`, `NodeLock` implements `GranularLock`; branches exclude each other, failed tries and upgrades leave no lock, only two upgrades of the root can wait for each other |
| `pool` | 2 workers and the owner; six settings | no wake-up lost or spent twice, exact counters, a paused pool is quiet, every task runs but one lost to a worker whose second grab blocked, a pool at rest is destroyed |
| `pool_destroy_busy` (violation) | 2 workers, 1 task | destruction of a busy pool may hang |
| `pool_wakeup_of_reactivated` (violation) | 2 workers, 2 tasks, contended queue | a worker waits for a wake-up nobody sends |
| `tasks` | 2 workers, a user thread, 2 tasks for 3 spawns, which may spawn and may skip their wait; 3 buffers, 3 layouts, 3 allocations | each task runs once, references and counters are exact, also while garbage is collected; a wait that saw the counter at zero has all children, cut-off is exclusive; the free list and the queue of tasks lose and double nothing |
| `free_list_reuse` (violation) | 3 buffers, 4 allocations | the counter of the free list does not protect it in 64-bit builds, nor in 32-bit ones that copy it in halves |
| `task_wait_early_event` (violation) | 2 workers, 2 tasks | the event may come while a child is left |
| `task_parent_freed` (violation) | 2 workers, nested tasks | a child may look at a parent that is deallocated |
| `engine` | 4 threads on a simple lock; 2 calls of each kind; 4 commands, 1 scene; 1 switch of the game; 1 worker and 2 tasks; 3 queries of a name; 2 users and 3 queries of a device | what must go on goes on: calls are served, commands are processed, frames end, waits end, queries end; and its safety: a call runs once and in order, nothing used is deleted, deferred commands stay until drawn, neither thread runs away, what the registry names is alive, what the device and its users hold of queries is not deleted, synchronous access excludes the device's thread; `SimpleLock` implements its promise, the channel implements `Delivery` |
| `engine_freeze` (violation) | 2 switches of the game | the renderer may stop ending frames |
| `resource_reclaimed` (violation) | 3 queries of one name | a resource that was reused is deleted |
| `device_push_races` (violation) | 2 users and 3 queries of a device | of two threads in `push_back` of one channel one may touch a deleted query |

### Bounds, and why they are enough

* *Pool.* Two workers and one user thread make every pair of roles meet: two workers in
  the worker loop, a worker and the spawner, a blocked thread and its helper. The
  counters and events are per worker or global, so a third worker repeats the
  second's part. Two cores are needed for the choice of a core and for a worker
  that changes core. The settings of `Usual` vary what the program does: tasks that
  block (`body_contended`: two cores and one task, one core and two tasks), tasks that
  block while the owner pauses and resumes as often as it likes, a queue whose mutex the
  first grab finds locked (`grab_contended`, one task) or the second one
  (`regrab_contended`, two tasks, so that it finds a task after it blocked), a
  destruction after up to two tasks.
* *Tasks.* Two tasks are one parent and one child, or two siblings; with a user's root
  task that is a tree of three levels. Hazards of the code involve at most one parent and
  two of its children. A third spawn finds no task free and collects garbage, and a second
  wait of a task finds no current task; `WorkersBound` lets both happen while at most one
  worker is awake, so the collection meets one executing worker and the user. Two buffers
  are enough for a list that is emptied and filled again behind a pop; the third lets
  another user hold one. `MaxAllocations` is 3 where nothing is found and 4 where the
  reuse is to be found.
* *Locks.* Three threads are two readers and a writer, one of them with a stale copy.
  Counts below 4 leave room for all of them and no more, as a `u16` leaves room for
  the engine's threads; the proofs remove this bound. The tree has a path of three
  folders, for a lock in the middle of one, and two leaves, for locks that do not meet.
* *Channel.* Four commands: the null node, one deferred, one drawing, one not yet popped.
* *Frames.* `MaxLag` bounds how far the renderer gets ahead of an idle logic; nothing
  tests for more than two. One switch of the game in the run that passes: with two the
  freeze of `engine_freeze` happens, and with three the assertion of `end_frame_logic`
  (render_facade_world.cpp:104) fails.
* *Calls.* Two of each kind: one that is served while another one is written.
* *Registry.* Three queries: the host, a referer that is in the ring when the walk
  begins, and one that comes during it; or a cook, an owner that lets go, and one that
  asks again.
* *Device.* Two users and three queries: both channels, with one query executed while another
  is pushed and a third is the null node of both queues. Both users push to the
  high-priority channel and may be stopped anywhere in it; the normal channel has one
  sender, `Sender` (`MayUse`), as the resources manager's thread is in the engine.
* `MaxTasks`, `MaxSpawns`, `MaxWaits`, `MaxDepth` and the other `Max...` stop counters.
  Since the program may stop using a component at any time (and the instances use up
  their tasks, calls and queries), runs end in states without successors and
  `CHECK_DEADLOCK FALSE` is set; the liveness properties, and
  `OnlyRootUpgradesDeadlock` for the locks that wait, say which stops are not allowed.
* Workers, tasks and the threads of a lock are interchangeable, so the runs without
  liveness properties use symmetry.

### Fairness

Every thread inside the engine's code keeps running (weak fairness on its steps):
the operating system schedules it, and no step waits for anything but what its guard
names. What a mutex guards is unlocked again, because the code locks through
`mutex_raii`. Nobody is made to call an operation: spawning, pausing, destroying,
waiting, pushing a command, switching the game, asking for a resource and letting it go
are the program's choice. In `ThreadPool` the owner does wait for the
tasks it has spawned, as the engine's callers do, since otherwise nothing
requires a task to be executed on time. In `RemoteCalls` the callers are those of
`initialize` and `finalize`, which do happen. The renderer's wait ends by its event or
its timeout. The
thread of a device and the users that dispatch its callbacks wait with timeouts of 10 and 300 ms,
so a lost wake-up only delays them. A cook that was asked finishes its query, as every cook of the engine does.

## What the violations show

* `pool_destroy_busy`: `~thread_pool` activates each worker once. A worker between its
  look at `m_destroying` and its deactivation is active and so is left alone; it
  then sleeps for ever and so does the destructor. `pause_all_task_threads` has the
  same window (tasks_thread_pool_utils.cpp:256).
* `pool_wakeup_of_reactivated`: `deactivate_task_thread` makes a worker inactive; if its
  second `grab_next_task` blocks on the queue's mutex, the unlock hook makes it active.
  Its `try_activate_task_thread` then does nothing, and the `wait` after it is for an
  event nobody sets: a task it has grabbed is lost. The counters of such a worker go wrong
  as well, so in the run that passes `WakeUpPerActivationUncontended` and `CountersExact` are
  claimed as long as no worker's second grab can block. `OwnersWaitsEnd` is checked in that
  setting too, and excepts this one way to lose a task (`SleepsWithTask`): a worker that is
  active, sleeps with the task it grabbed and has no wake-up on its way.
* `task_wait_early_event`: the child that saw the counter at zero sets the event
  later, perhaps for the next wait of the same parent, whose `R_ASSERT` then stops the
  program. So `WaitCollectsChildren` speaks of waits that have seen the counter at zero, and
  `WaitEnds` says that a wait returns or the program stops: none is left asleep.
* `task_parent_freed`: a child reads its parent's counter and event after its
  own decrement; nothing keeps the parent.
* `free_list_reuse`: a pop that has read the link of a buffer succeeds after the buffer
  was popped, used and pushed back, and installs the old link: a buffer in use.
* `engine_freeze`: switching the game off while the editor's frame has ended and the
  logic's has not leaves the renderer with nothing to process and nobody to end the
  frame.
* `resource_reclaimed`: the last owner lets a resource go and looks at the count; a query
  finds the name and takes a reference; the owner gets the registry's mutex, sees the
  reference, logs it, and deletes the resource. With another release two threads delete it.
* `device_push_races`: `push_back` of the queue of several producers reads `m_head` and then
  exchanges the link of what it has read (intrusive_mpsc_queue_inline.h:34). While a thread
  stands between the two, another producer moves `m_head`, the device's thread pops the old node
  and gives it back, and the thread that sent it deletes it. All threads that ask for
  synchronous access push to the same channel. `UsesLiveQueries` is what remains true.

Others were seen while modelling and are kept as hazards: two workers that both
pass the check against `m_min_permanent_working_threads` (tasks_thread_pool.cpp:70);
`execute`, which leaves `current_task` null, so that a task that ran a child inside its
wait stops the program when it waits again (tasks_thread_pool.cpp:221);
a core count decremented for the wrong core because `hardware_thread` is read after
the worker is published as inactive (line 40); a task
that returns without waiting and meets an allocated child in `unlink_from_child`
(tasks_task.cpp:114); two finds that both upgrade the root and wait for each other
(branch_locks.cpp:101), which `OnlyRootUpgradesDeadlock` shows to be the only such
circle; and the forgotten referer. A host whose cook failed walks its
referers and only then leaves the registry, so a query that joins it in between is in
its ring, is walked by nobody and never ends. `late` holds exactly those queries, and
`EveryQueryEnds` says that all others end.

So were three of the devices. `process_queries` sets the event of a
query before it gives the query back (asynchronous_device_interface.cpp:113), so the thread
that wakes up finds nothing to dispatch and sleeps until its next timeout. A query's
`callback_if_needed` runs while the query is the null node of the backward queue, so that the
last query of each thread is kept until the end. Only one thread calls
`finalize_thread_usage`; the backward queues of other threads are never freed.

## Proofs

`LocksProofs` proves three groups of theorems. About the reader-writer lock, from
`ThreadsAssumption` (a finite set of threads, `NoThread` is none of them) and
`WidthAssumption` (a count has room for every thread and for the nesting bound):

* `TypeCorrect`, `ExclusionHolds`, `CountsHold`, `AssertionsHold`: `TypeOK`,
  `MutualExclusion`, `WordCountsOwners` and `UnlockAssertions` are invariants of `Spec`;
* `Implementation`: `Spec` implements `SharedExclusiveLock`.

The argument: the word counts its owners (`WordCountsOwners`), which gives exclusion
once the counts exclude each other (`CountsExclude`). That is not inductive: an
exchange relies on a decision taken on a copy some steps ago. `LInv` adds
`CallRemembers`: a pending call still knows what it owned when it began, and its
decision still describes its copy. If the exchange succeeds, the copy is the word,
so a torn copy that never was the word is harmless. `NestingBounded` keeps the
counts from wrapping.

About the lock of a folder, from `ThreadsAssumption`,

* `NodeLockTypeCorrect`; `NodeLockExclusion`: locks held together are compatible;
  `NodeLockImplementation`: `Spec` implements `GranularLock`;
* `NodeLockCountsHolders`: `CountsAreHolders`, where there are at most as many threads
  as the narrowest shared count, six bits of soft writers, has room for. The
  hypothesis is the code's own limit: with more, the counts do overflow.

`NInv`: the word counts its holders, modes held together are compatible, and a thread
in `unlock` still holds what it subtracts. Neither of the first two is inductive alone: a
call decides on counts and promises something about holders.

About branches, for any tree of folders (`PathsAssumption`: paths begin at
the root and every beginning of a path is the path of a node) and any finite set of
operations,

* `BranchLocksTypeCorrect`; `BranchesExclude`: `SubtreeExclusion`;
  `NothingIsLeftLocked`: `LocksAreBranch`;
* `OnlyUpgradesOfTheRootStop`: `OnlyRootUpgradesDeadlock`.

`BInv` says for every call which part of its path is locked, and how (`JobFits`), and that
the locks of one folder are compatible. Exclusion follows at the folder where the upper
of two branches ends. For the deadlock, look at a thread of the set that waits deepest:
one that locks its way down again or softens waits for somebody who holds a lock further
down than its own, and everybody in the set waits for somebody in it, so in
the end the deepest one waits for nobody, unless all wait at the root.

`EachLockBehaves` says that a behaviour of `LocksSpec` is one of each of the three locks,
which gives `LocksTypesCorrect` (`LocksTypesOK`). The theorems about folders and branches
are about the instances `Node` and `Branch` of `MCLocks`, and speak of the definitions the
run checks.

`SimpleLockProofs` proves, from `ThreadsAssumption` (`NoThread` is no thread) alone,

* `SimpleTypeCorrect`, `SimpleCountHolds`, `SimpleAssertionsHold`: `TypeOK`,
  `CountIsOwnersDebt` and `AssertionsOfTheCode` are invariants of `Spec`;
* `SimpleImplementation`: `Spec` implements `SharedExclusiveLock` with no readers.

The argument: `CountIsOwnersDebt` relates owner and count but does not know that a
thread in one of the two windows owns the lock once, and that a spinning thread
does not own it; `SInv` adds that (`PlaceRemembers`), one fact per place.

`RemoteCallsProofs` proves, for any number of calls in the three phases,
`RemoteCallsTypeCorrect`, `CallsRunOnceInOrder` (`RunsOnceInOrder`) and `PendingCallIsKept`: while
`m_pending` announces a call that has not run, nobody changes the mailbox.
`RunsOnceInOrder` compares two threads that never look at each other but through the
mailbox; `CInv` adds what the mailbox holds, and where (`MailboxHoldsLast`).

`ThreadPoolProofs` proves, for any number of workers, users, cores and tasks
(`PoolAssumption`),

* `ThreadPoolTypeCorrect`; `AssertionsHold`: `AssertionsOfTheCode`; `PauseIsQuiet`: `PausedMeansQuiet`;
* `NoTaskIsLost`: every task is pending, finished or held by one thread;
* `NoWakeUpIsLost`: `WakeUpPerActivationUncontended`;
* `CountersAreExact`: `CountersExact`.

`PInv` relates the place of each worker to its state (`StateFits`), the progress of each
activation to the worker it is for (`HelpFits`), wake-ups that are on their way to the
workers that sleep (`WakeUpsFit`), and what the owner believes to the places of all
workers (`PauseFits`). The count of wake-ups is the hard part: a worker that goes to sleep,
the thread that activates it and its event are changed by three steps of two threads.

`CountersFit` gives each counter as a sum over the threads. A step of one thread changes the sum
by what this thread adds before and after it (`ActiveDue`, `CoreDue`), which is compared with
what the step does to the counter (`MoveRecounts`, `MoveKeepsCounters`). The counts of the
cores are summed by a fold of the community modules: `CoresCounted` says that some function on
the sets of cores obeys the fold's recursion and has the right value. A step changes that function
with the count (`SumGrows`), and there is only one such function, because two would differ on a
smallest set (`SumsAreEqual`), so it is the fold (`SumIsFold`).

`NameRegistryProofs` proves, for any finite set of queries of the name,
`RegistryTypeCorrect` and `OneCookPerName` (`RegistryNamesWhatLives`). That a host has not ended depends on
the walk of the resources thread: `RInv` says that the ring of referers leads from the
host through exactly the queries that wait for it and back, how much of it has been
walked (`RingFits`, `WalkFits`), who counts a reference to each resource (`ResourceFits`)
and which places of the destroyer exclude each other (`DestroyerFits`).

`TaskTreeProofs` proves, for any finite sets of threads and of tasks
(`TreeAssumption`), any depth of nested calls and whatever the heuristics let spawn,

* `TaskTreeTypeCorrect`: `TypeOK`; `TaskRunsOnce`, `TaskCapturedByOne`,
  `TaskReferencesCountHolders`, `TaskCounterCountsChildren`: `RunsOnce`, `CapturedByOne`,
  `ReferencesCountHolders` and `CounterCountsChildren` are invariants of `Spec`;
* `TaskWaitCollectsChildren`: `WaitCollectsChildren`. A wait that has seen the counter at
  zero has all children, and gets none until it returns, because only the thread that
  executes a task, or waits for it, spawns for it. It says nothing of a wait that slept.

A thread that waits for its children executes other tasks above the wait, so what a
thread does is a stack of calls; `StackOK` says which call may lie on which, and
`CallsFit` what each call knows of its task. A task is executed in one call of one
thread, and whatever else that thread does for it lies above that call
(`OneExecution`); of a parent's end and a child's end at most one captures the child
(`CutsOffAlone`). A task is at most once in a list of children and in none when the
allocator takes it back (`ListsFit`). The reference count then follows containers,
handlers and execution step by step (`TasksFit`): every step that takes a task out of a
container has a call that holds it, until `release` gives the reference up. All this is
`TInv`. That the counter counts the children (`CounterFits`) needs more, `CInv`: a task's
storage is handed out again only when no child that has not ended names it as parent,
because such a child is in its list, about to be unlinked or waited for (`ChildrenKept`);
what is listed or unlinked is its child still unless it was cut off; and a wait unlinks
children only when the count is 0 (`ThreadCounts`). An executed task that did not wait
keeps counting the children it cuts off, so for it the count is only a bound.

`TasksProofs` proves about the allocator and the queue of `MCTasks`, from
`BuffersAssumption` (a finite, nonempty set of buffers; `Null` is neither a buffer nor a
thread) and `TreeAssumption`,

* `NodesAreInOnePlace`: `EachNodeInOnePlace`; `WholePoppedIsFree`: `PoppedIsFree`, the
  assertion the code makes of a popped buffer, holds where the head is copied in one piece
  (the run `free_list_reuse` shows that it fails elsewhere); `AllocatorTypeCorrect`, in
  every layout;
* `PendingTasksInOrder`: the action property `FirstInFirstOut`; `QueueTypeCorrect`;
* `TasksTypesCorrect`: `TasksTypesOK`.

The links of the allocator make a sequence without repetitions that starts at the head
(`ListIsChain`), and its buffers are those that are free and in nobody's hands. The step
that matters is a pop whose copy is old: `CopyIsGood` says that as long as the counter is
the one that was copied, the buffer is still in the list and its link is what was read.
The recursive function `Chained`, by which `EachNodeInOnePlace` lists the chain, is shown to
compute that sequence by induction on its length; the same for `From` and the queue's lists.
A queue is three sequences without a value in common: the popped list, the stack that a
popper has taken and is turning round, and the pushed stack (`QueueIs`). What is delivered
next is the popped list, then what is being turned, then the pushed stack from its end;
each step keeps that, appends a value or takes the first (`Changes`).

`EngineProofs` proves about the render channel, the frames and the devices of `MCEngine`, from
`EngineAssumption` (finitely many commands, at least two, and the null pointer is none; the
thread that finalizes a device is one of its users, and `Nobody` is none),

* `RenderChannelTypeCorrect`; `UsedIsAlive`: `NothingUsedIsDeleted`; `KeptUntilDrawn`:
  `DeferredUntilDrawn`; `ChannelImplementsDelivery`: `ImplementsDelivery`;
* `FrameLoopTypeCorrect`; `ThreadsKeepStep`: `NeitherRunsAway`; `FrameAssertionsHold`: the
  assertions of the frames, up to the second switch of the game or without an editor
  (with a third switch one of them fails: see the hazards);
* `DeviceTypeCorrect`; `QueriesInUseLive`: `UsesLiveQueries`; `AccessIsExclusive`: the assertions
  of the devices, for any number of users and queries and wherever a user is stopped. Both
  hold of behaviours up to the first access to a deleted query, and `UsesLiveQueries` says
  of the head that `push_back` has read only that it is the head or has been linked to.

About the engine as a whole, that is about `EngineSpec`, which the run `engine` checks: each part
makes its own steps or none (`EachPartBehaves`), so that what is proved of a part holds
(with `RemoteCallsProofs` and `NameRegistryProofs` instantiated in the engine's variables):

* `EngineTypeCorrect`: `EngineTypesOK`; `EngineAssertionsHold`: `EngineAssertions`, where the
  game is switched at most twice;
* `EngineKeepsItsParts`: `CountIsOwnersDebt`, `RunsOnceInOrder`, `RegistryNamesWhatLives`,
  `NothingUsedIsDeleted`, `DeferredUntilDrawn`, `UsesLiveQueries`, `NeitherRunsAway`, and the two
  refinements `ImplementsPromise` and `ImplementsDelivery`.

Every command is in one of three places (`Where`): the forward queue, the backward queue, or
a list. The lists and the queues do not overlap but for two commands, and they are what
makes the channel hard: the null node of the forward queue, which may be in a list as well
and must then go back by the lists and not by the next pop, and a command that has gone
back but whose `deferred_next` the render thread has yet to read. The owner must not delete
either, and does not, because the one stays out of the backward queue and the other is the
last of it. Each queue is a sequence that the links make (`IsQueue`); that the
recursive `Chain` of the model computes it is proved by induction (`ChainLemma`). The frames'
invariant `FInv` says what each of the three threads knows of flags that another may
change: what the renderer has seen stays so (`RenderKnows`), how far the flag and what the
renderer was told of the game may differ during a switch (`SwitchKnown`), and that the counts
of frames are those of commands on their way (`Counted`).

For the devices the difficulty is that a query is called back, and deleted by its user, while two
queues still hold it as their null node. `DInv` says of every query where it is. No two links
of the forward queues lead to the same query (`LinksFit`), and a queue ends at its head, or a
producer has just linked its query behind that (`EndsFit`). What the device has given back is what
lies before the tail and perhaps the tail itself (`ReturnedFits`). A user's backward queue
has each of its queries at most once (`BacksFit`); what was given back last is at its end and
so is not deleted, which is what keeps a tail or a head alive that has been given back (`Alive`).
Who is in synchronous access is tied to the two events of its query and to the place of the
device's thread (`AccessFits`).

Only model-checked:

* everything that needs fairness or `ENABLED`, which the prover does not handle:
  `OwnersWaitsEnd`, `CallsAreServed`, `PushedIsProcessed`, `FramesGoOn`, `WaitEnds`,
  `EveryQueryEnds`.

Every invariant and every action property of the runs that pass is proved, with the hypotheses
named above for `CountsAreHolders` and `EngineAssertions`; so are the refinements. The
violations are shown by their runs alone.

## Not modelled, and why

`PROJECT.json` gives the reason for each component. In short: numeric and
single-threaded code (animation, AI, physics, rendering, game) has no protocol a
model checker would add to; vendored code, editors, exporters and build tools are
outside the program. They are the bulk of the repository (the sources hold
copies of complete libraries), so the lines modelled are a small share of all lines
and most of the lines that synchronize threads. Within the modelled components:

* pool: the statistics, the creation of its threads, several hardware threads per core,
  the hooks of `yield` and `sleep`; task tree: the iteration over types, builds
  without assertions;
* queues: those of several consumers, `intrusive_queue::front`; channels: the two-way one
  (sound); devices: opening, reading and writing files, watchers, running out of memory;
* frame loop: `rpc.cpp`, the loader, the ticks of the network thread;
* resources manager: requery, out of memory, sub-queries, transactions, the device,
  allocation and decompression threads, the association of resources with nodes of the
  vfs, managed resources;
* weak memory order: interlocked operations are full fences on the engine's platforms,
  and the plain accesses that matter are separate steps.

## Plan

In this order, each with its run, its properties and where it says so a proof:

1. Queries, continued: `finish_query(result_requery)` called inside `translate_query`,
   after which `query_resources` pushes the same query again
   (resources_manager_user_thread.cpp:338); `create_resources` with a finalizing thread,
   `set_create_resource_result` and `m_query_end_guard`; sub-queries and their parents.
2. Devices, continued: what `device_manager` does with a query's result (a file that cannot
   be opened, a read that is repeated), and the two-way channel of the sound.
3. Mounting against finding in the vfs, on top of `BranchLocks`: a find sees a mount
   wholly or not at all.
4. The test of `m_collecting_garbage` in `grab_next_task` as a step of its own (one step
   with the raise of `in_grab_next_task` now), and `front` of the queue.
5. The sessions of the login server, if the callbacks of `asio` can be modelled as
   external.
