----------------------------- MODULE ThreadPool -----------------------------
(***************************************************************************)
(* xray::tasks::thread_pool: how many task threads are awake, on which     *)
(* hardware threads ("cores"), who wakes them and when they go to sleep.   *)
(* tasks_thread_pool.cpp, tasks_thread_pool_utils.cpp, the tasks-aware     *)
(* mutex and event of threading_mutex.cpp and threading_event.cpp.         *)
(*                                                                         *)
(* A task is only a member of a count here: `pending` tasks can be         *)
(* grabbed (TaskTree models what a task is).  Every interlocked operation  *)
(* of the pool is a step of its own.  A thread is at a place of its code;  *)
(* while it activates some other thread, `help` says how far it is, and    *)
(* its place is where it continues afterwards.                             *)
(***************************************************************************)
EXTENDS Integers, FiniteSets, FiniteSetsExt

CONSTANTS
    NumWorkers,         \* max_task_threads; workers are 1..NumWorkers
    Users,              \* threads registered as core users
    UserCore,           \* their affinity, a function [Users -> cores]
    Owner,              \* the user that spawns tasks and controls the pool
    MinPermanent,       \* min_permanent_working_threads
    Settings            \* what differs between behaviours, a set of records (below)

Happenings == {
    "grab_contended",   \* the first grab finds the mutex of a task queue locked
    "regrab_contended", \* the second grab does
    "body_contended",   \* a task blocks on a tasks-aware mutex
    "owner_pauses",     \* the owner pauses and resumes the task threads
    "owner_destroys"}   \* the owner destroys the pool at the end

ASSUME PoolAssumption ==
    /\ NumWorkers \in Nat \ {0} /\ MinPermanent \in Nat \ {0}
    /\ IsFiniteSet(Users) /\ Users \cap (1..NumWorkers) = {}
    /\ UserCore \in [Users -> Nat] /\ Owner \in Users
    /\ \A s \in Settings :
          /\ s.may \subseteq Happenings                 \* what may happen
          /\ s.cores \in Nat /\ \A u \in Users : UserCore[u] < s.cores
          /\ s.tasks \in Nat            \* bound: tasks spawned in one behaviour

VARIABLES
    state,          \* thread_tls::state of each worker
    hardware,       \* thread_tls::hardware_thread of each worker
    affinity,       \* the core each worker last bound itself to
    shouldWork,     \* event_should_work of each worker is signalled
    coreCount,      \* m_core_thread_count
    active,         \* m_active_task_thread_count
    pending,        \* tasks spawned and not yet grabbed
    spawned,        \* tasks spawned so far
    finished,       \* tasks executed so far
    at,             \* where each thread is
    back,           \* where each thread goes on after a contended lock
    lastOnCore,     \* on_current_thread_locks found its core left empty
    help,           \* the activation each thread is performing
    destroying,     \* m_destroying
    paused,         \* m_paused
    numPaused,      \* m_num_paused_threads
    pauseEnded,     \* event_pause_ended of each worker is signalled
    setting         \* the setting of this behaviour

may         == setting.may
NumCores    == setting.cores        \* threading::core_count()
MaxTasks    == setting.tasks
TaskThreads == 1..NumWorkers
Cores       == 0..(NumCores - 1)
Threads     == TaskThreads \cup Users

counts   == <<coreCount, active>>
tasks    == <<pending, spawned, finished>>
pausing  == <<paused, numPaused, pauseEnded>>
bound    == <<hardware, affinity>>
worker   == <<state, bound, shouldWork>>
vars     == <<worker, counts, tasks, at, back, lastOnCore, help, destroying, pausing, setting>>

NotHelping == [stage |-> "none", target |-> 0, last |-> 0, core |-> 0, all |-> FALSE]

Init ==
    /\ setting \in Settings
    /\ state = [w \in TaskThreads |-> "inactive"]
    /\ hardware = [w \in TaskThreads |-> (w - 1) % NumCores]
    /\ affinity = hardware
    /\ shouldWork = [w \in TaskThreads |-> FALSE]
    /\ coreCount = [c \in Cores |-> Cardinality({u \in Users : UserCore[u] = c})]
    /\ active = 0
    /\ pending = 0 /\ spawned = 0 /\ finished = 0
    /\ at = [t \in Threads |-> IF t \in TaskThreads THEN "asleep" ELSE "running"]
    /\ back = [t \in Threads |-> "running"]
    /\ lastOnCore = [t \in Threads |-> FALSE]
    /\ help = [t \in Threads |-> NotHelping]
    /\ destroying = FALSE
    /\ paused = FALSE /\ numPaused = 0
    /\ pauseEnded = [w \in TaskThreads |-> FALSE]

CoreOf(t) == IF t \in TaskThreads THEN affinity[t] ELSE UserCore[t]

At(t, place)   == at[t] = place /\ help[t] = NotHelping
Goto(t, place) == at' = [at EXCEPT ![t] = place]
CoreUp(c)      == coreCount' = [coreCount EXCEPT ![c] = @ + 1]
CoreDown(c)    == coreCount' = [coreCount EXCEPT ![c] = @ - 1]
SetState(w, s) == state' = [state EXCEPT ![w] = s]

\* thread t goes from one place to the next and does nothing else to the flow
Step(t, from, to) ==
    At(t, from) /\ Goto(t, to) /\ UNCHANGED <<back, lastOnCore, help, destroying, setting, pausing>>

\* ... and nothing else at all
Moves(t, from, to) == Step(t, from, to) /\ UNCHANGED <<worker, counts, tasks>>

-----------------------------------------------------------------------------
(* try_activate_task_thread: one compare-exchange, two counters, an event. *)
(* Its callers walk the workers in order and stop at the first success,    *)
(* except the destructor and pause_all_task_threads, which try them all.   *)

Activate(from, to, core, all) ==
    [stage |-> "probe", target |-> from, last |-> to, core |-> core, all |-> all]

\* after the attempt on h.target, the next one or nothing more to do
NextTarget(h) == IF h.target = h.last THEN NotHelping
                 ELSE [h EXCEPT !.stage = "probe", !.target = @ + 1]

\* ~thread_pool spreads the workers over the cores, pause_all_task_threads
\* leaves each on its own; on_new_task and the others name one core.
CoreFor(h) == CASE ~h.all     -> h.core
                [] destroying -> (h.target - 1) % NumCores
                [] OTHER      -> hardware[h.target]

HelpStep(t, stage, next) ==
    /\ help[t].stage = stage
    /\ help' = [help EXCEPT ![t] = next]
    /\ UNCHANGED <<affinity, tasks, at, back, lastOnCore, destroying, setting, pausing>>

\* Mutant: a worker that is blocked is taken for one that sleeps.
ProbeLocked(t) ==
    LET h == help[t] IN
    \/ /\ state[h.target] # "active"
       /\ HelpStep(t, "probe", [h EXCEPT !.stage = "count", !.core = CoreFor(h)])
       /\ SetState(h.target, "active")
       /\ UNCHANGED <<hardware, shouldWork, counts>>
    \/ /\ state[h.target] = "active"
       /\ HelpStep(t, "probe", NextTarget(h))
       /\ UNCHANGED <<worker, counts>>

\* lines 47-51: the compare-exchange
Probe(t) ==
    LET h == help[t] IN
    \/ /\ state[h.target] = "inactive"
       /\ HelpStep(t, "probe", [h EXCEPT !.stage = "count", !.core = CoreFor(h)])
       /\ SetState(h.target, "active")
       /\ UNCHANGED <<hardware, shouldWork, counts>>
    \/ /\ state[h.target] # "inactive"
       /\ HelpStep(t, "probe", NextTarget(h))
       /\ UNCHANGED <<worker, counts>>

\* line 53, lines 55-57, line 59
CountActivated(t) ==
    /\ HelpStep(t, "count", [help[t] EXCEPT !.stage = "place"])
    /\ active' = active + 1
    /\ UNCHANGED <<worker, coreCount>>

PlaceActivated(t) ==
    /\ HelpStep(t, "place", [help[t] EXCEPT !.stage = "signal"])
    /\ hardware' = [hardware EXCEPT ![help[t].target] = help[t].core]
    /\ CoreUp(help[t].core)
    /\ UNCHANGED <<state, shouldWork, active>>

SignalActivated(t) ==
    /\ HelpStep(t, "signal", IF help[t].all THEN NextTarget(help[t]) ELSE NotHelping)
    /\ shouldWork' = [shouldWork EXCEPT ![help[t].target] = TRUE]
    /\ UNCHANGED <<state, hardware, counts>>

Help(t) ==
    /\ help[t] # NotHelping
    /\ Probe(t) \/ CountActivated(t) \/ PlaceActivated(t) \/ SignalActivated(t)

-----------------------------------------------------------------------------
(* on_new_task: spawn_task has just queued a task.                         *)

\* lines 159-175: the scan stops at an empty core; otherwise the emptiest one.
\* (The counts are read in one step; a stale one only picks another core.)
EmptyCores == {c \in Cores : coreCount[c] = 0}
Scanned    == IF EmptyCores = {} THEN Cores ELSE 0..Min(EmptyCores)
ChosenCore == LET least == Min({coreCount[c] : c \in Scanned})
              IN  Min({c \in Scanned : coreCount[c] = least})

Spawn(from) ==
    /\ At(Owner, from)
    /\ spawned < MaxTasks
    /\ spawned' = spawned + 1
    /\ pending' = pending + 1
    /\ back' = [back EXCEPT ![Owner] = from]
    /\ Goto(Owner, "new_task")
    /\ UNCHANGED <<worker, counts, finished, lastOnCore, help, destroying, setting, pausing>>

\* lines 177-195
OnNewTask ==
    LET t == Owner IN
    /\ At(t, "new_task")
    /\ help' = [help EXCEPT ![t] =
          IF EmptyCores # {} \/ active < MinPermanent
          THEN Activate(1, NumWorkers, ChosenCore, FALSE) ELSE NotHelping]
    /\ Goto(t, back[t])
    /\ UNCHANGED <<worker, counts, tasks, back, lastOnCore, destroying, setting, pausing>>

-----------------------------------------------------------------------------
(* A tasks-aware mutex or event that is not free after a few tries:        *)
(* on_current_thread_locks, the wait, on_current_thread_unlocks.           *)

\* lines 102-105
LocksLeaveCore(t) ==
    /\ At(t, "locks")
    /\ CoreDown(CoreOf(t))
    /\ lastOnCore' = [lastOnCore EXCEPT ![t] = coreCount'[CoreOf(t)] = 0]
    /\ Goto(t, IF t \in TaskThreads THEN "locks_state" ELSE "locks_help")
    /\ UNCHANGED <<worker, active, tasks, back, help, destroying, setting, pausing>>

\* Mutant: the active count stays.
LocksCountKept(t) ==
    Step(t, "locks_count", "locks_help") /\ UNCHANGED <<worker, counts, tasks>>

\* lines 112-113
LocksState(t) ==
    /\ Step(t, "locks_state", "locks_count")
    /\ SetState(t, "locked")
    /\ UNCHANGED <<bound, shouldWork, counts, tasks>>

LocksCount(t) ==
    /\ Step(t, "locks_count", "locks_help")
    /\ active' = active - 1
    /\ UNCHANGED <<worker, coreCount, tasks>>

\* lines 116-130: nobody is left on the core and there is something to do.
\* zero_tasks() is false while a task is pending, and it may still be false
\* when the queue only holds tasks that were grabbed through their type.
LocksHelp(t) ==
    /\ At(t, "locks_help")
    /\ \E found \in BOOLEAN :
          /\ pending > 0 => found
          /\ spawned = 0 => ~found
          /\ help' = [help EXCEPT ![t] =
                IF lastOnCore[t] /\ found
                THEN Activate(1, NumWorkers, CoreOf(t), FALSE) ELSE NotHelping]
    /\ Goto(t, "blocked")
    /\ UNCHANGED <<worker, counts, tasks, back, lastOnCore, destroying, setting, pausing>>

\* What a blocked thread waits for: the owner for its tasks or for the workers
\* to leave; anybody else for a mutex, which its holder releases.
Released(t) ==
    /\ back[t] = "running"   => finished = spawned
    /\ back[t] = "destroyed" => \A w \in TaskThreads : at[w] = "exited"

\* Mutant: the state stays locked.
UnlocksStateKept(t) ==
    Step(t, "unlocks_state", "unlocks_count") /\ UNCHANGED <<worker, counts, tasks>>

\* lines 137-138, then lines 143-145
UnlocksCore(t) ==
    /\ Step(t, "blocked", IF t \in TaskThreads THEN "unlocks_state" ELSE back[t])
    /\ Released(t)
    /\ CoreUp(CoreOf(t))
    /\ UNCHANGED <<worker, active, tasks>>

UnlocksState(t) ==
    /\ Step(t, "unlocks_state", "unlocks_count")
    /\ SetState(t, "active")
    /\ UNCHANGED <<bound, shouldWork, counts, tasks>>

UnlocksCount(t) ==
    /\ Step(t, "unlocks_count", back[t])
    /\ active' = active + 1
    /\ UNCHANGED <<worker, coreCount, tasks>>

Blocking(t) ==
    \/ LocksLeaveCore(t) \/ LocksState(t) \/ LocksCount(t) \/ LocksHelp(t)
    \/ UnlocksCore(t) \/ UnlocksState(t) \/ UnlocksCount(t)

\* Begin to block at a place, to go on at another once released.
BlockAt(t, from, to) ==
    /\ At(t, from)
    /\ back' = [back EXCEPT ![t] = to]
    /\ Goto(t, "locks")
    /\ UNCHANGED <<worker, counts, tasks, lastOnCore, help, destroying, setting, pausing>>

-----------------------------------------------------------------------------
(* thread_proc_impl: the loop of a task thread.                            *)

\* lines 347-348, 376-377: event_should_work, then the affinity it was given
Wake(w) ==
    /\ Step(w, "asleep", "top") \/ Step(w, "asleep_with_task", "execute")
    /\ shouldWork[w]
    /\ shouldWork' = [shouldWork EXCEPT ![w] = FALSE]
    /\ affinity' = [affinity EXCEPT ![w] = hardware[w]]
    /\ UNCHANGED <<state, hardware, counts, tasks>>

\* lines 354-359 with on_task_thread_paused and on_task_thread_resumed
Top(w) ==
    \/ paused  /\ Moves(w, "top", "pausing")
    \/ ~paused /\ Moves(w, "top", "grab")

PauseStep(w) ==
    /\ \/ /\ At(w, "pausing") /\ Goto(w, "paused")
          /\ numPaused' = numPaused + 1
          /\ UNCHANGED pauseEnded
       \/ /\ At(w, "paused") /\ Goto(w, "resumed")
          /\ pauseEnded[w]
          /\ pauseEnded' = [pauseEnded EXCEPT ![w] = FALSE]
          /\ UNCHANGED numPaused
       \/ /\ At(w, "resumed") /\ Goto(w, "grab")
          /\ numPaused' = numPaused - 1
          /\ UNCHANGED pauseEnded
    /\ UNCHANGED <<worker, counts, tasks, back, lastOnCore, help, destroying, setting, paused>>

\* Mutant: a task is taken without looking whether there is one.
TakeTaskUnseen(w, from, to) ==
    /\ Step(w, from, to)
    /\ pending' = pending - 1
    /\ UNCHANGED <<worker, counts, spawned, finished>>

\* lines 361 and 370: grab_next_task; the queue's mutex may be held by others
TakeTask(w, from, to) ==
    /\ Step(w, from, to)
    /\ pending > 0
    /\ pending' = pending - 1
    /\ UNCHANGED <<worker, counts, spawned, finished>>

FindsNoTask(w, from, to) == pending = 0 /\ Moves(w, from, to)

Grab(w) ==
    \/ \E from \in {"grab", "grab_locked"} :
          TakeTask(w, from, "execute") \/ FindsNoTask(w, from, "idle")
    \/ "grab_contended" \in may /\ BlockAt(w, "grab", "grab_locked")

Regrab(w) ==
    \/ \E from \in {"regrab", "regrab_locked"} :
          TakeTask(w, from, "reactivate") \/ FindsNoTask(w, from, "asleep")
    \/ "regrab_contended" \in may /\ BlockAt(w, "regrab", "regrab_locked")

\* lines 362-368: nothing to do; leave the loop or deactivate
Idle(w) ==
    /\ At(w, "idle")
    /\ back' = [back EXCEPT ![w] = IF destroying THEN "exited" ELSE "regrab"]
    /\ Goto(w, "deactivate")
    /\ UNCHANGED <<worker, counts, tasks, lastOnCore, help, destroying, setting, pausing>>

\* deactivate_task_thread, one counter after the other (lines 39-41)
Deactivate(w) ==
    /\ \/ /\ Step(w, "deactivate", "deactivate_core")
          /\ SetState(w, "inactive")
          /\ UNCHANGED counts
       \/ /\ Step(w, "deactivate_core", "deactivate_count")
          /\ CoreDown(hardware[w])
          /\ UNCHANGED <<state, active>>
       \/ /\ Step(w, "deactivate_count", back[w])
          /\ active' = active - 1
          /\ UNCHANGED <<state, coreCount>>
    /\ UNCHANGED <<bound, shouldWork, tasks>>

\* Mutant: waits without activating itself.
ReactivateNobody(w) == Moves(w, "reactivate", "asleep_with_task")

\* lines 374-376: a task came up meanwhile; wake up oneself, unless somebody
\* else did, and take the wake-up before executing it
Reactivate(w) ==
    /\ At(w, "reactivate")
    /\ help' = [help EXCEPT ![w] = Activate(w, w, hardware[w], FALSE)]
    /\ Goto(w, "asleep_with_task")
    /\ UNCHANGED <<worker, counts, tasks, back, lastOnCore, destroying, setting, pausing>>

\* line 380: the task; it may block on the way
Execute(t, from, to) ==
    \/ /\ Step(t, from, to)
       /\ finished' = finished + 1
       /\ UNCHANGED <<worker, counts, pending, spawned>>
    \/ "body_contended" \in may /\ from = "execute" /\ BlockAt(t, from, "execute_on")

ExecuteTask(w) ==
    \E from \in {"execute", "execute_on"} :
        Execute(w, from, IF destroying THEN "top" ELSE "oversubscribed")

\* current_thread_core_is_oversubscribed (lines 63-74): two separate reads
OversubscribedCheck(t, yes, no) ==
    \/ coreCount[CoreOf(t)] <= 1    /\ Moves(t, "oversubscribed", no)
    \/ coreCount[CoreOf(t)] > 1     /\ Moves(t, "oversubscribed", "permanent")
    \/ active <= MinPermanent       /\ Moves(t, "permanent", no)
    \/ active > MinPermanent        /\ Moves(t, "permanent", yes)

\* deactivate_if_oversubscribed, lines 81-95
LeaveOversubscribed(w) ==
    /\ \/ /\ CoreDown(hardware[w])
          /\ Step(w, "leave_core",
                  IF coreCount'[hardware[w]] = 0 THEN "return_core" ELSE "leave_state")
          /\ UNCHANGED <<state, active>>
       \/ /\ Step(w, "return_core", "top")
          /\ CoreUp(hardware[w])
          /\ UNCHANGED <<state, active>>
       \/ /\ Step(w, "leave_state", "leave_count")
          /\ SetState(w, "inactive")
          /\ UNCHANGED counts
       \/ /\ Step(w, "leave_count", "asleep")
          /\ active' = active - 1
          /\ UNCHANGED <<state, coreCount>>
    /\ UNCHANGED <<bound, shouldWork, tasks>>

WorkerStep(w) ==
    \/ Wake(w) \/ Top(w) \/ PauseStep(w) \/ Grab(w) \/ Idle(w) \/ Deactivate(w)
    \/ Regrab(w) \/ Reactivate(w) \/ ExecuteTask(w)
    \/ OversubscribedCheck(w, "leave_core", "top") \/ LeaveOversubscribed(w)

-----------------------------------------------------------------------------
(* The owner: spawn_task, wait_for_all_children, pause, resume, destroy.   *)

\* wait_for_task_list, lines 231-252, with the owner's tasks as its children:
\* execute them while there are any (core_entry_point.cpp:263 initializes the
\* pool with execute_while_wait_for_children_true), then block until all are
\* executed.
StartWaiting == finished < spawned /\ Moves(Owner, "running", "children")

ExecuteChildren ==
    \/ TakeTask(Owner, "children", "execute")
    \/ FindsNoTask(Owner, "children", "wait")
    \/ \E from \in {"execute", "execute_on"} : Execute(Owner, from, "oversubscribed")
    \/ OversubscribedCheck(Owner, "wait", "children")

WaitForChildren ==
    \/ finished = spawned /\ Moves(Owner, "wait", "running")
    \/ finished < spawned /\ BlockAt(Owner, "wait", "running")

\* pause_all_task_threads and resume_all_task_threads
PauseAll ==
    /\ "owner_pauses" \in may
    /\ At(Owner, "running")
    /\ numPaused' = 0
    /\ pauseEnded' = [w \in TaskThreads |-> FALSE]
    /\ paused' = TRUE
    /\ help' = [help EXCEPT ![Owner] = Activate(1, NumWorkers, 0, TRUE)]
    /\ Goto(Owner, "await_pause")
    /\ UNCHANGED <<worker, counts, tasks, back, lastOnCore, destroying, setting>>

\* Mutant: not all of the workers are awaited.
AllButOnePaused == numPaused >= NumWorkers - 1 /\ Moves(Owner, "await_pause", "all_paused")

AllPaused == numPaused = NumWorkers /\ Moves(Owner, "await_pause", "all_paused")

ResumeAll ==
    /\ At(Owner, "all_paused")
    /\ paused' = FALSE
    /\ pauseEnded' = [w \in TaskThreads |-> TRUE]
    /\ Goto(Owner, "await_resume")
    /\ UNCHANGED <<worker, counts, tasks, back, lastOnCore, help, destroying, setting, numPaused>>

AllResumed == numPaused = 0 /\ Moves(Owner, "await_resume", "running")

\* ~thread_pool, lines 122-126
Destroy ==
    /\ "owner_destroys" \in may
    /\ At(Owner, "running")
    /\ finished = spawned
    /\ destroying' = TRUE
    /\ help' = [help EXCEPT ![Owner] = Activate(1, NumWorkers, 0, TRUE)]
    /\ Goto(Owner, "await_exit")
    /\ UNCHANGED <<worker, counts, tasks, back, lastOnCore, pausing, setting>>

AwaitExit ==
    \/ (\A w \in TaskThreads : at[w] = "exited") /\ Moves(Owner, "await_exit", "destroyed")
    \/ (\E w \in TaskThreads : at[w] # "exited") /\ BlockAt(Owner, "await_exit", "destroyed")

OwnerStep ==
    \/ OnNewTask \/ StartWaiting \/ ExecuteChildren \/ WaitForChildren
    \/ AllPaused \/ ResumeAll \/ AllResumed \/ AwaitExit

OwnerCalls == Spawn("running") \/ Spawn("all_paused") \/ PauseAll \/ Destroy

-----------------------------------------------------------------------------
Next ==
    \/ \E t \in Threads : Help(t) \/ Blocking(t)
    \/ \E w \in TaskThreads : WorkerStep(w)
    \/ OwnerStep
    \/ OwnerCalls

Spec == Init /\ [][Next]_vars

\* The operating system runs every thread that can run, what is locked gets
\* unlocked, and the owner waits for the tasks it spawned; it need not spawn,
\* pause or destroy anything.
FairSpec ==
    /\ Spec
    /\ \A w \in TaskThreads : WF_vars(Help(w) \/ Blocking(w) \/ WorkerStep(w))
    /\ WF_vars(Help(Owner) \/ Blocking(Owner) \/ OwnerStep)

-----------------------------------------------------------------------------
(* Properties.                                                             *)

\* Where a thread is: a worker in its loop, on the way to or from a pause or a task,
AwakePlaces == {
    "top", "pausing", "paused", "resumed", "grab", "grab_locked", "idle", "deactivate",
    "execute", "execute_on", "oversubscribed", "permanent", "leave_core", "return_core",
    "leave_state"}

\* a thread that blocks on a tasks-aware mutex or event, and goes on at `back`,
LockPlaces == {
    "locks", "locks_state", "locks_count", "locks_help", "blocked", "unlocks_state",
    "unlocks_count"}

\* a worker that has made itself inactive and has not been woken since,
RestPlaces == {
    "deactivate_core", "deactivate_count", "leave_count", "regrab", "regrab_locked",
    "reactivate", "asleep", "asleep_with_task", "exited"}

\* the owner, and the users that do nothing with the pool.
OwnerPlaces == {
    "running", "new_task", "children", "wait", "execute", "execute_on", "oversubscribed",
    "permanent", "locks", "locks_help", "blocked", "await_pause", "all_paused",
    "await_resume", "await_exit", "destroyed"}

Places == AwakePlaces \cup LockPlaces \cup RestPlaces \cup OwnerPlaces

TypeOK ==
    /\ state \in [TaskThreads -> {"inactive", "active", "locked"}]
    /\ hardware \in [TaskThreads -> Cores] /\ affinity \in [TaskThreads -> Cores]
    /\ shouldWork \in [TaskThreads -> BOOLEAN] /\ pauseEnded \in [TaskThreads -> BOOLEAN]
    /\ coreCount \in [Cores -> Int] /\ active \in Int
    /\ pending \in 0..MaxTasks /\ spawned \in 0..MaxTasks /\ finished \in 0..MaxTasks
    /\ at \in [Threads -> Places] /\ back \in [Threads -> Places]
    /\ lastOnCore \in [Threads -> BOOLEAN]
    /\ help \in [Threads -> [stage : {"none", "probe", "count", "place", "signal"},
                            target : 0..NumWorkers, last : 0..NumWorkers,
                            core : Cores, all : BOOLEAN]]
    /\ destroying \in BOOLEAN /\ paused \in BOOLEAN /\ numPaused \in 0..NumWorkers
    /\ setting \in Settings

AtOneOf(places) == {w \in TaskThreads : at[w] \in places}

\* R_ASSERT at lines 352, 35 and 143: a worker in its loop is active, one that
\* deactivates was active, one that unlocks was locked.
AssertionsOfTheCode ==
    /\ \A w \in AtOneOf({"top", "deactivate"}) : state[w] = "active"
    /\ \A w \in AtOneOf({"unlocks_state"})     : state[w] = "locked"

\* The wake-ups under way for w: activations begun and not yet consumed.
WakeUps(w) ==
    Cardinality({t \in Threads :
                   help[t].target = w /\ help[t].stage \in {"count", "place", "signal"}})
    + IF shouldWork[w] THEN 1 ELSE 0

\* A worker that sleeps while its state says active has exactly one wake-up on
\* its way, a worker that sleeps inactive has none: no activation is lost, none
\* is spent twice, however the workers, the spawner and the lockers interleave.
WakeUpPerActivation ==
    \A w \in AtOneOf({"asleep", "asleep_with_task"}) :
        WakeUps(w) = IF state[w] = "active" THEN 1 ELSE 0

\* The second grab of a worker, which is inactive then, may block on the mutex of
\* the queue: on_current_thread_locks and ..._unlocks make it active without an
\* activation and count it as if it had been active before.
SecondGrabMayBlock == "regrab_contended" \in may

\* What the code keeps: one wake-up per activation where that cannot happen.
WakeUpPerActivationUncontended == SecondGrabMayBlock \/ WakeUpPerActivation

\* m_active_task_thread_count is the number of active workers, up to those that
\* have changed their state and not yet the count.
ActiveCountExact ==
    active + Cardinality({t \in Threads : help[t].stage = "count"})
           + Cardinality(AtOneOf({"unlocks_count"}))
           - Cardinality(AtOneOf({"deactivate_core", "deactivate_count", "leave_count",
                                  "locks_count"}))
      = Cardinality({w \in TaskThreads : state[w] = "active"})

\* While the owner believes the pool paused, no worker is anywhere but in its
\* pause: no task runs between pause_all_task_threads and resume_all_task_threads.
PausedMeansQuiet ==
    at[Owner] = "all_paused" => \A w \in TaskThreads : at[w] = "paused"

\* The core counts together never lose or invent a thread: they are the users
\* that are not blocked and the active workers, up to those in mid-change.
CoreCountTotal ==
    MapThenSumSet(LAMBDA c : coreCount[c], Cores)
      = Cardinality({u \in Users : at[u] \notin {"locks_help", "blocked"}})
        + Cardinality({w \in TaskThreads : state[w] = "active"})
        + Cardinality(AtOneOf({"deactivate_core", "unlocks_state"}))
        - Cardinality(AtOneOf({"locks_state", "leave_state", "return_core"}))
        - Cardinality({t \in Threads : help[t].stage \in {"count", "place"}})

\* Both counters agree with the states of the workers, however many of the
\* interlocked operations on them are still to come.
CountersExact == SecondGrabMayBlock \/ (ActiveCountExact /\ CoreCountTotal)

\* ~thread_pool began while all workers were asleep.
DestroysRestingPool ==
    /\ destroying /\ help[Owner] = Activate(1, NumWorkers, 0, TRUE)
    /\ \A w \in TaskThreads : at[w] = "asleep" /\ state[w] = "inactive"

\* A worker that the unlock of its second grab made active sleeps with the task
\* it grabbed: its own activation found it active, and no wake-up comes.
SleepsWithTask ==
    SecondGrabMayBlock /\
        \E w \in TaskThreads :
            /\ at[w] = "asleep_with_task" /\ state[w] = "active"
            /\ WakeUps(w) = 0 /\ help[w].stage = "none"

\* Every spawned task is executed once the owner waits for it (on_new_task and
\* the workers' second grab never miss each other), and ~thread_pool returns if
\* it began with all workers asleep.  Where the second grab may block a task can
\* be lost, in one way only: in the hands of a worker that sleeps for ever.
OwnersWaitsEnd ==
    (finished < spawned \/ DestroysRestingPool)
        ~> \/ finished = spawned /\ (destroying => at[Owner] = "destroyed")
           \/ SleepsWithTask

\* ~thread_pool returns, whatever the workers were doing when it began: a worker
\* that try_activate_task_thread did not activate is awake or about to be.
DestructionEnds == destroying ~> at[Owner] = "destroyed"
=============================================================================
