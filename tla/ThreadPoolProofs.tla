-------------------------- MODULE ThreadPoolProofs --------------------------
(***************************************************************************)
(* Proofs about ThreadPool, for any number of workers, users, cores and    *)
(* tasks: every step keeps PInv, the conjunction of the invariants defined *)
(* here, and the properties of ThreadPool follow from it.                  *)
(*                                                                         *)
(* PInv relates the place of each worker to its state (StateFits), each    *)
(* activation and event to a worker that rests (WakeUpsFit), the places of *)
(* the workers to the owner's pause (PauseFits) and the tasks that were    *)
(* grabbed to the threads that hold one (TasksConserved).  CountersFit,    *)
(* kept apart because it needs the steps of PInv, says what each counter   *)
(* counts.                                                                 *)
(***************************************************************************)
EXTENDS ThreadPool, FiniteSetTheorems, TLAPS
-----------------------------------------------------------------------------
(* Where a thread is.                                                      *)

\* The second grab of the worker is blocked, or the worker rests.
Resting(w) == at[w] \in RestPlaces \/ (at[w] \in LockPlaces /\ back[w] = "regrab_locked")

\* Every thread is at a place of its own code, and a place that continues
\* elsewhere knows where.
FlowOK ==
    /\ \A w \in TaskThreads :
          /\ at[w] \in AwakePlaces \cup LockPlaces \cup RestPlaces
          /\ at[w] \in LockPlaces =>
                \/ back[w] \in {"grab_locked", "execute_on"}
                \/ back[w] = "regrab_locked" /\ SecondGrabMayBlock
          /\ at[w] \in {"deactivate", "deactivate_core", "deactivate_count"} =>
                back[w] \in {"exited", "regrab"}
    /\ at[Owner] \in OwnerPlaces
    /\ at[Owner] \in LockPlaces => back[Owner] \in {"execute_on", "running", "destroyed"}
    /\ at[Owner] = "new_task" => back[Owner] \in {"running", "all_paused"}
    /\ \A u \in Users : u # Owner => at[u] = "running"

\* The state of a worker is that of its place.
StateFits ==
    \A w \in TaskThreads :
        /\ at[w] \in AwakePlaces \cup {"unlocks_count"} => state[w] = "active"
        /\ at[w] \in {"locks_count", "locks_help", "blocked", "unlocks_state"} =>
              state[w] = "locked"
        /\ at[w] \in {"locks", "locks_state"} /\ back[w] # "regrab_locked" => state[w] = "active"
        /\ at[w] \in RestPlaces \cup {"locks", "locks_state"} => state[w] # "locked"

-----------------------------------------------------------------------------
(* Wake-ups.                                                               *)

\* t has activated w and not yet signalled it.
Wakes(t, w) == help[t].target = w /\ help[t].stage \in {"count", "place", "signal"}

WakeUpUnderWay(w) == shouldWork[w] \/ \E t \in Threads : Wakes(t, w)

\* Only a worker that rests is being woken, once, and not while it is inactive;
\* and one that rests active is.
WakeUpFits(w) ==
    /\ WakeUpUnderWay(w) => Resting(w) /\ state[w] # "inactive"
    /\ \A t \in Threads : Wakes(t, w) => ~shouldWork[w]
    /\ \A t, u \in Threads : Wakes(t, w) /\ Wakes(u, w) => t = u
    /\ at[w] \in RestPlaces /\ state[w] = "active" => SecondGrabMayBlock \/ WakeUpUnderWay(w)

WakeUpsFit == \A w \in TaskThreads : WakeUpFits(w)

\* An activation names workers that exist.
HelpIsSound(h) ==
    \/ h = NotHelping
    \/ h.stage # "none" /\ h.last \in TaskThreads /\ h.target \in 1..h.last

HelpFits == \A t \in Threads : HelpIsSound(help[t])

-----------------------------------------------------------------------------
(* The pause.                                                              *)

OwnerHasPaused == at[Owner] = "all_paused" \/ (at[Owner] = "new_task" /\ back[Owner] = "all_paused")
OwnerPauses    == OwnerHasPaused \/ at[Owner] \in {"await_pause", "await_resume"}

InPause == AtOneOf({"paused", "resumed"})

PauseFits ==
    /\ numPaused = Cardinality(InPause)
    /\ ~OwnerPauses => InPause = {}
    /\ paused <=> OwnerHasPaused \/ at[Owner] = "await_pause"
    /\ ~paused => AtOneOf({"pausing"}) = {}
    /\ paused => \A w \in TaskThreads : ~pauseEnded[w] /\ at[w] # "resumed"
    /\ OwnerHasPaused => InPause = TaskThreads

-----------------------------------------------------------------------------
(* The tasks.                                                              *)

\* The thread has grabbed a task and not finished it.
HasTask(t) ==
    \/ at[t] \in {"execute", "execute_on", "reactivate", "asleep_with_task"}
    \/ at[t] \in LockPlaces /\ back[t] = "execute_on"

TaskHolders == {t \in Threads : HasTask(t)}

\* Every task spawned waits, is held by one thread or is finished.
TasksConserved ==
    /\ pending \in Nat /\ finished \in Nat /\ spawned \in 0..MaxTasks
    /\ spawned = pending + finished + Cardinality(TaskHolders)

PInv ==
    /\ TypeOK /\ FlowOK /\ StateFits /\ HelpFits /\ WakeUpsFit
    /\ PauseFits /\ TasksConserved

-----------------------------------------------------------------------------
(* What a step may change.                                                 *)

\* A thread that helps nobody, or has still to find somebody it can activate.
WakesNobody(h) == h.stage \in {"none", "probe"}

\* An activation that begins has woken nobody yet.
LEMMA NewHelpWakesNobody ==
    /\ WakesNobody(NotHelping)
    /\ \A from, to, core, all : WakesNobody(Activate(from, to, core, all))
BY DEF WakesNobody, NotHelping, Activate

\* The workers and the users are different threads, and finitely many.
LEMMA PoolThreads ==
    /\ NumWorkers \in Nat \ {0} /\ TaskThreads = 1..NumWorkers
    /\ Owner \in Users /\ Owner \in Threads /\ Owner \notin TaskThreads
    /\ TaskThreads \subseteq Threads /\ Threads = TaskThreads \cup Users
    /\ TaskThreads \cap Users = {}
    /\ IsFiniteSet(Threads) /\ IsFiniteSet(TaskThreads)
<1>1. IsFiniteSet(TaskThreads) /\ NumWorkers \in Nat \ {0}
  BY PoolAssumption, FS_Interval DEF TaskThreads
<1> QED
  BY <1>1, PoolAssumption, FS_Union DEF TaskThreads, Threads

\* Blocking moves one thread and changes at most its own state, and one count.
LEMMA BlockingFrame ==
    ASSUME PInv, NEW t \in Threads, Blocking(t)
    PROVE  /\ at[t] \in LockPlaces /\ at'[t] \in LockPlaces \cup {back[t]}
           /\ at' = [at EXCEPT ![t] = at'[t]]
           /\ \/ state' = state
              \/ at[t] = "locks_state" /\ state' = [state EXCEPT ![t] = "locked"]
              \/ at[t] = "unlocks_state" /\ state' = [state EXCEPT ![t] = "active"]
           /\ \A u \in Threads : help'[u] = help[u] \/ (WakesNobody(help[u]) /\ WakesNobody(help'[u]))
           /\ UNCHANGED <<hardware, affinity, shouldWork, back, tasks, destroying, pausing, setting>>
<1> USE DEF Step, Moves, At, Goto, LockPlaces
<1>1. at \in [Threads -> Places] /\ DOMAIN help = Threads
  BY DEF PInv, TypeOK
<1>2. CASE LocksLeaveCore(t)
  BY <1>1, <1>2 DEF LocksLeaveCore, worker, bound
<1>3. CASE LocksState(t)
  BY <1>1, <1>3 DEF LocksState, SetState, bound
<1>4. CASE LocksCount(t)
  BY <1>1, <1>4 DEF LocksCount, worker, bound
<1>5. CASE LocksHelp(t)
  <2> PICK found \in BOOLEAN :
            help' = [help EXCEPT ![t] =
                        IF lastOnCore[t] /\ found
                        THEN Activate(1, NumWorkers, CoreOf(t), FALSE) ELSE NotHelping]
    BY <1>5, Zenon DEF LocksHelp
  <2>0. help'[t] = Activate(1, NumWorkers, CoreOf(t), FALSE) \/ help'[t] = NotHelping
    BY <1>1
  <2>3. help[t] = NotHelping
    BY <1>5, Zenon DEF LocksHelp
  <2>1. help[t] = NotHelping /\ WakesNobody(help'[t])
    BY <2>0, <2>3, NewHelpWakesNobody, Zenon
  <2>2. \A u \in Threads : u # t => help'[u] = help[u]
    BY <1>1, <1>5 DEF LocksHelp
  <2> QED
    BY <1>1, <1>5, <2>1, <2>2, NewHelpWakesNobody DEF LocksHelp, worker, bound
<1>6. CASE UnlocksCore(t)
  BY <1>1, <1>6 DEF UnlocksCore, worker, bound
<1>7. CASE UnlocksState(t)
  BY <1>1, <1>7 DEF UnlocksState, SetState, bound
<1>8. CASE UnlocksCount(t)
  BY <1>1, <1>8 DEF UnlocksCount, worker, bound
<1> QED
  BY <1>2, <1>3, <1>4, <1>5, <1>6, <1>7, <1>8 DEF Blocking

\* A step of a worker's own moves that worker and changes at most its own state.
LEMMA WorkerFrame ==
    ASSUME PInv, NEW w \in TaskThreads, WorkerStep(w)
    PROVE  /\ at' = [at EXCEPT ![w] = at'[w]]
           /\ back' = [back EXCEPT ![w] = back'[w]]
           /\ state' = state \/ state' = [state EXCEPT ![w] = "inactive"]
           /\ shouldWork' = shouldWork \/ shouldWork' = [shouldWork EXCEPT ![w] = FALSE]
           /\ \A u \in Threads : help'[u] = help[u] \/ (WakesNobody(help[u]) /\ WakesNobody(help'[u]))
           /\ hardware' = hardware
           /\ UNCHANGED <<destroying, paused, setting, spawned>>
<1> USE DEF Step, Moves, At, Goto, BlockAt
<1>1. at \in [Threads -> Places] /\ back \in [Threads -> Places] /\ w \in Threads /\ DOMAIN help = Threads
  BY PoolThreads DEF PInv, TypeOK
<1> USE <1>1 DEF worker, bound, tasks, pausing
<1>2. CASE Wake(w)
  BY <1>2 DEF Wake
<1>3. CASE Top(w) \/ PauseStep(w)
  BY <1>3 DEF Top, PauseStep
<1>4. CASE Grab(w)
  BY <1>4 DEF Grab, TakeTask, FindsNoTask
<1>5. CASE Idle(w)
  BY <1>5 DEF Idle
<1>6. CASE Deactivate(w)
  BY <1>6 DEF Deactivate, SetState
<1>7. CASE Regrab(w)
  BY <1>7 DEF Regrab, TakeTask, FindsNoTask
<1>8. CASE Reactivate(w)
  BY <1>8, NewHelpWakesNobody DEF Reactivate
<1>9. CASE ExecuteTask(w)
  BY <1>9 DEF ExecuteTask, Execute
<1>10. CASE OversubscribedCheck(w, "leave_core", "top")
  BY <1>10 DEF OversubscribedCheck
<1>11. CASE LeaveOversubscribed(w)
  BY <1>11 DEF LeaveOversubscribed, SetState
<1> QED
  BY <1>2, <1>3, <1>4, <1>5, <1>6, <1>7, <1>8, <1>9, <1>10, <1>11 DEF WorkerStep

\* The owner's steps touch no worker, and no count but those of the tasks and of
\* the pause.
LEMMA OwnerFrame ==
    ASSUME PInv, OwnerStep \/ OwnerCalls
    PROVE  /\ UNCHANGED <<state, hardware, affinity, shouldWork, coreCount, active, setting>>
           /\ at' = [at EXCEPT ![Owner] = at'[Owner]]
           /\ back' = [back EXCEPT ![Owner] = back'[Owner]]
           /\ \A u \in Threads : help'[u] = help[u] \/ (WakesNobody(help[u]) /\ WakesNobody(help'[u]))
<1> USE DEF Step, Moves, At, Goto, BlockAt
<1>1. at \in [Threads -> Places] /\ back \in [Threads -> Places] /\ Owner \in Threads /\ DOMAIN help = Threads
  BY PoolThreads DEF PInv, TypeOK
<1> USE <1>1 DEF worker, bound, tasks, counts, pausing
<1>2. CASE OnNewTask
    BY <1>2, NewHelpWakesNobody DEF OnNewTask
<1>3. CASE StartWaiting \/ ExecuteChildren \/ WaitForChildren
    BY <1>3 DEF StartWaiting, ExecuteChildren, WaitForChildren, TakeTask, FindsNoTask, Execute, OversubscribedCheck
<1>4. CASE AllPaused \/ ResumeAll \/ AllResumed \/ AwaitExit
    BY <1>4 DEF AllPaused, ResumeAll, AllResumed, AwaitExit
<1>5. CASE Spawn("running") \/ Spawn("all_paused")
    BY <1>5 DEF Spawn
<1>6. CASE PauseAll
    BY <1>6, NewHelpWakesNobody DEF PauseAll
<1>7. CASE Destroy
    BY <1>7, NewHelpWakesNobody DEF Destroy
<1> QED
    BY <1>2, <1>3, <1>4, <1>5, <1>6, <1>7 DEF OwnerStep, OwnerCalls

\* try_activate_task_thread moves nobody; it makes its target active or changes
\* no state.
LEMMA HelpFrame ==
    ASSUME PInv, NEW t \in Threads, Help(t)
    PROVE  /\ help[t].target \in TaskThreads
           /\ help' = [help EXCEPT ![t] = help'[t]]
           /\ \/ state' = state
              \/ /\ help[t].stage = "probe" /\ state[help[t].target] = "inactive"
                 /\ state' = [state EXCEPT ![help[t].target] = "active"]
           /\ UNCHANGED <<affinity, tasks, at, back, lastOnCore, destroying, setting, pausing>>
<1>1. help[t].target \in TaskThreads
  BY PoolThreads DEF PInv, HelpFits, HelpIsSound, Help
<1>2. DOMAIN help = Threads
  BY DEF PInv, TypeOK
<1>3. CASE Probe(t)
  BY <1>1, <1>2, <1>3 DEF Probe, HelpStep, SetState, worker
<1>4. CASE CountActivated(t)
  BY <1>1, <1>2, <1>4 DEF CountActivated, HelpStep, worker
<1>5. CASE PlaceActivated(t)
  BY <1>1, <1>2, <1>5 DEF PlaceActivated, HelpStep, worker
<1>6. CASE SignalActivated(t)
  BY <1>1, <1>2, <1>6 DEF SignalActivated, HelpStep, worker
<1> QED
  BY <1>3, <1>4, <1>5, <1>6 DEF Help
-----------------------------------------------------------------------------
(* The flow, the states and the wake-ups.                                  *)

\* Every step leads from a place of the thread's code to the next.
LEMMA FlowKept ==
    ASSUME PInv, Next
    PROVE  FlowOK'
<1>0. at \in [Threads -> Places] /\ back \in [Threads -> Places] /\ FlowOK
    BY DEF PInv, TypeOK
<1> USE <1>0, PoolThreads
        DEF At, Goto, Step, Moves, BlockAt, AwakePlaces, LockPlaces, RestPlaces, OwnerPlaces,
            FlowOK, SecondGrabMayBlock, may
<1>1. ASSUME NEW t \in Threads, Help(t) PROVE FlowOK'
    BY <1>1, HelpFrame
<1>2. ASSUME NEW t \in Threads, Blocking(t) PROVE FlowOK'
    <2>1. t \in Users => at'[t] \in {"locks_help", "blocked", back[t]}
        BY <1>2 DEF Blocking, LocksLeaveCore, LocksState, LocksCount, LocksHelp,
                    UnlocksCore, UnlocksState, UnlocksCount
    <2> QED
        BY <1>2, <2>1, BlockingFrame
<1>3. ASSUME NEW w \in TaskThreads, WorkerStep(w) PROVE FlowOK'
    <2>1. CASE Wake(w)
        BY <2>1 DEF Wake
    <2>2. CASE Top(w)
        BY <2>2 DEF Top
    <2>3. CASE PauseStep(w)
        BY <2>3 DEF PauseStep
    <2>4. CASE Grab(w)
        BY <2>4 DEF Grab, TakeTask, FindsNoTask
    <2>5. CASE Idle(w)
        BY <2>5 DEF Idle
    <2>6. CASE Deactivate(w)
        BY <2>6 DEF Deactivate
    <2>7. CASE Regrab(w)
        BY <2>7 DEF Regrab, TakeTask, FindsNoTask
    <2>8. CASE Reactivate(w)
        BY <2>8 DEF Reactivate
    <2>9. CASE ExecuteTask(w)
        BY <2>9 DEF ExecuteTask, Execute
    <2>10. CASE OversubscribedCheck(w, "leave_core", "top")
        BY <2>10 DEF OversubscribedCheck
    <2>11. CASE LeaveOversubscribed(w)
        BY <2>11 DEF LeaveOversubscribed
    <2> QED
        BY <1>3, <2>1, <2>2, <2>3, <2>4, <2>5, <2>6, <2>7, <2>8, <2>9, <2>10, <2>11 DEF WorkerStep
<1>4. ASSUME OwnerStep \/ OwnerCalls PROVE FlowOK'
    <2>1. CASE OnNewTask
        BY <2>1 DEF OnNewTask
    <2>2. CASE StartWaiting \/ ExecuteChildren \/ WaitForChildren
        BY <2>2 DEF StartWaiting, ExecuteChildren, WaitForChildren, TakeTask, FindsNoTask,
                    Execute, OversubscribedCheck
    <2>3. CASE AllPaused \/ ResumeAll \/ AllResumed
        BY <2>3 DEF AllPaused, ResumeAll, AllResumed
    <2>4. CASE AwaitExit
        BY <2>4 DEF AwaitExit
    <2>5. CASE Spawn("running") \/ Spawn("all_paused")
        BY <2>5 DEF Spawn
    <2>6. CASE PauseAll
        BY <2>6 DEF PauseAll
    <2>7. CASE Destroy
        BY <2>7 DEF Destroy
    <2> QED
        BY <1>4, <2>1, <2>2, <2>3, <2>4, <2>5, <2>6, <2>7 DEF OwnerStep, OwnerCalls
<1> QED
    BY <1>1, <1>2, <1>3, <1>4 DEF Next

\* A worker changes its state on the way from a place of the one state to a
\* place of the other; who activates it makes an inactive one active.
LEMMA StatesKept ==
    ASSUME PInv, Next
    PROVE  StateFits'
<1>0. /\ at \in [Threads -> Places] /\ back \in [Threads -> Places]
      /\ state \in [TaskThreads -> {"inactive", "active", "locked"}]
      /\ FlowOK /\ StateFits
    BY DEF PInv, TypeOK
<1> USE <1>0, PoolThreads DEF AwakePlaces, LockPlaces, RestPlaces
<1>1. ASSUME NEW t \in Threads, Help(t) PROVE StateFits'
    BY <1>1, HelpFrame DEF StateFits
<1> USE DEF At, Goto, Step, Moves, BlockAt, SetState, worker, StateFits, FlowOK
<1>2. ASSUME NEW t \in Threads, Blocking(t) PROVE StateFits'
    <2>1. CASE LocksLeaveCore(t)
        BY <2>1 DEF LocksLeaveCore
    <2>2. CASE LocksState(t)
        BY <2>2 DEF LocksState
    <2>3. CASE LocksCount(t)
        BY <2>3 DEF LocksCount
    <2>4. CASE LocksHelp(t)
        BY <2>4 DEF LocksHelp
    <2>5. CASE UnlocksCore(t)
        BY <2>5 DEF UnlocksCore
    <2>6. CASE UnlocksState(t)
        BY <2>6 DEF UnlocksState
    <2>7. CASE UnlocksCount(t)
        BY <2>7 DEF UnlocksCount
    <2> QED
        BY <1>2, <2>1, <2>2, <2>3, <2>4, <2>5, <2>6, <2>7 DEF Blocking
<1>3. ASSUME NEW w \in TaskThreads, WorkerStep(w) PROVE StateFits'
    <2>1. CASE Wake(w)
        <3>1. state[w] = "active"
            BY <2>1 DEF Wake, PInv, WakeUpsFit, WakeUpFits, WakeUpUnderWay
        <3> QED
            BY <2>1, <3>1 DEF Wake
    <2>2. CASE Top(w) \/ PauseStep(w)
        BY <2>2 DEF Top, PauseStep
    <2>3. CASE Grab(w)
        BY <2>3 DEF Grab, TakeTask, FindsNoTask
    <2>4. CASE Idle(w) \/ Deactivate(w)
        BY <2>4 DEF Idle, Deactivate
    <2>5. CASE Regrab(w)
        BY <2>5 DEF Regrab, TakeTask, FindsNoTask
    <2>6. CASE Reactivate(w)
        BY <2>6 DEF Reactivate
    <2>7. CASE ExecuteTask(w)
        BY <2>7 DEF ExecuteTask, Execute
    <2>8. CASE OversubscribedCheck(w, "leave_core", "top") \/ LeaveOversubscribed(w)
        BY <2>8 DEF OversubscribedCheck, LeaveOversubscribed
    <2> QED
        BY <1>3, <2>1, <2>2, <2>3, <2>4, <2>5, <2>6, <2>7, <2>8 DEF WorkerStep
<1>4. ASSUME OwnerStep \/ OwnerCalls PROVE StateFits'
    BY <1>4, OwnerFrame
<1> QED
    BY <1>1, <1>2, <1>3, <1>4 DEF Next

\* try_activate_task_thread begins a wake-up when its compare-exchange succeeds,
\* and turns it into the event.
LEMMA HelpWakes ==
    ASSUME PInv, NEW t \in Threads, Help(t), NEW w \in TaskThreads
    PROVE  WakeUpFits(w)'
<1> DEFINE h == help[t]
<1> USE DEF PInv, TypeOK, HelpStep
<1>1. /\ UNCHANGED <<at, back, setting>>
      /\ h.target \in TaskThreads
      /\ \A u \in Threads : u # t => (Wakes(u, w)' <=> Wakes(u, w))
    BY HelpFrame DEF Wakes
<1>2. /\ Resting(w)' <=> Resting(w)
      /\ SecondGrabMayBlock' <=> SecondGrabMayBlock
    BY <1>1 DEF Resting, SecondGrabMayBlock, may
<1>3. WakeUpFits(w)
    BY DEF WakeUpsFit
<1>4. CASE Probe(t) /\ state[h.target] = "inactive"
    <2>1. state' = [state EXCEPT ![h.target] = "active"] /\ shouldWork' = shouldWork /\ ~Wakes(t, w)
        BY <1>4 DEF Probe, SetState, Wakes
    <2>2. Wakes(t, w)' <=> h.target = w
        BY <1>4 DEF Probe, Wakes
    <2>3. CASE w = h.target
        <3>1. Resting(w)
            BY <1>4, <2>3 DEF FlowOK, StateFits, Resting, AwakePlaces, LockPlaces, RestPlaces
        <3>2. ~WakeUpUnderWay(w)
            BY <1>3, <1>4, <2>3 DEF WakeUpFits
        <3> QED
            BY <1>1, <1>2, <2>1, <2>2, <2>3, <3>1, <3>2 DEF WakeUpFits, WakeUpUnderWay
    <2>4. CASE w # h.target
        BY <1>1, <1>2, <1>3, <2>1, <2>2, <2>4 DEF WakeUpFits, WakeUpUnderWay
    <2> QED
        BY <2>3, <2>4
<1>5. CASE Probe(t) /\ state[h.target] # "inactive"
    <2>1. UNCHANGED <<state, shouldWork>> /\ h.stage = "probe" /\ help'[t] = NextTarget(h)
        BY <1>5 DEF Probe, worker
    <2>2. NextTarget(h).stage \in {"none", "probe"}
        BY <2>1 DEF NextTarget, NotHelping
    <2>3. ~Wakes(t, w) /\ ~Wakes(t, w)'
        BY <2>1, <2>2 DEF Wakes
    <2> QED
        BY <1>1, <1>2, <1>3, <2>1, <2>3 DEF WakeUpFits, WakeUpUnderWay
<1>6. CASE CountActivated(t) \/ PlaceActivated(t)
    <2>1. UNCHANGED <<state, shouldWork>> /\ (Wakes(t, w)' <=> Wakes(t, w))
        BY <1>6 DEF CountActivated, PlaceActivated, worker, Wakes
    <2> QED
        BY <1>1, <1>2, <1>3, <2>1 DEF WakeUpFits, WakeUpUnderWay
<1>7. CASE SignalActivated(t)
    <2>1. state' = state /\ shouldWork' = [shouldWork EXCEPT ![h.target] = TRUE] /\ ~Wakes(t, w)'
        BY <1>7 DEF SignalActivated, Wakes, NextTarget, NotHelping
    <2>2. Wakes(t, w) <=> h.target = w
        BY <1>7 DEF SignalActivated, Wakes
    <2> QED
        BY <1>1, <1>2, <1>3, <2>1, <2>2 DEF WakeUpFits, WakeUpUnderWay
<1> QED
    BY <1>4, <1>5, <1>6, <1>7 DEF Help, Probe

\* A step after which everybody helps as before, or helps nobody yet, begins no
\* wake-up.
LEMMA NobodyWakesAnew ==
    ASSUME NEW t \in Threads, NEW w \in TaskThreads,
           \A u \in Threads : help'[u] = help[u] \/ (WakesNobody(help[u]) /\ WakesNobody(help'[u]))
    PROVE  Wakes(t, w)' <=> Wakes(t, w)
<1>1. CASE help'[t] = help[t]
    BY <1>1 DEF Wakes
<1>2. CASE WakesNobody(help[t]) /\ WakesNobody(help'[t])
    BY <1>2 DEF Wakes, WakesNobody
<1> QED
    BY <1>1, <1>2

\* A thread that blocks stays awake, or rests, until it goes on.
LEMMA BlockingWakes ==
    ASSUME PInv, NEW t \in Threads, Blocking(t), NEW w \in TaskThreads
    PROVE  WakeUpFits(w)'
<1>1. /\ \A u \in Threads : Wakes(u, w)' <=> Wakes(u, w)
      /\ SecondGrabMayBlock' <=> SecondGrabMayBlock
      /\ UNCHANGED <<shouldWork, back>>
    BY BlockingFrame, NobodyWakesAnew DEF SecondGrabMayBlock, may
<1>2. WakeUpFits(w) /\ at \in [Threads -> Places] /\ state \in [TaskThreads -> {"inactive", "active", "locked"}]
    BY DEF PInv, TypeOK, WakeUpsFit
<1>3. CASE w # t
    <2>1. state'[w] = state[w] /\ at'[w] = at[w]
        BY <1>2, <1>3, BlockingFrame, PoolThreads
    <2> QED
        BY <1>1, <1>2, <2>1 DEF WakeUpFits, WakeUpUnderWay, Resting
<1>4. CASE w = t
    <2>1. at[w] \in LockPlaces /\ at'[w] \in LockPlaces \cup {back[w]}
        BY <1>4, BlockingFrame
    <2>2. /\ back[w] \in {"grab_locked", "execute_on", "regrab_locked"}
          /\ back[w] = "regrab_locked" => SecondGrabMayBlock
        BY <2>1 DEF PInv, FlowOK
    <2>3. Resting(w)' <=> Resting(w)
        BY <1>1, <2>1, <2>2 DEF Resting, LockPlaces, RestPlaces
    <2>4. state'[w] # state[w] => state'[w] # "inactive"
        BY <1>2, <1>4, BlockingFrame
    <2>5. at'[w] \in RestPlaces => SecondGrabMayBlock
        BY <2>1, <2>2 DEF LockPlaces, RestPlaces
    <2> QED
        BY <1>1, <1>2, <2>3, <2>4, <2>5 DEF WakeUpFits, WakeUpUnderWay
<1> QED
    BY <1>3, <1>4

\* A worker begins to rest when it makes itself inactive and ends to by its
\* wake-up, which it takes.
LEMMA WorkerWakes ==
    ASSUME PInv, NEW v \in TaskThreads, WorkerStep(v), NEW w \in TaskThreads
    PROVE  WakeUpFits(w)'
<1>1. /\ \A u \in Threads : Wakes(u, w)' <=> Wakes(u, w)
      /\ SecondGrabMayBlock' <=> SecondGrabMayBlock
    BY WorkerFrame, NobodyWakesAnew DEF SecondGrabMayBlock, may
<1>2. /\ WakeUpFits(w)
      /\ at \in [Threads -> Places] /\ back \in [Threads -> Places]
      /\ state \in [TaskThreads -> {"inactive", "active", "locked"}]
      /\ shouldWork \in [TaskThreads -> BOOLEAN]
    BY DEF PInv, TypeOK, WakeUpsFit
<1>3. CASE w # v
    <2>1. at'[w] = at[w] /\ back'[w] = back[w] /\ state'[w] = state[w] /\ shouldWork'[w] = shouldWork[w]
        BY <1>2, <1>3, WorkerFrame, PoolThreads
    <2> QED
        BY <1>1, <1>2, <2>1 DEF WakeUpFits, Resting, WakeUpUnderWay
<1>4. CASE w = v
    <2>0. PInv /\ w \in Threads
        BY PoolThreads
    <2> USE <1>1, <1>2, <1>4, <2>0 DEF At, Goto, Step, Moves, SetState, BlockAt, worker, WakeUpFits,
                WakeUpUnderWay, Resting, AwakePlaces, LockPlaces, RestPlaces, PInv, StateFits
    <2>1. CASE Wake(w)
        BY <2>1 DEF Wake
    <2>2. CASE Top(w)
        BY <2>2 DEF Top
    <2>3. CASE PauseStep(w)
        BY <2>3 DEF PauseStep
    <2>4. CASE Grab(w)
        BY <2>4 DEF Grab, TakeTask, FindsNoTask
    <2>5. CASE Idle(w)
        BY <2>5 DEF Idle
    <2>6. CASE Deactivate(w)
        BY <2>6 DEF Deactivate, FlowOK
    <2>7. CASE Regrab(w)
        BY <2>7 DEF Regrab, TakeTask, FindsNoTask
    <2>8. CASE Reactivate(w)
        BY <2>8 DEF Reactivate
    <2>9. CASE ExecuteTask(w)
        BY <2>9 DEF ExecuteTask, Execute
    <2>10. CASE OversubscribedCheck(w, "leave_core", "top")
        BY <2>10 DEF OversubscribedCheck
    <2>11. CASE LeaveOversubscribed(w)
        BY <2>11 DEF LeaveOversubscribed
    <2> QED
        BY <2>1, <2>2, <2>3, <2>4, <2>5, <2>6, <2>7, <2>8, <2>9, <2>10, <2>11 DEF WorkerStep
<1> QED
    BY <1>3, <1>4

\* No step loses a wake-up or begins one too many.
LEMMA WakeUpsKept ==
    ASSUME PInv, Next
    PROVE  WakeUpsFit'
<1>1. ASSUME OwnerStep \/ OwnerCalls, NEW w \in TaskThreads PROVE WakeUpFits(w)'
    <2>1. /\ \A u \in Threads : Wakes(u, w)' <=> Wakes(u, w)
          /\ SecondGrabMayBlock' <=> SecondGrabMayBlock
          /\ UNCHANGED <<state, shouldWork>>
        BY <1>1, OwnerFrame, NobodyWakesAnew DEF SecondGrabMayBlock, may
    <2>2. at'[w] = at[w] /\ back'[w] = back[w]
        BY <1>1, OwnerFrame, PoolThreads DEF PInv, TypeOK
    <2>3. WakeUpFits(w)
        BY DEF PInv, WakeUpsFit
    <2> QED
        BY <2>1, <2>2, <2>3 DEF WakeUpFits, WakeUpUnderWay, Resting
<1> QED
    BY <1>1, HelpWakes, BlockingWakes, WorkerWakes DEF Next, WakeUpsFit

\* An activation begins with workers that exist.
LEMMA NewHelpIsSound ==
    /\ HelpIsSound(NotHelping)
    /\ \A core, all : HelpIsSound(Activate(1, NumWorkers, core, all))
    /\ \A w \in TaskThreads : \A core, all : HelpIsSound(Activate(w, w, core, all))
BY PoolThreads DEF HelpIsSound, Activate

\* An activation goes on with workers that exist.
LEMMA HelpKept ==
    ASSUME PInv, Next
    PROVE  HelpFits'
<1>0. /\ HelpFits
      /\ help \in [Threads -> [stage : {"none", "probe", "count", "place", "signal"},
                               target : 0..NumWorkers, last : 0..NumWorkers,
                               core : Cores, all : BOOLEAN]]
    BY DEF PInv, TypeOK
<1>1. ASSUME NEW t \in Threads, Help(t) PROVE HelpFits'
    <2> DEFINE h == help[t]
    <2>1. /\ h \in [stage : {"none", "probe", "count", "place", "signal"}, target : 0..NumWorkers,
                    last : 0..NumWorkers, core : Cores, all : BOOLEAN]
          /\ h.stage # "none" /\ h.last \in TaskThreads /\ h.target \in 1..h.last
        BY <1>0, <1>1 DEF Help, HelpFits, HelpIsSound
    <2>2. HelpIsSound(NextTarget(h))
        BY <2>1, PoolThreads DEF HelpIsSound, NextTarget
    <2>3. HelpIsSound(help'[t])
        <3>1. CASE Probe(t)
            BY <1>0, <2>1, <2>2, <3>1 DEF Probe, HelpStep, HelpIsSound
        <3>2. CASE CountActivated(t)
            BY <1>0, <2>1, <3>2 DEF CountActivated, HelpStep, HelpIsSound
        <3>3. CASE PlaceActivated(t)
            BY <1>0, <2>1, <3>3 DEF PlaceActivated, HelpStep, HelpIsSound
        <3>4. CASE SignalActivated(t)
            BY <1>0, <2>2, <3>4, NewHelpIsSound DEF SignalActivated, HelpStep
        <3> QED
            BY <1>1, <3>1, <3>2, <3>3, <3>4 DEF Help
    <2> QED
        BY <1>0, <1>1, <2>3, HelpFrame DEF HelpFits
<1>2. ASSUME NEW t \in Threads, Blocking(t) PROVE HelpFits'
    <2>1. CASE LocksHelp(t)
        <3> PICK found \in BOOLEAN :
                  help' = [help EXCEPT ![t] =
                              IF lastOnCore[t] /\ found
                              THEN Activate(1, NumWorkers, CoreOf(t), FALSE) ELSE NotHelping]
            BY <2>1, Zenon DEF LocksHelp
        <3>1. help'[t] = Activate(1, NumWorkers, CoreOf(t), FALSE) \/ help'[t] = NotHelping
            BY <1>0
        <3>2. HelpIsSound(help'[t])
            BY <3>1, NewHelpIsSound, Zenon
        <3>3. \A u \in Threads : u # t => help'[u] = help[u]
            BY <1>0
        <3> QED
            BY <1>0, <3>2, <3>3 DEF HelpFits
    <2>2. CASE help' = help
        BY <1>0, <2>2 DEF HelpFits
    <2> QED
        BY <1>2, <2>1, <2>2 DEF Blocking, LocksLeaveCore, LocksState, LocksCount, UnlocksCore,
                                UnlocksState, UnlocksCount, Step
<1>3. ASSUME NEW t \in Threads, NEW h, HelpIsSound(h), help' = [help EXCEPT ![t] = h] PROVE HelpFits'
    BY <1>0, <1>3 DEF HelpFits
<1>4. ASSUME NEW w \in TaskThreads, WorkerStep(w) PROVE HelpFits'
    <2>1. CASE Reactivate(w)
        <3>1. HelpIsSound(Activate(w, w, hardware[w], FALSE)) /\ w \in Threads
            BY NewHelpIsSound, PoolThreads, Zenon
        <3> QED
            BY <1>3, <2>1, <3>1, Zenon DEF Reactivate
    <2>2. CASE help' = help
        BY <1>0, <2>2 DEF HelpFits
    <2> QED
        BY <1>4, <2>1, <2>2 DEF WorkerStep, Wake, Top, PauseStep, Grab, Regrab, TakeTask, FindsNoTask,
                Idle, Deactivate, ExecuteTask, Execute, OversubscribedCheck, LeaveOversubscribed,
                Step, Moves, BlockAt
<1>5. ASSUME OwnerStep \/ OwnerCalls PROVE HelpFits'
    <2>0. Owner \in Threads
        BY PoolThreads
    <2>1. CASE OnNewTask
        BY <1>3, <2>0, <2>1, NewHelpIsSound, Zenon DEF OnNewTask
    <2>2. CASE PauseAll
        BY <1>3, <2>0, <2>2, NewHelpIsSound, Zenon DEF PauseAll
    <2>3. CASE Destroy
        BY <1>3, <2>0, <2>3, NewHelpIsSound, Zenon DEF Destroy
    <2>4. CASE help' = help
        BY <1>0, <2>4 DEF HelpFits
    <2> QED
        BY <1>5, <2>1, <2>2, <2>3, <2>4 DEF OwnerStep, OwnerCalls, StartWaiting, ExecuteChildren,
                WaitForChildren, AllPaused, ResumeAll, AllResumed, AwaitExit, Spawn, TakeTask,
                FindsNoTask, Execute, OversubscribedCheck, Step, Moves, BlockAt
<1> QED
    BY <1>1, <1>2, <1>4, <1>5 DEF Next
-----------------------------------------------------------------------------
(* Counting.                                                               *)

\* A set that gains or loses one element counts one more or one less.
LEMMA CountChanges ==
    ASSUME NEW S, NEW T, NEW t, IsFiniteSet(S), S \ {t} = T \ {t}
    PROVE  /\ IsFiniteSet(T) /\ Cardinality(S) \in Nat /\ Cardinality(T) \in Nat
           /\ (t \in S <=> t \in T) => Cardinality(T) = Cardinality(S)
           /\ t \notin S /\ t \in T => Cardinality(T) = Cardinality(S) + 1
           /\ t \in S /\ t \notin T => Cardinality(T) = Cardinality(S) - 1
<1>1. IsFiniteSet(S \ {t}) /\ IsFiniteSet(T)
    BY FS_RemoveElement, FS_AddElement
<1>2. Cardinality(S) \in Nat /\ Cardinality(T) \in Nat
    BY <1>1, FS_CardinalityType
<1>3. Cardinality(S \ {t}) = IF t \in S THEN Cardinality(S) - 1 ELSE Cardinality(S)
    BY FS_RemoveElement
<1>4. Cardinality(T \ {t}) = IF t \in T THEN Cardinality(T) - 1 ELSE Cardinality(T)
    BY <1>1, FS_RemoveElement
<1>5. Cardinality(S \ {t}) = Cardinality(T \ {t})
    OBVIOUS
<1> QED
    BY <1>1, <1>2, <1>3, <1>4, <1>5
-----------------------------------------------------------------------------
(* The pause.                                                              *)

\* The workers in their pause are some of NumWorkers.
LEMMA InPauseIsFinite ==
    IsFiniteSet(InPause) /\ InPause \subseteq TaskThreads /\ Cardinality(TaskThreads) = NumWorkers
<1>1. InPause \subseteq TaskThreads
    BY DEF InPause, AtOneOf
<1>2. IsFiniteSet(InPause)
    BY <1>1, PoolThreads, FS_Subset
<1>3. Cardinality(1..NumWorkers) = NumWorkers
    BY PoolThreads, FS_Interval
<1> QED
    BY <1>1, <1>2, <1>3 DEF TaskThreads

\* What moves nobody into a pause, within it or out of it changes nothing about it.
LEMMA PauseUntouched ==
    ASSUME PauseFits, UNCHANGED pausing,
           \A w \in TaskThreads : \/ at'[w] = at[w]
                                  \/ /\ at[w] \notin {"pausing", "paused", "resumed"}
                                     /\ at'[w] \notin {"pausing", "paused", "resumed"},
           OwnerHasPaused' <=> OwnerHasPaused, OwnerPauses' <=> OwnerPauses,
           (at'[Owner] = "await_pause") <=> (at[Owner] = "await_pause")
    PROVE  PauseFits'
<1>1. InPause' = InPause
    BY DEF InPause, AtOneOf
<1> QED
    BY <1>1 DEF PauseFits, AtOneOf, pausing

\* Only a worker's own steps between its places of the pause, and the owner's
\* calls, touch the pause.
LEMMA PauseKept ==
    ASSUME PInv, Next
    PROVE  PauseFits'
<1>0. /\ at \in [Threads -> Places] /\ back \in [Threads -> Places]
      /\ pauseEnded \in [TaskThreads -> BOOLEAN] /\ paused \in BOOLEAN
      /\ FlowOK /\ PauseFits
    BY DEF PInv, TypeOK
<1> USE <1>0, PoolThreads
<1>1. ASSUME NEW t \in Threads, Help(t) PROVE PauseFits'
    BY <1>1, HelpFrame, PauseUntouched DEF OwnerHasPaused, OwnerPauses
<1>2. ASSUME NEW t \in Threads, Blocking(t) PROVE PauseFits'
    <2>1. at[t] \in LockPlaces /\ at'[t] \in LockPlaces \cup {back[t]} /\ at' = [at EXCEPT ![t] = at'[t]]
          /\ UNCHANGED <<back, pausing>>
        BY <1>2, BlockingFrame
    <2>2. \/ t \in TaskThreads /\ back[t] \in {"grab_locked", "execute_on", "regrab_locked"}
          \/ t = Owner /\ back[t] \in {"execute_on", "running", "destroyed"}
        BY <2>1 DEF FlowOK, LockPlaces
    <2> QED
        BY <2>1, <2>2, PauseUntouched DEF OwnerHasPaused, OwnerPauses, LockPlaces
<1>3. ASSUME NEW w \in TaskThreads, WorkerStep(w) PROVE PauseFits'
    <2>0. /\ w \in Threads /\ w # Owner
          /\ at' = [at EXCEPT ![w] = at'[w]] /\ back' = [back EXCEPT ![w] = back'[w]]
          /\ paused' = paused
        BY <1>3, WorkerFrame
    <2>1. /\ OwnerHasPaused' <=> OwnerHasPaused
          /\ OwnerPauses' <=> OwnerPauses
          /\ at'[Owner] = at[Owner]
        BY <2>0 DEF OwnerHasPaused, OwnerPauses
    <2>2. CASE Top(w)
        <3>1. /\ at[w] = "top" /\ at'[w] \in {"grab", "pausing"} /\ (at'[w] = "pausing" => paused)
              /\ UNCHANGED pausing
            BY <2>2 DEF Top, Moves, Step, Goto, At
        <3>2. InPause' = InPause
            BY <2>0, <3>1 DEF InPause, AtOneOf
        <3> QED
            BY <2>0, <2>1, <3>1, <3>2 DEF PauseFits, AtOneOf, pausing
    <2>3. CASE PauseStep(w)
        <3>0. /\ InPause \ {w} = InPause' \ {w} /\ IsFiniteSet(InPause) /\ InPause' \subseteq TaskThreads
              /\ numPaused = Cardinality(InPause)
            BY <2>0, InPauseIsFinite DEF InPause, AtOneOf, PauseFits
        <3>1. CASE at[w] = "pausing"
            <4>1. at'[w] = "paused" /\ numPaused' = numPaused + 1 /\ pauseEnded' = pauseEnded
                BY <2>3, <3>1 DEF PauseStep, At, Goto
            <4>2. paused /\ w \notin InPause /\ w \in InPause'
                BY <2>0, <3>1, <4>1 DEF InPause, AtOneOf, PauseFits
            <4>3. Cardinality(InPause') = Cardinality(InPause) + 1
                BY <3>0, <4>2, CountChanges
            <4>4. OwnerPauses /\ ~OwnerHasPaused
                BY <4>2 DEF PauseFits, OwnerPauses
            <4> QED
                BY <2>0, <2>1, <3>0, <4>1, <4>2, <4>3, <4>4 DEF PauseFits, AtOneOf
        <3>2. CASE at[w] = "paused"
            <4>1. at'[w] = "resumed" /\ numPaused' = numPaused /\ pauseEnded[w]
                  /\ pauseEnded' = [pauseEnded EXCEPT ![w] = FALSE]
                BY <2>3, <3>2 DEF PauseStep, At, Goto
            <4>2. InPause' = InPause
                BY <2>0, <3>2, <4>1 DEF InPause, AtOneOf
            <4> QED
                BY <2>0, <2>1, <3>2, <4>1, <4>2 DEF PauseFits, AtOneOf
        <3>3. CASE at[w] = "resumed"
            <4>1. at'[w] = "grab" /\ numPaused' = numPaused - 1 /\ pauseEnded' = pauseEnded
                BY <2>3, <3>3 DEF PauseStep, At, Goto
            <4>2. ~paused /\ w \in InPause /\ w \notin InPause'
                BY <2>0, <3>3, <4>1 DEF InPause, AtOneOf, PauseFits
            <4>3. Cardinality(InPause') = Cardinality(InPause) - 1
                BY <3>0, <4>2, CountChanges
            <4>4. OwnerPauses /\ ~OwnerHasPaused
                BY <4>2 DEF PauseFits
            <4> QED
                BY <2>0, <2>1, <3>0, <4>1, <4>2, <4>3, <4>4 DEF PauseFits, AtOneOf
        <3> QED
            BY <2>3, <3>1, <3>2, <3>3 DEF PauseStep, At
    <2>4. CASE UNCHANGED pausing /\ at[w] \notin {"top", "pausing", "paused", "resumed"}
                 /\ at'[w] \notin {"pausing", "paused", "resumed"}
        BY <2>0, <2>1, <2>4, PauseUntouched
    <2>5. CASE ~Top(w) /\ ~PauseStep(w)
        <3> USE DEF At, Step, Moves, Goto, BlockAt
        <3>1. CASE Wake(w) \/ Grab(w) \/ Idle(w) \/ Regrab(w) \/ Reactivate(w)
            BY <2>4, <3>1 DEF Wake, Grab, Idle, Regrab, Reactivate, TakeTask, FindsNoTask
        <3>2. CASE Deactivate(w)
            BY <2>4, <3>2 DEF Deactivate, FlowOK
        <3>3. CASE ExecuteTask(w) \/ OversubscribedCheck(w, "leave_core", "top") \/ LeaveOversubscribed(w)
            BY <2>4, <3>3 DEF ExecuteTask, Execute, OversubscribedCheck, LeaveOversubscribed
        <3> QED
            BY <1>3, <2>5, <3>1, <3>2, <3>3 DEF WorkerStep
    <2> QED
        BY <2>2, <2>3, <2>5
<1>4. ASSUME OwnerStep \/ OwnerCalls PROVE PauseFits'
    <2>0. /\ at' = [at EXCEPT ![Owner] = at'[Owner]] /\ back' = [back EXCEPT ![Owner] = back'[Owner]]
          /\ \A w \in TaskThreads : at'[w] = at[w]
          /\ Owner \in Threads
        BY <1>4, OwnerFrame
    <2>1. InPause' = InPause /\ AtOneOf({"pausing"})' = AtOneOf({"pausing"})
        BY <2>0 DEF InPause, AtOneOf
    <2> USE DEF At, Step, Moves, Goto, BlockAt, OwnerHasPaused, OwnerPauses
    <2>2. CASE AllPaused
        <3>1. Cardinality(InPause) = Cardinality(TaskThreads)
            BY <2>2, InPauseIsFinite DEF AllPaused, PauseFits
        <3>2. InPause = TaskThreads
            BY <3>1, InPauseIsFinite, FS_Subset
        <3> QED
            BY <2>0, <2>1, <2>2, <3>2 DEF AllPaused, PauseFits, pausing
    <2>3. CASE ResumeAll
        <3>1. InPause = TaskThreads
            BY <2>3 DEF ResumeAll, PauseFits
        <3>2. AtOneOf({"pausing"}) = {}
            BY <3>1 DEF InPause, AtOneOf
        <3> QED
            BY <2>0, <2>1, <2>3, <3>1, <3>2 DEF ResumeAll, PauseFits
    <2>4. CASE AllResumed
        <3>1. InPause = {}
            BY <2>4, InPauseIsFinite, FS_EmptySet DEF AllResumed, PauseFits
        <3> QED
            BY <2>0, <2>1, <2>4, <3>1 DEF AllResumed, PauseFits, pausing
    <2>5. CASE PauseAll
        <3>1. InPause = {} /\ Cardinality(InPause) = 0
            BY <2>5, FS_EmptySet DEF PauseAll, PauseFits
        <3>2. \A w \in TaskThreads : at[w] # "resumed"
            BY <3>1 DEF InPause, AtOneOf
        <3> QED
            BY <2>0, <2>1, <2>5, <3>1, <3>2 DEF PauseAll, PauseFits
    <2>6. CASE /\ UNCHANGED pausing
               /\ OwnerHasPaused' <=> OwnerHasPaused
               /\ OwnerPauses' <=> OwnerPauses
               /\ (at'[Owner] = "await_pause") <=> (at[Owner] = "await_pause")
        BY <2>0, <2>6, PauseUntouched
    <2>7. CASE OnNewTask
        BY <2>0, <2>6, <2>7 DEF OnNewTask, FlowOK
    <2>8. CASE Spawn("running") \/ Spawn("all_paused")
        BY <2>0, <2>6, <2>8 DEF Spawn
    <2>9. CASE StartWaiting \/ ExecuteChildren \/ WaitForChildren
        BY <2>0, <2>6, <2>9 DEF StartWaiting, ExecuteChildren, WaitForChildren, TakeTask, FindsNoTask,
                                Execute, OversubscribedCheck
    <2>10. CASE AwaitExit \/ Destroy
        BY <2>0, <2>6, <2>10 DEF AwaitExit, Destroy
    <2> QED
        BY <1>4, <2>2, <2>3, <2>4, <2>5, <2>7, <2>8, <2>9, <2>10 DEF OwnerStep, OwnerCalls
<1> QED
    BY <1>1, <1>2, <1>3, <1>4 DEF Next
-----------------------------------------------------------------------------
(* The tasks.                                                              *)

\* Finitely many threads hold a task.
LEMMA TaskHoldersAreFinite == IsFiniteSet(TaskHolders) /\ TaskHolders \subseteq Threads
BY PoolThreads, FS_Subset DEF TaskHolders

\* Where no task is spawned, grabbed or finished, nobody's hands change.
LEMMA TasksUntouched ==
    ASSUME TasksConserved, UNCHANGED <<tasks, setting>>,
           \A t \in Threads : HasTask(t)' <=> HasTask(t)
    PROVE  TasksConserved'
<1>1. TaskHolders' = TaskHolders
    BY DEF TaskHolders
<1> QED
    BY <1>1 DEF TasksConserved, MaxTasks, tasks

\* A thread takes a task that waits ...
LEMMA TaskTaken ==
    ASSUME TasksConserved, NEW t \in Threads, pending > 0, pending' = pending - 1,
           UNCHANGED <<spawned, finished, setting>>, ~HasTask(t), HasTask(t)',
           \A u \in Threads : u # t => (HasTask(u)' <=> HasTask(u))
    PROVE  TasksConserved'
<1>1. TaskHolders \ {t} = TaskHolders' \ {t} /\ t \notin TaskHolders /\ t \in TaskHolders'
    BY DEF TaskHolders
<1>2. Cardinality(TaskHolders') = Cardinality(TaskHolders) + 1 /\ Cardinality(TaskHolders) \in Nat
    BY <1>1, TaskHoldersAreFinite, CountChanges
<1> QED
    BY <1>2 DEF TasksConserved, MaxTasks

\* ... and finishes the one it has.
LEMMA TaskFinished ==
    ASSUME TasksConserved, NEW t \in Threads, finished' = finished + 1,
           UNCHANGED <<spawned, pending, setting>>, HasTask(t), ~HasTask(t)',
           \A u \in Threads : u # t => (HasTask(u)' <=> HasTask(u))
    PROVE  TasksConserved'
<1>1. TaskHolders \ {t} = TaskHolders' \ {t} /\ t \in TaskHolders /\ t \notin TaskHolders'
    BY DEF TaskHolders
<1>2. Cardinality(TaskHolders') = Cardinality(TaskHolders) - 1 /\ Cardinality(TaskHolders) \in Nat
    BY <1>1, TaskHoldersAreFinite, CountChanges
<1> QED
    BY <1>2 DEF TasksConserved, MaxTasks

\* No step loses a task or has it executed twice.
LEMMA TasksKept ==
    ASSUME PInv, Next
    PROVE  TasksConserved'
<1>0. /\ at \in [Threads -> Places] /\ back \in [Threads -> Places]
      /\ FlowOK /\ TasksConserved
    BY DEF PInv, TypeOK
<1> USE <1>0, PoolThreads DEF tasks
<1>1. ASSUME NEW t \in Threads, Help(t) PROVE TasksConserved'
    BY <1>1, HelpFrame, TasksUntouched DEF HasTask
<1>2. ASSUME NEW t \in Threads, Blocking(t) PROVE TasksConserved'
    <2>1. /\ at[t] \in LockPlaces /\ at'[t] \in LockPlaces \cup {back[t]} /\ at' = [at EXCEPT ![t] = at'[t]]
          /\ UNCHANGED <<back, tasks, setting>>
        BY <1>2, BlockingFrame
    <2>2. back[t] \in {"grab_locked", "execute_on", "regrab_locked", "running", "destroyed"}
        BY <2>1 DEF FlowOK, LockPlaces
    <2>3. \A u \in Threads : HasTask(u)' <=> HasTask(u)
        BY <2>1, <2>2 DEF HasTask, LockPlaces
    <2> QED
        BY <2>1, <2>3, TasksUntouched
<1> USE DEF At, Goto, Step, Moves, BlockAt, HasTask, LockPlaces
<1>3. ASSUME NEW t \in Threads, NEW from \in {"grab", "grab_locked", "regrab", "regrab_locked", "children"},
             NEW to \in {"execute", "reactivate"}, TakeTask(t, from, to)
      PROVE  TasksConserved'
    BY <1>3, TaskTaken DEF TakeTask
<1>4. ASSUME NEW t \in Threads, NEW from \in {"execute", "execute_on"}, NEW to \in {"top", "oversubscribed"},
             Execute(t, from, to)
      PROVE  TasksConserved'
    <2>1. CASE finished' = finished + 1
        BY <1>4, <2>1, TaskFinished DEF Execute
    <2>2. CASE BlockAt(t, from, "execute_on")
        BY <1>4, <2>2, TasksUntouched
    <2> QED
        BY <1>4, <2>1, <2>2 DEF Execute
<1>5. ASSUME NEW w \in TaskThreads, WorkerStep(w) PROVE TasksConserved'
    <2>1. CASE Wake(w) \/ Top(w) \/ PauseStep(w)
        BY <2>1, TasksUntouched DEF Wake, Top, PauseStep
    <2>2. CASE Grab(w)
        <3>1. CASE \E from \in {"grab", "grab_locked"} : TakeTask(w, from, "execute")
            BY <1>3, <3>1
        <3>2. CASE \E from \in {"grab", "grab_locked"} : FindsNoTask(w, from, "idle")
            BY <3>2, TasksUntouched DEF FindsNoTask
        <3>3. CASE BlockAt(w, "grab", "grab_locked")
            BY <3>3, TasksUntouched
        <3> QED
            BY <2>2, <3>1, <3>2, <3>3 DEF Grab
    <2>3. CASE Regrab(w)
        <3>1. CASE \E from \in {"regrab", "regrab_locked"} : TakeTask(w, from, "reactivate")
            BY <1>3, <3>1
        <3>2. CASE \E from \in {"regrab", "regrab_locked"} : FindsNoTask(w, from, "asleep")
            BY <3>2, TasksUntouched DEF FindsNoTask
        <3>3. CASE BlockAt(w, "regrab", "regrab_locked")
            BY <3>3, TasksUntouched
        <3> QED
            BY <2>3, <3>1, <3>2, <3>3 DEF Regrab
    <2>4. CASE Idle(w) \/ Reactivate(w)
        BY <2>4, TasksUntouched DEF Idle, Reactivate
    <2>5. CASE Deactivate(w)
        BY <2>5, TasksUntouched DEF Deactivate, FlowOK
    <2>6. CASE ExecuteTask(w)
        BY <1>4, <2>6 DEF ExecuteTask
    <2>7. CASE OversubscribedCheck(w, "leave_core", "top") \/ LeaveOversubscribed(w)
        BY <2>7, TasksUntouched DEF OversubscribedCheck, LeaveOversubscribed
    <2> QED
        BY <1>5, <2>1, <2>2, <2>3, <2>4, <2>5, <2>6, <2>7 DEF WorkerStep
<1>6. ASSUME OwnerStep \/ OwnerCalls PROVE TasksConserved'
    <2>1. CASE OnNewTask
        BY <2>1, TasksUntouched DEF OnNewTask, FlowOK
    <2>2. CASE ExecuteChildren
        <3>1. CASE TakeTask(Owner, "children", "execute")
            BY <1>3, <3>1
        <3>2. CASE FindsNoTask(Owner, "children", "wait") \/ OversubscribedCheck(Owner, "wait", "children")
            BY <3>2, TasksUntouched DEF FindsNoTask, OversubscribedCheck
        <3>3. CASE \E from \in {"execute", "execute_on"} : Execute(Owner, from, "oversubscribed")
            BY <1>4, <3>3
        <3> QED
            BY <2>2, <3>1, <3>2, <3>3 DEF ExecuteChildren
    <2>3. CASE StartWaiting \/ WaitForChildren \/ AllPaused \/ ResumeAll \/ AllResumed \/ AwaitExit
        BY <2>3, TasksUntouched DEF StartWaiting, WaitForChildren, AllPaused, ResumeAll, AllResumed, AwaitExit
    <2>4. CASE Spawn("running") \/ Spawn("all_paused")
        <3>1. TaskHolders' = TaskHolders /\ setting' = setting
            BY <2>4 DEF Spawn, TaskHolders
        <3>2. setting \in Settings /\ MaxTasks \in Nat
            BY PoolAssumption DEF PInv, TypeOK, MaxTasks
        <3>3. Cardinality(TaskHolders) \in Nat
            BY TaskHoldersAreFinite, FS_CardinalityType
        <3> QED
            BY <2>4, <3>1, <3>2, <3>3 DEF Spawn, TasksConserved, MaxTasks
    <2>5. CASE PauseAll \/ Destroy
        BY <2>5, TasksUntouched DEF PauseAll, Destroy
    <2> QED
        BY <1>6, <2>1, <2>2, <2>3, <2>4, <2>5 DEF OwnerStep, OwnerCalls
<1> QED
    BY <1>1, <1>2, <1>5, <1>6 DEF Next
-----------------------------------------------------------------------------
(* Types.                                                                  *)

\* A finite set of integers that is not empty has a least element: the one with
\* the fewest elements below it.
LEMMA LeastOf ==
    ASSUME NEW S \in SUBSET Int, IsFiniteSet(S), S # {}
    PROVE  Min(S) \in S /\ \A y \in S : Min(S) <= y
<1> DEFINE Below(x) == {y \in S : y < x}
           Belows   == {Below(x) : x \in S}
<1>1. IsWellFoundedOn(StrictSubsetOrdering(S), SUBSET S)
    BY FS_StrictSubsetOrderingWellFounded, FS_FiniteSubsetsOfFinite
<1>2. Belows \subseteq SUBSET S /\ Belows # {}
    OBVIOUS
<1> HIDE DEF Belows
<1>3. PICK B \in Belows : \A C \in Belows : <<C, B>> \notin StrictSubsetOrdering(S)
    BY <1>1, <1>2, WFMin
<1>4. PICK x \in S : B = Below(x)
    BY DEF Belows
<1>5. ASSUME NEW y \in S, y < x PROVE FALSE
    <2>1. Below(y) \subseteq Below(x) /\ y \in Below(x) /\ y \notin Below(y)
        <3>1. x \in Int /\ y \in Int /\ \A z \in S : z \in Int
            OBVIOUS
        <3>2. \A z \in S : z < y => z < x
            BY <1>5, <3>1
        <3>3. Below(y) \subseteq Below(x)
            BY <3>2
        <3>4. y \in Below(x) /\ ~(y < y)
            BY <1>5, <3>1
        <3> QED
            BY <3>3, <3>4
    <2>2. Below(y) \in Belows /\ Below(y) \in SUBSET S /\ Below(x) \in SUBSET S
        BY DEF Belows
    <2> HIDE DEF Below
    <2>3. <<Below(y), Below(x)>> \in StrictSubsetOrdering(S)
        BY <2>1, <2>2 DEF StrictSubsetOrdering
    <2> QED
        BY <1>3, <1>4, <2>2, <2>3
<1>6. \A y \in S : x <= y
    BY <1>5
<1> QED
    BY <1>6 DEF Min

\* on_new_task chooses a core that exists.
LEMMA ChosenCoreExists ==
    ASSUME coreCount \in [Cores -> Int], NumCores \in Nat \ {0}
    PROVE  ChosenCore \in Cores
<1>1. IsFiniteSet(Cores) /\ Cores \subseteq Int /\ Cores # {} /\ Cores = 0..(NumCores - 1)
    <2>1. NumCores - 1 \in Int /\ 0 <= NumCores - 1 /\ NumCores - 1 < NumCores
        OBVIOUS
    <2>2. IsFiniteSet(0..(NumCores - 1))
        BY <2>1, FS_Interval
    <2> QED
        BY <2>1, <2>2 DEF Cores
<1>2. Scanned \subseteq Cores /\ Scanned # {}
    <2>1. CASE EmptyCores = {}
        BY <1>1, <2>1 DEF Scanned
    <2>2. CASE EmptyCores # {}
        <3>1. EmptyCores \subseteq Cores /\ IsFiniteSet(EmptyCores)
            BY <1>1, FS_Subset DEF EmptyCores
        <3>2. Min(EmptyCores) \in EmptyCores
            BY <1>1, <2>2, <3>1, LeastOf
        <3>3. Scanned = 0..Min(EmptyCores) /\ Min(EmptyCores) \in 0..(NumCores - 1)
            BY <1>1, <2>2, <3>1, <3>2 DEF Scanned
        <3>4. 0..Min(EmptyCores) \subseteq 0..(NumCores - 1) /\ 0 \in 0..Min(EmptyCores)
            BY <3>3
        <3> QED
            BY <1>1, <3>3, <3>4
    <2> QED
        BY <2>1, <2>2
<1> DEFINE Values == {coreCount[c] : c \in Cores}
           Counts == {coreCount[c] : c \in Scanned}
           least  == Min(Counts)
           Least  == {c \in Scanned : coreCount[c] = least}
<1>3. IsFiniteSet(Counts) /\ Counts \in SUBSET Int /\ Counts # {}
    <2>1. coreCount \in Surjection(Cores, Values)
        BY DEF Surjection
    <2>2. IsFiniteSet(Values)
        BY <1>1, <2>1, FS_Surjection
    <2>3. Counts \subseteq Values /\ Values \subseteq Int
        BY <1>2
    <2> QED
        BY <1>2, <2>2, <2>3, FS_Subset
<1>4. least \in Counts
    BY <1>3, LeastOf
<1>5. Least \subseteq Cores /\ Least # {}
    BY <1>2, <1>4
<1>6. IsFiniteSet(Least)
    BY <1>1, <1>5, FS_Subset
<1>7. Min(Least) \in Least
    BY <1>1, <1>5, <1>6, LeastOf
<1> QED
    BY <1>5, <1>7 DEF ChosenCore

\* The setting does not change, and it has a core for every thread.
LEMMA SettingsKept ==
    ASSUME PInv, Next
    PROVE  setting' = setting /\ Cores' = Cores /\ MaxTasks' = MaxTasks
<1>1. setting' = setting
    BY PoolThreads, HelpFrame, BlockingFrame, WorkerFrame, OwnerFrame DEF Next
<1> QED
    BY <1>1 DEF Cores, NumCores, MaxTasks

\* Every thread is bound to a core that exists.
LEMMA CoresExist ==
    ASSUME PInv
    PROVE  /\ NumCores \in Nat \ {0} /\ Cores = 0..(NumCores - 1)
           /\ \A t \in Threads : CoreOf(t) \in Cores
<1>1. setting \in Settings /\ affinity \in [TaskThreads -> Cores]
    BY DEF PInv, TypeOK
<1>2. NumCores \in Nat /\ \A u \in Users : UserCore[u] \in Nat /\ UserCore[u] < NumCores
    BY <1>1, PoolAssumption DEF NumCores
<1>3. NumCores # 0
    BY <1>2, PoolAssumption
<1> QED
    BY <1>1, <1>2, <1>3, PoolThreads DEF CoreOf, Cores

\* The places of the threads.
LEMMA FlowTypes ==
    ASSUME PInv, Next, FlowOK'
    PROVE  at' \in [Threads -> Places] /\ back' \in [Threads -> Places]
<1>0. at \in [Threads -> Places] /\ back \in [Threads -> Places]
    BY DEF PInv, TypeOK
<1>1. at' \in [Threads -> Places]
    <2>1. \E t \in Threads : at' = [at EXCEPT ![t] = at'[t]]
        BY <1>0, PoolThreads, HelpFrame, BlockingFrame, WorkerFrame, OwnerFrame DEF Next
    <2>2. \A t \in Threads : at'[t] \in Places
        BY PoolThreads DEF FlowOK, Places, OwnerPlaces
    <2> QED
        BY <1>0, <2>1, <2>2
<1>2. \A p \in {"grab_locked", "regrab_locked", "execute_on", "exited", "regrab", "running",
                "all_paused", "destroyed"} : p \in Places
    BY DEF Places, AwakePlaces, LockPlaces, RestPlaces, OwnerPlaces
<1>3. ASSUME NEW t \in Threads, NEW p \in Places, back' = [back EXCEPT ![t] = p]
      PROVE  back' \in [Threads -> Places]
    BY <1>0, <1>3
<1>4. ASSUME NEW t \in Threads, Help(t) \/ Blocking(t) PROVE back' = back
    BY <1>4, HelpFrame, BlockingFrame
<1> USE PoolThreads DEF Step, Moves
<1>5. ASSUME NEW w \in TaskThreads, WorkerStep(w) PROVE back' \in [Threads -> Places]
    <2>1. CASE back' = back
        BY <1>0, <2>1
    <2>2. CASE \/ BlockAt(w, "grab", "grab_locked") \/ BlockAt(w, "regrab", "regrab_locked")
               \/ BlockAt(w, "execute", "execute_on")
        BY <1>2, <1>3, <2>2 DEF BlockAt
    <2>3. CASE Idle(w)
        BY <1>2, <1>3, <2>3 DEF Idle
    <2> QED
        BY <1>5, <2>1, <2>2, <2>3 DEF WorkerStep, Wake, Top, PauseStep, Grab, Regrab, TakeTask,
                FindsNoTask, Deactivate, Reactivate, ExecuteTask, Execute, OversubscribedCheck,
                LeaveOversubscribed
<1>6. ASSUME OwnerStep \/ OwnerCalls PROVE back' \in [Threads -> Places]
    <2>1. CASE back' = back
        BY <1>0, <2>1
    <2>2. CASE \/ BlockAt(Owner, "execute", "execute_on") \/ BlockAt(Owner, "wait", "running")
               \/ BlockAt(Owner, "await_exit", "destroyed")
        BY <1>2, <1>3, <2>2 DEF BlockAt
    <2>3. CASE Spawn("running") \/ Spawn("all_paused")
        BY <1>2, <1>3, <2>3 DEF Spawn
    <2> QED
        BY <1>6, <2>1, <2>2, <2>3 DEF OwnerStep, OwnerCalls, StartWaiting, ExecuteChildren, WaitForChildren,
                OnNewTask, AllPaused, ResumeAll, AllResumed, AwaitExit, PauseAll, Destroy, TakeTask,
                FindsNoTask, Execute, OversubscribedCheck
<1> QED
    BY <1>0, <1>1, <1>4, <1>5, <1>6 DEF Next

\* Nobody but the thread that leaves its core notes what it left behind.
LEMMA LastOnCoreTypes ==
    ASSUME PInv, Next
    PROVE  lastOnCore' \in [Threads -> BOOLEAN]
<1>0. lastOnCore \in [Threads -> BOOLEAN]
    BY DEF PInv, TypeOK
<1> USE PoolThreads DEF Step, Moves, BlockAt
<1>1. ASSUME NEW t \in Threads, LocksLeaveCore(t) PROVE lastOnCore' \in [Threads -> BOOLEAN]
    <2> DEFINE left == coreCount'[CoreOf(t)] = 0
    <2>1. lastOnCore' = [lastOnCore EXCEPT ![t] = left]
        BY <1>1 DEF LocksLeaveCore
    <2>2. left \in BOOLEAN
        OBVIOUS
    <2> HIDE DEF left
    <2> QED
        BY <1>0, <2>1, <2>2
<1>2. ASSUME NEW t \in Threads, Help(t) PROVE lastOnCore' = lastOnCore
    BY <1>2, HelpFrame
<1>3. ASSUME NEW t \in Threads, Blocking(t), ~LocksLeaveCore(t) PROVE lastOnCore' = lastOnCore
    BY <1>3 DEF Blocking, LocksState, LocksCount, LocksHelp, UnlocksCore, UnlocksState, UnlocksCount
<1>4. ASSUME NEW w \in TaskThreads, WorkerStep(w) PROVE lastOnCore' = lastOnCore
    BY <1>4 DEF WorkerStep, Wake, Top, PauseStep, Grab, Regrab, TakeTask, FindsNoTask, Idle, Deactivate,
            Reactivate, ExecuteTask, Execute, OversubscribedCheck, LeaveOversubscribed
<1>5. ASSUME OwnerStep \/ OwnerCalls PROVE lastOnCore' = lastOnCore
    BY <1>5 DEF OwnerStep, OwnerCalls, OnNewTask, StartWaiting, ExecuteChildren, WaitForChildren,
            AllPaused, ResumeAll, AllResumed, AwaitExit, Spawn, PauseAll, Destroy, TakeTask,
            FindsNoTask, Execute, OversubscribedCheck
<1> QED
    BY <1>0, <1>1, <1>2, <1>3, <1>4, <1>5 DEF Next

\* What a thread's activation is, a record of TypeOK.
Helping == [stage : {"none", "probe", "count", "place", "signal"}, target : 0..NumWorkers,
            last : 0..NumWorkers, core : Cores, all : BOOLEAN]

\* No activation, and one that begins, are such records.
LEMMA HelpingTypes ==
    ASSUME 0 \in Cores
    PROVE  /\ NotHelping \in Helping
           /\ \A from, to \in 0..NumWorkers, core \in Cores, all \in BOOLEAN :
                 Activate(from, to, core, all) \in Helping
<1>1. NotHelping \in Helping
    BY PoolThreads DEF NotHelping, Helping
<1>2. ASSUME NEW from \in 0..NumWorkers, NEW to \in 0..NumWorkers, NEW core \in Cores, NEW all \in BOOLEAN
      PROVE  Activate(from, to, core, all) \in Helping
    BY <1>2 DEF Activate, Helping
<1> QED
    BY <1>1, <1>2

\* The core a worker is activated for exists.
LEMMA CoreForExists ==
    ASSUME PInv, NEW t \in Threads, help[t].target \in TaskThreads
    PROVE  CoreFor(help[t]) \in Cores
<1>1. help[t].core \in Cores /\ hardware[help[t].target] \in Cores
    BY DEF PInv, TypeOK
<1>2. (help[t].target - 1) % NumCores \in Cores
    <2>1. help[t].target - 1 \in Int /\ NumCores \in Nat \ {0}
        BY CoresExist, PoolThreads
    <2> QED
        BY <2>1, CoresExist
<1> QED
    BY <1>1, <1>2, Zenon DEF CoreFor

\* ... and so is one that goes on, in every step of its thread.
LEMMA HelpTypes ==
    ASSUME PInv, Next
    PROVE  help' \in [Threads -> Helping]
<1>0. help \in [Threads -> Helping] /\ 0 \in Cores
    BY CoresExist DEF PInv, TypeOK, Helping
<1>1. ASSUME NEW t \in Threads, NEW h \in Helping, help' = [help EXCEPT ![t] = h]
      PROVE  help' \in [Threads -> Helping]
    BY <1>0, <1>1
<1>2. 1 \in 0..NumWorkers /\ NumWorkers \in 0..NumWorkers /\ \A w \in TaskThreads : w \in 0..NumWorkers
    BY PoolThreads
<1>3. \A c \in Cores, b \in BOOLEAN : /\ Activate(1, NumWorkers, c, b) \in Helping
                                      /\ \A w \in TaskThreads : Activate(w, w, c, b) \in Helping
    BY <1>0, <1>2, HelpingTypes, Zenon
<1>4. FALSE \in BOOLEAN /\ TRUE \in BOOLEAN /\ NotHelping \in Helping
    BY <1>0, HelpingTypes
<1>5. ASSUME NEW t \in Threads, Help(t) PROVE help' \in [Threads -> Helping]
    <2> DEFINE h == help[t]
    <2>1. h \in Helping /\ h.target \in 1..h.last /\ h.last \in TaskThreads /\ CoreFor(h) \in Cores
        BY <1>0, <1>5, HelpFrame, CoreForExists DEF Help, PInv, HelpFits, HelpIsSound
    <2>2. /\ NextTarget(h) \in Helping
          /\ [h EXCEPT !.stage = "count", !.core = CoreFor(h)] \in Helping
          /\ [h EXCEPT !.stage = "place"] \in Helping
          /\ [h EXCEPT !.stage = "signal"] \in Helping
        <3>1. NextTarget(h) \in Helping
            <4>1. h.target = h.last \/ h.target + 1 \in 0..NumWorkers
                BY <2>1, PoolThreads
            <4>2. h.target + 1 \in 0..NumWorkers
                        => [h EXCEPT !.stage = "probe", !.target = @ + 1] \in Helping
                BY <2>1 DEF Helping
            <4> QED
                BY <1>4, <4>1, <4>2 DEF NextTarget
        <3>2. [h EXCEPT !.stage = "count", !.core = CoreFor(h)] \in Helping
            BY <2>1 DEF Helping
        <3>3. [h EXCEPT !.stage = "place"] \in Helping /\ [h EXCEPT !.stage = "signal"] \in Helping
            BY <2>1 DEF Helping
        <3> QED
            BY <3>1, <3>2, <3>3
    <2>3. CASE Probe(t)
        BY <1>1, <2>2, <2>3 DEF Probe, HelpStep
    <2>4. CASE CountActivated(t) \/ PlaceActivated(t)
        BY <1>1, <2>2, <2>4 DEF CountActivated, PlaceActivated, HelpStep
    <2>5. CASE SignalActivated(t)
        <3>1. (IF h.all THEN NextTarget(h) ELSE NotHelping) \in Helping
            BY <1>4, <2>2
        <3> QED
            BY <1>1, <2>5, <3>1 DEF SignalActivated, HelpStep
    <2> QED
        BY <1>5, <2>3, <2>4, <2>5 DEF Help
<1>6. ASSUME NEW t \in Threads, Blocking(t) PROVE help' \in [Threads -> Helping]
    <2>1. CASE LocksHelp(t)
        <3> PICK found \in BOOLEAN :
                  help' = [help EXCEPT ![t] =
                              IF lastOnCore[t] /\ found
                              THEN Activate(1, NumWorkers, CoreOf(t), FALSE) ELSE NotHelping]
            BY <2>1, Zenon DEF LocksHelp
        <3>1. CoreOf(t) \in Cores
            BY CoresExist
        <3>2. (IF lastOnCore[t] /\ found THEN Activate(1, NumWorkers, CoreOf(t), FALSE) ELSE NotHelping)
                  \in Helping
            BY <1>3, <1>4, <3>1, Zenon
        <3> QED
            BY <1>1, <3>2, Zenon
    <2>2. CASE help' = help
        BY <1>0, <2>2
    <2> QED
        BY <1>6, <2>1, <2>2 DEF Blocking, LocksLeaveCore, LocksState, LocksCount, UnlocksCore,
                                UnlocksState, UnlocksCount, Step
<1>7. ASSUME NEW w \in TaskThreads, WorkerStep(w) PROVE help' \in [Threads -> Helping]
    <2>1. CASE Reactivate(w)
        <3>1. hardware[w] \in Cores /\ w \in Threads
            BY PoolThreads DEF PInv, TypeOK
        <3> QED
            BY <1>1, <1>3, <1>4, <2>1, <3>1, Zenon DEF Reactivate
    <2>2. CASE help' = help
        BY <1>0, <2>2
    <2> QED
        BY <1>7, <2>1, <2>2 DEF WorkerStep, Wake, Top, PauseStep, Grab, Regrab, TakeTask, FindsNoTask,
                Idle, Deactivate, ExecuteTask, Execute, OversubscribedCheck, LeaveOversubscribed,
                Step, Moves, BlockAt
<1>8. ASSUME OwnerStep \/ OwnerCalls PROVE help' \in [Threads -> Helping]
    <2>0. Owner \in Threads /\ ChosenCore \in Cores
        BY PoolThreads, CoresExist, ChosenCoreExists DEF PInv, TypeOK
    <2>1. CASE OnNewTask
        <3>1. Activate(1, NumWorkers, ChosenCore, FALSE) \in Helping
            BY <1>3, <1>4, <2>0, Zenon
        <3> QED
            BY <1>1, <1>4, <2>0, <2>1, <3>1, Zenon DEF OnNewTask
    <2>2. CASE PauseAll \/ Destroy
        <3>1. Activate(1, NumWorkers, 0, TRUE) \in Helping
            BY <1>0, <1>3, <1>4, Zenon
        <3> QED
            BY <1>1, <2>0, <2>2, <3>1, Zenon DEF PauseAll, Destroy
    <2>3. CASE help' = help
        BY <1>0, <2>3
    <2> QED
        BY <1>8, <2>1, <2>2, <2>3 DEF OwnerStep, OwnerCalls, StartWaiting, ExecuteChildren,
                WaitForChildren, AllPaused, ResumeAll, AllResumed, AwaitExit, Spawn, TakeTask,
                FindsNoTask, Execute, OversubscribedCheck, Step, Moves, BlockAt
<1> QED
    BY <1>5, <1>6, <1>7, <1>8 DEF Next

\* The workers and the counts.
LEMMA WorkerTypes ==
    ASSUME PInv, Next
    PROVE  /\ state' \in [TaskThreads -> {"inactive", "active", "locked"}]
           /\ hardware' \in [TaskThreads -> Cores] /\ affinity' \in [TaskThreads -> Cores]
           /\ shouldWork' \in [TaskThreads -> BOOLEAN]
<1>0. /\ state \in [TaskThreads -> {"inactive", "active", "locked"}]
      /\ hardware \in [TaskThreads -> Cores] /\ affinity \in [TaskThreads -> Cores]
      /\ shouldWork \in [TaskThreads -> BOOLEAN]
      /\ help \in [Threads -> Helping]
    BY DEF PInv, TypeOK, Helping
<1> DEFINE Typed == /\ state' \in [TaskThreads -> {"inactive", "active", "locked"}]
                    /\ hardware' \in [TaskThreads -> Cores] /\ affinity' \in [TaskThreads -> Cores]
                    /\ shouldWork' \in [TaskThreads -> BOOLEAN]
<1>1. ASSUME NEW t \in Threads, Help(t) PROVE Typed
    <2>1. help[t].core \in Cores /\ help[t].target \in TaskThreads
        BY <1>0, <1>1, HelpFrame DEF Helping
    <2>2. affinity' = affinity /\ (state' = state \/ state' = [state EXCEPT ![help[t].target] = "active"])
        BY <1>1, HelpFrame
    <2>3. CASE Probe(t) \/ CountActivated(t)
        BY <1>0, <2>1, <2>2, <2>3 DEF Probe, CountActivated, worker, bound
    <2>4. CASE PlaceActivated(t)
        BY <1>0, <2>1, <2>2, <2>4 DEF PlaceActivated
    <2>5. CASE SignalActivated(t)
        BY <1>0, <2>1, <2>2, <2>5 DEF SignalActivated
    <2> QED
        BY <1>1, <2>3, <2>4, <2>5 DEF Help
<1>2. ASSUME NEW t \in Threads, Blocking(t) PROVE Typed
    BY <1>0, <1>2, BlockingFrame
<1>3. ASSUME NEW w \in TaskThreads, WorkerStep(w) PROVE Typed
    <2>1. affinity' = affinity \/ affinity' = [affinity EXCEPT ![w] = hardware[w]]
        BY <1>3 DEF WorkerStep, Wake, Top, PauseStep, Grab, Regrab, TakeTask, FindsNoTask, Idle,
                Deactivate, Reactivate, ExecuteTask, Execute, OversubscribedCheck, LeaveOversubscribed,
                Step, Moves, BlockAt, worker, bound
    <2> QED
        BY <1>0, <1>3, <2>1, WorkerFrame
<1>4. ASSUME OwnerStep \/ OwnerCalls PROVE Typed
    BY <1>0, <1>4, OwnerFrame
<1> QED
    BY <1>1, <1>2, <1>3, <1>4 DEF Next

\* A count changes by one, on a core that exists.
LEMMA CountTypes ==
    ASSUME PInv, Next
    PROVE  coreCount' \in [Cores -> Int] /\ active' \in Int
<1>0. /\ coreCount \in [Cores -> Int] /\ active \in Int
      /\ hardware \in [TaskThreads -> Cores]
      /\ \A t \in Threads : CoreOf(t) \in Cores /\ help[t].core \in Cores
    BY CoresExist DEF PInv, TypeOK
<1> DEFINE Typed == coreCount' \in [Cores -> Int] /\ active' \in Int
<1> USE <1>0 DEF CoreUp, CoreDown, counts, Step, Moves, BlockAt
<1>1. ASSUME NEW t \in Threads, Help(t) PROVE Typed
    <2>1. CASE Probe(t)
        BY <2>1 DEF Probe
    <2>2. CASE CountActivated(t)
        BY <2>2 DEF CountActivated
    <2>3. CASE PlaceActivated(t)
        BY <1>1, <2>3 DEF PlaceActivated
    <2>4. CASE SignalActivated(t)
        BY <2>4 DEF SignalActivated
    <2> QED
        BY <1>1, <2>1, <2>2, <2>3, <2>4 DEF Help
<1>2. ASSUME NEW t \in Threads, Blocking(t) PROVE Typed
    <2>1. CASE LocksLeaveCore(t)
        BY <2>1 DEF LocksLeaveCore
    <2>2. CASE UnlocksCore(t)
        BY <2>2 DEF UnlocksCore
    <2>3. CASE LocksCount(t) \/ UnlocksCount(t)
        BY <2>3 DEF LocksCount, UnlocksCount
    <2>4. CASE UNCHANGED counts
        BY <2>4
    <2> QED
        BY <1>2, <2>1, <2>2, <2>3, <2>4 DEF Blocking, LocksState, LocksHelp, UnlocksState
<1>3. ASSUME NEW w \in TaskThreads, WorkerStep(w) PROVE Typed
    <2>1. CASE Deactivate(w)
        BY <2>1 DEF Deactivate
    <2>2. CASE LeaveOversubscribed(w)
        BY <2>2 DEF LeaveOversubscribed
    <2>3. CASE UNCHANGED counts
        BY <2>3
    <2> QED
        BY <1>3, <2>1, <2>2, <2>3 DEF WorkerStep, Wake, Top, PauseStep, Grab, Regrab, TakeTask,
                FindsNoTask, Idle, Reactivate, ExecuteTask, Execute, OversubscribedCheck
<1>4. ASSUME OwnerStep \/ OwnerCalls PROVE Typed
    BY <1>4, OwnerFrame
<1> QED
    BY <1>1, <1>2, <1>3, <1>4 DEF Next

\* The pause and the destruction.
LEMMA ControlTypes ==
    ASSUME PInv, Next
    PROVE  pauseEnded' \in [TaskThreads -> BOOLEAN] /\ destroying' \in BOOLEAN /\ paused' \in BOOLEAN
<1>0. pauseEnded \in [TaskThreads -> BOOLEAN] /\ destroying \in BOOLEAN /\ paused \in BOOLEAN
    BY DEF PInv, TypeOK
<1> DEFINE Typed == pauseEnded' \in [TaskThreads -> BOOLEAN] /\ destroying' \in BOOLEAN /\ paused' \in BOOLEAN
<1> USE <1>0 DEF pausing, Step, Moves, BlockAt
<1>1. ASSUME NEW t \in Threads, Help(t) PROVE Typed
    BY <1>1, HelpFrame
<1>2. ASSUME NEW t \in Threads, Blocking(t) PROVE Typed
    BY <1>2, BlockingFrame
<1>3. ASSUME NEW w \in TaskThreads, WorkerStep(w) PROVE Typed
    <2>1. pauseEnded' = pauseEnded \/ pauseEnded' = [pauseEnded EXCEPT ![w] = FALSE]
        BY <1>3 DEF WorkerStep, Wake, Top, PauseStep, Grab, Regrab, TakeTask, FindsNoTask, Idle,
                Deactivate, Reactivate, ExecuteTask, Execute, OversubscribedCheck, LeaveOversubscribed
    <2> QED
        BY <1>3, <2>1, WorkerFrame
<1>4. ASSUME OwnerStep \/ OwnerCalls PROVE Typed
    <2>1. CASE UNCHANGED <<destroying, pausing>>
        BY <2>1
    <2>2. CASE ResumeAll
        BY <2>2 DEF ResumeAll
    <2>3. CASE PauseAll \/ Destroy
        BY <2>3 DEF PauseAll, Destroy
    <2> QED
        BY <1>4, <2>1, <2>2, <2>3 DEF OwnerStep, OwnerCalls, OnNewTask, StartWaiting, ExecuteChildren,
                WaitForChildren, AllPaused, AllResumed, AwaitExit, Spawn, TakeTask, FindsNoTask, Execute,
                OversubscribedCheck
<1> QED
    BY <1>1, <1>2, <1>3, <1>4 DEF Next

\* The types are kept: the bounds of the counts of tasks follow from their
\* conservation, the bound of the count of paused threads from the pause's.
LEMMA TypesKept ==
    ASSUME PInv, Next, FlowOK', PauseFits', TasksConserved'
    PROVE  TypeOK'
<1>1. pending' \in 0..MaxTasks' /\ spawned' \in 0..MaxTasks' /\ finished' \in 0..MaxTasks'
    <2>1. setting \in Settings /\ MaxTasks' = MaxTasks
        BY SettingsKept DEF PInv, TypeOK
    <2>2. MaxTasks \in Nat
        BY <2>1, PoolAssumption DEF MaxTasks
    <2>3. IsFiniteSet(TaskHolders')
        BY PoolThreads, FS_Subset DEF TaskHolders
    <2>4. Cardinality(TaskHolders') \in Nat
        BY <2>3, FS_CardinalityType
    <2> QED
        BY <2>1, <2>2, <2>4 DEF TasksConserved
<1>2. numPaused' \in 0..NumWorkers
    <2>1. InPause' \subseteq TaskThreads /\ IsFiniteSet(TaskThreads) /\ Cardinality(TaskThreads) = NumWorkers
        BY PoolThreads, InPauseIsFinite DEF InPause, AtOneOf
    <2>2. Cardinality(InPause') \in Nat /\ Cardinality(InPause') <= Cardinality(TaskThreads)
        BY <2>1, FS_Subset, FS_CardinalityType
    <2> QED
        BY <2>1, <2>2 DEF PauseFits
<1>3. setting' \in Settings /\ Cores' = Cores
    BY SettingsKept DEF PInv, TypeOK
<1>4. help' \in [Threads -> Helping]
    BY HelpTypes
<1> QED
    BY <1>1, <1>2, <1>3, <1>4, FlowTypes, LastOnCoreTypes, WorkerTypes, CountTypes, ControlTypes
    DEF TypeOK, Helping

-----------------------------------------------------------------------------
(* The theorems.                                                           *)

\* All workers begin asleep and inactive, and nobody wakes them.
LEMMA InitPInv == Init => PInv
<1> SUFFICES ASSUME Init PROVE PInv
    OBVIOUS
<1>1. /\ setting \in Settings /\ NumCores \in Nat \ {0} /\ MaxTasks \in Nat
      /\ \A w \in TaskThreads : (w - 1) % NumCores \in Cores
    <2>1. setting \in Settings
        BY DEF Init
    <2>2. /\ NumCores \in Nat /\ MaxTasks \in Nat
          /\ UserCore[Owner] \in Nat /\ UserCore[Owner] < NumCores
        BY <2>1, PoolAssumption DEF NumCores, MaxTasks
    <2>3. NumCores \in Nat \ {0}
        BY <2>2
    <2>4. ASSUME NEW w \in TaskThreads PROVE (w - 1) % NumCores \in 0..(NumCores - 1)
        BY <2>3, PoolThreads
    <2> QED
        BY <2>1, <2>2, <2>3, <2>4 DEF Cores
<1>2. /\ \A w \in TaskThreads : at[w] = "asleep" /\ state[w] = "inactive" /\ ~shouldWork[w] /\ ~pauseEnded[w]
      /\ \A u \in Users : at[u] = "running"
      /\ \A t \in Threads : help[t] = NotHelping /\ back[t] = "running"
    BY PoolThreads DEF Init
<1>3. FlowOK /\ StateFits
    BY <1>2, PoolThreads DEF FlowOK, StateFits, AwakePlaces, LockPlaces, RestPlaces, OwnerPlaces
<1>4. HelpFits
    BY <1>2, NewHelpIsSound DEF HelpFits
<1>5. WakeUpsFit
    <2>1. \A t \in Threads, w \in TaskThreads : ~Wakes(t, w)
        BY <1>2 DEF Wakes, NotHelping
    <2> QED
        BY <1>2, <2>1 DEF WakeUpsFit, WakeUpFits, WakeUpUnderWay
<1>6. PauseFits
    <2>1. InPause = {} /\ AtOneOf({"pausing"}) = {}
        BY <1>2 DEF InPause, AtOneOf
    <2>2. at[Owner] = "running"
        BY <1>2, PoolThreads
    <2> QED
        BY <2>1, <2>2, FS_EmptySet DEF PauseFits, Init, OwnerHasPaused
<1>7. TasksConserved
    <2>1. TaskHolders = {}
        BY <1>2, PoolThreads DEF TaskHolders, HasTask, LockPlaces
    <2> QED
        BY <1>1, <2>1, FS_EmptySet DEF TasksConserved, Init
<1>8. TypeOK
    <2>1. /\ state \in [TaskThreads -> {"inactive", "active", "locked"}]
          /\ hardware \in [TaskThreads -> Cores] /\ affinity \in [TaskThreads -> Cores]
          /\ shouldWork \in [TaskThreads -> BOOLEAN] /\ pauseEnded \in [TaskThreads -> BOOLEAN]
        BY <1>1 DEF Init
    <2>2. coreCount \in [Cores -> Int] /\ active \in Int
        <3>1. ASSUME NEW c \in Cores PROVE Cardinality({u \in Users : UserCore[u] = c}) \in Int
            <4>1. IsFiniteSet({u \in Users : UserCore[u] = c})
                BY PoolAssumption, FS_Subset
            <4>2. Cardinality({u \in Users : UserCore[u] = c}) \in Nat
                BY <4>1, FS_CardinalityType
            <4> QED
                BY <4>2
        <3> QED
            BY <3>1 DEF Init
    <2>3. pending \in 0..MaxTasks /\ spawned \in 0..MaxTasks /\ finished \in 0..MaxTasks
        BY <1>1 DEF Init
    <2>4. at \in [Threads -> Places] /\ back \in [Threads -> Places]
        <3>1. "asleep" \in Places /\ "running" \in Places
            BY DEF Places, RestPlaces, OwnerPlaces
        <3> QED
            BY <3>1 DEF Init
    <2>5. lastOnCore \in [Threads -> BOOLEAN]
        BY DEF Init
    <2>7. destroying \in BOOLEAN /\ paused \in BOOLEAN
        BY DEF Init
    <2>8. numPaused \in 0..NumWorkers
        BY PoolThreads DEF Init
    <2>6. help \in [Threads -> Helping]
        <3>1. NotHelping \in Helping
            BY <1>1, HelpingTypes DEF Cores
        <3> QED
            BY <3>1 DEF Init
    <2> QED
        BY <1>1, <2>1, <2>2, <2>3, <2>4, <2>5, <2>6, <2>7, <2>8 DEF TypeOK, Helping
<1> QED
    BY <1>3, <1>4, <1>5, <1>6, <1>7, <1>8 DEF PInv

\* A stuttering step changes nothing of it.
LEMMA StuttersKeepPInv == PInv /\ UNCHANGED vars => PInv'
<1> SUFFICES ASSUME PInv, UNCHANGED vars PROVE PInv'
    OBVIOUS
<1>1. UNCHANGED <<state, hardware, affinity, shouldWork, coreCount, active, pending, spawned, finished, at,
                  back, lastOnCore, help, destroying, paused, numPaused, pauseEnded, setting>>
    BY DEF vars, worker, bound, counts, tasks, pausing
<1>2. UNCHANGED <<TypeOK, FlowOK, StateFits, HelpFits>>
    BY <1>1 DEF TypeOK, FlowOK, StateFits, HelpFits, Cores, NumCores, MaxTasks, SecondGrabMayBlock, may
<1>3. UNCHANGED WakeUpsFit
    BY <1>1 DEF WakeUpsFit, WakeUpFits, WakeUpUnderWay, Wakes, Resting, SecondGrabMayBlock, may
<1>4. PauseFits' /\ TasksConserved'
    BY <1>1, PauseUntouched, TasksUntouched DEF PInv, OwnerHasPaused, OwnerPauses, pausing, tasks, HasTask
<1> QED
    BY <1>2, <1>3, <1>4 DEF PInv

\* Every reachable state of the pool satisfies the inductive invariant.
THEOREM ThreadPoolInvariant == Spec => []PInv
<1>1. ASSUME PInv, Next PROVE PInv'
    BY <1>1, FlowKept, StatesKept, HelpKept, WakeUpsKept, PauseKept, TasksKept, TypesKept DEF PInv
<1> QED
    BY <1>1, InitPInv, StuttersKeepPInv, PTL DEF Spec

\* Every variable of the pool keeps its type.
THEOREM ThreadPoolTypeCorrect == Spec => []TypeOK
<1>1. PInv => TypeOK
    BY DEF PInv
<1> QED
    BY <1>1, ThreadPoolInvariant, PTL

\* The R_ASSERTs on the worker's state (lines 352, 35 and 143 of
\* tasks_thread_pool.cpp) never fail, however many workers and helpers there are.
THEOREM AssertionsHold == Spec => []AssertionsOfTheCode
<1>1. PInv => AssertionsOfTheCode
    BY DEF PInv, StateFits, AssertionsOfTheCode, AtOneOf, AwakePlaces
<1> QED
    BY <1>1, ThreadPoolInvariant, PTL

\* Between pause_all_task_threads and resume_all_task_threads every worker is in
\* its pause, even if the owner spawns tasks meanwhile.
THEOREM PauseIsQuiet == Spec => []PausedMeansQuiet
<1>1. PInv => PausedMeansQuiet
    <2> SUFFICES ASSUME PInv, at[Owner] = "all_paused", NEW w \in TaskThreads PROVE at[w] = "paused"
        BY DEF PausedMeansQuiet
    <2>1. InPause = TaskThreads /\ paused
        BY DEF PInv, PauseFits, OwnerHasPaused
    <2>2. at[w] \in {"paused", "resumed"} /\ at[w] # "resumed"
        BY <2>1 DEF PInv, PauseFits, InPause, AtOneOf
    <2> QED
        BY <2>2
<1> QED
    BY <1>1, ThreadPoolInvariant, PTL

\* Every task spawned waits in a queue, is held by exactly one thread or has been
\* executed: blocking, going to sleep and waking up neither lose nor repeat one.
THEOREM NoTaskIsLost == Spec => [](spawned = pending + finished + Cardinality(TaskHolders))
<1>1. PInv => spawned = pending + finished + Cardinality(TaskHolders)
    BY DEF PInv, TasksConserved
<1> QED
    BY <1>1, ThreadPoolInvariant, PTL

\* Where the second grab of a worker cannot block, a worker that sleeps active has
\* exactly one wake-up on its way and one that sleeps inactive has none.
THEOREM NoWakeUpIsLost == Spec => []WakeUpPerActivationUncontended
<1>1. PInv => WakeUpPerActivationUncontended
    <2> SUFFICES ASSUME PInv, ~SecondGrabMayBlock, NEW w \in AtOneOf({"asleep", "asleep_with_task"})
                 PROVE  WakeUps(w) = IF state[w] = "active" THEN 1 ELSE 0
        BY DEF WakeUpPerActivationUncontended, WakeUpPerActivation
    <2> DEFINE wakers == {t \in Threads : Wakes(t, w)}
    <2>1. WakeUps(w) = Cardinality(wakers) + IF shouldWork[w] THEN 1 ELSE 0
        BY DEF WakeUps, Wakes
    <2>2. /\ w \in TaskThreads /\ at[w] \in {"asleep", "asleep_with_task"} /\ WakeUpFits(w)
          /\ state[w] \in {"inactive", "active"}
        BY DEF AtOneOf, PInv, TypeOK, WakeUpsFit, StateFits, RestPlaces
    <2>3. CASE state[w] = "inactive"
        <3>1. wakers = {} /\ ~shouldWork[w]
            BY <2>2, <2>3 DEF WakeUpFits, WakeUpUnderWay
        <3> QED
            BY <2>1, <2>3, <3>1, FS_EmptySet
    <2>4. CASE state[w] = "active" /\ shouldWork[w]
        <3>1. wakers = {}
            BY <2>2, <2>4 DEF WakeUpFits
        <3> QED
            BY <2>1, <2>4, <3>1, FS_EmptySet
    <2>5. CASE state[w] = "active" /\ ~shouldWork[w]
        <3>1. PICK t \in Threads : Wakes(t, w)
            BY <2>2, <2>5 DEF WakeUpFits, WakeUpUnderWay, RestPlaces
        <3>2. wakers = {t}
            BY <2>2, <3>1 DEF WakeUpFits
        <3> QED
            BY <2>1, <2>5, <3>2, FS_Singleton
    <2> QED
        BY <2>2, <2>3, <2>4, <2>5
<1> QED
    BY <1>1, ThreadPoolInvariant, PTL

-----------------------------------------------------------------------------
(* Sums.                                                                   *)

\* g is the sum of f over every subset of S, taken in the order of a fold.
Adds(g, f, S) ==
    \A s \in SUBSET S :
        g[s] = IF s = {} THEN 0 ELSE LET x == CHOOSE y \in s : TRUE IN f[x] + g[s \ {x}]

IsSum(g, f, S) == g \in [SUBSET S -> Int] /\ Adds(g, f, S)

\* There is one such function: two that differ would differ on a smallest set.
LEMMA SumsAreEqual ==
    ASSUME NEW S, IsFiniteSet(S), NEW f, NEW g, Adds(g, f, S), NEW h, Adds(h, f, S)
    PROVE  \A s \in SUBSET S : h[s] = g[s]
<1> DEFINE Differ == {s \in SUBSET S : h[s] # g[s]}
<1>1. SUFFICES ASSUME Differ # {} PROVE FALSE
    OBVIOUS
<1>2. IsWellFoundedOn(StrictSubsetOrdering(S), SUBSET S)
    BY FS_StrictSubsetOrderingWellFounded, FS_FiniteSubsetsOfFinite
<1>3. Differ \subseteq SUBSET S
    OBVIOUS
<1> HIDE DEF Differ
<1>4. PICK s \in Differ : \A r \in Differ : <<r, s>> \notin StrictSubsetOrdering(S)
    BY <1>1, <1>2, <1>3, WFMin
<1>5. s \in SUBSET S /\ h[s] # g[s]
    BY DEF Differ
<1>6. s # {}
    BY <1>5 DEF Adds
<1> DEFINE x == CHOOSE y \in s : TRUE
<1>7. x \in s /\ h[s] = f[x] + h[s \ {x}] /\ g[s] = f[x] + g[s \ {x}]
    BY <1>5, <1>6 DEF Adds
<1>8. s \ {x} \in SUBSET S /\ <<s \ {x}, s>> \in StrictSubsetOrdering(S)
    BY <1>5, <1>7 DEF StrictSubsetOrdering
<1> HIDE DEF x
<1>9. h[s \ {x}] = g[s \ {x}]
    BY <1>4, <1>8 DEF Differ
<1> QED
    BY <1>5, <1>7, <1>9

\* The fold of FiniteSetsExt computes it.
LEMMA SumIsFold ==
    ASSUME NEW S, IsFiniteSet(S), NEW f, NEW g, IsSum(g, f, S)
    PROVE  MapThenSumSet(LAMBDA c : f[c], S) = g[S]
<1> DEFINE Fn(h) == [s \in SUBSET S |-> IF s = {} THEN 0
                                        ELSE f[CHOOSE y \in s : TRUE] + h[s \ {CHOOSE y \in s : TRUE}]]
           iter == CHOOSE h : h = Fn(h)
<1>1. g = Fn(g)
    BY DEF IsSum, Adds
<1>2. ASSUME NEW h, h = Fn(h) PROVE h = g
    <2>1. h = [s \in SUBSET S |-> h[s]] /\ g = [s \in SUBSET S |-> g[s]]
        BY <1>2 DEF IsSum, Adds
    <2>2. Adds(h, f, S) /\ Adds(g, f, S)
        BY <1>2 DEF Adds, IsSum
    <2>3. \A s \in SUBSET S : h[s] = g[s]
        BY <2>2, SumsAreEqual
    <2> QED
        BY <2>1, <2>3
<1>3. iter = g
    BY <1>1, <1>2
<1>4. MapThenSumSet(LAMBDA c : f[c], S) = iter[S]
    BY DEF MapThenSumSet, MapThenFoldSet
<1> QED
    BY <1>3, <1>4

\* One summand that grows by d makes the sum grow by d.
LEMMA SumGrows ==
    ASSUME NEW S, NEW f \in [S -> Int], NEW g, IsSum(g, f, S), NEW c \in S, NEW d \in Int
    PROVE  \E h : IsSum(h, [f EXCEPT ![c] = @ + d], S) /\ h[S] = g[S] + d
<1> DEFINE h == [s \in SUBSET S |-> g[s] + (IF c \in s THEN d ELSE 0)]
           k == [f EXCEPT ![c] = @ + d]
<1>1. h \in [SUBSET S -> Int] /\ h[S] = g[S] + d
    BY DEF IsSum, Adds
<1>2. ASSUME NEW s \in SUBSET S, s # {}, NEW x, x = CHOOSE y \in s : TRUE
      PROVE  h[s] = k[x] + h[s \ {x}]
    <2>1. x \in s /\ x \in S
        BY <1>2
    <2>2. g[s] = f[x] + g[s \ {x}] /\ g[s] \in Int /\ g[s \ {x}] \in Int /\ f[x] \in Int /\ f[c] \in Int
        BY <1>2, <2>1 DEF IsSum, Adds
    <2>3. /\ h[s] = g[s] + (IF c \in s THEN d ELSE 0)
          /\ h[s \ {x}] = g[s \ {x}] + (IF c \in s \ {x} THEN d ELSE 0)
        OBVIOUS
    <2>4. k[x] = IF x = c THEN f[c] + d ELSE f[x]
        BY <2>1
    <2> HIDE DEF h, k
    <2>5. CASE x = c
        BY <2>1, <2>2, <2>3, <2>4, <2>5
    <2>6. CASE x # c /\ c \in s
        BY <2>1, <2>2, <2>3, <2>4, <2>6
    <2>7. CASE x # c /\ c \notin s
        BY <2>1, <2>2, <2>3, <2>4, <2>7
    <2> QED
        BY <2>5, <2>6, <2>7
<1>3. h[{}] = 0
    BY DEF IsSum, Adds
<1>4. IsSum(h, k, S)
    BY <1>1, <1>2, <1>3 DEF IsSum, Adds
<1> HIDE DEF h
<1> QED
    BY <1>1, <1>4

-----------------------------------------------------------------------------
(* The counters.                                                           *)

\* What a thread and its place add to the active count and to the core counts.
Is(b) == IF b THEN 1 ELSE 0

ActiveDue(t) ==
    IF t \in TaskThreads
    THEN Is(state[t] = "active") - Is(at[t] = "unlocks_count")
         + Is(at[t] \in {"deactivate_core", "deactivate_count", "leave_count", "locks_count"})
    ELSE 0

CoreDue(t) ==
    IF t \in TaskThreads
    THEN Is(state[t] = "active") + Is(at[t] \in {"deactivate_core", "unlocks_state"})
         - Is(at[t] \in {"locks_state", "leave_state", "return_core"})
    ELSE Is(at[t] \notin {"locks_help", "blocked"})

Activated == {w \in TaskThreads : state[w] = "active"}
Counting  == {t \in Threads : help[t].stage = "count"}
Placing   == {t \in Threads : help[t].stage \in {"count", "place"}}
Unblocked == {u \in Users : at[u] \notin {"locks_help", "blocked"}}

ActiveTotal ==
    Cardinality(Activated) - Cardinality(Counting) - Cardinality(AtOneOf({"unlocks_count"}))
    + Cardinality(AtOneOf({"deactivate_core", "deactivate_count", "leave_count", "locks_count"}))

CoreTotal ==
    Cardinality(Unblocked) + Cardinality(Activated)
    + Cardinality(AtOneOf({"deactivate_core", "unlocks_state"}))
    - Cardinality(AtOneOf({"locks_state", "leave_state", "return_core"})) - Cardinality(Placing)

CoresCounted == \E g : IsSum(g, coreCount, Cores) /\ g[Cores] = CoreTotal

CountersFit == active = ActiveTotal /\ CoresCounted

CountsInv == PInv /\ (SecondGrabMayBlock \/ CountersFit)

\* The sets the totals count are finite.
LEMMA CountedAreFinite ==
    /\ IsFiniteSet(Activated) /\ IsFiniteSet(Counting) /\ IsFiniteSet(Placing) /\ IsFiniteSet(Unblocked)
    /\ \A P : IsFiniteSet(AtOneOf(P))
    /\ Cardinality(Activated) \in Nat /\ Cardinality(Counting) \in Nat /\ Cardinality(Placing) \in Nat
    /\ Cardinality(Unblocked) \in Nat /\ \A P : Cardinality(AtOneOf(P)) \in Nat
<1>1. /\ Activated \subseteq TaskThreads /\ Counting \subseteq Threads /\ Placing \subseteq Threads
      /\ Unblocked \subseteq Threads /\ \A P : AtOneOf(P) \subseteq TaskThreads
    BY PoolThreads DEF Activated, Counting, Placing, Unblocked, AtOneOf
<1>2. IsFiniteSet(Activated) /\ IsFiniteSet(Counting) /\ IsFiniteSet(Placing) /\ IsFiniteSet(Unblocked)
    BY <1>1, PoolThreads, FS_Subset
<1>3. ASSUME NEW P PROVE IsFiniteSet(AtOneOf(P)) /\ Cardinality(AtOneOf(P)) \in Nat
    BY <1>1, PoolThreads, FS_Subset, FS_CardinalityType
<1> QED
    BY <1>2, <1>3, FS_CardinalityType

\* How a count changes when one element may enter or leave what is counted.
LEMMA CountMoves ==
    ASSUME NEW S, NEW T, NEW t, IsFiniteSet(S), S \ {t} = T \ {t}
    PROVE  Cardinality(T) = Cardinality(S) + Is(t \in T) - Is(t \in S)
BY CountChanges DEF Is

\* What a thread's move changes is what that thread adds.
LEMMA MoveRecounts ==
    ASSUME PInv, NEW t \in Threads, at' = [at EXCEPT ![t] = at'[t]],
           \A w \in TaskThreads : w # t => state'[w] = state[w],
           \A u \in Threads : help'[u] = help[u] \/ (WakesNobody(help[u]) /\ WakesNobody(help'[u]))
    PROVE  /\ ActiveTotal' = ActiveTotal + ActiveDue(t)' - ActiveDue(t)
           /\ CoreTotal' = CoreTotal + CoreDue(t)' - CoreDue(t)
<1> USE CountedAreFinite
<1>1. at \in [Threads -> Places] /\ \A u \in Threads : u # t => at'[u] = at[u]
    BY DEF PInv, TypeOK
<1>2. Counting' = Counting /\ Placing' = Placing
    BY DEF Counting, Placing, WakesNobody
<1>3. Cardinality(Activated') = Cardinality(Activated) + Is(t \in Activated') - Is(t \in Activated)
    <2>1. Activated' \ {t} = Activated \ {t}
        BY DEF Activated
    <2> QED
        BY <2>1, CountMoves
<1>4. Cardinality(Unblocked') = Cardinality(Unblocked) + Is(t \in Unblocked') - Is(t \in Unblocked)
    <2>1. Unblocked' \ {t} = Unblocked \ {t}
        BY <1>1, PoolThreads DEF Unblocked
    <2> QED
        BY <2>1, CountMoves
<1>5. ASSUME NEW P
      PROVE  Cardinality(AtOneOf(P)') = Cardinality(AtOneOf(P)) + Is(t \in AtOneOf(P)') - Is(t \in AtOneOf(P))
    <2>1. AtOneOf(P)' \ {t} = AtOneOf(P) \ {t}
        BY <1>1, PoolThreads DEF AtOneOf
    <2> QED
        BY <2>1, CountMoves
<1> DEFINE A == Cardinality(Activated)
           U == Cardinality(Unblocked)
           N(P) == Cardinality(AtOneOf(P))
<1>6. CASE t \in TaskThreads
    <2>1. /\ t \in Activated <=> state[t] = "active"
          /\ t \in Activated' <=> state'[t] = "active"
          /\ t \notin Unblocked /\ t \notin Unblocked'
          /\ \A P : (t \in AtOneOf(P) <=> at[t] \in P) /\ (t \in AtOneOf(P)' <=> at'[t] \in P)
        BY <1>6, PoolThreads DEF Activated, Unblocked, AtOneOf
    <2>2. /\ A' = A + Is(state'[t] = "active") - Is(state[t] = "active")
          /\ U' = U
        BY <1>3, <1>4, <2>1 DEF Is
    <2>3. \A P : N(P)' = N(P) + Is(at'[t] \in P) - Is(at[t] \in P)
        BY <1>5, <2>1 DEF Is
    <2>4. /\ ActiveDue(t) = Is(state[t] = "active") - Is(at[t] = "unlocks_count")
                + Is(at[t] \in {"deactivate_core", "deactivate_count", "leave_count", "locks_count"})
          /\ ActiveDue(t)' = Is(state'[t] = "active") - Is(at'[t] = "unlocks_count")
                + Is(at'[t] \in {"deactivate_core", "deactivate_count", "leave_count", "locks_count"})
          /\ CoreDue(t) = Is(state[t] = "active") + Is(at[t] \in {"deactivate_core", "unlocks_state"})
                - Is(at[t] \in {"locks_state", "leave_state", "return_core"})
          /\ CoreDue(t)' = Is(state'[t] = "active") + Is(at'[t] \in {"deactivate_core", "unlocks_state"})
                - Is(at'[t] \in {"locks_state", "leave_state", "return_core"})
        BY <1>6 DEF ActiveDue, CoreDue
    <2>5. \A b : Is(b) \in Int
        BY DEF Is
    <2>6. /\ Is(at[t] = "unlocks_count") = Is(at[t] \in {"unlocks_count"})
          /\ Is(at'[t] = "unlocks_count") = Is(at'[t] \in {"unlocks_count"})
        BY DEF Is
    <2>7. A \in Int /\ U \in Int /\ (\A P : N(P) \in Int) /\ Cardinality(Counting) \in Int /\ Cardinality(Placing) \in Int
        OBVIOUS
    <2> DEFINE P1 == {"unlocks_count"}
               P2 == {"deactivate_core", "deactivate_count", "leave_count", "locks_count"}
               P3 == {"deactivate_core", "unlocks_state"}
               P4 == {"locks_state", "leave_state", "return_core"}
    <2>8. /\ N(P1)' = N(P1) + Is(at'[t] \in P1) - Is(at[t] \in P1)
          /\ N(P2)' = N(P2) + Is(at'[t] \in P2) - Is(at[t] \in P2)
          /\ N(P3)' = N(P3) + Is(at'[t] \in P3) - Is(at[t] \in P3)
          /\ N(P4)' = N(P4) + Is(at'[t] \in P4) - Is(at[t] \in P4)
        BY <2>3
    <2>9. /\ N(P1) \in Int /\ N(P2) \in Int /\ N(P3) \in Int /\ N(P4) \in Int
          /\ ActiveTotal = A - Cardinality(Counting) - N(P1) + N(P2)
          /\ ActiveTotal' = A' - Cardinality(Counting') - N(P1)' + N(P2)'
          /\ CoreTotal = U + A + N(P3) - N(P4) - Cardinality(Placing)
          /\ CoreTotal' = U' + A' + N(P3)' - N(P4)' - Cardinality(Placing')
        BY <2>7 DEF ActiveTotal, CoreTotal
    <2>10. /\ ActiveDue(t) = Is(state[t] = "active") - Is(at[t] \in P1) + Is(at[t] \in P2)
           /\ ActiveDue(t)' = Is(state'[t] = "active") - Is(at'[t] \in P1) + Is(at'[t] \in P2)
           /\ CoreDue(t) = Is(state[t] = "active") + Is(at[t] \in P3) - Is(at[t] \in P4)
           /\ CoreDue(t)' = Is(state'[t] = "active") + Is(at'[t] \in P3) - Is(at'[t] \in P4)
        BY <2>4, <2>6
    <2> HIDE DEF A, U, N, P1, P2, P3, P4
    <2>11. ActiveTotal' = ActiveTotal + ActiveDue(t)' - ActiveDue(t)
        BY <1>2, <2>2, <2>5, <2>7, <2>8, <2>9, <2>10
    <2>12. CoreTotal' = CoreTotal + CoreDue(t)' - CoreDue(t)
        BY <1>2, <2>2, <2>5, <2>7, <2>8, <2>9, <2>10
    <2> QED
        BY <2>11, <2>12
<1>7. CASE t \notin TaskThreads
    <2>1. /\ t \in Users
          /\ t \notin Activated /\ t \notin Activated'
          /\ \A P : t \notin AtOneOf(P) /\ t \notin AtOneOf(P)'
        BY <1>7, PoolThreads DEF Activated, AtOneOf
    <2>2. /\ t \in Unblocked <=> at[t] \notin {"locks_help", "blocked"}
          /\ t \in Unblocked' <=> at'[t] \notin {"locks_help", "blocked"}
        BY <2>1 DEF Unblocked
    <2>3. /\ A' = A /\ \A P : N(P)' = N(P)
          /\ U' = U + CoreDue(t)' - CoreDue(t) /\ CoreDue(t) \in Int /\ CoreDue(t)' \in Int
        BY <1>3, <1>4, <1>5, <1>7, <2>1, <2>2 DEF Is, CoreDue
    <2>4. ActiveDue(t) = 0 /\ ActiveDue(t)' = 0
        BY <1>7 DEF ActiveDue
    <2>5. A \in Int /\ U \in Int /\ (\A P : N(P) \in Int) /\ Cardinality(Counting) \in Int /\ Cardinality(Placing) \in Int
        OBVIOUS
    <2> QED
        BY <1>2, <2>3, <2>4, <2>5 DEF ActiveTotal, CoreTotal
<1> QED
    BY <1>6, <1>7

\* The counts of the cores change by d.
CoresShift(d) ==
    \/ d = 0 /\ coreCount' = coreCount
    \/ \E c \in Cores : coreCount' = [coreCount EXCEPT ![c] = @ + d]

LEMMA CoresRecounted ==
    ASSUME PInv, Cores' = Cores, CoresCounted, NEW d \in Int, CoresShift(d), CoreTotal' = CoreTotal + d
    PROVE  CoresCounted'
<1>1. PICK g : IsSum(g, coreCount, Cores) /\ g[Cores] = CoreTotal
    BY DEF CoresCounted
<1>2. coreCount \in [Cores -> Int] /\ CoreTotal \in Int
    BY CountedAreFinite DEF PInv, TypeOK, CoreTotal
<1>3. CASE d = 0 /\ coreCount' = coreCount
    BY <1>1, <1>2, <1>3 DEF CoresCounted
<1>4. CASE \E c \in Cores : coreCount' = [coreCount EXCEPT ![c] = @ + d]
    <2>1. PICK c \in Cores : coreCount' = [coreCount EXCEPT ![c] = @ + d]
        BY <1>4
    <2> DEFINE f == coreCount
               k == [f EXCEPT ![c] = @ + d]
    <2>3. f \in [Cores -> Int] /\ IsSum(g, f, Cores) /\ c \in Cores /\ d \in Int
        BY <1>1, <1>2
    <2>4. \E h : IsSum(h, k, Cores) /\ h[Cores] = g[Cores] + d
        <3> HIDE DEF f
        <3> QED
            BY <2>3, SumGrows
    <2> HIDE DEF k
    <2>2. PICK h : IsSum(h, k, Cores) /\ h[Cores] = g[Cores] + d
        BY <2>4
    <2>5. k = coreCount'
        BY <2>1 DEF k
    <2> QED
        BY <1>1, <2>2, <2>5 DEF CoresCounted
<1> QED
    BY <1>3, <1>4 DEF CoresShift

\* A move that changes the counts as it changes what the thread adds.
LEMMA MoveKeepsCounters ==
    ASSUME PInv, Cores' = Cores, CountersFit,
           NEW t \in Threads, at' = [at EXCEPT ![t] = at'[t]],
           \A w \in TaskThreads : w # t => state'[w] = state[w],
           \A u \in Threads : help'[u] = help[u] \/ (WakesNobody(help[u]) /\ WakesNobody(help'[u])),
           active' = active + ActiveDue(t)' - ActiveDue(t),
           NEW d \in Int, CoreDue(t)' = CoreDue(t) + d, CoresShift(d)
    PROVE  CountersFit'
<1>1. ActiveTotal' = ActiveTotal + ActiveDue(t)' - ActiveDue(t) /\ CoreTotal' = CoreTotal + CoreDue(t)' - CoreDue(t)
    BY MoveRecounts
<1>3. /\ ActiveDue(t) \in Int /\ ActiveDue(t)' \in Int /\ CoreDue(t) \in Int /\ CoreDue(t)' \in Int
      /\ CoreTotal \in Int
    BY CountedAreFinite DEF ActiveDue, CoreDue, Is, CoreTotal
<1>4. active' = ActiveTotal'
    BY <1>1 DEF CountersFit
<1>5. CoreTotal' = CoreTotal + d
    BY <1>1, <1>3
<1>6. CoresCounted'
    BY <1>5, CoresRecounted DEF CountersFit
<1> QED
    BY <1>4, <1>6 DEF CountersFit

\* A core gains or loses one.
LEMMA CoreShifts ==
    ASSUME PInv, NEW c \in Cores
    PROVE  (CoreUp(c) => CoresShift(1)) /\ (CoreDown(c) => CoresShift(-1))
<1>1. coreCount[c] \in Int
    BY DEF PInv, TypeOK
<1>2. coreCount[c] + (-1) = coreCount[c] - 1
    BY <1>1
<1> QED
    BY <1>2 DEF CoreUp, CoreDown, CoresShift

\* try_activate_task_thread counts what it activates, on the core it puts it.
LEMMA HelpKeepsCounters ==
    ASSUME PInv, Cores' = Cores, CountersFit, NEW t \in Threads, Help(t)
    PROVE  CountersFit'
<1> USE CountedAreFinite
<1> DEFINE w == help[t].target
<1>1. /\ w \in TaskThreads /\ at' = at /\ help' = [help EXCEPT ![t] = help'[t]]
      /\ DOMAIN help = Threads /\ state \in [TaskThreads -> {"inactive", "active", "locked"}]
      /\ help[t].core \in Cores /\ active \in Int
    BY HelpFrame DEF PInv, TypeOK
<1>2. \A P : AtOneOf(P)' = AtOneOf(P)
    BY <1>1 DEF AtOneOf
<1>3. Unblocked' = Unblocked
    BY <1>1 DEF Unblocked
<1>4. /\ Counting' \ {t} = Counting \ {t} /\ Placing' \ {t} = Placing \ {t}
      /\ t \in Counting <=> help[t].stage = "count"
      /\ t \in Counting' <=> help'[t].stage = "count"
      /\ t \in Placing <=> help[t].stage \in {"count", "place"}
      /\ t \in Placing' <=> help'[t].stage \in {"count", "place"}
    BY <1>1 DEF Counting, Placing
<1>5. /\ Cardinality(Counting') = Cardinality(Counting) + Is(t \in Counting') - Is(t \in Counting)
      /\ Cardinality(Placing') = Cardinality(Placing) + Is(t \in Placing') - Is(t \in Placing)
    BY <1>4, CountMoves
<1>6. NextTarget(help[t]).stage \in {"probe", "none"} /\ NotHelping.stage = "none"
    BY <1>1 DEF NextTarget, NotHelping, PInv, TypeOK
<1> DEFINE A == Cardinality(Activated)
           Co == Cardinality(Counting)
           Pl == Cardinality(Placing)
<1>7. ASSUME A' \in Int, Co' \in Int, Pl' \in Int
      PROVE  /\ ActiveTotal' = ActiveTotal + (A' - A) - (Co' - Co)
             /\ CoreTotal' = CoreTotal + (A' - A) - (Pl' - Pl)
    BY <1>2, <1>3, <1>7 DEF ActiveTotal, CoreTotal
<1>8. A \in Int /\ Co \in Int /\ Pl \in Int /\ ActiveTotal \in Int /\ CoreTotal \in Int
    BY DEF ActiveTotal, CoreTotal
<1>9. CASE help[t].stage = "probe" /\ state[w] = "inactive" /\ help'[t].stage = "count"
           /\ state' = [state EXCEPT ![w] = "active"] /\ UNCHANGED counts
    <2>1. Activated' \ {w} = Activated \ {w} /\ w \notin Activated /\ w \in Activated'
        BY <1>1, <1>9 DEF Activated
    <2>2. A' = A + 1
        BY <2>1, CountMoves DEF Is
    <2>3. Co' = Co + 1 /\ Pl' = Pl + 1
        BY <1>4, <1>5, <1>8, <1>9 DEF Is
    <2>4. ActiveTotal' = ActiveTotal /\ CoreTotal' = CoreTotal + 0
        BY <1>7, <1>8, <2>2, <2>3
    <2>5. CoresShift(0) /\ active' = active
        BY <1>9 DEF CoresShift, counts
    <2> QED
        BY <2>4, <2>5, CoresRecounted DEF CountersFit
<1>10. ASSUME state' = state PROVE A' = A
    BY <1>10 DEF Activated
<1>11. CASE /\ state' = state /\ UNCHANGED counts
            /\ help[t].stage \notin {"count", "place"} /\ help'[t].stage \notin {"count", "place"}
    <2>1. A' = A /\ Co' = Co /\ Pl' = Pl
        BY <1>4, <1>5, <1>8, <1>10, <1>11 DEF Is
    <2>2. ActiveTotal' = ActiveTotal /\ CoreTotal' = CoreTotal + 0
        BY <1>7, <1>8, <2>1
    <2>3. CoresShift(0) /\ active' = active
        BY <1>11 DEF CoresShift, counts
    <2> QED
        BY <2>2, <2>3, CoresRecounted DEF CountersFit
<1>12. CASE /\ state' = state /\ active' = active + 1 /\ coreCount' = coreCount
            /\ help[t].stage = "count" /\ help'[t].stage = "place"
    <2>1. A' = A /\ Co' = Co - 1 /\ Pl' = Pl
        BY <1>4, <1>5, <1>8, <1>10, <1>12 DEF Is
    <2>2. ActiveTotal' = ActiveTotal + 1 /\ CoreTotal' = CoreTotal + 0
        BY <1>7, <1>8, <2>1
    <2>3. CoresShift(0)
        BY <1>12 DEF CoresShift
    <2> QED
        BY <1>12, <2>2, <2>3, CoresRecounted DEF CountersFit
<1>13. CASE /\ state' = state /\ active' = active /\ CoreUp(help[t].core)
            /\ help[t].stage = "place" /\ help'[t].stage = "signal"
    <2>1. A' = A /\ Co' = Co /\ Pl' = Pl - 1
        BY <1>4, <1>5, <1>8, <1>10, <1>13 DEF Is
    <2>2. ActiveTotal' = ActiveTotal /\ CoreTotal' = CoreTotal + 1
        BY <1>7, <1>8, <2>1
    <2>3. CoresShift(1)
        BY <1>1, <1>13, CoreShifts
    <2> QED
        BY <1>13, <2>2, <2>3, CoresRecounted DEF CountersFit
<1>14. CASE Probe(t)
    <2>1. help[t].stage = "probe" /\ UNCHANGED counts
        BY <1>14 DEF Probe, HelpStep
    <2>2. CASE state[w] = "inactive"
        <3>1. /\ help'[t] = [help[t] EXCEPT !.stage = "count", !.core = CoreFor(help[t])]
              /\ state' = [state EXCEPT ![w] = "active"]
            BY <1>1, <1>14, <2>2 DEF Probe, HelpStep, SetState
        <3>2. "stage" \in DOMAIN help[t]
            BY DEF PInv, TypeOK
        <3>3. help'[t].stage = "count"
            BY <3>1, <3>2
        <3> QED
            BY <1>9, <2>1, <2>2, <3>1, <3>3
    <2>3. CASE state[w] # "inactive"
        <3>1. help'[t] = NextTarget(help[t]) /\ state' = state
            BY <1>1, <1>14, <2>3 DEF Probe, HelpStep, worker
        <3> QED
            BY <1>6, <1>11, <2>1, <3>1
    <2> QED
        BY <2>2, <2>3
<1>15. CASE CountActivated(t)
    BY <1>1, <1>12, <1>15 DEF CountActivated, HelpStep, worker
<1>16. CASE PlaceActivated(t)
    BY <1>1, <1>13, <1>16 DEF PlaceActivated, HelpStep
<1>17. CASE SignalActivated(t)
    BY <1>1, <1>6, <1>11, <1>17 DEF SignalActivated, HelpStep
<1> QED
    BY <1>14, <1>15, <1>16, <1>17 DEF Help

\* Blocking: a worker leaves its core, its state and the active count one by one
\* and comes back to them one by one; a user only leaves its core.
LEMMA BlockingKeepsCounters ==
    ASSUME PInv, Cores' = Cores, ~SecondGrabMayBlock, CountersFit, NEW t \in Threads, Blocking(t)
    PROVE  CountersFit'
<1>1. /\ at' = [at EXCEPT ![t] = at'[t]] /\ (\A w \in TaskThreads : w # t => state'[w] = state[w])
      /\ \A u \in Threads : help'[u] = help[u] \/ (WakesNobody(help[u]) /\ WakesNobody(help'[u]))
    BY BlockingFrame DEF PInv, TypeOK
<1>2. /\ active \in Int /\ CoreOf(t) \in Cores /\ at \in [Threads -> Places]
      /\ state \in [TaskThreads -> {"inactive", "active", "locked"}]
    BY CoresExist DEF PInv, TypeOK
<1>3. /\ t \in TaskThreads /\ at[t] \in LockPlaces => back[t] \in {"grab_locked", "execute_on"}
      /\ t \notin TaskThreads => at[t] \in OwnerPlaces
      /\ t \notin TaskThreads /\ at[t] \in LockPlaces => back[t] \in {"execute_on", "running", "destroyed"}
    BY PoolThreads DEF PInv, FlowOK, OwnerPlaces, LockPlaces
<1> USE <1>2, <1>3 DEF Step, At, Goto, LockPlaces
<1>4. CASE LocksLeaveCore(t)
    <2>1. CoresShift(-1) /\ active' = active /\ state' = state
        BY <1>4, CoreShifts DEF LocksLeaveCore, worker
    <2>2. at[t] = "locks" /\ at'[t] = IF t \in TaskThreads THEN "locks_state" ELSE "locks_help"
        BY <1>4 DEF LocksLeaveCore
    <2>3. ActiveDue(t)' = ActiveDue(t) /\ ActiveDue(t) \in Int /\ CoreDue(t)' = CoreDue(t) + (-1)
        BY <2>1, <2>2 DEF ActiveDue, CoreDue, Is
    <2> QED
        BY <1>1, <2>1, <2>3, MoveKeepsCounters
<1>5. CASE LocksState(t)
    <2>1. /\ at[t] = "locks_state" /\ at'[t] = "locks_count" /\ t \in TaskThreads
          /\ state[t] = "active" /\ state'[t] = "locked" /\ UNCHANGED counts
        BY <1>5 DEF LocksState, SetState, OwnerPlaces, PInv, StateFits
    <2>2. CoresShift(0) /\ active' = active
        BY <2>1 DEF CoresShift, counts
    <2>3. ActiveDue(t)' = ActiveDue(t) /\ ActiveDue(t) \in Int /\ CoreDue(t)' = CoreDue(t) + 0
        BY <2>1 DEF ActiveDue, CoreDue, Is
    <2> QED
        BY <1>1, <2>2, <2>3, MoveKeepsCounters
<1>6. CASE LocksCount(t)
    <2>1. /\ at[t] = "locks_count" /\ at'[t] = "locks_help" /\ t \in TaskThreads
          /\ state' = state /\ active' = active - 1 /\ coreCount' = coreCount
        BY <1>6 DEF LocksCount, worker, OwnerPlaces
    <2>2. CoresShift(0)
        BY <2>1 DEF CoresShift
    <2>3. ActiveDue(t)' = ActiveDue(t) - 1 /\ ActiveDue(t) \in Int /\ CoreDue(t)' = CoreDue(t) + 0
        BY <2>1 DEF ActiveDue, CoreDue, Is
    <2> QED
        BY <1>1, <2>1, <2>2, <2>3, MoveKeepsCounters
<1>7. CASE LocksHelp(t)
    <2>1. at[t] = "locks_help" /\ at'[t] = "blocked" /\ state' = state /\ UNCHANGED counts
        BY <1>7 DEF LocksHelp, worker
    <2>2. CoresShift(0) /\ active' = active
        BY <2>1 DEF CoresShift, counts
    <2>3. ActiveDue(t)' = ActiveDue(t) /\ ActiveDue(t) \in Int /\ CoreDue(t)' = CoreDue(t) + 0
        BY <2>1 DEF ActiveDue, CoreDue, Is
    <2> QED
        BY <1>1, <2>2, <2>3, MoveKeepsCounters
<1>8. CASE UnlocksCore(t)
    <2>1. CoresShift(1) /\ active' = active /\ state' = state
        BY <1>8, CoreShifts DEF UnlocksCore, worker
    <2>2. /\ at[t] = "blocked" /\ at'[t] = IF t \in TaskThreads THEN "unlocks_state" ELSE back[t]
        BY <1>8 DEF UnlocksCore
    <2>3. ActiveDue(t)' = ActiveDue(t) /\ ActiveDue(t) \in Int /\ CoreDue(t)' = CoreDue(t) + 1
        BY <2>1, <2>2 DEF ActiveDue, CoreDue, Is
    <2> QED
        BY <1>1, <2>1, <2>3, MoveKeepsCounters
<1>9. CASE UnlocksState(t)
    <2>1. /\ at[t] = "unlocks_state" /\ at'[t] = "unlocks_count" /\ t \in TaskThreads
          /\ state[t] = "locked" /\ state'[t] = "active" /\ UNCHANGED counts
        BY <1>9 DEF UnlocksState, SetState, OwnerPlaces, PInv, StateFits
    <2>2. CoresShift(0) /\ active' = active
        BY <2>1 DEF CoresShift, counts
    <2>3. ActiveDue(t)' = ActiveDue(t) /\ ActiveDue(t) \in Int /\ CoreDue(t)' = CoreDue(t) + 0
        BY <2>1 DEF ActiveDue, CoreDue, Is
    <2> QED
        BY <1>1, <2>2, <2>3, MoveKeepsCounters
<1>10. CASE UnlocksCount(t)
    <2>1. /\ at[t] = "unlocks_count" /\ at'[t] = back[t] /\ t \in TaskThreads
          /\ state' = state /\ active' = active + 1 /\ coreCount' = coreCount
        BY <1>10 DEF UnlocksCount, worker, OwnerPlaces
    <2>2. CoresShift(0)
        BY <2>1 DEF CoresShift
    <2>3. ActiveDue(t)' = ActiveDue(t) + 1 /\ ActiveDue(t) \in Int /\ CoreDue(t)' = CoreDue(t) + 0
        BY <2>1 DEF ActiveDue, CoreDue, Is
    <2> QED
        BY <1>1, <2>1, <2>2, <2>3, MoveKeepsCounters
<1> QED
    BY <1>4, <1>5, <1>6, <1>7, <1>8, <1>9, <1>10 DEF Blocking

\* A worker counts itself out as it goes to sleep and in again if it does not.
LEMMA WorkerKeepsCounters ==
    ASSUME PInv, Cores' = Cores, ~SecondGrabMayBlock, CountersFit, NEW w \in TaskThreads, WorkerStep(w)
    PROVE  CountersFit'
<1>1. /\ at' = [at EXCEPT ![w] = at'[w]] /\ (\A v \in TaskThreads : v # w => state'[v] = state[v])
      /\ \A u \in Threads : help'[u] = help[u] \/ (WakesNobody(help[u]) /\ WakesNobody(help'[u]))
      /\ w \in Threads
    <2>1. state' = state \/ state' = [state EXCEPT ![w] = "inactive"]
        BY WorkerFrame
    <2>2. \A v \in TaskThreads : v # w => state'[v] = state[v]
        BY <2>1 DEF PInv, TypeOK
    <2> QED
        BY <2>2, WorkerFrame, PoolThreads
<1>2. /\ active \in Int /\ hardware[w] \in Cores /\ at \in [Threads -> Places]
      /\ state \in [TaskThreads -> {"inactive", "active", "locked"}]
    BY DEF PInv, TypeOK
<1>3. /\ at[w] \in {"deactivate", "leave_state"} => state[w] = "active"
      /\ at[w] \in {"deactivate", "deactivate_core", "deactivate_count"} => back[w] \in {"exited", "regrab"}
    BY DEF PInv, FlowOK, StateFits, AwakePlaces
<1> USE <1>1, <1>2 DEF Step, Moves, At, Goto, BlockAt
<1> DEFINE Neutral == {"top", "pausing", "paused", "resumed", "grab", "grab_locked", "idle", "deactivate",
               "execute", "execute_on", "oversubscribed", "permanent", "leave_core", "locks", "regrab",
               "regrab_locked", "reactivate", "asleep", "asleep_with_task", "exited"}
\* Nothing that counts changes.
<1>4. CASE UNCHANGED <<state, counts>> /\ at[w] \in Neutral /\ at'[w] \in Neutral
    <2>1. CoresShift(0) /\ active' = active
        BY <1>4 DEF CoresShift, counts
    <2>2. ActiveDue(w)' = ActiveDue(w) /\ ActiveDue(w) \in Int /\ CoreDue(w)' = CoreDue(w) + 0
        BY <1>4 DEF ActiveDue, CoreDue, Is
    <2> QED
        BY <2>1, <2>2, MoveKeepsCounters
<1>5. CASE Wake(w) \/ Top(w) \/ PauseStep(w) \/ Grab(w) \/ Idle(w) \/ Regrab(w) \/ Reactivate(w)
           \/ ExecuteTask(w) \/ OversubscribedCheck(w, "leave_core", "top")
    BY <1>4, <1>5 DEF Wake, Top, PauseStep, Grab, Regrab, TakeTask, FindsNoTask, Idle, Reactivate, ExecuteTask,
        Execute, OversubscribedCheck, worker, counts
<1>6. CASE Deactivate(w)
    <2>1. CASE /\ at[w] = "deactivate" /\ at'[w] = "deactivate_core"
               /\ SetState(w, "inactive") /\ UNCHANGED counts
        <3>1. CoresShift(0) /\ active' = active
            BY <2>1 DEF CoresShift, counts
        <3>2. state[w] = "active" /\ state'[w] = "inactive"
            BY <1>3, <2>1 DEF SetState
        <3>3. ActiveDue(w)' = ActiveDue(w) /\ ActiveDue(w) \in Int /\ CoreDue(w)' = CoreDue(w) + 0
            BY <2>1, <3>2 DEF ActiveDue, CoreDue, Is
        <3> QED
            BY <3>1, <3>3, MoveKeepsCounters
    <2>2. CASE /\ at[w] = "deactivate_core" /\ at'[w] = "deactivate_count"
               /\ CoreDown(hardware[w]) /\ UNCHANGED <<state, active>>
        <3>1. CoresShift(-1)
            BY <2>2, CoreShifts
        <3>2. ActiveDue(w)' = ActiveDue(w) /\ ActiveDue(w) \in Int /\ CoreDue(w)' = CoreDue(w) + (-1)
            BY <2>2 DEF ActiveDue, CoreDue, Is
        <3> QED
            BY <2>2, <3>1, <3>2, MoveKeepsCounters
    <2>3. CASE /\ at[w] = "deactivate_count" /\ at'[w] = back[w]
               /\ active' = active - 1 /\ UNCHANGED <<state, coreCount>>
        <3>1. CoresShift(0)
            BY <2>3 DEF CoresShift
        <3>2. ActiveDue(w)' = ActiveDue(w) - 1 /\ ActiveDue(w) \in Int /\ CoreDue(w)' = CoreDue(w) + 0
            BY <1>3, <2>3 DEF ActiveDue, CoreDue, Is
        <3> QED
            BY <2>3, <3>1, <3>2, MoveKeepsCounters
    <2> QED
        BY <1>6, <2>1, <2>2, <2>3 DEF Deactivate
<1>7. CASE LeaveOversubscribed(w)
    <2>1. CASE /\ at[w] = "leave_core" /\ at'[w] \in {"return_core", "leave_state"}
               /\ CoreDown(hardware[w]) /\ UNCHANGED <<state, active>>
        <3>1. CoresShift(-1)
            BY <2>1, CoreShifts
        <3>2. ActiveDue(w)' = ActiveDue(w) /\ ActiveDue(w) \in Int /\ CoreDue(w)' = CoreDue(w) + (-1)
            BY <2>1 DEF ActiveDue, CoreDue, Is
        <3> QED
            BY <2>1, <3>1, <3>2, MoveKeepsCounters
    <2>2. CASE /\ at[w] = "return_core" /\ at'[w] = "top"
               /\ CoreUp(hardware[w]) /\ UNCHANGED <<state, active>>
        <3>1. CoresShift(1)
            BY <2>2, CoreShifts
        <3>2. ActiveDue(w)' = ActiveDue(w) /\ ActiveDue(w) \in Int /\ CoreDue(w)' = CoreDue(w) + 1
            BY <2>2 DEF ActiveDue, CoreDue, Is
        <3> QED
            BY <2>2, <3>1, <3>2, MoveKeepsCounters
    <2>3. CASE /\ at[w] = "leave_state" /\ at'[w] = "leave_count"
               /\ SetState(w, "inactive") /\ UNCHANGED counts
        <3>1. CoresShift(0) /\ active' = active
            BY <2>3 DEF CoresShift, counts
        <3>2. state[w] = "active" /\ state'[w] = "inactive"
            BY <1>3, <2>3 DEF SetState
        <3>3. ActiveDue(w)' = ActiveDue(w) /\ ActiveDue(w) \in Int /\ CoreDue(w)' = CoreDue(w) + 0
            BY <2>3, <3>2 DEF ActiveDue, CoreDue, Is
        <3> QED
            BY <3>1, <3>3, MoveKeepsCounters
    <2>4. CASE /\ at[w] = "leave_count" /\ at'[w] = "asleep"
               /\ active' = active - 1 /\ UNCHANGED <<state, coreCount>>
        <3>1. CoresShift(0)
            BY <2>4 DEF CoresShift
        <3>2. ActiveDue(w)' = ActiveDue(w) - 1 /\ ActiveDue(w) \in Int /\ CoreDue(w)' = CoreDue(w) + 0
            BY <2>4 DEF ActiveDue, CoreDue, Is
        <3> QED
            BY <2>4, <3>1, <3>2, MoveKeepsCounters
    <2> QED
        BY <1>7, <2>1, <2>2, <2>3, <2>4 DEF LeaveOversubscribed
<1> QED
    BY <1>5, <1>6, <1>7 DEF WorkerStep

\* The owner touches neither count but where it blocks.
LEMMA OwnerKeepsCounters ==
    ASSUME PInv, Cores' = Cores, CountersFit, OwnerStep \/ OwnerCalls
    PROVE  CountersFit'
<1>1. /\ UNCHANGED <<state, coreCount, active>> /\ at' = [at EXCEPT ![Owner] = at'[Owner]]
      /\ \A u \in Threads : help'[u] = help[u] \/ (WakesNobody(help[u]) /\ WakesNobody(help'[u]))
      /\ Owner \in Threads /\ Owner \notin TaskThreads /\ at \in [Threads -> Places] /\ active \in Int
      /\ back[Owner] \in Places
    BY OwnerFrame, PoolThreads DEF PInv, TypeOK
<1>2. at[Owner] \notin {"locks_help", "blocked"} /\ at'[Owner] \notin {"locks_help", "blocked"}
    <2>1. at[Owner] = "new_task" => back[Owner] \in {"running", "all_paused"}
        BY DEF PInv, FlowOK
    <2> USE <1>1, <2>1 DEF Step, Moves, At, Goto, BlockAt
    <2>2. CASE OnNewTask
        BY <2>2 DEF OnNewTask
    <2>3. CASE StartWaiting \/ ExecuteChildren \/ WaitForChildren
        BY <2>3 DEF StartWaiting, ExecuteChildren, WaitForChildren, TakeTask, FindsNoTask, Execute,
            OversubscribedCheck
    <2>4. CASE AllPaused \/ ResumeAll \/ AllResumed \/ AwaitExit
        BY <2>4 DEF AllPaused, ResumeAll, AllResumed, AwaitExit
    <2>5. CASE OwnerCalls
        BY <2>5 DEF OwnerCalls, Spawn, PauseAll, Destroy
    <2> QED
        BY <2>2, <2>3, <2>4, <2>5 DEF OwnerStep
<1>3. ActiveDue(Owner)' = ActiveDue(Owner) /\ ActiveDue(Owner) \in Int /\ CoreDue(Owner)' = CoreDue(Owner) + 0
    BY <1>1, <1>2 DEF ActiveDue, CoreDue, Is
<1>4. CoresShift(0)
    BY <1>1 DEF CoresShift
<1>5. active' = active + ActiveDue(Owner)' - ActiveDue(Owner)
    BY <1>1, <1>3
<1> QED
    BY <1>1, <1>3, <1>4, <1>5, MoveKeepsCounters

\* In the beginning the workers are inactive and each user counts on its core.
LEMMA InitCounters == Init => CountersFit
<1> SUFFICES ASSUME Init PROVE CountersFit
    OBVIOUS
<1> DEFINE UsersOn(s) == {u \in Users : UserCore[u] \in s}
           g == [s \in SUBSET Cores |-> Cardinality(UsersOn(s))]
<1>1. /\ \A w \in TaskThreads : at[w] = "asleep" /\ state[w] = "inactive"
      /\ \A u \in Users : at[u] = "running"
      /\ \A t \in Threads : help[t].stage = "none"
    BY PoolThreads DEF Init, NotHelping
<1>2. /\ Activated = {} /\ Counting = {} /\ Placing = {} /\ Unblocked = Users
      /\ AtOneOf({"unlocks_count"}) = {} /\ AtOneOf({"deactivate_core", "unlocks_state"}) = {}
      /\ AtOneOf({"locks_state", "leave_state", "return_core"}) = {}
      /\ AtOneOf({"deactivate_core", "deactivate_count", "leave_count", "locks_count"}) = {}
    BY <1>1 DEF Activated, Counting, Placing, Unblocked, AtOneOf
<1>3. ActiveTotal = 0 /\ CoreTotal = Cardinality(Users) /\ Cardinality(Users) \in Nat
    <2>1. Cardinality({}) = 0 /\ Cardinality(Users) \in Nat
        BY FS_EmptySet, FS_CardinalityType, PoolAssumption
    <2>2. /\ Cardinality(Activated) = 0 /\ Cardinality(Counting) = 0 /\ Cardinality(Placing) = 0
          /\ Cardinality(AtOneOf({"unlocks_count"})) = 0
          /\ Cardinality(AtOneOf({"deactivate_core", "unlocks_state"})) = 0
          /\ Cardinality(AtOneOf({"locks_state", "leave_state", "return_core"})) = 0
          /\ Cardinality(AtOneOf({"deactivate_core", "deactivate_count", "leave_count", "locks_count"})) = 0
        BY <1>2, <2>1
    <2>3. Cardinality(Unblocked) = Cardinality(Users)
        BY <1>2
    <2> QED
        BY <2>1, <2>2, <2>3 DEF ActiveTotal, CoreTotal
<1>4. \A s : IsFiniteSet(UsersOn(s)) /\ Cardinality(UsersOn(s)) \in Nat
    BY PoolAssumption, FS_Subset, FS_CardinalityType
<1>5. g[Cores] = Cardinality(Users)
    <2>1. UserCore[Owner] \in Nat /\ \A u \in Users : UserCore[u] \in Cores
        BY PoolAssumption DEF Init, Cores, NumCores
    <2>2. UsersOn(Cores) = Users
        BY <2>1
    <2> QED
        BY <2>2
<1>6. ASSUME NEW s \in SUBSET Cores, s # {}, NEW x, x = CHOOSE y \in s : TRUE
      PROVE  g[s] = coreCount[x] + g[s \ {x}]
    <2>1. x \in s /\ x \in Cores
        BY <1>6
    <2> DEFINE here == {u \in Users : UserCore[u] = x}
    <2>2. coreCount[x] = Cardinality(here)
        BY <2>1 DEF Init
    <2>3. UsersOn(s) = here \cup UsersOn(s \ {x}) /\ here \cap UsersOn(s \ {x}) = {}
        BY <2>1
    <2>4. IsFiniteSet(here)
        BY PoolAssumption, FS_Subset
    <2>5. Cardinality(here) \in Nat
        BY <2>4, FS_CardinalityType
    <2> DEFINE rest == UsersOn(s \ {x})
    <2>6. IsFiniteSet(rest) /\ Cardinality(rest) \in Nat
        BY <1>4
    <2>7. UsersOn(s) = here \cup rest /\ here \cap rest = {}
        BY <2>3
    <2>8. g[s] = Cardinality(UsersOn(s)) /\ g[s \ {x}] = Cardinality(rest)
        OBVIOUS
    <2> HIDE DEF here, rest, UsersOn, g
    <2>9. Cardinality(here \cup rest) = Cardinality(here) + Cardinality(rest) - Cardinality(here \cap rest)
        BY <2>4, <2>6, FS_Union
    <2>10. Cardinality(here \cap rest) = 0
        BY <2>7, FS_EmptySet
    <2> QED
        BY <2>2, <2>5, <2>6, <2>7, <2>8, <2>9, <2>10
<1>7. g[{}] = 0
    <2>1. UsersOn({}) = {}
        OBVIOUS
    <2> QED
        BY <2>1, FS_EmptySet
<1>8. IsSum(g, coreCount, Cores)
    <2>1. g \in [SUBSET Cores -> Int]
        BY <1>4
    <2> HIDE DEF g
    <2>2. Adds(g, coreCount, Cores)
        BY <1>6, <1>7 DEF Adds
    <2> QED
        BY <2>1, <2>2 DEF IsSum
<1>9. CoresCounted
    <2> HIDE DEF g
    <2> QED
        BY <1>3, <1>5, <1>8 DEF CoresCounted
<1> QED
    BY <1>3, <1>9 DEF Init, CountersFit

\* Both counters are exact up to what is under way, in every state of the pool.
LEMMA CountsKept ==
    ASSUME CountsInv, [Next]_vars
    PROVE  CountsInv'
<1>1. CASE Next
    <2>1. PInv /\ PInv' /\ setting' = setting /\ Cores' = Cores
        BY <1>1, FlowKept, StatesKept, HelpKept, WakeUpsKept, PauseKept, TasksKept, TypesKept, SettingsKept
           DEF PInv, CountsInv
    <2>2. SecondGrabMayBlock' <=> SecondGrabMayBlock
        BY <2>1 DEF SecondGrabMayBlock, may
    <2>3. ASSUME ~SecondGrabMayBlock, CountersFit PROVE CountersFit'
        BY <1>1, <2>1, <2>3, HelpKeepsCounters, BlockingKeepsCounters, WorkerKeepsCounters, OwnerKeepsCounters
           DEF Next
    <2> QED
        BY <2>1, <2>2, <2>3 DEF CountsInv
<1>2. CASE UNCHANGED vars
    <2>1. UNCHANGED <<state, coreCount, active, at, help, setting>>
        BY <1>2 DEF vars, worker, counts
    <2>2. PInv'
        BY <1>2, StuttersKeepPInv DEF CountsInv
    <2>3. UNCHANGED <<CountersFit, SecondGrabMayBlock>>
        BY <2>1 DEF CountersFit, ActiveTotal, CoresCounted, CoreTotal, Activated, Counting, Placing, Unblocked,
            AtOneOf, SecondGrabMayBlock, may, Cores, NumCores
    <2> QED
        BY <2>2, <2>3 DEF CountsInv
<1> QED
    BY <1>1, <1>2

\* Where the second grab of a worker cannot block, m_active_task_thread_count and
\* the counts of the cores are exact: they are what the states of the workers and
\* the users say, up to the interlocked operations that are still to come.
THEOREM CountersAreExact == Spec => []CountersExact
<1>1. Init => CountsInv
    BY InitPInv, InitCounters DEF CountsInv
<1>2. CountsInv /\ [Next]_vars => CountsInv'
    BY CountsKept
<1>3. CountsInv => CountersExact
    <2> SUFFICES ASSUME PInv, CountersFit PROVE ActiveCountExact /\ CoreCountTotal
        BY DEF CountsInv, CountersExact
    <2>1. ActiveCountExact
        BY CountedAreFinite DEF CountersFit, ActiveTotal, ActiveCountExact, Activated, Counting, PInv, TypeOK
    <2>2. PICK g : IsSum(g, coreCount, Cores) /\ g[Cores] = CoreTotal
        BY DEF CountersFit, CoresCounted
    <2>3. IsFiniteSet(Cores)
        BY CoresExist, FS_Interval
    <2>4. MapThenSumSet(LAMBDA c : coreCount[c], Cores) = g[Cores]
        BY <2>2, <2>3, SumIsFold
    <2>5. CoreCountTotal
        BY <2>2, <2>4 DEF CoreCountTotal, CoreTotal, Unblocked, Activated, Placing
    <2> QED
        BY <2>1, <2>5
<1> QED
    BY <1>1, <1>2, <1>3, PTL DEF Spec
=============================================================================
