------------------------------- MODULE MCEngine -------------------------------
(***************************************************************************)
(* Instantiates for TLC what must go on for the engine to run: simple_lock,*)
(* remote calls, the render channel, the frame loop, the wait of a task for*)
(* its children, queries of resources and of devices.  They share no       *)
(* variable (a call is one flag of FrameLoop, a command one count):        *)
(* `subject` says which one a behaviour is about, the others stay as they  *)
(* begin.                                                                  *)
(***************************************************************************)
EXTENDS SimpleLock, RemoteCallers, NamedQueries, TLC

CONSTANTS
    Subjects,                                       \* the subjects of the run
    Items, Null, Scenes,                            \* RenderChannel
    MaxSwitches, MaxLag,                            \* FrameLoop
    Workers, User, Tasks, Root, MaxSpawns, MaxWaits,      \* TaskTree
    DeviceUsers, MainUser, Sender, Nobody, MaxCalls \* DeviceQueries

\* What the proofs need to know of the constants that no module assumes.
ASSUME EngineAssumption ==
    /\ MaxSwitches \in Nat
    /\ IsFiniteSet(Items) /\ Null \notin Items /\ \E x, y \in Items : x # y
    /\ MaxCalls \in Nat /\ MainUser \in DeviceUsers /\ Nobody \notin DeviceUsers

VARIABLES
    subject,
    callback, breakParameters, pending, destruction, logic,
    allocated, next, forward, backward,
    kind, isDeferred, list, drawn, renderAt, cursor, look, event, closed,
    isEditor, gameEnabled, lastEnabled, active, logicAhead, editorAhead, unprocessed,
    isLogicEnabled, logicEnded, editorEnded, logicAt, editorAt, renderThreadAt, call, switches,
    taskState, references, parent, children, counter, waiter, pendingTasks, typeTasks,
    signalled, currentTask, stack, stopped, spawns, waits,
    userAt, guard, failed, resource, nextReferer, count, hasEntry, late,
    strayed, link, head, tail, creator, back, nodes, returned, called, deviceAt, mine, seen, calls,
    device, synchronous, accessStarted, accessEnded, finalized

Apc     == INSTANCE RemoteCalls
Channel == INSTANCE RenderChannel WITH render <- renderAt
Loop    == INSTANCE FrameLoop
           WITH logic <- logicAt, editor <- editorAt, render <- renderThreadAt
Tree == INSTANCE TaskTree
        WITH TasksSpawn <- FALSE, TasksSkipWait <- FALSE,
             state <- taskState, current <- currentTask
Registry == INSTANCE NameRegistry WITH at <- userAt, next <- nextReferer
Device == INSTANCE DeviceQueries
          WITH Users <- DeviceUsers, Main <- MainUser, allocated <- nodes, at <- deviceAt,
               started <- accessStarted, ended <- accessEnded, closed <- finalized

apcVars == <<callback, breakParameters, pending, caller, current, destruction, logic, served>>
channelVars == <<allocated, next, forward, backward, kind, isDeferred, list, drawn, renderAt,
                 cursor, look, event, closed>>
loopVars == <<isEditor, gameEnabled, lastEnabled, active, logicAhead, editorAhead, unprocessed,
              isLogicEnabled, logicEnded, editorEnded, logicAt, editorAt, renderThreadAt, call,
              switches>>
treeVars == <<taskState, references, parent, children, counter, waiter, pendingTasks, typeTasks,
              signalled, currentTask, stack, stopped, spawns, waits>>
registryVars == <<host, shared, userAt, cooking, guard, failed, resource, nextReferer, isReferer,
                  created, ended, count, hasEntry, deleted, walk, late>>
deviceVars == <<strayed, link, head, tail, creator, back, nodes, returned, called, deviceAt, mine,
                seen, calls, device, synchronous, accessStarted, accessEnded, finalized>>

EngineInit ==
    /\ Init /\ Apc!Init /\ Channel!Init /\ Loop!Init /\ Tree!Init
    /\ Registry!Init /\ Device!Init
    /\ subject \in Subjects
    /\ subject # "frame_loop" => active /\ ~isEditor

EngineNext ==
    /\ UNCHANGED subject
    /\ subject # "name_registry" => UNCHANGED registryVars
    /\ subject # "device" => UNCHANGED deviceVars
    /\ \/ subject = "simple_lock"    /\ Next         /\ UNCHANGED <<apcVars, channelVars, loopVars, treeVars>>
       \/ subject = "apc"            /\ Apc!Next     /\ UNCHANGED <<vars, channelVars, loopVars, treeVars>>
       \/ subject = "render_channel" /\ Channel!Next /\ UNCHANGED <<vars, apcVars, loopVars, treeVars>>
       \/ subject = "frame_loop"     /\ Loop!Next    /\ UNCHANGED <<vars, apcVars, channelVars, treeVars>>
       \/ subject = "task_wait"      /\ Tree!Next    /\ UNCHANGED <<vars, apcVars, channelVars, loopVars>>
       \/ subject = "name_registry" /\ Registry!Next
          /\ UNCHANGED <<vars, apcVars, channelVars, loopVars, treeVars>>
       \/ subject = "device" /\ Device!Next
          /\ UNCHANGED <<vars, apcVars, channelVars, loopVars, treeVars>>

\* The fairness of the specification the behaviour is about.
EngineSpec ==
    /\ EngineInit /\ [][EngineNext]_<<subject, vars, apcVars, channelVars, loopVars, treeVars,
                                  registryVars, deviceVars>>
    /\ WF_apcVars(subject = "apc" /\ Apc!Caller) /\ WF_apcVars(subject = "apc" /\ Apc!Logic)
    /\ WF_channelVars(subject = "render_channel" /\ Channel!Render)
    /\ WF_loopVars(subject = "frame_loop" /\ Loop!Logic)
    /\ WF_loopVars(subject = "frame_loop" /\ Loop!Editor)
    /\ WF_loopVars(subject = "frame_loop" /\ Loop!Render)
    /\ \A t \in Tree!AllThreads : WF_treeVars(subject = "task_wait" /\ Tree!Run(t))
    /\ WF_registryVars(subject = "name_registry" /\ Registry!ResourcesThread)
    /\ \A q \in Queries : WF_registryVars(subject = "name_registry" /\ Registry!Goes(q))
    /\ WF_deviceVars(subject = "device" /\ Device!DeviceThread)
    /\ \A u \in DeviceUsers : WF_deviceVars(subject = "device" /\ Device!UserSteps(u))

\* The types of the components (TaskTree's is checked by another run).
EngineTypesOK ==
    /\ subject = "simple_lock"    => TypeOK
    /\ subject = "apc"            => Apc!TypeOK
    /\ subject = "render_channel" => Channel!TypeOK
    /\ subject = "frame_loop"     => Loop!TypeOK
    /\ subject = "name_registry"  => Registry!TypeOK
    /\ subject = "device"         => Device!TypeOK

\* The properties of the modules, stated there (those of remote calls and of the
\* name registry come with RemoteCallers and NamedQueries).
CallsAreServed          == subject = "apc" => Apc!EngineStops
NothingUsedIsDeleted    == Channel!NothingUsedIsDeleted
DeferredUntilDrawn      == Channel!DeferredUntilDrawn
ImplementsDelivery      == Channel!ImplementsDelivery
PushedIsProcessed       == subject = "render_channel" => Channel!PushedIsProcessed
EngineAssertions        == Loop!AssertionsOfTheCode /\ Device!AssertionsOfTheCode
UsesLiveQueries         == Device!UsesLiveQueries
NeitherRunsAway         == Loop!NeitherRunsAway
FramesGoOn              == subject = "frame_loop" => Loop!FramesGoOn
SkipsWhileRenderWorks   == Loop!SkipsWhileRenderWorks
WaitEnds                == subject = "task_wait" => Tree!WaitEnds
HeadStaysAlive          == Device!HeadStaysAlive
ReclaimedIsNotDeleted   == Registry!ReclaimedIsNotDeleted
EveryQueryEnds          == /\ subject = "name_registry" => Registry!EveryQueryEnds
                           /\ subject = "device" => Device!EveryQueryEnds
=============================================================================
