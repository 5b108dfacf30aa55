----------------------------- MODULE RemoteCalls -----------------------------
(***************************************************************************)
(* Asynchronous procedure calls of the engine (apc.cpp): the render thread *)
(* makes the logic thread run its functions, through one mailbox.          *)
(*                                                                         *)
(* The logic thread serves calls in three ways: apc::process when it       *)
(* starts, until a call breaks that loop; one call at most per frame       *)
(* (try_process_single_call), which does not look whether the call breaks; *)
(* apc::process again once destruction has started, until a call breaks    *)
(* it.  The calls are those of engine_world::initialize and finalize and,  *)
(* between them, calls that are waited for, such as enable_game.           *)
(***************************************************************************)
EXTENDS RemoteCallers

VARIABLES
    callback,           \* m_callback: 0 or the number of the call
    breakParameters,    \* m_break_parameters = break_process_loop
    pending,            \* m_pending
    destruction,        \* m_destruction_started
    logic               \* where the logic thread is

mailbox == <<callback, breakParameters, pending>>
vars    == <<mailbox, caller, current, destruction, logic, served>>

Init ==
    /\ callback = 0 /\ breakParameters = TRUE /\ pending = FALSE
    /\ caller = "wait" /\ current = 1
    /\ destruction = FALSE
    /\ logic = "process"
    /\ served = <<>>

-----------------------------------------------------------------------------
(* The caller: run.                                                        *)

\* wait: until the call before has been served.
Wait ==
    /\ caller = "wait" /\ current <= Last /\ ~pending
    /\ current > StartupBreak + GameCalls => destruction
    /\ caller' = "store_callback"
    /\ UNCHANGED <<mailbox, current, destruction, logic, served>>

StoreCallback ==
    /\ caller = "store_callback"
    /\ callback' = current
    /\ caller' = "store_break"
    /\ UNCHANGED <<breakParameters, pending, current, destruction, logic, served>>

StoreBreak ==
    /\ caller = "store_break"
    /\ breakParameters' = Breaks(current)
    /\ caller' = "raise"
    /\ UNCHANGED <<callback, pending, current, destruction, logic, served>>

\* m_pending is raised last; the next call follows at once, or after this one.
Raise ==
    /\ caller = "raise"
    /\ pending' = TRUE
    /\ caller' = IF WaitsFor(current) THEN "complete" ELSE "wait"
    /\ current' = IF WaitsFor(current) THEN current ELSE current + 1
    /\ UNCHANGED <<callback, breakParameters, destruction, logic, served>>

Complete ==
    /\ caller = "complete" /\ ~pending
    /\ caller' = "wait" /\ current' = current + 1
    /\ UNCHANGED <<mailbox, destruction, logic, served>>

\* exit: m_destruction_started is set, and the render thread finalizes.
StartDestruction ==
    /\ caller = "wait" /\ current = StartupBreak + GameCalls + 1 /\ ~destruction
    /\ destruction' = TRUE
    /\ UNCHANGED <<mailbox, caller, current, logic, served>>

-----------------------------------------------------------------------------
(* The logic thread.                                                       *)

Processing == {"process", "process_again"}

\* process: runs the function, having read whether it breaks the loop ...
Process ==
    /\ logic \in Processing /\ pending
    /\ served' = Append(served, callback)
    /\ logic' = IF logic = "process"
                  THEN IF breakParameters THEN "break" ELSE "continue"
                  ELSE IF breakParameters THEN "break_again" ELSE "continue_again"
    /\ UNCHANGED <<mailbox, caller, current, destruction>>

\* ... and clears m_pending.
Processed ==
    /\ logic \in {"break", "continue", "break_again", "continue_again"}
    /\ pending' = FALSE
    /\ logic' = CASE logic = "continue"       -> "process"
                  [] logic = "break"          -> "frame"
                  [] logic = "continue_again" -> "process_again"
                  [] logic = "break_again"    -> "done"
    /\ UNCHANGED <<callback, breakParameters, caller, current, destruction, served>>

\* Mutant: the frames go on in spite of the destruction.
FrameForEver ==
    /\ logic = "frame"
    /\ logic' = "try"
    /\ UNCHANGED <<mailbox, caller, current, destruction, served>>

\* Between two frames the logic thread looks whether to stop.
Frame ==
    /\ logic = "frame"
    /\ logic' = IF destruction THEN "process_again" ELSE "try"
    /\ UNCHANGED <<mailbox, caller, current, destruction, served>>

\* try_process_single_call
Try ==
    /\ logic = "try"
    /\ IF pending THEN served' = Append(served, callback) /\ logic' = "tried"
                  ELSE UNCHANGED served /\ logic' = "frame"
    /\ UNCHANGED <<mailbox, caller, current, destruction>>

\* Mutant: m_pending stays raised.
TriedStill ==
    /\ logic = "tried"
    /\ logic' = "frame"
    /\ UNCHANGED <<mailbox, caller, current, destruction, served>>

Tried ==
    /\ logic = "tried"
    /\ pending' = FALSE
    /\ logic' = "frame"
    /\ UNCHANGED <<callback, breakParameters, caller, current, destruction, served>>

-----------------------------------------------------------------------------
Caller == Wait \/ StoreCallback \/ StoreBreak \/ Raise \/ Complete \/ StartDestruction
Logic  == Process \/ Processed \/ Frame \/ Try \/ Tried
Next   == Caller \/ Logic

Spec     == Init /\ [][Next]_vars
FairSpec == Spec /\ WF_vars(Caller) /\ WF_vars(Logic)

-----------------------------------------------------------------------------
TypeOK ==
    /\ callback \in Calls \cup {0}
    /\ {breakParameters, pending, destruction} \subseteq BOOLEAN
    /\ caller \in {"wait", "store_callback", "store_break", "raise", "complete"}
    /\ current \in 1 .. Last + 1
    /\ logic \in Processing \cup {"break", "continue", "break_again", "continue_again",
                                  "frame", "try", "tried", "done"}
    /\ served \in Seq(Calls)

\* The engine stops: every call runs, and the logic thread leaves its last loop,
\* although a call that breaks a loop would break nothing if it were served
\* between two frames.
EngineStops == <>(logic = "done" /\ Len(served) = Last)
=============================================================================
