------------------------------ MODULE FrameLoop ------------------------------
(***************************************************************************)
(* How the logic thread, the editor thread and the render thread keep step *)
(* (engine_world_logic.cpp, engine_world_editor.cpp, engine_world.cpp,     *)
(* render_facade_world.cpp).                                               *)
(*                                                                         *)
(* The logic and the editor each end a frame by a command in their channel *)
(* to the renderer, and hold themselves back by its frame number.  The     *)
(* renderer ends its frame when it has executed both commands.  The editor *)
(* switches the game on and off: then the logic sends no frames, and the   *)
(* renderer must not wait for one.  Frame numbers are kept relative to the *)
(* renderer's: logicAhead is m_logic_frame_id - frame_id().                *)
(***************************************************************************)
EXTENDS Integers

CONSTANTS
    MaxSwitches,    \* bound: how often the editor switches the game
    MaxLag          \* bound: how far the renderer gets ahead of an idle logic

VARIABLES
    isEditor,           \* m_is_editor: there is an editor thread
    gameEnabled,        \* m_game_enabled
    lastEnabled,        \* m_last_game_enabled_value
    active,             \* is_application_active()
    logicAhead, editorAhead,
    unprocessed,        \* the end_frame commands in each channel
    isLogicEnabled,     \* m_is_logic_enabled
    logicEnded,         \* m_is_logic_frame_ended
    editorEnded,        \* m_is_editor_frame_ended
    logic, editor, render,      \* where each thread is
    call,               \* the call of enable waits in the logic's mailbox
    switches

world  == <<isLogicEnabled, logicEnded, editorEnded>>
ahead  == <<logicAhead, editorAhead, unprocessed>>
game   == <<gameEnabled, lastEnabled, active, call, switches>>
vars   == <<isEditor, game, ahead, world, logic, editor, render>>

\* A game without an editor is on for good.  With an editor initialize() turns
\* it off before the first frame.
Init ==
    /\ isEditor \in BOOLEAN
    /\ gameEnabled = ~isEditor /\ lastEnabled = gameEnabled
    /\ active \in BOOLEAN
    /\ logicAhead = 0 /\ editorAhead = 0
    /\ unprocessed = [logic |-> 0, editor |-> 0]
    /\ isLogicEnabled = ~isEditor /\ logicEnded = isEditor /\ editorEnded = ~isEditor
    /\ logic = "tick" /\ editor = "out" /\ render = "tick"
    /\ call = FALSE
    /\ switches = 0

-----------------------------------------------------------------------------
(* The logic thread.                                                       *)

\* logic_tick remembers whether the game was on ...
RememberEnabled ==
    /\ logic = "tick"
    /\ lastEnabled' = gameEnabled
    /\ logic' = "remembered"
    /\ UNCHANGED <<isEditor, gameEnabled, active, call, switches, ahead, world, editor, render>>

\* ... and counts a frame that does nothing while it is off ...
IdleTick ==
    /\ logic = "remembered" /\ ~(gameEnabled /\ active)
    /\ logicAhead' = IF gameEnabled THEN logicAhead ELSE logicAhead + 1
    /\ logic' = "ticked"
    /\ UNCHANGED <<isEditor, game, editorAhead, unprocessed, world, editor, render>>

\* ... or ticks the game, which ends its frame by game::renderer::end_frame.
GameTick ==
    /\ logic = "remembered" /\ gameEnabled /\ active
    /\ unprocessed' = [unprocessed EXCEPT !.logic = @ + 1]
    /\ logicAhead' = logicAhead + 1
    /\ logic' = "ticked"
    /\ UNCHANGED <<isEditor, game, editorAhead, world, editor, render>>

\* The frame after a tick: the logic is too far ahead, or serves a call.
AfterTick ==
    /\ logic = "ticked"
    /\ IF logicAhead > 1 THEN logic' = "held" /\ UNCHANGED call
                         ELSE logic' = "tick" /\ call' = FALSE
    /\ UNCHANGED <<isEditor, gameEnabled, lastEnabled, active, switches, ahead, world, editor, render>>

\* One turn of the loop that holds the logic back.
Held ==
    /\ logic = "held"
    /\ IF gameEnabled /\ ~lastEnabled
         THEN logicAhead' = logicAhead - 1 /\ UNCHANGED call
         ELSE call' = FALSE /\ UNCHANGED logicAhead
    /\ logic' = "again"
    /\ UNCHANGED <<isEditor, gameEnabled, lastEnabled, active, switches, editorAhead, unprocessed,
                   world, editor, render>>

HeldAgain ==
    /\ logic = "again"
    /\ logic' = IF logicAhead > 1 THEN "held" ELSE "tick"
    /\ UNCHANGED <<isEditor, game, ahead, world, editor, render>>

Logic == RememberEnabled \/ IdleTick \/ GameTick \/ AfterTick \/ Held \/ HeldAgain

-----------------------------------------------------------------------------
(* The editor thread.                                                      *)

\* Mutant: the editor may be a frame further ahead.
TickFurther ==
    /\ isEditor /\ editor = "out" /\ editorAhead <= 2
    /\ unprocessed' = [unprocessed EXCEPT !.editor = @ + 1]
    /\ editorAhead' = editorAhead + 1
    /\ UNCHANGED <<isEditor, game, logicAhead, world, logic, editor, render>>

\* A tick of the editor, unless on_before_editor_tick skips it: its frame ends
\* by a command, on_after_editor_tick counts it.
EditorTick ==
    /\ isEditor /\ editor = "out" /\ editorAhead <= 1
    /\ unprocessed' = [unprocessed EXCEPT !.editor = @ + 1]
    /\ editorAhead' = editorAhead + 1
    /\ UNCHANGED <<isEditor, game, logicAhead, world, logic, editor, render>>

\* enable_game: the logic thread must first run engine_user::world::enable ...
AskLogic ==
    /\ isEditor /\ editor = "out" /\ switches < MaxSwitches
    /\ switches' = switches + 1
    /\ call' = TRUE
    /\ editor' = "asking"
    /\ UNCHANGED <<isEditor, gameEnabled, lastEnabled, active, ahead, world, logic, render>>

\* ... then m_game_enabled is set ...
SetGame ==
    /\ editor = "asking" /\ ~call
    /\ gameEnabled' = ~gameEnabled
    /\ editor' = "set"
    /\ UNCHANGED <<isEditor, lastEnabled, active, call, switches, ahead, world, logic, render>>

\* ... and enable_logic_thread_safety tells the renderer, in two steps when the
\* game goes off.
SetLogicEnabled ==
    /\ editor = "set" /\ isLogicEnabled # gameEnabled
    /\ isLogicEnabled' = gameEnabled
    /\ editor' = IF gameEnabled THEN "out" ELSE "off"
    /\ UNCHANGED <<isEditor, game, ahead, logicEnded, editorEnded, logic, render>>

SetLogicEnded ==
    /\ editor = "off"
    /\ logicEnded' = TRUE
    /\ editor' = "out"
    /\ UNCHANGED <<isEditor, game, ahead, isLogicEnabled, editorEnded, logic, render>>

\* Windows activates or deactivates the application.
Activate ==
    /\ active' = ~active
    /\ UNCHANGED <<isEditor, gameEnabled, lastEnabled, call, switches, ahead, world, logic, editor, render>>

Editor == EditorTick \/ SetGame \/ SetLogicEnabled \/ SetLogicEnded

-----------------------------------------------------------------------------
(* The render thread: world::tick.                                         *)

RenderTick ==
    /\ render = "tick"
    /\ render' = IF logicEnded THEN "editor_part" ELSE "logic_channel"
    /\ UNCHANGED <<isEditor, game, ahead, world, logic, editor>>

\* render_process_commands: up to the end of a frame, or until it is empty.
PopLogic ==
    /\ render = "logic_channel"
    /\ IF unprocessed.logic > 0
         THEN /\ unprocessed' = [unprocessed EXCEPT !.logic = @ - 1]
              /\ render' = "end_frame_logic"
         ELSE render' = "editor_part" /\ UNCHANGED unprocessed
    /\ UNCHANGED <<isEditor, game, logicAhead, editorAhead, world, logic, editor>>

\* Mutant: the frame ends without the editor's.
EndFrameLogicAlone ==
    /\ render = "end_frame_logic"
    /\ ~logicEnded \/ ~isLogicEnabled
    /\ logicEnded' = TRUE
    /\ render' = "end_in_logic"
    /\ UNCHANGED <<isEditor, game, ahead, isLogicEnabled, editorEnded, logic, editor>>

EndFrameLogic ==
    /\ render = "end_frame_logic"
    /\ ~logicEnded \/ ~isLogicEnabled
    /\ logicEnded' = TRUE
    /\ render' = IF editorEnded THEN "end_in_logic" ELSE "editor_part"
    /\ UNCHANGED <<isEditor, game, ahead, isLogicEnabled, editorEnded, logic, editor>>

EditorPart ==
    /\ render = "editor_part"
    /\ render' = IF editorEnded THEN "tick" ELSE "editor_channel"
    /\ UNCHANGED <<isEditor, game, ahead, world, logic, editor>>

PopEditor ==
    /\ render = "editor_channel"
    /\ IF unprocessed.editor > 0
         THEN /\ unprocessed' = [unprocessed EXCEPT !.editor = @ - 1]
              /\ render' = "end_frame_editor"
         ELSE render' = "tick" /\ UNCHANGED unprocessed
    /\ UNCHANGED <<isEditor, game, logicAhead, editorAhead, world, logic, editor>>

EndFrameEditor ==
    /\ render = "end_frame_editor"
    /\ ~editorEnded
    /\ editorEnded' = TRUE
    /\ render' = IF logicEnded THEN "end_in_editor" ELSE "tick"
    /\ UNCHANGED <<isEditor, game, ahead, isLogicEnabled, logicEnded, logic, editor>>

\* end_frame: the renderer's frame ends, and it looks whether to wait for the
\* logic in the next one ...
EndFrame ==
    /\ render \in {"end_in_logic", "end_in_editor"}
    /\ logicEnded /\ editorEnded /\ logicAhead > -MaxLag
    /\ logicAhead' = logicAhead - 1
    /\ editorAhead' = IF isEditor THEN editorAhead - 1 ELSE editorAhead
    /\ render' = IF render = "end_in_logic"
                   THEN IF isLogicEnabled THEN "reset_in_logic" ELSE "keep_in_logic"
                   ELSE IF isLogicEnabled THEN "reset_in_editor" ELSE "keep_in_editor"
    /\ UNCHANGED <<isEditor, game, unprocessed, world, logic, editor>>

\* Mutant: the logic is waited for although the game is off.
ResetBoth ==
    /\ render \in {"reset_in_logic", "reset_in_editor", "keep_in_logic", "keep_in_editor"}
    /\ logicEnded' = FALSE
    /\ editorEnded' = ~isEditor
    /\ render' = IF render \in {"reset_in_logic", "keep_in_logic"} THEN "editor_part" ELSE "tick"
    /\ UNCHANGED <<isEditor, game, ahead, isLogicEnabled, logic, editor>>

\* ... and resets the flags.
ResetEnded ==
    /\ render \in {"reset_in_logic", "reset_in_editor", "keep_in_logic", "keep_in_editor"}
    /\ logicEnded' = (logicEnded /\ render \in {"keep_in_logic", "keep_in_editor"})
    /\ editorEnded' = ~isEditor
    /\ render' = IF render \in {"reset_in_logic", "keep_in_logic"} THEN "editor_part" ELSE "tick"
    /\ UNCHANGED <<isEditor, game, ahead, isLogicEnabled, logic, editor>>

Render == \/ RenderTick \/ PopLogic \/ EndFrameLogic \/ EditorPart \/ PopEditor
          \/ EndFrameEditor \/ EndFrame \/ ResetEnded

-----------------------------------------------------------------------------
Next == Logic \/ Editor \/ AskLogic \/ Activate \/ Render

Spec == Init /\ [][Next]_vars

\* Each thread is scheduled.
FairSpec == Spec /\ WF_vars(Logic) /\ WF_vars(Editor) /\ WF_vars(Render)

-----------------------------------------------------------------------------
TypeOK ==
    /\ {isEditor, gameEnabled, lastEnabled, active, call} \subseteq BOOLEAN
    /\ {isLogicEnabled, logicEnded, editorEnded} \subseteq BOOLEAN
    /\ {logicAhead, editorAhead} \subseteq Int
    /\ unprocessed \in [{"logic", "editor"} -> Nat]
    /\ logic \in {"tick", "remembered", "ticked", "held", "again"}
    /\ editor \in {"out", "asking", "set", "off"}
    /\ switches \in 0 .. MaxSwitches

\* The assertions of render_facade_world.cpp: no frame of the logic or of the
\* editor ends twice within a frame of the renderer, the frame ends only with
\* both, and the game is switched only to what it is not.
AssertionsOfTheCode ==
    /\ render = "end_frame_logic" => ~logicEnded \/ ~isLogicEnabled
    /\ render = "end_frame_editor" => ~editorEnded
    /\ render \in {"end_in_logic", "end_in_editor"} => logicEnded /\ editorEnded
    /\ editor = "set" => isLogicEnabled # gameEnabled

\* 1 while the renderer has executed, or is executing, the end of a frame of
\* the thread without having ended its own.
Ending(ended, at) ==
    IF render = at \/ (ended /\ render \notin {"reset_in_logic", "reset_in_editor",
                                                "keep_in_logic", "keep_in_editor"})
      THEN 1 ELSE 0

\* Neither thread is ever more than two frames ahead of the renderer.  The
\* frames it is ahead are the frames it sent that the renderer has not ended:
\* for the editor always, for the logic if there is no editor to switch it off.
NeitherRunsAway ==
    /\ logicAhead <= 2 /\ editorAhead <= 2
    /\ isEditor  => editorAhead = unprocessed.editor + Ending(editorEnded, "end_frame_editor")
    /\ ~isEditor => logicAhead = unprocessed.logic + Ending(logicEnded, "end_frame_logic")

\* on_before_editor_tick "prevent[s] ticks when render is still working on
\* previous frames" (editor_world.cpp:435): with the game off, an editor that
\* is held back is let go on, or switches the game.
SkipsWhileRenderWorks ==
    (editorAhead > 1 /\ ~gameEnabled) ~> (editorAhead <= 1 \/ gameEnabled)

\* As long as the application is active the renderer ends frame after frame.
FramesGoOn == <>[]active => []<><<EndFrame>>_vars
=============================================================================
