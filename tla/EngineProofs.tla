---------------------------- MODULE EngineProofs ----------------------------
(***************************************************************************)
(* Proofs about the frame loop, the render channel and the queries of a    *)
(* device, as MCEngine instantiates them, and about the engine as a whole. *)
(***************************************************************************)
EXTENDS MCEngine, SimpleLockProofs, Integers, SequenceTheorems, FiniteSetTheorems, WellFoundedInduction, TLAPS

-----------------------------------------------------------------------------
(* The frame loop.                                                         *)

Resetting == {"reset_in_logic", "reset_in_editor", "keep_in_logic", "keep_in_editor"}
Rendering == {"tick", "logic_channel", "end_frame_logic", "editor_part", "editor_channel",
              "end_frame_editor", "end_in_logic", "end_in_editor"} \cup Resetting

LoopTypes ==
    /\ isEditor \in BOOLEAN /\ gameEnabled \in BOOLEAN /\ lastEnabled \in BOOLEAN
    /\ active \in BOOLEAN /\ call \in BOOLEAN
    /\ isLogicEnabled \in BOOLEAN /\ logicEnded \in BOOLEAN /\ editorEnded \in BOOLEAN
    /\ logicAhead \in Int /\ editorAhead \in Int
    /\ unprocessed \in [{"logic", "editor"} -> Nat]
    /\ logicAt \in {"tick", "remembered", "ticked", "held", "again"}
    /\ editorAt \in {"out", "asking", "set", "off"}
    /\ renderThreadAt \in Rendering
    /\ switches \in 0 .. MaxSwitches

\* Nobody switches the game if there is no editor.
WithoutEditor ==
    ~isEditor => /\ gameEnabled /\ lastEnabled /\ isLogicEnabled /\ editorEnded
                 /\ editorAt = "out" /\ switches = 0
                 /\ renderThreadAt \notin {"keep_in_logic", "keep_in_editor"}

\* What the renderer has seen in a flag is still so.
RenderKnows ==
    /\ renderThreadAt \in {"editor_channel", "end_frame_editor"} => ~editorEnded
    /\ ~isEditor /\ renderThreadAt \in {"logic_channel", "end_frame_logic"} => ~logicEnded
    /\ renderThreadAt \in {"end_in_logic", "end_in_editor"} => logicEnded /\ editorEnded

Counted ==
    /\ isEditor  => editorAhead = unprocessed.editor + Loop!Ending(editorEnded, "end_frame_editor")
    /\ ~isEditor => logicAhead = unprocessed.logic + Loop!Ending(logicEnded, "end_frame_logic")

HeldBack ==
    /\ logicAhead <= 2 /\ editorAhead <= 2
    /\ logicAt \in {"tick", "remembered"} => logicAhead <= 1

\* The game and what the renderer is told differ only between two steps of a switch.
SwitchKnown ==
    /\ editorAt \in {"out", "asking"} => isLogicEnabled = gameEnabled
    /\ editorAt = "set" => isLogicEnabled # gameEnabled
    /\ editorAt = "off" => ~isLogicEnabled /\ ~gameEnabled

\* The game is on after every other switch, and until it is switched on for the
\* first time the renderer does not look at the channel of the logic.
FirstSwitches ==
    isEditor =>
        /\ switches = 0 => ~gameEnabled /\ editorAt = "out"
        /\ switches = 1 => (gameEnabled <=> editorAt # "asking") /\ editorAt # "off"
        /\ switches = 2 => (gameEnabled <=> editorAt = "asking")
        /\ switches = 0 \/ (switches = 1 /\ editorAt \in {"asking", "set"}) =>
              /\ ~isLogicEnabled /\ logicEnded
              /\ renderThreadAt \notin {"reset_in_logic", "reset_in_editor",
                                "logic_channel", "end_frame_logic"}
        /\ switches <= 2 /\ renderThreadAt \in {"logic_channel", "end_frame_logic"} =>
              ~logicEnded \/ ~isLogicEnabled

FInv == /\ LoopTypes /\ WithoutEditor /\ RenderKnows /\ Counted /\ HeldBack
        /\ SwitchKnown /\ FirstSwitches

\* Every step keeps the types.
LEMMA KeepsLoopTypes == FInv /\ [Loop!Next]_(Loop!vars) => LoopTypes'
<1> SUFFICES ASSUME FInv, [Loop!Next]_(Loop!vars) PROVE LoopTypes'
  OBVIOUS
<1> USE EngineAssumption DEF FInv, LoopTypes, WithoutEditor, RenderKnows, Counted, HeldBack, SwitchKnown, FirstSwitches, Resetting, Rendering, Loop!Ending
<1>1. CASE Loop!RememberEnabled
  BY <1>1 DEF Loop!RememberEnabled, Loop!world, Loop!ahead, Loop!game
<1>2. CASE Loop!IdleTick
  BY <1>2 DEF Loop!IdleTick, Loop!world, Loop!ahead, Loop!game
<1>3. CASE Loop!GameTick
  BY <1>3 DEF Loop!GameTick, Loop!world, Loop!ahead, Loop!game
<1>4. CASE Loop!AfterTick
  <2>1. CASE logicAhead > 1
    BY <1>4, <2>1 DEF Loop!AfterTick, Loop!world, Loop!ahead, Loop!game
  <2>2. CASE ~(logicAhead > 1)
    BY <1>4, <2>2 DEF Loop!AfterTick, Loop!world, Loop!ahead, Loop!game
  <2> QED
    BY <2>1, <2>2
<1>5. CASE Loop!Held
  <2>1. CASE gameEnabled /\ ~lastEnabled
    BY <1>5, <2>1 DEF Loop!Held, Loop!world, Loop!ahead, Loop!game
  <2>2. CASE ~(gameEnabled /\ ~lastEnabled)
    BY <1>5, <2>2 DEF Loop!Held, Loop!world, Loop!ahead, Loop!game
  <2> QED
    BY <2>1, <2>2
<1>6. CASE Loop!HeldAgain
  BY <1>6 DEF Loop!HeldAgain, Loop!world, Loop!ahead, Loop!game
<1>7. CASE Loop!EditorTick
  BY <1>7 DEF Loop!EditorTick, Loop!world, Loop!ahead, Loop!game
<1>8. CASE Loop!SetGame
  BY <1>8 DEF Loop!SetGame, Loop!world, Loop!ahead, Loop!game
<1>9. CASE Loop!SetLogicEnabled
  BY <1>9 DEF Loop!SetLogicEnabled, Loop!world, Loop!ahead, Loop!game
<1>10. CASE Loop!SetLogicEnded
  BY <1>10 DEF Loop!SetLogicEnded, Loop!world, Loop!ahead, Loop!game
<1>11. CASE Loop!AskLogic
  BY <1>11 DEF Loop!AskLogic, Loop!world, Loop!ahead, Loop!game
<1>12. CASE Loop!Activate
  BY <1>12 DEF Loop!Activate, Loop!world, Loop!ahead, Loop!game
<1>13. CASE Loop!RenderTick
  BY <1>13 DEF Loop!RenderTick, Loop!world, Loop!ahead, Loop!game
<1>14. CASE Loop!PopLogic
  BY <1>14 DEF Loop!PopLogic, Loop!world, Loop!ahead, Loop!game
<1>15. CASE Loop!EndFrameLogic
  BY <1>15 DEF Loop!EndFrameLogic, Loop!world, Loop!ahead, Loop!game
<1>16. CASE Loop!EditorPart
  BY <1>16 DEF Loop!EditorPart, Loop!world, Loop!ahead, Loop!game
<1>17. CASE Loop!PopEditor
  BY <1>17 DEF Loop!PopEditor, Loop!world, Loop!ahead, Loop!game
<1>18. CASE Loop!EndFrameEditor
  BY <1>18 DEF Loop!EndFrameEditor, Loop!world, Loop!ahead, Loop!game
<1>19. CASE Loop!EndFrame
  BY <1>19 DEF Loop!EndFrame, Loop!world, Loop!ahead, Loop!game
<1>20. CASE Loop!ResetEnded
  BY <1>20 DEF Loop!ResetEnded, Loop!world, Loop!ahead, Loop!game
<1>21. CASE UNCHANGED Loop!vars
  BY <1>21 DEF Loop!vars, Loop!world, Loop!ahead, Loop!game
<1> QED
  BY <1>1, <1>2, <1>3, <1>4, <1>5, <1>6, <1>7, <1>8, <1>9, <1>10, <1>11, <1>12, <1>13, <1>14, <1>15, <1>16, <1>17, <1>18, <1>19, <1>20, <1>21 DEF Loop!Next, Loop!Logic, Loop!Editor, Loop!Render

\* Every step keeps what holds without an editor.
LEMMA KeepsWithoutEditor == FInv /\ [Loop!Next]_(Loop!vars) => WithoutEditor'
<1> SUFFICES ASSUME FInv, [Loop!Next]_(Loop!vars) PROVE WithoutEditor'
  OBVIOUS
<1> USE EngineAssumption DEF FInv, LoopTypes, WithoutEditor, RenderKnows, Counted, HeldBack, SwitchKnown, FirstSwitches, Resetting, Rendering, Loop!Ending
<1>1. CASE Loop!RememberEnabled
  BY <1>1 DEF Loop!RememberEnabled, Loop!world, Loop!ahead, Loop!game
<1>2. CASE Loop!IdleTick
  BY <1>2 DEF Loop!IdleTick, Loop!world, Loop!ahead, Loop!game
<1>3. CASE Loop!GameTick
  BY <1>3 DEF Loop!GameTick, Loop!world, Loop!ahead, Loop!game
<1>4. CASE Loop!AfterTick
  BY <1>4 DEF Loop!AfterTick, Loop!world, Loop!ahead, Loop!game
<1>5. CASE Loop!Held
  BY <1>5 DEF Loop!Held, Loop!world, Loop!ahead, Loop!game
<1>6. CASE Loop!HeldAgain
  BY <1>6 DEF Loop!HeldAgain, Loop!world, Loop!ahead, Loop!game
<1>7. CASE Loop!EditorTick
  BY <1>7 DEF Loop!EditorTick, Loop!world, Loop!ahead, Loop!game
<1>8. CASE Loop!SetGame
  BY <1>8 DEF Loop!SetGame, Loop!world, Loop!ahead, Loop!game
<1>9. CASE Loop!SetLogicEnabled
  BY <1>9 DEF Loop!SetLogicEnabled, Loop!world, Loop!ahead, Loop!game
<1>10. CASE Loop!SetLogicEnded
  BY <1>10 DEF Loop!SetLogicEnded, Loop!world, Loop!ahead, Loop!game
<1>11. CASE Loop!AskLogic
  BY <1>11 DEF Loop!AskLogic, Loop!world, Loop!ahead, Loop!game
<1>12. CASE Loop!Activate
  BY <1>12 DEF Loop!Activate, Loop!world, Loop!ahead, Loop!game
<1>13. CASE Loop!RenderTick
  BY <1>13 DEF Loop!RenderTick, Loop!world, Loop!ahead, Loop!game
<1>14. CASE Loop!PopLogic
  BY <1>14 DEF Loop!PopLogic, Loop!world, Loop!ahead, Loop!game
<1>15. CASE Loop!EndFrameLogic
  BY <1>15 DEF Loop!EndFrameLogic, Loop!world, Loop!ahead, Loop!game
<1>16. CASE Loop!EditorPart
  BY <1>16 DEF Loop!EditorPart, Loop!world, Loop!ahead, Loop!game
<1>17. CASE Loop!PopEditor
  BY <1>17 DEF Loop!PopEditor, Loop!world, Loop!ahead, Loop!game
<1>18. CASE Loop!EndFrameEditor
  BY <1>18 DEF Loop!EndFrameEditor, Loop!world, Loop!ahead, Loop!game
<1>19. CASE Loop!EndFrame
  BY <1>19 DEF Loop!EndFrame, Loop!world, Loop!ahead, Loop!game
<1>20. CASE Loop!ResetEnded
  BY <1>20 DEF Loop!ResetEnded, Loop!world, Loop!ahead, Loop!game
<1>21. CASE UNCHANGED Loop!vars
  BY <1>21 DEF Loop!vars, Loop!world, Loop!ahead, Loop!game
<1> QED
  BY <1>1, <1>2, <1>3, <1>4, <1>5, <1>6, <1>7, <1>8, <1>9, <1>10, <1>11, <1>12, <1>13, <1>14, <1>15, <1>16, <1>17, <1>18, <1>19, <1>20, <1>21 DEF Loop!Next, Loop!Logic, Loop!Editor, Loop!Render

\* Every step keeps what the renderer has seen.
LEMMA KeepsRenderKnows == FInv /\ [Loop!Next]_(Loop!vars) => RenderKnows'
<1> SUFFICES ASSUME FInv, [Loop!Next]_(Loop!vars) PROVE RenderKnows'
  OBVIOUS
<1> USE EngineAssumption DEF FInv, LoopTypes, WithoutEditor, RenderKnows, Counted, HeldBack, SwitchKnown, FirstSwitches, Resetting, Rendering, Loop!Ending
<1>1. CASE Loop!RememberEnabled
  BY <1>1 DEF Loop!RememberEnabled, Loop!world, Loop!ahead, Loop!game
<1>2. CASE Loop!IdleTick
  BY <1>2 DEF Loop!IdleTick, Loop!world, Loop!ahead, Loop!game
<1>3. CASE Loop!GameTick
  BY <1>3 DEF Loop!GameTick, Loop!world, Loop!ahead, Loop!game
<1>4. CASE Loop!AfterTick
  BY <1>4 DEF Loop!AfterTick, Loop!world, Loop!ahead, Loop!game
<1>5. CASE Loop!Held
  BY <1>5 DEF Loop!Held, Loop!world, Loop!ahead, Loop!game
<1>6. CASE Loop!HeldAgain
  BY <1>6 DEF Loop!HeldAgain, Loop!world, Loop!ahead, Loop!game
<1>7. CASE Loop!EditorTick
  BY <1>7 DEF Loop!EditorTick, Loop!world, Loop!ahead, Loop!game
<1>8. CASE Loop!SetGame
  BY <1>8 DEF Loop!SetGame, Loop!world, Loop!ahead, Loop!game
<1>9. CASE Loop!SetLogicEnabled
  BY <1>9 DEF Loop!SetLogicEnabled, Loop!world, Loop!ahead, Loop!game
<1>10. CASE Loop!SetLogicEnded
  BY <1>10 DEF Loop!SetLogicEnded, Loop!world, Loop!ahead, Loop!game
<1>11. CASE Loop!AskLogic
  BY <1>11 DEF Loop!AskLogic, Loop!world, Loop!ahead, Loop!game
<1>12. CASE Loop!Activate
  BY <1>12 DEF Loop!Activate, Loop!world, Loop!ahead, Loop!game
<1>13. CASE Loop!RenderTick
  BY <1>13 DEF Loop!RenderTick, Loop!world, Loop!ahead, Loop!game
<1>14. CASE Loop!PopLogic
  BY <1>14 DEF Loop!PopLogic, Loop!world, Loop!ahead, Loop!game
<1>15. CASE Loop!EndFrameLogic
  BY <1>15 DEF Loop!EndFrameLogic, Loop!world, Loop!ahead, Loop!game
<1>16. CASE Loop!EditorPart
  BY <1>16 DEF Loop!EditorPart, Loop!world, Loop!ahead, Loop!game
<1>17. CASE Loop!PopEditor
  BY <1>17 DEF Loop!PopEditor, Loop!world, Loop!ahead, Loop!game
<1>18. CASE Loop!EndFrameEditor
  BY <1>18 DEF Loop!EndFrameEditor, Loop!world, Loop!ahead, Loop!game
<1>19. CASE Loop!EndFrame
  BY <1>19 DEF Loop!EndFrame, Loop!world, Loop!ahead, Loop!game
<1>20. CASE Loop!ResetEnded
  BY <1>20 DEF Loop!ResetEnded, Loop!world, Loop!ahead, Loop!game
<1>21. CASE UNCHANGED Loop!vars
  BY <1>21 DEF Loop!vars, Loop!world, Loop!ahead, Loop!game
<1> QED
  BY <1>1, <1>2, <1>3, <1>4, <1>5, <1>6, <1>7, <1>8, <1>9, <1>10, <1>11, <1>12, <1>13, <1>14, <1>15, <1>16, <1>17, <1>18, <1>19, <1>20, <1>21 DEF Loop!Next, Loop!Logic, Loop!Editor, Loop!Render

\* Every step keeps the counts of frames.
LEMMA KeepsCounted == FInv /\ [Loop!Next]_(Loop!vars) => Counted'
<1> SUFFICES ASSUME FInv, [Loop!Next]_(Loop!vars) PROVE Counted'
  OBVIOUS
<1> USE EngineAssumption DEF FInv, LoopTypes, WithoutEditor, RenderKnows, Counted, HeldBack, SwitchKnown, FirstSwitches, Resetting, Rendering, Loop!Ending
<1>1. CASE Loop!RememberEnabled
  BY <1>1 DEF Loop!RememberEnabled, Loop!world, Loop!ahead, Loop!game
<1>2. CASE Loop!IdleTick
  BY <1>2 DEF Loop!IdleTick, Loop!world, Loop!ahead, Loop!game
<1>3. CASE Loop!GameTick
  BY <1>3 DEF Loop!GameTick, Loop!world, Loop!ahead, Loop!game
<1>4. CASE Loop!AfterTick
  BY <1>4 DEF Loop!AfterTick, Loop!world, Loop!ahead, Loop!game
<1>5. CASE Loop!Held
  BY <1>5 DEF Loop!Held, Loop!world, Loop!ahead, Loop!game
<1>6. CASE Loop!HeldAgain
  BY <1>6 DEF Loop!HeldAgain, Loop!world, Loop!ahead, Loop!game
<1>7. CASE Loop!EditorTick
  BY <1>7 DEF Loop!EditorTick, Loop!world, Loop!ahead, Loop!game
<1>8. CASE Loop!SetGame
  BY <1>8 DEF Loop!SetGame, Loop!world, Loop!ahead, Loop!game
<1>9. CASE Loop!SetLogicEnabled
  BY <1>9 DEF Loop!SetLogicEnabled, Loop!world, Loop!ahead, Loop!game
<1>10. CASE Loop!SetLogicEnded
  BY <1>10 DEF Loop!SetLogicEnded, Loop!world, Loop!ahead, Loop!game
<1>11. CASE Loop!AskLogic
  BY <1>11 DEF Loop!AskLogic, Loop!world, Loop!ahead, Loop!game
<1>12. CASE Loop!Activate
  BY <1>12 DEF Loop!Activate, Loop!world, Loop!ahead, Loop!game
<1>13. CASE Loop!RenderTick
  BY <1>13 DEF Loop!RenderTick, Loop!world, Loop!ahead, Loop!game
<1>14. CASE Loop!PopLogic
  BY <1>14 DEF Loop!PopLogic, Loop!world, Loop!ahead, Loop!game
<1>15. CASE Loop!EndFrameLogic
  BY <1>15 DEF Loop!EndFrameLogic, Loop!world, Loop!ahead, Loop!game
<1>16. CASE Loop!EditorPart
  BY <1>16 DEF Loop!EditorPart, Loop!world, Loop!ahead, Loop!game
<1>17. CASE Loop!PopEditor
  BY <1>17 DEF Loop!PopEditor, Loop!world, Loop!ahead, Loop!game
<1>18. CASE Loop!EndFrameEditor
  BY <1>18 DEF Loop!EndFrameEditor, Loop!world, Loop!ahead, Loop!game
<1>19. CASE Loop!EndFrame
  BY <1>19 DEF Loop!EndFrame, Loop!world, Loop!ahead, Loop!game
<1>20. CASE Loop!ResetEnded
  BY <1>20 DEF Loop!ResetEnded, Loop!world, Loop!ahead, Loop!game
<1>21. CASE UNCHANGED Loop!vars
  BY <1>21 DEF Loop!vars, Loop!world, Loop!ahead, Loop!game
<1> QED
  BY <1>1, <1>2, <1>3, <1>4, <1>5, <1>6, <1>7, <1>8, <1>9, <1>10, <1>11, <1>12, <1>13, <1>14, <1>15, <1>16, <1>17, <1>18, <1>19, <1>20, <1>21 DEF Loop!Next, Loop!Logic, Loop!Editor, Loop!Render

\* Every step keeps the bounds.
LEMMA KeepsHeldBack == FInv /\ [Loop!Next]_(Loop!vars) => HeldBack'
<1> SUFFICES ASSUME FInv, [Loop!Next]_(Loop!vars) PROVE HeldBack'
  OBVIOUS
<1> USE EngineAssumption DEF FInv, LoopTypes, WithoutEditor, RenderKnows, Counted, HeldBack, SwitchKnown, FirstSwitches, Resetting, Rendering, Loop!Ending
<1>1. CASE Loop!RememberEnabled
  BY <1>1 DEF Loop!RememberEnabled, Loop!world, Loop!ahead, Loop!game
<1>2. CASE Loop!IdleTick
  BY <1>2 DEF Loop!IdleTick, Loop!world, Loop!ahead, Loop!game
<1>3. CASE Loop!GameTick
  BY <1>3 DEF Loop!GameTick, Loop!world, Loop!ahead, Loop!game
<1>4. CASE Loop!AfterTick
  BY <1>4 DEF Loop!AfterTick, Loop!world, Loop!ahead, Loop!game
<1>5. CASE Loop!Held
  BY <1>5 DEF Loop!Held, Loop!world, Loop!ahead, Loop!game
<1>6. CASE Loop!HeldAgain
  BY <1>6 DEF Loop!HeldAgain, Loop!world, Loop!ahead, Loop!game
<1>7. CASE Loop!EditorTick
  BY <1>7 DEF Loop!EditorTick, Loop!world, Loop!ahead, Loop!game
<1>8. CASE Loop!SetGame
  BY <1>8 DEF Loop!SetGame, Loop!world, Loop!ahead, Loop!game
<1>9. CASE Loop!SetLogicEnabled
  BY <1>9 DEF Loop!SetLogicEnabled, Loop!world, Loop!ahead, Loop!game
<1>10. CASE Loop!SetLogicEnded
  BY <1>10 DEF Loop!SetLogicEnded, Loop!world, Loop!ahead, Loop!game
<1>11. CASE Loop!AskLogic
  BY <1>11 DEF Loop!AskLogic, Loop!world, Loop!ahead, Loop!game
<1>12. CASE Loop!Activate
  BY <1>12 DEF Loop!Activate, Loop!world, Loop!ahead, Loop!game
<1>13. CASE Loop!RenderTick
  BY <1>13 DEF Loop!RenderTick, Loop!world, Loop!ahead, Loop!game
<1>14. CASE Loop!PopLogic
  BY <1>14 DEF Loop!PopLogic, Loop!world, Loop!ahead, Loop!game
<1>15. CASE Loop!EndFrameLogic
  BY <1>15 DEF Loop!EndFrameLogic, Loop!world, Loop!ahead, Loop!game
<1>16. CASE Loop!EditorPart
  BY <1>16 DEF Loop!EditorPart, Loop!world, Loop!ahead, Loop!game
<1>17. CASE Loop!PopEditor
  BY <1>17 DEF Loop!PopEditor, Loop!world, Loop!ahead, Loop!game
<1>18. CASE Loop!EndFrameEditor
  BY <1>18 DEF Loop!EndFrameEditor, Loop!world, Loop!ahead, Loop!game
<1>19. CASE Loop!EndFrame
  BY <1>19 DEF Loop!EndFrame, Loop!world, Loop!ahead, Loop!game
<1>20. CASE Loop!ResetEnded
  BY <1>20 DEF Loop!ResetEnded, Loop!world, Loop!ahead, Loop!game
<1>21. CASE UNCHANGED Loop!vars
  BY <1>21 DEF Loop!vars, Loop!world, Loop!ahead, Loop!game
<1> QED
  BY <1>1, <1>2, <1>3, <1>4, <1>5, <1>6, <1>7, <1>8, <1>9, <1>10, <1>11, <1>12, <1>13, <1>14, <1>15, <1>16, <1>17, <1>18, <1>19, <1>20, <1>21 DEF Loop!Next, Loop!Logic, Loop!Editor, Loop!Render

\* Every step keeps what the renderer is told of the game.
LEMMA KeepsSwitchKnown == FInv /\ [Loop!Next]_(Loop!vars) => SwitchKnown'
<1> SUFFICES ASSUME FInv, [Loop!Next]_(Loop!vars) PROVE SwitchKnown'
  OBVIOUS
<1> USE EngineAssumption DEF FInv, LoopTypes, WithoutEditor, RenderKnows, Counted, HeldBack, SwitchKnown, FirstSwitches, Resetting, Rendering, Loop!Ending
<1>1. CASE Loop!RememberEnabled
  BY <1>1 DEF Loop!RememberEnabled, Loop!world, Loop!ahead, Loop!game
<1>2. CASE Loop!IdleTick
  BY <1>2 DEF Loop!IdleTick, Loop!world, Loop!ahead, Loop!game
<1>3. CASE Loop!GameTick
  BY <1>3 DEF Loop!GameTick, Loop!world, Loop!ahead, Loop!game
<1>4. CASE Loop!AfterTick
  BY <1>4 DEF Loop!AfterTick, Loop!world, Loop!ahead, Loop!game
<1>5. CASE Loop!Held
  BY <1>5 DEF Loop!Held, Loop!world, Loop!ahead, Loop!game
<1>6. CASE Loop!HeldAgain
  BY <1>6 DEF Loop!HeldAgain, Loop!world, Loop!ahead, Loop!game
<1>7. CASE Loop!EditorTick
  BY <1>7 DEF Loop!EditorTick, Loop!world, Loop!ahead, Loop!game
<1>8. CASE Loop!SetGame
  BY <1>8 DEF Loop!SetGame, Loop!world, Loop!ahead, Loop!game
<1>9. CASE Loop!SetLogicEnabled
  BY <1>9 DEF Loop!SetLogicEnabled, Loop!world, Loop!ahead, Loop!game
<1>10. CASE Loop!SetLogicEnded
  BY <1>10 DEF Loop!SetLogicEnded, Loop!world, Loop!ahead, Loop!game
<1>11. CASE Loop!AskLogic
  BY <1>11 DEF Loop!AskLogic, Loop!world, Loop!ahead, Loop!game
<1>12. CASE Loop!Activate
  BY <1>12 DEF Loop!Activate, Loop!world, Loop!ahead, Loop!game
<1>13. CASE Loop!RenderTick
  BY <1>13 DEF Loop!RenderTick, Loop!world, Loop!ahead, Loop!game
<1>14. CASE Loop!PopLogic
  BY <1>14 DEF Loop!PopLogic, Loop!world, Loop!ahead, Loop!game
<1>15. CASE Loop!EndFrameLogic
  BY <1>15 DEF Loop!EndFrameLogic, Loop!world, Loop!ahead, Loop!game
<1>16. CASE Loop!EditorPart
  BY <1>16 DEF Loop!EditorPart, Loop!world, Loop!ahead, Loop!game
<1>17. CASE Loop!PopEditor
  BY <1>17 DEF Loop!PopEditor, Loop!world, Loop!ahead, Loop!game
<1>18. CASE Loop!EndFrameEditor
  BY <1>18 DEF Loop!EndFrameEditor, Loop!world, Loop!ahead, Loop!game
<1>19. CASE Loop!EndFrame
  BY <1>19 DEF Loop!EndFrame, Loop!world, Loop!ahead, Loop!game
<1>20. CASE Loop!ResetEnded
  BY <1>20 DEF Loop!ResetEnded, Loop!world, Loop!ahead, Loop!game
<1>21. CASE UNCHANGED Loop!vars
  BY <1>21 DEF Loop!vars, Loop!world, Loop!ahead, Loop!game
<1> QED
  BY <1>1, <1>2, <1>3, <1>4, <1>5, <1>6, <1>7, <1>8, <1>9, <1>10, <1>11, <1>12, <1>13, <1>14, <1>15, <1>16, <1>17, <1>18, <1>19, <1>20, <1>21 DEF Loop!Next, Loop!Logic, Loop!Editor, Loop!Render

\* Every step keeps what is known of the first two switches.
LEMMA KeepsFirstSwitches == FInv /\ [Loop!Next]_(Loop!vars) => FirstSwitches'
<1> SUFFICES ASSUME FInv, [Loop!Next]_(Loop!vars) PROVE FirstSwitches'
  OBVIOUS
<1> USE EngineAssumption DEF FInv, LoopTypes, WithoutEditor, RenderKnows, Counted, HeldBack, SwitchKnown, FirstSwitches, Resetting, Rendering, Loop!Ending
<1>1. CASE Loop!RememberEnabled
  BY <1>1 DEF Loop!RememberEnabled, Loop!world, Loop!ahead, Loop!game
<1>2. CASE Loop!IdleTick
  BY <1>2 DEF Loop!IdleTick, Loop!world, Loop!ahead, Loop!game
<1>3. CASE Loop!GameTick
  BY <1>3 DEF Loop!GameTick, Loop!world, Loop!ahead, Loop!game
<1>4. CASE Loop!AfterTick
  BY <1>4 DEF Loop!AfterTick, Loop!world, Loop!ahead, Loop!game
<1>5. CASE Loop!Held
  BY <1>5 DEF Loop!Held, Loop!world, Loop!ahead, Loop!game
<1>6. CASE Loop!HeldAgain
  BY <1>6 DEF Loop!HeldAgain, Loop!world, Loop!ahead, Loop!game
<1>7. CASE Loop!EditorTick
  BY <1>7 DEF Loop!EditorTick, Loop!world, Loop!ahead, Loop!game
<1>8. CASE Loop!SetGame
  BY <1>8 DEF Loop!SetGame, Loop!world, Loop!ahead, Loop!game
<1>9. CASE Loop!SetLogicEnabled
  BY <1>9 DEF Loop!SetLogicEnabled, Loop!world, Loop!ahead, Loop!game
<1>10. CASE Loop!SetLogicEnded
  BY <1>10 DEF Loop!SetLogicEnded, Loop!world, Loop!ahead, Loop!game
<1>11. CASE Loop!AskLogic
  BY <1>11 DEF Loop!AskLogic, Loop!world, Loop!ahead, Loop!game
<1>12. CASE Loop!Activate
  BY <1>12 DEF Loop!Activate, Loop!world, Loop!ahead, Loop!game
<1>13. CASE Loop!RenderTick
  BY <1>13 DEF Loop!RenderTick, Loop!world, Loop!ahead, Loop!game
<1>14. CASE Loop!PopLogic
  BY <1>14 DEF Loop!PopLogic, Loop!world, Loop!ahead, Loop!game
<1>15. CASE Loop!EndFrameLogic
  BY <1>15 DEF Loop!EndFrameLogic, Loop!world, Loop!ahead, Loop!game
<1>16. CASE Loop!EditorPart
  BY <1>16 DEF Loop!EditorPart, Loop!world, Loop!ahead, Loop!game
<1>17. CASE Loop!PopEditor
  BY <1>17 DEF Loop!PopEditor, Loop!world, Loop!ahead, Loop!game
<1>18. CASE Loop!EndFrameEditor
  BY <1>18 DEF Loop!EndFrameEditor, Loop!world, Loop!ahead, Loop!game
<1>19. CASE Loop!EndFrame
  BY <1>19 DEF Loop!EndFrame, Loop!world, Loop!ahead, Loop!game
<1>20. CASE Loop!ResetEnded
  BY <1>20 DEF Loop!ResetEnded, Loop!world, Loop!ahead, Loop!game
<1>21. CASE UNCHANGED Loop!vars
  BY <1>21 DEF Loop!vars, Loop!world, Loop!ahead, Loop!game
<1> QED
  BY <1>1, <1>2, <1>3, <1>4, <1>5, <1>6, <1>7, <1>8, <1>9, <1>10, <1>11, <1>12, <1>13, <1>14, <1>15, <1>16, <1>17, <1>18, <1>19, <1>20, <1>21 DEF Loop!Next, Loop!Logic, Loop!Editor, Loop!Render

\* The invariant holds at first ...
LEMMA LoopBegins == Loop!Init => FInv
<1> SUFFICES ASSUME Loop!Init PROVE FInv
  OBVIOUS
<1>1. /\ gameEnabled = ~isEditor /\ lastEnabled = ~isEditor
      /\ isLogicEnabled = ~isEditor /\ logicEnded = isEditor /\ editorEnded = ~isEditor
      /\ isEditor \in BOOLEAN /\ active \in BOOLEAN
  BY DEF Loop!Init
<1>2. /\ gameEnabled \in BOOLEAN /\ lastEnabled \in BOOLEAN /\ isLogicEnabled \in BOOLEAN
      /\ logicEnded \in BOOLEAN /\ editorEnded \in BOOLEAN
  BY <1>1, Zenon
<1>3. /\ gameEnabled <=> ~isEditor
      /\ lastEnabled <=> ~isEditor
      /\ isLogicEnabled <=> ~isEditor
      /\ logicEnded <=> isEditor
      /\ editorEnded <=> ~isEditor
  BY <1>1, Zenon
<1>4. /\ logicAhead = 0 /\ editorAhead = 0
      /\ unprocessed = [logic |-> 0, editor |-> 0]
      /\ logicAt = "tick" /\ editorAt = "out" /\ renderThreadAt = "tick"
      /\ call = FALSE /\ switches = 0
  BY DEF Loop!Init
<1>5. unprocessed \in [{"logic", "editor"} -> Nat] /\ unprocessed.logic = 0 /\ unprocessed.editor = 0
  BY <1>4
<1>6. call \in BOOLEAN
  BY <1>4
<1>7. LoopTypes
  BY <1>1, <1>2, <1>4, <1>5, <1>6, EngineAssumption DEF LoopTypes, Rendering
<1>8. WithoutEditor /\ RenderKnows /\ HeldBack /\ SwitchKnown /\ FirstSwitches
  BY <1>2, <1>3, <1>4 DEF WithoutEditor, RenderKnows, HeldBack, SwitchKnown, FirstSwitches, Resetting
<1>9. Counted
  BY <1>3, <1>4, <1>5 DEF Counted, Loop!Ending
<1> QED
  BY <1>7, <1>8, <1>9 DEF FInv

\* ... and in every state of the frames.
THEOREM FrameLoopInvariant == Loop!Spec => []FInv
<1>1. FInv /\ [Loop!Next]_(Loop!vars) => FInv'
  BY KeepsLoopTypes, KeepsWithoutEditor, KeepsRenderKnows, KeepsCounted, KeepsHeldBack,
     KeepsSwitchKnown, KeepsFirstSwitches DEF FInv
<1> QED
  BY LoopBegins, <1>1, PTL DEF Loop!Spec

\* The variables of the frame loop keep their types.
THEOREM FrameLoopTypeCorrect == Loop!Spec => []Loop!TypeOK
<1>1. FInv => Loop!TypeOK
  BY DEF FInv, LoopTypes, Loop!TypeOK
<1> QED
  BY <1>1, FrameLoopInvariant, PTL

\* Up to the second switch of the game, and for good without an editor, the
\* assertions of render_facade_world.cpp hold, whatever the three threads do
\* between two of their looks at each other's flags.
THEOREM FrameAssertionsHold == Loop!Spec => [](~isEditor \/ switches <= 2 => Loop!AssertionsOfTheCode)
<1>1. FInv => (~isEditor \/ switches <= 2 => Loop!AssertionsOfTheCode)
  BY DEF FInv, LoopTypes, WithoutEditor, RenderKnows, SwitchKnown, FirstSwitches, Loop!AssertionsOfTheCode
<1> QED
  BY <1>1, FrameLoopInvariant, PTL

\* Logic and editor never get more than two frames ahead of the renderer, and the
\* frames they are ahead are those it has not ended.
THEOREM ThreadsKeepStep == Loop!Spec => []NeitherRunsAway
<1>1. FInv => NeitherRunsAway
  BY DEF FInv, Counted, HeldBack, Loop!NeitherRunsAway, NeitherRunsAway
<1> QED
  BY <1>1, FrameLoopInvariant, PTL

-----------------------------------------------------------------------------
(* The render channel: where every command is.                             *)

\* s contains x.
In(s, x) == \E i \in 1 .. Len(s) : s[i] = x
\* No value is in s twice.
Distinct(s) == \A i, j \in 1 .. Len(s) : s[i] = s[j] => i = j

\* s lists what the links n reach from the null node of queue q to its end.
IsQueue(n, s, q) ==
    /\ s \in Seq(Items) /\ Len(s) >= 1 /\ Distinct(s)
    /\ q \in [head : Items, tail : Items]
    /\ q.tail = s[1] /\ q.head = s[Len(s)]
    /\ \A i \in 1 .. Len(s) : n[s[i]] = IF i = Len(s) THEN Null ELSE s[i + 1]

\* x is in the list of a scene or in the list that is walked.
Kept(x) == (\E s \in Scenes : In(list[s], x)) \/ In(cursor, x)
\* x was given back, but its deferred_next was not read yet.
Moved(x) == renderAt = "moved" /\ x = cursor[1]

\* A deferred command is in one list, once.
ListsApart ==
    /\ Distinct(cursor)
    /\ \A s \in Scenes : Distinct(list[s]) /\ \A x \in Items : ~ (In(list[s], x) /\ In(cursor, x))
    /\ \A s, r \in Scenes : s # r => \A x \in Items : ~ (In(list[s], x) /\ In(list[r], x))

\* The render thread walks a list only at the end of a frame, and what is in a list
\* is deferred.
RenderPlaces ==
    /\ renderAt \in {"loop", "waiting"} => cursor = <<>>
    /\ renderAt = "moved" => cursor # <<>> /\ cursor[1] \notin isDeferred
    /\ \A x \in Items : Kept(x) => x \in isDeferred \/ Moved(x)

\* Where each command is, f and b being the commands of the two queues.
Where(f, b) ==
    /\ \A x \in Items : ~ (In(f, x) /\ In(b, x))
    /\ \A x \in Items : x \in allocated <=> In(f, x) \/ In(b, x) \/ Kept(x)
    /\ \A x \in Items : In(b, x) => x \notin isDeferred
    /\ renderAt = "moved" => cursor[1] = f[1] \/ cursor[1] = b[Len(b)]
    /\ \A i \in 2 .. Len(f) : ~ Kept(f[i]) /\ (f[i] \in isDeferred <=> kind[f[i]].type = "deferred")
    /\ f[1] \in isDeferred => Kept(f[1])
    /\ look.at = "tail" => look.tail \in allocated

RShape(f, b) == IsQueue(next, f, forward) /\ IsQueue(next, b, backward) /\ Where(f, b)

\* After owner_finalize only commands of lists are left, and nobody does anything.
Finished ==
    /\ closed /\ ~ Channel!Open /\ renderAt = "loop" /\ look = Channel!NoLook
    /\ \A x \in allocated : Kept(x)

\* The variables but the queues keep their types whatever the queues do.
RTypes ==
    /\ next \in [Items -> Items \cup {Null}]
    /\ forward \in Channel!Ends /\ backward \in Channel!Ends
    /\ allocated \subseteq Items
    /\ kind \in [Items -> Channel!Kinds] /\ isDeferred \subseteq Items
    /\ list \in [Scenes -> Seq(Items)] /\ drawn \subseteq Scenes
    /\ renderAt \in {"loop", "waiting", "end_frame", "moved"} /\ cursor \in Seq(Items)
    /\ look \in [at : {"out", "tail", "link"}, tail : Items \cup {Null}, empty : BOOLEAN]
    /\ event \in BOOLEAN /\ closed \in BOOLEAN

Running == ~ closed /\ Channel!Open /\ \E f, b \in Seq(Items) : RShape(f, b)

RInv == RTypes /\ ListsApart /\ RenderPlaces /\ (Running \/ Finished)

-----------------------------------------------------------------------------
(* Sequences and queues.                                                   *)

\* What Append does to the values of a sequence.
LEMMA AppendHas ==
    ASSUME NEW s \in Seq(Items), NEW x \in Items
    PROVE  /\ Append(s, x) \in Seq(Items) /\ Len(Append(s, x)) = Len(s) + 1
           /\ \A i \in 1 .. Len(s) : Append(s, x)[i] = s[i]
           /\ Append(s, x)[Len(s) + 1] = x
           /\ \A y : In(Append(s, x), y) <=> (In(s, y) \/ y = x)
           /\ Distinct(s) /\ ~ In(s, x) => Distinct(Append(s, x))
<1>1. /\ Append(s, x) \in Seq(Items) /\ Len(Append(s, x)) = Len(s) + 1 /\ Len(s) \in Nat
      /\ \A i \in 1 .. Len(s) : Append(s, x)[i] = s[i]
      /\ Append(s, x)[Len(s) + 1] = x
  OBVIOUS
<1>2. PICK a, n : a = Append(s, x) /\ n = Len(s)
  OBVIOUS
<1>3. /\ n \in Nat /\ Len(a) = n + 1 /\ \A i \in 1 .. n : a[i] = s[i]
      /\ a[n + 1] = x
  BY <1>1, <1>2
<1>4. \A i : i \in 1 .. n + 1 <=> (i \in 1 .. n \/ i = n + 1)
  BY <1>3
<1>5. \A y : In(a, y) <=> (In(s, y) \/ y = x)
  BY <1>2, <1>3, <1>4 DEF In
<1>6. Distinct(s) /\ ~ In(s, x) => Distinct(a)
  BY <1>2, <1>3, <1>4 DEF In, Distinct
<1> QED
  BY <1>1, <1>2, <1>5, <1>6

\* What Tail does to them.
LEMMA TailHas ==
    ASSUME NEW s \in Seq(Items), Len(s) >= 1
    PROVE  /\ Tail(s) \in Seq(Items) /\ Len(Tail(s)) = Len(s) - 1
           /\ \A i \in 1 .. Len(s) - 1 : Tail(s)[i] = s[i + 1]
           /\ Distinct(s) => Distinct(Tail(s)) /\ \A y : In(Tail(s), y) <=> (In(s, y) /\ y # s[1])
<1>1. PICK a, n : a = Tail(s) /\ n = Len(s)
  OBVIOUS
<1>2. a \in Seq(Items) /\ Len(a) = n - 1 /\ n \in Nat /\ n >= 1 /\ \A i \in 1 .. n - 1 : a[i] = s[i + 1]
  BY <1>1
<1>3. Distinct(s) => Distinct(a)
  BY <1>1, <1>2 DEF Distinct
<1>4. ASSUME Distinct(s), NEW y PROVE In(a, y) <=> (In(s, y) /\ y # s[1])
  <2>1. ASSUME In(a, y) PROVE In(s, y) /\ y # s[1]
    <3>1. PICK i \in 1 .. n - 1 : a[i] = y
      BY <1>2, <2>1 DEF In
    <3>2. i + 1 \in 1 .. n /\ 1 \in 1 .. n /\ i + 1 # 1 /\ s[i + 1] = y
      BY <1>2, <3>1
    <3> QED
      BY <1>1, <1>4, <3>2 DEF In, Distinct
  <2>2. ASSUME In(s, y), y # s[1] PROVE In(a, y)
    <3>1. PICK i \in 1 .. n : s[i] = y
      BY <1>1, <2>2 DEF In
    <3>2. i - 1 \in 1 .. n - 1 /\ (i - 1) + 1 = i
      BY <1>2, <2>2, <3>1
    <3>3. a[i - 1] = y
      BY <1>2, <3>1, <3>2
    <3> QED
      BY <1>2, <3>2, <3>3 DEF In
  <2> QED
    BY <2>1, <2>2
<1> QED
  BY <1>1, <1>2, <1>3, <1>4

\* A queue has a null node and is empty when it has nothing else.
LEMMA QueueHas ==
    ASSUME NEW n, NEW s, NEW q, IsQueue(n, s, q)
    PROVE  /\ s \in Seq(Items) /\ Len(s) \in Nat /\ Len(s) >= 1 /\ Distinct(s)
           /\ \A i \in 1 .. Len(s) : s[i] \in Items /\ s[i] # Null /\ In(s, s[i])
           /\ \A x : In(s, x) => x \in Items
           /\ q \in [head : Items, tail : Items] /\ q.tail = s[1] /\ q.head = s[Len(s)]
           /\ s[1] \in Items /\ s[Len(s)] \in Items /\ In(s, s[1]) /\ In(s, s[Len(s)])
           /\ q.tail # Null
           /\ n[q.tail] = Null <=> Len(s) = 1
           /\ Len(s) # 1 => n[q.tail] = s[2] /\ s[2] \in Items /\ In(s, s[2]) /\ s[2] # s[1] /\ 2 \in 2 .. Len(s)
<1>1. /\ s \in Seq(Items) /\ Len(s) \in Nat /\ Len(s) >= 1 /\ Distinct(s)
      /\ \A i \in 1 .. Len(s) : s[i] \in Items
      /\ 1 \in 1 .. Len(s) /\ Len(s) \in 1 .. Len(s)
  BY DEF IsQueue
<1>2. \A i \in 1 .. Len(s) : s[i] # Null /\ In(s, s[i])
  BY <1>1, EngineAssumption DEF In
<1>3. \A x : In(s, x) => x \in Items
  BY <1>1 DEF In
<1>4. Len(s) # 1 => (2 \in 1 .. Len(s) /\ 2 \in 2 .. Len(s))
  <2>1. PICK k \in Nat : k = Len(s) /\ k >= 1
    BY <1>1
  <2> QED
    BY <2>1
<1>5. n[q.tail] = IF 1 = Len(s) THEN Null ELSE s[2]
  <2>1. n[s[1]] = IF 1 = Len(s) THEN Null ELSE s[1 + 1]
    BY <1>1 DEF IsQueue
  <2>2. 1 + 1 = 2
    OBVIOUS
  <2> QED
    BY <2>1, <2>2 DEF IsQueue
<1> QED
  BY <1>1, <1>2, <1>3, <1>4, <1>5 DEF IsQueue, Distinct

\* push_back appends.
LEMMA QueuePushes ==
    ASSUME NEW n \in [Items -> Items \cup {Null}], NEW s, NEW q, IsQueue(n, s, q),
           NEW x \in Items, ~ In(s, x),
           NEW m, m = [n EXCEPT ![x] = Null, ![q.head] = x]
    PROVE  /\ IsQueue(m, Append(s, x), [q EXCEPT !.head = x])
           /\ m \in [Items -> Items \cup {Null}]
           /\ \A y \in Items : y # x /\ y # q.head => m[y] = n[y]
<1>0. s \in Seq(Items)
  BY QueueHas
<1>1. PICK a, k : a = Append(s, x) /\ k = Len(s)
  OBVIOUS
<1>2. /\ a \in Seq(Items) /\ Len(a) = k + 1 /\ k \in Nat /\ k >= 1
      /\ \A i \in 1 .. k : a[i] = s[i] /\ s[i] \in Items
      /\ a[k + 1] = x /\ Distinct(a)
  BY <1>0, <1>1, QueueHas, AppendHas
<1>3. q.head = s[k] /\ s[k] # x /\ k \in 1 .. k /\ q.head \in Items
  <2>1. k \in 1 .. k /\ q.head = s[k]
    BY <1>1, <1>2 DEF IsQueue
  <2>2. s[k] # x
    BY <1>1, <2>1 DEF In
  <2> QED
    BY <1>2, <2>1, <2>2
<1>4. /\ m[x] = Null /\ m[q.head] = x
      /\ \A y \in Items : y # x /\ y # q.head => m[y] = n[y]
      /\ m \in [Items -> Items \cup {Null}]
  BY <1>3
<1>5. \A i \in 1 .. k : n[s[i]] = IF i = k THEN Null ELSE s[i + 1]
  BY <1>1 DEF IsQueue
<1>6. ASSUME NEW i \in 1 .. k + 1 PROVE m[a[i]] = IF i = k + 1 THEN Null ELSE a[i + 1]
  <2>1. CASE i = k + 1
    BY <1>2, <1>4, <2>1
  <2>2. CASE i = k
    BY <1>2, <1>3, <1>4, <2>2
  <2>3. CASE i \in 1 .. k /\ i # k
    <3>1. i + 1 \in 1 .. k /\ a[i] = s[i] /\ a[i + 1] = s[i + 1]
      BY <1>2, <2>3
    <3>2. s[i] # s[k]
      BY <1>1, <1>3, <2>3 DEF IsQueue, Distinct
    <3>3. s[i] # x
      BY <1>1, <2>3 DEF In
    <3> QED
      BY <1>2, <1>3, <1>4, <1>5, <2>3, <3>1, <3>2, <3>3
  <2> QED
    BY <1>2, <2>1, <2>2, <2>3
<1>7. [q EXCEPT !.head = x] \in [head : Items, tail : Items] /\ [q EXCEPT !.head = x].head = x
      /\ [q EXCEPT !.head = x].tail = s[1]
  BY DEF IsQueue
<1>8. a[1] = s[1] /\ k + 1 >= 1
  BY <1>2
<1> QED
  BY <1>1, <1>2, <1>4, <1>6, <1>7, <1>8 DEF IsQueue

\* pop_front makes the first value the null node.
LEMMA QueuePops ==
    ASSUME NEW n, NEW s, NEW q, IsQueue(n, s, q), n[q.tail] # Null
    PROVE  IsQueue(n, Tail(s), [q EXCEPT !.tail = n[q.tail]])
<1>1. PICK a, k : a = Tail(s) /\ k = Len(s)
  OBVIOUS
<1>2. s \in Seq(Items) /\ k \in Nat /\ k >= 2 /\ n[q.tail] = s[2] /\ s[2] \in Items
  BY <1>1, QueueHas
<1>3. a \in Seq(Items) /\ Len(a) = k - 1 /\ Distinct(a) /\ \A i \in 1 .. k - 1 : a[i] = s[i + 1]
  BY <1>1, <1>2, TailHas DEF IsQueue
<1>4. a[1] = s[2] /\ a[k - 1] = s[k]
  <2>1. 1 \in 1 .. k - 1 /\ k - 1 \in 1 .. k - 1
    BY <1>2
  <2> QED
    BY <1>2, <1>3, <2>1
<1>5. /\ [q EXCEPT !.tail = n[q.tail]] \in [head : Items, tail : Items]
      /\ [q EXCEPT !.tail = n[q.tail]].tail = s[2] /\ [q EXCEPT !.tail = n[q.tail]].head = s[k]
  BY <1>1, <1>2 DEF IsQueue
<1>6. ASSUME NEW i \in 1 .. k - 1 PROVE n[a[i]] = IF i = k - 1 THEN Null ELSE a[i + 1]
  <2>1. i + 1 \in 1 .. k /\ a[i] = s[i + 1] /\ (i # k - 1 => a[i + 1] = s[(i + 1) + 1])
    BY <1>2, <1>3
  <2>2. n[s[i + 1]] = IF i + 1 = k THEN Null ELSE s[(i + 1) + 1]
    BY <1>1, <2>1 DEF IsQueue
  <2>3. i + 1 = k <=> i = k - 1
    BY <1>2
  <2> QED
    BY <2>1, <2>2, <2>3
<1> QED
  BY <1>1, <1>2, <1>3, <1>4, <1>5, <1>6 DEF IsQueue

\* Links elsewhere do not matter.
LEMMA QueueKept ==
    ASSUME NEW n, NEW m, NEW s, NEW q, IsQueue(n, s, q), \A y : In(s, y) => m[y] = n[y]
    PROVE  IsQueue(m, s, q)
<1>1. \A i \in 1 .. Len(s) : m[s[i]] = n[s[i]]
  BY DEF In
<1> QED
  BY <1>1 DEF IsQueue

-----------------------------------------------------------------------------
(* Steps that keep where every command is.                                 *)

\* What is in a list, by the lists.
LEMMA KeptSame ==
    ASSUME UNCHANGED <<list, cursor>>
    PROVE  \A x : Kept(x)' <=> Kept(x)
BY DEF Kept, In

\* Lists keep apart when they do not change.
LEMMA ApartSame ==
    ASSUME ListsApart, UNCHANGED <<list, cursor>>
    PROVE  ListsApart'
BY DEF ListsApart, Distinct, In

\* Nobody does anything after owner_finalize.
LEMMA FinishedStays ==
    ASSUME Finished, Channel!Next
    PROVE  FALSE
<1>1. ~ Channel!Open /\ renderAt = "loop" /\ look.at = "out"
  BY DEF Finished, Channel!NoLook
<1>2. ~ Channel!OwnerCalls
  BY <1>1 DEF Channel!OwnerCalls, Channel!LookAtTail, Channel!LookAtLink, Channel!DeleteProcessed, Channel!Finalize, Channel!Push
<1>3. ~ Channel!Render
  BY <1>1 DEF Channel!Render, Channel!WakeUp, Channel!TimeOut, Channel!Executing, Channel!Defer, Channel!Draw, Channel!EndFrame, Channel!Popping, Channel!NextScene, Channel!MoveCommand, Channel!MoveOn
<1> QED
  BY <1>1, <1>2, <1>3 DEF Channel!Next, Channel!StartWaiting

\* The owner's looks and the waits of the render thread.
LEMMA QuietSteps ==
    ASSUME RInv, Running, Channel!LookAtTail \/ Channel!LookAtLink \/ Channel!StartWaiting \/ Channel!WakeUp \/ Channel!TimeOut
    PROVE  RInv'
<1>1. UNCHANGED <<next, forward, backward, allocated, kind, isDeferred, list, drawn, cursor, closed>>
  BY DEF Channel!LookAtTail, Channel!LookAtLink, Channel!StartWaiting, Channel!WakeUp, Channel!TimeOut, Channel!channel, Channel!lists
<1>2. renderAt' = renderAt \/ (renderAt \in {"loop", "waiting"} /\ renderAt' \in {"loop", "waiting"})
  BY DEF Channel!LookAtTail, Channel!LookAtLink, Channel!StartWaiting, Channel!WakeUp, Channel!TimeOut
<1>3. PICK f, b \in Seq(Items) : RShape(f, b)
  BY DEF Running
<1>4. forward.tail = f[1] /\ In(f, f[1]) /\ f[1] \in Items
  BY <1>3, QueueHas DEF RShape
<1>5. forward.tail \in allocated /\ forward.tail \in Items
  BY <1>3, <1>4 DEF RShape, Where
<1>6. /\ look' \in [at : {"out", "tail", "link"}, tail : Items \cup {Null}, empty : BOOLEAN]
      /\ look'.at = "tail" => look'.tail \in allocated
  <2>1. CASE Channel!LookAtTail
    BY <1>5, <2>1 DEF Channel!LookAtTail, RInv, RTypes
  <2>2. CASE Channel!LookAtLink
    <3>1. (next[look.tail] = Null) \in BOOLEAN
      OBVIOUS
    <3>2. look' = [at |-> "link", tail |-> Null, empty |-> next[look.tail] = Null]
      BY <2>2 DEF Channel!LookAtLink
    <3> QED
      BY <3>1, <3>2
  <2>3. CASE Channel!StartWaiting \/ Channel!WakeUp \/ Channel!TimeOut
    BY <1>3, <2>3 DEF Channel!StartWaiting, Channel!WakeUp, Channel!TimeOut, RInv, RTypes, RShape, Where
  <2> QED
    BY <2>1, <2>2, <2>3
<1>7. event' \in BOOLEAN
  BY DEF Channel!LookAtTail, Channel!LookAtLink, Channel!StartWaiting, Channel!WakeUp, Channel!TimeOut, RInv, RTypes
<1>8. RTypes'
  BY <1>1, <1>2, <1>6, <1>7 DEF RInv, RTypes
<1>9. ListsApart'
  BY <1>1, ApartSame DEF RInv
<1>10. \A x : Kept(x)' <=> Kept(x)
  BY <1>1, KeptSame
<1>11. RenderPlaces'
  BY <1>1, <1>2, <1>10 DEF RInv, RenderPlaces, Moved
<1>12. IsQueue(next, f, forward)' /\ IsQueue(next, b, backward)'
  BY <1>1, <1>3 DEF RShape
<1>13. Where(f, b)'
  BY <1>1, <1>2, <1>3, <1>6, <1>10 DEF RShape, Where
<1>14. Running'
  BY <1>1, <1>12, <1>13 DEF RShape, Running, Channel!Open
<1> QED
  BY <1>8, <1>9, <1>11, <1>14 DEF RInv

-----------------------------------------------------------------------------
(* The owner.                                                              *)

\* A command that is sent is at the end of the forward queue.
LEMMA PushFits ==
    ASSUME RInv, NEW f \in Seq(Items), NEW b \in Seq(Items), RShape(f, b), Running,
           NEW x \in Items, NEW k \in Channel!Kinds, Channel!Push(x, k)
    PROVE  RInv' /\ RShape(Append(f, x), b)'
<1>1. /\ x \notin allocated /\ next' = [next EXCEPT ![x] = Null, ![forward.head] = x]
      /\ forward' = [forward EXCEPT !.head = x] /\ allocated' = allocated \cup {x}
      /\ kind' = [kind EXCEPT ![x] = k]
      /\ isDeferred' = IF k.type = "deferred" THEN isDeferred \cup {x} ELSE isDeferred \ {x}
      /\ event' = (event \/ look.empty)
      /\ look' = Channel!NoLook
      /\ UNCHANGED <<backward, list, drawn, renderAt, cursor, closed>>
  BY DEF Channel!Push, Channel!OwnerPushBack, Channel!Linked, Channel!Pushed
<1>2. IsQueue(next, f, forward) /\ IsQueue(next, b, backward) /\ Where(f, b)
  BY DEF RShape
<1>3. ~ In(f, x) /\ ~ In(b, x) /\ ~ Kept(x)
  BY <1>1, <1>2 DEF Where
<1>4. next \in [Items -> Items \cup {Null}]
  BY DEF RInv, RTypes
<1>5. /\ IsQueue(next', Append(f, x), forward')
      /\ next' \in [Items -> Items \cup {Null}]
      /\ \A y \in Items : y # x /\ y # forward.head => next'[y] = next[y]
  <2>1. PICK m, q : m = next' /\ q = forward'
    OBVIOUS
  <2>2. m = [next EXCEPT ![x] = Null, ![forward.head] = x] /\ q = [forward EXCEPT !.head = x]
    BY <1>1, <2>1
  <2>3. IsQueue(m, Append(f, x), q) /\ m \in [Items -> Items \cup {Null}]
        /\ \A y \in Items : y # x /\ y # forward.head => m[y] = next[y]
    BY <1>2, <1>3, <1>4, <2>2, QueuePushes
  <2> QED
    BY <2>1, <2>3
<1>6. In(f, forward.head) /\ \A y : In(b, y) => y \in Items
  BY <1>2, QueueHas
<1>7. IsQueue(next', b, backward')
  <2>1. \A y : In(b, y) => next'[y] = next[y]
    BY <1>2, <1>3, <1>5, <1>6 DEF Where
  <2>2. IsQueue(next', b, backward)
    BY <1>2, <2>1, QueueKept
  <2> QED
    BY <1>1, <2>2
<1>8. PICK a, n : a = Append(f, x) /\ n = Len(f)
  OBVIOUS
<1>9. /\ n \in Nat /\ n >= 1 /\ Len(a) = n + 1 /\ a[1] = f[1] /\ a[n + 1] = x
      /\ \A i \in 1 .. n : a[i] = f[i] /\ f[i] \in Items /\ f[i] # x
      /\ \A y : In(a, y) <=> (In(f, y) \/ y = x)
  <2>1. n \in Nat /\ n >= 1 /\ \A i \in 1 .. n : f[i] \in Items /\ In(f, f[i])
    BY <1>2, <1>8, QueueHas
  <2>2. Len(a) = n + 1 /\ (\A i \in 1 .. n : a[i] = f[i]) /\ a[n + 1] = x
        /\ \A y : In(a, y) <=> (In(f, y) \/ y = x)
    BY <1>8, AppendHas
  <2>3. 1 \in 1 .. n
    BY <2>1
  <2> QED
    BY <1>3, <2>1, <2>2, <2>3
<1>10. \A y : Kept(y)' <=> Kept(y)
  BY <1>1, KeptSame
<1>11. \A y \in Items : y # x => (y \in isDeferred' <=> y \in isDeferred) /\ kind'[y] = kind[y]
  BY <1>1 DEF RInv, RTypes
<1>12. kind'[x] = k /\ (x \in isDeferred' <=> k.type = "deferred") /\ kind' \in [Items -> Channel!Kinds] /\ isDeferred' \subseteq Items
  BY <1>1 DEF RInv, RTypes
<1>13. Where(a, b)'
  <2>1. \A y \in Items : ~ (In(a, y) /\ In(b, y))
    BY <1>2, <1>3, <1>9 DEF Where
  <2>2. \A y \in Items : y \in allocated' <=> In(a, y) \/ In(b, y) \/ Kept(y)
    BY <1>1, <1>2, <1>9 DEF Where
  <2>3. \A y \in Items : In(b, y) => y \notin isDeferred'
    BY <1>2, <1>3, <1>11 DEF Where
  <2>4. renderAt = "moved" => cursor[1] = a[1] \/ cursor[1] = b[Len(b)]
    BY <1>2, <1>9 DEF Where
  <2>5. ASSUME NEW i \in 2 .. Len(a)
        PROVE  ~ Kept(a[i]) /\ (a[i] \in isDeferred' <=> kind'[a[i]].type = "deferred")
    <3>1. CASE i = n + 1
      BY <1>3, <1>9, <1>12, <3>1
    <3>2. CASE i # n + 1
      <4>1. i \in 1 .. n /\ i \in 2 .. n
        BY <1>9, <3>2
      <4>2. a[i] = f[i] /\ f[i] \in Items /\ f[i] # x
        BY <1>9, <4>1
      <4>3. ~ Kept(f[i]) /\ (f[i] \in isDeferred <=> kind[f[i]].type = "deferred")
        BY <1>2, <1>8, <4>1 DEF Where
      <4> QED
        BY <1>11, <4>2, <4>3
    <3> QED
      BY <3>1, <3>2
  <2>6. f[1] \in Items /\ f[1] # x
    <3>1. 1 \in 1 .. n
      BY <1>9
    <3> QED
      BY <1>9, <3>1
  <2>7. a[1] \in isDeferred' => Kept(a[1])
    BY <1>2, <1>9, <1>11, <2>6 DEF Where
  <2>8. look'.at # "tail"
    BY <1>1 DEF Channel!NoLook
  <2> HIDE DEF Kept
  <2> QED
    BY <1>1, <1>10, <2>1, <2>2, <2>3, <2>4, <2>5, <2>7, <2>8 DEF Where
<1>14. RShape(a, b)'
  BY <1>5, <1>7, <1>8, <1>13 DEF RShape
<1>15. RTypes'
  <2>1. event' \in BOOLEAN
    <3>1. event \in BOOLEAN /\ look.empty \in BOOLEAN
      BY DEF RInv, RTypes
    <3> QED
      BY <1>1, <3>1
  <2>2. forward' \in Channel!Ends
    BY <1>5 DEF IsQueue, Channel!Ends
  <2>3. look' \in [at : {"out", "tail", "link"}, tail : Items \cup {Null}, empty : BOOLEAN]
    BY <1>1 DEF Channel!NoLook
  <2> QED
    BY <1>1, <1>5, <1>12, <2>1, <2>2, <2>3 DEF RInv, RTypes
<1>16. ListsApart'
  BY <1>1, ApartSame DEF RInv
<1>17. RenderPlaces'
  <2>1. \A y \in Items : Kept(y) => y # x
    BY <1>3
  <2>2. renderAt = "moved" => cursor # <<>> /\ cursor[1] \in Items /\ Kept(cursor[1])
    <3>1. renderAt = "moved" => cursor # <<>> /\ cursor \in Seq(Items)
      BY DEF RInv, RTypes, RenderPlaces
    <3>2. cursor \in Seq(Items) /\ cursor # <<>> => 1 \in 1 .. Len(cursor) /\ cursor[1] \in Items
      OBVIOUS
    <3> QED
      BY <3>1, <3>2 DEF Kept, In
  <2> HIDE DEF Kept
  <2> QED
    BY <1>1, <1>10, <1>11, <2>1, <2>2 DEF RInv, RenderPlaces, Moved
<1>18. Running'
  <2>1. Channel!Open'
    BY <1>1 DEF Running, Channel!Open, RInv, RTypes, Channel!Ends
  <2>2. a \in Seq(Items)
    BY <1>8
  <2> QED
    BY <1>1, <1>14, <2>1, <2>2 DEF Running
<1> QED
  BY <1>8, <1>14, <1>15, <1>16, <1>17, <1>18 DEF RInv

\* The oldest command that was given back is deleted; nobody uses it any more.
LEMMA DeleteFits ==
    ASSUME RInv, NEW f \in Seq(Items), NEW b \in Seq(Items), RShape(f, b), Running,
           Channel!DeleteProcessed
    PROVE  RInv' /\ RShape(f, Tail(b))' /\ allocated' = allocated \ {b[1]} /\ Len(b) > 1
<1>1. /\ next[backward.tail] # Null
      /\ backward' = [backward EXCEPT !.tail = next[backward.tail]]
      /\ allocated' = allocated \ {backward.tail}
      /\ next' = [next EXCEPT ![backward.tail] = Null]
      /\ look = Channel!NoLook
      /\ UNCHANGED <<forward, kind, isDeferred, list, drawn, renderAt, cursor, look, event, closed>>
  BY DEF Channel!DeleteProcessed, Channel!OwnerDeleteProcessedItem, Channel!Empty, Channel!Popped, Channel!lists
<1>2. IsQueue(next, f, forward) /\ IsQueue(next, b, backward) /\ Where(f, b)
  BY DEF RShape
<1>3. next \in [Items -> Items \cup {Null}]
  BY DEF RInv, RTypes
<1>4. backward.tail = b[1] /\ b[1] \in Items /\ In(b, b[1]) /\ Len(b) # 1 /\ Len(b) >= 1 /\ Len(b) \in Nat
  BY <1>1, <1>2, QueueHas
<1>5. PICK a, n : a = Tail(b) /\ n = Len(b)
  OBVIOUS
<1>6. /\ n \in Nat /\ n > 1 /\ a \in Seq(Items) /\ Len(a) = n - 1
      /\ \A i \in 1 .. n - 1 : a[i] = b[i + 1]
      /\ \A y : In(a, y) <=> (In(b, y) /\ y # b[1])
  BY <1>2, <1>4, <1>5, TailHas DEF IsQueue
<1>7. \A y \in Items : y # b[1] => next'[y] = next[y]
  BY <1>1, <1>3, <1>4
<1>8. next' \in [Items -> Items \cup {Null}]
  BY <1>1, <1>3
<1>9. IsQueue(next', f, forward')
  <2>1. \A y : In(f, y) => y \in Items
    BY <1>2, QueueHas
  <2>2. \A y : In(f, y) => next'[y] = next[y]
    BY <1>2, <1>4, <1>7, <2>1 DEF Where
  <2>3. IsQueue(next', f, forward)
    BY <1>2, <2>2, QueueKept
  <2> QED
    BY <1>1, <2>3
<1>10. IsQueue(next', a, backward')
  <2>1. IsQueue(next, Tail(b), [backward EXCEPT !.tail = next[backward.tail]])
    BY <1>1, <1>2, QueuePops
  <2>2. IsQueue(next, a, backward')
    BY <1>1, <1>5, <2>1
  <2>3. \A y : In(a, y) => y \in Items
    BY <2>2, QueueHas
  <2>4. \A y : In(a, y) => next'[y] = next[y]
    BY <1>6, <1>7, <2>3
  <2> QED
    BY <2>2, <2>4, QueueKept
<1>11. \A y : Kept(y)' <=> Kept(y)
  BY <1>1, KeptSame
<1>12. ~ Kept(b[1])
  <2>1. b[1] \notin isDeferred
    BY <1>2, <1>4 DEF Where
  <2>2. f[1] # b[1]
    <3>1. In(f, f[1])
      BY <1>2, QueueHas
    <3> QED
      BY <1>2, <1>4, <3>1 DEF Where
  <2>3. b[Len(b)] # b[1]
    <3>1. 1 \in 1 .. n /\ n \in 1 .. n /\ n # 1
      BY <1>6
    <3> QED
      BY <1>2, <1>5, <3>1 DEF IsQueue, Distinct
  <2>4. ~ Moved(b[1])
    BY <1>2, <2>2, <2>3 DEF Where, Moved
  <2> QED
    BY <1>4, <2>1, <2>4 DEF RInv, RenderPlaces
<1>13. Where(f, a)'
  <2>1. \A y \in Items : ~ (In(f, y) /\ In(a, y))
    BY <1>2, <1>6 DEF Where
  <2>2. \A y \in Items : y \in allocated' <=> In(f, y) \/ In(a, y) \/ Kept(y)
    <3> HIDE DEF Kept
    <3> QED
      BY <1>1, <1>2, <1>4, <1>6, <1>12 DEF Where
  <2>3. \A y \in Items : In(a, y) => y \notin isDeferred
    BY <1>2, <1>6 DEF Where
  <2>4. renderAt = "moved" => cursor[1] = f[1] \/ cursor[1] = a[Len(a)]
    <3>1. a[Len(a)] = b[n]
      <4>1. n - 1 \in 1 .. n - 1 /\ (n - 1) + 1 = n
        BY <1>6
      <4> QED
        BY <1>6, <4>1
    <3> QED
      BY <1>2, <1>5, <3>1 DEF Where
  <2>5. \A i \in 2 .. Len(f) : ~ Kept(f[i]) /\ (f[i] \in isDeferred <=> kind[f[i]].type = "deferred")
    BY <1>2 DEF Where
  <2>6. f[1] \in isDeferred => Kept(f[1])
    BY <1>2 DEF Where
  <2>7. look'.at # "tail"
    BY <1>1 DEF Channel!NoLook
  <2> HIDE DEF Kept
  <2> QED
    BY <1>1, <1>11, <2>1, <2>2, <2>3, <2>4, <2>5, <2>6, <2>7 DEF Where
<1>14. RShape(f, a)'
  BY <1>9, <1>10, <1>13 DEF RShape
<1>15. RTypes'
  <2>1. backward' \in Channel!Ends
    BY <1>10 DEF IsQueue, Channel!Ends
  <2> QED
    BY <1>1, <1>8, <2>1 DEF RInv, RTypes
<1>16. ListsApart'
  BY <1>1, ApartSame DEF RInv
<1>17. RenderPlaces'
  BY <1>1, <1>11 DEF RInv, RenderPlaces, Moved
<1>18. Running'
  BY <1>1, <1>6, <1>14 DEF Running, Channel!Open
<1> QED
  BY <1>1, <1>4, <1>5, <1>6, <1>14, <1>15, <1>16, <1>17, <1>18 DEF RInv

-----------------------------------------------------------------------------
(* The renderAt thread.                                                      *)

\* Where a command goes back when the next one becomes the null node.
GivenBack(f, b) == IF f[1] \in isDeferred THEN b ELSE Append(b, f[1])

\* What a pop does to the two queues.
LEMMA PopQueues ==
    ASSUME RInv, NEW f \in Seq(Items), NEW b \in Seq(Items), RShape(f, b),
           NEW x \in Items, Channel!Popping(x),
           NEW c, c = GivenBack(f, b)
    PROVE  /\ IsQueue(next', Tail(f), forward') /\ IsQueue(next', c, backward')
           /\ next' \in [Items -> Items \cup {Null}]
           /\ c \in Seq(Items)
           /\ \A y : In(c, y) <=> (In(b, y) \/ (y = f[1] /\ f[1] \notin isDeferred))
           /\ UNCHANGED allocated
           /\ kind' = [kind EXCEPT ![x] = Channel!NullCommand]
           /\ Len(f) > 1 /\ x = f[2] /\ f[1] \in Items /\ f[1] # x
<1>1. /\ next[forward.tail] # Null /\ x = next[forward.tail]
      /\ forward' = [forward EXCEPT !.tail = next[forward.tail]]
      /\ kind' = [kind EXCEPT ![x] = Channel!NullCommand]
      /\ UNCHANGED allocated
      /\ IF forward.tail \in Items \ isDeferred
         THEN /\ next' = [next EXCEPT ![forward.tail] = Null, ![backward.head] = forward.tail]
              /\ backward' = [backward EXCEPT !.head = forward.tail]
         ELSE UNCHANGED <<next, backward>>
  BY DEF Channel!Popping, Channel!UserPopFront, Channel!Empty, Channel!Popped, Channel!Linked, Channel!Pushed, Channel!NotDeferred
<1>2. IsQueue(next, f, forward) /\ IsQueue(next, b, backward) /\ Where(f, b)
  BY DEF RShape
<1>3. next \in [Items -> Items \cup {Null}]
  BY DEF RInv, RTypes
<1>4. /\ forward.tail = f[1] /\ f[1] \in Items /\ In(f, f[1]) /\ Len(f) > 1 /\ x = f[2] /\ f[1] # x
      /\ \A y : In(f, y) => y \in Items
  <2>1. Len(f) # 1 /\ Len(f) \in Nat /\ Len(f) >= 1
    BY <1>1, <1>2, QueueHas
  <2> QED
    BY <1>1, <1>2, <2>1, QueueHas
<1>5. backward.head = b[Len(b)] /\ In(b, b[Len(b)]) /\ backward.head \in Items
  BY <1>2, QueueHas
<1>6. ~ In(b, f[1])
  BY <1>2, <1>4 DEF Where
<1>7. \A y : In(Tail(f), y) <=> (In(f, y) /\ y # f[1])
  BY <1>2, TailHas DEF IsQueue
<1>8. IsQueue(next, Tail(f), forward')
  BY <1>1, <1>2, QueuePops
<1>9. CASE f[1] \in isDeferred
  <2>1. c = b /\ UNCHANGED <<next, backward>>
    BY <1>1, <1>4, <1>9 DEF GivenBack
  <2> QED
    BY <1>1, <1>2, <1>3, <1>4, <1>8, <1>9, <2>1
<1>10. CASE f[1] \notin isDeferred
  <2>1. /\ c = Append(b, f[1]) /\ next' = [next EXCEPT ![f[1]] = Null, ![backward.head] = f[1]]
        /\ backward' = [backward EXCEPT !.head = f[1]]
    BY <1>1, <1>4, <1>10 DEF GivenBack
  <2>2. /\ IsQueue(next', Append(b, f[1]), backward')
        /\ next' \in [Items -> Items \cup {Null}]
        /\ \A y \in Items : y # f[1] /\ y # backward.head => next'[y] = next[y]
    <3>1. PICK m, q, z : m = next' /\ q = backward' /\ z = f[1]
      OBVIOUS
    <3>2. /\ m = [next EXCEPT ![z] = Null, ![backward.head] = z] /\ q = [backward EXCEPT !.head = z]
          /\ z \in Items /\ ~ In(b, z)
      BY <1>4, <1>6, <2>1, <3>1
    <3>3. IsQueue(m, Append(b, z), q) /\ m \in [Items -> Items \cup {Null}]
          /\ \A y \in Items : y # z /\ y # backward.head => m[y] = next[y]
      BY <1>2, <1>3, <3>2, QueuePushes
    <3> QED
      BY <3>1, <3>3
  <2>3. \A y : In(c, y) <=> (In(b, y) \/ y = f[1])
    BY <1>4, <2>1, AppendHas
  <2>4. c \in Seq(Items)
    BY <1>4, <2>1, AppendHas
  <2>5. IsQueue(next', Tail(f), forward')
    <3>1. \A y : In(Tail(f), y) => next'[y] = next[y]
      BY <1>2, <1>4, <1>5, <1>7, <2>2 DEF Where
    <3> QED
      BY <1>8, <3>1, QueueKept
  <2> QED
    BY <1>1, <1>4, <1>10, <2>1, <2>2, <2>3, <2>4, <2>5
<1> QED
  BY <1>9, <1>10

\* A popped command is in the list of its scene if it is deferred, else in none;
\* its predecessor is given back unless it is deferred itself.
LEMMA PopFits ==
    ASSUME RInv, NEW f \in Seq(Items), NEW b \in Seq(Items), RShape(f, b), Running,
           NEW x \in Items, Channel!Defer(x) \/ Channel!Draw(x) \/ Channel!EndFrame(x),
           NEW c, c = GivenBack(f, b)
    PROVE  RInv' /\ RShape(Tail(f), c)' /\ UNCHANGED allocated
<1>0. Channel!Popping(x) /\ renderAt = "loop"
  BY DEF Channel!Defer, Channel!Draw, Channel!EndFrame, Channel!Popping
<1>1. /\ IsQueue(next', Tail(f), forward') /\ IsQueue(next', c, backward')
      /\ next' \in [Items -> Items \cup {Null}]
      /\ c \in Seq(Items)
      /\ \A y : In(c, y) <=> (In(b, y) \/ (y = f[1] /\ f[1] \notin isDeferred))
      /\ UNCHANGED allocated
      /\ kind' = [kind EXCEPT ![x] = Channel!NullCommand]
      /\ Len(f) > 1 /\ x = f[2] /\ f[1] \in Items /\ f[1] # x
  BY <1>0, PopQueues
<1>2. UNCHANGED <<isDeferred, cursor, look, event, closed>> /\ cursor = <<>>
  BY <1>0 DEF Channel!Defer, Channel!Draw, Channel!EndFrame, RInv, RenderPlaces
<1>3. IsQueue(next, f, forward) /\ IsQueue(next, b, backward) /\ Where(f, b)
  BY DEF RShape
<1>4. PICK a, n : a = Tail(f) /\ n = Len(f)
  OBVIOUS
<1>5. /\ n \in Nat /\ n > 1 /\ a \in Seq(Items) /\ Len(a) = n - 1
      /\ \A i \in 1 .. n - 1 : a[i] = f[i + 1]
      /\ \A y : In(a, y) <=> (In(f, y) /\ y # f[1])
      /\ \A i, j \in 1 .. n : f[i] = f[j] => i = j
      /\ \A i \in 1 .. n : f[i] \in Items /\ In(f, f[i])
  <2>1. f \in Seq(Items) /\ n \in Nat /\ n >= 1 /\ Distinct(f) /\ \A i \in 1 .. n : f[i] \in Items /\ In(f, f[i])
    BY <1>3, <1>4, QueueHas
  <2> QED
    BY <1>1, <1>4, <2>1, TailHas DEF Distinct
<1>6. x \in Items /\ ~ Kept(x) /\ (x \in isDeferred <=> kind[x].type = "deferred") /\ In(f, x)
  <2>1. 2 \in 2 .. n /\ 2 \in 1 .. n
    BY <1>5
  <2> QED
    BY <1>1, <1>3, <1>4, <1>5, <2>1 DEF Where
<1>7. /\ list' \in [Scenes -> Seq(Items)] /\ drawn' \subseteq Scenes /\ renderAt' \in {"loop", "end_frame"}
      /\ \A y : Kept(y)' <=> Kept(y) \/ (y = x /\ x \in isDeferred)
      /\ ListsApart'
  <2>1. CASE Channel!Defer(x)
    <3>1. PICK s : s = kind[x].scene
      OBVIOUS
    <3>2. /\ list' = [list EXCEPT ![s] = Append(list[s], x)] /\ UNCHANGED <<drawn, renderAt>>
          /\ kind[x].type = "deferred"
      BY <2>1, <3>1 DEF Channel!Defer
    <3>3. s \in Scenes
      <4>1. kind[x] \in Channel!Kinds
        BY <1>6 DEF RInv, RTypes
      <4> QED
        BY <3>1, <3>2, <4>1 DEF Channel!Kinds
    <3>4. list \in [Scenes -> Seq(Items)] /\ list[s] \in Seq(Items)
      BY <3>3 DEF RInv, RTypes
    <3>5. /\ list' \in [Scenes -> Seq(Items)] /\ list'[s] = Append(list[s], x)
          /\ \A r \in Scenes : r # s => list'[r] = list[r]
      BY <3>2, <3>3, <3>4, <1>6, AppendHas
    <3>6. ~ In(list[s], x) /\ \A r \in Scenes : ~ In(list[r], x)
      BY <1>6, <3>3 DEF Kept
    <3>7. /\ \A y : In(list'[s], y) <=> (In(list[s], y) \/ y = x)
          /\ Distinct(list[s]) => Distinct(list'[s])
      BY <1>6, <3>4, <3>5, <3>6, AppendHas
    <3>8. \A y : Kept(y)' <=> Kept(y) \/ (y = x /\ x \in isDeferred)
      <4> HIDE DEF In
      <4>1. ASSUME NEW y PROVE (\E r \in Scenes : In(list'[r], y)) <=> ((\E r \in Scenes : In(list[r], y)) \/ y = x)
        BY <3>3, <3>5, <3>7
      <4>2. ASSUME NEW y PROVE In(cursor, y)' <=> In(cursor, y)
        BY <1>2 DEF In
      <4>3. ASSUME NEW y PROVE (\E r \in Scenes : In(list[r], y))' <=> \E r \in Scenes : In(list'[r], y)
        BY DEF In
      <4> QED
        BY <1>6, <3>2, <4>1, <4>2, <4>3 DEF Kept
    <3>9. ListsApart'
      <4> HIDE DEF In, Distinct
      <4>1. ListsApart
        BY DEF RInv
      <4>2. \A r \in Scenes : Distinct(list'[r])
        BY <3>3, <3>5, <3>7, <4>1 DEF ListsApart
      <4>3. \A r \in Scenes : \A y \in Items : ~ In(cursor, y)
        BY <1>2 DEF In
      <4>4. ASSUME NEW r \in Scenes, NEW q \in Scenes, r # q, NEW y \in Items
            PROVE  ~ (In(list'[r], y) /\ In(list'[q], y))
        <5>1. ~ (In(list[r], y) /\ In(list[q], y))
          BY <4>1, <4>4 DEF ListsApart
        <5> QED
          BY <3>3, <3>5, <3>6, <3>7, <4>4, <5>1
      <4>5. Distinct(cursor')
        BY <1>2, <4>1 DEF ListsApart
      <4> QED
        BY <1>2, <4>2, <4>3, <4>4, <4>5 DEF ListsApart, In, Distinct
    <3>10. drawn \subseteq Scenes
      BY DEF RInv, RTypes
    <3> QED
      BY <1>0, <3>2, <3>5, <3>8, <3>9, <3>10
  <2>2. CASE Channel!Draw(x) \/ Channel!EndFrame(x)
    <3>1. UNCHANGED list /\ kind[x].type # "deferred" /\ renderAt' \in {"loop", "end_frame"}
      BY <1>0, <2>2 DEF Channel!Draw, Channel!EndFrame
    <3>2. drawn' \subseteq Scenes
      <4>1. kind[x] \in Channel!Kinds /\ drawn \subseteq Scenes
        BY <1>6 DEF RInv, RTypes
      <4>2. kind[x].type = "draw" => kind[x].scene \in Scenes
        BY <4>1 DEF Channel!Kinds
      <4> QED
        BY <2>2, <4>1, <4>2 DEF Channel!Draw, Channel!EndFrame
    <3>3. list' \in [Scenes -> Seq(Items)]
      BY <3>1 DEF RInv, RTypes
    <3>4. \A y : Kept(y)' <=> Kept(y)
      BY <1>2, <3>1, KeptSame
    <3>5. ListsApart'
      BY <1>2, <3>1, ApartSame DEF RInv
    <3> HIDE DEF Kept, ListsApart
    <3> QED
      BY <1>6, <3>1, <3>2, <3>3, <3>4, <3>5
  <2> QED
    BY <2>1, <2>2
<1>8. Where(a, c)'
  <2> HIDE DEF Kept, In
  <2>1. \A y \in Items : ~ (In(a, y) /\ In(c, y))
    BY <1>1, <1>3, <1>5 DEF Where
  <2>2. \A y \in Items : y \in allocated' <=> In(a, y) \/ In(c, y) \/ Kept(y)'
    <3>1. f[1] \in isDeferred => Kept(f[1])
      BY <1>3 DEF Where
    <3> QED
      BY <1>1, <1>3, <1>5, <1>6, <1>7, <3>1 DEF Where
  <2>3. \A y \in Items : In(c, y) => y \notin isDeferred
    BY <1>1, <1>3 DEF Where
  <2>4. renderAt' # "moved"
    BY <1>7
  <2>5. ASSUME NEW i \in 2 .. Len(a)
        PROVE  ~ Kept(a[i])' /\ (a[i] \in isDeferred <=> kind'[a[i]].type = "deferred")
    <3>1. i \in 1 .. n - 1 /\ i + 1 \in 2 .. n /\ i + 1 \in 1 .. n /\ 2 \in 1 .. n /\ i + 1 # 2
      BY <1>5
    <3>2. a[i] = f[i + 1] /\ f[i + 1] # f[2] /\ f[i + 1] \in Items
      BY <1>5, <3>1
    <3>3. ~ Kept(f[i + 1]) /\ (f[i + 1] \in isDeferred <=> kind[f[i + 1]].type = "deferred")
      BY <1>3, <1>4, <3>1 DEF Where
    <3>4. kind'[f[i + 1]] = kind[f[i + 1]]
      BY <1>1, <3>2 DEF RInv, RTypes
    <3> QED
      BY <1>1, <1>7, <3>2, <3>3, <3>4
  <2>6. a[1] = x
    <3>1. 1 \in 1 .. n - 1 /\ 1 + 1 = 2
      BY <1>5
    <3> QED
      BY <1>1, <1>5, <3>1
  <2>7. a[1] \in isDeferred => Kept(a[1])'
    BY <1>7, <2>6
  <2>8. look'.at = "tail" => look'.tail \in allocated'
    BY <1>1, <1>2, <1>3 DEF Where
  <2>9. Where(a, c)' <=>
          /\ \A y \in Items : ~ (In(a, y) /\ In(c, y))
          /\ \A y \in Items : y \in allocated' <=> In(a, y) \/ In(c, y) \/ Kept(y)'
          /\ \A y \in Items : In(c, y) => y \notin isDeferred'
          /\ renderAt' = "moved" => cursor'[1] = a[1] \/ cursor'[1] = c[Len(c)]
          /\ \A i \in 2 .. Len(a) : ~ Kept(a[i])' /\ (a[i] \in isDeferred' <=> kind'[a[i]].type = "deferred")
          /\ a[1] \in isDeferred' => Kept(a[1])'
          /\ look'.at = "tail" => look'.tail \in allocated'
    BY DEF Where
  <2> QED
    BY <1>2, <2>1, <2>2, <2>3, <2>4, <2>5, <2>7, <2>8, <2>9
<1>9. RShape(a, c)'
  BY <1>1, <1>4, <1>8 DEF RShape
<1>10. RTypes'
  <2>1. forward' \in Channel!Ends /\ backward' \in Channel!Ends
    BY <1>1 DEF IsQueue, Channel!Ends
  <2>2. kind' \in [Items -> Channel!Kinds]
    <3>1. Channel!NullCommand \in Channel!Kinds
      BY DEF Channel!NullCommand, Channel!Kinds
    <3> QED
      BY <1>1, <3>1 DEF RInv, RTypes
  <2> QED
    BY <1>1, <1>2, <1>7, <2>1, <2>2 DEF RInv, RTypes
<1>11. RenderPlaces'
  <2>1. \A y \in Items : Kept(y) => y \in isDeferred
    BY <1>0 DEF RInv, RenderPlaces, Moved
  <2>2. \A y \in Items : Kept(y)' => y \in isDeferred
    <3> HIDE DEF Kept
    <3> QED
      BY <1>7, <2>1
  <2> HIDE DEF Kept
  <2> QED
    BY <1>2, <1>7, <2>2 DEF RenderPlaces
<1>12. Running'
  <2>1. Channel!Open'
    <3>1. forward'.tail # Null
      BY <1>1, QueueHas
    <3> QED
      BY <3>1 DEF Channel!Open
  <2> QED
    BY <1>1, <1>2, <1>5, <1>9, <2>1 DEF Running
<1> QED
  BY <1>1, <1>4, <1>7, <1>9, <1>10, <1>11, <1>12 DEF RInv

-----------------------------------------------------------------------------
(* Channel!Chain follows the links.                                                *)

\* Induction over the natural numbers, by the least number outside of T.
LEMMA SetInduction ==
    ASSUME NEW T, 0 \in T, \A n \in Nat : n \in T => n + 1 \in T
    PROVE  Nat \subseteq T
<1>1. SUFFICES ASSUME Nat \ T # {} PROVE FALSE
  OBVIOUS
<1>2. PICK m \in Nat \ T : \A y \in Nat \ T : ~ (<<y, m>> \in OpToRel(<, Nat))
  <2>1. Nat \ T \subseteq Nat
    OBVIOUS
  <2> QED
    BY <1>1, <2>1, NatLessThanWellFounded, WFMin, Zenon
<1>3. m \in Nat /\ m \notin T /\ m # 0
  BY <1>2
<1>4. m - 1 \in Nat /\ m = (m - 1) + 1 /\ m - 1 < m
  BY <1>3
<1>5. m - 1 \notin T
  BY <1>3, <1>4
<1>6. <<m - 1, m>> \in OpToRel(<, Nat)
  BY <1>3, <1>4 DEF OpToRel
<1> QED
  BY <1>2, <1>4, <1>5, <1>6

\* The module of the channel counts as this one does.
LEMMA SameCount == \A S : Channel!Cardinality(S) = Cardinality(S)
BY DEF Channel!Cardinality, Cardinality

\* Chain(q) is the one sequence the links make of a queue.
ChainFollows == \A s \in Seq(Items) : \A q : IsQueue(next, s, q) => Channel!Chain(q) = s

\* Chain, defined by a recursion as long as there are values, follows the links to
\* the head of the queue.
LEMMA ChainLemma == ChainFollows
<1> SUFFICES ASSUME NEW s \in Seq(Items), NEW q, IsQueue(next, s, q) PROVE Channel!Chain(q) = s
  BY DEF ChainFollows
<1> DEFINE N == Channel!Cardinality(Items)
           n == Len(s)
           Step(v) == IF v[Len(v)] \in {q.head, Null} THEN v ELSE Append(v, next[v[Len(v)]])
           F(f) == [k \in 1 .. N |-> IF k = 1 THEN <<q.tail>> ELSE Step(f[k - 1])]
           m(k) == IF k <= n THEN k ELSE n
           Pre(k) == [i \in 1 .. m(k) |-> s[i]]
           c == CHOOSE f : f = F(f)
<1>1. N \in Nat /\ IsFiniteSet(Items) /\ Null \notin Items
  BY FS_CardinalityType, SameCount, EngineAssumption
<1>2. n \in Nat /\ n >= 1 /\ s \in [1 .. n -> Items]
  BY LenProperties DEF IsQueue
<1>20. q.tail = s[1] /\ q.head = s[n] /\ q.head \in Items /\ q.tail \in Items
  BY DEF IsQueue
<1>21. \A i, j \in 1 .. n : s[i] = s[j] => i = j
  BY DEF IsQueue, Distinct
<1>22. \A i \in 1 .. n : next[s[i]] = IF i = n THEN Null ELSE s[i + 1]
  BY DEF IsQueue
<1>3. n <= N
  <2>1. s \in Injection(1 .. n, Items)
    BY <1>2, <1>21 DEF Injection, IsInjective
  <2>2. Cardinality(1 .. n) = n
    BY <1>2, FS_Interval
  <2> QED
    BY <1>1, <2>1, <2>2, FS_Injection, SameCount
<1>4. Channel!Chain(q) = c[N]
  BY DEF Channel!Chain
<1>5. ASSUME NEW k \in Nat, k >= 1
      PROVE  Pre(k) \in Seq(Items) /\ Len(Pre(k)) = m(k) /\ m(k) \in Nat
  <2>1. m(k) \in Nat /\ Pre(k) \in [1 .. m(k) -> Items]
    BY <1>2, <1>5
  <2> QED
    BY <2>1
<1>6. Pre(1) = <<q.tail>>
  <2>1. m(1) = 1 /\ 1 \in 1 .. n
    BY <1>2
  <2>2. Pre(1) \in Seq(Items) /\ Len(Pre(1)) = 1 /\ Pre(1)[1] = q.tail
    BY <1>2, <1>20, <1>5, <2>1
  <2>3. <<q.tail>> \in Seq(Items) /\ Len(<<q.tail>>) = 1 /\ <<q.tail>>[1] = q.tail
    BY <1>20
  <2> HIDE DEF Pre
  <2>4. PICK u, v : u = Pre(1) /\ v = <<q.tail>>
    OBVIOUS
  <2>5. u \in Seq(Items) /\ v \in Seq(Items) /\ Len(u) = 1 /\ Len(v) = 1 /\ \A i \in 1 .. 1 : u[i] = v[i]
    BY <2>2, <2>3, <2>4
  <2>6. u = v
    BY <2>5, SeqEqual
  <2> QED
    BY <2>4, <2>6
<1>7. ASSUME NEW k \in Nat, k >= 1 PROVE Pre(k + 1) = Step(Pre(k))
  <2>0. /\ Pre(k) \in Seq(Items) /\ Len(Pre(k)) = m(k) /\ m(k) \in Nat
        /\ Pre(k + 1) \in Seq(Items) /\ Len(Pre(k + 1)) = m(k + 1)
    BY <1>5, <1>7
  <2>1. CASE k < n
    <3>1. m(k) = k /\ m(k + 1) = k + 1 /\ k \in 1 .. n /\ k + 1 \in 1 .. n /\ n \in 1 .. n /\ k # n
      <4>1. n \in Nat /\ k \in Nat /\ k < n /\ k >= 1
        BY <1>2, <1>7, <2>1
      <4> HIDE DEF n
      <4> QED
        BY <4>1
    <3>2. Pre(k)[k] = s[k]
      BY <1>7, <3>1
    <3>3. s[k] \notin {q.head, Null}
      <4> HIDE DEF n
      <4> QED
        BY <1>1, <1>2, <1>20, <1>21, <3>1
    <3>4. next[s[k]] = s[k + 1] /\ s[k + 1] \in Items
      BY <1>2, <1>22, <3>1
    <3>5. Step(Pre(k)) = Append(Pre(k), s[k + 1])
      <4> HIDE DEF Pre
      <4> QED
        BY <2>0, <3>1, <3>2, <3>3, <3>4
    <3>6. \A i \in 1 .. k + 1 : Pre(k + 1)[i] = Append(Pre(k), s[k + 1])[i]
      BY <2>0, <3>1, <3>4
    <3> HIDE DEF Pre, m
    <3>7. Append(Pre(k), s[k + 1]) \in Seq(Items) /\ Len(Append(Pre(k), s[k + 1])) = k + 1
      BY <2>0, <3>1, <3>4
    <3> QED
      BY <2>0, <3>1, <3>5, <3>6, <3>7, SeqEqual
  <2>2. CASE ~ (k < n)
    <3>1. m(k) = n /\ m(k + 1) = n /\ n \in 1 .. n
      <4> HIDE DEF n
      <4> QED
        BY <1>2, <2>2
    <3>2. Pre(k + 1) = Pre(k)
      BY <3>1
    <3>3. Pre(k)[n] = q.head
      BY <1>20, <3>1
    <3> HIDE DEF Pre, m
    <3> QED
      BY <2>0, <3>1, <3>2, <3>3
  <2> QED
    BY <2>1, <2>2
<1>8. c = F(c)
  <2> DEFINE g == [k \in 1 .. N |-> Pre(k)]
  <2>1. ASSUME NEW k \in 1 .. N PROVE g[k] = IF k = 1 THEN <<q.tail>> ELSE Step(g[k - 1])
    <3> HIDE DEF Pre, Step
    <3>1. CASE k = 1
      BY <1>6, <3>1
    <3>2. CASE k # 1
      <4>1. k - 1 \in Nat /\ k - 1 \in 1 .. N /\ (k - 1) + 1 = k /\ k - 1 >= 1
        BY <1>1, <3>2
      <4>2. g[k - 1] = Pre(k - 1) /\ g[k] = Pre(k)
        BY <4>1
      <4>3. Pre((k - 1) + 1) = Step(Pre(k - 1))
        BY <1>7, <4>1
      <4> QED
        BY <3>2, <4>1, <4>2, <4>3
    <3> QED
      BY <3>1, <3>2
  <2>2. g = F(g)
    <3> HIDE DEF Pre, Step
    <3> QED
      BY <2>1
  <2> HIDE DEF F, g
  <2> QED
    BY <2>2
<1>9. c[1] = <<q.tail>> /\ \A k \in 2 .. N : c[k] = Step(c[k - 1])
  <2>1. PICK v : v = c
    OBVIOUS
  <2> HIDE DEF c, Pre, Step
  <2>2. v = F(v)
    BY <1>8, <2>1
  <2> HIDE DEF F
  <2>3. v = [k \in 1 .. N |-> IF k = 1 THEN <<q.tail>> ELSE Step(v[k - 1])]
    BY <2>2 DEF F
  <2>4. v[1] = <<q.tail>>
    <3>1. 1 \in 1 .. N
      BY <1>1, <1>2, <1>3
    <3> QED
      BY ONLY <2>3, <3>1
  <2>5. ASSUME NEW k \in 2 .. N PROVE v[k] = Step(v[k - 1])
    <3>1. k \in 1 .. N /\ k # 1
      OBVIOUS
    <3>2. v[k] = IF k = 1 THEN <<q.tail>> ELSE Step(v[k - 1])
      BY ONLY <2>3, <3>1
    <3> QED
      BY <3>1, <3>2
  <2> QED
    BY <2>1, <2>4, <2>5
<1> HIDE DEF c, F
<1> DEFINE T == {k \in Nat : k + 1 \in 1 .. N => c[k + 1] = Pre(k + 1)}
<1>10. 0 \in T
  <2>1. 0 + 1 = 1
    OBVIOUS
  <2> HIDE DEF Pre
  <2> QED
    BY <1>6, <1>9, <2>1
<1>11. \A k \in Nat : k \in T => k + 1 \in T
  <2> HIDE DEF Pre, Step
  <2> TAKE k \in Nat
  <2> HAVE k \in T
  <2>1. SUFFICES ASSUME (k + 1) + 1 \in 1 .. N PROVE c[(k + 1) + 1] = Pre((k + 1) + 1)
    OBVIOUS
  <2>2. k + 1 \in 1 .. N /\ (k + 1) + 1 \in 2 .. N /\ ((k + 1) + 1) - 1 = k + 1 /\ k + 1 \in Nat /\ k + 1 >= 1
    BY <1>1, <2>1
  <2>3. c[(k + 1) + 1] = Step(c[k + 1]) /\ c[k + 1] = Pre(k + 1)
    BY <1>9, <2>2
  <2> QED
    BY <1>7, <2>2, <2>3
<1>12. c[N] = Pre(N)
  <2> HIDE DEF T, Pre
  <2>1. Nat \subseteq T
    BY <1>10, <1>11, SetInduction
  <2>2. N - 1 \in Nat /\ (N - 1) + 1 = N /\ N \in 1 .. N
    BY <1>1, <1>2, <1>3
  <2> QED
    BY <2>1, <2>2 DEF T
<1>13. Pre(N) = s
  <2>1. m(N) = n
    BY <1>1, <1>2, <1>3
  <2> QED
    BY <1>2, <2>1
<1> QED
  BY <1>4, <1>12, <1>13

-----------------------------------------------------------------------------
(* The end of a frame, and the end.                                        *)

\* The first value of a list.
LEMMA HeadOf ==
    ASSUME NEW s \in Seq(Items), s # <<>>
    PROVE  Head(s) = s[1] /\ s[1] \in Items /\ In(s, s[1]) /\ Len(s) >= 1
<1>1. 1 \in 1 .. Len(s) /\ Head(s) = s[1] /\ s[1] \in Items
  OBVIOUS
<1> QED
  BY <1>1 DEF In

\* The list of a drawn scene is walked.
LEMMA NextSceneFits ==
    ASSUME RInv, Running, Channel!NextScene
    PROVE  RInv'
<1>1. /\ UNCHANGED <<next, forward, backward, allocated, kind, isDeferred, look, event, closed>>
      /\ renderAt = "end_frame" /\ cursor = <<>>
      /\ renderAt' \in {"end_frame", "loop"} /\ (renderAt' = "loop" => cursor' = <<>>)
  BY DEF Channel!NextScene, Channel!channel
<1>2. PICK f, b \in Seq(Items) : RShape(f, b)
  BY DEF Running
<1>3. \A x : ~ In(cursor, x)
  BY <1>1 DEF In
<1>4. /\ list' \in [Scenes -> Seq(Items)] /\ cursor' \in Seq(Items) /\ drawn' \subseteq Scenes
      /\ \A x : Kept(x)' <=> Kept(x)
      /\ ListsApart'
  <2>1. ASSUME NEW s \in drawn, drawn' = drawn \ {s}, cursor' = list[s], list' = [list EXCEPT ![s] = <<>>]
        PROVE  /\ list' \in [Scenes -> Seq(Items)] /\ cursor' \in Seq(Items) /\ drawn' \subseteq Scenes
               /\ \A x : Kept(x)' <=> Kept(x)
               /\ ListsApart'
    <3>1. list \in [Scenes -> Seq(Items)] /\ drawn \subseteq Scenes /\ s \in Scenes
      BY DEF RInv, RTypes
    <3>2. /\ list' \in [Scenes -> Seq(Items)] /\ list'[s] = <<>>
          /\ \A r \in Scenes : r # s => list'[r] = list[r]
      BY <2>1, <3>1
    <3>3. \A x : ~ In(list'[s], x)
      BY <3>2 DEF In
    <3>4. Distinct(list'[s])
      BY <3>2 DEF Distinct
    <3>5. \A x : In(cursor', x) <=> In(list[s], x)
      BY <2>1
    <3>6. ASSUME NEW x PROVE Kept(x)' <=> Kept(x)
      <4> HIDE DEF In
      <4>1. Kept(x)' <=> (\E r \in Scenes : In(list'[r], x)) \/ In(cursor', x)
        BY DEF Kept, In
      <4> QED
        BY <1>3, <3>1, <3>2, <3>3, <3>5, <4>1 DEF Kept
    <3>7. ListsApart'
      <4> HIDE DEF In, Distinct
      <4>1. ListsApart
        BY DEF RInv
      <4>2. Distinct(cursor')
        BY <2>1, <3>1, <4>1 DEF ListsApart
      <4>3. ASSUME NEW r \in Scenes
            PROVE  Distinct(list'[r]) /\ \A x \in Items : ~ (In(list'[r], x) /\ In(cursor', x))
        BY <3>1, <3>2, <3>3, <3>4, <3>5, <4>1 DEF ListsApart
      <4>4. ASSUME NEW r \in Scenes, NEW q \in Scenes, r # q, NEW x \in Items
            PROVE  ~ (In(list'[r], x) /\ In(list'[q], x))
        <5>1. ~ (In(list[r], x) /\ In(list[q], x))
          BY <4>1, <4>4 DEF ListsApart
        <5> QED
          BY <3>2, <3>3, <4>4, <5>1
      <4> QED
        BY <4>2, <4>3, <4>4 DEF ListsApart, In, Distinct
    <3>8. drawn' \subseteq Scenes /\ cursor' \in Seq(Items)
      BY <2>1, <3>1
    <3> QED
      BY <3>2, <3>6, <3>7, <3>8
  <2>2. CASE UNCHANGED <<drawn, cursor, list>>
    <3>1. \A x : Kept(x)' <=> Kept(x)
      BY <2>2, KeptSame
    <3>2. ListsApart'
      BY <2>2, ApartSame DEF RInv
    <3> QED
      BY <2>2, <3>1, <3>2 DEF RInv, RTypes
  <2>3. \/ \E s \in drawn : drawn' = drawn \ {s} /\ cursor' = list[s] /\ list' = [list EXCEPT ![s] = <<>>]
        \/ UNCHANGED <<drawn, cursor, list>>
    BY DEF Channel!NextScene
  <2> HIDE DEF Kept, ListsApart
  <2> QED
    BY <2>1, <2>2, <2>3
<1>5. RTypes'
  BY <1>1, <1>4 DEF RInv, RTypes
<1>6. RenderPlaces'
  <2>1. \A x \in Items : Kept(x)' => x \in isDeferred
    <3> HIDE DEF Kept
    <3> QED
      BY <1>1, <1>4 DEF RInv, RenderPlaces, Moved
  <2> HIDE DEF Kept
  <2> QED
    BY <1>1, <2>1 DEF RenderPlaces
<1>7. RShape(f, b)'
  <2>1. IsQueue(next, f, forward)' /\ IsQueue(next, b, backward)'
    BY <1>1, <1>2 DEF RShape
  <2>2. Where(f, b)'
    <3> HIDE DEF Kept
    <3> QED
      BY <1>1, <1>2, <1>4 DEF RShape, Where
  <2> QED
    BY <2>1, <2>2 DEF RShape
<1>8. Running'
  BY <1>1, <1>7 DEF Running, Channel!Open
<1> QED
  BY <1>4, <1>5, <1>6, <1>8 DEF RInv

\* A command that was executed for the last time goes back, unless it is the null
\* node of the queue.
LEMMA MoveFits ==
    ASSUME RInv, NEW f \in Seq(Items), NEW b \in Seq(Items), RShape(f, b), Running,
           Channel!MoveCommand,
           NEW c, c = IF cursor[1] = f[1] THEN b ELSE Append(b, cursor[1])
    PROVE  /\ RInv' /\ RShape(f, c)' /\ UNCHANGED allocated
           /\ cursor[1] # f[1] => cursor[1] \in allocated /\ ~ In(b, cursor[1])
                                  /\ \A i \in 2 .. Len(f) : f[i] # cursor[1]
<1>1. /\ renderAt = "end_frame" /\ cursor # <<>> /\ renderAt' = "moved"
      /\ isDeferred' = isDeferred \ {Head(cursor)}
      /\ UNCHANGED <<forward, allocated, kind, list, drawn, cursor, look, event, closed>>
      /\ IF Head(cursor) # forward.tail
         THEN /\ next' = [next EXCEPT ![Head(cursor)] = Null, ![backward.head] = Head(cursor)]
              /\ backward' = [backward EXCEPT !.head = Head(cursor)]
         ELSE UNCHANGED <<next, backward>>
  BY DEF Channel!MoveCommand, Channel!UserDeleteDeferredValue, Channel!Linked, Channel!Pushed
<1>2. PICK x : x = cursor[1]
  OBVIOUS
<1>3. Head(cursor) = x /\ x \in Items /\ In(cursor, x)
  BY <1>1, <1>2, HeadOf DEF RInv, RTypes
<1>4. IsQueue(next, f, forward) /\ IsQueue(next, b, backward) /\ Where(f, b)
  BY DEF RShape
<1>5. next \in [Items -> Items \cup {Null}]
  BY DEF RInv, RTypes
<1>6. Kept(x) /\ x \in isDeferred /\ x \in allocated /\ ~ In(b, x)
  <2>1. Kept(x)
    BY <1>3 DEF Kept
  <2>2. x \in isDeferred
    BY <1>1, <1>3, <2>1 DEF RInv, RenderPlaces, Moved
  <2> HIDE DEF Kept
  <2> QED
    BY <1>3, <1>4, <2>1, <2>2 DEF Where
<1>7. /\ forward.tail = f[1] /\ f[1] \in Items /\ In(f, f[1]) /\ Len(f) \in Nat /\ Len(f) >= 1
      /\ \A i \in 1 .. Len(f) : f[i] \in Items /\ In(f, f[i])
      /\ \A y : In(f, y) => y \in Items
  BY <1>4, QueueHas
<1>8. \A i \in 2 .. Len(f) : f[i] # x
  BY <1>4, <1>6 DEF Where
<1>9. x # f[1] => ~ In(f, x)
  <2> SUFFICES ASSUME In(f, x) PROVE x = f[1]
    OBVIOUS
  <2>1. PICK i \in 1 .. Len(f) : f[i] = x
    BY DEF In
  <2>2. i = 1 \/ i \in 2 .. Len(f)
    BY <1>7
  <2> QED
    BY <1>8, <2>1, <2>2
<1>10. /\ IsQueue(next', f, forward') /\ IsQueue(next', c, backward')
       /\ next' \in [Items -> Items \cup {Null}] /\ c \in Seq(Items)
       /\ \A y : In(c, y) <=> (In(b, y) \/ (y = x /\ x # f[1]))
       /\ x # f[1] => c[Len(c)] = x
  <2>1. CASE x = f[1]
    <3>1. c = b /\ UNCHANGED <<next, backward, forward>>
      BY <1>1, <1>2, <1>3, <1>7, <2>1
    <3> QED
      BY <1>4, <1>5, <2>1, <3>1
  <2>2. CASE x # f[1]
    <3>1. /\ c = Append(b, x) /\ next' = [next EXCEPT ![x] = Null, ![backward.head] = x]
          /\ backward' = [backward EXCEPT !.head = x]
      BY <1>1, <1>2, <1>3, <1>7, <2>2
    <3>2. PICK m, q : m = next' /\ q = backward'
      OBVIOUS
    <3>3. m = [next EXCEPT ![x] = Null, ![backward.head] = x] /\ q = [backward EXCEPT !.head = x]
      BY <3>1, <3>2
    <3>4. IsQueue(m, Append(b, x), q) /\ m \in [Items -> Items \cup {Null}]
          /\ \A y \in Items : y # x /\ y # backward.head => m[y] = next[y]
      BY <1>3, <1>4, <1>5, <1>6, <3>3, QueuePushes
    <3>5. /\ \A y : In(c, y) <=> (In(b, y) \/ y = x)
          /\ c \in Seq(Items) /\ Len(c) = Len(b) + 1 /\ c[Len(b) + 1] = x
      BY <1>3, <3>1, AppendHas
    <3>6. In(b, backward.head)
      BY <1>4, QueueHas
    <3>7. \A y : In(f, y) => m[y] = next[y]
      BY <1>4, <1>7, <1>9, <2>2, <3>4, <3>6 DEF Where
    <3>8. IsQueue(m, f, forward)
      BY <1>4, <3>7, QueueKept
    <3> QED
      BY <1>1, <2>2, <3>1, <3>2, <3>4, <3>5, <3>8
  <2> QED
    BY <2>1, <2>2
<1>11. \A y : Kept(y)' <=> Kept(y)
  BY <1>1, KeptSame
<1>12. Where(f, c)'
  <2> HIDE DEF Kept, In
  <2>1. \A y \in Items : ~ (In(f, y) /\ In(c, y))
    BY <1>4, <1>9, <1>10 DEF Where
  <2>2. \A y \in Items : y \in allocated <=> In(f, y) \/ In(c, y) \/ Kept(y)
    BY <1>4, <1>6, <1>10 DEF Where
  <2>3. \A y \in Items : In(c, y) => y \notin isDeferred'
    BY <1>1, <1>3, <1>4, <1>10 DEF Where
  <2>4. cursor[1] = f[1] \/ cursor[1] = c[Len(c)]
    BY <1>2, <1>10
  <2>5. \A i \in 2 .. Len(f) : ~ Kept(f[i]) /\ (f[i] \in isDeferred' <=> kind[f[i]].type = "deferred")
    BY <1>1, <1>3, <1>4, <1>8 DEF Where
  <2>6. f[1] \in isDeferred' => Kept(f[1])
    BY <1>1, <1>4 DEF Where
  <2>7. look.at = "tail" => look.tail \in allocated
    BY <1>4 DEF Where
  <2>8. Where(f, c)' <=>
          /\ \A y \in Items : ~ (In(f, y) /\ In(c, y))
          /\ \A y \in Items : y \in allocated' <=> In(f, y) \/ In(c, y) \/ Kept(y)'
          /\ \A y \in Items : In(c, y) => y \notin isDeferred'
          /\ renderAt' = "moved" => cursor'[1] = f[1] \/ cursor'[1] = c[Len(c)]
          /\ \A i \in 2 .. Len(f) : ~ Kept(f[i])' /\ (f[i] \in isDeferred' <=> kind'[f[i]].type = "deferred")
          /\ f[1] \in isDeferred' => Kept(f[1])'
          /\ look'.at = "tail" => look'.tail \in allocated'
    BY DEF Where
  <2> QED
    BY <1>1, <1>11, <2>1, <2>2, <2>3, <2>4, <2>5, <2>6, <2>7, <2>8
<1>13. RShape(f, c)'
  BY <1>10, <1>12 DEF RShape
<1>14. RTypes'
  <2>1. forward' \in Channel!Ends /\ backward' \in Channel!Ends
    BY <1>10 DEF IsQueue, Channel!Ends
  <2> QED
    BY <1>1, <1>10, <2>1 DEF RInv, RTypes
<1>15. ListsApart'
  BY <1>1, ApartSame DEF RInv
<1>16. RenderPlaces'
  <2>1. \A y \in Items : Kept(y)' => (y \in isDeferred' \/ y = x)
    <3> HIDE DEF Kept
    <3> QED
      BY <1>1, <1>3, <1>11 DEF RInv, RenderPlaces, Moved
  <2>2. x \notin isDeferred' /\ cursor' = cursor
    BY <1>1, <1>3
  <2> HIDE DEF Kept
  <2> QED
    BY <1>1, <1>2, <2>1, <2>2 DEF RenderPlaces, Moved
<1>17. Running'
  BY <1>1, <1>10, <1>13 DEF Running, Channel!Open
<1> QED
  BY <1>1, <1>2, <1>6, <1>8, <1>13, <1>14, <1>15, <1>16, <1>17 DEF RInv

\* The walk goes on.
LEMMA MoveOnFits ==
    ASSUME RInv, Running, Channel!MoveOn
    PROVE  RInv'
<1>1. /\ renderAt = "moved" /\ cursor' = Tail(cursor) /\ renderAt' = "end_frame"
      /\ UNCHANGED <<next, forward, backward, allocated, kind, isDeferred, list, drawn, look, event, closed>>
  BY DEF Channel!MoveOn, Channel!channel, Channel!lists
<1>2. PICK f, b \in Seq(Items) : RShape(f, b)
  BY DEF Running
<1>3. IsQueue(next, f, forward) /\ IsQueue(next, b, backward) /\ Where(f, b)
  BY <1>2 DEF RShape
<1>4. PICK x, w : x = cursor[1] /\ w = Tail(cursor)
  OBVIOUS
<1>5. x \in Items /\ In(cursor, x) /\ x \notin isDeferred /\ Distinct(cursor) /\ Len(cursor) >= 1 /\ cursor \in Seq(Items)
  <2>1. cursor \in Seq(Items) /\ cursor # <<>>
    BY <1>1 DEF RInv, RTypes, RenderPlaces
  <2>2. Distinct(cursor) /\ cursor[1] \notin isDeferred
    BY <1>1 DEF RInv, ListsApart, RenderPlaces
  <2> QED
    BY <1>4, <2>1, <2>2, HeadOf
<1>6. w \in Seq(Items) /\ Distinct(w) /\ \A y : In(w, y) <=> (In(cursor, y) /\ y # x)
  BY <1>4, <1>5, TailHas
<1>7. \A s \in Scenes : ~ In(list[s], x)
  BY <1>5 DEF RInv, ListsApart
<1>8. ASSUME NEW y PROVE Kept(y)' <=> (Kept(y) /\ y # x)
  <2> HIDE DEF In
  <2>1. Kept(y)' <=> (\E r \in Scenes : In(list[r], y)) \/ In(w, y)
    BY <1>1, <1>4 DEF Kept, In
  <2> QED
    BY <1>6, <1>7, <2>1 DEF Kept
<1>9. In(f, x) \/ In(b, x)
  <2>1. x = f[1] \/ x = b[Len(b)]
    BY <1>1, <1>3, <1>4 DEF Where
  <2>2. In(f, f[1]) /\ In(b, b[Len(b)])
    BY <1>3, QueueHas
  <2> QED
    BY <2>1, <2>2
<1>10. Where(f, b)'
  <2> HIDE DEF Kept, In
  <2>1. \A y \in Items : y \in allocated <=> In(f, y) \/ In(b, y) \/ Kept(y)'
    BY <1>3, <1>8, <1>9 DEF Where
  <2>2. \A i \in 2 .. Len(f) : ~ Kept(f[i])' /\ (f[i] \in isDeferred <=> kind[f[i]].type = "deferred")
    BY <1>3, <1>8 DEF Where
  <2>3. f[1] \in isDeferred => Kept(f[1])'
    BY <1>3, <1>5, <1>8 DEF Where
  <2>8. Where(f, b)' <=>
          /\ \A y \in Items : ~ (In(f, y) /\ In(b, y))
          /\ \A y \in Items : y \in allocated' <=> In(f, y) \/ In(b, y) \/ Kept(y)'
          /\ \A y \in Items : In(b, y) => y \notin isDeferred'
          /\ renderAt' = "moved" => cursor'[1] = f[1] \/ cursor'[1] = b[Len(b)]
          /\ \A i \in 2 .. Len(f) : ~ Kept(f[i])' /\ (f[i] \in isDeferred' <=> kind'[f[i]].type = "deferred")
          /\ f[1] \in isDeferred' => Kept(f[1])'
          /\ look'.at = "tail" => look'.tail \in allocated'
    BY DEF Where
  <2> QED
    BY <1>1, <1>3, <2>1, <2>2, <2>3, <2>8 DEF Where
<1>11. RShape(f, b)'
  BY <1>1, <1>3, <1>10 DEF RShape
<1>12. RTypes'
  BY <1>1, <1>4, <1>6 DEF RInv, RTypes
<1>13. ListsApart'
  <2>1. ListsApart' <=>
          /\ Distinct(w)
          /\ \A s \in Scenes : Distinct(list[s]) /\ \A y \in Items : ~ (In(list[s], y) /\ In(w, y))
          /\ \A s, r \in Scenes : s # r => \A y \in Items : ~ (In(list[s], y) /\ In(list[r], y))
    BY <1>1, <1>4 DEF ListsApart, Distinct, In
  <2> HIDE DEF In, Distinct
  <2> QED
    BY <1>6, <2>1 DEF RInv, ListsApart
<1>14. RenderPlaces'
  <2>1. \A y \in Items : Kept(y)' => y \in isDeferred
    <3> HIDE DEF Kept
    <3> QED
      BY <1>4, <1>8 DEF RInv, RenderPlaces, Moved
  <2> HIDE DEF Kept
  <2> QED
    BY <1>1, <2>1 DEF RenderPlaces
<1>15. Running'
  BY <1>1, <1>2, <1>11 DEF Running, Channel!Open
<1> QED
  BY <1>12, <1>13, <1>14, <1>15 DEF RInv

\* owner_finalize deletes what is in the queues.
LEMMA FinalizeFits ==
    ASSUME ChainFollows, RInv, Running, Channel!Finalize
    PROVE  RInv' /\ Finished' /\ allocated' \subseteq allocated
           /\ \A f, b \in Seq(Items) : RShape(f, b) => \A x \in allocated' : ~ In(f, x) /\ ~ In(b, x)
<1>1. /\ renderAt = "loop" /\ look = Channel!NoLook /\ closed' = TRUE
      /\ allocated' = allocated \ (Channel!Elements(Channel!Chain(forward)) \cup Channel!Elements(Channel!Chain(backward)))
      /\ forward'  = [head |-> Null, tail |-> Null]
      /\ backward' = [head |-> Null, tail |-> Null]
      /\ UNCHANGED <<next, kind, isDeferred, list, drawn, renderAt, cursor, look, event>>
  BY DEF Channel!Finalize, Channel!OwnerFinalize, Channel!lists
<1>2. ASSUME NEW f \in Seq(Items), NEW b \in Seq(Items), RShape(f, b), NEW x \in allocated'
      PROVE  x \in allocated /\ ~ In(f, x) /\ ~ In(b, x)
  <2>1. Channel!Chain(forward) = f /\ Channel!Chain(backward) = b
    BY <1>2 DEF RShape, ChainFollows
  <2> QED
    BY <1>1, <1>2, <2>1 DEF Channel!Elements, In
<1>3. \A y : Kept(y)' <=> Kept(y)
  BY <1>1, KeptSame
<1>4. PICK f, b \in Seq(Items) : RShape(f, b)
  BY DEF Running
<1>5. \A x \in allocated' : Kept(x)
  <2> HIDE DEF Kept, In
  <2> QED
    BY <1>1, <1>2, <1>4 DEF RShape, Where, RInv, RTypes
<1>6. Finished'
  <2> HIDE DEF Kept
  <2> QED
    BY <1>1, <1>3, <1>5 DEF Finished, Channel!Open, Channel!NoLook
<1>7. RTypes'
  BY <1>1 DEF RInv, RTypes, Channel!Ends
<1>8. ListsApart'
  BY <1>1, ApartSame DEF RInv
<1>9. RenderPlaces'
  <2> HIDE DEF Kept
  <2> QED
    BY <1>1, <1>3 DEF RInv, RenderPlaces, Moved
<1> QED
  BY <1>1, <1>2, <1>6, <1>7, <1>8, <1>9 DEF RInv

\* At first each queue has its null node.
LEMMA ChannelBegins ==
    ASSUME Channel!Init
    PROVE  RInv /\ \E x, y \in Items : x # y /\ RShape(<<x>>, <<y>>) /\ allocated = {x, y}
<1>1. PICK x, y \in Items :
        /\ x # y
        /\ forward  = [head |-> x, tail |-> x]
        /\ backward = [head |-> y, tail |-> y]
        /\ allocated = {x, y}
        /\ next = [i \in Items |-> Null]
  <2>1. PICK x : x = CHOOSE i \in Items : TRUE
    OBVIOUS
  <2>2. PICK y : y = CHOOSE i \in Items : i # x
    OBVIOUS
  <2>3. x \in Items
    BY <2>1, EngineAssumption
  <2>4. y \in Items /\ y # x
    BY <2>2, <2>3, EngineAssumption
  <2> QED
    BY <2>1, <2>2, <2>3, <2>4 DEF Channel!Init, Channel!ChannelInit
<1>2. /\ kind = [i \in Items |-> Channel!NullCommand] /\ isDeferred = {} /\ list = [s \in Scenes |-> <<>>]
      /\ drawn = {} /\ renderAt = "loop" /\ cursor = <<>> /\ look = Channel!NoLook /\ event = FALSE /\ closed = FALSE
  BY DEF Channel!Init
<1>3. ASSUME NEW z \in Items
      PROVE  /\ <<z>> \in Seq(Items) /\ Len(<<z>>) = 1 /\ <<z>>[1] = z
             /\ Distinct(<<z>>)
             /\ \A u : In(<<z>>, u) <=> u = z
             /\ IsQueue(next, <<z>>, [head |-> z, tail |-> z])
  <2>1. <<z>> \in Seq(Items) /\ Len(<<z>>) = 1 /\ <<z>>[1] = z
    OBVIOUS
  <2>2. PICK s : s = <<z>>
    OBVIOUS
  <2>3. s \in Seq(Items) /\ Len(s) = 1 /\ s[1] = z /\ \A i : i \in 1 .. 1 <=> i = 1
    BY <2>1, <2>2
  <2>4. Distinct(s) /\ \A u : In(s, u) <=> u = z
    BY <2>3 DEF Distinct, In
  <2>5. IsQueue(next, s, [head |-> z, tail |-> z])
    <3>1. next[z] = Null
      BY <1>1
    <3> QED
      BY <2>3, <2>4, <3>1 DEF IsQueue
  <2> QED
    BY <2>1, <2>2, <2>4, <2>5
<1>4. \A s \in Scenes : list[s] = <<>>
  BY <1>2
<1>5. \A u : ~ Kept(u)
  BY <1>2, <1>4 DEF Kept, In
<1>6. RShape(<<x>>, <<y>>)
  <2>1. PICK f, b : f = <<x>> /\ b = <<y>>
    OBVIOUS
  <2>2. Len(f) = 1 /\ Len(b) = 1 /\ (\A u : In(f, u) <=> u = x) /\ (\A u : In(b, u) <=> u = y)
        /\ IsQueue(next, f, forward) /\ IsQueue(next, b, backward)
    BY <1>1, <1>3, <2>1
  <2>3. \A i : i \notin 2 .. Len(f)
    BY <2>2
  <2>4. Where(f, b)
    <3> HIDE DEF Kept, In
    <3> QED
      BY <1>1, <1>2, <1>5, <2>2, <2>3 DEF Where, Channel!NoLook
  <2> QED
    BY <2>1, <2>2, <2>4 DEF RShape
<1>7. Channel!Open /\ ~ closed
  BY <1>1, <1>2, EngineAssumption DEF Channel!Open
<1>8. RTypes
  <2>1. Channel!NullCommand \in Channel!Kinds
    BY DEF Channel!NullCommand, Channel!Kinds
  <2>2. Channel!NoLook \in [at : {"out", "tail", "link"}, tail : Items \cup {Null}, empty : BOOLEAN]
    BY DEF Channel!NoLook
  <2>3. forward \in Channel!Ends /\ backward \in Channel!Ends
    BY <1>1 DEF Channel!Ends
  <2>4. <<>> \in Seq(Items)
    OBVIOUS
  <2>5. next \in [Items -> Items \cup {Null}] /\ allocated \subseteq Items
    BY <1>1
  <2>6. kind \in [Items -> Channel!Kinds] /\ list \in [Scenes -> Seq(Items)]
    BY <1>2, <2>1, <2>4
  <2> QED
    BY <1>2, <2>2, <2>3, <2>4, <2>5, <2>6 DEF RTypes
<1>9. ListsApart
  BY <1>2, <1>4 DEF ListsApart, Distinct, In
<1>10. RenderPlaces
  <2> HIDE DEF Kept
  <2> QED
    BY <1>2, <1>5 DEF RenderPlaces
<1>11. Running
  <2>1. <<x>> \in Seq(Items) /\ <<y>> \in Seq(Items)
    BY <1>3
  <2> QED
    BY <1>6, <1>7, <2>1 DEF Running
<1> QED
  BY <1>1, <1>6, <1>8, <1>9, <1>10, <1>11 DEF RInv

-----------------------------------------------------------------------------
(* The invariant and what follows from it.                                 *)

\* Every step keeps the invariant.
LEMMA ChannelSteps ==
    ASSUME RInv, [Channel!Next]_(Channel!vars)
    PROVE  RInv'
<1>0. ChainFollows
  BY ChainLemma
<1>1. CASE UNCHANGED Channel!vars
  <2>1. /\ UNCHANGED <<next, forward, backward, allocated, kind, isDeferred, list, drawn, renderAt, cursor,
                       look, event, closed>>
    BY <1>1 DEF Channel!vars, Channel!channel, Channel!lists
  <2>2. RTypes' /\ ListsApart'
    BY <2>1, ApartSame DEF RInv, RTypes
  <2>3. \A x : Kept(x)' <=> Kept(x)
    BY <2>1, KeptSame
  <2>4. RenderPlaces'
    <3> HIDE DEF Kept
    <3> QED
      BY <2>1, <2>3 DEF RInv, RenderPlaces, Moved
  <2>5. CASE Running
    <3>1. PICK f, b \in Seq(Items) : RShape(f, b)
      BY <2>5 DEF Running
    <3>2. IsQueue(next, f, forward)' /\ IsQueue(next, b, backward)'
      BY <2>1, <3>1 DEF RShape
    <3>3. Where(f, b)'
      <4> HIDE DEF Kept
      <4> QED
        BY <2>1, <2>3, <3>1 DEF RShape, Where
    <3>4. Running'
      BY <2>1, <2>5, <3>2, <3>3 DEF Running, RShape, Channel!Open
    <3> QED
      BY <2>2, <2>4, <3>4 DEF RInv
  <2>6. CASE Finished
    <3>1. Finished'
      <4> HIDE DEF Kept
      <4> QED
        BY <2>1, <2>3, <2>6 DEF Finished, Channel!Open, Channel!NoLook
    <3> QED
      BY <2>2, <2>4, <3>1 DEF RInv
  <2> QED
    BY <2>5, <2>6 DEF RInv
<1>2. CASE Finished /\ Channel!Next
  BY <1>2, FinishedStays
<1>3. CASE Running /\ Channel!Next
  <2>1. PICK f, b \in Seq(Items) : RShape(f, b)
    BY <1>3 DEF Running
  <2>2. CASE Channel!LookAtTail \/ Channel!LookAtLink \/ Channel!StartWaiting \/ Channel!WakeUp \/ Channel!TimeOut
    BY <1>3, <2>2, QuietSteps
  <2>3. ASSUME NEW x \in Items, NEW k \in Channel!Kinds, Channel!Push(x, k) PROVE RInv'
    BY <1>3, <2>1, <2>3, PushFits
  <2>4. CASE Channel!DeleteProcessed
    BY <1>3, <2>1, <2>4, DeleteFits
  <2>5. CASE Channel!Finalize
    BY <1>0, <1>3, <2>5, FinalizeFits
  <2>6. ASSUME NEW x \in Items, Channel!Defer(x) \/ Channel!Draw(x) \/ Channel!EndFrame(x) PROVE RInv'
    <3>1. PICK c : c = GivenBack(f, b)
      OBVIOUS
    <3> QED
      BY <1>3, <2>1, <2>6, <3>1, PopFits
  <2>7. CASE Channel!NextScene
    BY <1>3, <2>7, NextSceneFits
  <2>8. CASE Channel!MoveCommand
    <3>1. PICK c : c = IF cursor[1] = f[1] THEN b ELSE Append(b, cursor[1])
      OBVIOUS
    <3> QED
      BY <1>3, <2>1, <2>8, <3>1, MoveFits
  <2>9. CASE Channel!MoveOn
    BY <1>3, <2>9, MoveOnFits
  <2> QED
    BY <1>3, <2>2, <2>3, <2>4, <2>5, <2>6, <2>7, <2>8, <2>9 DEF Channel!Next, Channel!OwnerCalls, Channel!Render, Channel!Executing
<1> QED
  BY <1>1, <1>2, <1>3 DEF RInv

\* RInv is an invariant of the channel.
THEOREM RenderChannelInvariant == Channel!Spec => []RInv
<1>1. Channel!Init => RInv
  BY ChannelBegins
<1>2. RInv /\ [Channel!Next]_(Channel!vars) => RInv'
  BY ChannelSteps
<1> QED
  BY <1>1, <1>2, PTL DEF Channel!Spec

\* The variables of the channel have the types RenderChannel gives them.
THEOREM RenderChannelTypeCorrect == Channel!Spec => []Channel!TypeOK
<1>1. RInv => Channel!TypeOK
  BY DEF RInv, RTypes, Channel!TypeOK, Channel!ChannelTypeOK
<1> QED
  BY <1>1, RenderChannelInvariant, PTL

\* The elements of the lists are the commands kept.
LEMMA ElementsOf ==
    /\ \A s : \A x : x \in Channel!Elements(s) <=> In(s, x)
    /\ \A x : x \in Channel!Deferred <=> Kept(x)
<1>1. \A s : \A x : x \in Channel!Elements(s) <=> In(s, x)
  BY DEF Channel!Elements, In
<1>2. \A x : x \in Channel!Deferred <=> Kept(x)
  <2> HIDE DEF Channel!Elements, In
  <2> QED
    BY <1>1 DEF Channel!Deferred, Kept
<1> QED
  BY <1>1, <1>2

\* Neither thread touches a command that was deleted: those of the queues and of
\* the lists, the one the render thread moves, the one whose link the owner reads.
THEOREM UsedIsAlive == Channel!Spec => []NothingUsedIsDeleted
<1>1. RInv => NothingUsedIsDeleted
  <2> SUFFICES ASSUME RInv, Channel!Open PROVE NothingUsedIsDeleted
    BY DEF NothingUsedIsDeleted, Channel!NothingUsedIsDeleted
  <2>1. PICK f, b \in Seq(Items) : RShape(f, b)
    BY DEF RInv, Running, Finished
  <2>2. Channel!Chain(forward) = f /\ Channel!Chain(backward) = b
    BY <2>1, ChainLemma DEF ChainFollows, RShape
  <2>3. \A x : (In(f, x) \/ In(b, x) \/ Kept(x)) => x \in Items
    <3>1. \A x : (In(f, x) \/ In(b, x)) => x \in Items
      BY <2>1, QueueHas DEF RShape
    <3>2. list \in [Scenes -> Seq(Items)] /\ cursor \in Seq(Items)
      BY DEF RInv, RTypes
    <3>3. \A x : Kept(x) => x \in Items
      BY <3>2 DEF Kept, In
    <3> QED
      BY <3>1, <3>3
  <2>4. \A x : (In(f, x) \/ In(b, x) \/ Kept(x)) => x \in allocated
    <3> HIDE DEF In, Kept
    <3> QED
      BY <2>1, <2>3 DEF RShape, Where
  <2>5. look.at = "tail" => look.tail \in allocated
    BY <2>1 DEF RShape, Where
  <2> HIDE DEF In, Kept, Channel!Elements, Channel!Deferred, Channel!Chain
  <2> QED
    BY <2>2, <2>4, <2>5, ElementsOf DEF NothingUsedIsDeleted, Channel!NothingUsedIsDeleted
<1> QED
  BY <1>1, RenderChannelInvariant, PTL

\* A sequence without repetitions has as many elements as it is long.
LEMMA DistinctCount ==
    ASSUME NEW s \in Seq(Items), Distinct(s)
    PROVE  Channel!Cardinality(Channel!Elements(s)) = Len(s)
<1>1. IsFiniteSet(1 .. Len(s)) /\ Cardinality(1 .. Len(s)) = Len(s)
  <2>1. PICK n \in Nat : n = Len(s)
    OBVIOUS
  <2>2. IsFiniteSet(1 .. n) /\ Cardinality(1 .. n) = IF 1 > n THEN 0 ELSE n - 1 + 1
    BY FS_Interval
  <2>3. Cardinality(1 .. n) = n
    BY <2>2
  <2> QED
    BY <2>1, <2>2, <2>3
<1>2. [i \in 1 .. Len(s) |-> s[i]] \in Bijection(1 .. Len(s), Channel!Elements(s))
  BY DEF Channel!Elements, Distinct, Bijection, Injection, Surjection, IsInjective
<1>3. ExistsBijection(1 .. Len(s), Channel!Elements(s))
  BY <1>2 DEF ExistsBijection
<1> QED
  BY <1>1, <1>3, FS_Bijection, SameCount

\* A deferred command is in one list, once, until a frame drew its scene; only then
\* has the owner got it back; after owner_finalize no other command is left.
THEOREM KeptUntilDrawn == Channel!Spec => []DeferredUntilDrawn
<1>1. RInv => DeferredUntilDrawn
  <2> SUFFICES ASSUME RInv PROVE DeferredUntilDrawn
    OBVIOUS
  <2>0. list \in [Scenes -> Seq(Items)] /\ cursor \in Seq(Items)
    BY DEF RInv, RTypes
  <2>1. \A x : Kept(x) => x \in Items
    BY <2>0 DEF Kept, In
  <2>2. ASSUME NEW x \in Channel!Deferred
        PROVE  x \in isDeferred \/ (renderAt = "moved" /\ x = Head(cursor))
    <3>1. x \in Items /\ Kept(x)
      BY <2>1, <2>2, ElementsOf
    <3>2. x \in isDeferred \/ Moved(x)
      BY <3>1 DEF RInv, RenderPlaces
    <3>3. renderAt = "moved" => Head(cursor) = cursor[1]
      BY <2>0, HeadOf DEF RInv, RenderPlaces
    <3> QED
      BY <3>2, <3>3 DEF Moved
  <2>3. \A s, r \in Scenes : s # r => Channel!Elements(list[s]) \cap Channel!Elements(list[r]) = {}
    <3>1. \A s \in Scenes : \A x : In(list[s], x) => x \in Items
      BY <2>0 DEF In
    <3> HIDE DEF In, Channel!Elements
    <3> QED
      BY <3>1, ElementsOf DEF RInv, ListsApart
  <2>4. \A s \in Scenes : Channel!Cardinality(Channel!Elements(list[s])) = Len(list[s])
    BY <2>0, DistinctCount DEF RInv, ListsApart
  <2>5. Channel!Open => Channel!Elements(Channel!Values(backward)) \cap isDeferred = {}
    <3> SUFFICES ASSUME Channel!Open PROVE Channel!Elements(Channel!Values(backward)) \cap isDeferred = {}
      OBVIOUS
    <3>1. PICK f, b \in Seq(Items) : RShape(f, b)
      BY DEF RInv, Running, Finished
    <3>2. Channel!Chain(backward) = b
      BY <3>1, ChainLemma DEF ChainFollows, RShape
    <3>3. \A x : In(Tail(b), x) => In(b, x) /\ x \in Items
      <4>1. Len(b) >= 1 /\ Distinct(b) /\ \A x : In(b, x) => x \in Items
        BY <3>1, QueueHas DEF RShape
      <4> QED
        BY <4>1, TailHas
    <3> HIDE DEF In, Channel!Elements, Channel!Chain
    <3> QED
      BY <3>1, <3>2, <3>3, ElementsOf DEF Channel!Values, RShape, Where
  <2>6. closed => allocated \subseteq Channel!Deferred
    <3> HIDE DEF Kept, Channel!Deferred
    <3> QED
      BY ElementsOf DEF RInv, Running, Finished
  <2> HIDE DEF Channel!Deferred, Channel!Elements, Channel!Values
  <2> QED
    BY <2>2, <2>3, <2>4, <2>5, <2>6 DEF DeferredUntilDrawn, Channel!DeferredUntilDrawn
<1> QED
  BY <1>1, RenderChannelInvariant, PTL

-----------------------------------------------------------------------------
(* The Channel!channel delivers: what the variables of Delivery stand for.         *)

SentBar     == IF Channel!Open THEN Channel!Values(forward) ELSE <<>>
HeldBar     == IF Channel!Open THEN allocated \ (Channel!Elements(Channel!Values(forward)) \cup Channel!Elements(Channel!Chain(backward)))
                       ELSE allocated
ReturnedBar == IF Channel!Open THEN Channel!Chain(backward) ELSE <<>>

\* While the channel is open they are the two queues and what is in neither.
MapIs ==
    \A f, b \in Seq(Items) : Channel!Open /\ IsQueue(next, f, forward) /\ IsQueue(next, b, backward) =>
        /\ SentBar = Tail(f) /\ ReturnedBar = b
        /\ \A x : x \in HeldBar <=> (x \in allocated /\ ~ In(Tail(f), x) /\ ~ In(b, x))

LEMMA MapHolds == MapIs
<1> SUFFICES ASSUME NEW f \in Seq(Items), NEW b \in Seq(Items), Channel!Open,
                    IsQueue(next, f, forward), IsQueue(next, b, backward)
             PROVE  /\ SentBar = Tail(f) /\ ReturnedBar = b
                    /\ \A x : x \in HeldBar <=> (x \in allocated /\ ~ In(Tail(f), x) /\ ~ In(b, x))
  BY DEF MapIs
<1>1. Channel!Chain(forward) = f /\ Channel!Chain(backward) = b
  BY ChainLemma DEF ChainFollows
<1> HIDE DEF Channel!Chain, Channel!Elements, In
<1> QED
  BY <1>1, ElementsOf DEF SentBar, HeldBar, ReturnedBar, Channel!Values

\* After the end nothing is sent or returned.
LEMMA MapAtTheEnd ==
    ASSUME ~ Channel!Open
    PROVE  SentBar = <<>> /\ HeldBar = allocated /\ ReturnedBar = <<>>
BY DEF SentBar, HeldBar, ReturnedBar

\* A step that leaves the two queues and what is allocated alone.
LEMMA MapKept ==
    ASSUME MapIs, MapIs', RInv, UNCHANGED <<next, forward, backward, allocated>>
    PROVE  UNCHANGED <<SentBar, HeldBar, ReturnedBar>>
<1>1. CASE Channel!Open
  <2>1. PICK f, b \in Seq(Items) : RShape(f, b)
    BY <1>1 DEF RInv, Running, Finished
  <2>2. IsQueue(next, f, forward) /\ IsQueue(next, b, backward)
    BY <2>1 DEF RShape
  <2>3. Channel!Open' /\ IsQueue(next', f, forward') /\ IsQueue(next', b, backward')
    BY <1>1, <2>2 DEF Channel!Open
  <2>4. /\ SentBar' = Tail(f) /\ ReturnedBar' = b
        /\ \A x : x \in HeldBar' <=> (x \in allocated' /\ ~ In(Tail(f), x) /\ ~ In(b, x))
    BY <2>3 DEF MapIs
  <2>5. /\ SentBar = Tail(f) /\ ReturnedBar = b
        /\ \A x : x \in HeldBar <=> (x \in allocated /\ ~ In(Tail(f), x) /\ ~ In(b, x))
    BY <1>1, <2>2 DEF MapIs
  <2>6. \A x : x \in HeldBar' <=> x \in HeldBar
    <3> HIDE DEF In, HeldBar
    <3> QED
      BY <2>4, <2>5
  <2>7. HeldBar' = HeldBar
    <3>1. PICK u, v : u = HeldBar' /\ v = HeldBar
      OBVIOUS
    <3>2. \A x : x \in u <=> x \in v
      BY <2>6, <3>1
    <3>3. u = v /\ TRUE
      <4>1. HeldBar \subseteq Items /\ HeldBar' \subseteq Items
        BY DEF HeldBar, RInv, RTypes
      <4> QED
        BY <3>1, <3>2, <4>1
    <3> QED
      BY <3>1, <3>3
  <2> QED
    BY <2>4, <2>5, <2>7
<1>2. CASE ~ Channel!Open
  BY <1>2 DEF SentBar, HeldBar, ReturnedBar, Channel!Open
<1> QED
  BY <1>1, <1>2

\* What is in a sequence, for the functions module.
LEMMA InRange == \A s \in Seq(Items) : \A x : x \in Channel!Promise!Range(s) <=> In(s, x)
<1> TAKE s \in Seq(Items)
<1>1. DOMAIN s = 1 .. Len(s)
  OBVIOUS
<1> QED
  BY <1>1 DEF Channel!Promise!Range, In


\* A push sends.
LEMMA PushSends ==
    ASSUME MapIs, MapIs', RInv, Running,
           NEW f \in Seq(Items), NEW b \in Seq(Items), RShape(f, b),
           NEW x \in Items, NEW k \in Channel!Kinds, Channel!Push(x, k)
    PROVE  /\ x \notin HeldBar /\ ~ In(SentBar, x) /\ ~ In(ReturnedBar, x)
           /\ SentBar \in Seq(Items) /\ ReturnedBar \in Seq(Items)
           /\ SentBar' = Append(SentBar, x) /\ UNCHANGED <<HeldBar, ReturnedBar>>
<1>1. RInv' /\ RShape(Append(f, x), b)'
  BY PushFits
<1>2. x \notin allocated /\ allocated' = allocated \cup {x}
  BY DEF Channel!Push, Channel!OwnerPushBack
<1>3. PICK a : a = Append(f, x)
  OBVIOUS
<1>4. Channel!Open /\ Channel!Open' /\ IsQueue(next, f, forward) /\ IsQueue(next, b, backward)
      /\ IsQueue(next', a, forward') /\ IsQueue(next', b, backward') /\ a \in Seq(Items)
  <2>1. Channel!Open'
    BY <1>1, QueueHas DEF RShape, Channel!Open
  <2> QED
    BY <1>1, <1>3, <2>1 DEF Running, RShape
<1>5. /\ SentBar = Tail(f) /\ ReturnedBar = b
      /\ \A y : y \in HeldBar <=> (y \in allocated /\ ~ In(Tail(f), y) /\ ~ In(b, y))
  BY <1>4 DEF MapIs
<1>6. /\ SentBar' = Tail(a) /\ ReturnedBar' = b
      /\ \A y : y \in HeldBar' <=> (y \in allocated' /\ ~ In(Tail(a), y) /\ ~ In(b, y))
  BY <1>4 DEF MapIs
<1>7. Len(f) >= 1 /\ \A y : In(f, y) => y \in Items
  BY <1>4, QueueHas
<1>8. Tail(a) = Append(Tail(f), x) /\ Tail(f) \in Seq(Items)
  BY <1>3, <1>7
<1>9. \A y : In(Tail(f), y) => In(f, y)
  BY <1>4, <1>7, TailHas DEF IsQueue
<1>10. ~ In(f, x) /\ ~ In(b, x)
  BY <1>2, <1>4 DEF RShape, Where
<1>11. \A y : In(Tail(a), y) <=> (In(Tail(f), y) \/ y = x)
  <2>1. PICK t : t = Tail(f)
    OBVIOUS
  <2>2. t \in Seq(Items) /\ Tail(a) = Append(t, x)
    BY <1>8, <2>1
  <2>3. \A y : In(Append(t, x), y) <=> (In(t, y) \/ y = x)
    BY <2>2, AppendHas
  <2> HIDE DEF In
  <2> QED
    BY <2>1, <2>2, <2>3
<1>12. \A y : y \in HeldBar' <=> y \in HeldBar
  <2> HIDE DEF In, HeldBar
  <2> QED
    BY <1>2, <1>5, <1>6, <1>11
<1>13. HeldBar' = HeldBar
  <2>1. HeldBar \subseteq Items /\ HeldBar' \subseteq Items
    BY <1>1 DEF HeldBar, RInv, RTypes
  <2> HIDE DEF HeldBar
  <2> QED
    BY <1>12, <2>1
<1> QED
  BY <1>2, <1>5, <1>6, <1>8, <1>9, <1>10, <1>13

\* A deletion frees.
LEMMA DeleteFrees ==
    ASSUME MapIs, MapIs', RInv, Running,
           NEW f \in Seq(Items), NEW b \in Seq(Items), RShape(f, b), Channel!DeleteProcessed
    PROVE  /\ Len(ReturnedBar) > 1 /\ ReturnedBar' = Tail(ReturnedBar)
           /\ UNCHANGED <<SentBar, HeldBar>>
<1>1. RInv' /\ RShape(f, Tail(b))' /\ allocated' = allocated \ {b[1]} /\ Len(b) > 1
  BY DeleteFits
<1>2. PICK a : a = Tail(b)
  OBVIOUS
<1>3. Channel!Open /\ Channel!Open' /\ IsQueue(next, f, forward) /\ IsQueue(next, b, backward)
      /\ IsQueue(next', f, forward') /\ IsQueue(next', a, backward') /\ a \in Seq(Items)
  <2>1. Channel!Open'
    BY <1>1, QueueHas DEF RShape, Channel!Open
  <2> QED
    BY <1>1, <1>2, <2>1 DEF Running, RShape
<1>4. /\ SentBar = Tail(f) /\ ReturnedBar = b
      /\ \A y : y \in HeldBar <=> (y \in allocated /\ ~ In(Tail(f), y) /\ ~ In(b, y))
  BY <1>3 DEF MapIs
<1>5. /\ SentBar' = Tail(f) /\ ReturnedBar' = a
      /\ \A y : y \in HeldBar' <=> (y \in allocated' /\ ~ In(Tail(f), y) /\ ~ In(a, y))
  BY <1>3 DEF MapIs
<1>6. In(b, b[1]) /\ \A y : In(a, y) <=> (In(b, y) /\ y # b[1])
  <2>1. In(b, b[1]) /\ Distinct(b) /\ Len(b) >= 1
    BY <1>3, QueueHas
  <2> QED
    BY <1>2, <2>1, TailHas
<1>7. \A y : y \in HeldBar' <=> y \in HeldBar
  <2> HIDE DEF In, HeldBar
  <2> QED
    BY <1>1, <1>4, <1>5, <1>6
<1>8. HeldBar' = HeldBar
  <2>1. HeldBar \subseteq Items /\ HeldBar' \subseteq Items
    BY <1>1 DEF HeldBar, RInv, RTypes
  <2> HIDE DEF HeldBar
  <2> QED
    BY <1>7, <2>1
<1> QED
  BY <1>1, <1>2, <1>4, <1>5, <1>8

\* A pop takes, and may give back the command that had to stay in the queue.
LEMMA PopTakes ==
    ASSUME MapIs, MapIs', RInv, Running,
           NEW f \in Seq(Items), NEW b \in Seq(Items), RShape(f, b),
           NEW x \in Items, Channel!Defer(x) \/ Channel!Draw(x) \/ Channel!EndFrame(x)
    PROVE  /\ SentBar # <<>> /\ SentBar' = Tail(SentBar)
           /\ \/ HeldBar' = HeldBar \cup {Head(SentBar)} /\ UNCHANGED ReturnedBar
              \/ \E y \in HeldBar : /\ HeldBar' = (HeldBar \ {y}) \cup {Head(SentBar)}
                                     /\ ReturnedBar' = Append(ReturnedBar, y)
<1>1. PICK c, a : c = GivenBack(f, b) /\ a = Tail(f)
  OBVIOUS
<1>2. RInv' /\ RShape(a, c)' /\ UNCHANGED allocated
  BY <1>1, PopFits
<1>3. /\ Len(f) > 1 /\ x = f[2] /\ f[1] \in Items /\ c \in Seq(Items)
      /\ \A y : In(c, y) <=> (In(b, y) \/ (y = f[1] /\ f[1] \notin isDeferred))
  <2>1. Channel!Popping(x)
    BY DEF Channel!Defer, Channel!Draw, Channel!EndFrame
  <2> QED
    BY <1>1, <2>1, PopQueues
<1>4. Channel!Open /\ IsQueue(next, f, forward) /\ IsQueue(next, b, backward) /\ Where(f, b)
  BY DEF Running, RShape
<1>5. /\ a \in Seq(Items) /\ Len(a) = Len(f) - 1 /\ Distinct(a)
      /\ a[1] = x /\ Head(a) = x /\ a # <<>> /\ In(a, x) /\ In(f, x) /\ Len(a) >= 1
      /\ \A y : In(a, y) <=> (In(f, y) /\ y # f[1])
  <2>1. Distinct(f) /\ Len(f) >= 1 /\ Len(f) \in Nat /\ In(f, f[2])
    BY <1>3, <1>4, QueueHas
  <2>2. /\ a \in Seq(Items) /\ Len(a) = Len(f) - 1 /\ Distinct(a)
        /\ \A i \in 1 .. Len(f) - 1 : a[i] = f[i + 1]
        /\ \A y : In(a, y) <=> (In(f, y) /\ y # f[1])
    BY <1>1, <2>1, TailHas
  <2>3. 1 \in 1 .. Len(f) - 1 /\ 1 + 1 = 2
    <3>1. PICK n \in Nat : n = Len(f)
      BY <2>1
    <3> QED
      BY <1>3, <3>1
  <2>4. a[1] = x /\ a # <<>> /\ Len(a) >= 1
    BY <1>3, <2>1, <2>2, <2>3
  <2>5. Head(a) = x /\ In(a, x)
    BY <2>2, <2>4, HeadOf
  <2> QED
    BY <1>3, <2>1, <2>2, <2>4, <2>5
<1>6. PICK t : t = Tail(a)
  OBVIOUS
<1>7. t \in Seq(Items) /\ \A y : In(t, y) <=> (In(a, y) /\ y # x)
  BY <1>5, <1>6, TailHas
<1>8. Channel!Open' /\ IsQueue(next', a, forward') /\ IsQueue(next', c, backward')
  <2>1. IsQueue(next', a, forward') /\ IsQueue(next', c, backward')
    BY <1>2 DEF RShape
  <2> QED
    BY <2>1, QueueHas DEF Channel!Open
<1>9. /\ SentBar = a /\ ReturnedBar = b
      /\ \A y : y \in HeldBar <=> (y \in allocated /\ ~ In(a, y) /\ ~ In(b, y))
  BY <1>1, <1>4 DEF MapIs
<1>10. /\ SentBar' = t /\ ReturnedBar' = c
       /\ \A y : y \in HeldBar' <=> (y \in allocated /\ ~ In(t, y) /\ ~ In(c, y))
  BY <1>2, <1>3, <1>5, <1>6, <1>8 DEF MapIs
<1>11. /\ x \in allocated /\ ~ In(b, x) /\ In(f, f[1]) /\ f[1] \in allocated /\ ~ In(b, f[1]) /\ f[1] # x
  <2>1. In(f, f[1]) /\ f[1] # f[2]
    BY <1>3, <1>4, QueueHas
  <2> HIDE DEF In, Kept
  <2> QED
    BY <1>3, <1>4, <1>5, <2>1 DEF Where
<1>12. HeldBar \subseteq Items /\ HeldBar' \subseteq Items
  BY <1>2 DEF HeldBar, RInv, RTypes
<1>13. CASE f[1] \in isDeferred
  <2>1. c = b
    BY <1>1, <1>13 DEF GivenBack
  <2>2. \A y : y \in HeldBar' <=> (y \in HeldBar \/ y = x)
    <3> HIDE DEF In, HeldBar
    <3> QED
      BY <1>5, <1>7, <1>9, <1>10, <1>11, <2>1
  <2>3. HeldBar' = HeldBar \cup {x}
    <3> HIDE DEF In, HeldBar
    <3> QED
      BY <1>12, <2>2
  <2> QED
    BY <1>5, <1>6, <1>9, <1>10, <2>1, <2>3
<1>14. CASE f[1] \notin isDeferred
  <2>1. c = Append(b, f[1])
    BY <1>1, <1>14 DEF GivenBack
  <2>2. f[1] \in HeldBar /\ \A y : y \in HeldBar' <=> ((y \in HeldBar /\ y # f[1]) \/ y = x)
    <3> HIDE DEF In, HeldBar
    <3> QED
      BY <1>3, <1>5, <1>7, <1>9, <1>10, <1>11, <1>14
  <2>3. HeldBar' = (HeldBar \ {f[1]}) \cup {x}
    <3> HIDE DEF In, HeldBar
    <3> QED
      BY <1>12, <2>2
  <2> QED
    BY <1>5, <1>6, <1>9, <1>10, <2>1, <2>2, <2>3
<1> QED
  BY <1>13, <1>14

\* A move gives back, unless the command has to stay in the queue.
LEMMA MoveGivesBack ==
    ASSUME MapIs, MapIs', RInv, Running,
           NEW f \in Seq(Items), NEW b \in Seq(Items), RShape(f, b), Channel!MoveCommand
    PROVE  \/ UNCHANGED <<SentBar, HeldBar, ReturnedBar>>
           \/ \E x \in HeldBar : /\ HeldBar' = HeldBar \ {x} /\ ReturnedBar' = Append(ReturnedBar, x)
                                  /\ UNCHANGED SentBar
<1>1. PICK c, x : x = cursor[1] /\ c = IF x = f[1] THEN b ELSE Append(b, x)
  OBVIOUS
<1>2. /\ RInv' /\ RShape(f, c)' /\ UNCHANGED allocated
      /\ x # f[1] => x \in allocated /\ ~ In(b, x) /\ \A i \in 2 .. Len(f) : f[i] # x
  BY <1>1, MoveFits
<1>3. Channel!Open /\ IsQueue(next, f, forward) /\ IsQueue(next, b, backward)
  BY DEF Running, RShape
<1>4. x \in Items
  <2>1. cursor \in Seq(Items) /\ cursor # <<>>
    BY DEF Channel!MoveCommand, RInv, RTypes
  <2> QED
    BY <1>1, <2>1, HeadOf
<1>5. c \in Seq(Items) /\ (x # f[1] => \A y : In(c, y) <=> (In(b, y) \/ y = x))
  BY <1>1, <1>4, AppendHas
<1>6. Channel!Open' /\ IsQueue(next', f, forward') /\ IsQueue(next', c, backward')
  <2>1. IsQueue(next', f, forward') /\ IsQueue(next', c, backward')
    BY <1>2 DEF RShape
  <2> QED
    BY <2>1, QueueHas DEF Channel!Open
<1>7. PICK t : t = Tail(f)
  OBVIOUS
<1>8. /\ SentBar = t /\ ReturnedBar = b
      /\ \A y : y \in HeldBar <=> (y \in allocated /\ ~ In(t, y) /\ ~ In(b, y))
  BY <1>3, <1>7 DEF MapIs
<1>9. /\ SentBar' = t /\ ReturnedBar' = c
      /\ \A y : y \in HeldBar' <=> (y \in allocated /\ ~ In(t, y) /\ ~ In(c, y))
  BY <1>2, <1>5, <1>6, <1>7 DEF MapIs
<1>10. HeldBar \subseteq Items /\ HeldBar' \subseteq Items
  BY <1>2 DEF HeldBar, RInv, RTypes
<1>11. CASE x = f[1]
  <2>1. c = b
    BY <1>1, <1>11
  <2>2. \A y : y \in HeldBar' <=> y \in HeldBar
    <3> HIDE DEF In, HeldBar
    <3> QED
      BY <1>8, <1>9, <2>1
  <2>3. HeldBar' = HeldBar
    <3> HIDE DEF HeldBar
    <3> QED
      BY <1>10, <2>2
  <2> QED
    BY <1>8, <1>9, <2>1, <2>3
<1>12. CASE x # f[1]
  <2>1. ~ In(t, x)
    <3>1. Len(f) >= 1 /\ Len(f) \in Nat
      BY <1>3, QueueHas
    <3>2. Len(t) = Len(f) - 1 /\ \A i \in 1 .. Len(f) - 1 : t[i] = f[i + 1]
      BY <1>7, <3>1, TailHas
    <3>3. PICK n \in Nat : n = Len(f)
      BY <3>1
    <3>4. \A i \in 1 .. n - 1 : i + 1 \in 2 .. n
      BY <3>3
    <3> QED
      BY <1>2, <1>12, <3>2, <3>3, <3>4 DEF In
  <2>2. x \in HeldBar /\ \A y : y \in HeldBar' <=> (y \in HeldBar /\ y # x)
    <3> HIDE DEF In, HeldBar
    <3> QED
      BY <1>2, <1>5, <1>8, <1>9, <1>12, <2>1
  <2>3. HeldBar' = HeldBar \ {x}
    <3> HIDE DEF HeldBar
    <3> QED
      BY <1>10, <2>2
  <2>4. c = Append(b, x)
    BY <1>1, <1>12
  <2> QED
    BY <1>8, <1>9, <2>2, <2>3, <2>4
<1> QED
  BY <1>11, <1>12

\* A step of the channel, when it is mapped, is a step of Delivery or none.
LEMMA ChannelDelivers ==
    ASSUME ChainFollows, MapIs, MapIs', RInv, RInv', [Channel!Next]_(Channel!vars)
    PROVE  [Channel!Promise!Next]_(Channel!Promise!channelVars)
<1> USE DEF SentBar, HeldBar, ReturnedBar
<1>1. ASSUME UNCHANGED <<SentBar, HeldBar, ReturnedBar>> PROVE UNCHANGED Channel!Promise!channelVars
  BY <1>1 DEF Channel!Promise!channelVars
<1> HIDE DEF SentBar, HeldBar, ReturnedBar
<1>2. CASE UNCHANGED Channel!vars \/ (Finished /\ Channel!Next)
  <2>1. UNCHANGED <<next, forward, backward, allocated>>
    BY <1>2, FinishedStays DEF Channel!vars, Channel!channel
  <2> QED
    BY <1>1, <2>1, MapKept
<1>3. CASE Running /\ Channel!Next
  <2>1. PICK f, b \in Seq(Items) : RShape(f, b)
    BY <1>3 DEF Running
  <2>2. CASE Channel!LookAtTail \/ Channel!LookAtLink \/ Channel!StartWaiting \/ Channel!WakeUp \/ Channel!TimeOut \/ Channel!NextScene \/ Channel!MoveOn
    <3>1. UNCHANGED <<next, forward, backward, allocated>>
      BY <2>2 DEF Channel!LookAtTail, Channel!LookAtLink, Channel!StartWaiting, Channel!WakeUp, Channel!TimeOut, Channel!NextScene, Channel!MoveOn, Channel!channel
    <3> QED
      BY <1>1, <3>1, MapKept
  <2>3. ASSUME NEW x \in Items, NEW k \in Channel!Kinds, Channel!Push(x, k) PROVE Channel!Promise!Next
    <3>1. /\ x \notin HeldBar /\ ~ In(SentBar, x) /\ ~ In(ReturnedBar, x)
          /\ SentBar \in Seq(Items) /\ ReturnedBar \in Seq(Items)
          /\ SentBar' = Append(SentBar, x) /\ UNCHANGED <<HeldBar, ReturnedBar>>
      BY <1>3, <2>1, <2>3, PushSends
    <3>2. x \notin Channel!Promise!Range(SentBar) \cup HeldBar \cup Channel!Promise!Range(ReturnedBar)
      <4> HIDE DEF In
      <4> QED
        BY <3>1, InRange
    <3>3. Channel!Promise!Send(x)
      BY <3>1, <3>2 DEF Channel!Promise!Send, Channel!Promise!InUse, SentBar, HeldBar, ReturnedBar
    <3> QED
      BY <3>3 DEF Channel!Promise!Next
  <2>4. CASE Channel!DeleteProcessed
    <3>1. /\ Len(ReturnedBar) > 1 /\ ReturnedBar' = Tail(ReturnedBar) /\ UNCHANGED <<SentBar, HeldBar>>
      BY <1>3, <2>1, <2>4, DeleteFrees
    <3>2. Channel!Promise!Free
      BY <3>1 DEF Channel!Promise!Free, SentBar, HeldBar, ReturnedBar
    <3> QED
      BY <3>2 DEF Channel!Promise!Next
  <2>5. CASE Channel!Finalize
    <3>1. Finished' /\ allocated' \subseteq allocated
          /\ \A x \in allocated' : ~ In(f, x) /\ ~ In(b, x)
      BY <1>3, <2>1, <2>5, FinalizeFits
    <3>2. SentBar' = <<>> /\ ReturnedBar' = <<>> /\ HeldBar' = allocated'
      BY <3>1 DEF Finished, SentBar, HeldBar, ReturnedBar, Channel!Open
    <3>3. \A y : y \in HeldBar <=> (y \in allocated /\ ~ In(Tail(f), y) /\ ~ In(b, y))
      BY <1>3, <2>1 DEF MapIs, Running, RShape
    <3>4. \A y : In(Tail(f), y) => In(f, y)
      BY <2>1, TailHas, QueueHas DEF RShape
    <3>5. HeldBar' \subseteq HeldBar
      <4> HIDE DEF In
      <4> QED
        BY <3>1, <3>2, <3>3, <3>4
    <3>6. Channel!Promise!Close
      BY <3>2, <3>5 DEF Channel!Promise!Close, SentBar, HeldBar, ReturnedBar
    <3> QED
      BY <3>6 DEF Channel!Promise!Next
  <2>6. ASSUME NEW x \in Items, Channel!Defer(x) \/ Channel!Draw(x) \/ Channel!EndFrame(x) PROVE Channel!Promise!Next
    <3>1. /\ SentBar # <<>> /\ SentBar' = Tail(SentBar)
          /\ \/ HeldBar' = HeldBar \cup {Head(SentBar)} /\ UNCHANGED ReturnedBar
             \/ \E y \in HeldBar : /\ HeldBar' = (HeldBar \ {y}) \cup {Head(SentBar)}
                                   /\ ReturnedBar' = Append(ReturnedBar, y)
      BY <1>3, <2>1, <2>6, PopTakes
    <3>2. Channel!Promise!Take
      BY <3>1 DEF Channel!Promise!Take, SentBar, HeldBar, ReturnedBar
    <3> QED
      BY <3>2 DEF Channel!Promise!Next
  <2>7. CASE Channel!MoveCommand
    <3>1. CASE UNCHANGED <<SentBar, HeldBar, ReturnedBar>>
      BY <1>1, <3>1
    <3>2. ASSUME NEW x \in HeldBar, HeldBar' = HeldBar \ {x}, ReturnedBar' = Append(ReturnedBar, x),
                 UNCHANGED SentBar
          PROVE  Channel!Promise!Next
      <4>1. Channel!Promise!GiveBack(x)
        BY <3>2 DEF Channel!Promise!GiveBack, SentBar, HeldBar, ReturnedBar
      <4>2. x \in Items
        BY <3>2 DEF HeldBar, RInv, RTypes
      <4> QED
        BY <4>1, <4>2 DEF Channel!Promise!Next
    <3> QED
      BY <1>3, <2>1, <2>7, <3>1, <3>2, MoveGivesBack
  <2> QED
    BY <1>3, <2>2, <2>3, <2>4, <2>5, <2>6, <2>7 DEF Channel!Next, Channel!OwnerCalls, Channel!Render, Channel!Executing
<1> QED
  BY <1>2, <1>3 DEF RInv

\* The two queues and the lists together deliver in order, keep what the render
\* thread keeps and delete only what it gave back.
THEOREM ChannelImplementsDelivery == Channel!Spec => ImplementsDelivery
<1>1. MapIs /\ ChainFollows
  BY MapHolds, ChainLemma
<1>2. Channel!Init => Channel!Promise!Init
  <2> SUFFICES ASSUME Channel!Init PROVE Channel!Promise!Init
    OBVIOUS
  <2>1. PICK x, y \in Items : x # y /\ RShape(<<x>>, <<y>>) /\ allocated = {x, y}
    BY ChannelBegins
  <2>2. PICK f, b : f = <<x>> /\ b = <<y>>
    OBVIOUS
  <2>3. f \in Seq(Items) /\ b \in Seq(Items) /\ Tail(f) = <<>>
    BY <2>2
  <2>4. \A u : In(b, u) <=> u = y
    BY <2>2 DEF In
  <2>5. Channel!Open
    BY <2>1, QueueHas DEF RShape, Channel!Open
  <2>6. /\ SentBar = <<>> /\ ReturnedBar = b
        /\ \A u : u \in HeldBar <=> (u \in allocated /\ ~ In(<<>>, u) /\ ~ In(b, u))
    BY <1>1, <2>1, <2>2, <2>3, <2>5 DEF MapIs, RShape
  <2>7. \A u : ~ In(<<>>, u)
    BY DEF In
  <2>8. HeldBar = {x}
    <3> HIDE DEF In
    <3>1. \A u : u \in HeldBar <=> u = x
      BY <2>1, <2>4, <2>6, <2>7
    <3> QED
      BY <3>1
  <2> QED
    BY <2>1, <2>2, <2>6, <2>8 DEF Channel!Promise!Init, SentBar, HeldBar, ReturnedBar
<1>3. RInv /\ RInv' /\ MapIs /\ MapIs' /\ ChainFollows /\ [Channel!Next]_(Channel!vars) => [Channel!Promise!Next]_(Channel!Promise!channelVars)
  BY ChannelDelivers
<1> QED
  BY <1>1, <1>2, <1>3, RenderChannelInvariant, PTL DEF Channel!Spec, ImplementsDelivery, Channel!ImplementsDelivery, Channel!Promise!Spec

-----------------------------------------------------------------------------
(* The queries of a device: where every query is.                          *)

\* The nodes of the forward queues, those that have left them included.
Linked == {Device!NullNode(Nobody, c) : c \in {d \in Device!Channels : head[d] # Device!NoNode}} \cup {link[z] : z \in DOMAIN link}
Busy(u, c) == u \in DeviceUsers /\ deviceAt[u] = "moving" /\ mine[u].channel = c

DTypes ==
    /\ strayed \in BOOLEAN
    /\ DOMAIN link \subseteq Device!Nodes /\ link \in [DOMAIN link -> Device!Nodes]
    /\ head \in [Device!Channels -> Device!NodeOrNone] /\ tail \in [Device!Channels -> Device!NodeOrNone]
    /\ creator \in [Device!Channels -> DeviceUsers \cup {Nobody}]
    /\ back \in [Device!Channels -> [DeviceUsers -> Seq(Device!Nodes)]]
    /\ nodes \subseteq Device!Nodes /\ returned \subseteq Device!Nodes /\ called \subseteq Device!Nodes
    /\ deviceAt \in [DeviceUsers -> {"out", "pushing", "linking", "moving", "asking", "inside", "leaving"}]
    /\ mine \in [DeviceUsers -> Device!NodeOrNone] /\ seen \in [DeviceUsers -> Device!NodeOrNone]
    /\ calls \in 0..MaxCalls
    /\ device \in [loop : {"high", "normal", "nested"},
                   phase : {"loop", "execute", "waiting", "executed"},
                   query : Device!NodeOrNone, popped : Device!NodeOrNone]
    /\ synchronous \in DeviceUsers \cup {Nobody}
    /\ accessStarted \subseteq Device!Nodes /\ accessEnded \subseteq Device!Nodes
    /\ finalized \in {"open", "consumer", "closed"}

\* Links lead from nodes of a queue to queries of it, and never two to one.
LinksFit ==
    /\ DOMAIN link \subseteq Linked
    /\ \A z \in DOMAIN link : /\ link[z].channel = z.channel
                              /\ link[z].of \in DeviceUsers /\ link[z].n \in 1 .. calls
    /\ \A y, z \in DOMAIN link : link[y] = link[z] => y = z
    /\ \A x \in Linked : head[x.channel] # Device!NoNode

\* A queue ends at its head, or a producer has linked its node behind the head.
EndsFit ==
    /\ \A c \in Device!Channels : tail[c] = Device!NoNode <=> head[c] = Device!NoNode
    /\ \A c \in Device!Channels : head[c] # Device!NoNode =>
           /\ head[c] \in Linked /\ tail[c] \in Linked
           /\ head[c].channel = c /\ tail[c].channel = c
           /\ creator[c] \in DeviceUsers
           /\ head[c] \in DOMAIN link => \E u \in DeviceUsers : Busy(u, c)
    /\ \A x \in Linked \ DOMAIN link : x = head[x.channel] \/ \E u \in DeviceUsers : deviceAt[u] = "moving" /\ mine[u] = x
    /\ \A u \in DeviceUsers : deviceAt[u] = "moving" =>
           /\ mine[u] \in Linked \ DOMAIN link
           /\ head[mine[u].channel] \in DOMAIN link /\ link[head[mine[u].channel]] = mine[u]

\* What has gone back are the nodes before the tail, and perhaps the tail.
ReturnedFits ==
    /\ returned \subseteq Linked
    /\ \A x \in returned : x # tail[x.channel] =>
           x \in DOMAIN link /\ (link[x] \in returned \/ link[x] = tail[x.channel])
    /\ \A z \in DOMAIN link : link[z] \in returned \/ link[z] = tail[z.channel] => z \in returned
    /\ \A c \in Device!Channels : tail[c] \in DOMAIN link => link[tail[c]] \notin returned

\* What a user has in its hands.
UsersFit ==
    \A u \in DeviceUsers :
        /\ deviceAt[u] # "out" => /\ mine[u] \in nodes /\ mine[u].of = u /\ mine[u].n \in 1 .. calls
                                  /\ mine[u] \in Device!Nodes
                                  /\ Device!MayUse(u, mine[u].channel) /\ head[mine[u].channel] # Device!NoNode
        /\ deviceAt[u] \in {"pushing", "linking"} => mine[u] \notin Linked
        /\ deviceAt[u] \in {"asking", "inside", "leaving"} => mine[u].channel = "high"
        /\ IF deviceAt[u] = "linking" THEN seen[u] = head[mine[u].channel] \/ seen[u] \in DOMAIN link
           ELSE seen[u] = Device!NoNode

\* What the device has in its hands are the tails of the queues.
DeviceFits ==
    /\ device.phase = "loop" <=> device.query = Device!NoNode
    /\ device.query # Device!NoNode =>
           /\ device.query \notin returned
           /\ \E z \in DOMAIN link : device.query = link[z]
           /\ device.query = tail[device.query.channel]
           /\ device.query.channel = (IF device.loop = "normal" THEN "normal" ELSE "high")
    /\ device.phase \in {"waiting", "executed"} => device.query.channel = "high"
    /\ device.popped # Device!NoNode <=> device.loop = "nested"
    /\ device.popped # Device!NoNode =>
           /\ device.popped \notin returned
           /\ \E z \in DOMAIN link : device.popped = link[z]
           /\ device.popped = tail["normal"] /\ device.popped.channel = "normal"

\* Synchronous access, from the event that gives it to the event that ends it.
AccessFits ==
    /\ device.phase # "waiting" => accessStarted = {} /\ accessEnded = {} /\ synchronous = Nobody
    /\ device.phase = "waiting" =>
           LET q == device.query
               u == device.query.of
           IN  \/ accessStarted = {q} /\ accessEnded = {} /\ synchronous = u /\ deviceAt[u] \in {"moving", "asking"} /\ mine[u] = q
               \/ accessStarted = {} /\ accessEnded = {} /\ synchronous = u /\ deviceAt[u] = "inside" /\ mine[u] = q
               \/ accessStarted = {} /\ accessEnded = {} /\ synchronous = Nobody /\ deviceAt[u] = "leaving" /\ mine[u] = q
               \/ accessStarted = {} /\ accessEnded = {q} /\ synchronous = Nobody
    /\ \A u \in DeviceUsers :
        /\ deviceAt[u] = "inside" => device.phase = "waiting" /\ device.query = mine[u] /\ synchronous = u
        /\ deviceAt[u] = "leaving" => device.phase = "waiting" /\ device.query = mine[u] /\ accessEnded = {}
    /\ \A z \in DOMAIN link :
           link[z].channel = "high" /\ link[z] \notin returned
           /\ ~ (device.query = link[z] /\ device.phase \in {"waiting", "executed"})
             => mine[link[z].of] = link[z] /\ deviceAt[link[z].of] \in {"moving", "asking"}

\* The backward queues: of each its user's nodes, which are alive.
BacksFit ==
    \A c \in Device!Channels, u \in DeviceUsers : \A i \in 1 .. Len(back[c][u]) :
        /\ back[c][u][i] \in nodes /\ back[c][u][i].channel = c /\ Device!Owner(back[c][u][i]) = u
        /\ \A j \in 1 .. Len(back[c][u]) : back[c][u][i] = back[c][u][j] => i = j

LastOf(s, x) == Len(s) >= 1 /\ s[Len(s)] = x

\* What keeps the ends of the forward queues alive.
Alive ==
    /\ \A x \in Linked \ returned : x \in nodes
    /\ \A c \in Device!Channels, u \in DeviceUsers : \A i \in 1 .. Len(back[c][u]) :
           back[c][u][i] = Device!NullNode(u, c) \/ back[c][u][i] \in returned
    /\ \A c \in Device!Channels : tail[c] \in returned => LastOf(back[c][Device!Owner(tail[c])], tail[c])
    /\ \A c \in Device!Channels : head[c] \in returned /\ head[c] # tail[c] =>
           /\ In(back[c][Device!Owner(head[c])], head[c])
           /\ LastOf(back[c][Device!Owner(head[c])], head[c]) \/ Busy(Device!Owner(head[c]), c)

DeviceOpen == finalized = "open" /\ LinksFit /\ EndsFit /\ ReturnedFits /\ UsersFit /\ DeviceFits /\ AccessFits /\ Alive

\* After finalize nobody does anything but dispatch.
DeviceEnded ==
    /\ finalized # "open" /\ deviceAt = [u \in DeviceUsers |-> "out"] /\ seen = [u \in DeviceUsers |-> Device!NoNode]
    /\ head = [c \in Device!Channels |-> Device!NoNode] /\ tail = head
    /\ device = Device!InLoop("high") /\ accessStarted = {} /\ accessEnded = {} /\ synchronous = Nobody

DInv == DTypes /\ BacksFit /\ (DeviceOpen \/ DeviceEnded)

-----------------------------------------------------------------------------
(* What steps leave alone.                                                 *)

\* Nodes are not NoNode and have an owner, a channel and a number.
LEMMA NodeFacts ==
    /\ Device!NoNode \notin Device!Nodes
    /\ \A x \in Device!Nodes : x.of \in DeviceUsers \cup {Nobody} /\ x.channel \in Device!Channels /\ x.n \in 0 .. MaxCalls
    /\ \A u \in DeviceUsers \cup {Nobody}, c \in Device!Channels :
           /\ Device!NullNode(u, c) \in Device!Nodes
           /\ Device!NullNode(u, c).of = u /\ Device!NullNode(u, c).channel = c /\ Device!NullNode(u, c).n = 0
<1>1. MaxCalls \in Nat
  BY EngineAssumption
<1>2. Device!NoNode \notin Device!Nodes
  BY DEF Device!NoNode, Device!Nodes, Device!Channels
<1>3. \A x \in Device!Nodes : x.of \in DeviceUsers \cup {Nobody} /\ x.channel \in Device!Channels /\ x.n \in 0 .. MaxCalls
  BY DEF Device!Nodes
<1>4. ASSUME NEW u \in DeviceUsers \cup {Nobody}, NEW c \in Device!Channels
      PROVE  /\ Device!NullNode(u, c) \in Device!Nodes
             /\ Device!NullNode(u, c).of = u /\ Device!NullNode(u, c).channel = c /\ Device!NullNode(u, c).n = 0
  BY <1>1 DEF Device!NullNode, Device!Nodes
<1> QED
  BY <1>2, <1>3, <1>4

LEMMA LinkedSame == ASSUME UNCHANGED <<link, head>> PROVE Linked' = Linked
BY DEF Linked

\* What is linked is a node, and NoNode is not.
LEMMA LinkedNodes == ASSUME DTypes PROVE Linked \subseteq Device!Nodes
<1>1. \A z \in DOMAIN link : link[z] \in Device!Nodes
  BY DEF DTypes
<1>2. \A c \in Device!Channels : Device!NullNode(Nobody, c) \in Device!Nodes
  BY NodeFacts
<1> QED
  BY <1>1, <1>2 DEF Linked

LEMMA LinksStay ==
    ASSUME LinksFit, UNCHANGED <<link, head>>, calls \in Nat, calls' \in Nat, calls' >= calls
    PROVE  LinksFit'
<1>1. Linked' = Linked
  BY LinkedSame
<1>2. \A i : i \in 1 .. calls => i \in 1 .. calls'
  OBVIOUS
<1> QED
  BY <1>1, <1>2 DEF LinksFit

LEMMA EndsStay ==
    ASSUME EndsFit, UNCHANGED <<link, head, tail, creator>>,
           \A u \in DeviceUsers : /\ deviceAt'[u] = "moving" <=> deviceAt[u] = "moving"
                                  /\ deviceAt[u] = "moving" => mine'[u] = mine[u]
    PROVE  EndsFit'
<1>1. Linked' = Linked
  BY LinkedSame
<1>2. \A u \in DeviceUsers : \A c : Busy(u, c)' <=> Busy(u, c)
  BY DEF Busy
<1>3. \A c \in Device!Channels : (\E u \in DeviceUsers : Busy(u, c)) => \E u \in DeviceUsers : Busy(u, c)'
  BY <1>2
<1> QED
  BY <1>1, <1>3 DEF EndsFit, Busy

LEMMA ReturnedStays ==
    ASSUME ReturnedFits, UNCHANGED <<link, head, tail, returned>>
    PROVE  ReturnedFits'
<1>1. Linked' = Linked
  BY LinkedSame
<1> QED
  BY <1>1 DEF ReturnedFits

LEMMA DeviceStays ==
    ASSUME DeviceFits, UNCHANGED <<link, tail, returned, device>>
    PROVE  DeviceFits'
BY DEF DeviceFits

LEMMA AliveStays ==
    ASSUME Alive, UNCHANGED <<link, head, tail, returned, back, creator>>, nodes \subseteq nodes',
           \A u, c : Busy(u, c) => Busy(u, c)'
    PROVE  Alive'
<1>1. Linked' = Linked
  BY LinkedSame
<1>2. \A x : Device!Owner(x)' = Device!Owner(x)
  BY DEF Device!Owner
<1> QED
  BY <1>1, <1>2 DEF Alive, LastOf, In

LEMMA BacksStay ==
    ASSUME BacksFit, UNCHANGED <<back, creator>>, nodes \subseteq nodes'
    PROVE  BacksFit'
<1>1. \A x : Device!Owner(x)' = Device!Owner(x)
  BY DEF Device!Owner
<1> QED
  BY <1>1 DEF BacksFit

-----------------------------------------------------------------------------
(* The steps of users that concern nobody's queue.                         *)

LEMMA ReadHeadFits ==
    ASSUME DTypes, BacksFit, DeviceOpen, NEW u \in DeviceUsers, Device!ReadHead(u)
    PROVE  DTypes' /\ BacksFit' /\ DeviceOpen'
<1>1. /\ deviceAt[u] = "pushing" /\ deviceAt' = [deviceAt EXCEPT ![u] = "linking"]
      /\ seen' = [seen EXCEPT ![u] = head[mine[u].channel]]
      /\ UNCHANGED <<strayed, link, head, tail, creator, back, nodes, returned, called, mine, calls,
                     device, synchronous, accessStarted, accessEnded, finalized>>
  BY DEF Device!ReadHead, Device!queues, Device!results, Device!access
<1>2. /\ deviceAt \in [DeviceUsers -> {"out", "pushing", "linking", "moving", "asking", "inside", "leaving"}]
      /\ seen \in [DeviceUsers -> Device!NodeOrNone] /\ calls \in Nat
  BY EngineAssumption DEF DTypes
<1>3. /\ \A v \in DeviceUsers : v # u => deviceAt'[v] = deviceAt[v] /\ seen'[v] = seen[v]
      /\ deviceAt'[u] = "linking" /\ seen'[u] = head[mine[u].channel]
  BY <1>1, <1>2
<1>4. mine[u].channel \in Device!Channels
  BY <1>1, NodeFacts DEF DeviceOpen, UsersFit
<1>5. DTypes'
  BY <1>1, <1>4 DEF DTypes
<1>6. BacksFit'
  BY <1>1, BacksStay
<1>7. LinksFit'
  BY <1>1, <1>2, LinksStay DEF DeviceOpen
<1>8. EndsFit'
  BY <1>1, <1>3, EndsStay DEF DeviceOpen
<1>9. ReturnedFits'
  BY <1>1, ReturnedStays DEF DeviceOpen
<1>10. DeviceFits'
  BY <1>1, DeviceStays DEF DeviceOpen
<1>11. Alive'
  <2>1. \A v, c : Busy(v, c) => Busy(v, c)'
    BY <1>1, <1>3 DEF Busy, DTypes
  <2> QED
    BY <1>1, <2>1, AliveStays DEF DeviceOpen
<1>12. UsersFit'
  <2>1. Linked' = Linked
    BY <1>1, LinkedSame
  <2>2. \A v \in DeviceUsers, c \in Device!Channels : Device!MayUse(v, c)' <=> Device!MayUse(v, c)
    BY <1>1 DEF Device!MayUse
  <2> QED
    BY <1>1, <1>3, <2>1 DEF DeviceOpen, UsersFit, Device!MayUse
<1>13. AccessFits'
  BY <1>1, <1>3 DEF DeviceOpen, AccessFits
<1> QED
  BY <1>1, <1>5, <1>6, <1>7, <1>8, <1>9, <1>10, <1>11, <1>12, <1>13 DEF DeviceOpen

LEMMA EnterFits ==
    ASSUME DTypes, BacksFit, DeviceOpen, NEW u \in DeviceUsers, Device!Enter(u)
    PROVE  DTypes' /\ BacksFit' /\ DeviceOpen'
<1>1. /\ deviceAt[u] = "asking" /\ mine[u] \in accessStarted /\ deviceAt' = [deviceAt EXCEPT ![u] = "inside"]
      /\ accessStarted' = accessStarted \ {mine[u]}
      /\ UNCHANGED <<strayed, link, head, tail, creator, back, nodes, returned, called, mine, seen, calls,
                     device, synchronous, accessEnded, finalized>>
  BY DEF Device!Enter, Device!queues, Device!results
<1>2. /\ deviceAt \in [DeviceUsers -> {"out", "pushing", "linking", "moving", "asking", "inside", "leaving"}]
      /\ calls \in Nat
  BY EngineAssumption DEF DTypes
<1>3. /\ \A v \in DeviceUsers : v # u => deviceAt'[v] = deviceAt[v]
      /\ deviceAt'[u] = "inside"
  BY <1>1, <1>2
<1>4. /\ device.phase = "waiting" /\ accessStarted = {device.query} /\ accessEnded = {} /\ mine[u] = device.query
      /\ synchronous = u /\ device.query.of = u
  BY <1>1 DEF DeviceOpen, AccessFits, UsersFit
<1>5. DTypes'
  BY <1>1 DEF DTypes
<1>6. BacksFit'
  BY <1>1, BacksStay
<1>7. LinksFit'
  BY <1>1, <1>2, LinksStay DEF DeviceOpen
<1>8. EndsFit'
  BY <1>1, <1>3, EndsStay DEF DeviceOpen
<1>9. ReturnedFits'
  BY <1>1, ReturnedStays DEF DeviceOpen
<1>10. DeviceFits'
  BY <1>1, DeviceStays DEF DeviceOpen
<1>11. Alive'
  <2>1. \A v, c : Busy(v, c) => Busy(v, c)'
    BY <1>1, <1>3 DEF Busy, DTypes
  <2> QED
    BY <1>1, <2>1, AliveStays DEF DeviceOpen
<1>12. UsersFit'
  <2>1. Linked' = Linked
    BY <1>1, LinkedSame
  <2> QED
    BY <1>1, <1>3, <2>1 DEF DeviceOpen, UsersFit, Device!MayUse
<1>13. AccessFits'
  <2>1. AccessFits
    BY DEF DeviceOpen
  <2>2. accessStarted' = {}
    BY <1>1, <1>4
  <2>3. \A z \in DOMAIN link :
           link[z].channel = "high" /\ link[z] \notin returned
           /\ ~ (device.query = link[z] /\ device.phase \in {"waiting", "executed"})
             => mine[link[z].of] = link[z] /\ deviceAt'[link[z].of] \in {"moving", "asking"}
    <3> SUFFICES ASSUME NEW z \in DOMAIN link, link[z].channel = "high", link[z] \notin returned,
                        ~ (device.query = link[z] /\ device.phase \in {"waiting", "executed"})
                 PROVE  mine[link[z].of] = link[z] /\ deviceAt'[link[z].of] \in {"moving", "asking"}
      OBVIOUS
    <3>1. mine[link[z].of] = link[z] /\ deviceAt[link[z].of] \in {"moving", "asking"}
      BY <2>1 DEF AccessFits
    <3>2. link[z].of # u /\ link[z].of \in DeviceUsers
      BY <1>4, <3>1 DEF DeviceOpen, LinksFit
    <3> QED
      BY <1>3, <3>1, <3>2
  <2> QED
    BY <1>1, <1>3, <1>4, <2>1, <2>2, <2>3 DEF AccessFits
<1> QED
  BY <1>1, <1>5, <1>6, <1>7, <1>8, <1>9, <1>10, <1>11, <1>12, <1>13 DEF DeviceOpen

LEMMA LeaveFits ==
    ASSUME DTypes, BacksFit, DeviceOpen, NEW u \in DeviceUsers, Device!Leave(u)
    PROVE  DTypes' /\ BacksFit' /\ DeviceOpen'
<1>1. /\ deviceAt[u] = "inside" /\ deviceAt' = [deviceAt EXCEPT ![u] = "leaving"]
      /\ synchronous' = Nobody
      /\ UNCHANGED <<strayed, link, head, tail, creator, back, nodes, returned, called, mine, seen, calls,
                     device, accessStarted, accessEnded, finalized>>
  BY DEF Device!Leave, Device!queues, Device!results
<1>2. /\ deviceAt \in [DeviceUsers -> {"out", "pushing", "linking", "moving", "asking", "inside", "leaving"}]
      /\ calls \in Nat
  BY EngineAssumption DEF DTypes
<1>3. /\ \A v \in DeviceUsers : v # u => deviceAt'[v] = deviceAt[v]
      /\ deviceAt'[u] = "leaving"
  BY <1>1, <1>2
<1>4. /\ device.phase = "waiting" /\ mine[u] = device.query /\ device.query.of = u
      /\ accessStarted = {} /\ accessEnded = {} /\ synchronous = u
  <2>1. device.phase = "waiting" /\ mine[u] = device.query /\ device.query.of = u /\ synchronous = u
    BY <1>1 DEF DeviceOpen, AccessFits, UsersFit
  <2>2. u # Nobody
    BY EngineAssumption
  <2> QED
    BY <1>1, <2>1, <2>2 DEF DeviceOpen, AccessFits
<1>5. DTypes'
  BY <1>1 DEF DTypes
<1>6. BacksFit'
  BY <1>1, BacksStay
<1>7. LinksFit'
  BY <1>1, <1>2, LinksStay DEF DeviceOpen
<1>8. EndsFit'
  BY <1>1, <1>3, EndsStay DEF DeviceOpen
<1>9. ReturnedFits'
  BY <1>1, ReturnedStays DEF DeviceOpen
<1>10. DeviceFits'
  BY <1>1, DeviceStays DEF DeviceOpen
<1>11. Alive'
  <2>1. \A v, c : Busy(v, c) => Busy(v, c)'
    BY <1>1, <1>3 DEF Busy, DTypes
  <2> QED
    BY <1>1, <2>1, AliveStays DEF DeviceOpen
<1>12. UsersFit'
  <2>1. Linked' = Linked
    BY <1>1, LinkedSame
  <2> QED
    BY <1>1, <1>3, <2>1 DEF DeviceOpen, UsersFit, Device!MayUse
<1>13. AccessFits'
  <2>1. AccessFits
    BY DEF DeviceOpen
  <2>3. \A z \in DOMAIN link :
           link[z].channel = "high" /\ link[z] \notin returned
           /\ ~ (device.query = link[z] /\ device.phase \in {"waiting", "executed"})
             => mine[link[z].of] = link[z] /\ deviceAt'[link[z].of] \in {"moving", "asking"}
    <3> SUFFICES ASSUME NEW z \in DOMAIN link, link[z].channel = "high", link[z] \notin returned,
                        ~ (device.query = link[z] /\ device.phase \in {"waiting", "executed"})
                 PROVE  mine[link[z].of] = link[z] /\ deviceAt'[link[z].of] \in {"moving", "asking"}
      OBVIOUS
    <3>1. mine[link[z].of] = link[z] /\ deviceAt[link[z].of] \in {"moving", "asking"}
      BY <2>1 DEF AccessFits
    <3>2. link[z].of # u /\ link[z].of \in DeviceUsers
      BY <1>4, <3>1 DEF DeviceOpen, LinksFit
    <3> QED
      BY <1>3, <3>1, <3>2
  <2>4. ASSUME NEW v \in DeviceUsers
        PROVE  /\ deviceAt'[v] = "inside" => device.phase = "waiting" /\ device.query = mine[v] /\ synchronous' = v
               /\ deviceAt'[v] = "leaving" => device.phase = "waiting" /\ device.query = mine[v] /\ accessEnded = {}
    <3>1. CASE v = u
      BY <1>3, <1>4, <3>1
    <3>2. CASE v # u
      <4>1. deviceAt'[v] = deviceAt[v] /\ (deviceAt[v] = "inside" => mine[v] = device.query /\ mine[v].of = v)
        BY <1>3, <2>1, <3>2 DEF AccessFits, DeviceOpen, UsersFit
      <4>2. deviceAt[v] # "inside"
        BY <1>4, <3>2, <4>1
      <4> QED
        BY <2>1, <4>1, <4>2 DEF AccessFits
    <3> QED
      BY <3>1, <3>2
  <2> QED
    BY <1>1, <1>3, <1>4, <2>3, <2>4 DEF AccessFits
<1> QED
  BY <1>1, <1>5, <1>6, <1>7, <1>8, <1>9, <1>10, <1>11, <1>12, <1>13 DEF DeviceOpen

LEMMA SignalEndedFits ==
    ASSUME DTypes, BacksFit, DeviceOpen, NEW u \in DeviceUsers, Device!SignalEnded(u)
    PROVE  DTypes' /\ BacksFit' /\ DeviceOpen'
<1>1. /\ deviceAt[u] = "leaving" /\ deviceAt' = [deviceAt EXCEPT ![u] = "out"]
      /\ accessEnded' = accessEnded \cup {mine[u]}
      /\ UNCHANGED <<strayed, link, head, tail, creator, back, nodes, returned, called, mine, seen, calls,
                     device, synchronous, accessStarted, finalized>>
  BY DEF Device!SignalEnded, Device!queues, Device!results
<1>2. /\ deviceAt \in [DeviceUsers -> {"out", "pushing", "linking", "moving", "asking", "inside", "leaving"}]
      /\ calls \in Nat
  BY EngineAssumption DEF DTypes
<1>3. /\ \A v \in DeviceUsers : v # u => deviceAt'[v] = deviceAt[v]
      /\ deviceAt'[u] = "out"
  BY <1>1, <1>2
<1>4. /\ device.phase = "waiting" /\ mine[u] = device.query /\ device.query.of = u /\ mine[u] \in Device!Nodes
      /\ accessStarted = {} /\ accessEnded = {} /\ synchronous = Nobody
  <2>1. device.phase = "waiting" /\ mine[u] = device.query /\ device.query.of = u /\ accessEnded = {} /\ mine[u] \in Device!Nodes
    BY <1>1 DEF DeviceOpen, AccessFits, UsersFit
  <2> QED
    BY <1>1, <2>1 DEF DeviceOpen, AccessFits
<1>5. DTypes'
  BY <1>1, <1>4 DEF DTypes
<1>6. BacksFit'
  BY <1>1, BacksStay
<1>7. LinksFit'
  BY <1>1, <1>2, LinksStay DEF DeviceOpen
<1>8. EndsFit'
  BY <1>1, <1>3, EndsStay DEF DeviceOpen
<1>9. ReturnedFits'
  BY <1>1, ReturnedStays DEF DeviceOpen
<1>10. DeviceFits'
  BY <1>1, DeviceStays DEF DeviceOpen
<1>11. Alive'
  <2>1. \A v, c : Busy(v, c) => Busy(v, c)'
    BY <1>1, <1>3 DEF Busy, DTypes
  <2> QED
    BY <1>1, <2>1, AliveStays DEF DeviceOpen
<1>12. UsersFit'
  <2>1. Linked' = Linked
    BY <1>1, LinkedSame
  <2> QED
    BY <1>1, <1>3, <2>1 DEF DeviceOpen, UsersFit, Device!MayUse
<1>13. AccessFits'
  <2>1. AccessFits
    BY DEF DeviceOpen
  <2>2. accessEnded' = {device.query}
    BY <1>1, <1>4
  <2>3. \A z \in DOMAIN link :
           link[z].channel = "high" /\ link[z] \notin returned
           /\ ~ (device.query = link[z] /\ device.phase \in {"waiting", "executed"})
             => mine[link[z].of] = link[z] /\ deviceAt'[link[z].of] \in {"moving", "asking"}
    <3> SUFFICES ASSUME NEW z \in DOMAIN link, link[z].channel = "high", link[z] \notin returned,
                        ~ (device.query = link[z] /\ device.phase \in {"waiting", "executed"})
                 PROVE  mine[link[z].of] = link[z] /\ deviceAt'[link[z].of] \in {"moving", "asking"}
      OBVIOUS
    <3>1. mine[link[z].of] = link[z] /\ deviceAt[link[z].of] \in {"moving", "asking"}
      BY <2>1 DEF AccessFits
    <3>2. link[z].of # u /\ link[z].of \in DeviceUsers
      BY <1>4, <3>1 DEF DeviceOpen, LinksFit
    <3> QED
      BY <1>3, <3>1, <3>2
  <2>4. ASSUME NEW v \in DeviceUsers
        PROVE  deviceAt'[v] # "leaving" /\ deviceAt'[v] # "inside"
    <3>1. CASE v = u
      BY <1>3, <3>1
    <3>2. CASE v # u
      <4>1. deviceAt'[v] = deviceAt[v] /\ (deviceAt[v] \in {"inside", "leaving"} => mine[v] = device.query /\ mine[v].of = v)
        BY <1>3, <2>1, <3>2 DEF AccessFits, DeviceOpen, UsersFit
      <4> QED
        BY <1>4, <3>2, <4>1
    <3> QED
      BY <3>1, <3>2
  <2> QED
    BY <1>1, <1>4, <2>2, <2>3, <2>4 DEF AccessFits
<1> QED
  BY <1>1, <1>5, <1>6, <1>7, <1>8, <1>9, <1>10, <1>11, <1>12, <1>13 DEF DeviceOpen

-----------------------------------------------------------------------------
(* The steps of the device that concern no queue.                          *)

LEMMA UsersStay ==
    ASSUME UsersFit, UNCHANGED <<strayed, link, head, nodes, deviceAt, mine, seen, calls>>
    PROVE  UsersFit'
<1>1. Linked' = Linked
  BY LinkedSame
<1> QED
  BY <1>1 DEF UsersFit, Device!MayUse

LEMMA LoopEndsFits ==
    ASSUME DTypes, BacksFit, DeviceOpen, Device!LoopEnds
    PROVE  DTypes' /\ BacksFit' /\ DeviceOpen'
<1>1. /\ device.phase = "loop"
      /\ device' = CASE device.loop = "high"   -> Device!InLoop("normal")
                     [] device.loop = "normal" -> Device!InLoop("high")
                     [] device.loop = "nested" ->
                        [Device!InLoop("normal") EXCEPT !.phase = "execute", !.query = device.popped]
      /\ UNCHANGED <<strayed, link, head, tail, creator, back, nodes, returned, called, deviceAt, mine, seen, calls,
                     synchronous, accessStarted, accessEnded, finalized>>
  BY DEF Device!LoopEnds, Device!queues, Device!results, Device!users, Device!access
<1>2. /\ device \in [loop : {"high", "normal", "nested"}, phase : {"loop", "execute", "waiting", "executed"},
                     query : Device!NodeOrNone, popped : Device!NodeOrNone]
      /\ calls \in Nat
  BY EngineAssumption DEF DTypes
<1>3. \/ device.loop = "high" /\ device' = Device!InLoop("normal")
      \/ device.loop = "normal" /\ device' = Device!InLoop("high")
      \/ /\ device.loop = "nested"
         /\ device' = [loop |-> "normal", phase |-> "execute", query |-> device.popped, popped |-> Device!NoNode]
  BY <1>1, <1>2 DEF Device!InLoop
<1>4. /\ device' \in [loop : {"high", "normal", "nested"}, phase : {"loop", "execute", "waiting", "executed"},
                      query : Device!NodeOrNone, popped : Device!NodeOrNone]
      /\ device'.phase \in {"loop", "execute"}
  BY <1>2, <1>3 DEF Device!InLoop, Device!NodeOrNone
<1>5. DTypes'
  BY <1>1, <1>4 DEF DTypes
<1>6. BacksFit'
  BY <1>1, BacksStay
<1>7. LinksFit'
  BY <1>1, <1>2, LinksStay DEF DeviceOpen
<1>8. EndsFit'
  BY <1>1, EndsStay DEF DeviceOpen
<1>9. ReturnedFits'
  BY <1>1, ReturnedStays DEF DeviceOpen
<1>10. DeviceFits'
  <2>1. DeviceFits
    BY DEF DeviceOpen
  <2>2. CASE device.loop = "nested"
    BY <1>1, <1>3, <2>1, <2>2 DEF DeviceFits
  <2>3. CASE device.loop # "nested"
    BY <1>1, <1>3, <2>1, <2>3 DEF DeviceFits, Device!InLoop
  <2> QED
    BY <2>2, <2>3
<1>11. Alive'
  BY <1>1, AliveStays DEF DeviceOpen, Busy
<1>12. UsersFit'
  BY <1>1, UsersStay DEF DeviceOpen
<1>13. AccessFits'
  BY <1>1, <1>4 DEF DeviceOpen, AccessFits
<1> QED
  BY <1>1, <1>5, <1>6, <1>7, <1>8, <1>9, <1>10, <1>11, <1>12, <1>13 DEF DeviceOpen

LEMMA GiveAccessFits ==
    ASSUME DTypes, BacksFit, DeviceOpen, Device!GiveAccess
    PROVE  DTypes' /\ BacksFit' /\ DeviceOpen'
<1>1. /\ device.phase = "execute" /\ device.query.channel = "high"
      /\ synchronous' = device.query.of
      /\ accessStarted' = accessStarted \cup {device.query}
      /\ device' = [device EXCEPT !.phase = "waiting"]
      /\ UNCHANGED <<strayed, link, head, tail, creator, back, nodes, returned, called, deviceAt, mine, seen, calls,
                     accessEnded, finalized>>
  BY DEF Device!GiveAccess, Device!queues, Device!results, Device!users
<1>2. /\ device \in [loop : {"high", "normal", "nested"}, phase : {"loop", "execute", "waiting", "executed"},
                     query : Device!NodeOrNone, popped : Device!NodeOrNone]
      /\ calls \in Nat
  BY EngineAssumption DEF DTypes
<1>3. /\ device' \in [loop : {"high", "normal", "nested"}, phase : {"loop", "execute", "waiting", "executed"},
                      query : Device!NodeOrNone, popped : Device!NodeOrNone]
      /\ device'.phase = "waiting" /\ device'.query = device.query
      /\ device'.loop = device.loop /\ device'.popped = device.popped
  BY <1>1, <1>2
<1>4. device.query # Device!NoNode /\ device.query \notin returned /\ \E z \in DOMAIN link : device.query = link[z]
  BY <1>1 DEF DeviceOpen, DeviceFits
<1>5. PICK z \in DOMAIN link : device.query = link[z]
  BY <1>4
<1>6. /\ device.query.of \in DeviceUsers /\ device.query \in Device!Nodes
      /\ mine[device.query.of] = device.query /\ deviceAt[device.query.of] \in {"moving", "asking"}
      /\ accessStarted = {} /\ accessEnded = {} /\ synchronous = Nobody
  BY <1>1, <1>4, <1>5 DEF DeviceOpen, LinksFit, AccessFits, DTypes
<1>7. DTypes'
  BY <1>1, <1>3, <1>6 DEF DTypes
<1>8. BacksFit'
  BY <1>1, BacksStay
<1>9. LinksFit'
  BY <1>1, <1>2, LinksStay DEF DeviceOpen
<1>10. EndsFit'
  BY <1>1, EndsStay DEF DeviceOpen
<1>11. ReturnedFits'
  BY <1>1, ReturnedStays DEF DeviceOpen
<1>12. DeviceFits'
  <2>1. DeviceFits
    BY DEF DeviceOpen
  <2> QED
    BY <1>1, <1>3, <1>4, <2>1 DEF DeviceFits
<1>13. Alive'
  BY <1>1, AliveStays DEF DeviceOpen, Busy
<1>14. UsersFit'
  BY <1>1, UsersStay DEF DeviceOpen
<1>15. AccessFits'
  <2>1. AccessFits
    BY DEF DeviceOpen
  <2>2. accessStarted' = {device.query}
    BY <1>1, <1>6
  <2> QED
    BY <1>1, <1>3, <1>6, <2>1, <2>2 DEF AccessFits
<1> QED
  BY <1>1, <1>7, <1>8, <1>9, <1>10, <1>11, <1>12, <1>13, <1>14, <1>15 DEF DeviceOpen

LEMMA TakeAccessFits ==
    ASSUME DTypes, BacksFit, DeviceOpen, Device!TakeAccess
    PROVE  DTypes' /\ BacksFit' /\ DeviceOpen'
<1>1. /\ device.phase = "waiting" /\ device.query \in accessEnded
      /\ accessEnded' = accessEnded \ {device.query}
      /\ device' = [device EXCEPT !.phase = "executed"]
      /\ UNCHANGED <<strayed, link, head, tail, creator, back, nodes, returned, called, deviceAt, mine, seen, calls,
                     synchronous, accessStarted, finalized>>
  BY DEF Device!TakeAccess, Device!queues, Device!results, Device!users
<1>2. /\ device \in [loop : {"high", "normal", "nested"}, phase : {"loop", "execute", "waiting", "executed"},
                     query : Device!NodeOrNone, popped : Device!NodeOrNone]
      /\ calls \in Nat
  BY EngineAssumption DEF DTypes
<1>3. /\ device' \in [loop : {"high", "normal", "nested"}, phase : {"loop", "execute", "waiting", "executed"},
                      query : Device!NodeOrNone, popped : Device!NodeOrNone]
      /\ device'.phase = "executed" /\ device'.query = device.query
      /\ device'.loop = device.loop /\ device'.popped = device.popped
  BY <1>1, <1>2
<1>4. accessStarted = {} /\ accessEnded = {device.query} /\ synchronous = Nobody
  BY <1>1 DEF DeviceOpen, AccessFits
<1>5. DTypes'
  BY <1>1, <1>3 DEF DTypes
<1>6. BacksFit'
  BY <1>1, BacksStay
<1>7. LinksFit'
  BY <1>1, <1>2, LinksStay DEF DeviceOpen
<1>8. EndsFit'
  BY <1>1, EndsStay DEF DeviceOpen
<1>9. ReturnedFits'
  BY <1>1, ReturnedStays DEF DeviceOpen
<1>10. DeviceFits'
  <2>1. DeviceFits
    BY DEF DeviceOpen
  <2> QED
    BY <1>1, <1>3, <2>1 DEF DeviceFits
<1>11. Alive'
  BY <1>1, AliveStays DEF DeviceOpen, Busy
<1>12. UsersFit'
  BY <1>1, UsersStay DEF DeviceOpen
<1>13. AccessFits'
  <2>1. AccessFits
    BY DEF DeviceOpen
  <2>2. accessEnded' = {}
    BY <1>1, <1>4
  <2>3. \A v \in DeviceUsers : deviceAt[v] # "inside" /\ deviceAt[v] # "leaving"
    <3> SUFFICES ASSUME NEW v \in DeviceUsers, deviceAt[v] = "inside" \/ deviceAt[v] = "leaving" PROVE FALSE
      OBVIOUS
    <3>1. v # Nobody
      BY EngineAssumption
    <3> QED
      BY <1>4, <2>1, <3>1 DEF AccessFits
  <2> QED
    BY <1>1, <1>3, <1>4, <2>1, <2>2, <2>3 DEF AccessFits
<1> QED
  BY <1>1, <1>5, <1>6, <1>7, <1>8, <1>9, <1>10, <1>11, <1>12, <1>13 DEF DeviceOpen

-----------------------------------------------------------------------------
(* A producer links its node and moves the head.                           *)

\* A step that changes neither link nor head nor mine: at[u] goes from before the link to before it.
LEMMA LinkFails ==
    ASSUME DTypes, BacksFit, DeviceOpen, NEW u \in DeviceUsers, deviceAt[u] \in {"pushing", "linking"},
           deviceAt' = [deviceAt EXCEPT ![u] = "pushing"], seen' = [seen EXCEPT ![u] = Device!NoNode],
           strayed' \in BOOLEAN,
           UNCHANGED <<link, head, tail, creator, back, nodes, returned, called, mine, calls,
                       device, synchronous, accessStarted, accessEnded, finalized>>
    PROVE  DTypes' /\ BacksFit' /\ DeviceOpen'
<1>2. /\ deviceAt \in [DeviceUsers -> {"out", "pushing", "linking", "moving", "asking", "inside", "leaving"}]
      /\ seen \in [DeviceUsers -> Device!NodeOrNone] /\ calls \in Nat
  BY EngineAssumption DEF DTypes
<1>3. /\ \A v \in DeviceUsers : v # u => deviceAt'[v] = deviceAt[v] /\ seen'[v] = seen[v]
      /\ deviceAt'[u] = "pushing" /\ seen'[u] = Device!NoNode
  BY <1>2
<1>5. DTypes'
  BY DEF DTypes, Device!NodeOrNone
<1>6. BacksFit'
  BY BacksStay
<1>7. LinksFit'
  BY <1>2, LinksStay DEF DeviceOpen
<1>8. EndsFit'
  BY <1>3, EndsStay DEF DeviceOpen
<1>9. ReturnedFits'
  BY ReturnedStays DEF DeviceOpen
<1>10. DeviceFits'
  BY DeviceStays DEF DeviceOpen
<1>11. Alive'
  <2>1. \A v, c : Busy(v, c) => Busy(v, c)'
    BY <1>3 DEF Busy
  <2> QED
    BY <2>1, AliveStays DEF DeviceOpen
<1>12. UsersFit'
  <2>1. Linked' = Linked
    BY LinkedSame
  <2> QED
    BY <1>3, <2>1 DEF DeviceOpen, UsersFit, Device!MayUse
<1>13. AccessFits'
  BY <1>3 DEF DeviceOpen, AccessFits
<1> QED
  BY <1>5, <1>6, <1>7, <1>8, <1>9, <1>10, <1>11, <1>12, <1>13 DEF DeviceOpen

LEMMA LinkSucceeds ==
    ASSUME DTypes, BacksFit, DeviceOpen, NEW u \in DeviceUsers, deviceAt[u] \in {"pushing", "linking"},
           head[mine[u].channel] \notin DOMAIN link,
           link' = Device!WithLink(head[mine[u].channel], mine[u]), deviceAt' = [deviceAt EXCEPT ![u] = "moving"],
           seen' = [seen EXCEPT ![u] = Device!NoNode], strayed' \in BOOLEAN,
           UNCHANGED <<head, tail, creator, back, nodes, returned, called, mine, calls,
                       device, synchronous, accessStarted, accessEnded, finalized>>
    PROVE  DTypes' /\ BacksFit' /\ DeviceOpen'
<1> DEFINE c == mine[u].channel
           h == head[mine[u].channel]
<1>1. /\ deviceAt \in [DeviceUsers -> {"out", "pushing", "linking", "moving", "asking", "inside", "leaving"}]
      /\ seen \in [DeviceUsers -> Device!NodeOrNone] /\ calls \in Nat
      /\ head \in [Device!Channels -> Device!NodeOrNone] /\ tail \in [Device!Channels -> Device!NodeOrNone]
  BY EngineAssumption DEF DTypes
<1>2. /\ \A v \in DeviceUsers : v # u => deviceAt'[v] = deviceAt[v] /\ seen'[v] = seen[v]
      /\ deviceAt'[u] = "moving" /\ seen'[u] = Device!NoNode
  BY <1>1
<1>3. /\ mine[u] \in nodes /\ mine[u].of = u /\ mine[u].n \in 1 .. calls /\ mine[u] \in Device!Nodes
      /\ mine[u] \notin Linked /\ c \in Device!Channels /\ h # Device!NoNode /\ Device!MayUse(u, c)
  BY NodeFacts DEF DeviceOpen, UsersFit
<1>4. h \in Linked /\ tail[c] \in Linked /\ h.channel = c /\ h # mine[u] /\ h \in Device!Nodes
  BY <1>1, <1>3 DEF DeviceOpen, EndsFit, Device!NodeOrNone
<1>5. /\ DOMAIN link' = DOMAIN link \cup {h} /\ link'[h] = mine[u]
      /\ \A z \in DOMAIN link : z # h /\ link'[z] = link[z]
  BY DEF Device!WithLink
<1>6. Linked' = Linked \cup {mine[u]}
  <2>1. {link'[z] : z \in DOMAIN link'} = {link[z] : z \in DOMAIN link} \cup {mine[u]}
    BY <1>5
  <2> QED
    BY <2>1 DEF Linked
<1>7. DTypes'
  <2>1. \A z \in DOMAIN link' : link'[z] \in Device!Nodes
    BY <1>3, <1>5 DEF DTypes
  <2>2. link' \in [DOMAIN link' -> Device!Nodes]
    BY <2>1 DEF Device!WithLink
  <2>3. DOMAIN link' \subseteq Device!Nodes
    BY <1>4, <1>5 DEF DTypes
  <2> QED
    BY <2>2, <2>3 DEF DTypes, Device!NodeOrNone
<1>8. BacksFit'
  BY BacksStay
<1>9. LinksFit'
  <2>1. LinksFit
    BY DEF DeviceOpen
  <2>2. DOMAIN link \subseteq Linked
    BY <2>1 DEF LinksFit
  <2>3. \A z \in DOMAIN link' : link'[z].channel = z.channel /\ link'[z].of \in DeviceUsers /\ link'[z].n \in 1 .. calls
    BY <1>3, <1>4, <1>5, <2>1 DEF LinksFit
  <2>4. \A z \in DOMAIN link : link[z] \in Linked
    BY DEF Linked
  <2>5. \A y, z \in DOMAIN link' : link'[y] = link'[z] => y = z
    BY <1>3, <1>5, <2>1, <2>4 DEF LinksFit
  <2>6. \A x \in Linked' : head[x.channel] # Device!NoNode
    BY <1>3, <1>6, <2>1 DEF LinksFit
  <2> QED
    BY <1>4, <1>5, <1>6, <2>2, <2>3, <2>5, <2>6 DEF LinksFit
<1>10. EndsFit'
  <2>1. EndsFit
    BY DEF DeviceOpen
  <2>2. ASSUME NEW v \in DeviceUsers, deviceAt[v] = "moving"
        PROVE  v # u /\ mine[v].channel # c /\ deviceAt'[v] = "moving"
    <3>1. v # u
      BY <2>2
    <3>2. head[mine[v].channel] \in DOMAIN link
      BY <2>1, <2>2 DEF EndsFit
    <3> QED
      BY <1>2, <2>2, <3>1, <3>2
  <2>3. \A v \in DeviceUsers : \A d : Busy(v, d) => Busy(v, d)'
    BY <2>2 DEF Busy
  <2>4. Busy(u, c)'
    BY <1>2 DEF Busy
  <2>5. ASSUME NEW d \in Device!Channels, head[d] # Device!NoNode
        PROVE  /\ head[d] \in Linked' /\ tail[d] \in Linked'
               /\ head[d].channel = d /\ tail[d].channel = d
               /\ creator[d] \in DeviceUsers
               /\ head[d] \in DOMAIN link' => \E v \in DeviceUsers : Busy(v, d)'
    <3>1. head[d] \in DOMAIN link' /\ d # c => head[d] \in DOMAIN link
      BY <1>4, <1>5, <2>1, <2>5 DEF EndsFit
    <3>2. CASE d = c
      BY <1>6, <2>1, <2>4, <2>5, <3>2 DEF EndsFit
    <3>3. CASE d # c
      BY <1>6, <2>1, <2>3, <2>5, <3>1, <3>3 DEF EndsFit
    <3> QED
      BY <3>2, <3>3
  <2>6. \A x \in Linked' \ DOMAIN link' : x = head[x.channel] \/ \E v \in DeviceUsers : deviceAt'[v] = "moving" /\ mine[v] = x
    <3> SUFFICES ASSUME NEW x \in Linked', x \notin DOMAIN link'
                 PROVE  x = head[x.channel] \/ \E v \in DeviceUsers : deviceAt'[v] = "moving" /\ mine[v] = x
      OBVIOUS
    <3>1. CASE x = mine[u]
      BY <1>2, <3>1
    <3>2. CASE x # mine[u]
      BY <1>5, <1>6, <2>1, <2>2, <3>2 DEF EndsFit
    <3> QED
      BY <3>1, <3>2
  <2>7. \A v \in DeviceUsers : deviceAt'[v] = "moving" =>
             /\ mine[v] \in Linked' \ DOMAIN link'
             /\ head[mine[v].channel] \in DOMAIN link' /\ link'[head[mine[v].channel]] = mine[v]
    <3> SUFFICES ASSUME NEW v \in DeviceUsers, deviceAt'[v] = "moving"
                 PROVE  /\ mine[v] \in Linked' \ DOMAIN link'
                        /\ head[mine[v].channel] \in DOMAIN link' /\ link'[head[mine[v].channel]] = mine[v]
      OBVIOUS
    <3>1. CASE v = u
      <4>1. mine[u] \notin DOMAIN link
        BY <1>3 DEF DeviceOpen, LinksFit
      <4> QED
        BY <1>4, <1>5, <1>6, <3>1, <4>1
    <3>2. CASE v # u
      <4>1. deviceAt[v] = "moving"
        BY <1>2, <3>2
      <4>2. /\ mine[v] \in Linked \ DOMAIN link
            /\ head[mine[v].channel] \in DOMAIN link /\ link[head[mine[v].channel]] = mine[v]
        BY <2>1, <4>1 DEF EndsFit
      <4>3. mine[v] # h
        BY <1>4, <2>2, <4>1
      <4> QED
        BY <1>5, <1>6, <4>2, <4>3
    <3> QED
      BY <3>1, <3>2
  <2> QED
    BY <2>1, <2>5, <2>6, <2>7 DEF EndsFit, Busy
<1>11. ReturnedFits'
  <2>1. ReturnedFits
    BY DEF DeviceOpen
  <2>2. mine[u] \notin returned /\ mine[u] # tail[c]
    BY <1>3, <1>4, <2>1 DEF ReturnedFits
  <2>3. returned \subseteq Linked'
    BY <1>6, <2>1 DEF ReturnedFits
  <2>4. \A x \in returned : x # tail[x.channel] =>
             x \in DOMAIN link' /\ (link'[x] \in returned \/ link'[x] = tail[x.channel])
    BY <1>5, <2>1 DEF ReturnedFits
  <2>5. \A z \in DOMAIN link' : link'[z] \in returned \/ link'[z] = tail[z.channel] => z \in returned
    BY <1>4, <1>5, <2>1, <2>2 DEF ReturnedFits
  <2>6. \A d \in Device!Channels : tail[d] \in DOMAIN link' => link'[tail[d]] \notin returned
    BY <1>5, <2>1, <2>2 DEF ReturnedFits
  <2> QED
    BY <2>3, <2>4, <2>5, <2>6 DEF ReturnedFits
<1>12. UsersFit'
  <2>1. \A v \in DeviceUsers : deviceAt[v] \in {"pushing", "linking"} /\ v # u => mine[v] # mine[u]
    BY <1>3 DEF DeviceOpen, UsersFit
  <2> QED
    BY <1>2, <1>5, <1>6, <2>1 DEF DeviceOpen, UsersFit, Device!MayUse
<1>13. DeviceFits'
  <2>1. DeviceFits
    BY DEF DeviceOpen
  <2>2. \A y : (\E z \in DOMAIN link : y = link[z]) => \E z \in DOMAIN link' : y = link'[z]
    BY <1>5
  <2> QED
    BY <2>1, <2>2 DEF DeviceFits
<1>14. AccessFits'
  <2>1. AccessFits
    BY DEF DeviceOpen
  <2>2. \A z \in DOMAIN link' :
           link'[z].channel = "high" /\ link'[z] \notin returned
           /\ ~ (device.query = link'[z] /\ device.phase \in {"waiting", "executed"})
             => mine[link'[z].of] = link'[z] /\ deviceAt'[link'[z].of] \in {"moving", "asking"}
    <3> SUFFICES ASSUME NEW z \in DOMAIN link', link'[z].channel = "high", link'[z] \notin returned,
                        ~ (device.query = link'[z] /\ device.phase \in {"waiting", "executed"})
                 PROVE  mine[link'[z].of] = link'[z] /\ deviceAt'[link'[z].of] \in {"moving", "asking"}
      OBVIOUS
    <3>1. CASE z = h
      BY <1>2, <1>3, <1>5, <3>1
    <3>2. CASE z # h
      <4>1. z \in DOMAIN link /\ link'[z] = link[z]
        BY <1>5, <3>2
      <4>2. mine[link[z].of] = link[z] /\ deviceAt[link[z].of] \in {"moving", "asking"} /\ link[z].of \in DeviceUsers
        BY <2>1, <4>1 DEF AccessFits, DeviceOpen, LinksFit
      <4> QED
        BY <1>2, <4>1, <4>2
    <3> QED
      BY <3>1, <3>2
  <2>3. device.phase = "waiting" => device.query.of \in DeviceUsers
    <3>1. device.phase = "waiting" => \E z \in DOMAIN link : device.query = link[z]
      BY DEF DeviceOpen, DeviceFits
    <3> QED
      BY <3>1 DEF DeviceOpen, LinksFit
  <2>4. device.phase = "waiting" =>
           LET q == device.query
               w == device.query.of
           IN  \/ accessStarted = {q} /\ accessEnded = {} /\ synchronous = w /\ deviceAt'[w] \in {"moving", "asking"} /\ mine[w] = q
               \/ accessStarted = {} /\ accessEnded = {} /\ synchronous = w /\ deviceAt'[w] = "inside" /\ mine[w] = q
               \/ accessStarted = {} /\ accessEnded = {} /\ synchronous = Nobody /\ deviceAt'[w] = "leaving" /\ mine[w] = q
               \/ accessStarted = {} /\ accessEnded = {q} /\ synchronous = Nobody
    BY <1>2, <2>1, <2>3 DEF AccessFits
  <2>5. \A v \in DeviceUsers :
           /\ deviceAt'[v] = "inside" => device.phase = "waiting" /\ device.query = mine[v] /\ synchronous = v
           /\ deviceAt'[v] = "leaving" => device.phase = "waiting" /\ device.query = mine[v] /\ accessEnded = {}
    BY <1>2, <2>1 DEF AccessFits
  <2>6. device.phase # "waiting" => accessStarted = {} /\ accessEnded = {} /\ synchronous = Nobody
    BY <2>1 DEF AccessFits
  <2> QED
    BY <2>2, <2>4, <2>5, <2>6 DEF AccessFits
<1>15. Alive'
  <2>1. Alive
    BY DEF DeviceOpen
  <2>2. \A x : Device!Owner(x)' = Device!Owner(x)
    BY DEF Device!Owner
  <2>3. \A v, d : Busy(v, d) => Busy(v, d)'
    BY <1>2 DEF Busy
  <2>4. \A x \in Linked' \ returned : x \in nodes
    BY <1>3, <1>6, <2>1 DEF Alive
  <2> QED
    BY <2>1, <2>2, <2>3, <2>4 DEF Alive, LastOf, In
<1> QED
  BY <1>7, <1>8, <1>9, <1>10, <1>11, <1>12, <1>13, <1>14, <1>15 DEF DeviceOpen

LEMMA LinkFits ==
    ASSUME DTypes, BacksFit, DeviceOpen, NEW u \in DeviceUsers, Device!Link(u)
    PROVE  DTypes' /\ BacksFit' /\ DeviceOpen'
<1>1. PICK x \in {seen[u]} :
          /\ deviceAt[u] = "linking" /\ strayed' \in BOOLEAN
          /\ IF Device!NextOf(x) = Device!NoNode
             THEN link' = Device!WithLink(x, mine[u]) /\ deviceAt' = [deviceAt EXCEPT ![u] = "moving"]
             ELSE link' = link /\ deviceAt' = [deviceAt EXCEPT ![u] = "pushing"]
          /\ seen' = [seen EXCEPT ![u] = Device!NoNode]
          /\ UNCHANGED <<head, tail, creator, back, nodes, returned, called, mine, calls,
                         device, synchronous, accessStarted, accessEnded, finalized>>
  BY DEF Device!Link, Device!Touches, Device!results, Device!access
<1>2. x = head[mine[u].channel] \/ x \in DOMAIN link
  BY <1>1 DEF DeviceOpen, UsersFit
<1>3. x \in DOMAIN link => Device!NextOf(x) # Device!NoNode
  BY NodeFacts DEF Device!NextOf, DTypes
<1>4. CASE Device!NextOf(x) = Device!NoNode
  BY <1>1, <1>2, <1>3, <1>4, LinkSucceeds
<1>5. CASE Device!NextOf(x) # Device!NoNode
  BY <1>1, <1>5, LinkFails
<1> QED
  BY <1>4, <1>5

LEMMA MoveHeadFits ==
    ASSUME DTypes, BacksFit, DeviceOpen, NEW u \in DeviceUsers, Device!MoveHead(u)
    PROVE  DTypes' /\ BacksFit' /\ DeviceOpen'
<1> DEFINE c == mine[u].channel
<1>1. /\ deviceAt[u] = "moving"
      /\ head' = [head EXCEPT ![c] = mine[u]]
      /\ deviceAt' = [deviceAt EXCEPT ![u] = IF c = "high" THEN "asking" ELSE "out"]
      /\ UNCHANGED <<strayed, link, tail, creator, back, nodes, returned, called, mine, seen, calls,
                     device, synchronous, accessStarted, accessEnded, finalized>>
  BY DEF Device!MoveHead, Device!results, Device!access
<1>2. /\ deviceAt \in [DeviceUsers -> {"out", "pushing", "linking", "moving", "asking", "inside", "leaving"}]
      /\ head \in [Device!Channels -> Device!NodeOrNone] /\ calls \in Nat
  BY EngineAssumption DEF DTypes
<1>3. /\ \A v \in DeviceUsers : v # u => deviceAt'[v] = deviceAt[v]
      /\ deviceAt'[u] = IF c = "high" THEN "asking" ELSE "out"
  BY <1>1, <1>2
<1>4. /\ mine[u] \in nodes /\ mine[u].of = u /\ mine[u].n \in 1 .. calls /\ mine[u] \in Device!Nodes
      /\ c \in Device!Channels /\ head[c] # Device!NoNode /\ Device!MayUse(u, c) /\ mine[u] # Device!NoNode
  BY <1>1, NodeFacts DEF DeviceOpen, UsersFit
<1>5. /\ mine[u] \in Linked /\ mine[u] \notin DOMAIN link
      /\ head[c] \in DOMAIN link /\ link[head[c]] = mine[u]
  BY <1>1 DEF DeviceOpen, EndsFit
<1>6. head'[c] = mine[u] /\ \A d \in Device!Channels : d # c => head'[d] = head[d]
  BY <1>1, <1>2, <1>4
<1>7. Linked' = Linked
  <2>1. {d \in Device!Channels : head'[d] # Device!NoNode} = {d \in Device!Channels : head[d] # Device!NoNode}
    BY <1>4, <1>6
  <2> QED
    BY <1>1, <2>1 DEF Linked
<1>8. DTypes'
  BY <1>1, <1>4 DEF DTypes, Device!NodeOrNone
<1>9. BacksFit'
  BY <1>1, BacksStay
<1>10. \A x \in Linked : head'[x.channel] # Device!NoNode
  <2>1. \A x \in Linked : x.channel \in Device!Channels
    BY LinkedNodes, NodeFacts
  <2> QED
    BY <1>4, <1>6, <2>1 DEF DeviceOpen, LinksFit
<1>11. LinksFit'
  BY <1>1, <1>7, <1>10 DEF DeviceOpen, LinksFit
<1>12. ASSUME NEW v \in DeviceUsers, deviceAt[v] = "moving", v # u PROVE mine[v].channel # c /\ mine[v].channel \in Device!Channels
  <2>1. mine[v].channel \in Device!Channels /\ mine[v].of = v
    BY <1>12, NodeFacts DEF DeviceOpen, UsersFit
  <2>2. link[head[mine[v].channel]] = mine[v]
    BY <1>12 DEF DeviceOpen, EndsFit
  <2> QED
    BY <1>4, <1>5, <1>12, <2>1, <2>2
<1>13. ASSUME NEW v, NEW d, Busy(v, d), d # c PROVE Busy(v, d)'
  <2>1. v # u /\ v \in DeviceUsers
    BY <1>13 DEF Busy
  <2> QED
    BY <1>1, <1>3, <1>13, <2>1 DEF Busy
<1>14. EndsFit'
  <2>1. EndsFit
    BY DEF DeviceOpen
  <2>2. \A d \in Device!Channels : tail[d] = Device!NoNode <=> head'[d] = Device!NoNode
    BY <1>4, <1>6, <2>1 DEF EndsFit
  <2>3. ASSUME NEW d \in Device!Channels, head'[d] # Device!NoNode
        PROVE  /\ head'[d] \in Linked /\ tail[d] \in Linked
               /\ head'[d].channel = d /\ tail[d].channel = d
               /\ creator[d] \in DeviceUsers
               /\ head'[d] \in DOMAIN link => \E v \in DeviceUsers : Busy(v, d)'
    <3>1. CASE d = c
      BY <1>4, <1>5, <1>6, <2>1, <3>1 DEF EndsFit
    <3>2. CASE d # c
      BY <1>6, <1>13, <2>1, <2>3, <3>2 DEF EndsFit
    <3> QED
      BY <3>1, <3>2
  <2>4. \A x \in Linked \ DOMAIN link : x = head'[x.channel] \/ \E v \in DeviceUsers : deviceAt'[v] = "moving" /\ mine[v] = x
    <3> SUFFICES ASSUME NEW x \in Linked, x \notin DOMAIN link
                 PROVE  x = head'[x.channel] \/ \E v \in DeviceUsers : deviceAt'[v] = "moving" /\ mine[v] = x
      OBVIOUS
    <3>1. x = head[x.channel] \/ \E v \in DeviceUsers : deviceAt[v] = "moving" /\ mine[v] = x
      BY <2>1 DEF EndsFit
    <3>2. x.channel \in Device!Channels
      BY LinkedNodes, NodeFacts
    <3>3. CASE x = head[x.channel]
      BY <1>5, <1>6, <3>2, <3>3
    <3>4. CASE \E v \in DeviceUsers : deviceAt[v] = "moving" /\ mine[v] = x
      BY <1>3, <1>6, <3>4
    <3> QED
      BY <3>1, <3>3, <3>4
  <2>5. \A v \in DeviceUsers : deviceAt'[v] = "moving" =>
             /\ mine[v] \in Linked \ DOMAIN link
             /\ head'[mine[v].channel] \in DOMAIN link /\ link[head'[mine[v].channel]] = mine[v]
    <3> SUFFICES ASSUME NEW v \in DeviceUsers, deviceAt'[v] = "moving"
                 PROVE  /\ mine[v] \in Linked \ DOMAIN link
                        /\ head'[mine[v].channel] \in DOMAIN link /\ link[head'[mine[v].channel]] = mine[v]
      OBVIOUS
    <3>1. v # u /\ deviceAt[v] = "moving"
      BY <1>3
    <3> QED
      BY <1>6, <1>12, <2>1, <3>1 DEF EndsFit
  <2> QED
    BY <1>1, <1>7, <2>2, <2>3, <2>4, <2>5 DEF EndsFit, Busy
<1>15. ReturnedFits'
  BY <1>1, <1>7 DEF DeviceOpen, ReturnedFits
<1>16. UsersFit'
  <2>1. UsersFit
    BY DEF DeviceOpen
  <2>2. ASSUME NEW v \in DeviceUsers, deviceAt[v] = "linking"
        PROVE  seen[v] = head'[mine[v].channel] \/ seen[v] \in DOMAIN link
    <3>1. mine[v].channel \in Device!Channels
      BY <2>1, <2>2, NodeFacts DEF UsersFit
    <3>2. seen[v] = head[mine[v].channel] \/ seen[v] \in DOMAIN link
      BY <2>1, <2>2 DEF UsersFit
    <3> QED
      BY <1>5, <1>6, <3>1, <3>2
  <2>3. ASSUME NEW v \in DeviceUsers, deviceAt'[v] # "out"
        PROVE  /\ mine[v] \in nodes /\ mine[v].of = v /\ mine[v].n \in 1 .. calls
               /\ mine[v] \in Device!Nodes
               /\ Device!MayUse(v, mine[v].channel) /\ head'[mine[v].channel] # Device!NoNode
    <3>1. deviceAt[v] # "out"
      BY <1>1, <1>3, <2>3
    <3>2. /\ mine[v] \in nodes /\ mine[v].of = v /\ mine[v].n \in 1 .. calls
          /\ mine[v] \in Device!Nodes
          /\ Device!MayUse(v, mine[v].channel) /\ head[mine[v].channel] # Device!NoNode
      BY <2>1, <3>1 DEF UsersFit
    <3>3. mine[v].channel \in Device!Channels
      BY <3>2, NodeFacts
    <3> QED
      BY <1>4, <1>6, <3>2, <3>3
  <2>4. ASSUME NEW v \in DeviceUsers
        PROVE  /\ deviceAt'[v] \in {"pushing", "linking"} => mine[v] \notin Linked
               /\ deviceAt'[v] \in {"asking", "inside", "leaving"} => mine[v].channel = "high"
               /\ IF deviceAt'[v] = "linking" THEN seen[v] = head'[mine[v].channel] \/ seen[v] \in DOMAIN link ELSE seen[v] = Device!NoNode
    <3>1. CASE v = u
      BY <1>1, <1>3, <2>1, <3>1 DEF UsersFit
    <3>2. CASE v # u
      BY <1>3, <2>1, <2>2, <3>2 DEF UsersFit
    <3> QED
      BY <3>1, <3>2
  <2> QED
    BY <1>1, <1>7, <2>3, <2>4 DEF UsersFit, Device!MayUse
<1>17. DeviceFits'
  BY <1>1, DeviceStays DEF DeviceOpen
<1>18. AccessFits'
  <2>1. AccessFits
    BY DEF DeviceOpen
  <2>2. \A v \in DeviceUsers : deviceAt'[v] = "inside" \/ deviceAt'[v] = "leaving" => deviceAt[v] = deviceAt'[v]
    BY <1>3
  <2>3. \A z \in DOMAIN link :
           link[z].channel = "high" /\ link[z] \notin returned
           /\ ~ (device.query = link[z] /\ device.phase \in {"waiting", "executed"})
             => mine[link[z].of] = link[z] /\ deviceAt'[link[z].of] \in {"moving", "asking"}
    <3> SUFFICES ASSUME NEW z \in DOMAIN link, link[z].channel = "high", link[z] \notin returned,
                        ~ (device.query = link[z] /\ device.phase \in {"waiting", "executed"})
                 PROVE  mine[link[z].of] = link[z] /\ deviceAt'[link[z].of] \in {"moving", "asking"}
      OBVIOUS
    <3>1. mine[link[z].of] = link[z] /\ deviceAt[link[z].of] \in {"moving", "asking"} /\ link[z].of \in DeviceUsers
      BY <2>1 DEF AccessFits, DeviceOpen, LinksFit
    <3>2. CASE link[z].of = u
      BY <1>3, <3>1, <3>2
    <3>3. CASE link[z].of # u
      BY <1>3, <3>1, <3>3
    <3> QED
      BY <3>2, <3>3
  <2>4. device.phase = "waiting" =>
           /\ device.query.of \in DeviceUsers /\ device.query.channel = "high"
    <3>1. device.phase = "waiting" => \E z \in DOMAIN link : device.query = link[z]
      BY DEF DeviceOpen, DeviceFits
    <3> QED
      BY <3>1 DEF DeviceOpen, LinksFit, DeviceFits
  <2>5. device.phase = "waiting" =>
           LET q == device.query
               w == device.query.of
           IN  \/ accessStarted = {q} /\ accessEnded = {} /\ synchronous = w /\ deviceAt'[w] \in {"moving", "asking"} /\ mine[w] = q
               \/ accessStarted = {} /\ accessEnded = {} /\ synchronous = w /\ deviceAt'[w] = "inside" /\ mine[w] = q
               \/ accessStarted = {} /\ accessEnded = {} /\ synchronous = Nobody /\ deviceAt'[w] = "leaving" /\ mine[w] = q
               \/ accessStarted = {} /\ accessEnded = {q} /\ synchronous = Nobody
    <3> SUFFICES ASSUME device.phase = "waiting"
                 PROVE  LET q == device.query
                            w == device.query.of
                        IN  \/ accessStarted = {q} /\ accessEnded = {} /\ synchronous = w /\ deviceAt'[w] \in {"moving", "asking"} /\ mine[w] = q
                            \/ accessStarted = {} /\ accessEnded = {} /\ synchronous = w /\ deviceAt'[w] = "inside" /\ mine[w] = q
                            \/ accessStarted = {} /\ accessEnded = {} /\ synchronous = Nobody /\ deviceAt'[w] = "leaving" /\ mine[w] = q
                            \/ accessStarted = {} /\ accessEnded = {q} /\ synchronous = Nobody
      OBVIOUS
    <3>1. CASE device.query.of # u
      BY <1>3, <2>1, <2>4, <3>1 DEF AccessFits
    <3>2. CASE device.query.of = u
      <4>1. \/ accessStarted = {device.query} /\ accessEnded = {} /\ synchronous = u /\ mine[u] = device.query
            \/ accessStarted = {} /\ accessEnded = {device.query} /\ synchronous = Nobody
        BY <1>1, <2>1, <3>2 DEF AccessFits
      <4> QED
        BY <1>3, <2>4, <3>2, <4>1
    <3> QED
      BY <3>1, <3>2
  <2> QED
    BY <1>1, <2>1, <2>2, <2>3, <2>5 DEF AccessFits
<1>19. Alive'
  <2>1. Alive
    BY DEF DeviceOpen
  <2>2. \A x : Device!Owner(x)' = Device!Owner(x)
    BY <1>1 DEF Device!Owner
  <2>3. head'[c] \in returned => head'[c] = tail[c]
    BY <1>5, <1>6 DEF DeviceOpen, ReturnedFits
  <2>4. ASSUME NEW d \in Device!Channels, NEW x, x = head'[d], x \in returned, x # tail[d]
        PROVE  In(back[d][Device!Owner(x)], x) /\ (LastOf(back[d][Device!Owner(x)], x) \/ Busy(Device!Owner(x), d)')
    <3>1. d # c /\ x = head[d]
      BY <1>6, <2>3, <2>4
    <3>2. In(back[d][Device!Owner(x)], x) /\ (LastOf(back[d][Device!Owner(x)], x) \/ Busy(Device!Owner(x), d))
      BY <2>1, <2>4, <3>1 DEF Alive
    <3>3. \A v : Busy(v, d) => Busy(v, d)'
      BY <1>13, <3>1
    <3> QED
      BY <2>2, <3>2, <3>3 DEF Busy
  <2>5. \A x \in Linked \ returned : x \in nodes
    BY <2>1 DEF Alive
  <2>6. \A d \in Device!Channels : tail[d] \in returned => LastOf(back[d][Device!Owner(tail[d])], tail[d])
    BY <2>1 DEF Alive
  <2>7. \A d \in Device!Channels, v \in DeviceUsers : \A i \in 1 .. Len(back[d][v]) :
           back[d][v][i] = Device!NullNode(v, d) \/ back[d][v][i] \in returned
    BY <2>1 DEF Alive
  <2>8. /\ back' = back /\ tail' = tail /\ returned' = returned /\ nodes' = nodes /\ creator' = creator
    BY <1>1
  <2> HIDE DEF c
  <2>9. (\A d \in Device!Channels : head[d] \in returned /\ head[d] # tail[d] =>
             /\ In(back[d][Device!Owner(head[d])], head[d])
             /\ LastOf(back[d][Device!Owner(head[d])], head[d]) \/ Busy(Device!Owner(head[d]), d))'
    BY <2>4, <2>8 DEF In, LastOf, Device!Owner, Busy
  <2>10. (\A d \in Device!Channels : tail[d] \in returned => LastOf(back[d][Device!Owner(tail[d])], tail[d]))'
    BY <2>6, <2>8 DEF LastOf, Device!Owner
  <2> QED
    BY <1>7, <2>5, <2>7, <2>8, <2>9, <2>10 DEF Alive
<1> QED
  BY <1>1, <1>8, <1>9, <1>11, <1>14, <1>15, <1>16, <1>17, <1>18, <1>19 DEF DeviceOpen

-----------------------------------------------------------------------------
(* A query is made, and the queues it needs.                               *)

LEMMA QueryPushFits ==
    ASSUME DTypes, BacksFit, DeviceOpen, NEW u \in DeviceUsers, NEW c \in Device!Channels, Device!Push(u, c)
    PROVE  DTypes' /\ BacksFit' /\ DeviceOpen'
<1> DEFINE x == [of |-> u, channel |-> c, n |-> calls + 1]
           first == head[c] = Device!NoNode
           null == Device!NullNode(Nobody, c)
           mineNull == Device!NullNode(u, c)
<1>1. /\ deviceAt[u] = "out" /\ calls < MaxCalls /\ Device!MayUse(u, c)
      /\ nodes' = nodes \cup {x} \cup (IF back[c][u] = <<>> THEN {mineNull} ELSE {})
                        \cup (IF first THEN {null} ELSE {})
      /\ back' = IF back[c][u] = <<>> THEN [back EXCEPT ![c][u] = <<mineNull>>] ELSE back
      /\ head' = IF first THEN [head EXCEPT ![c] = null] ELSE head
      /\ tail' = IF first THEN [tail EXCEPT ![c] = null] ELSE tail
      /\ creator' = IF first THEN [creator EXCEPT ![c] = u] ELSE creator
      /\ calls' = calls + 1
      /\ mine' = [mine EXCEPT ![u] = x]
      /\ deviceAt' = [deviceAt EXCEPT ![u] = "pushing"]
      /\ UNCHANGED <<strayed, link, returned, called, seen, device, synchronous, accessStarted, accessEnded, finalized>>
  BY DEF Device!Push, Device!access
<1>2. /\ deviceAt \in [DeviceUsers -> {"out", "pushing", "linking", "moving", "asking", "inside", "leaving"}]
      /\ mine \in [DeviceUsers -> Device!NodeOrNone]
      /\ head \in [Device!Channels -> Device!NodeOrNone] /\ tail \in [Device!Channels -> Device!NodeOrNone]
      /\ creator \in [Device!Channels -> DeviceUsers \cup {Nobody}]
      /\ back \in [Device!Channels -> [DeviceUsers -> Seq(Device!Nodes)]]
      /\ calls \in Nat /\ calls' \in Nat /\ calls <= calls' /\ calls' \in 0 .. MaxCalls
  BY <1>1, EngineAssumption DEF DTypes
<1>3. /\ x \in Device!Nodes /\ x.of = u /\ x.channel = c /\ x.n = calls'
      /\ null \in Device!Nodes /\ null.of = Nobody /\ null.channel = c /\ null.n = 0
      /\ mineNull \in Device!Nodes /\ mineNull.of = u /\ mineNull.channel = c /\ mineNull.n = 0
      /\ null # Device!NoNode /\ u # Nobody
  <2>1. x \in Device!Nodes
    BY <1>1, <1>2 DEF Device!Nodes
  <2> QED
    BY <1>1, <2>1, NodeFacts, EngineAssumption
<1> HIDE DEF x, null, mineNull
<1>4. /\ \A v \in DeviceUsers : v # u => deviceAt'[v] = deviceAt[v] /\ mine'[v] = mine[v]
      /\ deviceAt'[u] = "pushing" /\ mine'[u] = x
  BY <1>1, <1>2
<1>5. /\ first => head'[c] = null /\ tail'[c] = null /\ creator'[c] = u
      /\ \A d \in Device!Channels : d # c \/ ~ first => head'[d] = head[d] /\ tail'[d] = tail[d] /\ creator'[d] = creator[d]
      /\ \A d \in Device!Channels : head'[d] # Device!NoNode <=> head[d] # Device!NoNode \/ d = c
  BY <1>1, <1>2, <1>3
<1>6. /\ back[c][u] = <<>> => back'[c][u] = <<mineNull>>
      /\ \A d \in Device!Channels, v \in DeviceUsers : d # c \/ v # u \/ back[c][u] # <<>> => back'[d][v] = back[d][v]
  BY <1>1, <1>2
<1>7. /\ nodes \subseteq nodes' /\ x \in nodes'
      /\ first => null \in nodes'
      /\ back[c][u] = <<>> => mineNull \in nodes'
  BY <1>1
<1>8. \A y \in Linked : y \in Device!Nodes /\ y.channel \in Device!Channels /\ head[y.channel] # Device!NoNode
  BY LinkedNodes, NodeFacts DEF DeviceOpen, LinksFit
<1>9. Linked' = Linked \cup (IF first THEN {null} ELSE {})
  <2>1. {d \in Device!Channels : head'[d] # Device!NoNode} = {d \in Device!Channels : head[d] # Device!NoNode} \cup {c}
    BY <1>5
  <2>2. CASE first
    BY <1>1, <2>1, <2>2 DEF Linked, null
  <2>3. CASE ~ first
    BY <1>1, <2>3 DEF Linked
  <2> QED
    BY <2>2, <2>3
<1>10. \A y \in Linked : y.channel # c \/ ~ first
  BY <1>8
<1>11. \A y \in Linked : head'[y.channel] = head[y.channel] /\ tail'[y.channel] = tail[y.channel]
  BY <1>5, <1>8, <1>10
<1>12. \A y \in Linked : Device!Owner(y)' = Device!Owner(y)
  BY <1>5, <1>8, <1>10 DEF Device!Owner
<1>13. DTypes'
  <2>1. back' \in [Device!Channels -> [DeviceUsers -> Seq(Device!Nodes)]]
    <3>1. <<mineNull>> \in Seq(Device!Nodes)
      BY <1>3
    <3>2. CASE back[c][u] = <<>>
      <4>1. [back[c] EXCEPT ![u] = <<mineNull>>] \in [DeviceUsers -> Seq(Device!Nodes)]
        BY <1>2, <3>1
      <4> QED
        BY <1>1, <1>2, <3>2, <4>1
    <3> QED
      BY <1>1, <1>2, <3>2
  <2>2. head' \in [Device!Channels -> Device!NodeOrNone] /\ tail' \in [Device!Channels -> Device!NodeOrNone]
    BY <1>1, <1>2, <1>3 DEF Device!NodeOrNone
  <2>3. creator' \in [Device!Channels -> DeviceUsers \cup {Nobody}]
    BY <1>1, <1>2
  <2>4. nodes' \subseteq Device!Nodes
    BY <1>1, <1>3 DEF DTypes
  <2>5. /\ deviceAt' \in [DeviceUsers -> {"out", "pushing", "linking", "moving", "asking", "inside", "leaving"}]
        /\ mine' \in [DeviceUsers -> Device!NodeOrNone]
    BY <1>1, <1>2, <1>3 DEF Device!NodeOrNone
  <2> QED
    BY <1>1, <1>2, <2>1, <2>2, <2>3, <2>4, <2>5 DEF DTypes
<1>14. ASSUME NEW d \in Device!Channels, NEW v \in DeviceUsers, NEW i \in 1 .. Len(back[d][v]), NEW y, y = back[d][v][i]
       PROVE  Device!Owner(y)' = v /\ y.channel = d /\ y \in nodes
  <2>1. y.channel = d /\ Device!Owner(y) = v /\ y \in nodes
    BY <1>14 DEF BacksFit
  <2>2. CASE y = Device!NullNode(v, d)
    <3>1. y.of = v /\ v # Nobody
      BY <2>2, NodeFacts, EngineAssumption
    <3> QED
      BY <2>1, <3>1 DEF Device!Owner
  <2>3. CASE y \in returned
    <3>1. y \in Linked
      BY <2>3 DEF DeviceOpen, ReturnedFits
    <3> QED
      BY <1>12, <2>1, <3>1
  <2> QED
    BY <1>14, <2>2, <2>3 DEF DeviceOpen, Alive
<1>15. BacksFit'
  <2> SUFFICES ASSUME NEW d \in Device!Channels, NEW v \in DeviceUsers, NEW i \in 1 .. Len(back'[d][v])
               PROVE  /\ back'[d][v][i] \in nodes' /\ back'[d][v][i].channel = d
                      /\ (IF back'[d][v][i].of = Nobody THEN creator'[back'[d][v][i].channel] ELSE back'[d][v][i].of) = v
                      /\ \A j \in 1 .. Len(back'[d][v]) : back'[d][v][i] = back'[d][v][j] => i = j
    BY DEF BacksFit, Device!Owner
  <2> DEFINE y == back'[d][v][i]
  <2>1. CASE back'[d][v] = back[d][v]
    <3>1. PICK w : w = back[d][v][i]
      OBVIOUS
    <3>2. Device!Owner(w)' = v /\ w.channel = d /\ w \in nodes
      BY <1>14, <2>1, <3>1
    <3>3. (IF w.of = Nobody THEN creator'[w.channel] ELSE w.of) = v
      BY <3>2 DEF Device!Owner
    <3>4. \A j \in 1 .. Len(back[d][v]) : back[d][v][i] = back[d][v][j] => i = j
      BY <2>1 DEF BacksFit
    <3> QED
      BY <1>7, <2>1, <3>1, <3>2, <3>3, <3>4
  <2>2. CASE back'[d][v] # back[d][v]
    <3>1. d = c /\ v = u /\ back[c][u] = <<>> /\ back'[d][v] = <<mineNull>>
      BY <1>6, <2>2
    <3>2. i = 1 /\ y = mineNull /\ \A j \in 1 .. Len(back'[d][v]) : j = 1
      BY <3>1
    <3> QED
      BY <1>3, <1>7, <3>1, <3>2
  <2> QED
    BY <2>1, <2>2
<1>16. LinksFit'
  <2>1. LinksFit
    BY DEF DeviceOpen
  <2>2. \A i : i \in 1 .. calls => i \in 1 .. calls'
    BY <1>2
  <2>3. \A y \in Linked' : head'[y.channel] # Device!NoNode
    BY <1>3, <1>5, <1>8, <1>9
  <2> QED
    BY <1>1, <1>9, <2>1, <2>2, <2>3 DEF LinksFit
<1>17. EndsFit'
  <2>1. EndsFit
    BY DEF DeviceOpen
  <2>2. \A d \in Device!Channels : tail'[d] = Device!NoNode <=> head'[d] = Device!NoNode
    BY <1>3, <1>5, <2>1 DEF EndsFit
  <2>3. \A v, d : Busy(v, d) => Busy(v, d)'
    BY <1>1, <1>4 DEF Busy
  <2>4. first => null \notin DOMAIN link /\ null \in Linked'
    BY <1>3, <1>9, <1>10 DEF DeviceOpen, LinksFit
  <2>5. ASSUME NEW d \in Device!Channels, head'[d] # Device!NoNode
        PROVE  /\ head'[d] \in Linked' /\ tail'[d] \in Linked'
               /\ head'[d].channel = d /\ tail'[d].channel = d
               /\ creator'[d] \in DeviceUsers
               /\ head'[d] \in DOMAIN link => \E v \in DeviceUsers : Busy(v, d)'
    <3>1. CASE d = c /\ first
      BY <1>3, <1>5, <2>4, <3>1
    <3>2. CASE d # c \/ ~ first
      <4>1. head'[d] = head[d] /\ tail'[d] = tail[d] /\ creator'[d] = creator[d]
        BY <1>5, <3>2
      <4> QED
        BY <1>9, <2>1, <2>3, <2>5, <4>1 DEF EndsFit
    <3> QED
      BY <3>1, <3>2
  <2>6. \A y \in Linked' \ DOMAIN link : y = head'[y.channel] \/ \E v \in DeviceUsers : deviceAt'[v] = "moving" /\ mine'[v] = y
    <3> SUFFICES ASSUME NEW y \in Linked', y \notin DOMAIN link
                 PROVE  y = head'[y.channel] \/ \E v \in DeviceUsers : deviceAt'[v] = "moving" /\ mine'[v] = y
      OBVIOUS
    <3>1. CASE y \in Linked
      <4>1. y = head[y.channel] \/ \E v \in DeviceUsers : deviceAt[v] = "moving" /\ mine[v] = y
        BY <2>1, <3>1 DEF EndsFit
      <4>2. \A v \in DeviceUsers : deviceAt[v] = "moving" => deviceAt'[v] = "moving" /\ mine'[v] = mine[v]
        BY <1>1, <1>4
      <4> QED
        BY <1>11, <3>1, <4>1, <4>2
    <3>2. CASE y \notin Linked
      BY <1>3, <1>5, <1>9, <3>2
    <3> QED
      BY <3>1, <3>2
  <2>7. \A v \in DeviceUsers : deviceAt'[v] = "moving" =>
             /\ mine'[v] \in Linked' \ DOMAIN link
             /\ head'[mine'[v].channel] \in DOMAIN link /\ link[head'[mine'[v].channel]] = mine'[v]
    <3> SUFFICES ASSUME NEW v \in DeviceUsers, deviceAt'[v] = "moving"
                 PROVE  /\ mine'[v] \in Linked' \ DOMAIN link
                        /\ head'[mine'[v].channel] \in DOMAIN link /\ link[head'[mine'[v].channel]] = mine'[v]
      OBVIOUS
    <3>1. deviceAt[v] = "moving" /\ mine'[v] = mine[v]
      BY <1>4
    <3>2. /\ mine[v] \in Linked \ DOMAIN link
          /\ head[mine[v].channel] \in DOMAIN link /\ link[head[mine[v].channel]] = mine[v]
      BY <2>1, <3>1 DEF EndsFit
    <3> QED
      BY <1>9, <1>11, <3>1, <3>2
  <2> QED
    BY <1>1, <2>2, <2>5, <2>6, <2>7 DEF EndsFit, Busy
<1>18. ReturnedFits'
  <2>1. ReturnedFits /\ DOMAIN link \subseteq Linked
    BY DEF DeviceOpen, LinksFit
  <2>2. returned \subseteq Linked'
    BY <1>9, <2>1 DEF ReturnedFits
  <2>3. \A y \in returned : y # tail'[y.channel] =>
             y \in DOMAIN link /\ (link[y] \in returned \/ link[y] = tail'[y.channel])
    BY <1>11, <2>1 DEF ReturnedFits
  <2>4. \A z \in DOMAIN link : link[z] \in returned \/ link[z] = tail'[z.channel] => z \in returned
    BY <1>11, <2>1 DEF ReturnedFits
  <2>5. \A d \in Device!Channels : tail'[d] \in DOMAIN link => link[tail'[d]] \notin returned
    <3> SUFFICES ASSUME NEW d \in Device!Channels, tail'[d] \in DOMAIN link PROVE link[tail'[d]] \notin returned
      OBVIOUS
    <3>1. ~ (d = c /\ first)
      BY <1>3, <1>5, <1>10, <2>1
    <3> QED
      BY <1>5, <2>1, <3>1 DEF ReturnedFits
  <2> QED
    BY <1>1, <2>2, <2>3, <2>4, <2>5 DEF ReturnedFits
<1>19. UsersFit'
  <2>1. UsersFit
    BY DEF DeviceOpen
  <2>2. x \notin Linked'
    <3>1. \A y \in Linked : y.n <= calls
      <4>1. \A z \in DOMAIN link : link[z].n <= calls
        BY <1>2 DEF DeviceOpen, LinksFit
      <4>2. \A d \in Device!Channels : Device!NullNode(Nobody, d).n = 0
        BY NodeFacts
      <4>3. 0 <= calls
        BY <1>2
      <4> QED
        BY <4>1, <4>2, <4>3 DEF Linked
    <3>2. ~ (calls' <= calls) /\ calls' # 0
      BY <1>1, <1>2
    <3> QED
      BY <1>3, <1>9, <3>1, <3>2
  <2>3. ASSUME NEW v \in DeviceUsers, v # u
        PROVE  /\ deviceAt'[v] # "out" => /\ mine'[v] \in nodes' /\ mine'[v].of = v /\ mine'[v].n \in 1 .. calls'
                                         /\ mine'[v] \in Device!Nodes
                                         /\ Device!MayUse(v, mine'[v].channel) /\ head'[mine'[v].channel] # Device!NoNode
               /\ deviceAt'[v] \in {"pushing", "linking"} => mine'[v] \notin Linked'
               /\ deviceAt'[v] \in {"asking", "inside", "leaving"} => mine'[v].channel = "high"
               /\ IF deviceAt'[v] = "linking" THEN seen[v] = head'[mine'[v].channel] \/ seen[v] \in DOMAIN link ELSE seen[v] = Device!NoNode
    <3>1. deviceAt'[v] = deviceAt[v] /\ mine'[v] = mine[v]
      BY <1>4, <2>3
    <3>2. CASE deviceAt[v] = "out"
      BY <2>1, <3>1, <3>2 DEF UsersFit
    <3>3. CASE deviceAt[v] # "out"
      <4>1. /\ mine[v] \in nodes /\ mine[v].of = v /\ mine[v].n \in 1 .. calls /\ mine[v] \in Device!Nodes
            /\ Device!MayUse(v, mine[v].channel) /\ head[mine[v].channel] # Device!NoNode
        BY <2>1, <3>3 DEF UsersFit
      <4>2. mine[v].channel \in Device!Channels
        BY <4>1, NodeFacts
      <4>3. head'[mine[v].channel] = head[mine[v].channel]
        BY <1>5, <4>1, <4>2
      <4>4. mine[v].n \in 1 .. calls' /\ mine[v] # null
        BY <1>2, <1>3, <4>1
      <4> QED
        BY <1>7, <1>9, <2>1, <3>1, <4>1, <4>3, <4>4 DEF UsersFit
    <3> QED
      BY <3>2, <3>3
  <2>4. mine'[u] \in nodes' /\ mine'[u].n \in 1 .. calls' /\ head'[mine'[u].channel] # Device!NoNode
    <3>1. calls' \in 1 .. calls'
      BY <1>1, <1>2
    <3> QED
      BY <1>3, <1>4, <1>5, <1>7, <3>1
  <2>5. seen[u] = Device!NoNode
    BY <1>1, <2>1 DEF UsersFit
  <2>6. \A v \in DeviceUsers : \A d : Device!MayUse(v, d)' <=> Device!MayUse(v, d)
    BY <1>1 DEF Device!MayUse
  <2> QED
    BY <1>1, <1>3, <1>4, <2>2, <2>3, <2>4, <2>5, <2>6 DEF UsersFit, Device!MayUse
<1>20. DeviceFits'
  <2>1. DeviceFits
    BY DEF DeviceOpen
  <2>2. \A z \in DOMAIN link : link[z] \in Linked
    BY DEF Linked
  <2>3. device.query # Device!NoNode => tail'[device.query.channel] = tail[device.query.channel]
    BY <1>11, <2>1, <2>2 DEF DeviceFits
  <2>4. device.popped # Device!NoNode => tail'["normal"] = tail["normal"]
    BY <1>11, <2>1, <2>2 DEF DeviceFits
  <2> QED
    BY <1>1, <2>1, <2>3, <2>4 DEF DeviceFits
<1>21. AccessFits'
  <2>1. AccessFits
    BY DEF DeviceOpen
  <2>2. \A v \in DeviceUsers : deviceAt[v] \in {"moving", "asking", "inside", "leaving"} => deviceAt'[v] = deviceAt[v] /\ mine'[v] = mine[v]
    BY <1>1, <1>4
  <2>3. \A v \in DeviceUsers : deviceAt'[v] \in {"inside", "leaving"} => deviceAt'[v] = deviceAt[v] /\ mine'[v] = mine[v]
    BY <1>4
  <2>4. device.phase = "waiting" => device.query.of \in DeviceUsers
    <3>1. device.phase = "waiting" => \E z \in DOMAIN link : device.query = link[z]
      BY DEF DeviceOpen, DeviceFits
    <3> QED
      BY <3>1 DEF DeviceOpen, LinksFit
  <2>5. \A z \in DOMAIN link : link[z].of \in DeviceUsers
    BY DEF DeviceOpen, LinksFit
  <2> QED
    BY <1>1, <2>1, <2>2, <2>3, <2>4, <2>5 DEF AccessFits
<1>22. Alive'
  <2>1. Alive
    BY DEF DeviceOpen
  <2>2. EndsFit /\ ReturnedFits
    BY DEF DeviceOpen
  <2>3. \A y \in Linked' \ returned : y \in nodes'
    BY <1>7, <1>9, <2>1 DEF Alive
  <2>4. ASSUME NEW d \in Device!Channels, NEW v \in DeviceUsers, NEW i \in 1 .. Len(back'[d][v])
        PROVE  back'[d][v][i] = Device!NullNode(v, d) \/ back'[d][v][i] \in returned
    <3>1. CASE back'[d][v] = back[d][v]
      BY <2>1, <3>1 DEF Alive
    <3>2. CASE back'[d][v] # back[d][v]
      BY <1>6, <3>2 DEF mineNull
    <3> QED
      BY <3>1, <3>2
  <2>5. ASSUME NEW d \in Device!Channels, NEW y \in returned
        PROVE  /\ In(back[d][Device!Owner(y)], y) => In(back'[d][Device!Owner(y)], y)
               /\ LastOf(back[d][Device!Owner(y)], y) => LastOf(back'[d][Device!Owner(y)], y)
    <3>1. Device!Owner(y) \in DeviceUsers
      <4>1. y \in Linked
        BY <2>2 DEF ReturnedFits
      <4>2. creator[y.channel] \in DeviceUsers
        BY <1>8, <2>2, <4>1 DEF EndsFit
      <4>3. y.of \in DeviceUsers \cup {Nobody}
        BY <1>8, <4>1, NodeFacts
      <4> QED
        BY <4>2, <4>3 DEF Device!Owner
    <3>2. CASE back[d][Device!Owner(y)] = <<>>
      BY <3>2 DEF In, LastOf
    <3>3. CASE back[d][Device!Owner(y)] # <<>>
      BY <1>6, <3>1, <3>3
    <3> QED
      BY <3>2, <3>3
  <2>6. \A y \in returned : y \in Linked
    BY <2>2 DEF ReturnedFits
  <2>7. (\A d \in Device!Channels : tail[d] \in returned => LastOf(back[d][Device!Owner(tail[d])], tail[d]))'
    <3> SUFFICES ASSUME NEW d \in Device!Channels, tail'[d] \in returned
                 PROVE  LastOf(back'[d][Device!Owner(tail[d])'], tail'[d])
      BY <1>1 DEF LastOf, Device!Owner
    <3> PICK y : y = tail'[d]
      OBVIOUS
    <3>0. Device!Owner(tail[d])' = Device!Owner(y)'
      BY DEF Device!Owner
    <3>1. y = tail[d]
      BY <1>3, <1>5, <1>10, <2>6
    <3>2. Device!Owner(y)' = Device!Owner(y)
      BY <1>12, <2>6
    <3>3. LastOf(back[d][Device!Owner(y)], y)
      BY <2>1, <3>1 DEF Alive
    <3> QED
      BY <2>5, <3>0, <3>2, <3>3
  <2>8. (\A d \in Device!Channels : head[d] \in returned /\ head[d] # tail[d] =>
             /\ In(back[d][Device!Owner(head[d])], head[d])
             /\ LastOf(back[d][Device!Owner(head[d])], head[d]) \/ Busy(Device!Owner(head[d]), d))'
    <3> SUFFICES ASSUME NEW d \in Device!Channels, head'[d] \in returned, head'[d] # tail'[d]
                 PROVE  /\ In(back'[d][Device!Owner(head[d])'], head'[d])
                        /\ LastOf(back'[d][Device!Owner(head[d])'], head'[d]) \/ Busy(Device!Owner(head[d]), d)'
      BY <1>1, SMTT(60) DEF LastOf, In
    <3> PICK y : y = head'[d]
      OBVIOUS
    <3>0. Device!Owner(head[d])' = Device!Owner(y)' /\ Busy(Device!Owner(head[d]), d)' = Busy(Device!Owner(y), d)'
      BY DEF Device!Owner, Busy
    <3>1. y = head[d] /\ tail'[d] = tail[d]
      BY <1>3, <1>5, <1>10, <2>6
    <3>2. Device!Owner(y)' = Device!Owner(y)
      BY <1>12, <2>6
    <3>3. In(back[d][Device!Owner(y)], y) /\ (LastOf(back[d][Device!Owner(y)], y) \/ Busy(Device!Owner(y), d))
      BY <2>1, <3>1 DEF Alive
    <3>4. Busy(Device!Owner(y), d) => Busy(Device!Owner(y), d)'
      BY <1>1, <1>4, <3>2 DEF Busy
    <3> QED
      BY <2>5, <3>0, <3>2, <3>3, <3>4
  <2> QED
    BY <1>1, <2>3, <2>4, <2>7, <2>8 DEF Alive
<1> QED
  BY <1>1, <1>13, <1>15, <1>16, <1>17, <1>18, <1>19, <1>20, <1>21, <1>22 DEF DeviceOpen

-----------------------------------------------------------------------------
(* A query goes back.                                                      *)

\* What is in a queue has a user to go back to.
LEMMA OwnerIsUser ==
    ASSUME DTypes, LinksFit, EndsFit, NEW y \in Linked
    PROVE  Device!Owner(y) \in DeviceUsers /\ y.channel \in Device!Channels
<1>1. y \in Device!Nodes /\ y.channel \in Device!Channels /\ head[y.channel] # Device!NoNode
  BY LinkedNodes, NodeFacts DEF LinksFit
<1>2. creator[y.channel] \in DeviceUsers /\ y.of \in DeviceUsers \cup {Nobody}
  BY <1>1, NodeFacts DEF EndsFit
<1> QED
  BY <1>1, <1>2 DEF Device!Owner

\* The null node of a backward queue never was in a forward one.
LEMMA NullNotLinked ==
    ASSUME LinksFit, calls \in Nat, NEW u \in DeviceUsers, NEW c \in Device!Channels PROVE Device!NullNode(u, c) \notin Linked
<1>1. Device!NullNode(u, c).n = 0 /\ Device!NullNode(u, c).of = u /\ u # Nobody
  BY NodeFacts, EngineAssumption
<1>2. \A z \in DOMAIN link : link[z].n # 0
  BY DEF LinksFit
<1>3. \A d \in Device!Channels : Device!NullNode(Nobody, d).of = Nobody
  BY NodeFacts
<1> QED
  BY <1>1, <1>2, <1>3 DEF Linked

\* consumer_push_processed, of a query that has not gone back.
LEMMA PushedBack ==
    ASSUME DTypes, BacksFit, DeviceOpen, NEW q \in Linked, q \notin returned, Device!PushProcessed(q),
           UNCHANGED <<creator, nodes>>
    PROVE  /\ Device!Owner(q) \in DeviceUsers /\ q.channel \in Device!Channels
           /\ back' \in [Device!Channels -> [DeviceUsers -> Seq(Device!Nodes)]]
           /\ returned' = returned \cup {q} /\ returned' \subseteq Device!Nodes
           /\ BacksFit'
           /\ \A d \in Device!Channels, v \in DeviceUsers : \A i \in 1 .. Len(back'[d][v]) :
                  back'[d][v][i] = Device!NullNode(v, d) \/ back'[d][v][i] \in returned'
           /\ LastOf(back'[q.channel][Device!Owner(q)], q)
           /\ \A d \in Device!Channels, v \in DeviceUsers : \A y : In(back[d][v], y) => In(back'[d][v], y)
           /\ \A d \in Device!Channels, v \in DeviceUsers : \A y :
                  LastOf(back[d][v], y) /\ (d # q.channel \/ v # Device!Owner(q)) => LastOf(back'[d][v], y)
<1> DEFINE c == q.channel
           w == Device!Owner(q)
           s == back[c][w]
<1>1. w \in DeviceUsers /\ c \in Device!Channels /\ q \in Device!Nodes /\ q \in nodes
  BY OwnerIsUser, LinkedNodes DEF DeviceOpen, Alive
<1>2. /\ back \in [Device!Channels -> [DeviceUsers -> Seq(Device!Nodes)]] /\ calls \in Nat /\ returned \subseteq Device!Nodes
  BY EngineAssumption DEF DTypes
<1>3. /\ back' = [back EXCEPT ![c][w] = Append(s, q)]
      /\ returned' = returned \cup {q}
  BY <1>1, <1>2 DEF Device!PushProcessed
<1> HIDE DEF w
<1>4. s \in Seq(Device!Nodes) /\ Len(s) \in Nat
  BY <1>1, <1>2
<1> DEFINE a == Append(s, q)
<1>5. /\ a \in Seq(Device!Nodes) /\ Len(a) = Len(s) + 1
      /\ a[Len(s) + 1] = q /\ \A i \in 1 .. Len(s) : a[i] = s[i]
  BY <1>1, <1>4
<1>6. /\ back'[c][w] = a
      /\ \A d \in Device!Channels, v \in DeviceUsers : d # c \/ v # w => back'[d][v] = back[d][v]
  BY <1>1, <1>2, <1>3
<1>7. back' \in [Device!Channels -> [DeviceUsers -> Seq(Device!Nodes)]]
  <2>1. [back[c] EXCEPT ![w] = Append(s, q)] \in [DeviceUsers -> Seq(Device!Nodes)]
    BY <1>1, <1>2, <1>5
  <2> QED
    BY <1>2, <1>3, <2>1
<1> HIDE DEF a
<1>8. \A i \in 1 .. Len(s) : s[i] # q
  <2>1. Device!NullNode(w, c) # q
    BY <1>1, <1>2, NullNotLinked DEF DeviceOpen
  <2>2. \A i \in 1 .. Len(s) : s[i] = Device!NullNode(w, c) \/ s[i] \in returned
    BY <1>1 DEF DeviceOpen, Alive
  <2> QED
    BY <2>1, <2>2
<1>9. BacksFit'
  <2>1. \A y : Device!Owner(y)' = Device!Owner(y)
    BY DEF Device!Owner
  <2>2. ASSUME NEW d \in Device!Channels, NEW v \in DeviceUsers, NEW i \in 1 .. Len(back'[d][v])
        PROVE  /\ back'[d][v][i] \in nodes /\ back'[d][v][i].channel = d /\ Device!Owner(back'[d][v][i]) = v
               /\ \A j \in 1 .. Len(back'[d][v]) : back'[d][v][i] = back'[d][v][j] => i = j
    <3>1. CASE d = c /\ v = w
      <4>1. \A j \in 1 .. Len(back'[d][v]) : j \in 1 .. Len(s) \/ j = Len(s) + 1
        BY <1>4, <1>5, <1>6, <3>1
      <4>2. CASE i = Len(s) + 1
        <5>1. back'[d][v][i] = q
          BY <1>5, <1>6, <3>1, <4>2
        <5>2. \A j \in 1 .. Len(back'[d][v]) : back'[d][v][i] = back'[d][v][j] => i = j
          <6> SUFFICES ASSUME NEW j \in 1 .. Len(s), back'[d][v][j] = q PROVE FALSE
            BY <4>1, <4>2, <5>1
          <6>1. back'[d][v][j] = s[j]
            BY <1>5, <1>6, <3>1
          <6> QED
            BY <1>8, <6>1
        <5> QED
          BY <1>1, <3>1, <5>1, <5>2 DEF w
      <4>3. CASE i \in 1 .. Len(s)
        <5>1. back'[d][v][i] = s[i]
          BY <1>5, <1>6, <3>1, <4>3
        <5>2. s[i] \in nodes /\ s[i].channel = c /\ Device!Owner(s[i]) = w
              /\ \A j \in 1 .. Len(s) : s[i] = s[j] => i = j
          BY <1>1, <4>3 DEF BacksFit
        <5>3. \A j \in 1 .. Len(back'[d][v]) : back'[d][v][i] = back'[d][v][j] => i = j
          <6> SUFFICES ASSUME NEW j \in 1 .. Len(back'[d][v]), back'[d][v][j] = s[i] PROVE i = j
            BY <5>1
          <6>1. CASE j = Len(s) + 1
            <7>1. back'[d][v][j] = q
              BY <1>5, <1>6, <3>1, <6>1
            <7> QED
              BY <1>8, <4>3, <7>1
          <6>2. CASE j \in 1 .. Len(s)
            <7>1. back'[d][v][j] = s[j]
              BY <1>5, <1>6, <3>1, <6>2
            <7> QED
              BY <5>2, <6>2, <7>1
          <6> QED
            BY <4>1, <6>1, <6>2
        <5> QED
          BY <3>1, <5>1, <5>2, <5>3
      <4> QED
        BY <4>1, <4>2, <4>3
    <3>2. CASE d # c \/ v # w
      BY <1>6, <3>2 DEF BacksFit
    <3> QED
      BY <3>1, <3>2
  <2>3. nodes' = nodes
    OBVIOUS
  <2> HIDE DEF c, s
  <2> QED
    BY <2>1, <2>2, <2>3 DEF BacksFit
<1>10. ASSUME NEW d \in Device!Channels, NEW v \in DeviceUsers, NEW i \in 1 .. Len(back'[d][v])
       PROVE  back'[d][v][i] = Device!NullNode(v, d) \/ back'[d][v][i] \in returned'
  <2>1. CASE d = c /\ v = w
    <3>1. \A j \in 1 .. Len(s) : s[j] = Device!NullNode(w, c) \/ s[j] \in returned
      BY <1>1 DEF DeviceOpen, Alive
    <3>2. i \in 1 .. Len(s) \/ i = Len(s) + 1
      BY <1>4, <1>5, <1>6, <2>1
    <3> QED
      BY <1>3, <1>5, <1>6, <2>1, <3>1, <3>2
  <2>2. CASE d # c \/ v # w
    <3>1. back'[d][v] = back[d][v]
      BY <1>6, <2>2
    <3>2. back[d][v][i] = Device!NullNode(v, d) \/ back[d][v][i] \in returned
      BY <3>1 DEF DeviceOpen, Alive
    <3>3. returned \subseteq returned'
      BY <1>3
    <3> QED
      BY <3>1, <3>2, <3>3
  <2> QED
    BY <2>1, <2>2
<1>11. LastOf(back'[c][w], q)
  BY <1>4, <1>5, <1>6 DEF LastOf
<1>12. ASSUME NEW d \in Device!Channels, NEW v \in DeviceUsers, NEW y, In(back[d][v], y) PROVE In(back'[d][v], y)
  <2>1. CASE d = c /\ v = w
    <3>1. PICK i \in 1 .. Len(s) : s[i] = y
      BY <1>12, <2>1 DEF In
    <3>2. i \in 1 .. Len(a) /\ a[i] = y
      BY <1>4, <1>5, <3>1
    <3> QED
      BY <1>6, <2>1, <3>2 DEF In
  <2>2. CASE d # c \/ v # w
    BY <1>6, <1>12, <2>2
  <2> QED
    BY <2>1, <2>2
<1>13. \A d \in Device!Channels, v \in DeviceUsers : \A y : LastOf(back[d][v], y) /\ (d # c \/ v # w) => LastOf(back'[d][v], y)
  BY <1>6
<1> QED
  BY <1>1, <1>2, <1>3, <1>7, <1>9, <1>10, <1>11, <1>12, <1>13 DEF w

\* While the head has gone back a producer has its node behind it, which is the tail.
LEMMA HeadReturned ==
    ASSUME DTypes, DeviceOpen, NEW c \in Device!Channels, head[c] \in returned, head[c] # tail[c]
    PROVE  tail[c] \notin DOMAIN link /\ Busy(Device!Owner(tail[c]), c)
<1>1. head[c].channel = c /\ head[c] # Device!NoNode
  BY NodeFacts DEF DeviceOpen, EndsFit, DTypes
<1>2. head[c] \in DOMAIN link /\ (link[head[c]] \in returned \/ link[head[c]] = tail[c])
  BY <1>1 DEF DeviceOpen, ReturnedFits
<1>3. PICK v \in DeviceUsers : Busy(v, c)
  BY <1>1, <1>2 DEF DeviceOpen, EndsFit
<1>4. mine[v] \notin DOMAIN link /\ link[head[c]] = mine[v] /\ mine[v].channel = c /\ mine[v].of = v
  BY <1>3 DEF DeviceOpen, EndsFit, UsersFit, Busy
<1>5. mine[v] = tail[c]
  BY <1>2, <1>4 DEF DeviceOpen, ReturnedFits
<1>6. v # Nobody
  BY EngineAssumption
<1> QED
  BY <1>3, <1>4, <1>5, <1>6 DEF Device!Owner

LEMMA QueryPopFits ==
    ASSUME DTypes, BacksFit, DeviceOpen, Device!Pop
    PROVE  DTypes' /\ BacksFit' /\ DeviceOpen'
<1> DEFINE c == Device!LoopChannel
           t == tail[c]
           x == link[t]
<1>1. /\ device.phase = "loop" /\ Device!First(c) # Device!NoNode
      /\ tail' = [tail EXCEPT ![c] = Device!First(c)]
      /\ IF t \in returned THEN UNCHANGED <<back, returned>> ELSE Device!PushProcessed(t)
      /\ device' = IF device.loop = "normal"
                   THEN [Device!InLoop("nested") EXCEPT !.popped = Device!First(c)]
                   ELSE [device EXCEPT !.phase = "execute", !.query = Device!First(c)]
      /\ UNCHANGED <<strayed, link, head, creator, nodes, called, deviceAt, mine, seen, calls,
                     synchronous, accessStarted, accessEnded, finalized>>
  BY DEF Device!Pop, Device!users, Device!access
<1>2. /\ head \in [Device!Channels -> Device!NodeOrNone] /\ tail \in [Device!Channels -> Device!NodeOrNone] /\ calls \in Nat
      /\ device \in [loop : {"high", "normal", "nested"}, phase : {"loop", "execute", "waiting", "executed"},
                     query : Device!NodeOrNone, popped : Device!NodeOrNone]
      /\ returned \subseteq Device!Nodes /\ back \in [Device!Channels -> [DeviceUsers -> Seq(Device!Nodes)]]
      /\ \A z \in DOMAIN link : link[z] \in Device!Nodes
  BY EngineAssumption DEF DTypes
<1>3. c \in Device!Channels /\ (c = "normal" <=> device.loop = "normal")
  BY DEF Device!LoopChannel, Device!Channels
<1>4. /\ head[c] # Device!NoNode /\ t \in DOMAIN link /\ Device!First(c) = x
  BY <1>1 DEF Device!First, Device!NextOf
<1>5. /\ x \in Linked /\ x \in Device!Nodes /\ x # Device!NoNode /\ x.channel = c /\ t \in Linked /\ t.channel = c
  <2>1. t \in Linked /\ t.channel = c
    BY <1>3, <1>4 DEF DeviceOpen, EndsFit
  <2>2. x \in Device!Nodes /\ x \in Linked /\ x.channel = c
    BY <1>2, <1>4, <2>1 DEF DeviceOpen, LinksFit, Linked
  <2> QED
    BY <2>1, <2>2, NodeFacts
<1>6. x \notin returned /\ x # t
  <2>1. x \notin returned
    BY <1>3, <1>4 DEF DeviceOpen, ReturnedFits
  <2>2. x = t => t \in returned
    BY <1>4, <1>5 DEF DeviceOpen, ReturnedFits
  <2> QED
    BY <2>1, <2>2
<1> HIDE DEF c, x, t
<1>7. tail'[c] = x /\ \A d \in Device!Channels : d # c => tail'[d] = tail[d]
  BY <1>1, <1>2, <1>3, <1>4
<1>8. /\ returned' = returned \cup {t} /\ returned' \subseteq Device!Nodes
      /\ back' \in [Device!Channels -> [DeviceUsers -> Seq(Device!Nodes)]]
      /\ BacksFit'
      /\ \A d \in Device!Channels, v \in DeviceUsers : \A i \in 1 .. Len(back'[d][v]) :
             back'[d][v][i] = Device!NullNode(v, d) \/ back'[d][v][i] \in returned'
      /\ LastOf(back'[c][Device!Owner(t)], t)
      /\ \A d \in Device!Channels, v \in DeviceUsers : d # c => back'[d][v] = back[d][v]
  <2>1. CASE t \in returned
    <3>1. /\ returned' = returned /\ back' = back
      BY <1>1, <2>1
    <3>2. BacksFit'
      BY <1>1, <3>1, BacksStay
    <3>3. LastOf(back[c][Device!Owner(t)], t)
      BY <1>3, <2>1 DEF DeviceOpen, Alive, t
    <3> QED
      BY <1>2, <2>1, <3>1, <3>2, <3>3 DEF DeviceOpen, Alive
  <2>2. CASE t \notin returned
    <3>1. Device!PushProcessed(t)
      BY <1>1, <2>2
    <3>2. \A d \in Device!Channels, v \in DeviceUsers : d # c => back'[d][v] = back[d][v]
      <4>1. back' = [back EXCEPT ![c][Device!Owner(t)] = Append(@, t)]
        BY <1>5, <3>1 DEF Device!PushProcessed
      <4> QED
        BY <1>2, <1>3, <4>1
    <3> QED
      BY <1>1, <1>5, <2>2, <3>1, <3>2, PushedBack
  <2> QED
    BY <2>1, <2>2
<1>9. DTypes'
  <2>1. tail' \in [Device!Channels -> Device!NodeOrNone]
    BY <1>1, <1>2, <1>3, <1>4, <1>5 DEF Device!NodeOrNone
  <2>2. device' \in [loop : {"high", "normal", "nested"}, phase : {"loop", "execute", "waiting", "executed"},
                     query : Device!NodeOrNone, popped : Device!NodeOrNone]
    BY <1>1, <1>2, <1>4, <1>5 DEF Device!NodeOrNone, Device!InLoop
  <2> QED
    BY <1>1, <1>8, <2>1, <2>2 DEF DTypes
<1>10. Linked' = Linked
  BY <1>1, LinkedSame
<1>11. LinksFit'
  BY <1>1, <1>2, LinksStay DEF DeviceOpen
<1>12. EndsFit'
  <2>1. EndsFit
    BY DEF DeviceOpen
  <2>2. \A d \in Device!Channels : tail'[d] = Device!NoNode <=> head[d] = Device!NoNode
    BY <1>4, <1>5, <1>7, <2>1 DEF EndsFit
  <2>3. \A d \in Device!Channels : head[d] # Device!NoNode => tail'[d] \in Linked /\ tail'[d].channel = d
    BY <1>5, <1>7, <2>1 DEF EndsFit
  <2> QED
    BY <1>1, <1>10, <2>1, <2>2, <2>3 DEF EndsFit, Busy
<1>13. ReturnedFits'
  <2>1. ReturnedFits /\ LinksFit
    BY DEF DeviceOpen
  <2>2. returned' \subseteq Linked
    BY <1>5, <1>8, <2>1 DEF ReturnedFits
  <2>3. \A z \in DOMAIN link : z.channel \in Device!Channels /\ link[z].channel = z.channel
    BY <1>2, <2>1, NodeFacts DEF LinksFit
  <2>4. ASSUME NEW y \in returned', y # tail'[y.channel]
        PROVE  y \in DOMAIN link /\ (link[y] \in returned' \/ link[y] = tail'[y.channel])
    <3>1. CASE y = t
      BY <1>4, <1>5, <1>7, <3>1 DEF x
    <3>2. CASE y # t
      <4>1. y \in returned /\ y.channel \in Device!Channels
        BY <1>2, <1>8, <3>2, NodeFacts
      <4>2. y # tail[y.channel]
        BY <1>7, <2>4, <3>2, <4>1 DEF t
      <4>3. y \in DOMAIN link /\ (link[y] \in returned \/ link[y] = tail[y.channel])
        BY <2>1, <4>1, <4>2 DEF ReturnedFits
      <4> QED
        BY <1>7, <1>8, <4>1, <4>3 DEF t
    <3> QED
      BY <3>1, <3>2
  <2>5. ASSUME NEW z \in DOMAIN link, link[z] \in returned' \/ link[z] = tail'[z.channel]
        PROVE  z \in returned'
    <3>1. CASE link[z] \in returned
      BY <1>8, <2>1, <3>1 DEF ReturnedFits
    <3>2. CASE link[z] = t
      <4>1. z.channel = c
        BY <1>5, <2>3, <3>2
      <4> QED
        BY <1>8, <2>1, <3>2, <4>1 DEF ReturnedFits, t
    <3>3. CASE link[z] = tail'[z.channel] /\ z.channel = c
      <4>1. link[z] = link[t]
        BY <1>7, <3>3 DEF x
      <4>2. z = t
        BY <1>4, <2>1, <4>1 DEF LinksFit
      <4> QED
        BY <1>8, <4>2
    <3>4. CASE link[z] = tail'[z.channel] /\ z.channel # c
      <4>1. link[z] = tail[z.channel]
        BY <1>7, <2>3, <3>4
      <4> QED
        BY <1>8, <2>1, <4>1 DEF ReturnedFits
    <3> QED
      BY <1>8, <2>5, <3>1, <3>2, <3>3, <3>4
  <2>6. ASSUME NEW d \in Device!Channels, tail'[d] \in DOMAIN link PROVE link[tail'[d]] \notin returned'
    <3>1. CASE d = c
      <4>1. x \in DOMAIN link
        BY <1>7, <2>6, <3>1
      <4>2. link[x] \in returned \/ link[x] = tail[c] => x \in returned
        BY <1>5, <2>1, <4>1 DEF ReturnedFits
      <4> QED
        BY <1>6, <1>7, <1>8, <3>1, <4>2 DEF t
    <3>2. CASE d # c
      <4>1. tail'[d] = tail[d] /\ tail[d] \in DOMAIN link
        BY <1>7, <2>6, <3>2
      <4>2. link[tail[d]] \notin returned
        BY <2>1, <4>1 DEF ReturnedFits
      <4>3. link[tail[d]].channel = d
        <5>1. head[d] # Device!NoNode
          BY <1>2, <4>1, NodeFacts DEF DeviceOpen, EndsFit, DTypes
        <5> QED
          BY <2>3, <4>1, <5>1 DEF DeviceOpen, EndsFit
      <4> QED
        BY <1>5, <1>8, <3>2, <4>1, <4>2, <4>3
    <3> QED
      BY <3>1, <3>2
  <2> QED
    BY <1>1, <1>10, <2>2, <2>4, <2>5, <2>6 DEF ReturnedFits
<1>14. UsersFit'
  BY <1>1, UsersStay DEF DeviceOpen
<1>15. DeviceFits'
  <2>1. DeviceFits
    BY DEF DeviceOpen
  <2>2. CASE device.loop = "normal"
    <3>1. device' = [loop |-> "nested", phase |-> "loop", query |-> Device!NoNode, popped |-> x]
      BY <1>1, <1>4, <2>2 DEF Device!InLoop
    <3>2. x \notin returned' /\ (\E z \in DOMAIN link : x = link[z]) /\ x = tail'["normal"] /\ x.channel = "normal"
      BY <1>3, <1>4, <1>5, <1>6, <1>7, <1>8, <2>2 DEF x
    <3>3. x # Device!NoNode
      BY <1>5
    <3>4. device'.loop = "nested" /\ device'.phase = "loop" /\ device'.query = Device!NoNode /\ device'.popped = x
      BY <3>1
    <3> QED
      BY <1>1, <3>2, <3>3, <3>4 DEF DeviceFits
  <2>3. CASE device.loop # "normal"
    <3>1. /\ device'.phase = "execute" /\ device'.query = x
          /\ device'.loop = device.loop /\ device'.popped = device.popped
      BY <1>1, <1>2, <1>4, <2>3
    <3>2. c = "high"
      BY <1>3, <2>3 DEF Device!Channels
    <3>3. x \notin returned' /\ (\E z \in DOMAIN link : x = link[z]) /\ x = tail'["high"] /\ x.channel = "high"
      BY <1>4, <1>5, <1>6, <1>7, <1>8, <3>2 DEF x
    <3>4. device.popped # Device!NoNode => device.popped # t /\ tail'["normal"] = tail["normal"]
      BY <1>5, <1>7, <2>1, <3>2 DEF DeviceFits, Device!Channels
    <3>5. device.popped # Device!NoNode <=> device.loop = "nested"
      BY <2>1 DEF DeviceFits
    <3>6. device.popped # Device!NoNode =>
             /\ device.popped \notin returned'
             /\ \E z \in DOMAIN link : device.popped = link[z]
             /\ device.popped = tail'["normal"] /\ device.popped.channel = "normal"
      BY <1>8, <2>1, <3>4 DEF DeviceFits
    <3> QED
      BY <1>1, <1>5, <2>3, <3>1, <3>3, <3>5, <3>6 DEF DeviceFits
  <2> QED
    BY <2>2, <2>3
<1>16. AccessFits'
  <2>1. AccessFits
    BY DEF DeviceOpen
  <2>2. device'.phase \in {"loop", "execute"}
    BY <1>1, <1>2 DEF Device!InLoop
  <2> QED
    BY <1>1, <1>8, <2>1, <2>2 DEF AccessFits
<1>17. Alive'
  <2>1. Alive
    BY DEF DeviceOpen
  <2>2. \A y : Device!Owner(y)' = Device!Owner(y)
    BY <1>1 DEF Device!Owner
  <2>3. \A y \in Linked \ returned' : y \in nodes
    BY <1>8, <2>1 DEF Alive
  <2>4. ASSUME NEW d \in Device!Channels, tail'[d] \in returned' PROVE d # c /\ tail[d] \in returned /\ tail'[d] = tail[d]
    <3>1. d # c
      BY <1>6, <1>7, <1>8, <2>4
    <3>2. head[d] # Device!NoNode
      BY <1>2, <1>7, <1>8, <2>4, <3>1, NodeFacts DEF DeviceOpen, EndsFit
    <3> QED
      BY <1>5, <1>7, <1>8, <2>4, <3>1, <3>2 DEF DeviceOpen, EndsFit
  <2>5. (\A d \in Device!Channels : tail[d] \in returned => LastOf(back[d][Device!Owner(tail[d])], tail[d]))'
    <3> SUFFICES ASSUME NEW d \in Device!Channels, tail'[d] \in returned'
                 PROVE  LastOf(back'[d][Device!Owner(tail[d])'], tail'[d])
      BY DEF LastOf
    <3>1. LastOf(back[d][Device!Owner(tail[d])], tail[d]) /\ Device!Owner(tail[d]) \in DeviceUsers
      BY <2>1, <2>4, OwnerIsUser DEF Alive, DeviceOpen, ReturnedFits
    <3>2. Device!Owner(tail[d])' = Device!Owner(tail[d])
      BY <1>1, <2>4 DEF Device!Owner
    <3> QED
      BY <1>8, <2>4, <3>1, <3>2
  <2>6. ASSUME NEW d \in Device!Channels, NEW y, y = head[d], y \in returned', y # tail'[d]
        PROVE  In(back'[d][Device!Owner(y)], y) /\ (LastOf(back'[d][Device!Owner(y)], y) \/ Busy(Device!Owner(y), d))
    <3>1. y \in Linked /\ y.channel = d
      BY <1>2, <1>8, <2>6, <1>5, NodeFacts DEF DeviceOpen, EndsFit
    <3>2. CASE d = c
      <4>1. y = t
        BY <1>4, <1>8, <2>6, <3>2, HeadReturned DEF t
      <4> QED
        BY <1>8, <3>2, <4>1 DEF In, LastOf
    <3>3. CASE d # c
      <4>1. y \in returned /\ y # tail[d]
        BY <1>5, <1>7, <1>8, <2>6, <3>1, <3>3
      <4>2. Device!Owner(y) \in DeviceUsers
        BY <3>1, OwnerIsUser DEF DeviceOpen
      <4> QED
        BY <1>8, <2>1, <2>6, <3>3, <4>1, <4>2 DEF Alive
    <3> QED
      BY <3>2, <3>3
  <2>7. (\A d \in Device!Channels : head[d] \in returned /\ head[d] # tail[d] =>
             /\ In(back[d][Device!Owner(head[d])], head[d])
             /\ LastOf(back[d][Device!Owner(head[d])], head[d]) \/ Busy(Device!Owner(head[d]), d))'
    <3>1. head' = head /\ deviceAt' = deviceAt /\ mine' = mine /\ creator' = creator
      BY <1>1
    <3> QED
      BY <2>6, <3>1 DEF In, LastOf, Busy, Device!Owner
  <2> QED
    BY <1>1, <1>8, <1>10, <2>3, <2>5, <2>7 DEF Alive
<1> QED
  BY <1>1, <1>8, <1>9, <1>11, <1>12, <1>13, <1>14, <1>15, <1>16, <1>17 DEF DeviceOpen

LEMMA GiveBackFits ==
    ASSUME DTypes, BacksFit, DeviceOpen, Device!GiveBack
    PROVE  DTypes' /\ BacksFit' /\ DeviceOpen'
<1> DEFINE q == device.query
           c == device.query.channel
<1>1. /\ device.phase = "executed" \/ (device.phase = "execute" /\ c = "normal")
      /\ Device!PushProcessed(q)
      /\ device' = IF device.popped = Device!NoNode THEN Device!InLoop(device.loop)
                   ELSE [Device!InLoop(device.loop) EXCEPT !.popped = device.popped]
      /\ UNCHANGED <<strayed, link, head, tail, creator, nodes, called, deviceAt, mine, seen, calls,
                     synchronous, accessStarted, accessEnded, finalized>>
  BY DEF Device!GiveBack, Device!queues, Device!users, Device!access
<1>2. /\ head \in [Device!Channels -> Device!NodeOrNone] /\ tail \in [Device!Channels -> Device!NodeOrNone] /\ calls \in Nat
      /\ device \in [loop : {"high", "normal", "nested"}, phase : {"loop", "execute", "waiting", "executed"},
                     query : Device!NodeOrNone, popped : Device!NodeOrNone]
  BY EngineAssumption DEF DTypes
<1>3. /\ q # Device!NoNode /\ q \notin returned /\ q \in Linked /\ q = tail[c]
      /\ c = (IF device.loop = "normal" THEN "normal" ELSE "high")
  <2>1. q # Device!NoNode
    BY <1>1 DEF DeviceOpen, DeviceFits
  <2>2. q \notin returned /\ (\E z \in DOMAIN link : q = link[z]) /\ q = tail[c]
        /\ c = (IF device.loop = "normal" THEN "normal" ELSE "high")
    BY <2>1 DEF DeviceOpen, DeviceFits
  <2> QED
    BY <2>1, <2>2 DEF Linked
<1>4. /\ Device!Owner(q) \in DeviceUsers /\ c \in Device!Channels
      /\ back' \in [Device!Channels -> [DeviceUsers -> Seq(Device!Nodes)]]
      /\ returned' = returned \cup {q} /\ returned' \subseteq Device!Nodes
      /\ BacksFit'
      /\ \A d \in Device!Channels, v \in DeviceUsers : \A i \in 1 .. Len(back'[d][v]) :
             back'[d][v][i] = Device!NullNode(v, d) \/ back'[d][v][i] \in returned'
      /\ LastOf(back'[c][Device!Owner(q)], q)
      /\ \A d \in Device!Channels, v \in DeviceUsers : \A y : In(back[d][v], y) => In(back'[d][v], y)
      /\ \A d \in Device!Channels, v \in DeviceUsers : \A y :
             LastOf(back[d][v], y) /\ (d # c \/ v # Device!Owner(q)) => LastOf(back'[d][v], y)
  BY <1>1, <1>3, PushedBack
<1>5. /\ device'.loop = device.loop /\ device'.phase = "loop" /\ device'.query = Device!NoNode
      /\ device'.popped = device.popped
      /\ device' \in [loop : {"high", "normal", "nested"}, phase : {"loop", "execute", "waiting", "executed"},
                      query : Device!NodeOrNone, popped : Device!NodeOrNone]
  BY <1>1, <1>2 DEF Device!InLoop, Device!NodeOrNone
<1>6. q.channel = c /\ device.phase # "waiting"
  BY <1>1
<1> HIDE DEF q, c
<1>7. DTypes'
  BY <1>1, <1>4, <1>5 DEF DTypes
<1>8. Linked' = Linked
  BY <1>1, LinkedSame
<1>9. LinksFit'
  BY <1>1, <1>2, LinksStay DEF DeviceOpen
<1>10. EndsFit'
  BY <1>1, EndsStay DEF DeviceOpen
<1>11. ReturnedFits'
  <2>1. ReturnedFits /\ LinksFit
    BY DEF DeviceOpen
  <2>2. \A y \in returned' : y # tail[y.channel] =>
             y \in DOMAIN link /\ (link[y] \in returned' \/ link[y] = tail[y.channel])
    BY <1>3, <1>4, <1>6, <2>1 DEF ReturnedFits
  <2>3. ASSUME NEW z \in DOMAIN link, link[z] = q PROVE z.channel = c /\ z \in returned
    <3>1. z.channel = c
      BY <1>6, <2>1, <2>3 DEF LinksFit
    <3> QED
      BY <1>3, <2>1, <2>3, <3>1 DEF ReturnedFits
  <2>4. \A z \in DOMAIN link : link[z] \in returned' \/ link[z] = tail[z.channel] => z \in returned'
    BY <1>4, <2>1, <2>3 DEF ReturnedFits
  <2>5. ASSUME NEW d \in Device!Channels, tail[d] \in DOMAIN link PROVE link[tail[d]] \notin returned'
    <3>1. link[tail[d]] \notin returned
      BY <2>1, <2>5 DEF ReturnedFits
    <3>2. link[tail[d]] # q
      <4> SUFFICES ASSUME link[tail[d]] = q PROVE FALSE
        OBVIOUS
      <4>1. tail[d].channel = c /\ tail[d] \in returned
        BY <2>3, <2>5
      <4>2. tail[d].channel = d
        <5>1. head[d] # Device!NoNode
          BY <1>2, <2>5, NodeFacts DEF DeviceOpen, EndsFit, DTypes
        <5> QED
          BY <5>1 DEF DeviceOpen, EndsFit
      <4> QED
        BY <1>3, <4>1, <4>2
    <3> QED
      BY <1>4, <3>1, <3>2
  <2>6. returned' \subseteq Linked
    BY <1>3, <1>4, <2>1 DEF ReturnedFits
  <2> QED
    BY <1>1, <1>8, <2>2, <2>4, <2>5, <2>6 DEF ReturnedFits
<1>12. UsersFit'
  BY <1>1, UsersStay DEF DeviceOpen
<1>13. DeviceFits'
  <2>1. DeviceFits
    BY DEF DeviceOpen
  <2>2. device.popped # Device!NoNode => device.popped # q
    BY <1>3, <1>6, <2>1 DEF DeviceFits
  <2> QED
    BY <1>1, <1>4, <1>5, <2>1, <2>2 DEF DeviceFits
<1>14. AccessFits'
  <2>1. AccessFits
    BY DEF DeviceOpen
  <2>2. \A z \in DOMAIN link : link[z] \notin returned' => link[z] \notin returned /\ link[z] # q
    BY <1>4
  <2> QED
    BY <1>1, <1>5, <1>6, <2>1, <2>2 DEF AccessFits, q
<1>15. Alive'
  <2>1. Alive
    BY DEF DeviceOpen
  <2>2. \A y \in Linked \ returned' : y \in nodes
    BY <1>4, <2>1 DEF Alive
  <2>3. ASSUME NEW d \in Device!Channels, NEW y, y = tail[d], y \in returned' PROVE LastOf(back'[d][Device!Owner(y)], y)
    <3>1. y.channel = d /\ y \in Linked
      <4>1. head[d] # Device!NoNode
        BY <1>2, <1>4, <2>3, NodeFacts DEF DeviceOpen, EndsFit
      <4> QED
        BY <2>3, <4>1 DEF DeviceOpen, EndsFit
    <3>2. CASE d = c
      BY <1>3, <1>4, <2>3, <3>2
    <3>3. CASE d # c
      <4>1. y \in returned
        BY <1>4, <1>6, <2>3, <3>1, <3>3
      <4>2. Device!Owner(y) \in DeviceUsers
        BY <3>1, OwnerIsUser DEF DeviceOpen
      <4> QED
        BY <1>4, <2>1, <2>3, <3>3, <4>1, <4>2 DEF Alive
    <3> QED
      BY <3>2, <3>3
  <2>4. ASSUME NEW d \in Device!Channels, NEW y, y = head[d], y \in returned', y # tail[d]
        PROVE  In(back'[d][Device!Owner(y)], y) /\ (LastOf(back'[d][Device!Owner(y)], y) \/ Busy(Device!Owner(y), d))
    <3>1. y.channel = d /\ y \in Linked
      <4>1. head[d] # Device!NoNode
        BY <1>2, <1>4, <2>4, NodeFacts
      <4> QED
        BY <2>4, <4>1 DEF DeviceOpen, EndsFit
    <3>2. y \in returned
      BY <1>3, <1>4, <1>6, <2>4, <3>1
    <3>3. Device!Owner(y) \in DeviceUsers
      BY <3>1, OwnerIsUser DEF DeviceOpen
    <3>4. In(back[d][Device!Owner(y)], y) /\ (LastOf(back[d][Device!Owner(y)], y) \/ Busy(Device!Owner(y), d))
      BY <2>1, <2>4, <3>2 DEF Alive
    <3>5. Busy(Device!Owner(tail[d]), d)
      BY <2>4, <3>2, HeadReturned
    <3>6. CASE d = c /\ Device!Owner(y) = Device!Owner(q)
      BY <1>3, <1>4, <3>3, <3>4, <3>5, <3>6
    <3>7. CASE d # c \/ Device!Owner(y) # Device!Owner(q)
      BY <1>4, <3>3, <3>4, <3>7
    <3> QED
      BY <3>6, <3>7
  <2>5. (\A d \in Device!Channels : tail[d] \in returned => LastOf(back[d][Device!Owner(tail[d])], tail[d]))'
    <3>1. tail' = tail /\ creator' = creator
      BY <1>1
    <3> QED
      BY <2>3, <3>1 DEF LastOf, Device!Owner
  <2>6. (\A d \in Device!Channels : head[d] \in returned /\ head[d] # tail[d] =>
             /\ In(back[d][Device!Owner(head[d])], head[d])
             /\ LastOf(back[d][Device!Owner(head[d])], head[d]) \/ Busy(Device!Owner(head[d]), d))'
    <3>1. head' = head /\ deviceAt' = deviceAt /\ mine' = mine /\ creator' = creator /\ tail' = tail
      BY <1>1
    <3> QED
      BY <2>4, <3>1 DEF In, LastOf, Busy, Device!Owner
  <2> QED
    BY <1>1, <1>4, <1>8, <2>2, <2>5, <2>6 DEF Alive
<1> QED
  BY <1>1, <1>4, <1>7, <1>9, <1>10, <1>11, <1>12, <1>13, <1>14, <1>15 DEF DeviceOpen

-----------------------------------------------------------------------------
(* Callbacks are dispatched, the first node is deleted.                    *)

LEMMA DispatchBacks ==
    ASSUME DTypes, BacksFit, NEW u \in DeviceUsers, NEW c \in Device!Channels, Device!Dispatch(u, c)
    PROVE  /\ back[c][u][1] \in Device!Nodes /\ Device!Owner(back[c][u][1]) = u /\ back[c][u][1].channel = c
           /\ nodes' = nodes \ {back[c][u][1]}
           /\ \A d \in Device!Channels, v \in DeviceUsers : d # c \/ v # u => back'[d][v] = back[d][v]
           /\ Len(back[c][u]) > 1 /\ Len(back'[c][u]) = Len(back[c][u]) - 1
           /\ \A i \in 1 .. Len(back'[c][u]) : i + 1 \in 1 .. Len(back[c][u]) /\ back'[c][u][i] = back[c][u][i + 1]
           /\ DTypes' /\ BacksFit'
<1> DEFINE s == back[c][u]
           t == back'[c][u]
<1>1. /\ deviceAt[u] = "out" /\ Len(s) > 1
      /\ back' = [back EXCEPT ![c][u] = Tail(s)]
      /\ nodes' = nodes \ {Head(s)}
      /\ called' = called \cup {s[2]}
      /\ UNCHANGED <<strayed, link, head, tail, creator, returned, deviceAt, mine, seen, calls, device,
                     synchronous, accessStarted, accessEnded, finalized>>
  BY DEF Device!Dispatch, Device!queues, Device!users, Device!access, DTypes
<1>2. back \in [Device!Channels -> [DeviceUsers -> Seq(Device!Nodes)]] /\ s \in Seq(Device!Nodes) /\ Len(s) \in Nat
  BY DEF DTypes
<1>3. /\ Head(s) = s[1] /\ Tail(s) \in Seq(Device!Nodes) /\ Len(Tail(s)) = Len(s) - 1
      /\ \A i \in 1 .. Len(Tail(s)) : Tail(s)[i] = s[i + 1]
      /\ s[1] \in Device!Nodes /\ s[2] \in Device!Nodes
  BY <1>1, <1>2
<1>4. t = Tail(s)
  BY <1>1, <1>2
<1>5. \A d \in Device!Channels, v \in DeviceUsers : d # c \/ v # u => back'[d][v] = back[d][v]
  BY <1>1, <1>2
<1>6. 1 \in 1 .. Len(s)
  BY <1>1, <1>2
<1>7. Device!Owner(s[1]) = u /\ s[1].channel = c /\ \A j \in 1 .. Len(s) : s[1] = s[j] => 1 = j
  BY <1>6 DEF BacksFit
<1>8. Len(t) = Len(s) - 1 /\ \A i \in 1 .. Len(t) : i + 1 \in 1 .. Len(s) /\ t[i] = s[i + 1]
  BY <1>1, <1>2, <1>3, <1>4
<1>9. nodes' = nodes \ {s[1]}
  BY <1>1, <1>3
<1>10. DTypes'
  <2>1. [back[c] EXCEPT ![u] = Tail(s)] \in [DeviceUsers -> Seq(Device!Nodes)]
    BY <1>2, <1>3
  <2>2. back' \in [Device!Channels -> [DeviceUsers -> Seq(Device!Nodes)]]
    BY <1>1, <1>2, <2>1
  <2> QED
    BY <1>1, <1>3, <2>2 DEF DTypes
<1>11. BacksFit'
  <2>1. \A y : Device!Owner(y)' = Device!Owner(y)
    BY <1>1 DEF Device!Owner
  <2>2. ASSUME NEW d \in Device!Channels, NEW v \in DeviceUsers, NEW i \in 1 .. Len(back'[d][v])
        PROVE  /\ back'[d][v][i] \in nodes' /\ back'[d][v][i].channel = d /\ Device!Owner(back'[d][v][i]) = v
               /\ \A j \in 1 .. Len(back'[d][v]) : back'[d][v][i] = back'[d][v][j] => i = j
    <3>1. CASE d = c /\ v = u
      <4>1. i \in 1 .. Len(t) /\ i + 1 \in 1 .. Len(s) /\ t[i] = s[i + 1] /\ i + 1 # 1
        BY <1>2, <1>8, <3>1
      <4>2. s[i + 1] \in nodes /\ s[i + 1].channel = c /\ Device!Owner(s[i + 1]) = u
            /\ \A j \in 1 .. Len(s) : s[i + 1] = s[j] => i + 1 = j
        BY <4>1 DEF BacksFit
      <4>3. s[i + 1] # s[1]
        BY <1>7, <4>1
      <4>4. \A j \in 1 .. Len(t) : t[i] = t[j] => i = j
        <5> SUFFICES ASSUME NEW j \in 1 .. Len(t), t[i] = t[j] PROVE i = j
          OBVIOUS
        <5>1. j + 1 \in 1 .. Len(s) /\ t[j] = s[j + 1]
          BY <1>8
        <5>2. i + 1 = j + 1
          BY <4>1, <4>2, <5>1
        <5> QED
          BY <4>1, <5>2
      <4> QED
        BY <1>9, <3>1, <4>1, <4>2, <4>3, <4>4
    <3>2. CASE d # c \/ v # u
      <4>1. back'[d][v] = back[d][v]
        BY <1>5, <3>2
      <4>2. back[d][v][i] \in nodes /\ back[d][v][i].channel = d /\ Device!Owner(back[d][v][i]) = v
            /\ \A j \in 1 .. Len(back[d][v]) : back[d][v][i] = back[d][v][j] => i = j
        BY <4>1 DEF BacksFit
      <4>3. back[d][v][i] # s[1]
        BY <1>7, <3>2, <4>2
      <4> QED
        BY <1>9, <4>1, <4>2, <4>3
    <3> QED
      BY <3>1, <3>2
  <2> HIDE DEF s, t
  <2> QED
    BY <2>1, <2>2 DEF BacksFit
<1> QED
  BY <1>1, <1>3, <1>5, <1>7, <1>8, <1>9, <1>10, <1>11

LEMMA DispatchFits ==
    ASSUME DTypes, BacksFit, DeviceOpen, NEW u \in DeviceUsers, NEW c \in Device!Channels, Device!Dispatch(u, c)
    PROVE  DeviceOpen'
<1> DEFINE h == back[c][u][1]
           s == back[c][u]
           t == back'[c][u]
<1>1. /\ deviceAt[u] = "out"
      /\ UNCHANGED <<strayed, link, head, tail, creator, returned, deviceAt, mine, seen, calls, device,
                     synchronous, accessStarted, accessEnded, finalized>>
  BY DEF Device!Dispatch, Device!queues, Device!users, Device!access
<1>2. /\ h \in Device!Nodes /\ Device!Owner(h) = u /\ h.channel = c
      /\ nodes' = nodes \ {h}
      /\ \A d \in Device!Channels, v \in DeviceUsers : d # c \/ v # u => back'[d][v] = back[d][v]
      /\ Len(s) > 1 /\ Len(t) = Len(s) - 1
      /\ \A i \in 1 .. Len(t) : i + 1 \in 1 .. Len(s) /\ t[i] = s[i + 1]
  BY DispatchBacks
<1>3. calls \in Nat /\ Len(s) \in Nat /\ Len(t) \in Nat
  BY EngineAssumption, DispatchBacks DEF DTypes
<1>4. 1 \in 1 .. Len(s)
  BY <1>2, <1>3
<1>5. h = Device!NullNode(u, c) \/ h \in returned
  BY <1>4 DEF DeviceOpen, Alive
<1>6. \A d \in Device!Channels, v \in DeviceUsers : \A y : LastOf(back[d][v], y) => LastOf(back'[d][v], y)
  <2>1. ASSUME NEW y, LastOf(s, y) PROVE LastOf(t, y)
    <3>1. Len(t) >= 1 /\ Len(t) \in 1 .. Len(t) /\ Len(t) + 1 = Len(s)
      BY <1>2, <1>3
    <3>2. t[Len(t)] = s[Len(t) + 1]
      BY <1>2, <3>1
    <3> QED
      BY <2>1, <3>1, <3>2 DEF LastOf
  <2> HIDE DEF s, t
  <2>2. \A d \in Device!Channels, v \in DeviceUsers : d = c /\ v = u => back[d][v] = s /\ back'[d][v] = t
    BY DEF s, t
  <2> QED
    BY <1>2, <2>1, <2>2
<1>8. \A d \in Device!Channels, v \in DeviceUsers : \A y : LastOf(back'[d][v], y) => In(back'[d][v], y)
  <2> SUFFICES ASSUME NEW d \in Device!Channels, NEW v \in DeviceUsers, NEW y, LastOf(back'[d][v], y) PROVE In(back'[d][v], y)
    OBVIOUS
  <2>1. Len(back'[d][v]) \in Nat
    BY DispatchBacks DEF DTypes
  <2> QED
    BY <2>1 DEF LastOf, In
<1> HIDE DEF h, s, t
<1>9. LinksFit'
  BY <1>1, <1>3, LinksStay DEF DeviceOpen
<1>10. EndsFit'
  BY <1>1, EndsStay DEF DeviceOpen
<1>11. ReturnedFits'
  BY <1>1, ReturnedStays DEF DeviceOpen
<1>12. DeviceFits'
  BY <1>1, DeviceStays DEF DeviceOpen
<1>13. AccessFits'
  BY <1>1 DEF DeviceOpen, AccessFits
<1>14. Linked' = Linked
  BY <1>1, LinkedSame
<1>15. UsersFit'
  <2>1. UsersFit
    BY DEF DeviceOpen
  <2>2. \A v \in DeviceUsers : deviceAt[v] # "out" => mine[v] # h
    <3> SUFFICES ASSUME NEW v \in DeviceUsers, deviceAt[v] # "out", mine[v] = h PROVE FALSE
      OBVIOUS
    <3>1. h.of = v /\ v # Nobody
      BY <2>1, EngineAssumption DEF UsersFit
    <3> QED
      BY <1>1, <1>2, <3>1 DEF Device!Owner
  <2> QED
    BY <1>1, <1>2, <1>14, <2>1, <2>2 DEF UsersFit, Device!MayUse
<1>16. Alive'
  <2>1. Alive
    BY DEF DeviceOpen
  <2>2. \A y \in Linked \ returned : y \in nodes'
    <3>1. Device!NullNode(u, c) \notin Linked
      BY <1>3, NullNotLinked DEF DeviceOpen
    <3> QED
      BY <1>2, <1>5, <2>1, <3>1 DEF Alive
  <2>3. ASSUME NEW d \in Device!Channels, NEW v \in DeviceUsers, NEW i \in 1 .. Len(back'[d][v])
        PROVE  back'[d][v][i] = Device!NullNode(v, d) \/ back'[d][v][i] \in returned
    <3>1. CASE d = c /\ v = u
      <4>1. i + 1 \in 1 .. Len(s) /\ t[i] = s[i + 1]
        BY <1>2, <3>1 DEF t
      <4> QED
        BY <2>1, <3>1, <4>1 DEF Alive, s, t
    <3>2. CASE d # c \/ v # u
      BY <1>2, <2>1, <3>2 DEF Alive
    <3> QED
      BY <3>1, <3>2
  <2>4. ASSUME NEW d \in Device!Channels, head[d] # Device!NoNode, NEW y, y = head[d] \/ y = tail[d] PROVE Device!Owner(y) \in DeviceUsers
    BY <2>4, OwnerIsUser DEF DeviceOpen, EndsFit
  <2>5. \A y \in returned, d \in Device!Channels : y = head[d] \/ y = tail[d] => Device!Owner(y) \in DeviceUsers
    <3>1. \A d \in Device!Channels : head[d] = Device!NoNode => head[d] \notin returned /\ tail[d] \notin returned
      BY NodeFacts DEF DTypes, DeviceOpen, EndsFit
    <3> QED
      BY <2>4, <3>1
  <2>6. (\A d \in Device!Channels : tail[d] \in returned => LastOf(back[d][Device!Owner(tail[d])], tail[d]))'
    <3>1. tail' = tail /\ creator' = creator /\ returned' = returned
      BY <1>1
    <3>2. \A d \in Device!Channels : tail[d] \in returned => LastOf(back'[d][Device!Owner(tail[d])], tail[d])
      BY <1>6, <2>1, <2>5 DEF Alive
    <3> QED
      BY <3>1, <3>2 DEF LastOf, Device!Owner
  <2>7. ASSUME NEW d \in Device!Channels, NEW y, y = head[d], y \in returned, y # tail[d]
        PROVE  In(back'[d][Device!Owner(y)], y) /\ (LastOf(back'[d][Device!Owner(y)], y) \/ Busy(Device!Owner(y), d))
    <3>1. In(back[d][Device!Owner(y)], y) /\ (LastOf(back[d][Device!Owner(y)], y) \/ Busy(Device!Owner(y), d))
      BY <2>1, <2>7 DEF Alive
    <3>2. Device!Owner(y) \in DeviceUsers
      BY <2>5, <2>7
    <3>3. CASE Busy(Device!Owner(y), d)
      <4>1. Device!Owner(y) # u
        BY <1>1, <3>3 DEF Busy
      <4> QED
        BY <1>2, <3>1, <3>2, <3>3, <4>1
    <3>4. CASE LastOf(back[d][Device!Owner(y)], y)
      BY <1>6, <1>8, <3>2, <3>4
    <3> QED
      BY <3>1, <3>3, <3>4
  <2>8. (\A d \in Device!Channels : head[d] \in returned /\ head[d] # tail[d] =>
             /\ In(back[d][Device!Owner(head[d])], head[d])
             /\ LastOf(back[d][Device!Owner(head[d])], head[d]) \/ Busy(Device!Owner(head[d]), d))'
    <3>1. head' = head /\ deviceAt' = deviceAt /\ mine' = mine /\ creator' = creator /\ tail' = tail /\ returned' = returned
      BY <1>1
    <3> QED
      BY <2>7, <3>1 DEF In, LastOf, Busy, Device!Owner
  <2> QED
    BY <1>1, <1>14, <2>2, <2>3, <2>6, <2>8 DEF Alive
<1> QED
  BY <1>1, <1>9, <1>10, <1>11, <1>12, <1>13, <1>15, <1>16 DEF DeviceOpen

-----------------------------------------------------------------------------
(* The device is finalized.                                                *)

LEMMA DeviceFinalizeFits ==
    ASSUME DTypes, BacksFit, DeviceOpen, Device!Finalize
    PROVE  DTypes' /\ BacksFit' /\ DeviceEnded'
<1> DEFINE Gives(c, u) == head[c] # Device!NoNode /\ head[c] \notin returned /\ Device!Owner(head[c]) = u
<1>1. /\ deviceAt = [u \in DeviceUsers |-> "out"] /\ device = Device!InLoop("high")
      /\ back' = [c \in Device!Channels |-> [u \in DeviceUsers |->
             IF Gives(c, u) THEN Append(back[c][u], head[c]) ELSE back[c][u]]]
      /\ head' = [c \in Device!Channels |-> Device!NoNode] /\ tail' = head' /\ finalized' = "consumer"
      /\ UNCHANGED <<strayed, link, creator, nodes, returned, called, deviceAt, mine, seen, calls, device,
                     synchronous, accessStarted, accessEnded>>
  BY DEF Device!Finalize, Device!users, Device!access
<1>2. /\ head \in [Device!Channels -> Device!NodeOrNone] /\ calls \in Nat
      /\ back \in [Device!Channels -> [DeviceUsers -> Seq(Device!Nodes)]]
  BY EngineAssumption DEF DTypes
<1>3. ASSUME NEW c \in Device!Channels, NEW u \in DeviceUsers, Gives(c, u)
      PROVE  /\ head[c] \in Device!Nodes /\ head[c] \in nodes /\ head[c].channel = c
             /\ \A i \in 1 .. Len(back[c][u]) : back[c][u][i] # head[c]
  <2>1. head[c] \in Linked /\ head[c].channel = c
    BY <1>3 DEF DeviceOpen, EndsFit
  <2>2. head[c] \in Device!Nodes /\ head[c] \in nodes
    BY <1>3, <2>1, LinkedNodes DEF DeviceOpen, Alive
  <2>3. Device!NullNode(u, c) # head[c]
    BY <1>2, <2>1, NullNotLinked DEF DeviceOpen
  <2>4. \A i \in 1 .. Len(back[c][u]) : back[c][u][i] = Device!NullNode(u, c) \/ back[c][u][i] \in returned
    BY DEF DeviceOpen, Alive
  <2> QED
    BY <1>3, <2>1, <2>2, <2>3, <2>4
<1>4. ASSUME NEW c \in Device!Channels, NEW u \in DeviceUsers
      PROVE  \/ ~ Gives(c, u) /\ back'[c][u] = back[c][u]
             \/ Gives(c, u) /\ back'[c][u] = Append(back[c][u], head[c])
  BY <1>1
<1> HIDE DEF Gives
<1>5. DTypes'
  <2>1. ASSUME NEW c \in Device!Channels, NEW u \in DeviceUsers
        PROVE  (IF Gives(c, u) THEN Append(back[c][u], head[c]) ELSE back[c][u]) \in Seq(Device!Nodes)
    BY <1>2, <1>3
  <2>2. back' \in [Device!Channels -> [DeviceUsers -> Seq(Device!Nodes)]]
    BY <1>1, <2>1
  <2>3. Device!NoNode \in Device!NodeOrNone
    BY DEF Device!NodeOrNone
  <2>4. head' \in [Device!Channels -> Device!NodeOrNone] /\ tail' \in [Device!Channels -> Device!NodeOrNone]
    BY <1>1, <2>3
  <2> QED
    BY <1>1, <2>2, <2>4 DEF DTypes
<1>6. BacksFit'
  <2>1. \A y : Device!Owner(y)' = Device!Owner(y)
    BY <1>1 DEF Device!Owner
  <2>2. ASSUME NEW d \in Device!Channels, NEW v \in DeviceUsers, NEW i \in 1 .. Len(back'[d][v])
        PROVE  /\ back'[d][v][i] \in nodes /\ back'[d][v][i].channel = d /\ Device!Owner(back'[d][v][i]) = v
               /\ \A j \in 1 .. Len(back'[d][v]) : back'[d][v][i] = back'[d][v][j] => i = j
    <3> DEFINE s == back[d][v]
               t == back'[d][v]
    <3>1. \A j \in 1 .. Len(s) : /\ s[j] \in nodes /\ s[j].channel = d /\ Device!Owner(s[j]) = v
                                 /\ \A k \in 1 .. Len(s) : s[j] = s[k] => j = k
      BY DEF BacksFit
    <3>2. CASE ~ Gives(d, v)
      BY <1>4, <3>1, <3>2
    <3>3. CASE Gives(d, v)
      <4>1. /\ head[d] \in Device!Nodes /\ head[d] \in nodes /\ head[d].channel = d /\ Device!Owner(head[d]) = v
            /\ \A j \in 1 .. Len(s) : s[j] # head[d]
        BY <1>3, <3>3 DEF Gives
      <4>2. s \in Seq(Device!Nodes) /\ t = Append(s, head[d])
        BY <1>2, <1>4, <3>3
      <4>3. Len(s) \in Nat /\ Len(t) = Len(s) + 1 /\ t[Len(s) + 1] = head[d]
            /\ \A j \in 1 .. Len(s) : t[j] = s[j]
        BY <4>1, <4>2
      <4> HIDE DEF s, t
      <4>4. \A j \in 1 .. Len(t) : j \in 1 .. Len(s) \/ j = Len(s) + 1
        BY <4>3
      <4>5. i \in 1 .. Len(t)
        BY DEF t
      <4>6. t[i] \in nodes /\ t[i].channel = d /\ Device!Owner(t[i]) = v
        BY <3>1, <4>1, <4>3, <4>4, <4>5
      <4>7. \A j \in 1 .. Len(t) : t[i] = t[j] => i = j
        <5> SUFFICES ASSUME NEW j \in 1 .. Len(t), t[i] = t[j] PROVE i = j
          OBVIOUS
        <5> QED
          BY <3>1, <4>1, <4>3, <4>4, <4>5
      <4> QED
        BY <4>6, <4>7 DEF t
    <3> QED
      BY <3>2, <3>3
  <2> QED
    BY <1>1, <2>1, <2>2 DEF BacksFit
<1>7. seen = [u \in DeviceUsers |-> Device!NoNode]
  <2>1. seen \in [DeviceUsers -> Device!NodeOrNone]
    BY DEF DTypes
  <2>2. \A u \in DeviceUsers : seen[u] = Device!NoNode
    BY <1>1 DEF DeviceOpen, UsersFit
  <2> QED
    BY <2>1, <2>2
<1>8. accessStarted = {} /\ accessEnded = {} /\ synchronous = Nobody
  BY <1>1 DEF DeviceOpen, AccessFits, Device!InLoop
<1> QED
  BY <1>1, <1>5, <1>6, <1>7, <1>8 DEF DeviceEnded, Device!InLoop

LEMMA FinalizeThreadUsageFits ==
    ASSUME DTypes, BacksFit, Device!FinalizeThreadUsage, DeviceEnded
    PROVE  DTypes' /\ BacksFit' /\ DeviceEnded'
<1>1. /\ nodes' = nodes \ {back[c][MainUser][1] : c \in {c \in Device!Channels : back[c][MainUser] # <<>>}}
      /\ back' = [c \in Device!Channels |-> [back[c] EXCEPT ![MainUser] = <<>>]]
      /\ finalized' = "closed"
      /\ UNCHANGED <<strayed, link, head, tail, creator, returned, called, deviceAt, mine, seen, calls, device,
                     synchronous, accessStarted, accessEnded>>
  BY DEF Device!FinalizeThreadUsage, Device!queues, Device!users, Device!access
<1>2. back \in [Device!Channels -> [DeviceUsers -> Seq(Device!Nodes)]] /\ MainUser \in DeviceUsers
  BY EngineAssumption DEF DTypes
<1>3. /\ \A c \in Device!Channels : back'[c][MainUser] = <<>>
      /\ \A c \in Device!Channels, v \in DeviceUsers : v # MainUser => back'[c][v] = back[c][v]
  BY <1>1, <1>2
<1>4. DTypes'
  <2>1. ASSUME NEW c \in Device!Channels PROVE [back[c] EXCEPT ![MainUser] = <<>>] \in [DeviceUsers -> Seq(Device!Nodes)]
    BY <1>2
  <2>2. back' \in [Device!Channels -> [DeviceUsers -> Seq(Device!Nodes)]]
    BY <1>1, <2>1
  <2> QED
    BY <1>1, <2>2 DEF DTypes
<1>5. ASSUME NEW c \in Device!Channels, back[c][MainUser] # <<>> PROVE Device!Owner(back[c][MainUser][1]) = MainUser
  <2>1. 1 \in 1 .. Len(back[c][MainUser])
    BY <1>2, <1>5
  <2> QED
    BY <1>2, <2>1 DEF BacksFit
<1>6. BacksFit'
  <2>1. \A y : Device!Owner(y)' = Device!Owner(y)
    BY <1>1 DEF Device!Owner
  <2>2. ASSUME NEW d \in Device!Channels, NEW v \in DeviceUsers, NEW i \in 1 .. Len(back'[d][v])
        PROVE  /\ back'[d][v][i] \in nodes' /\ back'[d][v][i].channel = d /\ Device!Owner(back'[d][v][i]) = v
               /\ \A j \in 1 .. Len(back'[d][v]) : back'[d][v][i] = back'[d][v][j] => i = j
    <3>1. v # MainUser
      BY <1>3, <2>2
    <3>2. back'[d][v] = back[d][v]
      BY <1>3, <3>1
    <3>3. back[d][v][i] \in nodes /\ back[d][v][i].channel = d /\ Device!Owner(back[d][v][i]) = v
          /\ \A j \in 1 .. Len(back[d][v]) : back[d][v][i] = back[d][v][j] => i = j
      BY <3>2 DEF BacksFit
    <3>4. back[d][v][i] \in nodes'
      BY <1>1, <1>5, <3>1, <3>3
    <3> QED
      BY <3>2, <3>3, <3>4
  <2> QED
    BY <2>1, <2>2 DEF BacksFit
<1> QED
  BY <1>1, <1>4, <1>6 DEF DeviceEnded, Device!InLoop

-----------------------------------------------------------------------------
(* The invariant, and what follows from it.                                *)

LEMMA DeviceStarts == Device!Init => DInv
<1> SUFFICES ASSUME Device!Init PROVE DInv
  OBVIOUS
<1>1. /\ strayed \in BOOLEAN /\ link = [x \in {} |-> Device!NoNode] /\ DOMAIN link = {}
      /\ head = [c \in Device!Channels |-> Device!NoNode] /\ tail = [c \in Device!Channels |-> Device!NoNode]
      /\ creator = [c \in Device!Channels |-> Nobody] /\ back = [c \in Device!Channels |-> [u \in DeviceUsers |-> <<>>]]
      /\ nodes = {} /\ returned = {} /\ called = {}
      /\ deviceAt = [u \in DeviceUsers |-> "out"] /\ mine = [u \in DeviceUsers |-> Device!NoNode] /\ seen = [u \in DeviceUsers |-> Device!NoNode]
      /\ calls = 0 /\ device = Device!InLoop("high") /\ synchronous = Nobody /\ accessStarted = {} /\ accessEnded = {}
      /\ finalized = "open"
  BY DEF Device!Init
<1>2. Linked = {}
  BY <1>1 DEF Linked
<1>3. DTypes
  <2>1. back \in [Device!Channels -> [DeviceUsers -> Seq(Device!Nodes)]]
    BY <1>1
  <2>2. link \in [DOMAIN link -> Device!Nodes]
    BY <1>1
  <2>3. /\ device.loop = "high" /\ device.phase = "loop" /\ device.query = Device!NoNode /\ device.popped = Device!NoNode
        /\ device \in [loop : {"high", "normal", "nested"}, phase : {"loop", "execute", "waiting", "executed"},
                       query : Device!NodeOrNone, popped : Device!NodeOrNone]
    BY <1>1 DEF Device!InLoop, Device!NodeOrNone
  <2>4. calls \in 0 .. MaxCalls
    BY <1>1, EngineAssumption
  <2> QED
    BY <1>1, <2>1, <2>2, <2>3, <2>4 DEF DTypes, Device!NodeOrNone
<1>4. BacksFit
  BY <1>1 DEF BacksFit
<1>5. LinksFit /\ EndsFit /\ ReturnedFits /\ UsersFit
  <2>1. \A u \in DeviceUsers : deviceAt[u] = "out" /\ seen[u] = Device!NoNode
    BY <1>1
  <2>2. \A c \in Device!Channels : head[c] = Device!NoNode /\ tail[c] = Device!NoNode
    BY <1>1
  <2>3. \A c \in Device!Channels : tail[c] \notin DOMAIN link
    BY <1>1
  <2>4. LinksFit
    BY <1>1, <1>2 DEF LinksFit
  <2>5. EndsFit
    BY <1>2, <2>1, <2>2 DEF EndsFit
  <2>6. ReturnedFits
    BY <1>1, <2>3 DEF ReturnedFits
  <2>7. UsersFit
    BY <2>1 DEF UsersFit
  <2> QED
    BY <2>4, <2>5, <2>6, <2>7
<1>6. DeviceFits /\ AccessFits /\ Alive
  <2>1. device.loop = "high" /\ device.phase = "loop" /\ device.query = Device!NoNode /\ device.popped = Device!NoNode
    BY <1>1 DEF Device!InLoop
  <2>2. \A u \in DeviceUsers : deviceAt[u] = "out"
    BY <1>1
  <2>3. DeviceFits
    BY <2>1 DEF DeviceFits
  <2>4. AccessFits
    BY <1>1, <2>1, <2>2 DEF AccessFits
  <2>5. Alive
    BY <1>1, <1>2 DEF Alive
  <2> QED
    BY <2>3, <2>4, <2>5
<1> QED
  BY <1>1, <1>3, <1>4, <1>5, <1>6 DEF DInv, DeviceOpen

LEMMA DeviceSteps == DInv /\ [Device!Next]_(Device!vars) => DInv'
<1> SUFFICES ASSUME DInv, [Device!Next]_(Device!vars) PROVE DInv'
  OBVIOUS
<1>1. DTypes /\ BacksFit /\ (DeviceOpen \/ DeviceEnded)
  BY DEF DInv
<1>2. CASE UNCHANGED Device!vars
  <2>1. UNCHANGED <<strayed, link, head, tail, creator, back, nodes, returned, called, deviceAt, mine, seen, calls,
                    device, synchronous, accessStarted, accessEnded, finalized>>
    BY <1>2 DEF Device!vars, Device!queues, Device!results, Device!users, Device!access
  <2>2. DTypes'
    BY <1>1, <2>1 DEF DTypes
  <2>3. BacksFit'
    BY <1>1, <2>1, BacksStay
  <2>4. CASE DeviceOpen
    <3>1. calls \in Nat
      BY <1>1, EngineAssumption DEF DTypes
    <3>2. LinksFit'
      BY <2>1, <2>4, <3>1, LinksStay DEF DeviceOpen
    <3>3. EndsFit'
      BY <2>1, <2>4, EndsStay DEF DeviceOpen
    <3>4. ReturnedFits'
      BY <2>1, <2>4, ReturnedStays DEF DeviceOpen
    <3>5. UsersFit'
      BY <2>1, <2>4, UsersStay DEF DeviceOpen
    <3>6. DeviceFits'
      BY <2>1, <2>4, DeviceStays DEF DeviceOpen
    <3>7. AccessFits'
      BY <2>1, <2>4 DEF DeviceOpen, AccessFits
    <3>8. Alive'
      BY <2>1, <2>4, AliveStays DEF DeviceOpen, Busy
    <3> QED
      BY <2>1, <2>2, <2>3, <2>4, <3>2, <3>3, <3>4, <3>5, <3>6, <3>7, <3>8 DEF DInv, DeviceOpen
  <2>5. CASE DeviceEnded
    BY <2>1, <2>2, <2>3, <2>5 DEF DInv, DeviceEnded, Device!InLoop
  <2> QED
    BY <1>1, <2>4, <2>5
<1>3. CASE Device!Next /\ DeviceOpen
  <2>1. ASSUME NEW u \in DeviceUsers, Device!UserSteps(u) PROVE DInv'
    <3>1. CASE Device!ReadHead(u)
      BY <1>1, <1>3, <3>1, ReadHeadFits DEF DInv
    <3>2. CASE Device!Link(u)
      BY <1>1, <1>3, <3>2, LinkFits DEF DInv
    <3>3. CASE Device!MoveHead(u)
      BY <1>1, <1>3, <3>3, MoveHeadFits DEF DInv
    <3>4. CASE Device!Enter(u)
      BY <1>1, <1>3, <3>4, EnterFits DEF DInv
    <3>5. CASE Device!Leave(u)
      BY <1>1, <1>3, <3>5, LeaveFits DEF DInv
    <3>6. CASE Device!SignalEnded(u)
      BY <1>1, <1>3, <3>6, SignalEndedFits DEF DInv
    <3>7. ASSUME NEW c \in Device!Channels, Device!Dispatch(u, c) PROVE DInv'
      BY <1>1, <1>3, <3>7, DispatchBacks, DispatchFits DEF DInv
    <3> QED
      BY <2>1, <3>1, <3>2, <3>3, <3>4, <3>5, <3>6, <3>7 DEF Device!UserSteps
  <2>2. ASSUME NEW u \in DeviceUsers, NEW c \in Device!Channels, Device!Push(u, c) PROVE DInv'
    BY <1>1, <1>3, <2>2, QueryPushFits DEF DInv
  <2>3. CASE Device!DeviceThread
    <3>1. CASE Device!Pop
      BY <1>1, <1>3, <3>1, QueryPopFits DEF DInv
    <3>2. CASE Device!LoopEnds
      BY <1>1, <1>3, <3>2, LoopEndsFits DEF DInv
    <3>3. CASE Device!GiveAccess
      BY <1>1, <1>3, <3>3, GiveAccessFits DEF DInv
    <3>4. CASE Device!TakeAccess
      BY <1>1, <1>3, <3>4, TakeAccessFits DEF DInv
    <3>5. CASE Device!GiveBack
      BY <1>1, <1>3, <3>5, GiveBackFits DEF DInv
    <3> QED
      BY <2>3, <3>1, <3>2, <3>3, <3>4, <3>5 DEF Device!DeviceThread
  <2>4. CASE Device!Finalize
    BY <1>1, <1>3, <2>4, DeviceFinalizeFits DEF DInv
  <2>5. ~ Device!FinalizeThreadUsage
    BY <1>3 DEF Device!FinalizeThreadUsage, DeviceOpen
  <2> QED
    BY <1>3, <2>1, <2>2, <2>3, <2>4, <2>5 DEF Device!Next
<1>4. CASE Device!Next /\ DeviceEnded
  <2>1. finalized # "open" /\ \A u \in DeviceUsers : deviceAt[u] = "out"
    BY <1>4 DEF DeviceEnded
  <2>2. ASSUME NEW u \in DeviceUsers, Device!UserSteps(u) PROVE DInv'
    <3>1. \E c \in Device!Channels : Device!Dispatch(u, c)
      BY <2>1, <2>2 DEF Device!UserSteps, Device!ReadHead, Device!Link, Device!Touches, Device!MoveHead, Device!Enter, Device!Leave, Device!SignalEnded
    <3>2. PICK c \in Device!Channels : Device!Dispatch(u, c)
      BY <3>1
    <3>3. DTypes' /\ BacksFit'
      BY <1>1, <3>2, DispatchBacks
    <3>4. UNCHANGED <<head, tail, deviceAt, seen, device, synchronous, accessStarted, accessEnded, finalized>>
      BY <3>2 DEF Device!Dispatch, Device!queues, Device!users, Device!access
    <3> QED
      BY <1>4, <3>3, <3>4 DEF DInv, DeviceEnded, Device!InLoop
  <2>3. ~ (\E u \in DeviceUsers, c \in Device!Channels : Device!Push(u, c)) /\ ~ Device!DeviceThread /\ ~ Device!Finalize
    BY <2>1 DEF Device!Push, Device!DeviceThread, Device!Finalize
  <2>4. CASE Device!FinalizeThreadUsage
    BY <1>1, <1>4, <2>4, FinalizeThreadUsageFits DEF DInv
  <2> QED
    BY <1>4, <2>2, <2>3, <2>4 DEF Device!Next
<1> QED
  BY <1>1, <1>2, <1>3, <1>4

LEMMA DeviceTyped == DInv => Device!TypeOK
<1> SUFFICES ASSUME DInv PROVE Device!TypeOK
  OBVIOUS
<1>1. DTypes
  BY DEF DInv
<1>2. \A x \in DOMAIN link : link[x] \in Device!Nodes
  BY <1>1 DEF DTypes
<1>3. \A c \in Device!Channels, u \in DeviceUsers : back[c][u] \in Seq(Device!Nodes)
  BY <1>1 DEF DTypes
<1> QED
  BY <1>1, <1>2, <1>3 DEF DTypes, Device!TypeOK

LEMMA DeviceAsserts == DInv => Device!AssertionsOfTheCode
<1> SUFFICES ASSUME DInv PROVE Device!AssertionsOfTheCode
  OBVIOUS
<1>1. DTypes
  BY DEF DInv
<1>2. CASE DeviceOpen
  <2>1. ASSUME deviceAt = [u \in DeviceUsers |-> "out"], NEW c \in Device!Channels, head[c] # Device!NoNode, Device!First(c) = Device!NoNode
        PROVE  head[c] = tail[c]
    <3>1. tail[c] \in Linked /\ tail[c].channel = c
      BY <1>2, <2>1 DEF DeviceOpen, EndsFit
    <3>2. tail[c] \notin DOMAIN link
      BY <1>1, <2>1, NodeFacts DEF Device!First, Device!NextOf, DTypes
    <3>3. \A u \in DeviceUsers : deviceAt[u] # "moving"
      BY <2>1
    <3> QED
      BY <1>2, <3>1, <3>2, <3>3 DEF DeviceOpen, EndsFit
  <2> QED
    BY <1>2, <2>1 DEF Device!AssertionsOfTheCode, DeviceOpen, AccessFits
<1>3. CASE DeviceEnded
  BY <1>3 DEF Device!AssertionsOfTheCode, DeviceEnded, Device!InLoop
<1> QED
  BY <1>2, <1>3 DEF DInv

LEMMA DeviceUsesLive == DInv => Device!UsesLiveQueries
<1> SUFFICES ASSUME DInv PROVE Device!UsesLiveQueries
  OBVIOUS
<1>1. DTypes /\ BacksFit
  BY DEF DInv
<1>2. \A c \in Device!Channels, u \in DeviceUsers : \A i, j \in 1 .. Len(back[c][u]) :
          back[c][u][i] \in nodes /\ (back[c][u][i] = back[c][u][j] => i = j)
  BY <1>1 DEF BacksFit
<1>3. CASE DeviceEnded
  <2>1. /\ \A c \in Device!Channels : head[c] = Device!NoNode /\ tail[c] = Device!NoNode
        /\ \A u \in DeviceUsers : seen[u] = Device!NoNode /\ deviceAt[u] = "out"
        /\ device.query = Device!NoNode /\ device.popped = Device!NoNode
    BY <1>3 DEF DeviceEnded, Device!InLoop
  <2> QED
    BY <1>2, <2>1 DEF Device!UsesLiveQueries
<1>4. CASE DeviceOpen
  <2>1. ASSUME NEW c \in Device!Channels, head[c] # Device!NoNode, NEW y, y = head[c] \/ y = tail[c] PROVE y \in nodes
    <3>1. y \in Linked /\ Device!Owner(y) \in DeviceUsers
      BY <1>1, <1>4, <2>1, OwnerIsUser DEF DeviceOpen, EndsFit
    <3>2. CASE y \notin returned
      BY <1>4, <3>1, <3>2 DEF DeviceOpen, Alive
    <3>3. CASE y \in returned
      <4>1. In(back[c][Device!Owner(y)], y) \/ LastOf(back[c][Device!Owner(y)], y)
        BY <1>4, <2>1, <3>3 DEF DeviceOpen, Alive
      <4>2. Len(back[c][Device!Owner(y)]) \in Nat
        BY <1>1, <3>1 DEF DTypes
      <4>3. \E i \in 1 .. Len(back[c][Device!Owner(y)]) : back[c][Device!Owner(y)][i] = y
        BY <4>1, <4>2 DEF In, LastOf
      <4> QED
        BY <1>2, <3>1, <4>3
    <3> QED
      BY <3>2, <3>3
  <2>2. \A c \in Device!Channels : tail[c] # Device!NoNode => head[c] # Device!NoNode
    BY <1>4 DEF DeviceOpen, EndsFit
  <2>3. \A y : y # Device!NoNode /\ (y = device.query \/ y = device.popped) => y \in Linked \ returned
    BY <1>4 DEF DeviceOpen, DeviceFits, Linked
  <2>4. \A y : y # Device!NoNode /\ (y = device.query \/ y = device.popped) => y \in nodes
    BY <1>4, <2>3 DEF DeviceOpen, Alive
  <2>5. \A u \in DeviceUsers : deviceAt[u] # "out" => mine[u] \in nodes
    BY <1>4 DEF DeviceOpen, UsersFit
  <2>6. \A u \in DeviceUsers : deviceAt[u] = "linking" =>
            seen[u] \in {head[mine[u].channel]} \cup DOMAIN link
    BY <1>4 DEF DeviceOpen, UsersFit
  <2>7. \A c \in Device!Channels : (head[c] # Device!NoNode => head[c] \in nodes) /\ (tail[c] # Device!NoNode => tail[c] \in nodes)
    BY <2>1, <2>2
  <2> QED
    BY <1>2, <2>4, <2>5, <2>6, <2>7 DEF Device!UsesLiveQueries
<1> QED
  BY <1>3, <1>4 DEF DInv

\* Where every query of a device is holds, for any number of users and queries.
THEOREM DeviceInvariant == Device!Spec => []DInv
BY DeviceStarts, DeviceSteps, PTL DEF Device!Spec

\* The variables of the device's queries keep their types.
THEOREM DeviceTypeCorrect == Device!Spec => []Device!TypeOK
BY DeviceInvariant, DeviceTyped, PTL

\* Synchronous access is exclusive: who is inside is the one whose query the thread of
\* the device waits with, the id is free when the next query is executed, and the
\* null node of an emptied channel is both of its ends when it is finalized.
THEOREM AccessIsExclusive == Device!Spec => []Device!AssertionsOfTheCode
BY DeviceInvariant, DeviceAsserts, PTL

\* Queries are deleted by their users while the device's queue still has them for
\* its null node, and yet no query is that the device, or a user that has not got it
\* back, holds; none goes back twice, and the head that push_back has read is
\* the head or has been linked to (it may be deleted then: HeadStaysAlive).
THEOREM QueriesInUseLive == Device!Spec => []UsesLiveQueries
<1>1. DInv => UsesLiveQueries
  BY DeviceUsesLive DEF UsesLiveQueries
<1> QED
  BY <1>1, DeviceInvariant, PTL

-----------------------------------------------------------------------------
(* The engine: what holds of a part holds whatever a behaviour is about.   *)

\* What is proved of remote calls and of the name registry, in the engine's variables.
ApcProofs      == INSTANCE RemoteCallsProofs
RegistryProofs == INSTANCE NameRegistryProofs WITH at <- userAt, next <- nextReferer

\* They are proved of the specification the engine has.
LEMMA CallsSpecSame == Apc!Spec => ApcProofs!Spec
<1>1. Apc!Init => ApcProofs!Init
  BY DEF Apc!Init, ApcProofs!Init
<1>2. UNCHANGED Apc!vars => UNCHANGED ApcProofs!vars
  BY DEF Apc!vars, ApcProofs!vars, Apc!mailbox, ApcProofs!mailbox
<1>3. Apc!Next => ApcProofs!Next
  BY DEF Apc!Next, ApcProofs!Next, Apc!Caller, ApcProofs!Caller, Apc!Logic, ApcProofs!Logic,
         Apc!Wait, ApcProofs!Wait, Apc!StoreCallback, ApcProofs!StoreCallback, Apc!StoreBreak,
         ApcProofs!StoreBreak, Apc!Raise, ApcProofs!Raise, Apc!Complete, ApcProofs!Complete,
         Apc!StartDestruction, ApcProofs!StartDestruction, Apc!Process, ApcProofs!Process,
         Apc!Processed, ApcProofs!Processed, Apc!Frame, ApcProofs!Frame, Apc!Try, ApcProofs!Try,
         Apc!Tried, ApcProofs!Tried, Apc!Last, ApcProofs!Last, Apc!StartupBreak,
         ApcProofs!StartupBreak, Apc!mailbox, ApcProofs!mailbox, Apc!Breaks, ApcProofs!Breaks,
         Apc!WaitsFor, ApcProofs!WaitsFor, Apc!Processing, ApcProofs!Processing
<1>4. [Apc!Next]_(Apc!vars) => [ApcProofs!Next]_(ApcProofs!vars)
  BY <1>2, <1>3
<1> QED
  BY <1>1, <1>4, PTL DEF Apc!Spec, ApcProofs!Spec

LEMMA CallsTypesSame == ApcProofs!TypeOK => Apc!TypeOK
BY DEF Apc!TypeOK, ApcProofs!TypeOK, Apc!Calls, ApcProofs!Calls, Apc!Last, ApcProofs!Last,
         Apc!Processing, ApcProofs!Processing

LEMMA RegistrySpecSame == Registry!Spec => RegistryProofs!Spec
<1>1. Registry!Init => RegistryProofs!Init
  BY DEF Registry!Init, RegistryProofs!Init, Registry!Idle, RegistryProofs!Idle
<1>2. UNCHANGED Registry!vars => UNCHANGED RegistryProofs!vars
  BY DEF Registry!vars, RegistryProofs!vars, Registry!registry, RegistryProofs!registry,
         Registry!cook, RegistryProofs!cook, Registry!outcome, RegistryProofs!outcome,
         Registry!ring, RegistryProofs!ring, Registry!lifetime, RegistryProofs!lifetime
<1>3. Registry!Next => RegistryProofs!Next
  BY DEF Registry!Next, RegistryProofs!Next, Registry!ResourcesThread,
         RegistryProofs!ResourcesThread, Registry!Try, RegistryProofs!Try, Registry!Translate,
         RegistryProofs!Translate, Registry!Translated, RegistryProofs!Translated,
         Registry!FinishQuery, RegistryProofs!FinishQuery, Registry!Release,
         RegistryProofs!Release, Registry!Destroy, RegistryProofs!Destroy, Registry!Take,
         RegistryProofs!Take, Registry!Register, RegistryProofs!Register, Registry!FirstReferer,
         RegistryProofs!FirstReferer, Registry!CopyResult, RegistryProofs!CopyResult,
         Registry!ClearReference, RegistryProofs!ClearReference, Registry!EndHost,
         RegistryProofs!EndHost, Registry!Meets, RegistryProofs!Meets, Registry!Unnamed,
         RegistryProofs!Unnamed, Registry!Goto, RegistryProofs!Goto, Registry!registry,
         RegistryProofs!registry, Registry!cook, RegistryProofs!cook, Registry!outcome,
         RegistryProofs!outcome, Registry!ring, RegistryProofs!ring, Registry!lifetime,
         RegistryProofs!lifetime, Registry!HandOver, RegistryProofs!HandOver, Registry!StillUnused,
         RegistryProofs!StillUnused, Registry!ReadEntry, RegistryProofs!ReadEntry,
         Registry!Unregister, RegistryProofs!Unregister, Registry!Delete, RegistryProofs!Delete,
         Registry!Walks, RegistryProofs!Walks, Registry!Idle, RegistryProofs!Idle,
         Registry!AddReferrer, RegistryProofs!AddReferrer, Registry!Reuse, RegistryProofs!Reuse
<1>4. [Registry!Next]_(Registry!vars) => [RegistryProofs!Next]_(RegistryProofs!vars)
  BY <1>2, <1>3
<1> QED
  BY <1>1, <1>4, PTL DEF Registry!Spec, RegistryProofs!Spec

\* What the registry's proofs assume of its queries.
LEMMA RegistryQueries == RegistryProofs!IsFiniteSet(Queries) /\ None \notin Queries
BY QueriesAssumption DEF IsFiniteSet, RegistryProofs!IsFiniteSet

LEMMA RegistryTypesSame == RegistryProofs!TypeOK => Registry!TypeOK
BY DEF Registry!TypeOK, RegistryProofs!TypeOK

\* Each part makes its own steps, or none.
LEMMA EachPartBehaves ==
    EngineSpec => Spec /\ Apc!Spec /\ Loop!Spec /\ Channel!Spec /\ Registry!Spec /\ Device!Spec
<1>1. EngineInit => Init /\ Apc!Init /\ Loop!Init /\ Channel!Init /\ Registry!Init /\ Device!Init
  BY DEF EngineInit
<1> DEFINE all == <<subject, vars, apcVars, channelVars, loopVars, treeVars, registryVars, deviceVars>>
<1>2. [EngineNext]_all => [Loop!Next]_(Loop!vars)
  <2>1. UNCHANGED loopVars => UNCHANGED Loop!vars
    BY DEF loopVars, Loop!vars, Loop!world, Loop!ahead, Loop!game
  <2>2. EngineNext => Loop!Next \/ UNCHANGED loopVars
    BY DEF EngineNext
  <2>3. UNCHANGED all => UNCHANGED loopVars
    OBVIOUS
  <2> QED
    BY <2>1, <2>2, <2>3
<1>3. [EngineNext]_all => [Channel!Next]_(Channel!vars)
  <2>1. UNCHANGED channelVars => UNCHANGED Channel!vars
    BY DEF channelVars, Channel!vars, Channel!channel, Channel!lists
  <2>2. EngineNext => Channel!Next \/ UNCHANGED channelVars
    BY DEF EngineNext
  <2>3. UNCHANGED all => UNCHANGED channelVars
    OBVIOUS
  <2> QED
    BY <2>1, <2>2, <2>3
<1>4. [EngineNext]_all => [Device!Next]_(Device!vars)
  <2>1. UNCHANGED deviceVars => UNCHANGED Device!vars
    BY DEF deviceVars, Device!vars, Device!queues, Device!results, Device!users, Device!access
  <2>2. EngineNext => Device!Next \/ UNCHANGED deviceVars
    BY DEF EngineNext
  <2>3. UNCHANGED all => UNCHANGED deviceVars
    OBVIOUS
  <2> QED
    BY <2>1, <2>2, <2>3
<1>5. [EngineNext]_all => [Next]_vars
  BY DEF EngineNext
<1>6. [EngineNext]_all => [Apc!Next]_(Apc!vars)
  <2>1. UNCHANGED apcVars => UNCHANGED Apc!vars
    BY DEF apcVars, Apc!vars, Apc!mailbox
  <2>2. EngineNext => Apc!Next \/ UNCHANGED apcVars
    BY DEF EngineNext
  <2>3. UNCHANGED all => UNCHANGED apcVars
    OBVIOUS
  <2> QED
    BY <2>1, <2>2, <2>3
<1>7. [EngineNext]_all => [Registry!Next]_(Registry!vars)
  <2>1. UNCHANGED registryVars => UNCHANGED Registry!vars
    BY DEF registryVars, Registry!vars, Registry!registry, Registry!cook, Registry!outcome, Registry!ring, Registry!lifetime
  <2>2. EngineNext => Registry!Next \/ UNCHANGED registryVars
    BY DEF EngineNext
  <2>3. UNCHANGED all => UNCHANGED registryVars
    OBVIOUS
  <2> QED
    BY <2>1, <2>2, <2>3
<1> QED
  BY <1>1, <1>2, <1>3, <1>4, <1>5, <1>6, <1>7, PTL
     DEF EngineSpec, Spec, Apc!Spec, Loop!Spec, Channel!Spec, Registry!Spec, Device!Spec

\* The variables of every part keep their types.
THEOREM EngineTypeCorrect == EngineSpec => []EngineTypesOK
<1>1. Apc!Spec => []Apc!TypeOK
  <2>1. ApcProofs!Spec => []ApcProofs!TypeOK
    BY ApcProofs!RemoteCallsTypeCorrect, CallersAssumption
  <2> QED
    BY <2>1, CallsSpecSame, CallsTypesSame, PTL
<1>2. Registry!Spec => []Registry!TypeOK
  <2>1. RegistryProofs!Spec => []RegistryProofs!TypeOK
    BY RegistryProofs!RegistryTypeCorrect, RegistryQueries
  <2> QED
    BY <2>1, RegistrySpecSame, RegistryTypesSame, PTL
<1>3. TypeOK /\ Apc!TypeOK /\ Channel!TypeOK /\ Loop!TypeOK /\ Registry!TypeOK /\ Device!TypeOK => EngineTypesOK
  BY DEF EngineTypesOK
<1> QED
  BY <1>1, <1>2, <1>3, EachPartBehaves, SimpleTypeCorrect, FrameLoopTypeCorrect, RenderChannelTypeCorrect,
     DeviceTypeCorrect, PTL

\* What the frame loop and the device assert holds, if the editor switches the game
\* at most twice: the renderer may see a third switch before the second.
THEOREM EngineAssertionsHold == ASSUME MaxSwitches <= 2 PROVE EngineSpec => []EngineAssertions
<1>1. Loop!TypeOK => switches <= 2
  BY EngineAssumption DEF Loop!TypeOK
<1>2. /\ Loop!TypeOK /\ Device!AssertionsOfTheCode
      /\ ~isEditor \/ switches <= 2 => Loop!AssertionsOfTheCode
      => EngineAssertions
  BY <1>1 DEF EngineAssertions
<1> QED
  BY <1>2, EachPartBehaves, FrameLoopTypeCorrect, FrameAssertionsHold, AccessIsExclusive, PTL

\* The engine as a whole, with any number of threads, calls, commands and queries:
\* locks count what their owners owe and calls run once and in order; commands and
\* queries are used only while they live, commands are kept until they are drawn
\* and delivered in order; no thread runs away from the renderer, and the registry
\* names no resource that is deleted.
THEOREM EngineKeepsItsParts ==
    EngineSpec => /\ [](CountIsOwnersDebt /\ RunsOnceInOrder /\ RegistryNamesWhatLives)
                  /\ [](NothingUsedIsDeleted /\ DeferredUntilDrawn /\ UsesLiveQueries /\ NeitherRunsAway)
                  /\ ImplementsPromise /\ ImplementsDelivery
<1>1. Apc!Spec => []RunsOnceInOrder
  <2>1. ApcProofs!Spec => []ApcProofs!RunsOnceInOrder
    BY ApcProofs!CallsRunOnceInOrder, CallersAssumption
  <2>2. ApcProofs!RunsOnceInOrder => RunsOnceInOrder
    BY DEF RunsOnceInOrder, ApcProofs!RunsOnceInOrder, WaitsFor, ApcProofs!WaitsFor, StartupBreak,
           ApcProofs!StartupBreak, Last, ApcProofs!Last
  <2> QED
    BY <2>1, <2>2, CallsSpecSame, PTL
<1>2. Registry!Spec => []RegistryNamesWhatLives
  <2>1. RegistryProofs!Spec => []RegistryProofs!RegistryNamesWhatLives
    BY RegistryProofs!OneCookPerName, RegistryQueries
  <2>2. RegistryProofs!RegistryNamesWhatLives => RegistryNamesWhatLives
    BY DEF RegistryNamesWhatLives, RegistryProofs!RegistryNamesWhatLives, IsCooked,
           RegistryProofs!IsCooked, Walks, RegistryProofs!Walks
  <2> QED
    BY <2>1, <2>2, RegistrySpecSame, PTL
<1> QED
  BY <1>1, <1>2, EachPartBehaves, SimpleCountHolds, SimpleImplementation, UsedIsAlive, KeptUntilDrawn,
     QueriesInUseLive, ThreadsKeepStep, ChannelImplementsDelivery, PTL
=============================================================================
