---------------------------- MODULE RenderChannel ----------------------------
(***************************************************************************)
(* xray::render::one_way_render_channel: the logic (or editor) thread, the *)
(* owner, sends commands to the render thread (render/facade,              *)
(* one_way_render_channel.cpp and _inline.h, debug_draw_lines_command.cpp).*)
(*                                                                         *)
(* A deferred command is not executed when it is popped: it is appended to *)
(* the list of its scene, executed by every command that draws the scene,  *)
(* and given back at the end of the frame if the scene was drawn.          *)
(* remove_frame_id is 0 in every command of this build, so a command is    *)
(* kept beyond its pop only while it is deferred.                          *)
(***************************************************************************)
EXTENDS ThreadsChannel

CONSTANT Scenes     \* scenes and scene views, whatever has a command list

VARIABLES
    kind,           \* what each command on its way will do
    isDeferred,     \* the commands whose is_deferred_command is set
    list,           \* first_command .. last_command of each scene
    drawn,          \* m_scenes, m_scene_views
    render,         \* where the render thread is
    cursor,         \* the scene whose list move_commands_from_list walks
    look,           \* owner_push_back: what user_is_queue_empty has seen
    event,          \* m_wait_form_command_event
    closed          \* owner_finalize was called

lists == <<kind, isDeferred, list, drawn>>
vars  == <<channel, lists, render, cursor, look, event, closed>>

Kinds == [type : {"deferred", "draw"}, scene : Scenes] \cup [type : {"end_frame", "null"}]
NullCommand == [type |-> "null"]

\* Where owner_push_back is: it reads m_tail, then m_tail->next, then pushes.
NoLook == [at |-> "out", tail |-> Null, empty |-> FALSE]

Init ==
    /\ ChannelInit
    /\ kind = [x \in Items |-> NullCommand]
    /\ isDeferred = {}
    /\ list = [s \in Scenes |-> <<>>]
    /\ drawn = {}
    /\ render = "loop" /\ cursor = <<>>
    /\ look = NoLook
    /\ event = FALSE
    /\ closed = FALSE

-----------------------------------------------------------------------------
(* The owner.                                                              *)

\* owner_push_back asks whether the queue is empty: m_tail ...
LookAtTail ==
    /\ Open /\ look.at = "out"
    /\ look' = [look EXCEPT !.at = "tail", !.tail = forward.tail]
    /\ UNCHANGED <<channel, lists, render, cursor, event, closed>>

\* ... and then its link, which may by now be the link of a value given back.
LookAtLink ==
    /\ look.at = "tail"
    /\ look' = [at |-> "link", tail |-> Null, empty |-> next[look.tail] = Null]
    /\ UNCHANGED <<channel, lists, render, cursor, event, closed>>

\* The push, and the event if the queue was seen empty.
Push(x, k) ==
    /\ look.at = "link"
    /\ x \notin allocated
    /\ OwnerPushBack(x)
    /\ kind' = [kind EXCEPT ![x] = k]
    /\ isDeferred' = IF k.type = "deferred" THEN isDeferred \cup {x} ELSE isDeferred \ {x}
    /\ event' = (event \/ look.empty)
    /\ look' = NoLook
    /\ UNCHANGED <<list, drawn, render, cursor, closed>>

\* owner_delete_processed_items, one of them
DeleteProcessed ==
    /\ Open /\ look = NoLook
    /\ OwnerDeleteProcessedItem
    /\ UNCHANGED <<lists, render, cursor, look, event, closed>>

\* owner_finalize, when the render thread has drained the channel for good
\* (engine_world::finalize).
Finalize ==
    /\ Open /\ look = NoLook
    /\ render = "loop" /\ Empty(forward)
    /\ OwnerFinalize
    /\ closed' = TRUE
    /\ UNCHANGED <<lists, render, cursor, look, event>>

-----------------------------------------------------------------------------
(* The render thread.                                                      *)

\* pop_front_predicate
NotDeferred == Items \ isDeferred

\* render_process_commands finds the queue empty and waits for the event, for
\* 16 ms at most.
StartWaiting ==
    /\ Open /\ render = "loop" /\ Empty(forward)
    /\ render' = "waiting"
    /\ UNCHANGED <<channel, lists, cursor, look, event, closed>>

WakeUp ==
    /\ render = "waiting" /\ event
    /\ render' = "loop" /\ event' = FALSE
    /\ UNCHANGED <<channel, lists, cursor, look, closed>>

\* Mutant: the wait has no timeout.
TimeOutNever == WakeUp

TimeOut ==
    /\ render = "waiting"
    /\ render' = "loop"
    /\ UNCHANGED <<channel, lists, cursor, look, event, closed>>

Popping(x) ==
    /\ Open /\ render = "loop"
    /\ ~Empty(forward) /\ x = next[forward.tail]
    /\ UserPopFront(NotDeferred)
    /\ kind' = [kind EXCEPT ![x] = NullCommand]

\* defer_execution
Defer(x) ==
    /\ kind[x].type = "deferred"
    /\ Popping(x)
    /\ list' = [list EXCEPT ![kind[x].scene] = Append(@, x)]
    /\ UNCHANGED <<isDeferred, drawn, render, cursor, look, event, closed>>

\* render_on_draw_scene with !use_depth: executes the list of the scene.
Draw(x) ==
    /\ kind[x].type = "draw"
    /\ Popping(x)
    /\ drawn' = drawn \cup {kind[x].scene}
    /\ UNCHANGED <<isDeferred, list, render, cursor, look, event, closed>>

\* The command that ends the frame: render_on_end_frame begins.
EndFrame(x) ==
    /\ kind[x].type = "end_frame"
    /\ Popping(x)
    /\ render' = "end_frame"
    /\ UNCHANGED <<isDeferred, list, drawn, cursor, look, event, closed>>

\* The next drawn scene; after the last one the render thread goes on.
NextScene ==
    /\ render = "end_frame" /\ cursor = <<>>
    /\ \/ \E s \in drawn :
             /\ drawn' = drawn \ {s}
             /\ cursor' = list[s]
             /\ list' = [list EXCEPT ![s] = <<>>]
             /\ UNCHANGED render
       \/ drawn = {} /\ render' = "loop" /\ UNCHANGED <<drawn, cursor, list>>
    /\ UNCHANGED <<channel, kind, isDeferred, look, event, closed>>

\* move_commands_from_list gives one command back ...
MoveCommand ==
    /\ render = "end_frame" /\ cursor # <<>>
    /\ isDeferred' = isDeferred \ {Head(cursor)}
    /\ UserDeleteDeferredValue(Head(cursor))
    /\ render' = "moved"
    /\ UNCHANGED <<kind, list, drawn, cursor, look, event, closed>>

\* ... and then reads its deferred_next.
MoveOn ==
    /\ render = "moved"
    /\ cursor' = Tail(cursor)
    /\ render' = "end_frame"
    /\ UNCHANGED <<channel, lists, look, event, closed>>

-----------------------------------------------------------------------------
OwnerCalls ==
    \/ LookAtTail \/ LookAtLink \/ DeleteProcessed \/ Finalize
    \/ \E x \in Items, k \in Kinds \ {NullCommand} : Push(x, k)
Executing == \E x \in Items : Defer(x) \/ Draw(x) \/ EndFrame(x)
Render == WakeUp \/ TimeOut \/ Executing \/ NextScene \/ MoveCommand \/ MoveOn

Next == OwnerCalls \/ Render \/ StartWaiting

Spec == Init /\ [][Next]_vars

\* The render thread runs; its wait ends by the event or by its timeout.
FairSpec == Spec /\ WF_vars(Render)

-----------------------------------------------------------------------------
TypeOK ==
    /\ ChannelTypeOK
    /\ kind \in [Items -> Kinds] /\ isDeferred \subseteq Items
    /\ list \in [Scenes -> Seq(Items)] /\ drawn \subseteq Scenes
    /\ render \in {"loop", "waiting", "end_frame", "moved"} /\ cursor \in Seq(Items)
    /\ look \in [at : {"out", "tail", "link"}, tail : Items \cup {Null}, empty : BOOLEAN]
    /\ event \in BOOLEAN /\ closed \in BOOLEAN

Deferred == (UNION {Elements(list[s]) : s \in Scenes}) \cup Elements(cursor)

\* Everything a thread may still touch is alive: both queues, the lists of the
\* scenes, the command whose deferred_next the render thread is about to read
\* although it has given it back, the link the owner is about to look at.
NothingUsedIsDeleted ==
    Open => /\ Elements(Chain(forward)) \cup Elements(Chain(backward)) \subseteq allocated
            /\ Deferred \subseteq allocated
            /\ look.at = "tail" => look.tail \in allocated

\* A deferred command is in one list, once, from its pop to the end of a frame
\* that drew its scene, and the owner gets it back only then.  After owner_finalize
\* the only commands left are those of scenes nobody drew.
DeferredUntilDrawn ==
    /\ Open =>
        /\ \A x \in Deferred :
              x \in isDeferred \/ (render = "moved" /\ x = Head(cursor))
        /\ \A s, r \in Scenes : s # r => Elements(list[s]) \cap Elements(list[r]) = {}
        /\ \A s \in Scenes : Cardinality(Elements(list[s])) = Len(list[s])
        /\ Elements(Values(backward)) \cap isDeferred = {}
    /\ closed => allocated \subseteq Deferred

\* As long as there are commands the render thread goes on popping them, in the
\* order they were pushed: each is executed or deferred, although the owner may
\* see the queue as not empty just before it becomes so and set no event.
PushedIsProcessed ==
    []<>(~Open \/ Empty(forward)) \/ []<><<forward'.tail # forward.tail>>_channel

\* The two queues and the lists deliver in order and delete what was given back.
Promise == INSTANCE Delivery
           WITH sent <- IF Open THEN Values(forward) ELSE <<>>,
                held <- IF Open THEN allocated \ (Elements(Values(forward)) \cup Elements(Chain(backward)))
                                ELSE allocated,
                returned <- IF Open THEN Chain(backward) ELSE <<>>
ImplementsDelivery == Promise!Spec
=============================================================================
