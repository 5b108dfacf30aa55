--------------------------- MODULE ThreadsChannel ---------------------------
(***************************************************************************)
(* xray::one_way_threads_channel over two xray::intrusive_spsc_queue's     *)
(* (one_way_threads_channel_inline.h, intrusive_spsc_queue_inline.h).  The *)
(* forward queue carries values from the owner to the user, the backward   *)
(* queue carries them back to be deleted by the owner, who allocated them. *)
(*                                                                         *)
(* A queue is a chain of nodes from m_tail to m_head.  Its first node, the *)
(* null node, holds no value any more: it is the last one popped, and it   *)
(* leaves the queue when the next one is popped.  The two ends belong to   *)
(* one thread each and the link between them is the only word they share,  *)
(* so a push and a pop are one step each.                                  *)
(*                                                                         *)
(* This module has the calls; RenderChannel says who makes them and when.  *)
(***************************************************************************)
EXTENDS Naturals, Sequences, FiniteSets

CONSTANTS
    Items,          \* addresses of values (commands)
    Null            \* the null pointer

VARIABLES
    next,           \* the intrusive link of each value
    forward,        \* m_forward_queue:  [head, tail]
    backward,       \* m_backward_queue: [head, tail]
    allocated       \* the values that are not deleted

channel == <<next, forward, backward, allocated>>

Empty(q) == next[q.tail] = Null

\* owner_initialize: a null node for each queue, the first two allocations
ChannelInit ==
    LET x == CHOOSE i \in Items : TRUE
        y == CHOOSE i \in Items : i # x
    IN  /\ forward  = [head |-> x, tail |-> x]
        /\ backward = [head |-> y, tail |-> y]
        /\ allocated = {x, y}
        /\ next = [i \in Items |-> Null]

\* Mutant: a pop goes to the end.
PoppedAll(q) == [q EXCEPT !.tail = q.head]

\* push_back and pop_front: the links, the queue.
Linked(q, x) == [next EXCEPT ![x] = Null, ![q.head] = x]
Pushed(q, x) == [q EXCEPT !.head = x]
Popped(q)    == [q EXCEPT !.tail = next[q.tail]]

\* owner_push_back of a value just allocated
OwnerPushBack(x) ==
    /\ next' = Linked(forward, x)
    /\ forward' = Pushed(forward, x)
    /\ allocated' = allocated \cup {x}
    /\ UNCHANGED backward

\* Mutant: every null node is sent back, deferred or not.
UserPopFrontAlways(predicate) ==
    /\ ~Empty(forward)
    /\ forward' = Popped(forward)
    /\ next' = Linked(backward, forward.tail)
    /\ backward' = Pushed(backward, forward.tail)
    /\ UNCHANGED allocated

\* user_pop_front: the value is the new null node; the old one goes back to the
\* owner if the predicate, the set of values it is true of, says so.
UserPopFront(predicate) ==
    /\ ~Empty(forward)
    /\ forward' = Popped(forward)
    /\ IF forward.tail \in predicate
       THEN /\ next' = Linked(backward, forward.tail)
            /\ backward' = Pushed(backward, forward.tail)
       ELSE UNCHANGED <<next, backward>>
    /\ UNCHANGED allocated

\* user_delete_deffered_value
UserDeleteDeferredValue(x) ==
    /\ IF x # forward.tail
       THEN next' = Linked(backward, x) /\ backward' = Pushed(backward, x)
       ELSE UNCHANGED <<next, backward>>
    /\ UNCHANGED <<forward, allocated>>

\* Mutants: the value popped is deleted, not the one before it; an empty queue
\* is popped.
OwnerDeletePopped ==
    /\ ~Empty(backward)
    /\ backward' = Popped(backward)
    /\ allocated' = allocated \ {next[backward.tail]}
    /\ UNCHANGED <<next, forward>>
OwnerDeleteAnyway ==
    /\ backward.tail # Null
    /\ backward' = Popped(backward)
    /\ allocated' = allocated \ {backward.tail}
    /\ next' = [next EXCEPT ![backward.tail] = Null]
    /\ UNCHANGED forward

\* owner_get_next_value_to_delete and delete_value (a deleted value has no link)
OwnerDeleteProcessedItem ==
    /\ ~Empty(backward)
    /\ backward' = Popped(backward)
    /\ allocated' = allocated \ {backward.tail}
    /\ next' = [next EXCEPT ![backward.tail] = Null]
    /\ UNCHANGED forward

\* The values of a queue, the null node first.
Chain(q) ==
    LET Extended(s) == IF s[Len(s)] \in {q.head, Null} THEN s ELSE Append(s, next[s[Len(s)]])
        chain[n \in 1..Cardinality(Items)] == IF n = 1 THEN <<q.tail>> ELSE Extended(chain[n - 1])
    IN chain[Cardinality(Items)]

\* The values in it, the null node left out.
Values(q) == Tail(Chain(q))

Elements(s) == {s[i] : i \in 1..Len(s)}

\* owner_finalize, after the user's last call: deletes both queues.
OwnerFinalize ==
    /\ allocated' = allocated \ (Elements(Chain(forward)) \cup Elements(Chain(backward)))
    /\ forward'  = [head |-> Null, tail |-> Null]
    /\ backward' = [head |-> Null, tail |-> Null]
    /\ UNCHANGED next

-----------------------------------------------------------------------------
Ends == [head : Items, tail : Items] \cup [head : {Null}, tail : {Null}]
ChannelTypeOK ==
    /\ next \in [Items -> Items \cup {Null}]
    /\ forward \in Ends /\ backward \in Ends
    /\ allocated \subseteq Items

Open == forward.tail # Null

=============================================================================
