------------------------------ MODULE FreeList ------------------------------
(***************************************************************************)
(* The task allocator's free list (tasks_allocator.h, tasks_allocator.cpp),*)
(* a stack of free nodes changed by compare-exchange of its head.  A       *)
(* counter in the head, increased by every pop, is meant to make a pop     *)
(* fail that has read the link of a node popped and pushed since.          *)
(*                                                                         *)
(* How the head is laid out depends on the platform: on 32-bit ones the    *)
(* pointer and the counter are one 64-bit word, which is copied whole or   *)
(* in two halves; on 64-bit ones the counter lies outside of the 64 bits   *)
(* that are compared and exchanged (tasks_allocator.h:64-67).              *)
(***************************************************************************)
EXTENDS Naturals, FiniteSets

CONSTANTS
    Users,              \* threads that spawn tasks or drop references
    Nodes, Null,        \* the task buffers, the null pointer
    Layouts,            \* subset of {"whole", "halves", "pointer_only"}
    MaxAllocations      \* bound on the allocations of a behaviour

VARIABLES
    layout,             \* of this build
    head,               \* m_free_list: [pointer, counter]
    link,               \* m_next_task_in_allocator of each node
    free,               \* the nodes whose m_state is state_deallocated
    owned,              \* nodes handed out and not given back yet
    at, copy, node,     \* where each user is, its copy of the head, its node
    allocations

vars == <<layout, head, link, free, owned, at, copy, node, allocations>>

\* The chain the constructor builds, in an order of no importance.
InitialChain == CHOOSE s \in [1 .. Cardinality(Nodes) -> Nodes] :
                    \A i, j \in DOMAIN s : i # j => s[i] # s[j]

Init ==
    /\ layout \in Layouts
    /\ head = [pointer |-> InitialChain[1], counter |-> 0]
    /\ link = [n \in Nodes |->
                  LET i == CHOOSE k \in DOMAIN InitialChain : InitialChain[k] = n
                  IN IF i = Cardinality(Nodes) THEN Null ELSE InitialChain[i + 1]]
    /\ free = Nodes /\ owned = {}
    /\ at = [u \in Users |-> "out"]
    /\ copy = [u \in Users |-> [pointer |-> Null, counter |-> 0]]
    /\ node = [u \in Users |-> Null]
    /\ allocations = 0

-----------------------------------------------------------------------------
AllocateBegins(u) ==
    /\ at[u] = "out" /\ allocations < MaxAllocations
    /\ at' = [at EXCEPT ![u] = "allocating"]
    /\ allocations' = allocations + 1
    /\ UNCHANGED <<layout, head, link, free, owned, copy, node>>

\* deallocate, by whoever drops the last reference to an executed task
DeallocateBegins(u, n) ==
    /\ at[u] = "out" /\ n \in owned /\ n \notin free
    /\ owned' = owned \ {n}
    /\ free' = free \cup {n}
    /\ at' = [at EXCEPT ![u] = "deallocating"]
    /\ node' = [node EXCEPT ![u] = n]
    /\ UNCHANGED <<layout, head, link, copy, allocations>>

Copying == {"allocating", "deallocating"}
Copied(place) == IF place = "allocating" THEN "load_link" ELSE "store_link"

\* A copy of the head, in one piece ...
Copy(u) ==
    /\ at[u] \in Copying
    /\ layout # "halves"
    /\ copy' = [copy EXCEPT ![u] = head]
    /\ at' = [at EXCEPT ![u] = Copied(at[u])]
    /\ UNCHANGED <<layout, head, link, free, owned, node, allocations>>

\* ... or in halves, in the order the compiler chose.
CopyHalf(u) ==
    /\ at[u] \in Copying
    /\ layout = "halves"
    /\ \/ /\ copy' = [copy EXCEPT ![u].pointer = head.pointer]
          /\ at' = [at EXCEPT ![u] = IF @ = "allocating" THEN "allocating_counter"
                                                         ELSE "deallocating_counter"]
       \/ /\ copy' = [copy EXCEPT ![u].counter = head.counter]
          /\ at' = [at EXCEPT ![u] = IF @ = "allocating" THEN "allocating_pointer"
                                                         ELSE "deallocating_pointer"]
    /\ UNCHANGED <<layout, head, link, free, owned, node, allocations>>

CopyOtherHalf(u) ==
    /\ \/ /\ at[u] \in {"allocating_counter", "deallocating_counter"}
          /\ copy' = [copy EXCEPT ![u].counter = head.counter]
       \/ /\ at[u] \in {"allocating_pointer", "deallocating_pointer"}
          /\ copy' = [copy EXCEPT ![u].pointer = head.pointer]
    /\ at' = [at EXCEPT ![u] = IF @ \in {"allocating_counter", "allocating_pointer"}
                                 THEN "load_link" ELSE "store_link"]
    /\ UNCHANGED <<layout, head, link, free, owned, node, allocations>>

\* allocate: nothing is left, or the link of the first node is read.
LoadLink(u) ==
    /\ at[u] = "load_link"
    /\ IF copy[u].pointer = Null
         THEN at' = [at EXCEPT ![u] = "out"] /\ UNCHANGED node
         ELSE /\ node' = [node EXCEPT ![u] = link[copy[u].pointer]]
              /\ at' = [at EXCEPT ![u] = "pop"]
    /\ UNCHANGED <<layout, head, link, free, owned, copy, allocations>>

\* deallocate: the node is linked to the head that was copied.
StoreLink(u) ==
    /\ at[u] = "store_link"
    /\ link' = [link EXCEPT ![node[u]] = copy[u].pointer]
    /\ at' = [at EXCEPT ![u] = "push"]
    /\ UNCHANGED <<layout, head, free, owned, copy, node, allocations>>

\* Mutant: the counter is not compared.
UnchangedButCounter(u) == head.pointer = copy[u].pointer

\* The comparison of the compare-exchange, and the head a pop makes.
Unchanged(u) ==
    /\ head.pointer = copy[u].pointer
    /\ layout # "pointer_only" => head.counter = copy[u].counter
PoppedHead(u) ==
    [pointer |-> node[u],
     counter |-> IF layout = "pointer_only" THEN head.counter ELSE copy[u].counter + 1]

Pop(u) ==
    /\ at[u] = "pop"
    /\ IF Unchanged(u)
         THEN /\ head' = PoppedHead(u)
              /\ node' = [node EXCEPT ![u] = copy[u].pointer]
              /\ at' = [at EXCEPT ![u] = "popped"]
         ELSE at' = [at EXCEPT ![u] = "allocating"] /\ UNCHANGED <<head, node>>
    /\ UNCHANGED <<layout, link, free, owned, copy, allocations>>

\* The assertion of allocate, and the task constructed in the node.
Construct(u) ==
    /\ at[u] = "popped" /\ node[u] \in free
    /\ free' = free \ {node[u]}
    /\ owned' = owned \cup {node[u]}
    /\ at' = [at EXCEPT ![u] = "out"]
    /\ node' = [node EXCEPT ![u] = Null]
    /\ UNCHANGED <<layout, head, link, copy, allocations>>

\* Mutant: the counter is increased by a push as well, beyond the allocations.
PushCounted(u) ==
    /\ at[u] = "push"
    /\ IF Unchanged(u)
         THEN /\ head' = [pointer |-> node[u], counter |-> copy[u].counter + 1]
              /\ at' = [at EXCEPT ![u] = "out"]
              /\ node' = [node EXCEPT ![u] = Null]
         ELSE at' = [at EXCEPT ![u] = "deallocating"] /\ UNCHANGED <<head, node>>
    /\ UNCHANGED <<layout, link, free, owned, copy, allocations>>

Push(u) ==
    /\ at[u] = "push"
    /\ IF Unchanged(u)
         THEN /\ head' = [pointer |-> node[u], counter |-> copy[u].counter]
              /\ at' = [at EXCEPT ![u] = "out"]
              /\ node' = [node EXCEPT ![u] = Null]
         ELSE at' = [at EXCEPT ![u] = "deallocating"] /\ UNCHANGED <<head, node>>
    /\ UNCHANGED <<layout, link, free, owned, copy, allocations>>

-----------------------------------------------------------------------------
Next ==
    \E u \in Users :
        \/ AllocateBegins(u) \/ (\E n \in Nodes : DeallocateBegins(u, n))
        \/ Copy(u) \/ CopyHalf(u) \/ CopyOtherHalf(u)
        \/ LoadLink(u) \/ StoreLink(u) \/ Pop(u) \/ Construct(u) \/ Push(u)

Spec == Init /\ [][Next]_vars

-----------------------------------------------------------------------------
TypeOK ==
    /\ layout \in Layouts
    /\ head \in [pointer : Nodes \cup {Null}, counter : 0 .. MaxAllocations]
    /\ link \in [Nodes -> Nodes \cup {Null}]
    /\ free \subseteq Nodes /\ owned \subseteq Nodes
    /\ copy \in [Users -> [pointer : Nodes \cup {Null}, counter : 0 .. MaxAllocations]]
    /\ node \in [Users -> Nodes \cup {Null}]
    /\ allocations \in 0 .. MaxAllocations

\* The chain that starts at the head: every node it reaches.
Chained ==
    LET reached[n \in 0 .. Cardinality(Nodes)] ==
            IF n = 0 THEN {head.pointer} \ {Null}
            ELSE reached[n - 1] \cup ({link[x] : x \in reached[n - 1]} \ {Null})
    IN reached[Cardinality(Nodes)]

\* The nodes a user is about to push or has just popped.
InHands ==
    {node[u] : u \in {v \in Users : at[v] \in {"deallocating", "deallocating_counter",
                          "deallocating_pointer", "store_link", "push", "popped"}}}

\* allocate: `ASSERT (allocated_task.pointer()->m_state == task::state_deallocated)`
\* (tasks_allocator.cpp:51): the node just popped is free.
PoppedIsFree == \A u \in Users : at[u] = "popped" => node[u] \in free

\* If the head is copied in one piece every node is in one place: handed out to
\* one user at a time and not in the list then, although links are read long
\* before they are used; and none is lost, as check_all_free expects.
EachNodeInOnePlace ==
    layout = "whole" =>
        /\ \A u, v \in Users : u # v /\ at[u] = "popped" /\ at[v] = "popped" => node[u] # node[v]
        /\ Chained \cap (owned \cup InHands) = {}
        /\ Nodes = Chained \cup owned \cup InHands
=============================================================================
