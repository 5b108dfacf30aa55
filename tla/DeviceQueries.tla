---------------------------- MODULE DeviceQueries ----------------------------
(***************************************************************************)
(* xray::fs_new::asynchronous_device_interface: threads send queries to    *)
(* the thread of a device over two channels, of which one goes first, and  *)
(* get them back to call their callbacks and to delete them.  A query of   *)
(* the first channel may be a request for synchronous access: the thread   *)
(* of the device stands still while the thread that asked uses the device. *)
(*                                                                         *)
(* A channel (one_way_threads_channel_with_response_inline.h) is an        *)
(* intrusive_mpsc_queue forward and, for each user, an intrusive_spsc_queue*)
(* back.  As in ThreadsChannel the first node of a queue holds no query any*)
(* more; here one query is in both queues, by two links, and may be the    *)
(* first node of both.                                                     *)
(***************************************************************************)
EXTENDS Naturals, Sequences, FiniteSets

CONSTANTS
    Users,          \* threads that use the device
    Main,           \* the one that finalizes it
    Sender,         \* the one that sends queries for files
    Nobody,         \* thread id -1
    MaxCalls        \* bounds the calls of all threads

Channels == {"high", "normal"}

\* Addresses: the calls are numbered, 0 is a null node.
Nodes == [of : Users \cup {Nobody}, channel : Channels, n : 0..MaxCalls]
NoNode == [of |-> Nobody, channel |-> "none", n |-> 0]
NullNode(u, c) == [of |-> u, channel |-> c, n |-> 0]

VARIABLES
    strayed,        \* a thread has accessed a deleted query: what follows is not modelled
    link,           \* m_next_forward, of the nodes in which it is not null
    head, tail,     \* m_forward_queue of each channel
    creator,        \* the user whose backward queue takes the null node of each channel
    back,           \* the backward queue of each channel and user
    allocated,
    returned,       \* in_backward_queue
    called,         \* the queries whose callback was called
    at,             \* where each user is
    mine,           \* the query it pushes or has access by
    seen,           \* m_head as push_back has read it
    calls,
    device,         \* process_queries: [loop, phase, query, popped]
    synchronous,    \* m_synchronous_thread_id
    started, ended, \* queries whose events are set
    closed

NextOf(x) == IF x \in DOMAIN link THEN link[x] ELSE NoNode
WithLink(x, y) == [z \in DOMAIN link \cup {x} |-> IF z = x THEN y ELSE link[z]]

queues  == <<link, head, tail, creator>>
results == <<back, allocated, returned, called>>
users   == <<at, mine, seen, calls>>
access  == <<synchronous, started, ended>>
vars    == <<strayed, queues, results, users, device, access, closed>>

InLoop(l) == [loop |-> l, phase |-> "loop", query |-> NoNode, popped |-> NoNode]

Init ==
    /\ strayed = FALSE
    /\ link = [x \in {} |-> NoNode]
    /\ head = [c \in Channels |-> NoNode] /\ tail = head
    /\ creator = [c \in Channels |-> Nobody]
    /\ back = [c \in Channels |-> [u \in Users |-> <<>>]]
    /\ allocated = {} /\ returned = {} /\ called = {}
    /\ at = [u \in Users |-> "out"]
    /\ mine = [u \in Users |-> NoNode] /\ seen = mine
    /\ calls = 0
    /\ device = InLoop("high")
    /\ synchronous = Nobody /\ started = {} /\ ended = {}
    /\ closed = "open"

\* One thread sends the queries of the normal channel (that of the resources manager,
\* from device_manager::pre_allocate), every thread asks for access.
MayUse(u, c) == c = "normal" => u = Sender

-----------------------------------------------------------------------------
(* A user.                                                                 *)

\* producer_push_to_process: the queues are created when they are needed,
\* each with a null node.
Push(u, c) ==
    LET x == [of |-> u, channel |-> c, n |-> calls + 1]
        first == head[c] = NoNode
        newBack == IF back[c][u] = <<>> THEN {NullNode(u, c)} ELSE {}
        newForward == IF first THEN {NullNode(Nobody, c)} ELSE {}
    IN  /\ closed = "open" /\ at[u] = "out" /\ calls < MaxCalls /\ MayUse(u, c)
        /\ allocated' = allocated \cup {x} \cup newBack \cup newForward
        /\ back' = IF newBack = {} THEN back ELSE [back EXCEPT ![c][u] = <<NullNode(u, c)>>]
        /\ head' = IF first THEN [head EXCEPT ![c] = NullNode(Nobody, c)] ELSE head
        /\ tail' = IF first THEN [tail EXCEPT ![c] = NullNode(Nobody, c)] ELSE tail
        /\ creator' = IF first THEN [creator EXCEPT ![c] = u] ELSE creator
        /\ calls' = calls + 1
        /\ mine' = [mine EXCEPT ![u] = x]
        /\ at' = [at EXCEPT ![u] = "pushing"]
        /\ UNCHANGED <<strayed, link, returned, called, seen, device, access, closed>>

\* push_back reads m_head for the address of the link ...
ReadHead(u) ==
    /\ at[u] = "pushing"
    /\ seen' = [seen EXCEPT ![u] = head[mine[u].channel]]
    /\ at' = [at EXCEPT ![u] = "linking"]
    /\ UNCHANGED <<strayed, queues, results, mine, calls, device, access, closed>>

\* ... accesses that node, by then perhaps the head no more and even deleted ...
Touches(u, x) ==
    /\ at[u] = "linking" /\ x = seen[u]
    /\ strayed' = (x \notin allocated)
    /\ seen' = [seen EXCEPT ![u] = NoNode]
    /\ UNCHANGED <<head, tail, creator, results, mine, calls, device, access, closed>>

\* Mutant: the link is stored, not exchanged.
LinkAnyway(u) == \E x \in {seen[u]} : Touches(u, x)
    /\ link' = WithLink(x, mine[u]) /\ at' = [at EXCEPT ![u] = "moving"]

\* ... exchanges the link, and tries again if another producer was faster ...
Link(u) == \E x \in {seen[u]} : Touches(u, x)
    /\ IF NextOf(x) = NoNode
       THEN link' = WithLink(x, mine[u]) /\ at' = [at EXCEPT ![u] = "moving"]
       ELSE link' = link /\ at' = [at EXCEPT ![u] = "pushing"]

\* ... and moves m_head.  get_synchronous_access then waits for the device.
MoveHead(u) ==
    /\ at[u] = "moving"
    /\ head' = [head EXCEPT ![mine[u].channel] = mine[u]]
    /\ at' = [at EXCEPT ![u] = IF mine[u].channel = "high" THEN "asking" ELSE "out"]
    /\ UNCHANGED <<strayed, link, tail, creator, results, mine, seen, calls, device, access, closed>>

\* wait_synchronization
Enter(u) ==
    /\ at[u] = "asking" /\ mine[u] \in started
    /\ started' = started \ {mine[u]}
    /\ at' = [at EXCEPT ![u] = "inside"]
    /\ UNCHANGED <<strayed, queues, results, mine, seen, calls, device, synchronous, ended, closed>>

\* on_synchronized_ended: the id, then the event
Leave(u) ==
    /\ at[u] = "inside"
    /\ synchronous' = Nobody
    /\ at' = [at EXCEPT ![u] = "leaving"]
    /\ UNCHANGED <<strayed, queues, results, mine, seen, calls, device, started, ended, closed>>

SignalEnded(u) ==
    /\ at[u] = "leaving"
    /\ ended' = ended \cup {mine[u]}
    /\ at' = [at EXCEPT ![u] = "out"]
    /\ UNCHANGED <<strayed, queues, results, mine, seen, calls, device, synchronous, started, closed>>

\* dispatch_callbacks, one query of it: the node before it is deleted.
Dispatch(u, c) ==
    /\ at[u] = "out" /\ Len(back[c][u]) > 1
    /\ back' = [back EXCEPT ![c][u] = Tail(@)]
    /\ allocated' = allocated \ {Head(back[c][u])}
    /\ called' = called \cup {back[c][u][2]}
    /\ UNCHANGED <<strayed, queues, returned, users, device, access, closed>>

-----------------------------------------------------------------------------
(* The thread of the device.                                               *)

Owner(x) == IF x.of = Nobody THEN creator[x.channel] ELSE x.of

\* Mutant: a query is not marked when it goes back.
PushProcessedUnmarked(x) ==
    /\ back' = [back EXCEPT ![x.channel][Owner(x)] = Append(@, x)]
    /\ returned' = returned

\* consumer_push_processed
PushProcessed(x) ==
    /\ back' = [back EXCEPT ![x.channel][Owner(x)] = Append(@, x)]
    /\ returned' = returned \cup {x}

LoopChannel == IF device.loop = "normal" THEN "normal" ELSE "high"
First(c) == IF head[c] = NoNode THEN NoNode ELSE NextOf(tail[c])

\* consumer_pop_to_process: the query is the new null node, the old one goes
\* back unless it has done so.  Before a query of the normal channel
\* is executed all those of the other one are.
Pop ==
    LET c == LoopChannel
        x == First(c)
    IN  /\ device.phase = "loop" /\ x # NoNode
        /\ tail' = [tail EXCEPT ![c] = x]
        /\ IF tail[c] \in returned THEN UNCHANGED <<back, returned>> ELSE PushProcessed(tail[c])
        /\ device' = IF device.loop = "normal"
                     THEN [InLoop("nested") EXCEPT !.popped = x]
                     ELSE [device EXCEPT !.phase = "execute", !.query = x]
        /\ UNCHANGED <<strayed, link, head, creator, allocated, called, users, access, closed>>

\* A loop finds no more queries.
LoopEnds ==
    /\ device.phase = "loop" /\ First(LoopChannel) = NoNode
    /\ device' = CASE device.loop = "high"   -> InLoop("normal")
                   [] device.loop = "normal" -> InLoop("high")
                   [] device.loop = "nested" ->
                      [InLoop("normal") EXCEPT !.phase = "execute", !.query = device.popped]
    /\ UNCHANGED <<strayed, queues, results, users, access, closed>>

\* synchronize_device_query::execute, to the first event ...
GiveAccess ==
    /\ device.phase = "execute" /\ device.query.channel = "high"
    /\ synchronous' = device.query.of
    /\ started' = started \cup {device.query}
    /\ device' = [device EXCEPT !.phase = "waiting"]
    /\ UNCHANGED <<strayed, queues, results, users, ended, closed>>

\* Mutant: the device goes on as soon as it has given access.
TakeAccessAtOnce ==
    /\ device.phase = "waiting"
    /\ ended' = ended \ {device.query}
    /\ device' = [device EXCEPT !.phase = "executed"]
    /\ UNCHANGED <<strayed, queues, results, users, synchronous, started, closed>>

\* ... and to its return
TakeAccess ==
    /\ device.phase = "waiting" /\ device.query \in ended
    /\ ended' = ended \ {device.query}
    /\ device' = [device EXCEPT !.phase = "executed"]
    /\ UNCHANGED <<strayed, queues, results, users, synchronous, started, closed>>

\* The query goes back (one of the normal channel after its execution).
GiveBack ==
    /\ \/ device.phase = "executed"
       \/ device.phase = "execute" /\ device.query.channel = "normal"
    /\ PushProcessed(device.query)
    /\ device' = IF device.popped = NoNode THEN InLoop(device.loop)
                 ELSE [InLoop(device.loop) EXCEPT !.popped = device.popped]
    /\ UNCHANGED <<strayed, queues, allocated, called, users, access, closed>>

\* finalize, when the other threads have ended: all queries are processed and
\* the null nodes go back, unless they have done so.
Finalize ==
    /\ closed = "open" /\ at = [u \in Users |-> "out"]
    /\ device = InLoop("high") /\ \A c \in Channels : First(c) = NoNode
    /\ back' = [c \in Channels |-> [u \in Users |->
           IF head[c] # NoNode /\ head[c] \notin returned /\ Owner(head[c]) = u
           THEN Append(back[c][u], head[c]) ELSE back[c][u]]]
    /\ head' = [c \in Channels |-> NoNode] /\ tail' = head'
    /\ closed' = "consumer"
    /\ UNCHANGED <<strayed, link, creator, allocated, returned, called, users, device, access>>

\* finalize_thread_usage, which one thread calls, after dispatch_callbacks
FinalizeThreadUsage ==
    /\ closed = "consumer" /\ \A c \in Channels : Len(back[c][Main]) <= 1
    /\ allocated' = allocated \ {back[c][Main][1] : c \in {c \in Channels : back[c][Main] # <<>>}}
    /\ back' = [c \in Channels |-> [back[c] EXCEPT ![Main] = <<>>]]
    /\ closed' = "closed"
    /\ UNCHANGED <<strayed, queues, returned, called, users, device, access>>

-----------------------------------------------------------------------------
UserSteps(u) ==
    /\ ~strayed
    /\ \/ ReadHead(u) \/ Link(u) \/ MoveHead(u)
       \/ Enter(u) \/ Leave(u) \/ SignalEnded(u)
       \/ \E c \in Channels : Dispatch(u, c)

DeviceThread == ~strayed /\ closed = "open" /\
    (Pop \/ LoopEnds \/ GiveAccess \/ TakeAccess \/ GiveBack)

Next ==
    /\ ~strayed
    /\ \/ \E u \in Users : UserSteps(u) \/ \E c \in Channels : Push(u, c)
       \/ DeviceThread \/ Finalize \/ FinalizeThreadUsage

Spec == Init /\ [][Next]_vars

\* Every thread runs on, every user dispatches its callbacks (the waits of the
\* device's thread and of the resources manager's time out after 10 and 300 ms).
FairSpec == Spec /\ WF_vars(DeviceThread) /\ \A u \in Users : WF_vars(UserSteps(u))

-----------------------------------------------------------------------------
NodeOrNone == Nodes \cup {NoNode}

TypeOK ==
    /\ strayed \in BOOLEAN
    /\ DOMAIN link \subseteq Nodes /\ \A x \in DOMAIN link : link[x] \in Nodes
    /\ head \in [Channels -> NodeOrNone] /\ tail \in [Channels -> NodeOrNone]
    /\ creator \in [Channels -> Users \cup {Nobody}]
    /\ \A c \in Channels, u \in Users : back[c][u] \in Seq(Nodes)
    /\ allocated \subseteq Nodes /\ returned \subseteq Nodes /\ called \subseteq Nodes
    /\ at \in [Users -> {"out", "pushing", "linking", "moving", "asking", "inside", "leaving"}]
    /\ mine \in [Users -> NodeOrNone] /\ seen \in [Users -> NodeOrNone]
    /\ calls \in 0..MaxCalls
    /\ device \in [loop : {"high", "normal", "nested"},
                   phase : {"loop", "execute", "waiting", "executed"},
                   query : NodeOrNone, popped : NodeOrNone]
    /\ synchronous \in Users \cup {Nobody}
    /\ started \subseteq Nodes /\ ended \subseteq Nodes
    /\ closed \in {"open", "consumer", "closed"}

\* set_synchronous_thread_id, on_synchronized_ended and pop_null_node assert what
\* makes synchronous access exclusive: the thread inside is the one whose
\* query the device waits with, and the device is nobody else's.
AssertionsOfTheCode ==
    /\ device.phase = "execute" /\ device.query.channel = "high" => synchronous = Nobody
    /\ \A u \in Users : at[u] = "inside" =>
           synchronous = u /\ device.phase = "waiting" /\ device.query = mine[u]
    /\ at = [u \in Users |-> "out"] =>
           \A c \in Channels : head[c] # NoNode /\ First(c) = NoNode => head[c] = tail[c]

\* Whatever the device and the users hold is not deleted, although queries are deleted
\* by their users while they are the null nodes of the device's queue, and no query
\* goes back twice.  Only the head that push_back has read may be deleted before
\* it is accessed, if it is the head no more: HeadStaysAlive.
UsesLiveQueries ==
    LET used == {head[c] : c \in Channels} \cup {tail[c] : c \in Channels}
                \cup {device.query, device.popped}
                \cup {mine[u] : u \in {v \in Users : at[v] # "out"}}
    IN  /\ used \ {NoNode} \subseteq allocated
        /\ \A u \in Users : at[u] = "linking" =>
               seen[u] \in {head[mine[u].channel]} \cup DOMAIN link
        /\ \A c \in Channels, u \in Users : \A i, j \in 1..Len(back[c][u]) :
               /\ back[c][u][i] \in allocated
               /\ back[c][u][i] = back[c][u][j] => i = j

\* What push_back takes for granted, for several producers: the node it has read as
\* the head still lives when it is linked to.
HeadStaysAlive == \A u \in Users : at[u] = "linking" => seen[u] \in allocated

\* Every query that is pushed is executed and has its callback called, and who asks
\* for synchronous access gets it and returns: once the last of MaxCalls calls is made
\* nothing is left to wait for, unless a thread has accessed a deleted query.
EveryQueryEnds == <>[]( \/ strayed
                        \/ /\ at = [u \in Users |-> "out"]
                           /\ 1..calls \subseteq {x.n : x \in called} )
=============================================================================
