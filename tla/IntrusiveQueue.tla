--------------------------- MODULE IntrusiveQueue ---------------------------
(***************************************************************************)
(* xray::intrusive_queue (intrusive_queue_inline.h), the queue of pending  *)
(* tasks: a stack everybody pushes to and a list everybody pops from, both *)
(* by compare-exchange.  Who finds the list empty takes the whole stack    *)
(* under a mutex and turns it round.                                       *)
(*                                                                         *)
(* A value is pushed once.  pop_front reads the link of the first value    *)
(* and then exchanges the head, which is right only as long as no value    *)
(* popped meanwhile comes back.                                            *)
(***************************************************************************)
EXTENDS Sequences, FiniteSets, Naturals

CONSTANTS Users, Nodes, Null

VARIABLES
    pushList, popList,      \* m_push_list, m_pop_list
    link,                   \* MemberNext of each value
    mutex,                  \* the user that holds m_threading_policy, or Null
    at, mine, seen,         \* where each user is, its value, the link or head it read
    pushed, popped          \* the values whose push has begun, those delivered

vars == <<pushList, popList, link, mutex, at, mine, seen, pushed, popped>>

Init ==
    /\ pushList = Null /\ popList = Null
    /\ link = [n \in Nodes |-> Null]
    /\ mutex = Null
    /\ at = [u \in Users |-> "out"]
    /\ mine = [u \in Users |-> Null] /\ seen = [u \in Users |-> Null]
    /\ pushed = {} /\ popped = {}

Goes(u, place) == at' = [at EXCEPT ![u] = place]
Takes(u, m, s) == mine' = [mine EXCEPT ![u] = m] /\ seen' = [seen EXCEPT ![u] = s]

\* pop_front returns the value, or none, and unlocks the mutex if it was locked.
Returns(u, n) ==
    /\ popped' = popped \cup ({n} \ {Null})
    /\ mutex' = IF mutex = u THEN Null ELSE mutex
    /\ Goes(u, "out") /\ Takes(u, Null, Null)

-----------------------------------------------------------------------------
PushBegins(u, n) ==
    /\ at[u] = "out" /\ n \notin pushed
    /\ pushed' = pushed \cup {n}
    /\ Goes(u, "push") /\ Takes(u, n, Null)
    /\ UNCHANGED <<pushList, popList, link, mutex, popped>>

\* push_back: links the value to the head it has read ...
PushLinks(u) ==
    /\ at[u] = "push"
    /\ link' = [link EXCEPT ![mine[u]] = pushList]
    /\ Goes(u, "push_exchange") /\ Takes(u, mine[u], pushList)
    /\ UNCHANGED <<pushList, popList, mutex, pushed, popped>>

\* ... and exchanges it, if it is still the head.
PushExchanges(u) ==
    /\ at[u] = "push_exchange"
    /\ IF pushList = seen[u]
         THEN pushList' = mine[u] /\ Goes(u, "out") /\ Takes(u, Null, Null)
         ELSE Goes(u, "push") /\ UNCHANGED <<pushList, mine, seen>>
    /\ UNCHANGED <<popList, link, mutex, pushed, popped>>

\* pop_front: looks at the list, and locks the mutex if it is empty.
PopBegins(u) ==
    /\ at[u] = "out"
    /\ Goes(u, IF popList # Null THEN "pop" ELSE "lock")
    /\ UNCHANGED <<pushList, popList, link, mutex, mine, seen, pushed, popped>>

\* The first value and its link.
PopReads(u) ==
    /\ at[u] = "pop"
    /\ IF popList = Null
         THEN Goes(u, "lock") /\ UNCHANGED <<mine, seen>>
         ELSE Goes(u, "pop_exchange") /\ Takes(u, popList, link[popList])
    /\ UNCHANGED <<pushList, popList, link, mutex, pushed, popped>>

PopExchanges(u) ==
    /\ at[u] = "pop_exchange"
    /\ IF popList = mine[u]
         THEN popList' = seen[u] /\ Returns(u, mine[u])
         ELSE Goes(u, "pop") /\ UNCHANGED <<popList, mutex, mine, seen, popped>>
    /\ UNCHANGED <<pushList, link, pushed>>

Lock(u) ==
    /\ at[u] = "lock" /\ mutex = Null
    /\ mutex' = u
    /\ Goes(u, "look")
    /\ UNCHANGED <<pushList, popList, link, mine, seen, pushed, popped>>

\* Mutant: the list is not looked at again.
LookOnce(u) ==
    /\ at[u] = "look"
    /\ Goes(u, "take")
    /\ UNCHANGED <<pushList, popList, link, mutex, mine, seen, pushed, popped>>

\* Under the mutex the list is looked at again; the goto leaves the scope of the
\* mutex's guard.
LookAgain(u) ==
    /\ at[u] = "look"
    /\ IF popList # Null THEN Goes(u, "pop") /\ mutex' = Null
                         ELSE Goes(u, "take") /\ UNCHANGED mutex
    /\ UNCHANGED <<pushList, popList, link, mine, seen, pushed, popped>>

\* Nothing was pushed either, or the whole stack is taken ...
TakePushed(u) ==
    /\ at[u] = "take"
    /\ IF pushList = Null
         THEN Returns(u, Null) /\ UNCHANGED pushList
         ELSE /\ pushList' = Null
              /\ Goes(u, "turn") /\ Takes(u, pushList, Null)
              /\ UNCHANGED <<mutex, popped>>
    /\ UNCHANGED <<popList, link, pushed>>

\* The values from a head on, following the links.
From(head) ==
    LET chain[n \in 0 .. Cardinality(Nodes)] ==
            IF n = 0 THEN IF head = Null THEN <<>> ELSE <<head>>
            ELSE LET s == chain[n - 1]
                 IN IF s = <<>> \/ link[s[Len(s)]] = Null THEN s ELSE Append(s, link[s[Len(s)]])
    IN chain[Cardinality(Nodes)]

\* ... and turned round: the oldest value is the result, the rest is the list.
TurnRound(u) ==
    /\ at[u] = "turn"
    /\ LET taken == From(mine[u]) IN
       /\ link' = [n \in Nodes |->
                     IF \E i \in 1 .. Len(taken) : taken[i] = n
                       THEN LET i == CHOOSE k \in 1 .. Len(taken) : taken[k] = n
                            IN IF i = 1 THEN Null ELSE taken[i - 1]
                       ELSE link[n]]
       /\ popList' = IF Len(taken) = 1 THEN Null ELSE taken[Len(taken) - 1]
       /\ Returns(u, taken[Len(taken)])
    /\ UNCHANGED <<pushList, pushed>>

-----------------------------------------------------------------------------
Next ==
    \E u \in Users :
        \/ \E n \in Nodes : PushBegins(u, n)
        \/ PushLinks(u) \/ PushExchanges(u)
        \/ PopBegins(u) \/ PopReads(u) \/ PopExchanges(u)
        \/ Lock(u) \/ LookAgain(u) \/ TakePushed(u) \/ TurnRound(u)

Spec == Init /\ [][Next]_vars

-----------------------------------------------------------------------------
Places == {"out", "push", "push_exchange", "pop", "pop_exchange", "lock", "look", "take", "turn"}

TypeOK ==
    /\ {pushList, popList} \subseteq Nodes \cup {Null}
    /\ link \in [Nodes -> Nodes \cup {Null}]
    /\ mutex \in Users \cup {Null}
    /\ at \in [Users -> Places]
    /\ mine \in [Users -> Nodes \cup {Null}] /\ seen \in [Users -> Nodes \cup {Null}]
    /\ popped \subseteq pushed /\ pushed \subseteq Nodes

Reversed(s) == [i \in 1 .. Len(s) |-> s[Len(s) + 1 - i]]

\* The queue the callers see: the list, what a user is turning round, the stack.
Contents ==
    LET turning == {u \in Users : at[u] = "turn"}
    IN From(popList)
       \o (IF turning = {} THEN <<>> ELSE Reversed(From(mine[CHOOSE u \in turning : TRUE])))
       \o Reversed(From(pushList))

\* First in, first out: a step leaves the queue as it is, appends one value, or
\* delivers the first; so none is lost, doubled or overtaken while a user takes
\* the stack and turns it round.
FirstInFirstOut ==
    [][\/ UNCHANGED vars \/ Contents' = Contents
       \/ \E n \in Nodes : Contents' = Append(Contents, n)
       \/ Contents # <<>> /\ Contents' = Tail(Contents) /\ popped' = popped \cup {Head(Contents)}]_vars
=============================================================================
