---------------------------- MODULE TaskTreeProofs ----------------------------
(***************************************************************************)
(* Proofs about TaskTree, for any number of workers and tasks.             *)
(*                                                                         *)
(* That a task runs once follows from how threads nest calls: a task is    *)
(* executed in one frame of one thread, and whatever else a thread does    *)
(* for it, it does above that frame.  That references count holders needs  *)
(* that a task is at most once in a list of children, and that a task's    *)
(* list is empty when the allocator takes it back.  That the counter       *)
(* counts children needs, besides, where a child that has not ended is:    *)
(* listed, about to be unlinked, or waited for.                            *)
(***************************************************************************)
EXTENDS TaskTree, FiniteSetTheorems, FunctionTheorems, TLAPS
-----------------------------------------------------------------------------
(* The inductive invariant.                                                *)

\* Where a task is in its own function, or in spawn_task called by it.
InBody == {"body", "push_type", "collected",
           "collect_queue", "drop_pending", "collect_types", "drop_typed"}

\* The calls of a thread, the outermost first.
Height(t) == Len(stack[t])
Nth(s, d) == s[Len(s) + 1 - d]
At(t, d)  == Nth(stack[t], d)
Calls(t)  == 1..Height(t)

\* A call in which the thread executes a task, rather than waits for some.
Executes(t, d) == IF d = 1 THEN t = User ELSE At(t, d - 1).at = "after_child"

\* How far the execution of a task is, by the task's state s.
ExecutionFits(s, place) ==
    /\ place \in Running   => s \in {"grabbed", "captured"}
    /\ place \in Ending    => s = "captured"
    /\ place \in Unlinking => s = "executed"

CallFits(t, d) ==
    /\ d # Height(t) => At(t, d).at \in {"body", "after_child"}
    /\ IF Executes(t, d)
       THEN /\ At(t, d).at \in Running \cup Ending \cup Unlinking
            /\ ExecutionFits(state[At(t, d).task], At(t, d).at)
            /\ IF d = 1 THEN At(t, d).task = Root /\ At(t, d).at \in InBody
                        ELSE At(t, d).task \in Tasks
       ELSE IF d = 1
       THEN At(t, d).task = None /\ At(t, d).at \in {"idle", "try_grab", "after_child"}
       ELSE /\ At(t, d).at \in Waiting \/ (At(t, d).at \in Unlinking /\ t = User)
            /\ At(t, d).task = None => At(t, d).at = "wait"
            /\ At(t, d).task = Root => t = User
            /\ At(t, d).task \in Tasks =>
                  \E e \in 1..(d - 1) : Executes(t, e) /\ At(t, e).task = At(t, d).task

CallsFit == \A t \in AllThreads : \A d \in Calls(t) : CallFits(t, d)

\* Where a thread holds a reference of a task; what a thread holds in general,
\* and the task it believes to be in.
Handling == {"push_type", "try_grab", "unlink_child", "unlink_captured",
             "drop_pending", "drop_typed"}
HoldsFit(place, held) ==
    /\ place \in Handling => held \in Tasks
    /\ place \in {"decrement", "recheck", "look", "reread"} => held \in Nodes
    /\ place = "signal" => held \in AllThreads

USE DEF InBody, Collecting, Handling

ThreadFits(t) ==
    /\ HoldsFit(Top(t).at, Held(t))
    /\ current[t] = Root => t = User
    /\ current[t] \in Tasks =>
          \E d \in Calls(t) : /\ Executes(t, d) /\ At(t, d).task = current[t]
                              /\ At(t, d).at \in InBody

ThreadsFit == \A t \in AllThreads : ThreadFits(t)

ExecutedBy(t, k) == \E d \in Calls(t) : Executes(t, d) /\ At(t, d).task = k
Executed(k)      == \E t \in AllThreads : ExecutedBy(t, k)

\* One call executes a task.
OneExecution ==
    \A t, u \in AllThreads : \A d \in Calls(t), e \in Calls(u) :
        Executes(t, d) /\ Executes(u, e) /\ At(t, d).task = At(u, e).task => t = u /\ d = e

\* Who cuts a child off has it captured, and nobody else has.
CutsOffAlone ==
    \A t \in TopAt({"unlink_captured"}) :
        /\ state[Held(t)] = "captured"
        /\ \A u \in TopAt({"unlink_captured"}) : Held(u) = Held(t) => u = t
        /\ \A u \in TopAt(Ending) : Mine(u) # Held(t)

TaskFits(k) ==
    /\ state[k] \in {"grabbed", "captured"} => Executed(k)
    /\ references[k] = Containers(k) + Cardinality(Handlers(k)) + Executions(k)
    /\ state[k] = "deallocated" <=> references[k] = 0

TasksFit == \A k \in Tasks : TaskFits(k)

\* A list without repetitions.
IsList(s) == \A i, j \in DOMAIN s : s[i] = s[j] => i = j

\* Only a task that runs, and the root, has children listed, each once.
ListFits(n) ==
    /\ children[n] # <<>> => n = Root \/ Executed(n)
    /\ IsList(children[n])

ListsFit == \A n \in Nodes : ListFits(n)

Types ==
    /\ state \in [Nodes -> States] /\ state[Root] = "grabbed"
    /\ references \in [Nodes -> 0..4]
    /\ parent \in [Nodes -> Nodes \cup {None}]
    /\ children \in [Nodes -> Seq(Tasks)]
    /\ counter \in [Nodes -> Int]
    /\ waiter \in [Nodes -> AllThreads \cup {None}]
    /\ pendingTasks \in Seq(Tasks) /\ typeTasks \in Seq(Tasks)
    /\ signalled \in [AllThreads -> BOOLEAN]
    /\ current \in [AllThreads -> Nodes \cup {None}]
    /\ spawns \in 0..MaxSpawns /\ waits \in [AllThreads -> 0..MaxWaits]

\* Every thread is in some call.
StackOK == stack \in [AllThreads -> Seq(FrameType)] /\ \A t \in AllThreads : Height(t) >= 1

TInv ==
    /\ Types /\ StackOK /\ CallsFit /\ ThreadsFit /\ OneExecution /\ CutsOffAlone
    /\ TasksFit /\ ListsFit

-----------------------------------------------------------------------------
(* The calls of a thread.                                                  *)

Replaces(t, f)   == stack' = [stack EXCEPT ![t] = <<f>> \o Tail(@)]
Pushes(t, f)     == stack' = [stack EXCEPT ![t] = <<f>> \o @]
CallsFrom(t, f, g) == stack' = [stack EXCEPT ![t] = <<g, f>> \o Tail(@)]
Pops(t)          == stack' = [stack EXCEPT ![t] = Tail(@)]

\* What the four changes of a thread's calls do to them.
LEMMA ReplaceShape ==
    ASSUME NEW s \in Seq(FrameType), Len(s) >= 1, NEW f \in FrameType
    PROVE  /\ <<f>> \o Tail(s) \in Seq(FrameType) /\ Len(<<f>> \o Tail(s)) = Len(s)
           /\ Head(<<f>> \o Tail(s)) = f
           /\ \A d \in 1..Len(s) : Nth(<<f>> \o Tail(s), d) = IF d = Len(s) THEN f ELSE Nth(s, d)
<1>1. \A d \in 1..Len(s) : Len(s) + 1 - d \in 1..Len(s)
    OBVIOUS
<1> QED
    BY <1>1 DEF Nth

LEMMA PushShape ==
    ASSUME NEW s \in Seq(FrameType), Len(s) >= 1, NEW f \in FrameType
    PROVE  /\ <<f>> \o s \in Seq(FrameType) /\ Len(<<f>> \o s) = Len(s) + 1
           /\ Head(<<f>> \o s) = f
           /\ \A d \in 1..Len(s) + 1 : Nth(<<f>> \o s, d) = IF d = Len(s) + 1 THEN f ELSE Nth(s, d)
<1>1. \A d \in 1..Len(s) + 1 : Len(s) + 2 - d \in 1..Len(s) + 1
    OBVIOUS
<1> QED
    BY <1>1 DEF Nth

LEMMA CallShape ==
    ASSUME NEW s \in Seq(FrameType), Len(s) >= 1, NEW f \in FrameType, NEW g \in FrameType
    PROVE  /\ <<g, f>> \o Tail(s) \in Seq(FrameType) /\ Len(<<g, f>> \o Tail(s)) = Len(s) + 1
           /\ Head(<<g, f>> \o Tail(s)) = g
           /\ \A d \in 1..Len(s) + 1 : Nth(<<g, f>> \o Tail(s), d) =
                 IF d = Len(s) + 1 THEN g ELSE IF d = Len(s) THEN f ELSE Nth(s, d)
<1>1. \A d \in 1..Len(s) + 1 : Len(s) + 2 - d \in 1..Len(s) + 1
    OBVIOUS
<1> QED
    BY <1>1 DEF Nth

LEMMA PopShape ==
    ASSUME NEW s \in Seq(FrameType), Len(s) >= 1
    PROVE  /\ Tail(s) \in Seq(FrameType) /\ Len(Tail(s)) = Len(s) - 1
           /\ Len(s) > 1 => Head(Tail(s)) = Nth(s, Len(s) - 1)
           /\ \A d \in 1..Len(s) - 1 : Nth(Tail(s), d) = Nth(s, d)
           /\ Head(s) = Nth(s, Len(s)) /\ \A d \in 1..Len(s) : Nth(s, d) \in FrameType
<1>1. \A d \in 1..Len(s) : Len(s) + 1 - d \in 1..Len(s)
    OBVIOUS
<1> QED
    BY <1>1 DEF Nth

LEMMA Replaced ==
    ASSUME StackOK, NEW t \in AllThreads, NEW f \in FrameType, Replaces(t, f)
    PROVE  /\ StackOK'
           /\ \A u \in AllThreads :
                 /\ Height(u)' = Height(u) /\ Calls(u)' = Calls(u)
                 /\ \A d \in Calls(u) :
                       At(u, d)' = IF u = t /\ d = Height(t) THEN f ELSE At(u, d)
                 /\ Top(u)' = IF u = t THEN f ELSE Top(u)
<1>1. PICK s \in Seq(FrameType) : s = stack[t] /\ Len(s) >= 1
    BY DEF StackOK, Height
<1>2. stack' = [stack EXCEPT ![t] = <<f>> \o Tail(s)]
    BY <1>1 DEF Replaces
<1>3. /\ <<f>> \o Tail(s) \in Seq(FrameType) /\ Len(<<f>> \o Tail(s)) = Len(s)
      /\ Head(<<f>> \o Tail(s)) = f
      /\ \A d \in 1..Len(s) : Nth(<<f>> \o Tail(s), d) = IF d = Len(s) THEN f ELSE Nth(s, d)
    BY <1>1, ReplaceShape
<1> DEFINE r == <<f>> \o Tail(s)
<1> HIDE DEF r
<1>4. stack' = [stack EXCEPT ![t] = r] /\ r \in Seq(FrameType) /\ Len(r) = Len(s) /\ Head(r) = f
      /\ \A d \in 1..Len(s) : Nth(r, d) = IF d = Len(s) THEN f ELSE Nth(s, d)
    BY <1>2, <1>3 DEF r
<1> QED
    BY <1>1, <1>4 DEF StackOK, Height, Calls, At, Top

LEMMA Pushed ==
    ASSUME StackOK, NEW t \in AllThreads, NEW f \in FrameType, Pushes(t, f)
    PROVE  /\ StackOK'
           /\ \A u \in AllThreads :
                 /\ Height(u)' = IF u = t THEN Height(t) + 1 ELSE Height(u)
                 /\ \A d \in Calls(u) : At(u, d)' = At(u, d)
                 /\ Top(u)' = IF u = t THEN f ELSE Top(u)
           /\ \A d : d = Height(t) + 1 => At(t, d)' = f
<1>1. PICK s \in Seq(FrameType) : s = stack[t] /\ Len(s) >= 1
    BY DEF StackOK, Height
<1>2. stack' = [stack EXCEPT ![t] = <<f>> \o s]
    BY <1>1 DEF Pushes
<1>3. /\ <<f>> \o s \in Seq(FrameType) /\ Len(<<f>> \o s) = Len(s) + 1
      /\ Head(<<f>> \o s) = f
      /\ \A d \in 1..Len(s) + 1 : Nth(<<f>> \o s, d) = IF d = Len(s) + 1 THEN f ELSE Nth(s, d)
    BY <1>1, PushShape
<1> DEFINE r == <<f>> \o s
<1> HIDE DEF r
<1>4. stack' = [stack EXCEPT ![t] = r] /\ r \in Seq(FrameType) /\ Len(r) = Len(s) + 1 /\ Head(r) = f
      /\ \A d \in 1..Len(s) + 1 : Nth(r, d) = IF d = Len(s) + 1 THEN f ELSE Nth(s, d)
    BY <1>2, <1>3 DEF r
<1>5. Len(s) \in Nat
    OBVIOUS
<1>6. stack'[t] = r /\ \A u \in AllThreads \ {t} : stack'[u] = stack[u]
    BY <1>4 DEF StackOK
<1>7. StackOK'
    BY <1>1, <1>4, <1>5 DEF StackOK, Height
<1>8. ASSUME NEW u \in AllThreads
      PROVE  /\ Height(u)' = IF u = t THEN Height(t) + 1 ELSE Height(u)
             /\ \A d \in Calls(u) : At(u, d)' = At(u, d)
             /\ Top(u)' = IF u = t THEN f ELSE Top(u)
    <2>1. CASE u = t
        BY <1>1, <1>4, <1>5, <1>6, <2>1 DEF Height, Calls, At, Top
    <2>2. CASE u # t
        BY <1>6, <2>2 DEF Height, Calls, At, Top
    <2> QED
        BY <2>1, <2>2
<1>9. \A d : d = Height(t) + 1 => At(t, d)' = f
    BY <1>1, <1>4, <1>5, <1>6 DEF Height, At
<1> QED
    BY <1>7, <1>8, <1>9

LEMMA CalledFrom ==
    ASSUME StackOK, NEW t \in AllThreads, NEW f \in FrameType, NEW g \in FrameType, CallsFrom(t, f, g)
    PROVE  /\ StackOK'
           /\ \A u \in AllThreads :
                 /\ Height(u)' = IF u = t THEN Height(t) + 1 ELSE Height(u)
                 /\ \A d \in Calls(u) : At(u, d)' = IF u = t /\ d = Height(t) THEN f ELSE At(u, d)
                 /\ Top(u)' = IF u = t THEN g ELSE Top(u)
           /\ \A d : d = Height(t) + 1 => At(t, d)' = g
<1>1. PICK s \in Seq(FrameType) : s = stack[t] /\ Len(s) >= 1
    BY DEF StackOK, Height
<1>2. stack' = [stack EXCEPT ![t] = <<g, f>> \o Tail(s)]
    BY <1>1 DEF CallsFrom
<1>3. /\ <<g, f>> \o Tail(s) \in Seq(FrameType) /\ Len(<<g, f>> \o Tail(s)) = Len(s) + 1
      /\ Head(<<g, f>> \o Tail(s)) = g
      /\ \A d \in 1..Len(s) + 1 : Nth(<<g, f>> \o Tail(s), d) =
            IF d = Len(s) + 1 THEN g ELSE IF d = Len(s) THEN f ELSE Nth(s, d)
    BY <1>1, CallShape
<1> DEFINE r == <<g, f>> \o Tail(s)
<1> HIDE DEF r
<1>4. stack' = [stack EXCEPT ![t] = r] /\ r \in Seq(FrameType) /\ Len(r) = Len(s) + 1 /\ Head(r) = g
      /\ \A d \in 1..Len(s) + 1 : Nth(r, d) =
            IF d = Len(s) + 1 THEN g ELSE IF d = Len(s) THEN f ELSE Nth(s, d)
    BY <1>2, <1>3 DEF r
<1>5. Len(s) \in Nat
    OBVIOUS
<1>6. stack'[t] = r /\ \A u \in AllThreads \ {t} : stack'[u] = stack[u]
    BY <1>4 DEF StackOK
<1>7. StackOK'
    BY <1>1, <1>4, <1>5 DEF StackOK, Height
<1>8. ASSUME NEW u \in AllThreads
      PROVE  /\ Height(u)' = IF u = t THEN Height(t) + 1 ELSE Height(u)
             /\ \A d \in Calls(u) : At(u, d)' = IF u = t /\ d = Height(t) THEN f ELSE At(u, d)
             /\ Top(u)' = IF u = t THEN g ELSE Top(u)
    <2>1. CASE u = t
        BY <1>1, <1>4, <1>5, <1>6, <2>1 DEF Height, Calls, At, Top
    <2>2. CASE u # t
        BY <1>6, <2>2 DEF Height, Calls, At, Top
    <2> QED
        BY <2>1, <2>2
<1>9. \A d : d = Height(t) + 1 => At(t, d)' = g
    BY <1>1, <1>4, <1>5, <1>6 DEF Height, At
<1> QED
    BY <1>7, <1>8, <1>9

LEMMA Popped ==
    ASSUME StackOK, NEW t \in AllThreads, Pops(t), Height(t) > 1
    PROVE  /\ StackOK'
           /\ \A u \in AllThreads :
                 /\ Height(u)' = IF u = t THEN Height(t) - 1 ELSE Height(u)
                 /\ \A d \in Calls(u) : ~(u = t /\ d = Height(t)) => At(u, d)' = At(u, d)
                 /\ Top(u)' = IF u = t THEN At(t, Height(t) - 1) ELSE Top(u)
<1>1. PICK s \in Seq(FrameType) : s = stack[t] /\ Len(s) > 1
    BY DEF StackOK, Height
<1>2. stack' = [stack EXCEPT ![t] = Tail(s)]
    BY <1>1 DEF Pops
<1>3. /\ Tail(s) \in Seq(FrameType) /\ Len(Tail(s)) = Len(s) - 1
      /\ Len(s) > 1 => Head(Tail(s)) = Nth(s, Len(s) - 1)
      /\ \A d \in 1..Len(s) - 1 : Nth(Tail(s), d) = Nth(s, d)
    BY <1>1, PopShape
<1> DEFINE r == Tail(s)
<1> HIDE DEF r
<1>4. stack' = [stack EXCEPT ![t] = r] /\ r \in Seq(FrameType) /\ Len(r) = Len(s) - 1
      /\ Head(r) = Nth(s, Len(s) - 1) /\ \A d \in 1..Len(s) - 1 : Nth(r, d) = Nth(s, d)
    BY <1>1, <1>2, <1>3 DEF r
<1>5. Len(s) \in Nat
    OBVIOUS
<1>6. stack'[t] = r /\ \A u \in AllThreads \ {t} : stack'[u] = stack[u]
    BY <1>4 DEF StackOK
<1>7. StackOK'
    BY <1>1, <1>4, <1>5 DEF StackOK, Height
<1>8. ASSUME NEW u \in AllThreads
      PROVE  /\ Height(u)' = IF u = t THEN Height(t) - 1 ELSE Height(u)
             /\ \A d \in Calls(u) : ~(u = t /\ d = Height(t)) => At(u, d)' = At(u, d)
             /\ Top(u)' = IF u = t THEN At(t, Height(t) - 1) ELSE Top(u)
    <2>1. CASE u = t
        BY <1>1, <1>4, <1>5, <1>6, <2>1 DEF Height, Calls, At, Top
    <2>2. CASE u # t
        BY <1>6, <2>2 DEF Height, Calls, At, Top
    <2> QED
        BY <2>1, <2>2
<1> QED
    BY <1>7, <1>8

\* The innermost call is the last one.
LEMMA TopIsLast ==
    StackOK => \A t \in AllThreads :
        /\ Height(t) \in Nat /\ Height(t) >= 1 /\ Height(t) \in Calls(t)
        /\ Top(t) = At(t, Height(t)) /\ Top(t) \in FrameType
        /\ \A d \in Calls(t) : At(t, d) \in FrameType
<1> SUFFICES ASSUME StackOK, NEW t \in AllThreads
             PROVE  /\ Height(t) \in Nat /\ Height(t) >= 1 /\ Height(t) \in Calls(t)
                    /\ Top(t) = At(t, Height(t)) /\ Top(t) \in FrameType
                    /\ \A d \in Calls(t) : At(t, d) \in FrameType
    OBVIOUS
<1>1. PICK s \in Seq(FrameType) : s = stack[t] /\ Len(s) >= 1
    BY DEF StackOK, Height
<1>3. Head(s) = Nth(s, Len(s)) /\ \A d \in 1..Len(s) : Nth(s, d) \in FrameType
    BY <1>1, PopShape
<1> QED
    BY <1>1, <1>3 DEF Height, Calls, At, Top

-----------------------------------------------------------------------------
(* A thread moves on within its innermost call.                            *)

\* Where it may go, given the states of tasks after the step.
MayGoTo(t, to) ==
    IF Executes(t, Height(t))
    THEN /\ to \in Running \cup Ending \cup Unlinking
         /\ ExecutionFits(state'[Mine(t)], to)
         /\ Height(t) = 1 => to \in InBody
    ELSE IF Height(t) = 1
    THEN to \in {"idle", "try_grab", "after_child"}
    ELSE /\ to \in Waiting \/ (to \in Unlinking /\ t = User)
         /\ Mine(t) = None => to = "wait"

\* What the other calls execute still fits.
OthersFit(t) ==
    \A u \in AllThreads : \A d \in Calls(u) :
        Executes(u, d) /\ ~(u = t /\ d = Height(t))
            => ExecutionFits(state'[At(u, d).task], At(u, d).at)

\* current_task is kept or forgotten.
CurrentFits(t, to) ==
    /\ \A u \in AllThreads : current'[u] = current[u] \/ (u = t /\ current'[u] = None)
    /\ current'[t] \in Tasks /\ Executes(t, Height(t)) /\ current'[t] = Mine(t)
          => to \in InBody

SameExecutions ==
    \A u \in AllThreads : \A n : ExecutedBy(u, n)' <=> ExecutedBy(u, n)

LEMMA MoveFits ==
    ASSUME StackOK, CallsFit, ThreadsFit, OneExecution,
           NEW t \in AllThreads, NEW from, NEW to \in Places,
           NEW held \in Nodes \cup AllThreads \cup {None},
           Goes(t, from, to, held), MayGoTo(t, to), HoldsFit(to, held),
           OthersFit(t), CurrentFits(t, to)
    PROVE  /\ StackOK' /\ CallsFit' /\ ThreadsFit' /\ OneExecution' /\ SameExecutions
           /\ \A u \in AllThreads :
                 /\ Top(u)' = IF u = t THEN Frame(Mine(t), to, held) ELSE Top(u)
                 /\ Mine(u)' = Mine(u)
           /\ Top(t).at = from
<1>1. PICK f \in FrameType : f = Frame(Mine(t), to, held)
    BY TopIsLast DEF FrameType, Frame, Mine
<1>2. f.task = Mine(t) /\ f.at = to /\ f.held = held /\ Top(t).at = from /\ Replaces(t, f)
    BY <1>1 DEF Frame, Goes, Replaces
<1>3. StackOK'
    BY <1>2, Replaced
<1>4. \A u \in AllThreads :
         /\ Height(u)' = Height(u) /\ Calls(u)' = Calls(u)
         /\ \A d \in Calls(u) : At(u, d)' = IF u = t /\ d = Height(t) THEN f ELSE At(u, d)
         /\ Top(u)' = IF u = t THEN f ELSE Top(u)
    BY <1>2, Replaced
<1>5. \A u \in AllThreads : /\ Height(u) \in Nat /\ Height(u) >= 1 /\ Height(u) \in Calls(u)
                            /\ Top(u) = At(u, Height(u)) /\ Calls(u) = 1..Height(u)
    BY TopIsLast DEF Calls
<1>6. ASSUME NEW u \in AllThreads, NEW d \in Calls(u)
      PROVE  Executes(u, d)' = Executes(u, d) /\ At(u, d).task' = At(u, d).task
    <2>1. d # 1 => d - 1 \in Calls(u) /\ d - 1 # Height(u)
        BY <1>5
    <2>2. d # 1 => At(u, d - 1)' = At(u, d - 1)
        BY <1>4, <2>1
    <2>3. At(u, d).task' = At(u, d).task
        BY <1>2, <1>4, <1>5 DEF Mine
    <2> QED
        BY <2>2, <2>3 DEF Executes
<1>7. SameExecutions
    BY <1>4, <1>6 DEF SameExecutions, ExecutedBy
<1>8. OneExecution'
    BY <1>4, <1>6 DEF OneExecution
<1>9. ASSUME NEW u \in AllThreads, NEW d \in Calls(u)
      PROVE  CallFits(u, d)'
    <2>1. CallFits(u, d)
        BY DEF CallsFit
    <2>2. CASE u = t /\ d = Height(t)
        <3>1. At(u, d)' = f /\ Height(u)' = d
            BY <1>4, <1>5, <2>2
        <3>2. CASE Executes(t, d)
            <4>1. /\ to \in Running \cup Ending \cup Unlinking
                  /\ ExecutionFits(state'[Mine(t)], to)
                  /\ d = 1 => to \in InBody
                BY <2>2, <3>2 DEF MayGoTo
            <4>2. IF d = 1 THEN Mine(t) = Root ELSE Mine(t) \in Tasks
                BY <1>5, <2>1, <2>2, <3>2 DEF CallFits, Mine
            <4> QED
                BY <1>2, <1>6, <2>2, <3>1, <3>2, <4>1, <4>2 DEF CallFits
        <3>3. CASE ~Executes(t, d) /\ d = 1
            <4>1. to \in {"idle", "try_grab", "after_child"} /\ Mine(t) = None
                BY <1>5, <2>1, <2>2, <3>3 DEF CallFits, MayGoTo, Mine
            <4> QED
                BY <1>2, <1>6, <2>2, <3>1, <3>3, <4>1 DEF CallFits
        <3>4. CASE ~Executes(t, d) /\ d # 1
            <4>1. /\ to \in Waiting \/ (to \in Unlinking /\ t = User)
                  /\ Mine(t) = None => to = "wait"
                BY <2>2, <3>4 DEF MayGoTo
            <4>2. Mine(t) \in Tasks => \E e \in 1..(d - 1) : Executes(t, e) /\ At(t, e).task = Mine(t)
                BY <1>5, <2>1, <2>2, <3>4 DEF CallFits, Mine
            <4>3. Mine(t) \in Tasks => \E e \in 1..(d - 1) : Executes(t, e)' /\ At(t, e).task' = Mine(t)
                BY <1>5, <1>6, <2>2, <4>2
            <4>4. Mine(t) = Root => t = User
                BY <1>5, <2>1, <2>2, <3>4 DEF CallFits, Mine
            <4> QED
                BY <1>2, <1>6, <2>2, <3>1, <3>4, <4>1, <4>3, <4>4 DEF CallFits
        <3> QED
            BY <3>2, <3>3, <3>4
    <2>3. CASE ~(u = t /\ d = Height(t))
        <3>1. At(u, d)' = At(u, d) /\ Height(u)' = Height(u)
            BY <1>4, <2>3
        <3>2. Executes(u, d) => ExecutionFits(state'[At(u, d).task], At(u, d).at)
            BY <2>3 DEF OthersFit
        <3>3. \A e \in 1..(d - 1) : Executes(u, e)' = Executes(u, e) /\ At(u, e).task' = At(u, e).task
            BY <1>5, <1>6
        <3>4. CASE Executes(u, d)
            BY <1>6, <2>1, <3>1, <3>2, <3>4 DEF CallFits
        <3>5. CASE ~Executes(u, d)
            BY <1>6, <2>1, <3>1, <3>3, <3>5 DEF CallFits
        <3> QED
            BY <3>4, <3>5
    <2> QED
        BY <2>2, <2>3
<1>10. CallsFit'
    BY <1>4, <1>9 DEF CallsFit
<1>11. ASSUME NEW u \in AllThreads
       PROVE  ThreadFits(u)'
    <2>1. ThreadFits(u)
        BY DEF ThreadsFit
    <2>2. HoldsFit(Top(u).at, Held(u))'
        BY <1>2, <1>4, <2>1 DEF ThreadFits, HoldsFit, Held
    <2>3. current'[u] = Root => u = User
        BY <2>1, TreeAssumption DEF CurrentFits, ThreadFits, Nodes
    <2>4. ASSUME current'[u] \in Tasks
          PROVE  \E d \in Calls(u) : /\ Executes(u, d)' /\ At(u, d).task' = current'[u]
                                     /\ At(u, d).at' \in InBody
        <3>1. current'[u] = current[u]
            BY <2>4, TreeAssumption DEF CurrentFits, Nodes
        <3>2. PICK d \in Calls(u) : /\ Executes(u, d) /\ At(u, d).task = current[u]
                                    /\ At(u, d).at \in InBody
            BY <2>1, <2>4, <3>1 DEF ThreadFits
        <3>3. Executes(u, d)' /\ At(u, d).task' = current'[u]
            BY <1>6, <3>1, <3>2
        <3>4. CASE u = t /\ d = Height(t)
            <4>1. to \in InBody
                BY <1>5, <2>4, <3>1, <3>2, <3>4 DEF CurrentFits, Mine
            <4>2. At(u, d)' = f
                BY <1>4, <3>4
            <4> QED
                BY <1>2, <3>3, <4>1, <4>2
        <3>5. CASE ~(u = t /\ d = Height(t))
            BY <1>4, <3>2, <3>3, <3>5
        <3> QED
            BY <3>4, <3>5
    <2> QED
        BY <1>4, <2>2, <2>3, <2>4 DEF ThreadFits
<1>12. ThreadsFit'
    BY <1>11 DEF ThreadsFit
<1>13. \A u \in AllThreads : /\ Top(u)' = IF u = t THEN Frame(Mine(t), to, held) ELSE Top(u)
                             /\ Mine(u)' = Mine(u)
    BY <1>1, <1>2, <1>4 DEF Mine
<1> QED
    BY <1>2, <1>3, <1>7, <1>8, <1>10, <1>12, <1>13

-----------------------------------------------------------------------------
(* Who executes a task.                                                    *)

LEMMA FramesTask ==
    ASSUME NEW s \in Seq(FrameType), NEW k
    PROVE  (\E f \in Range(s) : f.task = k) <=> \E d \in 1..Len(s) : Nth(s, d).task = k
<1>1. \A d \in 1..Len(s) : Len(s) + 1 - d \in 1..Len(s) /\ Len(s) + 1 - (Len(s) + 1 - d) = d
    OBVIOUS
<1> QED
    BY <1>1 DEF Range, Nth

ExecutorsExecute ==
    \A k \in Tasks, t \in AllThreads :
        t \in Executors(k) <=> ExecutedBy(t, k)

\* A thread that has a task in one of its calls executes it.
LEMMA ExecutorsAreExecuting == StackOK /\ CallsFit => ExecutorsExecute
<1> SUFFICES ASSUME StackOK, CallsFit, NEW k \in Tasks, NEW t \in AllThreads
             PROVE  t \in Executors(k) <=> ExecutedBy(t, k)
    BY DEF ExecutorsExecute
<1>1. t \in Executors(k) <=> \E d \in Calls(t) : At(t, d).task = k
    <2>1. PICK s \in Seq(FrameType) : s = stack[t]
        BY DEF StackOK
    <2>2. t \in Executors(k) <=> \E f \in Range(s) : f.task = k
        BY <2>1 DEF Executors, Frames
    <2> QED
        BY <2>1, <2>2, FramesTask DEF Calls, Height, At
<1>2. ASSUME NEW d \in Calls(t), At(t, d).task = k
      PROVE  \E e \in Calls(t) : Executes(t, e) /\ At(t, e).task = k
    <2>1. CASE Executes(t, d)
        BY <1>2, <2>1
    <2>2. CASE ~Executes(t, d)
        <3>1. d # 1
            BY <1>2, <2>2, TreeAssumption DEF CallsFit, CallFits, Nodes
        <3>2. PICK e \in 1..(d - 1) : Executes(t, e) /\ At(t, e).task = k
            BY <1>2, <2>2, <3>1 DEF CallsFit, CallFits
        <3>3. e \in Calls(t)
            BY <1>2, <3>1, TopIsLast DEF Calls
        <3> QED
            BY <3>2, <3>3
    <2> QED
        BY <2>1, <2>2
<1> QED
    BY <1>1, <1>2 DEF ExecutedBy

LEMMA ExecutorsAreExecutingNext == StackOK' /\ CallsFit' => ExecutorsExecute'
BY ExecutorsAreExecuting, PTL

-----------------------------------------------------------------------------
(* How often a task is in a queue, and in how many lists.                  *)

LEMMA CountIsNat ==
    ASSUME NEW s \in Seq(Tasks), NEW k
    PROVE  IsFiniteSet({i \in DOMAIN s : s[i] = k}) /\ Count(k, s) \in Nat
<1>1. IsFiniteSet(1..Len(s)) /\ DOMAIN s = 1..Len(s)
    BY FS_Interval
<1> QED
    BY <1>1, FS_Subset, FS_CardinalityType DEF Count

LEMMA CountAppend ==
    ASSUME NEW s \in Seq(Tasks), NEW j \in Tasks, NEW k
    PROVE  Count(k, Append(s, j)) = Count(k, s) + IF j = k THEN 1 ELSE 0
<1> DEFINE P == {i \in DOMAIN s : s[i] = k}
           r == Append(s, j)
           Q == {i \in DOMAIN r : r[i] = k}
<1>1. IsFiniteSet(P) /\ Cardinality(P) \in Nat /\ Count(k, s) = Cardinality(P)
    BY CountIsNat DEF Count
<1>2. Len(s) \in Nat /\ DOMAIN s = 1..Len(s) /\ DOMAIN r = 1..Len(s) + 1
      /\ r[Len(s) + 1] = j /\ \A i \in 1..Len(s) : r[i] = s[i]
    OBVIOUS
<1>3. Q = IF j = k THEN P \cup {Len(s) + 1} ELSE P
    <2> HIDE DEF r
    <2> QED
        BY <1>2
<1>4. Len(s) + 1 \notin P
    BY <1>2
<1>5. Count(k, r) = Cardinality(Q)
    BY DEF Count
<1> HIDE DEF P, Q, r
<1>6. CASE j = k
    BY <1>1, <1>3, <1>4, <1>5, <1>6, FS_AddElement DEF r
<1>7. CASE j # k
    BY <1>1, <1>3, <1>5, <1>7 DEF r
<1> QED
    BY <1>6, <1>7

LEMMA CountTail ==
    ASSUME NEW s \in Seq(Tasks), s # <<>>, NEW k
    PROVE  Count(k, s) = Count(k, Tail(s)) + IF Head(s) = k THEN 1 ELSE 0
<1> DEFINE P == {i \in DOMAIN s : s[i] = k}
           r == Tail(s)
           Q == {i \in DOMAIN r : r[i] = k}
           R == {i \in P : i # 1}
           f == [i \in Q |-> i + 1]
<1>1. /\ IsFiniteSet(P) /\ Cardinality(P) \in Nat /\ Count(k, s) = Cardinality(P)
      /\ IsFiniteSet(Q) /\ Cardinality(Q) \in Nat /\ Count(k, r) = Cardinality(Q)
    <2>1. r \in Seq(Tasks)
        OBVIOUS
    <2> HIDE DEF r
    <2> QED
        BY <2>1, CountIsNat DEF Count
<1>2. Len(s) \in Nat /\ Len(s) >= 1 /\ DOMAIN s = 1..Len(s) /\ DOMAIN r = 1..Len(s) - 1
      /\ Head(s) = s[1] /\ \A i \in 1..Len(s) - 1 : r[i] = s[i + 1]
    OBVIOUS
<1> HIDE DEF r
<1>3. f \in Bijection(Q, R)
    <2>1. \A i \in Q : i \in Nat /\ i + 1 \in R /\ f[i] = i + 1
        BY <1>2
    <2>2. \A i \in R : i - 1 \in Q /\ i \in Nat /\ f[i - 1] = i
        BY <1>2
    <2> HIDE DEF f, Q, R
    <2>3. f \in [Q -> R]
        <3>1. f = [i \in Q |-> i + 1]
            BY DEF f
        <3> QED
            BY <2>1, <3>1
    <2>4. \A i, j \in Q : f[i] = f[j] => i = j
        BY <2>1
    <2> QED
        BY <2>2, <2>3, <2>4 DEF Bijection, Injection, Surjection, IsInjective
<1>4. Cardinality(R) = Cardinality(Q)
    BY <1>1, <1>3, FS_Bijection, Fun_ExistsBij DEF ExistsBijection
<1>5. R = P \ {1}
    OBVIOUS
<1>6. 1 \in P <=> Head(s) = k
    BY <1>2
<1> HIDE DEF P, Q, R, f
<1>7. Cardinality(P \ {1}) = IF 1 \in P THEN Cardinality(P) - 1 ELSE Cardinality(P)
    BY <1>1, FS_RemoveElement
<1>8. Count(k, s) = Count(k, r) + IF Head(s) = k THEN 1 ELSE 0
    BY <1>1, <1>4, <1>5, <1>6, <1>7
<1> QED
    BY <1>8 DEF r

LEMMA ListTail ==
    ASSUME NEW s \in Seq(Tasks), s # <<>>, IsList(s)
    PROVE  /\ Tail(s) \in Seq(Tasks) /\ IsList(Tail(s)) /\ Head(s) \in Tasks
           /\ \A k : k \in Range(Tail(s)) <=> k \in Range(s) /\ k # Head(s)
           /\ Head(s) \in Range(s)
<1> DEFINE r == Tail(s)
<1>1. Len(s) \in Nat /\ Len(s) >= 1 /\ DOMAIN s = 1..Len(s) /\ DOMAIN r = 1..Len(s) - 1
      /\ Head(s) = s[1] /\ \A i \in 1..Len(s) - 1 : r[i] = s[i + 1]
    OBVIOUS
<1>2. r \in Seq(Tasks) /\ Head(s) \in Tasks
    OBVIOUS
<1> HIDE DEF r
<1>3. \A i \in 1..Len(s) - 1 : i + 1 \in 1..Len(s) /\ i + 1 # 1
    BY <1>1
<1>4. \A i \in 1..Len(s) : i = 1 \/ (i - 1 \in 1..Len(s) - 1 /\ (i - 1) + 1 = i)
    BY <1>1
<1>5. IsList(r)
    BY <1>1, <1>3 DEF IsList
<1>6. ASSUME NEW k, k \in Range(r) PROVE k \in Range(s) /\ k # Head(s)
    <2>1. PICK i \in 1..Len(s) - 1 : r[i] = k
        BY <1>1, <1>6 DEF Range
    <2>2. s[i + 1] = k /\ i + 1 \in 1..Len(s) /\ i + 1 # 1
        BY <1>1, <1>3, <2>1
    <2> QED
        BY <1>1, <2>2 DEF Range, IsList
<1>7. ASSUME NEW k, k \in Range(s), k # Head(s) PROVE k \in Range(r)
    <2>1. PICK i \in 1..Len(s) : s[i] = k
        BY <1>1, <1>7 DEF Range
    <2>2. i # 1
        BY <1>1, <1>7, <2>1
    <2>3. r[i - 1] = k
        BY <1>1, <1>4, <2>1, <2>2
    <2> QED
        BY <1>1, <1>4, <2>2, <2>3 DEF Range
<1>8. Head(s) \in Range(s)
    BY <1>1 DEF Range
<1> QED
    BY <1>2, <1>5, <1>6, <1>7, <1>8 DEF r

LEMMA ListAppend ==
    ASSUME NEW s \in Seq(Tasks), NEW j \in Tasks
    PROVE  /\ Append(s, j) \in Seq(Tasks)
           /\ IsList(s) /\ j \notin Range(s) => IsList(Append(s, j))
           /\ \A k : k \in Range(Append(s, j)) <=> k \in Range(s) \/ k = j
<1> DEFINE r == Append(s, j)
<1>1. Len(s) \in Nat /\ DOMAIN s = 1..Len(s) /\ DOMAIN r = 1..Len(s) + 1
      /\ r[Len(s) + 1] = j /\ \A i \in 1..Len(s) : r[i] = s[i]
    OBVIOUS
<1>2. r \in Seq(Tasks)
    OBVIOUS
<1> HIDE DEF r
<1>3. \A i \in 1..Len(s) + 1 : i = Len(s) + 1 \/ i \in 1..Len(s)
    BY <1>1
<1>4. Len(s) + 1 \in 1..Len(s) + 1 /\ \A i \in 1..Len(s) : i \in 1..Len(s) + 1
    BY <1>1
<1>5. \A k : k \in Range(r) <=> k \in Range(s) \/ k = j
    BY <1>1, <1>3, <1>4 DEF Range
<1>6. IsList(s) /\ j \notin Range(s) => IsList(r)
    BY <1>1, <1>3 DEF IsList, Range
<1> QED
    BY <1>2, <1>5, <1>6 DEF r

Lists(k) == {n \in Nodes : k \in Range(children[n])}

LEMMA ListsAreFinite ==
    ASSUME NEW S \in SUBSET Nodes
    PROVE  IsFiniteSet(S) /\ Cardinality(S) \in Nat
<1>1. IsFiniteSet(Nodes)
    BY TreeAssumption, FS_AddElement DEF Nodes
<1> QED
    BY <1>1, FS_Subset, FS_CardinalityType

LEMMA ThreadsAreFinite ==
    ASSUME NEW S \in SUBSET AllThreads
    PROVE  IsFiniteSet(S) /\ Cardinality(S) \in Nat
<1>1. IsFiniteSet(AllThreads)
    BY TreeAssumption, FS_AddElement DEF AllThreads
<1> QED
    BY <1>1, FS_Subset, FS_CardinalityType

\* The head of a list is taken.
LEMMA ListsPop ==
    ASSUME Types, NEW p \in Nodes, children[p] # <<>>, IsList(children[p]),
           children' = [children EXCEPT ![p] = Tail(@)]
    PROVE  /\ children' \in [Nodes -> Seq(Tasks)] /\ Head(children[p]) \in Tasks
           /\ IsList(children'[p])
           /\ \A k \in Tasks : Cardinality(Lists(k))
                  = Cardinality(Lists(k)') + IF Head(children[p]) = k THEN 1 ELSE 0
<1>1. PICK s \in Seq(Tasks) : s = children[p]
    BY DEF Types
<1>2. /\ Tail(s) \in Seq(Tasks) /\ IsList(Tail(s)) /\ Head(s) \in Tasks
      /\ \A k : k \in Range(Tail(s)) <=> k \in Range(s) /\ k # Head(s)
      /\ Head(s) \in Range(s)
    BY <1>1, ListTail
<1>3. children'[p] = Tail(s) /\ \A n \in Nodes \ {p} : children'[n] = children[n]
    BY <1>1 DEF Types
<1>4. children' \in [Nodes -> Seq(Tasks)]
    BY <1>1, <1>2 DEF Types
<1>5. ASSUME NEW k \in Tasks
      PROVE  Cardinality(Lists(k)) = Cardinality(Lists(k)') + IF Head(s) = k THEN 1 ELSE 0
    <2>1. CASE Head(s) = k
        <3>1. Lists(k)' = Lists(k) \ {p} /\ p \in Lists(k)
            BY <1>1, <1>2, <1>3, <2>1 DEF Lists
        <3>2. IsFiniteSet(Lists(k)) /\ Cardinality(Lists(k)) \in Nat
            BY ListsAreFinite DEF Lists
        <3>3. Cardinality(Lists(k) \ {p})
                 = IF p \in Lists(k) THEN Cardinality(Lists(k)) - 1 ELSE Cardinality(Lists(k))
            BY <3>2, FS_RemoveElement
        <3> QED
            BY <2>1, <3>1, <3>2, <3>3
    <2>2. CASE Head(s) # k
        <3>1. Lists(k)' = Lists(k)
            BY <1>1, <1>2, <1>3, <2>2 DEF Lists
        <3>2. Cardinality(Lists(k)) \in Nat
            BY ListsAreFinite DEF Lists
        <3> QED
            BY <2>2, <3>1, <3>2
    <2> QED
        BY <2>1, <2>2
<1> QED
    BY <1>1, <1>2, <1>3, <1>4, <1>5

\* What one thread does changes the handlers of a task by that thread.
Handles(t, k) ==
    Top(t).at \in Handling /\ Held(t) = k

LEMMA HandlersChange ==
    ASSUME NEW t \in AllThreads, NEW k, \A u \in AllThreads \ {t} : Top(u)' = Top(u)
    PROVE  /\ Cardinality(Handlers(k)) \in Nat /\ Cardinality(Handlers(k)') \in Nat
           /\ Cardinality(Handlers(k)') + (IF Handles(t, k) THEN 1 ELSE 0)
                = Cardinality(Handlers(k)) + (IF Handles(t, k)' THEN 1 ELSE 0)
           /\ Handles(t, k) => Cardinality(Handlers(k)) >= 1
<1> DEFINE R == Handlers(k) \ {t}
           H == Handlers(k)
           N == Handlers(k)'
<1>1. R = N \ {t}
    BY DEF Handlers, TopAt, Held
<1>2. t \in H <=> Handles(t, k)
    BY DEF Handlers, TopAt, Handles
<1>3. t \in N <=> Handles(t, k)'
    BY DEF Handlers, TopAt, Handles
<1>4. H \subseteq AllThreads /\ N \subseteq AllThreads
    BY DEF Handlers, TopAt
<1>5. /\ IsFiniteSet(H) /\ Cardinality(H) \in Nat
      /\ IsFiniteSet(N) /\ Cardinality(N) \in Nat
    <2> HIDE DEF H, N
    <2> QED
        BY <1>4, ThreadsAreFinite
<1>6. R = H \ {t}
    OBVIOUS
<1> HIDE DEF R, H, N
<1>7. Cardinality(R) = IF t \in H THEN Cardinality(H) - 1 ELSE Cardinality(H)
    BY <1>5, <1>6, FS_RemoveElement
<1>8. Cardinality(R) = IF t \in N THEN Cardinality(N) - 1 ELSE Cardinality(N)
    BY <1>1, <1>5, FS_RemoveElement
<1>9. Cardinality(R) \in Nat
    BY <1>5, <1>6, FS_RemoveElement, FS_CardinalityType
<1>10. Cardinality(N) + (IF t \in H THEN 1 ELSE 0) = Cardinality(H) + (IF t \in N THEN 1 ELSE 0)
    BY <1>5, <1>7, <1>8
<1>11. t \in H => Cardinality(H) >= 1
    BY <1>5, <1>7, <1>9
<1> QED
    BY <1>2, <1>3, <1>5, <1>10, <1>11 DEF H, N

-----------------------------------------------------------------------------
(* Steps after which every thread executes what it executed.               *)

LEMMA SameExecutors ==
    ASSUME StackOK, CallsFit, StackOK', CallsFit', SameExecutions
    PROVE  /\ \A k \in Tasks : Executors(k)' = Executors(k)
           /\ \A n : Executed(n)' <=> Executed(n)
<1>1. \A k \in Tasks, t \in AllThreads : t \in Executors(k) <=> ExecutedBy(t, k)
    BY ExecutorsAreExecuting DEF ExecutorsExecute
<1>2. \A k \in Tasks, t \in AllThreads : t \in Executors(k)' <=> ExecutedBy(t, k)'
    BY ExecutorsAreExecutingNext DEF ExecutorsExecute
<1>3. \A k \in Tasks, t \in AllThreads : t \in Executors(k)' <=> t \in Executors(k)
    BY <1>1, <1>2 DEF SameExecutions
<1>4. \A k : Executors(k) \subseteq AllThreads /\ Executors(k)' \subseteq AllThreads
    BY DEF Executors
<1>5. \A n : Executed(n)' <=> Executed(n)
    BY DEF Executed, SameExecutions
<1> QED
    BY <1>3, <1>4, <1>5

\* A task has an execution to come or under way.
ExecutionsAreRight ==
    \A k \in Tasks :
        Executions(k) = IF state[k] = "allocated" \/ Executed(k) THEN 1 ELSE 0

LEMMA ExecutionsAre == StackOK /\ CallsFit => ExecutionsAreRight
<1> SUFFICES ASSUME StackOK, CallsFit, NEW k \in Tasks
             PROVE  Executions(k) = IF state[k] = "allocated" \/ Executed(k) THEN 1 ELSE 0
    BY DEF ExecutionsAreRight
<1>1. \A t \in AllThreads : t \in Executors(k) <=> ExecutedBy(t, k)
    BY ExecutorsAreExecuting DEF ExecutorsExecute
<1>2. Executors(k) # {} <=> Executed(k)
    BY <1>1 DEF Executed, Executors
<1> QED
    BY <1>2 DEF Executions

LEMMA ExecutionsAreNext == StackOK' /\ CallsFit' => ExecutionsAreRight'
BY ExecutionsAre, PTL

ContainersAreNat == \A k \in Tasks : Containers(k) \in Nat

LEMMA ContainersType == Types => ContainersAreNat
<1> SUFFICES ASSUME Types, NEW k \in Tasks PROVE Containers(k) \in Nat
    BY DEF ContainersAreNat
<1>1. Count(k, pendingTasks) \in Nat /\ Count(k, typeTasks) \in Nat
    BY CountIsNat DEF Types
<1>2. Cardinality(Lists(k)) \in Nat
    BY ListsAreFinite DEF Lists
<1> QED
    BY <1>1, <1>2 DEF Containers, Lists

LEMMA ContainersTypeNext == Types' => ContainersAreNat'
BY ContainersType, PTL

\* The references of a task follow its containers, its handlers and its execution.
ReferencesFollow(t, k) ==
    references'[k] + Containers(k) + (IF Handles(t, k) THEN 1 ELSE 0) + Executions(k)
        = references[k] + Containers(k)' + (IF Handles(t, k)' THEN 1 ELSE 0) + Executions(k)'

LEMMA TaskGoesOn ==
    ASSUME Types, Types', NEW k \in Tasks, TaskFits(k),
           NEW t \in AllThreads, \A u \in AllThreads \ {t} : Top(u)' = Top(u),
           state'[k] \in {"grabbed", "captured"} => Executed(k)',
           state'[k] = "deallocated" <=> references'[k] = 0,
           ReferencesFollow(t, k)
    PROVE  TaskFits(k)'
<1>3. Containers(k) \in Nat /\ Containers(k)' \in Nat
    BY ContainersType, ContainersTypeNext DEF ContainersAreNat
<1>4. references[k] \in Nat /\ references'[k] \in Nat
    <2>1. k \in Nodes
        BY DEF Nodes
    <2>2. references[k] \in 0..4 /\ references'[k] \in 0..4
        BY <2>1 DEF Types
    <2> QED
        BY <2>2
<1>5. /\ Cardinality(Handlers(k)) \in Nat /\ Cardinality(Handlers(k)') \in Nat
      /\ Cardinality(Handlers(k)') + (IF Handles(t, k) THEN 1 ELSE 0)
           = Cardinality(Handlers(k)) + (IF Handles(t, k)' THEN 1 ELSE 0)
    BY HandlersChange
<1>6. Executions(k)' \in Nat /\ Executions(k) \in Nat
    BY DEF Executions
<1>7. references'[k] = Containers(k)' + Cardinality(Handlers(k)') + Executions(k)'
    BY <1>3, <1>4, <1>5, <1>6 DEF TaskFits, ReferencesFollow
<1> QED
    BY <1>7 DEF TaskFits

\* The same when every thread executes what it executed.
QuietlyFollows(t, k) ==
    references'[k] + Containers(k) + (IF Handles(t, k) THEN 1 ELSE 0)
        = references[k] + Containers(k)' + (IF Handles(t, k)' THEN 1 ELSE 0)

LEMMA TasksGoOn ==
    ASSUME Types, Types', StackOK, CallsFit, StackOK', CallsFit', SameExecutions, TasksFit,
           NEW t \in AllThreads, \A u \in AllThreads \ {t} : Top(u)' = Top(u),
           \A k \in Tasks :
              /\ state'[k] \in {"grabbed", "captured"} => state[k] \in {"grabbed", "captured"}
              /\ state'[k] = "allocated" <=> state[k] = "allocated"
              /\ state'[k] = "deallocated" <=> references'[k] = 0
              /\ QuietlyFollows(t, k)
    PROVE  TasksFit'
<1> SUFFICES ASSUME NEW k \in Tasks PROVE TaskFits(k)'
    BY DEF TasksFit
<1>1. TaskFits(k)
    BY DEF TasksFit
<1>2. Executors(k)' = Executors(k) /\ (Executed(k)' <=> Executed(k))
    BY SameExecutors
<1>3. Containers(k) \in Nat /\ Containers(k)' \in Nat
    BY ContainersType, ContainersTypeNext DEF ContainersAreNat
<1>4. references[k] \in Nat /\ references'[k] \in Nat
    <2>1. k \in Nodes
        BY DEF Nodes
    <2>2. references[k] \in 0..4 /\ references'[k] \in 0..4
        BY <2>1 DEF Types
    <2> QED
        BY <2>2
<1>5. Executions(k)' = Executions(k) /\ Executions(k) \in Nat
    BY <1>2 DEF Executions
<1>6. ReferencesFollow(t, k)
    BY <1>3, <1>4, <1>5 DEF ReferencesFollow, QuietlyFollows
<1>7. state'[k] \in {"grabbed", "captured"} => Executed(k)'
    BY <1>1, <1>2 DEF TaskFits
<1>8. state'[k] = "deallocated" <=> references'[k] = 0
    OBVIOUS
<1> QED
    BY <1>1, <1>6, <1>7, <1>8, TaskGoesOn

\* The calls that a captured task depends on.
LEMMA CutsKept ==
    ASSUME CutsOffAlone, NEW t \in AllThreads, \A u \in AllThreads \ {t} : Top(u)' = Top(u),
           Top(t)'.at # "unlink_captured",
           Top(t)'.at \in Ending => Top(t).at \in Ending /\ Mine(t)' = Mine(t),
           \A u \in TopAt({"unlink_captured"}) \ {t} : state'[Held(u)] = "captured"
    PROVE  CutsOffAlone'
<1>1. \A u \in AllThreads \ {t} : /\ Held(u)' = Held(u) /\ Mine(u)' = Mine(u)
                                  /\ Top(u).at' = Top(u).at
    BY DEF Held, Mine
<1>2. \A u \in TopAt({"unlink_captured"})' :
         u # t /\ u \in TopAt({"unlink_captured"}) /\ Held(u)' = Held(u)
    BY <1>1 DEF TopAt
<1>3. \A u \in TopAt(Ending)' : u \in TopAt(Ending) /\ Mine(u)' = Mine(u)
    BY <1>1 DEF TopAt
<1> QED
    BY <1>2, <1>3 DEF CutsOffAlone

-----------------------------------------------------------------------------
(* A thread enters a call, or leaves one.                                  *)

\* An execution finds its task grabbed, captured or executed.
LEMMA ExecutedState ==
    ASSUME StackOK, CallsFit, NEW n, Executed(n)
    PROVE  state[n] \in {"grabbed", "captured", "executed"}
<1>1. PICK t \in AllThreads : ExecutedBy(t, n)
    BY DEF Executed
<1>2. PICK d \in Calls(t) : Executes(t, d) /\ At(t, d).task = n
    BY <1>1 DEF ExecutedBy
<1>3. CallFits(t, d)
    BY DEF CallsFit
<1> QED
    BY <1>2, <1>3 DEF CallFits, ExecutionFits

\* What the innermost call of a thread may be.
TopFits(t) ==
    IF Executes(t, Height(t))
    THEN /\ Top(t).at \in Running \cup Ending \cup Unlinking
         /\ ExecutionFits(state[Mine(t)], Top(t).at)
         /\ IF Height(t) = 1 THEN Mine(t) = Root /\ Top(t).at \in InBody
                             ELSE Mine(t) \in Tasks
    ELSE IF Height(t) = 1
    THEN Mine(t) = None /\ Top(t).at \in {"idle", "try_grab", "after_child"}
    ELSE /\ Top(t).at \in Waiting \/ (Top(t).at \in Unlinking /\ t = User)
         /\ Mine(t) = None => Top(t).at = "wait"
         /\ Mine(t) = Root => t = User
         /\ Mine(t) \in Tasks =>
               \E e \in 1..(Height(t) - 1) : Executes(t, e) /\ At(t, e).task = Mine(t)

LEMMA CallsFitTop ==
    ASSUME StackOK, CallsFit, NEW t \in AllThreads
    PROVE  TopFits(t)
<1>1. Height(t) \in Calls(t) /\ Top(t) = At(t, Height(t))
    BY TopIsLast
<1>2. CallFits(t, Height(t))
    BY <1>1 DEF CallsFit
<1>3. \A d : d = Height(t) => (CallFits(t, d) /\ Top(t) = At(t, d) => TopFits(t))
    BY DEF CallFits, TopFits, Mine
<1> QED
    BY <1>1, <1>2, <1>3

\* wait_for_all_children is called.
LEMMA PushFits ==
    ASSUME StackOK, CallsFit, ThreadsFit, OneExecution, NEW t \in AllThreads,
           Top(t).at = "body", Pushes(t, Frame(current[t], "wait", None)),
           UNCHANGED <<state, current>>, current \in [AllThreads -> Nodes \cup {None}]
    PROVE  /\ StackOK' /\ CallsFit' /\ ThreadsFit' /\ OneExecution' /\ SameExecutions
           /\ \A u \in AllThreads :
                 Top(u)' = IF u = t THEN Frame(current[t], "wait", None) ELSE Top(u)
<1>1. PICK f \in FrameType : f = Frame(current[t], "wait", None)
    BY DEF FrameType, Frame, Places, Waiting
<1>2. f.task = current[t] /\ f.at = "wait" /\ f.held = None /\ Pushes(t, f)
    BY <1>1 DEF Frame
<1>3. StackOK'
    BY <1>2, Pushed
<1>4. \A u \in AllThreads :
         /\ Height(u)' = IF u = t THEN Height(t) + 1 ELSE Height(u)
         /\ \A d \in Calls(u) : At(u, d)' = At(u, d)
         /\ Top(u)' = IF u = t THEN f ELSE Top(u)
    BY <1>2, Pushed
<1>5. \A d : d = Height(t) + 1 => At(t, d)' = f
    BY <1>2, Pushed
<1>6. \A u \in AllThreads : /\ Height(u) \in Nat /\ Height(u) >= 1 /\ Height(u) \in Calls(u)
                            /\ Top(u) = At(u, Height(u)) /\ Calls(u) = 1..Height(u)
    BY TopIsLast DEF Calls
<1>7. \A u \in AllThreads : Calls(u)' = 1..(Height(u)')
    BY DEF Calls
<1>8. \A u \in AllThreads : \A d \in Calls(u)' : d \in Calls(u) \/ (u = t /\ d = Height(t) + 1)
    BY <1>4, <1>6, <1>7
<1>9. \A u \in AllThreads : \A d \in Calls(u) : d \in Calls(u)' /\ Executes(u, d)' = Executes(u, d)
    <2>1. ASSUME NEW u \in AllThreads, NEW d \in Calls(u)
          PROVE  d \in Calls(u)' /\ Executes(u, d)' = Executes(u, d)
        <3>1. d \in Calls(u)'
            BY <1>4, <1>6, <1>7
        <3>2. d # 1 => At(u, d - 1)' = At(u, d - 1)
            BY <1>4, <1>6
        <3> QED
            BY <3>1, <3>2 DEF Executes
    <2> QED
        BY <2>1
<1>10. \A d : d = Height(t) + 1 => ~Executes(t, d)'
    <2>1. ASSUME NEW d, d = Height(t) + 1 PROVE ~Executes(t, d)'
        <3>1. d # 1 /\ d - 1 = Height(t) /\ Height(t) \in Calls(t)
            BY <1>6, <2>1
        <3>2. At(t, d - 1)'.at = "body"
            BY <1>4, <1>6, <3>1
        <3> QED
            BY <3>1, <3>2 DEF Executes
    <2> QED
        BY <2>1
<1>11. ASSUME NEW u \in AllThreads, NEW d \in Calls(u)'
       PROVE  CallFits(u, d)'
    <2>1. CASE d \in Calls(u)
        <3>1. CallFits(u, d)
            BY <2>1 DEF CallsFit
        <3>2. At(u, d)' = At(u, d) /\ Executes(u, d)' = Executes(u, d)
            BY <1>4, <1>9, <2>1
        <3>3. \A e \in 1..(d - 1) : Executes(u, e)' = Executes(u, e) /\ At(u, e)' = At(u, e)
            BY <1>4, <1>6, <1>9, <2>1
        <3>4. d = Height(u) /\ d # Height(u)' => At(u, d).at = "body"
            BY <1>4, <1>6
        <3> QED
            BY <3>1, <3>2, <3>3, <3>4 DEF CallFits
    <2>2. CASE u = t /\ d = Height(t) + 1
        <3>1. At(u, d)' = f /\ ~Executes(u, d)' /\ d # 1 /\ Height(u)' = d
            BY <1>4, <1>5, <1>6, <1>10, <2>2
        <3>2. ASSUME current[t] \in Tasks
              PROVE  \E e \in 1..(d - 1) : Executes(t, e)' /\ At(t, e).task' = current[t]
            <4>1. PICK e \in Calls(t) : Executes(t, e) /\ At(t, e).task = current[t]
                BY <3>2 DEF ThreadsFit, ThreadFits
            <4> QED
                BY <1>4, <1>6, <1>9, <2>2, <4>1
        <3>3. current[t] = Root => t = User
            BY DEF ThreadsFit, ThreadFits
        <3> QED
            BY <1>2, <2>2, <3>1, <3>2, <3>3 DEF CallFits, Waiting
    <2> QED
        BY <1>8, <2>1, <2>2
<1>12. CallsFit'
    BY <1>11 DEF CallsFit
<1>13. OneExecution'
    BY <1>4, <1>8, <1>9, <1>10 DEF OneExecution
<1>14. SameExecutions
    BY <1>4, <1>8, <1>9, <1>10 DEF SameExecutions, ExecutedBy
<1>15. ASSUME NEW u \in AllThreads
       PROVE  ThreadFits(u)'
    <2>1. ThreadFits(u)
        BY DEF ThreadsFit
    <2>2. HoldsFit(Top(u).at, Held(u))'
        BY <1>2, <1>4, <2>1 DEF ThreadFits, HoldsFit, Held
    <2>3. ASSUME current'[u] \in Tasks
          PROVE  \E d \in Calls(u)' : /\ Executes(u, d)' /\ At(u, d).task' = current'[u]
                                      /\ At(u, d).at' \in InBody
        <3>1. PICK d \in Calls(u) : /\ Executes(u, d) /\ At(u, d).task = current[u]
                                    /\ At(u, d).at \in InBody
            BY <2>1, <2>3 DEF ThreadFits
        <3> QED
            BY <1>4, <1>9, <3>1
    <2> QED
        BY <2>1, <2>2, <2>3 DEF ThreadFits
<1>16. ThreadsFit'
    BY <1>15 DEF ThreadsFit
<1>17. \A u \in AllThreads : Top(u)' = IF u = t THEN Frame(current[t], "wait", None) ELSE Top(u)
    BY <1>1, <1>4
<1> QED
    BY <1>3, <1>12, <1>13, <1>14, <1>16, <1>17

\* A popped task is grabbed, and executed at once.
LEMMA EnterFits ==
    ASSUME StackOK, CallsFit, ThreadsFit, OneExecution, NEW t \in AllThreads, NEW k \in Tasks,
           Top(t).at = "try_grab", state[k] = "allocated",
           CallsFrom(t, Frame(Mine(t), "after_child", None), Frame(k, "body", None)),
           state \in [Nodes -> States], state' = [state EXCEPT ![k] = "grabbed"],
           current \in [AllThreads -> Nodes \cup {None}], current' = [current EXCEPT ![t] = k]
    PROVE  /\ StackOK' /\ CallsFit' /\ ThreadsFit' /\ OneExecution'
           /\ \A u \in AllThreads : \A n : ExecutedBy(u, n)' <=> ExecutedBy(u, n) \/ (u = t /\ n = k)
           /\ \A u \in AllThreads : Top(u)' = IF u = t THEN Frame(k, "body", None) ELSE Top(u)
<1> DEFINE ff == Frame(Mine(t), "after_child", None)
           gg == Frame(k, "body", None)
<1>1. PICK f \in FrameType, g \in FrameType : f = ff /\ g = gg
    <2>1. ff \in FrameType
        BY TopIsLast DEF FrameType, Frame, Places, Waiting, Mine
    <2>2. gg \in FrameType
        BY DEF FrameType, Frame, Places, Running, Nodes
    <2> QED
        BY <2>1, <2>2
<1>2. /\ f.task = Mine(t) /\ f.at = "after_child" /\ f.held = None
      /\ g.task = k /\ g.at = "body" /\ g.held = None
    BY <1>1 DEF Frame
<1>3. CallsFrom(t, f, g)
    BY <1>1
<1>4. StackOK'
    BY <1>3, CalledFrom
<1>5. \A u \in AllThreads :
         /\ Height(u)' = IF u = t THEN Height(t) + 1 ELSE Height(u)
         /\ \A d \in Calls(u) : At(u, d)' = IF u = t /\ d = Height(t) THEN f ELSE At(u, d)
         /\ Top(u)' = IF u = t THEN g ELSE Top(u)
    BY <1>3, CalledFrom
<1>6. \A d : d = Height(t) + 1 => At(t, d)' = g
    BY <1>3, CalledFrom
<1>7. \A u \in AllThreads : /\ Height(u) \in Nat /\ Height(u) >= 1 /\ Height(u) \in Calls(u)
                            /\ Top(u) = At(u, Height(u)) /\ Calls(u) = 1..Height(u)
    BY TopIsLast DEF Calls
<1>8. \A u \in AllThreads : Calls(u)' = 1..(Height(u)')
    BY DEF Calls
<1>9. \A u \in AllThreads : \A d \in Calls(u)' : d \in Calls(u) \/ (u = t /\ d = Height(t) + 1)
    BY <1>5, <1>7, <1>8
<1>10. \A u \in AllThreads : \A d \in Calls(u) : /\ d \in Calls(u)' /\ Executes(u, d)' = Executes(u, d)
                                                 /\ At(u, d).task' = At(u, d).task
    <2>1. ASSUME NEW u \in AllThreads, NEW d \in Calls(u)
          PROVE  d \in Calls(u)' /\ Executes(u, d)' = Executes(u, d) /\ At(u, d).task' = At(u, d).task
        <3>1. d \in Calls(u)'
            BY <1>5, <1>7, <1>8
        <3>2. d # 1 => At(u, d - 1)' = At(u, d - 1)
            BY <1>5, <1>7
        <3>3. At(u, d).task' = At(u, d).task
            BY <1>2, <1>5, <1>7 DEF Mine
        <3> QED
            BY <3>1, <3>2, <3>3 DEF Executes
    <2> QED
        BY <2>1
<1>11. \A d : d = Height(t) + 1 => Executes(t, d)' /\ At(t, d)' = g
    <2>1. ASSUME NEW d, d = Height(t) + 1 PROVE Executes(t, d)'
        <3>1. d # 1 /\ d - 1 = Height(t) /\ Height(t) \in Calls(t)
            BY <1>7, <2>1
        <3>2. At(t, d - 1)'.at = "after_child"
            BY <1>2, <1>5, <1>7, <3>1
        <3> QED
            BY <3>1, <3>2 DEF Executes
    <2> QED
        BY <1>6, <2>1
<1>12. TopFits(t)
    BY CallsFitTop
<1>13. ~Executes(t, Height(t)) /\ (Height(t) # 1 => Mine(t) # None)
    BY <1>12 DEF TopFits, Running, Ending, Unlinking
<1>14. ~Executed(k)
    BY ExecutedState
<1>15. state'[k] = "grabbed" /\ \A n \in Nodes \ {k} : state'[n] = state[n]
    BY DEF Nodes
<1>16. ASSUME NEW u \in AllThreads, NEW d \in Calls(u)'
       PROVE  CallFits(u, d)'
    <2>1. CASE d \in Calls(u) /\ ~(u = t /\ d = Height(t))
        <3>1. CallFits(u, d)
            BY <2>1 DEF CallsFit
        <3>2. At(u, d)' = At(u, d) /\ Executes(u, d)' = Executes(u, d)
            BY <1>5, <1>10, <2>1
        <3>3. \A e \in 1..(d - 1) : Executes(u, e)' = Executes(u, e) /\ At(u, e).task' = At(u, e).task
            BY <1>7, <1>10, <2>1
        <3>4. d # Height(u)' => d # Height(u)
            BY <1>5, <1>7, <2>1
        <3>5. ASSUME Executes(u, d)
              PROVE  state'[At(u, d).task] = state[At(u, d).task]
            <4>1. Executed(At(u, d).task)
                BY <2>1, <3>5 DEF Executed, ExecutedBy
            <4>2. At(u, d).task \in Nodes
                BY <3>1, <3>5 DEF CallFits, Nodes
            <4> QED
                BY <1>14, <1>15, <4>1, <4>2
        <3>6. CASE Executes(u, d)
            BY <3>1, <3>2, <3>4, <3>5, <3>6 DEF CallFits
        <3>7. CASE ~Executes(u, d)
            BY <3>1, <3>2, <3>3, <3>4, <3>7 DEF CallFits
        <3> QED
            BY <3>6, <3>7
    <2>2. CASE u = t /\ d = Height(t)
        <3>1. At(u, d)' = f /\ ~Executes(u, d)'
            BY <1>5, <1>7, <1>10, <1>13, <2>2
        <3>2. d = 1 => Mine(t) = None
            BY <1>12, <1>13, <2>2 DEF TopFits
        <3>3. ASSUME d # 1, Mine(t) \in Tasks
              PROVE  \E e \in 1..(d - 1) : Executes(t, e)' /\ At(t, e).task' = Mine(t)
            <4>1. PICK e \in 1..(d - 1) : Executes(t, e) /\ At(t, e).task = Mine(t)
                BY <1>12, <1>13, <2>2, <3>3 DEF TopFits
            <4>2. e \in Calls(t)
                BY <1>7, <2>2, <4>1
            <4> QED
                BY <1>10, <4>1, <4>2
        <3>4. d # 1 /\ Mine(t) = Root => t = User
            BY <1>12, <1>13, <2>2 DEF TopFits
        <3> QED
            BY <1>2, <1>13, <2>2, <3>1, <3>2, <3>3, <3>4 DEF CallFits, Waiting
    <2>3. CASE u = t /\ d = Height(t) + 1
        <3>1. At(u, d)' = g /\ Executes(u, d)' /\ d # 1 /\ Height(u)' = d
            BY <1>5, <1>7, <1>11, <2>3
        <3> QED
            BY <1>2, <1>15, <3>1 DEF CallFits, ExecutionFits, Running, Ending, Unlinking
    <2> QED
        BY <1>9, <2>1, <2>2, <2>3
<1>17. CallsFit'
    BY <1>16 DEF CallsFit
<1>18. \A u \in AllThreads : \A d \in Calls(u) : ~(Executes(u, d) /\ At(u, d).task = k)
    BY <1>14 DEF Executed, ExecutedBy
<1>19. OneExecution'
    BY <1>2, <1>5, <1>9, <1>10, <1>11, <1>18 DEF OneExecution
<1>20. \A u \in AllThreads : \A n : ExecutedBy(u, n)' <=> ExecutedBy(u, n) \/ (u = t /\ n = k)
    <2>1. ASSUME NEW u \in AllThreads, NEW n
          PROVE  ExecutedBy(u, n)' <=> ExecutedBy(u, n) \/ (u = t /\ n = k)
        <3>1. u = t => Height(t) + 1 \in Calls(t)'
            BY <1>5, <1>7, <1>8
        <3> QED
            BY <1>2, <1>9, <1>10, <1>11, <3>1 DEF ExecutedBy
    <2> QED
        BY <2>1
<1>21. ASSUME NEW u \in AllThreads
       PROVE  ThreadFits(u)'
    <2>1. ThreadFits(u)
        BY DEF ThreadsFit
    <2>2. HoldsFit(Top(u).at, Held(u))'
        BY <1>2, <1>5, <2>1 DEF ThreadFits, HoldsFit, Held
    <2>3. CASE u = t
        <3>1. current'[u] = k /\ k # Root
            BY <2>3, TreeAssumption
        <3>2. PICK d \in Calls(t)' : d = Height(t) + 1
            BY <1>5, <1>7, <1>8
        <3>3. Executes(t, d)' /\ At(t, d).task' = k /\ At(t, d).at' = "body"
            BY <1>2, <1>11, <3>2
        <3> QED
            BY <2>2, <2>3, <3>1, <3>3 DEF ThreadFits
    <2>4. CASE u # t
        <3>1. current'[u] = current[u]
            BY <2>4
        <3>2. ASSUME current[u] \in Tasks
              PROVE  \E d \in Calls(u)' : /\ Executes(u, d)' /\ At(u, d).task' = current'[u]
                                          /\ At(u, d).at' \in InBody
            <4>1. PICK d \in Calls(u) : /\ Executes(u, d) /\ At(u, d).task = current[u]
                                        /\ At(u, d).at \in InBody
                BY <2>1, <3>2 DEF ThreadFits
            <4> QED
                BY <1>5, <1>10, <2>4, <3>1, <4>1
        <3> QED
            BY <2>1, <2>2, <3>1, <3>2 DEF ThreadFits
    <2> QED
        BY <2>3, <2>4
<1>22. ThreadsFit'
    BY <1>21 DEF ThreadsFit
<1>23. \A u \in AllThreads : Top(u)' = IF u = t THEN Frame(k, "body", None) ELSE Top(u)
    BY <1>1, <1>5
<1> QED
    BY <1>4, <1>17, <1>19, <1>20, <1>22, <1>23

\* A call returns.
LEMMA PopFits ==
    ASSUME StackOK, CallsFit, ThreadsFit, OneExecution, NEW t \in AllThreads,
           Pops(t), Height(t) > 1, Top(t).at \notin InBody,
           OthersFit(t),
           \A u \in AllThreads : \/ current'[u] = current[u]
                                 \/ u = t /\ t = User /\ current'[u] = Root
    PROVE  /\ StackOK' /\ CallsFit' /\ ThreadsFit' /\ OneExecution'
           /\ \A u \in AllThreads : \A n :
                 ExecutedBy(u, n)' <=> /\ ExecutedBy(u, n)
                                       /\ ~(u = t /\ Executes(t, Height(t)) /\ n = Mine(t))
           /\ \A u \in AllThreads \ {t} : Top(u)' = Top(u)
           /\ Top(t)'.at \in {"body", "after_child"}
<1>1. StackOK'
    BY Popped
<1>2. \A u \in AllThreads :
         /\ Height(u)' = IF u = t THEN Height(t) - 1 ELSE Height(u)
         /\ \A d \in Calls(u) : ~(u = t /\ d = Height(t)) => At(u, d)' = At(u, d)
         /\ Top(u)' = IF u = t THEN At(t, Height(t) - 1) ELSE Top(u)
    BY Popped
<1>3. \A u \in AllThreads : /\ Height(u) \in Nat /\ Height(u) >= 1 /\ Height(u) \in Calls(u)
                            /\ Top(u) = At(u, Height(u)) /\ Calls(u) = 1..Height(u)
    BY TopIsLast DEF Calls
<1>4. \A u \in AllThreads : Calls(u)' = 1..(Height(u)')
    BY DEF Calls
<1>5. \A u \in AllThreads : \A d : d \in Calls(u)' <=> d \in Calls(u) /\ ~(u = t /\ d = Height(t))
    BY <1>2, <1>3, <1>4
<1>6. \A u \in AllThreads : \A d \in Calls(u)' : /\ Executes(u, d)' = Executes(u, d)
                                                 /\ At(u, d)' = At(u, d)
    <2>1. ASSUME NEW u \in AllThreads, NEW d \in Calls(u)'
          PROVE  Executes(u, d)' = Executes(u, d) /\ At(u, d)' = At(u, d)
        <3>1. d # 1 => At(u, d - 1)' = At(u, d - 1)
            BY <1>2, <1>3, <1>4
        <3> QED
            BY <1>2, <1>5, <3>1 DEF Executes
    <2> QED
        BY <2>1
<1>7. ASSUME NEW u \in AllThreads, NEW d \in Calls(u)'
      PROVE  CallFits(u, d)'
    <2>1. d \in Calls(u) /\ ~(u = t /\ d = Height(t))
        BY <1>5
    <2>2. CallFits(u, d)
        BY <2>1 DEF CallsFit
    <2>3. At(u, d)' = At(u, d) /\ Executes(u, d)' = Executes(u, d)
        BY <1>6
    <2>4. \A e \in 1..(d - 1) : Executes(u, e)' = Executes(u, e) /\ At(u, e)' = At(u, e)
        BY <1>4, <1>3, <1>2, <1>6
    <2>5. d # Height(u)' => d # Height(u)
        BY <1>2, <1>3, <2>1
    <2>6. Executes(u, d) => ExecutionFits(state'[At(u, d).task], At(u, d).at)
        BY <2>1 DEF OthersFit
    <2>7. CASE Executes(u, d)
        BY <2>2, <2>3, <2>5, <2>6, <2>7 DEF CallFits
    <2>8. CASE ~Executes(u, d)
        BY <2>2, <2>3, <2>4, <2>5, <2>8 DEF CallFits
    <2> QED
        BY <2>7, <2>8
<1>8. CallsFit'
    BY <1>7 DEF CallsFit
<1>9. OneExecution'
    BY <1>5, <1>6 DEF OneExecution
<1>10. \A u \in AllThreads : \A n :
          ExecutedBy(u, n)' <=> /\ ExecutedBy(u, n)
                                /\ ~(u = t /\ Executes(t, Height(t)) /\ n = Mine(t))
    <2>1. ASSUME NEW u \in AllThreads, NEW n
          PROVE  ExecutedBy(u, n)' <=> /\ ExecutedBy(u, n)
                                       /\ ~(u = t /\ Executes(t, Height(t)) /\ n = Mine(t))
        <3>1. CASE u = t /\ Executes(t, Height(t)) /\ n = Mine(t)
            BY <1>3, <1>5, <1>6, <3>1 DEF ExecutedBy, OneExecution, Mine
        <3>2. CASE ~(u = t /\ Executes(t, Height(t)) /\ n = Mine(t))
            BY <1>3, <1>5, <1>6, <3>2 DEF ExecutedBy, Mine
        <3> QED
            BY <3>1, <3>2
    <2> QED
        BY <2>1
<1>11. Top(t)'.at \in {"body", "after_child"}
    <2>1. PICK d \in Calls(t) : d = Height(t) - 1
        BY <1>3
    <2>2. CallFits(t, d) /\ d # Height(t)
        BY <1>3, <2>1 DEF CallsFit
    <2> QED
        BY <1>2, <2>1, <2>2 DEF CallFits
<1>12. ASSUME NEW u \in AllThreads
       PROVE  ThreadFits(u)'
    <2>1. ThreadFits(u)
        BY DEF ThreadsFit
    <2>2. HoldsFit(Top(u).at, Held(u))'
        <3>1. CASE u = t
            BY <1>11, <3>1 DEF HoldsFit
        <3>2. CASE u # t
            BY <1>2, <2>1, <3>2 DEF ThreadFits, Held
        <3> QED
            BY <3>1, <3>2
    <2>3. current'[u] = Root => u = User
        BY <2>1 DEF ThreadFits
    <2>4. ASSUME current'[u] \in Tasks
          PROVE  \E d \in Calls(u)' : /\ Executes(u, d)' /\ At(u, d).task' = current'[u]
                                      /\ At(u, d).at' \in InBody
        <3>1. current'[u] = current[u]
            BY <2>4, TreeAssumption
        <3>2. PICK d \in Calls(u) : /\ Executes(u, d) /\ At(u, d).task = current[u]
                                    /\ At(u, d).at \in InBody
            BY <2>1, <2>4, <3>1 DEF ThreadFits
        <3>3. ~(u = t /\ d = Height(t))
            BY <1>3, <3>2
        <3> QED
            BY <1>5, <1>6, <3>1, <3>2, <3>3
    <2> QED
        BY <2>2, <2>3, <2>4 DEF ThreadFits
<1>13. ThreadsFit'
    BY <1>12 DEF ThreadsFit
<1>14. \A u \in AllThreads \ {t} : Top(u)' = Top(u)
    BY <1>2
<1> QED
    BY <1>1, <1>8, <1>9, <1>10, <1>11, <1>13, <1>14

-----------------------------------------------------------------------------
(* The invariant, when a thread moves on within its innermost call.        *)

Hold(place, held, k) == IF place \in Handling /\ held = k THEN 1 ELSE 0

LEMMA MoveKeeps ==
    ASSUME TInv, NEW t \in AllThreads, NEW from, NEW to \in Places,
           NEW held \in Nodes \cup AllThreads \cup {None},
           Goes(t, from, to, held), MayGoTo(t, to), HoldsFit(to, held),
           OthersFit(t), CurrentFits(t, to), Types', CutsOffAlone',
           \A k \in Tasks :
              /\ state'[k] \in {"grabbed", "captured"} => state[k] \in {"grabbed", "captured"}
              /\ state'[k] = "allocated" <=> state[k] = "allocated"
              /\ state'[k] = "deallocated" <=> references'[k] = 0
              /\ references'[k] + Containers(k) + Hold(from, Held(t), k)
                    = references[k] + Containers(k)' + Hold(to, held, k),
           \A n \in Nodes : IsList(children'[n]) /\ (children'[n] # <<>> => children[n] # <<>>)
    PROVE  TInv'
<1> USE DEF TInv
<1>1. /\ StackOK' /\ CallsFit' /\ ThreadsFit' /\ OneExecution' /\ SameExecutions
      /\ \A u \in AllThreads :
            /\ Top(u)' = IF u = t THEN Frame(Mine(t), to, held) ELSE Top(u)
            /\ Mine(u)' = Mine(u)
      /\ Top(t).at = from
    BY MoveFits
<1>2. Top(t)'.at = to /\ Held(t)' = held
    BY <1>1 DEF Frame, Held
<1>3. \A k \in Tasks : QuietlyFollows(t, k)
    BY <1>1, <1>2 DEF QuietlyFollows, Handles, Handling, Hold
<1>4. TasksFit'
    BY <1>1, <1>3, TasksGoOn
<1>5. \A n : Executed(n)' <=> Executed(n)
    BY <1>1, SameExecutors
<1>6. ListsFit'
    BY <1>5 DEF ListsFit, ListFits
<1> QED
    BY <1>1, <1>4, <1>6

\* Nothing but the call and the counts of children changes.
LEMMA QuietMove ==
    ASSUME TInv, NEW t \in AllThreads, NEW from, NEW to \in Places,
           NEW held \in Nodes \cup AllThreads \cup {None},
           Goes(t, from, to, held), MayGoTo(t, to), HoldsFit(to, held), CurrentFits(t, to), Types',
           from \notin Handling, to \notin Handling, to \in Ending => from \in Ending,
           UNCHANGED <<nodes, children, queues>>
    PROVE  TInv'
<1> USE DEF TInv
<1>1. state' = state /\ references' = references /\ children' = children
      /\ pendingTasks' = pendingTasks /\ typeTasks' = typeTasks
    BY DEF nodes, queues
<1>2. OthersFit(t)
    BY <1>1 DEF OthersFit, CallsFit, CallFits
<1>3. /\ \A u \in AllThreads :
            /\ Top(u)' = IF u = t THEN Frame(Mine(t), to, held) ELSE Top(u)
            /\ Mine(u)' = Mine(u)
      /\ Top(t).at = from
    BY <1>2, MoveFits
<1>4. CutsOffAlone'
    <2>1. Top(t)'.at = to
        BY <1>3 DEF Frame
    <2>2. \A u \in TopAt({"unlink_captured"}) \ {t} : state'[Held(u)] = "captured"
        BY <1>1 DEF CutsOffAlone
    <2> QED
        BY <1>3, <2>1, <2>2, CutsKept DEF Handling
<1>5. \A k \in Tasks : Containers(k)' = Containers(k)
    BY <1>1 DEF Containers
<1>6. \A k \in Tasks : references[k] \in Nat /\ Containers(k) \in Nat
    <2>1. ASSUME NEW k \in Tasks PROVE references[k] \in Nat
        <3>1. k \in Nodes
            BY DEF Nodes
        <3>2. references[k] \in 0..4
            BY <3>1 DEF Types
        <3> QED
            BY <3>2
    <2> QED
        BY <2>1, ContainersType DEF ContainersAreNat
<1>7. \A k \in Tasks : state[k] = "deallocated" <=> references[k] = 0
    BY DEF TasksFit, TaskFits
<1>8. \A n \in Nodes : IsList(children'[n]) /\ (children'[n] # <<>> => children[n] # <<>>)
    BY <1>1 DEF ListsFit, ListFits
<1>9. \A k \in Tasks : Hold(from, Held(t), k) = 0 /\ Hold(to, held, k) = 0
    BY DEF Hold
<1>10. \A k \in Tasks : references'[k] + Containers(k) + Hold(from, Held(t), k)
                          = references[k] + Containers(k)' + Hold(to, held, k)
    BY <1>1, <1>5, <1>6, <1>9
<1> QED
    BY <1>1, <1>2, <1>4, <1>7, <1>8, <1>10, MoveKeeps

\* current_task is the task of an execution that is in its body.
LEMMA CurrentStays ==
    ASSUME StackOK, CallsFit, ThreadsFit, OneExecution, NEW t \in AllThreads, NEW to,
           current' = current, Top(t).at \in InBody => to \in InBody
    PROVE  CurrentFits(t, to)
<1> SUFFICES ASSUME current[t] \in Tasks, Executes(t, Height(t)), current[t] = Mine(t)
             PROVE  to \in InBody
    BY DEF CurrentFits
<1>1. PICK d \in Calls(t) : /\ Executes(t, d) /\ At(t, d).task = current[t]
                            /\ At(t, d).at \in InBody
    BY DEF ThreadsFit, ThreadFits
<1>2. Height(t) \in Calls(t) /\ Top(t) = At(t, Height(t))
    BY TopIsLast
<1>3. d = Height(t)
    BY <1>1, <1>2 DEF OneExecution, Mine
<1> QED
    BY <1>1, <1>2, <1>3

-----------------------------------------------------------------------------
(* Steps that change no task.                                              *)

LEMMA TypesKept ==
    ASSUME Types, UNCHANGED <<nodes, children, queues, bounds>>,
           current' \in [AllThreads -> Nodes \cup {None}],
           counter' \in [Nodes -> Int], waiter' \in [Nodes -> AllThreads \cup {None}],
           signalled' \in [AllThreads -> BOOLEAN]
    PROVE  Types'
BY DEF Types, nodes, queues, bounds

\* A thread that waits for the children of a task goes on with that.
LEMMA WaitingMove ==
    ASSUME TInv, NEW t \in AllThreads, NEW from, NEW to, Goes(t, from, to, None),
           from \in {"wait", "children", "arm", "check", "await", "awoken", "disarm"},
           Mine(t) # None,
           to \in {"children", "arm", "check", "await", "awoken", "disarm"} \/ (to = "unlink" /\ t = User),
           UNCHANGED <<nodes, children, queues, current, bounds>>,
           counter' = counter, waiter' \in [Nodes -> AllThreads \cup {None}],
           signalled' \in [AllThreads -> BOOLEAN]
    PROVE  TInv'
<1> USE DEF TInv
<1>1. TopFits(t) /\ Top(t).at = from
    BY CallsFitTop DEF Goes
<1>2. MayGoTo(t, to) /\ to \in Places
    BY <1>1 DEF TopFits, MayGoTo, Waiting, Running, Ending, Unlinking, Places
<1>3. HoldsFit(to, None)
    BY DEF HoldsFit
<1>4. CurrentFits(t, to)
    BY <1>1, CurrentStays
<1>5. Types'
    BY TypesKept DEF Types
<1>6. from \notin Handling /\ to \notin Handling /\ to \notin Ending
    BY DEF Handling, Ending
<1> QED
    BY <1>2, <1>3, <1>4, <1>5, <1>6, QuietMove

\* A call of wait_for_all_children returns.
LEMMA WaitReturns ==
    ASSUME TInv, NEW t \in AllThreads, ~Executes(t, Height(t)), Height(t) > 1,
           Top(t).at \notin InBody \cup Handling, Pops(t),
           \A u \in AllThreads : \/ current'[u] = current[u]
                                 \/ u = t /\ t = User /\ current'[u] = Root,
           UNCHANGED <<nodes, children, queues>>, Types'
    PROVE  TInv'
<1> USE DEF TInv
<1>1. state' = state /\ references' = references /\ children' = children
      /\ pendingTasks' = pendingTasks /\ typeTasks' = typeTasks
    BY DEF nodes, queues
<1>2. OthersFit(t)
    BY <1>1 DEF OthersFit, CallsFit, CallFits
<1>3. /\ StackOK' /\ CallsFit' /\ ThreadsFit' /\ OneExecution'
      /\ \A u \in AllThreads : \A n :
            ExecutedBy(u, n)' <=> /\ ExecutedBy(u, n)
                                  /\ ~(u = t /\ Executes(t, Height(t)) /\ n = Mine(t))
      /\ \A u \in AllThreads \ {t} : Top(u)' = Top(u)
      /\ Top(t)'.at \in {"body", "after_child"}
    BY <1>2, PopFits
<1>4. SameExecutions
    BY <1>3 DEF SameExecutions
<1>5. CutsOffAlone'
    <2>1. \A u \in TopAt({"unlink_captured"}) \ {t} : state'[Held(u)] = "captured"
        BY <1>1 DEF CutsOffAlone
    <2>2. Top(t)'.at # "unlink_captured" /\ Top(t)'.at \notin Ending
        BY <1>3 DEF Ending
    <2> QED
        BY <1>3, <2>1, <2>2, CutsKept
<1>6. \A k \in Tasks : QuietlyFollows(t, k)
    <2>1. Top(t)'.at \notin Handling
        BY <1>3 DEF Handling
    <2> QED
        BY <1>1, <2>1 DEF QuietlyFollows, Handles, Handling, Containers
<1>7. \A k \in Tasks : state[k] = "deallocated" <=> references[k] = 0
    BY DEF TasksFit, TaskFits
<1>8. TasksFit'
    BY <1>1, <1>3, <1>4, <1>6, <1>7, TasksGoOn
<1>9. \A n : Executed(n)' <=> Executed(n)
    BY <1>3, <1>4, SameExecutors
<1>10. ListsFit'
    BY <1>1, <1>9 DEF ListsFit, ListFits
<1> QED
    BY <1>3, <1>5, <1>8, <1>10

LEMMA WaitDoneKeeps ==
    ASSUME TInv, NEW t \in AllThreads, WaitDone(t),
           Top(t).at \in {"children", "awoken", "disarm"},
           UNCHANGED <<nodes, children, counter, queues, signalled, current, bounds>>,
           waiter' \in [Nodes -> AllThreads \cup {None}]
    PROVE  TInv'
<1> USE DEF TInv
<1>1. TopFits(t) /\ Height(t) \in Nat /\ Height(t) >= 1
    BY CallsFitTop, TopIsLast
<1>2. ~Executes(t, Height(t)) /\ Height(t) # 1 /\ Mine(t) # None
    BY <1>1 DEF TopFits, Running, Ending, Unlinking
<1>3. signalled \in [AllThreads -> BOOLEAN]
    BY DEF Types
<1>4. CASE t = User
    <2>1. PICK from : from = Top(t).at
        OBVIOUS
    <2>2. Goes(t, from, "unlink", None)
        BY <1>4, <2>1 DEF WaitDone
    <2> QED
        BY <1>2, <1>3, <1>4, <2>1, <2>2, WaitingMove
<1>5. CASE t # User
    <2>1. Pops(t)
        BY <1>5 DEF WaitDone, Pops
    <2>2. Types'
        BY <1>3, TypesKept DEF Types
    <2>3. Top(t).at \notin InBody \cup Handling
        BY DEF Handling
    <2> QED
        BY <1>1, <1>2, <2>1, <2>2, <2>3, WaitReturns
<1> QED
    BY <1>4, <1>5

\* Only a call that waits for the children of a task is at these places.
LEMMA WaitsForTask ==
    ASSUME StackOK, CallsFit, NEW t \in AllThreads,
           Top(t).at \in {"children", "arm", "check", "await", "awoken", "disarm"}
    PROVE  Mine(t) # None
BY CallsFitTop DEF TopFits, Running, Ending, Unlinking

LEMMA WaitForCurrentKeeps ==
    ASSUME TInv, NEW t \in AllThreads, WaitForCurrent(t) PROVE TInv'
<1>1. PICK to \in {"children", "arm"} : Goes(t, "wait", to, None)
    BY DEF WaitForCurrent
<1> QED
    BY <1>1, WaitingMove DEF WaitForCurrent, tree, TInv, Types

LEMMA NoMoreChildrenKeeps ==
    ASSUME TInv, NEW t \in AllThreads, NoMoreChildren(t) PROVE TInv'
<1>1. CASE WaitDone(t)
    BY <1>1, WaitDoneKeeps DEF NoMoreChildren, tree, TInv, Types
<1>2. CASE Goes(t, "children", "arm", None)
    <2>1. Mine(t) # None
        BY WaitsForTask DEF NoMoreChildren, TInv
    <2> QED
        BY <1>2, <2>1, WaitingMove DEF NoMoreChildren, tree, TInv, Types
<1> QED
    BY <1>1, <1>2 DEF NoMoreChildren

LEMMA ArmKeeps ==
    ASSUME TInv, NEW t \in AllThreads, Arm(t) PROVE TInv'
<1>1. Mine(t) # None
    BY WaitsForTask DEF Arm, Goes, TInv
<1>2. waiter' \in [Nodes -> AllThreads \cup {None}]
    BY DEF Arm, TInv, Types
<1> QED
    BY <1>1, <1>2, WaitingMove DEF Arm, tree, TInv, Types

LEMMA CheckKeeps ==
    ASSUME TInv, NEW t \in AllThreads, Check(t) PROVE TInv'
<1>1. PICK to \in {"disarm", "await"} : Goes(t, "check", to, None)
    BY DEF Check
<1>2. Mine(t) # None
    BY WaitsForTask DEF Check, TInv
<1> QED
    BY <1>1, <1>2, WaitingMove DEF Check, tree, TInv, Types

LEMMA AwaitKeeps ==
    ASSUME TInv, NEW t \in AllThreads, Await(t) PROVE TInv'
<1>1. Mine(t) # None
    BY WaitsForTask DEF Await, Goes, TInv
<1>2. signalled' \in [AllThreads -> BOOLEAN]
    BY DEF Await, TInv, Types
<1> QED
    BY <1>1, <1>2, WaitingMove DEF Await, tree, TInv, Types

LEMMA DisarmKeeps ==
    ASSUME TInv, NEW t \in AllThreads, Disarm(t) PROVE TInv'
<1>1. waiter' \in [Nodes -> AllThreads \cup {None}]
    BY DEF Disarm, TInv, Types
<1> QED
    BY <1>1, WaitDoneKeeps DEF Disarm, TInv

LEMMA AfterChildKeeps ==
    ASSUME TInv, NEW t \in AllThreads, AfterChild(t) PROVE TInv'
<1> USE DEF TInv
<1>1. PICK to \in {"children", "arm", "idle"} :
         Goes(t, "after_child", to, None) /\ (Mine(t) = None <=> to = "idle")
    BY DEF AfterChild
<1>2. TopFits(t) /\ Top(t).at = "after_child"
    BY <1>1, CallsFitTop DEF Goes
<1>3. MayGoTo(t, to) /\ to \in Places
    BY <1>1, <1>2 DEF TopFits, MayGoTo, Waiting, Running, Ending, Unlinking, Places
<1>4. HoldsFit(to, None)
    BY <1>1 DEF HoldsFit
<1>5. CurrentFits(t, to)
    BY <1>2, CurrentStays DEF AfterChild
<1>6. Types'
    BY TypesKept DEF AfterChild, tree, Types
<1>7. to \notin Handling /\ to \notin Ending
    BY <1>1 DEF Handling, Ending
<1> QED
    BY <1>1, <1>3, <1>4, <1>5, <1>6, <1>7, QuietMove DEF Handling, AfterChild, tree

\* A thread leaves the body of its task, and tells the parent that it ends.
LEMMA ReturnKeeps ==
    ASSUME TInv, NEW t \in AllThreads, Return(t) PROVE TInv'
<1> USE DEF TInv
<1>1. Goes(t, "body", "capture", None) /\ Mine(t) # Root /\ current' = [current EXCEPT ![t] = None]
    BY DEF Return
<1>2. TopFits(t) /\ Top(t).at = "body"
    BY <1>1, CallsFitTop DEF Goes
<1>3. MayGoTo(t, "capture") /\ "capture" \in Places
    BY <1>1, <1>2 DEF TopFits, MayGoTo, ExecutionFits, Waiting, Running, Ending, Unlinking, Places,
                     Return, nodes
<1>4. HoldsFit("capture", None)
    BY DEF HoldsFit
<1>5. CurrentFits(t, "capture")
    BY <1>1, TreeAssumption DEF CurrentFits, Types, Nodes
<1>6. Types'
    BY <1>1, TypesKept DEF Return, tree, Types
<1> QED
    BY <1>1, <1>3, <1>4, <1>5, <1>6, QuietMove DEF Handling, Ending, Return, tree

LEMMA EndingMove ==
    ASSUME TInv, NEW t \in AllThreads, NEW from, NEW to, NEW held, Goes(t, from, to, held),
           from \in Ending, to \in Ending, HoldsFit(to, held),
           held \in Nodes \cup AllThreads \cup {None},
           UNCHANGED <<nodes, children, queues, current, bounds>>,
           counter' \in [Nodes -> Int], waiter' = waiter, signalled' \in [AllThreads -> BOOLEAN]
    PROVE  TInv'
<1> USE DEF TInv
<1>1. TopFits(t) /\ Top(t).at = from
    BY CallsFitTop DEF Goes
<1>2. MayGoTo(t, to) /\ to \in Places
    BY <1>1 DEF TopFits, MayGoTo, ExecutionFits, Waiting, Running, Ending, Unlinking, Places, nodes
<1>3. CurrentFits(t, to)
    BY <1>1, CurrentStays DEF Ending
<1>4. Types'
    BY TypesKept DEF Types
<1> QED
    BY <1>2, <1>3, <1>4, QuietMove DEF Ending, Handling

\* What a thread holds while its task ends.
LEMMA EndingHolds ==
    ASSUME ThreadsFit, NEW t \in AllThreads
    PROVE  /\ Top(t).at \in {"decrement", "recheck", "look", "reread"} => Held(t) \in Nodes
           /\ Top(t).at = "signal" => Held(t) \in AllThreads
BY DEF ThreadsFit, ThreadFits, HoldsFit

LEMMA DecrementKeeps ==
    ASSUME TInv, NEW t \in AllThreads, Decrement(t) PROVE TInv'
<1>1. Goes(t, "decrement", "recheck", Held(t))
    BY DEF Decrement
<1>2. Held(t) \in Nodes
    BY <1>1, EndingHolds DEF TInv, Goes
<1>3. counter' \in [Nodes -> Int]
    BY <1>2 DEF Decrement, TInv, Types
<1>4. HoldsFit("recheck", Held(t))
    BY <1>2 DEF HoldsFit
<1>5. signalled \in [AllThreads -> BOOLEAN]
    BY DEF TInv, Types
<1> QED
    BY <1>1, <1>2, <1>3, <1>4, <1>5, EndingMove DEF Decrement, Ending

LEMMA RecheckKeeps ==
    ASSUME TInv, NEW t \in AllThreads, Recheck(t) PROVE TInv'
<1>1. PICK to \in {"look", "mark"} : Goes(t, "recheck", to, Held(t))
    BY DEF Recheck
<1>2. Held(t) \in Nodes
    BY <1>1, EndingHolds DEF TInv, Goes
<1>3. HoldsFit(to, Held(t))
    BY <1>1, <1>2 DEF HoldsFit
<1>4. signalled \in [AllThreads -> BOOLEAN] /\ counter \in [Nodes -> Int]
    BY DEF TInv, Types
<1> QED
    BY <1>1, <1>2, <1>3, <1>4, EndingMove DEF Recheck, tree, Ending

LEMMA LookKeeps ==
    ASSUME TInv, NEW t \in AllThreads, Look(t) PROVE TInv'
<1>1. Held(t) \in Nodes
    BY EndingHolds DEF TInv, Look
<1>2. waiter[Held(t)] \in AllThreads \cup {None}
    BY <1>1 DEF TInv, Types
<1>3. PICK to \in {"mark", "signal", "reread"}, held \in Nodes \cup AllThreads \cup {None} :
         Goes(t, "look", to, held) /\ HoldsFit(to, held)
    BY <1>1, <1>2 DEF Look, HoldsFit
<1>4. signalled \in [AllThreads -> BOOLEAN] /\ counter \in [Nodes -> Int]
    BY DEF TInv, Types
<1> QED
    BY <1>3, <1>4, EndingMove DEF Look, tree, Ending

LEMMA RereadKeeps ==
    ASSUME TInv, NEW t \in AllThreads, Reread(t) PROVE TInv'
<1>1. Held(t) \in Nodes
    BY EndingHolds DEF TInv, Reread
<1>2. waiter[Held(t)] \in AllThreads
    BY <1>1 DEF TInv, Types, Reread
<1>3. Goes(t, "reread", "signal", waiter[Held(t)]) /\ HoldsFit("signal", waiter[Held(t)])
    BY <1>2 DEF Reread, HoldsFit
<1>4. signalled \in [AllThreads -> BOOLEAN] /\ counter \in [Nodes -> Int]
    BY DEF TInv, Types
<1> QED
    BY <1>2, <1>3, <1>4, EndingMove DEF Reread, tree, Ending

LEMMA SignalKeeps ==
    ASSUME TInv, NEW t \in AllThreads, Signal(t) PROVE TInv'
<1>1. Goes(t, "signal", "mark", None)
    BY DEF Signal
<1>2. signalled' \in [AllThreads -> BOOLEAN] /\ counter \in [Nodes -> Int]
    BY DEF Signal, TInv, Types
<1>3. HoldsFit("mark", None)
    BY DEF HoldsFit
<1> QED
    BY <1>1, <1>2, <1>3, EndingMove DEF Signal, tree, Ending

-----------------------------------------------------------------------------
(* Steps that take a task from a container, or let go of one.              *)

LEMMA HandlingMove ==
    ASSUME TInv, NEW t \in AllThreads, NEW from, NEW to \in Places,
           NEW held \in Nodes \cup AllThreads \cup {None},
           Goes(t, from, to, held), MayGoTo(t, to), HoldsFit(to, held),
           OthersFit(t), CurrentFits(t, to), Types',
           to \notin Ending, to # "unlink_captured",
           \A u \in TopAt({"unlink_captured"}) \ {t} : state'[Held(u)] = "captured",
           \A k \in Tasks :
              /\ state'[k] \in {"grabbed", "captured"} => state[k] \in {"grabbed", "captured"}
              /\ state'[k] = "allocated" <=> state[k] = "allocated"
              /\ state'[k] = "deallocated" <=> references'[k] = 0
              /\ references'[k] + Containers(k) + Hold(from, Held(t), k)
                    = references[k] + Containers(k)' + Hold(to, held, k),
           \A n \in Nodes : IsList(children'[n]) /\ (children'[n] # <<>> => children[n] # <<>>)
    PROVE  TInv'
<1>1. /\ \A u \in AllThreads :
            /\ Top(u)' = IF u = t THEN Frame(Mine(t), to, held) ELSE Top(u)
            /\ Mine(u)' = Mine(u)
    BY MoveFits DEF TInv
<1>2. Top(t)'.at = to
    BY <1>1 DEF Frame
<1>3. CutsOffAlone'
    BY <1>1, <1>2, CutsKept DEF TInv
<1> QED
    BY <1>3, MoveKeeps

LEMMA CountsAreNat ==
    ASSUME TInv, NEW k \in Tasks
    PROVE  /\ references[k] \in 0..4 /\ references[k] \in Nat /\ Containers(k) \in Nat
           /\ Count(k, pendingTasks) \in Nat /\ Count(k, typeTasks) \in Nat
           /\ Cardinality(Lists(k)) \in Nat
           /\ Containers(k) = Count(k, pendingTasks) + Count(k, typeTasks) + Cardinality(Lists(k))
           /\ state[k] = "deallocated" <=> references[k] = 0
           /\ references[k] = Containers(k) + Cardinality(Handlers(k)) + Executions(k)
           /\ Executions(k) \in 0..1
<1>1. k \in Nodes
    BY DEF Nodes
<1>2. references[k] \in 0..4
    BY <1>1 DEF TInv, Types
<1>3. Count(k, pendingTasks) \in Nat /\ Count(k, typeTasks) \in Nat
    BY CountIsNat DEF TInv, Types
<1>4. Cardinality(Lists(k)) \in Nat
    BY ListsAreFinite DEF Lists
<1>5. Containers(k) = Count(k, pendingTasks) + Count(k, typeTasks) + Cardinality(Lists(k))
    BY DEF Containers, Lists
<1>6. /\ state[k] = "deallocated" <=> references[k] = 0
      /\ references[k] = Containers(k) + Cardinality(Handlers(k)) + Executions(k)
    BY DEF TInv, TasksFit, TaskFits
<1>7. Executions(k) \in 0..1
    BY DEF Executions
<1> QED
    BY <1>2, <1>3, <1>4, <1>5, <1>6, <1>7

\* Nothing but a container and the call changes.
ContainersFollow(t, from, to, held) ==
    \A k \in Tasks :
        Containers(k) + Hold(from, Held(t), k) = Containers(k)' + Hold(to, held, k)

ListsShrink ==
    \A n \in Nodes : IsList(children'[n]) /\ (children'[n] # <<>> => children[n] # <<>>)

ContainersTyped ==
    /\ children' \in [Nodes -> Seq(Tasks)]
    /\ pendingTasks' \in Seq(Tasks) /\ typeTasks' \in Seq(Tasks)

LEMMA ContainerMove ==
    ASSUME TInv, NEW t \in AllThreads, NEW from, NEW to \in Places, NEW held \in Tasks \cup {None},
           Goes(t, from, to, held), MayGoTo(t, to), HoldsFit(to, held),
           Top(t).at \in InBody => to \in InBody,
           to \notin Ending, to # "unlink_captured",
           UNCHANGED <<nodes, counter, waiter, signalled, current, bounds>>,
           ContainersTyped, ContainersFollow(t, from, to, held), ListsShrink
    PROVE  TInv'
<1> USE DEF TInv
<1>1. state' = state /\ references' = references /\ parent' = parent
    BY DEF nodes
<1>2. OthersFit(t)
    BY <1>1 DEF OthersFit, CallsFit, CallFits
<1>3. CurrentFits(t, to)
    BY CurrentStays
<1>4. Types'
    BY <1>1 DEF Types, bounds, ContainersTyped
<1>5. \A k \in Tasks : references[k] \in Nat /\ (state[k] = "deallocated" <=> references[k] = 0)
    BY CountsAreNat
<1>6. \A k \in Tasks : Containers(k) \in Nat /\ Containers(k)' \in Nat
    BY <1>4, ContainersType, ContainersTypeNext DEF ContainersAreNat
<1>7. \A u \in TopAt({"unlink_captured"}) \ {t} : state'[Held(u)] = "captured"
    BY <1>1 DEF CutsOffAlone
<1>8. \A k \in Tasks : Hold(from, Held(t), k) \in Nat /\ Hold(to, held, k) \in Nat
    BY DEF Hold
<1>9. \A k \in Tasks : references'[k] + Containers(k) + Hold(from, Held(t), k)
                          = references[k] + Containers(k)' + Hold(to, held, k)
    BY <1>1, <1>5, <1>6, <1>8 DEF ContainersFollow
<1> QED
    BY <1>1, <1>2, <1>3, <1>4, <1>5, <1>7, <1>9, HandlingMove DEF ListsShrink, Nodes

LEMMA PushTypeKeeps ==
    ASSUME TInv, NEW t \in AllThreads, PushType(t) PROVE TInv'
<1> USE DEF TInv
<1>1. Goes(t, "push_type", "body", None) /\ Top(t).at = "push_type"
    BY DEF PushType, Goes
<1>2. Held(t) \in Tasks
    BY <1>1 DEF ThreadsFit, ThreadFits, HoldsFit
<1>3. UNCHANGED <<nodes, tree, pendingTasks, signalled, current, bounds>>
      /\ typeTasks' = Append(typeTasks, Held(t))
    BY DEF PushType
<1>4. TopFits(t)
    BY CallsFitTop
<1>5. MayGoTo(t, "body") /\ "body" \in Places
    BY <1>1, <1>3, <1>4 DEF TopFits, MayGoTo, ExecutionFits, Waiting, Running, Ending, Unlinking,
                     Places, nodes
<1>6. HoldsFit("body", None)
    BY DEF HoldsFit
<1>7. \A k \in Tasks : Count(k, typeTasks') = Count(k, typeTasks) + IF Held(t) = k THEN 1 ELSE 0
    BY <1>2, <1>3, CountAppend DEF Types
<1>8. ContainersFollow(t, "push_type", "body", None)
    <2>1. ASSUME NEW k \in Tasks
          PROVE  Containers(k) + (IF Held(t) = k THEN 1 ELSE 0) = Containers(k)'
        <3>1. Containers(k)' = Count(k, pendingTasks') + Count(k, typeTasks') + Cardinality(Lists(k)')
            BY DEF Containers, Lists
        <3>2. Lists(k)' = Lists(k) /\ pendingTasks' = pendingTasks
            BY <1>3 DEF Lists, tree
        <3> QED
            BY <1>7, <3>1, <3>2, CountsAreNat
    <2>2. \A k \in Tasks : Containers(k) \in Nat
        BY CountsAreNat
    <2> QED
        BY <2>1, <2>2 DEF ContainersFollow, Handling, Hold
<1>9. ListsShrink
    BY <1>3 DEF ListsShrink, ListsFit, ListFits, tree
<1>10. ContainersTyped
    BY <1>2, <1>3 DEF ContainersTyped, Types, tree
<1>11. "body" \notin Ending
    BY DEF Ending
<1> QED
    BY <1>1, <1>3, <1>5, <1>6, <1>8, <1>9, <1>10, <1>11, ContainerMove DEF tree

LEMMA PopQueueKeeps ==
    ASSUME TInv, NEW t \in AllThreads, PopQueue(t) PROVE TInv'
<1> USE DEF TInv
<1>1. PICK k \in Tasks :
         /\ Goes(t, "idle", "try_grab", k)
         /\ pendingTasks' \in Seq(Tasks) /\ typeTasks' \in Seq(Tasks)
         /\ \A j \in Tasks : Count(j, pendingTasks) + Count(j, typeTasks)
               = Count(j, pendingTasks') + Count(j, typeTasks') + IF k = j THEN 1 ELSE 0
    <2>1. CASE /\ pendingTasks # <<>>
               /\ Goes(t, "idle", "try_grab", Head(pendingTasks))
               /\ pendingTasks' = Tail(pendingTasks)
               /\ UNCHANGED typeTasks
        <3>1. pendingTasks \in Seq(Tasks) /\ typeTasks \in Seq(Tasks)
            BY DEF Types
        <3>2. Head(pendingTasks) \in Tasks /\ Tail(pendingTasks) \in Seq(Tasks)
            BY <2>1, <3>1
        <3>3. \A j : /\ Count(j, pendingTasks)
                          = Count(j, Tail(pendingTasks)) + IF Head(pendingTasks) = j THEN 1 ELSE 0
                     /\ Count(j, typeTasks) \in Nat /\ Count(j, Tail(pendingTasks)) \in Nat
            BY <2>1, <3>1, <3>2, CountTail, CountIsNat
        <3> QED
            BY <2>1, <3>1, <3>2, <3>3
    <2>2. CASE /\ typeTasks # <<>>
               /\ Goes(t, "idle", "try_grab", Head(typeTasks))
               /\ typeTasks' = Tail(typeTasks)
               /\ UNCHANGED pendingTasks
        <3>1. pendingTasks \in Seq(Tasks) /\ typeTasks \in Seq(Tasks)
            BY DEF Types
        <3>2. Head(typeTasks) \in Tasks /\ Tail(typeTasks) \in Seq(Tasks)
            BY <2>2, <3>1
        <3>3. \A j : /\ Count(j, typeTasks)
                          = Count(j, Tail(typeTasks)) + IF Head(typeTasks) = j THEN 1 ELSE 0
                     /\ Count(j, pendingTasks) \in Nat /\ Count(j, Tail(typeTasks)) \in Nat
            BY <2>2, <3>1, <3>2, CountTail, CountIsNat
        <3> QED
            BY <2>2, <3>1, <3>2, <3>3
    <2> QED
        BY <2>1, <2>2 DEF PopQueue
<1>2. UNCHANGED <<nodes, tree, signalled, current, bounds>>
    BY DEF PopQueue
<1>3. TopFits(t) /\ Top(t).at = "idle"
    BY <1>1, CallsFitTop DEF Goes
<1>4. MayGoTo(t, "try_grab") /\ "try_grab" \in Places
    BY <1>3 DEF TopFits, MayGoTo, Waiting, Running, Ending, Unlinking, Places
<1>5. HoldsFit("try_grab", k)
    BY DEF HoldsFit
<1>6. ContainersFollow(t, "idle", "try_grab", k)
    <2>1. ASSUME NEW j \in Tasks
          PROVE  Containers(j) = Containers(j)' + IF k = j THEN 1 ELSE 0
        <3>1. Containers(j)' = Count(j, pendingTasks') + Count(j, typeTasks') + Cardinality(Lists(j)')
            BY DEF Containers, Lists
        <3>2. Lists(j)' = Lists(j)
            BY <1>2 DEF Lists, tree
        <3>3. Count(j, pendingTasks') \in Nat /\ Count(j, typeTasks') \in Nat
            BY <1>1, CountIsNat
        <3>4. Count(j, pendingTasks) + Count(j, typeTasks)
                 = Count(j, pendingTasks') + Count(j, typeTasks') + IF k = j THEN 1 ELSE 0
            BY <1>1
        <3>5. /\ Cardinality(Lists(j)) \in Nat
              /\ Count(j, pendingTasks) \in Nat /\ Count(j, typeTasks) \in Nat
              /\ Containers(j) = Count(j, pendingTasks) + Count(j, typeTasks) + Cardinality(Lists(j))
            BY CountsAreNat
        <3> QED
            BY <3>1, <3>2, <3>3, <3>4, <3>5
    <2>2. \A j \in Tasks : Containers(j) \in Nat
        BY CountsAreNat
    <2> QED
        BY <2>1, <2>2 DEF ContainersFollow, Handling, Hold
<1>7. ListsShrink
    BY <1>2 DEF ListsShrink, ListsFit, ListFits, tree
<1>8. ContainersTyped
    BY <1>1, <1>2 DEF ContainersTyped, Types, tree
<1>9. "try_grab" \notin Ending
    BY DEF Ending
<1> QED
    BY <1>1, <1>2, <1>3, <1>4, <1>5, <1>6, <1>7, <1>8, <1>9, ContainerMove DEF tree

\* A thread goes on within spawn_task.
LEMMA SpawningMay ==
    ASSUME TInv, NEW t \in AllThreads, Top(t).at \in InBody, NEW to \in InBody, state' = state
    PROVE  MayGoTo(t, to) /\ to \in Places /\ to \notin Ending /\ to # "unlink_captured"
<1>1. TopFits(t)
    BY CallsFitTop DEF TInv
<1> QED
    BY <1>1 DEF TopFits, MayGoTo, ExecutionFits, Waiting, Running, Ending, Unlinking, Places

LEMMA StartCollectingKeeps ==
    ASSUME TInv, NEW t \in AllThreads, StartCollecting(t) PROVE TInv'
<1> USE DEF TInv
<1>1. Goes(t, "body", "collect_queue", None) /\ Top(t).at = "body"
    BY DEF StartCollecting, Goes
<1>2. UNCHANGED <<nodes, tree, queues, signalled, current, waits>>
    BY DEF StartCollecting
<1>3. MayGoTo(t, "collect_queue") /\ "collect_queue" \in Places
    BY <1>1, <1>2, SpawningMay DEF nodes
<1>4. CurrentFits(t, "collect_queue")
    BY <1>2, CurrentStays
<1>5. spawns' \in 0..MaxSpawns
    BY TreeAssumption DEF StartCollecting, MaySpawn, Types
<1>6. Types'
    BY <1>2, <1>5 DEF Types, nodes, tree, queues
<1> QED
    BY <1>1, <1>2, <1>3, <1>4, <1>6, QuietMove DEF HoldsFit, Ending, tree

\* The collector takes the first task of a queue, or goes on to the next queue.
LEMMA CollectMove ==
    ASSUME TInv, NEW t \in AllThreads, NEW from \in {"collect_queue", "collect_types"},
           NEW to \in InBody, NEW held \in Tasks \cup {None}, Goes(t, from, to, held),
           to \in Handling <=> held # None,
           pendingTasks' \in Seq(Tasks), typeTasks' \in Seq(Tasks),
           \A j \in Tasks : Count(j, pendingTasks) + Count(j, typeTasks)
               = Count(j, pendingTasks') + Count(j, typeTasks') + IF held = j THEN 1 ELSE 0,
           UNCHANGED <<nodes, tree, signalled, current, bounds>>
    PROVE  TInv'
<1> USE DEF TInv
<1>1. Top(t).at = from
    BY DEF Goes
<1>2. MayGoTo(t, to) /\ to \in Places /\ to \notin Ending /\ to # "unlink_captured"
    BY <1>1, SpawningMay DEF nodes
<1>3. HoldsFit(to, held)
    BY DEF HoldsFit
<1>4. None \notin Tasks
    BY TreeAssumption DEF Nodes
<1>5. ContainersFollow(t, from, to, held)
    <2>1. ASSUME NEW j \in Tasks
          PROVE  Containers(j) = Containers(j)' + IF held = j THEN 1 ELSE 0
        <3>1. Containers(j)' = Count(j, pendingTasks') + Count(j, typeTasks') + Cardinality(Lists(j)')
            BY DEF Containers, Lists
        <3>2. Lists(j)' = Lists(j)
            BY DEF Lists, tree
        <3>3. Count(j, pendingTasks') \in Nat /\ Count(j, typeTasks') \in Nat
            BY CountIsNat
        <3> QED
            BY <3>1, <3>2, <3>3, CountsAreNat
    <2>2. \A j \in Tasks : Containers(j) \in Nat
        BY CountsAreNat
    <2>3. \A j \in Tasks : Hold(from, Held(t), j) = 0 /\ Hold(to, held, j) = IF held = j THEN 1 ELSE 0
        BY <1>4 DEF Hold
    <2> QED
        BY <2>1, <2>2, <2>3 DEF ContainersFollow
<1>6. ListsShrink
    BY DEF ListsShrink, ListsFit, ListFits, tree
<1>7. ContainersTyped
    BY DEF ContainersTyped, Types, tree
<1> QED
    BY <1>2, <1>3, <1>5, <1>6, <1>7, ContainerMove DEF tree

\* A queue that is left alone, and one that loses its first task.
LEMMA QueueHead ==
    ASSUME TInv
    PROVE  /\ \A j \in Tasks : Count(j, pendingTasks) \in Nat /\ Count(j, typeTasks) \in Nat
           /\ pendingTasks \in Seq(Tasks) /\ typeTasks \in Seq(Tasks)
           /\ pendingTasks # <<>> =>
                 /\ Head(pendingTasks) \in Tasks /\ Tail(pendingTasks) \in Seq(Tasks)
                 /\ \A j \in Tasks : /\ Count(j, Tail(pendingTasks)) \in Nat
                                      /\ Count(j, pendingTasks) = Count(j, Tail(pendingTasks))
                                            + IF Head(pendingTasks) = j THEN 1 ELSE 0
           /\ typeTasks # <<>> =>
                 /\ Head(typeTasks) \in Tasks /\ Tail(typeTasks) \in Seq(Tasks)
                 /\ \A j \in Tasks : /\ Count(j, Tail(typeTasks)) \in Nat
                                      /\ Count(j, typeTasks) = Count(j, Tail(typeTasks))
                                            + IF Head(typeTasks) = j THEN 1 ELSE 0
<1>1. pendingTasks \in Seq(Tasks) /\ typeTasks \in Seq(Tasks)
    BY DEF TInv, Types
<1>2. ASSUME NEW s \in Seq(Tasks), s # <<>>
      PROVE  /\ Head(s) \in Tasks /\ Tail(s) \in Seq(Tasks)
             /\ \A j \in Tasks : /\ Count(j, Tail(s)) \in Nat
                                  /\ Count(j, s) = Count(j, Tail(s)) + IF Head(s) = j THEN 1 ELSE 0
    <2>1. Head(s) \in Tasks /\ Tail(s) \in Seq(Tasks)
        BY <1>2
    <2> QED
        BY <1>2, <2>1, CountTail, CountIsNat
<1>3. \A j \in Tasks : Count(j, pendingTasks) \in Nat /\ Count(j, typeTasks) \in Nat
    BY CountsAreNat
<1> QED
    BY <1>1, <1>2, <1>3

LEMMA CollectPendingKeeps ==
    ASSUME TInv, NEW t \in AllThreads, CollectPending(t) PROVE TInv'
<1>1. UNCHANGED <<nodes, tree, typeTasks, signalled, current, bounds>>
    BY DEF CollectPending
<1>2. CASE /\ pendingTasks # <<>> /\ pendingTasks' = Tail(pendingTasks)
           /\ Goes(t, "collect_queue", "drop_pending", Head(pendingTasks))
    <2>1. PICK k \in Tasks : k = Head(pendingTasks)
        BY <1>2, QueueHead
    <2>2. ASSUME NEW j \in Tasks
          PROVE  Count(j, pendingTasks) + Count(j, typeTasks)
                    = Count(j, pendingTasks') + Count(j, typeTasks') + IF k = j THEN 1 ELSE 0
        <3>1. /\ Count(j, Tail(pendingTasks)) \in Nat /\ Count(j, typeTasks) \in Nat
              /\ Count(j, pendingTasks) = Count(j, Tail(pendingTasks)) + IF k = j THEN 1 ELSE 0
            BY <1>2, <2>1, QueueHead
        <3>2. Count(j, pendingTasks') = Count(j, Tail(pendingTasks)) /\ Count(j, typeTasks') = Count(j, typeTasks)
            BY <1>1, <1>2
        <3> QED
            BY <3>1, <3>2
    <2>3. pendingTasks' \in Seq(Tasks) /\ typeTasks' \in Seq(Tasks) /\ k # None
        BY <1>1, <1>2, QueueHead, TreeAssumption DEF Nodes
    <2> QED
        BY <1>1, <1>2, <2>1, <2>2, <2>3, CollectMove
<1>3. CASE Goes(t, "collect_queue", "collect_types", None) /\ UNCHANGED pendingTasks
    <2>1. \A j \in Tasks : Count(j, pendingTasks) + Count(j, typeTasks)
             = Count(j, pendingTasks') + Count(j, typeTasks') + IF None = j THEN 1 ELSE 0
        BY <1>1, <1>3, QueueHead, TreeAssumption DEF Nodes
    <2>2. pendingTasks' \in Seq(Tasks) /\ typeTasks' \in Seq(Tasks)
        BY <1>1, <1>3, QueueHead
    <2> QED
        BY <1>1, <1>3, <2>1, <2>2, CollectMove
<1> QED
    BY <1>2, <1>3 DEF CollectPending

LEMMA CollectTypedKeeps ==
    ASSUME TInv, NEW t \in AllThreads, CollectTyped(t) PROVE TInv'
<1>1. UNCHANGED <<nodes, tree, pendingTasks, signalled, current, bounds>>
    BY DEF CollectTyped
<1>2. CASE /\ typeTasks # <<>> /\ typeTasks' = Tail(typeTasks)
           /\ Goes(t, "collect_types", "drop_typed", Head(typeTasks))
    <2>1. PICK k \in Tasks : k = Head(typeTasks)
        BY <1>2, QueueHead
    <2>2. ASSUME NEW j \in Tasks
          PROVE  Count(j, pendingTasks) + Count(j, typeTasks)
                    = Count(j, pendingTasks') + Count(j, typeTasks') + IF k = j THEN 1 ELSE 0
        <3>1. /\ Count(j, Tail(typeTasks)) \in Nat /\ Count(j, pendingTasks) \in Nat
              /\ Count(j, typeTasks) = Count(j, Tail(typeTasks)) + IF k = j THEN 1 ELSE 0
            BY <1>2, <2>1, QueueHead
        <3>2. Count(j, typeTasks') = Count(j, Tail(typeTasks)) /\ Count(j, pendingTasks') = Count(j, pendingTasks)
            BY <1>1, <1>2
        <3> QED
            BY <3>1, <3>2
    <2>3. pendingTasks' \in Seq(Tasks) /\ typeTasks' \in Seq(Tasks) /\ k # None
        BY <1>1, <1>2, QueueHead, TreeAssumption DEF Nodes
    <2> QED
        BY <1>1, <1>2, <2>1, <2>2, <2>3, CollectMove
<1>3. CASE Goes(t, "collect_types", "collected", None) /\ UNCHANGED typeTasks
    <2>1. \A j \in Tasks : Count(j, pendingTasks) + Count(j, typeTasks)
             = Count(j, pendingTasks') + Count(j, typeTasks') + IF None = j THEN 1 ELSE 0
        BY <1>1, <1>3, QueueHead, TreeAssumption DEF Nodes
    <2>2. pendingTasks' \in Seq(Tasks) /\ typeTasks' \in Seq(Tasks)
        BY <1>1, <1>3, QueueHead
    <2> QED
        BY <1>1, <1>3, <2>1, <2>2, CollectMove
<1> QED
    BY <1>2, <1>3 DEF CollectTyped

\* The first child of the task of the call is taken, to be grabbed or awaited.
LEMMA TakeChild ==
    ASSUME TInv, NEW t \in AllThreads, NEW from \in {"children", "unlink"}, NEW to,
           to = IF from = "children" THEN "try_grab" ELSE "unlink_child",
           children[Mine(t)] # <<>>, Goes(t, from, to, Head(children[Mine(t)])),
           children' = [children EXCEPT ![Mine(t)] = Tail(@)],
           UNCHANGED <<nodes, counter, waiter, queues, signalled, current, bounds>>
    PROVE  TInv'
<1> USE DEF TInv
<1>1. TopFits(t) /\ Top(t).at = from /\ Top(t) \in FrameType
    BY CallsFitTop, TopIsLast DEF Goes
<1>2. Mine(t) \in Nodes
    BY <1>1 DEF TopFits, Running, Ending, Unlinking, FrameType, Mine, Nodes
<1>3. IsList(children[Mine(t)])
    BY <1>2 DEF ListsFit, ListFits
<1>4. PICK k \in Tasks : k = Head(children[Mine(t)])
    BY <1>2, <1>3, ListsPop
<1>5. /\ children' \in [Nodes -> Seq(Tasks)] /\ IsList(children'[Mine(t)])
      /\ \A j \in Tasks : Cardinality(Lists(j)) = Cardinality(Lists(j)') + IF k = j THEN 1 ELSE 0
    BY <1>2, <1>3, <1>4, ListsPop
<1>6. ListsShrink
    BY <1>2, <1>5 DEF ListsShrink, Types, ListsFit, ListFits
<1>7. MayGoTo(t, to) /\ to \in Places /\ to \notin Ending /\ to # "unlink_captured"
    BY <1>1, <1>2, TreeAssumption
       DEF TopFits, MayGoTo, ExecutionFits, Waiting, Running, Ending, Unlinking, Places, nodes
<1>8. HoldsFit(to, k)
    BY DEF HoldsFit
<1>9. ContainersFollow(t, from, to, k)
    <2>1. ASSUME NEW j \in Tasks
          PROVE  Containers(j) = Containers(j)' + IF k = j THEN 1 ELSE 0
        <3>1. Containers(j)' = Count(j, pendingTasks') + Count(j, typeTasks') + Cardinality(Lists(j)')
            BY DEF Containers, Lists
        <3>2. Cardinality(Lists(j)') \in Nat
            <4>1. Lists(j)' \in SUBSET Nodes
                BY DEF Lists
            <4> QED
                BY <4>1, ListsAreFinite
        <3>3. /\ Count(j, pendingTasks) \in Nat /\ Count(j, typeTasks) \in Nat
              /\ Containers(j) = Count(j, pendingTasks) + Count(j, typeTasks) + Cardinality(Lists(j))
            BY CountsAreNat
        <3>4. Cardinality(Lists(j)) = Cardinality(Lists(j)') + IF k = j THEN 1 ELSE 0
            BY <1>5
        <3>5. Count(j, pendingTasks') = Count(j, pendingTasks) /\ Count(j, typeTasks') = Count(j, typeTasks)
            BY DEF queues
        <3> QED
            BY <3>1, <3>2, <3>3, <3>4, <3>5
    <2>2. \A j \in Tasks : Containers(j) \in Nat
        BY CountsAreNat
    <2> QED
        BY <2>1, <2>2 DEF ContainersFollow, Handling, Hold
<1>10. ContainersTyped
    BY <1>5 DEF ContainersTyped, queues, Types
<1>11. Goes(t, from, to, k) /\ Top(t).at \notin InBody
    BY <1>1, <1>4
<1> QED
    BY <1>5, <1>6, <1>7, <1>8, <1>9, <1>10, <1>11, ContainerMove

LEMMA PopChildKeeps ==
    ASSUME TInv, NEW t \in AllThreads, PopChild(t) PROVE TInv'
BY TakeChild DEF PopChild

LEMMA UnlinkNextKeeps ==
    ASSUME TInv, NEW t \in AllThreads, UnlinkNext(t) PROVE TInv'
BY TakeChild DEF UnlinkNext

\* Whoever lets go of a task last finds it neither queued nor executed.
LEMMA LastReference ==
    ASSUME TInv, NEW t \in AllThreads, NEW k \in Tasks, Handles(t, k)
    PROVE  /\ references[k] >= 1
           /\ references[k] = 1 => ~Executed(k) /\ state[k] \notin {"allocated", "grabbed", "captured"}
<1> USE DEF TInv
<1>1. IsFiniteSet(Handlers(k)) /\ Cardinality(Handlers(k)) \in Nat
    <2>1. Handlers(k) \in SUBSET AllThreads
        BY DEF Handlers, TopAt
    <2> QED
        BY <2>1, ThreadsAreFinite
<1>2. t \in Handlers(k)
    BY DEF Handlers, Handles, TopAt
<1>3. Cardinality(Handlers(k)) # 0
    BY <1>1, <1>2, FS_EmptySet
<1>4. /\ references[k] \in Nat /\ Containers(k) \in Nat /\ Executions(k) \in 0..1
      /\ references[k] = Containers(k) + Cardinality(Handlers(k)) + Executions(k)
    BY CountsAreNat
<1>5. references[k] >= 1 /\ (references[k] = 1 => Executions(k) = 0)
    BY <1>1, <1>3, <1>4
<1>6. Executions(k) = 0 => ~Executed(k) /\ state[k] # "allocated"
    <2>1. Executions(k) = 0 => Executors(k) = {} /\ state[k] # "allocated"
        BY DEF Executions
    <2>2. \A u \in AllThreads : u \in Executors(k) <=> ExecutedBy(u, k)
        BY ExecutorsAreExecuting DEF ExecutorsExecute
    <2> QED
        BY <2>1, <2>2 DEF Executed
<1>7. state[k] \in {"grabbed", "captured"} => Executed(k)
    BY DEF TasksFit, TaskFits
<1> QED
    BY <1>5, <1>6, <1>7

\* The reference of the thread that holds the task is dropped.
LEMMA DropMove ==
    ASSUME TInv, NEW t \in AllThreads, NEW to, NEW from,
           \/ from = "unlink_child" /\ to = "unlink"
           \/ from = "drop_pending" /\ to = "collect_queue"
           \/ from = "drop_typed" /\ to = "collect_types"
           \/ from = "try_grab" /\ to = (IF Mine(t) = None THEN "idle" ELSE "children"),
           Goes(t, from, to, None), DropReference(Held(t)),
           UNCHANGED <<parent, tree, queues, signalled, current, bounds>>
    PROVE  TInv'
<1> USE DEF TInv
<1>1. Top(t).at = from
    BY DEF Goes
<1>2. PICK k \in Tasks : k = Held(t)
    BY <1>1 DEF ThreadsFit, ThreadFits, HoldsFit
<1>3. Handles(t, k)
    BY <1>1, <1>2 DEF Handles
<1>4. /\ references[k] >= 1
      /\ references[k] = 1 => ~Executed(k) /\ state[k] \notin {"allocated", "grabbed", "captured"}
    BY <1>3, LastReference
<1>5. k \in Nodes /\ k # Root
    BY TreeAssumption DEF Nodes
<1>6. /\ references' = [references EXCEPT ![k] = @ - 1]
      /\ state' = IF references[k] = 1 THEN [state EXCEPT ![k] = "deallocated"] ELSE state
    BY <1>2 DEF DropReference
<1>7. \A n \in Nodes : state'[n] # state[n] => n = k /\ references[k] = 1 /\ state'[k] = "deallocated"
    BY <1>6 DEF Types
<1>8. \A n \in Nodes : Executed(n) => state'[n] = state[n]
    BY <1>4, <1>7
<1>9. OthersFit(t)
    <2>1. ASSUME NEW u \in AllThreads, NEW d \in Calls(u), Executes(u, d)
          PROVE  ExecutionFits(state'[At(u, d).task], At(u, d).at)
        <3>1. CallFits(u, d)
            BY DEF CallsFit
        <3>2. At(u, d).task \in Nodes /\ ExecutionFits(state[At(u, d).task], At(u, d).at)
            BY <2>1, <3>1 DEF CallFits, Nodes
        <3>3. Executed(At(u, d).task)
            BY <2>1 DEF Executed, ExecutedBy
        <3> QED
            BY <1>8, <3>2, <3>3
    <2> QED
        BY <2>1 DEF OthersFit
<1>10. MayGoTo(t, to) /\ to \in Places
    <2>1. TopFits(t)
        BY CallsFitTop
    <2>2. ASSUME Executes(t, Height(t)) PROVE state'[Mine(t)] = state[Mine(t)]
        <3>1. Mine(t) \in Nodes
            BY <2>1, <2>2 DEF TopFits, Nodes
        <3>2. Executed(Mine(t))
            BY <2>2, TopIsLast DEF Executed, ExecutedBy, Mine
        <3> QED
            BY <1>8, <3>1, <3>2
    <2>3. CASE Executes(t, Height(t))
        BY <1>1, <2>1, <2>2, <2>3 DEF TopFits, MayGoTo, ExecutionFits, Running, Ending, Unlinking, Places
    <2>4. CASE ~Executes(t, Height(t))
        BY <1>1, <2>1, <2>4 DEF TopFits, MayGoTo, Waiting, Unlinking, Places
    <2> QED
        BY <2>3, <2>4
<1>11. HoldsFit(to, None)
    BY DEF HoldsFit
<1>12. CurrentFits(t, to)
    BY <1>1, CurrentStays
<1>13. Types'
    <2>1. references'[k] \in 0..4
        BY <1>4, <1>5, <1>6 DEF Types
    <2>2. references' \in [Nodes -> 0..4]
        BY <1>5, <1>6, <2>1 DEF Types
    <2>3. state' \in [Nodes -> States] /\ state'[Root] = "grabbed"
        BY <1>5, <1>6 DEF Types, States, Nodes
    <2> QED
        BY <2>2, <2>3 DEF Types, tree, queues, bounds
<1>14. \A u \in TopAt({"unlink_captured"}) \ {t} : state'[Held(u)] = "captured"
    <2>1. ASSUME NEW u \in TopAt({"unlink_captured"}) PROVE state'[Held(u)] = "captured"
        <3>1. state[Held(u)] = "captured"
            BY <2>1 DEF CutsOffAlone
        <3>2. Held(u) \in Nodes
            BY <2>1 DEF TopAt, ThreadsFit, ThreadFits, HoldsFit, Nodes
        <3> QED
            BY <1>4, <1>7, <3>1, <3>2
    <2> QED
        BY <2>1
<1>15. ASSUME NEW j \in Tasks
       PROVE  /\ state'[j] \in {"grabbed", "captured"} => state[j] \in {"grabbed", "captured"}
              /\ state'[j] = "allocated" <=> state[j] = "allocated"
              /\ state'[j] = "deallocated" <=> references'[j] = 0
              /\ references'[j] + Containers(j) + Hold(from, Held(t), j)
                    = references[j] + Containers(j)' + Hold(to, None, j)
    <2>1. j \in Nodes
        BY DEF Nodes
    <2>2. references[j] \in Nat /\ Containers(j) \in Nat /\ (state[j] = "deallocated" <=> references[j] = 0)
        BY CountsAreNat
    <2>3. Containers(j)' = Containers(j)
        BY DEF Containers, tree, queues
    <2>4. Hold(to, None, j) = 0 /\ Hold(from, Held(t), j) = IF j = k THEN 1 ELSE 0
        BY <1>2 DEF Hold, Handling
    <2>5. references'[j] = IF j = k THEN references[j] - 1 ELSE references[j]
        BY <1>6, <2>1 DEF Types
    <2>6. state'[j] = IF j = k /\ references[k] = 1 THEN "deallocated" ELSE state[j]
        BY <1>6, <2>1 DEF Types
    <2>7. references'[j] + Containers(j) + Hold(from, Held(t), j)
             = references[j] + Containers(j)' + Hold(to, None, j)
        BY <2>2, <2>3, <2>4, <2>5
    <2>8. state'[j] = "deallocated" <=> references'[j] = 0
        BY <1>4, <2>2, <2>5, <2>6
    <2>9. state'[j] # state[j] => state[j] \notin {"allocated", "grabbed", "captured"} /\ state'[j] = "deallocated"
        BY <1>4, <2>6
    <2> QED
        BY <2>7, <2>8, <2>9
<1>16. ListsShrink
    BY DEF ListsShrink, ListsFit, ListFits, tree
<1>17. to # "unlink_captured" /\ to \notin Ending
    BY DEF Ending
<1> QED
    BY <1>9, <1>10, <1>11, <1>12, <1>13, <1>14, <1>15, <1>16, <1>17, HandlingMove DEF ListsShrink

LEMMA ChildExecutedKeeps ==
    ASSUME TInv, NEW t \in AllThreads, ChildExecuted(t) PROVE TInv'
BY DropMove DEF ChildExecuted

LEMMA DropCollectedKeeps ==
    ASSUME TInv, NEW t \in AllThreads, DropCollected(t) PROVE TInv'
BY DropMove DEF DropCollected

\* The state of a task changes while one thread is at the end of its execution,
\* or cuts it off.
LEMMA StateMove ==
    ASSUME TInv, NEW t \in AllThreads, NEW from, NEW to \in Places,
           NEW held \in Nodes \cup AllThreads \cup {None}, NEW k \in Tasks, NEW s \in States,
           Goes(t, from, to, held), state' = [state EXCEPT ![k] = s],
           state[k] \in {"grabbed", "captured"}, s \notin {"allocated", "deallocated"},
           MayGoTo(t, to), HoldsFit(to, held), OthersFit(t), CurrentFits(t, to), CutsOffAlone',
           \A j : Hold(from, Held(t), j) = Hold(to, held, j),
           parent' \in [Nodes -> Nodes \cup {None}], current' \in [AllThreads -> Nodes \cup {None}],
           UNCHANGED <<references, tree, queues, signalled, bounds>>
    PROVE  TInv'
<1> USE DEF TInv
<1>1. k \in Nodes /\ k # Root
    BY TreeAssumption DEF Nodes
<1>2. Types'
    <2>1. state' \in [Nodes -> States] /\ state'[Root] = "grabbed"
        BY <1>1 DEF Types, Nodes
    <2> QED
        BY <2>1 DEF Types, tree, queues, bounds
<1>3. ASSUME NEW j \in Tasks
      PROVE  /\ state'[j] \in {"grabbed", "captured"} => state[j] \in {"grabbed", "captured"}
             /\ state'[j] = "allocated" <=> state[j] = "allocated"
             /\ state'[j] = "deallocated" <=> references'[j] = 0
             /\ references'[j] + Containers(j) + Hold(from, Held(t), j)
                   = references[j] + Containers(j)' + Hold(to, held, j)
    <2>1. j \in Nodes
        BY DEF Nodes
    <2>2. references[j] \in Nat /\ Containers(j) \in Nat /\ (state[j] = "deallocated" <=> references[j] = 0)
        BY CountsAreNat
    <2>3. Containers(j)' = Containers(j) /\ references'[j] = references[j]
        BY DEF Containers, tree, queues
    <2>4. state'[j] = IF j = k THEN s ELSE state[j]
        BY <2>1 DEF Types
    <2>5. references'[j] + Containers(j) + Hold(from, Held(t), j)
             = references[j] + Containers(j)' + Hold(to, held, j)
        BY <2>3
    <2>6. state'[j] # state[j] => state[j] \in {"grabbed", "captured"} /\ state'[j] \notin {"allocated", "deallocated"}
        BY <2>4
    <2> QED
        BY <2>2, <2>3, <2>5, <2>6
<1>4. ListsShrink
    BY DEF ListsShrink, ListsFit, ListFits, tree
<1> QED
    BY <1>2, <1>3, <1>4, MoveKeeps DEF ListsShrink

-----------------------------------------------------------------------------
(* The states of a task between its grab and its end.                      *)

\* The execution that a thread ends is its own: nobody else's is disturbed.
LEMMA EndOfMine ==
    ASSUME TInv, NEW t \in AllThreads, Top(t).at \in {"capture", "mark"},
           NEW s, state' = [state EXCEPT ![Mine(t)] = s]
    PROVE  /\ Executes(t, Height(t)) /\ Height(t) # 1 /\ Mine(t) \in Tasks
           /\ ExecutionFits(state[Mine(t)], Top(t).at) /\ OthersFit(t)
<1> USE DEF TInv
<1>1. TopFits(t)
    BY CallsFitTop
<1>2. /\ Executes(t, Height(t)) /\ Height(t) # 1 /\ Mine(t) \in Tasks
      /\ ExecutionFits(state[Mine(t)], Top(t).at)
    BY <1>1 DEF TopFits, Waiting, Unlinking
<1>3. ASSUME NEW u \in AllThreads, NEW d \in Calls(u), Executes(u, d), ~(u = t /\ d = Height(t))
      PROVE  ExecutionFits(state'[At(u, d).task], At(u, d).at)
    <2>1. CallFits(u, d)
        BY DEF CallsFit
    <2>2. At(u, d).task \in Nodes /\ ExecutionFits(state[At(u, d).task], At(u, d).at)
        BY <1>3, <2>1 DEF CallFits, Nodes
    <2>3. At(u, d).task # Mine(t)
        BY <1>2, <1>3, TopIsLast DEF OneExecution, Mine
    <2>4. state'[At(u, d).task] = state[At(u, d).task]
        BY <2>2, <2>3 DEF Types
    <2> QED
        BY <2>2, <2>4
<1>4. OthersFit(t)
    BY <1>3 DEF OthersFit
<1> QED
    BY <1>2, <1>4

LEMMA MarkKeeps ==
    ASSUME TInv, NEW t \in AllThreads, Mark(t) PROVE TInv'
<1> USE DEF TInv
<1>1. Goes(t, "mark", "unlink", None) /\ state' = [state EXCEPT ![Mine(t)] = "executed"]
      /\ UNCHANGED <<references, parent, tree, queues, signalled, current, bounds>>
    BY DEF Mark
<1>2. Top(t).at = "mark"
    BY <1>1 DEF Goes
<1>3. PICK k \in Tasks : k = Mine(t) /\ Executes(t, Height(t)) /\ Height(t) # 1
    BY <1>1, <1>2, EndOfMine
<1>4. OthersFit(t) /\ ExecutionFits(state[k], "mark")
    BY <1>1, <1>2, <1>3, EndOfMine
<1>5. state[k] = "captured"
    BY <1>4 DEF ExecutionFits, Ending
<1>6. state'[k] = "executed" /\ \A n \in Nodes \ {k} : state'[n] = state[n]
    BY <1>1, <1>3 DEF Types, Nodes
<1>7. MayGoTo(t, "unlink") /\ "unlink" \in Places
    BY <1>3, <1>6 DEF MayGoTo, ExecutionFits, Running, Ending, Unlinking, Places
<1>8. HoldsFit("unlink", None)
    BY DEF HoldsFit
<1>9. CurrentFits(t, "unlink")
    BY <1>1, <1>2, CurrentStays
<1>10. \A u \in AllThreads :
          /\ Top(u)' = IF u = t THEN Frame(Mine(t), "unlink", None) ELSE Top(u)
          /\ Mine(u)' = Mine(u)
    BY <1>1, <1>4, <1>7, <1>8, <1>9, MoveFits
<1>11. CutsOffAlone'
    <2>1. ASSUME NEW u \in TopAt({"unlink_captured"}) PROVE state'[Held(u)] = "captured"
        <3>1. state[Held(u)] = "captured" /\ Held(u) # k
            BY <1>2, <1>3 DEF CutsOffAlone, TopAt, Ending
        <3>2. Held(u) \in Nodes
            BY <2>1 DEF TopAt, ThreadsFit, ThreadFits, HoldsFit, Nodes
        <3> QED
            BY <1>6, <3>1, <3>2
    <2>2. Top(t)'.at = "unlink" /\ "unlink" \notin Ending
        BY <1>10 DEF Frame, Ending
    <2>3. \A u \in AllThreads \ {t} : Top(u)' = Top(u)
        BY <1>10
    <2> QED
        BY <2>1, <2>2, <2>3, CutsKept
<1>12. \A j : Hold("mark", Held(t), j) = Hold("unlink", None, j)
    BY DEF Hold, Handling
<1>13. state' = [state EXCEPT ![k] = "executed"] /\ "executed" \in States
    BY <1>1, <1>3 DEF States
<1> QED
    BY <1>1, <1>4, <1>5, <1>7, <1>8, <1>9, <1>11, <1>12, <1>13, StateMove DEF Types

LEMMA CaptureKeeps ==
    ASSUME TInv, NEW t \in AllThreads, Capture(t) PROVE TInv'
<1> USE DEF TInv
<1>1. /\ Top(t).at = "capture" /\ state[Mine(t)] = "grabbed"
      /\ state' = [state EXCEPT ![Mine(t)] = "captured"]
      /\ UNCHANGED <<references, parent, tree, queues, signalled, current, bounds>>
    BY DEF Capture
<1>2. PICK k \in Tasks : k = Mine(t) /\ Executes(t, Height(t)) /\ Height(t) # 1
    BY <1>1, EndOfMine
<1>3. OthersFit(t)
    BY <1>1, EndOfMine
<1>4. PICK held \in Nodes \cup {None} : held = parent[k]
    BY DEF Types, Nodes
<1>5. PICK to \in {"mark", "decrement"} : to = IF held = None THEN "mark" ELSE "decrement"
    OBVIOUS
<1>6. Goes(t, "capture", to, held)
    BY <1>2, <1>4, <1>5 DEF Capture
<1>7. state'[k] = "captured" /\ \A n \in Nodes \ {k} : state'[n] = state[n]
    BY <1>1, <1>2 DEF Types, Nodes
<1>8. MayGoTo(t, to) /\ to \in Places
    BY <1>2, <1>5, <1>7 DEF MayGoTo, ExecutionFits, Running, Ending, Unlinking, Places
<1>9. HoldsFit(to, held)
    BY <1>4, <1>5 DEF HoldsFit
<1>10. CurrentFits(t, to)
    BY <1>1, CurrentStays
<1>11. \A u \in AllThreads :
          /\ Top(u)' = IF u = t THEN Frame(Mine(t), to, held) ELSE Top(u)
          /\ Mine(u)' = Mine(u)
    BY <1>3, <1>4, <1>6, <1>8, <1>9, <1>10, MoveFits
<1>12. CutsOffAlone'
    <2>1. Top(t)'.at = to /\ to # "unlink_captured" /\ Mine(t)' = k
        BY <1>2, <1>5, <1>11 DEF Frame
    <2>2. \A u \in AllThreads \ {t} : Top(u)' = Top(u) /\ Held(u)' = Held(u) /\ Mine(u)' = Mine(u)
        BY <1>11 DEF Held, Mine
    <2>3. \A u \in TopAt({"unlink_captured"})' : u # t /\ u \in TopAt({"unlink_captured"})
        BY <2>1, <2>2 DEF TopAt
    <2>4. ASSUME NEW u \in TopAt({"unlink_captured"})
          PROVE  Held(u) \in Nodes /\ Held(u) # k /\ state[Held(u)] = "captured"
        <3>1. state[Held(u)] = "captured"
            BY DEF CutsOffAlone
        <3>2. Held(u) \in Nodes
            BY DEF TopAt, ThreadsFit, ThreadFits, HoldsFit, Nodes
        <3> QED
            BY <1>1, <1>2, <3>1, <3>2
    <2>5. \A u \in TopAt(Ending)' : Mine(u)' = k \/ (u \in TopAt(Ending) /\ Mine(u)' = Mine(u))
        BY <2>1, <2>2 DEF TopAt
    <2>6. ASSUME NEW u \in TopAt({"unlink_captured"})'
          PROVE  /\ state'[Held(u)'] = "captured"
                 /\ \A v \in TopAt({"unlink_captured"})' : Held(v)' = Held(u)' => v = u
                 /\ \A v \in TopAt(Ending)' : Mine(v)' # Held(u)'
        <3>1. u # t /\ u \in TopAt({"unlink_captured"}) /\ u \in AllThreads /\ Held(u)' = Held(u)
            BY <2>2, <2>3 DEF TopAt
        <3>2. Held(u) \in Nodes /\ Held(u) # k /\ state[Held(u)] = "captured"
            BY <2>4, <3>1
        <3>3. \A v \in TopAt({"unlink_captured"})' : v \in TopAt({"unlink_captured"}) /\ Held(v)' = Held(v)
            BY <2>2, <2>3 DEF TopAt
        <3>4. \A v \in TopAt({"unlink_captured"}) : Held(v) = Held(u) => v = u
            BY <3>1 DEF CutsOffAlone
        <3>5. \A v \in TopAt(Ending) : Mine(v) # Held(u)
            BY <3>1 DEF CutsOffAlone
        <3> QED
            BY <1>7, <2>5, <3>1, <3>2, <3>3, <3>4, <3>5
    <2> QED
        BY <2>6 DEF CutsOffAlone
<1>13. \A j : Hold("capture", Held(t), j) = Hold(to, held, j)
    BY <1>5 DEF Hold, Handling
<1>14. state' = [state EXCEPT ![k] = "captured"] /\ "captured" \in States /\ state[k] = "grabbed"
    BY <1>1, <1>2 DEF States
<1>15. /\ parent' \in [Nodes -> Nodes \cup {None}] /\ current' \in [AllThreads -> Nodes \cup {None}]
       /\ UNCHANGED <<references, tree, queues, signalled, bounds>>
    BY <1>1 DEF Types
<1>16. "captured" \notin {"allocated", "deallocated"} /\ held \in Nodes \cup AllThreads \cup {None}
    BY <1>4
<1> QED
    BY <1>3, <1>6, <1>8, <1>9, <1>10, <1>12, <1>13, <1>14, <1>15, <1>16, StateMove

\* A call that unlinks children of an executed task, or a wait of the user.
LEMMA UnlinkingMay ==
    ASSUME TInv, NEW t \in AllThreads, NEW c \in Tasks, NEW s,
           NEW from \in {"unlink_child", "unlink_captured"}, Top(t).at = from, c = Held(t),
           state' = [state EXCEPT ![c] = s], state[c] \in {"grabbed", "captured"},
           NEW to \in {"unlink_child", "unlink_captured"}
    PROVE  /\ MayGoTo(t, to) /\ HoldsFit(to, c) /\ to \in Places
           /\ \A j : Hold(from, Held(t), j) = Hold(to, c, j)
<1> USE DEF TInv
<1>1. TopFits(t)
    BY CallsFitTop
<1>2. CASE Executes(t, Height(t))
    <2>1. Mine(t) \in Nodes /\ state[Mine(t)] = "executed" /\ Height(t) # 1
        BY <1>1, <1>2 DEF TopFits, ExecutionFits, Unlinking, Nodes
    <2>2. state'[Mine(t)] = "executed"
        BY <2>1 DEF Types
    <2>3. MayGoTo(t, to)
        BY <1>2, <2>1, <2>2 DEF MayGoTo, ExecutionFits, Running, Ending, Unlinking
    <2> QED
        BY <2>3 DEF HoldsFit, Places, Unlinking, Hold, Handling
<1>3. CASE ~Executes(t, Height(t))
    <2>1. Height(t) # 1 /\ t = User /\ Mine(t) # None
        BY <1>1, <1>3 DEF TopFits, Waiting
    <2>2. MayGoTo(t, to)
        BY <1>3, <2>1 DEF MayGoTo, Unlinking
    <2> QED
        BY <2>2 DEF HoldsFit, Places, Unlinking, Hold, Handling
<1> QED
    BY <1>2, <1>3

\* Any place of an execution at the end is the innermost of its thread.
LEMMA EndingIsTop ==
    ASSUME StackOK, CallsFit, NEW u \in AllThreads, NEW d \in Calls(u), At(u, d).at \in Ending
    PROVE  u \in TopAt(Ending) /\ Mine(u) = At(u, d).task
<1>1. CallFits(u, d)
    BY DEF CallsFit
<1>2. d = Height(u)
    BY <1>1 DEF CallFits, Ending
<1> QED
    BY <1>2, TopIsLast DEF TopAt, Mine

LEMMA CutOffKeeps ==
    ASSUME TInv, NEW t \in AllThreads, CutOff(t) PROVE TInv'
<1> USE DEF TInv
<1>1. Top(t).at \in {"unlink_child", "unlink_captured"}
    BY DEF CutOff, Goes
<1>2. PICK c \in Tasks : c = Held(t)
    BY <1>1 DEF ThreadsFit, ThreadFits, HoldsFit
<1>3. UNCHANGED <<references, tree, queues, signalled, current, bounds>>
    BY DEF CutOff
<1>4. CASE /\ Top(t).at = "unlink_child" /\ state[c] = "grabbed"
           /\ Goes(t, "unlink_child", "unlink_captured", c)
           /\ state' = [state EXCEPT ![c] = "captured"]
           /\ UNCHANGED parent
    <2>1. /\ MayGoTo(t, "unlink_captured") /\ HoldsFit("unlink_captured", c) /\ "unlink_captured" \in Places
          /\ \A j : Hold("unlink_child", Held(t), j) = Hold("unlink_captured", c, j)
        BY <1>1, <1>2, <1>4, UnlinkingMay
    <2>2. state'[c] = "captured" /\ \A n \in Nodes \ {c} : state'[n] = state[n]
        BY <1>4 DEF Types, Nodes
    <2>3. OthersFit(t)
        <3>1. ASSUME NEW u \in AllThreads, NEW d \in Calls(u), Executes(u, d)
              PROVE  ExecutionFits(state'[At(u, d).task], At(u, d).at)
            <4>1. CallFits(u, d)
                BY DEF CallsFit
            <4>2. At(u, d).task \in Nodes /\ ExecutionFits(state[At(u, d).task], At(u, d).at)
                BY <3>1, <4>1 DEF CallFits, Nodes
            <4> QED
                BY <1>4, <2>2, <4>2 DEF ExecutionFits
        <3> QED
            BY <3>1 DEF OthersFit
    <2>4. CurrentFits(t, "unlink_captured")
        BY <1>3, <1>4, CurrentStays
    <2>5. c \in Nodes
        BY DEF Nodes
    <2>6. \A u \in AllThreads :
             /\ Top(u)' = IF u = t THEN Frame(Mine(t), "unlink_captured", c) ELSE Top(u)
             /\ Mine(u)' = Mine(u)
        BY <1>4, <2>1, <2>3, <2>4, <2>5, MoveFits
    <2>7. CutsOffAlone'
        <3>1. Top(t)'.at = "unlink_captured" /\ Held(t)' = c
            BY <2>6 DEF Frame, Held
        <3>2. \A u \in AllThreads \ {t} : Top(u)' = Top(u) /\ Held(u)' = Held(u) /\ Mine(u)' = Mine(u)
            BY <2>6 DEF Held, Mine
        <3>3. \A u \in TopAt({"unlink_captured"})' : u = t \/ u \in TopAt({"unlink_captured"})
            BY <3>2 DEF TopAt
        <3>4. ASSUME NEW u \in TopAt({"unlink_captured"})
              PROVE  u # t /\ Held(u) \in Nodes /\ Held(u) # c /\ state[Held(u)] = "captured"
            <4>1. state[Held(u)] = "captured"
                BY DEF CutsOffAlone
            <4>2. Held(u) \in Nodes
                BY DEF TopAt, ThreadsFit, ThreadFits, HoldsFit, Nodes
            <4>3. u # t
                BY <1>4 DEF TopAt
            <4> QED
                BY <1>4, <4>1, <4>2, <4>3
        <3>5. \A u \in TopAt(Ending)' : u \in TopAt(Ending) /\ u # t
            BY <3>1, <3>2 DEF TopAt, Ending
        <3>6. ASSUME NEW u \in TopAt(Ending)
              PROVE  Mine(u) # c
            <4>1. TopFits(u)
                BY CallsFitTop DEF TopAt
            <4>2. state[Mine(u)] = "captured"
                BY <4>1 DEF TopFits, ExecutionFits, TopAt, Ending, Waiting, Unlinking
            <4> QED
                BY <1>4, <4>2
        <3>7. ASSUME NEW u \in TopAt({"unlink_captured"})'
              PROVE  /\ state'[Held(u)'] = "captured"
                     /\ \A v \in TopAt({"unlink_captured"})' : Held(v)' = Held(u)' => v = u
                     /\ \A v \in TopAt(Ending)' : Mine(v)' # Held(u)'
            <4>1. \A v \in TopAt({"unlink_captured"})' : v # t => Held(v)' = Held(v)
                BY <3>2 DEF TopAt
            <4>2. \A v \in TopAt(Ending)' : v \in TopAt(Ending) /\ Mine(v)' = Mine(v)
                BY <2>6, <3>5 DEF TopAt
            <4>3. CASE u = t
                BY <2>2, <3>1, <3>3, <3>4, <3>6, <4>1, <4>2, <4>3
            <4>4. CASE u # t
                <5>1. u \in TopAt({"unlink_captured"}) /\ Held(u)' = Held(u)
                    BY <3>3, <4>1, <4>4
                <5>2. Held(u) \in Nodes /\ Held(u) # c /\ state[Held(u)] = "captured"
                    BY <3>4, <5>1
                <5>3. \A v \in TopAt({"unlink_captured"}) : Held(v) = Held(u) => v = u
                    BY <5>1 DEF CutsOffAlone
                <5>4. \A v \in TopAt(Ending) : Mine(v) # Held(u)
                    BY <5>1 DEF CutsOffAlone
                <5> QED
                    BY <2>2, <3>1, <3>3, <4>1, <4>2, <5>1, <5>2, <5>3, <5>4
            <4> QED
                BY <4>3, <4>4
        <3> QED
            BY <3>7 DEF CutsOffAlone
    <2>8. "captured" \in States
        BY DEF States
    <2> QED
        BY <1>3, <1>4, <2>1, <2>3, <2>4, <2>5, <2>7, <2>8, StateMove DEF Types
<1>5. CASE /\ Goes(t, "unlink_captured", "unlink_child", c)
           /\ parent' = [parent EXCEPT ![c] = None]
           /\ state' = [state EXCEPT ![c] = "grabbed"]
    <2>1. Top(t).at = "unlink_captured" /\ t \in TopAt({"unlink_captured"})
        BY <1>5 DEF Goes, TopAt
    <2>2. /\ state[c] = "captured"
          /\ \A u \in TopAt({"unlink_captured"}) : Held(u) = c => u = t
          /\ \A u \in TopAt(Ending) : Mine(u) # c
        BY <1>2, <2>1 DEF CutsOffAlone
    <2>3. /\ MayGoTo(t, "unlink_child") /\ HoldsFit("unlink_child", c) /\ "unlink_child" \in Places
          /\ \A j : Hold("unlink_captured", Held(t), j) = Hold("unlink_child", c, j)
        BY <1>1, <1>2, <1>5, <2>1, <2>2, UnlinkingMay
    <2>4. state'[c] = "grabbed" /\ \A n \in Nodes \ {c} : state'[n] = state[n]
        BY <1>5 DEF Types, Nodes
    <2>5. OthersFit(t)
        <3>1. ASSUME NEW u \in AllThreads, NEW d \in Calls(u), Executes(u, d)
              PROVE  ExecutionFits(state'[At(u, d).task], At(u, d).at)
            <4>1. CallFits(u, d)
                BY DEF CallsFit
            <4>2. At(u, d).task \in Nodes /\ ExecutionFits(state[At(u, d).task], At(u, d).at)
                BY <3>1, <4>1 DEF CallFits, Nodes
            <4>3. At(u, d).at \in Ending => At(u, d).task # c
                BY <2>2, EndingIsTop
            <4> QED
                BY <2>2, <2>4, <4>2, <4>3 DEF ExecutionFits
        <3> QED
            BY <3>1 DEF OthersFit
    <2>6. CurrentFits(t, "unlink_child")
        BY <1>3, <2>1, CurrentStays
    <2>7. c \in Nodes
        BY DEF Nodes
    <2>8. \A u \in AllThreads :
             /\ Top(u)' = IF u = t THEN Frame(Mine(t), "unlink_child", c) ELSE Top(u)
             /\ Mine(u)' = Mine(u)
        BY <1>5, <2>3, <2>5, <2>6, <2>7, MoveFits
    <2>9. CutsOffAlone'
        <3>1. Top(t)'.at = "unlink_child" /\ "unlink_child" \notin Ending
            BY <2>8 DEF Frame, Ending
        <3>2. \A u \in AllThreads \ {t} : Top(u)' = Top(u)
            BY <2>8
        <3>3. ASSUME NEW u \in TopAt({"unlink_captured"}) \ {t} PROVE state'[Held(u)] = "captured"
            <4>1. state[Held(u)] = "captured" /\ Held(u) # c
                BY <2>2 DEF CutsOffAlone
            <4>2. Held(u) \in Nodes
                BY DEF TopAt, ThreadsFit, ThreadFits, HoldsFit, Nodes
            <4> QED
                BY <2>4, <4>1, <4>2
        <3> QED
            BY <3>1, <3>2, <3>3, CutsKept
    <2>10. "grabbed" \in States
        BY DEF States
    <2>11. parent' \in [Nodes -> Nodes \cup {None}]
        BY <1>5 DEF Types
    <2> QED
        BY <1>3, <1>5, <2>2, <2>3, <2>5, <2>6, <2>7, <2>9, <2>10, <2>11, StateMove DEF Types
<1> QED
    BY <1>2, <1>4, <1>5 DEF CutOff

-----------------------------------------------------------------------------
(* Steps that enter or leave a call.                                       *)

LEMMA StartWaitKeeps ==
    ASSUME TInv, NEW t \in AllThreads, StartWait(t) PROVE TInv'
<1> USE DEF TInv
<1>1. /\ Top(t).at = "body" /\ Pushes(t, Frame(current[t], "wait", None))
      /\ waits[t] < MaxWaits /\ waits' = [waits EXCEPT ![t] = @ + 1]
      /\ UNCHANGED <<nodes, tree, queues, signalled, current, spawns>>
    BY DEF StartWait, Pushes
<1>2. UNCHANGED <<state, current>> /\ current \in [AllThreads -> Nodes \cup {None}]
    BY <1>1 DEF nodes, Types
<1>3. /\ StackOK' /\ CallsFit' /\ ThreadsFit' /\ OneExecution' /\ SameExecutions
      /\ \A u \in AllThreads :
            Top(u)' = IF u = t THEN Frame(current[t], "wait", None) ELSE Top(u)
    BY <1>1, <1>2, PushFits
<1>4. Top(t)'.at = "wait" /\ \A u \in AllThreads \ {t} : Top(u)' = Top(u)
    BY <1>3 DEF Frame
<1>5. Types'
    <2>1. waits' \in [AllThreads -> 0..MaxWaits]
        BY <1>1, TreeAssumption DEF Types
    <2> QED
        BY <1>1, <2>1 DEF Types, nodes, tree, queues
<1>6. CutsOffAlone'
    <2>1. \A u \in TopAt({"unlink_captured"}) \ {t} : state'[Held(u)] = "captured"
        BY <1>2 DEF CutsOffAlone
    <2> QED
        BY <1>4, <2>1, CutsKept DEF Ending
<1>7. \A k \in Tasks :
         /\ state'[k] = state[k] /\ references'[k] = references[k]
         /\ state[k] = "deallocated" <=> references[k] = 0
         /\ QuietlyFollows(t, k)
    <2>1. ASSUME NEW k \in Tasks
          PROVE  QuietlyFollows(t, k)
        <3>1. ~Handles(t, k) /\ ~Handles(t, k)'
            BY <1>1, <1>4 DEF Handles
        <3>2. Containers(k)' = Containers(k) /\ references'[k] = references[k]
            BY <1>1 DEF Containers, nodes, tree, queues
        <3> QED
            BY <3>1, <3>2 DEF QuietlyFollows
    <2> QED
        BY <1>1, <2>1 DEF nodes, TasksFit, TaskFits
<1>8. TasksFit'
    BY <1>3, <1>4, <1>5, <1>7, TasksGoOn
<1>9. ListsFit'
    <2>1. \A n : Executed(n)' <=> Executed(n)
        BY <1>3, SameExecutors
    <2> QED
        BY <1>1, <2>1 DEF ListsFit, ListFits, tree
<1> QED
    BY <1>3, <1>5, <1>6, <1>8, <1>9

LEMMA EndWaitKeeps ==
    ASSUME TInv, NEW t \in AllThreads, EndWait(t) PROVE TInv'
<1> USE DEF TInv
<1>1. /\ Top(t).at = "unlink" /\ state[Mine(t)] # "executed" /\ Pops(t) /\ current' = [current EXCEPT ![t] = Root]
      /\ UNCHANGED <<nodes, tree, queues, signalled, bounds>>
    BY DEF EndWait, Pops
<1>2. TopFits(t) /\ Height(t) \in Nat /\ Height(t) >= 1
    BY CallsFitTop, TopIsLast
<1>3. ~Executes(t, Height(t)) /\ Height(t) # 1 /\ t = User
    BY <1>1, <1>2 DEF TopFits, ExecutionFits, Unlinking, Waiting
<1>4. Types'
    <2>1. current' \in [AllThreads -> Nodes \cup {None}]
        BY <1>1 DEF Types, Nodes
    <2> QED
        BY <1>1, <2>1, TypesKept DEF tree, Types
<1>5. \A u \in AllThreads : \/ current'[u] = current[u]
                            \/ u = t /\ t = User /\ current'[u] = Root
    BY <1>1, <1>3 DEF Types
<1> QED
    BY <1>1, <1>2, <1>3, <1>4, <1>5, WaitReturns DEF tree, Handling

LEMMA ReleaseKeeps ==
    ASSUME TInv, NEW t \in AllThreads, Release(t) PROVE TInv'
<1> USE DEF TInv
<1>1. /\ Top(t).at = "unlink" /\ children[Mine(t)] = <<>> /\ state[Mine(t)] = "executed"
      /\ DropReference(Mine(t)) /\ Pops(t)
      /\ UNCHANGED <<parent, tree, queues, signalled, current, bounds>>
    BY DEF Release, Pops
<1>2. TopFits(t) /\ Height(t) \in Nat /\ Height(t) >= 1 /\ Height(t) \in Calls(t) /\ Top(t) = At(t, Height(t))
    BY CallsFitTop, TopIsLast
\* A wait for a task that is still in its body: not one that is executed.
<1>3. Executes(t, Height(t)) /\ Height(t) # 1 /\ Mine(t) \in Tasks
    <2>1. CASE ~Executes(t, Height(t))
        <3>1. Height(t) # 1 /\ Mine(t) # None
            BY <1>1, <1>2, <2>1 DEF TopFits
        <3>2. CASE Mine(t) = Root
            BY <1>1, <3>2 DEF Types
        <3>3. CASE Mine(t) \in Tasks
            <4>1. PICK e \in 1..(Height(t) - 1) : Executes(t, e) /\ At(t, e).task = Mine(t)
                BY <1>2, <2>1, <3>1, <3>3 DEF TopFits
            <4>2. e \in Calls(t) /\ e # Height(t)
                BY <1>2, <4>1 DEF Calls
            <4>3. CallFits(t, e)
                BY <4>2 DEF CallsFit
            <4> QED
                BY <1>1, <4>1, <4>2, <4>3 DEF CallFits, ExecutionFits, Running, Ending, Unlinking
        <3>4. Mine(t) \in Nodes \cup {None}
            BY TopIsLast DEF FrameType, Mine
        <3> QED
            BY <3>1, <3>2, <3>3, <3>4 DEF Nodes
    <2>2. CASE Executes(t, Height(t))
        BY <1>1, <1>2, <2>2 DEF TopFits
    <2> QED
        BY <2>1, <2>2
<1>4. PICK k \in Tasks : k = Mine(t)
    BY <1>3
<1>5. k \in Nodes /\ k # Root
    BY TreeAssumption DEF Nodes
<1>6. /\ references' = [references EXCEPT ![k] = @ - 1]
      /\ state' = IF references[k] = 1 THEN [state EXCEPT ![k] = "deallocated"] ELSE state
    BY <1>1, <1>4 DEF DropReference
<1>7. \A n \in Nodes : state'[n] # state[n] => n = k
    BY <1>6 DEF Types
<1>8. OthersFit(t)
    <2>1. ASSUME NEW u \in AllThreads, NEW d \in Calls(u), Executes(u, d), ~(u = t /\ d = Height(t))
          PROVE  ExecutionFits(state'[At(u, d).task], At(u, d).at)
        <3>1. CallFits(u, d)
            BY DEF CallsFit
        <3>2. At(u, d).task \in Nodes /\ ExecutionFits(state[At(u, d).task], At(u, d).at)
            BY <2>1, <3>1 DEF CallFits, Nodes
        <3>3. At(u, d).task # k
            BY <1>2, <1>3, <1>4, <2>1 DEF OneExecution, Mine
        <3> QED
            BY <1>7, <3>2, <3>3
    <2> QED
        BY <2>1 DEF OthersFit
<1>9. /\ StackOK' /\ CallsFit' /\ ThreadsFit' /\ OneExecution'
      /\ \A u \in AllThreads : \A n :
            ExecutedBy(u, n)' <=> /\ ExecutedBy(u, n)
                                  /\ ~(u = t /\ Executes(t, Height(t)) /\ n = Mine(t))
      /\ \A u \in AllThreads \ {t} : Top(u)' = Top(u)
      /\ Top(t)'.at \in {"body", "after_child"}
    BY <1>1, <1>2, <1>3, <1>8, PopFits
<1>10. ExecutedBy(t, k) /\ \A u \in AllThreads : ExecutedBy(u, k) => u = t
    BY <1>2, <1>3, <1>4 DEF ExecutedBy, OneExecution, Mine
<1>11. \A u \in AllThreads : \A n : ExecutedBy(u, n)' <=> ExecutedBy(u, n) /\ n # k
    BY <1>3, <1>4, <1>9, <1>10
<1>12. ~Executed(k)' /\ \A n : n # k => (Executed(n)' <=> Executed(n))
    BY <1>11 DEF Executed
<1>13. \A j \in Tasks : Executions(j) = (IF state[j] = "allocated" \/ Executed(j) THEN 1 ELSE 0)
                        /\ Executions(j)' = (IF state'[j] = "allocated" \/ Executed(j)' THEN 1 ELSE 0)
    BY <1>9, ExecutionsAre, ExecutionsAreNext DEF ExecutionsAreRight
<1>14. references[k] >= 1 /\ references[k] \in 0..4
    <2>1. Executions(k) = 1
        BY <1>10, <1>13 DEF Executed
    <2>2. /\ references[k] \in 0..4 /\ Containers(k) \in Nat
          /\ references[k] = Containers(k) + Cardinality(Handlers(k)) + Executions(k)
        BY CountsAreNat
    <2>3. Cardinality(Handlers(k)) \in Nat
        <3>1. Handlers(k) \in SUBSET AllThreads
            BY DEF Handlers, TopAt
        <3> QED
            BY <3>1, ThreadsAreFinite
    <2> QED
        BY <2>1, <2>2, <2>3
<1>15. Types'
    <2>1. references' \in [Nodes -> 0..4]
        <3>1. references[k] - 1 \in 0..4
            BY <1>14
        <3> QED
            BY <1>5, <1>6, <3>1 DEF Types
    <2>2. state' \in [Nodes -> States] /\ state'[Root] = "grabbed"
        BY <1>5, <1>6 DEF Types, States, Nodes
    <2> QED
        BY <1>1, <2>1, <2>2 DEF Types, tree, queues, bounds
<1>16. CutsOffAlone'
    <2>1. ASSUME NEW u \in TopAt({"unlink_captured"}) \ {t} PROVE state'[Held(u)] = "captured"
        <3>1. state[Held(u)] = "captured"
            BY DEF CutsOffAlone
        <3>2. Held(u) \in Nodes
            BY DEF TopAt, ThreadsFit, ThreadFits, HoldsFit, Nodes
        <3> QED
            BY <1>1, <1>4, <1>7, <3>1, <3>2
    <2> QED
        BY <1>9, <2>1, CutsKept DEF Ending
<1>17. ASSUME NEW j \in Tasks
       PROVE  TaskFits(j)'
    <2>1. j \in Nodes /\ TaskFits(j)
        BY DEF Nodes, TasksFit
    <2>2. references[j] \in Nat /\ Containers(j) \in Nat /\ (state[j] = "deallocated" <=> references[j] = 0)
        BY CountsAreNat
    <2>3. Containers(j)' = Containers(j)
        BY <1>1 DEF Containers, tree, queues
    <2>4. ~Handles(t, j) /\ ~Handles(t, j)'
        BY <1>1, <1>9 DEF Handles
    <2>5. CASE j = k
        <3>1. references'[j] = references[j] - 1
            BY <1>5, <1>6, <2>5 DEF Types
        <3>2. state'[j] = IF references[j] = 1 THEN "deallocated" ELSE "executed"
            BY <1>1, <1>4, <1>5, <1>6, <2>5 DEF Types
        <3>3. Executions(j) = 1 /\ Executions(j)' = 0
            BY <1>10, <1>12, <1>13, <2>5, <3>2 DEF Executed
        <3>4. ReferencesFollow(t, j)
            BY <2>2, <2>3, <2>4, <3>1, <3>3 DEF ReferencesFollow
        <3>5. state'[j] = "deallocated" <=> references'[j] = 0
            BY <2>2, <3>1, <3>2
        <3> QED
            BY <1>9, <1>15, <2>1, <3>2, <3>4, <3>5, TaskGoesOn
    <2>6. CASE j # k
        <3>1. references'[j] = references[j] /\ state'[j] = state[j]
            BY <1>6, <1>7, <2>1, <2>6 DEF Types
        <3>2. Executions(j)' = Executions(j)
            BY <1>12, <1>13, <2>6, <3>1
        <3>3. ReferencesFollow(t, j)
            BY <2>3, <2>4, <3>1, <3>2 DEF ReferencesFollow
        <3>4. state'[j] \in {"grabbed", "captured"} => Executed(j)'
            BY <1>12, <2>1, <2>6, <3>1 DEF TaskFits
        <3> QED
            BY <1>9, <1>15, <2>1, <2>2, <3>1, <3>3, <3>4, TaskGoesOn
    <2> QED
        BY <2>5, <2>6
<1>18. ListsFit'
    BY <1>1, <1>4, <1>12 DEF ListsFit, ListFits, tree
<1> QED
    BY <1>9, <1>15, <1>16, <1>17, <1>18 DEF TasksFit

LEMMA TryGrabKeeps ==
    ASSUME TInv, NEW t \in AllThreads, TryGrab(t) PROVE TInv'
<1> USE DEF TInv
<1>1. Top(t).at = "try_grab" /\ UNCHANGED <<parent, tree, queues, signalled, bounds>>
    BY DEF TryGrab
<1>2. PICK k \in Tasks : k = Held(t)
    BY <1>1 DEF ThreadsFit, ThreadFits, HoldsFit
<1>3. CASE /\ ~Grabbable(k) /\ DropReference(k)
           /\ Goes(t, "try_grab", IF Mine(t) = None THEN "idle" ELSE "children", None)
           /\ UNCHANGED current
    BY <1>1, <1>2, <1>3, DropMove
<1>4. CASE /\ state[k] = "allocated"
           /\ state' = [state EXCEPT ![k] = "grabbed"]
           /\ references' = [references EXCEPT ![k] = @ - 1]
           /\ current' = [current EXCEPT ![t] = k]
           /\ CallsFrom(t, Frame(Mine(t), "after_child", None), Frame(k, "body", None))
    <2>1. k \in Nodes /\ k # Root
        BY TreeAssumption DEF Nodes
    <2>2. /\ StackOK' /\ CallsFit' /\ ThreadsFit' /\ OneExecution'
          /\ \A u \in AllThreads : \A n : ExecutedBy(u, n)' <=> ExecutedBy(u, n) \/ (u = t /\ n = k)
          /\ \A u \in AllThreads : Top(u)' = IF u = t THEN Frame(k, "body", None) ELSE Top(u)
        BY <1>1, <1>4, EnterFits DEF Types
    <2>3. Top(t)'.at = "body" /\ \A u \in AllThreads \ {t} : Top(u)' = Top(u)
        BY <2>2 DEF Frame
    <2>4. Handles(t, k) /\ \A j \in Tasks : Handles(t, j) <=> j = k
        BY <1>1, <1>2 DEF Handles
    <2>5. references[k] >= 1 /\ references[k] # 1
        BY <1>4, <2>4, LastReference
    <2>6. \A n : Executed(n)' <=> Executed(n) \/ n = k
        BY <2>2 DEF Executed
    <2>7. \A j \in Tasks : Executions(j) = (IF state[j] = "allocated" \/ Executed(j) THEN 1 ELSE 0)
                           /\ Executions(j)' = (IF state'[j] = "allocated" \/ Executed(j)' THEN 1 ELSE 0)
        BY <2>2, ExecutionsAre, ExecutionsAreNext DEF ExecutionsAreRight
    <2>8. Types'
        <3>1. references[k] \in 0..4
            BY <2>1 DEF Types
        <3>2. references' \in [Nodes -> 0..4]
            BY <1>4, <2>1, <2>5, <3>1 DEF Types
        <3>3. state' \in [Nodes -> States] /\ state'[Root] = "grabbed"
            BY <1>4, <2>1 DEF Types, States, Nodes
        <3>4. current' \in [AllThreads -> Nodes \cup {None}]
            BY <1>4, <2>1 DEF Types
        <3> QED
            BY <1>1, <3>2, <3>3, <3>4 DEF Types, tree, queues, bounds
    <2>9. CutsOffAlone'
        <3>1. ASSUME NEW u \in TopAt({"unlink_captured"}) \ {t} PROVE state'[Held(u)] = "captured"
            <4>1. state[Held(u)] = "captured"
                BY DEF CutsOffAlone
            <4>2. Held(u) \in Nodes
                BY DEF TopAt, ThreadsFit, ThreadFits, HoldsFit, Nodes
            <4> QED
                BY <1>4, <4>1, <4>2 DEF Types
        <3> QED
            BY <2>3, <3>1, CutsKept DEF Ending
    <2>10. ASSUME NEW j \in Tasks
           PROVE  TaskFits(j)'
        <3>1. j \in Nodes /\ TaskFits(j)
            BY DEF Nodes, TasksFit
        <3>2. references[j] \in Nat /\ Containers(j) \in Nat /\ (state[j] = "deallocated" <=> references[j] = 0)
            BY CountsAreNat
        <3>3. Containers(j)' = Containers(j)
            BY <1>1 DEF Containers, tree, queues
        <3>4. ~Handles(t, j)' /\ (Handles(t, j) <=> j = k)
            BY <2>3, <2>4 DEF Handles
        <3>5. CASE j = k
            <4>1. references'[j] = references[j] - 1 /\ state'[j] = "grabbed"
                BY <1>4, <2>1, <3>5 DEF Types
            <4>2. Executed(j)' /\ Executions(j) = 1 /\ Executions(j)' = 1
                BY <1>4, <2>6, <2>7, <3>5
            <4>3. ReferencesFollow(t, j)
                BY <3>2, <3>3, <3>4, <3>5, <4>1, <4>2 DEF ReferencesFollow
            <4>4. state'[j] = "deallocated" <=> references'[j] = 0
                BY <2>5, <3>2, <3>5, <4>1
            <4> QED
                BY <2>3, <2>8, <3>1, <4>2, <4>3, <4>4, TaskGoesOn
        <3>6. CASE j # k
            <4>1. references'[j] = references[j] /\ state'[j] = state[j]
                BY <1>4, <3>1, <3>6 DEF Types
            <4>2. Executions(j)' = Executions(j) /\ (Executed(j)' <=> Executed(j))
                BY <2>6, <2>7, <3>6, <4>1
            <4>3. ReferencesFollow(t, j)
                BY <3>3, <3>4, <3>6, <4>1, <4>2 DEF ReferencesFollow
            <4>4. state'[j] \in {"grabbed", "captured"} => Executed(j)'
                BY <3>1, <4>1, <4>2 DEF TaskFits
            <4> QED
                BY <2>3, <2>8, <3>1, <3>2, <4>1, <4>3, <4>4, TaskGoesOn
        <3> QED
            BY <3>5, <3>6
    <2>11. ListsFit'
        BY <1>1, <2>6 DEF ListsFit, ListFits, tree
    <2> QED
        BY <2>2, <2>8, <2>9, <2>10, <2>11 DEF TasksFit
<1> QED
    BY <1>2, <1>3, <1>4 DEF TryGrab, Grabbable, CallsFrom

-----------------------------------------------------------------------------
(* A task is spawned.                                                      *)

\* What the allocator hands out is nowhere.
LEMMA FreeTask ==
    ASSUME TInv, NEW k \in Tasks, state[k] = "deallocated"
    PROVE  /\ Count(k, pendingTasks) = 0 /\ Count(k, typeTasks) = 0
           /\ Lists(k) = {} /\ Handlers(k) = {} /\ ~Executed(k) /\ children[k] = <<>>
<1> USE DEF TInv
<1>1. Lists(k) \in SUBSET Nodes /\ Handlers(k) \in SUBSET AllThreads
    BY DEF Lists, Handlers, TopAt
<1>2. /\ IsFiniteSet(Lists(k)) /\ Cardinality(Lists(k)) \in Nat
      /\ IsFiniteSet(Handlers(k)) /\ Cardinality(Handlers(k)) \in Nat
    BY <1>1, ListsAreFinite, ThreadsAreFinite
<1>3. /\ Count(k, pendingTasks) \in Nat /\ Count(k, typeTasks) \in Nat
      /\ Containers(k) = Count(k, pendingTasks) + Count(k, typeTasks) + Cardinality(Lists(k))
      /\ Containers(k) + Cardinality(Handlers(k)) + Executions(k) = 0 /\ Executions(k) \in 0..1
    BY CountsAreNat
<1>4. /\ Count(k, pendingTasks) = 0 /\ Count(k, typeTasks) = 0
      /\ Cardinality(Lists(k)) = 0 /\ Cardinality(Handlers(k)) = 0
    <2>1. PICK a \in Nat, b \in Nat, c \in Nat, h \in Nat, e \in Nat :
             /\ a = Count(k, pendingTasks) /\ b = Count(k, typeTasks) /\ c = Cardinality(Lists(k))
             /\ h = Cardinality(Handlers(k)) /\ e = Executions(k)
        BY <1>2, <1>3
    <2>2. (a + b + c) + h + e = 0
        BY <1>3, <2>1
    <2>3. a = 0 /\ b = 0 /\ c = 0 /\ h = 0
        BY <2>2
    <2> QED
        BY <2>1, <2>3
<1>5. Lists(k) = {} /\ Handlers(k) = {}
    BY <1>2, <1>4, FS_EmptySet
<1>6. ~Executed(k)
    BY ExecutedState
<1>7. children[k] = <<>>
    BY <1>6, TreeAssumption DEF ListsFit, ListFits, Nodes
<1> QED
    BY <1>4, <1>5, <1>6, <1>7

\* It is put in the queue of all tasks and in the list of its parent.
LEMMA ListsGrow ==
    ASSUME TInv, NEW p \in Nodes, NEW k \in Tasks, p # k, state[k] = "deallocated",
           children' = [children EXCEPT ![k] = <<>>, ![p] = Append(@, k)],
           pendingTasks' = Append(pendingTasks, k), typeTasks' = typeTasks
    PROVE  /\ children' \in [Nodes -> Seq(Tasks)] /\ pendingTasks' \in Seq(Tasks)
           /\ \A n \in Nodes : IsList(children'[n]) /\ (children'[n] # <<>> => children[n] # <<>> \/ n = p)
           /\ \A j \in Tasks : Containers(j)' = Containers(j) + IF j = k THEN 2 ELSE 0
           /\ Containers(k) = 0
<1> USE DEF TInv
<1>1. /\ Count(k, pendingTasks) = 0 /\ Count(k, typeTasks) = 0
      /\ Lists(k) = {} /\ children[k] = <<>>
    BY FreeTask
<1>2. k \in Nodes /\ pendingTasks \in Seq(Tasks) /\ typeTasks \in Seq(Tasks)
    BY DEF Nodes, Types
<1>3. PICK s \in Seq(Tasks) : s = children[p]
    BY DEF Types
<1>4. IsList(s) /\ k \notin Range(s)
    BY <1>1, <1>3 DEF ListsFit, ListFits, Lists
<1>5. PICK r : r = Append(s, k)
    OBVIOUS
<1>6. r \in Seq(Tasks) /\ IsList(r) /\ \A j : j \in Range(r) <=> j \in Range(s) \/ j = k
    BY <1>4, <1>5, ListAppend
<1>7. children'[p] = r /\ \A n \in Nodes \ {p} : children'[n] = children[n]
    BY <1>1, <1>2, <1>3, <1>5 DEF Types
<1>8. children' \in [Nodes -> Seq(Tasks)]
    <2>1. DOMAIN children' = Nodes /\ children' = [n \in Nodes |-> children'[n]]
        BY DEF Types
    <2>2. \A n \in Nodes : children'[n] \in Seq(Tasks)
        BY <1>6, <1>7 DEF Types
    <2> QED
        BY <2>1, <2>2
<1>9. \A n \in Nodes : IsList(children'[n]) /\ (children'[n] # <<>> => children[n] # <<>> \/ n = p)
    BY <1>6, <1>7 DEF ListsFit, ListFits
<1>10. ASSUME NEW j \in Tasks
       PROVE  Cardinality(Lists(j)') = Cardinality(Lists(j)) + IF j = k THEN 1 ELSE 0
    <2>1. CASE j = k
        <3>1. Lists(j)' = {p}
            BY <1>1, <1>6, <1>7, <2>1 DEF Lists
        <3>2. Cardinality({p}) = 1 /\ Cardinality(Lists(j)) = 0
            BY <1>1, <2>1, FS_Singleton, FS_EmptySet
        <3> QED
            BY <2>1, <3>1, <3>2
    <2>2. CASE j # k
        <3>1. Lists(j)' = Lists(j)
            BY <1>3, <1>6, <1>7, <2>2 DEF Lists
        <3>2. Cardinality(Lists(j)) \in Nat
            BY CountsAreNat
        <3> QED
            BY <2>2, <3>1, <3>2
    <2> QED
        BY <2>1, <2>2
<1>11. ASSUME NEW j \in Tasks
       PROVE  Containers(j)' = Containers(j) + IF j = k THEN 2 ELSE 0
    <2>1. Containers(j)' = Count(j, pendingTasks') + Count(j, typeTasks') + Cardinality(Lists(j)')
        BY DEF Containers, Lists
    <2>2. Count(j, pendingTasks') = Count(j, pendingTasks) + IF k = j THEN 1 ELSE 0
        BY <1>2, CountAppend
    <2>3. /\ Count(j, pendingTasks) \in Nat /\ Count(j, typeTasks) \in Nat /\ Cardinality(Lists(j)) \in Nat
          /\ Containers(j) = Count(j, pendingTasks) + Count(j, typeTasks) + Cardinality(Lists(j))
        BY CountsAreNat
    <2> QED
        BY <1>10, <2>1, <2>2, <2>3
<1>12. Containers(k) = 0
    <2>1. Containers(k) = Count(k, pendingTasks) + Count(k, typeTasks) + Cardinality(Lists(k))
        BY CountsAreNat
    <2> QED
        BY <1>1, <2>1, FS_EmptySet
<1>13. pendingTasks' \in Seq(Tasks)
    BY <1>2
<1> QED
    BY <1>8, <1>9, <1>11, <1>12, <1>13

LEMMA CreateKeeps ==
    ASSUME TInv, NEW t \in AllThreads, NEW k \in Tasks, NEW from \in {"body", "collected"},
           Create(t, from, k), spawns' \in 0..MaxSpawns
    PROVE  TInv'
<1> USE DEF TInv
<1>1. /\ current[t] # None
      /\ state[k] = "deallocated" /\ Goes(t, from, "push_type", k) /\ Top(t).at = from
      /\ state' = [state EXCEPT ![k] = "allocated"] /\ references' = [references EXCEPT ![k] = 4]
    BY DEF Create, Goes
<1>2. UNCHANGED <<typeTasks, signalled, current, waits>>
    BY DEF Create
<1>3. PICK p \in Nodes : p = current[t]
    BY <1>1 DEF Types
<1>4. k \in Nodes /\ k # Root
    BY TreeAssumption DEF Nodes
<1>5. \A n : Executed(n) => n # k
    BY <1>1, ExecutedState
<1>6. p = Root \/ Executed(p)
    BY <1>3 DEF ThreadsFit, ThreadFits, Executed, ExecutedBy, Nodes
<1>7. p # k
    BY <1>4, <1>5, <1>6
<1>8. /\ children' = [children EXCEPT ![k] = <<>>, ![p] = Append(@, k)]
      /\ parent' = [parent EXCEPT ![k] = p]
      /\ counter' = [counter EXCEPT ![k] = 0, ![p] = @ + 1]
      /\ waiter' = [waiter EXCEPT ![k] = None]
      /\ pendingTasks' = Append(pendingTasks, k)
    BY <1>3 DEF Create
<1>9. /\ children' \in [Nodes -> Seq(Tasks)] /\ pendingTasks' \in Seq(Tasks)
      /\ \A n \in Nodes : IsList(children'[n]) /\ (children'[n] # <<>> => children[n] # <<>> \/ n = p)
      /\ \A j \in Tasks : Containers(j)' = Containers(j) + IF j = k THEN 2 ELSE 0
      /\ Containers(k) = 0
    BY <1>1, <1>2, <1>7, <1>8, ListsGrow
<1>10. state'[k] = "allocated" /\ \A n \in Nodes \ {k} : state'[n] = state[n]
    BY <1>1, <1>4 DEF Types
<1>11. Types'
    <2>1. state' \in [Nodes -> States] /\ state'[Root] = "grabbed"
        BY <1>1, <1>4 DEF Types, States, Nodes
    <2>2. references' \in [Nodes -> 0..4]
        BY <1>1, <1>4 DEF Types
    <2>3. parent' \in [Nodes -> Nodes \cup {None}] /\ waiter' \in [Nodes -> AllThreads \cup {None}]
        BY <1>4, <1>8 DEF Types
    <2>4. counter' \in [Nodes -> Int]
        <3>1. counter \in [Nodes -> Int]
            BY DEF Types
        <3> QED
            BY <1>4, <1>7, <1>8, <3>1
    <2> QED
        BY <1>2, <1>9, <2>1, <2>2, <2>3, <2>4 DEF Types
<1>12. MayGoTo(t, "push_type") /\ "push_type" \in Places
    <2>1. TopFits(t)
        BY CallsFitTop
    <2>2. Executes(t, Height(t))
        BY <1>1, <2>1 DEF TopFits, Waiting, Unlinking
    <2>3. Executed(Mine(t)) /\ Mine(t) \in Nodes
        BY <2>1, <2>2, TopIsLast DEF Executed, ExecutedBy, Mine, TopFits, Nodes
    <2>4. state'[Mine(t)] = state[Mine(t)]
        BY <1>5, <1>10, <2>3
    <2> QED
        BY <1>1, <2>1, <2>2, <2>4 DEF TopFits, MayGoTo, ExecutionFits, Running, Ending, Unlinking, Places
<1>13. HoldsFit("push_type", k)
    BY DEF HoldsFit
<1>14. OthersFit(t)
    <2>1. ASSUME NEW u \in AllThreads, NEW d \in Calls(u), Executes(u, d)
          PROVE  ExecutionFits(state'[At(u, d).task], At(u, d).at)
        <3>1. CallFits(u, d)
            BY DEF CallsFit
        <3>2. At(u, d).task \in Nodes /\ ExecutionFits(state[At(u, d).task], At(u, d).at)
            BY <2>1, <3>1 DEF CallFits, Nodes
        <3>3. Executed(At(u, d).task)
            BY <2>1 DEF Executed, ExecutedBy
        <3> QED
            BY <1>5, <1>10, <3>2, <3>3
    <2> QED
        BY <2>1 DEF OthersFit
<1>15. CurrentFits(t, "push_type")
    BY <1>2, CurrentStays
<1>16. /\ StackOK' /\ CallsFit' /\ ThreadsFit' /\ OneExecution' /\ SameExecutions
       /\ \A u \in AllThreads :
             /\ Top(u)' = IF u = t THEN Frame(Mine(t), "push_type", k) ELSE Top(u)
             /\ Mine(u)' = Mine(u)
    BY <1>1, <1>4, <1>12, <1>13, <1>14, <1>15, MoveFits
<1>17. /\ Top(t)'.at = "push_type" /\ Held(t)' = k
       /\ \A u \in AllThreads \ {t} : Top(u)' = Top(u)
    BY <1>16 DEF Frame, Held
<1>18. \A n : Executed(n)' <=> Executed(n)
    BY <1>16, SameExecutors
<1>19. \A j \in Tasks : Executions(j) = (IF state[j] = "allocated" \/ Executed(j) THEN 1 ELSE 0)
                        /\ Executions(j)' = (IF state'[j] = "allocated" \/ Executed(j)' THEN 1 ELSE 0)
    BY <1>16, ExecutionsAre, ExecutionsAreNext DEF ExecutionsAreRight
<1>20. CutsOffAlone'
    <2>1. ASSUME NEW u \in TopAt({"unlink_captured"}) \ {t} PROVE state'[Held(u)] = "captured"
        <3>1. state[Held(u)] = "captured"
            BY DEF CutsOffAlone
        <3>2. Held(u) \in Nodes
            BY DEF TopAt, ThreadsFit, ThreadFits, HoldsFit, Nodes
        <3> QED
            BY <1>1, <1>10, <3>1, <3>2
    <2> QED
        BY <1>17, <2>1, CutsKept DEF Ending
<1>21. ASSUME NEW j \in Tasks
       PROVE  TaskFits(j)'
    <2>1. j \in Nodes /\ TaskFits(j)
        BY DEF Nodes, TasksFit
    <2>2. references[j] \in Nat /\ Containers(j) \in Nat /\ (state[j] = "deallocated" <=> references[j] = 0)
        BY CountsAreNat
    <2>3. ~Handles(t, j) /\ (Handles(t, j)' <=> j = k)
        BY <1>1, <1>17 DEF Handles
    <2>4. CASE j = k
        <3>1. references'[j] = 4 /\ state'[j] = "allocated" /\ references[j] = 0
            BY <1>1, <1>4, <2>2, <2>4 DEF Types
        <3>2. Containers(j)' = 2 /\ Containers(j) = 0
            BY <1>9, <2>4
        <3>3. Executions(j) = 0 /\ Executions(j)' = 1
            BY <1>1, <1>5, <1>19, <2>4, <3>1
        <3>4. ReferencesFollow(t, j)
            BY <2>3, <2>4, <3>1, <3>2, <3>3 DEF ReferencesFollow
        <3> QED
            BY <1>11, <1>17, <2>1, <3>1, <3>4, TaskGoesOn
    <2>5. CASE j # k
        <3>1. references'[j] = references[j] /\ state'[j] = state[j]
            BY <1>1, <2>1, <2>5 DEF Types
        <3>2. Executions(j)' = Executions(j) /\ Containers(j)' = Containers(j)
            BY <1>9, <1>18, <1>19, <2>2, <2>5, <3>1
        <3>3. ReferencesFollow(t, j)
            BY <2>3, <2>5, <3>1, <3>2 DEF ReferencesFollow
        <3>4. state'[j] \in {"grabbed", "captured"} => Executed(j)'
            BY <1>18, <2>1, <3>1 DEF TaskFits
        <3> QED
            BY <1>11, <1>17, <2>1, <2>2, <3>1, <3>3, <3>4, TaskGoesOn
    <2> QED
        BY <2>4, <2>5
<1>22. ListsFit'
    BY <1>6, <1>9, <1>18 DEF ListsFit, ListFits
<1> QED
    BY <1>11, <1>16, <1>20, <1>21, <1>22 DEF TasksFit

LEMMA SpawnKeeps ==
    ASSUME TInv, NEW t \in AllThreads, NEW k \in Tasks, Spawn(t, k) PROVE TInv'
<1>1. Create(t, "body", k) /\ spawns' = spawns + 1 /\ spawns < MaxSpawns
    BY DEF Spawn, MaySpawn
<1>2. spawns' \in 0..MaxSpawns
    BY <1>1, TreeAssumption DEF TInv, Types
<1> QED
    BY <1>1, <1>2, CreateKeeps

LEMMA AllocateAgainKeeps ==
    ASSUME TInv, NEW t \in AllThreads, AllocateAgain(t) PROVE TInv'
<1>1. PICK k \in Tasks : Create(t, "collected", k)
    BY DEF AllocateAgain
<1>2. spawns' \in 0..MaxSpawns
    BY DEF AllocateAgain, TInv, Types
<1> QED
    BY <1>1, <1>2, CreateKeeps

-----------------------------------------------------------------------------
(* The theorems.                                                           *)

LEMMA TaskTreeInit == Init => TInv
<1> SUFFICES ASSUME Init PROVE TInv
    OBVIOUS
<1> USE TreeAssumption DEF Init
<1>1. Types
    BY DEF Types, States, Nodes, AllThreads
<1>2. \A t \in AllThreads : stack[t] = IF t = User THEN <<Frame(Root, "body", None)>>
                                                   ELSE <<Frame(None, "idle", None)>>
    OBVIOUS
<1>3. Frame(Root, "body", None) \in FrameType /\ Frame(None, "idle", None) \in FrameType
    BY DEF Frame, FrameType, Places, Running, Nodes
<1>4. \A f \in FrameType : <<f>> \in Seq(FrameType) /\ Len(<<f>>) = 1 /\ Head(<<f>>) = f /\ Nth(<<f>>, 1) = f
    BY DEF Nth
<1>5. StackOK
    <2>1. \A t \in AllThreads : stack[t] \in Seq(FrameType) /\ Len(stack[t]) = 1
        BY <1>2, <1>3, <1>4
    <2>2. stack \in [AllThreads -> Seq(FrameType)]
        BY <2>1
    <2> QED
        BY <2>1, <2>2 DEF StackOK, Height
<1>6. \A t \in AllThreads :
         /\ Calls(t) = {1} /\ Height(t) = 1 /\ Top(t) = At(t, 1)
         /\ At(t, 1) = IF t = User THEN Frame(Root, "body", None) ELSE Frame(None, "idle", None)
    <2>1. ASSUME NEW t \in AllThreads, NEW f \in FrameType, stack[t] = <<f>>
          PROVE  Calls(t) = {1} /\ Height(t) = 1 /\ Top(t) = f /\ At(t, 1) = f
        BY <1>4, <2>1 DEF Calls, Height, Top, At
    <2> QED
        BY <1>2, <1>3, <2>1
<1>7. \A t \in AllThreads : Executes(t, 1) <=> t = User
    BY DEF Executes
<1>8. state[Root] = "grabbed"
    BY DEF Nodes
<1>9. CallsFit
    <2>1. ASSUME NEW t \in AllThreads PROVE CallFits(t, 1)
        <3>1. CASE t = User
            BY <1>6, <1>7, <1>8, <3>1 DEF CallFits, ExecutionFits, Frame, Running, Ending, Unlinking
        <3>2. CASE t # User
            BY <1>6, <1>7, <3>2 DEF CallFits, Frame
        <3> QED
            BY <3>1, <3>2
    <2> QED
        BY <1>6, <2>1 DEF CallsFit
<1>10. ThreadsFit
    BY <1>6 DEF ThreadsFit, ThreadFits, HoldsFit, Held, Frame, Nodes
<1>11. OneExecution
    BY <1>6, <1>7 DEF OneExecution
<1>12. CutsOffAlone
    BY <1>6 DEF CutsOffAlone, TopAt, Frame
<1>13. ASSUME NEW n \in Nodes PROVE ListFits(n)
    BY DEF ListFits, IsList
<1>14. ASSUME NEW k \in Tasks PROVE TaskFits(k)
    <2>1. state[k] = "deallocated" /\ references[k] = 0 /\ k \in Nodes
        BY DEF Nodes
    <2>2. ~Executed(k)
        BY <1>5, <1>9, <2>1, ExecutedState
    <2>3. Executions(k) = 0
        BY <1>5, <1>9, <2>1, <2>2, ExecutionsAre DEF ExecutionsAreRight
    <2>4. Handlers(k) = {}
        BY <1>6 DEF Handlers, TopAt, Frame
    <2>5. Count(k, pendingTasks) = 0 /\ Count(k, typeTasks) = 0
        <3>1. {i \in DOMAIN <<>> : <<>>[i] = k} = {}
            OBVIOUS
        <3> QED
            BY <3>1, FS_EmptySet DEF Count
    <2>6. {n \in Nodes : k \in Range(children[n])} = {}
        BY DEF Range
    <2>7. Containers(k) = 0 /\ Cardinality(Handlers(k)) = 0
        <3>1. Cardinality({}) = 0
            BY FS_EmptySet
        <3>2. Cardinality({n \in Nodes : k \in Range(children[n])}) = 0
            BY <2>6, <3>1
        <3>3. Containers(k) = 0
            BY <2>5, <3>2 DEF Containers
        <3> QED
            BY <2>4, <3>1, <3>3
    <2> QED
        BY <2>1, <2>3, <2>7 DEF TaskFits
<1> QED
    BY <1>1, <1>5, <1>9, <1>10, <1>11, <1>12, <1>13, <1>14 DEF TInv, TasksFit, ListsFit

\* A step that changes nothing but stopped.
LEMMA StillKeeps == ASSUME TInv, UNCHANGED running PROVE TInv'
<1> USE DEF running, nodes, tree, queues, bounds, TInv
<1>1. Types'
    BY DEF Types
<1>2. StackOK'
    BY DEF StackOK, Height
<1>3. CallsFit'
    BY DEF CallsFit, CallFits, Calls, Height, At, Executes
<1>4. ThreadsFit'
    BY DEF ThreadsFit, ThreadFits, Top, Held, Calls, Height, At, Executes
<1>5. OneExecution'
    BY DEF OneExecution, Calls, Height, At, Executes
<1>6. CutsOffAlone'
    BY DEF CutsOffAlone, TopAt, Top, Held, Mine
<1>7. \A n : Executed(n)' <=> Executed(n)
    BY DEF Executed, ExecutedBy, Calls, Height, At, Executes
<1>8. TasksFit'
    <2>1. \A k \in Tasks : Containers(k)' = Containers(k)
        BY DEF Containers
    <2>2. \A k \in Tasks : Handlers(k)' = Handlers(k)
        BY DEF Handlers, TopAt, Top, Held
    <2>3. \A k \in Tasks : Executions(k)' = Executions(k)
        BY DEF Executions, Executors, Frames
    <2> QED
        BY <1>7, <2>1, <2>2, <2>3 DEF TasksFit, TaskFits
<1>9. ListsFit'
    BY <1>7 DEF ListsFit, ListFits
<1> QED
    BY <1>1, <1>2, <1>3, <1>4, <1>5, <1>6, <1>8, <1>9

\* No step breaks the invariant.
LEMMA TaskTreeStep == TInv /\ [Next]_vars => TInv'
<1> SUFFICES ASSUME TInv, [Next]_vars PROVE TInv'
    OBVIOUS
<1>1. CASE Next
    <2>1. PICK t \in AllThreads : \/ Stop(t) \/ Move(t) \/ StartWait(t) \/ StartCollecting(t)
                                  \/ \E k \in Tasks : Spawn(t, k)
        BY <1>1 DEF Next, Run, Decide
    <2>2. CASE Move(t)
        BY <2>2, CollectPendingKeeps, CollectTypedKeeps, DropCollectedKeeps, AllocateAgainKeeps,
           PushTypeKeeps, PopQueueKeeps, PopChildKeeps, TryGrabKeeps, WaitForCurrentKeeps,
           NoMoreChildrenKeeps, AfterChildKeeps, ArmKeeps, CheckKeeps, AwaitKeeps, DisarmKeeps,
           ReturnKeeps, CaptureKeeps, DecrementKeeps, RecheckKeeps, LookKeeps, RereadKeeps,
           SignalKeeps, MarkKeeps, UnlinkNextKeeps, CutOffKeeps, ChildExecutedKeeps, EndWaitKeeps,
           ReleaseKeeps DEF Move
    <2>3. CASE StartWait(t)
        BY <2>3, StartWaitKeeps
    <2>4. CASE \E k \in Tasks : Spawn(t, k)
        BY <2>4, SpawnKeeps
    <2>5. CASE StartCollecting(t)
        BY <2>5, StartCollectingKeeps
    <2>6. CASE Stop(t)
        BY <2>6, StillKeeps DEF Stop
    <2> QED
        BY <2>1, <2>2, <2>3, <2>4, <2>5, <2>6
<1>2. CASE UNCHANGED vars
    BY <1>2, StillKeeps DEF vars
<1> QED
    BY <1>1, <1>2

\* Every reachable state satisfies the invariant.
THEOREM TaskTreeInvariant == Spec => []TInv
<1>1. Init => TInv
    BY TaskTreeInit
<1>2. TInv /\ [Next]_vars => TInv'
    BY TaskTreeStep
<1> QED
    BY <1>1, <1>2, PTL DEF Spec

\* Whoever pops a task from whichever of its three containers, one thread
\* executes it, and nobody before it is grabbed (try_grab of tasks_task.h).
THEOREM TaskRunsOnce == Spec => []RunsOnce
<1>1. TInv => RunsOnce
    <2> SUFFICES ASSUME TInv, NEW k \in Tasks
                 PROVE  /\ Cardinality(Executors(k)) <= 1
                        /\ state[k] \in {"allocated", "deallocated"} => Executors(k) = {}
                        /\ state[k] = "grabbed" => Executors(k) # {}
        BY DEF RunsOnce
    <2> USE DEF TInv
    <2>1. \A t \in AllThreads : t \in Executors(k) <=> ExecutedBy(t, k)
        BY ExecutorsAreExecuting DEF ExecutorsExecute
    <2>2. Executors(k) \subseteq AllThreads
        BY DEF Executors
    <2>3. Executors(k) # {} <=> Executed(k)
        BY <2>1, <2>2 DEF Executed
    <2>4. \A t, u \in Executors(k) : t = u
        BY <2>1, <2>2 DEF ExecutedBy, OneExecution
    <2>5. Cardinality(Executors(k)) <= 1
        <3>1. CASE Executors(k) = {}
            BY <3>1, FS_EmptySet
        <3>2. CASE Executors(k) # {}
            <4>1. PICK t : Executors(k) = {t}
                BY <2>4, <3>2
            <4> QED
                BY <4>1, FS_Singleton
        <3> QED
            BY <3>1, <3>2
    <2>6. state[k] \in {"allocated", "deallocated"} => Executors(k) = {}
        BY <2>3, ExecutedState
    <2>7. state[k] = "grabbed" => Executors(k) # {}
        BY <2>3 DEF TasksFit, TaskFits
    <2> QED
        BY <2>5, <2>6, <2>7
<1> QED
    BY <1>1, TaskTreeInvariant, PTL

\* A captured task belongs to the end of its execution or to the parent that
\* cuts it off (ASSERT_U of tasks_task.cpp, lines 83 and 109).
THEOREM TaskCapturedByOne == Spec => []CapturedByOne
<1>1. TInv => CapturedByOne
    <2> SUFFICES ASSUME TInv PROVE CapturedByOne
        OBVIOUS
    <2> USE DEF TInv
    <2>1. ASSUME NEW t \in TopAt(Ending)
          PROVE  state[Mine(t)] = "captured"
        <3>1. TopFits(t) /\ Top(t).at \in Ending
            BY CallsFitTop DEF TopAt, Ending
        <3> QED
            BY <3>1 DEF TopFits, ExecutionFits, Ending, Waiting, Unlinking
    <2>2. \A t \in TopAt({"unlink_captured"}) : state[Held(t)] = "captured"
        BY DEF CutsOffAlone
    <2> QED
        BY <2>1, <2>2 DEF CapturedByOne
<1> QED
    BY <1>1, TaskTreeInvariant, PTL

\* m_reference_counter counts the containers, the threads and the execution that
\* may still touch the task; it is 0 when the allocator has the task.
THEOREM TaskReferencesCountHolders == Spec => []ReferencesCountHolders
<1>1. TInv => ReferencesCountHolders
    BY DEF TInv, TasksFit, TaskFits, ReferencesCountHolders
<1> QED
    BY <1>1, TaskTreeInvariant, PTL
-----------------------------------------------------------------------------
(* The count of children: the invariant it needs besides.                  *)

\* The children of p that have not got to their decrement.
Unended(p) == {k \in Tasks : parent[k] = p /\ Unfinished(k)}

Live       == {"allocated", "grabbed", "captured"}
CuttingOff == {"unlink_child", "unlink_captured"}

\* A task that is executed keeps the count of the children it cuts off.
CounterFits(p) ==
    /\ counter[p] \in Int /\ counter[p] >= Cardinality(Unended(p)) /\ counter[p] <= Cardinality(Tasks)
    /\ state[p] \in Live => counter[p] = Cardinality(Unended(p))

CountersFit == \A p \in Nodes : CounterFits(p)

\* In the list of a task are children of it.
ListsOwn == \A p \in Nodes : \A k \in Range(children[p]) : parent[k] = p

\* A child that is unlinked is a child still, unless it was cut off, which only
\* an executed task does; whoever ends tells its parent; and a wait that has seen
\* the count at 0 has no child left to end, and no new one.
NoneAwaited(t) ==
    Top(t).at = "disarm" \/ (Top(t).at \in Unlinking /\ state[Mine(t)] # "executed")

ThreadCounts(t) ==
    /\ Top(t).at \in CuttingOff =>
          /\ Held(t) \notin Range(children[Mine(t)])
          /\ parent[Held(t)] = Mine(t) \/ (parent[Held(t)] = None /\ state[Mine(t)] = "executed")
    /\ Top(t).at = "unlink_captured" => state[Mine(t)] = "executed"
    /\ Top(t).at = "decrement" => parent[Mine(t)] = Held(t)
    /\ NoneAwaited(t) => counter[Mine(t)] = 0

ThreadsCount == \A t \in AllThreads : ThreadCounts(t)

\* The thread is in a wait for the children of p.
Awaits(t, p) == \E d \in Calls(t) : At(t, d).task = p /\ At(t, d).at \in Waiting

\* Before a task is gone, all of its children have ended or are cut off: a child
\* that has not ended is in the list, about to be unlinked, or waited for.
CutsOff(t, k, p) == Top(t).at \in CuttingOff /\ Mine(t) = p /\ Held(t) = k
Kept(k, p) ==
    \/ k \in Range(children[p])
    \/ \E t \in AllThreads : CutsOff(t, k, p) \/ Awaits(t, p)
ChildrenKept == \A p \in Tasks : \A k \in Unended(p) : Kept(k, p)

CInv == CountersFit /\ ListsOwn /\ ThreadsCount /\ ChildrenKept

-----------------------------------------------------------------------------
(* What does not change the count.                                         *)

LEMMA UnendedIsFinite ==
    ASSUME NEW S \in SUBSET Tasks
    PROVE  IsFiniteSet(S) /\ Cardinality(S) \in Nat
BY TreeAssumption, FS_Subset, FS_CardinalityType

\* A count of 0 means that no child is left.
LEMMA NoneLeft ==
    ASSUME CountersFit, NEW p \in Nodes, state[p] \in Live, counter[p] = 0
    PROVE  Unended(p) = {}
<1>1. Cardinality(Unended(p)) = 0
    BY DEF CountersFit, CounterFits
<1>2. Unended(p) \in SUBSET Tasks
    BY DEF Unended
<1> QED
    BY <1>1, <1>2, UnendedIsFinite, FS_EmptySet

\* The task a thread waits in, or the one it unlinks children of after a wait, runs.
LEMMA OuterIsLive ==
    ASSUME Types, StackOK, CallsFit, NEW t \in AllThreads, ~Executes(t, Height(t)), Mine(t) \in Nodes
    PROVE  /\ state[Mine(t)] \in {"grabbed", "captured"}
           /\ Mine(t) \in Tasks => ExecutedBy(t, Mine(t))
<1>1. CASE Mine(t) = Root
    BY <1>1, TreeAssumption DEF Types
<1>2. CASE Mine(t) \in Tasks
    <2>1. TopFits(t) /\ Height(t) \in Nat /\ Height(t) >= 1
        BY CallsFitTop, TopIsLast
    <2>2. Height(t) # 1
        BY <1>2, <2>1, TreeAssumption DEF TopFits, Nodes
    <2>3. PICK e \in 1..(Height(t) - 1) : Executes(t, e) /\ At(t, e).task = Mine(t)
        BY <1>2, <2>1, <2>2 DEF TopFits
    <2>4. e \in Calls(t) /\ e # Height(t)
        BY <2>1 DEF Calls
    <2>5. CallFits(t, e)
        BY <2>4 DEF CallsFit
    <2>6. At(t, e).at \in {"body", "after_child"}
          /\ At(t, e).at \in Running \cup Ending \cup Unlinking
          /\ ExecutionFits(state[At(t, e).task], At(t, e).at)
        BY <2>3, <2>4, <2>5 DEF CallFits
    <2>7. At(t, e).at = "body"
        BY <2>6 DEF Running, Ending, Unlinking
    <2> QED
        BY <2>3, <2>4, <2>6, <2>7 DEF ExecutionFits, Running, ExecutedBy
<1> QED
    BY <1>1, <1>2 DEF Nodes

\* A wait is for a task that runs.
LEMMA WaiterIsLive ==
    ASSUME Types, StackOK, CallsFit, NEW t \in AllThreads,
           Top(t).at \in {"children", "awoken", "disarm"}
    PROVE  /\ ~Executes(t, Height(t)) /\ Height(t) # 1
           /\ Mine(t) \in Nodes /\ state[Mine(t)] \in Live
<1>1. TopFits(t) /\ Top(t) \in FrameType
    BY CallsFitTop, TopIsLast
<1>2. ~Executes(t, Height(t)) /\ Height(t) # 1 /\ Mine(t) \in Nodes
    BY <1>1 DEF TopFits, Running, Ending, Unlinking, FrameType, Mine
<1> QED
    BY <1>2, OuterIsLive DEF Live

\* The task that a new one is the child of runs.
LEMMA CurrentIsLive ==
    ASSUME Types, CallsFit, ThreadsFit, NEW t \in AllThreads, current[t] \in Nodes
    PROVE  state[current[t]] \in Live
<1>1. CASE current[t] = Root
    BY <1>1 DEF Types, Live
<1>2. CASE current[t] \in Tasks
    <2>1. PICK d \in Calls(t) : /\ Executes(t, d) /\ At(t, d).task = current[t]
                                /\ At(t, d).at \in InBody
        BY <1>2 DEF ThreadsFit, ThreadFits
    <2>2. CallFits(t, d)
        BY DEF CallsFit
    <2> QED
        BY <2>1, <2>2 DEF CallFits, ExecutionFits, Running, Live
<1> QED
    BY <1>1, <1>2 DEF Nodes

\* Only the end of an execution unlinks the children of an executed task.
UnlinksOwn(t) ==
    Top(t).at \in Unlinking =>
        /\ Mine(t) \in Nodes /\ (Executes(t, Height(t)) <=> state[Mine(t)] = "executed")
        /\ state[Mine(t)] \in {"grabbed", "captured", "executed"}
UnlinkingFits == \A t \in AllThreads : UnlinksOwn(t)

LEMMA UnlinkingState == Types /\ StackOK /\ CallsFit => UnlinkingFits
<1> SUFFICES ASSUME Types, StackOK, CallsFit, NEW t \in AllThreads, Top(t).at \in Unlinking
             PROVE  /\ Mine(t) \in Nodes /\ (Executes(t, Height(t)) <=> state[Mine(t)] = "executed")
                    /\ state[Mine(t)] \in {"grabbed", "captured", "executed"}
    BY DEF UnlinkingFits, UnlinksOwn
<1>1. TopFits(t) /\ Top(t) \in FrameType
    BY CallsFitTop, TopIsLast
<1>2. CASE Executes(t, Height(t))
    BY <1>1, <1>2 DEF TopFits, ExecutionFits, Nodes, Unlinking
<1>3. CASE ~Executes(t, Height(t))
    <2>1. Mine(t) # None /\ Mine(t) \in Nodes
        BY <1>1, <1>3 DEF TopFits, Unlinking, FrameType, Mine
    <2> QED
        BY <1>3, <2>1, OuterIsLive
<1> QED
    BY <1>2, <1>3

LEMMA UnlinkingStateNext == Types' /\ StackOK' /\ CallsFit' => UnlinkingFits'
BY UnlinkingState, PTL

LEMMA SameUnended ==
    ASSUME parent' = parent, \A k \in Tasks : Unfinished(k)' <=> Unfinished(k)
    PROVE  \A p : Unended(p)' = Unended(p)
BY DEF Unended

LEMMA CountersStay ==
    ASSUME CountersFit, counter' = counter,
           \A p \in Nodes : Unended(p)' = Unended(p),
           \A p \in Nodes : state'[p] \in Live => state[p] \in Live
    PROVE  CountersFit'
BY DEF CountersFit, CounterFits

LEMMA QuietFinish ==
    ASSUME NEW t \in AllThreads, \A u \in AllThreads \ {t} : Top(u)' = Top(u),
           Top(t).at # "decrement", Top(t)'.at # "decrement",
           NEW k, state'[k] \in {"allocated", "grabbed"} <=> state[k] \in {"allocated", "grabbed"}
    PROVE  Unfinished(k)' <=> Unfinished(k)
<1>1. \A u \in AllThreads : (Top(u).at = "decrement" /\ Mine(u) = k)' <=> Top(u).at = "decrement" /\ Mine(u) = k
    BY DEF Mine
<1> QED
    BY <1>1 DEF Unfinished, TopAt

\* What another thread does leaves what a thread counts on.
LEMMA OthersCount ==
    ASSUME TInv, TInv', NEW u \in AllThreads, ThreadCounts(u), stack'[u] = stack[u],
           Top(u).at \in CuttingOff =>
              /\ \/ parent'[Held(u)] = parent[Held(u)]
                 \/ parent'[Held(u)] = None /\ state[Mine(u)] = "executed"
              /\ Held(u) \in Range(children'[Mine(u)]) => Held(u) \in Range(children[Mine(u)]),
           Top(u).at = "decrement" => parent'[Mine(u)] = parent[Mine(u)],
           NoneAwaited(u) /\ counter[Mine(u)] = 0 => counter'[Mine(u)] = 0
    PROVE  ThreadCounts(u)'
<1>1. Top(u)' = Top(u) /\ Mine(u)' = Mine(u) /\ Held(u)' = Held(u)
    BY DEF Top, Mine, Held
<1>2. UnlinksOwn(u) /\ UnlinksOwn(u)'
    BY UnlinkingState, UnlinkingStateNext DEF TInv, UnlinkingFits
<1>3. Executes(u, Height(u))' <=> Executes(u, Height(u))
    BY DEF Executes, Height, At
<1>4. Top(u).at \in Unlinking => (state'[Mine(u)] = "executed" <=> state[Mine(u)] = "executed")
    BY <1>1, <1>2, <1>3 DEF UnlinksOwn
<1>5. CuttingOff \subseteq Unlinking /\ "unlink_captured" \in Unlinking
    BY DEF CuttingOff, Unlinking
<1> QED
    BY <1>1, <1>4, <1>5 DEF ThreadCounts, NoneAwaited

\* Children are kept when the thread that moves keeps what it kept.
LEMMA KeptStays ==
    ASSUME ChildrenKept, NEW t \in AllThreads, \A u \in AllThreads \ {t} : stack'[u] = stack[u],
           \A p \in Tasks : Unended(p)' \subseteq Unended(p),
           \A p \in Tasks : \A k \in Unended(p)' :
              k \in Range(children[p]) \/ CutsOff(t, k, p) \/ Awaits(t, p) => Kept(k, p)'
    PROVE  ChildrenKept'
<1> SUFFICES ASSUME NEW p \in Tasks, NEW k \in Unended(p)' PROVE Kept(k, p)'
    BY DEF ChildrenKept
<1>1. Kept(k, p)
    BY DEF ChildrenKept
<1>2. ASSUME NEW u \in AllThreads \ {t}, CutsOff(u, k, p) \/ Awaits(u, p)
      PROVE  CutsOff(u, k, p)' \/ Awaits(u, p)'
    <2>1. CutsOff(u, k, p)' <=> CutsOff(u, k, p)
        BY DEF CutsOff, Top, Mine, Held
    <2>2. Awaits(u, p)' <=> Awaits(u, p)
        BY DEF Awaits, Calls, Height, At
    <2> QED
        BY <1>2, <2>1, <2>2
<1> QED
    BY <1>1, <1>2 DEF Kept

\* A task at the end of its execution is captured, and one thread ends it.
LEMMA EndingState ==
    ASSUME TInv, NEW u \in AllThreads, Top(u).at \in Ending
    PROVE  /\ state[Mine(u)] = "captured" /\ Mine(u) \in Tasks
           /\ \A v \in AllThreads : Top(v).at \in Ending /\ Mine(v) = Mine(u) => v = u
<1> USE DEF TInv
<1>1. \A v \in AllThreads : Top(v).at \in Ending =>
         /\ Executes(v, Height(v)) /\ ExecutionFits(state[Mine(v)], Top(v).at) /\ Mine(v) \in Tasks
    <2> SUFFICES ASSUME NEW v \in AllThreads, Top(v).at \in Ending
                 PROVE  /\ Executes(v, Height(v)) /\ ExecutionFits(state[Mine(v)], Top(v).at)
                        /\ Mine(v) \in Tasks
        OBVIOUS
    <2> QED
        BY CallsFitTop DEF TopFits, Ending, Waiting, Unlinking
<1>2. \A v \in AllThreads : Height(v) \in Calls(v) /\ At(v, Height(v)).task = Mine(v)
    BY TopIsLast DEF Mine
<1>3. ASSUME NEW v \in AllThreads, Top(v).at \in Ending, Mine(v) = Mine(u) PROVE v = u
    BY <1>1, <1>2, <1>3 DEF OneExecution
<1> QED
    BY <1>1, <1>3 DEF ExecutionFits

\* A thread moves on within its innermost call, and still waits where it waited.
StillAwaits(t, p) == Awaits(t, p) => Awaits(t, p)'

LEMMA MoveAwaits ==
    ASSUME StackOK, NEW t \in AllThreads, NEW from, NEW to \in Places,
           NEW held \in Nodes \cup AllThreads \cup {None}, Goes(t, from, to, held)
    PROVE  /\ Top(t).at = from /\ Top(t)'.at = to /\ Mine(t)' = Mine(t) /\ Held(t)' = held
           /\ \A u \in AllThreads \ {t} : stack'[u] = stack[u] /\ Top(u)' = Top(u)
           /\ Executes(t, Height(t))' <=> Executes(t, Height(t))
           /\ \A p : ~(Mine(t) = p /\ from \in Waiting /\ to \notin Waiting) => StillAwaits(t, p)
<1>1. PICK f \in FrameType : f = Frame(Mine(t), to, held)
    BY TopIsLast DEF FrameType, Frame, Mine
<1>2. f.task = Mine(t) /\ f.at = to /\ f.held = held /\ Top(t).at = from /\ Replaces(t, f)
    BY <1>1 DEF Frame, Goes, Replaces
<1>3. \A u \in AllThreads :
         /\ Height(u)' = Height(u) /\ Calls(u)' = Calls(u)
         /\ \A d \in Calls(u) : At(u, d)' = IF u = t /\ d = Height(t) THEN f ELSE At(u, d)
         /\ Top(u)' = IF u = t THEN f ELSE Top(u)
    BY <1>2, Replaced
<1>4. /\ Height(t) \in Nat /\ Height(t) >= 1 /\ Height(t) \in Calls(t)
      /\ Top(t) = At(t, Height(t)) /\ Calls(t) = 1..Height(t)
    BY TopIsLast DEF Calls
<1>5. \A u \in AllThreads \ {t} : stack'[u] = stack[u]
    BY <1>2 DEF StackOK, Replaces
<1>6. Executes(t, Height(t))' <=> Executes(t, Height(t))
    <2>1. Height(t) # 1 => Height(t) - 1 \in Calls(t) /\ Height(t) - 1 # Height(t)
        BY <1>4
    <2>2. Height(t) # 1 => At(t, Height(t) - 1)' = At(t, Height(t) - 1)
        BY <1>3, <2>1
    <2> QED
        BY <1>3, <2>2 DEF Executes
<1>7. ASSUME NEW p, ~(Mine(t) = p /\ from \in Waiting /\ to \notin Waiting), Awaits(t, p)
      PROVE  Awaits(t, p)'
    <2>1. PICK d \in Calls(t) : At(t, d).task = p /\ At(t, d).at \in Waiting
        BY <1>7 DEF Awaits
    <2>2. CASE d = Height(t)
        <3>1. At(t, d)' = f /\ Mine(t) = p /\ from \in Waiting
            BY <1>2, <1>3, <1>4, <2>1, <2>2 DEF Mine
        <3> QED
            BY <1>2, <1>3, <1>7, <3>1 DEF Awaits
    <2>3. CASE d # Height(t)
        BY <1>3, <2>1, <2>3 DEF Awaits
    <2> QED
        BY <2>2, <2>3
<1> QED
    BY <1>2, <1>3, <1>5, <1>6, <1>7 DEF Mine, Held, StillAwaits

\* It returns from one.
LEMMA PopAwaits ==
    ASSUME StackOK, NEW t \in AllThreads, Pops(t), Height(t) > 1
    PROVE  /\ \A u \in AllThreads \ {t} : stack'[u] = stack[u] /\ Top(u)' = Top(u)
           /\ \A p : ~(Mine(t) = p /\ Top(t).at \in Waiting) => StillAwaits(t, p)
<1>1. \A u \in AllThreads :
         /\ Height(u)' = IF u = t THEN Height(t) - 1 ELSE Height(u)
         /\ \A d \in Calls(u) : ~(u = t /\ d = Height(t)) => At(u, d)' = At(u, d)
         /\ Top(u)' = IF u = t THEN At(t, Height(t) - 1) ELSE Top(u)
    BY Popped
<1>2. /\ Height(t) \in Nat /\ Height(t) >= 1 /\ Height(t) \in Calls(t)
      /\ Top(t) = At(t, Height(t)) /\ Calls(t) = 1..Height(t) /\ Calls(t)' = 1..Height(t)'
    BY TopIsLast DEF Calls
<1>3. \A u \in AllThreads \ {t} : stack'[u] = stack[u]
    BY DEF StackOK, Pops
<1>4. ASSUME NEW p, ~(Mine(t) = p /\ Top(t).at \in Waiting), Awaits(t, p)
      PROVE  Awaits(t, p)'
    <2>1. PICK d \in Calls(t) : At(t, d).task = p /\ At(t, d).at \in Waiting
        BY <1>4 DEF Awaits
    <2>2. d # Height(t)
        BY <1>2, <1>4, <2>1 DEF Mine
    <2>3. d \in Calls(t)' /\ At(t, d)' = At(t, d)
        BY <1>1, <1>2, <2>1, <2>2
    <2> QED
        BY <2>1, <2>3 DEF Awaits
<1> QED
    BY <1>1, <1>3, <1>4 DEF StillAwaits

\* It enters one.
LEMMA PushAwaits ==
    ASSUME StackOK, NEW t \in AllThreads, NEW f \in FrameType, Pushes(t, f)
    PROVE  /\ \A u \in AllThreads \ {t} : stack'[u] = stack[u] /\ Top(u)' = Top(u)
           /\ Top(t)' = f /\ \A p : StillAwaits(t, p)
<1>1. /\ Height(t)' = Height(t) + 1 /\ Height(t) \in Nat
      /\ \A d \in Calls(t) : At(t, d)' = At(t, d)
      /\ \A u \in AllThreads : Top(u)' = IF u = t THEN f ELSE Top(u)
    BY Pushed, TopIsLast
<1>2. \A d \in Calls(t) : d \in Calls(t)'
    BY <1>1 DEF Calls
<1>3. \A u \in AllThreads \ {t} : stack'[u] = stack[u]
    BY DEF StackOK, Pushes
<1> QED
    BY <1>1, <1>2, <1>3 DEF StillAwaits, Awaits

\* It executes a task it has grabbed, and goes on waiting after it.
LEMMA EnterAwaits ==
    ASSUME StackOK, NEW t \in AllThreads, NEW f \in FrameType, NEW g \in FrameType, CallsFrom(t, f, g),
           f.task = Mine(t), f.at \in Waiting
    PROVE  /\ \A u \in AllThreads \ {t} : stack'[u] = stack[u] /\ Top(u)' = Top(u)
           /\ Top(t)' = g /\ \A p : StillAwaits(t, p)
<1>1. /\ Height(t)' = Height(t) + 1 /\ Height(t) \in Nat
      /\ \A d \in Calls(t) : At(t, d)' = IF d = Height(t) THEN f ELSE At(t, d)
      /\ \A u \in AllThreads : Top(u)' = IF u = t THEN g ELSE Top(u)
      /\ Top(t) = At(t, Height(t))
    BY CalledFrom, TopIsLast
<1>2. \A d \in Calls(t) : d \in Calls(t)'
    BY <1>1 DEF Calls
<1>3. \A u \in AllThreads \ {t} : stack'[u] = stack[u]
    BY DEF StackOK, CallsFrom
<1>4. ASSUME NEW p, NEW d \in Calls(t), At(t, d).task = p, At(t, d).at \in Waiting
      PROVE  At(t, d)'.task = p /\ At(t, d)'.at \in Waiting
    BY <1>1, <1>4 DEF Mine
<1> QED
    BY <1>1, <1>2, <1>3, <1>4 DEF StillAwaits, Awaits

-----------------------------------------------------------------------------
(* Steps that leave children, parents and states alone.                    *)

LEMMA CallsStay ==
    ASSUME TInv, TInv', CInv, NEW t \in AllThreads,
           \A u \in AllThreads \ {t} : stack'[u] = stack[u] /\ Top(u)' = Top(u),
           UNCHANGED <<state, parent, children, counter>>,
           Top(t).at \notin CuttingOff \cup {"decrement"}, Top(t)'.at \notin CuttingOff \cup {"decrement"},
           Top(t)'.at = "disarm" => counter[Mine(t)'] = 0,
           Top(t)'.at \in Unlinking => counter[Mine(t)'] = 0 \/ state[Mine(t)'] = "executed",
           \A p \in Tasks : StillAwaits(t, p) \/ Unended(p) = {}
    PROVE  CInv'
<1> USE DEF CInv
<1>1. \A p : Unended(p)' = Unended(p)
    BY SameUnended, QuietFinish
<1>2. CountersFit'
    BY <1>1, CountersStay
<1>3. ListsOwn'
    BY DEF ListsOwn
<1>4. ASSUME NEW u \in AllThreads PROVE ThreadCounts(u)'
    <2>1. CASE u = t
        BY <2>1 DEF ThreadCounts, NoneAwaited, CuttingOff
    <2>2. CASE u # t
        BY <2>2, OthersCount DEF ThreadsCount
    <2> QED
        BY <2>1, <2>2
<1>5. ChildrenKept'
    <2>1. ASSUME NEW p \in Tasks, NEW k \in Unended(p)',
                 k \in Range(children[p]) \/ CutsOff(t, k, p) \/ Awaits(t, p)
          PROVE  Kept(k, p)'
        <3>1. ~CutsOff(t, k, p)
            BY DEF CutsOff
        <3>2. StillAwaits(t, p)
            BY <1>1
        <3> QED
            BY <2>1, <3>1, <3>2 DEF Kept, StillAwaits
    <2> QED
        BY <1>1, <2>1, KeptStays
<1> QED
    BY <1>2, <1>3, <1>4, <1>5 DEF ThreadsCount

\* The same, of a thread that moves on within its innermost call.
LEMMA MoveCounts ==
    ASSUME TInv, TInv', CInv, NEW t \in AllThreads, NEW from, NEW to \in Places,
           NEW held \in Nodes \cup AllThreads \cup {None}, Goes(t, from, to, held),
           UNCHANGED <<state, parent, children, counter>>,
           from \notin CuttingOff \cup {"decrement"}, to \notin CuttingOff \cup {"decrement"} \cup Unlinking,
           from \in Waiting => to \in Waiting \/ Mine(t) = None,
           to = "disarm" => counter[Mine(t)] = 0
    PROVE  CInv'
<1>1. StackOK
    BY DEF TInv
<1>2. /\ Top(t).at = from /\ Top(t)'.at = to /\ Mine(t)' = Mine(t)
      /\ \A u \in AllThreads \ {t} : stack'[u] = stack[u] /\ Top(u)' = Top(u)
      /\ \A p : ~(Mine(t) = p /\ from \in Waiting /\ to \notin Waiting) => StillAwaits(t, p)
    BY <1>1, MoveAwaits
<1>3. \A p \in Tasks : StillAwaits(t, p)
    BY <1>2, TreeAssumption DEF Nodes
<1> QED
    BY <1>2, <1>3, CallsStay

\* A thread returns to a task that runs, or to a wait.
LEMMA PopTop ==
    ASSUME StackOK, CallsFit, NEW t \in AllThreads, Pops(t), Height(t) > 1
    PROVE  Top(t)'.at \in {"body", "after_child"}
<1>1. Top(t)' = At(t, Height(t) - 1)
    BY Popped
<1>2. Height(t) - 1 \in Calls(t) /\ Height(t) - 1 # Height(t)
    BY TopIsLast DEF Calls
<1>3. \A d \in Calls(t) : d # Height(t) => At(t, d).at \in {"body", "after_child"}
    BY DEF CallsFit, CallFits
<1> QED
    BY <1>1, <1>2, <1>3

\* StartCollecting counts as a spawn, before there is a task.
LEMMA StartCollectingCounts ==
    ASSUME TInv, TInv', CInv, NEW t \in AllThreads, StartCollecting(t) PROVE CInv'
<1>1. Goes(t, "body", "collect_queue", None) /\ UNCHANGED <<state, parent, children, counter>>
    BY DEF StartCollecting, nodes, tree
<1> QED
    BY <1>1, MoveCounts DEF CuttingOff, Waiting, Unlinking, Places, Running

LEMMA CollectPendingCounts ==
    ASSUME TInv, TInv', CInv, NEW t \in AllThreads, CollectPending(t) PROVE CInv'
<1>1. PICK to \in {"drop_pending", "collect_types"}, held \in Nodes \cup {None} :
         Goes(t, "collect_queue", to, held)
    BY QueueHead DEF CollectPending, Nodes
<1> QED
    BY <1>1, MoveCounts
       DEF CollectPending, nodes, tree, bounds, CuttingOff, Waiting, Unlinking, Places, Running

LEMMA CollectTypedCounts ==
    ASSUME TInv, TInv', CInv, NEW t \in AllThreads, CollectTyped(t) PROVE CInv'
<1>1. PICK to \in {"drop_typed", "collected"}, held \in Nodes \cup {None} :
         Goes(t, "collect_types", to, held)
    BY QueueHead DEF CollectTyped, Nodes
<1> QED
    BY <1>1, MoveCounts
       DEF CollectTyped, nodes, tree, bounds, CuttingOff, Waiting, Unlinking, Places, Running

LEMMA PushTypeCounts ==
    ASSUME TInv, TInv', CInv, NEW t \in AllThreads, PushType(t) PROVE CInv'
BY MoveCounts DEF PushType, nodes, tree, bounds, CuttingOff, Waiting, Unlinking, Places, Running

\* What a popped queue yields is a task.
LEMMA PopQueueCounts ==
    ASSUME TInv, TInv', CInv, NEW t \in AllThreads, PopQueue(t) PROVE CInv'
<1>1. pendingTasks \in Seq(Tasks) /\ typeTasks \in Seq(Tasks)
    BY DEF TInv, Types
<1>2. \/ pendingTasks # <<>> /\ Goes(t, "idle", "try_grab", Head(pendingTasks))
      \/ typeTasks # <<>> /\ Goes(t, "idle", "try_grab", Head(typeTasks))
    BY DEF PopQueue
<1>3. PICK k \in Tasks : Goes(t, "idle", "try_grab", k)
    BY <1>1, <1>2
<1> QED
    BY <1>3, MoveCounts DEF PopQueue, nodes, tree, bounds, CuttingOff, Waiting, Unlinking, Places, Nodes

LEMMA WaitForCurrentCounts ==
    ASSUME TInv, TInv', CInv, NEW t \in AllThreads, WaitForCurrent(t) PROVE CInv'
<1>1. PICK to \in {"children", "arm"} : Goes(t, "wait", to, None)
    BY DEF WaitForCurrent
<1> QED
    BY <1>1, MoveCounts DEF WaitForCurrent, nodes, tree, bounds, CuttingOff, Waiting, Unlinking, Places

LEMMA AfterChildCounts ==
    ASSUME TInv, TInv', CInv, NEW t \in AllThreads, AfterChild(t) PROVE CInv'
<1>1. PICK to \in {"children", "arm", "idle"} :
         Goes(t, "after_child", to, None) /\ (to = "idle" => Mine(t) = None)
    BY DEF AfterChild
<1> QED
    BY <1>1, MoveCounts DEF AfterChild, nodes, tree, bounds, CuttingOff, Waiting, Unlinking, Places

LEMMA ArmCounts ==
    ASSUME TInv, TInv', CInv, NEW t \in AllThreads, Arm(t) PROVE CInv'
BY MoveCounts DEF Arm, nodes, bounds, CuttingOff, Waiting, Unlinking, Places

LEMMA CheckCounts ==
    ASSUME TInv, TInv', CInv, NEW t \in AllThreads, Check(t) PROVE CInv'
<1>1. PICK to \in {"disarm", "await"} :
         Goes(t, "check", to, None) /\ (to = "disarm" => counter[Mine(t)] = 0)
    BY DEF Check
<1> QED
    BY <1>1, MoveCounts DEF Check, nodes, tree, bounds, CuttingOff, Waiting, Unlinking, Places

LEMMA AwaitCounts ==
    ASSUME TInv, TInv', CInv, NEW t \in AllThreads, Await(t) PROVE CInv'
BY MoveCounts DEF Await, nodes, tree, bounds, CuttingOff, Waiting, Unlinking, Places

LEMMA ReturnCounts ==
    ASSUME TInv, TInv', CInv, NEW t \in AllThreads, Return(t) PROVE CInv'
BY MoveCounts DEF Return, nodes, tree, bounds, CuttingOff, Waiting, Unlinking, Places, Running

LEMMA RecheckCounts ==
    ASSUME TInv, TInv', CInv, NEW t \in AllThreads, Recheck(t) PROVE CInv'
<1>1. PICK to \in {"look", "mark"} : Goes(t, "recheck", to, Held(t))
    BY DEF Recheck
<1>2. Held(t) \in Nodes
    BY <1>1, EndingHolds DEF TInv, Goes
<1> QED
    BY <1>1, <1>2, MoveCounts DEF Recheck, nodes, tree, bounds, CuttingOff, Waiting, Unlinking, Places, Ending

LEMMA LookCounts ==
    ASSUME TInv, TInv', CInv, NEW t \in AllThreads, Look(t) PROVE CInv'
<1>1. Held(t) \in Nodes
    BY EndingHolds DEF TInv, Look
<1>2. waiter[Held(t)] \in AllThreads \cup {None}
    BY <1>1 DEF TInv, Types
<1>3. PICK to \in {"mark", "signal", "reread"}, held \in Nodes \cup AllThreads \cup {None} :
         Goes(t, "look", to, held)
    BY <1>1, <1>2 DEF Look
<1> QED
    BY <1>3, MoveCounts DEF Look, nodes, tree, bounds, CuttingOff, Waiting, Unlinking, Places, Ending

LEMMA RereadCounts ==
    ASSUME TInv, TInv', CInv, NEW t \in AllThreads, Reread(t) PROVE CInv'
<1>1. Held(t) \in Nodes
    BY EndingHolds DEF TInv, Reread
<1>2. waiter[Held(t)] \in Nodes \cup AllThreads \cup {None}
    BY <1>1 DEF TInv, Types
<1>3. Goes(t, "reread", "signal", waiter[Held(t)])
    BY DEF Reread
<1> QED
    BY <1>2, <1>3, MoveCounts DEF Reread, nodes, tree, bounds, CuttingOff, Waiting, Unlinking, Places, Ending

LEMMA SignalCounts ==
    ASSUME TInv, TInv', CInv, NEW t \in AllThreads, Signal(t) PROVE CInv'
BY MoveCounts DEF Signal, nodes, tree, bounds, CuttingOff, Waiting, Unlinking, Places, Ending

LEMMA StartWaitCounts ==
    ASSUME TInv, TInv', CInv, NEW t \in AllThreads, StartWait(t) PROVE CInv'
<1>1. PICK f \in FrameType : f = Frame(current[t], "wait", None)
    BY DEF FrameType, Frame, Places, Waiting, TInv, Types
<1>2. Pushes(t, f) /\ f.at = "wait" /\ f.task = current[t]
    BY <1>1 DEF StartWait, Pushes, Frame
<1>3. /\ \A u \in AllThreads \ {t} : stack'[u] = stack[u] /\ Top(u)' = Top(u)
      /\ Top(t)' = f /\ \A p : StillAwaits(t, p)
    BY <1>2, PushAwaits DEF TInv
<1> QED
    BY <1>2, <1>3, CallsStay DEF StartWait, nodes, tree, CuttingOff, Unlinking

\* A wait is over when no child is left to end.
LEMMA WaitDoneCounts ==
    ASSUME TInv, TInv', CInv, NEW t \in AllThreads, WaitDone(t),
           Top(t).at \in {"children", "awoken", "disarm"},
           counter[Mine(t)] = 0, UNCHANGED <<state, parent, children, counter>>
    PROVE  CInv'
<1> USE DEF TInv
<1>1. Height(t) \in Nat /\ Height(t) >= 1
    BY TopIsLast
<1>2. ~Executes(t, Height(t)) /\ Height(t) # 1 /\ Mine(t) \in Nodes
    BY WaiterIsLive
<1>3. state[Mine(t)] \in Live
    BY WaiterIsLive
<1>4. Unended(Mine(t)) = {}
    BY <1>2, <1>3, NoneLeft DEF CInv
<1>5. CASE t = User
    <2>1. PICK from : from = Top(t).at
        OBVIOUS
    <2>2. Goes(t, from, "unlink", None)
        BY <1>5, <2>1 DEF WaitDone
    <2>3. "unlink" \in Places
        BY DEF Places, Unlinking
    <2>4. /\ Top(t)'.at = "unlink" /\ Mine(t)' = Mine(t)
          /\ \A u \in AllThreads \ {t} : stack'[u] = stack[u] /\ Top(u)' = Top(u)
          /\ \A p : Mine(t) # p => StillAwaits(t, p)
        BY <2>2, <2>3, MoveAwaits
    <2>5. \A p \in Tasks : StillAwaits(t, p) \/ Unended(p) = {}
        BY <1>4, <2>4
    <2> QED
        BY <2>4, <2>5, CallsStay DEF CuttingOff
<1>6. CASE t # User
    <2>1. Pops(t)
        BY <1>6 DEF WaitDone, Pops
    <2>2. /\ \A u \in AllThreads \ {t} : stack'[u] = stack[u] /\ Top(u)' = Top(u)
          /\ \A p : Mine(t) # p => StillAwaits(t, p)
        BY <1>1, <1>2, <2>1, PopAwaits
    <2>3. Top(t)'.at \in {"body", "after_child"}
        BY <1>1, <1>2, <2>1, PopTop
    <2>4. \A p \in Tasks : StillAwaits(t, p) \/ Unended(p) = {}
        BY <1>4, <2>2
    <2> QED
        BY <2>2, <2>3, <2>4, CallsStay DEF CuttingOff, Unlinking
<1> QED
    BY <1>5, <1>6

LEMMA NoMoreChildrenCounts ==
    ASSUME TInv, TInv', CInv, NEW t \in AllThreads, NoMoreChildren(t) PROVE CInv'
<1>1. CASE counter[Mine(t)] = 0
    BY <1>1, WaitDoneCounts DEF NoMoreChildren, nodes, tree, bounds
<1>2. CASE counter[Mine(t)] # 0
    BY <1>2, MoveCounts
       DEF NoMoreChildren, nodes, tree, bounds, CuttingOff, Waiting, Unlinking, Places
<1> QED
    BY <1>1, <1>2

LEMMA DisarmCounts ==
    ASSUME TInv, TInv', CInv, NEW t \in AllThreads, Disarm(t) PROVE CInv'
BY WaitDoneCounts DEF Disarm, nodes, bounds

LEMMA EndWaitCounts ==
    ASSUME TInv, TInv', CInv, NEW t \in AllThreads, EndWait(t) PROVE CInv'
<1> USE DEF TInv
<1>1. Top(t).at = "unlink" /\ Pops(t) /\ UNCHANGED <<state, parent, children, counter>>
      /\ state[Mine(t)] # "executed"
    BY DEF EndWait, Pops, nodes, tree, bounds
<1>2. TopFits(t) /\ Height(t) \in Nat /\ Height(t) >= 1
    BY CallsFitTop, TopIsLast
<1>3. Height(t) > 1
    BY <1>1, <1>2 DEF TopFits
<1>4. /\ \A u \in AllThreads \ {t} : stack'[u] = stack[u] /\ Top(u)' = Top(u)
      /\ \A p : StillAwaits(t, p)
    BY <1>1, <1>3, PopAwaits DEF Waiting
<1>5. Top(t)'.at \in {"body", "after_child"}
    BY <1>1, <1>3, PopTop
<1> QED
    BY <1>1, <1>4, <1>5, CallsStay DEF CuttingOff, Unlinking

-----------------------------------------------------------------------------
(* Children are taken from a list.                                         *)

Takes(t, from, to) ==
    /\ children[Mine(t)] # <<>> /\ Mine(t) \in Nodes
    /\ Goes(t, from, to, Head(children[Mine(t)]))
    /\ children' = [children EXCEPT ![Mine(t)] = Tail(@)]
    /\ UNCHANGED <<nodes, counter, bounds>>

LEMMA TakeCounts ==
    ASSUME TInv, TInv', CInv, NEW t \in AllThreads, NEW from \in {"children", "unlink"}, NEW to \in Places,
           to = IF from = "unlink" THEN "unlink_child" ELSE "try_grab", Takes(t, from, to)
    PROVE  CInv'
<1> USE DEF TInv, CInv, Takes
<1>1. PICK p \in Nodes : p = Mine(t)
    OBVIOUS
<1>2. PICK s \in Seq(Tasks) : s = children[p]
    BY DEF Types
<1>3. IsList(s)
    BY <1>2 DEF ListsFit, ListFits
<1>4. /\ Tail(s) \in Seq(Tasks) /\ Head(s) \in Tasks
      /\ \A k : k \in Range(Tail(s)) <=> k \in Range(s) /\ k # Head(s)
      /\ Head(s) \in Range(s)
    BY <1>1, <1>2, <1>3, ListTail
<1>5. children'[p] = Tail(s) /\ \A n \in Nodes \ {p} : children'[n] = children[n]
    BY <1>1, <1>2 DEF Types
<1>6. PICK c \in Tasks : c = Head(s)
    BY <1>4
<1>7. Goes(t, from, to, c)
    BY <1>1, <1>2, <1>6
<1>8. c \in Nodes
    BY DEF Nodes
<1>9. /\ Top(t).at = from /\ Top(t)'.at = to /\ Mine(t)' = Mine(t) /\ Held(t)' = c
      /\ \A u \in AllThreads \ {t} : stack'[u] = stack[u] /\ Top(u)' = Top(u)
      /\ \A q : StillAwaits(t, q)
    BY <1>7, <1>8, MoveAwaits DEF Waiting
<1>10. \A n \in Nodes : \A k : k \in Range(children'[n]) <=> k \in Range(children[n]) /\ ~(n = p /\ k = c)
    BY <1>2, <1>4, <1>5, <1>6
<1>11. UNCHANGED <<state, parent>>
    BY DEF nodes, bounds
<1>12. \A q : Unended(q)' = Unended(q)
    BY <1>9, <1>11, SameUnended, QuietFinish
<1>13. CountersFit'
    BY <1>11, <1>12, CountersStay
<1>14. ListsOwn'
    BY <1>10, <1>11 DEF ListsOwn
<1>15. ThreadCounts(t)'
    <2>1. to = "unlink_child" => c \notin Range(children'[p]) /\ parent'[c] = p
        BY <1>2, <1>4, <1>6, <1>10, <1>11 DEF ListsOwn
    <2>2. to = "unlink_child" /\ state[Mine(t)] # "executed" => counter[Mine(t)] = 0
        BY <1>9 DEF ThreadsCount, ThreadCounts, NoneAwaited, Unlinking
    <2> QED
        BY <1>1, <1>9, <1>11, <2>1, <2>2 DEF ThreadCounts, NoneAwaited, CuttingOff, Unlinking
<1>16. ASSUME NEW u \in AllThreads \ {t} PROVE ThreadCounts(u)'
    <2>1. Top(u).at \in CuttingOff => Mine(u) \in Nodes
        BY UnlinkingState DEF UnlinkingFits, UnlinksOwn, CuttingOff, Unlinking
    <2>2. Top(u).at \in CuttingOff =>
             (Held(u) \in Range(children'[Mine(u)]) => Held(u) \in Range(children[Mine(u)]))
        BY <1>10, <2>1
    <2> QED
        BY <1>9, <1>11, <2>2, OthersCount DEF ThreadsCount
<1>17. ChildrenKept'
    <2>1. ASSUME NEW q \in Tasks, NEW k \in Unended(q)',
                 k \in Range(children[q]) \/ CutsOff(t, k, q) \/ Awaits(t, q)
          PROVE  Kept(k, q)'
        <3>1. q \in Nodes
            BY DEF Nodes
        <3>2. CASE Awaits(t, q)
            BY <1>9, <3>2 DEF StillAwaits, Kept
        <3>3. CASE k \in Range(children[q]) /\ ~(q = p /\ k = c)
            BY <1>10, <3>1, <3>3 DEF Kept
        <3>4. CASE q = p /\ k = c /\ to = "unlink_child"
            <4>1. CutsOff(t, k, q)'
                BY <1>1, <1>9, <3>4 DEF CutsOff, CuttingOff
            <4> QED
                BY <4>1 DEF Kept
        <3>5. CASE q = p /\ k = c /\ from = "children"
            <4>1. Awaits(t, q)
                BY <1>1, <1>9, <3>5, TopIsLast DEF Awaits, Waiting, Mine
            <4> QED
                BY <1>9, <4>1 DEF StillAwaits, Kept
        <3>6. ~CutsOff(t, k, q)
            BY <1>9 DEF CutsOff, CuttingOff
        <3> QED
            BY <2>1, <3>2, <3>3, <3>4, <3>5, <3>6
    <2> QED
        BY <1>9, <1>12, <2>1, KeptStays
<1> QED
    BY <1>13, <1>14, <1>15, <1>16, <1>17 DEF ThreadsCount

LEMMA PopChildCounts ==
    ASSUME TInv, TInv', CInv, NEW t \in AllThreads, PopChild(t) PROVE CInv'
<1>1. Mine(t) \in Nodes
    BY CallsFitTop, TopIsLast
       DEF PopChild, TInv, TopFits, Running, Ending, Unlinking, FrameType, Mine
<1>2. "try_grab" \in Places
    BY DEF Places, Waiting
<1>3. Takes(t, "children", "try_grab")
    BY <1>1 DEF PopChild, Takes
<1> QED
    BY <1>2, <1>3, TakeCounts

LEMMA UnlinkNextCounts ==
    ASSUME TInv, TInv', CInv, NEW t \in AllThreads, UnlinkNext(t) PROVE CInv'
<1>1. Mine(t) \in Nodes
    BY UnlinkingState DEF UnlinkNext, TInv, UnlinkingFits, UnlinksOwn, Unlinking
<1>2. "unlink_child" \in Places
    BY DEF Places, Unlinking
<1>3. Takes(t, "unlink", "unlink_child")
    BY <1>1 DEF UnlinkNext, Takes
<1> QED
    BY <1>2, <1>3, TakeCounts

-----------------------------------------------------------------------------
(* States of tasks change, and children do not.                            *)

\* Every child that had to end has to end.
SameChildren == \A p \in Nodes : Unended(p)' = Unended(p)

LEMMA StatesCount ==
    ASSUME TInv, TInv', CInv, NEW t \in AllThreads,
           \A u \in AllThreads \ {t} : stack'[u] = stack[u] /\ Top(u)' = Top(u),
           UNCHANGED <<parent, children, counter>>,
           SameChildren, \A p \in Nodes : state'[p] \in Live => state[p] \in Live,
           ThreadCounts(t)',
           \A p \in Tasks : StillAwaits(t, p),
           \A p \in Tasks : \A k \in Unended(p) : ~CutsOff(t, k, p)
    PROVE  CInv'
<1> USE DEF CInv
<1>1. CountersFit'
    BY CountersStay DEF SameChildren
<1>2. ListsOwn'
    BY DEF ListsOwn
<1>3. ASSUME NEW u \in AllThreads \ {t} PROVE ThreadCounts(u)'
    BY OthersCount DEF ThreadsCount
<1>4. \A p \in Tasks : Unended(p)' = Unended(p)
    BY DEF SameChildren, Nodes
<1>5. ChildrenKept'
    <2>1. ASSUME NEW p \in Tasks, NEW k \in Unended(p)',
                 k \in Range(children[p]) \/ CutsOff(t, k, p) \/ Awaits(t, p)
          PROVE  Kept(k, p)'
        <3>1. ~CutsOff(t, k, p)
            BY <1>4
        <3>2. StillAwaits(t, p)
            OBVIOUS
        <3> QED
            BY <2>1, <3>1, <3>2 DEF Kept, StillAwaits
    <2> QED
        BY <1>4, <2>1, KeptStays
<1> QED
    BY <1>1, <1>2, <1>3, <1>5 DEF ThreadsCount

\* A task of which the last reference is dropped is executed.
LEMMA DropStates ==
    ASSUME Types, NEW k \in Tasks, DropReference(k), references[k] = 1 => state[k] \notin Live
    PROVE  \A j \in Nodes :
              /\ state'[j] \in {"allocated", "grabbed"} <=> state[j] \in {"allocated", "grabbed"}
              /\ state'[j] \in Live => state[j] \in Live
              /\ state'[j] = state[j] \/ (j = k /\ state'[j] = "deallocated")
<1>1. k \in Nodes
    BY DEF Nodes
<1>2. CASE references[k] = 1
    BY <1>1, <1>2 DEF DropReference, Types, Live
<1>3. CASE references[k] # 1
    BY <1>3 DEF DropReference
<1> QED
    BY <1>2, <1>3

LEMMA ChildExecutedCounts ==
    ASSUME TInv, TInv', CInv, NEW t \in AllThreads, ChildExecuted(t) PROVE CInv'
<1> USE DEF TInv, CInv
<1>1. /\ Top(t).at = "unlink_child" /\ state[Held(t)] = "executed"
      /\ Goes(t, "unlink_child", "unlink", None) /\ DropReference(Held(t))
      /\ UNCHANGED <<parent, children, counter>>
    BY DEF ChildExecuted, tree, bounds
<1>2. PICK c \in Tasks : c = Held(t)
    BY <1>1 DEF ThreadsFit, ThreadFits, HoldsFit
<1>3. "unlink" \in Places
    BY DEF Places, Unlinking
<1>4. /\ Top(t)'.at = "unlink" /\ Mine(t)' = Mine(t)
      /\ \A u \in AllThreads \ {t} : stack'[u] = stack[u] /\ Top(u)' = Top(u)
      /\ Executes(t, Height(t))' <=> Executes(t, Height(t))
      /\ \A p : StillAwaits(t, p)
    BY <1>1, <1>3, MoveAwaits DEF Waiting
<1>5. \A j \in Nodes :
         /\ state'[j] \in {"allocated", "grabbed"} <=> state[j] \in {"allocated", "grabbed"}
         /\ state'[j] \in Live => state[j] \in Live
    BY <1>1, <1>2, DropStates DEF Live
<1>6. \A k \in Tasks : Unfinished(k)' <=> Unfinished(k)
    BY <1>1, <1>4, <1>5, QuietFinish DEF Nodes
<1>7. SameChildren
    BY <1>1, <1>6, SameUnended DEF SameChildren
<1>8. ThreadCounts(t)'
    <2>1. state'[Mine(t)] = "executed" <=> state[Mine(t)] = "executed"
        BY <1>1, <1>4, UnlinkingState, UnlinkingStateNext DEF UnlinkingFits, UnlinksOwn, Unlinking
    <2>2. state[Mine(t)] # "executed" => counter[Mine(t)] = 0
        BY <1>1 DEF ThreadsCount, ThreadCounts, NoneAwaited, Unlinking
    <2> QED
        BY <1>1, <1>4, <2>1, <2>2 DEF ThreadCounts, NoneAwaited, CuttingOff
<1>9. ASSUME NEW p \in Tasks, NEW k \in Unended(p), CutsOff(t, k, p) PROVE FALSE
    <2>1. k = c /\ state[k] = "executed" /\ Unfinished(k)
        BY <1>1, <1>2, <1>9 DEF CutsOff, Unended
    <2>2. \E u \in AllThreads : Top(u).at = "decrement" /\ Mine(u) = k
        BY <2>1 DEF Unfinished, TopAt
    <2> QED
        BY <2>1, <2>2, EndingState DEF Ending
<1> QED
    BY <1>1, <1>4, <1>5, <1>7, <1>8, <1>9, StatesCount

LEMMA DropCollectedCounts ==
    ASSUME TInv, TInv', CInv, NEW t \in AllThreads, DropCollected(t) PROVE CInv'
<1> USE DEF TInv, CInv
<1>1. PICK from \in {"drop_pending", "drop_typed"}, to \in {"collect_queue", "collect_types"} :
         /\ Goes(t, from, to, None) /\ Top(t).at = from /\ DropReference(Held(t))
         /\ UNCHANGED <<parent, children, counter>>
    BY DEF DropCollected, Goes, tree
<1>2. PICK c \in Tasks : c = Held(t)
    BY <1>1 DEF ThreadsFit, ThreadFits, HoldsFit
<1>3. to \in Places
    BY DEF Places, Running
<1>4. /\ Top(t)'.at = to
      /\ \A u \in AllThreads \ {t} : stack'[u] = stack[u] /\ Top(u)' = Top(u)
      /\ \A p : StillAwaits(t, p)
    BY <1>1, <1>3, MoveAwaits DEF Waiting
<1>5. references[c] = 1 => state[c] \notin Live
    BY <1>1, <1>2, LastReference DEF Handles, Live
<1>6. \A j \in Nodes :
         /\ state'[j] \in {"allocated", "grabbed"} <=> state[j] \in {"allocated", "grabbed"}
         /\ state'[j] \in Live => state[j] \in Live
    BY <1>1, <1>2, <1>5, DropStates
<1>7. \A k \in Tasks : Unfinished(k)' <=> Unfinished(k)
    BY <1>1, <1>4, <1>6, QuietFinish DEF Nodes
<1>8. SameChildren
    BY <1>1, <1>7, SameUnended DEF SameChildren
<1>9. ThreadCounts(t)'
    BY <1>4 DEF ThreadCounts, NoneAwaited, CuttingOff, Unlinking
<1>10. \A k, p : ~CutsOff(t, k, p)
    BY <1>1 DEF CutsOff, CuttingOff
<1> QED
    BY <1>1, <1>4, <1>6, <1>8, <1>9, <1>10, StatesCount

LEMMA ReleaseCounts ==
    ASSUME TInv, TInv', CInv, NEW t \in AllThreads, Release(t) PROVE CInv'
<1> USE DEF TInv, CInv
<1>1. /\ Top(t).at = "unlink" /\ state[Mine(t)] = "executed" /\ DropReference(Mine(t)) /\ Pops(t)
      /\ UNCHANGED <<parent, children, counter>>
    BY DEF Release, Pops, tree, bounds
<1>2. Height(t) > 1 /\ Mine(t) \in Tasks
    <2>1. Height(t) \in Nat /\ Height(t) >= 1
        BY TopIsLast
    <2>2. TopFits(t)
        BY CallsFitTop
    <2>3. Height(t) > 1
        BY <1>1, <2>1, <2>2 DEF TopFits
    <2>4. Mine(t) \in Nodes
        BY <1>1, UnlinkingState DEF UnlinkingFits, UnlinksOwn, Unlinking
    <2> QED
        BY <1>1, <2>3, <2>4 DEF Types, Nodes
<1>3. /\ \A u \in AllThreads \ {t} : stack'[u] = stack[u] /\ Top(u)' = Top(u)
      /\ \A p : StillAwaits(t, p)
    BY <1>1, <1>2, PopAwaits DEF Waiting
<1>4. Top(t)'.at \in {"body", "after_child"}
    BY <1>1, <1>2, PopTop
<1>5. \A j \in Nodes :
         /\ state'[j] \in {"allocated", "grabbed"} <=> state[j] \in {"allocated", "grabbed"}
         /\ state'[j] \in Live => state[j] \in Live
    BY <1>1, <1>2, DropStates DEF Live
<1>6. \A k \in Tasks : Unfinished(k)' <=> Unfinished(k)
    BY <1>1, <1>3, <1>4, <1>5, QuietFinish DEF Nodes
<1>7. SameChildren
    BY <1>1, <1>6, SameUnended DEF SameChildren
<1>8. ThreadCounts(t)' /\ \A k, p : ~CutsOff(t, k, p)
    BY <1>1, <1>4 DEF ThreadCounts, NoneAwaited, CuttingOff, Unlinking, CutsOff
<1> QED
    BY <1>1, <1>3, <1>5, <1>7, <1>8, StatesCount

LEMMA TryGrabCounts ==
    ASSUME TInv, TInv', CInv, NEW t \in AllThreads, TryGrab(t) PROVE CInv'
<1> USE DEF TInv, CInv
<1>1. Top(t).at = "try_grab" /\ UNCHANGED <<parent, children, counter>>
    BY DEF TryGrab, tree, bounds
<1>2. PICK k \in Tasks : k = Held(t)
    BY <1>1 DEF ThreadsFit, ThreadFits, HoldsFit
<1>3. k \in Nodes /\ Top(t) \in FrameType
    BY TopIsLast DEF Nodes
<1>4. \A j, p : ~CutsOff(t, j, p)
    BY <1>1 DEF CutsOff, CuttingOff
<1>5. CASE state[k] # "allocated"
    <2>1. PICK to \in {"idle", "children"} :
             /\ Goes(t, "try_grab", to, None) /\ DropReference(k)
             /\ to = IF Mine(t) = None THEN "idle" ELSE "children"
        BY <1>2, <1>5 DEF TryGrab, Grabbable
    <2>2. to \in Places
        BY DEF Places, Waiting
    <2>3. /\ Top(t)'.at = to
          /\ \A u \in AllThreads \ {t} : stack'[u] = stack[u] /\ Top(u)' = Top(u)
          /\ \A p \in Tasks : StillAwaits(t, p)
        BY <2>1, <2>2, MoveAwaits, TreeAssumption DEF Waiting, Nodes
    <2>4. references[k] = 1 => state[k] \notin Live
        BY <1>1, <1>2, LastReference DEF Handles, Live
    <2>5. \A j \in Nodes :
             /\ state'[j] \in {"allocated", "grabbed"} <=> state[j] \in {"allocated", "grabbed"}
             /\ state'[j] \in Live => state[j] \in Live
        BY <2>1, <2>4, DropStates
    <2>6. \A j \in Tasks : Unfinished(j)' <=> Unfinished(j)
        BY <1>1, <2>3, <2>5, QuietFinish DEF Nodes
    <2>7. SameChildren
        BY <1>1, <2>6, SameUnended DEF SameChildren
    <2>8. ThreadCounts(t)'
        BY <2>3 DEF ThreadCounts, NoneAwaited, CuttingOff, Unlinking
    <2> QED
        BY <1>1, <1>4, <2>3, <2>5, <2>7, <2>8, StatesCount
<1>6. CASE state[k] = "allocated"
    <2>1. state' = [state EXCEPT ![k] = "grabbed"]
          /\ stack' = [stack EXCEPT ![t] =
                <<Frame(k, "body", None), Frame(Mine(t), "after_child", None)>> \o Tail(@)]
        BY <1>2, <1>6 DEF TryGrab, Grabbable
    <2>2. PICK f \in FrameType, g \in FrameType :
             f = Frame(Mine(t), "after_child", None) /\ g = Frame(k, "body", None)
        BY <1>3 DEF FrameType, Frame, Places, Waiting, Running, Mine
    <2>3. CallsFrom(t, f, g) /\ f.task = Mine(t) /\ f.at = "after_child" /\ g.at = "body"
        BY <2>1, <2>2 DEF CallsFrom, Frame
    <2>4. /\ \A u \in AllThreads \ {t} : stack'[u] = stack[u] /\ Top(u)' = Top(u)
          /\ Top(t)' = g /\ \A p : StillAwaits(t, p)
        BY <2>3, EnterAwaits DEF Waiting
    <2>5. \A j \in Nodes :
             /\ state'[j] \in {"allocated", "grabbed"} <=> state[j] \in {"allocated", "grabbed"}
             /\ state'[j] \in Live => state[j] \in Live
        BY <1>3, <1>6, <2>1 DEF Types, Live
    <2>6. \A j \in Tasks : Unfinished(j)' <=> Unfinished(j)
        BY <1>1, <2>3, <2>4, <2>5, QuietFinish DEF Nodes
    <2>7. SameChildren
        BY <1>1, <2>6, SameUnended DEF SameChildren
    <2>8. ThreadCounts(t)'
        BY <2>3, <2>4 DEF ThreadCounts, NoneAwaited, CuttingOff, Unlinking
    <2> QED
        BY <1>1, <1>4, <2>4, <2>5, <2>7, <2>8, StatesCount
<1> QED
    BY <1>5, <1>6

\* The end of an execution is captured: the child still has its decrement to do.
LEMMA CaptureCounts ==
    ASSUME TInv, TInv', CInv, NEW t \in AllThreads, Capture(t) PROVE CInv'
<1> USE DEF TInv, CInv
<1>1. /\ Top(t).at = "capture" /\ state[Mine(t)] = "grabbed"
      /\ Goes(t, "capture", IF parent[Mine(t)] = None THEN "mark" ELSE "decrement", parent[Mine(t)])
      /\ state' = [state EXCEPT ![Mine(t)] = "captured"]
      /\ UNCHANGED <<parent, children, counter>>
    BY DEF Capture, tree, bounds
<1>2. PICK k \in Tasks : k = Mine(t)
    <2>1. TopFits(t)
        BY CallsFitTop
    <2> QED
        BY <1>1, <2>1 DEF TopFits, Waiting, Unlinking
<1>3. k \in Nodes /\ parent[k] \in Nodes \cup {None}
    BY DEF Nodes, Types
<1>4. PICK h \in Nodes \cup {None} : h = parent[k]
    BY <1>3
<1>5. PICK to \in {"mark", "decrement"} :
         Goes(t, "capture", to, h) /\ (to = "mark" <=> parent[k] = None)
    BY <1>1, <1>2, <1>4
<1>6. to \in Places
    BY DEF Places, Ending
<1>7. /\ Top(t)'.at = to /\ Mine(t)' = k /\ Held(t)' = parent[k]
      /\ \A u \in AllThreads \ {t} : stack'[u] = stack[u] /\ Top(u)' = Top(u)
      /\ \A p : StillAwaits(t, p)
    <2>1. StackOK /\ h \in Nodes \cup AllThreads \cup {None}
        BY <1>4
    <2>2. /\ Top(t)'.at = to /\ Mine(t)' = Mine(t) /\ Held(t)' = h
          /\ \A u \in AllThreads \ {t} : stack'[u] = stack[u] /\ Top(u)' = Top(u)
          /\ \A p : ~(Mine(t) = p /\ "capture" \in Waiting /\ to \notin Waiting) => StillAwaits(t, p)
        BY <1>5, <1>6, <2>1, MoveAwaits
    <2> QED
        BY <1>2, <1>4, <2>2 DEF Waiting
<1>8. \A j \in Nodes : state'[j] = IF j = k THEN "captured" ELSE state[j]
    BY <1>1, <1>2, <1>3 DEF Types
<1>9. ASSUME NEW j \in Tasks PROVE Unfinished(j)' <=> Unfinished(j) /\ (j = k => to = "decrement")
    <2>1. \A u \in AllThreads \ {t} : Top(u)' = Top(u) /\ Mine(u)' = Mine(u)
        BY <1>7 DEF Mine
    <2>2. CASE j = k
        <3>1. Unfinished(j)
            BY <1>1, <1>2, <2>2 DEF Unfinished
        <3>2. state'[j] = "captured"
            BY <1>3, <1>8, <2>2
        <3>3. \A u \in AllThreads : Top(u).at = "decrement" => Mine(u) # j
            BY <1>1, <1>2, <2>2, EndingState DEF Ending
        <3>4. (\E u \in AllThreads : Top(u)'.at = "decrement" /\ Mine(u)' = j) <=> to = "decrement"
            BY <1>7, <2>1, <2>2, <3>3
        <3> QED
            BY <2>2, <3>1, <3>2, <3>4 DEF Unfinished, TopAt
    <2>3. CASE j # k
        <3>1. state'[j] = state[j]
            BY <1>8, <2>3 DEF Nodes
        <3>2. \A u \in AllThreads : (Top(u)'.at = "decrement" /\ Mine(u)' = j)
                                        <=> Top(u).at = "decrement" /\ Mine(u) = j
            BY <1>1, <1>2, <1>7, <2>1, <2>3
        <3> QED
            BY <2>3, <3>1, <3>2 DEF Unfinished, TopAt
    <2> QED
        BY <2>2, <2>3
<1>10. SameChildren
    BY <1>1, <1>5, <1>9, TreeAssumption DEF SameChildren, Unended
<1>11. \A j \in Nodes : state'[j] \in Live => state[j] \in Live
    BY <1>1, <1>2, <1>8 DEF Live
<1>12. ThreadCounts(t)'
    BY <1>1, <1>2, <1>7 DEF ThreadCounts, NoneAwaited, CuttingOff, Unlinking
<1>13. \A j, p : ~CutsOff(t, j, p)
    BY <1>1 DEF CutsOff, CuttingOff
<1> QED
    BY <1>1, <1>7, <1>10, <1>11, <1>12, <1>13, StatesCount

LEMMA MarkCounts ==
    ASSUME TInv, TInv', CInv, NEW t \in AllThreads, Mark(t) PROVE CInv'
<1> USE DEF TInv, CInv
<1>1. /\ Top(t).at = "mark" /\ Goes(t, "mark", "unlink", None)
      /\ state' = [state EXCEPT ![Mine(t)] = "executed"]
      /\ UNCHANGED <<parent, children, counter>>
    BY DEF Mark, Goes, tree, bounds
<1>2. PICK k \in Tasks : k = Mine(t)
    BY <1>1, EndingState DEF Ending
<1>3. k \in Nodes /\ state[k] = "captured"
    BY <1>1, <1>2, EndingState DEF Nodes, Ending
<1>4. "unlink" \in Places
    BY DEF Places, Unlinking
<1>5. /\ Top(t)'.at = "unlink" /\ Mine(t)' = k
      /\ \A u \in AllThreads \ {t} : stack'[u] = stack[u] /\ Top(u)' = Top(u)
      /\ \A p : StillAwaits(t, p)
    BY <1>1, <1>2, <1>4, MoveAwaits DEF Waiting
<1>6. \A j \in Nodes : state'[j] = IF j = k THEN "executed" ELSE state[j]
    BY <1>1, <1>2, <1>3 DEF Types
<1>7. \A j \in Tasks : Unfinished(j)' <=> Unfinished(j)
    BY <1>1, <1>3, <1>5, <1>6, QuietFinish DEF Nodes
<1>8. SameChildren
    BY <1>1, <1>7, SameUnended DEF SameChildren
<1>9. \A j \in Nodes : state'[j] \in Live => state[j] \in Live
    BY <1>6 DEF Live
<1>10. ThreadCounts(t)'
    BY <1>3, <1>5, <1>6 DEF ThreadCounts, NoneAwaited, CuttingOff
<1>11. \A j, p : ~CutsOff(t, j, p)
    BY <1>1 DEF CutsOff, CuttingOff
<1> QED
    BY <1>1, <1>5, <1>8, <1>9, <1>10, <1>11, StatesCount

-----------------------------------------------------------------------------
(* A child's end is counted.                                               *)

LEMMA DecrementCounts ==
    ASSUME TInv, TInv', CInv, NEW t \in AllThreads, Decrement(t) PROVE CInv'
<1> USE DEF TInv, CInv
<1>1. /\ Top(t).at = "decrement" /\ Goes(t, "decrement", "recheck", Held(t))
      /\ counter' = [counter EXCEPT ![Held(t)] = @ - 1]
      /\ UNCHANGED <<state, parent, children>>
    BY DEF Decrement, Goes, nodes, bounds
<1>2. PICK k \in Tasks : k = Mine(t)
    BY <1>1, EndingState DEF Ending
<1>3. PICK p \in Nodes : p = Held(t)
    BY <1>1, EndingHolds
<1>4. state[k] = "captured" /\ \A u \in AllThreads : Top(u).at = "decrement" /\ Mine(u) = k => u = t
    BY <1>1, <1>2, EndingState DEF Ending
<1>5. parent[k] = p
    BY <1>1, <1>2, <1>3 DEF ThreadsCount, ThreadCounts, NoneAwaited
<1>6. "recheck" \in Places
    BY DEF Places, Ending
<1>7. /\ Top(t)'.at = "recheck" /\ Mine(t)' = Mine(t)
      /\ \A u \in AllThreads \ {t} : stack'[u] = stack[u] /\ Top(u)' = Top(u)
      /\ \A q : StillAwaits(t, q)
    BY <1>1, <1>3, <1>6, MoveAwaits DEF Waiting
<1>8. ASSUME NEW j \in Tasks PROVE Unfinished(j)' <=> Unfinished(j) /\ j # k
    <2>1. \A u \in AllThreads : (Top(u)'.at = "decrement" /\ Mine(u)' = j)
                                    <=> Top(u).at = "decrement" /\ Mine(u) = j /\ j # k
        BY <1>2, <1>4, <1>7 DEF Mine
    <2>2. j = k => state[j] \notin {"allocated", "grabbed"}
        BY <1>4
    <2> QED
        BY <1>1, <2>1, <2>2 DEF Unfinished, TopAt
<1>9. Unfinished(k)
    BY <1>1, <1>2 DEF Unfinished, TopAt
<1>10. /\ k \in Unended(p) /\ Unended(p)' = Unended(p) \ {k}
       /\ \A q \in Nodes \ {p} : Unended(q)' = Unended(q)
    BY <1>1, <1>5, <1>8, <1>9 DEF Unended
<1>11. /\ Cardinality(Unended(p)') = Cardinality(Unended(p)) - 1 /\ Cardinality(Unended(p)) \in Nat
       /\ Cardinality(Unended(p)) >= 1
    <2>1. Unended(p) \in SUBSET Tasks /\ Unended(p) \ {k} \in SUBSET Tasks
        BY DEF Unended
    <2>2. IsFiniteSet(Unended(p)) /\ Cardinality(Unended(p)) \in Nat /\ Cardinality(Unended(p) \ {k}) \in Nat
        BY <2>1, UnendedIsFinite
    <2>3. Cardinality(Unended(p) \ {k}) = Cardinality(Unended(p)) - 1
        BY <1>10, <2>2, FS_RemoveElement
    <2> QED
        BY <1>10, <2>2, <2>3
<1>12. counter'[p] = counter[p] - 1 /\ \A q \in Nodes \ {p} : counter'[q] = counter[q]
    BY <1>1, <1>3 DEF Types
<1>13. CountersFit'
    <2>1. CounterFits(p)'
        <3>1. CounterFits(p) /\ Cardinality(Tasks) \in Nat
            BY TreeAssumption, FS_CardinalityType DEF CountersFit
        <3> QED
            BY <1>1, <1>11, <1>12, <3>1 DEF CounterFits
    <2>2. ASSUME NEW q \in Nodes \ {p} PROVE CounterFits(q)'
        <3>1. CounterFits(q)
            BY DEF CountersFit
        <3> QED
            BY <1>1, <1>10, <1>12, <3>1 DEF CounterFits
    <2> QED
        BY <2>1, <2>2 DEF CountersFit
<1>14. ListsOwn'
    BY <1>1 DEF ListsOwn
<1>15. ThreadCounts(t)'
    BY <1>7 DEF ThreadCounts, NoneAwaited, CuttingOff, Unlinking
<1>16. ASSUME NEW u \in AllThreads \ {t} PROVE ThreadCounts(u)'
    <2>1. ThreadCounts(u)
        BY DEF ThreadsCount
    <2>2. ASSUME NoneAwaited(u), counter[Mine(u)] = 0
          PROVE  counter'[Mine(u)] = 0
        <3>1. Mine(u) \in Nodes /\ state[Mine(u)] \in Live
            <4>1. CASE Top(u).at = "disarm"
                BY <4>1, WaiterIsLive
            <4>2. CASE Top(u).at \in Unlinking /\ state[Mine(u)] # "executed"
                BY <4>2, UnlinkingState DEF UnlinkingFits, UnlinksOwn, Live
            <4> QED
                BY <2>2, <4>1, <4>2 DEF NoneAwaited
        <3>2. Unended(Mine(u)) = {}
            BY <2>2, <3>1, NoneLeft
        <3>3. Mine(u) # p
            BY <1>10, <3>2
        <3> QED
            BY <1>12, <2>2, <3>1, <3>3
    <2> QED
        BY <1>1, <1>7, <2>1, <2>2, OthersCount
<1>17. ChildrenKept'
    <2>1. \A q \in Tasks : Unended(q)' \subseteq Unended(q)
        BY <1>10 DEF Nodes
    <2>2. \A j, q : ~CutsOff(t, j, q)
        BY <1>1 DEF CutsOff, CuttingOff
    <2>3. ASSUME NEW q \in Tasks, NEW j \in Unended(q)',
                 j \in Range(children[q]) \/ CutsOff(t, j, q) \/ Awaits(t, q)
          PROVE  Kept(j, q)'
        BY <1>1, <1>7, <2>2, <2>3 DEF Kept, StillAwaits
    <2> QED
        BY <1>7, <2>1, <2>3, KeptStays
<1> QED
    BY <1>13, <1>14, <1>15, <1>16, <1>17 DEF ThreadsCount

-----------------------------------------------------------------------------
(* A child is cut off.                                                     *)

\* First it is captured, by a parent that is executed: the children of one that
\* is not have all ended when it unlinks them.
LEMMA CutOffCaptures ==
    ASSUME TInv, TInv', CInv, NEW t \in AllThreads, NEW c \in Tasks, c = Held(t),
           state[c] = "grabbed", state' = [state EXCEPT ![c] = "captured"],
           Goes(t, "unlink_child", "unlink_captured", c),
           UNCHANGED <<parent, children, counter>>
    PROVE  CInv'
<1> USE DEF TInv, CInv
<1>1. Top(t).at = "unlink_child" /\ c \in Nodes /\ "unlink_captured" \in Places
    BY DEF Goes, Nodes, Places, Unlinking
<1>2. PICK p \in Nodes : p = Mine(t)
    BY <1>1, UnlinkingState DEF UnlinkingFits, UnlinksOwn, Unlinking
<1>3. /\ c \notin Range(children[p])
      /\ parent[c] = p \/ (parent[c] = None /\ state[p] = "executed")
      /\ state[p] # "executed" => counter[p] = 0
    BY <1>1, <1>2 DEF ThreadsCount, ThreadCounts, NoneAwaited, CuttingOff, Unlinking
<1>4. state[p] = "executed"
    <2> SUFFICES ASSUME state[p] # "executed" PROVE FALSE
        OBVIOUS
    <2>1. state[p] \in Live
        BY <1>1, <1>2, UnlinkingState DEF UnlinkingFits, UnlinksOwn, Unlinking, Live
    <2>2. Unended(p) = {}
        BY <1>3, <2>1, NoneLeft
    <2>3. c \in Unended(p)
        BY <1>3 DEF Unended, Unfinished
    <2> QED
        BY <2>2, <2>3
<1>5. \A j \in Nodes : state'[j] = IF j = c THEN "captured" ELSE state[j]
    BY <1>1 DEF Types
<1>6. state'[p] = "executed" /\ p # c
    BY <1>4, <1>5
<1>7. /\ Top(t)'.at = "unlink_captured" /\ Mine(t)' = p /\ Held(t)' = c
      /\ \A u \in AllThreads \ {t} : stack'[u] = stack[u] /\ Top(u)' = Top(u)
      /\ \A q : StillAwaits(t, q)
    BY <1>1, <1>2, MoveAwaits DEF Waiting
<1>8. ASSUME NEW j \in Tasks PROVE Unfinished(j)' <=> Unfinished(j) /\ j # c
    <2>1. j # c => (Unfinished(j)' <=> Unfinished(j))
        BY <1>1, <1>5, <1>7, QuietFinish DEF Nodes
    <2>2. \A u \in AllThreads : Top(u)'.at = "decrement" => Mine(u)' # c
        <3>1. \A u \in AllThreads : Top(u).at = "decrement" => Mine(u) # c
            BY EndingState DEF Ending
        <3> QED
            BY <1>7, <3>1 DEF Mine
    <2>3. ~Unfinished(c)'
        BY <1>1, <1>5, <2>2 DEF Unfinished, TopAt
    <2> QED
        BY <2>1, <2>3
<1>9. /\ Unended(p)' \subseteq Unended(p)
      /\ \A q \in Nodes \ {p} : Unended(q)' = Unended(q)
    BY <1>3, <1>8, TreeAssumption DEF Unended
<1>10. CountersFit'
    <2>1. CounterFits(p)'
        <3>1. Unended(p) \in SUBSET Tasks /\ Unended(p)' \in SUBSET Tasks
            BY DEF Unended
        <3>2. /\ Cardinality(Unended(p)') <= Cardinality(Unended(p))
              /\ Cardinality(Unended(p)) \in Nat /\ Cardinality(Unended(p)') \in Nat
            BY <1>9, <3>1, UnendedIsFinite, FS_Subset
        <3>3. CounterFits(p) /\ Cardinality(Tasks) \in Nat
            BY TreeAssumption, FS_CardinalityType DEF CountersFit
        <3> QED
            BY <1>6, <3>2, <3>3 DEF CounterFits, Live
    <2>2. ASSUME NEW q \in Nodes \ {p} PROVE CounterFits(q)'
        <3>1. CounterFits(q)
            BY DEF CountersFit
        <3>2. state'[q] \in Live => state[q] \in Live
            BY <1>5 DEF Live
        <3> QED
            BY <1>9, <3>1, <3>2 DEF CounterFits
    <2> QED
        BY <2>1, <2>2 DEF CountersFit
<1>11. ListsOwn'
    BY DEF ListsOwn
<1>12. ThreadCounts(t)'
    BY <1>3, <1>6, <1>7 DEF ThreadCounts, NoneAwaited
<1>13. ASSUME NEW u \in AllThreads \ {t} PROVE ThreadCounts(u)'
    BY <1>7, OthersCount DEF ThreadsCount
<1>14. ChildrenKept'
    <2>1. \A q \in Tasks : Unended(q)' \subseteq Unended(q)
        BY <1>9 DEF Nodes
    <2>2. ASSUME NEW q \in Tasks, NEW j \in Unended(q)',
                 j \in Range(children[q]) \/ CutsOff(t, j, q) \/ Awaits(t, q)
          PROVE  Kept(j, q)'
        <3>1. CutsOff(t, j, q) => CutsOff(t, j, q)'
            BY <1>2, <1>7 DEF CutsOff, CuttingOff
        <3> QED
            BY <1>7, <2>2, <3>1 DEF Kept, StillAwaits
    <2> QED
        BY <1>7, <2>1, <2>2, KeptStays
<1> QED
    BY <1>10, <1>11, <1>12, <1>13, <1>14 DEF ThreadsCount

\* Then it has no parent any more: nobody counts it.
LEMMA CutOffForgets ==
    ASSUME TInv, TInv', CInv, NEW t \in AllThreads, NEW c \in Tasks, c = Held(t),
           state' = [state EXCEPT ![c] = "grabbed"], parent' = [parent EXCEPT ![c] = None],
           Goes(t, "unlink_captured", "unlink_child", c),
           UNCHANGED <<children, counter>>
    PROVE  CInv'
<1> USE DEF TInv, CInv
<1>1. Top(t).at = "unlink_captured" /\ c \in Nodes /\ "unlink_child" \in Places
    BY DEF Goes, Nodes, Places, Unlinking
<1>2. PICK p \in Nodes : p = Mine(t)
    BY <1>1, UnlinkingState DEF UnlinkingFits, UnlinksOwn, Unlinking
<1>3. /\ c \notin Range(children[p]) /\ state[p] = "executed"
      /\ parent[c] = p \/ parent[c] = None
    BY <1>1, <1>2 DEF ThreadsCount, ThreadCounts, NoneAwaited, CuttingOff
<1>4. state[c] = "captured" /\ \A u \in AllThreads : Top(u).at \in Ending => Mine(u) # c
    BY <1>1 DEF CutsOffAlone, TopAt
<1>5. \A j \in Nodes : /\ state'[j] = IF j = c THEN "grabbed" ELSE state[j]
                       /\ parent'[j] = IF j = c THEN None ELSE parent[j]
    BY <1>1 DEF Types
<1>6. state'[p] = "executed" /\ p # c
    BY <1>3, <1>4, <1>5
<1>7. /\ Top(t)'.at = "unlink_child" /\ Mine(t)' = p /\ Held(t)' = c
      /\ \A u \in AllThreads \ {t} : stack'[u] = stack[u] /\ Top(u)' = Top(u)
      /\ \A q : StillAwaits(t, q)
    BY <1>1, <1>2, MoveAwaits DEF Waiting
<1>8. \A j \in Tasks : j # c => (Unfinished(j)' <=> Unfinished(j))
    BY <1>1, <1>5, <1>7, QuietFinish DEF Nodes
<1>9. ~Unfinished(c)
    BY <1>4 DEF Unfinished, TopAt, Ending
<1>10. \A q \in Nodes : Unended(q)' = Unended(q)
    <2>1. \A q \in Nodes : c \notin Unended(q) /\ c \notin Unended(q)'
        BY <1>1, <1>5, <1>9, TreeAssumption DEF Unended
    <2>2. \A q \in Nodes : \A j \in Tasks \ {c} : j \in Unended(q)' <=> j \in Unended(q)
        BY <1>5, <1>8 DEF Unended, Nodes
    <2>3. ASSUME NEW q \in Nodes PROVE Unended(q)' = Unended(q)
        <3>1. Unended(q) \subseteq Tasks /\ Unended(q)' \subseteq Tasks
            BY DEF Unended
        <3>2. \A j \in Tasks : j \in Unended(q)' <=> j \in Unended(q)
            BY <2>1, <2>2
        <3> QED
            BY <3>1, <3>2
    <2> QED
        BY <2>3
<1>11. CountersFit'
    BY <1>4, <1>5, <1>10, CountersStay DEF Live
<1>12. ListsOwn'
    <2>1. ASSUME NEW q \in Nodes, NEW j \in Range(children[q]) PROVE parent'[j] = q
        <3>1. parent[j] = q
            BY DEF ListsOwn
        <3>2. j # c
            BY <1>3, <3>1, TreeAssumption
        <3>3. j \in Nodes
            <4>1. PICK s \in Seq(Tasks) : s = children[q]
                BY DEF Types
            <4> QED
                BY <4>1 DEF Range, Nodes
        <3> QED
            BY <1>5, <3>1, <3>2, <3>3
    <2> QED
        BY <2>1 DEF ListsOwn
<1>13. ThreadCounts(t)'
    BY <1>1, <1>3, <1>5, <1>6, <1>7 DEF ThreadCounts, NoneAwaited
<1>14. ASSUME NEW u \in AllThreads \ {t} PROVE ThreadCounts(u)'
    <2>1. ThreadCounts(u)
        BY DEF ThreadsCount
    <2>2. ASSUME Top(u).at \in CuttingOff
          PROVE  parent'[Held(u)] = parent[Held(u)] \/ (parent'[Held(u)] = None /\ state[Mine(u)] = "executed")
        <3>1. Held(u) \in Nodes
            BY <2>2 DEF ThreadsFit, ThreadFits, HoldsFit, CuttingOff, Nodes
        <3>2. Mine(u) \in Nodes
            BY <2>2, UnlinkingState DEF UnlinkingFits, UnlinksOwn, CuttingOff, Unlinking
        <3>3. parent[Held(u)] = Mine(u) \/ state[Mine(u)] = "executed"
            BY <2>1, <2>2 DEF ThreadCounts, NoneAwaited
        <3>4. Held(u) = c => state[Mine(u)] = "executed"
            BY <1>3, <3>2, <3>3, TreeAssumption
        <3> QED
            BY <1>1, <1>5, <3>1, <3>4
    <2>3. Top(u).at = "decrement" => parent'[Mine(u)] = parent[Mine(u)]
        BY <1>4, <1>5, EndingState DEF Ending, Nodes
    <2> QED
        BY <1>7, <2>1, <2>2, <2>3, OthersCount
<1>15. ChildrenKept'
    <2>1. \A q \in Tasks : Unended(q)' \subseteq Unended(q)
        BY <1>10 DEF Nodes
    <2>2. ASSUME NEW q \in Tasks, NEW j \in Unended(q)',
                 j \in Range(children[q]) \/ CutsOff(t, j, q) \/ Awaits(t, q)
          PROVE  Kept(j, q)'
        <3>1. CutsOff(t, j, q) => CutsOff(t, j, q)'
            BY <1>2, <1>7 DEF CutsOff, CuttingOff
        <3> QED
            BY <1>7, <2>2, <3>1 DEF Kept, StillAwaits
    <2> QED
        BY <1>7, <2>1, <2>2, KeptStays
<1> QED
    BY <1>11, <1>12, <1>13, <1>14, <1>15 DEF ThreadsCount

LEMMA CutOffCounts ==
    ASSUME TInv, TInv', CInv, NEW t \in AllThreads, CutOff(t) PROVE CInv'
<1>1. Top(t).at \in {"unlink_child", "unlink_captured"}
      /\ UNCHANGED <<children, counter>>
    BY DEF CutOff, Goes, tree, bounds
<1>2. PICK c \in Tasks : c = Held(t)
    BY <1>1 DEF TInv, ThreadsFit, ThreadFits, HoldsFit
<1>3. CASE /\ Top(t).at = "unlink_child" /\ state[c] = "grabbed"
           /\ Goes(t, "unlink_child", "unlink_captured", c)
           /\ state' = [state EXCEPT ![c] = "captured"] /\ UNCHANGED parent
    BY <1>1, <1>2, <1>3, CutOffCaptures
<1>4. CASE /\ Goes(t, "unlink_captured", "unlink_child", c)
           /\ parent' = [parent EXCEPT ![c] = None] /\ state' = [state EXCEPT ![c] = "grabbed"]
    BY <1>1, <1>2, <1>4, CutOffForgets
<1> QED
    BY <1>2, <1>3, <1>4 DEF CutOff

-----------------------------------------------------------------------------
(* A child is spawned.                                                     *)

\* What is kept for a task needs its execution.
LEMMA KeptIsExecuted ==
    ASSUME TInv, NEW p \in Tasks, NEW k, Kept(k, p)
    PROVE  Executed(p)
<1> USE DEF TInv
<1>1. p \in Nodes /\ p # Root /\ p # None
    BY TreeAssumption DEF Nodes
<1>2. CASE k \in Range(children[p])
    <2>1. children[p] # <<>>
        BY <1>2 DEF Range
    <2> QED
        BY <1>1, <2>1 DEF ListsFit, ListFits
<1>3. CASE \E t \in AllThreads : CutsOff(t, k, p)
    <2>1. PICK t \in AllThreads : CutsOff(t, k, p)
        BY <1>3
    <2>2. Mine(t) = p /\ Height(t) \in Calls(t) /\ At(t, Height(t)).task = p
        BY <2>1, TopIsLast DEF CutsOff, Mine
    <2>3. CASE Executes(t, Height(t))
        BY <2>2, <2>3 DEF Executed, ExecutedBy
    <2>4. CASE ~Executes(t, Height(t))
        BY <1>1, <2>2, <2>4, OuterIsLive DEF Executed
    <2> QED
        BY <2>3, <2>4
<1>4. CASE \E t \in AllThreads : Awaits(t, p)
    <2>1. PICK t \in AllThreads : Awaits(t, p)
        BY <1>4
    <2>2. PICK d \in Calls(t) : At(t, d).task = p /\ At(t, d).at \in Waiting
        BY <2>1 DEF Awaits
    <2>3. CallFits(t, d)
        BY DEF CallsFit
    <2>4. ~Executes(t, d)
        BY <2>2, <2>3 DEF CallFits, Waiting, Running, Ending, Unlinking
    <2>5. PICK e \in 1..(d - 1) : Executes(t, e) /\ At(t, e).task = p
        BY <1>1, <2>2, <2>3, <2>4 DEF CallFits
    <2>6. e \in Calls(t)
        BY TopIsLast DEF Calls
    <2> QED
        BY <2>5, <2>6 DEF Executed, ExecutedBy
<1> QED
    BY <1>2, <1>3, <1>4 DEF Kept

LEMMA CreateCounts ==
    ASSUME TInv, TInv', CInv, NEW t \in AllThreads, NEW k \in Tasks, NEW from \in {"body", "collected"},
           Create(t, from, k)
    PROVE  CInv'
<1> USE DEF TInv, CInv
<1>1. /\ current[t] # None /\ state[k] = "deallocated"
      /\ Goes(t, from, "push_type", k) /\ Top(t).at = from
      /\ state' = [state EXCEPT ![k] = "allocated"]
    BY DEF Create, Goes
<1>2. PICK p \in Nodes : p = current[t]
    BY <1>1 DEF Types
<1>3. /\ parent' = [parent EXCEPT ![k] = p]
      /\ children' = [children EXCEPT ![k] = <<>>, ![p] = Append(@, k)]
      /\ counter' = [counter EXCEPT ![k] = 0, ![p] = @ + 1]
    BY <1>2 DEF Create
<1>4. k \in Nodes /\ k # Root
    BY TreeAssumption DEF Nodes
<1>5. Lists(k) = {} /\ Handlers(k) = {} /\ ~Executed(k) /\ children[k] = <<>>
    BY <1>1, FreeTask
<1>6. (p = Root /\ t = User) \/ (p \in Tasks /\ ExecutedBy(t, p))
    <2>1. current[t] = Root => t = User
        BY DEF ThreadsFit, ThreadFits
    <2>2. current[t] \in Tasks => ExecutedBy(t, current[t])
        BY DEF ThreadsFit, ThreadFits, ExecutedBy
    <2>3. CASE p = Root
        BY <1>2, <2>1, <2>3
    <2>4. CASE p \in Tasks
        BY <1>2, <2>2, <2>4
    <2> QED
        BY <2>3, <2>4 DEF Nodes
<1>7. p # k
    BY <1>4, <1>5, <1>6 DEF Executed
<1>8. "push_type" \in Places /\ k \in Nodes \cup AllThreads \cup {None}
    BY <1>4 DEF Places, Running
<1>9. /\ Top(t)'.at = "push_type" /\ Mine(t)' = Mine(t)
      /\ \A u \in AllThreads \ {t} : stack'[u] = stack[u] /\ Top(u)' = Top(u)
      /\ \A q : StillAwaits(t, q)
    BY <1>1, <1>8, MoveAwaits DEF Waiting
<1>10. \A j \in Nodes : /\ state'[j] = IF j = k THEN "allocated" ELSE state[j]
                        /\ parent'[j] = IF j = k THEN p ELSE parent[j]
                        /\ counter'[j] = IF j = k THEN 0 ELSE IF j = p THEN counter[j] + 1 ELSE counter[j]
    BY <1>1, <1>3, <1>4, <1>7 DEF Types
<1>11. ASSUME NEW q \in Nodes, NEW j
       PROVE  j \in Range(children'[q]) <=>
                 (q # k /\ j \in Range(children[q])) \/ (q = p /\ j = k)
    <2>1. CASE q = k
        <3>1. children'[q] = <<>>
            BY <1>3, <1>4, <1>7, <2>1 DEF Types
        <3> QED
            BY <1>7, <2>1, <3>1 DEF Range
    <2>2. CASE q = p
        <3>1. PICK s \in Seq(Tasks) : s = children[p]
            BY DEF Types
        <3>2. children'[q] = Append(s, k)
            BY <1>3, <1>4, <1>7, <2>2, <3>1 DEF Types
        <3> QED
            BY <1>7, <2>2, <3>1, <3>2, ListAppend
    <2>3. CASE q # k /\ q # p
        <3>1. children'[q] = children[q]
            BY <1>3, <2>3 DEF Types
        <3> QED
            BY <2>3, <3>1
    <2> QED
        BY <2>1, <2>2, <2>3
<1>12. ~Unfinished(k)
    BY <1>1, EndingState DEF Unfinished, TopAt, Ending
<1>13. \A j \in Tasks \ {k} : Unfinished(j)' <=> Unfinished(j)
    BY <1>1, <1>9, <1>10, QuietFinish DEF Nodes
<1>14. Unfinished(k)'
    BY <1>4, <1>10 DEF Unfinished
<1>15. Unended(k) = {}
    BY <1>5, KeptIsExecuted DEF ChildrenKept
<1>16. ASSUME NEW q \in Nodes
       PROVE  Unended(q)' = IF q = p THEN Unended(q) \cup {k} ELSE Unended(q)
    <2>1. \A j \in Tasks : j \in Unended(q)' <=> j \in Unended(q) \/ (q = p /\ j = k)
        BY <1>10, <1>12, <1>13, <1>14 DEF Unended, Nodes
    <2>2. Unended(q) \subseteq Tasks /\ Unended(q)' \subseteq Tasks
        BY DEF Unended
    <2> QED
        BY <2>1, <2>2
<1>17. k \notin Unended(p)
    BY <1>12 DEF Unended
<1>18. CountersFit'
    <2>1. IsFiniteSet(Tasks) /\ Cardinality(Tasks) \in Nat
        BY TreeAssumption, FS_CardinalityType
    <2>2. CounterFits(p)'
        <3>1. IsFiniteSet(Unended(p)) /\ Cardinality(Unended(p)) \in Nat
            BY UnendedIsFinite DEF Unended
        <3>2. Cardinality(Unended(p) \cup {k}) = Cardinality(Unended(p)) + 1
            BY <1>17, <3>1, FS_AddElement
        <3>3. Unended(p)' = Unended(p) \cup {k} /\ counter'[p] = counter[p] + 1 /\ state'[p] = state[p]
            BY <1>7, <1>10, <1>16
        <3>4. CounterFits(p) /\ state[p] \in Live
            BY <1>2, CurrentIsLive DEF CountersFit
        <3>5. Cardinality(Unended(p) \cup {k}) <= Cardinality(Tasks)
            BY <2>1, FS_Subset DEF Unended
        <3> QED
            BY <2>1, <3>1, <3>2, <3>3, <3>4, <3>5 DEF CounterFits
    <2>3. CounterFits(k)'
        <3>1. Unended(k)' = {} /\ counter'[k] = 0 /\ Cardinality({}) = 0
            BY <1>4, <1>7, <1>10, <1>15, <1>16, FS_EmptySet
        <3> QED
            BY <1>1, <2>1, <3>1 DEF CounterFits
    <2>4. ASSUME NEW q \in Nodes, q # p, q # k PROVE CounterFits(q)'
        <3>1. Unended(q)' = Unended(q) /\ counter'[q] = counter[q] /\ state'[q] = state[q]
            BY <1>10, <1>16, <2>4
        <3>2. CounterFits(q)
            BY DEF CountersFit
        <3> QED
            BY <1>1, <2>1, <3>1, <3>2 DEF CounterFits
    <2> QED
        BY <2>2, <2>3, <2>4 DEF CountersFit
<1>19. ListsOwn'
    <2>1. ASSUME NEW q \in Nodes, NEW j \in Range(children'[q]) PROVE parent'[j] = q
        <3>1. CASE q = p /\ j = k
            BY <1>4, <1>10, <3>1
        <3>2. CASE j \in Range(children[q]) /\ ~(q = p /\ j = k)
            <4>1. j # k
                BY <1>5, <3>2 DEF Lists
            <4>2. j \in Nodes
                <5>1. PICK s \in Seq(Tasks) : s = children[q]
                    BY DEF Types
                <5> QED
                    BY <3>2, <5>1 DEF Range, Nodes
            <4> QED
                BY <1>10, <3>2, <4>1, <4>2 DEF ListsOwn
        <3> QED
            BY <1>11, <3>1, <3>2
    <2> QED
        BY <2>1 DEF ListsOwn
<1>20. ThreadCounts(t)'
    BY <1>9 DEF ThreadCounts, NoneAwaited, CuttingOff, Unlinking
<1>21. ASSUME NEW u \in AllThreads \ {t} PROVE ThreadCounts(u)'
    <2>1. ThreadCounts(u)
        BY DEF ThreadsCount
    <2>2. Top(u).at \in Unlinking => Mine(u) \in Nodes
        BY UnlinkingState DEF UnlinkingFits, UnlinksOwn
    <2>3. Top(u).at \in CuttingOff =>
             /\ parent'[Held(u)] = parent[Held(u)]
             /\ Held(u) \in Range(children'[Mine(u)]) => Held(u) \in Range(children[Mine(u)])
        <3> SUFFICES ASSUME Top(u).at \in CuttingOff
                     PROVE  /\ parent'[Held(u)] = parent[Held(u)]
                            /\ Held(u) \in Range(children'[Mine(u)]) => Held(u) \in Range(children[Mine(u)])
            OBVIOUS
        <3>1. Held(u) \in Nodes
            BY DEF ThreadsFit, ThreadFits, HoldsFit, CuttingOff, Nodes
        <3>2. Held(u) # k
            BY <1>5 DEF Handlers, TopAt, CuttingOff
        <3>3. Mine(u) \in Nodes
            BY <2>2 DEF CuttingOff, Unlinking
        <3> QED
            BY <1>10, <1>11, <3>1, <3>2, <3>3
    <2>4. Top(u).at = "decrement" => parent'[Mine(u)] = parent[Mine(u)]
        BY <1>1, <1>10, EndingState DEF Ending, Nodes
    <2>5. ASSUME NoneAwaited(u), counter[Mine(u)] = 0
          PROVE  counter'[Mine(u)] = 0
        <3>1. ~Executes(u, Height(u)) /\ Mine(u) \in Nodes
            <4>1. CASE Top(u).at = "disarm"
                BY <4>1, WaiterIsLive
            <4>2. CASE Top(u).at \in Unlinking /\ state[Mine(u)] # "executed"
                BY <4>2, UnlinkingState DEF UnlinkingFits, UnlinksOwn
            <4> QED
                BY <2>5, <4>1, <4>2 DEF NoneAwaited
        <3>2. Mine(u) # p
            <4>1. CASE p = Root
                <5>1. TopFits(u)
                    BY CallsFitTop
                <5>2. Mine(u) = Root => u = User
                    BY <3>1, <5>1, TreeAssumption DEF TopFits, Nodes
                <5> QED
                    BY <1>4, <1>6, <4>1, <5>2, TreeAssumption
            <4>2. CASE p # Root
                <5>1. p \in Tasks /\ ExecutedBy(t, p)
                    BY <1>6, <4>2
                <5>2. Mine(u) = p => ExecutedBy(u, p)
                    BY <3>1, <5>1, OuterIsLive
                <5> QED
                    BY <5>1, <5>2 DEF ExecutedBy, OneExecution
            <4> QED
                BY <4>1, <4>2
        <3> QED
            BY <1>10, <2>5, <3>1, <3>2
    <2> QED
        BY <1>9, <2>1, <2>3, <2>4, <2>5, OthersCount
<1>22. ASSUME NEW q \in Tasks, NEW j \in Unended(q)' PROVE Kept(j, q)'
    <2>1. q \in Nodes
        BY DEF Nodes
    <2>2. CASE q = p /\ j = k
        BY <1>11, <2>1, <2>2 DEF Kept
    <2>3. CASE ~(q = p /\ j = k)
        <3>1. j \in Unended(q)
            BY <1>16, <2>1, <2>3
        <3>2. Kept(j, q)
            BY <3>1 DEF ChildrenKept
        <3>3. CASE j \in Range(children[q])
            <4>1. q # k
                BY <1>5, <3>3 DEF Range
            <4> QED
                BY <1>11, <2>1, <3>3, <4>1 DEF Kept
        <3>4. CASE \E u \in AllThreads : CutsOff(u, j, q) \/ Awaits(u, q)
            <4>1. PICK u \in AllThreads : CutsOff(u, j, q) \/ Awaits(u, q)
                BY <3>4
            <4>2. CASE u = t
                BY <1>1, <1>9, <4>1, <4>2 DEF CutsOff, CuttingOff, Kept, StillAwaits
            <4>3. CASE u # t
                <5>1. CutsOff(u, j, q)' <=> CutsOff(u, j, q)
                    BY <1>9, <4>3 DEF CutsOff, Top, Mine, Held
                <5>2. Awaits(u, q)' <=> Awaits(u, q)
                    BY <1>9, <4>3 DEF Awaits, Calls, Height, At
                <5> QED
                    BY <4>1, <5>1, <5>2 DEF Kept
            <4> QED
                BY <4>2, <4>3
        <3> QED
            BY <3>2, <3>3, <3>4 DEF Kept
    <2> QED
        BY <2>2, <2>3
<1> QED
    BY <1>18, <1>19, <1>20, <1>21, <1>22 DEF ThreadsCount, ChildrenKept

LEMMA SpawnCounts ==
    ASSUME TInv, TInv', CInv, NEW t \in AllThreads, NEW k \in Tasks, Spawn(t, k) PROVE CInv'
BY CreateCounts DEF Spawn

LEMMA AllocateAgainCounts ==
    ASSUME TInv, TInv', CInv, NEW t \in AllThreads, AllocateAgain(t) PROVE CInv'
BY CreateCounts DEF AllocateAgain

-----------------------------------------------------------------------------
(* Children are counted in every reachable state.                          *)

LEMMA CountsInit == Init => CInv
<1> SUFFICES ASSUME Init PROVE CInv
    OBVIOUS
<1>1. TInv
    BY TaskTreeInit
<1>2. \A p \in Nodes : /\ parent[p] = None /\ children[p] = <<>> /\ counter[p] = 0
    BY DEF Init
<1>3. \A t \in AllThreads : Top(t).at \in {"body", "idle"}
    <2>1. \A t \in AllThreads : stack[t] = <<Frame(Root, "body", None)>> \/ stack[t] = <<Frame(None, "idle", None)>>
        BY DEF Init
    <2>2. \A f : Head(<<f>>) = f
        OBVIOUS
    <2> QED
        BY <2>1, <2>2 DEF Top, Frame
<1>4. \A p \in Nodes : Unended(p) = {}
    BY <1>2, TreeAssumption DEF Unended, Nodes
<1>5. CountersFit
    <2>1. Cardinality(Tasks) \in Nat /\ Cardinality({}) = 0
        BY FS_EmptySet, TreeAssumption, FS_CardinalityType
    <2>2. ASSUME NEW p \in Nodes PROVE CounterFits(p)
        <3>1. Cardinality(Unended(p)) = 0 /\ counter[p] = 0
            BY <1>2, <1>4, <2>1
        <3> QED
            BY <2>1, <3>1 DEF CounterFits
    <2> QED
        BY <2>2 DEF CountersFit
<1>6. ListsOwn
    BY <1>2 DEF ListsOwn, Range
<1>7. ThreadsCount
    BY <1>3 DEF ThreadsCount, ThreadCounts, NoneAwaited, CuttingOff, Unlinking
<1>8. ChildrenKept
    BY <1>4 DEF ChildrenKept, Nodes
<1> QED
    BY <1>5, <1>6, <1>7, <1>8 DEF CInv

LEMMA StillCounts == ASSUME CInv, UNCHANGED running PROVE CInv'
<1> USE DEF running, nodes, tree, queues, bounds, CInv
<1>1. \A t : Top(t)' = Top(t) /\ Mine(t)' = Mine(t) /\ Held(t)' = Held(t)
    BY DEF Top, Mine, Held
<1>2. \A k : Unfinished(k)' <=> Unfinished(k)
    BY <1>1 DEF Unfinished, TopAt
<1>3. \A p : Unended(p)' = Unended(p)
    BY <1>2, SameUnended
<1>4. CountersFit'
    BY <1>3, CountersStay
<1>5. ListsOwn'
    BY DEF ListsOwn
<1>6. ThreadsCount'
    BY <1>1 DEF ThreadsCount, ThreadCounts, NoneAwaited
<1>7. \A k, p : Kept(k, p)' <=> Kept(k, p)
    <2>1. \A t, p : Awaits(t, p)' <=> Awaits(t, p)
        BY DEF Awaits, Calls, Height, At
    <2>2. \A t, k, p : CutsOff(t, k, p)' <=> CutsOff(t, k, p)
        BY <1>1 DEF CutsOff
    <2> QED
        BY <2>1, <2>2 DEF Kept
<1>8. ChildrenKept'
    BY <1>3, <1>7 DEF ChildrenKept
<1> QED
    BY <1>4, <1>5, <1>6, <1>8

LEMMA CountsStep == TInv /\ CInv /\ [Next]_vars => CInv'
<1> SUFFICES ASSUME TInv, CInv, [Next]_vars PROVE CInv'
    OBVIOUS
<1>1. TInv'
    BY TaskTreeStep
<1>2. CASE Next
    <2>1. PICK t \in AllThreads : \/ Stop(t) \/ Move(t) \/ StartWait(t) \/ StartCollecting(t)
                                  \/ \E k \in Tasks : Spawn(t, k)
        BY <1>2 DEF Next, Run, Decide
    <2>2. CASE Move(t)
        BY <1>1, <2>2, CollectPendingCounts, CollectTypedCounts, DropCollectedCounts,
           AllocateAgainCounts, PushTypeCounts, PopQueueCounts, PopChildCounts, TryGrabCounts,
           WaitForCurrentCounts, NoMoreChildrenCounts, AfterChildCounts, ArmCounts, CheckCounts,
           AwaitCounts, DisarmCounts, ReturnCounts, CaptureCounts, DecrementCounts, RecheckCounts,
           LookCounts, RereadCounts, SignalCounts, MarkCounts, UnlinkNextCounts, CutOffCounts,
           ChildExecutedCounts, EndWaitCounts, ReleaseCounts DEF Move
    <2>3. CASE StartWait(t)
        BY <1>1, <2>3, StartWaitCounts
    <2>4. CASE \E k \in Tasks : Spawn(t, k)
        BY <1>1, <2>4, SpawnCounts
    <2>5. CASE StartCollecting(t)
        BY <1>1, <2>5, StartCollectingCounts
    <2>6. CASE Stop(t)
        BY <2>6, StillCounts DEF Stop
    <2> QED
        BY <2>1, <2>2, <2>3, <2>4, <2>5, <2>6
<1>3. CASE UNCHANGED vars
    BY <1>3, StillCounts DEF vars
<1> QED
    BY <1>2, <1>3

\* Every reachable state satisfies both invariants.
THEOREM TaskCountsInvariant == Spec => [](TInv /\ CInv)
<1>1. Init => TInv /\ CInv
    BY TaskTreeInit, CountsInit
<1>2. TInv /\ CInv /\ [Next]_vars => (TInv /\ CInv)'
    BY TaskTreeStep, CountsStep
<1> QED
    BY <1>1, <1>2, PTL DEF Spec

\* The variables keep their types; m_child_counter never falls below 0, and what
\* was spawned bounds it (spawn_task, on_child_task_ended).
THEOREM TaskTreeTypeCorrect == Spec => []TypeOK
<1>1. TInv /\ CInv /\ stopped \in BOOLEAN => TypeOK
    <2> SUFFICES ASSUME TInv, CInv, stopped \in BOOLEAN PROVE TypeOK
        OBVIOUS
    <2>1. ASSUME NEW p \in Nodes PROVE counter[p] \in 0..Cardinality(Tasks)
        <3>1. CounterFits(p) /\ Cardinality(Tasks) \in Nat
            BY TreeAssumption, FS_CardinalityType DEF CInv, CountersFit
        <3>2. Cardinality(Unended(p)) \in Nat
            BY UnendedIsFinite DEF Unended
        <3> QED
            BY <3>1, <3>2 DEF CounterFits
    <2>2. counter \in [Nodes -> 0..Cardinality(Tasks)]
        BY <2>1 DEF TInv, Types
    <2> QED
        BY <2>2 DEF TInv, Types, StackOK, TypeOK
<1>2. Init => stopped \in BOOLEAN
    BY DEF Init
<1>3. stopped \in BOOLEAN /\ [Next]_vars => (stopped \in BOOLEAN)'
    BY DEF Next, Run, Decide, Stop, vars
<1> QED
    BY <1>1, <1>2, <1>3, TaskCountsInvariant, PTL DEF Spec

\* While a task runs, m_child_counter is the number of its children that have
\* not got to on_child_task_ended, whoever executes them, spawns more or cuts
\* theirs off.
THEOREM TaskCounterCountsChildren == Spec => []CounterCountsChildren
<1>1. TInv /\ CInv => CounterCountsChildren
    <2> SUFFICES ASSUME TInv, CInv, NEW p \in Nodes, state[p] \in {"grabbed", "captured"}
                 PROVE  counter[p] = Cardinality({k \in Tasks : parent[k] = p /\ Unfinished(k)})
        BY DEF CounterCountsChildren
    <2> QED
        BY DEF CInv, CountersFit, CounterFits, Live, Unended
<1> QED
    BY <1>1, TaskCountsInvariant, PTL

\* Only a wait that has found the count 0 is left when no child is to be executed.
LEMMA WhoReturns ==
    ASSUME TInv, NEW t \in AllThreads, [Next]_vars, Top(t).at = "children", LeavesWait(t)
    PROVE  counter[Mine(t)] = 0
<1> USE DEF TInv
<1>1. PICK s \in Seq(FrameType) : s = stack[t] /\ Len(s) >= 1 /\ Head(s).at = "children"
    BY DEF StackOK, Height, Top
<1>2. Len(Tail(s)) = Len(s) - 1 /\ Len(s) \in Nat
    BY <1>1, PopShape
<1>3. stack'[t] # stack[t]
    <2>1. Len(Tail(s)) # Len(s)
        BY <1>2
    <2>2. Tail(s) # s
        BY <2>1
    <2>3. Head(s).at # "unlink"
        BY <1>1
    <2> QED
        BY <1>1, <2>2, <2>3 DEF LeavesWait
<1>4. ASSUME NEW from, NEW to \in Places \ {"unlink"}, NEW held \in Nodes \cup AllThreads \cup {None},
             Goes(t, from, to, held)
      PROVE  FALSE
    <2>1. PICK f \in FrameType : f = Frame(Mine(t), to, held)
        BY TopIsLast DEF FrameType, Frame, Mine
    <2>2. Replaces(t, f) /\ f.at = to
        BY <1>4, <2>1 DEF Goes, Replaces, Frame
    <2>3. Height(t)' = Height(t) /\ Top(t)' = f
        BY <2>2, Replaced
    <2>4. CASE stack'[t] = Tail(stack[t])
        BY <1>1, <1>2, <2>3, <2>4 DEF Height
    <2>5. CASE Head(stack'[t]).at = "unlink"
        BY <2>2, <2>3, <2>5 DEF Top
    <2> QED
        BY <2>4, <2>5 DEF LeavesWait
<1>5. PICK u \in AllThreads : \/ Move(u) \/ StartWait(u) \/ StartCollecting(u)
                              \/ \E k \in Tasks : Spawn(u, k)
    BY <1>3 DEF vars, running, Next, Run, Decide, Stop
<1>6. u = t
    <2> SUFFICES ASSUME u # t PROVE stack'[t] = stack[t]
        BY <1>3
    <2>1. \A from, to, held : Goes(u, from, to, held) => stack'[t] = stack[t]
        BY DEF Goes, StackOK
    <2>2. WaitDone(u) => stack'[t] = stack[t]
        BY <2>1 DEF WaitDone, StackOK
    <2>3. StartWait(u) \/ StartCollecting(u) \/ (\E k \in Tasks : Spawn(u, k)) => stack'[t] = stack[t]
        BY <2>1 DEF StartWait, StartCollecting, Spawn, Create, StackOK
    <2>4. TryGrab(u) \/ EndWait(u) \/ Release(u) => stack'[t] = stack[t]
        BY <2>1 DEF TryGrab, EndWait, Release, StackOK
    <2>5. NoMoreChildren(u) \/ Disarm(u) => stack'[t] = stack[t]
        BY <2>1, <2>2 DEF NoMoreChildren, Disarm
    <2>6. PushType(u) \/ PopQueue(u) \/ PopChild(u) \/ WaitForCurrent(u) \/ AfterChild(u) \/ Arm(u)
             \/ Check(u) \/ Await(u) => stack'[t] = stack[t]
        BY <2>1 DEF PushType, PopQueue, PopChild, WaitForCurrent, AfterChild, Arm, Check, Await
    <2>7. Return(u) \/ Capture(u) \/ Decrement(u) \/ Recheck(u) \/ Signal(u) \/ Mark(u)
             \/ UnlinkNext(u) \/ CutOff(u) \/ ChildExecuted(u) => stack'[t] = stack[t]
        BY <2>1 DEF Return, Capture, Decrement, Recheck, Signal, Mark, UnlinkNext, CutOff, ChildExecuted
    <2>8. Look(u) \/ Reread(u) \/ CollectPending(u) \/ CollectTyped(u) \/ DropCollected(u)
             \/ AllocateAgain(u) => stack'[t] = stack[t]
        BY <2>1 DEF Look, Reread, CollectPending, CollectTyped, DropCollected, AllocateAgain, Create
    <2> QED
        BY <1>5, <2>3, <2>4, <2>5, <2>6, <2>7, <2>8 DEF Move
<1>7. NoMoreChildren(t) \/ PopChild(t)
    <2>1. ~CollectPending(t) /\ ~CollectTyped(t) /\ ~DropCollected(t) /\ ~AllocateAgain(t)
          /\ ~StartWait(t) /\ ~StartCollecting(t) /\ ~(\E k \in Tasks : Spawn(t, k))
        BY DEF CollectPending, CollectTyped, DropCollected, AllocateAgain, StartWait, StartCollecting,
               Spawn, Create, Goes
    <2>2. ~PushType(t) /\ ~PopQueue(t) /\ ~TryGrab(t) /\ ~WaitForCurrent(t) /\ ~AfterChild(t)
          /\ ~Arm(t) /\ ~Check(t) /\ ~Await(t) /\ ~Disarm(t) /\ ~Return(t) /\ ~Capture(t)
        BY DEF PushType, PopQueue, TryGrab, WaitForCurrent, AfterChild, Arm, Check, Await, Disarm,
               Return, Capture, Goes
    <2>3. ~Decrement(t) /\ ~Recheck(t) /\ ~Look(t) /\ ~Reread(t) /\ ~Signal(t) /\ ~Mark(t)
          /\ ~UnlinkNext(t) /\ ~CutOff(t) /\ ~ChildExecuted(t) /\ ~EndWait(t) /\ ~Release(t)
        BY DEF Decrement, Recheck, Look, Reread, Signal, Mark, UnlinkNext, CutOff, ChildExecuted,
               EndWait, Release, Goes
    <2> QED
        BY <1>5, <1>6, <2>1, <2>2, <2>3 DEF Move
<1>8. CASE NoMoreChildren(t)
    BY <1>4, <1>8 DEF NoMoreChildren, Places, Waiting
<1>9. CASE PopChild(t)
    <2>1. Mine(t) \in Nodes /\ children[Mine(t)] # <<>>
        BY <1>9, CallsFitTop, TopIsLast
           DEF PopChild, TopFits, Running, Ending, Unlinking, FrameType, Mine
    <2>2. PICK c \in Tasks : c = Head(children[Mine(t)])
        BY <2>1 DEF Types
    <2>3. Goes(t, "children", "try_grab", c)
        BY <1>9, <2>2 DEF PopChild
    <2> QED
        BY <1>4, <2>3 DEF Places, Waiting, Nodes
<1> QED
    BY <1>7, <1>8, <1>9

\* A wait that has seen the counter at 0 has all children of its task ended, and
\* gets no new one until it returns: for that, nobody else may spawn for the task.
\* So the R_ASSERT of tasks_thread_pool.cpp:250 holds where the wait did not sleep.
THEOREM TaskWaitCollectsChildren == Spec => WaitCollectsChildren
<1> DEFINE Seen ==
        \A t \in TopAt({"disarm"} \cup Unlinking) :
           state[Mine(t)] # "executed" => counter[Mine(t)] = 0 /\ Collected(Mine(t))
    Leaves ==
        \A t \in AllThreads : Top(t).at = "children" /\ LeavesWait(t) => Collected(Mine(t))
<1>1. TInv /\ CInv => Seen
    <2> SUFFICES ASSUME TInv, CInv, NEW t \in TopAt({"disarm"} \cup Unlinking), state[Mine(t)] # "executed"
                 PROVE  counter[Mine(t)] = 0 /\ Collected(Mine(t))
        OBVIOUS
    <2> USE DEF TInv, CInv
    <2>1. counter[Mine(t)] = 0
        BY DEF TopAt, ThreadsCount, ThreadCounts, NoneAwaited
    <2>2. Mine(t) \in Nodes /\ state[Mine(t)] \in Live
        <3>1. CASE Top(t).at = "disarm"
            BY <3>1, WaiterIsLive DEF TopAt
        <3>2. CASE Top(t).at \in Unlinking
            BY <3>2, UnlinkingState DEF TopAt, UnlinkingFits, UnlinksOwn, Live
        <3> QED
            BY <3>1, <3>2 DEF TopAt
    <2> QED
        BY <2>1, <2>2, NoneLeft DEF Collected, Unended
<1>2. TInv /\ CInv /\ [Next]_vars => [Leaves]_vars
    <2> SUFFICES ASSUME TInv, CInv, [Next]_vars, NEW t \in AllThreads,
                        Top(t).at = "children", LeavesWait(t)
                 PROVE  Collected(Mine(t))
        OBVIOUS
    <2>1. counter[Mine(t)] = 0
        BY WhoReturns
    <2>2. Mine(t) \in Nodes /\ state[Mine(t)] \in Live
        BY WaiterIsLive DEF TInv
    <2> QED
        BY <2>1, <2>2, NoneLeft DEF CInv, Collected, Unended
<1> QED
    BY <1>1, <1>2, TaskCountsInvariant, PTL DEF Spec, WaitCollectsChildren
=============================================================================
