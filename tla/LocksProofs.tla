---------------------------- MODULE LocksProofs ----------------------------
(***************************************************************************)
(* Proofs about ReaderWriterLock, the lock of one folder of the vfs        *)
(* (NodeLock) and the locks of branches (BranchLocks), as MCLocks          *)
(* instantiates them, for any finite set of threads, any nesting bound and *)
(* any tree of folders.                                                    *)
(*                                                                         *)
(* The word of a reader_writer_lock always counts the owners               *)
(* (WordCountsOwners), but that alone is not inductive: an exchange is     *)
(* justified by a decision taken on a copy some steps earlier.  LInv adds  *)
(* what a pending call remembers: the decision still describes the copy,   *)
(* and the caller still owns what it is about to release.                  *)
(*                                                                         *)
(* For the folder, the word counts the holders of each mode and the modes  *)
(* held together are compatible; one needs the other, since a decision     *)
(* reads counts and promises something about holders.  NInv adds that a    *)
(* thread in unlock still holds what it is about to subtract.  Nothing     *)
(* needs to be remembered of a decision: the exchange succeeds only on the *)
(* word it was taken on.                                                   *)
(*                                                                         *)
(* For branches, that a written branch is nobody else's follows from the   *)
(* locks of single folders only if every operation holds, at every moment, *)
(* what the call it is in has left it: BInv says for each call which part  *)
(* of which path is locked, and how.                                       *)
(***************************************************************************)
EXTENDS MCLocks, FiniteSetTheorems, WellFoundedInduction, TLAPS

\* What a thread inside an operation knows of its copy and of itself.
CallRemembers(t) ==
    /\ call[t].op \in {"lock_read", "try_lock_read"} => ~reading[t]
    /\ call[t].op = "unlock_read"  => reading[t]
    /\ call[t].op = "unlock_write" => writing[t] > 0
    /\ call[t].op \in {"lock_write", "try_lock_write"} => writing[t] < MaxDepth
    /\ call[t].at = "exchange" => Decision(t, call[t].op, copy[t])

\* The counts exclude each other.
CountsExclude == word.readers = 0 \/ word.writers = 0

\* Nesting stays within the bound, so writers_count has room for it.
NestingBounded == \A t \in Threads : writing[t] <= MaxDepth

LInv ==
    /\ TypeOK
    /\ WordCountsOwners
    /\ CountsExclude
    /\ NestingBounded
    /\ \A t \in Threads : CallRemembers(t)

-----------------------------------------------------------------------------
(* Set facts.                                                              *)

\* A group of threads is finite, and empty exactly when it counts 0.
LEMMA GroupCardinality ==
    ASSUME NEW S \in SUBSET Threads
    PROVE  /\ IsFiniteSet(S)
           /\ Cardinality(S) \in Nat
           /\ Cardinality(S) = 0 <=> S = {}
BY ThreadsAssumption, FS_Subset, FS_CardinalityType, FS_EmptySet

\* No group of threads overflows a counter of the word.
LEMMA GroupFits ==
    ASSUME NEW S \in SUBSET Threads
    PROVE  Cardinality(S) < CountLimit
<1>1. Cardinality(S) <= Cardinality(Threads) /\ Cardinality(S) \in Nat /\ Cardinality(Threads) \in Nat
    BY ThreadsAssumption, FS_Subset, FS_CardinalityType, GroupCardinality
<1> QED
    BY <1>1, WidthAssumption

\* The word of a free lock is a word: its counts are below CountLimit.
LEMMA FreeWordIsWord == FreeWord \in Words
BY GroupFits, GroupCardinality, WidthAssumption DEF FreeWord, Word, Words

\* One more thread in the group counts one more.
LEMMA GroupGrows ==
    ASSUME NEW S \in SUBSET Threads, NEW t \in Threads, t \notin S
    PROVE  Cardinality(S \cup {t}) = Cardinality(S) + 1
BY GroupCardinality, FS_AddElement

\* One thread less in the group counts one less.
LEMMA GroupShrinks ==
    ASSUME NEW S \in SUBSET Threads, NEW t \in S
    PROVE  Cardinality(S \ {t}) = Cardinality(S) - 1
BY GroupCardinality, FS_RemoveElement

-----------------------------------------------------------------------------
(* Type correctness and the inductive invariant.                           *)

\* The initial state satisfies the invariant.
LEMMA InitLInv == Init => LInv
<1> SUFFICES ASSUME Init PROVE LInv
    OBVIOUS
<1>1. TypeOK
    BY WidthAssumption, GroupCardinality DEF Init, TypeOK, Calls, Idle, Words, FreeWord, Word
<1>2. Readers = {}
    BY DEF Init, Readers
<1>3. WordCountsOwners
    BY <1>2, GroupCardinality, ThreadsAssumption DEF Init, WordCountsOwners, FreeWord, Word
<1>4. CountsExclude /\ NestingBounded /\ \A t \in Threads : CallRemembers(t)
    BY WidthAssumption DEF Init, CountsExclude, NestingBounded, CallRemembers, FreeWord, Word, Idle
<1> QED
    BY <1>1, <1>3, <1>4 DEF LInv

\* Entering an operation touches nothing but the caller's call.
LEMMA BeginLInv ==
    ASSUME LInv, NEW t \in Threads, NEW op \in Operations, Begin(t, op)
    PROVE  LInv'
<1> USE DEF LInv
<1>1. TypeOK'
    BY DEF TypeOK, Begin, GoesTo, Calls
<1>2. WordCountsOwners' /\ CountsExclude' /\ NestingBounded'
    BY DEF Begin, WordCountsOwners, CountsExclude, NestingBounded, Readers
<1>3. ASSUME NEW u \in Threads PROVE CallRemembers(u)'
    <2>1. CASE u = t
        BY <2>1 DEF Begin, GoesTo, TypeOK, CallRemembers, MayCall, Operations
    <2>2. CASE u # t
        BY <2>2 DEF Begin, GoesTo, TypeOK, CallRemembers, Word, Decision, ReadMayEnter, WriteMayEnter
    <2> QED
        BY <2>1, <2>2
<1> QED
    BY <1>1, <1>2, <1>3

\* The steps that change only the call and the copy of one thread.
LEMMA LocalLInv ==
    ASSUME LInv, NEW t \in Threads,
           LoadCounts(t) \/ LoadOwner(t) \/ ExchangeFails(t)
    PROVE  LInv'
<1> USE DEF LInv
<1>1. UNCHANGED <<word, reading, writing>>
    BY DEF LoadCounts, LoadOwner, ExchangeFails
<1>2. TypeOK'
    <2>1. CASE LoadCounts(t)
        BY <2>1 DEF LoadCounts, GoesTo, Word, TypeOK, Calls, Words, Idle, Operations
    <2>2. CASE LoadOwner(t)
        BY <2>2, FreeWordIsWord DEF LoadOwner, GoesTo, GivesUpOrRetries, Returns, Forgets,
               Word, TypeOK, Calls, Words, Idle, Operations
    <2>3. CASE ExchangeFails(t)
        BY <2>3, FreeWordIsWord DEF ExchangeFails, GoesTo, GivesUpOrRetries, Returns, Forgets,
               TypeOK, Calls, Idle, Operations
    <2> QED
        BY <2>1, <2>2, <2>3
<1>3. WordCountsOwners' /\ CountsExclude' /\ NestingBounded'
    BY <1>1 DEF WordCountsOwners, CountsExclude, NestingBounded, Readers
<1>4. ASSUME NEW u \in Threads PROVE CallRemembers(u)'
    <2>1. CASE u # t
        BY <1>1, <2>1 DEF LoadCounts, LoadOwner, ExchangeFails, GoesTo, GivesUpOrRetries,
                          Returns, Forgets, TypeOK, CallRemembers,
                          Decision, ReadMayEnter, WriteMayEnter
    <2>2. CASE u = t /\ LoadCounts(t)
        BY <2>2 DEF LoadCounts, GoesTo, Word, TypeOK, Calls, Idle, CallRemembers
    <2>3. CASE u = t /\ LoadOwner(t)
        BY <2>3 DEF LoadOwner, GoesTo, GivesUpOrRetries, Returns, Forgets, FreeWord, Word, TypeOK, Calls, Idle, CallRemembers
    <2>4. CASE u = t /\ ExchangeFails(t)
        BY <2>4 DEF ExchangeFails, GoesTo, GivesUpOrRetries, Returns, Forgets, FreeWord, Word, TypeOK, Calls, Idle, CallRemembers
    <2> QED
        BY <2>1, <2>2, <2>3, <2>4
<1> QED
    BY <1>2, <1>3, <1>4

\* The frame of every successful exchange: the other threads' calls and copies.
LEMMA ExchangeFrame ==
    ASSUME LInv, NEW t \in Threads, Exchange(t)
    PROVE  /\ call[t].at = "exchange" /\ word = copy[t]
           /\ call' = [call EXCEPT ![t] = Idle]
           /\ \A u \in Threads \ {t} :
                 UNCHANGED <<call[u], copy[u], reading[u], writing[u]>>
BY DEF LInv, TypeOK, Exchange, EnterRead, EnterWrite, LeaveRead, LeaveWrite, Exchanging, Returns, Forgets

\* A reader that enters: he is counted once, next to other readers only.
LEMMA EnterReadLInv ==
    ASSUME LInv, NEW t \in Threads, EnterRead(t)
    PROVE  TypeOK' /\ WordCountsOwners' /\ CountsExclude' /\ NestingBounded'
<1> USE DEF LInv
<1>1. ~reading[t] /\ word.writers = 0
    BY DEF EnterRead, Exchanging, CallRemembers, Word, Decision, ReadMayEnter
<1>2. word' = Word(Up(word.readers), word.writers, word.owner) /\ writing' = writing
    BY DEF EnterRead, Exchanging, WithReader
<1>3. TypeOK'
    <2>1. word' \in Words
        BY <1>2, WidthAssumption DEF Up, Word, TypeOK, Words
    <2> QED
        BY <2>1, FreeWordIsWord DEF EnterRead, Exchanging, Returns, Forgets, TypeOK, Calls
<1>4. Cardinality(Readers') = Cardinality(Readers) + 1
    <2>1. Readers' = Readers \cup {t} /\ t \notin Readers /\ Readers \subseteq Threads
        BY <1>1 DEF EnterRead, TypeOK, Readers
    <2> QED
        BY <2>1, GroupGrows
<1>5. Up(word.readers) = word.readers + 1
    <2>1. Readers' \in SUBSET Threads
        BY DEF Readers, EnterRead, TypeOK
    <2>2. Cardinality(Readers') < CountLimit
        BY <2>1, GroupFits
    <2> QED
        BY <1>4, <2>2, WidthAssumption DEF Up, WordCountsOwners, TypeOK, Words
<1>6. WordCountsOwners' /\ CountsExclude' /\ NestingBounded'
    BY <1>1, <1>2, <1>4, <1>5 DEF TypeOK, Words, Word, WordCountsOwners, CountsExclude, NestingBounded
<1> QED
    BY <1>3, <1>6

\* A reader that leaves was counted.
LEMMA LeaveReadLInv ==
    ASSUME LInv, NEW t \in Threads, LeaveRead(t)
    PROVE  TypeOK' /\ WordCountsOwners' /\ CountsExclude' /\ NestingBounded'
<1> USE DEF LInv
<1>1. t \in Readers /\ Readers \subseteq Threads
    BY DEF LeaveRead, Exchanging, CallRemembers, Readers
<1>2. word' = Word(Down(word.readers), word.writers, word.owner) /\ writing' = writing
    BY DEF LeaveRead, Exchanging, WithoutReader
<1>3. word.readers \in Nat \ {0}
    BY <1>1, GroupCardinality DEF WordCountsOwners, TypeOK, Words
<1>4. TypeOK'
    <2>1. word' \in Words
        BY <1>2, <1>3, WidthAssumption DEF Down, Word, TypeOK, Words
    <2> QED
        BY <2>1, FreeWordIsWord DEF LeaveRead, Exchanging, Returns, Forgets, TypeOK, Calls
<1>5. Cardinality(Readers') = Cardinality(Readers) - 1
    <2>1. Readers' = Readers \ {t}
        BY DEF LeaveRead, TypeOK, Readers
    <2> QED
        BY <1>1, <2>1, GroupShrinks
<1>6. WordCountsOwners' /\ CountsExclude' /\ NestingBounded'
    BY <1>2, <1>3, <1>5 DEF Down, TypeOK, Words, Word, WordCountsOwners, CountsExclude, NestingBounded
<1> QED
    BY <1>4, <1>6

\* A writer that enters is alone, or nests in his own lock.
LEMMA EnterWriteLInv ==
    ASSUME LInv, NEW t \in Threads, EnterWrite(t)
    PROVE  TypeOK' /\ WordCountsOwners' /\ CountsExclude' /\ NestingBounded'
<1> USE DEF LInv
<1>1. word.readers = 0 /\ word.owner \in {t, NoThread}
    BY DEF EnterWrite, Exchanging, CallRemembers, Word, Decision, WriteMayEnter
<1>2. word' = Word(word.readers, Up(word.writers), t)
    BY DEF EnterWrite, Exchanging, WithWriter, TypeOK, Words
<1>3. writing' = [writing EXCEPT ![t] = @ + 1] /\ reading' = reading
    BY DEF EnterWrite
<1>4. TypeOK'
    <2>1. word' \in Words
        BY <1>2, <1>3, WidthAssumption DEF Up, Word, TypeOK, Words
    <2> QED
        BY <2>1, FreeWordIsWord DEF EnterWrite, Exchanging, Returns, Forgets, TypeOK, Calls
<1>5. writing[t] = word.writers
    BY <1>1, ThreadsAssumption DEF WordCountsOwners, TypeOK, Words
<1>6. writing[t] < MaxDepth /\ Up(word.writers) = word.writers + 1
    BY <1>5, WidthAssumption DEF EnterWrite, Exchanging, CallRemembers, Up, TypeOK, Words
<1>7. WordCountsOwners' /\ CountsExclude' /\ NestingBounded'
    BY <1>1, <1>2, <1>3, <1>5, <1>6, ThreadsAssumption, WidthAssumption
       DEF TypeOK, Words, Word, WordCountsOwners, CountsExclude, NestingBounded, Readers
<1> QED
    BY <1>4, <1>7

\* A writer that leaves was counted; the last release clears the owner.
LEMMA LeaveWriteLInv ==
    ASSUME LInv, NEW t \in Threads, LeaveWrite(t)
    PROVE  TypeOK' /\ WordCountsOwners' /\ CountsExclude' /\ NestingBounded'
<1> USE DEF LInv
<1>1. word.owner = t /\ word.writers = writing[t] /\ writing[t] \in Nat \ {0}
    BY DEF LeaveWrite, Exchanging, CallRemembers, WordCountsOwners, TypeOK
<1>2. word' = Word(word.readers, Down(word.writers),
                   IF word.writers = 1 THEN NoThread ELSE word.owner)
    BY DEF LeaveWrite, Exchanging, WithoutWriter, TypeOK, Words
<1>3. writing' = [writing EXCEPT ![t] = @ - 1] /\ reading' = reading
    BY DEF LeaveWrite
<1>4. TypeOK'
    <2>1. writing' \in [Threads -> Nat]
        BY <1>1, <1>3 DEF TypeOK
    <2>2. word' \in Words
        BY <1>1, <1>2, <1>3, WidthAssumption DEF Down, Word, TypeOK, Words
    <2> QED
        BY <2>1, <2>2, FreeWordIsWord DEF LeaveWrite, Exchanging, Returns, Forgets, TypeOK, Calls
<1>5. WordCountsOwners' /\ CountsExclude' /\ NestingBounded'
    BY <1>1, <1>2, <1>3, ThreadsAssumption, WidthAssumption
       DEF Down, TypeOK, Words, Word, WordCountsOwners, CountsExclude, NestingBounded, Readers
<1> QED
    BY <1>4, <1>5

\* A successful exchange, whichever operation it completes.
LEMMA ExchangeLInv ==
    ASSUME LInv, NEW t \in Threads, Exchange(t)
    PROVE  LInv'
<1>1. TypeOK' /\ WordCountsOwners' /\ CountsExclude' /\ NestingBounded'
    BY EnterReadLInv, EnterWriteLInv, LeaveReadLInv, LeaveWriteLInv DEF Exchange
<1>2. ASSUME NEW u \in Threads PROVE CallRemembers(u)'
    <2>1. CASE u = t
        BY <2>1, ExchangeFrame DEF LInv, TypeOK, CallRemembers, Idle
    <2>2. CASE u # t
        BY <2>2, ExchangeFrame DEF LInv, CallRemembers, Word, Decision, ReadMayEnter, WriteMayEnter
    <2> QED
        BY <2>1, <2>2
<1> QED
    BY <1>1, <1>2 DEF LInv

\* The invariant depends on the variables only.
LEMMA StutterLInv == LInv /\ UNCHANGED vars => LInv'
BY DEF LInv, vars, TypeOK, WordCountsOwners, CountsExclude, NestingBounded, CallRemembers, Readers,
       Decision, ReadMayEnter, WriteMayEnter

\* Every step keeps the inductive invariant.
LEMMA NextLInv == LInv /\ [Next]_vars => LInv'
<1> SUFFICES ASSUME LInv, [Next]_vars PROVE LInv'
    OBVIOUS
<1>1. ASSUME NEW t \in Threads, Work(t) PROVE LInv'
    BY <1>1, LocalLInv, ExchangeLInv DEF Work
<1>2. ASSUME NEW t \in Threads, NEW op \in Operations, Begin(t, op) PROVE LInv'
    BY <1>2, BeginLInv
<1>3. CASE UNCHANGED vars
    BY <1>3, StutterLInv
<1> QED
    BY <1>1, <1>2, <1>3 DEF Next

\* Every reachable state satisfies the inductive invariant.
THEOREM Invariance == Spec => []LInv
BY InitLInv, NextLInv, PTL DEF Spec

-----------------------------------------------------------------------------
(* What the invariant gives.                                               *)

\* The variables keep their types; in particular no count of the word ever
\* underflows (threading_reader_writer_lock.cpp:97 and 124).
THEOREM TypeCorrect == Spec => []TypeOK
<1>1. LInv => TypeOK
    BY DEF LInv
<1> QED
    BY <1>1, Invariance, PTL

\* For any number of threads and any nesting, a writer is alone, although the
\* decision to enter is taken on a copy of the word that may mix two states.
THEOREM ExclusionHolds == Spec => []MutualExclusion
<1>1. LInv => MutualExclusion
    <2> SUFFICES ASSUME LInv PROVE MutualExclusion
        OBVIOUS
    <2>1. Writers \subseteq {word.owner}
        BY DEF Writers, LInv, WordCountsOwners
    <2>2. Cardinality(Writers) <= 1
        <3>1. IsFiniteSet({word.owner}) /\ Cardinality({word.owner}) = 1
            BY FS_Singleton
        <3> QED
            BY <2>1, <3>1, FS_Subset
    <2>3. ASSUME Writers # {} PROVE Readers = {}
        <3>1. word.writers # 0
            BY <2>3 DEF Writers, LInv, TypeOK, Words, WordCountsOwners
        <3>2. Cardinality(Readers) = 0 /\ Readers \subseteq Threads
            BY <3>1 DEF LInv, CountsExclude, WordCountsOwners, Readers
        <3> QED
            BY <3>2, GroupCardinality
    <2> QED
        BY <2>2, <2>3 DEF MutualExclusion
<1> QED
    BY <1>1, Invariance, PTL

\* The counters agree with the owners in every reachable state.
THEOREM CountsHold == Spec => []WordCountsOwners
<1>1. LInv => WordCountsOwners
    BY DEF LInv
<1> QED
    BY <1>1, Invariance, PTL

\* No assertion of unlock_read or unlock_write can fire.
THEOREM AssertionsHold == Spec => []UnlockAssertions
<1>1. LInv => UnlockAssertions
    <2> SUFFICES ASSUME LInv, NEW t \in Threads
                 PROVE  /\ call[t].op = "unlock_read"  => word.readers # 0 /\ word.writers = 0
                        /\ call[t].op = "unlock_write" => word.writers # 0 /\ word.owner = t
        BY DEF UnlockAssertions
    <2>1. ASSUME call[t].op = "unlock_read" PROVE word.readers # 0 /\ word.writers = 0
        <3>1. t \in Readers /\ Readers \subseteq Threads
            BY <2>1 DEF LInv, CallRemembers, Readers
        <3> QED
            BY <3>1, GroupCardinality DEF LInv, WordCountsOwners, CountsExclude, NestingBounded
    <2>2. ASSUME call[t].op = "unlock_write" PROVE word.writers # 0 /\ word.owner = t
        BY <2>2 DEF LInv, TypeOK, CallRemembers, WordCountsOwners
    <2> QED
        BY <2>1, <2>2
<1> QED
    BY <1>1, Invariance, PTL

-----------------------------------------------------------------------------
(* The lock implements its promise.                                        *)

\* A successful exchange is the one visible step of its operation, and the
\* promise allows it.
LEMMA ExchangeKeepsPromise ==
    ASSUME LInv, NEW t \in Threads, Exchange(t)
    PROVE  Promise!Next
<1> USE DEF LInv
<1>1. ASSUME EnterRead(t) PROVE Promise!AcquireRead(t)
    <2>1. ~reading[t] /\ word.writers = 0
        BY <1>1 DEF EnterRead, Exchanging, CallRemembers, Decision, ReadMayEnter
    <2>2. \A u \in Threads : writing[u] = 0
        BY <2>1 DEF WordCountsOwners
    <2> QED
        BY <1>1, <2>1, <2>2 DEF EnterRead, Promise!AcquireRead
<1>2. ASSUME EnterWrite(t) PROVE Promise!AcquireWrite(t)
    <2>1. word.readers = 0 /\ word.owner \in {t, NoThread}
        BY <1>2 DEF EnterWrite, Exchanging, CallRemembers, Decision, WriteMayEnter
    <2>2. \A u \in Threads : ~reading[u]
        BY <2>1, GroupCardinality DEF WordCountsOwners, Readers
    <2>3. \A u \in Threads \ {t} : writing[u] = 0
        BY <2>1, ThreadsAssumption DEF WordCountsOwners
    <2> QED
        BY <1>2, <2>2, <2>3 DEF EnterWrite, Promise!AcquireWrite
<1>3. ASSUME LeaveRead(t) PROVE Promise!ReleaseRead(t)
    BY <1>3 DEF LeaveRead, Exchanging, CallRemembers, Promise!ReleaseRead
<1>4. ASSUME LeaveWrite(t) PROVE Promise!ReleaseWrite(t)
    BY <1>4 DEF LeaveWrite, Exchanging, CallRemembers, Promise!ReleaseWrite
<1> QED
    BY <1>1, <1>2, <1>3, <1>4 DEF Exchange, Promise!Next

\* Every step of the code is a step of the promise or invisible to it.
LEMMA StepKeepsPromise == LInv /\ [Next]_vars => [Promise!Next]_Promise!lockVars
<1> SUFFICES ASSUME LInv, [Next]_vars PROVE [Promise!Next]_Promise!lockVars
    OBVIOUS
<1>1. ASSUME NEW t \in Threads, NEW op \in Operations, Begin(t, op)
      PROVE  UNCHANGED Promise!lockVars
    BY <1>1 DEF Begin, Promise!lockVars
<1>2. ASSUME NEW t \in Threads, LoadCounts(t) \/ LoadOwner(t) \/ ExchangeFails(t)
      PROVE  UNCHANGED Promise!lockVars
    BY <1>2 DEF LoadCounts, LoadOwner, ExchangeFails, Promise!lockVars
<1>3. ASSUME NEW t \in Threads, Exchange(t) PROVE Promise!Next
    BY <1>3, ExchangeKeepsPromise
<1>4. CASE UNCHANGED vars
    BY <1>4 DEF vars, Promise!lockVars
<1> QED
    BY <1>1, <1>2, <1>3, <1>4 DEF Next, Work

\* reader_writer_lock implements the shared/exclusive lock its users rely on.
THEOREM Implementation == Spec => ImplementsPromise
<1>1. Init => Promise!Init
    BY DEF Init, Promise!Init
<1> QED
    BY <1>1, Invariance, StepKeepsPromise, PTL DEF Spec, ImplementsPromise, Promise!Spec

-----------------------------------------------------------------------------
(* The lock of one folder.                                                 *)

\* Locks held together never exclude each other.
HeldAreCompatible ==
    \A t, u \in Threads : t # u => Node!Granular!Compatible(held[t], held[u])

\* The word counts the holders.
WordCountsHolders == \A m \in Node!Modes : counters[m] = Cardinality(Node!Holders(m))

\* unlock releases the lock its caller holds.
UnlocksItsOwn == \A t \in Threads : nodeCall[t].op = "unlock" => held[t] = nodeCall[t].mode

NInv == Node!TypeOK /\ WordCountsHolders /\ HeldAreCompatible /\ UnlocksItsOwn

-----------------------------------------------------------------------------
(* Groups of holders.                                                      *)

\* A group of threads is finite and has a size.
LEMMA GroupIsFinite ==
    ASSUME NEW S \in SUBSET Threads
    PROVE  IsFiniteSet(S) /\ Cardinality(S) \in Nat
BY ThreadsAssumption, FS_Subset, FS_CardinalityType

\* One holder counts 1 at least, two holders 2.
LEMMA HoldersAreCounted ==
    ASSUME NEW S \in SUBSET Threads, NEW t \in S
    PROVE  /\ Cardinality(S) >= 1
           /\ \A u \in S : u # t => Cardinality(S) >= 2
<1>1. Cardinality(S \ {t}) = Cardinality(S) - 1 /\ Cardinality(S \ {t}) \in Nat /\ Cardinality(S) \in Nat
    BY GroupIsFinite, FS_RemoveElement
<1>2. ASSUME NEW u \in S, u # t PROVE Cardinality(S \ {t}) # 0
    BY <1>2, GroupIsFinite, FS_EmptySet
<1> QED
    BY <1>1, <1>2

\* A thread that exchanges its lock leaves one group and joins another.
LEMMA GroupsChange ==
    ASSUME Node!TypeOK, NEW t \in Threads, NEW n \in Node!Modes \cup {Node!Unlocked}, n # held[t],
           held' = [held EXCEPT ![t] = n],
           NEW m \in Node!Modes
    PROVE  Cardinality(Node!Holders(m))' = Cardinality(Node!Holders(m))
              + (IF m = n THEN 1 ELSE 0) - (IF m = held[t] THEN 1 ELSE 0)
<1>1. Node!Holders(m) \in SUBSET Threads /\ Cardinality(Node!Holders(m)) \in Nat
    BY GroupIsFinite DEF Node!Holders
<1>2. CASE m = n
    <2>1. Node!Holders(m)' = Node!Holders(m) \cup {t} /\ t \notin Node!Holders(m)
        BY <1>2 DEF Node!Holders, Node!TypeOK
    <2> QED
        BY <1>1, <1>2, <2>1, GroupIsFinite, FS_AddElement
<1>3. CASE m = held[t]
    <2>1. Node!Holders(m)' = Node!Holders(m) \ {t} /\ t \in Node!Holders(m)
        BY <1>3 DEF Node!Holders, Node!TypeOK
    <2> QED
        BY <1>1, <1>3, <2>1, GroupIsFinite, FS_RemoveElement
<1>4. CASE m # n /\ m # held[t]
    <2>1. Node!Holders(m)' = Node!Holders(m)
        BY <1>4 DEF Node!Holders, Node!TypeOK
    <2> QED
        BY <1>1, <1>4, <2>1
<1> QED
    BY <1>2, <1>3, <1>4

\* A decision taken on the word, as it is, is about the holders: whoever passes
\* `check` may hold the mode beside all others.
LEMMA CheckMeansMayHold ==
    ASSUME NInv, NEW t \in Threads, NEW m \in Node!Modes, Node!Check(counters, held[t], m)
    PROVE  Node!Granular!MayHold(t, m)
<1> SUFFICES ASSUME NEW u \in Threads \ {t}, ~Node!Granular!Compatible(m, held[u])
             PROVE  FALSE
    BY DEF Node!Granular!MayHold
<1>1. held[t] \in Node!Modes \cup {Node!Unlocked} /\ held[u] \in Node!Modes \cup {Node!Unlocked}
    BY DEF NInv, Node!TypeOK
<1>2. held[u] \in Node!ExcludedBy(m) /\ held[u] \in Node!Modes
    BY <1>1 DEF Node!Granular!Compatible, Node!ExcludedBy, Node!Modes, Node!Unlocked, Node!Granular!Modes, Node!Granular!Unlocked
<1>3. /\ counters[held[u]] <= Node!Changed(Node!Nobody, held[t], 1)[held[u]]
      /\ counters[held[u]] = Cardinality(Node!Holders(held[u]))
      /\ counters[held[u]] \in Nat
    BY <1>2 DEF Node!Check, NInv, WordCountsHolders, Node!TypeOK
<1>4. CASE held[t] = held[u]
    <2>1. t \in Node!Holders(held[u]) /\ u \in Node!Holders(held[u])
        BY <1>4 DEF Node!Holders
    <2>2. Cardinality(Node!Holders(held[u])) >= 2
        BY <2>1, HoldersAreCounted DEF Node!Holders
    <2>3. Node!Changed(Node!Nobody, held[t], 1)[held[u]] = 1
        BY <1>2, <1>4 DEF Node!Changed, Node!Nobody, Node!Unlocked, Node!Modes, Node!Granular!Modes, Node!Granular!Unlocked
    <2> QED
        BY <1>3, <2>2, <2>3
<1>5. CASE held[t] # held[u]
    <2>1. u \in Node!Holders(held[u])
        BY DEF Node!Holders
    <2>2. Cardinality(Node!Holders(held[u])) >= 1
        BY <2>1, HoldersAreCounted DEF Node!Holders
    <2>3. Node!Changed(Node!Nobody, held[t], 1)[held[u]] = 0
        BY <1>1, <1>2, <1>5 DEF Node!Changed, Node!Nobody
    <2> QED
        BY <1>3, <2>2, <2>3
<1> QED
    BY <1>4, <1>5

\* Whom a lock tolerates tolerates it.
LEMMA CompatibleIsMutual ==
    ASSUME NEW m, NEW n, Node!Granular!Compatible(m, n)
    PROVE  Node!Granular!Compatible(n, m)
<1>1. {m, n} = {n, m}
    OBVIOUS
<1> QED
    BY <1>1 DEF Node!Granular!Compatible

-----------------------------------------------------------------------------
(* The inductive invariant.                                                *)

\* The initial state satisfies the invariant.
LEMMA InitNInv == Node!Init => NInv
<1> SUFFICES ASSUME Node!Init PROVE NInv
    OBVIOUS
<1>1. Node!TypeOK
    BY DEF Node!Init, Node!TypeOK, Node!Nobody, Node!Calls
<1>2. WordCountsHolders
    <2> SUFFICES ASSUME NEW m \in Node!Modes PROVE counters[m] = Cardinality(Node!Holders(m))
        BY DEF WordCountsHolders
    <2>1. Node!Holders(m) = {}
        BY DEF Node!Init, Node!Holders, Node!Modes, Node!Unlocked, Node!Granular!Modes, Node!Granular!Unlocked
    <2> QED
        BY <2>1, FS_EmptySet DEF Node!Init, Node!Nobody
<1>3. HeldAreCompatible /\ UnlocksItsOwn
    BY DEF Node!Init, HeldAreCompatible, Node!Granular!Compatible, UnlocksItsOwn, Node!Idle, Node!Unlocked, Node!Granular!Unlocked, Node!Granular!Modes
<1> QED
    BY <1>1, <1>2, <1>3 DEF NInv

\* What begins a call, tries again or gives up changes neither holders nor word.
LEMMA LocalNInv ==
    ASSUME NInv, NEW t \in Threads, Node!Begin(t) \/ Node!Retry(t) \/ Node!GiveUp(t) \/ Node!BeginUnlock(t)
    PROVE  NInv' /\ UNCHANGED held
<1> USE DEF NInv
<1>1. UNCHANGED <<held, counters>>
    BY DEF Node!Begin, Node!Retry, Node!GiveUp, Node!BeginUnlock
<1>2. Node!TypeOK'
    <2>1. CASE Node!Begin(t)
        BY <2>1 DEF Node!Begin, Node!TypeOK, Node!Calls
    <2>2. CASE Node!Retry(t)
        BY <2>2 DEF Node!Retry, Node!TypeOK
    <2>3. CASE Node!GiveUp(t)
        BY <2>3 DEF Node!GiveUp, Node!Returns, Node!TypeOK, Node!Calls, Node!Nobody
    <2>4. CASE Node!BeginUnlock(t)
        BY <2>4 DEF Node!BeginUnlock, Node!TypeOK, Node!Calls
    <2> QED
        BY <2>1, <2>2, <2>3, <2>4
<1>3. WordCountsHolders' /\ HeldAreCompatible'
    BY <1>1 DEF WordCountsHolders, Node!Holders, HeldAreCompatible
<1>4. UnlocksItsOwn'
    BY <1>1 DEF UnlocksItsOwn, Node!Begin, Node!Retry, Node!GiveUp, Node!BeginUnlock, Node!Returns, Node!Idle, Node!TypeOK
<1> QED
    BY <1>1, <1>2, <1>3, <1>4

\* A successful exchange gives the caller what it asked for, beside the others.
LEMMA ExchangeNInv ==
    ASSUME NInv, NEW t \in Threads, Node!Exchange(t)
    PROVE  NInv' /\ Node!Granular!Change(t, nodeCall[t].mode)
<1> USE DEF NInv
<1> DEFINE n == nodeCall[t].mode
<1>1. n \in Node!Modes /\ held[t] \in Node!Modes \cup {Node!Unlocked} /\ nodeCopy[t] = counters
    BY DEF Node!Exchange, Node!Trying, Node!TypeOK, Node!Calls, Node!Idle
<1>2. Node!Granular!MayHold(t, n)
    BY <1>1, CheckMeansMayHold DEF Node!Exchange
<1>3. held' = [held EXCEPT ![t] = n]
    BY DEF Node!Exchange
<1>4. n = held[t] \/ held[t] # n
    OBVIOUS
<1>5. ASSUME NEW m \in Node!Modes
      PROVE  counters'[m] = Cardinality(Node!Holders(m))' /\ counters'[m] \in Nat
    <2>1. counters[m] = Cardinality(Node!Holders(m)) /\ counters[m] \in Nat
        BY DEF WordCountsHolders, Node!TypeOK
    <2>2. Node!Holders(m)' \in SUBSET Threads
        BY DEF Node!Holders
    <2>3. CASE held[t] = n
        <3>1. held' = held
            BY <1>3, <2>3 DEF Node!TypeOK
        <3>2. counters' = counters
            BY <1>1, <2>3 DEF Node!Exchange, Node!Upgraded, Node!Changed, Node!TypeOK
        <3> QED
            BY <2>1, <3>1, <3>2 DEF Node!Holders
    <2>4. CASE held[t] # n
        <3>1. Cardinality(Node!Holders(m))' = Cardinality(Node!Holders(m))
                 + (IF m = n THEN 1 ELSE 0) - (IF m = held[t] THEN 1 ELSE 0)
            BY <1>1, <1>3, <2>4, GroupsChange
        <3>2. counters'[m] = counters[m]
                 + (IF m = n THEN 1 ELSE 0) - (IF m = held[t] THEN 1 ELSE 0)
            BY <1>1, <2>1, <2>4 DEF Node!Exchange, Node!Upgraded, Node!Changed, Node!TypeOK, Node!Modes, Node!Unlocked,
                                    Node!Granular!Modes, Node!Granular!Unlocked
        <3> QED
            BY <2>1, <2>2, <3>1, <3>2, GroupIsFinite
    <2> QED
        BY <2>3, <2>4
<1>6. Node!TypeOK'
    <2>1. counters' \in [Node!Modes -> Nat]
        <3>1. counters' = [m \in Node!Modes |-> counters'[m]]
            BY <1>1 DEF Node!Exchange, Node!Upgraded, Node!Changed, Node!TypeOK
        <3> QED
            BY <1>5, <3>1
    <2> QED
        BY <1>1, <1>3, <2>1 DEF Node!TypeOK, Node!Exchange, Node!Returns, Node!Calls, Node!Nobody
<1>7. HeldAreCompatible'
    <2> SUFFICES ASSUME NEW u \in Threads, NEW v \in Threads, u # v
                 PROVE  Node!Granular!Compatible(held'[u], held'[v])
        BY DEF HeldAreCompatible, Node!Granular!Compatible
    <2>1. CASE u = t
        BY <1>2, <1>3, <2>1 DEF Node!Granular!MayHold, Node!TypeOK
    <2>2. CASE v = t
        BY <1>2, <1>3, <2>2, CompatibleIsMutual DEF Node!Granular!MayHold, Node!TypeOK
    <2>3. CASE u # t /\ v # t
        BY <1>3, <2>3 DEF HeldAreCompatible, Node!TypeOK
    <2> QED
        BY <2>1, <2>2, <2>3
<1>8. UnlocksItsOwn'
    BY <1>3 DEF UnlocksItsOwn, Node!Exchange, Node!Returns, Node!Idle, Node!TypeOK
<1> QED
    BY <1>2, <1>3, <1>5, <1>6, <1>7, <1>8 DEF WordCountsHolders, Node!Granular!Change

\* unlock subtracts one of the caller's mode from a count that includes it.
LEMMA SubtractNInv ==
    ASSUME NInv, NEW t \in Threads, Node!Subtract(t)
    PROVE  NInv' /\ Node!Granular!Change(t, Node!Unlocked)
<1> USE DEF NInv
<1>1. held[t] = nodeCall[t].mode /\ held[t] \in Node!Modes /\ held[t] # Node!Unlocked
    BY DEF Node!Subtract, UnlocksItsOwn, Node!TypeOK, Node!Calls, Node!Idle, Node!Modes, Node!Unlocked, Node!Granular!Modes, Node!Granular!Unlocked
<1>2. held' = [held EXCEPT ![t] = Node!Unlocked]
    BY DEF Node!Subtract
<1>3. ASSUME NEW m \in Node!Modes
      PROVE  counters'[m] = Cardinality(Node!Holders(m))' /\ counters'[m] \in Nat
    <2>1. counters[m] = Cardinality(Node!Holders(m)) /\ counters[m] \in Nat
        BY DEF WordCountsHolders, Node!TypeOK
    <2>2. Node!Holders(m)' \in SUBSET Threads
        BY DEF Node!Holders
    <2>3. m # Node!Unlocked
        BY DEF Node!Modes, Node!Unlocked, Node!Granular!Modes, Node!Granular!Unlocked
    <2>4. Cardinality(Node!Holders(m))' = Cardinality(Node!Holders(m))
              + (IF m = Node!Unlocked THEN 1 ELSE 0) - (IF m = held[t] THEN 1 ELSE 0)
        BY <1>1, <1>2, GroupsChange
    <2>5. counters'[m] = counters[m] - (IF m = held[t] THEN 1 ELSE 0)
        BY <1>1, <2>1 DEF Node!Subtract, Node!Changed, Node!TypeOK
    <2> QED
        BY <2>1, <2>2, <2>3, <2>4, <2>5, GroupIsFinite
<1>4. Node!TypeOK'
    <2>1. counters' \in [Node!Modes -> Nat]
        <3>1. counters' = [m \in Node!Modes |-> counters'[m]]
            BY <1>1 DEF Node!Subtract, Node!Changed, Node!TypeOK
        <3> QED
            BY <1>3, <3>1
    <2> QED
        BY <1>2, <2>1 DEF Node!TypeOK, Node!Subtract, Node!Returns, Node!Calls, Node!Nobody
<1>5. Node!Granular!Change(t, Node!Unlocked)
    BY <1>2 DEF Node!Granular!Change, Node!Granular!MayHold, Node!Granular!Compatible, Node!Unlocked, Node!Granular!Unlocked, Node!Granular!Modes
<1>6. HeldAreCompatible'
    BY <1>2 DEF HeldAreCompatible, Node!Granular!Compatible, Node!Unlocked, Node!TypeOK, Node!Granular!Unlocked, Node!Granular!Modes
<1>7. UnlocksItsOwn'
    BY <1>2 DEF UnlocksItsOwn, Node!Subtract, Node!Returns, Node!Idle, Node!TypeOK
<1> QED
    BY <1>3, <1>4, <1>5, <1>6, <1>7 DEF WordCountsHolders

\* Every step keeps the invariant, and is a step of the promise or none.
LEMMA NextNInv ==
    ASSUME NInv, [Node!Next]_(Node!vars)
    PROVE  NInv' /\ [Node!Granular!Next]_held
<1>1. CASE UNCHANGED Node!vars
    BY <1>1 DEF Node!vars, NInv, Node!TypeOK, WordCountsHolders, Node!Holders, HeldAreCompatible, UnlocksItsOwn
<1>2. ASSUME NEW t \in Threads, Node!Begin(t) \/ Node!Retry(t) \/ Node!GiveUp(t) \/ Node!BeginUnlock(t)
      PROVE  NInv' /\ [Node!Granular!Next]_held
    BY <1>2, LocalNInv
<1>3. ASSUME NEW t \in Threads, Node!Exchange(t)
      PROVE  NInv' /\ [Node!Granular!Next]_held
    <2>1. nodeCall[t].mode \in Node!Modes
        BY <1>3 DEF Node!Exchange, Node!Trying, NInv, Node!TypeOK, Node!Calls, Node!Idle
    <2> QED
        BY <1>3, <2>1, ExchangeNInv DEF Node!Granular!Next, Node!Modes, Node!Granular!Unlocked, Node!Granular!Modes, Node!Unlocked
<1>4. ASSUME NEW t \in Threads, Node!Subtract(t)
      PROVE  NInv' /\ [Node!Granular!Next]_held
    BY <1>4, SubtractNInv DEF Node!Granular!Next, Node!Unlocked, Node!Granular!Unlocked, Node!Granular!Modes
<1> QED
    BY <1>1, <1>2, <1>3, <1>4 DEF Node!Next

-----------------------------------------------------------------------------
(* The theorems.                                                           *)

\* The invariant holds in every reachable state.
THEOREM NodeLockInvariant == Node!Spec => []NInv
<1>1. Node!Init => NInv
    BY InitNInv
<1>2. NInv /\ [Node!Next]_(Node!vars) => NInv'
    BY NextNInv
<1> QED
    BY <1>1, <1>2, PTL DEF Node!Spec

\* The variables of the lock keep their types; a count never falls below 0, so
\* the subtraction of unlock never borrows from the neighbouring bit field.
THEOREM NodeLockTypeCorrect == Node!Spec => []Node!TypeOK
<1>1. NInv => Node!TypeOK
    BY DEF NInv
<1> QED
    BY <1>1, NodeLockInvariant, PTL

\* The largest counts that the promise allows fit into their bit fields when at
\* most as many operations as the smallest shared field counts use the lock.
LEMMA CountsFit ==
    ASSUME NInv, Cardinality(Threads) <= Node!MaxCount.soft_write, NEW m \in Node!Modes
    PROVE  counters[m] <= Node!MaxCount[m]
<1>1. /\ counters[m] = Cardinality(Node!Holders(m))
      /\ Node!Holders(m) \in SUBSET Threads
      /\ counters[m] \in Nat /\ Cardinality(Threads) \in Nat
    BY ThreadsAssumption, FS_CardinalityType DEF NInv, WordCountsHolders, Node!TypeOK, Node!Holders
<1>2. counters[m] <= Cardinality(Threads)
    BY <1>1, ThreadsAssumption, FS_Subset
<1>3. CASE m = "write"
    <2>1. ASSUME NEW t \in Node!Holders(m), NEW u \in Node!Holders(m) PROVE t = u
        BY <1>3, <2>1 DEF NInv, HeldAreCompatible, Node!Granular!Compatible, Node!Granular!Unlocked, Node!Holders
    <2>2. CASE Node!Holders(m) = {}
        BY <1>1, <1>3, <2>2, FS_EmptySet DEF Node!MaxCount
    <2>3. CASE \E t \in Threads : Node!Holders(m) = {t}
        BY <1>1, <1>3, <2>3, FS_Singleton DEF Node!MaxCount
    <2> QED
        BY <1>1, <2>1, <2>2, <2>3
<1>4. CASE m # "write"
    BY <1>1, <1>2, <1>4 DEF Node!MaxCount, Node!Modes, Node!Granular!Modes
<1> QED
    BY <1>3, <1>4

\* The word counts the holders of each mode, and no field of it overflows: with
\* at most 63 operations on one folder the assertions of unlock, upgrade and
\* change_unsafe hold, however the compare-exchanges interleave.
THEOREM NodeLockCountsHolders ==
    ASSUME Cardinality(Threads) <= MaxCount.soft_write
    PROVE  Node!Spec => []CountsAreHolders
<1>1. NInv => CountsAreHolders
    BY CountsFit DEF NInv, WordCountsHolders, CountsAreHolders, Holders, Modes, MaxCount,
                     Node!Holders, Node!Modes, Node!MaxCount
<1> QED
    BY <1>1, NodeLockInvariant, PTL

\* Locks of one folder that exclude each other are never held together.
THEOREM NodeLockExclusion == Node!Spec => []HeldAreCompatible
<1>1. NInv => HeldAreCompatible
    BY DEF NInv
<1> QED
    BY <1>1, NodeLockInvariant, PTL

\* The word implements the lock of GranularLock: every successful exchange is a
\* change the holders allow, every subtraction gives the lock up, no other step
\* changes who holds what.
THEOREM NodeLockImplementation == Node!Spec => ImplementsGranularLock
<1>1. Node!Init => Granular!Init
    BY DEF Node!Init, Granular!Init, Node!Unlocked, Granular!Unlocked, Granular!Modes
<1>2. NInv /\ [Node!Next]_(Node!vars) => [Node!Granular!Next]_held
    BY NextNInv
<1>3. [Node!Granular!Next]_held => [Granular!Next]_held
    BY DEF Node!Granular!Next, Granular!Next, Node!Granular!Change, Granular!Change,
           Node!Granular!MayHold, Granular!MayHold, Node!Granular!Compatible, Granular!Compatible,
           Node!Granular!Modes, Granular!Modes, Node!Granular!Unlocked, Granular!Unlocked
<1> QED
    BY <1>1, <1>2, <1>3, NodeLockInvariant, PTL DEF Node!Spec, ImplementsGranularLock, Granular!Spec

-----------------------------------------------------------------------------
(* The inductive invariant.                                                *)

Depth(n)   == Len(Path[n])
Written    == {"read", "write"}

\* t has locked the first k nodes of the branch of N, and nothing else.
Holds(t, N, mode, k) ==
    \A n \in Branch!Nodes : taken[n][t] = IF n \in Folders /\ Branch!Below(n, N) /\ Depth(n) <= k
                                  THEN Branch!ModeAt(N, mode, Depth(n)) ELSE Branch!Unlocked

\* t holds locks of the first k nodes above N at most, whatever they are.
HoldsNoMore(t, N, k) ==
    \A n \in Branch!Nodes : taken[n][t] # Branch!Unlocked => n \in Folders /\ Branch!Below(n, N) /\ Depth(n) <= k

\* A find has locked a child too, and has yet to soften its lock of the parent.
HoldsChild(t, N, c) ==
    \A n \in Branch!Nodes : taken[n][t] = IF n \in Folders /\ Branch!Below(n, N)
                                  THEN Branch!ModeAt(N, "read", Depth(n))
                                  ELSE IF n = c /\ n \in Folders THEN "read" ELSE Branch!Unlocked

\* A find that descends keeps the branch b it has until it has the child.
Descends(j, b) ==
    b.mode = "read" /\ j.mode = "read" /\ Path[j.node] = Append(Path[b.node], j.node)

\* What t holds when it is in call j and has locked branch b.
CallFits(t, j, b) ==
    /\ b.mode = Branch!Unlocked => b = Branch!NoBranch
    /\ j.op \notin {"none", "descend", "soften"} => b = Branch!NoBranch
    /\ j.op \notin {"none", "unlock"} => j.mode \in Written
    /\ j.op = "none" =>
          /\ j = Branch!NoJob
          /\ IF b = Branch!NoBranch THEN HoldsNoMore(t, Root, 0)
             ELSE Holds(t, b.node, b.mode, Depth(b.node))
    /\ j.op = "lock" => j.i >= 1 /\ Holds(t, j.node, j.mode, j.i - 1)
    /\ j.op = "back_off" => Holds(t, j.node, j.mode, j.i)
    /\ j.op \in {"unlock", "upgrade_unlock", "upgrade_root"} =>
          j.i >= 1 /\ HoldsNoMore(t, j.node, j.i)
    /\ j.op = "upgrade_root" => j.i = 1
    /\ j.op = "upgrade_relock" => j.i >= 2 /\ Holds(t, j.node, j.mode, j.i - 1)
    /\ j.op = "descend" =>
          /\ Descends(j, b) /\ j.i = Depth(j.node)
          /\ Holds(t, b.node, "read", Depth(b.node))
    /\ j.op = "soften" =>
          /\ Descends(j, b) /\ j.i = Depth(b.node)
          /\ HoldsChild(t, b.node, j.node)

JobFits(t) == CallFits(t, job[t], branch[t])

\* The locks of one folder never exclude each other.
FoldersAreCompatible ==
    \A n \in Branch!Nodes : \A t, u \in Threads :
        t # u => Branch!Compatible(taken[n][t], taken[n][u])

BInv == Branch!TypeOK /\ FoldersAreCompatible /\ \A t \in Threads : JobFits(t)
-----------------------------------------------------------------------------
(* The tree.                                                               *)

\* What is above a node, and how deep.
LEMMA AboveNode ==
    ASSUME NEW N \in Branch!Nodes
    PROVE  /\ Path[N] \in Seq(Branch!Nodes) /\ Depth(N) \in Nat /\ Depth(N) >= 1
           /\ \A i \in 1..Depth(N) : Path[N][i] \in Branch!Nodes /\ Depth(Path[N][i]) = i /\ Branch!Below(Path[N][i], N)
           /\ \A n : Branch!Below(n, N) => n \in Branch!Nodes /\ Depth(n) \in 1..Depth(N) /\ Path[N][Depth(n)] = n
           /\ Branch!Below(N, N) /\ Path[N][Depth(N)] = N
           /\ Branch!Below(Root, N) /\ Depth(Root) = 1 /\ Path[N][1] = Root
<1>1. /\ Path[N] \in Seq(Branch!Nodes) /\ Path[N] # <<>>
      /\ Path[N][1] = Root /\ Path[N][Len(Path[N])] = N
      /\ \A i \in 1..Len(Path[N]) : Path[Path[N][i]] = SubSeq(Path[N], 1, i)
      /\ Path[Root] = <<Root>>
    BY PathsAssumption DEF Nodes, Branch!Nodes
<1>2. Depth(N) \in Nat /\ Depth(N) >= 1 /\ 1 \in 1..Depth(N) /\ Depth(N) \in 1..Depth(N)
    BY <1>1 DEF Depth
<1>3. ASSUME NEW i \in 1..Depth(N)
      PROVE  Path[N][i] \in Branch!Nodes /\ Depth(Path[N][i]) = i /\ Branch!Below(Path[N][i], N)
    <2>1. Path[N][i] \in Branch!Nodes /\ Branch!Below(Path[N][i], N)
        BY <1>1 DEF Branch!Below, Depth
    <2>2. Path[Path[N][i]] = SubSeq(Path[N], 1, i) /\ Len(SubSeq(Path[N], 1, i)) = i
        BY <1>1 DEF Depth
    <2> QED
        BY <2>1, <2>2 DEF Depth
<1>4. ASSUME NEW n, Branch!Below(n, N)
      PROVE  n \in Branch!Nodes /\ Depth(n) \in 1..Depth(N) /\ Path[N][Depth(n)] = n
    BY <1>3, <1>4 DEF Branch!Below, Depth
<1>5. Branch!Below(N, N) /\ Branch!Below(Root, N)
    BY <1>1, <1>2 DEF Branch!Below, Depth
<1>6. Depth(Root) = 1
    BY <1>1 DEF Depth
<1> QED
    BY <1>1, <1>2, <1>3, <1>4, <1>5, <1>6 DEF Depth

\* One step down.
LEMMA AboveChild ==
    ASSUME NEW N \in Branch!Nodes, NEW c \in Branch!Nodes, Path[c] = Append(Path[N], c)
    PROVE  /\ Depth(c) = Depth(N) + 1
           /\ \A n : Branch!Below(n, c) <=> n = c \/ Branch!Below(n, N)
           /\ \A i \in 1..Depth(N) : Path[c][i] = Path[N][i]
           /\ ~Branch!Below(c, N)
<1>1. Path[N] \in Seq(Branch!Nodes) /\ Depth(N) \in Nat /\ Depth(N) >= 1
    BY AboveNode
<1>2. /\ Depth(c) = Depth(N) + 1 /\ Path[c][Depth(N) + 1] = c
      /\ \A i \in 1..Depth(N) : Path[c][i] = Path[N][i]
    BY <1>1 DEF Depth
<1>3. ~Branch!Below(c, N)
    BY <1>1, <1>2, AboveNode
<1>4. ASSUME NEW n PROVE Branch!Below(n, c) <=> n = c \/ Branch!Below(n, N)
    BY <1>1, <1>2 DEF Branch!Below, Depth
<1> QED
    BY <1>2, <1>3, <1>4
-----------------------------------------------------------------------------
(* The locks of one thread.                                                *)

\* The lock of the last node is the lock of the branch, the others are soft.
LEMMA ModesOfBranch ==
    ASSUME NEW N, NEW mode \in Written, NEW i
    PROVE  /\ i = Len(Path[N]) => Branch!ModeAt(N, mode, i) = mode
           /\ i # Len(Path[N]) =>
                 Branch!ModeAt(N, mode, i) = IF mode = "read" THEN "soft_read" ELSE "soft_write"
           /\ Branch!ModeAt(N, mode, i) \in Branch!Modes /\ Branch!ModeAt(N, mode, i) # Branch!Unlocked
<1>1. Branch!soften_lock(mode) = IF mode = "read" THEN "soft_read" ELSE "soft_write"
    <2>1. CASE mode = "read"
        BY <2>1 DEF Branch!soften_lock
    <2>2. CASE mode = "write"
        BY <2>2 DEF Branch!soften_lock
    <2> QED
        BY <2>1, <2>2 DEF Written
<1>2. /\ i = Len(Path[N]) => Branch!ModeAt(N, mode, i) = mode
      /\ i # Len(Path[N]) => Branch!ModeAt(N, mode, i) = Branch!soften_lock(mode)
    BY DEF Branch!ModeAt
<1>3. Branch!Modes = {"read", "soft_read", "write", "soft_write"} /\ Branch!Unlocked = "unlocked"
    BY DEF Branch!Modes, Branch!Unlocked
<1> QED
    BY <1>1, <1>2, <1>3 DEF Written

\* A thread sets its lock of one node.
Sets(t, n, m) == taken' = [taken EXCEPT ![n][t] = m]

\* What that leaves.
LEMMA OneLockSet ==
    ASSUME Branch!TypeOK, NEW t \in Threads, NEW n \in Branch!Nodes, NEW m, Sets(t, n, m)
    PROVE  /\ taken'[n][t] = m
           /\ \A o \in Branch!Nodes, u \in Threads : o # n \/ u # t => taken'[o][u] = taken[o][u]
BY DEF Branch!TypeOK, Sets

\* lock_node gives the thread the lock, where there is one.
LEMMA HoldSets ==
    ASSUME Branch!TypeOK, NEW t \in Threads, NEW n \in Branch!Nodes, NEW m, Branch!Hold(t, n, m)
    PROVE  /\ n \in Folders => Sets(t, n, m) /\ Branch!Folder(n)!MayHold(t, m)
           /\ n \notin Folders => taken' = taken
BY DEF Branch!Hold, Sets

\* lock_branch goes one node further down.
LEMMA LocksOneMore ==
    ASSUME Branch!TypeOK, NEW t \in Threads, NEW N \in Branch!Nodes, NEW mode, NEW k \in 1..Depth(N),
           Holds(t, N, mode, k - 1), Branch!Hold(t, Path[N][k], Branch!ModeAt(N, mode, k))
    PROVE  Holds(t, N, mode, k)'
<1> DEFINE n == Path[N][k]
<1>1. n \in Branch!Nodes /\ Depth(n) = k /\ Branch!Below(n, N) /\ Depth(N) \in Nat
    BY AboveNode
<1>2. ASSUME NEW o \in Branch!Nodes, Branch!Below(o, N), Depth(o) <= k, o # n PROVE Depth(o) <= k - 1
    <2>1. Depth(o) \in Nat /\ Path[N][Depth(o)] = o
        BY <1>2, <1>1, AboveNode
    <2> QED
        BY <1>2, <2>1
<1>3. CASE n \in Folders
    <2>1. Sets(t, n, Branch!ModeAt(N, mode, k))
        BY <1>1, <1>3, HoldSets
    <2>2. taken'[n][t] = Branch!ModeAt(N, mode, k) /\ \A o \in Branch!Nodes : o # n => taken'[o][t] = taken[o][t]
        BY <1>1, <2>1, OneLockSet
    <2>3. \A o \in Branch!Nodes : Branch!Below(o, N) => Depth(o) \in Nat
        BY AboveNode
    <2> HIDE DEF n
    <2> QED
        BY <1>1, <1>2, <1>3, <2>2, <2>3 DEF Holds
<1>4. CASE n \notin Folders
    <2>1. taken' = taken
        BY <1>1, <1>4, HoldSets
    <2>2. \A o \in Branch!Nodes : Branch!Below(o, N) => Depth(o) \in Nat
        BY AboveNode
    <2> HIDE DEF n
    <2> QED
        BY <1>1, <1>2, <1>4, <2>1, <2>2 DEF Holds
<1> QED
    BY <1>3, <1>4

\* unlock_branch goes one node further up, whether the locks are known ...
LEMMA UnlocksOneMore ==
    ASSUME Branch!TypeOK, NEW t \in Threads, NEW N \in Branch!Nodes, NEW mode, NEW k \in 1..Depth(N),
           Holds(t, N, mode, k), Branch!LetGo(t, Path[N][k])
    PROVE  Holds(t, N, mode, k - 1)'
<1> DEFINE n == Path[N][k]
<1>1. n \in Branch!Nodes /\ Depth(n) = k /\ Branch!Below(n, N) /\ Depth(N) \in Nat
    BY AboveNode
<1>2. taken'[n][t] = Branch!Unlocked /\ \A o \in Branch!Nodes : o # n => taken'[o][t] = taken[o][t]
    <2>1. Sets(t, n, Branch!Unlocked)
        BY DEF Branch!LetGo, Sets
    <2> QED
        BY <1>1, <2>1, OneLockSet
<1>3. \A o \in Branch!Nodes : Branch!Below(o, N) => Depth(o) \in Nat /\ Path[N][Depth(o)] = o
    BY AboveNode
<1>4. \A o \in Branch!Nodes : Branch!Below(o, N) /\ o # n => Depth(o) # k
    BY <1>3
<1> HIDE DEF n
<1> QED
    BY <1>1, <1>2, <1>3, <1>4 DEF Holds

\* ... or not.
LEMMA UnlocksWhatIsLeft ==
    ASSUME Branch!TypeOK, NEW t \in Threads, NEW N \in Branch!Nodes, NEW k \in 1..Depth(N),
           HoldsNoMore(t, N, k), Branch!LetGo(t, Path[N][k])
    PROVE  HoldsNoMore(t, N, k - 1)'
<1> DEFINE n == Path[N][k]
<1>1. n \in Branch!Nodes /\ Depth(n) = k /\ Branch!Below(n, N) /\ Depth(N) \in Nat
    BY AboveNode
<1>2. taken'[n][t] = Branch!Unlocked /\ \A o \in Branch!Nodes : o # n => taken'[o][t] = taken[o][t]
    <2>1. Sets(t, n, Branch!Unlocked)
        BY DEF Branch!LetGo, Sets
    <2> QED
        BY <1>1, <2>1, OneLockSet
<1>3. \A o \in Branch!Nodes : Branch!Below(o, N) => Depth(o) \in Nat /\ Path[N][Depth(o)] = o
    BY AboveNode
<1>4. \A o \in Branch!Nodes : Branch!Below(o, N) /\ o # n => Depth(o) # k
    BY <1>3
<1> HIDE DEF n
<1> QED
    BY <1>1, <1>2, <1>3, <1>4 DEF HoldsNoMore

\* Who holds part of a branch holds no more than that.
LEMMA HoldsThatOnly ==
    ASSUME NEW t, NEW N, NEW mode, NEW k, Holds(t, N, mode, k)
    PROVE  HoldsNoMore(t, N, k)
BY DEF Holds, HoldsNoMore

\* Who holds nothing holds nothing of any branch.
LEMMA HoldsNothing ==
    ASSUME NEW t, NEW N \in Branch!Nodes, HoldsNoMore(t, N, 0)
    PROVE  \A n \in Branch!Nodes : taken[n][t] = Branch!Unlocked
BY AboveNode DEF HoldsNoMore

\* What a thread without a lock holds of any branch.
LEMMA NothingIsHeld ==
    ASSUME NEW t, \A n \in Branch!Nodes : taken[n][t] = Branch!Unlocked, NEW N \in Branch!Nodes, NEW mode
    PROVE  Holds(t, N, mode, 0) /\ HoldsNoMore(t, N, 0)
<1>1. \A n \in Branch!Nodes : Branch!Below(n, N) => Depth(n) \in Nat /\ Depth(n) >= 1
    BY AboveNode
<1> QED
    BY <1>1 DEF HoldsNoMore, Holds

\* upgrade_branch upgrades the root when it holds nothing below it.
LEMMA RootUpgraded ==
    ASSUME Branch!TypeOK, NEW t \in Threads, NEW N \in Branch!Nodes, NEW mode,
           HoldsNoMore(t, N, 1), Branch!Hold(t, Root, Branch!ModeAt(N, mode, 1))
    PROVE  Holds(t, N, mode, 1)'
<1>1. Root \in Branch!Nodes /\ Depth(Root) = 1 /\ Branch!Below(Root, N)
    BY PathsAssumption, AboveNode DEF Nodes, Branch!Nodes
<1>2. \A o \in Branch!Nodes : Branch!Below(o, N) /\ Depth(o) <= 1 => o = Root
    BY <1>1, AboveNode
<1>3. CASE Root \in Folders
    <2>1. /\ taken'[Root][t] = Branch!ModeAt(N, mode, 1)
          /\ \A o \in Branch!Nodes : o # Root => taken'[o][t] = taken[o][t]
        BY <1>1, <1>3, HoldSets, OneLockSet
    <2> QED
        BY <1>1, <1>2, <1>3, <2>1 DEF Holds, HoldsNoMore
<1>4. CASE Root \notin Folders
    <2>1. taken' = taken
        BY <1>1, <1>4, HoldSets
    <2> QED
        BY <1>1, <1>2, <1>4, <2>1 DEF Holds, HoldsNoMore
<1> QED
    BY <1>3, <1>4

\* A find locks the child of its branch ...
LEMMA ChildLocked ==
    ASSUME Branch!TypeOK, NEW t \in Threads, NEW N \in Branch!Nodes, NEW c \in Branch!Nodes, Path[c] = Append(Path[N], c),
           Holds(t, N, "read", Depth(N)), Branch!Hold(t, c, "read")
    PROVE  HoldsChild(t, N, c)'
<1>1. ~Branch!Below(c, N)
    BY AboveChild
<1>2. \A o \in Branch!Nodes : Branch!Below(o, N) => Depth(o) <= Depth(N)
    BY AboveNode
<1>3. CASE c \in Folders
    <2>1. taken'[c][t] = "read" /\ \A o \in Branch!Nodes : o # c => taken'[o][t] = taken[o][t]
        BY <1>3, HoldSets, OneLockSet
    <2> QED
        BY <1>1, <1>2, <1>3, <2>1 DEF Holds, HoldsChild
<1>4. CASE c \notin Folders
    <2>1. taken' = taken
        BY <1>4, HoldSets
    <2> QED
        BY <1>1, <1>2, <1>4, <2>1 DEF Holds, HoldsChild
<1> QED
    BY <1>3, <1>4

\* ... and then has the branch of the child, once the parent's lock is soft.
LEMMA ParentSoftened ==
    ASSUME Branch!TypeOK, NEW t \in Threads, NEW N \in Branch!Nodes, NEW c \in Branch!Nodes, Path[c] = Append(Path[N], c),
           HoldsChild(t, N, c), Branch!Hold(t, N, "soft_read")
    PROVE  Holds(t, c, "read", Depth(c))'
<1>1. /\ Depth(c) = Depth(N) + 1 /\ Depth(N) \in Nat /\ Branch!Below(N, N) /\ Branch!Below(c, c)
      /\ \A o : Branch!Below(o, c) <=> o = c \/ Branch!Below(o, N)
      /\ \A o \in Branch!Nodes : Branch!Below(o, N) => Depth(o) \in 1..Depth(N) /\ Path[N][Depth(o)] = o
      /\ ~Branch!Below(c, N) /\ Path[N][Depth(N)] = N
    BY AboveNode, AboveChild
<1>2. ASSUME NEW o \in Branch!Nodes, Branch!Below(o, N), o # N
      PROVE  Depth(o) # Depth(N) /\ Branch!ModeAt(N, "read", Depth(o)) = "soft_read"
    BY <1>1, <1>2, ModesOfBranch DEF Depth, Written
<1>3. /\ \A o \in Branch!Nodes : Branch!Below(o, N) => Branch!ModeAt(c, "read", Depth(o)) = "soft_read"
      /\ Branch!ModeAt(c, "read", Depth(c)) = "read"
    BY <1>1, ModesOfBranch DEF Depth, Written
<1>4. /\ N \in Folders => taken'[N][t] = "soft_read"
      /\ N \notin Folders => taken'[N][t] = taken[N][t]
      /\ \A o \in Branch!Nodes : o # N => taken'[o][t] = taken[o][t]
    BY HoldSets, OneLockSet
<1>5. ASSUME NEW o \in Branch!Nodes
      PROVE  taken'[o][t] = IF o \in Folders /\ Branch!Below(o, c) /\ Depth(o) <= Depth(c)
                           THEN Branch!ModeAt(c, "read", Depth(o)) ELSE Branch!Unlocked
    <2>0. taken[o][t] = IF o \in Folders /\ Branch!Below(o, N)
                       THEN Branch!ModeAt(N, "read", Depth(o))
                       ELSE IF o = c /\ o \in Folders THEN "read" ELSE Branch!Unlocked
        BY DEF HoldsChild
    <2>1. CASE o = c
        BY <1>1, <1>3, <1>4, <2>0, <2>1
    <2>2. CASE o = N
        BY <1>1, <1>3, <1>4, <2>0, <2>2
    <2>3. CASE o # c /\ o # N /\ Branch!Below(o, N)
        BY <1>1, <1>2, <1>3, <1>4, <2>0, <2>3
    <2>4. CASE o # c /\ ~Branch!Below(o, N)
        BY <1>1, <1>4, <2>0, <2>4
    <2> QED
        BY <2>1, <2>2, <2>3, <2>4
<1> QED
    BY <1>5 DEF Holds
-----------------------------------------------------------------------------
(* The steps.                                                              *)

\* A step of t changes nothing of what other threads hold and do.
LEMMA OthersKept ==
    ASSUME Branch!TypeOK, NEW t \in Threads, NEW u \in Threads, u # t, JobFits(u),
           job'[u] = job[u], branch'[u] = branch[u],
           \A n \in Branch!Nodes : taken'[n][u] = taken[n][u]
    PROVE  JobFits(u)'
BY DEF JobFits, CallFits, Holds, HoldsNoMore, HoldsChild, Descends

\* What a step of t does to the locks: a lock that the others allow, or none.
Changes(t) ==
    \/ taken' = taken
    \/ \E n \in Branch!Nodes, m \in Branch!Modes \cup {Branch!Unlocked} :
          Sets(t, n, m) /\ (m = Branch!Unlocked \/ Branch!Folder(n)!MayHold(t, m))

\* The folder's lock goes by who may hold it.
LEMMA CompatibleKept ==
    ASSUME BInv, NEW t \in Threads, Changes(t)
    PROVE  FoldersAreCompatible'
<1>1. Branch!TypeOK /\ FoldersAreCompatible
    BY DEF BInv
<1>2. CASE taken' = taken
    BY <1>1, <1>2 DEF FoldersAreCompatible
<1>3. ASSUME NEW n \in Branch!Nodes, NEW m \in Branch!Modes \cup {Branch!Unlocked}, Sets(t, n, m),
             m = Branch!Unlocked \/ Branch!Folder(n)!MayHold(t, m)
      PROVE  FoldersAreCompatible'
    <2>1. /\ taken'[n][t] = m
          /\ \A o \in Branch!Nodes, u \in Threads : o # n \/ u # t => taken'[o][u] = taken[o][u]
        BY <1>1, <1>3, OneLockSet
    <2>2. \A u \in Threads \ {t} : /\ Branch!Compatible(m, taken[n][u])
                                   /\ Branch!Compatible(taken[n][u], m)
        <3>1. CASE m = Branch!Unlocked
            BY <3>1 DEF Branch!Compatible, Branch!Unlocked
        <3>2. CASE Branch!Folder(n)!MayHold(t, m)
            BY <3>2 DEF Branch!Folder!MayHold, Branch!Folder!Compatible, Branch!Folder!Unlocked, Branch!Compatible, Branch!Unlocked
        <3> QED
            BY <1>3, <3>1, <3>2
    <2>3. ASSUME NEW o \in Branch!Nodes, NEW u \in Threads, NEW v \in Threads, u # v
          PROVE  Branch!Compatible(taken'[o][u], taken'[o][v])
        <3>0. Branch!Compatible(taken[o][u], taken[o][v])
            BY <1>1, <2>3 DEF FoldersAreCompatible
        <3>1. CASE o = n /\ u = t
            BY <2>1, <2>2, <2>3, <3>1
        <3>2. CASE o = n /\ v = t
            BY <2>1, <2>2, <2>3, <3>2
        <3>3. CASE o # n \/ (u # t /\ v # t)
            BY <2>1, <3>0, <3>3
        <3> QED
            BY <3>1, <3>2, <3>3, <2>3
    <2> QED
        BY <2>3 DEF FoldersAreCompatible, Branch!Compatible, Branch!Unlocked
<1> QED
    BY <1>2, <1>3 DEF Changes

Jobs     == [op : Branch!Ops, node : Branch!Nodes, mode : {"read", "write", Branch!Unlocked}, blocking : BOOLEAN, i : Nat]
Branches == [node : Branch!Nodes, mode : {"read", "write", Branch!Unlocked}]

\* So a step of t keeps the invariant if the call it is in then fits.
LEMMA StepFits ==
    ASSUME BInv, NEW t \in Threads, NEW j \in Jobs, NEW b \in Branches, Changes(t),
           job' = [job EXCEPT ![t] = j], branch' = [branch EXCEPT ![t] = b],
           j.i <= Depth(j.node), CallFits(t, j, b)'
    PROVE  BInv'
<1>1. Branch!TypeOK
    BY DEF BInv
<1>2. job'[t] = j /\ branch'[t] = b /\ \A u \in Threads \ {t} : job'[u] = job[u] /\ branch'[u] = branch[u]
    BY <1>1 DEF Branch!TypeOK
<1>3. ASSUME NEW u \in Threads, u # t PROVE JobFits(u)'
    <2>1. \A n \in Branch!Nodes : taken'[n][u] = taken[n][u]
        BY <1>1, <1>3, OneLockSet DEF Changes
    <2> QED
        BY <1>1, <1>2, <1>3, <2>1, OthersKept DEF BInv
<1>4. JobFits(t)'
    BY <1>2 DEF JobFits
<1>5. Branch!TypeOK'
    <2>1. taken' \in [Branch!Nodes -> [Threads -> Branch!Modes \cup {Branch!Unlocked}]]
        <3>1. CASE taken' = taken
            BY <1>1, <3>1 DEF Branch!TypeOK
        <3>2. ASSUME NEW n \in Branch!Nodes, NEW m \in Branch!Modes \cup {Branch!Unlocked}, Sets(t, n, m)
              PROVE  taken' \in [Branch!Nodes -> [Threads -> Branch!Modes \cup {Branch!Unlocked}]]
            BY <1>1, <3>2 DEF Branch!TypeOK, Sets
        <3> QED
            BY <3>1, <3>2 DEF Changes
    <2>2. job' \in [Threads -> Jobs] /\ branch' \in [Threads -> Branches]
        BY <1>1 DEF Branch!TypeOK, Jobs, Branches
    <2>3. \A u \in Threads : job'[u].i <= Len(Path[job'[u].node])
        BY <1>1, <1>2 DEF Branch!TypeOK, Depth
    <2> QED
        BY <2>1, <2>2, <2>3 DEF Branch!TypeOK, Jobs, Branches
<1> QED
    BY <1>3, <1>4, <1>5, CompatibleKept DEF BInv

\* The call t is in.
LEMMA CallOf ==
    ASSUME BInv, NEW t \in Threads
    PROVE  \E j \in Jobs, b \in Branches :
               /\ j = job[t] /\ b = branch[t] /\ CallFits(t, j, b)
               /\ j.i <= Depth(j.node) /\ Branch!Here(t) = Path[j.node][j.i]
               /\ branch = [branch EXCEPT ![t] = b]
BY DEF BInv, Branch!TypeOK, Jobs, Branches, JobFits, Depth, Branch!Here

\* The constants of a call.
LEMMA Nothings ==
    /\ Branch!NoJob \in Jobs /\ Branch!NoJob.op = "none" /\ Branch!NoJob.i = 0 /\ Branch!NoJob.node = Root
    /\ Branch!NoJob.i <= Depth(Branch!NoJob.node)
    /\ Branch!NoBranch \in Branches /\ Branch!NoBranch.mode = Branch!Unlocked /\ Branch!NoBranch.node = Root
    /\ Branch!Unlocked \notin Written /\ Depth(Root) = 1 /\ Root \in Branch!Nodes
BY PathsAssumption, AboveNode DEF Nodes, Branch!Nodes, Jobs, Branches, Branch!NoJob, Branch!NoBranch, Branch!Ops, Written, Branch!Unlocked

\* Moving on within a call.
LEMMA StepMoves ==
    ASSUME Branch!TypeOK, NEW t \in Threads, NEW op \in Branch!Ops, NEW i \in Nat, Branch!Step(t, op, i),
           NEW j \in Jobs, j = job[t]
    PROVE  \E k \in Jobs :
               /\ k.op = op /\ k.i = i
               /\ k.node = j.node /\ k.mode = j.mode /\ k.blocking = j.blocking
               /\ job' = [job EXCEPT ![t] = k]
<1> DEFINE k == [[j EXCEPT !.op = op] EXCEPT !.i = i]
<1>1. /\ k \in Jobs /\ k.op = op /\ k.i = i
      /\ k.node = j.node /\ k.mode = j.mode /\ k.blocking = j.blocking
    BY DEF Jobs
<1>2. job' = [job EXCEPT ![t] = k]
    BY DEF Branch!Step, Branch!TypeOK, Jobs
<1> QED
    BY <1>1, <1>2

\* lock_node and unlock_node change what they may.
LEMMA HoldChanges ==
    ASSUME Branch!TypeOK, NEW t \in Threads, NEW n \in Branch!Nodes, NEW m \in Branch!Modes \cup {Branch!Unlocked},
           Branch!Hold(t, n, m) \/ Branch!LetGo(t, n) \/ taken' = taken
    PROVE  Changes(t)
BY DEF Branch!Hold, Branch!LetGo, Changes, Sets

\* find_and_lock_branch begins at the root, with nothing.
LEMMA LockFits ==
    ASSUME BInv, NEW t \in Threads, Branch!Lock(t)
    PROVE  BInv'
<1>1. PICK j \in Jobs, b \in Branches :
          /\ j = job[t] /\ b = branch[t] /\ CallFits(t, j, b)
          /\ branch = [branch EXCEPT ![t] = b]
    BY CallOf
<1>2. PICK n \in Branch!Nodes, mode \in {"read", "write"}, blocking \in BOOLEAN :
          job' = [job EXCEPT ![t] = [op |-> "lock", node |-> n, mode |-> mode,
                                     blocking |-> blocking, i |-> 1]]
    BY DEF Branch!Lock
<1>3. PICK k \in Jobs : /\ k.op = "lock" /\ k.node = n /\ k.mode = mode /\ k.i = 1
                        /\ job' = [job EXCEPT ![t] = k]
    BY <1>2 DEF Jobs, Branch!Ops
<1>4. b = Branch!NoBranch /\ UNCHANGED <<taken, branch>> /\ HoldsNoMore(t, Root, 0)
    BY <1>1, Nothings DEF Branch!Lock, CallFits
<1>5. Holds(t, n, mode, 0)
    BY <1>4, Nothings, HoldsNothing, NothingIsHeld
<1>6. Holds(t, n, mode, 0)'
    BY <1>4, <1>5 DEF Holds
<1>7. Depth(n) >= 1 /\ mode \in Written /\ k.i - 1 = 0
    BY <1>3, AboveNode DEF Written
<1>8. CallFits(t, k, b)'
    BY <1>3, <1>4, <1>6, <1>7 DEF CallFits
<1> QED
    BY <1>1, <1>3, <1>4, <1>7, <1>8, StepFits DEF Changes

\* lock_branch, and the last part of upgrade_branch.
LEMMA LockNodeFits ==
    ASSUME BInv, NEW t \in Threads, Branch!LockNode(t)
    PROVE  BInv'
<1>1. PICK j \in Jobs, b \in Branches :
          /\ j = job[t] /\ b = branch[t] /\ CallFits(t, j, b)
          /\ j.i <= Depth(j.node) /\ Branch!Here(t) = Path[j.node][j.i]
          /\ branch = [branch EXCEPT ![t] = b]
    BY CallOf
<1>2. /\ j.op \in {"lock", "upgrade_relock"} /\ b = Branch!NoBranch /\ j.mode \in Written
      /\ j.i >= 1 /\ Holds(t, j.node, j.mode, j.i - 1)
      /\ Branch!Hold(t, Path[j.node][j.i], Branch!ModeAt(j.node, j.mode, j.i))
    <2>1. /\ j.op \in {"lock", "upgrade_relock"}
          /\ Branch!Hold(t, Path[j.node][j.i], Branch!ModeAt(j.node, j.mode, j.i))
        BY <1>1 DEF Branch!LockNode
    <2>2. j.i \in Nat
        BY DEF Jobs
    <2> QED
        BY <1>1, <2>1, <2>2 DEF CallFits
<1>3. Branch!TypeOK /\ j.node \in Branch!Nodes /\ j.i \in 1..Depth(j.node) /\ Depth(j.node) \in Nat /\ j.i \in Nat
    BY <1>1, <1>2, AboveNode DEF BInv, Jobs
<1>4. Holds(t, j.node, j.mode, j.i)'
    BY <1>2, <1>3, LocksOneMore
<1>5. Changes(t)
    BY <1>2, <1>3, AboveNode, ModesOfBranch, HoldChanges
<1>6. CASE ~Branch!Last(t)
    <2>1. PICK k \in Jobs : /\ k.op = j.op /\ k.i = j.i + 1
                            /\ k.node = j.node /\ k.mode = j.mode
                            /\ job' = [job EXCEPT ![t] = k]
        BY <1>1, <1>3, <1>6, StepMoves DEF Branch!LockNode, Jobs
    <2>2. branch' = branch /\ j.i # Depth(j.node)
        BY <1>1, <1>6 DEF Branch!LockNode, Branch!Last, Depth
    <2>3. k.i <= Depth(k.node) /\ k.i - 1 = j.i
        BY <1>3, <2>1, <2>2
    <2>4. CallFits(t, k, b)'
        BY <1>2, <1>3, <1>4, <2>1, <2>3 DEF CallFits
    <2> QED
        BY <1>1, <1>5, <2>1, <2>2, <2>3, <2>4, StepFits
<1>7. CASE Branch!Last(t)
    <2>1. PICK c \in Branches : /\ c.node = j.node /\ c.mode = j.mode
                                /\ branch' = [branch EXCEPT ![t] = c]
        BY <1>1, <1>3, <1>7 DEF Branch!LockNode, Branch!Locked, Branches, Jobs
    <2>2. job' = [job EXCEPT ![t] = Branch!NoJob] /\ j.i = Depth(j.node)
        BY <1>1, <1>7 DEF Branch!LockNode, Branch!Last, Branch!Ends, Depth
    <2>3. c # Branch!NoBranch /\ c.mode # Branch!Unlocked
        BY <1>2, <2>1, Nothings
    <2>4. CallFits(t, Branch!NoJob, c)'
        BY <1>4, <2>1, <2>2, <2>3, Nothings DEF CallFits
    <2> QED
        BY <1>5, <2>1, <2>2, <2>4, Nothings, StepFits
<1> QED
    BY <1>6, <1>7

\* A failed try has locked what is above.
LEMMA TryFailsFits ==
    ASSUME BInv, NEW t \in Threads, Branch!TryFails(t)
    PROVE  BInv'
<1>1. PICK j \in Jobs, b \in Branches :
          /\ j = job[t] /\ b = branch[t] /\ CallFits(t, j, b)
          /\ j.i <= Depth(j.node)
          /\ branch = [branch EXCEPT ![t] = b]
    BY CallOf
<1>2. /\ j.op = "lock" /\ b = Branch!NoBranch /\ j.mode \in Written
      /\ j.i >= 1 /\ Holds(t, j.node, j.mode, j.i - 1)
      /\ UNCHANGED <<taken, branch>>
    BY <1>1 DEF Branch!TryFails, CallFits
<1>3. Branch!TypeOK /\ j.node \in Branch!Nodes /\ Depth(j.node) \in Nat /\ j.i \in Nat
    BY <1>1, AboveNode DEF BInv, Jobs
<1>4. PICK k \in Jobs : /\ k.op = "back_off" /\ k.i = j.i - 1
                        /\ k.node = j.node /\ k.mode = j.mode
                        /\ job' = [job EXCEPT ![t] = k]
    <2>1. j.i - 1 \in Nat /\ "back_off" \in Branch!Ops /\ Branch!Step(t, "back_off", j.i - 1)
        BY <1>1, <1>2, <1>3 DEF Branch!TryFails, Branch!Ops
    <2> QED
        BY <1>1, <1>3, <2>1, StepMoves
<1>5. Holds(t, k.node, k.mode, k.i)'
    BY <1>2, <1>4 DEF Holds
<1>6. CallFits(t, k, b)' /\ k.i <= Depth(k.node)
    BY <1>1, <1>2, <1>3, <1>4, <1>5 DEF CallFits
<1> QED
    BY <1>1, <1>2, <1>4, <1>6, StepFits DEF Changes

\* It gives that up and starts again, or is over.
LEMMA BackOffFits ==
    ASSUME BInv, NEW t \in Threads, Branch!BackOff(t)
    PROVE  BInv'
<1>1. PICK j \in Jobs, b \in Branches :
          /\ j = job[t] /\ b = branch[t] /\ CallFits(t, j, b)
          /\ j.i <= Depth(j.node) /\ Branch!Here(t) = Path[j.node][j.i]
          /\ branch = [branch EXCEPT ![t] = b]
    BY CallOf
<1>2. /\ j.op = "back_off" /\ b = Branch!NoBranch /\ j.mode \in Written
      /\ Holds(t, j.node, j.mode, j.i) /\ branch' = branch
    BY <1>1 DEF Branch!BackOff, CallFits
<1>3. Branch!TypeOK /\ j.node \in Branch!Nodes /\ Depth(j.node) \in Nat /\ Depth(j.node) >= 1 /\ j.i \in Nat
    BY <1>1, AboveNode DEF BInv, Jobs
<1>4. CASE j.i > 0
    <2>1. Branch!LetGo(t, Path[j.node][j.i]) /\ Branch!Step(t, "back_off", j.i - 1) /\ j.i \in 1..Depth(j.node)
        BY <1>1, <1>3, <1>4 DEF Branch!BackOff
    <2>2. PICK k \in Jobs : /\ k.op = "back_off" /\ k.i = j.i - 1
                            /\ k.node = j.node /\ k.mode = j.mode
                            /\ job' = [job EXCEPT ![t] = k]
        <3>1. j.i - 1 \in Nat /\ "back_off" \in Branch!Ops
            BY <1>3, <1>4 DEF Branch!Ops
        <3> QED
            BY <1>1, <1>3, <2>1, <3>1, StepMoves
    <2>3. Holds(t, j.node, j.mode, j.i - 1)'
        BY <1>2, <1>3, <2>1, UnlocksOneMore
    <2>4. CallFits(t, k, b)' /\ k.i <= Depth(k.node)
        BY <1>1, <1>2, <1>3, <2>2, <2>3 DEF CallFits
    <2>5. Changes(t)
        BY <1>3, <2>1, AboveNode, HoldChanges
    <2> QED
        BY <1>1, <1>2, <2>2, <2>4, <2>5, StepFits
<1>5. CASE j.i = 0
    <2>1. taken' = taken /\ (IF j.blocking THEN Branch!Step(t, "lock", 1) ELSE Branch!Ends(t))
        BY <1>1, <1>5 DEF Branch!BackOff
    <2>2. HoldsNoMore(t, j.node, 0)
        BY <1>2, <1>5, HoldsThatOnly
    <2>3. \A n \in Branch!Nodes : taken[n][t] = Branch!Unlocked
        BY <1>3, <2>2, HoldsNothing
    <2>4. CASE j.blocking
        <3>1. PICK k \in Jobs : /\ k.op = "lock" /\ k.i = 1
                                /\ k.node = j.node /\ k.mode = j.mode
                                /\ job' = [job EXCEPT ![t] = k]
            <4>1. 1 \in Nat /\ "lock" \in Branch!Ops
                BY DEF Branch!Ops
            <4> QED
                BY <1>1, <1>3, <2>1, <2>4, <4>1, StepMoves
        <3>2. Holds(t, j.node, j.mode, 0)'
            BY <1>2, <1>5, <2>1 DEF Holds
        <3>3. k.i - 1 = 0 /\ k.i <= Depth(k.node)
            BY <1>3, <3>1
        <3>4. CallFits(t, k, b)'
            BY <1>2, <3>1, <3>2, <3>3 DEF CallFits
        <3> QED
            BY <1>1, <1>2, <2>1, <3>1, <3>3, <3>4, StepFits DEF Changes
    <2>5. CASE ~j.blocking
        <3>1. job' = [job EXCEPT ![t] = Branch!NoJob]
            BY <2>1, <2>5 DEF Branch!Ends
        <3>2. HoldsNoMore(t, Root, 0)
            BY <2>3, Nothings, NothingIsHeld
        <3>3. HoldsNoMore(t, Root, 0)'
            BY <2>1, <3>2 DEF HoldsNoMore
        <3>4. CallFits(t, Branch!NoJob, b)'
            BY <1>2, <3>3, Nothings DEF CallFits
        <3> QED
            BY <1>1, <1>2, <2>1, <3>1, <3>4, Nothings, StepFits DEF Changes
    <2> QED
        BY <2>4, <2>5
<1> QED
    BY <1>3, <1>4, <1>5

\* unlock_branch and upgrade_branch begin with the locks of the branch, at its node.
LEMMA UnlockFits ==
    ASSUME BInv, NEW t \in Threads, Branch!Unlock(t) \/ Branch!Upgrade(t)
    PROVE  BInv'
<1>1. PICK j \in Jobs, b \in Branches :
          /\ j = job[t] /\ b = branch[t] /\ CallFits(t, j, b)
    BY CallOf
<1>2. j = Branch!NoJob /\ b # Branch!NoBranch
    BY <1>1 DEF Branch!Unlock, Branch!Upgrade
<1>3. /\ b.mode \in Written /\ b.node \in Branch!Nodes
      /\ Holds(t, b.node, b.mode, Depth(b.node))
    BY <1>1, <1>2, Nothings DEF CallFits, Branches, Written
<1>4. PICK k \in Jobs : /\ k.op \in {"unlock", "upgrade_unlock"} /\ k.node = b.node
                        /\ k.mode \in Written /\ k.i = Depth(b.node)
                        /\ job' = [job EXCEPT ![t] = k]
    <2>1. Depth(b.node) \in Nat
        BY <1>3, AboveNode
    <2>2. CASE Branch!Unlock(t)
        BY <1>1, <1>3, <2>1, <2>2 DEF Branch!Unlock, Branch!Begin, Jobs, Branch!Ops, Written, Depth
    <2>3. CASE Branch!Upgrade(t)
        <3>1. PICK mode \in Written : mode = IF b.mode = "read" THEN "write" ELSE "read"
            BY DEF Written
        <3>2. job' = [job EXCEPT ![t] = [op |-> "upgrade_unlock", node |-> b.node, mode |-> mode,
                                         blocking |-> FALSE, i |-> Depth(b.node)]]
            BY <1>1, <2>3, <3>1 DEF Branch!Upgrade, Branch!Begin, Depth
        <3> QED
            BY <1>3, <2>1, <3>2 DEF Jobs, Branch!Ops, Written
    <2> QED
        BY <2>2, <2>3
<1>5. taken' = taken /\ branch' = [branch EXCEPT ![t] = Branch!NoBranch]
    BY DEF Branch!Unlock, Branch!Upgrade, Branch!Begin
<1>6. HoldsNoMore(t, k.node, k.i)
    BY <1>3, <1>4, HoldsThatOnly
<1>7. HoldsNoMore(t, k.node, k.i)'
    BY <1>5, <1>6 DEF HoldsNoMore
<1>8. k.i >= 1 /\ k.i <= Depth(k.node)
    BY <1>3, <1>4, AboveNode
<1>9. CallFits(t, k, Branch!NoBranch)'
    BY <1>4, <1>7, <1>8, Nothings DEF CallFits
<1> QED
    BY <1>4, <1>5, <1>8, <1>9, Nothings, StepFits DEF Changes

\* unlock_branch, one node further up.
LEMMA UnlockNodeFits ==
    ASSUME BInv, NEW t \in Threads, Branch!UnlockNode(t)
    PROVE  BInv'
<1>1. PICK j \in Jobs, b \in Branches :
          /\ j = job[t] /\ b = branch[t] /\ CallFits(t, j, b)
          /\ j.i <= Depth(j.node) /\ Branch!Here(t) = Path[j.node][j.i]
          /\ branch = [branch EXCEPT ![t] = b]
    BY CallOf
<1>2. /\ j.op = "unlock" /\ b = Branch!NoBranch /\ j.i >= 1
      /\ HoldsNoMore(t, j.node, j.i) /\ branch' = branch
      /\ Branch!LetGo(t, Path[j.node][j.i])
      /\ IF j.i = 1 THEN Branch!Ends(t) ELSE Branch!Step(t, "unlock", j.i - 1)
    BY <1>1 DEF Branch!UnlockNode, CallFits
<1>3. Branch!TypeOK /\ j.node \in Branch!Nodes /\ j.i \in Nat /\ j.i \in 1..Depth(j.node) /\ Depth(j.node) \in Nat
    BY <1>1, <1>2, AboveNode DEF BInv, Jobs
<1>4. HoldsNoMore(t, j.node, j.i - 1)'
    BY <1>2, <1>3, UnlocksWhatIsLeft
<1>5. Changes(t)
    BY <1>2, <1>3, AboveNode, HoldChanges
<1>6. CASE j.i = 1
    <2>1. job' = [job EXCEPT ![t] = Branch!NoJob]
        BY <1>2, <1>6 DEF Branch!Ends
    <2>2. HoldsNoMore(t, j.node, 0)'
        BY <1>4, <1>6
    <2>3. \A n \in Branch!Nodes : taken'[n][t] = Branch!Unlocked
        BY <1>3, <2>2, AboveNode DEF HoldsNoMore
    <2>4. HoldsNoMore(t, Root, 0)'
        BY <2>3 DEF HoldsNoMore
    <2>5. CallFits(t, Branch!NoJob, b)'
        BY <1>2, <2>4, Nothings DEF CallFits
    <2> QED
        BY <1>1, <1>2, <1>5, <2>1, <2>5, Nothings, StepFits
<1>7. CASE j.i # 1
    <2>1. PICK k \in Jobs : /\ k.op = "unlock" /\ k.i = j.i - 1
                            /\ k.node = j.node /\ k.mode = j.mode
                            /\ job' = [job EXCEPT ![t] = k]
        <3>1. j.i - 1 \in Nat /\ "unlock" \in Branch!Ops /\ Branch!Step(t, "unlock", j.i - 1)
            BY <1>2, <1>3, <1>7 DEF Branch!Ops
        <3> QED
            BY <1>1, <1>3, <3>1, StepMoves
    <2>2. k.i >= 1 /\ k.i <= Depth(k.node)
        BY <1>3, <1>7, <2>1
    <2>3. CallFits(t, k, b)'
        BY <1>2, <1>4, <2>1, <2>2 DEF CallFits
    <2> QED
        BY <1>1, <1>2, <1>5, <2>1, <2>2, <2>3, StepFits
<1> QED
    BY <1>6, <1>7

\* upgrade_branch gives up everything below the root ...
LEMMA UpgradeUnlockFits ==
    ASSUME BInv, NEW t \in Threads, Branch!UpgradeUnlock(t)
    PROVE  BInv'
<1>1. PICK j \in Jobs, b \in Branches :
          /\ j = job[t] /\ b = branch[t] /\ CallFits(t, j, b)
          /\ j.i <= Depth(j.node) /\ Branch!Here(t) = Path[j.node][j.i]
          /\ branch = [branch EXCEPT ![t] = b]
    BY CallOf
<1>2. /\ j.op = "upgrade_unlock" /\ b = Branch!NoBranch /\ j.i >= 1 /\ j.mode \in Written
      /\ HoldsNoMore(t, j.node, j.i) /\ branch' = branch
      /\ IF j.i = 1 THEN Branch!Step(t, "upgrade_root", 1) /\ taken' = taken
         ELSE Branch!Step(t, "upgrade_unlock", j.i - 1) /\ Branch!LetGo(t, Path[j.node][j.i])
    BY <1>1 DEF Branch!UpgradeUnlock, CallFits
<1>3. Branch!TypeOK /\ j.node \in Branch!Nodes /\ j.i \in Nat /\ j.i \in 1..Depth(j.node) /\ Depth(j.node) \in Nat
    BY <1>1, <1>2, AboveNode DEF BInv, Jobs
<1>4. "upgrade_root" \in Branch!Ops /\ "upgrade_unlock" \in Branch!Ops /\ 1 \in Nat
    BY DEF Branch!Ops
<1>5. CASE j.i = 1
    <2>1. PICK k \in Jobs : /\ k.op = "upgrade_root" /\ k.i = 1
                            /\ k.node = j.node /\ k.mode = j.mode
                            /\ job' = [job EXCEPT ![t] = k]
        BY <1>1, <1>2, <1>3, <1>4, <1>5, StepMoves
    <2>2. HoldsNoMore(t, k.node, 1)'
        BY <1>2, <1>5, <2>1 DEF HoldsNoMore
    <2>3. CallFits(t, k, b)' /\ k.i <= Depth(k.node)
        BY <1>2, <1>3, <2>1, <2>2 DEF CallFits
    <2> QED
        BY <1>1, <1>2, <1>5, <2>1, <2>3, StepFits DEF Changes
<1>6. CASE j.i # 1
    <2>1. Branch!LetGo(t, Path[j.node][j.i]) /\ Branch!Step(t, "upgrade_unlock", j.i - 1) /\ j.i - 1 \in Nat
        BY <1>2, <1>3, <1>6
    <2>2. PICK k \in Jobs : /\ k.op = "upgrade_unlock" /\ k.i = j.i - 1
                            /\ k.node = j.node /\ k.mode = j.mode
                            /\ job' = [job EXCEPT ![t] = k]
        BY <1>1, <1>3, <1>4, <2>1, StepMoves
    <2>3. HoldsNoMore(t, j.node, j.i - 1)'
        BY <1>2, <1>3, <2>1, UnlocksWhatIsLeft
    <2>4. k.i >= 1 /\ k.i <= Depth(k.node)
        BY <1>3, <1>6, <2>2
    <2>5. CallFits(t, k, b)'
        BY <1>2, <2>2, <2>3, <2>4 DEF CallFits
    <2>6. Changes(t)
        BY <1>3, <2>1, AboveNode, HoldChanges
    <2> QED
        BY <1>1, <1>2, <2>2, <2>4, <2>5, <2>6, StepFits
<1> QED
    BY <1>5, <1>6

\* ... and upgrades the root, before it locks its way down again.
LEMMA UpgradeRootFits ==
    ASSUME BInv, NEW t \in Threads, Branch!UpgradeRoot(t)
    PROVE  BInv'
<1>1. PICK j \in Jobs, b \in Branches :
          /\ j = job[t] /\ b = branch[t] /\ CallFits(t, j, b)
          /\ j.i <= Depth(j.node)
          /\ branch = [branch EXCEPT ![t] = b]
    BY CallOf
<1>2. /\ j.op = "upgrade_root" /\ b = Branch!NoBranch /\ j.i = 1 /\ j.mode \in Written
      /\ HoldsNoMore(t, j.node, 1)
      /\ Branch!Hold(t, Root, Branch!ModeAt(j.node, j.mode, 1))
    BY <1>1 DEF Branch!UpgradeRoot, CallFits
<1>3. Branch!TypeOK /\ j.node \in Branch!Nodes /\ Depth(j.node) \in Nat /\ Depth(j.node) >= 1 /\ Root \in Branch!Nodes
    BY <1>1, AboveNode, PathsAssumption DEF BInv, Jobs
<1>4. Holds(t, j.node, j.mode, 1)'
    BY <1>2, <1>3, RootUpgraded
<1>5. Changes(t)
    BY <1>2, <1>3, ModesOfBranch, HoldChanges
<1>6. CASE Branch!Last(t)
    <2>1. PICK c \in Branches : /\ c.node = j.node /\ c.mode = j.mode
                                /\ branch' = [branch EXCEPT ![t] = c]
        BY <1>1, <1>3, <1>6 DEF Branch!UpgradeRoot, Branch!Locked, Branches, Jobs
    <2>2. job' = [job EXCEPT ![t] = Branch!NoJob] /\ 1 = Depth(j.node)
        BY <1>1, <1>2, <1>6 DEF Branch!UpgradeRoot, Branch!Last, Branch!Ends, Depth
    <2>3. c # Branch!NoBranch /\ c.mode # Branch!Unlocked
        BY <1>2, <2>1, Nothings
    <2>4. CallFits(t, Branch!NoJob, c)'
        BY <1>4, <2>1, <2>2, <2>3, Nothings DEF CallFits
    <2> QED
        BY <1>5, <2>1, <2>2, <2>4, Nothings, StepFits
<1>7. CASE ~Branch!Last(t)
    <2>1. PICK k \in Jobs : /\ k.op = "upgrade_relock" /\ k.i = 2
                            /\ k.node = j.node /\ k.mode = j.mode
                            /\ job' = [job EXCEPT ![t] = k]
        <3>1. "upgrade_relock" \in Branch!Ops /\ 2 \in Nat /\ Branch!Step(t, "upgrade_relock", 2)
            BY <1>7 DEF Branch!Ops, Branch!UpgradeRoot
        <3> QED
            BY <1>1, <1>3, <3>1, StepMoves
    <2>2. branch' = branch /\ 1 # Depth(j.node)
        BY <1>1, <1>2, <1>7 DEF Branch!UpgradeRoot, Branch!Last, Depth
    <2>3. k.i <= Depth(k.node) /\ k.i - 1 = 1
        BY <1>3, <2>1, <2>2
    <2>4. CallFits(t, k, b)'
        BY <1>2, <1>4, <2>1, <2>3 DEF CallFits
    <2> QED
        BY <1>1, <1>5, <2>1, <2>2, <2>3, <2>4, StepFits
<1> QED
    BY <1>6, <1>7

\* A find chooses a child of its branch.
LEMMA DescendFits ==
    ASSUME BInv, NEW t \in Threads, Branch!Descend(t)
    PROVE  BInv'
<1>1. PICK j \in Jobs, b \in Branches :
          /\ j = job[t] /\ b = branch[t] /\ CallFits(t, j, b)
          /\ branch = [branch EXCEPT ![t] = b]
    BY CallOf
<1>2. PICK n \in Branch!Nodes : /\ Path[n] = Append(Path[b.node], n)
                         /\ Branch!Begin(t, "descend", n, "read", Depth(n))
    BY <1>1 DEF Branch!Descend, Depth
<1>3. b.mode = "read" /\ b # Branch!NoBranch /\ Holds(t, b.node, "read", Depth(b.node))
    <2>1. j = Branch!NoJob /\ b.mode = "read" /\ b # Branch!NoBranch
        BY <1>1, Nothings DEF Branch!Descend, Written
    <2> QED
        BY <1>1, <2>1, Nothings DEF CallFits
<1>4. UNCHANGED <<taken, branch>>
    BY <1>2 DEF Branch!Descend, Branch!Begin
<1>5. PICK k \in Jobs : /\ k.op = "descend" /\ k.node = n /\ k.mode = "read" /\ k.i = Depth(n)
                        /\ job' = [job EXCEPT ![t] = k]
    <2>1. Depth(n) \in Nat
        BY AboveNode
    <2> QED
        BY <1>2, <2>1 DEF Branch!Begin, Jobs, Branch!Ops
<1>6. Holds(t, b.node, "read", Depth(b.node))'
    BY <1>3, <1>4 DEF Holds
<1>7. "read" \in Written /\ "read" # Branch!Unlocked /\ k.i <= Depth(k.node)
    BY <1>5, AboveNode, Nothings DEF Written
<1>8. CallFits(t, k, b)'
    BY <1>2, <1>3, <1>5, <1>6, <1>7 DEF CallFits, Descends
<1> QED
    BY <1>1, <1>4, <1>5, <1>7, <1>8, StepFits DEF Changes

\* It locks the child, or gives the branch up.
LEMMA TryChildFits ==
    ASSUME BInv, NEW t \in Threads, Branch!TryChild(t)
    PROVE  BInv'
<1>1. PICK j \in Jobs, b \in Branches :
          /\ j = job[t] /\ b = branch[t] /\ CallFits(t, j, b)
          /\ j.i <= Depth(j.node) /\ Branch!Here(t) = Path[j.node][j.i]
          /\ branch = [branch EXCEPT ![t] = b]
    BY CallOf
<1>2. /\ j.op = "descend" /\ j.mode = "read" /\ b.mode = "read" /\ b.mode # Branch!Unlocked
      /\ Path[j.node] = Append(Path[b.node], j.node) /\ j.i = Depth(j.node)
      /\ Holds(t, b.node, "read", Depth(b.node))
    BY <1>1, Nothings DEF Branch!TryChild, CallFits, Descends, Written
<1>3. /\ Branch!TypeOK /\ j.node \in Branch!Nodes /\ b.node \in Branch!Nodes
      /\ Depth(b.node) \in Nat /\ Depth(b.node) >= 1 /\ j.i = Depth(b.node) + 1
      /\ Path[j.node][j.i] = j.node /\ Depth(j.node) = Depth(b.node) + 1
    <2>1. Branch!TypeOK /\ j.node \in Branch!Nodes /\ b.node \in Branch!Nodes
        BY DEF BInv, Jobs, Branches
    <2>2. Depth(b.node) \in Nat /\ Depth(b.node) >= 1 /\ Path[j.node][Depth(j.node)] = j.node
        BY <2>1, AboveNode
    <2>3. Depth(j.node) = Depth(b.node) + 1
        BY <1>2, <2>1, AboveChild
    <2> QED
        BY <1>2, <2>1, <2>2, <2>3
<1>4. ASSUME Branch!Hold(t, j.node, "read"), Branch!Step(t, "soften", j.i - 1), branch' = branch
      PROVE  BInv'
    <2>1. PICK k \in Jobs : /\ k.op = "soften" /\ k.i = Depth(b.node)
                            /\ k.node = j.node /\ k.mode = "read"
                            /\ job' = [job EXCEPT ![t] = k]
        <3>1. "soften" \in Branch!Ops /\ j.i - 1 = Depth(b.node)
            BY <1>3 DEF Branch!Ops
        <3> QED
            BY <1>1, <1>2, <1>3, <1>4, <3>1, StepMoves
    <2>2. HoldsChild(t, b.node, j.node)'
        BY <1>2, <1>3, <1>4, ChildLocked
    <2>3. k.i <= Depth(k.node) /\ "read" \in Written
        BY <1>3, <2>1 DEF Written
    <2>4. CallFits(t, k, b)'
        BY <1>2, <2>1, <2>2, <2>3 DEF CallFits, Descends
    <2>5. "read" \in Branch!Modes
        BY DEF Branch!Modes
    <2>6. Changes(t)
        BY <1>3, <1>4, <2>5, HoldChanges
    <2> QED
        BY <1>1, <1>4, <2>1, <2>3, <2>4, <2>6, StepFits
<1>5. ASSUME Branch!Step(t, "unlock", j.i - 1), branch' = [branch EXCEPT ![t] = Branch!NoBranch], taken' = taken
      PROVE  BInv'
    <2>1. PICK k \in Jobs : /\ k.op = "unlock" /\ k.i = Depth(b.node)
                            /\ k.node = j.node /\ k.mode = "read"
                            /\ job' = [job EXCEPT ![t] = k]
        <3>1. "unlock" \in Branch!Ops /\ j.i - 1 = Depth(b.node)
            BY <1>3 DEF Branch!Ops
        <3> QED
            BY <1>1, <1>2, <1>3, <1>5, <3>1, StepMoves
    <2>2. HoldsNoMore(t, j.node, Depth(b.node))
        BY <1>2, <1>3, AboveChild DEF Holds, HoldsNoMore
    <2>3. HoldsNoMore(t, k.node, k.i)'
        BY <1>5, <2>1, <2>2 DEF HoldsNoMore
    <2>4. k.i <= Depth(k.node) /\ k.i >= 1
        BY <1>3, <2>1
    <2>5. CallFits(t, k, Branch!NoBranch)'
        BY <2>1, <2>3, <2>4, Nothings DEF CallFits
    <2> QED
        BY <1>5, <2>1, <2>4, <2>5, Nothings, StepFits DEF Changes
<1> QED
    BY <1>1, <1>3, <1>4, <1>5 DEF Branch!TryChild

\* With the child locked it softens its lock of the parent: the branch is the child's.
LEMMA SoftenParentFits ==
    ASSUME BInv, NEW t \in Threads, Branch!SoftenParent(t)
    PROVE  BInv'
<1>1. PICK j \in Jobs, b \in Branches :
          /\ j = job[t] /\ b = branch[t] /\ CallFits(t, j, b)
          /\ Branch!Here(t) = Path[j.node][j.i]
    BY CallOf
<1>2. /\ j.op = "soften" /\ j.mode = "read"
      /\ Path[j.node] = Append(Path[b.node], j.node) /\ j.i = Depth(b.node)
      /\ HoldsChild(t, b.node, j.node)
    BY <1>1 DEF Branch!SoftenParent, CallFits, Descends
<1>3. /\ Branch!TypeOK /\ j.node \in Branch!Nodes /\ b.node \in Branch!Nodes
      /\ Depth(b.node) \in Nat /\ Depth(b.node) >= 1
    BY AboveNode DEF BInv, Jobs, Branches
<1>4. Path[j.node][j.i] = b.node
    <2>1. \A i \in 1..Depth(b.node) : Path[j.node][i] = Path[b.node][i]
        BY <1>2, <1>3, AboveChild
    <2>2. Path[b.node][Depth(b.node)] = b.node
        BY <1>3, AboveNode
    <2>3. Depth(b.node) \in 1..Depth(b.node)
        BY <1>3
    <2> QED
        BY <1>2, <2>1, <2>2, <2>3
<1>5. Branch!Hold(t, b.node, "soft_read") /\ job' = [job EXCEPT ![t] = Branch!NoJob]
    BY <1>1, <1>4 DEF Branch!SoftenParent, Branch!Ends
<1>6. PICK c \in Branches : c.node = j.node /\ c.mode = "read" /\ branch' = [branch EXCEPT ![t] = c]
    BY <1>1, <1>2, <1>3 DEF Branch!SoftenParent, Branch!Locked, Branches
<1>7. Holds(t, j.node, "read", Depth(j.node))'
    BY <1>2, <1>3, <1>5, ParentSoftened
<1>8. c # Branch!NoBranch /\ c.mode # Branch!Unlocked
    BY <1>6, Nothings DEF Written
<1>9. CallFits(t, Branch!NoJob, c)'
    BY <1>6, <1>7, <1>8, Nothings DEF CallFits
<1>10. "soft_read" \in Branch!Modes
    BY DEF Branch!Modes
<1>11. Changes(t)
    BY <1>3, <1>5, <1>10, HoldChanges
<1> QED
    BY <1>5, <1>6, <1>9, <1>11, Nothings, StepFits
-----------------------------------------------------------------------------
(* Branch!Waiting in a circle.                                                    *)

\* In a finite set of threads one is as deep as any: the one with the fewest
\* threads deeper than it.
LEMMA DeepestOf ==
    ASSUME NEW R, IsFiniteSet(R), R # {}, NEW f \in [R -> Nat]
    PROVE  \E t \in R : \A u \in R : f[u] <= f[t]
<1> DEFINE Deeper(t) == {u \in R : f[u] > f[t]}
           Deepers   == {Deeper(t) : t \in R}
<1>1. IsWellFoundedOn(StrictSubsetOrdering(R), SUBSET R)
    BY FS_StrictSubsetOrderingWellFounded, FS_FiniteSubsetsOfFinite
<1>2. Deepers \subseteq SUBSET R /\ Deepers # {}
    <2>1. PICK t : t \in R
        OBVIOUS
    <2>2. Deeper(t) \in Deepers
        BY <2>1
    <2>3. \A u : Deeper(u) \subseteq R
        OBVIOUS
    <2> HIDE DEF Deeper
    <2> QED
        BY <2>2, <2>3
<1> HIDE DEF Deepers
<1>3. PICK D \in Deepers : \A C \in Deepers : <<C, D>> \notin StrictSubsetOrdering(R)
    BY <1>1, <1>2, WFMin
<1>4. PICK t \in R : D = Deeper(t)
    BY DEF Deepers
<1>5. ASSUME NEW u \in R, f[u] > f[t] PROVE FALSE
    <2>1. \A v \in R : f[v] \in Nat
        OBVIOUS
    <2>2. Deeper(u) \subseteq Deeper(t) /\ u \in Deeper(t) /\ u \notin Deeper(u)
        BY <1>5, <2>1
    <2>3. Deeper(u) \in Deepers /\ Deeper(u) \in SUBSET R /\ Deeper(t) \in SUBSET R
        BY DEF Deepers
    <2> HIDE DEF Deeper
    <2>4. <<Deeper(u), Deeper(t)>> \in StrictSubsetOrdering(R)
        BY <2>2, <2>3 DEF StrictSubsetOrdering
    <2> QED
        BY <1>3, <1>4, <2>3, <2>4
<1>6. \A u \in R : f[u] <= f[t]
    BY <1>5
<1> QED
    BY <1>6

\* Who waits for a soft lock of a parent it has locked itself waits for nobody:
\* the others' locks allow the stronger one already.
LEMMA SofteningDoesNotWait ==
    ASSUME BInv, NEW t \in Threads, NEW u \in Threads, Branch!WaitsFor(t, u)
    PROVE  job[t].op # "soften"
<1> SUFFICES ASSUME job[t].op = "soften" PROVE FALSE
    OBVIOUS
<1>1. PICK j \in Jobs, b \in Branches :
          j = job[t] /\ b = branch[t] /\ CallFits(t, j, b) /\ Branch!Here(t) = Path[j.node][j.i]
    BY CallOf
<1>2. /\ j.op = "soften" /\ Path[j.node] = Append(Path[b.node], j.node) /\ j.i = Depth(b.node)
      /\ HoldsChild(t, b.node, j.node) /\ b.node \in Branch!Nodes /\ j.node \in Branch!Nodes
    BY <1>1 DEF CallFits, Descends, Jobs, Branches
<1>3. Depth(b.node) \in Nat /\ Depth(b.node) >= 1 /\ Branch!Below(b.node, b.node) /\ Path[b.node][Depth(b.node)] = b.node
    BY <1>2, AboveNode
<1>4. PICK n \in Branch!Nodes : n = b.node
    BY <1>2
<1>5. Branch!Here(t) = n
    <2>1. \A i \in 1..Depth(n) : Path[j.node][i] = Path[n][i]
        BY <1>2, <1>4, AboveChild
    <2>2. Depth(n) \in 1..Depth(n)
        BY <1>3, <1>4
    <2> QED
        BY <1>1, <1>2, <1>3, <1>4, <2>1, <2>2
<1>6. n \in Folders /\ t # u /\ ~Branch!Compatible("soft_read", taken[n][u])
    BY <1>1, <1>2, <1>5 DEF Branch!WaitsFor, Branch!Wanted
<1>7. taken[n][t] = "read"
    <2>1. taken[n][t] = Branch!ModeAt(n, "read", Depth(n))
        BY <1>2, <1>3, <1>4, <1>6 DEF HoldsChild
    <2> QED
        BY <2>1, ModesOfBranch DEF Depth, Written
<1>8. Branch!Compatible("read", taken[n][u])
    BY <1>6, <1>7 DEF BInv, FoldersAreCompatible
<1>9. taken[n][u] \in Branch!Modes \cup {Branch!Unlocked}
    BY DEF BInv, Branch!TypeOK
<1> QED
    BY <1>6, <1>8, <1>9 DEF Branch!Compatible, Branch!Modes, Branch!Unlocked

\* Who locks its way down again waits for nobody who waits at the root, and for
\* others who lock their way down only if they are further down.
LEMMA RelockWaitsDownwards ==
    ASSUME BInv, NEW t \in Threads, NEW u \in Threads, NEW v \in Threads,
           Branch!WaitsFor(t, u), Branch!WaitsFor(u, v), job[t].op = "upgrade_relock"
    PROVE  job[u].op = "upgrade_relock" /\ job[u].i > job[t].i
<1>1. PICK j \in Jobs, b \in Branches :
          /\ j = job[t] /\ b = branch[t] /\ CallFits(t, j, b)
          /\ j.i <= Depth(j.node) /\ Branch!Here(t) = Path[j.node][j.i]
    BY CallOf
<1>2. PICK k \in Jobs, c \in Branches : k = job[u] /\ c = branch[u] /\ CallFits(u, k, c)
    BY CallOf
<1>3. PICK n : n = Branch!Here(t)
    OBVIOUS
<1>4. j.i >= 2 /\ j.i \in Nat /\ k.i \in Nat /\ j.node \in Branch!Nodes
    BY <1>1 DEF CallFits, Jobs
<1>5. n \in Branch!Nodes /\ Depth(n) = j.i
    <2>1. Depth(j.node) \in Nat
        BY <1>4, AboveNode
    <2>2. j.i \in 1..Depth(j.node)
        BY <1>1, <1>4, <2>1
    <2> QED
        <3>1. \A i \in 1..Depth(j.node) : Path[j.node][i] \in Branch!Nodes /\ Depth(Path[j.node][i]) = i
            BY <1>4, AboveNode
        <3> QED
            BY <1>1, <1>3, <2>2, <3>1
<1>6. taken[n][u] # Branch!Unlocked
    BY <1>3 DEF Branch!WaitsFor, Branch!Compatible, Branch!Unlocked
<1>7. k.op \in {"upgrade_root", "upgrade_relock"}
    BY <1>2, SofteningDoesNotWait DEF Branch!WaitsFor, Branch!Waiting
<1>8. k.op # "upgrade_root"
    <2> SUFFICES ASSUME k.op = "upgrade_root" PROVE FALSE
        OBVIOUS
    <2>1. HoldsNoMore(u, k.node, 1)
        BY <1>2 DEF CallFits
    <2>2. Depth(n) <= 1
        BY <1>5, <1>6, <2>1 DEF HoldsNoMore
    <2> QED
        BY <1>4, <1>5, <2>2
<1>9. Holds(u, k.node, k.mode, k.i - 1)
    BY <1>2, <1>7, <1>8 DEF CallFits
<1>10. Depth(n) <= k.i - 1
    BY <1>5, <1>6, <1>9 DEF Holds
<1> QED
    BY <1>1, <1>2, <1>4, <1>5, <1>7, <1>8, <1>10

\* Threads that all wait for each other are upgrades of the root.
LEMMA CircleAtTheRoot ==
    ASSUME BInv, NEW S \in SUBSET Threads, S # {},
           \A t \in S : \E u \in S : Branch!WaitsFor(t, u)
    PROVE  \E t, u \in S : t # u /\ job[t].op = "upgrade_root" /\ job[u].op = "upgrade_root"
<1> DEFINE R == {t \in S : job[t].op = "upgrade_relock"}
<1>1. R = {}
    <2> SUFFICES ASSUME R # {} PROVE FALSE
        OBVIOUS
    <2> DEFINE f == [t \in R |-> job[t].i]
    <2>1. IsFiniteSet(R)
        BY ThreadsAssumption, FS_Subset
    <2>2. f \in [R -> Nat]
        BY DEF BInv, Branch!TypeOK
    <2>3. \A t \in R : f[t] = job[t].i
        OBVIOUS
    <2> HIDE DEF f
    <2>4. PICK t \in R : \A u \in R : f[u] <= f[t]
        BY <2>1, <2>2, DeepestOf
    <2>5. PICK u \in S : Branch!WaitsFor(t, u)
        OBVIOUS
    <2>6. PICK v \in S : Branch!WaitsFor(u, v)
        OBVIOUS
    <2>7. u \in R /\ job[u].i > job[t].i
        BY <2>5, <2>6, RelockWaitsDownwards
    <2> QED
        BY <2>2, <2>3, <2>4, <2>7
<1>2. ASSUME NEW t \in S PROVE job[t].op = "upgrade_root"
    <2>1. PICK u \in S : Branch!WaitsFor(t, u)
        OBVIOUS
    <2> QED
        BY <1>1, <2>1, SofteningDoesNotWait DEF Branch!WaitsFor, Branch!Waiting
<1>3. PICK t \in S : TRUE
    OBVIOUS
<1>4. PICK u \in S : Branch!WaitsFor(t, u)
    OBVIOUS
<1> QED
    BY <1>2, <1>4 DEF Branch!WaitsFor
-----------------------------------------------------------------------------
(* The theorems.                                                           *)

\* Nobody holds anything.
LEMMA InitBInv ==
    Branch!Init => BInv
<1> SUFFICES ASSUME Branch!Init PROVE BInv
    OBVIOUS
<1>1. Branch!TypeOK
    <2>1. \A t \in Threads : job[t] = Branch!NoJob /\ branch[t] = Branch!NoBranch
        BY DEF Branch!Init
    <2>2. taken \in [Branch!Nodes -> [Threads -> Branch!Modes \cup {Branch!Unlocked}]]
        BY DEF Branch!Init
    <2>3. job \in [Threads -> Jobs] /\ branch \in [Threads -> Branches]
        BY Nothings DEF Branch!Init
    <2>4. \A t \in Threads : job[t].i <= Len(Path[job[t].node])
        BY <2>1, Nothings DEF Depth
    <2> QED
        BY <2>2, <2>3, <2>4 DEF Branch!TypeOK, Jobs, Branches
<1>2. FoldersAreCompatible
    BY DEF Branch!Init, FoldersAreCompatible, Branch!Unlocked, Branch!Compatible
<1>3. ASSUME NEW t \in Threads PROVE JobFits(t)
    <2>1. job[t] = Branch!NoJob /\ branch[t] = Branch!NoBranch /\ HoldsNoMore(t, Root, 0)
        BY DEF Branch!Init, HoldsNoMore
    <2> QED
        BY <2>1, Nothings DEF JobFits, CallFits
<1> QED
    BY <1>1, <1>2, <1>3 DEF BInv

\* BInv holds in every state of every behaviour.
THEOREM BranchLocksInvariant == Branch!Spec => []BInv
<1>1. BInv /\ [Branch!Next]_(Branch!vars) => BInv'
    <2>1. ASSUME BInv, Branch!Next PROVE BInv'
        BY <2>1, LockFits, LockNodeFits, TryFailsFits, BackOffFits, UnlockFits, UnlockNodeFits,
           UpgradeUnlockFits, UpgradeRootFits, DescendFits, TryChildFits, SoftenParentFits DEF Branch!Next
    <2>2. ASSUME BInv, UNCHANGED Branch!vars PROVE BInv'
        BY <2>2 DEF Branch!vars, BInv, Branch!TypeOK, FoldersAreCompatible, JobFits, CallFits, Descends,
                    Holds, HoldsNoMore, HoldsChild
    <2> QED
        BY <2>1, <2>2
<1> QED
    BY <1>1, InitBInv, PTL DEF Branch!Spec

\* Every variable has its type, and no call leaves the branch it is about.
THEOREM BranchLocksTypeCorrect == Branch!Spec => []Branch!TypeOK
<1>1. BInv => Branch!TypeOK
    BY DEF BInv
<1> QED
    BY <1>1, BranchLocksInvariant, PTL

\* The run checks the definitions of VfsBranches, Branch holds copies of them.
LEMMA SameBranchProperties ==
    /\ Branch!SubtreeExclusion <=> SubtreeExclusion
    /\ Branch!LocksAreBranch <=> LocksAreBranch
    /\ Branch!OnlyRootUpgradesDeadlock <=> OnlyRootUpgradesDeadlock
<1>1. Branch!NoBranch = NoBranch /\ Branch!NoJob = NoJob /\ Branch!Nodes = Nodes /\ Branch!Unlocked = Unlocked
    BY DEF Branch!NoBranch, NoBranch, Branch!NoJob, NoJob, Branch!Nodes, Nodes, Branch!Unlocked, Unlocked
<1>2. ASSUME NEW n, NEW m PROVE Branch!Below(n, m) <=> Below(n, m)
    BY DEF Branch!Below, Below
<1>3. ASSUME NEW n, NEW m, NEW i PROVE Branch!ModeAt(n, m, i) = ModeAt(n, m, i)
    BY DEF Branch!ModeAt, ModeAt, Branch!soften_lock, soften_lock
<1>4. Branch!SubtreeExclusion <=> SubtreeExclusion
    BY <1>1, <1>2 DEF Branch!SubtreeExclusion, SubtreeExclusion
<1>5. Branch!LocksAreBranch <=> LocksAreBranch
    BY <1>1, <1>2, <1>3 DEF Branch!LocksAreBranch, LocksAreBranch
<1>6. ASSUME NEW t, NEW u PROVE Branch!WaitsFor(t, u) <=> WaitsFor(t, u)
    <2>1. Branch!Here(t) = Here(t)
        BY DEF Branch!Here, Here
    <2>2. Branch!Wanted(t) = Wanted(t)
        BY <1>3 DEF Branch!Wanted, Wanted
    <2>3. ASSUME NEW a, NEW b PROVE Branch!Compatible(a, b) <=> Compatible(a, b)
        BY <1>1 DEF Branch!Compatible, Compatible
    <2> QED
        BY <2>1, <2>2, <2>3 DEF Branch!WaitsFor, WaitsFor, Branch!Waiting, Waiting
<1>7. Branch!OnlyRootUpgradesDeadlock <=> OnlyRootUpgradesDeadlock
    BY <1>6 DEF Branch!OnlyRootUpgradesDeadlock, OnlyRootUpgradesDeadlock
<1> QED
    BY <1>4, <1>5, <1>7

\* A written branch is nobody else's, whatever tree the two branches lie in:
\* lock_branch leaves a soft lock on the whole way down, and upgrade_branch is
\* in nobody's branch while it gives its locks up.
THEOREM BranchesExclude == Branch!Spec => []SubtreeExclusion
<1>1. BInv => Branch!SubtreeExclusion
    <2> SUFFICES ASSUME BInv, NEW t \in Threads, NEW u \in Threads,
                        t # u, Branch!NoBranch # branch[t], Branch!NoBranch # branch[u],
                        branch[t].node \in Folders, Branch!Below(branch[t].node, branch[u].node)
                 PROVE  branch[t].mode = "read" /\ branch[u].mode = "read"
        BY DEF Branch!SubtreeExclusion
    <2>1. ASSUME NEW v \in Threads, Branch!NoBranch # branch[v]
          PROVE  /\ branch[v].node \in Branch!Nodes /\ branch[v].mode \in Written
                 /\ \A n \in Branch!Nodes : n \in Folders /\ Branch!Below(n, branch[v].node)
                       => taken[n][v] = Branch!ModeAt(branch[v].node, branch[v].mode, Depth(n))
        <3>1. PICK j \in Jobs, b \in Branches : j = job[v] /\ b = branch[v] /\ CallFits(v, j, b)
            BY CallOf
        <3>2. b.node \in Branch!Nodes /\ b.mode \in Written
            BY <2>1, <3>1 DEF CallFits, Branches, Written
        <3>3. \A n \in Branch!Nodes : Branch!Below(n, b.node) => Depth(n) <= Depth(b.node)
            BY <3>2, AboveNode
        <3>4. j.op \in {"none", "descend", "soften"}
            BY <2>1, <3>1 DEF CallFits
        <3>5. ASSUME NEW n \in Branch!Nodes, n \in Folders, Branch!Below(n, b.node)
              PROVE  taken[n][v] = Branch!ModeAt(b.node, b.mode, Depth(n))
            <4>1. CASE j.op = "none"
                <5>1. Holds(v, b.node, b.mode, Depth(b.node))
                    BY <2>1, <3>1, <4>1 DEF CallFits
                <5> QED
                    BY <3>3, <3>5, <5>1 DEF Holds
            <4>2. CASE j.op = "descend"
                <5>1. Holds(v, b.node, "read", Depth(b.node)) /\ b.mode = "read"
                    BY <3>1, <4>2 DEF CallFits, Descends
                <5> QED
                    BY <3>3, <3>5, <5>1 DEF Holds
            <4>3. CASE j.op = "soften"
                <5>1. HoldsChild(v, b.node, j.node) /\ b.mode = "read"
                    BY <3>1, <4>3 DEF CallFits, Descends
                <5> QED
                    BY <3>5, <5>1 DEF HoldsChild
            <4> QED
                BY <3>4, <4>1, <4>2, <4>3
        <3> QED
            BY <3>1, <3>2, <3>5
    <2>2. PICK n, N, m, l : n = branch[t].node /\ N = branch[u].node /\ m = branch[t].mode /\ l = branch[u].mode
        OBVIOUS
    <2>3. n \in Branch!Nodes /\ N \in Branch!Nodes /\ m \in Written /\ l \in Written /\ n \in Folders /\ Branch!Below(n, N)
        BY <2>1, <2>2
    <2>4. Branch!Below(n, n)
        BY <2>3, AboveNode
    <2>5. taken[n][t] = m /\ taken[n][u] = Branch!ModeAt(N, l, Depth(n))
        BY <2>1, <2>2, <2>3, <2>4, ModesOfBranch DEF Depth
    <2>6. taken[n][u] \in {l, IF l = "read" THEN "soft_read" ELSE "soft_write"}
        <3>1. /\ Depth(n) = Len(Path[N]) => Branch!ModeAt(N, l, Depth(n)) = l
              /\ Depth(n) # Len(Path[N]) =>
                    Branch!ModeAt(N, l, Depth(n)) = IF l = "read" THEN "soft_read" ELSE "soft_write"
            BY <2>3, ModesOfBranch
        <3> QED
            BY <2>5, <3>1
    <2>7. Branch!Compatible(taken[n][t], taken[n][u])
        BY <2>3 DEF BInv, FoldersAreCompatible
    <2> QED
        BY <2>2, <2>3, <2>5, <2>6, <2>7 DEF Branch!Compatible, Branch!Unlocked, Written
<1> QED
    BY <1>1, SameBranchProperties, BranchLocksInvariant, PTL

\* A thread outside of these calls holds the locks of its branch and no other:
\* nothing is left behind by a try that failed, an upgrade or a find.
THEOREM NothingIsLeftLocked == Branch!Spec => []LocksAreBranch
<1>1. BInv => Branch!LocksAreBranch
    <2> SUFFICES ASSUME BInv, NEW t \in Threads, job[t] = Branch!NoJob, NEW n \in Branch!Nodes
                 PROVE  taken[n][t] = IF branch[t] # Branch!NoBranch /\ n \in Folders /\ Branch!Below(n, branch[t].node)
                                     THEN Branch!ModeAt(branch[t].node, branch[t].mode, Len(Path[n]))
                                     ELSE Branch!Unlocked
        BY DEF Branch!LocksAreBranch
    <2>1. PICK j \in Jobs, b \in Branches : j = job[t] /\ b = branch[t] /\ CallFits(t, j, b)
        BY CallOf
    <2>2. CASE b = Branch!NoBranch
        <3>1. HoldsNoMore(t, Root, 0)
            BY <2>1, <2>2, Nothings DEF CallFits
        <3> QED
            BY <2>1, <2>2, <3>1, Nothings, HoldsNothing
    <2>3. CASE b # Branch!NoBranch
        <3>1. Holds(t, b.node, b.mode, Depth(b.node)) /\ b.node \in Branch!Nodes
            BY <2>1, <2>3, Nothings DEF CallFits, Branches
        <3>2. Branch!Below(n, b.node) => Depth(n) <= Depth(b.node)
            BY <3>1, AboveNode
        <3> QED
            BY <2>1, <2>3, <3>1, <3>2 DEF Holds, Depth
    <2> QED
        BY <2>2, <2>3
<1> QED
    BY <1>1, SameBranchProperties, BranchLocksInvariant, PTL

\* Branch locks can only stop for ever in upgrades of the root: locks are taken
\* from the root down, so whoever waits further down waits for somebody deeper.
THEOREM OnlyUpgradesOfTheRootStop == Branch!Spec => []OnlyRootUpgradesDeadlock
<1>1. BInv => Branch!OnlyRootUpgradesDeadlock
    BY CircleAtTheRoot DEF Branch!OnlyRootUpgradesDeadlock
<1> QED
    BY <1>1, SameBranchProperties, BranchLocksInvariant, PTL

-----------------------------------------------------------------------------
(* The three together, as the run checks them.                             *)

\* A behaviour of MCLocks is one of each lock: those that are not its subject
\* stutter.
LEMMA EachLockBehaves == LocksSpec => Spec /\ Node!Spec /\ Branch!Spec
<1>1. LocksInit => Init /\ Node!Init /\ Branch!Init
    BY DEF LocksInit
<1>2. [LocksNext]_<<vars, nodeVars, branchVars, subject>>
        => [Next]_vars /\ [Node!Next]_(Node!vars) /\ [Branch!Next]_(Branch!vars)
    <2>1. UNCHANGED nodeVars => UNCHANGED Node!vars
        BY DEF nodeVars, Node!vars
    <2>2. UNCHANGED branchVars => UNCHANGED Branch!vars
        BY DEF branchVars, Branch!vars
    <2> QED
        BY <2>1, <2>2 DEF LocksNext
<1> QED
    BY <1>1, <1>2, PTL DEF LocksSpec, Spec, Node!Spec, Branch!Spec

\* Whatever lock a behaviour is about, words, calls, held modes and branches keep
\* their types: no count wraps or underflows, and no call leaves its branch.
THEOREM LocksTypesCorrect == LocksSpec => []LocksTypesOK
<1>1. TypeOK /\ Node!TypeOK /\ Branch!TypeOK => LocksTypesOK
    BY DEF LocksTypesOK
<1> QED
    BY <1>1, EachLockBehaves, TypeCorrect, NodeLockTypeCorrect, BranchLocksTypeCorrect, PTL
=============================================================================
