-------------------------- MODULE SimpleLockProofs --------------------------
(***************************************************************************)
(* SimpleLock for any number of threads and any nesting: types, the        *)
(* agreement of its two words, the assertions of                           *)
(* threading_simple_lock.h, and that it implements SharedExclusiveLock.    *)
(***************************************************************************)
EXTENDS SimpleLock, TLAPS

\* What the place of a thread in the code says about the lock: a spinning
\* thread does not own it, and in the two windows its owner owes one unlock.
PlaceRemembers(t) ==
    /\ at[t] = "spinning" => threadId # t
    /\ at[t] \in {"acquired", "releasing"} => threadId = t /\ owes[t] = 1

\* CountIsOwnersDebt is inductive together with what the places remember.
SInv ==
    /\ TypeOK
    /\ CountIsOwnersDebt
    /\ \A t \in Threads : PlaceRemembers(t)

-----------------------------------------------------------------------------
(* The inductive invariant.                                                *)

\* The initial state satisfies the invariant.
LEMMA InitSInv == Init => SInv
BY ThreadsAssumption
   DEF Init, SInv, TypeOK, Places, CountIsOwnersDebt, PlaceRemembers

\* The owner takes the lock again.
LEMMA LockAgainSInv ==
    ASSUME SInv, NEW t \in Threads, LockAgain(t)
    PROVE  SInv'
<1> USE ThreadsAssumption DEF SInv, LockAgain, TypeOK, Places
<1>1. TypeOK'
    OBVIOUS
<1>2. CountIsOwnersDebt'
    BY DEF CountIsOwnersDebt
<1>3. ASSUME NEW u \in Threads PROVE PlaceRemembers(u)'
    BY DEF PlaceRemembers
<1> QED
    BY <1>1, <1>2, <1>3

\* A thread that does not own the lock starts to spin.
LEMMA LockFirstSInv ==
    ASSUME SInv, NEW t \in Threads, LockFirst(t)
    PROVE  SInv'
<1> USE ThreadsAssumption DEF SInv, LockFirst, TypeOK, Places
<1>1. TypeOK'
    OBVIOUS
<1>2. CountIsOwnersDebt'
    BY DEF CountIsOwnersDebt
<1>3. ASSUME NEW u \in Threads PROVE PlaceRemembers(u)'
    BY DEF PlaceRemembers
<1> QED
    BY <1>1, <1>2, <1>3

\* The compare-exchange that takes a free lock.
LEMMA AcquireSInv ==
    ASSUME SInv, NEW t \in Threads, Acquire(t)
    PROVE  SInv'
<1> USE ThreadsAssumption DEF SInv, Acquire, TypeOK, Places
<1>1. TypeOK'
    OBVIOUS
<1>2. \A u \in Threads : owes[u] = 0
    BY DEF CountIsOwnersDebt
<1>3. CountIsOwnersDebt'
    BY <1>2 DEF CountIsOwnersDebt
<1>4. ASSUME NEW u \in Threads PROVE PlaceRemembers(u)'
    BY <1>2 DEF PlaceRemembers
<1> QED
    BY <1>1, <1>3, <1>4

\* The owner writes the count of a lock it has just taken.
LEMMA CountFirstSInv ==
    ASSUME SInv, NEW t \in Threads, CountFirst(t)
    PROVE  SInv'
<1> USE ThreadsAssumption DEF SInv, CountFirst, TypeOK, Places
<1>1. TypeOK'
    OBVIOUS
<1>2. threadId = t /\ owes[t] = 1
    BY DEF PlaceRemembers
<1>3. CountIsOwnersDebt'
    BY <1>2 DEF CountIsOwnersDebt
<1>4. ASSUME NEW u \in Threads PROVE PlaceRemembers(u)'
    BY DEF PlaceRemembers
<1> QED
    BY <1>1, <1>3, <1>4

\* The decrement of unlock, the last one and any other.
LEMMA UnlockSInv ==
    ASSUME SInv, NEW t \in Threads, Unlock(t)
    PROVE  SInv'
<1> USE ThreadsAssumption DEF SInv, Unlock, TypeOK, Places
<1>1. threadId = t /\ depth = owes[t] /\ owes[t] \in Nat \ {0}
    BY DEF CountIsOwnersDebt
<1>2. TypeOK'
    BY <1>1
<1>3. CountIsOwnersDebt'
    BY <1>1 DEF CountIsOwnersDebt
<1>4. ASSUME NEW u \in Threads PROVE PlaceRemembers(u)'
    BY <1>1 DEF PlaceRemembers
<1> QED
    BY <1>2, <1>3, <1>4

\* The exchange that frees the lock.
LEMMA ReleaseSInv ==
    ASSUME SInv, NEW t \in Threads, Release(t)
    PROVE  SInv'
<1> USE ThreadsAssumption DEF SInv, Release, TypeOK, Places
<1>1. threadId = t /\ owes[t] = 1 /\ depth = 0
    BY DEF PlaceRemembers, CountIsOwnersDebt
<1>2. TypeOK'
    BY <1>1
<1>3. CountIsOwnersDebt'
    BY <1>1 DEF CountIsOwnersDebt
<1>4. ASSUME NEW u \in Threads PROVE PlaceRemembers(u)'
    BY <1>1 DEF PlaceRemembers, CountIsOwnersDebt
<1> QED
    BY <1>2, <1>3, <1>4

\* Every step keeps the inductive invariant.
LEMMA NextSInv == SInv /\ [Next]_vars => SInv'
<1> SUFFICES ASSUME SInv, [Next]_vars PROVE SInv'
    OBVIOUS
<1>1. CASE Next
    BY <1>1, LockAgainSInv, LockFirstSInv, AcquireSInv, CountFirstSInv,
       UnlockSInv, ReleaseSInv DEF Next
<1>2. CASE UNCHANGED vars
    BY <1>2 DEF vars, SInv, TypeOK, CountIsOwnersDebt, PlaceRemembers
<1> QED
    BY <1>1, <1>2

\* Every reachable state satisfies the inductive invariant.
THEOREM SimpleInvariance == Spec => []SInv
BY InitSInv, NextSInv, PTL DEF Spec

\* The words keep their types: m_lock, a count without a check, never
\* underflows (threading_simple_lock.h, unlock).
THEOREM SimpleTypeCorrect == Spec => []TypeOK
<1>1. SInv => TypeOK
    BY DEF SInv
<1> QED
    BY <1>1, SimpleInvariance, PTL

\* The plain count and the owner agree outside the two windows in which the
\* code has changed one of them only, whoever runs in between.
THEOREM SimpleCountHolds == Spec => []CountIsOwnersDebt
<1>1. SInv => CountIsOwnersDebt
    BY DEF SInv
<1> QED
    BY <1>1, SimpleInvariance, PTL

\* ASSERT(!m_lock) after an acquisition and the two assertions of unlock can
\* not fire.
THEOREM SimpleAssertionsHold == Spec => []AssertionsOfTheCode
<1>1. SInv => AssertionsOfTheCode
    BY DEF SInv, TypeOK, CountIsOwnersDebt, PlaceRemembers, AssertionsOfTheCode
<1> QED
    BY <1>1, SimpleInvariance, PTL

-----------------------------------------------------------------------------
(* The lock implements its promise, with no readers.                       *)

\* Every step of the code is a step of the promise or invisible to it.
LEMMA SimpleStepKeepsPromise == SInv /\ [Next]_vars => [Promise!Next]_Promise!lockVars
<1> SUFFICES ASSUME SInv, [Next]_vars PROVE [Promise!Next]_Promise!lockVars
    OBVIOUS
<1>1. ASSUME NEW t \in Threads, LockAgain(t) PROVE Promise!AcquireWrite(t)
    BY <1>1 DEF SInv, TypeOK, CountIsOwnersDebt, LockAgain, Promise!AcquireWrite
<1>2. ASSUME NEW t \in Threads, Acquire(t) PROVE Promise!AcquireWrite(t)
    BY <1>2, ThreadsAssumption
       DEF SInv, TypeOK, CountIsOwnersDebt, Acquire, Promise!AcquireWrite
<1>3. ASSUME NEW t \in Threads, Release(t) PROVE Promise!ReleaseWrite(t)
    BY <1>3 DEF SInv, PlaceRemembers, Release, Promise!ReleaseWrite
<1>4. ASSUME NEW t \in Threads, LockFirst(t) \/ CountFirst(t)
      PROVE  UNCHANGED Promise!lockVars
    BY <1>4 DEF LockFirst, CountFirst, Promise!lockVars
<1>5. ASSUME NEW t \in Threads, Unlock(t)
      PROVE  Promise!ReleaseWrite(t) \/ UNCHANGED Promise!lockVars
    BY <1>5 DEF Unlock, Promise!ReleaseWrite, Promise!lockVars
<1>6. CASE UNCHANGED vars
    BY <1>6 DEF vars, Promise!lockVars
<1> QED
    BY <1>1, <1>2, <1>3, <1>4, <1>5, <1>6 DEF Next, Promise!Next

\* simple_lock implements the exclusive half of the shared/exclusive lock.
THEOREM SimpleImplementation == Spec => ImplementsPromise
<1>1. Init => Promise!Init
    BY DEF Init, Promise!Init
<1> QED
    BY <1>1, SimpleInvariance, SimpleStepKeepsPromise, PTL
       DEF Spec, ImplementsPromise, Promise!Spec

=============================================================================
