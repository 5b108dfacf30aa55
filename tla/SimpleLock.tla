----------------------------- MODULE SimpleLock -----------------------------
(***************************************************************************)
(* xray::threading::simple_lock (threading_simple_lock.h): a spin lock     *)
(* made of an owner, changed by compare-exchange, and a plain nesting      *)
(* count that only the owner is supposed to touch.  lock() is recursive,   *)
(* try_lock() is not.  The count is written one step after the owner, in   *)
(* both directions, which is what the two assertions of the code guard.    *)
(***************************************************************************)
EXTENDS LockUsers, Naturals, FiniteSets

CONSTANTS
    MaxDepth        \* bound on nested lock() calls of one thread

VARIABLES
    threadId,       \* m_thread_id
    depth,          \* m_lock
    at,             \* where each thread is in lock, try_lock or unlock
    owes            \* owes[t]: lock() calls of t not yet matched by an unlock()

vars == <<threadId, depth, at, owes>>

Places == {"outside", "spinning", "acquired", "releasing"}

Init ==
    /\ threadId = NoThread
    /\ depth = 0
    /\ at = [t \in Threads |-> "outside"]
    /\ owes = [t \in Threads |-> 0]

\* lock(), lines 43-47: the owner only counts.
LockAgain(t) ==
    /\ at[t] = "outside"
    /\ threadId = t
    /\ depth < MaxDepth
    /\ depth' = depth + 1
    /\ owes' = [owes EXCEPT ![t] = @ + 1]
    /\ UNCHANGED <<threadId, at>>

\* lock() by anybody else: start to spin.
LockFirst(t) ==
    /\ at[t] = "outside"
    /\ threadId # t
    /\ at' = [at EXCEPT ![t] = "spinning"]
    /\ UNCHANGED <<threadId, depth, owes>>

\* Mutant: the owner is stored, not compare-exchanged.
AcquireTaken(t) ==
    /\ at[t] \in {"outside", "spinning"}
    /\ threadId' = t
    /\ at' = [at EXCEPT ![t] = "acquired"]
    /\ owes' = [owes EXCEPT ![t] = @ + 1]
    /\ UNCHANGED depth

\* The compare-exchange of lock() and of try_lock() that finds the lock free.
\* A try_lock() that finds it taken, by the caller too, changes nothing.
Acquire(t) ==
    /\ at[t] \in {"outside", "spinning"}
    /\ threadId = NoThread
    /\ threadId' = t
    /\ at' = [at EXCEPT ![t] = "acquired"]
    /\ owes' = [owes EXCEPT ![t] = @ + 1]
    /\ UNCHANGED depth

\* Lines 33-34, 50-51: m_lock = 1
CountFirst(t) ==
    /\ at[t] = "acquired"
    /\ depth' = 1
    /\ at' = [at EXCEPT ![t] = "outside"]
    /\ UNCHANGED <<threadId, owes>>

\* Mutant: the first unlock frees the lock, however deep it is nested.
UnlockAll(t) ==
    /\ at[t] = "outside"
    /\ owes[t] > 0
    /\ depth' = depth - 1
    /\ at' = [at EXCEPT ![t] = "releasing"]
    /\ UNCHANGED <<threadId, owes>>

\* unlock(): decrement; the last one goes on to free the lock.
Unlock(t) ==
    /\ at[t] = "outside"
    /\ owes[t] > 0
    /\ depth' = depth - 1
    /\ \/ depth' = 0 /\ at' = [at EXCEPT ![t] = "releasing"] /\ UNCHANGED owes
       \/ depth' # 0 /\ owes' = [owes EXCEPT ![t] = @ - 1]   /\ UNCHANGED at
    /\ UNCHANGED threadId

Release(t) ==
    /\ at[t] = "releasing"
    /\ threadId' = NoThread
    /\ at' = [at EXCEPT ![t] = "outside"]
    /\ owes' = [owes EXCEPT ![t] = @ - 1]
    /\ UNCHANGED depth

Next ==
    \E t \in Threads :
        \/ LockAgain(t) \/ LockFirst(t) \/ Acquire(t) \/ CountFirst(t)
        \/ Unlock(t) \/ Release(t)

Spec == Init /\ [][Next]_vars

-----------------------------------------------------------------------------
TypeOK ==
    /\ threadId \in Threads \cup {NoThread}
    /\ depth \in Nat
    /\ at \in [Threads -> Places]
    /\ owes \in [Threads -> Nat]

\* Only the thread whose id is in the lock owes an unlock, and the plain count
\* is its debt except in the two windows where the code has changed one of the
\* two words and not yet the other.
CountIsOwnersDebt ==
    /\ \A t \in Threads : owes[t] > 0 <=> threadId = t
    /\ \A t \in Threads : threadId = t =>
           depth = IF at[t] = "outside" THEN owes[t] ELSE 0
    /\ threadId = NoThread => depth = 0

\* ASSERT(!m_lock) after the acquisition (lines 33, 50) and the two assertions
\* of unlock (lines 56-57) never fire.
AssertionsOfTheCode ==
    \A t \in Threads :
        /\ at[t] = "acquired" => depth = 0
        /\ at[t] = "outside" /\ owes[t] > 0 => threadId = t /\ depth # 0

\* simple_lock is the exclusive half of the lock the engine promises.
Promise == INSTANCE SharedExclusiveLock
           WITH reading <- [t \in Threads |-> FALSE], writing <- owes
ImplementsPromise == Promise!Spec
=============================================================================
