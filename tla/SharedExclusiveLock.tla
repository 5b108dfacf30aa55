------------------------ MODULE SharedExclusiveLock ------------------------
(***************************************************************************)
(* What a lock of this engine promises to its users, whatever its word     *)
(* looks like: reading is shared, writing is exclusive, and the thread     *)
(* that already writes may write again, one release per acquisition.       *)
(* ReaderWriterLock and SimpleLock are shown to implement this module.     *)
(***************************************************************************)
EXTENDS Naturals

CONSTANT Threads

VARIABLES
    reading,        \* reading[t]: thread t is between lock_read and unlock_read
    writing         \* writing[t]: how many unlock_write thread t still owes

lockVars == <<reading, writing>>

Init ==
    /\ reading = [t \in Threads |-> FALSE]
    /\ writing = [t \in Threads |-> 0]

AcquireRead(t) ==
    /\ ~reading[t]
    /\ \A u \in Threads : writing[u] = 0
    /\ reading' = [reading EXCEPT ![t] = TRUE]
    /\ UNCHANGED writing

ReleaseRead(t) ==
    /\ reading[t]
    /\ reading' = [reading EXCEPT ![t] = FALSE]
    /\ UNCHANGED writing

AcquireWrite(t) ==
    /\ \A u \in Threads : ~reading[u]
    /\ \A u \in Threads \ {t} : writing[u] = 0
    /\ writing' = [writing EXCEPT ![t] = @ + 1]
    /\ UNCHANGED reading

ReleaseWrite(t) ==
    /\ writing[t] > 0
    /\ writing' = [writing EXCEPT ![t] = @ - 1]
    /\ UNCHANGED reading

Next ==
    \E t \in Threads :
        \/ AcquireRead(t)
        \/ ReleaseRead(t)
        \/ AcquireWrite(t)
        \/ ReleaseWrite(t)

Spec == Init /\ [][Next]_lockVars
============================================================================
