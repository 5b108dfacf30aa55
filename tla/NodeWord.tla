------------------------------ MODULE NodeWord ------------------------------
(***************************************************************************)
(* The state of the lock of one folder of the virtual file system and what *)
(* it promises; NodeLock says how vfs_reader_writer_lock changes it.  The  *)
(* lock is one 32-bit word of four counts, {soft_readers:14, readers:10,   *)
(* soft_writers:6, writers:1}.                                             *)
(***************************************************************************)
EXTENDS LockUsers, LockModes, Naturals

VARIABLES
    held,           \* the lock each thread holds
    counters        \* m_counters: how many hold each mode

Granular == INSTANCE GranularLock

\* The largest value of each bit field.
MaxCount == [soft_read |-> 2^14 - 1, read |-> 2^10 - 1, soft_write |-> 2^6 - 1, write |-> 1]

Holders(m) == {t \in Threads : held[t] = m}

\* The word counts the holders of each mode, although every decision is taken
\* on a copy of it, and no bit field overflows.  So the R_ASSERTs of unlock
\* (lines 95-98), upgrade (lines 150-157) and change_unsafe hold, and
\* ~vfs_reader_writer_lock finds no count left over.
CountsAreHolders ==
    \A m \in Modes : counters[m] = Cardinality(Holders(m)) /\ counters[m] <= MaxCount[m]

\* The word implements the lock of GranularLock: no two threads hold locks of
\* the folder that exclude each other.
ImplementsGranularLock == Granular!Spec
=============================================================================
