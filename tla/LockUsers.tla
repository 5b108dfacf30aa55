----------------------------- MODULE LockUsers -----------------------------
(***************************************************************************)
(* The threads that share one of the engine's locks.  The locks of the     *)
(* virtual file system are held by operations (a find, a mount) and not by *)
(* threads: for those modules a "thread" is such an operation.             *)
(***************************************************************************)
EXTENDS FiniteSets

CONSTANTS
    Threads,        \* who shares the lock
    NoThread        \* nobody: the owner of a free lock

ASSUME ThreadsAssumption == IsFiniteSet(Threads) /\ NoThread \notin Threads
=============================================================================
