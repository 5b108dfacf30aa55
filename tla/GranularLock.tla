---------------------------- MODULE GranularLock ----------------------------
(***************************************************************************)
(* What the lock of a vfs folder promises: two threads hold it together    *)
(* only in modes that are compatible, and a lock, an unlock or an upgrade  *)
(* changes one thread's mode in one step.                                  *)
(***************************************************************************)
EXTENDS LockModes

CONSTANT Threads

VARIABLE held       \* held[t]: the lock of the folder t holds, or Unlocked

Init == held = [t \in Threads |-> Unlocked]

\* t may hold m, given what the others hold.
MayHold(t, m) == \A u \in Threads \ {t} : Compatible(m, held[u])

\* lock, unlock and upgrade (which also downgrades): one step each.
Change(t, m) ==
    /\ MayHold(t, m)
    /\ held' = [held EXCEPT ![t] = m]

Next == \E t \in Threads, m \in Modes \cup {Unlocked} : Change(t, m)

Spec == Init /\ [][Next]_held
=============================================================================
