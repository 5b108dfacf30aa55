------------------------------ MODULE NodeLock ------------------------------
(***************************************************************************)
(* xray::vfs::vfs_reader_writer_lock (vfs/sources/node_lock.cpp): the lock *)
(* of one folder of the virtual file system.  lock and upgrade copy the    *)
(* word of NodeWord, decide on the copy and compare-exchange; unlock       *)
(* asserts on the word and then subtracts from it.                         *)
(***************************************************************************)
EXTENDS NodeWord, Integers

VARIABLES
    call,           \* the call each thread is in
    copy            \* previous_counters of that call

vars == <<held, counters, call, copy>>

Idle  == [op |-> "none", mode |-> Unlocked]
Calls == {Idle} \cup [op : {"lock", "try_lock", "upgrade", "try_upgrade", "unlock"}, mode : Modes]

Nobody == [m \in Modes |-> 0]

Init ==
    /\ held = [t \in Threads |-> Unlocked]
    /\ counters = Nobody
    /\ call = [t \in Threads |-> Idle]
    /\ copy = [t \in Threads |-> Nobody]

-----------------------------------------------------------------------------
(* The word.                                                               *)

\* Mutant: a soft writer is let in beside readers.
ExcludedByForgetful(mode) ==
    [read |-> {"write", "soft_write"}, soft_read |-> {"write"},
     write |-> Modes, soft_write |-> {"write"}][mode]

\* The counts that must be zero, but for one's own lock, to hold `mode`.
ExcludedBy(mode) ==
    [read |-> {"write", "soft_write"}, soft_read |-> {"write"},
     write |-> Modes, soft_write |-> {"write", "read"}][mode]

\* change_unsafe; a lock that is not held has no count.
Changed(word, mode, by) ==
    IF mode = Unlocked THEN word ELSE [word EXCEPT ![mode] = @ + by]

\* Mutant: the lock that is given up stays counted.
UpgradedTwice(word, from, to) == Changed(word, to, 1)

Upgraded(word, from, to) == Changed(Changed(word, from, -1), to, 1)

\* `check` of lock (from is Unlocked) and of upgrade (`allowed` is one's own).
Check(word, from, to) ==
    \A m \in ExcludedBy(to) : word[m] <= Changed(Nobody, from, 1)[m]

-----------------------------------------------------------------------------
(* lock, try_lock, upgrade, unlock.                                        *)

\* Entry, and the copy of the word.
Begin(t) ==
    /\ call[t] = Idle
    /\ \E op \in {"lock", "try_lock", "upgrade", "try_upgrade"}, m \in Modes :
          /\ op \in {"lock", "try_lock"} <=> held[t] = Unlocked
          /\ m # held[t]
          /\ call' = [call EXCEPT ![t] = [op |-> op, mode |-> m]]
    /\ copy' = [copy EXCEPT ![t] = counters]
    /\ UNCHANGED <<held, counters>>

Trying(t) == call[t].op \in {"lock", "try_lock", "upgrade", "try_upgrade"}

Returns(t) ==
    /\ call' = [call EXCEPT ![t] = Idle]
    /\ copy' = [copy EXCEPT ![t] = Nobody]

\* The compare-exchange succeeds.
Exchange(t) ==
    /\ Trying(t)
    /\ Check(copy[t], held[t], call[t].mode)
    /\ counters = copy[t]
    /\ counters' = Upgraded(copy[t], held[t], call[t].mode)
    /\ held' = [held EXCEPT ![t] = call[t].mode]
    /\ Returns(t)

Fails(t) ==
    /\ Trying(t)
    /\ Check(copy[t], held[t], call[t].mode) => counters # copy[t]

\* yield and copy again
Retry(t) ==
    /\ Fails(t)
    /\ call[t].op \in {"lock", "upgrade"}
    /\ copy' = [copy EXCEPT ![t] = counters]
    /\ UNCHANGED <<held, counters, call>>

GiveUp(t) ==
    /\ Fails(t)
    /\ call[t].op \in {"try_lock", "try_upgrade"}
    /\ Returns(t)
    /\ UNCHANGED <<held, counters>>

\* unlock: the assertions, then the subtraction.
BeginUnlock(t) ==
    /\ call[t] = Idle /\ held[t] # Unlocked
    /\ call' = [call EXCEPT ![t] = [op |-> "unlock", mode |-> held[t]]]
    /\ UNCHANGED <<held, counters, copy>>

\* Mutant: always a reader leaves.
SubtractReader(t) ==
    /\ call[t].op = "unlock"
    /\ counters' = Changed(counters, "read", -1)
    /\ held' = [held EXCEPT ![t] = Unlocked]
    /\ Returns(t)

Subtract(t) ==
    /\ call[t].op = "unlock"
    /\ counters' = Changed(counters, call[t].mode, -1)
    /\ held' = [held EXCEPT ![t] = Unlocked]
    /\ Returns(t)

Next ==
    \E t \in Threads :
        \/ Begin(t) \/ Exchange(t) \/ Retry(t) \/ GiveUp(t)
        \/ BeginUnlock(t) \/ Subtract(t)

Spec == Init /\ [][Next]_vars

-----------------------------------------------------------------------------
TypeOK ==
    /\ held \in [Threads -> Modes \cup {Unlocked}]
    /\ counters \in [Modes -> Nat]
    /\ call \in [Threads -> Calls]
    /\ copy \in [Threads -> [Modes -> Nat]]
=============================================================================
