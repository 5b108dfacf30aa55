------------------------------ MODULE LockModes ------------------------------
(***************************************************************************)
(* The modes in which a folder of the virtual file system is locked.  A    *)
(* lock of a branch is a read or a write lock of its topmost folder and a  *)
(* soft lock of the same kind of every folder above it; two locks of one   *)
(* folder exclude each other exactly when the branches they stand for may  *)
(* overlap and one writes.                                                 *)
(***************************************************************************)
Modes    == {"read", "soft_read", "write", "soft_write"}
Unlocked == "unlocked"

\* Two threads may hold these two locks of one folder together.
Compatible(m, n) ==
    \/ Unlocked \in {m, n}
    \/ {m, n} \in {{"read"}, {"soft_read"}, {"soft_write"},
                   {"read", "soft_read"}, {"soft_read", "soft_write"}}
=============================================================================
