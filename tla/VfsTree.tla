------------------------------- MODULE VfsTree -------------------------------
(***************************************************************************)
(* A tree of nodes of the virtual file system, that nobody mounts or       *)
(* unmounts meanwhile.  A node is reached from the root; base_node's       *)
(* get_parent leads back along the same nodes.                             *)
(***************************************************************************)
EXTENDS Sequences, Naturals

CONSTANTS
    Root,           \* the node of the empty path
    Path,           \* the nodes from the root to each node
    Folders         \* the nodes that have a lock; files and links have none

Nodes == DOMAIN Path

\* The nodes above n are reached on the way to n.
ASSUME PathsAssumption ==
    /\ Root \in Nodes /\ Path[Root] = <<Root>>
    /\ Folders \subseteq Nodes
    /\ \A n \in Nodes :
          /\ Path[n] \in Seq(Nodes) /\ Path[n] # <<>>
          /\ Path[n][1] = Root /\ Path[n][Len(Path[n])] = n
          /\ \A i \in 1..Len(Path[n]) : Path[Path[n][i]] = SubSeq(Path[n], 1, i)
=============================================================================
