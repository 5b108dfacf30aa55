---------------------------- MODULE MCThreadPool ----------------------------
(* Instantiates ThreadPool for TLC. *)
EXTENDS ThreadPool

CONSTANT logic

\* where the users live
OnCoreZero == [u \in Users |-> 0]

Setting(mayHappen, cores, limit) == [may |-> mayHappen, cores |-> cores, tasks |-> limit]

Usual == {
    Setting({"body_contended"}, 2, 1),
    Setting({"body_contended"}, 1, 2),
    Setting({"body_contended", "owner_pauses"}, 1, 1),
    Setting({"grab_contended"}, 1, 1),
    Setting({"regrab_contended"}, 1, 2),
    Setting({"owner_destroys"}, 1, 2)}
Contended == {Setting({"grab_contended", "regrab_contended"}, 1, 2)}
Destroyed == {Setting({"owner_destroys"}, 1, 1)}
=============================================================================
