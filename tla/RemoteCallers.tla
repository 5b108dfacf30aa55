---------------------------- MODULE RemoteCallers ----------------------------
(***************************************************************************)
(* The functions the engine has the logic thread run, in each of the three *)
(* phases of its life, and what must hold of the calls; RemoteCalls says   *)
(* how apc.cpp makes and serves them.                                      *)
(***************************************************************************)
EXTENDS Naturals, Sequences

CONSTANTS
    StartupCalls,   \* calls before the one that breaks the first loop
    GameCalls,      \* calls served between two frames
    ShutdownCalls   \* calls before the one that breaks the last loop: finalize()
                    \* begins by an empty one that takes the logic out of its frames

ASSUME CallersAssumption ==
    StartupCalls \in Nat /\ GameCalls \in Nat /\ ShutdownCalls \in Nat

StartupBreak == StartupCalls + 1
Last         == StartupCalls + 1 + GameCalls + ShutdownCalls + 1
Calls        == 1 .. Last

Breaks(c)   == c \in {StartupBreak, Last}
WaitsFor(c) == c \in StartupBreak + 1 .. StartupBreak + GameCalls \/ c = Last

VARIABLES
    caller, current,    \* where the caller is, and the number of its call
    served              \* the calls the logic thread has run

\* Every call runs once, in the order of the callers, and before its mailbox is
\* written again; a caller that waits for its call goes on only when it has run.
RunsOnceInOrder ==
    /\ \A i \in DOMAIN served : served[i] = i
    /\ caller = "store_callback" => Len(served) = current - 1
    /\ caller # "complete" /\ current > 1 /\ WaitsFor(current - 1) => Len(served) >= current - 1
=============================================================================
