------------------------------ MODULE Delivery ------------------------------
(***************************************************************************)
(* What a channel between two threads promises.  The owner allocates items *)
(* and sends them; the user takes them in the order they were sent, keeps  *)
(* them as long as it likes and gives them back; the owner alone frees     *)
(* items, and only those that were given back.  One given-back item may    *)
(* have to stay in the channel, as may the last item taken.                *)
(***************************************************************************)
EXTENDS Sequences, SequencesExt

CONSTANT Items      \* what the owner's allocator has room for

VARIABLES
    sent,           \* sent and not yet taken, oldest first
    held,           \* taken and not yet given back
    returned        \* given back and not yet freed, oldest first

channelVars == <<sent, held, returned>>

InUse == Range(sent) \cup held \cup Range(returned)

Init == sent = <<>> /\ (\E x, y \in Items : x # y /\ held = {x} /\ returned = <<y>>)

Send(x) ==
    /\ x \notin InUse
    /\ sent' = Append(sent, x)
    /\ UNCHANGED <<held, returned>>

\* Taking an item may give back the one that had to stay.
Take ==
    /\ sent # <<>>
    /\ sent' = Tail(sent)
    /\ \/ held' = held \cup {Head(sent)} /\ UNCHANGED returned
       \/ \E x \in held : /\ held' = (held \ {x}) \cup {Head(sent)}
                          /\ returned' = Append(returned, x)

GiveBack(x) ==
    /\ x \in held
    /\ held' = held \ {x}
    /\ returned' = Append(returned, x)
    /\ UNCHANGED sent

\* The newest item given back stays.
Free ==
    /\ Len(returned) > 1
    /\ returned' = Tail(returned)
    /\ UNCHANGED <<sent, held>>

\* The end: the owner frees what is in the channel, and the user uses it no more.
Close ==
    /\ sent' = <<>> /\ returned' = <<>>
    /\ held' \subseteq held

Next ==
    \/ \E x \in Items : Send(x) \/ GiveBack(x)
    \/ Take \/ Free \/ Close

Spec == Init /\ [][Next]_channelVars
=============================================================================
