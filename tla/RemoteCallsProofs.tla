-------------------------- MODULE RemoteCallsProofs --------------------------
(***************************************************************************)
(* Proofs about RemoteCalls, for any number of calls in each phase.  What  *)
(* RunsOnceInOrder says of `served` follows from where the call in the     *)
(* mailbox is: CInv counts the calls posted and says that the one of them  *)
(* not yet run, if any, is the callback that m_pending announces.          *)
(***************************************************************************)
EXTENDS RemoteCalls, TLAPS

\* The calls raised so far: the caller that waits for its own keeps its number.
Posted == IF caller = "complete" THEN current ELSE current - 1

\* The logic thread has run the call and not yet cleared m_pending.
Running == logic \in {"break", "continue", "break_again", "continue_again", "tried"}

\* m_pending announces the last call posted, which is the only one not served;
\* nobody writes the mailbox meanwhile.
MailboxHoldsLast ==
    /\ Running => pending
    /\ pending => callback = Posted /\ callback \in Calls /\ caller \in {"wait", "complete"}
    /\ Len(served) = IF pending /\ ~Running THEN Posted - 1 ELSE Posted

\* What the caller is doing with its number.
CallerKnows ==
    /\ caller # "wait" => current <= Last
    /\ caller \in {"store_break", "raise"} => callback = current
    /\ caller = "complete" => WaitsFor(current)
    /\ caller # "complete" /\ current > 1 /\ WaitsFor(current - 1) => ~pending

InOrder == \A i \in DOMAIN served : served[i] = i

CInv == TypeOK /\ MailboxHoldsLast /\ CallerKnows /\ InOrder

-----------------------------------------------------------------------------
\* The calls are numbered from 1 to a last one, the break of the start-up among
\* them.
LEMMA CallNumbers ==
    /\ Last \in Nat /\ StartupBreak \in Nat /\ StartupBreak >= 1
    /\ Last > StartupBreak + GameCalls
    /\ Calls = 1 .. Last
    /\ GameCalls \in Nat
BY CallersAssumption DEF Last, StartupBreak, Calls

\* The initial state satisfies the invariant.
LEMMA InitCInv == Init => CInv
<1> SUFFICES ASSUME Init PROVE CInv
    OBVIOUS
<1>1. served \in Seq(Calls) /\ Len(served) = 0 /\ DOMAIN served = {}
    BY DEF Init
<1>2. {breakParameters, pending, destruction} \subseteq BOOLEAN /\ ~pending
    BY Zenon DEF Init
<1>3. callback = 0 /\ caller = "wait" /\ current = 1 /\ logic = "process"
    BY Zenon DEF Init
<1>4. TypeOK
    BY <1>1, <1>2, <1>3, CallNumbers DEF TypeOK, Processing
<1>5. Posted = 0 /\ ~Running
    BY <1>3 DEF Posted, Running
<1>6. MailboxHoldsLast
    BY <1>1, <1>2, <1>5 DEF MailboxHoldsLast
<1>7. CallerKnows /\ InOrder
    BY <1>1, <1>3 DEF CallerKnows, InOrder
<1> QED
    BY <1>4, <1>6, <1>7 DEF CInv

\* The caller posts one call after the other, each into a mailbox that was read.
LEMMA CallerCInv ==
    ASSUME CInv, Caller
    PROVE  CInv'
<1> USE CallNumbers DEF CInv, TypeOK, MailboxHoldsLast, CallerKnows, InOrder, Posted, Running
<1>1. CASE Wait
    BY <1>1 DEF Wait, mailbox
<1>2. CASE StoreCallback
    BY <1>2 DEF StoreCallback
<1>3. CASE StoreBreak
    BY <1>3 DEF StoreBreak, Breaks
<1>4. CASE Raise
    BY <1>4 DEF Raise
<1>5. CASE Complete
    BY <1>5 DEF Complete, mailbox
<1>6. CASE StartDestruction
    BY <1>6 DEF StartDestruction, mailbox
<1> QED
    BY <1>1, <1>2, <1>3, <1>4, <1>5, <1>6 DEF Caller

\* Running the pending call appends its number, the next one, to those served.
LEMMA ServingAppendsNext ==
    ASSUME CInv, pending, ~Running, served' = Append(served, callback)
    PROVE  served' \in Seq(Calls) /\ InOrder' /\ Len(served') = Len(served) + 1
<1>1. served \in Seq(Calls) /\ callback \in Calls /\ callback = Len(served) + 1
    BY CallNumbers DEF CInv, TypeOK, MailboxHoldsLast, Posted
<1> QED
    BY <1>1 DEF CInv, InOrder

\* The logic thread runs what is pending and only then clears the mailbox.
LEMMA LogicCInv ==
    ASSUME CInv, Logic
    PROVE  CInv'
<1>1. CASE Process \/ (Try /\ pending)
    <2>1. /\ pending /\ ~Running /\ Running' /\ served' = Append(served, callback)
          /\ UNCHANGED <<mailbox, caller, current, destruction>>
        BY <1>1 DEF Process, Try, Processing, Running
    <2>2. served' \in Seq(Calls) /\ InOrder' /\ Len(served') = Len(served) + 1
        BY <2>1, ServingAppendsNext
    <2>3. TypeOK'
        BY <1>1, <2>1, <2>2 DEF CInv, TypeOK, mailbox, Process, Try, Processing
    <2>4. MailboxHoldsLast'
        BY <2>1, <2>2, CallNumbers DEF CInv, TypeOK, MailboxHoldsLast, Posted, mailbox
    <2>5. CallerKnows'
        BY <2>1 DEF CInv, CallerKnows, mailbox
    <2> QED
        BY <2>2, <2>3, <2>4, <2>5 DEF CInv
<1>2. CASE Processed \/ Tried
    BY <1>2, CallNumbers DEF CInv, TypeOK, MailboxHoldsLast, CallerKnows, InOrder, Posted, Running,
                             Processed, Tried, Processing
<1>3. CASE Frame \/ (Try /\ ~pending)
    BY <1>3, CallNumbers DEF CInv, TypeOK, MailboxHoldsLast, CallerKnows, InOrder, Posted, Running,
                             Frame, Try, Processing, mailbox
<1> QED
    BY <1>1, <1>2, <1>3 DEF Logic

-----------------------------------------------------------------------------
\* The invariant holds in every reachable state.
THEOREM RemoteCallsInvariant == Spec => []CInv
<1>1. CInv /\ UNCHANGED vars => CInv'
    BY DEF vars, mailbox, CInv, TypeOK, MailboxHoldsLast, CallerKnows, InOrder, Posted, Running
<1>2. CInv /\ [Next]_vars => CInv'
    BY <1>1, CallerCInv, LogicCInv DEF Next
<1> QED
    BY <1>2, InitCInv, PTL DEF Spec

\* The mailbox and the two threads keep their types: the logic thread never runs
\* an empty callback.
THEOREM RemoteCallsTypeCorrect == Spec => []TypeOK
<1>1. CInv => TypeOK
    BY DEF CInv
<1> QED
    BY <1>1, RemoteCallsInvariant, PTL

\* Every call runs once, in order, and before the mailbox is written again, in
\* whichever of its three ways the logic thread serves it.
THEOREM CallsRunOnceInOrder == Spec => []RunsOnceInOrder
<1>1. CInv => RunsOnceInOrder
    BY CallNumbers DEF CInv, TypeOK, RunsOnceInOrder, InOrder, MailboxHoldsLast, CallerKnows, Posted, Running
<1> QED
    BY <1>1, RemoteCallsInvariant, PTL

\* What the logic thread reads of a pending call stays as it was posted: no step
\* writes m_callback or m_break_parameters before m_pending is cleared.
THEOREM PendingCallIsKept == Spec => [][pending => UNCHANGED <<callback, breakParameters>>]_vars
<1>1. ASSUME CInv, [Next]_vars, pending
      PROVE  UNCHANGED <<callback, breakParameters>>
    <2>1. caller \in {"wait", "complete"}
        BY <1>1 DEF CInv, MailboxHoldsLast
    <2>2. CASE Caller
        BY <2>1, <2>2 DEF Caller, Wait, StoreCallback, StoreBreak, Raise, Complete, StartDestruction, mailbox
    <2>3. CASE Logic
        BY <2>3 DEF Logic, Process, Processed, Frame, Try, Tried, mailbox
    <2> QED
        BY <1>1, <2>2, <2>3 DEF Next, vars, mailbox
<1> QED
    BY <1>1, RemoteCallsInvariant, PTL DEF Spec
=============================================================================
