-------------------------- MODULE ReaderWriterLock --------------------------
(***************************************************************************)
(* xray::threading::reader_writer_lock: a lock that is one 64-bit word,    *)
(* {u16 readers_count, u16 writers_count, u32 writer_thread_id}, changed   *)
(* only by compare-exchange (threading_reader_writer_lock.h, .cpp).        *)
(*                                                                         *)
(* Every operation is the same loop: copy the word, decide on the copy,    *)
(* compare-exchange, and either retry or (the try_ forms) give up.  The    *)
(* copy is a plain structure copy: a 32-bit build takes it in two loads,   *)
(* so it may mix two states of the word.  The two loads are two steps.     *)
(*                                                                         *)
(* Thread 0 does not exist: writer_thread_id 0 is NoThread.  Callers       *)
(* respect the warning of the header ("non-recursive"): a thread that      *)
(* holds the lock calls nothing that blocks on itself.                     *)
(***************************************************************************)
EXTENDS LockUsers, Naturals

CONSTANTS
    MaxDepth,       \* bound on the write locks one thread nests
    CountLimit      \* the values of a u16 count: 2^16 in the code

ASSUME WidthAssumption ==
    /\ MaxDepth \in Nat /\ CountLimit \in Nat
    /\ Cardinality(Threads) < CountLimit
    /\ MaxDepth < CountLimit

VARIABLES
    word,           \* m_readers_writers_counter
    call,           \* the operation each thread is in, and where in its loop
    copy,           \* previous_counters of each thread's call
    reading,        \* reading[t]: t owns a read lock
    writing         \* writing[t]: how many write locks t owns

vars == <<word, call, copy, reading, writing>>

Operations == {"lock_read", "try_lock_read", "unlock_read",
               "lock_write", "try_lock_write", "unlock_write"}
TryForms   == {"try_lock_read", "try_lock_write"}
Idle       == [op |-> "none", at |-> "outside"]
Calls      == {Idle} \cup [op : Operations, at : {"load", "load_owner", "exchange"}]

Word(readers, writers, owner) == [readers |-> readers, writers |-> writers, owner |-> owner]
FreeWord == Word(0, 0, NoThread)
Words    == [readers : 0..(CountLimit - 1), writers : 0..(CountLimit - 1),
             owner : Threads \cup {NoThread}]

Init ==
    /\ word = FreeWord
    /\ call = [t \in Threads |-> Idle]
    /\ copy = [t \in Threads |-> FreeWord]
    /\ reading = [t \in Threads |-> FALSE]
    /\ writing = [t \in Threads |-> 0]

-----------------------------------------------------------------------------
(* The decision each loop takes on its copy.                               *)

\* Mutants: a reader does not look at the writers, a writer not at the readers.
ReadMayEnterAnyTime(c)     == TRUE
WriteMayEnterReaders(t, c) == c.owner \in {t, NoThread}

\* line 25: a reader waits while anybody writes
ReadMayEnter(c) == c.writers = 0

\* lines 58-60: a writer waits for the readers and for any other writer
WriteMayEnter(t, c) == c.readers = 0 /\ c.owner \in {t, NoThread}

Decision(t, op, c) ==
    /\ op \in {"lock_read", "try_lock_read"}   => ReadMayEnter(c)
    /\ op \in {"lock_write", "try_lock_write"} => WriteMayEnter(t, c)

\* ++ and -- of a u16 wrap around
Up(n)   == IF n = CountLimit - 1 THEN 0 ELSE n + 1
Down(n) == IF n = 0 THEN CountLimit - 1 ELSE n - 1

\* The word each operation writes in place of its copy c
WithReader(c)    == Word(Up(c.readers), c.writers, c.owner)
WithoutReader(c) == Word(Down(c.readers), c.writers, c.owner)
WithWriter(t, c) == Word(c.readers, Up(c.writers), t)
\* Mutant: the last writer leaves its id in the word.
WithoutWriterKeepsOwner(c) == Word(c.readers, Down(c.writers), c.owner)
WithoutWriter(c) == Word(c.readers, Down(c.writers), IF c.writers = 1 THEN NoThread ELSE c.owner)

-----------------------------------------------------------------------------
(* What a caller may do next, given what it owns.                          *)

MayCall(t, op) ==
    \/ op = "lock_read"      /\ ~reading[t] /\ writing[t] = 0
    \/ op = "try_lock_read"  /\ ~reading[t]
    \/ op = "unlock_read"    /\ reading[t]
    \/ op = "lock_write"     /\ ~reading[t] /\ writing[t] < MaxDepth
    \/ op = "try_lock_write" /\ writing[t] < MaxDepth
    \/ op = "unlock_write"   /\ writing[t] > 0

GoesTo(t, op, at) == call' = [call EXCEPT ![t] = [op |-> op, at |-> at]]
Forgets(t) == copy' = [copy EXCEPT ![t] = FreeWord]
\* Mutant: the place in the loop is not reset.
ReturnsHalfway(t) == call' = [call EXCEPT ![t].op = "none"] /\ Forgets(t)
Returns(t)        == call' = [call EXCEPT ![t] = Idle] /\ Forgets(t)

\* A try_ form gives up where the other forms yield and start over.
GivesUpOrRetries(t) ==
    \/ call[t].op \in TryForms /\ Returns(t)
    \/ call[t].op \notin TryForms /\ GoesTo(t, call[t].op, "load") /\ Forgets(t)

\* A thread enters one of the operations.
Begin(t, op) ==
    /\ call[t] = Idle
    /\ MayCall(t, op)
    /\ GoesTo(t, op, "load")
    /\ UNCHANGED <<word, copy, reading, writing>>

\* previous_counters = m_readers_writers_counter, first half: the two counts
LoadCounts(t) ==
    /\ call[t].at = "load"
    /\ copy' = [copy EXCEPT ![t] = Word(word.readers, word.writers, copy[t].owner)]
    /\ GoesTo(t, call[t].op, "load_owner")
    /\ UNCHANGED <<word, reading, writing>>

\* Second half, the thread id; then the decision: go on, retry or give up.
LoadOwner(t) ==
    /\ call[t].at = "load_owner"
    /\ LET c == Word(copy[t].readers, copy[t].writers, word.owner) IN
       \/ /\ Decision(t, call[t].op, c)
          /\ copy' = [copy EXCEPT ![t] = c]
          /\ GoesTo(t, call[t].op, "exchange")
       \/ ~Decision(t, call[t].op, c) /\ GivesUpOrRetries(t)
    /\ UNCHANGED <<word, reading, writing>>

\* The compare-exchange finds another word than the copy.
ExchangeFails(t) ==
    /\ call[t].at = "exchange"
    /\ word # copy[t]
    /\ GivesUpOrRetries(t)
    /\ UNCHANGED <<word, reading, writing>>

\* Mutant: a plain store in place of the compare-exchange.
Storing(t, ops) ==
    /\ call[t].at = "exchange"
    /\ call[t].op \in ops
    /\ Returns(t)

Exchanging(t, ops) ==
    /\ call[t].at = "exchange"
    /\ call[t].op \in ops
    /\ word = copy[t]
    /\ Returns(t)

EnterRead(t) ==
    /\ Exchanging(t, {"lock_read", "try_lock_read"})
    /\ word' = WithReader(copy[t])
    /\ reading' = [reading EXCEPT ![t] = TRUE]
    /\ UNCHANGED writing

EnterWrite(t) ==
    /\ Exchanging(t, {"lock_write", "try_lock_write"})
    /\ word' = WithWriter(t, copy[t])
    /\ writing' = [writing EXCEPT ![t] = @ + 1]
    /\ UNCHANGED reading

LeaveRead(t) ==
    /\ Exchanging(t, {"unlock_read"})
    /\ word' = WithoutReader(copy[t])
    /\ reading' = [reading EXCEPT ![t] = FALSE]
    /\ UNCHANGED writing

LeaveWrite(t) ==
    /\ Exchanging(t, {"unlock_write"})
    /\ word' = WithoutWriter(copy[t])
    /\ writing' = [writing EXCEPT ![t] = @ - 1]
    /\ UNCHANGED reading

Exchange(t) == EnterRead(t) \/ EnterWrite(t) \/ LeaveRead(t) \/ LeaveWrite(t)
Work(t)     == LoadCounts(t) \/ LoadOwner(t) \/ ExchangeFails(t) \/ Exchange(t)

Next == \E t \in Threads : Work(t) \/ \E op \in Operations : Begin(t, op)

Spec == Init /\ [][Next]_vars

-----------------------------------------------------------------------------
(* Properties.                                                             *)

TypeOK ==
    /\ word \in Words
    /\ call \in [Threads -> Calls]
    /\ copy \in [Threads -> Words]
    /\ reading \in [Threads -> BOOLEAN]
    /\ writing \in [Threads -> Nat]

Readers == {t \in Threads : reading[t]}
Writers == {t \in Threads : writing[t] > 0}

\* A writer is alone: no reader beside it and no second writer, although each
\* thread decided on a copy of the word that may have been torn.
MutualExclusion ==
    /\ Cardinality(Writers) <= 1
    /\ Writers # {} => Readers = {}

\* The word counts exactly the owners, so the destructor's assertions (lines
\* 15-17) hold whenever nobody owns the lock, no release is lost and no u16
\* count wraps.
WordCountsOwners ==
    /\ word.readers = Cardinality(Readers)
    /\ \A t \in Threads : writing[t] = IF word.owner = t THEN word.writers ELSE 0
    /\ word.owner = NoThread <=> word.writers = 0

\* The assertions at the head of unlock_read (lines 90-91) and unlock_write
\* (lines 113-114) hold from the call to the exchange, whatever the other
\* threads do meanwhile, so the count they decrement never wraps.
UnlockAssertions ==
    \A t \in Threads :
        /\ call[t].op = "unlock_read"  => word.readers # 0 /\ word.writers = 0
        /\ call[t].op = "unlock_write" => word.writers # 0 /\ word.owner = t

\* The word and its loops implement the lock they stand for.
Promise == INSTANCE SharedExclusiveLock
ImplementsPromise == Promise!Spec
=============================================================================
