---------------------------- MODULE TasksProofs ----------------------------
(***************************************************************************)
(* Proofs about the allocator of tasks (FreeList) and the queue of pending *)
(* tasks (IntrusiveQueue), as MCTasks instantiates them, for any number of *)
(* threads and buffers.                                                    *)
(*                                                                         *)
(* Both are linked lists changed by compare-exchange.  The invariants say  *)
(* that the links make sequences (a list; a list and two stacks), which    *)
(* values they contain, and what a thread that has read a head or a link   *)
(* may still conclude from it.  What the recursive definitions Chained and *)
(* From compute then follows by induction on the length of the sequence.   *)
(***************************************************************************)
EXTENDS MCTasks, TaskTreeProofs, SequenceTheorems, WellFoundedInduction, TLAPS

\* What the proofs need to know of the buffers and of the threads.
ListAssumption == IsFiniteSet(AllThreads) /\ IsFiniteSet(Buffers) /\ Buffers # {} /\ Null \notin Buffers
                  /\ MaxAllocations \in Nat
QAssumption == IsFiniteSet(Buffers) /\ Null \notin Buffers /\ Null \notin AllThreads

\* MCTasks and TaskTree assume it.
LEMMA AssumptionsHold == ListAssumption /\ QAssumption
<1>1. IsFiniteSet(AllThreads)
  BY TreeAssumption, FS_AddElement DEF AllThreads
<1> QED
  BY <1>1, BuffersAssumption DEF ListAssumption, QAssumption

-----------------------------------------------------------------------------
(* The free list of the allocator.                                         *)

\* A user on its way to pop a buffer, and one that has a buffer in its hands.
Allocating == {"allocating", "allocating_counter", "allocating_pointer", "load_link", "pop"}
Holding == {"deallocating", "deallocating_counter", "deallocating_pointer", "store_link", "push",
            "popped"}
\* What a link or a head may hold.
Links == Buffers \cup {Null}

\* Types; a buffer is either free or handed out.
FTypes ==
    /\ layout \in Layouts
    /\ head \in [pointer : Links, counter : Nat]
    /\ next \in [Buffers -> Links]
    /\ free \subseteq Buffers /\ owned = Buffers \ free
    /\ allocAt \in [AllThreads -> Allocating \cup Holding \cup {"out"}]
    /\ copy \in [AllThreads -> [pointer : Links, counter : Nat]]
    /\ node \in [AllThreads -> Links]
    /\ allocations \in 0 .. MaxAllocations

\* s lists the nodes from the head on.
IsFreeList(s, n) ==
    /\ \A i, j \in 1 .. n : s[i] = s[j] => i = j
    /\ head.pointer = IF n = 0 THEN Null ELSE s[1]
    /\ \A i \in 1 .. n : next[s[i]] = IF i = n THEN Null ELSE s[i + 1]

\* The buffers that are free and in nobody's hands, which are those of the list,
Listed == free \ FreeList!InHands
\* in the order s ...
IsListed(s, n) == \A x \in Buffers : x \in Listed <=> \E i \in 1 .. n : s[i] = x
\* ... for some s.
ListIsChain == \E n \in Nat : \E s \in [1 .. n -> Buffers] : IsFreeList(s, n) /\ IsListed(s, n)

\* Whoever has a buffer in its hands has it alone.
InDifferentHands ==
    /\ \A u \in AllThreads : allocAt[u] \in Holding => node[u] \in free
    /\ \A u, v \in AllThreads : allocAt[u] \in Holding /\ allocAt[v] \in Holding /\ node[u] = node[v] => u = v

\* The head is never half copied.
InOnePiece == \A u \in AllThreads :
    allocAt[u] \notin {"allocating_counter", "allocating_pointer",
                  "deallocating_counter", "deallocating_pointer"}

\* What a user has read: as long as no buffer was popped since, the first buffer
\* it has copied is still in the list, and its link is what it was.
CopyIsGood(u) ==
    /\ allocAt[u] \in {"load_link", "pop"} =>
        /\ copy[u].counter <= head.counter
        /\ copy[u].counter = head.counter /\ copy[u].pointer # Null => copy[u].pointer \in Listed
    /\ allocAt[u] = "pop" =>
        /\ copy[u].pointer # Null
        /\ copy[u].counter = head.counter => node[u] = next[copy[u].pointer]
    /\ allocAt[u] = "push" => next[node[u]] = copy[u].pointer

\* ... of all users.
CopiesAreGood == \A u \in AllThreads : CopyIsGood(u)

-----------------------------------------------------------------------------

\* Induction over the natural numbers, by the least number outside of T.
LEMMA SetInduction ==
    ASSUME NEW T, 0 \in T, \A n \in Nat : n \in T => n + 1 \in T
    PROVE  Nat \subseteq T
<1>1. SUFFICES ASSUME Nat \ T # {} PROVE FALSE
  OBVIOUS
<1>2. PICK m \in Nat \ T : \A y \in Nat \ T : ~ (<<y, m>> \in OpToRel(<, Nat))
  <2>1. Nat \ T \subseteq Nat
    OBVIOUS
  <2> QED
    BY <1>1, <2>1, NatLessThanWellFounded, WFMin, Zenon
<1>3. m \in Nat /\ m \notin T /\ m # 0
  BY <1>2
<1>4. m - 1 \in Nat /\ m = (m - 1) + 1 /\ m - 1 < m
  BY <1>3
<1>5. m - 1 \notin T
  BY <1>3, <1>4
<1>6. <<m - 1, m>> \in OpToRel(<, Nat)
  BY <1>3, <1>4 DEF OpToRel
<1> QED
  BY <1>2, <1>4, <1>5, <1>6

\* Who has a buffer in its hands, by the places.
LEMMA InHandsDef == \A x : x \in FreeList!InHands <=> \E v \in AllThreads : allocAt[v] \in Holding /\ node[v] = x
  BY DEF FreeList!InHands, Holding

\* A step that leaves the head, and the buffers and links of the list, keeps it.
LEMMA SameList ==
    ASSUME FTypes, FTypes', ListIsChain, UNCHANGED head,
           \A x \in Buffers : x \in Listed' <=> x \in Listed,
           \A x \in Listed : next'[x] = next[x]
    PROVE  ListIsChain'
<1>0. PICK n \in Nat : \E s \in [1 .. n -> Buffers] : IsFreeList(s, n) /\ IsListed(s, n)
  BY DEF ListIsChain
<1>1. PICK s \in [1 .. n -> Buffers] : IsFreeList(s, n) /\ IsListed(s, n)
  BY <1>0
<1>2. \A i \in 1 .. n : s[i] \in Buffers /\ s[i] \in Listed
  BY <1>1 DEF IsListed
<1>3. IsFreeList(s, n)'
  BY <1>1, <1>2 DEF IsFreeList
<1>4. IsListed(s, n)'
  BY <1>1 DEF IsListed
<1> QED
  BY <1>3, <1>4 DEF ListIsChain

\* What a step that changes neither the list nor who has which node preserves.
LEMMA SameHands ==
    ASSUME FTypes, FTypes', ListIsChain, InDifferentHands, UNCHANGED <<head, free, next>>,
           \A v \in AllThreads : (allocAt'[v] \in Holding <=> allocAt[v] \in Holding)
                            /\ (allocAt[v] \in Holding => node'[v] = node[v])
    PROVE  ListIsChain' /\ InDifferentHands' /\ Listed' = Listed
<1>1. FreeList!InHands' = FreeList!InHands
  BY DEF FreeList!InHands, Holding
<1>2. Listed' = Listed
  BY <1>1 DEF Listed
<1>3. ListIsChain'
  BY <1>2, SameList
<1>4. InDifferentHands'
  BY DEF InDifferentHands
<1> QED
  BY <1>2, <1>3, <1>4

\* ... and the copies nobody but u changes.
LEMMA SameCopies ==
    ASSUME FTypes, FTypes', CopiesAreGood, NEW u \in AllThreads, UNCHANGED <<head, next>>,
           Listed' = Listed,
           \A v \in AllThreads \ {u} : allocAt'[v] = allocAt[v] /\ copy'[v] = copy[v] /\ node'[v] = node[v],
           CopyIsGood(u)'
    PROVE  CopiesAreGood'
<1>1. SUFFICES ASSUME NEW v \in AllThreads, v # u PROVE CopyIsGood(v)'
  BY DEF CopiesAreGood
<1>2. CopyIsGood(v)
  BY DEF CopiesAreGood
<1> QED
  BY <1>1, <1>2 DEF CopyIsGood

\* The inductive invariant of a build that copies the head in one piece.
Whole == FTypes /\ layout = "whole" /\ ListIsChain /\ InDifferentHands /\ InOnePiece /\ CopiesAreGood

\* A copy of one half of the head keeps the type of the copies.
LEMMA HalvesAreTyped ==
    ASSUME NEW c \in [AllThreads -> [pointer : Links, counter : Nat]], NEW u \in AllThreads,
           NEW p \in Links, NEW k \in Nat
    PROVE  /\ [c EXCEPT ![u].pointer = p] \in [AllThreads -> [pointer : Links, counter : Nat]]
           /\ [c EXCEPT ![u].counter = k] \in [AllThreads -> [pointer : Links, counter : Nat]]
<1>1. [c[u] EXCEPT !.pointer = p] \in [pointer : Links, counter : Nat]
  OBVIOUS
<1>2. [c[u] EXCEPT !.counter = k] \in [pointer : Links, counter : Nat]
  OBVIOUS
<1> QED
  BY <1>1, <1>2

\* Every step keeps the types.
LEMMA TypesStep ==
    ASSUME ListAssumption, FTypes, [FreeList!Next]_(FreeList!vars)
    PROVE  FTypes'
<1> USE DEF FTypes, Links, Allocating, Holding, ListAssumption
<1>1. ASSUME NEW u \in AllThreads, FreeList!AllocateBegins(u) PROVE FTypes'
  BY <1>1 DEF FreeList!AllocateBegins
<1>2. ASSUME NEW u \in AllThreads, NEW n \in Buffers, FreeList!DeallocateBegins(u, n) PROVE FTypes'
  BY <1>2 DEF FreeList!DeallocateBegins
<1>3. ASSUME NEW u \in AllThreads, FreeList!Copy(u) PROVE FTypes'
  BY <1>3 DEF FreeList!Copy, FreeList!Copying, FreeList!Copied
<1>4. ASSUME NEW u \in AllThreads, FreeList!CopyHalf(u) PROVE FTypes'
  <2>1. copy' \in [AllThreads -> [pointer : Links, counter : Nat]]
    <3>1. /\ [copy EXCEPT ![u].pointer = head.pointer] \in [AllThreads -> [pointer : Links, counter : Nat]]
          /\ [copy EXCEPT ![u].counter = head.counter] \in [AllThreads -> [pointer : Links, counter : Nat]]
      BY HalvesAreTyped
    <3> QED
      BY <1>4, <3>1 DEF FreeList!CopyHalf
  <2>2. allocAt' \in [AllThreads -> Allocating \cup Holding \cup {"out"}]
    BY <1>4 DEF FreeList!CopyHalf, FreeList!Copying
  <2> QED
    BY <1>4, <2>1, <2>2 DEF FreeList!CopyHalf
<1>5. ASSUME NEW u \in AllThreads, FreeList!CopyOtherHalf(u) PROVE FTypes'
  <2>1. copy' \in [AllThreads -> [pointer : Links, counter : Nat]]
    <3>1. /\ [copy EXCEPT ![u].pointer = head.pointer] \in [AllThreads -> [pointer : Links, counter : Nat]]
          /\ [copy EXCEPT ![u].counter = head.counter] \in [AllThreads -> [pointer : Links, counter : Nat]]
      BY HalvesAreTyped
    <3> QED
      BY <1>5, <3>1 DEF FreeList!CopyOtherHalf
  <2>2. allocAt' \in [AllThreads -> Allocating \cup Holding \cup {"out"}]
    BY <1>5 DEF FreeList!CopyOtherHalf
  <2> QED
    BY <1>5, <2>1, <2>2 DEF FreeList!CopyOtherHalf
<1>6. ASSUME NEW u \in AllThreads, FreeList!LoadLink(u) PROVE FTypes'
  BY <1>6 DEF FreeList!LoadLink
<1>7. ASSUME NEW u \in AllThreads, FreeList!StoreLink(u) PROVE FTypes'
  BY <1>7 DEF FreeList!StoreLink
<1>8. ASSUME NEW u \in AllThreads, FreeList!Pop(u) PROVE FTypes'
  <2>1. copy[u] \in [pointer : Links, counter : Nat] /\ node[u] \in Links
    OBVIOUS
  <2>2. FreeList!PoppedHead(u) \in [pointer : Links, counter : Nat]
    BY <2>1 DEF FreeList!PoppedHead
  <2>3. head' \in [pointer : Links, counter : Nat]
    BY <1>8, <2>2 DEF FreeList!Pop
  <2>4. node' \in [AllThreads -> Links]
    BY <1>8, <2>1 DEF FreeList!Pop
  <2>5. allocAt' \in [AllThreads -> Allocating \cup Holding \cup {"out"}]
    BY <1>8 DEF FreeList!Pop
  <2> QED
    BY <1>8, <2>3, <2>4, <2>5 DEF FreeList!Pop
<1>9. ASSUME NEW u \in AllThreads, FreeList!Construct(u) PROVE FTypes'
  BY <1>9 DEF FreeList!Construct
<1>10. ASSUME NEW u \in AllThreads, FreeList!Push(u) PROVE FTypes'
  <2>1. copy[u] \in [pointer : Links, counter : Nat] /\ node[u] \in Links
    OBVIOUS
  <2>2. head' \in [pointer : Links, counter : Nat]
    BY <1>10, <2>1 DEF FreeList!Push
  <2>3. node' \in [AllThreads -> Links]
    BY <1>10 DEF FreeList!Push
  <2>4. allocAt' \in [AllThreads -> Allocating \cup Holding \cup {"out"}]
    BY <1>10 DEF FreeList!Push
  <2> QED
    BY <1>10, <2>2, <2>3, <2>4 DEF FreeList!Push
<1>11. CASE UNCHANGED FreeList!vars
  BY <1>11 DEF FreeList!vars
<1> QED
  BY <1>1, <1>2, <1>3, <1>4, <1>5, <1>6, <1>7, <1>8, <1>9, <1>10, <1>11 DEF FreeList!Next

\* The steps that change neither the head, nor a link, nor who has which buffer.
LEMMA BeginStep ==
    ASSUME Whole, FTypes', NEW u \in AllThreads,
           FreeList!AllocateBegins(u) \/ FreeList!Copy(u) \/ FreeList!LoadLink(u)
    PROVE  Whole'
<1> USE DEF Whole
<1> USE DEF FTypes, Holding
<1>1. /\ UNCHANGED <<head, free, next, layout>>
      /\ \A v \in AllThreads \ {u} : allocAt'[v] = allocAt[v] /\ copy'[v] = copy[v] /\ node'[v] = node[v]
      /\ allocAt'[u] \in Holding <=> allocAt[u] \in Holding
      /\ allocAt[u] \in Holding => node'[u] = node[u]
  BY DEF FreeList!AllocateBegins, FreeList!Copy, FreeList!LoadLink, FreeList!Copying, FreeList!Copied
<1>2. ListIsChain' /\ InDifferentHands' /\ Listed' = Listed
  <2>1. \A v \in AllThreads : (allocAt'[v] \in Holding <=> allocAt[v] \in Holding)
                         /\ (allocAt[v] \in Holding => node'[v] = node[v])
    BY <1>1
  <2> HIDE DEF FTypes, Holding
  <2> QED
    BY <1>1, <2>1, SameHands
<1>3. CopyIsGood(u)
  BY DEF CopiesAreGood
<1>4. CopyIsGood(u)'
  <2>1. CASE FreeList!AllocateBegins(u)
    BY <2>1 DEF FreeList!AllocateBegins, CopyIsGood
  <2>2. CASE FreeList!Copy(u)
    <3>1. copy'[u] = head /\ (allocAt'[u] = "load_link" \/ allocAt'[u] = "store_link")
      BY <2>2 DEF FreeList!Copy, FreeList!Copying, FreeList!Copied
    <3>2. head.pointer # Null => head.pointer \in Listed
      <4>0. PICK n \in Nat : \E s \in [1 .. n -> Buffers] : IsFreeList(s, n) /\ IsListed(s, n)
        BY DEF ListIsChain
      <4>1. PICK s \in [1 .. n -> Buffers] : IsFreeList(s, n) /\ IsListed(s, n)
        BY <4>0
      <4>2. SUFFICES ASSUME n # 0 PROVE head.pointer \in Listed
        BY <4>1 DEF IsFreeList
      <4>3. head.pointer = s[1] /\ 1 \in 1 .. n /\ s[1] \in Buffers
        BY <4>1, <4>2 DEF IsFreeList
      <4> QED
        BY <4>1, <4>3 DEF IsListed
    <3> QED
      BY <1>1, <1>2, <3>1, <3>2 DEF CopyIsGood
  <2>3. CASE FreeList!LoadLink(u)
    <3>1. CASE copy[u].pointer = Null
      BY <2>3, <3>1 DEF FreeList!LoadLink, CopyIsGood
    <3>2. CASE copy[u].pointer # Null
      <4>1. allocAt'[u] = "pop" /\ node'[u] = next[copy[u].pointer] /\ copy' = copy /\ allocAt[u] = "load_link"
        BY <2>3, <3>2 DEF FreeList!LoadLink
      <4> QED
        BY <1>1, <1>2, <1>3, <3>2, <4>1 DEF CopyIsGood
    <3> QED
      BY <3>1, <3>2
  <2> QED
    BY <2>1, <2>2, <2>3
<1>5. CopiesAreGood'
  <2> HIDE DEF FTypes, Holding
  <2> QED
    BY <1>1, <1>2, <1>4, SameCopies
<1>6. InOnePiece'
  BY DEF InOnePiece, FreeList!AllocateBegins, FreeList!Copy, FreeList!LoadLink, FreeList!Copying, FreeList!Copied
<1> QED
  BY <1>1, <1>2, <1>5, <1>6

\* A buffer that is given back is in the hands of who gives it back.
LEMMA DeallocateStep ==
    ASSUME Whole, FTypes', NEW u \in AllThreads, NEW n \in Buffers, FreeList!DeallocateBegins(u, n)
    PROVE  Whole'
<1> USE DEF Whole, FTypes, Holding, FreeList!DeallocateBegins
<1>1. \A v \in AllThreads \ {u} : allocAt'[v] = allocAt[v] /\ copy'[v] = copy[v] /\ node'[v] = node[v]
  OBVIOUS
<1>2. allocAt[u] = "out" /\ allocAt'[u] = "deallocating" /\ node'[u] = n /\ n \notin free
  OBVIOUS
<1>3. \A x \in Buffers : x \in FreeList!InHands' <=> x \in FreeList!InHands \/ x = n
  BY <1>1, <1>2 DEF FreeList!InHands
<1>4. \A x \in Buffers : x \in Listed' <=> x \in Listed
  BY <1>2, <1>3 DEF Listed
<1>5. Listed' = Listed
  BY <1>4 DEF Listed
<1>6. ListIsChain'
  <2> HIDE DEF Holding
  <2> QED
    BY <1>4, SameList
<1>7. InDifferentHands'
  <2>1. \A v \in AllThreads : allocAt[v] \in Holding => node[v] # n
    BY <1>2 DEF InDifferentHands
  <2> QED
    BY <1>1, <1>2, <2>1 DEF InDifferentHands
<1>8. CopiesAreGood'
  <2>1. CopyIsGood(u)'
    BY <1>2 DEF CopyIsGood
  <2> HIDE DEF FTypes, Holding
  <2> QED
    BY <1>1, <1>5, <2>1, SameCopies
<1>9. InOnePiece'
  BY DEF InOnePiece
<1> QED
  BY <1>6, <1>7, <1>8, <1>9

\* The link of a buffer in the hands of one user is read by nobody.
LEMMA StoreLinkStep ==
    ASSUME Whole, FTypes', NEW u \in AllThreads, FreeList!StoreLink(u)
    PROVE  Whole'
<1> USE DEF Whole, FTypes, Holding, FreeList!StoreLink
<1>1. \A v \in AllThreads \ {u} : allocAt'[v] = allocAt[v] /\ copy'[v] = copy[v] /\ node'[v] = node[v]
  OBVIOUS
<1>2. allocAt[u] = "store_link" /\ allocAt'[u] = "push" /\ node' = node /\ copy' = copy
      /\ node[u] \in Buffers /\ node[u] \notin Listed
  BY DEF InDifferentHands, Listed, FreeList!InHands
<1>3. FreeList!InHands' = FreeList!InHands
  BY <1>1, <1>2 DEF FreeList!InHands
<1>4. Listed' = Listed
  BY <1>3 DEF Listed
<1>5. \A x \in Buffers : x # node[u] => next'[x] = next[x]
  OBVIOUS
<1>6. ListIsChain'
  <2>1. \A x \in Listed : next'[x] = next[x]
    BY <1>2, <1>5 DEF Listed
  <2> HIDE DEF Holding
  <2> QED
    BY <1>4, <2>1, SameList
<1>7. InDifferentHands'
  BY <1>1, <1>2 DEF InDifferentHands
<1>8. ASSUME NEW v \in AllThreads PROVE CopyIsGood(v)'
  <2>1. CASE v = u
    BY <1>2, <2>1 DEF CopyIsGood
  <2>2. CASE v # u
    <3>1. CopyIsGood(v)
      BY DEF CopiesAreGood
    <3>2. allocAt'[v] = allocAt[v] /\ copy'[v] = copy[v] /\ node'[v] = node[v] /\ head' = head
      BY <1>1, <2>2
    <3>3. allocAt[v] = "push" => node[v] \in Buffers /\ node[v] # node[u]
      BY <1>2, <2>2 DEF InDifferentHands
    <3>4. allocAt[v] = "push" => next'[node[v]] = copy[v].pointer
      BY <1>5, <3>1, <3>3 DEF CopyIsGood
    <3>5. copy[v].pointer \in Listed => next'[copy[v].pointer] = next[copy[v].pointer]
      BY <1>2, <1>5 DEF Listed
    <3> QED
      BY <1>4, <3>1, <3>2, <3>4, <3>5 DEF CopyIsGood
  <2> QED
    BY <2>1, <2>2
<1>9. InOnePiece'
  BY DEF InOnePiece
<1> QED
  BY <1>6, <1>7, <1>8, <1>9 DEF CopiesAreGood

\* A buffer that was popped is handed out.
LEMMA ConstructStep ==
    ASSUME Whole, FTypes', NEW u \in AllThreads, FreeList!Construct(u)
    PROVE  Whole'
<1> USE DEF Whole, FTypes, Holding, FreeList!Construct
<1>1. \A v \in AllThreads \ {u} : allocAt'[v] = allocAt[v] /\ copy'[v] = copy[v] /\ node'[v] = node[v]
  OBVIOUS
<1>2. allocAt[u] = "popped" /\ allocAt'[u] = "out"
  OBVIOUS
<1>3. PICK n \in Buffers : n = node[u] /\ n \in free
  OBVIOUS
<1>4. \A v \in AllThreads \ {u} : allocAt[v] \in Holding => node[v] # n
  BY <1>2, <1>3 DEF InDifferentHands
<1>5. \A x \in Buffers : x \in FreeList!InHands' <=> x \in FreeList!InHands /\ x # n
  BY <1>1, <1>2, <1>3, <1>4 DEF FreeList!InHands
<1>6. n \in FreeList!InHands
  BY <1>2, <1>3 DEF FreeList!InHands
<1>7. \A x \in Buffers : x \in Listed' <=> x \in Listed
  BY <1>3, <1>5, <1>6 DEF Listed
<1>8. Listed' = Listed
  BY <1>7 DEF Listed
<1>9. ListIsChain'
  <2> HIDE DEF Holding
  <2> QED
    BY <1>7, SameList
<1>10. InDifferentHands'
  BY <1>1, <1>2, <1>3, <1>4 DEF InDifferentHands
<1>11. CopiesAreGood'
  <2>1. CopyIsGood(u)'
    BY <1>2 DEF CopyIsGood
  <2> HIDE DEF FTypes, Holding
  <2> QED
    BY <1>1, <1>8, <2>1, SameCopies
<1>12. InOnePiece'
  BY DEF InOnePiece
<1> QED
  BY <1>9, <1>10, <1>11, <1>12

\* A pop whose counter has not changed takes the first buffer, and the list goes on
\* with the link the user has read long before; all other copies are too old now.
LEMMA PopStep ==
    ASSUME Whole, FTypes', Null \notin Buffers, NEW u \in AllThreads, FreeList!Pop(u)
    PROVE  Whole'
<1> USE DEF Whole, FTypes, Holding, FreeList!Pop
<1>1. \A v \in AllThreads \ {u} : allocAt'[v] = allocAt[v] /\ copy'[v] = copy[v] /\ node'[v] = node[v]
  OBVIOUS
<1>2. allocAt[u] = "pop" /\ copy' = copy /\ UNCHANGED <<layout, next, free>>
  OBVIOUS
<1>3. InOnePiece'
  BY DEF InOnePiece
<1>4. CASE ~FreeList!Unchanged(u)
  <2>1. allocAt'[u] = "allocating" /\ UNCHANGED <<head, node>>
    BY <1>4
  <2>2. \A v \in AllThreads : (allocAt'[v] \in Holding <=> allocAt[v] \in Holding)
                         /\ (allocAt[v] \in Holding => node'[v] = node[v])
    BY <1>1, <1>2, <2>1
  <2>3. ListIsChain' /\ InDifferentHands' /\ Listed' = Listed
    <3> HIDE DEF FTypes, Holding
    <3> QED
      BY <1>2, <2>1, <2>2, SameHands
  <2>4. CopyIsGood(u)'
    BY <2>1 DEF CopyIsGood
  <2>5. CopiesAreGood'
    <3> HIDE DEF FTypes, Holding
    <3> QED
      BY <1>1, <1>2, <2>1, <2>3, <2>4, SameCopies
  <2> QED
    BY <1>2, <1>3, <2>3, <2>5
<1>5. CASE FreeList!Unchanged(u)
  <2>0. CopyIsGood(u)
    BY DEF CopiesAreGood
  <2>a. copy[u].pointer \in Links
    OBVIOUS
  <2>1. PICK first \in Buffers : first = copy[u].pointer
    BY <1>2, <2>0, <2>a DEF CopyIsGood, Links
  <2>2. /\ head.pointer = first /\ copy[u].counter = head.counter
        /\ node[u] = next[first] /\ first \in Listed
    BY <1>2, <1>5, <2>0, <2>1 DEF FreeList!Unchanged, CopyIsGood
  <2>3. /\ allocAt'[u] = "popped" /\ node'[u] = first
        /\ head'.pointer = node[u] /\ head'.counter = head.counter + 1
    BY <1>5, <2>1, <2>2 DEF FreeList!PoppedHead
  <2>4. \A x \in Buffers : x \in FreeList!InHands' <=> x \in FreeList!InHands \/ x = first
    BY <1>1, <1>2, <2>3 DEF FreeList!InHands
  <2>5. \A x \in Buffers : x \in Listed' <=> x \in Listed /\ x # first
    BY <1>2, <2>4 DEF Listed
  <2>6. PICK n \in Nat : \E s \in [1 .. n -> Buffers] : IsFreeList(s, n) /\ IsListed(s, n)
    BY DEF ListIsChain
  <2>7. PICK s \in [1 .. n -> Buffers] : IsFreeList(s, n) /\ IsListed(s, n)
    BY <2>6
  <2>8. n # 0 /\ s[1] = first
    BY <2>2, <2>7 DEF IsFreeList
  <2> DEFINE t == [i \in 1 .. n - 1 |-> s[i + 1]]
  <2>9. n - 1 \in Nat /\ t \in [1 .. n - 1 -> Buffers] /\ \A i \in 1 .. n - 1 : i + 1 \in 1 .. n /\ t[i] = s[i + 1]
    BY <2>8
  <2> HIDE DEF t
  <2>10. \A i, j \in 1 .. n - 1 : t[i] = t[j] => i = j
    <3> TAKE i, j \in 1 .. n - 1
    <3>1. i + 1 \in 1 .. n /\ j + 1 \in 1 .. n
      BY <2>9
    <3>2. s[i + 1] = s[j + 1] => i + 1 = j + 1
      BY <2>7, <3>1 DEF IsFreeList
    <3> QED
      BY <2>9, <3>2
  <2>11. head'.pointer = IF n - 1 = 0 THEN Null ELSE t[1]
    <3>1. 1 \in 1 .. n /\ next[s[1]] = IF 1 = n THEN Null ELSE s[2]
      BY <2>7, <2>8 DEF IsFreeList
    <3> QED
      BY <2>2, <2>3, <2>8, <2>9, <3>1
  <2>12. \A i \in 1 .. n - 1 : next'[t[i]] = IF i = n - 1 THEN Null ELSE t[i + 1]
    <3> TAKE i \in 1 .. n - 1
    <3>1. i + 1 \in 1 .. n /\ t[i] = s[i + 1]
      BY <2>9
    <3>2. next[s[i + 1]] = IF i + 1 = n THEN Null ELSE s[(i + 1) + 1]
      BY <2>7, <3>1 DEF IsFreeList
    <3>3. i # n - 1 => i + 1 \in 1 .. n - 1
      BY <2>8
    <3>4. i # n - 1 => t[i + 1] = s[(i + 1) + 1]
      BY <2>9, <3>3
    <3> QED
      BY <1>2, <2>8, <3>1, <3>2, <3>4
  <2>13. IsFreeList(t, n - 1)'
    BY <2>10, <2>11, <2>12 DEF IsFreeList
  <2>14. IsListed(t, n - 1)'
    <3>1. SUFFICES ASSUME NEW x \in Buffers
                   PROVE  x \in Listed' <=> \E i \in 1 .. n - 1 : t[i] = x
      BY DEF IsListed
    <3>2. x \in Listed <=> \E i \in 1 .. n : s[i] = x
      BY <2>7 DEF IsListed
    <3>3. ASSUME NEW i \in 1 .. n, s[i] = x, x # first PROVE \E k \in 1 .. n - 1 : t[k] = x
      <4>1. i - 1 \in 1 .. n - 1
        BY <2>8, <3>3
      <4>2. t[i - 1] = x
        BY <2>9, <3>3, <4>1
      <4> QED
        BY <4>1, <4>2
    <3>4. ASSUME NEW i \in 1 .. n - 1, t[i] = x PROVE x \in Listed /\ x # first
      <4>1. i + 1 \in 1 .. n /\ s[i + 1] = x
        BY <2>9, <3>4
      <4>2. 1 \in 1 .. n /\ i + 1 # 1
        BY <2>8
      <4>3. x # s[1]
        BY <2>7, <4>1, <4>2 DEF IsFreeList
      <4> QED
        BY <2>8, <3>2, <4>1, <4>3
    <3> QED
      BY <2>5, <3>2, <3>3, <3>4
  <2>15. ListIsChain'
    BY <2>9, <2>13, <2>14 DEF ListIsChain
  <2>16. InDifferentHands'
    <3>1. first \in free /\ \A v \in AllThreads : allocAt[v] \in Holding => node[v] # first
      BY <2>2 DEF Listed, FreeList!InHands
    <3>2. \A v \in AllThreads : allocAt'[v] \in Holding =>
              \/ v = u /\ node'[v] = first
              \/ v # u /\ allocAt[v] \in Holding /\ node'[v] = node[v] /\ node[v] # first
      BY <1>1, <2>3, <3>1
    <3>3. \A v \in AllThreads : allocAt'[v] \in Holding => node'[v] \in free'
      BY <1>2, <3>1, <3>2 DEF InDifferentHands
    <3>4. ASSUME NEW v \in AllThreads, NEW w \in AllThreads, allocAt'[v] \in Holding, allocAt'[w] \in Holding,
                 node'[v] = node'[w]
          PROVE  v = w
      <4>1. CASE v = u
        BY <3>2, <3>4, <4>1
      <4>2. CASE v # u
        <5>1. allocAt[v] \in Holding /\ node'[v] = node[v] /\ node[v] # first
          BY <3>2, <3>4, <4>2
        <5>2. allocAt[w] \in Holding /\ node'[w] = node[w]
          BY <3>2, <3>4, <5>1
        <5> QED
          BY <3>4, <5>1, <5>2 DEF InDifferentHands
      <4> QED
        BY <4>1, <4>2
    <3> QED
      BY <3>3, <3>4 DEF InDifferentHands
  <2>17. ASSUME NEW v \in AllThreads PROVE CopyIsGood(v)'
    <3>1. CASE v = u
      BY <2>3, <3>1 DEF CopyIsGood
    <3>2. CASE v # u
      <4>1. CopyIsGood(v)
        BY DEF CopiesAreGood
      <4>2. allocAt'[v] = allocAt[v] /\ copy'[v] = copy[v] /\ node'[v] = node[v]
        BY <1>1, <3>2
      <4>3. copy[v].counter \in Nat /\ head.counter \in Nat
        OBVIOUS
      <4> QED
        BY <1>2, <2>3, <4>1, <4>2, <4>3 DEF CopyIsGood
    <3> QED
      BY <3>1, <3>2
  <2> QED
    BY <1>2, <1>3, <2>15, <2>16, <2>17 DEF CopiesAreGood
<1> QED
  BY <1>4, <1>5

\* A push puts the buffer before the list, the counter stays: the buffer was in no
\* copy with this counter.
LEMMA PushStep ==
    ASSUME Whole, FTypes', Null \notin Buffers, NEW u \in AllThreads, FreeList!Push(u)
    PROVE  Whole'
<1> USE DEF Whole, FTypes, Holding, FreeList!Push
<1>1. \A v \in AllThreads \ {u} : allocAt'[v] = allocAt[v] /\ copy'[v] = copy[v] /\ node'[v] = node[v]
  OBVIOUS
<1>2. allocAt[u] = "push" /\ copy' = copy /\ UNCHANGED <<layout, next, free>>
  OBVIOUS
<1>3. InOnePiece'
  BY DEF InOnePiece
<1>4. CASE ~FreeList!Unchanged(u)
  <2>1. allocAt'[u] = "deallocating" /\ UNCHANGED <<head, node>>
    BY <1>4
  <2>2. \A v \in AllThreads : (allocAt'[v] \in Holding <=> allocAt[v] \in Holding)
                         /\ (allocAt[v] \in Holding => node'[v] = node[v])
    BY <1>1, <1>2, <2>1
  <2>3. ListIsChain' /\ InDifferentHands' /\ Listed' = Listed
    <3> HIDE DEF FTypes, Holding
    <3> QED
      BY <1>2, <2>1, <2>2, SameHands
  <2>4. CopyIsGood(u)'
    BY <2>1 DEF CopyIsGood
  <2>5. CopiesAreGood'
    <3> HIDE DEF FTypes, Holding
    <3> QED
      BY <1>1, <1>2, <2>1, <2>3, <2>4, SameCopies
  <2> QED
    BY <1>2, <1>3, <2>3, <2>5
<1>5. CASE FreeList!Unchanged(u)
  <2>1. PICK new \in Buffers : new = node[u] /\ new \in free
    BY <1>2 DEF InDifferentHands
  <2>2. /\ head.pointer = copy[u].pointer /\ copy[u].counter = head.counter
        /\ next[new] = head.pointer /\ new \in FreeList!InHands
    BY <1>2, <1>5, <2>1 DEF FreeList!Unchanged, CopiesAreGood, CopyIsGood, FreeList!InHands
  <2>3. /\ allocAt'[u] = "out" /\ head'.pointer = new /\ head'.counter = head.counter
    BY <1>5, <2>1, <2>2
  <2>4. \A x \in Buffers : x \in FreeList!InHands' <=> x \in FreeList!InHands /\ x # new
    <3>1. \A v \in AllThreads \ {u} : allocAt[v] \in Holding => node[v] # new
      BY <1>2, <2>1 DEF InDifferentHands
    <3>2. \A v \in AllThreads : (allocAt'[v] \in Holding <=> allocAt[v] \in Holding /\ v # u)
                           /\ (v # u => node'[v] = node[v])
      BY <1>1, <2>3
    <3>3. \A x : x \in FreeList!InHands' <=> \E v \in AllThreads : allocAt'[v] \in Holding /\ node'[v] = x
      BY DEF FreeList!InHands
    <3>4. \A x : x \in FreeList!InHands <=> \E v \in AllThreads : allocAt[v] \in Holding /\ node[v] = x
      BY DEF FreeList!InHands
    <3> QED
      BY <2>1, <3>1, <3>2, <3>3, <3>4
  <2>5. \A x \in Buffers : x \in Listed' <=> x \in Listed \/ x = new
    BY <1>2, <2>1, <2>4 DEF Listed
  <2>6. new \notin Listed
    BY <2>2 DEF Listed
  <2>7. PICK n \in Nat : \E s \in [1 .. n -> Buffers] : IsFreeList(s, n) /\ IsListed(s, n)
    BY DEF ListIsChain
  <2>8. PICK s \in [1 .. n -> Buffers] : IsFreeList(s, n) /\ IsListed(s, n)
    BY <2>7
  <2> DEFINE t == [i \in 1 .. n + 1 |-> IF i = 1 THEN new ELSE s[i - 1]]
  <2>9. /\ n + 1 \in Nat /\ t \in [1 .. n + 1 -> Buffers] /\ t[1] = new
        /\ \A i \in 1 .. n + 1 : i # 1 => i - 1 \in 1 .. n /\ t[i] = s[i - 1]
    OBVIOUS
  <2> HIDE DEF t
  <2>10. \A i \in 1 .. n : s[i] \in Listed /\ s[i] # new
    BY <2>6, <2>8 DEF IsListed
  <2>11. \A i, j \in 1 .. n + 1 : t[i] = t[j] => i = j
    <3> TAKE i, j \in 1 .. n + 1
    <3> HAVE t[i] = t[j]
    <3>1. CASE i = 1 /\ j = 1
      BY <3>1
    <3>2. CASE i = 1 /\ j # 1
      BY <2>9, <2>10, <3>2
    <3>3. CASE i # 1 /\ j = 1
      BY <2>9, <2>10, <3>3
    <3>4. CASE i # 1 /\ j # 1
      <4>1. i - 1 \in 1 .. n /\ j - 1 \in 1 .. n /\ s[i - 1] = s[j - 1]
        BY <2>9, <3>4
      <4>2. i - 1 = j - 1
        BY <2>8, <4>1 DEF IsFreeList
      <4> QED
        BY <4>2
    <3> QED
      BY <3>1, <3>2, <3>3, <3>4
  <2>12. head'.pointer = IF n + 1 = 0 THEN Null ELSE t[1]
    BY <2>3, <2>9
  <2>13. \A i \in 1 .. n + 1 : next'[t[i]] = IF i = n + 1 THEN Null ELSE t[i + 1]
    <3> TAKE i \in 1 .. n + 1
    <3>1. CASE i = 1
      <4>1. next[new] = IF n = 0 THEN Null ELSE s[1]
        BY <2>2, <2>8 DEF IsFreeList
      <4>2. n # 0 => t[2] = s[1]
        BY <2>9
      <4> QED
        BY <1>2, <2>9, <3>1, <4>1, <4>2
    <3>2. CASE i # 1
      <4>1. i - 1 \in 1 .. n /\ t[i] = s[i - 1]
        BY <2>9, <3>2
      <4>2. next[s[i - 1]] = IF i - 1 = n THEN Null ELSE s[(i - 1) + 1]
        BY <2>8, <4>1 DEF IsFreeList
      <4>3. i # n + 1 => i + 1 \in 1 .. n + 1 /\ i + 1 # 1
        OBVIOUS
      <4>4. i # n + 1 => t[i + 1] = s[(i + 1) - 1]
        BY <2>9, <4>3
      <4>5. (i + 1) - 1 = (i - 1) + 1
        OBVIOUS
      <4> QED
        BY <1>2, <4>1, <4>2, <4>4, <4>5
    <3> QED
      BY <3>1, <3>2
  <2>14. IsFreeList(t, n + 1)'
    BY <2>11, <2>12, <2>13 DEF IsFreeList
  <2>15. IsListed(t, n + 1)'
    <3>1. SUFFICES ASSUME NEW x \in Buffers
                   PROVE  x \in Listed' <=> \E i \in 1 .. n + 1 : t[i] = x
      BY DEF IsListed
    <3>2. x \in Listed <=> \E i \in 1 .. n : s[i] = x
      BY <2>8 DEF IsListed
    <3>3. ASSUME NEW i \in 1 .. n, s[i] = x PROVE \E k \in 1 .. n + 1 : t[k] = x
      <4>1. i + 1 \in 1 .. n + 1 /\ i + 1 # 1 /\ (i + 1) - 1 = i
        BY <3>3
      <4>2. t[i + 1] = x
        BY <2>9, <3>3, <4>1
      <4> QED
        BY <4>1, <4>2
    <3>4. ASSUME NEW i \in 1 .. n + 1, t[i] = x PROVE x \in Listed \/ x = new
      BY <2>9, <2>10, <3>4
    <3>5. 1 \in 1 .. n + 1
      OBVIOUS
    <3> QED
      BY <2>5, <2>9, <3>2, <3>3, <3>4, <3>5
  <2>16. ListIsChain'
    BY <2>9, <2>14, <2>15 DEF ListIsChain
  <2>17. InDifferentHands'
    <3>1. \A v \in AllThreads : allocAt'[v] \in Holding => allocAt[v] \in Holding /\ node'[v] = node[v]
      BY <1>1, <2>3
    <3> HIDE DEF FreeList!Push
    <3> QED
      BY <1>2, <3>1 DEF InDifferentHands
  <2>18. ASSUME NEW v \in AllThreads PROVE CopyIsGood(v)'
    <3>1. CASE v = u
      BY <2>3, <3>1 DEF CopyIsGood
    <3>2. CASE v # u
      <4>1. CopyIsGood(v)
        BY DEF CopiesAreGood
      <4>2. allocAt'[v] = allocAt[v] /\ copy'[v] = copy[v] /\ node'[v] = node[v]
        BY <1>1, <3>2
      <4>3. copy[v].pointer \in Listed => copy[v].pointer \in Listed'
        BY <2>5 DEF Listed
      <4> QED
        BY <1>2, <2>3, <4>1, <4>2, <4>3 DEF CopyIsGood
    <3> QED
      BY <3>1, <3>2
  <2> QED
    BY <1>2, <1>3, <2>16, <2>17, <2>18 DEF CopiesAreGood
<1> QED
  BY <1>4, <1>5

\* Every step keeps the invariant.
LEMMA WholeStep ==
    ASSUME ListAssumption, Whole, [FreeList!Next]_(FreeList!vars)
    PROVE  Whole'
<1>0. FTypes /\ FTypes' /\ InOnePiece /\ layout = "whole" /\ Null \notin Buffers
  BY TypesStep DEF Whole, ListAssumption
<1>1. ASSUME NEW u \in AllThreads, FreeList!AllocateBegins(u) \/ FreeList!Copy(u) \/ FreeList!LoadLink(u) PROVE Whole'
  BY <1>0, <1>1, BeginStep
<1>2. ASSUME NEW u \in AllThreads, NEW n \in Buffers, FreeList!DeallocateBegins(u, n) PROVE Whole'
  BY <1>0, <1>2, DeallocateStep
<1>3. ASSUME NEW u \in AllThreads, FreeList!CopyHalf(u) \/ FreeList!CopyOtherHalf(u) PROVE FALSE
  BY <1>0, <1>3 DEF FreeList!CopyHalf, FreeList!CopyOtherHalf, InOnePiece
<1>4. ASSUME NEW u \in AllThreads, FreeList!StoreLink(u) PROVE Whole'
  BY <1>0, <1>4, StoreLinkStep
<1>5. ASSUME NEW u \in AllThreads, FreeList!Pop(u) PROVE Whole'
  BY <1>0, <1>5, PopStep
<1>6. ASSUME NEW u \in AllThreads, FreeList!Construct(u) PROVE Whole'
  BY <1>0, <1>6, ConstructStep
<1>7. ASSUME NEW u \in AllThreads, FreeList!Push(u) PROVE Whole'
  BY <1>0, <1>7, PushStep
<1>8. CASE UNCHANGED FreeList!vars
  <2>1. UNCHANGED <<layout, head, free, next, allocAt, node, copy>>
    BY <1>8 DEF FreeList!vars
  <2>2. ListIsChain' /\ InDifferentHands' /\ Listed' = Listed
    BY <1>0, <2>1, SameHands DEF Whole
  <2>3. InOnePiece'
    BY <1>0, <2>1 DEF InOnePiece
  <2>4. CopiesAreGood'
    BY <2>1, <2>2 DEF Whole, CopiesAreGood, CopyIsGood
  <2> QED
    BY <1>0, <2>1, <2>2, <2>3, <2>4 DEF Whole
<1> QED
  BY <1>1, <1>2, <1>3, <1>4, <1>5, <1>6, <1>7, <1>8 DEF FreeList!Next

\* Cardinality is the same operator in the instances.
LEMMA SameCardinality ==
    /\ FreeList!Cardinality(Buffers) = Cardinality(Buffers)
    /\ Queue!Cardinality(Buffers) = Cardinality(Buffers)
BY DEF FreeList!Cardinality, Queue!Cardinality, Cardinality

\* The chain the constructor builds lists every node once.
LEMMA InitialChainLists ==
    ASSUME ListAssumption
    PROVE  /\ FreeList!Cardinality(Buffers) \in Nat /\ FreeList!Cardinality(Buffers) # 0
           /\ FreeList!InitialChain \in [1 .. FreeList!Cardinality(Buffers) -> Buffers]
           /\ \A i, j \in 1 .. FreeList!Cardinality(Buffers) : FreeList!InitialChain[i] = FreeList!InitialChain[j] => i = j
           /\ \A x \in Buffers : \E i \in 1 .. FreeList!Cardinality(Buffers) : FreeList!InitialChain[i] = x
<1> DEFINE N == FreeList!Cardinality(Buffers)
<1>1. IsFiniteSet(Buffers) /\ Buffers # {}
  BY DEF ListAssumption
<1>2. N \in Nat /\ N # 0
  BY <1>1, SameCardinality, FS_CardinalityType, FS_EmptySet
<1>3. \E f : f \in Bijection(1 .. N, Buffers)
  BY <1>1, SameCardinality, FS_CardinalityType DEF ExistsBijection
<1>4. \E s \in [1 .. N -> Buffers] : \A i, j \in DOMAIN s : i # j => s[i] # s[j]
  BY <1>3 DEF Bijection, Injection, IsInjective
<1>5. /\ FreeList!InitialChain \in [1 .. N -> Buffers]
      /\ \A i, j \in DOMAIN FreeList!InitialChain : i # j => FreeList!InitialChain[i] # FreeList!InitialChain[j]
  BY <1>4 DEF FreeList!InitialChain
<1>6. FreeList!InitialChain \in Injection(1 .. N, Buffers)
  BY <1>5 DEF Injection, IsInjective
<1>7. IsFiniteSet(1 .. N) /\ Cardinality(1 .. N) = N
  BY <1>2, FS_Interval
<1>8. ASSUME NEW x \in Buffers, \A i \in 1 .. N : FreeList!InitialChain[i] # x PROVE FALSE
  <2>1. FreeList!InitialChain \in Injection(1 .. N, Buffers \ {x})
    BY <1>5, <1>6, <1>8 DEF Injection, IsInjective
  <2>2. IsFiniteSet(Buffers \ {x}) /\ Cardinality(Buffers \ {x}) = N - 1
    BY <1>1, SameCardinality, FS_RemoveElement
  <2>3. Cardinality(1 .. N) <= Cardinality(Buffers \ {x})
    BY <2>1, <2>2, FS_Injection
  <2> QED
    BY <1>2, <1>7, <2>2, <2>3
<1> QED
  BY <1>2, <1>5, <1>8

\* The initial state has the types ...
LEMMA InitTypes ==
    ASSUME ListAssumption, FreeList!Init
    PROVE  FTypes
<1> USE InitialChainLists DEF FreeList!Init, ListAssumption, FTypes, Links
<1>1. head \in [pointer : Links, counter : Nat]
  OBVIOUS
<1>2. next \in [Buffers -> Links]
  <2>1. ASSUME NEW n \in Buffers PROVE next[n] \in Links
    <3>1. DOMAIN FreeList!InitialChain = 1 .. FreeList!Cardinality(Buffers)
      OBVIOUS
    <3>2. PICK i : i = CHOOSE k \in DOMAIN FreeList!InitialChain : FreeList!InitialChain[k] = n
      OBVIOUS
    <3>3. i \in 1 .. FreeList!Cardinality(Buffers) /\ FreeList!InitialChain[i] = n
      BY <3>1, <3>2
    <3>4. next[n] = IF i = FreeList!Cardinality(Buffers) THEN Null ELSE FreeList!InitialChain[i + 1]
      BY <3>2
    <3>5. i # FreeList!Cardinality(Buffers) => i + 1 \in 1 .. FreeList!Cardinality(Buffers)
      BY <3>3
    <3> QED
      BY <3>4, <3>5
  <2> QED
    BY <2>1
<1>3. allocAt \in [AllThreads -> Allocating \cup Holding \cup {"out"}]
  OBVIOUS
<1>4. copy \in [AllThreads -> [pointer : Links, counter : Nat]] /\ node \in [AllThreads -> Links]
  OBVIOUS
<1> QED
  BY <1>1, <1>2, <1>3, <1>4

\* ... and satisfies the invariant.
LEMMA InitWhole ==
    ASSUME ListAssumption, FreeList!Init, layout = "whole"
    PROVE  Whole
<1> DEFINE N == FreeList!Cardinality(Buffers)
<1>1. FTypes
  BY InitTypes
<1>2. /\ N \in Nat /\ N # 0
      /\ FreeList!InitialChain \in [1 .. N -> Buffers]
      /\ \A i, j \in 1 .. N : FreeList!InitialChain[i] = FreeList!InitialChain[j] => i = j
      /\ \A x \in Buffers : \E i \in 1 .. N : FreeList!InitialChain[i] = x
  BY InitialChainLists
<1>3. \A u \in AllThreads : allocAt[u] = "out"
  BY DEF FreeList!Init
<1>4. FreeList!InHands = {} /\ Listed = Buffers
  BY <1>3 DEF FreeList!InHands, Listed, FreeList!Init
<1>5. IsFreeList(FreeList!InitialChain, N)
  <2>1. ASSUME NEW i \in 1 .. N
        PROVE  next[FreeList!InitialChain[i]] = IF i = N THEN Null ELSE FreeList!InitialChain[i + 1]
    <3>1. DOMAIN FreeList!InitialChain = 1 .. N /\ FreeList!InitialChain[i] \in Buffers
      BY <1>2
    <3>2. PICK j : j = CHOOSE k \in DOMAIN FreeList!InitialChain : FreeList!InitialChain[k] = FreeList!InitialChain[i]
      OBVIOUS
    <3>3. j \in 1 .. N /\ FreeList!InitialChain[j] = FreeList!InitialChain[i]
      BY <3>1, <3>2
    <3>4. j = i
      BY <1>2, <3>3
    <3>5. next[FreeList!InitialChain[i]] = IF j = N THEN Null ELSE FreeList!InitialChain[j + 1]
      BY <3>1, <3>2 DEF FreeList!Init
    <3> QED
      BY <3>4, <3>5
  <2>2. head.pointer = FreeList!InitialChain[1]
    BY DEF FreeList!Init
  <2> QED
    BY <1>2, <2>1, <2>2 DEF IsFreeList
<1>6. IsListed(FreeList!InitialChain, N)
  BY <1>2, <1>4 DEF IsListed
<1>7. ListIsChain
  BY <1>2, <1>5, <1>6 DEF ListIsChain
<1>8. InDifferentHands /\ InOnePiece /\ CopiesAreGood
  BY <1>3 DEF InDifferentHands, InOnePiece, CopiesAreGood, CopyIsGood, Holding
<1> QED
  BY <1>1, <1>7, <1>8 DEF Whole

\* What Chained reaches in N steps, for any N, ...
LEMMA ChainedIsListed ==
    ASSUME ListAssumption, FTypes, ListIsChain
    PROVE  FreeList!Chained = Listed
<1> DEFINE N == FreeList!Cardinality(Buffers)
<1>1. N \in Nat /\ IsFiniteSet(Buffers) /\ Null \notin Buffers
  BY SameCardinality, FS_CardinalityType DEF ListAssumption
<1>2. PICK n \in Nat : \E s \in [1 .. n -> Buffers] : IsFreeList(s, n) /\ IsListed(s, n)
  BY DEF ListIsChain
<1>3. PICK s \in [1 .. n -> Buffers] : IsFreeList(s, n) /\ IsListed(s, n)
  BY <1>2
<1>4. n <= N
  <2>1. s \in Injection(1 .. n, Buffers)
    BY <1>3 DEF IsFreeList, Injection, IsInjective
  <2>2. Cardinality(1 .. n) = n
    BY FS_Interval
  <2> QED
    BY <1>1, <2>1, <2>2, SameCardinality, FS_Injection
<1> DEFINE Step(R) == R \cup ({next[x] : x \in R} \ {Null})
           F(f) == [k \in 0 .. N |-> IF k = 0 THEN {head.pointer} \ {Null} ELSE Step(f[k - 1])]
           Reached(k) == {x \in Buffers : \E i \in 1 .. n : i <= k + 1 /\ s[i] = x}
           c == CHOOSE f : f = F(f)
<1>5. FreeList!Chained = c[N]
  BY DEF FreeList!Chained
<1>6. Reached(0) = {head.pointer} \ {Null}
  <2>1. CASE n = 0
    BY <1>3, <2>1 DEF IsFreeList
  <2>2. CASE n # 0
    <3>1. head.pointer = s[1] /\ 1 \in 1 .. n /\ s[1] \in Buffers
      BY <1>3, <2>2 DEF IsFreeList
    <3>2. Reached(0) = {s[1]}
      BY <3>1
    <3> QED
      BY <1>1, <3>1, <3>2
  <2> QED
    BY <2>1, <2>2
<1>7. ASSUME NEW k \in Nat PROVE Reached(k + 1) = Step(Reached(k))
  <2>1. ASSUME NEW x \in Reached(k + 1) PROVE x \in Step(Reached(k))
    <3>1. PICK i \in 1 .. n : i <= (k + 1) + 1 /\ s[i] = x
      BY <2>1
    <3>2. CASE i <= k + 1
      BY <3>1, <3>2
    <3>3. CASE ~ (i <= k + 1)
      <4>1. i - 1 \in 1 .. n /\ i - 1 <= k + 1 /\ i - 1 # n /\ (i - 1) + 1 = i
        BY <3>1, <3>3
      <4>2. s[i - 1] \in Reached(k)
        BY <4>1
      <4>3. next[s[i - 1]] = x
        BY <1>3, <3>1, <4>1 DEF IsFreeList
      <4> QED
        BY <1>1, <2>1, <4>2, <4>3
    <3> QED
      BY <3>2, <3>3
  <2>2. ASSUME NEW x \in Step(Reached(k)) PROVE x \in Reached(k + 1)
    <3>1. CASE x \in Reached(k)
      <4>1. PICK i \in 1 .. n : i <= k + 1 /\ s[i] = x
        BY <3>1
      <4>2. i <= (k + 1) + 1
        BY <4>1
      <4> QED
        BY <3>1, <4>1, <4>2
    <3>2. CASE x \notin Reached(k)
      <4>1. PICK y \in Reached(k) : x = next[y] /\ x # Null
        BY <2>2, <3>2
      <4>2. PICK i \in 1 .. n : i <= k + 1 /\ s[i] = y
        BY <4>1
      <4>3. i # n /\ x = s[i + 1]
        BY <1>3, <4>1, <4>2 DEF IsFreeList
      <4>4. i + 1 \in 1 .. n /\ i + 1 <= (k + 1) + 1
        BY <4>2, <4>3
      <4> QED
        BY <4>3, <4>4
    <3> QED
      BY <3>1, <3>2
  <2> QED
    BY <2>1, <2>2
<1>8. c = F(c)
  <2> DEFINE g == [k \in 0 .. N |-> Reached(k)]
  <2>1. ASSUME NEW k \in 0 .. N
        PROVE  g[k] = IF k = 0 THEN {head.pointer} \ {Null} ELSE Step(g[k - 1])
    <3> HIDE DEF Reached, Step
    <3>1. CASE k = 0
      BY <1>6, <3>1
    <3>2. CASE k # 0
      <4>1. k - 1 \in Nat /\ k - 1 \in 0 .. N /\ (k - 1) + 1 = k
        BY <1>1, <3>2
      <4>2. g[k - 1] = Reached(k - 1) /\ g[k] = Reached(k)
        BY <4>1
      <4> QED
        BY <1>7, <3>2, <4>1, <4>2
    <3> QED
      BY <3>1, <3>2
  <2>2. g = F(g)
    <3> HIDE DEF Reached, Step
    <3> QED
      BY <2>1
  <2> HIDE DEF F, g
  <2> QED
    BY <2>2
<1>9. c[0] = Reached(0) /\ \A k \in 1 .. N : c[k] = Step(c[k - 1])
  <2>1. PICK h : h = c
    OBVIOUS
  <2> HIDE DEF c, Reached, Step
  <2>2. h = F(h)
    BY <1>8, <2>1
  <2> HIDE DEF F
  <2>3. h = [k \in 0 .. N |-> IF k = 0 THEN {head.pointer} \ {Null} ELSE Step(h[k - 1])]
    BY <2>2 DEF F
  <2>4. h[0] = {head.pointer} \ {Null}
    <3>1. 0 \in 0 .. N
      BY <1>1
    <3> QED
      BY ONLY <2>3, <3>1
  <2>5. ASSUME NEW k \in 1 .. N PROVE h[k] = Step(h[k - 1])
    <3>1. k \in 0 .. N /\ k # 0
      OBVIOUS
    <3>2. h[k] = IF k = 0 THEN {head.pointer} \ {Null} ELSE Step(h[k - 1])
      BY ONLY <2>3, <3>1
    <3> QED
      BY <3>1, <3>2
  <2> QED
    BY <1>6, <2>1, <2>4, <2>5
<1> HIDE DEF c, F
<1> DEFINE T == {k \in Nat : k \in 0 .. N => c[k] = Reached(k)}
<1>10. 0 \in T
  BY <1>9
<1>11. \A k \in Nat : k \in T => k + 1 \in T
  <2> HIDE DEF Reached, Step
  <2> TAKE k \in Nat
  <2> HAVE k \in T
  <2>1. SUFFICES ASSUME k + 1 \in 0 .. N PROVE c[k + 1] = Reached(k + 1)
    OBVIOUS
  <2>2. k \in 0 .. N /\ k + 1 \in 1 .. N /\ (k + 1) - 1 = k
    BY <1>1, <2>1
  <2>3. c[k + 1] = Step(c[k]) /\ c[k] = Reached(k)
    BY <1>9, <2>2
  <2> QED
    BY <1>7, <2>3
<1>12. c[N] = Reached(N)
  <2> HIDE DEF T, Reached
  <2>1. Nat \subseteq T
    BY <1>10, <1>11, SetInduction
  <2> QED
    BY <1>1, <2>1 DEF T
<1>13. \A x : x \in Reached(N) <=> x \in Listed
  <2>1. \A i \in 1 .. n : i <= N + 1
    BY <1>1, <1>4
  <2>2. Listed \subseteq Buffers
    BY DEF Listed, FTypes
  <2> QED
    BY <1>3, <2>1, <2>2 DEF IsListed
<1> QED
  BY <1>5, <1>12, <1>13

\* The invariant holds in every build that copies the head in one piece, for any
\* number of users and buffers.
THEOREM AllocatorInvariant == FreeList!Spec => [](layout = "whole" => Whole)
<1> DEFINE I == FTypes /\ (layout = "whole" => Whole)
<1>1. FreeList!Init => I
  BY AssumptionsHold, InitTypes, InitWhole
<1>2. I /\ [FreeList!Next]_(FreeList!vars) => I'
  <2> SUFFICES ASSUME I, [FreeList!Next]_(FreeList!vars) PROVE I'
    OBVIOUS
  <2>1. FTypes'
    BY AssumptionsHold, TypesStep
  <2>2. layout' = layout
    BY DEF FreeList!Next, FreeList!vars, FreeList!AllocateBegins, FreeList!DeallocateBegins, FreeList!Copy, FreeList!CopyHalf, FreeList!CopyOtherHalf, FreeList!LoadLink,
           FreeList!StoreLink, FreeList!Pop, FreeList!Construct, FreeList!Push
  <2> QED
    BY <2>1, <2>2, AssumptionsHold, WholeStep
<1>3. I => (layout = "whole" => Whole)
  OBVIOUS
<1> QED
  BY <1>1, <1>2, <1>3, PTL DEF FreeList!Spec

\* EachNodeInOnePlace (tasks_allocator.cpp): if the head is copied in one piece, a
\* buffer is in the list, in the hands of one user or handed out, and none is lost.
THEOREM AllocatorKeepsNodesApart == FreeList!Spec => []FreeList!EachNodeInOnePlace
<1>1. (layout = "whole" => Whole) => FreeList!EachNodeInOnePlace
  <2> SUFFICES ASSUME Whole PROVE FreeList!EachNodeInOnePlace
    BY DEF FreeList!EachNodeInOnePlace
  <2>1. FreeList!Chained = Listed
    BY AssumptionsHold, ChainedIsListed DEF Whole
  <2>2. \A u, v \in AllThreads : u # v /\ allocAt[u] = "popped" /\ allocAt[v] = "popped" => node[u] # node[v]
    BY DEF Whole, InDifferentHands, Holding
  <2>3. FreeList!InHands \subseteq free
    BY DEF Whole, InDifferentHands, Holding, FreeList!InHands
  <2>4. Listed = free \ FreeList!InHands /\ owned = Buffers \ free /\ free \subseteq Buffers
    BY DEF Whole, FTypes, Listed
  <2> QED
    BY <2>1, <2>2, <2>3, <2>4 DEF FreeList!EachNodeInOnePlace
<1> QED
  BY <1>1, AllocatorInvariant, PTL

\* The assertion of allocate (tasks_allocator.cpp:51) holds in such a build.
THEOREM WholePoppedIsFree == FreeList!Spec => [](layout = "whole" => FreeList!PoppedIsFree)
<1>1. (layout = "whole" => Whole) => (layout = "whole" => FreeList!PoppedIsFree)
  BY DEF Whole, InDifferentHands, FreeList!PoppedIsFree, Holding
<1> QED
  BY <1>1, AllocatorInvariant, PTL

-----------------------------------------------------------------------------
\* The counter of the head counts the pops done; every user on its way to a pop
\* has an allocation of its own besides.
Allocators == {u \in AllThreads : allocAt[u] \in Allocating}
\* ... and no copy of the counter is ahead of it.
CountersBounded ==
    /\ Cardinality(Allocators) + head.counter <= allocations
    /\ \A u \in AllThreads : copy[u].counter <= head.counter
    /\ layout = "pointer_only" => head.counter = 0

\* The users on their way are finitely many.
LEMMA AllocatorsFinite ==
    ASSUME ListAssumption
    PROVE  IsFiniteSet(Allocators) /\ Cardinality(Allocators) \in Nat
<1>1. Allocators \subseteq AllThreads
  BY DEF Allocators
<1> QED
  BY <1>1, FS_Subset, FS_CardinalityType DEF ListAssumption

\* Every step keeps the bounds of the counter.
LEMMA CountersStep ==
    ASSUME ListAssumption, FTypes, CountersBounded, [FreeList!Next]_(FreeList!vars)
    PROVE  CountersBounded'
<1> DEFINE C == Cardinality(Allocators)
<1>0. /\ FTypes' /\ C \in Nat /\ IsFiniteSet(Allocators) /\ C' \in Nat
      /\ head.counter \in Nat /\ head'.counter \in Nat /\ allocations \in Nat
  <2>1. FTypes'
    BY TypesStep
  <2>2. C \in Nat /\ IsFiniteSet(Allocators)
    BY AllocatorsFinite
  <2>3. Allocators' \subseteq AllThreads
    BY DEF Allocators
  <2>4. C' \in Nat
    BY <2>3, FS_Subset, FS_CardinalityType DEF ListAssumption
  <2> QED
    BY <2>1, <2>2, <2>4 DEF FTypes, ListAssumption
<1>1. ASSUME NEW u \in AllThreads,
             \A v \in AllThreads \ {u} : allocAt'[v] = allocAt[v]
      PROVE  /\ allocAt[u] \notin Allocating /\ allocAt'[u] \in Allocating => C' = C + 1
             /\ allocAt[u] \in Allocating /\ allocAt'[u] \notin Allocating => C' = C - 1
             /\ (allocAt[u] \in Allocating <=> allocAt'[u] \in Allocating) => C' = C
  <2>1. ASSUME allocAt[u] \notin Allocating, allocAt'[u] \in Allocating PROVE C' = C + 1
    <3>1. Allocators' = Allocators \cup {u} /\ u \notin Allocators
      BY <1>1, <2>1 DEF Allocators
    <3> QED
      BY <1>0, <3>1, FS_AddElement
  <2>2. ASSUME allocAt[u] \in Allocating, allocAt'[u] \notin Allocating PROVE C' = C - 1
    <3>1. Allocators' = Allocators \ {u} /\ u \in Allocators
      BY <1>1, <2>2 DEF Allocators
    <3> QED
      BY <1>0, <3>1, FS_RemoveElement
  <2>3. ASSUME allocAt[u] \in Allocating <=> allocAt'[u] \in Allocating PROVE C' = C
    <3>1. Allocators' = Allocators
      BY <1>1, <2>3 DEF Allocators
    <3> QED
      BY <3>1
  <2> QED
    BY <2>1, <2>2, <2>3
<1> HIDE DEF C
<1>2. /\ C + head.counter <= allocations
      /\ \A u \in AllThreads : copy[u] \in [pointer : Links, counter : Nat] /\ copy[u].counter <= head.counter
      /\ layout = "pointer_only" => head.counter = 0
  BY DEF CountersBounded, C, FTypes
<1>3. SUFFICES /\ C' + head'.counter <= allocations'
               /\ \A u \in AllThreads : copy'[u].counter <= head'.counter
               /\ layout' = "pointer_only" => head'.counter = 0
  BY DEF CountersBounded, C
<1> DEFINE Goal == /\ C' + head'.counter <= allocations'
                   /\ \A u \in AllThreads : copy'[u].counter <= head'.counter
                   /\ layout' = "pointer_only" => head'.counter = 0
<1> USE DEF FTypes
<1>4. ASSUME NEW u \in AllThreads, FreeList!AllocateBegins(u) PROVE Goal
  <2>1. /\ allocAt[u] \notin Allocating /\ allocAt'[u] \in Allocating /\ \A v \in AllThreads \ {u} : allocAt'[v] = allocAt[v]
        /\ allocations' = allocations + 1 /\ UNCHANGED <<head, copy, layout>>
    BY <1>4 DEF FreeList!AllocateBegins, Allocating
  <2>2. C' = C + 1
    BY <1>1, <2>1
  <2> QED
    BY <1>0, <1>2, <2>1, <2>2
<1>5. ASSUME NEW u \in AllThreads, NEW n \in Buffers, FreeList!DeallocateBegins(u, n) PROVE Goal
  <2>1. /\ allocAt[u] \notin Allocating /\ allocAt'[u] \notin Allocating /\ \A v \in AllThreads \ {u} : allocAt'[v] = allocAt[v]
        /\ UNCHANGED <<head, copy, layout, allocations>>
    BY <1>5 DEF FreeList!DeallocateBegins, Allocating
  <2>2. C' = C
    BY <1>1, <2>1
  <2> QED
    BY <1>0, <1>2, <2>1, <2>2
<1>6. ASSUME NEW u \in AllThreads, FreeList!Copy(u) \/ FreeList!CopyHalf(u) \/ FreeList!CopyOtherHalf(u) PROVE Goal
  <2>1. /\ allocAt[u] \in Allocating <=> allocAt'[u] \in Allocating
        /\ \A v \in AllThreads \ {u} : allocAt'[v] = allocAt[v]
        /\ UNCHANGED <<head, layout, allocations>>
    BY <1>6 DEF FreeList!Copy, FreeList!CopyHalf, FreeList!CopyOtherHalf, FreeList!Copying, FreeList!Copied, Allocating
  <2>2. \A v \in AllThreads : copy'[v].counter = copy[v].counter \/ copy'[v].counter = head.counter
    BY <1>6 DEF FreeList!Copy, FreeList!CopyHalf, FreeList!CopyOtherHalf
  <2>3. C' = C
    BY <1>1, <2>1
  <2> QED
    BY <1>0, <1>2, <2>1, <2>2, <2>3
<1>7. ASSUME NEW u \in AllThreads, FreeList!LoadLink(u) PROVE Goal
  <2>1. /\ allocAt[u] \in Allocating /\ \A v \in AllThreads \ {u} : allocAt'[v] = allocAt[v]
        /\ UNCHANGED <<head, copy, layout, allocations>>
    BY <1>7 DEF FreeList!LoadLink, Allocating
  <2>2. C' = C \/ C' = C - 1
    BY <1>1, <2>1
  <2> QED
    BY <1>0, <1>2, <2>1, <2>2
<1>8. ASSUME NEW u \in AllThreads, FreeList!StoreLink(u) PROVE Goal
  <2>1. /\ allocAt[u] \notin Allocating /\ allocAt'[u] \notin Allocating /\ \A v \in AllThreads \ {u} : allocAt'[v] = allocAt[v]
        /\ UNCHANGED <<head, copy, layout, allocations>>
    BY <1>8 DEF FreeList!StoreLink, Allocating
  <2>2. C' = C
    BY <1>1, <2>1
  <2> QED
    BY <1>0, <1>2, <2>1, <2>2
<1>9. ASSUME NEW u \in AllThreads, FreeList!Pop(u) PROVE Goal
  <2>1. /\ allocAt[u] \in Allocating /\ \A v \in AllThreads \ {u} : allocAt'[v] = allocAt[v]
        /\ UNCHANGED <<copy, layout, allocations>>
    BY <1>9 DEF FreeList!Pop, Allocating
  <2>2. CASE FreeList!Unchanged(u)
    <3>1. allocAt'[u] \notin Allocating /\ head' = FreeList!PoppedHead(u)
      BY <1>9, <2>2 DEF FreeList!Pop, Allocating
    <3>2. C' = C - 1
      BY <1>1, <2>1, <3>1
    <3>3. CASE layout = "pointer_only"
      BY <1>0, <1>2, <2>1, <3>1, <3>2, <3>3 DEF FreeList!PoppedHead
    <3>4. CASE layout # "pointer_only"
      <4>1. head'.counter = head.counter + 1
        BY <2>2, <3>1, <3>4 DEF FreeList!PoppedHead, FreeList!Unchanged
      <4> QED
        BY <1>0, <1>2, <2>1, <3>2, <3>4, <4>1
    <3> QED
      BY <3>3, <3>4
  <2>3. CASE ~FreeList!Unchanged(u)
    <3>1. allocAt'[u] \in Allocating /\ head' = head
      BY <1>9, <2>3 DEF FreeList!Pop, Allocating
    <3>2. C' = C
      BY <1>1, <2>1, <3>1
    <3> QED
      BY <1>0, <1>2, <2>1, <3>1, <3>2
  <2> QED
    BY <2>2, <2>3
<1>10. ASSUME NEW u \in AllThreads, FreeList!Construct(u) PROVE Goal
  <2>1. /\ allocAt[u] \notin Allocating /\ allocAt'[u] \notin Allocating /\ \A v \in AllThreads \ {u} : allocAt'[v] = allocAt[v]
        /\ UNCHANGED <<head, copy, layout, allocations>>
    BY <1>10 DEF FreeList!Construct, Allocating
  <2>2. C' = C
    BY <1>1, <2>1
  <2> QED
    BY <1>0, <1>2, <2>1, <2>2
<1>11. ASSUME NEW u \in AllThreads, FreeList!Push(u) PROVE Goal
  <2>1. /\ allocAt[u] \notin Allocating /\ allocAt'[u] \notin Allocating /\ \A v \in AllThreads \ {u} : allocAt'[v] = allocAt[v]
        /\ UNCHANGED <<copy, layout, allocations>>
    BY <1>11 DEF FreeList!Push, Allocating
  <2>2. C' = C
    BY <1>1, <2>1
  <2>3. head'.counter = head.counter
    <3>1. CASE FreeList!Unchanged(u)
      <4>1. head'.counter = copy[u].counter
        BY <1>11, <3>1 DEF FreeList!Push
      <4> QED
        BY <1>2, <3>1, <4>1 DEF FreeList!Unchanged
    <3>2. CASE ~FreeList!Unchanged(u)
      BY <1>11, <3>2 DEF FreeList!Push
    <3> QED
      BY <3>1, <3>2
  <2> QED
    BY <1>0, <1>2, <2>1, <2>2, <2>3
<1>12. CASE UNCHANGED FreeList!vars
  <2>1. C' = C /\ UNCHANGED <<head, copy, layout, allocations>>
    BY <1>12 DEF FreeList!vars, C, Allocators
  <2> QED
    BY <1>0, <1>2, <2>1
<1> QED
  BY <1>4, <1>5, <1>6, <1>7, <1>8, <1>9, <1>10, <1>11, <1>12 DEF FreeList!Next

\* The words of the free list keep their types in every layout, torn copies
\* included: the counter never exceeds the number of allocations.
THEOREM AllocatorTypeCorrect == FreeList!Spec => []FreeList!TypeOK
<1> DEFINE I == FTypes /\ CountersBounded
<1>1. FreeList!Init => I
  <2> SUFFICES ASSUME FreeList!Init PROVE I
    OBVIOUS
  <2>1. FTypes
    BY AssumptionsHold, InitTypes
  <2>2. Allocators = {}
    BY DEF Allocators, Allocating, FreeList!Init
  <2>3. Cardinality(Allocators) = 0
    BY <2>2, FS_EmptySet
  <2>4. CountersBounded
    BY <2>3 DEF CountersBounded, FreeList!Init
  <2> QED
    BY <2>1, <2>4
<1>2. I /\ [FreeList!Next]_(FreeList!vars) => I'
  BY AssumptionsHold, TypesStep, CountersStep
<1>3. I => FreeList!TypeOK
  <2> SUFFICES ASSUME I PROVE FreeList!TypeOK
    OBVIOUS
  <2>1. Cardinality(Allocators) \in Nat
    BY AssumptionsHold, AllocatorsFinite
  <2>2. head.counter \in 0 .. MaxAllocations
    BY <2>1, AssumptionsHold DEF CountersBounded, FTypes, ListAssumption
  <2>3. \A u \in AllThreads : copy[u] \in [pointer : Buffers \cup {Null}, counter : 0 .. MaxAllocations]
    <3> SUFFICES ASSUME NEW u \in AllThreads
                 PROVE  copy[u] \in [pointer : Buffers \cup {Null}, counter : 0 .. MaxAllocations]
      OBVIOUS
    <3>1. copy[u] \in [pointer : Links, counter : Nat] /\ copy[u].counter <= head.counter
      BY DEF CountersBounded, FTypes
    <3>2. copy[u].counter \in 0 .. MaxAllocations
      BY <2>2, <3>1, AssumptionsHold DEF ListAssumption
    <3> QED
      BY <3>1, <3>2 DEF Links
  <2> QED
    BY <2>2, <2>3 DEF FTypes, FreeList!TypeOK, Links
<1> QED
  BY <1>1, <1>2, <1>3, PTL DEF FreeList!Spec

-----------------------------------------------------------------------------
(* The queue of pending tasks.                                             *)

\* s contains x.
Holds(s, x) == \E i \in 1 .. Len(s) : s[i] = x

\* s lists what the links reach from h on.
IsChain(s, h) ==
    /\ \A i, j \in 1 .. Len(s) : s[i] = s[j] => i = j
    /\ h = IF Len(s) = 0 THEN Null ELSE s[1]
    /\ \A i \in 1 .. Len(s) : link[s[i]] = IF i = Len(s) THEN Null ELSE s[i + 1]

\* From(h) is the one sequence the links make of h.
FromFollows == \A s \in Seq(Buffers) : \A h : IsChain(s, h) => Queue!From(h) = s

\* From, defined by a recursion as long as there are values, follows the links to
\* their end.
LEMMA FromLemma == ASSUME QAssumption PROVE FromFollows
<1> SUFFICES ASSUME NEW s \in Seq(Buffers), NEW h, IsChain(s, h) PROVE Queue!From(h) = s
  BY DEF FromFollows
<1> DEFINE N == Queue!Cardinality(Buffers)
           n == Len(s)
           Step(v) == IF v = <<>> \/ link[v[Len(v)]] = Null THEN v ELSE Append(v, link[v[Len(v)]])
           First == IF h = Null THEN <<>> ELSE <<h>>
           F(f) == [k \in 0 .. N |-> IF k = 0 THEN First ELSE Step(f[k - 1])]
           m(k) == IF k + 1 <= n THEN k + 1 ELSE n
           Pre(k) == [i \in 1 .. m(k) |-> s[i]]
           c == CHOOSE f : f = F(f)
<1>1. N \in Nat /\ IsFiniteSet(Buffers) /\ Null \notin Buffers
  BY SameCardinality, FS_CardinalityType DEF QAssumption
<1>2. n \in Nat /\ s \in [1 .. n -> Buffers]
  BY LenProperties
<1>3. n <= N
  <2>1. s \in Injection(1 .. n, Buffers)
    BY <1>2 DEF IsChain, Injection, IsInjective
  <2>2. Cardinality(1 .. n) = n
    BY <1>2, FS_Interval
  <2> QED
    BY <1>1, <2>1, <2>2, SameCardinality, FS_Injection
<1>4. Queue!From(h) = c[N]
  BY DEF Queue!From
<1>5. ASSUME NEW k \in Nat
      PROVE  Pre(k) \in Seq(Buffers) /\ Len(Pre(k)) = m(k) /\ m(k) \in Nat
  <2>1. m(k) \in Nat /\ Pre(k) \in [1 .. m(k) -> Buffers]
    BY <1>2
  <2> QED
    BY <2>1
<1>6. Pre(0) = First
  <2>1. CASE n = 0
    BY <1>5, <2>1 DEF IsChain
  <2>2. CASE n # 0
    <3>0. m(0) = 1 /\ 1 \in 1 .. n
      BY <1>2, <2>2
    <3>1. h = s[1] /\ s[1] \in Buffers
      BY <1>2, <2>2, <3>0 DEF IsChain
    <3>2. First = <<h>> /\ <<h>> \in Seq(Buffers) /\ Len(<<h>>) = 1 /\ <<h>>[1] = h
      BY <1>1, <3>1
    <3>3. Pre(0)[1] = s[1]
      BY <3>0
    <3>4. Pre(0) \in Seq(Buffers) /\ Len(Pre(0)) = 1
      BY <1>5, <3>0
    <3> HIDE DEF Pre, First
    <3>5. First \in Seq(Buffers) /\ Len(First) = 1 /\ First[1] = h
      BY <3>2
    <3>6. \A i \in 1 .. 1 : Pre(0)[i] = First[i]
      BY <3>1, <3>3, <3>5
    <3> QED
      BY <3>4, <3>5, <3>6, SeqEqual
  <2> QED
    BY <2>1, <2>2
<1>7. ASSUME NEW k \in Nat PROVE Pre(k + 1) = Step(Pre(k))
  <2>0. /\ Pre(k) \in Seq(Buffers) /\ Len(Pre(k)) = m(k) /\ m(k) \in Nat
        /\ Pre(k + 1) \in Seq(Buffers) /\ Len(Pre(k + 1)) = m(k + 1)
    BY <1>5
  <2>1. CASE n = 0
    <3>1. Pre(k) = <<>> /\ Pre(k + 1) = <<>>
      BY <2>0, <2>1
    <3> QED
      BY <3>1
  <2>2. CASE n # 0 /\ k + 1 < n
    <3>1. m(k) = k + 1 /\ m(k + 1) = k + 2 /\ k + 1 \in 1 .. n /\ k + 2 \in 1 .. n
      BY <1>2, <2>2
    <3>2. Pre(k)[k + 1] = s[k + 1]
      BY <3>1
    <3>3. link[s[k + 1]] = s[k + 2] /\ s[k + 2] \in Buffers
      <4>1. (k + 1) + 1 = k + 2 /\ k + 1 # n
        <5> HIDE DEF n
        <5> QED
          BY <1>2, <2>2
      <4>2. link[s[k + 1]] = IF k + 1 = Len(s) THEN Null ELSE s[(k + 1) + 1]
        BY <3>1 DEF IsChain
      <4>3. s[k + 2] \in Buffers
        BY <1>2, <3>1
      <4> QED
        BY <4>1, <4>2, <4>3
    <3>4. Step(Pre(k)) = Append(Pre(k), s[k + 2])
      <4> HIDE DEF Pre
      <4> QED
        BY <1>1, <2>0, <3>1, <3>2, <3>3
    <3>5. \A i \in 1 .. k + 2 : Pre(k + 1)[i] = Append(Pre(k), s[k + 2])[i]
      BY <2>0, <3>1, <3>3
    <3> HIDE DEF Pre, m
    <3>6. Append(Pre(k), s[k + 2]) \in Seq(Buffers) /\ Len(Append(Pre(k), s[k + 2])) = k + 2
      BY <2>0, <3>1, <3>3
    <3> QED
      BY <2>0, <3>1, <3>4, <3>5, <3>6, SeqEqual
  <2>3. CASE n # 0 /\ ~ (k + 1 < n)
    <3>1. m(k) = n /\ m(k + 1) = n /\ n \in 1 .. n
      <4> HIDE DEF n
      <4> QED
        BY <1>2, <2>3
    <3>2. Pre(k + 1) = Pre(k)
      BY <3>1
    <3>3. Pre(k)[n] = s[n] /\ link[s[n]] = Null
      BY <3>1 DEF IsChain
    <3> HIDE DEF Pre, m
    <3> QED
      BY <2>0, <3>1, <3>2, <3>3
  <2> QED
    BY <1>2, <2>1, <2>2, <2>3
<1>8. c = F(c)
  <2> DEFINE g == [k \in 0 .. N |-> Pre(k)]
  <2>1. ASSUME NEW k \in 0 .. N PROVE g[k] = IF k = 0 THEN First ELSE Step(g[k - 1])
    <3> HIDE DEF Pre, Step, First
    <3>1. CASE k = 0
      BY <1>6, <3>1
    <3>2. CASE k # 0
      <4>1. k - 1 \in Nat /\ k - 1 \in 0 .. N /\ (k - 1) + 1 = k
        BY <1>1, <3>2
      <4>2. g[k - 1] = Pre(k - 1) /\ g[k] = Pre(k)
        BY <4>1
      <4> QED
        BY <1>7, <3>2, <4>1, <4>2
    <3> QED
      BY <3>1, <3>2
  <2>2. g = F(g)
    <3> HIDE DEF Pre, Step, First
    <3> QED
      BY <2>1
  <2> HIDE DEF F, g
  <2> QED
    BY <2>2
<1>9. c[0] = First /\ \A k \in 1 .. N : c[k] = Step(c[k - 1])
  <2>1. PICK v : v = c
    OBVIOUS
  <2> HIDE DEF c, Pre, Step, First
  <2>2. v = F(v)
    BY <1>8, <2>1
  <2> HIDE DEF F
  <2>3. v = [k \in 0 .. N |-> IF k = 0 THEN First ELSE Step(v[k - 1])]
    BY <2>2 DEF F
  <2>4. v[0] = First
    <3>1. 0 \in 0 .. N
      BY <1>1
    <3> QED
      BY ONLY <2>3, <3>1
  <2>5. ASSUME NEW k \in 1 .. N PROVE v[k] = Step(v[k - 1])
    <3>1. k \in 0 .. N /\ k # 0
      OBVIOUS
    <3>2. v[k] = IF k = 0 THEN First ELSE Step(v[k - 1])
      BY ONLY <2>3, <3>1
    <3> QED
      BY <3>1, <3>2
  <2> QED
    BY <2>1, <2>4, <2>5
<1> HIDE DEF c, F
<1> DEFINE T == {k \in Nat : k \in 0 .. N => c[k] = Pre(k)}
<1>10. 0 \in T
  BY <1>6, <1>9
<1>11. \A k \in Nat : k \in T => k + 1 \in T
  <2> HIDE DEF Pre, Step, First
  <2> TAKE k \in Nat
  <2> HAVE k \in T
  <2>1. SUFFICES ASSUME k + 1 \in 0 .. N PROVE c[k + 1] = Pre(k + 1)
    OBVIOUS
  <2>2. k \in 0 .. N /\ k + 1 \in 1 .. N /\ (k + 1) - 1 = k
    BY <1>1, <2>1
  <2>3. c[k + 1] = Step(c[k]) /\ c[k] = Pre(k)
    BY <1>9, <2>2
  <2> QED
    BY <1>7, <2>3
<1>12. c[N] = Pre(N)
  <2> HIDE DEF T, Pre
  <2>1. Nat \subseteq T
    BY <1>10, <1>11, SetInduction
  <2> QED
    BY <1>1, <2>1 DEF T
<1>13. Pre(N) = s
  <2>1. m(N) = n
    BY <1>1, <1>2, <1>3
  <2> QED
    BY <1>2, <2>1
<1> QED
  BY <1>4, <1>12, <1>13

\* The stack a user is turning round.
Turned == IF mutex # Null /\ queueAt[mutex] = "turn" THEN mine[mutex] ELSE Null

\* Types, as conjuncts of their own.
QTypes ==
    /\ pushList \in Buffers \cup {Null} /\ popList \in Buffers \cup {Null}
    /\ link \in [Buffers -> Buffers \cup {Null}]
    /\ mutex \in AllThreads \cup {Null}
    /\ queueAt \in [AllThreads -> Queue!Places]
    /\ mine \in [AllThreads -> Buffers \cup {Null}] /\ seen \in [AllThreads -> Buffers \cup {Null}]
    /\ popped \subseteq pushed /\ pushed \subseteq Buffers

\* Who is at the mutex holds it, and the list is empty while a stack is taken.
MutexHeld == \A u \in AllThreads :
    /\ queueAt[u] \in {"look", "take", "turn"} <=> mutex = u
    /\ queueAt[u] \in {"take", "turn"} => popList = Null
    /\ queueAt[u] = "turn" => mine[u] # Null

\* A value being pushed is nowhere else.
PushersKnow ==
    /\ \A u \in AllThreads : queueAt[u] \in {"push", "push_exchange"} => mine[u] \in pushed \ popped
    /\ \A u \in AllThreads : queueAt[u] = "push_exchange" => link[mine[u]] = seen[u]
    /\ \A u, v \in AllThreads :
         (queueAt[u] \in {"push", "push_exchange"} /\ queueAt[v] \in {"push", "push_exchange"} /\ mine[u] = mine[v]) => u = v

\* x is being pushed.
Pushing(x) == \E u \in AllThreads : queueAt[u] \in {"push", "push_exchange"} /\ mine[u] = x

\* A pop has read the link of a value that is still in the list, or was delivered.
PoppersKnow(p) == \A u \in AllThreads : queueAt[u] = "pop_exchange" =>
    /\ mine[u] \in Buffers
    /\ mine[u] \in popped \/ (Holds(p, mine[u]) /\ seen[u] = link[mine[u]])

\* A value is in at most one of the list, the stack being turned and the stack
\* everybody pushes to, and then it is neither delivered nor being pushed.
InOneList(p, t, q) == \A x \in Buffers :
    /\ ~ (Holds(p, x) /\ Holds(t, x)) /\ ~ (Holds(p, x) /\ Holds(q, x)) /\ ~ (Holds(t, x) /\ Holds(q, x))
    /\ Holds(p, x) \/ Holds(t, x) \/ Holds(q, x) => x \in pushed \ popped /\ ~ Pushing(x)

\* The three sequences the links make.
QueueIs(p, t, q) ==
    /\ IsChain(p, popList) /\ IsChain(t, Turned) /\ IsChain(q, pushList)
    /\ InOneList(p, t, q) /\ PoppersKnow(p)

\* What is known without them.
QBase == QTypes /\ MutexHeld /\ PushersKnow

\* Eight steps leave the three sequences as they are.  A push begins:
LEMMA BeginsKeeps ==
    ASSUME QAssumption, QBase, NEW u \in AllThreads, NEW n \in Buffers, Queue!PushBegins(u, n),
           NEW p \in Seq(Buffers), NEW t \in Seq(Buffers), NEW q \in Seq(Buffers), QueueIs(p, t, q)
    PROVE  QBase' /\ QueueIs(p, t, q)'
<1> USE DEF QAssumption, QBase, QueueIs, Queue!PushBegins, Queue!Goes, Queue!Takes
<1>1. QTypes'
  BY DEF QTypes, Queue!Places
<1>2. MutexHeld'
  BY DEF QTypes, MutexHeld
<1>3. PushersKnow'
  BY DEF QTypes, PushersKnow, InOneList, Pushing
<1>4. IsChain(p, popList)'
  BY DEF QTypes, IsChain, InOneList, Pushing, PushersKnow, Holds
<1>5. IsChain(t, Turned)'
  BY DEF QTypes, IsChain, InOneList, Pushing, PushersKnow, Holds, Turned, MutexHeld
<1>6. IsChain(q, pushList)'
  BY DEF QTypes, IsChain, InOneList, Pushing, PushersKnow, Holds
<1>7. InOneList(p, t, q)'
  BY DEF QTypes, InOneList, Pushing, PushersKnow
<1>8. PoppersKnow(p)'
  BY DEF QTypes, PoppersKnow, InOneList, Pushing, PushersKnow, IsChain, Holds
<1> QED
  BY <1>1, <1>2, <1>3, <1>4, <1>5, <1>6, <1>7, <1>8

\* The link of a value being pushed is in none of the sequences.
LEMMA LinksKeeps ==
    ASSUME QAssumption, QBase, NEW u \in AllThreads, Queue!PushLinks(u),
           NEW p \in Seq(Buffers), NEW t \in Seq(Buffers), NEW q \in Seq(Buffers), QueueIs(p, t, q)
    PROVE  QBase' /\ QueueIs(p, t, q)'
<1> USE DEF QAssumption, QBase, QueueIs, Queue!PushLinks, Queue!Goes, Queue!Takes
<1>1. QTypes'
  BY DEF QTypes, Queue!Places
<1>2. MutexHeld'
  BY DEF QTypes, MutexHeld
<1>3. PushersKnow'
  BY DEF QTypes, PushersKnow, InOneList, Pushing
<1>4. IsChain(p, popList)'
  BY DEF QTypes, IsChain, InOneList, Pushing, PushersKnow, Holds
<1>5. IsChain(t, Turned)'
  BY DEF QTypes, IsChain, InOneList, Pushing, PushersKnow, Holds, Turned, MutexHeld
<1>6. IsChain(q, pushList)'
  BY DEF QTypes, IsChain, InOneList, Pushing, PushersKnow, Holds
<1>7. InOneList(p, t, q)'
  BY DEF QTypes, InOneList, Pushing, PushersKnow
<1>8. PoppersKnow(p)'
  BY DEF QTypes, PoppersKnow, InOneList, Pushing, PushersKnow, IsChain, Holds
<1> QED
  BY <1>1, <1>2, <1>3, <1>4, <1>5, <1>6, <1>7, <1>8

\* The head of the stack has changed: the push begins again.
LEMMA ExchangeFailsKeeps ==
    ASSUME QAssumption, QBase, NEW u \in AllThreads, Queue!PushExchanges(u), pushList # seen[u],
           NEW p \in Seq(Buffers), NEW t \in Seq(Buffers), NEW q \in Seq(Buffers), QueueIs(p, t, q)
    PROVE  QBase' /\ QueueIs(p, t, q)'
<1> USE DEF QAssumption, QBase, QueueIs, Queue!PushExchanges, Queue!Goes, Queue!Takes
<1>1. QTypes'
  BY DEF QTypes, Queue!Places
<1>2. MutexHeld'
  BY DEF QTypes, MutexHeld
<1>3. PushersKnow'
  BY DEF QTypes, PushersKnow, InOneList, Pushing
<1>4. IsChain(p, popList)'
  BY DEF QTypes, IsChain, InOneList, Pushing, PushersKnow, Holds
<1>5. IsChain(t, Turned)'
  BY DEF QTypes, IsChain, InOneList, Pushing, PushersKnow, Holds, Turned, MutexHeld
<1>6. IsChain(q, pushList)'
  BY DEF QTypes, IsChain, InOneList, Pushing, PushersKnow, Holds
<1>7. InOneList(p, t, q)'
  BY DEF QTypes, InOneList, Pushing, PushersKnow
<1>8. PoppersKnow(p)'
  BY DEF QTypes, PoppersKnow, InOneList, Pushing, PushersKnow, IsChain, Holds
<1> QED
  BY <1>1, <1>2, <1>3, <1>4, <1>5, <1>6, <1>7, <1>8

\* A pop begins.
LEMMA PopBeginKeeps ==
    ASSUME QAssumption, QBase, NEW u \in AllThreads, Queue!PopBegins(u),
           NEW p \in Seq(Buffers), NEW t \in Seq(Buffers), NEW q \in Seq(Buffers), QueueIs(p, t, q)
    PROVE  QBase' /\ QueueIs(p, t, q)'
<1> USE DEF QAssumption, QBase, QueueIs, Queue!PopBegins, Queue!Goes, Queue!Takes
<1>1. QTypes'
  BY DEF QTypes, Queue!Places
<1>2. MutexHeld'
  BY DEF QTypes, MutexHeld
<1>3. PushersKnow'
  BY DEF QTypes, PushersKnow, InOneList, Pushing
<1>4. IsChain(p, popList)'
  BY DEF QTypes, IsChain, InOneList, Pushing, PushersKnow, Holds
<1>5. IsChain(t, Turned)'
  BY DEF QTypes, IsChain, InOneList, Pushing, PushersKnow, Holds, Turned, MutexHeld
<1>6. IsChain(q, pushList)'
  BY DEF QTypes, IsChain, InOneList, Pushing, PushersKnow, Holds
<1>7. InOneList(p, t, q)'
  BY DEF QTypes, InOneList, Pushing, PushersKnow
<1>8. PoppersKnow(p)'
  BY DEF QTypes, PoppersKnow, InOneList, Pushing, PushersKnow, IsChain, Holds
<1> QED
  BY <1>1, <1>2, <1>3, <1>4, <1>5, <1>6, <1>7, <1>8

\* A pop reads the first value, which is in the list, and its link.
LEMMA PopReadKeeps ==
    ASSUME QAssumption, QBase, NEW u \in AllThreads, Queue!PopReads(u),
           NEW p \in Seq(Buffers), NEW t \in Seq(Buffers), NEW q \in Seq(Buffers), QueueIs(p, t, q)
    PROVE  QBase' /\ QueueIs(p, t, q)'
<1> USE DEF QAssumption, QBase, QueueIs, Queue!PopReads, Queue!Goes, Queue!Takes
<1>1. QTypes'
  <2>1. CASE popList = Null
    BY <2>1 DEF QTypes, Queue!Places
  <2>2. CASE popList # Null
    <3>1. popList \in Buffers /\ link[popList] \in Buffers \cup {Null}
      BY <2>2 DEF QTypes
    <3>2. /\ queueAt' = [queueAt EXCEPT ![u] = "pop_exchange"] /\ mine' = [mine EXCEPT ![u] = popList]
          /\ seen' = [seen EXCEPT ![u] = link[popList]] /\ UNCHANGED <<pushList, popList, link, mutex, pushed, popped>>
      BY <2>2
    <3> HIDE DEF Queue!PopReads, Queue!Goes, Queue!Takes
    <3> QED
      BY <3>1, <3>2 DEF QTypes, Queue!Places
  <2> QED
    BY <2>1, <2>2
<1>2. MutexHeld'
  BY DEF QTypes, MutexHeld
<1>3. PushersKnow'
  <2>1. CASE popList = Null
    BY <2>1 DEF QTypes, PushersKnow, InOneList, Pushing
  <2>2. CASE popList # Null
    <3>1. popList \in Buffers /\ link[popList] \in Buffers \cup {Null}
      BY <2>2 DEF QTypes
    <3>2. /\ queueAt' = [queueAt EXCEPT ![u] = "pop_exchange"] /\ mine' = [mine EXCEPT ![u] = popList]
          /\ seen' = [seen EXCEPT ![u] = link[popList]] /\ UNCHANGED <<pushList, popList, link, mutex, pushed, popped>>
      BY <2>2
    <3> HIDE DEF Queue!PopReads, Queue!Goes, Queue!Takes
    <3> QED
      BY <3>1, <3>2 DEF QTypes, PushersKnow, InOneList, Pushing
  <2> QED
    BY <2>1, <2>2
<1>4. IsChain(p, popList)'
  BY DEF QTypes, IsChain, InOneList, Pushing, PushersKnow, Holds
<1>5. IsChain(t, Turned)'
  BY DEF QTypes, IsChain, InOneList, Pushing, PushersKnow, Holds, Turned, MutexHeld
<1>6. IsChain(q, pushList)'
  BY DEF QTypes, IsChain, InOneList, Pushing, PushersKnow, Holds
<1>7. InOneList(p, t, q)'
  BY DEF QTypes, InOneList, Pushing, PushersKnow
<1>8. PoppersKnow(p)'
  BY DEF QTypes, PoppersKnow, InOneList, Pushing, PushersKnow, IsChain, Holds
<1> QED
  BY <1>1, <1>2, <1>3, <1>4, <1>5, <1>6, <1>7, <1>8

\* The head of the list has changed: the pop begins again.
LEMMA PopFailsKeeps ==
    ASSUME QAssumption, QBase, NEW u \in AllThreads, Queue!PopExchanges(u), popList # mine[u],
           NEW p \in Seq(Buffers), NEW t \in Seq(Buffers), NEW q \in Seq(Buffers), QueueIs(p, t, q)
    PROVE  QBase' /\ QueueIs(p, t, q)'
<1> USE DEF QAssumption, QBase, QueueIs, Queue!PopExchanges, Queue!Goes, Queue!Takes, Queue!Returns
<1>1. QTypes'
  BY DEF QTypes, Queue!Places
<1>2. MutexHeld'
  BY DEF QTypes, MutexHeld
<1>3. PushersKnow'
  BY DEF QTypes, PushersKnow, InOneList, Pushing
<1>4. IsChain(p, popList)'
  BY DEF QTypes, IsChain, InOneList, Pushing, PushersKnow, Holds
<1>5. IsChain(t, Turned)'
  BY DEF QTypes, IsChain, InOneList, Pushing, PushersKnow, Holds, Turned, MutexHeld
<1>6. IsChain(q, pushList)'
  BY DEF QTypes, IsChain, InOneList, Pushing, PushersKnow, Holds
<1>7. InOneList(p, t, q)'
  BY DEF QTypes, InOneList, Pushing, PushersKnow
<1>8. PoppersKnow(p)'
  BY DEF QTypes, PoppersKnow, InOneList, Pushing, PushersKnow, IsChain, Holds
<1> QED
  BY <1>1, <1>2, <1>3, <1>4, <1>5, <1>6, <1>7, <1>8

\* A pop that found the list empty locks the mutex ...
LEMMA LocksKeeps ==
    ASSUME QAssumption, QBase, NEW u \in AllThreads, Queue!Lock(u),
           NEW p \in Seq(Buffers), NEW t \in Seq(Buffers), NEW q \in Seq(Buffers), QueueIs(p, t, q)
    PROVE  QBase' /\ QueueIs(p, t, q)'
<1> USE DEF QAssumption, QBase, QueueIs, Queue!Lock, Queue!Goes, Queue!Takes
<1>1. QTypes'
  BY DEF QTypes, Queue!Places
<1>2. MutexHeld'
  BY DEF QTypes, MutexHeld
<1>3. PushersKnow'
  BY DEF QTypes, PushersKnow, InOneList, Pushing
<1>4. IsChain(p, popList)'
  BY DEF QTypes, IsChain, InOneList, Pushing, PushersKnow, Holds
<1>5. IsChain(t, Turned)'
  BY DEF QTypes, IsChain, InOneList, Pushing, PushersKnow, Holds, Turned, MutexHeld
<1>6. IsChain(q, pushList)'
  BY DEF QTypes, IsChain, InOneList, Pushing, PushersKnow, Holds
<1>7. InOneList(p, t, q)'
  BY DEF QTypes, InOneList, Pushing, PushersKnow
<1>8. PoppersKnow(p)'
  BY DEF QTypes, PoppersKnow, InOneList, Pushing, PushersKnow, IsChain, Holds
<1> QED
  BY <1>1, <1>2, <1>3, <1>4, <1>5, <1>6, <1>7, <1>8

\* ... looks again ...
LEMMA LooksKeeps ==
    ASSUME QAssumption, QBase, NEW u \in AllThreads, Queue!LookAgain(u),
           NEW p \in Seq(Buffers), NEW t \in Seq(Buffers), NEW q \in Seq(Buffers), QueueIs(p, t, q)
    PROVE  QBase' /\ QueueIs(p, t, q)'
<1> USE DEF QAssumption, QBase, QueueIs, Queue!LookAgain, Queue!Goes, Queue!Takes
<1>1. QTypes'
  BY DEF QTypes, Queue!Places
<1>2. MutexHeld'
  BY DEF QTypes, MutexHeld
<1>3. PushersKnow'
  BY DEF QTypes, PushersKnow, InOneList, Pushing
<1>4. IsChain(p, popList)'
  BY DEF QTypes, IsChain, InOneList, Pushing, PushersKnow, Holds
<1>5. IsChain(t, Turned)'
  BY DEF QTypes, IsChain, InOneList, Pushing, PushersKnow, Holds, Turned, MutexHeld
<1>6. IsChain(q, pushList)'
  BY DEF QTypes, IsChain, InOneList, Pushing, PushersKnow, Holds
<1>7. InOneList(p, t, q)'
  BY DEF QTypes, InOneList, Pushing, PushersKnow
<1>8. PoppersKnow(p)'
  BY DEF QTypes, PoppersKnow, InOneList, Pushing, PushersKnow, IsChain, Holds
<1> QED
  BY <1>1, <1>2, <1>3, <1>4, <1>5, <1>6, <1>7, <1>8

\* ... and finds nothing pushed.
LEMMA NothingPushedKeeps ==
    ASSUME QAssumption, QBase, NEW u \in AllThreads, Queue!TakePushed(u), pushList = Null,
           NEW p \in Seq(Buffers), NEW t \in Seq(Buffers), NEW q \in Seq(Buffers), QueueIs(p, t, q)
    PROVE  QBase' /\ QueueIs(p, t, q)'
<1> USE DEF QAssumption, QBase, QueueIs, Queue!TakePushed, Queue!Goes, Queue!Takes, Queue!Returns
<1>1. QTypes'
  BY DEF QTypes, Queue!Places
<1>2. MutexHeld'
  BY DEF QTypes, MutexHeld
<1>3. PushersKnow'
  <2>1. popped' = popped
    OBVIOUS
  <2>2. \A v \in AllThreads : queueAt'[v] \in {"push", "push_exchange"} => (queueAt'[v] = queueAt[v] /\ mine'[v] = mine[v] /\ seen'[v] = seen[v])
    BY DEF QTypes
  <2> QED
    BY <2>1, <2>2 DEF QTypes, PushersKnow, InOneList, Pushing
<1>4. IsChain(p, popList)'
  BY DEF QTypes, IsChain, InOneList, Pushing, PushersKnow, Holds
<1>5. IsChain(t, Turned)'
  BY DEF QTypes, IsChain, InOneList, Pushing, PushersKnow, Holds, Turned, MutexHeld
<1>6. IsChain(q, pushList)'
  BY DEF QTypes, IsChain, InOneList, Pushing, PushersKnow, Holds
<1>7. InOneList(p, t, q)'
  BY DEF QTypes, InOneList, Pushing, PushersKnow
<1>8. PoppersKnow(p)'
  BY DEF QTypes, PoppersKnow, InOneList, Pushing, PushersKnow, IsChain, Holds
<1> QED
  BY <1>1, <1>2, <1>3, <1>4, <1>5, <1>6, <1>7, <1>8

\* A chain from Null is empty; a chain from a value begins with it.
LEMMA ChainHead ==
    ASSUME QAssumption, NEW s \in Seq(Buffers), NEW h, IsChain(s, h)
    PROVE  /\ h = Null <=> s = <<>>
           /\ h # Null => (Len(s) \in Nat /\ 1 <= Len(s) /\ s[1] = h /\ h \in Buffers /\ Tail(s) \in Seq(Buffers))
<1>1. s \in [1 .. Len(s) -> Buffers] /\ Len(s) \in Nat
  BY LenProperties
<1>2. Len(s) = 0 <=> s = <<>>
  OBVIOUS
<1>3. h = IF Len(s) = 0 THEN Null ELSE s[1]
  BY DEF IsChain
<1>4. CASE s = <<>>
  BY <1>3, <1>4
<1>5. CASE s # <<>>
  <2>1. Len(s) # 0 /\ 1 \in 1 .. Len(s)
    BY <1>1, <1>2, <1>5
  <2>2. h = s[1] /\ s[1] \in Buffers
    BY <1>1, <1>3, <2>1
  <2>3. h # Null
    BY <2>2 DEF QAssumption
  <2>4. Tail(s) \in Seq(Buffers)
    BY <1>5
  <2> QED
    BY <1>1, <1>5, <2>1, <2>2, <2>3, <2>4
<1> QED
  BY <1>4, <1>5

\* The tail of a sequence, by its values.
LEMMA TailProperties ==
    ASSUME NEW S, NEW s \in Seq(S), s # <<>>
    PROVE  /\ Tail(s) \in Seq(S) /\ Len(s) \in Nat \ {0}
           /\ Len(Tail(s)) = Len(s) - 1
           /\ \A i \in 1 .. Len(s) - 1 : Tail(s)[i] = s[i + 1]
  OBVIOUS

\* A sequence turned round, by its values.
LEMMA ReversedProperties ==
    ASSUME NEW S, NEW s \in Seq(S)
    PROVE  /\ Queue!Reversed(s) \in Seq(S) /\ Len(s) \in Nat
           /\ Len(Queue!Reversed(s)) = Len(s)
           /\ \A i \in 1 .. Len(s) : Queue!Reversed(s)[i] = s[Len(s) + 1 - i]
<1>1. Len(s) \in Nat /\ s \in [1 .. Len(s) -> S]
  BY LenProperties
<1>2. \A i \in 1 .. Len(s) : Len(s) + 1 - i \in 1 .. Len(s)
  BY <1>1
<1>3. Queue!Reversed(s) \in [1 .. Len(s) -> S]
  BY <1>1, <1>2 DEF Queue!Reversed
<1> QED
  BY <1>1, <1>3 DEF Queue!Reversed

\* A sequence with a value before it, by its values.
LEMMA ConsProperties ==
    ASSUME NEW S, NEW s \in Seq(S), NEW x \in S
    PROVE  /\ <<x>> \o s \in Seq(S) /\ Len(s) \in Nat
           /\ Len(<<x>> \o s) = Len(s) + 1
           /\ (<<x>> \o s)[1] = x
           /\ \A i \in 1 .. Len(s) : (<<x>> \o s)[i + 1] = s[i]
  OBVIOUS

\* The compare-exchange of a push puts the value before the stack.
LEMMA PushExchangesPrepends ==
    ASSUME QAssumption, QBase, NEW u \in AllThreads, Queue!PushExchanges(u), pushList = seen[u], NEW x, x = mine[u],
           NEW p \in Seq(Buffers), NEW t \in Seq(Buffers), NEW q \in Seq(Buffers), QueueIs(p, t, q)
    PROVE  /\ QBase' /\ x \in Buffers
           /\ QueueIs(p, t, <<x>> \o q)'
<1> USE DEF QBase, Queue!PushExchanges, Queue!Goes, Queue!Takes
<1> DEFINE r == <<x>> \o q
<1>0. x \in Buffers /\ x \in pushed \ popped /\ link[x] = pushList /\ Pushing(x)
  BY DEF QTypes, PushersKnow, Pushing
<1>1. QTypes'
  BY <1>0 DEF QTypes, Queue!Places
<1>2. MutexHeld'
  BY DEF QTypes, MutexHeld
<1>3. PushersKnow'
  <2>1. \A v \in AllThreads : queueAt'[v] \in {"push", "push_exchange"} =>
          (queueAt'[v] = queueAt[v] /\ mine'[v] = mine[v] /\ seen'[v] = seen[v])
    BY DEF QTypes
  <2> QED
    BY <2>1 DEF PushersKnow
<1>4. \A y \in Buffers : Pushing(y)' <=> (Pushing(y) /\ y # x)
  BY DEF QTypes, Pushing, PushersKnow
<1>5. /\ Len(q) \in Nat /\ r \in Seq(Buffers) /\ Len(r) = Len(q) + 1 /\ r[1] = x
      /\ \A i \in 1 .. Len(q) : r[i + 1] = q[i]
  BY <1>0, ConsProperties
<1> HIDE DEF r
<1>6. \A y : Holds(r, y) <=> (y = x \/ Holds(q, y))
  <2> TAKE y
  <2>1. ASSUME Holds(r, y) PROVE y = x \/ Holds(q, y)
    <3>1. PICK i \in 1 .. Len(r) : r[i] = y
      BY <2>1 DEF Holds
    <3>2. i = 1 \/ (i - 1 \in 1 .. Len(q) /\ (i - 1) + 1 = i)
      BY <1>5
    <3> QED
      BY <1>5, <3>1, <3>2 DEF Holds
  <2>2. ASSUME y = x PROVE Holds(r, y)
    BY <1>5, <2>2 DEF Holds
  <2>3. ASSUME Holds(q, y) PROVE Holds(r, y)
    <3>1. PICK i \in 1 .. Len(q) : q[i] = y
      BY <2>3 DEF Holds
    <3>2. i + 1 \in 1 .. Len(r)
      BY <1>5
    <3> QED
      BY <1>5, <3>1, <3>2 DEF Holds
  <2> QED
    BY <2>1, <2>2, <2>3
<1>7. ~ Holds(p, x) /\ ~ Holds(t, x) /\ ~ Holds(q, x)
  BY <1>0 DEF QueueIs, InOneList
<1>8. IsChain(p, popList)'
  BY <1>0 DEF QTypes, QueueIs, IsChain
<1>9. IsChain(t, Turned)'
  BY <1>0 DEF QTypes, QueueIs, IsChain, Turned, MutexHeld
<1>10. IsChain(r, pushList)'
  <2>1. IsChain(q, pushList)
    BY DEF QueueIs
  <2>2. ASSUME NEW i \in 1 .. Len(r), i # 1 PROVE i - 1 \in 1 .. Len(q) /\ r[i] = q[i - 1]
    <3>1. i - 1 \in 1 .. Len(q) /\ (i - 1) + 1 = i
      BY <1>5, <2>2
    <3>2. r[(i - 1) + 1] = q[i - 1]
      BY <1>5, <3>1
    <3> QED
      BY <3>1, <3>2
  <2>3. ASSUME NEW i \in 1 .. Len(r), NEW j \in 1 .. Len(r), r[i] = r[j] PROVE i = j
    <3>1. \A k \in 1 .. Len(q) : q[k] # x
      BY <1>7 DEF Holds
    <3>2. CASE i = 1 \/ j = 1
      <4>1. i # 1 => r[i] # x
        BY <2>2, <3>1
      <4>2. j # 1 => r[j] # x
        BY <2>2, <3>1
      <4> QED
        BY <1>5, <2>3, <3>2, <4>1, <4>2
    <3>3. CASE i # 1 /\ j # 1
      <4>1. i - 1 \in 1 .. Len(q) /\ j - 1 \in 1 .. Len(q) /\ q[i - 1] = q[j - 1]
        BY <2>2, <2>3, <3>3
      <4>2. i - 1 = j - 1
        BY <2>1, <4>1 DEF IsChain
      <4> QED
        BY <1>5, <4>2
    <3> QED
      BY <3>2, <3>3
  <2>4. pushList' = x /\ link' = link
    OBVIOUS
  <2>5. link[x] = IF Len(r) = 1 THEN Null ELSE r[2]
    <3>1. CASE Len(q) = 0
      BY <1>0, <1>5, <2>1, <3>1 DEF IsChain
    <3>2. CASE Len(q) # 0
      <4>1. 1 \in 1 .. Len(q) /\ Len(r) # 1 /\ 1 + 1 = 2
        BY <1>5, <3>2
      <4>2. r[2] = q[1]
        BY <1>5, <4>1
      <4>3. pushList = q[1]
        BY <2>1, <3>2 DEF IsChain
      <4> QED
        BY <1>0, <4>1, <4>2, <4>3
    <3> QED
      BY <3>1, <3>2
  <2>6. ASSUME NEW i \in 1 .. Len(r) PROVE link[r[i]] = IF i = Len(r) THEN Null ELSE r[i + 1]
    <3>1. CASE i = 1
      BY <1>5, <2>5, <3>1
    <3>2. CASE i # 1
      <4>1. i - 1 \in 1 .. Len(q) /\ r[i] = q[i - 1] /\ (i = Len(r) <=> i - 1 = Len(q))
        BY <1>5, <2>2, <3>2
      <4>2. link[q[i - 1]] = IF i - 1 = Len(q) THEN Null ELSE q[(i - 1) + 1]
        BY <2>1, <4>1 DEF IsChain
      <4>3. CASE i = Len(r)
        BY <4>1, <4>2, <4>3
      <4>4. CASE i # Len(r)
        <5>1. i \in 1 .. Len(q) /\ (i - 1) + 1 = i
          BY <1>5, <4>1, <4>4
        <5>2. r[i + 1] = q[i]
          BY <1>5, <5>1
        <5> QED
          BY <4>1, <4>2, <4>4, <5>1, <5>2
      <4> QED
        BY <4>3, <4>4
    <3> QED
      BY <3>1, <3>2
  <2>7. x = IF Len(r) = 0 THEN Null ELSE r[1]
    BY <1>5
  <2>8. pushList' = IF Len(r) = 0 THEN Null ELSE r[1]
    BY <2>4, <2>7
  <2>9. \A i \in 1 .. Len(r) : link'[r[i]] = IF i = Len(r) THEN Null ELSE r[i + 1]
    BY <2>4, <2>6
  <2>10. \A i, j \in 1 .. Len(r) : r[i] = r[j] => i = j
    BY <2>3
  <2> HIDE DEF Queue!PushExchanges, QBase
  <2> QED
    BY <2>8, <2>9, <2>10 DEF IsChain
<1>11. InOneList(p, t, r)'
  <2>1. pushed' = pushed /\ popped' = popped
    OBVIOUS
  <2>2. InOneList(p, t, q)
    BY DEF QueueIs
  <2> HIDE DEF Queue!PushExchanges, QBase
  <2> SUFFICES ASSUME NEW y \in Buffers
               PROVE  /\ ~ (Holds(p, y) /\ Holds(t, y)) /\ ~ (Holds(p, y) /\ Holds(r, y)) /\ ~ (Holds(t, y) /\ Holds(r, y))
                      /\ (Holds(p, y) \/ Holds(t, y) \/ Holds(r, y)) => (y \in pushed' \ popped' /\ ~ Pushing(y)')
    BY DEF InOneList
  <2>3. Holds(r, y) <=> (y = x \/ Holds(q, y))
    BY <1>6
  <2>4. Pushing(y)' <=> (Pushing(y) /\ y # x)
    BY <1>4
  <2>5. CASE y = x
    BY <1>0, <1>7, <2>1, <2>3, <2>4, <2>5
  <2>6. CASE y # x
    BY <2>1, <2>2, <2>3, <2>4, <2>6 DEF InOneList
  <2> QED
    BY <2>5, <2>6
<1>12. PoppersKnow(p)'
  BY DEF QTypes, QueueIs, PoppersKnow
<1> QED
  BY <1>0, <1>1, <1>2, <1>3, <1>8, <1>9, <1>10, <1>11, <1>12 DEF QueueIs, r

\* The compare-exchange of a pop takes the first value of the list: if the head is
\* what it was, the value has not been delivered, and its link is what was read.
LEMMA PopExchangesDelivers ==
    ASSUME QAssumption, QBase, NEW u \in AllThreads, Queue!PopExchanges(u), popList = mine[u],
           NEW p \in Seq(Buffers), NEW t \in Seq(Buffers), NEW q \in Seq(Buffers), QueueIs(p, t, q)
    PROVE  /\ QBase' /\ p # <<>> /\ Tail(p) \in Seq(Buffers)
           /\ QueueIs(Tail(p), t, q)'
           /\ popped' = popped \cup {p[1]}
<1> USE DEF QBase
<1> DEFINE x == mine[u]
           r == Tail(p)
<1>0. x \in Buffers /\ x # Null /\ queueAt[u] = "pop_exchange"
  BY DEF QAssumption, QueueIs, PoppersKnow, Queue!PopExchanges
<1>1. /\ p # <<>> /\ p[1] = x /\ Len(p) \in Nat \ {0} /\ r \in Seq(Buffers)
      /\ Len(r) = Len(p) - 1 /\ \A i \in 1 .. Len(r) : r[i] = p[i + 1]
  <2>1. IsChain(p, popList) /\ popList # Null
    BY <1>0 DEF QueueIs, Queue!PopExchanges
  <2>2. p # <<>> /\ p[1] = x
    BY <2>1, ChainHead DEF Queue!PopExchanges
  <2> QED
    BY <2>2, TailProperties
<1> HIDE DEF r
<1>2. Holds(p, x) /\ x \notin popped /\ x \in pushed /\ seen[u] = link[x]
  <2>1. Holds(p, x)
    BY <1>1 DEF Holds
  <2> QED
    BY <1>0, <2>1 DEF QueueIs, InOneList, PoppersKnow
<1>3. /\ popped' = popped \cup {x} /\ popList' = link[x] /\ mutex' = mutex
      /\ queueAt' = [queueAt EXCEPT ![u] = "out"] /\ mine' = [mine EXCEPT ![u] = Null] /\ seen' = [seen EXCEPT ![u] = Null]
      /\ pushList' = pushList /\ link' = link /\ pushed' = pushed
  <2>1. mutex # u
    BY <1>0 DEF MutexHeld
  <2>2. {x} \ {Null} = {x}
    BY <1>0
  <2> QED
    BY <1>2, <2>1, <2>2 DEF Queue!PopExchanges, Queue!Returns, Queue!Goes, Queue!Takes
<1>4. QTypes'
  BY <1>0, <1>2, <1>3 DEF QTypes, Queue!Places
<1>5. MutexHeld'
  <2>1. popList # Null
    BY <1>0 DEF Queue!PopExchanges
  <2> QED
    BY <1>0, <1>3, <2>1 DEF QTypes, MutexHeld
<1>6. PushersKnow'
  <2>1. ~ Pushing(x)
    BY <1>0, <1>2 DEF QueueIs, InOneList
  <2> QED
    BY <1>0, <1>3, <2>1 DEF QTypes, PushersKnow, Pushing
<1>7. \A y : Holds(r, y) <=> (Holds(p, y) /\ y # x)
  <2> TAKE y
  <2>1. ASSUME Holds(r, y) PROVE Holds(p, y) /\ y # x
    <3>1. PICK i \in 1 .. Len(r) : r[i] = y
      BY <2>1 DEF Holds
    <3>2. i + 1 \in 1 .. Len(p) /\ p[i + 1] = y /\ i + 1 # 1 /\ 1 \in 1 .. Len(p)
      BY <1>1, <3>1
    <3>3. \A j, k \in 1 .. Len(p) : p[j] = p[k] => j = k
      BY DEF QueueIs, IsChain
    <3>4. y # p[1]
      BY <3>2, <3>3
    <3> QED
      BY <1>1, <3>2, <3>4 DEF Holds
  <2>2. ASSUME Holds(p, y), y # x PROVE Holds(r, y)
    <3>1. PICK i \in 1 .. Len(p) : p[i] = y
      BY <2>2 DEF Holds
    <3>2. i # 1
      BY <1>1, <2>2, <3>1
    <3>3. i - 1 \in 1 .. Len(r) /\ (i - 1) + 1 = i
      BY <1>1, <3>2
    <3> QED
      BY <1>1, <3>1, <3>3 DEF Holds
  <2> QED
    BY <2>1, <2>2
<1>8. IsChain(r, popList)'
  <2>0. IsChain(p, popList)
    BY DEF QueueIs
  <2>1. ASSUME NEW i \in 1 .. Len(r), NEW j \in 1 .. Len(r), r[i] = r[j] PROVE i = j
    <3>1. i + 1 \in 1 .. Len(p) /\ j + 1 \in 1 .. Len(p) /\ p[i + 1] = p[j + 1]
      BY <1>1, <2>1
    <3>2. i + 1 = j + 1
      BY <2>0, <3>1 DEF IsChain
    <3> QED
      BY <3>2
  <2>2. link[x] = IF Len(r) = 0 THEN Null ELSE r[1]
    <3>1. 1 \in 1 .. Len(p)
      BY <1>1
    <3>2. link[p[1]] = IF 1 = Len(p) THEN Null ELSE p[1 + 1]
      BY <2>0, <3>1 DEF IsChain
    <3>3. CASE Len(r) = 0
      BY <1>1, <3>2, <3>3
    <3>4. CASE Len(r) # 0
      <4>1. 1 \in 1 .. Len(r) /\ 1 # Len(p)
        BY <1>1, <3>4
      <4> QED
        BY <1>1, <3>2, <3>4, <4>1
    <3> QED
      BY <3>3, <3>4
  <2>3. ASSUME NEW i \in 1 .. Len(r) PROVE link[r[i]] = IF i = Len(r) THEN Null ELSE r[i + 1]
    <3>1. i + 1 \in 1 .. Len(p) /\ r[i] = p[i + 1] /\ (i = Len(r) <=> i + 1 = Len(p))
      BY <1>1
    <3>2. link[p[i + 1]] = IF i + 1 = Len(p) THEN Null ELSE p[(i + 1) + 1]
      BY <2>0, <3>1 DEF IsChain
    <3>3. i # Len(r) => r[i + 1] = p[(i + 1) + 1]
      BY <1>1
    <3> QED
      BY <3>1, <3>2, <3>3
  <2> QED
    BY <1>3, <2>1, <2>2, <2>3 DEF IsChain
<1>9. IsChain(t, Turned)'
  BY <1>0, <1>3 DEF QTypes, QueueIs, IsChain, Turned
<1>10. IsChain(q, pushList)'
  BY <1>3 DEF QueueIs, IsChain
<1>11. \A y \in Buffers : Pushing(y)' <=> Pushing(y)
  BY <1>0, <1>3 DEF QTypes, Pushing
<1>12. InOneList(r, t, q)'
  BY <1>2, <1>3, <1>7, <1>11 DEF QueueIs, InOneList
<1>13. PoppersKnow(r)'
  BY <1>3, <1>7 DEF QTypes, QueueIs, PoppersKnow
<1> QED
  BY <1>1, <1>3, <1>4, <1>5, <1>6, <1>8, <1>9, <1>10, <1>12, <1>13 DEF QueueIs, r

\* The whole stack is taken, nobody else is turning one.
LEMMA TakePushedTakes ==
    ASSUME QAssumption, QBase, NEW u \in AllThreads, Queue!TakePushed(u), pushList # Null,
           NEW p \in Seq(Buffers), NEW t \in Seq(Buffers), NEW q \in Seq(Buffers), QueueIs(p, t, q)
    PROVE  /\ QBase' /\ t = <<>>
           /\ QueueIs(p, q, <<>>)'
<1> USE DEF QBase, Queue!TakePushed, Queue!Goes, Queue!Takes
<1>0. mutex = u /\ Turned = Null /\ popList = Null
  BY DEF MutexHeld, Turned
<1>1. t = <<>>
  BY <1>0, ChainHead DEF QueueIs
<1>2. QTypes'
  BY DEF QTypes, Queue!Places
<1>3. MutexHeld'
  BY <1>0 DEF QTypes, MutexHeld
<1>4. PushersKnow'
  BY DEF QTypes, PushersKnow
<1>5. IsChain(p, popList)'
  BY DEF QueueIs, IsChain
<1>6. Turned' = pushList
  BY <1>0 DEF QTypes, Turned, QAssumption
<1>7. IsChain(q, Turned)'
  BY <1>6 DEF QueueIs, IsChain
<1>8. IsChain(<<>>, pushList)'
  BY DEF IsChain
<1>9. InOneList(p, q, <<>>)'
  <2>1. \A x \in Buffers : ~ Holds(<<>>, x)
    BY DEF Holds
  <2>2. \A x \in Buffers : Pushing(x)' <=> Pushing(x)
    BY DEF QTypes, Pushing
  <2> QED
    BY <2>1, <2>2 DEF QueueIs, InOneList
<1>10. PoppersKnow(p)'
  BY DEF QTypes, QueueIs, PoppersKnow
<1> QED
  BY <1>1, <1>2, <1>3, <1>4, <1>5, <1>7, <1>8, <1>9, <1>10 DEF QueueIs

\* The stack turned round becomes the list, without its last value, which was
\* pushed first and is delivered.
LEMMA TurnRoundDelivers ==
    ASSUME QAssumption, QBase, NEW u \in AllThreads, Queue!TurnRound(u),
           NEW p \in Seq(Buffers), NEW t \in Seq(Buffers), NEW q \in Seq(Buffers), QueueIs(p, t, q)
    PROVE  /\ QBase' /\ p = <<>> /\ t # <<>> /\ Tail(Queue!Reversed(t)) \in Seq(Buffers)
           /\ QueueIs(Tail(Queue!Reversed(t)), <<>>, q)'
           /\ popped' = popped \cup {t[Len(t)]}
<1> USE DEF QBase
<1> DEFINE n == Len(t)
           r == Tail(Queue!Reversed(t))
<1>1. queueAt[u] = "turn" /\ mutex = u /\ popList = Null /\ mine[u] # Null /\ mine[u] \in Buffers
  BY DEF Queue!TurnRound, MutexHeld, QTypes
<1>2. Turned = mine[u] /\ IsChain(t, mine[u]) /\ p = <<>>
  <2>1. mutex # Null
    BY <1>1 DEF QAssumption
  <2>2. Turned = mine[u]
    BY <1>1, <2>1 DEF Turned
  <2> QED
    BY <1>1, <2>2, ChainHead DEF QueueIs
<1>3. Queue!From(mine[u]) = t
  <2>1. FromFollows
    BY FromLemma
  <2> QED
    BY <1>2, <2>1 DEF FromFollows
<1>4. n \in Nat \ {0} /\ t \in [1 .. n -> Buffers] /\ t # <<>>
  BY <1>1, <1>2, ChainHead, LenProperties
<1>5. /\ r \in Seq(Buffers) /\ Len(r) = n - 1
      /\ \A i \in 1 .. n - 1 : r[i] = t[n - i]
  <2>1. /\ Queue!Reversed(t) \in Seq(Buffers) /\ Len(Queue!Reversed(t)) = n
        /\ \A i \in 1 .. n : Queue!Reversed(t)[i] = t[n + 1 - i]
    BY ReversedProperties
  <2>2. Queue!Reversed(t) # <<>>
    BY <1>4, <2>1
  <2>3. /\ r \in Seq(Buffers) /\ Len(r) = n - 1
        /\ \A i \in 1 .. n - 1 : r[i] = Queue!Reversed(t)[i + 1]
    BY <2>1, <2>2, TailProperties
  <2>4. ASSUME NEW i \in 1 .. n - 1 PROVE r[i] = t[n - i]
    <3>1. i + 1 \in 1 .. n /\ n + 1 - (i + 1) = n - i
      <4> HIDE DEF n
      <4> QED
        BY <1>4
    <3> HIDE DEF r, n
    <3> QED
      BY <2>1, <2>3, <3>1
  <2> QED
    BY <2>3, <2>4
<1>6. \A i, j \in 1 .. n : t[i] = t[j] => i = j
  BY <1>2 DEF IsChain
<1> HIDE DEF n, r
<1>7. /\ mutex' = Null /\ queueAt' = [queueAt EXCEPT ![u] = "out"]
      /\ mine' = [mine EXCEPT ![u] = Null] /\ seen' = [seen EXCEPT ![u] = Null]
      /\ pushList' = pushList /\ pushed' = pushed
      /\ popList' = IF n = 1 THEN Null ELSE t[n - 1]
      /\ popped' = popped \cup ({t[n]} \ {Null})
  BY <1>1, <1>3 DEF Queue!TurnRound, Queue!Returns, Queue!Goes, Queue!Takes, n
<1>8. link' = [x \in Buffers |->
                 IF \E i \in 1 .. n : t[i] = x
                   THEN LET i == CHOOSE k \in 1 .. n : t[k] = x IN IF i = 1 THEN Null ELSE t[i - 1]
                   ELSE link[x]]
  BY <1>3 DEF Queue!TurnRound, n
<1>9. t[n] \in Buffers /\ t[n] # Null /\ Holds(t, t[n]) /\ t[n] \in pushed \ popped
  <2>1. n \in 1 .. n
    BY <1>4
  <2>2. t[n] \in Buffers /\ Holds(t, t[n])
    BY <1>4, <2>1 DEF Holds, n
  <2> QED
    BY <2>2 DEF QueueIs, InOneList, QAssumption
<1>10. popped' = popped \cup {t[n]}
  BY <1>7, <1>9
<1>11. ASSUME NEW i \in 1 .. n PROVE link'[t[i]] = IF i = 1 THEN Null ELSE t[i - 1]
  <2>1. t[i] \in Buffers
    BY <1>4
  <2>2. (CHOOSE k \in 1 .. n : t[k] = t[i]) = i
    BY <1>6
  <2> QED
    BY <1>8, <2>1, <2>2
<1>12. \A x \in Buffers : ~ Holds(t, x) => link'[x] = link[x]
  BY <1>8 DEF Holds, n
<1>13. link' \in [Buffers -> Buffers \cup {Null}]
  <2>1. ASSUME NEW x \in Buffers PROVE link'[x] \in Buffers \cup {Null}
    <3>1. CASE Holds(t, x)
      <4>1. PICK i \in 1 .. n : t[i] = x
        BY <3>1 DEF Holds, n
      <4>2. i = 1 \/ i - 1 \in 1 .. n
        BY <1>4
      <4> QED
        BY <1>4, <1>11, <4>1, <4>2
    <3>2. CASE ~ Holds(t, x)
      BY <1>12, <3>2 DEF QTypes
    <3> QED
      BY <3>1, <3>2
  <2>2. DOMAIN link' = Buffers /\ link' = [x \in Buffers |-> link'[x]]
    <3> HIDE DEF Holds
    <3> QED
      BY <1>8
  <2> QED
    BY <2>1, <2>2
<1>14. popList' \in Buffers \cup {Null}
  <2>1. n # 1 => n - 1 \in 1 .. n
    BY <1>4
  <2> QED
    BY <1>4, <1>7, <2>1
<1>15. QTypes'
  BY <1>7, <1>9, <1>10, <1>13, <1>14 DEF QTypes, Queue!Places
<1>16. MutexHeld'
  BY <1>1, <1>7 DEF QTypes, MutexHeld, QAssumption
<1>17. \A x \in Buffers : Pushing(x)' <=> Pushing(x)
  BY <1>1, <1>7 DEF QTypes, Pushing
<1>18. PushersKnow'
  <2>1. \A v \in AllThreads : queueAt'[v] \in {"push", "push_exchange"} =>
          (queueAt'[v] = queueAt[v] /\ mine'[v] = mine[v] /\ seen'[v] = seen[v])
    BY <1>1, <1>7 DEF QTypes
  <2>2. \A v \in AllThreads : queueAt'[v] \in {"push", "push_exchange"} =>
          (mine[v] \in pushed' \ popped' /\ link'[mine[v]] = link[mine[v]])
    <3> SUFFICES ASSUME NEW v \in AllThreads, queueAt'[v] \in {"push", "push_exchange"}
                 PROVE  mine[v] \in pushed' \ popped' /\ link'[mine[v]] = link[mine[v]]
      OBVIOUS
    <3>1. mine[v] \in pushed \ popped /\ mine[v] \in Buffers /\ Pushing(mine[v])
      BY <2>1 DEF QTypes, PushersKnow, Pushing
    <3>2. ~ Holds(t, mine[v])
      BY <3>1 DEF QueueIs, InOneList
    <3>3. mine[v] # t[n]
      BY <1>9, <3>2
    <3> QED
      BY <1>7, <1>10, <1>12, <3>1, <3>2, <3>3
  <2> QED
    BY <2>1, <2>2 DEF PushersKnow
<1>19. IsChain(r, popList)'
  <2>1. \A i, j \in 1 .. Len(r) : r[i] = r[j] => i = j
    <3> SUFFICES ASSUME NEW i \in 1 .. Len(r), NEW j \in 1 .. Len(r), r[i] = r[j] PROVE i = j
      OBVIOUS
    <3>1. n - i \in 1 .. n /\ n - j \in 1 .. n /\ t[n - i] = t[n - j]
      BY <1>4, <1>5
    <3>2. n - i = n - j
      BY <1>6, <3>1
    <3> QED
      BY <1>4, <1>5, <3>2
  <2>2. popList' = IF Len(r) = 0 THEN Null ELSE r[1]
    BY <1>4, <1>5, <1>7
  <2>3. \A i \in 1 .. Len(r) : link'[r[i]] = IF i = Len(r) THEN Null ELSE r[i + 1]
    <3> SUFFICES ASSUME NEW i \in 1 .. Len(r)
                 PROVE  link'[r[i]] = IF i = Len(r) THEN Null ELSE r[i + 1]
      OBVIOUS
    <3>1. n - i \in 1 .. n /\ r[i] = t[n - i] /\ (i = Len(r) <=> n - i = 1)
      BY <1>4, <1>5
    <3>2. link'[t[n - i]] = IF n - i = 1 THEN Null ELSE t[(n - i) - 1]
      BY <1>11, <3>1
    <3>3. i # Len(r) => (i + 1 \in 1 .. n - 1 /\ n - (i + 1) = (n - i) - 1)
      BY <1>4, <1>5
    <3>4. i # Len(r) => r[i + 1] = t[(n - i) - 1]
      BY <1>5, <3>3
    <3> QED
      BY <3>1, <3>2, <3>4
  <2> QED
    BY <2>1, <2>2, <2>3 DEF IsChain
<1>20. IsChain(<<>>, Turned)'
  BY <1>7 DEF Turned, IsChain
<1>21. IsChain(q, pushList)'
  <2>1. IsChain(q, pushList) /\ q \in [1 .. Len(q) -> Buffers]
    BY LenProperties DEF QueueIs
  <2>2. \A i \in 1 .. Len(q) : link'[q[i]] = link[q[i]]
    <3> SUFFICES ASSUME NEW i \in 1 .. Len(q) PROVE link'[q[i]] = link[q[i]]
      OBVIOUS
    <3>1. q[i] \in Buffers /\ Holds(q, q[i])
      BY <2>1 DEF Holds
    <3>2. ~ Holds(t, q[i])
      BY <3>1 DEF QueueIs, InOneList
    <3> QED
      BY <1>12, <3>1, <3>2
  <2> QED
    BY <1>7, <2>1, <2>2 DEF IsChain
<1>22. \A y : Holds(r, y) => (Holds(t, y) /\ y # t[n])
  <2> TAKE y
  <2> HAVE Holds(r, y)
  <2>1. PICK i \in 1 .. Len(r) : r[i] = y
    BY DEF Holds
  <2>2. n - i \in 1 .. n /\ t[n - i] = y /\ n - i # n /\ n \in 1 .. n
    BY <1>4, <1>5, <2>1
  <2> QED
    BY <1>6, <2>2 DEF Holds, n
<1>23. InOneList(r, <<>>, q)'
  <2>1. \A y \in Buffers : ~ Holds(<<>>, y)
    BY DEF Holds
  <2>2. InOneList(p, t, q)
    BY DEF QueueIs
  <2> HIDE DEF QBase
  <2>3. \A y \in Buffers : Holds(q, y) => y # t[n]
    BY <1>9, <2>2 DEF InOneList
  <2> QED
    BY <1>7, <1>10, <1>17, <1>22, <2>1, <2>2, <2>3 DEF InOneList
<1>24. PoppersKnow(r)'
  <2>1. PoppersKnow(<<>>) /\ \A y : ~ Holds(<<>>, y)
    BY <1>2 DEF QueueIs, Holds
  <2>2. \A v \in AllThreads : queueAt'[v] = "pop_exchange" => (queueAt[v] = "pop_exchange" /\ mine'[v] = mine[v])
    BY <1>1, <1>7 DEF QTypes
  <2> QED
    BY <1>10, <2>1, <2>2 DEF PoppersKnow
<1> QED
  BY <1>2, <1>4, <1>5, <1>10, <1>15, <1>16, <1>18, <1>19, <1>20, <1>21, <1>23, <1>24 DEF QueueIs, r, n

\* The queue the callers see, whatever the lists are.
ContentsFollow == \A p \in Seq(Buffers) : \A t \in Seq(Buffers) : \A q \in Seq(Buffers) :
    QueueIs(p, t, q) => Queue!Contents = p \o Queue!Reversed(t) \o Queue!Reversed(q)

\* Nothing turned round is nothing.
LEMMA ReversedEmpty == Queue!Reversed(<<>>) = <<>>
<1>1. <<>> \in Seq({})
  OBVIOUS
<1>2. Queue!Reversed(<<>>) \in Seq({}) /\ Len(Queue!Reversed(<<>>)) = Len(<<>>)
  BY <1>1, ReversedProperties
<1> QED
  BY <1>2

\* The queue the callers see is the three sequences, one after the other.
LEMMA ContentsLemma == ASSUME QAssumption, QBase PROVE ContentsFollow
<1> SUFFICES ASSUME NEW p \in Seq(Buffers), NEW t \in Seq(Buffers), NEW q \in Seq(Buffers), QueueIs(p, t, q)
             PROVE  Queue!Contents = p \o Queue!Reversed(t) \o Queue!Reversed(q)
  BY DEF ContentsFollow
<1> DEFINE turning == {u \in AllThreads : queueAt[u] = "turn"}
<1>1. Queue!From(popList) = p /\ Queue!From(pushList) = q /\ Queue!From(Turned) = t
  <2>1. FromFollows
    BY FromLemma
  <2> QED
    BY <2>1 DEF FromFollows, QueueIs
<1>2. CASE turning = {}
  <2>1. Turned = Null
    BY <1>2 DEF Turned, QBase, QTypes
  <2>2. t = <<>>
    BY <2>1, ChainHead DEF QueueIs
  <2>3. Queue!Reversed(<<>>) = <<>>
    BY ReversedEmpty
  <2>4. Queue!Contents = Queue!From(popList) \o <<>> \o Queue!Reversed(Queue!From(pushList))
    BY <1>2 DEF Queue!Contents
  <2> HIDE DEF turning
  <2> QED
    BY ONLY <1>1, <2>2, <2>3, <2>4
<1>3. CASE turning # {}
  <2>1. (CHOOSE u \in turning : TRUE) \in turning
    BY <1>3
  <2>2. (CHOOSE u \in turning : TRUE) = mutex /\ mutex \in AllThreads /\ queueAt[mutex] = "turn"
    BY <2>1 DEF QBase, MutexHeld
  <2>3. Turned = mine[CHOOSE u \in turning : TRUE]
    BY <2>2 DEF Turned, QAssumption
  <2>4. Queue!Contents = Queue!From(popList) \o Queue!Reversed(Queue!From(mine[CHOOSE u \in turning : TRUE])) \o Queue!Reversed(Queue!From(pushList))
    BY <1>3 DEF Queue!Contents
  <2> HIDE DEF turning
  <2> QED
    BY ONLY <1>1, <2>3, <2>4
<1> QED
  BY <1>2, <1>3

\* The inductive invariant.
QInv == QBase /\ \E p \in Seq(Buffers) : \E t \in Seq(Buffers) : \E q \in Seq(Buffers) : QueueIs(p, t, q)

\* How the lists change.
Changes(p, t, q, p2, t2, q2) ==
    \/ p2 = p /\ t2 = t /\ q2 = q
    \/ p2 = p /\ t2 = t /\ \E x \in Buffers : q2 = <<x>> \o q
    \/ p2 = p /\ t = <<>> /\ t2 = q /\ q2 = <<>>
    \/ p # <<>> /\ p2 = Tail(p) /\ t2 = t /\ q2 = q /\ popped' = popped \cup {p[1]}
    \/ /\ p = <<>> /\ t # <<>> /\ p2 = Tail(Queue!Reversed(t)) /\ t2 = <<>> /\ q2 = q
       /\ popped' = popped \cup {t[Len(t)]}

\* Every step changes the sequences in one of these ways.
LEMMA QueueStep ==
    ASSUME QAssumption, QBase, Queue!Next,
           NEW p \in Seq(Buffers), NEW t \in Seq(Buffers), NEW q \in Seq(Buffers), QueueIs(p, t, q)
    PROVE  /\ QBase'
           /\ \E p2 \in Seq(Buffers) : \E t2 \in Seq(Buffers) : \E q2 \in Seq(Buffers) :
                QueueIs(p2, t2, q2)' /\ Changes(p, t, q, p2, t2, q2)
<1>1. PICK u \in AllThreads :
        \/ \E n \in Buffers : Queue!PushBegins(u, n)
        \/ Queue!PushLinks(u) \/ Queue!PushExchanges(u)
        \/ Queue!PopBegins(u) \/ Queue!PopReads(u) \/ Queue!PopExchanges(u)
        \/ Queue!Lock(u) \/ Queue!LookAgain(u) \/ Queue!TakePushed(u) \/ Queue!TurnRound(u)
  BY DEF Queue!Next
<1>2. ASSUME QBase', QueueIs(p, t, q)'
      PROVE  \E p2 \in Seq(Buffers) : \E t2 \in Seq(Buffers) : \E q2 \in Seq(Buffers) :
               QueueIs(p2, t2, q2)' /\ Changes(p, t, q, p2, t2, q2)
  <2>1. Changes(p, t, q, p, t, q)
    BY DEF Changes
  <2> QED
    BY <1>2, <2>1
<1>3. CASE \E n \in Buffers : Queue!PushBegins(u, n)
  BY <1>2, <1>3, BeginsKeeps
<1>4. CASE Queue!PushLinks(u)
  BY <1>2, <1>4, LinksKeeps
<1>5. CASE Queue!PushExchanges(u)
  <2>1. CASE pushList # seen[u]
    BY <1>2, <1>5, <2>1, ExchangeFailsKeeps
  <2>2. CASE pushList = seen[u]
    <3>1. PICK x : x = mine[u]
      OBVIOUS
    <3>2. QBase' /\ x \in Buffers /\ QueueIs(p, t, <<x>> \o q)'
      BY <1>5, <2>2, <3>1, PushExchangesPrepends
    <3>3. <<x>> \o q \in Seq(Buffers) /\ Changes(p, t, q, p, t, <<x>> \o q)
      BY <3>2 DEF Changes
    <3> QED
      BY <3>2, <3>3
  <2> QED
    BY <2>1, <2>2
<1>6. CASE Queue!PopBegins(u)
  BY <1>2, <1>6, PopBeginKeeps
<1>7. CASE Queue!PopReads(u)
  BY <1>2, <1>7, PopReadKeeps
<1>8. CASE Queue!PopExchanges(u)
  <2>1. CASE popList # mine[u]
    BY <1>2, <1>8, <2>1, PopFailsKeeps
  <2>2. CASE popList = mine[u]
    <3>1. /\ QBase' /\ p # <<>> /\ Tail(p) \in Seq(Buffers)
          /\ QueueIs(Tail(p), t, q)'
          /\ popped' = popped \cup {p[1]}
      BY <1>8, <2>2, PopExchangesDelivers
    <3>2. Changes(p, t, q, Tail(p), t, q)
      BY <3>1 DEF Changes
    <3> QED
      BY <3>1, <3>2
  <2> QED
    BY <2>1, <2>2
<1>9. CASE Queue!Lock(u)
  BY <1>2, <1>9, LocksKeeps
<1>10. CASE Queue!LookAgain(u)
  BY <1>2, <1>10, LooksKeeps
<1>11. CASE Queue!TakePushed(u)
  <2>1. CASE pushList = Null
    BY <1>2, <1>11, <2>1, NothingPushedKeeps
  <2>2. CASE pushList # Null
    <3>1. QBase' /\ t = <<>> /\ QueueIs(p, q, <<>>)'
      BY <1>11, <2>2, TakePushedTakes
    <3>2. Changes(p, t, q, p, q, <<>>) /\ <<>> \in Seq(Buffers)
      BY <3>1 DEF Changes
    <3> QED
      BY <3>1, <3>2
  <2> QED
    BY <2>1, <2>2
<1>12. CASE Queue!TurnRound(u)
  <2>1. /\ QBase' /\ p = <<>> /\ t # <<>> /\ Tail(Queue!Reversed(t)) \in Seq(Buffers)
        /\ QueueIs(Tail(Queue!Reversed(t)), <<>>, q)'
        /\ popped' = popped \cup {t[Len(t)]}
    BY <1>12, TurnRoundDelivers
  <2>2. Changes(p, t, q, Tail(Queue!Reversed(t)), <<>>, q) /\ <<>> \in Seq(Buffers)
    BY <2>1 DEF Changes
  <2> QED
    BY <2>1, <2>2
<1> QED
  BY <1>1, <1>3, <1>4, <1>5, <1>6, <1>7, <1>8, <1>9, <1>10, <1>11, <1>12

\* The initial state satisfies the invariant.
LEMMA QueueInit == ASSUME QAssumption, Queue!Init PROVE QInv
<1>1. QBase
  BY DEF QAssumption, Queue!Init, QBase, QTypes, MutexHeld, PushersKnow, Queue!Places
<1>2. QueueIs(<<>>, <<>>, <<>>) /\ <<>> \in Seq(Buffers)
  BY DEF Queue!Init, QueueIs, IsChain, InOneList, PoppersKnow, Turned, Holds
<1> QED
  BY <1>1, <1>2 DEF QInv

\* Every step keeps it.
LEMMA QueueInductive == ASSUME QAssumption, QInv, [Queue!Next]_(Queue!vars) PROVE QInv'
<1>1. PICK p \in Seq(Buffers) : \E t \in Seq(Buffers) : \E q \in Seq(Buffers) : QueueIs(p, t, q)
  BY DEF QInv
<1>2. PICK t \in Seq(Buffers) : \E q \in Seq(Buffers) : QueueIs(p, t, q)
  BY <1>1
<1>3. PICK q \in Seq(Buffers) : QueueIs(p, t, q)
  BY <1>2
<1>4. CASE Queue!Next
  <2>1. QBase' /\ \E p2 \in Seq(Buffers) : \E t2 \in Seq(Buffers) : \E q2 \in Seq(Buffers) : QueueIs(p2, t2, q2)'
    BY <1>3, <1>4, QueueStep DEF QInv
  <2> QED
    BY <2>1 DEF QInv
<1>5. CASE UNCHANGED Queue!vars
  <2>1. QBase'
    BY <1>5 DEF QInv, Queue!vars, QBase, QTypes, MutexHeld, PushersKnow
  <2>2. QueueIs(p, t, q)'
    BY <1>3, <1>5 DEF Queue!vars, QueueIs, IsChain, InOneList, PoppersKnow, Turned, Pushing
  <2> QED
    BY <2>1, <2>2 DEF QInv
<1> QED
  BY <1>4, <1>5

\* The links make three sequences without a value in common, for any number of
\* users and values.
THEOREM QueueInvariant == Queue!Spec => []QInv
<1>1. Queue!Init => QInv
  BY AssumptionsHold, QueueInit
<1>2. QInv /\ [Queue!Next]_(Queue!vars) => QInv'
  BY AssumptionsHold, QueueInductive
<1> QED
  BY <1>1, <1>2, PTL DEF Queue!Spec

\* What is put before a sequence comes after the sequence turned round.
LEMMA ReversedCons ==
    ASSUME NEW S, NEW s \in Seq(S), NEW x \in S
    PROVE  Queue!Reversed(<<x>> \o s) = Append(Queue!Reversed(s), x)
<1> DEFINE l == Queue!Reversed(<<x>> \o s)
           r == Append(Queue!Reversed(s), x)
<1>1. /\ <<x>> \o s \in Seq(S) /\ Len(s) \in Nat
      /\ Len(<<x>> \o s) = Len(s) + 1 /\ (<<x>> \o s)[1] = x
      /\ \A i \in 1 .. Len(s) : (<<x>> \o s)[i + 1] = s[i]
  BY ConsProperties
<1>2. /\ Queue!Reversed(s) \in Seq(S) /\ Len(Queue!Reversed(s)) = Len(s)
      /\ \A i \in 1 .. Len(s) : Queue!Reversed(s)[i] = s[Len(s) + 1 - i]
  BY ReversedProperties
<1>3. /\ l \in Seq(S) /\ Len(l) = Len(s) + 1
      /\ \A i \in 1 .. Len(s) + 1 : l[i] = (<<x>> \o s)[(Len(s) + 1) + 1 - i]
  <2> DEFINE v == <<x>> \o s
  <2> HIDE DEF v
  <2>1. v \in Seq(S) /\ Len(v) = Len(s) + 1
    BY <1>1 DEF v
  <2>2. /\ Queue!Reversed(v) \in Seq(S) /\ Len(Queue!Reversed(v)) = Len(s) + 1
        /\ \A i \in 1 .. Len(s) + 1 : Queue!Reversed(v)[i] = v[(Len(s) + 1) + 1 - i]
    BY <2>1, ReversedProperties
  <2> QED
    BY <2>2 DEF v
<1>4. r \in Seq(S) /\ Len(r) = Len(s) + 1 /\ r[Len(s) + 1] = x
      /\ \A i \in 1 .. Len(s) : r[i] = Queue!Reversed(s)[i]
  BY <1>1, <1>2
<1> HIDE DEF l, r
<1>5. ASSUME NEW i \in 1 .. Len(s) + 1 PROVE l[i] = r[i]
  <2>1. CASE i = Len(s) + 1
    <3>1. (Len(s) + 1) + 1 - i = 1
      BY <1>1, <2>1
    <3> QED
      BY <1>1, <1>3, <1>4, <2>1, <3>1
  <2>2. CASE i # Len(s) + 1
    <3>1. i \in 1 .. Len(s) /\ Len(s) + 1 - i \in 1 .. Len(s) /\ (Len(s) + 1) + 1 - i = (Len(s) + 1 - i) + 1
      BY <1>1, <2>2
    <3>2. l[i] = s[Len(s) + 1 - i]
      BY <1>1, <1>3, <3>1
    <3> QED
      BY <1>2, <1>4, <3>1, <3>2
  <2> QED
    BY <2>1, <2>2
<1>6. l = r
  BY <1>3, <1>4, <1>5, SeqEqual
<1> QED
  BY <1>6 DEF l, r

\* The first value and the tail of two sequences.
LEMMA ConcatTail ==
    ASSUME NEW S, NEW a \in Seq(S), NEW b \in Seq(S), a # <<>>
    PROVE  a \o b # <<>> /\ Tail(a \o b) = Tail(a) \o b /\ Head(a \o b) = a[1]
  OBVIOUS

\* The words of the queue keep their types; what was delivered was pushed.
THEOREM QueueTypeCorrect == Queue!Spec => []Queue!TypeOK
<1>1. QInv => Queue!TypeOK
  BY DEF QInv, QBase, QTypes, Queue!TypeOK
<1> QED
  BY <1>1, QueueInvariant, PTL

\* FirstInFirstOut (intrusive_queue_inline.h): every step leaves the queue as it is,
\* appends one value or delivers the first, for any number of users and values,
\* although a stack is taken and turned round in between.
THEOREM QueueIsFirstInFirstOut == Queue!Spec => Queue!FirstInFirstOut
<1>1. QBase => ContentsFollow
  BY AssumptionsHold, ContentsLemma
<1>2. QBase' => ContentsFollow'
  BY <1>1, PTL
<1>3. ASSUME QInv, Queue!Next
      PROVE  \/ Queue!Contents' = Queue!Contents
             \/ \E n \in Buffers : Queue!Contents' = Append(Queue!Contents, n)
             \/ Queue!Contents # <<>> /\ Queue!Contents' = Tail(Queue!Contents) /\ popped' = popped \cup {Head(Queue!Contents)}
  <2>1. PICK p \in Seq(Buffers) : \E t \in Seq(Buffers) : \E q \in Seq(Buffers) : QueueIs(p, t, q)
    BY <1>3 DEF QInv
  <2>2. PICK t \in Seq(Buffers) : \E q \in Seq(Buffers) : QueueIs(p, t, q)
    BY <2>1
  <2>3. PICK q \in Seq(Buffers) : QueueIs(p, t, q)
    BY <2>2
  <2>4. QBase /\ QBase'
    BY <1>3, <2>3, QueueStep, AssumptionsHold DEF QInv
  <2>5. PICK p2 \in Seq(Buffers) : \E t2 \in Seq(Buffers) : \E q2 \in Seq(Buffers) :
          QueueIs(p2, t2, q2)' /\ Changes(p, t, q, p2, t2, q2)
    BY <1>3, <2>3, QueueStep, AssumptionsHold DEF QInv
  <2>6. PICK t2 \in Seq(Buffers) : \E q2 \in Seq(Buffers) : QueueIs(p2, t2, q2)' /\ Changes(p, t, q, p2, t2, q2)
    BY <2>5
  <2>7. PICK q2 \in Seq(Buffers) : QueueIs(p2, t2, q2)' /\ Changes(p, t, q, p2, t2, q2)
    BY <2>6
  <2>8. Queue!Contents = p \o Queue!Reversed(t) \o Queue!Reversed(q)
    BY <1>1, <2>3, <2>4 DEF ContentsFollow
  <2>9. Queue!Contents' = p2 \o Queue!Reversed(t2) \o Queue!Reversed(q2)
    BY <1>2, <2>4, <2>7 DEF ContentsFollow
  <2>10. PICK old : old = Queue!Contents
    OBVIOUS
  <2>11. PICK new : new = Queue!Contents'
    OBVIOUS
  <2>12. old = p \o Queue!Reversed(t) \o Queue!Reversed(q) /\ new = p2 \o Queue!Reversed(t2) \o Queue!Reversed(q2)
    BY <2>8, <2>9, <2>10, <2>11
  <2>13. \/ new = old
         \/ \E n \in Buffers : new = Append(old, n)
         \/ old # <<>> /\ new = Tail(old) /\ popped' = popped \cup {Head(old)}
    <3>0. Queue!Reversed(t) \in Seq(Buffers) /\ Queue!Reversed(q) \in Seq(Buffers) /\ Queue!Reversed(<<>>) = <<>>
      BY ReversedProperties, ReversedEmpty
    <3>1. CASE p2 = p /\ t2 = t /\ q2 = q
      BY <3>1, <2>12
    <3>2. CASE p2 = p /\ t2 = t /\ \E x \in Buffers : q2 = <<x>> \o q
      <4>1. PICK x \in Buffers : q2 = <<x>> \o q
        BY <3>2
      <4>2. Queue!Reversed(q2) = Append(Queue!Reversed(q), x)
        BY <4>1, ReversedCons
      <4>3. new = (p \o Queue!Reversed(t)) \o Append(Queue!Reversed(q), x)
        BY <3>2, <4>2, <2>12
      <4>4. \A a, b \in Seq(Buffers) : a \o Append(b, x) = Append(a \o b, x)
        OBVIOUS
      <4>5. p \o Queue!Reversed(t) \in Seq(Buffers)
        BY <3>0
      <4> QED
        BY <3>0, <4>3, <4>4, <4>5, <2>12
    <3>3. CASE p2 = p /\ t = <<>> /\ t2 = q /\ q2 = <<>>
      <4>1. p \o <<>> = p /\ p \o Queue!Reversed(q) \o <<>> = p \o Queue!Reversed(q)
        BY <3>0
      <4>2. old = p \o Queue!Reversed(q) /\ new = p \o Queue!Reversed(q)
        BY ONLY <3>0, <3>3, <4>1, <2>12
      <4> QED
        BY <4>2
    <3>4. CASE p # <<>> /\ p2 = Tail(p) /\ t2 = t /\ q2 = q /\ popped' = popped \cup {p[1]}
      <4>1. p \o Queue!Reversed(t) \in Seq(Buffers) /\ p \o Queue!Reversed(t) # <<>>
            /\ Tail(p \o Queue!Reversed(t)) = Tail(p) \o Queue!Reversed(t) /\ Head(p \o Queue!Reversed(t)) = p[1]
        BY <3>0, <3>4, ConcatTail
      <4>2. old # <<>> /\ Tail(old) = Tail(p \o Queue!Reversed(t)) \o Queue!Reversed(q) /\ Head(old) = (p \o Queue!Reversed(t))[1]
        BY <3>0, <4>1, <2>12, ConcatTail
      <4>3. (p \o Queue!Reversed(t))[1] = Head(p \o Queue!Reversed(t))
        BY <4>1
      <4> QED
        BY <3>4, <4>1, <4>2, <4>3, <2>12
    <3>5. CASE /\ p = <<>> /\ t # <<>> /\ p2 = Tail(Queue!Reversed(t)) /\ t2 = <<>> /\ q2 = q
               /\ popped' = popped \cup {t[Len(t)]}
      <4>1. /\ Len(t) \in Nat /\ Len(Queue!Reversed(t)) = Len(t)
            /\ \A i \in 1 .. Len(t) : Queue!Reversed(t)[i] = t[Len(t) + 1 - i]
        BY ReversedProperties
      <4>2. Len(t) # 0
        BY <3>5
      <4>3. Queue!Reversed(t) # <<>> /\ 1 \in 1 .. Len(t) /\ Len(t) + 1 - 1 = Len(t)
        BY <3>0, <4>1, <4>2
      <4>4. Queue!Reversed(t)[1] = t[Len(t)]
        BY <4>1, <4>3
      <4>5. <<>> \o Queue!Reversed(t) = Queue!Reversed(t) /\ Tail(Queue!Reversed(t)) \o <<>> = Tail(Queue!Reversed(t))
        BY <3>0, <4>3
      <4>6. old = Queue!Reversed(t) \o Queue!Reversed(q) /\ new = Tail(Queue!Reversed(t)) \o Queue!Reversed(q)
        BY <3>0, <3>5, <4>5, <2>12
      <4>7. old # <<>> /\ Tail(old) = Tail(Queue!Reversed(t)) \o Queue!Reversed(q) /\ Head(old) = Queue!Reversed(t)[1]
        BY <3>0, <4>3, <4>6, ConcatTail
      <4> QED
        BY <3>5, <4>4, <4>6, <4>7
    <3> QED
      BY <2>7, <3>1, <3>2, <3>3, <3>4, <3>5 DEF Changes
  <2> QED
    BY <2>10, <2>11, <2>13
<1>4. QInv /\ [Queue!Next]_(Queue!vars) =>
        [\/ UNCHANGED Queue!vars \/ Queue!Contents' = Queue!Contents
         \/ \E n \in Buffers : Queue!Contents' = Append(Queue!Contents, n)
         \/ Queue!Contents # <<>> /\ Queue!Contents' = Tail(Queue!Contents) /\ popped' = popped \cup {Head(Queue!Contents)}]_(Queue!vars)
  BY <1>3
<1> QED
  BY <1>4, QueueInvariant, PTL DEF Queue!FirstInFirstOut, Queue!Spec

-----------------------------------------------------------------------------
(* The composition.                                                        *)

\* A behaviour of MCTasks is one of each component.
LEMMA TasksAreEach ==
    TasksSpec => Spec /\ FreeList!Spec /\ Queue!Spec
<1>1. TasksInit => Init /\ FreeList!Init /\ Queue!Init
  BY DEF TasksInit
<1>2. [TasksNext]_<<subject, vars, freeVars, queueVars>> =>
        [Next]_vars /\ [FreeList!Next]_(FreeList!vars) /\ [Queue!Next]_(Queue!vars)
  BY DEF TasksNext, freeVars, queueVars, FreeList!vars, Queue!vars
<1> QED
  BY <1>1, <1>2, PTL DEF TasksSpec, Spec, FreeList!Spec, Queue!Spec

\* EachNodeInOnePlace, as the run checks it.
THEOREM NodesAreInOnePlace == TasksSpec => []EachNodeInOnePlace
BY TasksAreEach, AllocatorKeepsNodesApart, PTL DEF EachNodeInOnePlace

\* FirstInFirstOut, as the run checks it.
THEOREM PendingTasksInOrder == TasksSpec => FirstInFirstOut
BY TasksAreEach, QueueIsFirstInFirstOut, PTL DEF FirstInFirstOut

\* The variables of the three components keep their types.
THEOREM TasksTypesCorrect == TasksSpec => []TasksTypesOK
BY TasksAreEach, TaskTreeTypeCorrect, AllocatorTypeCorrect, QueueTypeCorrect, PTL DEF TasksTypesOK
=============================================================================
