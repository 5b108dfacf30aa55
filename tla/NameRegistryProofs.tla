------------------------- MODULE NameRegistryProofs -------------------------
(***************************************************************************)
(* Proofs about NameRegistry, for any number of queries of the name.       *)
(*                                                                         *)
(* RegistryNamesWhatLives is not inductive: that a host has not ended      *)
(* depends on whom the resources thread still meets on its walk through    *)
(* the ring, and that a named resource is not deleted on who still counts  *)
(* a reference to it.  RInv says both.                                     *)
(***************************************************************************)
EXTENDS NameRegistry, FiniteSetTheorems, TLAPS
-----------------------------------------------------------------------------
(* The inductive invariant.                                                *)

Unasked    == {"new", "translate"}
Under      == {"translating", "waiting"}
Destroying == {"destroy", "entry", "unregister", "delete"}
Over       == {"ended", "done"} \cup Destroying

Walking == ~Walks("idle")
Passed  == walk.stage \in {"first", "referers", "clear"}

\* A query that nobody has asked yet is as it began, one has ended once its user
\* goes on, and only one that waits is a referer.
QueryFits(q) ==
    /\ at[q] \in Unasked => guard[q] = 1 /\ next[q] = q /\ resource[q] = None /\ ~failed[q]
    /\ ended[q] = IF at[q] \in Over THEN 1 ELSE 0
    /\ at[q] = "translating" => host = q
    /\ isReferer[q] => at[q] = "waiting"
    /\ isReferer[q] => resource[q] = None \/ (Walks("clear") /\ walk.cur = q)

\* The host is the query that is cooked; the guard counts the cook and
\* translate_query_if_needed, and the last of them hands the query over.
HostFits ==
    /\ cooking \subseteq {host} \ {None} /\ created \subseteq {host} \ {None}
    /\ host # None =>
          /\ shared = None
          /\ at[host] \in Under /\ ~isReferer[host]
          /\ guard[host] = IF at[host] = "translating"
                           THEN IF host \in cooking THEN 2 ELSE 1
                           ELSE IF host \in cooking THEN 1 ELSE 0
          /\ host \in created => guard[host] = 0
          /\ host \in cooking => resource[host] = None /\ ~failed[host]
          /\ host \notin cooking => resource[host] = IF failed[host] THEN None ELSE host

\* The resources thread is at work on a query that was handed over, and names its
\* resource before it walks the ring.
WalkFits ==
    Walking =>
        /\ walk.host \in Queries /\ at[walk.host] = "waiting" /\ ~isReferer[walk.host]
        /\ walk.host \notin cooking \cup created /\ guard[walk.host] = 0
        /\ Walks("register") \/ failed[walk.host] => host = walk.host
        /\ Walks("register") => ~failed[walk.host]
        /\ resource[walk.host] = IF failed[walk.host] THEN None ELSE walk.host
        /\ Passed /\ ~failed[walk.host] => shared = walk.host

\* Who has a resource: the resource's own query has it too or is over, its count
\* is the number of those that have not released it, and it is destroyed when
\* there are none.
Holders(r) == {q \in Queries : resource[q] = r /\ at[q] \in Under \cup {"ended"}}

ResourceFits(r) ==
    /\ count[r] = Cardinality(Holders(r))
    /\ (\E q \in Queries : resource[q] = r) => resource[r] = r /\ at[r] \in Under \cup Over
    /\ hasEntry[r] <=> shared = r
    /\ shared = r => resource[r] = r
    /\ deleted[r] # 0 => at[r] \in Over /\ ~hasEntry[r]

DestroyerFits(q) ==
    /\ at[q] \in Destroying => resource[q] \in Queries /\ at[resource[q]] \in Over
    /\ at[q] = "delete" => ~hasEntry[resource[q]]

\* A path of waiting referers through the ring.
IsPath(p, n, from, to) ==
    /\ p \in [0..n -> Queries] /\ p[0] = from /\ p[n] = to
    /\ \A i \in 0..n : i # n => next[p[i]] = p[i + 1] /\ isReferer[p[i]]
    /\ \A i, j \in 0..n : p[i] = p[j] => i = j

Leads(from, to) == \E n \in Nat : \E p \in [0..n -> Queries] : IsPath(p, n, from, to)

\* From where the walk is, or from the host if it has not begun, one path leads
\* to the host; whoever joins meanwhile joins behind it.
RingFits ==
    /\ host # None /\ ~(Walking /\ walk.stage \in {"referers", "clear"}) => Leads(next[host], host)
    /\ Walks("first") => Leads(next[walk.host], walk.host)
    /\ Walks("referers") \/ Walks("clear") => Leads(walk.cur, walk.host)
    /\ Walks("clear") =>
          /\ isReferer[walk.cur] /\ walk.next = next[walk.cur]
          /\ walk.prev # walk.cur /\ walk.prev \in Queries
          /\ next[walk.prev] = walk.cur \/ walk.prev = walk.host

WalkType ==
    walk \in [stage : {"idle", "register", "first", "referers", "clear"},
              host : Queries \cup {None}, cur : Queries \cup {None},
              next : Queries \cup {None}, prev : Queries \cup {None}]

RInv ==
    /\ TypeOK /\ WalkType /\ HostFits /\ WalkFits /\ RingFits
    /\ \A q \in Queries : QueryFits(q) /\ ResourceFits(q) /\ DestroyerFits(q)

-----------------------------------------------------------------------------
(* The steps.                                                              *)

\* A query that becomes the host, and one that only looks at the registry.
Looks(q) ==
    /\ at[q] = "new" /\ Unnamed /\ Goto(q, "translate")
    /\ UNCHANGED <<registry, cook, outcome, ring, lifetime, walk, late>>

BecomesHost(q) ==
    /\ at[q] = "translate" /\ Unnamed /\ Goto(q, "translating")
    /\ host' = q
    /\ guard' = [guard EXCEPT ![q] = @ + 1]
    /\ cooking' = cooking \cup {q}
    /\ UNCHANGED <<shared, created, outcome, ring, lifetime, walk, late>>

\* A step is one of these.
LEMMA Steps ==
    ASSUME Next
    PROVE  \/ \E q, x \in Queries : at[q] \in Unasked /\ (AddReferrer(x, q) \/ Reuse(x, q))
           \/ \E q \in Queries : \/ Looks(q) \/ BecomesHost(q) \/ Translated(q) \/ FinishQuery(q)
                                 \/ Release(q) \/ StillUnused(q) \/ ReadEntry(q) \/ Unregister(q)
                                 \/ Delete(q)
           \/ Take \/ Register \/ FirstReferer \/ CopyResult \/ ClearReference \/ EndHost
<1>1. ASSUME NEW q \in Queries, Try(q)
      PROVE  \/ \E x \in Queries : at[q] \in Unasked /\ (AddReferrer(x, q) \/ Reuse(x, q))
             \/ Looks(q)
    BY <1>1 DEF Try, Meets, Looks, Unasked
<1>2. ASSUME NEW q \in Queries, Translate(q)
      PROVE  \/ \E x \in Queries : at[q] \in Unasked /\ (AddReferrer(x, q) \/ Reuse(x, q))
             \/ BecomesHost(q)
    BY <1>2 DEF Translate, Meets, BecomesHost, Unasked
<1> QED
    BY <1>1, <1>2 DEF Next, ResourcesThread, Destroy
-----------------------------------------------------------------------------
(* The ring.                                                               *)

\* A path leads by referers to its end.
LEMMA LeadsByReferers ==
    ASSUME NEW from, NEW to, Leads(from, to)
    PROVE  from \in Queries /\ to \in Queries /\ (from # to => isReferer[from])
<1>0. PICK n \in Nat : \E p \in [0..n -> Queries] : IsPath(p, n, from, to)
    BY DEF Leads
<1>1. PICK p \in [0..n -> Queries] : IsPath(p, n, from, to)
    BY <1>0
<1>2. 0 \in 0..n /\ n \in 0..n
    BY <1>1
<1>3. p[0] = from /\ p[n] = to /\ (0 # n => isReferer[p[0]])
    BY <1>1, <1>2 DEF IsPath
<1> QED
    BY <1>1, <1>2, <1>3
-----------------------------------------------------------------------------
(* The queries.                                                            *)

\* A query ends in one step and is a referer from when it joins until it ends.
LEMMA QueriesKept ==
    ASSUME RInv, Next, NEW o \in Queries
    PROVE  QueryFits(o)'
<1>0. /\ TypeOK /\ WalkType /\ HostFits /\ WalkFits /\ RingFits /\ QueryFits(o)
      /\ \A q \in Queries : QueryFits(q)
    BY DEF RInv
<1> USE <1>0, QueriesAssumption DEF QueryFits, Unasked, Under, Over, Destroying, Goto, Walks, TypeOK,
        registry, cook, outcome, ring, lifetime
<1>1. ASSUME NEW q \in Queries, NEW x \in Queries, at[q] \in Unasked, AddReferrer(x, q)
      PROVE  QueryFits(o)'
    <2>1. x # q /\ at[x] \in Under
        BY <1>1 DEF AddReferrer, HostFits
    <2>2. CASE o = q
        BY <1>1, <2>1, <2>2 DEF AddReferrer
    <2>3. CASE o # q
        BY <1>1, <2>1, <2>3 DEF AddReferrer
    <2> QED
        BY <2>2, <2>3
<1>2. ASSUME NEW q \in Queries, NEW x \in Queries, at[q] \in Unasked, Reuse(x, q)
      PROVE  QueryFits(o)'
    BY <1>2 DEF Reuse
<1>3. ASSUME NEW q \in Queries, Looks(q) \/ BecomesHost(q) \/ Translated(q) PROVE QueryFits(o)'
    <2>1. CASE Looks(q)
        BY <2>1 DEF Looks
    <2>2. CASE BecomesHost(q)
        BY <2>2 DEF BecomesHost, Unnamed
    <2>3. CASE Translated(q)
        BY <2>3 DEF Translated, HandOver
    <2> QED
        BY <1>3, <2>1, <2>2, <2>3
<1>4. ASSUME NEW q \in Queries, FinishQuery(q) PROVE QueryFits(o)'
    <2>1. q = host /\ q # None /\ ~isReferer[q] /\ at[q] \in Under
        BY <1>4 DEF FinishQuery, HostFits
    <2> QED
        BY <1>4, <2>1 DEF FinishQuery, HandOver
<1>5. ASSUME NEW q \in Queries, Release(q) \/ StillUnused(q) \/ ReadEntry(q) \/ Unregister(q) \/ Delete(q)
      PROVE  QueryFits(o)'
    <2>1. /\ at[q] \in Over /\ at'[q] \in Over \ {"ended"} /\ at' = [at EXCEPT ![q] = at'[q]]
          /\ UNCHANGED <<host, guard, next, resource, failed, ended, isReferer, walk>>
        BY <1>5 DEF Release, StillUnused, ReadEntry, Unregister, Delete
    <2> QED
        BY <2>1
<1>6. CASE Take \/ FirstReferer
    <2>1. /\ ~Walks("clear")
          /\ UNCHANGED <<host, at, guard, next, resource, failed, ended, isReferer>>
        BY <1>6 DEF Take, FirstReferer
    <2> QED
        BY <2>1
<1>7. CASE Register
    BY <1>7 DEF Register, WalkFits, Walking
<1>8. CASE CopyResult
    <2>1. walk.cur \in Queries /\ isReferer[walk.cur]
        BY <1>8, LeadsByReferers DEF CopyResult, RingFits, WalkFits, Walking
    <2>2. walk'.stage = "clear" /\ walk'.cur = walk.cur
        BY <1>8 DEF CopyResult, WalkType
    <2>3. /\ ~Walks("clear")
          /\ resource' = [resource EXCEPT ![walk.cur] = resource[walk.host]]
          /\ failed' = [failed EXCEPT ![walk.cur] = failed[walk.host]]
          /\ UNCHANGED <<host, at, guard, next, ended, isReferer>>
        BY <1>8 DEF CopyResult
    <2> QED
        BY <2>1, <2>2, <2>3
<1>9. CASE ClearReference
    <2>1. /\ walk.cur \in Queries /\ at[walk.cur] = "waiting"
          /\ walk.prev \in Queries /\ at[walk.prev] \notin Unasked
        BY <1>9, LeadsByReferers DEF ClearReference, RingFits, WalkFits, Walking
    <2>2. /\ at' = [at EXCEPT ![walk.cur] = "ended"]
          /\ ended' = [ended EXCEPT ![walk.cur] = @ + 1]
          /\ isReferer' = [isReferer EXCEPT ![walk.cur] = FALSE]
          /\ next' = [next EXCEPT ![walk.prev] = next[walk.cur], ![walk.cur] = walk.cur]
          /\ UNCHANGED <<host, guard, resource, failed>>
        BY <1>9 DEF ClearReference
    <2>3. o # walk.cur => at'[o] = at[o] /\ isReferer'[o] = isReferer[o] /\ ended'[o] = ended[o]
        BY <2>1, <2>2
    <2>4. o # walk.cur /\ at[o] \in Unasked => next'[o] = next[o]
        BY <2>1, <2>2
    <2>5. isReferer[o] /\ o # walk.cur => resource[o] = None
        OBVIOUS
    <2>6. CASE o = walk.cur
        BY <2>1, <2>2, <2>6
    <2>7. CASE o # walk.cur
        BY <2>2, <2>3, <2>4, <2>5, <2>7
    <2> QED
        BY <2>6, <2>7
<1>10. CASE EndHost
    BY <1>10 DEF EndHost, WalkFits, Walking
<1> QED
    BY <1>1, <1>2, <1>3, <1>4, <1>5, <1>6, <1>7, <1>8, <1>9, <1>10, Steps
-----------------------------------------------------------------------------
(* The host and the resources thread.                                      *)

\* Only the query that becomes the host is cooked; the cook's end and
\* translate_query_if_needed's both count, and the second hands it over.
LEMMA HostKept ==
    ASSUME RInv, Next
    PROVE  HostFits'
<1>0. /\ TypeOK /\ WalkType /\ HostFits /\ WalkFits /\ RingFits
      /\ \A q \in Queries : QueryFits(q) /\ ResourceFits(q)
    BY DEF RInv
<1> USE <1>0, QueriesAssumption DEF HostFits, Unasked, Under, Over, Destroying, Goto, Walks, TypeOK,
        registry, cook, outcome, ring, lifetime
<1>1. ASSUME NEW q \in Queries, NEW x \in Queries, at[q] \in Unasked, AddReferrer(x, q)
      PROVE  HostFits'
    BY <1>1 DEF AddReferrer
<1>2. ASSUME NEW q \in Queries, NEW x \in Queries, at[q] \in Unasked, Reuse(x, q)
      PROVE  HostFits'
    BY <1>2 DEF Reuse
<1>3. ASSUME NEW q \in Queries, Looks(q) PROVE HostFits'
    BY <1>3 DEF Looks
<1>4. ASSUME NEW q \in Queries, BecomesHost(q) PROVE HostFits'
    <2>1. ~isReferer[q] /\ guard[q] = 1 /\ resource[q] = None /\ ~failed[q]
        BY <1>4 DEF BecomesHost, QueryFits
    <2> QED
        BY <1>4, <2>1 DEF BecomesHost, Unnamed
<1>5. ASSUME NEW q \in Queries, Translated(q) PROVE HostFits'
    <2>1. q = host
        BY <1>5 DEF Translated, QueryFits
    <2> QED
        BY <1>5, <2>1 DEF Translated, HandOver
<1>6. ASSUME NEW q \in Queries, FinishQuery(q) PROVE HostFits'
    <2>1. q = host
        BY <1>6 DEF FinishQuery
    <2> QED
        BY <1>6, <2>1 DEF FinishQuery, HandOver
<1>7. ASSUME NEW q \in Queries, Release(q) \/ StillUnused(q) \/ ReadEntry(q) \/ Unregister(q) \/ Delete(q)
      PROVE  HostFits'
    <2>1. /\ at[q] \in Over /\ at' = [at EXCEPT ![q] = at'[q]]
          /\ UNCHANGED <<host, cooking, guard, created, failed, resource, isReferer>>
          /\ shared' = shared \/ shared' = None
        BY <1>7 DEF Release, StillUnused, ReadEntry, Unregister, Delete
    <2> QED
        BY <2>1
<1>8. CASE Take \/ FirstReferer
    BY <1>8 DEF Take, FirstReferer
<1>9. CASE Register
    BY <1>9 DEF Register, WalkFits, Walking
<1>10. CASE CopyResult
    <2>1. walk.cur # host
        BY <1>10, LeadsByReferers DEF CopyResult, RingFits, WalkFits, Walking
    <2> QED
        BY <1>10, <2>1 DEF CopyResult
<1>11. CASE ClearReference
    <2>1. walk.cur # host
        BY <1>11, LeadsByReferers DEF ClearReference, RingFits
    <2> QED
        BY <1>11, <2>1 DEF ClearReference
<1>12. CASE EndHost
    BY <1>12 DEF EndHost, WalkFits, Walking, Passed
<1> QED
    BY <1>1, <1>2, <1>3, <1>4, <1>5, <1>6, <1>7, <1>8, <1>9, <1>10, <1>11, <1>12, Steps

\* What the resources thread walks waits until it is told that it ended.
LEMMA WalkKept ==
    ASSUME RInv, Next
    PROVE  WalkFits'
<1>0. /\ TypeOK /\ WalkType /\ HostFits /\ WalkFits /\ RingFits
      /\ \A q \in Queries : QueryFits(q) /\ ResourceFits(q) /\ DestroyerFits(q)
    BY DEF RInv
<1> USE <1>0, QueriesAssumption DEF HostFits, WalkFits, Walking, Passed, Unasked, Under, Over, Destroying,
        Goto, Walks, TypeOK, registry, cook, outcome, ring, lifetime
<1>1. ASSUME NEW q \in Queries, NEW x \in Queries, at[q] \in Unasked, AddReferrer(x, q)
      PROVE  WalkFits'
    BY <1>1 DEF AddReferrer
<1>2. ASSUME NEW q \in Queries, NEW x \in Queries, at[q] \in Unasked, Reuse(x, q)
      PROVE  WalkFits'
    BY <1>2 DEF Reuse
<1>3. ASSUME NEW q \in Queries, Looks(q) PROVE WalkFits'
    BY <1>3 DEF Looks
<1>4. ASSUME NEW q \in Queries, BecomesHost(q) PROVE WalkFits'
    BY <1>4 DEF BecomesHost, Unnamed
<1>5. ASSUME NEW q \in Queries, Translated(q) PROVE WalkFits'
    BY <1>5 DEF Translated, HandOver, QueryFits
<1>6. ASSUME NEW q \in Queries, FinishQuery(q) PROVE WalkFits'
    <2>1. q = host /\ (Walking => q # walk.host)
        BY <1>6 DEF FinishQuery
    <2> QED
        BY <1>6, <2>1 DEF FinishQuery, HandOver
<1>7. ASSUME NEW q \in Queries, Release(q) \/ StillUnused(q) \/ ReadEntry(q) \/ Delete(q)
      PROVE  WalkFits'
    <2>1. /\ at[q] \in Over /\ at' = [at EXCEPT ![q] = at'[q]]
          /\ UNCHANGED <<host, shared, cooking, guard, created, failed, resource, isReferer, walk>>
        BY <1>7 DEF Release, StillUnused, ReadEntry, Delete
    <2> QED
        BY <2>1
<1>8. ASSUME NEW q \in Queries, Unregister(q) PROVE WalkFits'
    <2>1. resource[q] \in Queries /\ at[resource[q]] \in Over /\ at[q] \in Over
        BY <1>8 DEF Unregister, DestroyerFits
    <2> QED
        BY <1>8, <2>1 DEF Unregister
<1>9. CASE Take
    <2>1. PICK q \in created : walk' = [walk EXCEPT !.stage = IF failed[q] THEN "first" ELSE "register", !.host = q]
                               /\ created' = created \ {q}
        BY <1>9 DEF Take
    <2>2. walk'.host = q /\ walk'.stage = IF failed[q] THEN "first" ELSE "register"
        BY <2>1 DEF WalkType
    <2>3. q = host /\ guard[q] = 0 /\ q \notin cooking /\ at[q] = "waiting"
        BY <2>1
    <2> QED
        BY <1>9, <2>1, <2>2, <2>3 DEF Take
<1>10. CASE Register
    <2>1. walk'.host = walk.host /\ walk'.stage = "first"
        BY <1>10 DEF Register, WalkType
    <2> QED
        BY <1>10, <2>1 DEF Register
<1>11. CASE FirstReferer
    <2>1. walk'.host = walk.host /\ walk'.stage = "referers"
        BY <1>11 DEF FirstReferer, WalkType
    <2> QED
        BY <1>11, <2>1 DEF FirstReferer
<1>12. CASE CopyResult
    <2>1. walk'.host = walk.host /\ walk'.stage = "clear"
        BY <1>12 DEF CopyResult, WalkType
    <2> QED
        BY <1>12, <2>1 DEF CopyResult
<1>13. CASE ClearReference
    <2>1. walk'.host = walk.host /\ walk'.stage = "referers"
        BY <1>13 DEF ClearReference, WalkType
    <2>2. walk.cur # walk.host
        BY <1>13 DEF ClearReference, RingFits
    <2> QED
        BY <1>13, <2>1, <2>2 DEF ClearReference
<1>14. CASE EndHost
    BY <1>14 DEF EndHost, Idle
<1> QED
    BY <1>1, <1>2, <1>3, <1>4, <1>5, <1>6, <1>7, <1>8, <1>9, <1>10, <1>11, <1>12, <1>13, <1>14, Steps

\* A path that no step cuts stays one.
LEMMA LeadsKept ==
    ASSUME NEW from, NEW to, Leads(from, to), ~isReferer[to],
           \A q \in Queries : isReferer[q] /\ q # to => next'[q] = next[q] /\ isReferer'[q]
    PROVE  Leads(from, to)'
<1>0. PICK n \in Nat : \E p \in [0..n -> Queries] : IsPath(p, n, from, to)
    BY DEF Leads
<1>1. PICK p \in [0..n -> Queries] : IsPath(p, n, from, to)
    BY <1>0
<1>2. \A i \in 0..n : i # n => isReferer[p[i]] /\ p[i] # to /\ p[i] \in Queries
    BY <1>1 DEF IsPath
<1>3. IsPath(p, n, from, to)'
    BY <1>1, <1>2 DEF IsPath
<1> QED
    BY <1>3 DEF Leads

\* A query that joins comes before the path that led from the host.
LEMMA LeadsLonger ==
    ASSUME NEW q \in Queries, NEW to, Leads(next[to], to), ~isReferer[to],
           to # q, ~isReferer[q],
           next' = [next EXCEPT ![q] = next[to], ![to] = q],
           isReferer' = [isReferer EXCEPT ![q] = TRUE],
           next \in [Queries -> Queries], isReferer \in [Queries -> BOOLEAN]
    PROVE  Leads(q, to)'
<1>0. PICK n \in Nat : \E p \in [0..n -> Queries] : IsPath(p, n, next[to], to)
    BY DEF Leads
<1>1. PICK p \in [0..n -> Queries] : IsPath(p, n, next[to], to)
    BY <1>0
<1>2. \A i \in 0..n : p[i] # q /\ p[i] \in Queries
    BY <1>1 DEF IsPath
<1>3. \A i \in 0..n : i # n => /\ next[p[i]] = p[i + 1] /\ isReferer[p[i]] /\ p[i] # to
                               /\ i + 1 \in 0..n
    BY <1>1 DEF IsPath
<1>4. to \in Queries /\ p[n] = to /\ p[0] = next[to] /\ 0 \in 0..n /\ n \in 0..n
    BY <1>1 DEF IsPath
<1> DEFINE longer == [i \in 0..(n + 1) |-> IF i = 0 THEN q ELSE p[i - 1]]
<1>5. \A i \in 0..(n + 1) : i # 0 => i - 1 \in 0..n /\ longer[i] = p[i - 1]
    OBVIOUS
<1>6. longer[0] = q /\ longer[n + 1] = to /\ longer \in [0..(n + 1) -> Queries]
    <2>1. n + 1 \in 0..(n + 1) /\ n + 1 # 0 /\ 0 \in 0..(n + 1) /\ (n + 1) - 1 = n
        OBVIOUS
    <2>2. longer[n + 1] = to /\ longer[0] = q
        BY <1>4, <1>5, <2>1
    <2>3. \A i \in 0..(n + 1) : longer[i] \in Queries
        BY <1>2, <1>5, <2>2
    <2> QED
        BY <2>2, <2>3
<1>7. ASSUME NEW i \in 0..(n + 1), i # n + 1
      PROVE  next'[longer[i]] = longer[i + 1] /\ isReferer'[longer[i]]
    <2>1. CASE i = 0
        <3>1. longer[i] = q /\ longer[i + 1] = p[0]
            BY <1>5, <1>6, <2>1
        <3> QED
            BY <1>4, <3>1
    <2>2. CASE i # 0
        <3>1. i - 1 \in 0..n /\ i - 1 # n /\ i + 1 \in 0..(n + 1) /\ i + 1 # 0 /\ (i + 1) - 1 = (i - 1) + 1
            BY <1>7, <2>2
        <3>2. longer[i] = p[i - 1] /\ longer[i + 1] = p[(i - 1) + 1]
            BY <1>5, <2>2, <3>1
        <3>3. /\ next[p[i - 1]] = p[(i - 1) + 1] /\ isReferer[p[i - 1]] /\ p[i - 1] # to
              /\ p[i - 1] # q /\ p[i - 1] \in Queries
            BY <1>2, <1>3, <3>1
        <3> QED
            BY <3>2, <3>3
    <2> QED
        BY <2>1, <2>2
<1>8. ASSUME NEW i \in 0..(n + 1), NEW j \in 0..(n + 1), longer[i] = longer[j] PROVE i = j
    <2>1. \A k, l \in 0..n : p[k] = p[l] => k = l
        BY <1>1 DEF IsPath
    <2>2. CASE i # 0 /\ j # 0
        <3>1. i - 1 \in 0..n /\ j - 1 \in 0..n /\ p[i - 1] = p[j - 1]
            BY <1>5, <1>8, <2>2
        <3>2. i - 1 = j - 1
            BY <2>1, <3>1
        <3> QED
            BY <3>2
    <2>3. CASE i = 0 \/ j = 0
        BY <1>2, <1>5, <1>6, <1>8, <2>3
    <2> QED
        BY <2>2, <2>3
<1> HIDE DEF longer
<1>9. IsPath(longer, n + 1, q, to)'
    BY <1>6, <1>7, <1>8 DEF IsPath
<1> QED
    BY <1>6, <1>9 DEF Leads

\* The first referer is cut out: the path goes on from the next.
LEMMA LeadsShorter ==
    ASSUME NEW from, NEW to, NEW before \in Queries, NEW second,
           Leads(from, to), from # to, ~isReferer[to], second = next[from],
           next[before] = from \/ before = to,
           next' = [next EXCEPT ![before] = next[from], ![from] = from],
           isReferer' = [isReferer EXCEPT ![from] = FALSE],
           next \in [Queries -> Queries], isReferer \in [Queries -> BOOLEAN]
    PROVE  Leads(second, to)'
<1>0. PICK n \in Nat : \E p \in [0..n -> Queries] : IsPath(p, n, from, to)
    BY DEF Leads
<1>1. PICK p \in [0..n -> Queries] : IsPath(p, n, from, to)
    BY <1>0
<1>2. \A i \in 0..n : i # n => /\ next[p[i]] = p[i + 1] /\ isReferer[p[i]] /\ p[i] # to
                               /\ i + 1 \in 0..n
    BY <1>1 DEF IsPath
<1>3. /\ p[n] = to /\ p[0] = from /\ 0 \in 0..n /\ n \in 0..n /\ n # 0
      /\ \A k, l \in 0..n : p[k] = p[l] => k = l
      /\ \A i \in 0..n : p[i] \in Queries
    BY <1>1 DEF IsPath
<1> DEFINE shorter == [i \in 0..(n - 1) |-> p[i + 1]]
<1>4. n - 1 \in Nat /\ \A i \in 0..(n - 1) : i + 1 \in 0..n /\ i + 1 # 0 /\ shorter[i] = p[i + 1]
    BY <1>3
<1>5. shorter[0] = second /\ shorter[n - 1] = to /\ shorter \in [0..(n - 1) -> Queries]
    <2>1. shorter[0] = p[0 + 1] /\ next[p[0]] = p[0 + 1]
        BY <1>2, <1>3, <1>4
    <2>2. shorter[n - 1] = p[n]
        BY <1>3, <1>4
    <2> QED
        BY <1>3, <1>4, <2>1, <2>2
<1>6. ASSUME NEW i \in 0..(n - 1), i # n - 1
      PROVE  next'[shorter[i]] = shorter[i + 1] /\ isReferer'[shorter[i]]
    <2>1. i + 1 \in 0..n /\ i + 1 # n /\ i + 1 # 0 /\ i + 1 \in 0..(n - 1) /\ (i + 1) + 1 \in 0..n /\ (i + 1) + 1 # 0
        BY <1>3, <1>6
    <2>2. shorter[i] = p[i + 1] /\ shorter[i + 1] = p[(i + 1) + 1]
        BY <1>4, <2>1
    <2>3. next[p[i + 1]] = p[(i + 1) + 1] /\ isReferer[p[i + 1]] /\ p[i + 1] # to /\ p[i + 1] \in Queries
        BY <1>2, <1>3, <2>1
    <2>4. p[i + 1] # from /\ p[(i + 1) + 1] # from
        BY <1>3, <2>1
    <2>5. p[i + 1] # before
        BY <2>3, <2>4
    <2> QED
        BY <2>2, <2>3, <2>4, <2>5
<1>7. ASSUME NEW i \in 0..(n - 1), NEW j \in 0..(n - 1), shorter[i] = shorter[j] PROVE i = j
    <2>1. i + 1 = j + 1
        BY <1>3, <1>4, <1>7
    <2> QED
        BY <2>1
<1> HIDE DEF shorter
<1>8. IsPath(shorter, n - 1, second, to)'
    BY <1>5, <1>6, <1>7 DEF IsPath
<1> QED
    BY <1>4, <1>5, <1>8 DEF Leads

\* Whoever waits for the host stays on the path that the resources thread has
\* still to walk.
LEMMA RingKept ==
    ASSUME RInv, Next
    PROVE  RingFits'
<1>0. /\ TypeOK /\ WalkType /\ HostFits /\ WalkFits /\ RingFits
      /\ \A q \in Queries : QueryFits(q)
    BY DEF RInv
<1>a. Walking /\ host # None => host = walk.host
    BY <1>0, QueriesAssumption DEF HostFits, WalkFits, Walks, Walking, Passed, WalkType
<1> USE <1>0, QueriesAssumption DEF Unasked, Under, Over, Destroying, Goto, Walks, TypeOK,
        registry, cook, outcome, ring, lifetime
<1>1. ASSUME NEW q \in Queries, NEW x \in Queries, at[q] \in Unasked, AddReferrer(x, q)
      PROVE  RingFits'
    <2>1. /\ x # q /\ host = x /\ ~isReferer[x] /\ ~isReferer[q] /\ next[q] = q
          /\ Walking => walk.host = x
        BY <1>1, <1>a DEF AddReferrer, HostFits, QueryFits
    <2>2. /\ next' = [next EXCEPT ![q] = next[x], ![x] = q]
          /\ isReferer' = [isReferer EXCEPT ![q] = TRUE]
          /\ UNCHANGED <<host, walk>>
        BY <1>1 DEF AddReferrer
    <2>3. CASE Walks("referers") \/ Walks("clear")
        <3>1. PICK c : c = walk.cur
            OBVIOUS
        <3>2. Leads(c, x)
            BY <2>1, <2>3, <3>1 DEF RingFits, Walking
        <3>3. Leads(c, x)'
            BY <2>1, <2>2, <3>2, LeadsKept
        <3>4. Leads(walk.cur, walk.host)'
            BY <2>1, <2>2, <2>3, <3>1, <3>3 DEF Walking
        <3>5. CASE Walks("clear")
            <4>1. /\ isReferer[c] /\ walk.next = next[c] /\ c # x /\ c # q /\ c \in Queries
                  /\ walk.prev # c /\ walk.prev \in Queries
                  /\ next[walk.prev] = c \/ walk.prev = x
                BY <2>1, <3>1, <3>2, <3>5, LeadsByReferers DEF RingFits, Walking
            <4>2. isReferer'[c] /\ next'[c] = next[c]
                BY <2>2, <4>1
            <4>3. next'[walk.prev] = c \/ walk.prev = x
                BY <2>1, <2>2, <4>1
            <4> QED
                BY <2>1, <2>2, <3>1, <3>4, <3>5, <4>1, <4>2, <4>3 DEF RingFits, Walking
        <3>6. CASE Walks("referers")
            BY <2>2, <3>4, <3>6 DEF RingFits, Walking
        <3> QED
            BY <2>3, <3>5, <3>6
    <2>4. CASE ~(Walks("referers") \/ Walks("clear"))
        <3>1. Leads(next[x], x)
            BY <2>1, <2>4 DEF RingFits, Walking
        <3>2. Leads(q, x)'
            BY <2>1, <2>2, <3>1, LeadsLonger
        <3>3. next'[x] = q
            BY <2>1, <2>2
        <3>4. Leads(next[x], x)'
            BY <3>2, <3>3
        <3> QED
            BY <2>1, <2>2, <2>4, <3>4 DEF RingFits, Walking
    <2> QED
        BY <2>3, <2>4
<1>2. ASSUME UNCHANGED <<host, next, isReferer, walk>>
      PROVE  RingFits'
    <2>1. /\ Leads(next[host], host)' = Leads(next[host], host)
          /\ Leads(next[walk.host], walk.host)' = Leads(next[walk.host], walk.host)
          /\ Leads(walk.cur, walk.host)' = Leads(walk.cur, walk.host)
        BY ONLY <1>2 DEF Leads, IsPath
    <2> QED
        BY <1>2, <2>1 DEF RingFits, Walking
<1>3. ASSUME NEW q \in Queries, NEW x \in Queries, Reuse(x, q)
      PROVE  RingFits'
    BY <1>2, <1>3 DEF Reuse
<1>4. ASSUME NEW q \in Queries,
             \/ Looks(q) \/ Translated(q) \/ FinishQuery(q) \/ Release(q)
             \/ StillUnused(q) \/ ReadEntry(q) \/ Unregister(q) \/ Delete(q)
      PROVE  RingFits'
    BY <1>2, <1>4 DEF Looks, Translated, FinishQuery, Release, StillUnused, ReadEntry, Unregister, Delete
<1>5. ASSUME NEW q \in Queries, BecomesHost(q) PROVE RingFits'
    <2>1. ~Walking
        BY <1>5, <1>a DEF BecomesHost, Unnamed, WalkFits, Walking, Passed, WalkType
    <2>2. host' = q /\ next'[q] = q /\ UNCHANGED <<next, walk>>
        BY <1>5 DEF BecomesHost, QueryFits
    <2>3. [i \in 0..0 |-> q] \in [0..0 -> Queries] /\ IsPath([i \in 0..0 |-> q], 0, q, q)'
        BY DEF IsPath
    <2>4. Leads(q, q)'
        BY <2>3 DEF Leads
    <2>5. Leads(next[host], host)'
        BY <2>2, <2>4
    <2> QED
        BY <2>1, <2>2, <2>5 DEF RingFits, Walking
<1>6. ASSUME NEW from, NEW to, UNCHANGED <<next, isReferer>>, Leads(from, to)
      PROVE  Leads(from, to)'
    BY <1>6 DEF Leads, IsPath
<1>7. ASSUME Take \/ Register PROVE RingFits'
    <2>1. PICK h : h = walk'.host
        OBVIOUS
    <2>2. /\ h = host /\ host # None /\ (host' = h \/ host' = None)
          /\ walk'.stage \in {"first", "register"} /\ ~Walks("referers") /\ ~Walks("clear")
          /\ UNCHANGED <<next, isReferer>>
        BY <1>7, <2>1 DEF Take, Register, HostFits, WalkFits, Walking, WalkType
    <2>3. PICK second : second = next[h]
        OBVIOUS
    <2>4. Leads(second, h)
        BY <2>2, <2>3 DEF RingFits, Walking
    <2>5. Leads(second, h)'
        BY <2>2, <2>4, <1>6
    <2>6. next'[h] = second
        BY <2>2, <2>3
    <2> QED
        BY <2>1, <2>2, <2>5, <2>6 DEF RingFits, Walking
<1>8. ASSUME FirstReferer PROVE RingFits'
    <2>1. PICK h, second : h = walk.host /\ second = next[h]
        OBVIOUS
    <2>2. /\ walk'.host = h /\ walk'.stage = "referers" /\ walk'.cur = second
          /\ Walks("first") /\ UNCHANGED <<next, isReferer>>
        BY <1>8, <2>1 DEF FirstReferer, WalkType
    <2>3. Leads(second, h)
        BY <2>1, <2>2 DEF RingFits
    <2>4. Leads(second, h)'
        BY <1>6, <2>2, <2>3
    <2> QED
        BY <2>2, <2>4 DEF RingFits, Walking
<1>9. ASSUME CopyResult PROVE RingFits'
    <2>1. PICK h, c : h = walk.host /\ c = walk.cur
        OBVIOUS
    <2>2. PICK p \in Queries : /\ next[p] = c /\ p # c
                               /\ walk' = [walk EXCEPT !.stage = "clear", !.next = next[c], !.prev = p]
        BY <1>9, <2>1 DEF CopyResult
    <2>3. /\ walk'.stage = "clear" /\ walk'.next = next[c] /\ walk'.prev = p /\ walk'.host = h /\ walk'.cur = c
        BY <2>1, <2>2 DEF WalkType
    <2>4. Walks("referers") /\ c # h /\ UNCHANGED <<next, isReferer>>
        BY <1>9, <2>1 DEF CopyResult
    <2>5. Leads(c, h)
        BY <2>1, <2>4 DEF RingFits
    <2>6. Leads(c, h)' /\ isReferer[c]
        BY <1>6, <2>4, <2>5, LeadsByReferers
    <2> QED
        BY <2>2, <2>3, <2>4, <2>6 DEF RingFits, Walking
<1>10. ASSUME ClearReference PROVE RingFits'
    <2>1. PICK h, c, before, second : h = walk.host /\ c = walk.cur /\ before = walk.prev /\ second = walk.next
        OBVIOUS
    <2>2. /\ Leads(c, h) /\ second = next[c] /\ before \in Queries /\ isReferer[c]
          /\ next[before] = c \/ before = h
        BY <1>10, <2>1 DEF ClearReference, RingFits
    <2>3. c # h /\ ~isReferer[h]
        BY <1>10, <2>1, <2>2 DEF ClearReference, WalkFits, Walking
    <2>4. /\ next' = [next EXCEPT ![before] = next[c], ![c] = c]
          /\ isReferer' = [isReferer EXCEPT ![c] = FALSE]
        BY <1>10, <2>1 DEF ClearReference
    <2>5. Leads(second, h)'
        BY <2>2, <2>3, <2>4, LeadsShorter
    <2>6. walk'.host = h /\ walk'.cur = second /\ walk'.stage = "referers"
        BY <1>10, <2>1 DEF ClearReference, WalkType
    <2> QED
        BY <2>5, <2>6 DEF RingFits, Walking
<1>11. ASSUME EndHost PROVE RingFits'
    <2>1. host' = None /\ walk'.stage = "idle"
        BY <1>11 DEF EndHost, Idle, HostFits, WalkFits, Walking, Passed
    <2> QED
        BY <2>1 DEF RingFits, Walking
<1> QED
    BY <1>1, <1>3, <1>4, <1>5, <1>7, <1>8, <1>9, <1>10, <1>11, Steps
-----------------------------------------------------------------------------
(* Counting.                                                               *)

\* A set that gains or loses one element counts one more or one less.
LEMMA CountChanges ==
    ASSUME NEW S, NEW T, NEW t, IsFiniteSet(S), S \ {t} = T \ {t}
    PROVE  /\ IsFiniteSet(T) /\ Cardinality(S) \in Nat /\ Cardinality(T) \in Nat
           /\ (t \in S <=> t \in T) => Cardinality(T) = Cardinality(S)
           /\ t \notin S /\ t \in T => Cardinality(T) = Cardinality(S) + 1
           /\ t \in S /\ t \notin T => Cardinality(T) = Cardinality(S) - 1
<1>1. IsFiniteSet(S \ {t}) /\ IsFiniteSet(T)
    BY FS_RemoveElement, FS_AddElement
<1>2. Cardinality(S) \in Nat /\ Cardinality(T) \in Nat
    BY <1>1, FS_CardinalityType
<1>3. Cardinality(S \ {t}) = IF t \in S THEN Cardinality(S) - 1 ELSE Cardinality(S)
    BY FS_RemoveElement
<1>4. Cardinality(T \ {t}) = IF t \in T THEN Cardinality(T) - 1 ELSE Cardinality(T)
    BY <1>1, FS_RemoveElement
<1>5. Cardinality(S \ {t}) = Cardinality(T \ {t})
    OBVIOUS
<1> QED
    BY <1>1, <1>2, <1>3, <1>4, <1>5
-----------------------------------------------------------------------------
(* The resources.                                                          *)

\* What is left of ResourceFits when nobody takes or releases the resource.
LEMMA ResourceUntouched ==
    ASSUME RInv, NEW r \in Queries,
           Holders(r)' = Holders(r), count'[r] = count[r],
           hasEntry'[r] <=> shared' = r,
           (shared' = r) => resource'[r] = r,
           (\E q \in Queries : resource'[q] = r) => \E q \in Queries : resource[q] = r,
           resource'[r] = resource[r] \/ resource[r] = None,
           at[r] \in Under \cup Over => at'[r] \in Under \cup Over,
           at[r] \in Over => at'[r] \in Over,
           deleted'[r] = deleted[r],
           deleted[r] # 0 /\ ~hasEntry[r] => ~hasEntry'[r]
    PROVE  ResourceFits(r)'
BY QueriesAssumption DEF RInv, ResourceFits

\* The count of a resource is that of the queries that have it; only the last to
\* release it destroys it, and the resource's own query is among them.
LEMMA ResourcesKept ==
    ASSUME RInv, Next, NEW r \in Queries
    PROVE  ResourceFits(r)'
<1>0. /\ TypeOK /\ WalkType /\ HostFits /\ WalkFits /\ RingFits /\ ResourceFits(r)
      /\ \A q \in Queries : QueryFits(q) /\ ResourceFits(q) /\ DestroyerFits(q)
      /\ IsFiniteSet(Holders(r)) /\ Cardinality(Holders(r)) \in Nat
    BY QueriesAssumption, FS_Subset, FS_CardinalityType DEF RInv, Holders
<1> USE <1>0, QueriesAssumption DEF Unasked, Under, Over, Destroying, Goto, Walks, TypeOK,
        registry, cook, outcome, ring, lifetime
<1>1. ASSUME NEW q \in Queries, NEW x \in Queries, at[q] \in Unasked, AddReferrer(x, q)
      PROVE  ResourceFits(r)'
    <2>1. Holders(r)' = Holders(r)
        BY <1>1 DEF AddReferrer, Holders, QueryFits
    <2> QED
        BY <1>1, <2>1, ResourceUntouched DEF AddReferrer, ResourceFits
<1>2. ASSUME NEW q \in Queries, NEW x \in Queries, at[q] \in Unasked, Reuse(x, q)
      PROVE  ResourceFits(r)'
    <2>1. resource[q] = None /\ resource[x] = x /\ q # x
        BY <1>2 DEF Reuse, QueryFits, ResourceFits
    <2>2. CASE r = x
        <3>1. Holders(r)' \ {q} = Holders(r) \ {q} /\ q \notin Holders(r) /\ q \in Holders(r)'
            BY <1>2, <2>1, <2>2 DEF Reuse, Holders
        <3>2. Cardinality(Holders(r)') = Cardinality(Holders(r)) + 1
            BY <3>1, CountChanges
        <3> QED
            BY <1>2, <2>1, <2>2, <3>2 DEF Reuse, ResourceFits
    <2>3. CASE r # x
        <3>1. Holders(r)' = Holders(r)
            BY <1>2, <2>1, <2>3 DEF Reuse, Holders
        <3> QED
            BY <1>2, <2>1, <2>3, <3>1, ResourceUntouched DEF Reuse, ResourceFits
    <2> QED
        BY <2>2, <2>3
<1>3. ASSUME NEW q \in Queries, Looks(q) \/ BecomesHost(q) \/ Translated(q) PROVE ResourceFits(r)'
    <2>1. /\ \/ at[q] = "translating" /\ at'[q] = "waiting"
             \/ at[q] \in Unasked /\ resource[q] = None
          /\ at'[q] \in Unasked \cup Under
          /\ at' = [at EXCEPT ![q] = at'[q]]
          /\ UNCHANGED <<shared, resource, count, hasEntry, deleted>>
        BY <1>3 DEF Looks, BecomesHost, Translated, QueryFits
    <2>2. Holders(r)' = Holders(r)
        BY <2>1 DEF Holders
    <2> QED
        BY <2>1, <2>2, ResourceUntouched DEF ResourceFits
<1>4. ASSUME NEW q \in Queries, FinishQuery(q) PROVE ResourceFits(r)'
    <2>1. q = host /\ resource[q] = None /\ at[q] \in Under
        BY <1>4 DEF FinishQuery, HostFits
    <2>2. UNCHANGED <<at, shared, hasEntry, deleted>>
        BY <1>4 DEF FinishQuery
    <2>3. CASE UNCHANGED <<resource, count>>
        <3>1. Holders(r)' = Holders(r)
            BY <2>2, <2>3 DEF Holders
        <3> QED
            BY <2>2, <2>3, <3>1, ResourceUntouched DEF ResourceFits
    <2>4. CASE /\ resource' = [resource EXCEPT ![q] = q]
               /\ count' = [count EXCEPT ![q] = @ + 1]
        <3>1. CASE r = q
            <4>1. Holders(r)' \ {q} = Holders(r) \ {q} /\ q \notin Holders(r) /\ q \in Holders(r)'
                BY <2>1, <2>2, <2>4, <3>1 DEF Holders
            <4>2. Cardinality(Holders(r)') = Cardinality(Holders(r)) + 1
                BY <4>1, CountChanges
            <4> QED
                BY <2>1, <2>2, <2>4, <3>1, <4>2 DEF ResourceFits
        <3>2. CASE r # q
            <4>1. Holders(r)' = Holders(r)
                BY <2>1, <2>2, <2>4, <3>2 DEF Holders
            <4> QED
                BY <2>1, <2>2, <2>4, <3>2, <4>1, ResourceUntouched DEF ResourceFits
        <3> QED
            BY <3>1, <3>2
    <2> QED
        BY <1>4, <2>3, <2>4 DEF FinishQuery
<1>5. ASSUME NEW q \in Queries, Release(q) PROVE ResourceFits(r)'
    <2>1. /\ at[q] = "ended" /\ at'[q] \in {"done", "destroy"} /\ at' = [at EXCEPT ![q] = at'[q]]
          /\ UNCHANGED <<shared, resource, hasEntry, deleted>>
        BY <1>5 DEF Release
    <2>2. CASE r = resource[q]
        <3>1. Holders(r)' \ {q} = Holders(r) \ {q} /\ q \in Holders(r) /\ q \notin Holders(r)'
            BY <2>1, <2>2 DEF Holders
        <3>2. Cardinality(Holders(r)') = Cardinality(Holders(r)) - 1
            BY <3>1, CountChanges
        <3>3. count'[r] = count[r] - 1
            BY <1>5, <2>2 DEF Release
        <3> QED
            BY <2>1, <2>2, <3>2, <3>3 DEF ResourceFits
    <2>3. CASE r # resource[q]
        <3>1. Holders(r)' = Holders(r)
            BY <2>1, <2>3 DEF Holders
        <3>2. count'[r] = count[r]
            BY <1>5, <2>3 DEF Release
        <3> QED
            BY <2>1, <2>3, <3>1, <3>2, ResourceUntouched DEF ResourceFits
    <2> QED
        BY <2>2, <2>3
<1>6. ASSUME NEW q \in Queries, StillUnused(q) \/ ReadEntry(q) \/ Unregister(q) \/ Delete(q)
      PROVE  ResourceFits(r)'
    <2>1. /\ at[q] \in Destroying /\ at'[q] \in Destroying \cup {"done"} /\ at' = [at EXCEPT ![q] = at'[q]]
          /\ UNCHANGED <<resource, count>>
        BY <1>6 DEF StillUnused, ReadEntry, Unregister, Delete
    <2>2. Holders(r)' = Holders(r)
        BY <2>1 DEF Holders
    <2>3. CASE StillUnused(q) \/ ReadEntry(q)
        BY <2>1, <2>2, <2>3, ResourceUntouched DEF ResourceFits, StillUnused, ReadEntry
    <2>4. CASE Unregister(q)
        <3>1. resource[q] \in Queries
            BY <2>1 DEF DestroyerFits
        <3> QED
            BY <2>1, <2>2, <2>4, <3>1, ResourceUntouched DEF ResourceFits, Unregister
    <2>5. CASE Delete(q)
        <3>1. /\ resource[q] \in Queries /\ at[resource[q]] \in Over /\ ~hasEntry[resource[q]]
              /\ deleted' = [deleted EXCEPT ![resource[q]] = @ + 1]
              /\ UNCHANGED <<shared, hasEntry>>
            BY <2>1, <2>5 DEF DestroyerFits, Delete
        <3>2. CASE r = resource[q]
            BY <2>1, <2>2, <3>1, <3>2 DEF ResourceFits
        <3>3. CASE r # resource[q]
            BY <2>1, <2>2, <3>1, <3>3, ResourceUntouched DEF ResourceFits
        <3> QED
            BY <3>2, <3>3
    <2> QED
        BY <1>6, <2>3, <2>4, <2>5
<1>7. CASE Take \/ FirstReferer
    <2>1. UNCHANGED <<at, shared, resource, count, hasEntry, deleted>>
        BY <1>7 DEF Take, FirstReferer
    <2>2. Holders(r)' = Holders(r)
        BY <2>1 DEF Holders
    <2> QED
        BY <2>1, <2>2, ResourceUntouched DEF ResourceFits
<1>8. CASE Register
    <2>1. /\ walk.host \in Queries /\ at[walk.host] = "waiting" /\ resource[walk.host] = walk.host
          /\ shared = None /\ shared' = walk.host
          /\ hasEntry' = [hasEntry EXCEPT ![walk.host] = TRUE]
          /\ UNCHANGED <<at, resource, count, deleted>>
        BY <1>8 DEF Register, WalkFits, Walking, HostFits
    <2>2. Holders(r)' = Holders(r)
        BY <2>1 DEF Holders
    <2> QED
        BY <2>1, <2>2, ResourceUntouched DEF ResourceFits
<1>9. CASE CopyResult
    <2> DEFINE q == walk.cur
    <2>1. /\ q \in Queries /\ isReferer[q] /\ at[q] = "waiting" /\ resource[q] = None
          /\ walk.host \in Queries /\ resource[walk.host] \in {None, walk.host} /\ at[walk.host] = "waiting"
        BY <1>9, LeadsByReferers DEF CopyResult, RingFits, WalkFits, Walking, QueryFits
    <2>2. /\ UNCHANGED <<at, shared, hasEntry, deleted>>
          /\ resource' = [resource EXCEPT ![q] = resource[walk.host]]
        BY <1>9 DEF CopyResult
    <2>3. CASE r = resource[walk.host]
        <3>1. Holders(r)' \ {q} = Holders(r) \ {q} /\ q \notin Holders(r) /\ q \in Holders(r)'
            BY <2>1, <2>2, <2>3 DEF Holders
        <3>2. Cardinality(Holders(r)') = Cardinality(Holders(r)) + 1
            BY <3>1, CountChanges
        <3>3. count'[r] = count[r] + 1
            BY <1>9, <2>3 DEF CopyResult
        <3> QED
            BY <2>1, <2>2, <2>3, <3>2, <3>3 DEF ResourceFits
    <2>4. CASE r # resource[walk.host]
        <3>1. Holders(r)' = Holders(r)
            BY <2>1, <2>2, <2>4 DEF Holders
        <3>2. count'[r] = count[r]
            BY <1>9, <2>4 DEF CopyResult
        <3> QED
            BY <2>1, <2>2, <2>4, <3>1, <3>2, ResourceUntouched DEF ResourceFits
    <2> QED
        BY <2>3, <2>4
<1>10. CASE ClearReference \/ EndHost
    <2>1. PICK q \in Queries : /\ at[q] = "waiting" /\ at' = [at EXCEPT ![q] = "ended"]
                               /\ UNCHANGED <<shared, resource, count, hasEntry, deleted>>
        BY <1>10, LeadsByReferers DEF ClearReference, EndHost, RingFits, WalkFits, Walking, QueryFits
    <2>2. Holders(r)' = Holders(r)
        BY <2>1 DEF Holders
    <2> QED
        BY <2>1, <2>2, ResourceUntouched DEF ResourceFits
<1> QED
    BY <1>1, <1>2, <1>3, <1>4, <1>5, <1>6, <1>7, <1>8, <1>9, <1>10, Steps

\* Who destroys a resource found its count zero when its own query was over.
LEMMA DestroyersKept ==
    ASSUME RInv, Next, NEW o \in Queries
    PROVE  DestroyerFits(o)'
<1>0. /\ TypeOK /\ WalkType /\ HostFits /\ WalkFits /\ RingFits
      /\ \A q \in Queries : QueryFits(q) /\ ResourceFits(q) /\ DestroyerFits(q)
    BY DEF RInv
<1> USE <1>0, QueriesAssumption DEF Unasked, Under, Over, Destroying, Goto, Walks, TypeOK,
        registry, cook, outcome, ring, lifetime
<1>1. ASSUME UNCHANGED resource,
             \A q \in Queries : at[q] \in Over => at'[q] \in Over,
             \A q \in Queries : at'[q] \in Destroying => at[q] \in Destroying,
             at'[o] = "delete" => at[o] = "delete",
             \A q \in Queries : at[q] \in Over => hasEntry'[q] = hasEntry[q]
      PROVE  DestroyerFits(o)'
    BY <1>1 DEF DestroyerFits
<1>2. ASSUME NEW q \in Queries, NEW x \in Queries, at[q] \in Unasked, AddReferrer(x, q) \/ Reuse(x, q)
      PROVE  DestroyerFits(o)'
    <2>1. CASE AddReferrer(x, q)
        BY <1>1, <1>2, <2>1 DEF AddReferrer
    <2>2. CASE Reuse(x, q)
        <3>1. /\ at' = [at EXCEPT ![q] = "ended"] /\ resource' = [resource EXCEPT ![q] = x]
              /\ hasEntry' = hasEntry
            BY <2>2 DEF Reuse
        <3> QED
            BY <1>2, <3>1 DEF DestroyerFits
    <2> QED
        BY <1>2, <2>1, <2>2
<1>3. ASSUME NEW q \in Queries, Looks(q) \/ BecomesHost(q) \/ Translated(q) PROVE DestroyerFits(o)'
    BY <1>1, <1>3 DEF Looks, BecomesHost, Translated
<1>4. ASSUME NEW q \in Queries, FinishQuery(q) PROVE DestroyerFits(o)'
    <2>1. q = host /\ at[q] \in Under
        BY <1>4 DEF FinishQuery, HostFits
    <2>2. /\ UNCHANGED <<at, hasEntry>>
          /\ resource' = resource \/ resource' = [resource EXCEPT ![q] = q]
        BY <1>4 DEF FinishQuery
    <2> QED
        BY <2>1, <2>2 DEF DestroyerFits
<1>5. ASSUME NEW q \in Queries, Release(q) PROVE DestroyerFits(o)'
    <2>1. at[q] = "ended" /\ at' = [at EXCEPT ![q] = at'[q]] /\ UNCHANGED <<resource, hasEntry>>
        BY <1>5 DEF Release
    <2>2. CASE at'[q] = "done"
        BY <1>1, <2>1, <2>2
    <2>3. CASE at'[q] = "destroy"
        <3>1. PICK r \in Queries : r = resource[q] /\ count'[r] = 0
            BY <1>5, <2>3 DEF Release
        <3>2. ResourceFits(r)' /\ ResourceFits(r)
            BY <3>1, ResourcesKept
        <3>3. Holders(r)' = {}
            <4>1. IsFiniteSet(Holders(r)')
                BY FS_Subset DEF Holders
            <4> QED
                BY <3>1, <3>2, <4>1, FS_EmptySet DEF ResourceFits
        <3>4. resource[r] = r /\ at[r] \in Under \cup Over
            BY <3>1, <3>2 DEF ResourceFits
        <3>5. at'[r] \in Over
            BY <2>1, <2>3, <3>1, <3>3, <3>4 DEF Holders
        <3> QED
            BY <2>1, <2>3, <3>1, <3>5 DEF DestroyerFits
    <2> QED
        BY <1>5, <2>2, <2>3 DEF Release
<1>6. ASSUME NEW q \in Queries, StillUnused(q) PROVE DestroyerFits(o)'
    BY <1>6 DEF StillUnused, DestroyerFits
<1>7. ASSUME NEW q \in Queries, ReadEntry(q) PROVE DestroyerFits(o)'
    BY <1>7 DEF ReadEntry, DestroyerFits
<1>8. ASSUME NEW q \in Queries, Unregister(q) PROVE DestroyerFits(o)'
    BY <1>8 DEF Unregister, DestroyerFits
<1>9. ASSUME NEW q \in Queries, Delete(q) PROVE DestroyerFits(o)'
    BY <1>1, <1>9 DEF Delete
<1>10. CASE Take \/ FirstReferer
    BY <1>1, <1>10 DEF Take, FirstReferer
<1>11. CASE Register
    BY <1>1, <1>11 DEF Register, WalkFits, Walking
<1>12. CASE CopyResult
    <2>1. walk.cur \in Queries /\ at[walk.cur] = "waiting"
        BY <1>12, LeadsByReferers DEF CopyResult, RingFits, WalkFits, Walking, QueryFits
    <2> QED
        BY <1>12, <2>1 DEF CopyResult, DestroyerFits
<1>13. CASE ClearReference \/ EndHost
    <2>1. PICK q \in Queries : /\ at[q] = "waiting" /\ at' = [at EXCEPT ![q] = "ended"]
                               /\ UNCHANGED <<resource, hasEntry>>
        BY <1>13, LeadsByReferers DEF ClearReference, EndHost, RingFits, WalkFits, Walking, QueryFits
    <2> QED
        BY <1>1, <2>1
<1> QED
    BY <1>2, <1>3, <1>4, <1>5, <1>6, <1>7, <1>8, <1>9, <1>10, <1>11, <1>12, <1>13, Steps
-----------------------------------------------------------------------------
(* The types.                                                              *)

\* guard and ended are bounded by what QueryFits and HostFits say of them, count
\* by ResourceFits.
LEMMA TypesKept ==
    ASSUME RInv, Next
    PROVE  TypeOK' /\ WalkType'
<1>0. /\ TypeOK /\ WalkType /\ HostFits /\ WalkFits /\ RingFits
      /\ \A q \in Queries : QueryFits(q) /\ ResourceFits(q) /\ DestroyerFits(q)
    BY DEF RInv
<1> USE <1>0, QueriesAssumption DEF Unasked, Under, Over, Destroying, Goto, Walks, TypeOK,
        registry, cook, outcome, ring, lifetime
<1>1. ASSUME NEW q \in Queries, NEW x \in Queries, at[q] \in Unasked, AddReferrer(x, q)
      PROVE  TypeOK' /\ WalkType'
    <2>1. /\ UNCHANGED <<registry, cook, outcome, lifetime, walk>>
          /\ late' \subseteq Queries
          /\ at' = [at EXCEPT ![q] = "waiting"]
          /\ isReferer' = [isReferer EXCEPT ![q] = TRUE]
          /\ next' = [next EXCEPT ![q] = next[x], ![x] = q]
        BY <1>1 DEF AddReferrer
    <2> QED
        BY <2>1 DEF WalkType
<1>2. ASSUME NEW q \in Queries, NEW x \in Queries, at[q] \in Unasked, Reuse(x, q)
      PROVE  TypeOK' /\ WalkType'
    <2>1. ended[q] = 0
        BY <1>2 DEF QueryFits
    <2> QED
        BY <1>2, <2>1 DEF Reuse, WalkType
<1>3. ASSUME NEW q \in Queries, Looks(q) PROVE TypeOK' /\ WalkType'
    BY <1>3 DEF Looks, WalkType
<1>4. ASSUME NEW q \in Queries, BecomesHost(q) PROVE TypeOK' /\ WalkType'
    <2>1. guard[q] = 1
        BY <1>4 DEF BecomesHost, QueryFits
    <2> QED
        BY <1>4, <2>1 DEF BecomesHost, WalkType
<1>5. ASSUME NEW q \in Queries, Translated(q) PROVE TypeOK' /\ WalkType'
    <2>1. guard[q] \in 1..2
        BY <1>5 DEF Translated, QueryFits, HostFits
    <2> QED
        BY <1>5, <2>1 DEF Translated, HandOver, WalkType
<1>6. ASSUME NEW q \in Queries, FinishQuery(q) PROVE TypeOK' /\ WalkType'
    <2>1. guard[q] \in 1..2
        BY <1>6 DEF FinishQuery, HostFits
    <2> QED
        <3>1. /\ guard' = [guard EXCEPT ![q] = @ - 1]
              /\ created' = created \/ created' = created \cup {q}
              /\ cooking' = cooking \ {q}
              /\ UNCHANGED <<registry, at, ended, ring, hasEntry, deleted, walk, late>>
            BY <1>6 DEF FinishQuery, HandOver
        <3>2. /\ \/ resource' = [resource EXCEPT ![q] = q] /\ count' = [count EXCEPT ![q] = @ + 1]
                 \/ UNCHANGED <<resource, count>>
              /\ failed' = [failed EXCEPT ![q] = TRUE] \/ failed' = failed
            BY <1>6 DEF FinishQuery
        <3>3. /\ resource' \in [Queries -> Queries \cup {None}] /\ count' \in [Queries -> Nat]
              /\ failed' \in [Queries -> BOOLEAN]
            <4>1. ASSUME resource' = resource, count' = count
                  PROVE  resource' \in [Queries -> Queries \cup {None}] /\ count' \in [Queries -> Nat]
                BY <4>1
            <4>2. ASSUME resource' = [resource EXCEPT ![q] = q], count' = [count EXCEPT ![q] = @ + 1]
                  PROVE  resource' \in [Queries -> Queries \cup {None}] /\ count' \in [Queries -> Nat]
                BY <4>2
            <4>3. failed' \in [Queries -> BOOLEAN]
                BY <3>2
            <4> QED
                BY <3>2, <4>1, <4>2, <4>3
        <3>4. guard' \in [Queries -> 0..2]
            BY <2>1, <3>1
        <3> QED
            BY <3>1, <3>3, <3>4 DEF WalkType
<1>7. ASSUME NEW q \in Queries, Release(q) PROVE TypeOK' /\ WalkType'
    <2>1. \A r \in Queries : count'[r] \in Nat
        <3>1. ASSUME NEW r \in Queries PROVE count'[r] \in Nat
            <4>1. IsFiniteSet(Holders(r)')
                BY FS_Subset DEF Holders
            <4> QED
                BY <4>1, ResourcesKept, FS_CardinalityType DEF ResourceFits
        <3> QED
            BY <3>1
    <2>2. /\ at'[q] \in {"done", "destroy"} /\ at' = [at EXCEPT ![q] = at'[q]]
          /\ count' \in [Queries -> Int]
          /\ UNCHANGED <<registry, cook, outcome, ring, hasEntry, deleted, walk, late>>
        BY <1>7 DEF Release
    <2>3. count' \in [Queries -> Nat]
        BY <2>1, <2>2
    <2> QED
        BY <2>2, <2>3 DEF WalkType
<1>8. ASSUME NEW q \in Queries, StillUnused(q) \/ ReadEntry(q) \/ Unregister(q)
      PROVE  TypeOK' /\ WalkType'
    BY <1>8 DEF StillUnused, ReadEntry, Unregister, WalkType
<1>9. ASSUME NEW q \in Queries, Delete(q) PROVE TypeOK' /\ WalkType'
    BY <1>9 DEF Delete, DestroyerFits, WalkType
<1>10. CASE Take
    <2>1. PICK q \in created : walk' = [walk EXCEPT !.stage = IF failed[q] THEN "first" ELSE "register", !.host = q]
                               /\ created' = created \ {q}
        BY <1>10 DEF Take
    <2>2. WalkType' /\ walk'.stage \in {"first", "register"}
        BY <2>1 DEF WalkType
    <2> QED
        BY <1>10, <2>1, <2>2 DEF Take
<1>11. CASE Register
    <2>1. WalkType' /\ walk'.stage = "first"
        BY <1>11 DEF Register, WalkType
    <2> QED
        BY <1>11, <2>1 DEF Register, WalkFits, Walking
<1>12. CASE FirstReferer
    <2>1. WalkType' /\ walk'.stage = "referers"
        BY <1>12 DEF FirstReferer, WalkType, WalkFits, Walking
    <2> QED
        BY <1>12, <2>1 DEF FirstReferer
<1>13. CASE CopyResult
    <2>1. PICK h, c : h = walk.host /\ c = walk.cur
        OBVIOUS
    <2>2. h \in Queries /\ c \in Queries
        BY <1>13, <2>1, LeadsByReferers DEF CopyResult, RingFits
    <2>3. PICK p \in Queries : walk' = [walk EXCEPT !.stage = "clear", !.next = next[c], !.prev = p]
        BY <1>13, <2>1 DEF CopyResult
    <2>4. WalkType' /\ walk'.stage = "clear"
        BY <2>2, <2>3 DEF WalkType
    <2> QED
        BY <1>13, <2>1, <2>2, <2>4 DEF CopyResult
<1>14. CASE ClearReference
    <2>1. PICK c, before : c = walk.cur /\ before = walk.prev
        OBVIOUS
    <2>2. c \in Queries /\ before \in Queries /\ ended[c] = 0
        BY <1>14, <2>1, LeadsByReferers DEF ClearReference, RingFits, QueryFits
    <2>3. WalkType' /\ walk'.stage = "referers"
        BY <1>14 DEF ClearReference, WalkType
    <2> QED
        BY <1>14, <2>1, <2>2, <2>3 DEF ClearReference
<1>15. CASE EndHost
    <2>1. WalkType' /\ walk'.stage = "idle"
        BY <1>15 DEF EndHost, Idle, WalkType
    <2>2. walk.host \in Queries /\ ended[walk.host] = 0
        BY <1>15 DEF EndHost, WalkFits, Walking, QueryFits
    <2> QED
        BY <1>15, <2>1, <2>2 DEF EndHost
<1> QED
    BY <1>1, <1>2, <1>3, <1>4, <1>5, <1>6, <1>7, <1>8, <1>9, <1>10, <1>11, <1>12, <1>13, <1>14, <1>15, Steps
-----------------------------------------------------------------------------
(* The theorems.                                                           *)

\* The registry is empty and nobody has asked.
LEMMA InitRInv ==
    Init => RInv
<1> SUFFICES ASSUME Init PROVE RInv
    OBVIOUS
<1> USE QueriesAssumption DEF Init, Walks
<1>1. TypeOK /\ WalkType
    BY DEF TypeOK, WalkType, Idle
<1>2. HostFits /\ WalkFits /\ RingFits
    BY DEF HostFits, WalkFits, RingFits, Walking, Idle
<1>3. ASSUME NEW q \in Queries PROVE QueryFits(q) /\ ResourceFits(q) /\ DestroyerFits(q)
    <2>1. Holders(q) = {}
        BY DEF Holders
    <2>2. Cardinality(Holders(q)) = 0
        BY <2>1, FS_EmptySet
    <2> QED
        BY <2>2 DEF QueryFits, ResourceFits, DestroyerFits, Unasked, Under, Over, Destroying
<1> QED
    BY <1>1, <1>2, <1>3 DEF RInv

\* Nothing of RInv changes when nothing changes.
LEMMA StutterKeepsRInv ==
    ASSUME RInv, UNCHANGED vars
    PROVE  RInv'
<1>1. /\ UNCHANGED <<host, shared, at, cooking, guard, failed, resource, next, isReferer>>
      /\ UNCHANGED <<created, ended, count, hasEntry, deleted, walk, late>>
    BY DEF vars, registry, ring, cook, outcome, lifetime
<1>2. TypeOK' /\ WalkType'
    BY <1>1 DEF RInv, TypeOK, WalkType
<1>3. HostFits' /\ WalkFits'
    BY <1>1 DEF RInv, HostFits, WalkFits, Walking, Passed, Walks
<1>4. RingFits'
    <2>1. /\ Leads(next[host], host)' = Leads(next[host], host)
          /\ Leads(next[walk.host], walk.host)' = Leads(next[walk.host], walk.host)
          /\ Leads(walk.cur, walk.host)' = Leads(walk.cur, walk.host)
        BY ONLY <1>1 DEF Leads, IsPath
    <2> QED
        BY <1>1, <2>1 DEF RInv, RingFits, Walking, Walks
<1>5. ASSUME NEW q \in Queries PROVE QueryFits(q)' /\ ResourceFits(q)' /\ DestroyerFits(q)'
    <2>1. QueryFits(q) /\ ResourceFits(q) /\ DestroyerFits(q)
        BY DEF RInv
    <2>2. QueryFits(q)'
        BY <1>1, <2>1 DEF QueryFits, Walks
    <2>3. Holders(q)' = Holders(q)
        BY <1>1 DEF Holders
    <2>4. ResourceFits(q)' /\ DestroyerFits(q)'
        BY <1>1, <2>1, <2>3 DEF ResourceFits, DestroyerFits
    <2> QED
        BY <2>2, <2>4
<1> QED
    BY <1>2, <1>3, <1>4, <1>5 DEF RInv

\* RInv holds in every state of every behaviour.
THEOREM RegistryInvariant == Spec => []RInv
<1>1. RInv /\ [Next]_vars => RInv'
    <2>1. ASSUME RInv, Next PROVE RInv'
        BY <2>1, QueriesKept, HostKept, WalkKept, RingKept, ResourcesKept, DestroyersKept, TypesKept DEF RInv
    <2> QED
        BY <2>1, StutterKeepsRInv
<1> QED
    BY <1>1, InitRInv, PTL DEF Spec

\* Every variable has its type: the guard of a query is 0, 1 or 2 and a query
\* tells its parent at most once that it ended.
THEOREM RegistryTypeCorrect == Spec => []TypeOK
<1>1. RInv => TypeOK
    BY DEF RInv
<1> QED
    BY <1>1, RegistryInvariant, PTL

\* What the registry names is alive, and no two queries of a name are cooked at
\* the same time: query_resources looks at the registry, lets go of its mutex and
\* looks again, and a resource that is destroyed leaves the registry first.
THEOREM OneCookPerName == Spec => []RegistryNamesWhatLives
<1>1. RInv => RegistryNamesWhatLives
    <2> SUFFICES ASSUME RInv PROVE RegistryNamesWhatLives
        OBVIOUS
    <2> USE QueriesAssumption DEF RInv, TypeOK, HostFits
    <2>1. host = None \/ shared = None
        OBVIOUS
    <2>2. host # None => ended[host] = 0 /\ ~isReferer[host]
        BY DEF QueryFits, Under, Over, Destroying
    <2>3. shared # None => deleted[shared] = 0
        BY DEF ResourceFits
    <2>4. \A q \in Queries : IsCooked(q) => host = q
        BY DEF IsCooked, WalkFits, Walking, Walks
    <2> QED
        BY <2>1, <2>2, <2>3, <2>4 DEF RegistryNamesWhatLives
<1> QED
    BY <1>1, RegistryInvariant, PTL
=============================================================================
