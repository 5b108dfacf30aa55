----------------------------- MODULE NameRegistry -----------------------------
(***************************************************************************)
(* Queries of one name that a translate_query_cook with reuse_true serves, *)
(* from resources::query_resources to the release of the resource:         *)
(* resources_query_result_cache.cpp, ..._cook.cpp, ..._finalization.cpp,   *)
(* resources_manager_user_thread.cpp, resources_intrusive_base.cpp.        *)
(*                                                                         *)
(* The name registry has at most one entry for the name: the query that    *)
(* cooks it (the host, other queries wait in a ring through it) or the     *)
(* resource.  m_name_registry_mutex is held in Try, Translate, Register,   *)
(* EndHost and Unregister and nowhere else.  Users ask and release in any  *)
(* thread, a cook finishes in any thread, one resources thread ends what   *)
(* was cooked.  A resource bears the name of the query that cooked it.     *)
(***************************************************************************)
EXTENDS NamedQueries, Naturals

VARIABLES
    at,             \* where the thread of each query's user is
    guard,          \* m_on_created_resource_guard
    failed,         \* the query has an error type
    resource,       \* m_unmanaged_resource
    next,           \* m_next_referer
    count,          \* m_reference_count of each resource
    hasEntry,       \* m_name_registry_entry of each resource is not NULL
    late            \* history: who joined a host after it began to walk its referers

registry  == <<host, shared>>
ring      == <<next, isReferer>>
cook      == <<cooking, guard, created>>
outcome   == <<failed, resource, ended>>
lifetime  == <<count, hasEntry, deleted>>
vars      == <<registry, at, cook, outcome, ring, lifetime, walk, late>>

Idle == [stage |-> "idle", host |-> None, cur |-> None, next |-> None, prev |-> None]

Init ==
    /\ host = None /\ shared = None
    /\ at = [q \in Queries |-> "new"]
    /\ cooking = {} /\ guard = [q \in Queries |-> 1] /\ created = {}
    /\ failed = [q \in Queries |-> FALSE]
    /\ resource = [q \in Queries |-> None]
    /\ ended = [q \in Queries |-> 0]
    /\ next = [q \in Queries |-> q] /\ isReferer = [q \in Queries |-> FALSE]
    /\ count = [r \in Queries |-> 0]
    /\ hasEntry = [r \in Queries |-> FALSE]
    /\ deleted = [r \in Queries |-> 0]
    /\ walk = Idle /\ late = {}

Goto(q, place) == at' = [at EXCEPT ![q] = place]

-----------------------------------------------------------------------------
(* A query meets the registry: consider_with_name_registry_impl.           *)

\* Mutant: a query that finds a host does not wait for it.
AddReferrerNowhere(h, q) ==
    /\ host = h
    /\ Goto(q, "waiting")
    /\ isReferer' = [isReferer EXCEPT ![q] = TRUE]
    /\ late' = late
    /\ UNCHANGED <<registry, cook, outcome, next, lifetime, walk>>

\* the entry is a query: become its referer
AddReferrer(h, q) ==
    /\ host = h
    /\ Goto(q, "waiting")
    /\ isReferer' = [isReferer EXCEPT ![q] = TRUE]
    /\ next' = [next EXCEPT ![q] = next[h], ![h] = q]
    /\ late' = IF walk.host = h /\ walk.stage \in {"referers", "clear"} THEN late \cup {q} ELSE late
    /\ UNCHANGED <<registry, cook, outcome, lifetime, walk>>

\* the entry is a resource: take a reference; the query is over
Reuse(r, q) ==
    /\ shared = r
    /\ resource' = [resource EXCEPT ![q] = r]
    /\ count' = [count EXCEPT ![r] = @ + 1]
    /\ ended' = [ended EXCEPT ![q] = @ + 1]
    /\ Goto(q, "ended")
    /\ UNCHANGED <<registry, cook, failed, ring, hasEntry, deleted, walk, late>>

Meets(q) == \E x \in Queries : AddReferrer(x, q) \/ Reuse(x, q)

Unnamed == host = None /\ shared = None

\* query_resources_impl only tries to get what is registered
Try(q) ==
    /\ at[q] = "new"
    /\ \/ Meets(q)
       \/ /\ Unnamed /\ Goto(q, "translate")
          /\ UNCHANGED <<registry, cook, outcome, ring, lifetime, walk, late>>

\* Mutant: the registry is not looked at again before the query is registered.
TranslateUnseen(q) ==
    /\ at[q] = "translate" /\ Goto(q, "translating")
    /\ host' = q
    /\ guard' = [guard EXCEPT ![q] = @ + 1]
    /\ cooking' = cooking \cup {q}
    /\ UNCHANGED <<shared, created, outcome, ring, lifetime, walk, late>>

\* translate_query_if_needed, here or in the cook's thread, looks once more and
\* registers the query as the host; the cook begins
Translate(q) ==
    /\ at[q] = "translate"
    /\ \/ Meets(q)
       \/ /\ Unnamed /\ Goto(q, "translating")
          /\ host' = q
          /\ guard' = [guard EXCEPT ![q] = @ + 1]
          /\ cooking' = cooking \cup {q}
          /\ UNCHANGED <<shared, created, outcome, ring, lifetime, walk, late>>

\* try_push_created_resource_to_manager_might_destroy_this
HandOver(q) ==
    /\ guard' = [guard EXCEPT ![q] = @ - 1]
    /\ created' = IF guard'[q] = 0 THEN created \cup {q} ELSE created

\* the end of translate_query_if_needed
Translated(q) ==
    /\ at[q] = "translating" /\ Goto(q, "waiting")
    /\ HandOver(q)
    /\ UNCHANGED <<registry, cooking, outcome, ring, lifetime, walk, late>>

\* the cook calls finish_query(result_success) or finish_query(result_error),
\* before it returns or later and in another thread
FinishQuery(q) ==
    /\ q \in cooking
    /\ cooking' = cooking \ {q}
    /\ \/ /\ resource' = [resource EXCEPT ![q] = q]
          /\ count' = [count EXCEPT ![q] = @ + 1]
          /\ UNCHANGED failed
       \/ failed' = [failed EXCEPT ![q] = TRUE] /\ UNCHANGED <<resource, count>>
    /\ HandOver(q)
    /\ UNCHANGED <<registry, at, ended, ring, hasEntry, deleted, walk, late>>

-----------------------------------------------------------------------------
(* The resources thread: dispatch_created_resources, on_create_resource_end. *)

Take ==
    /\ Walks("idle")
    /\ \E q \in created :
          /\ created' = created \ {q}
          /\ walk' = [walk EXCEPT !.stage = IF failed[q] THEN "first" ELSE "register", !.host = q]
    /\ UNCHANGED <<registry, at, cooking, guard, outcome, ring, lifetime, late>>

\* associate_created_resource_with_fat_or_name_registry: the resource's entry
\* takes the place of the query's
Register ==
    LET q == walk.host IN
    /\ Walks("register")
    /\ host' = None /\ shared' = q
    /\ hasEntry' = [hasEntry EXCEPT ![q] = TRUE]
    /\ walk' = [walk EXCEPT !.stage = "first"]
    /\ UNCHANGED <<at, cook, outcome, ring, count, deleted, late>>

FirstReferer ==
    /\ Walks("first")
    /\ walk' = [walk EXCEPT !.stage = "referers", !.cur = next[walk.host]]
    /\ UNCHANGED <<registry, at, cook, outcome, ring, lifetime, late>>

\* on_refered_query_ended, up to the search of clear_reference for the referer
\* before this one
CopyResult ==
    LET q == walk.cur  r == resource[walk.host] IN
    /\ Walks("referers") /\ q # walk.host
    /\ failed' = [failed EXCEPT ![q] = failed[walk.host]]
    /\ resource' = [resource EXCEPT ![q] = r]
    /\ count' = IF r = None THEN count ELSE [count EXCEPT ![r] = @ + 1]
    /\ \E p \in Queries : /\ next[p] = q /\ p # q
                          /\ walk' = [walk EXCEPT !.stage = "clear", !.next = next[q], !.prev = p]
    /\ UNCHANGED <<registry, at, cook, ended, ring, hasEntry, deleted, late>>

\* the rest of clear_reference and the end of the referer
ClearReference ==
    LET q == walk.cur IN
    /\ Walks("clear")
    /\ next' = [next EXCEPT ![walk.prev] = next[q], ![q] = q]
    /\ isReferer' = [isReferer EXCEPT ![q] = FALSE]
    /\ ended' = [ended EXCEPT ![q] = @ + 1]
    /\ Goto(q, "ended")
    /\ walk' = [walk EXCEPT !.stage = "referers", !.cur = walk.next, !.next = None, !.prev = None]
    /\ UNCHANGED <<registry, cook, failed, resource, lifetime, late>>

\* end_query_might_destroy_this_impl: a host that registered no resource leaves
\* the registry; then the parent is told
EndHost ==
    LET q == walk.host IN
    /\ Walks("referers") /\ walk.cur = q
    /\ host' = IF failed[q] THEN None ELSE host
    /\ ended' = [ended EXCEPT ![q] = @ + 1]
    /\ Goto(q, "ended")
    /\ walk' = Idle
    /\ UNCHANGED <<shared, cook, failed, resource, ring, lifetime, late>>

ResourcesThread ==
    Take \/ Register \/ FirstReferer \/ CopyResult \/ ClearReference \/ EndHost

-----------------------------------------------------------------------------
(* The user lets the resource go: intrusive_ptr::dec and                   *)
(* unmanaged_intrusive_base::destroy.                                      *)

Release(q) ==
    LET r == resource[q] IN
    /\ at[q] = "ended"
    /\ IF r = None THEN Goto(q, "done") /\ UNCHANGED count
       ELSE /\ count' = [count EXCEPT ![r] = @ - 1]
            /\ Goto(q, IF count'[r] = 0 THEN "destroy" ELSE "done")
    /\ UNCHANGED <<registry, cook, outcome, ring, hasEntry, deleted, walk, late>>

\* the first look at the count, without the mutex
StillUnused(q) ==
    /\ at[q] = "destroy"
    /\ Goto(q, IF count[resource[q]] > 0 THEN "done" ELSE "entry")
    /\ UNCHANGED <<registry, cook, outcome, ring, lifetime, walk, late>>

ReadEntry(q) ==
    /\ at[q] = "entry"
    /\ Goto(q, IF hasEntry[resource[q]] THEN "unregister" ELSE "delete")
    /\ UNCHANGED <<registry, cook, outcome, ring, lifetime, walk, late>>

\* with the mutex: the second look at the count only logs, `return false` is
\* commented out.  The erasure is by address: a second one does not find the
\* entry (hash_multiset::erase asserts).
Unregister(q) ==
    LET r == resource[q] IN
    /\ at[q] = "unregister" /\ Goto(q, "delete")
    /\ shared' = IF shared = r THEN None ELSE shared
    /\ hasEntry' = [hasEntry EXCEPT ![r] = FALSE]
    /\ UNCHANGED <<host, cook, outcome, ring, count, deleted, walk, late>>

\* delete_unmanaged_resource, here or in the cook's thread
Delete(q) ==
    /\ at[q] = "delete" /\ Goto(q, "done")
    /\ deleted' = [deleted EXCEPT ![resource[q]] = @ + 1]
    /\ UNCHANGED <<registry, cook, outcome, ring, count, hasEntry, walk, late>>

Destroy(q) == StillUnused(q) \/ ReadEntry(q) \/ Unregister(q) \/ Delete(q)

-----------------------------------------------------------------------------
Next ==
    \/ ResourcesThread
    \/ \E q \in Queries : \/ Try(q) \/ Translate(q) \/ Translated(q) \/ FinishQuery(q)
                          \/ Release(q) \/ Destroy(q)

Spec == Init /\ [][Next]_vars

\* Every thread goes on with what it began and every cook finishes its query;
\* nobody need ask or let go.
Goes(q) == Translate(q) \/ Translated(q) \/ FinishQuery(q)

-----------------------------------------------------------------------------
(* Properties.                                                             *)

TypeOK ==
    /\ host \in Queries \cup {None} /\ shared \in Queries \cup {None}
    /\ at \in [Queries -> {"new", "translate", "translating", "waiting", "ended", "done",
                           "destroy", "entry", "unregister", "delete"}]
    /\ cooking \subseteq Queries /\ created \subseteq Queries /\ late \subseteq Queries
    /\ guard \in [Queries -> 0..2] /\ ended \in [Queries -> 0..1]
    /\ failed \in [Queries -> BOOLEAN] /\ isReferer \in [Queries -> BOOLEAN]
    /\ resource \in [Queries -> Queries \cup {None}] /\ next \in [Queries -> Queries]
    /\ count \in [Queries -> Nat] /\ deleted \in [Queries -> Nat]
    /\ hasEntry \in [Queries -> BOOLEAN]
    /\ walk.stage \in {"idle", "register", "first", "referers", "clear"}

\* A query that was asked ends, whichever way it meets the registry and whoever
\* finishes first, the cook or translate_query_if_needed; only one that joins a
\* host that is about to end with an error may be forgotten: the host leaves the
\* registry after it has walked its referers.
EveryQueryEnds ==
    <>[](\A q \in Queries : at[q] = "new" \/ ended[q] = 1 \/ q \in late)

\* "resource was reclaimed just when we were about to delete it": the resource
\* of a query that reused it is not deleted while the query has it.
ReclaimedIsNotDeleted ==
    \A q \in Queries : at[q] = "ended" /\ resource[q] # None => deleted[resource[q]] = 0
=============================================================================
