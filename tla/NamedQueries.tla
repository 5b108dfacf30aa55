---------------------------- MODULE NamedQueries ----------------------------
(***************************************************************************)
(* The queries that ask the resources manager for one name, in one life of *)
(* the engine, and what the name registry may name; NameRegistry says how  *)
(* the manager serves them.  A resource bears the name of the query that   *)
(* cooked it.                                                              *)
(***************************************************************************)
EXTENDS FiniteSets

CONSTANTS
    Queries,
    None            \* no query

ASSUME QueriesAssumption == IsFiniteSet(Queries) /\ None \notin Queries

VARIABLES
    host,           \* the query the registry names, or None
    shared,         \* the resource the registry names, or None
    cooking,        \* the cook has been called and has not finished the query
    created,        \* m_created_resources
    walk,           \* the resources thread in on_create_resource_end
    isReferer,      \* flag_is_referer
    ended,          \* how often the query told its parent that it ended
    deleted         \* how often each resource was destroyed

Walks(stage) == walk.stage = stage

\* The query whose cook was called and that has not ended.
IsCooked(q) == q \in cooking \/ q \in created \/ (Walks("register") /\ walk.host = q)

\* What the registry names is alive, and what is being cooked is what it names:
\* no two queries cook the name at the same time, although they look at the
\* registry twice; a named resource is not deleted, although destroy looks at
\* the count before it has the mutex; a host has not ended.
RegistryNamesWhatLives ==
    /\ host = None \/ shared = None
    /\ host # None => ended[host] = 0 /\ ~isReferer[host]
    /\ shared # None => deleted[shared] = 0
    /\ \A q \in Queries : IsCooked(q) => host = q
=============================================================================
