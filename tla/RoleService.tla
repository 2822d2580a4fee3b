------------------------------- MODULE RoleService -------------------------------
(***************************************************************************)
(* RoleService.findCached (src/packages/cli/src/services/role.service.ts), *)
(* the cache-aside lookup behind every find<Scope><Name>Role[OrFail]        *)
(* method: read the cache, on a miss read the role table, and put a found  *)
(* role in the cache without awaiting the put.                              *)
(*                                                                         *)
(* Callers run concurrently on the event loop; a call is a step per await: *)
(* the cache read, the table read, and, later, the fire-and-forget cache   *)
(* put.  A role is its (scope, name) key; the role table is seeded and     *)
(* nothing in the source changes it.                                       *)
(***************************************************************************)
EXTENDS Naturals, FiniteSets

CONSTANTS
    Callers,    \* concurrent callers of the role finders
    RoleKeys,   \* (scope, name) pairs the finders ask for
    MaxCalls,   \* bound: finder calls in a behaviour
    Absent      \* model value: no call in progress

VARIABLES
    roles,      \* keys with a row in the role table
    cache,      \* keys whose role is in the cache
    calls,      \* caller -> its latest findCached call, or Absent
    puts,       \* key -> cache.set calls started and not finished
    started     \* finder calls so far

roleVars == <<roles, cache, calls, puts, started>>

Outcomes == {"pending", "role", "null", "threw"}
Call == [key : RoleKeys, orFail : BOOLEAN, pc : {"get", "read", "done"}, outcome : Outcomes]

-----------------------------------------------------------------------------
\* A finder (lines 73-139) calls findCached(scope, name, {orFail}); its
\* first await is `cacheService.get(cacheKey)` (lines 30-33).
FindStart(c, key, orFail) ==
    /\ IF calls[c] = Absent THEN TRUE ELSE calls[c].pc = "done"
    /\ started < MaxCalls
    /\ started' = started + 1
    /\ calls' = [calls EXCEPT ![c] = [key |-> key, orFail |-> orFail, pc |-> "get",
                                      outcome |-> "pending"]]
    /\ UNCHANGED <<roles, cache, puts>>

\* Whether the awaited get finds the role: a hit or a miss (line 35).
GetHits(c) == calls[c].key \in cache

\* The get resolves: a cached role is returned (line 35), else the table
\* is read (lines 37-43).
FindGet(c) ==
    /\ calls[c] # Absent /\ calls[c].pc = "get"
    /\ calls' = [calls EXCEPT ![c] = IF GetHits(c) THEN [@ EXCEPT !.pc = "done", !.outcome = "role"]
                                     ELSE [@ EXCEPT !.pc = "read"]]
    /\ UNCHANGED <<roles, cache, puts, started>>

\* The table read of a miss: findRoleOrFail when orFail, else findRole.
FindRoleOrFail(c) == calls[c].orFail

\* What the read returns to the caller: the role, a throw or null.
ReadOutcome(c) ==
    IF calls[c].key \in roles THEN "role"
    ELSE IF FindRoleOrFail(c) THEN "threw" ELSE "null"

\* The read resolves (lines 39-49): a missing role throws under orFail and
\* is null otherwise; a found role is put in the cache with `void
\* cacheService.set` and returned.
FindRead(c) ==
    LET key == calls[c].key IN
    /\ calls[c] # Absent /\ calls[c].pc = "read"
    /\ calls' = [calls EXCEPT ![c] = [@ EXCEPT !.pc = "done", !.outcome = ReadOutcome(c)]]
    /\ puts' = IF key \in roles THEN [puts EXCEPT ![key] = @ + 1] ELSE puts
    /\ UNCHANGED <<roles, cache, started>>

\* A fire-and-forget cache.set finishes: the role is cached.
CachePut(key) ==
    /\ puts[key] > 0
    /\ puts' = [puts EXCEPT ![key] = @ - 1]
    /\ cache' = cache \cup {key}
    /\ UNCHANGED <<roles, calls, started>>

RoleInit ==
    /\ roles \in SUBSET RoleKeys
    /\ cache = {}
    /\ calls = [c \in Callers |-> Absent]
    /\ puts = [k \in RoleKeys |-> 0]
    /\ started = 0

====
