------------------------------ MODULE CacheMetrics ------------------------------
(***************************************************************************)
(* The role finders and the Prometheus metrics service joined through the *)
(* cache service they share (src/packages/cli/src/services/role.service.ts *)
(* and src/packages/cli/src/metrics/prometheus-metrics.service.ts).  The   *)
(* cache service is not in the repository; as the metric names say, a get *)
(* that finds its key emits 'metrics.cache.hit', one that does not emits    *)
(* 'metrics.cache.miss', and a set emits 'metrics.cache.update', each      *)
(* synchronously when the call resolves -- so a role lookup's step and the *)
(* metrics listeners it triggers are one step.  The message event bus and   *)
(* init(app) are the environment.                                           *)
(***************************************************************************)
EXTENDS Naturals, FiniteSets, Functions, TLC

CONSTANTS
    Callers, RoleKeys, MaxCalls, Absent,
    EventNames, ValidNames, LabelledNames, LabelValues, MaxInits, MaxEvents, Null

VARIABLES
    roles, cache, calls, puts, started,
    flags, inits, registered, series, counters, cacheListeners, busListeners, seen, events

RS == INSTANCE RoleService
PM == INSTANCE PrometheusMetricsService

roleVars    == <<roles, cache, calls, puts, started>>
metricsVars == <<flags, inits, registered, series, counters, cacheListeners,
                 busListeners, seen, events>>
vars == <<roleVars, metricsVars>>

\* A role lookup's cache get resolves, with its hit or miss event.
Get(c) ==
    /\ RS!FindGet(c)
    /\ PM!OnCacheEvent(IF RS!GetHits(c) THEN "hit" ELSE "miss")

\* A fire-and-forget put finishes, with its update event.
Put(key) == RS!CachePut(key) /\ PM!OnCacheEvent("update")

Init == RS!RoleInit /\ PM!MetricsInitState

Next ==
    \/ \E c \in Callers, k \in RoleKeys, f \in BOOLEAN :
          RS!FindStart(c, k, f) /\ UNCHANGED metricsVars
    \/ \E c \in Callers : Get(c)
    \/ \E c \in Callers : RS!FindRead(c) /\ UNCHANGED metricsVars
    \/ \E k \in RoleKeys : Put(k)
    \/ PM!MetricsInit /\ UNCHANGED roleVars
    \/ \E n \in EventNames, v \in LabelValues : PM!OnBusEvent(n, v) /\ UNCHANGED roleVars

Spec == Init /\ [][Next]_vars

\* Callers are interchangeable: nothing in findCached depends on which one calls.
CallerSymmetry == Permutations(Callers)

-----------------------------------------------------------------------------
TypeOK ==
    /\ roles \subseteq RoleKeys /\ cache \subseteq RoleKeys
    /\ calls \in [Callers -> RS!Call \cup {Absent}]
    /\ puts \in [RoleKeys -> 0..MaxCalls] /\ started \in 0..MaxCalls
    /\ inits \in 0..MaxInits /\ registered \subseteq PM!Counter
    /\ DOMAIN series \subseteq PM!Counter
    /\ \A c \in DOMAIN series : series[c] \in [PM!SeriesKeys -> Nat]
    /\ DOMAIN counters \subseteq PM!Keys
    /\ \A k \in DOMAIN counters : counters[k] \in PM!Counter \cup {Null}
    /\ seen \in [PM!Emitted -> [PM!SeriesKeys -> Nat]] /\ events \in 0..MaxEvents

\* The this.counters key of the counter that counts each cache event, as
\* the metric it is registered under names it (lines 112-128).
CountedUnder == [hit |-> "cacheHitsTotal", miss |-> "cacheMissesTotal",
                 update |-> "cacheUpdatesTotal"]
KeyOf(e) == IF e \in PM!CacheKinds THEN CountedUnder[e] ELSE e

\* What /metrics exports for an emitted kind or name: the counter stored
\* for it, when that counter is in the registry.
Exported(e) == PM!Stored(KeyOf(e)) /\ counters[KeyOf(e)] \in registered

\* Every counter the registry exports totals exactly the events emitted
\* since init(app): cache hits, misses and updates from the role lookups'
\* gets and puts, and each event-bus event.  Listeners attached by an
\* earlier init, a counter made again for a stored name (toCounter's
\* memoisation, line 132) or a listener wired to the wrong counter would
\* each break it.
ExportedTotalsMatchEvents ==
    \A e \in PM!Emitted :
        Exported(e) => SumFunction(series[counters[KeyOf(e)]]) = SumFunction(seen[e])

\* Once init(app) has set up event-bus metrics, every event emitted under
\* a valid metric name is exported: toCounter (lines 131-153) makes and
\* registers its counter at the first such event.
EveryEventExported ==
    (inits > 0 /\ flags.logsMetrics) =>
        \A n \in ValidNames : SumFunction(seen[n]) > 0 => Exported(n)

\* Each series of an exported event counter counts the events that carry
\* its labels: toLabels computes the labels (lines 141-148), and the
\* listener must count under them (`counter.inc(1)`, line 161).
EventCountedPerLabel ==
    \A n \in EventNames :
        Exported(n) => \A s \in PM!SeriesKeys : series[counters[n]][s] = seen[n][s]

====
