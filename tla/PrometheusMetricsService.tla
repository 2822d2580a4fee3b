--------------------------- MODULE PrometheusMetricsService ---------------------------
(***************************************************************************)
(* PrometheusMetricsService                                                 *)
(* (src/packages/cli/src/metrics/prometheus-metrics.service.ts): the        *)
(* counters it registers in prom-client's global registry and the         *)
(* listeners it attaches to the cache service and to the message event    *)
(* bus, which count cache hits, misses and updates and event-bus events.  *)
(*                                                                         *)
(* Every method and listener is synchronous, so init(app) and the handling *)
(* of one emitted event are each one step.  A prom-client Counter is the   *)
(* key this.counters stores it under and the init that made it; its value *)
(* is a number per label set (series).  The gauges, default metrics, API   *)
(* middleware and /metrics endpoint register nothing the counters depend   *)
(* on and are left out.                                                     *)
(***************************************************************************)
EXTENDS Naturals, FiniteSets, Functions

CONSTANTS
    EventNames,     \* eventName of the messages the event bus relays
    ValidNames,     \* those whose derived metric name validateMetricName accepts
    LabelledNames,  \* those whose type and name give them a label in toLabels
    LabelValues,    \* payload values a label takes (workflow id, node or credential type)
    MaxInits,       \* bound: calls of init(app)
    MaxEvents,      \* bound: event-bus events emitted in a behaviour
    Null            \* model value: JavaScript null

ASSUME ValidNames \subseteq EventNames /\ LabelledNames \subseteq EventNames

CacheKinds == {"hit", "miss", "update"}
NoLabels == "nolabels"                 \* the series of an empty label set
SeriesKeys == {NoLabels} \cup LabelValues

\* The this.counters keys setupCacheMetrics stores its counters under, per
\* cache event (lines 118-128).
CacheCounterSwapped ==
    [hit |-> "cacheMissesTotal", miss |-> "cacheHitsTotal", update |-> "cacheUpdatesTotal"]
CacheCounter ==
    [hit |-> "cacheHitsTotal", miss |-> "cacheMissesTotal", update |-> "cacheUpdatesTotal"]

Keys == Range(CacheCounter) \cup EventNames
\* What is emitted: a cache event kind or an event-bus event name.
Emitted == CacheKinds \cup EventNames
Counter == [key : Keys, gen : 1..MaxInits]
Zero == [s \in SeriesKeys |-> 0]

VARIABLES
    flags,          \* this.includes, read from the config at construction
    inits,          \* init(app) calls so far
    registered,     \* the Counter objects in promClient.register
    series,         \* Counter object -> series -> value
    counters,       \* this.counters: key -> Counter object or Null
    cacheListeners, \* listeners this service attached to each cache metrics event
    busListeners,   \* listeners it attached to 'metrics.messageEventBus.Event'
    seen,           \* history: emitted events per kind or name and series since the last init
    events          \* event-bus events emitted so far

metricsVars == <<flags, inits, registered, series, counters, cacheListeners,
                 busListeners, seen, events>>

SetCounter(key, c) == [k \in DOMAIN counters \cup {key} |-> IF k = key THEN c ELSE counters[k]]

Stored(key) == key \in DOMAIN counters /\ counters[key] # Null

-----------------------------------------------------------------------------
\* setupCacheMetrics (lines 109-129): three new counters, stored, and one
\* more listener per cache event -- nothing when cache metrics are off.
SetupCacheMetrics(gen) ==
    LET new == {[key |-> k, gen |-> gen] : k \in Range(CacheCounter)} IN
    IF flags.cacheMetrics
    THEN /\ series' = [x \in DOMAIN series \cup new |-> IF x \in new THEN Zero ELSE series[x]]
         /\ counters' = [k \in DOMAIN counters \cup Range(CacheCounter) |->
                           IF k \in Range(CacheCounter) THEN [key |-> k, gen |-> gen]
                           ELSE counters[k]]
         /\ cacheListeners' = cacheListeners + 1
    ELSE UNCHANGED <<series, counters, cacheListeners>>

\* init(app) (lines 39-47): `promClient.register.clear()` unregisters every
\* metric -- this.counters and the listeners attached earlier stay -- then
\* the cache counters and listener and the event-bus listener are set up
\* (setupMessageEventBusMetrics, lines 155-163).
MetricsInit ==
    /\ inits < MaxInits
    /\ inits' = inits + 1
    /\ SetupCacheMetrics(inits + 1)
    /\ registered' = IF flags.cacheMetrics
                     THEN {[key |-> k, gen |-> inits + 1] : k \in Range(CacheCounter)}
                     ELSE {}
    /\ busListeners' = IF flags.logsMetrics THEN busListeners + 1 ELSE busListeners
    /\ seen' = [e \in Emitted |-> Zero]
    /\ UNCHANGED <<flags, events>>

\* The cache service emits a cache event: each attached listener runs
\* `this.counters.<kind>?.inc(1)` on the counter stored now.  The cache
\* calls that emit are bounded by their callers.
OnCacheEvent(kind) ==
    LET key == CacheCounter[kind] IN
    /\ seen' = [seen EXCEPT ![kind][NoLabels] = @ + 1]
    /\ series' = IF Stored(key) /\ cacheListeners > 0
                 THEN [series EXCEPT ![counters[key]][NoLabels] = @ + cacheListeners]
                 ELSE series
    /\ UNCHANGED <<flags, inits, registered, counters, cacheListeners, busListeners, events>>

\* toLabels (lines 165-197): a label only for the event types that have one
\* and only when its include flag is set; the empty set otherwise.
toLabels(name, value) ==
    IF name \in LabelledNames /\ flags.label THEN value ELSE NoLabels

\* The test of toCounter (lines 132, 136): a counter is made when none is
\* stored and the metric name is valid.
CreatesNoMemo(name) == name \in ValidNames
Creates(name) == ~Stored(name) /\ name \in ValidNames

\* toCounter (lines 131-153): the stored counter, a new one, or Null.
toCounterForgetsStored(name) ==
    IF Creates(name) THEN [key |-> name, gen |-> inits] ELSE Null
toCounter(name) ==
    IF Creates(name) THEN [key |-> name, gen |-> inits]
    ELSE IF Stored(name) THEN counters[name] ELSE Null

\* The event bus emits an event: each attached listener (lines 158-162)
\* runs toCounter and then `counter.inc(1)` -- with no labels.  The first
\* listener makes the counter; the others find it stored.  toCounter
\* returns Null only when nothing is stored and the name is invalid, the
\* path that stores null (line 137).
OnBusEvent(name, value) ==
    LET c == toCounter(name) IN
    /\ events < MaxEvents
    /\ events' = events + 1
    /\ seen' = [seen EXCEPT ![name][toLabels(name, value)] = @ + 1]
    /\ \/ /\ busListeners = 0
          /\ UNCHANGED <<registered, series, counters>>
       \/ /\ busListeners > 0 /\ c = Null
          /\ counters' = SetCounter(name, Null)
          /\ UNCHANGED <<registered, series>>
       \/ /\ busListeners > 0 /\ c # Null /\ ~Creates(name)
          /\ series' = [series EXCEPT ![c][NoLabels] = @ + busListeners]
          /\ UNCHANGED <<registered, counters>>
       \/ /\ busListeners > 0 /\ c # Null /\ Creates(name)
          /\ registered' = registered \cup {c}
          /\ series' = [x \in DOMAIN series \cup {c} |->
                          IF x = c THEN [Zero EXCEPT ![NoLabels] = busListeners]
                          ELSE series[x]]
          /\ counters' = SetCounter(name, c)
    /\ UNCHANGED <<flags, inits, cacheListeners, busListeners>>

MetricsInitState ==
    /\ flags \in [cacheMetrics : BOOLEAN, logsMetrics : BOOLEAN, label : BOOLEAN]
    /\ inits = 0 /\ registered = {} /\ series = <<>> /\ counters = <<>>
    /\ cacheListeners = 0 /\ busListeners = 0
    /\ seen = [e \in Emitted |-> Zero] /\ events = 0

====
