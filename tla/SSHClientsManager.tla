--------------------------- MODULE SSHClientsManager ---------------------------
(***************************************************************************)
(* The SSH connection cache of                                             *)
(* src/packages/core/src/execution-engine/ssh-clients-manager.ts.           *)
(*                                                                         *)
(* `clients` maps the hash of a connection config to one ssh2 Client and   *)
(* the time it was last handed out.  getClient returns a cached client or *)
(* connects a new one; the 'ready', 'error' and 'close' events of a       *)
(* client run the listeners getClient registered; a one-minute interval   *)
(* ends and forgets clients unused for five minutes; the process 'exit'   *)
(* handler ends every cached client.  All of it runs on one event loop, so *)
(* each listener and each synchronous part of getClient is one atomic     *)
(* step.                                                                   *)
(*                                                                         *)
(* A config hash is a model value of Keys.  Time is abstracted to the set  *)
(* of cached keys whose lastUsed is more than five minutes old (`stale`);  *)
(* time passing moves a key into it (Age), a cache hit or a new client     *)
(* takes it out.                                                           *)
(***************************************************************************)
EXTENDS FiniteSets

CONSTANTS
    Keys,       \* clientHash values: distinct connection configs
    Callers,    \* concurrent users of getClient (SSH node executions)
    ClientIds,  \* bound: ssh2 Client objects created in a behaviour
    None        \* model value: no cached client / no client held

ClientStates == {"unused", "connecting", "ready", "ending", "closed"}

VARIABLES
    clients,    \* this.clients: clientHash -> cached client, or None
    stale,      \* cached keys whose lastUsed is more than 5 minutes ago
    conn,       \* state of each ssh2 Client object
    key,        \* the clientHash captured by a client's listeners
    endedByUs,  \* clients this process called end() on
    callers,    \* each caller: idle, waiting for a connect, or holding a client
    shutdown,   \* the process 'exit' handler has run
    unhandled   \* an 'error' event was emitted with no listener attached

vars == <<clients, stale, conn, key, endedByUs, callers, shutdown, unhandled>>

Running == ~shutdown

\* The listener of 'close' (line 74): delete whatever is cached under the
\* client's hash, which need not be this client.
CloseHandlerNoop(c) == UNCHANGED <<clients, stale>>
CloseHandler(c) ==
    /\ clients' = [clients EXCEPT ![key[c]] = None]
    /\ stale' = stale \ {key[c]}

\* The promise of getClient settles: `resolve(sshClient)` (line 79) hands the
\* client to the caller waiting on it, `reject` (line 71) leaves it idle.
ResolveLost(c) == UNCHANGED callers
Resolve(c) ==
    callers' = [i \in Callers |->
                  IF callers[i] = [pc |-> "waiting", c |-> c]
                  THEN [pc |-> "holding", c |-> c] ELSE callers[i]]
Reject(c) ==
    callers' = [i \in Callers |->
                  IF callers[i] = [pc |-> "waiting", c |-> c]
                  THEN [pc |-> "idle", c |-> None] ELSE callers[i]]

\* Lines 63-82.  A hit refreshes lastUsed and returns the cached client; a
\* miss creates a Client, attaches the 'error' and 'ready' listeners and
\* starts connecting, leaving the caller waiting on the promise.
GetClient(i, k) ==
    /\ Running
    /\ callers[i].pc = "idle"
    /\ \/ /\ clients[k] # None
          /\ stale' = stale \ {k}
          /\ callers' = [callers EXCEPT ![i] = [pc |-> "holding", c |-> clients[k]]]
          /\ UNCHANGED <<clients, conn, key>>
       \/ /\ clients[k] = None
          /\ \E c \in ClientIds :
                /\ conn[c] = "unused"
                /\ conn' = [conn EXCEPT ![c] = "connecting"]
                /\ key' = [key EXCEPT ![c] = k]
                /\ callers' = [callers EXCEPT ![i] = [pc |-> "waiting", c |-> c]]
          /\ UNCHANGED <<clients, stale>>
    /\ UNCHANGED <<endedByUs, shutdown, unhandled>>

\* The 'ready' listener (lines 72-80): drop the 'error' listener, attach the
\* 'close' listener, cache the client (overwriting any entry) and resolve.
ConnReady(c) ==
    /\ Running
    /\ conn[c] = "connecting"
    /\ conn' = [conn EXCEPT ![c] = "ready"]
    /\ clients' = [clients EXCEPT ![key[c]] = c]
    /\ stale' = stale \ {key[c]}
    /\ Resolve(c)
    /\ UNCHANGED <<key, endedByUs, shutdown, unhandled>>

\* The 'error' listener `reject` (line 71) while connecting: the promise
\* rejects and the client is dead; no 'close' listener was attached.
ConnError(c) ==
    /\ Running
    /\ conn[c] = "connecting"
    /\ conn' = [conn EXCEPT ![c] = "closed"]
    /\ Reject(c)
    /\ UNCHANGED <<clients, stale, key, endedByUs, shutdown, unhandled>>

\* A connected client hits a socket error.  Line 73 removed the only
\* 'error' listener, so the EventEmitter throws it as an unhandled error.
NetworkError(c) ==
    /\ Running
    /\ conn[c] \in {"ready", "ending"}
    /\ ~unhandled
    /\ unhandled' = TRUE
    /\ UNCHANGED <<clients, stale, conn, key, endedByUs, callers, shutdown>>

\* A connected client closes, because the server hung up or after our
\* end(): the 'close' listener runs.
Closed(c) ==
    /\ Running
    /\ conn[c] \in {"ready", "ending"}
    /\ conn' = [conn EXCEPT ![c] = "closed"]
    /\ CloseHandler(c)
    /\ UNCHANGED <<key, endedByUs, callers, shutdown, unhandled>>

\* Time passes: a cached client's lastUsed becomes older than five minutes.
Age(k) ==
    /\ Running
    /\ clients[k] # None /\ k \notin stale
    /\ stale' = stale \cup {k}
    /\ UNCHANGED <<clients, conn, key, endedByUs, callers, shutdown, unhandled>>

\* cleanupStaleConnections (lines 91-102), run by the interval of line 44:
\* nothing if the map is empty, else end() and delete every stale entry.
CleanupStaleConnections ==
    /\ Running
    /\ \E k \in Keys : clients[k] # None
    /\ LET gone == {clients[k] : k \in {k2 \in stale : clients[k2] # None}} IN
       /\ conn' = [c \in ClientIds |-> IF c \in gone THEN "ending" ELSE conn[c]]
       /\ endedByUs' = endedByUs \cup gone
    /\ clients' = [k \in Keys |-> IF k \in stale THEN None ELSE clients[k]]
    /\ stale' = {}
    /\ UNCHANGED <<key, callers, shutdown, unhandled>>

\* The caller is done with its client (outside this file: the SSH node's
\* operation ends; it never ends the client itself).
Release(i) ==
    /\ Running
    /\ callers[i].pc = "holding"
    /\ callers' = [callers EXCEPT ![i] = [pc |-> "idle", c |-> None]]
    /\ UNCHANGED <<clients, stale, conn, key, endedByUs, shutdown, unhandled>>

\* onShutdown (lines 39, 85-89): the 'exit' handler ends every cached
\* client; the process then exits and nothing else runs.
OnShutdown ==
    /\ Running
    /\ LET cached == {clients[k] : k \in {k2 \in Keys : clients[k2] # None}} IN
       /\ conn' = [c \in ClientIds |-> IF c \in cached THEN "ending" ELSE conn[c]]
       /\ endedByUs' = endedByUs \cup cached
    /\ shutdown' = TRUE
    /\ UNCHANGED <<clients, stale, key, callers, unhandled>>

Init ==
    /\ clients = [k \in Keys |-> None]
    /\ stale = {}
    /\ conn = [c \in ClientIds |-> "unused"]
    /\ key = [c \in ClientIds |-> None]
    /\ endedByUs = {}
    /\ callers = [i \in Callers |-> [pc |-> "idle", c |-> None]]
    /\ shutdown = FALSE
    /\ unhandled = FALSE

Next ==
    \/ \E i \in Callers, k \in Keys : GetClient(i, k)
    \/ \E c \in ClientIds : ConnReady(c) \/ ConnError(c) \/ NetworkError(c) \/ Closed(c)
    \/ \E k \in Keys : Age(k)
    \/ CleanupStaleConnections
    \/ \E i \in Callers : Release(i)
    \/ OnShutdown

Spec == Init /\ [][Next]_vars

-----------------------------------------------------------------------------
TypeOK ==
    /\ clients \in [Keys -> ClientIds \cup {None}]
    /\ stale \subseteq Keys
    /\ conn \in [ClientIds -> ClientStates]
    /\ key \in [ClientIds -> Keys \cup {None}]
    /\ endedByUs \subseteq ClientIds
    /\ callers \in [Callers -> [pc : {"idle"}, c : {None}]
                            \cup [pc : {"waiting", "holding"}, c : ClientIds]]
    /\ shutdown \in BOOLEAN /\ unhandled \in BOOLEAN

\* A cache hit of getClient (lines 63-67) never hands out a client that was
\* ended or has closed: the 'close' listener and the cleanup must both
\* drop the entry of a client that goes away.
CacheHitIsLive ==
    [][\A i \in Callers :
         (callers[i].pc = "idle" /\ callers'[i].pc = "holding")
            => conn[callers'[i].c] = "ready"]_vars

\* Every connected client that this process did not end is the one cached
\* under its hash, so cleanupStaleConnections and onShutdown can still end
\* it.  Two concurrent misses (lines 63-80) or a late 'close' of an old
\* client (line 74) break this.
NoLeakedClient ==
    \A c \in ClientIds : conn[c] = "ready" => clients[key[c]] = c

\* While the process runs, no caller holds a client that this process
\* ended: cleanupStaleConnections (line 97) only looks at lastUsed, which
\* getClient alone refreshes.
HolderClientNotEnded ==
    Running => \A i \in Callers : callers[i].pc = "holding" => callers[i].c \notin endedByUs

\* No ssh2 client ever emits 'error' without a listener (after line 73
\* removed `reject`, nothing listens).
NoUnhandledClientError == ~unhandled

====
