------------------------- MODULE ActiveWorkflowManager -------------------------
(***************************************************************************)
(* The activation lifecycle of src/packages/cli/src/active-workflow-manager.ts *)
(* together with the in-memory registry it drives (ActiveWorkflows of      *)
(* n8n-core, whose source is not in the repository and is modelled from   *)
(* spec section 4.1).                                                      *)
(*                                                                         *)
(* The server is one Node.js event loop: every async call of the manager  *)
(* is a task whose steps are the synchronous segments between two         *)
(* `await`s.  A step of a task is atomic; steps of different tasks        *)
(* interleave arbitrarily.  Tasks are started by the startup / leadership *)
(* batch driver (addActiveWorkflows), by retry timers (the retryFunction  *)
(* closure of addQueuedWorkflowActivation) and by the REST API (add and   *)
(* remove called by the workflow service, which is outside src/).         *)
(*                                                                         *)
(* Data is abstracted to what the lifecycle tells apart: a workflow is a  *)
(* model value, the trigger and poll handles opened by one call of        *)
(* ActiveWorkflows.add are one handle, the webhook rows of a workflow are *)
(* one membership bit, an activation error is its kind (authorization or *)
(* other).                                                                 *)
(***************************************************************************)
EXTENDS Integers, FiniteSets, FiniteSetsExt, Functions

CONSTANTS
    Workflows,      \* workflow ids stored in the workflow table
    Startable,      \* workflows with an eligible start node (checkIfWorkflowCanBeActivated)
    HasWebhooks,    \* workflows whose getWorkflowWebhooks list is non-empty
    HasTriggers,    \* workflows with trigger or poll nodes (getTriggerNodes/getPollNodes)
    MultiMain,      \* instanceSettings.isMultiMain
    UserWorkflows,  \* workflows the REST API activates / deactivates
    BatchSize,      \* workflowsConfig.activationBatchSize
    InitialTimeout, \* WORKFLOW_REACTIVATE_INITIAL_TIMEOUT (in abstract units)
    MaxTimeout,     \* WORKFLOW_REACTIVATE_MAX_TIMEOUT
    BackoffSteps,   \* bound of the failure history counter of a queued activation
    TaskIds,        \* bound: async calls in flight at once
    TimerIds,       \* bound: pending retry timers per workflow
    HandleIds,      \* bound: open trigger handles per workflow
    MaxEnvSteps,    \* bound: calls from outside (trigger failures, REST calls) in a behaviour
    None            \* model value: absent entry / spent reference

ASSUME /\ Startable \subseteq Workflows /\ HasWebhooks \subseteq Workflows
       /\ HasTriggers \subseteq Workflows
       /\ MultiMain \in BOOLEAN /\ UserWorkflows \subseteq Workflows
       /\ BatchSize \in Nat \ {0} /\ MaxEnvSteps \in Nat
       /\ InitialTimeout \in Nat \ {0} /\ MaxTimeout >= InitialTimeout
       /\ InitialTimeout * 2^BackoffSteps >= MaxTimeout

\* WorkflowActivateMode; 'update' takes the same branch as 'activate' in every
\* condition of the file (shouldAddWebhooks, the skip check), so it is folded into it.
Modes == {"init", "leadershipChange", "activate"}
Origins == {"batch", "retry", "user"}
\* Resumption points of add() and remove(): the code after each await.
PCs == {"start", "read", "webhooks", "triggers", "store", "dereg", "caught", "clear", "final"}
ErrorKinds == {"auth", "other"}   \* error.message.includes('Authorization') or not

VARIABLES
    dbActive,   \* workflow_entity.active, per workflow (storage)
    webhooks,   \* workflows with rows in webhook_entity (storage)
    errors,     \* the activation error registered per workflow, or None (ActivationErrorsService)
    isLeader,   \* instanceSettings.isLeader
    registry,   \* ActiveWorkflows.activeWorkflows: workflow -> handle id stored, or None
    live,       \* trigger/poll handles opened and not closed: [w, h, mode]
    queued,     \* this.queuedActivations: workflow -> entry or None
    timers,     \* pending setTimeout(retryFunction) timers: [w, id, mode]
    tasks,      \* async calls in flight: task id -> task record or None
    driver,     \* addActiveWorkflows in progress: [mode, todo] or None
    outbox,     \* commands published to the other mains: [cmd, w]
    retryThrew, \* a retryFunction rejected (unhandled) -- see RetryNeverThrows
    envSteps    \* emitError and REST calls so far, bounded by MaxEnvSteps

vars == <<dbActive, webhooks, errors, isLeader, registry, live, queued,
          timers, tasks, driver, outbox, retryThrew, envSteps>>

Handle == [w : Workflows, h : HandleIds, mode : Modes]
Timer  == [w : Workflows, id : TimerIds, mode : Modes]
\* QueuedActivation (line 59); `fails` is a history counter of the failed
\* retries since the entry was created, kept only to state BackoffLaw.
Entry  == [mode : Modes, lastTimeout : InitialTimeout..MaxTimeout,
           timer : TimerIds \cup {None}, fails : 0..BackoffSteps]
Task   == [kind : {"add", "remove"}, w : Workflows, mode : Modes,
           origin : Origins, pc : PCs, snap : BOOLEAN,
           wh : BOOLEAN, tp : BOOLEAN, h : HandleIds \cup {None},
           err : ErrorKinds \cup {None}]

-----------------------------------------------------------------------------
(* Pure helpers                                                             *)

\* shouldAddWebhooks (lines 873-883)
shouldAddWebhooks(mode) ==
    CASE mode = "init"             -> TRUE
      [] mode = "leadershipChange" -> FALSE
      [] OTHER                     -> isLeader

\* shouldAddTriggersAndPollers (lines 891-893)
shouldAddTriggersAndPollers == isLeader

\* Mutant: the back-off doubles without the cap at maxTimeout.
NextTimeoutUncapped(lt) == lt * 2

\* Mutant: the back-off is never increased.
NextTimeoutFlat(lt) == lt

\* The retry back-off step of retryFunction (lines 696-699).
NextTimeout(lt) == IF lt < MaxTimeout THEN Min({lt * 2, MaxTimeout}) ELSE lt

FreeTasks == {t \in TaskIds : tasks[t] = None}
FreeHandles(w) == {i \in HandleIds : \A x \in live : x.w = w => x.h # i}
InFlight(w, origin) == \E t \in TaskIds : tasks[t] # None /\ tasks[t].w = w
                                        /\ tasks[t].origin = origin

NewTask(kind, w, mode, origin, snap) ==
    [kind |-> kind, w |-> w, mode |-> mode, origin |-> origin,
     pc |-> "start", snap |-> snap, wh |-> FALSE, tp |-> FALSE, h |-> None, err |-> None]

IsAdd(t, pc) == tasks[t] # None /\ tasks[t].kind = "add" /\ tasks[t].pc = pc
Done(t) == tasks' = [tasks EXCEPT ![t] = None]

\* A freshly started add() runs synchronously up to its first await (the
\* timer callback, the batch map or the API handler that called it has not
\* yielded): nothing else runs while one is at "start".
Settled == \A t \in TaskIds : ~IsAdd(t, "start")
\* A continuation after an await, a callback or a new macrotask runs only
\* once every synchronous prefix spawned before it has run.
Resumes(t, pc) == Settled /\ IsAdd(t, pc)
Goto(t, pc) == tasks' = [tasks EXCEPT ![t].pc = pc]

-----------------------------------------------------------------------------
(* Shared state transformers: synchronous code reached from several steps  *)

\* The pending timers after clearTimeout of the timer the entry of w
\* references (line 741; a no-op when that timer already fired).
ClearedTimers(w) ==
    IF queued[w] # None
    THEN {tm \in timers : ~(tm.w = w /\ tm.id = queued[w].timer)}
    ELSE timers

\* Mutant: the previous entry's timer is not cleared before re-queueing.
AddQueuedNoClear(mode, w) ==
    LET free == {i \in TimerIds : \A tm \in timers : tm.w = w => tm.id # i}
    IN /\ free # {}
       /\ timers' = timers \cup {[w |-> w, id |-> Min(free), mode |-> mode]}
       /\ queued' = [queued EXCEPT ![w] = [mode |-> mode, lastTimeout |-> InitialTimeout,
                                           timer |-> Min(free), fails |-> 0]]

\* Mutant: the timer is cleared but the entry is not deleted.
RemoveQueuedKeepsEntry(w) ==
    /\ timers' = ClearedTimers(w)
    /\ queued' = queued

\* removeQueuedWorkflowActivation (lines 739-744).
RemoveQueued(w) ==
    /\ timers' = ClearedTimers(w)
    /\ queued' = [queued EXCEPT ![w] = None]

\* addQueuedWorkflowActivation (lines 680-734): remove the previous entry,
\* store a new one whose timer runs retryFunction with the closure's mode.
\* Enabled only while a timer id is free (the TimerIds bound).
AddQueued(mode, w) ==
    LET rest == ClearedTimers(w)
        free == {i \in TimerIds : \A tm \in rest : tm.w = w => tm.id # i}
    IN /\ free # {}
       /\ timers' = rest \cup {[w |-> w, id |-> Min(free), mode |-> mode]}
       /\ queued' = [queued EXCEPT ![w] = [mode |-> mode, lastTimeout |-> InitialTimeout,
                                           timer |-> Min(free), fails |-> 0]]

\* ActiveWorkflows.remove (spec 4.1): the entry is deleted and the handles it
\* stores are closed; a close error only changes what the caller is told.
RegistryRemove(w) ==
    /\ registry' = [registry EXCEPT ![w] = None]
    /\ live' = {x \in live : ~(x.w = w /\ x.h = registry[w])}

\* The REST caller of add (workflow update/activate, not in this source
\* tree; spec section 7): the error is returned to the user and "the
\* background retry bookkeeping [is] set up identically to the startup
\* path": no retry after an authorization error, otherwise a queued
\* activation in the caller's mode.
ApiActivationFailed(w, kind) ==
    /\ IF kind = "auth" THEN UNCHANGED <<queued, timers>>
                        ELSE AddQueued("activate", w)
    /\ UNCHANGED retryThrew

\* add()'s catch (lines 603-609): `await register` of the error, then the
\* rejection reaches the caller's catch (CallerCatch).
Fail(t, kind) ==
    /\ errors' = [errors EXCEPT ![tasks[t].w] = kind]
    /\ tasks' = [tasks EXCEPT ![t].pc = "caught", ![t].err = kind]
    /\ UNCHANGED <<queued, timers, retryThrew>>

\* Lines 598-601, reached from the end of ActiveWorkflows.add through
\* microtasks only: the queued activation is removed (its timer cleared)
\* before `await activationErrorsService.deregister` (AddDeregister).
Succeeded(t) ==
    /\ RemoveQueued(tasks[t].w)
    /\ Goto(t, "dereg")
    /\ UNCHANGED errors

-----------------------------------------------------------------------------
(* add(workflowId, activationMode, existingWorkflow, {shouldPublish})      *)
(* (lines 517-617), one action per segment between awaits.                 *)

\* shouldPublish is false only for activateWorkflow (line 443).
ShouldPublish(k) == MultiMain /\ k.origin # "batch"

\* Lines 550-583, run on the record's `active` flag: skip an init or
\* leadership activation of a record no longer active (`return false`),
\* fail without a start node, else continue (k holds the decisions made at
\* the start).  Every caller in the source passes active = TRUE for those
\* modes, so the skip is dead code (run skips_inactive).
Checked(t, k, active) ==
    IF k.mode \in {"init", "leadershipChange"} /\ ~active
    THEN Done(t) /\ UNCHANGED <<errors, queued, timers, retryThrew>>
    ELSE \/ /\ k.w \notin Startable
            /\ Fail(t, "other")
         \/ /\ k.w \in Startable
            /\ tasks' = [tasks EXCEPT ![t] = [k EXCEPT !.pc = "webhooks"]]
            /\ UNCHANGED <<errors, queued, timers, retryThrew>>

\* Lines 523-548: publish to the leader and return, or decide now, from
\* isLeader, what to add, then run the checks on the record passed in
\* (`existingWorkflow`, read while it was active: no await) or await findById.
AddStart(t) ==
    LET k  == tasks[t]
        kd == [k EXCEPT !.wh = shouldAddWebhooks(k.mode),
                        !.tp = shouldAddTriggersAndPollers, !.pc = "read"]
    IN
    /\ IsAdd(t, "start")
    /\ \/ /\ ShouldPublish(k)
          /\ outbox' = outbox \cup {[cmd |-> "add-webhooks-triggers-and-pollers", w |-> k.w]}
          /\ Done(t)
          /\ UNCHANGED <<errors, queued, timers, retryThrew>>
       \/ /\ ~ShouldPublish(k) /\ k.snap
          /\ Checked(t, kd, TRUE)
          /\ UNCHANGED outbox
       \/ /\ ~ShouldPublish(k) /\ ~k.snap
          /\ tasks' = [tasks EXCEPT ![t] = kd]
          /\ UNCHANGED <<errors, queued, timers, retryThrew, outbox>>
    /\ UNCHANGED <<envSteps, dbActive, webhooks, isLeader, registry, live, driver>>

\* After `await findById` (line 542): the checks on the record just read.
AddRead(t) ==
    /\ Resumes(t, "read")
    /\ Checked(t, tasks[t], dbActive[tasks[t].w])
    /\ UNCHANGED <<envSteps, dbActive, webhooks, isLeader, registry, live, driver, outbox>>

\* addWebhooks (lines 149-227, called at line 587), its awaits collapsed:
\* nothing to do when not asked or without webhook nodes (line 158); rows
\* stored; at init, a QueryFailedError -- the duplicate insert of rows an
\* earlier run left (comment of lines 193-196) -- is skipped (line 192); any
\* other failure removes the workflow's rows (clearWebhooks, line 202) and
\* throws.
AddWebhooks(t) ==
    LET k == tasks[t] IN
    /\ Resumes(t, "webhooks")
    /\ \/ /\ ~(k.wh /\ k.w \in HasWebhooks)
          /\ Goto(t, "triggers") /\ UNCHANGED <<webhooks, errors, queued, timers, retryThrew>>
       \/ /\ k.wh /\ k.w \in HasWebhooks
          /\ webhooks' = webhooks \cup {k.w}
          /\ Goto(t, "triggers") /\ UNCHANGED <<errors, queued, timers, retryThrew>>
       \/ /\ k.wh /\ k.w \in HasWebhooks /\ k.mode = "init" /\ k.w \in webhooks
          /\ Goto(t, "triggers") /\ UNCHANGED <<webhooks, errors, queued, timers, retryThrew>>
    /\ UNCHANGED <<envSteps, dbActive, isLeader, registry, live, driver, outbox>>

AddWebhooksFail(t) ==
    LET k == tasks[t] IN
    /\ Resumes(t, "webhooks")
    /\ k.wh /\ k.w \in HasWebhooks
    /\ webhooks' = webhooks \ {k.w}
    /\ Fail(t, "other")
    /\ UNCHANGED <<envSteps, dbActive, isLeader, registry, live, driver, outbox>>

\* addTriggersAndPollers (lines 590-596, 819-864): skipped on a follower or
\* without trigger/poll nodes; else ActiveWorkflows.add activates the
\* trigger and poll nodes (spec 4.1): their handle is open from here on.
AddTriggers(t) ==
    LET k == tasks[t] IN
    /\ Resumes(t, "triggers")
    /\ \/ /\ ~(k.tp /\ k.w \in HasTriggers)
          /\ Succeeded(t) /\ UNCHANGED live
       \/ /\ k.tp /\ k.w \in HasTriggers
          /\ FreeHandles(k.w) # {}
          /\ LET h == Min(FreeHandles(k.w)) IN
             /\ live' = live \cup {[w |-> k.w, h |-> h, mode |-> k.mode]}
             /\ tasks' = [tasks EXCEPT ![t] = [k EXCEPT !.pc = "store", !.h = h]]
          /\ UNCHANGED <<errors, queued, timers>>
    /\ UNCHANGED <<envSteps, dbActive, webhooks, isLeader, registry, driver, outbox, retryThrew>>

\* ActiveWorkflows.add completes: the entry is stored under the workflow id,
\* replacing whatever entry was stored there; add() then succeeds.
AddStore(t) ==
    LET k == tasks[t] IN
    /\ Resumes(t, "store")
    /\ registry' = [registry EXCEPT ![k.w] = k.h]
    /\ Succeeded(t)
    /\ UNCHANGED <<envSteps, dbActive, webhooks, isLeader, live, driver, outbox, retryThrew>>

\* ActiveWorkflows.add fails (a trigger node, the cron check or the first
\* poll throws): the handles opened so far are closed, ActivationError.
AddStoreFail(t, kind) ==
    LET k == tasks[t] IN
    /\ Resumes(t, "store")
    /\ live' = live \ {[w |-> k.w, h |-> k.h, mode |-> k.mode]}
    /\ Fail(t, kind)
    /\ UNCHANGED <<envSteps, dbActive, webhooks, isLeader, registry, driver, outbox>>

\* The registered error has been awaited (line 606); the deregistration
\* of a successful add (line 601) and the storage writes after it.
AddDeregister(t) ==
    /\ Resumes(t, "dereg")
    /\ errors' = [errors EXCEPT ![tasks[t].w] = None]
    /\ Done(t)
    /\ UNCHANGED <<envSteps, dbActive, webhooks, isLeader, registry, live, queued, timers,
                   driver, outbox, retryThrew>>

\* The caller's catch, after add() rejected: activateWorkflow (lines
\* 453-476) queues a retry unless it is an authorization error;
\* retryFunction (lines 694-713) doubles the back-off of whatever entry is
\* now stored for the workflow and arms a new timer in it -- without
\* clearing the timer that entry already holds -- and throws a TypeError
\* when there is no entry; the REST caller is ApiActivationFailed.
CallerCatch(t) ==
    LET k == tasks[t] IN
    /\ Resumes(t, "caught")
    /\ Done(t)
    /\ CASE k.origin = "batch" ->
              IF k.err = "auth" THEN UNCHANGED <<queued, timers, retryThrew>>
              ELSE AddQueued("init", k.w) /\ UNCHANGED retryThrew
         [] k.origin = "retry" /\ queued[k.w] = None ->
              retryThrew' = TRUE /\ UNCHANGED <<queued, timers>>
         [] k.origin = "retry" ->
              LET e    == queued[k.w]
                  free == {i \in TimerIds : \A tm \in timers : tm.w = k.w => tm.id # i}
              IN /\ free # {}
                 /\ timers' = timers \cup {[w |-> k.w, id |-> Min(free), mode |-> k.mode]}
                 /\ queued' = [queued EXCEPT ![k.w] =
                                 [e EXCEPT !.lastTimeout = NextTimeout(e.lastTimeout),
                                           !.timer = Min(free),
                                           !.fails = Min({@ + 1, BackoffSteps})]]
                 /\ UNCHANGED retryThrew
         [] OTHER -> ApiActivationFailed(k.w, k.err)
    /\ UNCHANGED <<envSteps, dbActive, webhooks, errors, isLeader, registry, live, driver, outbox>>

-----------------------------------------------------------------------------
(* remove(workflowId) (lines 762-814)                                       *)

IsRemove(t, pc) == Settled /\ tasks[t] # None /\ tasks[t].kind = "remove" /\ tasks[t].pc = pc

\* `await clearWebhooks` (lines 765, 782), whose failure is caught and
\* logged (766-771, 783-788) with the rows left; in multi-main then publish
\* the removal of triggers and pollers to all mains and return (773-778).
RemoveStart(t) ==
    LET w == tasks[t].w IN
    /\ IsRemove(t, "clear")
    /\ webhooks' \in {webhooks \ {w}, webhooks}
    /\ \/ /\ MultiMain
          /\ outbox' = outbox \cup {[cmd |-> "remove-triggers-and-pollers", w |-> w]}
          /\ Done(t)
       \/ /\ ~MultiMain
          /\ Goto(t, "dereg")
          /\ UNCHANGED outbox
    /\ UNCHANGED <<envSteps, dbActive, errors, isLeader, registry, live, queued, timers,
                   driver, retryThrew>>

\* `await activationErrorsService.deregister` (line 790).
RemoveDeregister(t) ==
    /\ IsRemove(t, "dereg")
    /\ errors' = [errors EXCEPT ![tasks[t].w] = None]
    /\ Goto(t, "final")
    /\ UNCHANGED <<envSteps, dbActive, webhooks, isLeader, registry, live, queued, timers,
                   driver, outbox, retryThrew>>

\* Lines 792-813: drop the queued activation, and the in-memory triggers and
\* pollers if the workflow is active in memory.
RemoveFinal(t) ==
    LET w == tasks[t].w IN
    /\ IsRemove(t, "final")
    /\ RemoveQueued(w)
    /\ IF registry[w] # None THEN RegistryRemove(w) ELSE UNCHANGED <<registry, live>>
    /\ Done(t)
    /\ UNCHANGED <<envSteps, dbActive, webhooks, errors, isLeader, driver, outbox, retryThrew>>

-----------------------------------------------------------------------------
(* Callbacks                                                                *)

\* A retry timer fires: retryFunction (lines 687-693) calls add() with the
\* closure's mode and workflow record and the default shouldPublish.  The
\* entry whose timer this was now holds a spent reference.
FireTimer(tm) ==
    /\ Settled
    /\ tm \in timers
    /\ FreeTasks # {}
    /\ timers' = timers \ {tm}
    /\ queued' = IF queued[tm.w] # None /\ queued[tm.w].timer = tm.id
                 THEN [queued EXCEPT ![tm.w].timer = None] ELSE queued
    /\ tasks' = [tasks EXCEPT ![Min(FreeTasks)] = NewTask("add", tm.w, tm.mode, "retry", TRUE)]
    /\ UNCHANGED <<envSteps, dbActive, webhooks, errors, isLeader, registry, live, driver,
                   outbox, retryThrew>>

\* Mutant: emitError deactivates and records the error but queues no retry.
EmitErrorNoRetry(x) ==
    /\ Settled
    /\ envSteps < MaxEnvSteps
    /\ envSteps' = envSteps + 1
    /\ x \in live
    /\ IF registry[x.w] # None THEN RegistryRemove(x.w) ELSE UNCHANGED <<registry, live>>
    /\ errors' = [errors EXCEPT ![x.w] = "other"]
    /\ UNCHANGED <<dbActive, webhooks, isLeader, tasks, driver, outbox, retryThrew,
                   queued, timers>>

\* emitError of an open trigger handle (lines 358-382): remove whatever the
\* registry stores for the workflow, register the error, queue a retry with
\* the handle's activation mode.
EmitError(x) ==
    /\ Settled
    /\ envSteps < MaxEnvSteps
    /\ envSteps' = envSteps + 1
    /\ x \in live
    /\ IF registry[x.w] # None THEN RegistryRemove(x.w) ELSE UNCHANGED <<registry, live>>
    /\ errors' = [errors EXCEPT ![x.w] = "other"]
    /\ AddQueued(x.mode, x.w)
    /\ UNCHANGED <<dbActive, webhooks, isLeader, tasks, driver, outbox, retryThrew>>

-----------------------------------------------------------------------------
(* addActiveWorkflows(activationMode) (lines 413-477)                       *)

BatchBusy == \E t \in TaskIds : tasks[t] # None /\ tasks[t].origin = "batch"

\* `await getAllActive()`; nothing to do without active workflows (line 416).
DriverList ==
    /\ Settled
    /\ driver # None /\ driver.todo = None
    /\ LET todo == {w \in Workflows : dbActive[w]} IN
       driver' = IF todo = {} THEN None ELSE [driver EXCEPT !.todo = todo]
    /\ UNCHANGED <<envSteps, dbActive, webhooks, errors, isLeader, registry, live, queued,
                   timers, tasks, outbox, retryThrew>>

\* The next chunk of the list (any order: the query has no ORDER BY) starts
\* activateWorkflow for each of its workflows with the listed record and
\* shouldPublish false; the loop awaits Promise.all of the chunk.
DriverBatch ==
    /\ Settled
    /\ driver # None /\ driver.todo \notin {None, {}}
    /\ ~BatchBusy
    /\ \E b \in kSubset(Min({BatchSize, Cardinality(driver.todo)}), driver.todo) :
       LET ids == {t \in FreeTasks :
                     Cardinality({u \in FreeTasks : u < t}) < Cardinality(b)} IN
       \E f \in Bijection(ids, b) :
          /\ tasks' = [t \in TaskIds |->
                         IF t \in ids THEN NewTask("add", f[t], driver.mode, "batch", TRUE)
                         ELSE tasks[t]]
          /\ driver' = [driver EXCEPT !.todo = @ \ b]
    /\ UNCHANGED <<envSteps, dbActive, webhooks, errors, isLeader, registry, live, queued,
                   timers, outbox, retryThrew>>

DriverDone ==
    /\ Settled
    /\ driver # None /\ driver.todo = {}
    /\ ~BatchBusy
    /\ driver' = None
    /\ UNCHANGED <<envSteps, dbActive, webhooks, errors, isLeader, registry, live, queued,
                   timers, tasks, outbox, retryThrew>>

-----------------------------------------------------------------------------
(* Leadership in multi-main: the orchestration service flips isLeader and  *)
(* calls the two handlers of lines 485-496.                                 *)

\* leader-stepdown: removeAllTriggerAndPollerBasedWorkflows empties the
\* registry and closes every stored handle.
LoseLeadership ==
    /\ Settled
    /\ MultiMain /\ isLeader
    /\ isLeader' = FALSE
    /\ registry' = [w \in Workflows |-> None]
    /\ live' = {x \in live : registry[x.w] # x.h}
    /\ UNCHANGED <<envSteps, dbActive, webhooks, errors, queued, timers, tasks, driver,
                   outbox, retryThrew>>

\* leader-takeover: addAllTriggerAndPollerBasedWorkflows runs
\* addActiveWorkflows('leadershipChange').  The model runs one
\* addActiveWorkflows at a time, so a takeover waits for a running one
\* to finish; the code does not wait (line 488).
GainLeadership ==
    /\ Settled
    /\ MultiMain /\ ~isLeader /\ driver = None
    /\ isLeader' = TRUE
    /\ driver' = [mode |-> "leadershipChange", todo |-> None]
    /\ UNCHANGED <<envSteps, dbActive, webhooks, errors, registry, live, queued, timers,
                   tasks, outbox, retryThrew>>

-----------------------------------------------------------------------------
(* The REST API (workflow service, outside src/): flip the stored flag and *)
(* call add(id, 'activate') or remove(id).                                  *)

UserActivate(w) ==
    /\ Settled
    /\ envSteps < MaxEnvSteps
    /\ envSteps' = envSteps + 1
    /\ w \in UserWorkflows /\ ~dbActive[w] /\ FreeTasks # {}
    /\ dbActive' = [dbActive EXCEPT ![w] = TRUE]
    /\ tasks' = [tasks EXCEPT ![Min(FreeTasks)] = NewTask("add", w, "activate", "user", FALSE)]
    /\ UNCHANGED <<webhooks, errors, isLeader, registry, live, queued, timers,
                   driver, outbox, retryThrew>>

UserDeactivate(w) ==
    /\ Settled
    /\ envSteps < MaxEnvSteps
    /\ envSteps' = envSteps + 1
    /\ w \in UserWorkflows /\ dbActive[w] /\ FreeTasks # {}
    /\ dbActive' = [dbActive EXCEPT ![w] = FALSE]
    /\ tasks' = [tasks EXCEPT ![Min(FreeTasks)] = [NewTask("remove", w, "activate", "user", FALSE) EXCEPT !.pc = "clear"]]
    /\ UNCHANGED <<webhooks, errors, isLeader, registry, live, queued, timers,
                   driver, outbox, retryThrew>>

-----------------------------------------------------------------------------
(* Initial state: a main instance starting; storage holds any flags and    *)
(* any webhook rows left behind by an earlier run (addWebhooks line 192).  *)

Init ==
    /\ dbActive \in [Workflows -> BOOLEAN]
    /\ webhooks \in SUBSET Workflows
    /\ errors = [w \in Workflows |-> None]
    /\ isLeader \in IF MultiMain THEN BOOLEAN ELSE {TRUE}
    /\ registry = [w \in Workflows |-> None]
    /\ live = {}
    /\ queued = [w \in Workflows |-> None]
    /\ timers = {}
    /\ tasks = [t \in TaskIds |-> None]
    /\ driver = [mode |-> "init", todo |-> None]   \* init() -> addActiveWorkflows('init')
    /\ outbox = {}
    /\ retryThrew = FALSE
    /\ envSteps = 0

Next ==
    \/ \E t \in TaskIds :
         \/ AddStart(t) \/ AddRead(t) \/ AddWebhooks(t) \/ AddWebhooksFail(t)
         \/ AddTriggers(t) \/ AddStore(t) \/ \E e \in ErrorKinds : AddStoreFail(t, e)
         \/ AddDeregister(t) \/ CallerCatch(t)
         \/ RemoveStart(t) \/ RemoveDeregister(t) \/ RemoveFinal(t)
    \/ \E tm \in timers : FireTimer(tm)
    \/ \E x \in live : EmitError(x)
    \/ DriverList \/ DriverBatch \/ DriverDone
    \/ LoseLeadership \/ GainLeadership
    \/ \E w \in Workflows : UserActivate(w) \/ UserDeactivate(w)

Spec == Init /\ [][Next]_vars

\* The event loop eventually runs every continuation that is ready, every
\* pending timer fires (setTimeout), and the batch driver proceeds.  These
\* are strong fairness because the model's bound on tasks in flight
\* (TaskIds) can disable a step for as long as another task occupies the
\* pool, which the unbounded code never does.  Errors of activation are
\* assumed transient: a workflow whose activation keeps reaching
\* ActiveWorkflows.add or addWebhooks eventually gets through (strong
\* fairness on the succeeding step).  Trigger errors, leadership and the
\* REST API are the environment: no fairness.
IsAddOf(t, w) == tasks[t] # None /\ tasks[t].kind = "add" /\ tasks[t].w = w

Fairness ==
    /\ \A t \in TaskIds :
         /\ WF_vars(AddStart(t))
         /\ SF_vars(AddRead(t) \/ AddWebhooks(t) \/ AddWebhooksFail(t) \/ AddTriggers(t)
                    \/ AddStore(t) \/ \E e \in ErrorKinds : AddStoreFail(t, e)
                    \/ AddDeregister(t) \/ CallerCatch(t)
                    \/ RemoveStart(t) \/ RemoveDeregister(t) \/ RemoveFinal(t))
    /\ \A i \in TimerIds : SF_vars(\E tm \in timers : tm.id = i /\ FireTimer(tm))
    /\ SF_vars(DriverList \/ DriverBatch \/ DriverDone)
    /\ \A w \in Workflows :
         /\ SF_vars(\E t \in TaskIds : IsAddOf(t, w) /\ AddWebhooks(t))
         /\ SF_vars(\E t \in TaskIds : IsAddOf(t, w) /\ AddStore(t))

FairSpec == Spec /\ Fairness

-----------------------------------------------------------------------------
TypeOK ==
    /\ dbActive \in [Workflows -> BOOLEAN]
    /\ webhooks \subseteq Workflows /\ errors \in [Workflows -> ErrorKinds \cup {None}]
    /\ isLeader \in BOOLEAN
    /\ registry \in [Workflows -> HandleIds \cup {None}]
    /\ live \subseteq Handle
    /\ queued \in [Workflows -> Entry \cup {None}]
    /\ timers \subseteq Timer
    /\ tasks \in [TaskIds -> Task \cup {None}]
    /\ driver \in [mode : Modes, todo : (SUBSET Workflows) \cup {None}] \cup {None}
    /\ outbox \subseteq [cmd : {"add-webhooks-triggers-and-pollers",
                                 "remove-triggers-and-pollers"}, w : Workflows]
    /\ retryThrew \in BOOLEAN
    /\ envSteps \in 0..MaxEnvSteps

-----------------------------------------------------------------------------
(* Safety properties                                                        *)

\* A queued activation is never orphaned: while queuedActivations holds an
\* entry for a workflow, the timer that entry references is still pending
\* or a retryFunction for the workflow is running.  Otherwise the workflow
\* sits in the queue and is never retried (addQueuedWorkflowActivation,
\* retryFunction, removeQueuedWorkflowActivation, lines 680-744).
RetryPending ==
    \A w \in Workflows : queued[w] # None =>
        \/ \E tm \in timers : tm.w = w /\ tm.id = queued[w].timer
        \/ InFlight(w, "retry")

\* The back-off of a queued activation after n failed retries is
\* min(initial * 2^n, max) (spec section 8), whichever retry chains and
\* re-queueings led to it (retryFunction lines 696-711, line 730).
BackoffLaw ==
    \A w \in Workflows : queued[w] # None =>
        queued[w].lastTimeout = Min({InitialTimeout * 2^queued[w].fails, MaxTimeout})

\* A workflow waiting in the retry queue, with no call of the manager in
\* flight for it, has its activation error recorded: every path that
\* queues a retry registers the error first (emitError lines 358-382, add's
\* catch lines 603-609), and only a successful add deregisters it (line 601).
ErrorRecordedWhileQueued ==
    \A w \in Workflows :
        queued[w] # None /\ ~(\E t \in TaskIds : tasks[t] # None /\ tasks[t].w = w)
            => errors[w] # None

-----------------------------------------------------------------------------
(* Liveness                                                                 *)

\* The activation has been given up: an error is recorded and nothing will
\* try again (an authorization error at startup, line 473).
Abandoned(w) ==
    /\ errors[w] = "auth" /\ queued[w] = None
    /\ \A tm \in timers : tm.w # w
    /\ \A t \in TaskIds : tasks[t] = None \/ tasks[t].w # w

\* "Keep on trying to activate it in regular amounts indefinitely" (lines
\* 676-678): on the leader, a stored-active workflow with a start node and
\* triggers is, whatever fails on the way and however often its triggers
\* error, eventually registered in memory again -- unless the activation was
\* abandoned on an authorization error.
EventuallyRegistered ==
    \A w \in Startable \cap HasTriggers :
        (dbActive[w] /\ isLeader) ~> (registry[w] # None \/ Abandoned(w))

-----------------------------------------------------------------------------
(* Properties the code does not have (violation runs)                       *)

\* Spec 4.2 / 5: only one retry timer may be outstanding per workflow;
\* scheduling a new one cancels the prior one.  retryFunction re-arms the
\* entry stored at the time it fails, without clearing the timer a
\* re-queueing during its add() put there (lines 711-712).
SingleRetryTimer ==
    \A w \in Workflows : Cardinality({tm \in timers : tm.w = w}) <= 1

\* retryFunction never rejects: it reads this.queuedActivations[workflowId]
\* after its awaited add() failed (line 696), but remove() may have deleted
\* the entry meanwhile (line 793), and the rejection of a timer callback is
\* unhandled.
RetryNeverThrows == ~retryThrew

\* Spec 4.2 step 3: an init or leadership activation of a workflow whose
\* stored record is no longer active is skipped -- the guard against a
\* deactivation between the listing and the processing.  activateWorkflow
\* passes the listed record as existingWorkflow (line 442), so the check of
\* line 550 reads the flag as listed.
SkipsInactive ==
    [][\A t \in TaskIds :
         ( /\ tasks[t] # None /\ tasks[t].kind = "add"
           /\ tasks[t].mode \in {"init", "leadershipChange"}
           /\ tasks[t].pc \in {"start", "read"}
           /\ tasks'[t] # None /\ tasks'[t].pc = "webhooks" )
         => dbActive[tasks[t].w]]_vars

\* Spec 5: in a multi-main deployment only the leader holds triggers and
\* pollers.  add() decides shouldAddTriggersAndPollers before its awaits
\* (line 535) and registers them after (line 591), across a stepdown.
FollowerHoldsNoTriggers ==
    ~isLeader => \A w \in Workflows : registry[w] = None

\* A workflow with webhook nodes that a successful add() registered in
\* memory, with no call of the manager in flight for it, has its webhook
\* rows: a failed addWebhooks removes all of the workflow's rows
\* (clearWebhooks, line 202), so it must not remove the rows a concurrent,
\* successful add() of the same workflow stored.
WebhooksStoredWhileActive ==
    \A w \in HasWebhooks :
        /\ isLeader /\ registry[w] # None
        /\ ~(\E t \in TaskIds : tasks[t] # None /\ tasks[t].w = w)
        => w \in webhooks

\* Spec 3 / 5: the registry owns every running trigger: each open handle is
\* the one stored for its workflow or belongs to an ActiveWorkflows.add
\* still in progress.  Two add() calls in flight for one workflow both
\* store (line 849), and the first handle runs on, unreachable by remove().
\* A workflow deactivated in storage runs no triggers once no call of the
\* manager is in flight for it: remove() (lines 786-813) clears the
\* registry, and no activation begun before it registers after it.
DeactivatedRunsNoTriggers ==
    \A w \in Workflows :
        ~dbActive[w] /\ ~(\E t \in TaskIds : tasks[t] # None /\ tasks[t].w = w)
            => registry[w] = None

NoLeakedTriggers ==
    \A x \in live :
        \/ registry[x.w] = x.h
        \/ \E t \in TaskIds : tasks[t] # None /\ tasks[t].kind = "add"
                            /\ tasks[t].w = x.w /\ tasks[t].h = x.h
                            /\ tasks[t].pc = "store"

=============================================================================
