-------------------------- MODULE EditorWorkflowLists --------------------------
(***************************************************************************)
(* The lists the editor's workflows store keeps about the server          *)
(* (src/packages/editor-ui/src/stores/workflows.ts): the ids of active    *)
(* workflows, the executions running now (fed by push messages and by a  *)
(* REST refresh), and the executions of the open workflow.                *)
(*                                                                         *)
(* The server is part of the model: which workflows are active, which     *)
(* executions run or have finished, and the push messages it has sent and *)
(* the editor has not handled yet (one websocket, so in order).  A REST   *)
(* call is a request step that reads the server and a response step that  *)
(* writes the store; other steps may run in between.  At most one request *)
(* of each kind is in flight.                                              *)
(***************************************************************************)
EXTENDS Naturals, Sequences, SequencesExt, FiniteSets

CONSTANTS
    Wfs,        \* workflow ids
    Execs,      \* execution ids
    MaxListLen, \* bound: length of the activeWorkflows array
    MaxLoads,   \* bound: loads of the open workflow's executions
    None        \* model value: no request in flight

ExecStates == {"none", "running", "finished"}
ListedExec == [id : Execs, finished : BOOLEAN, stopped : BOOLEAN]
\* An execution object of currentWorkflowExecutions: each load makes new
\* objects, so an object is its id and the load that made it.
ExecObject == [id : Execs, gen : 1..MaxLoads]

VARIABLES
    activeWorkflows,   \* store: activeWorkflows
    serverActive,      \* server: ids of active workflows
    wfFetch,           \* fetchActiveWorkflows in flight: the server's answer, or None
    activeExecutions,  \* store: activeExecutions, newest first
    serverExec,        \* server: state of each execution
    push,              \* push messages sent and not yet handled
    execFetch,         \* refresh of activeExecutions in flight: its answer, or None
    current,           \* store: currentWorkflowExecutions
    loads              \* loads of currentWorkflowExecutions so far

vars == <<activeWorkflows, serverActive, wfFetch, activeExecutions, serverExec,
          push, execFetch, current, loads>>

-----------------------------------------------------------------------------
(* Active workflows.                                                        *)

\* setWorkflowActive (lines 278-285): push the id only when indexOf finds
\* it (`index !== -1`).
SetWorkflowActive(w) ==
    IF w \in ToSet(activeWorkflows) THEN Append(activeWorkflows, w) ELSE activeWorkflows

\* setWorkflowInactive (lines 286-291): splice the first occurrence.
SetWorkflowInactive(w) == RemoveFirst(activeWorkflows, w)

\* The editor activates a workflow on the server, then records it in the store.
Activate(w) ==
    /\ Len(activeWorkflows) < MaxListLen
    /\ serverActive' = serverActive \cup {w}
    /\ activeWorkflows' = SetWorkflowActive(w)
    /\ UNCHANGED <<wfFetch, activeExecutions, serverExec, push, execFetch, current, loads>>

\* The editor deactivates a workflow on the server, then updates the store.
Deactivate(w) ==
    /\ serverActive' = serverActive \ {w}
    /\ activeWorkflows' = SetWorkflowInactive(w)
    /\ UNCHANGED <<wfFetch, activeExecutions, serverExec, push, execFetch, current, loads>>

\* fetchActiveWorkflows (lines 292-297): `await getActiveWorkflows(...)`,
\* then overwrite the list with the answer.
FetchActiveWorkflowsRequest ==
    /\ wfFetch = None
    /\ wfFetch' = serverActive
    /\ UNCHANGED <<activeWorkflows, serverActive, activeExecutions, serverExec, push,
                   execFetch, current, loads>>

FetchActiveWorkflowsResponse ==
    /\ wfFetch # None
    /\ activeWorkflows' = SetToSeq(wfFetch)
    /\ wfFetch' = None
    /\ UNCHANGED <<serverActive, activeExecutions, serverExec, push, execFetch, current, loads>>

-----------------------------------------------------------------------------
(* Running executions.                                                      *)

ListedIds == {activeExecutions[i].id : i \in 1..Len(activeExecutions)}

\* addActiveExecution (lines 226-240): nothing if the id is listed, else
\* unshift it.
AddActiveExecutionNoCheck(e) == Cons([id |-> e, finished |-> FALSE, stopped |-> FALSE], activeExecutions)
AddActiveExecution(e) ==
    IF e \in ListedIds THEN activeExecutions
    ELSE Cons([id |-> e, finished |-> FALSE, stopped |-> FALSE], activeExecutions)

\* finishActiveExecution (lines 241-258): nothing if the id is not listed,
\* else copy data.finished (false for a failed execution) into the first
\* entry with it and set its stoppedAt.
FinishActiveExecution(e, ok) ==
    LET i == SelectInSeq(activeExecutions, LAMBDA x : x.id = e) IN
    IF i = 0 THEN activeExecutions
    ELSE [activeExecutions EXCEPT ![i].finished = ok, ![i].stopped = TRUE]

\* The server starts or finishes an execution and pushes the event.
ServerStart(e) ==
    /\ serverExec[e] = "none"
    /\ serverExec' = [serverExec EXCEPT ![e] = "running"]
    /\ push' = Append(push, [kind |-> "started", id |-> e, finished |-> FALSE])
    /\ UNCHANGED <<activeWorkflows, serverActive, wfFetch, activeExecutions, execFetch,
                   current, loads>>

\* The execution succeeds or fails; the push carries data.finished.
ServerFinish(e) ==
    /\ serverExec[e] = "running"
    /\ serverExec' = [serverExec EXCEPT ![e] = "finished"]
    /\ \E ok \in BOOLEAN : push' = Append(push, [kind |-> "finished", id |-> e, finished |-> ok])
    /\ UNCHANGED <<activeWorkflows, serverActive, wfFetch, activeExecutions, execFetch,
                   current, loads>>

\* The editor handles the next push message with the store action for it.
HandlePush ==
    /\ push # <<>>
    /\ LET m == Head(push) IN
       activeExecutions' = IF m.kind = "started" THEN AddActiveExecution(m.id)
                           ELSE FinishActiveExecution(m.id, m.finished)
    /\ push' = Tail(push)
    /\ UNCHANGED <<activeWorkflows, serverActive, wfFetch, serverExec, execFetch, current, loads>>

\* The editor refreshes the running executions: request, then
\* setActiveExecutions (lines 259-261) with the answer.
RefreshRequest ==
    /\ execFetch = None
    /\ execFetch' = {e \in Execs : serverExec[e] = "running"}
    /\ UNCHANGED <<activeWorkflows, serverActive, wfFetch, activeExecutions, serverExec,
                   push, current, loads>>

SetActiveExecutions ==
    /\ execFetch # None
    /\ activeExecutions' = SetToSeq({[id |-> e, finished |-> FALSE, stopped |-> FALSE] : e \in execFetch})
    /\ execFetch' = None
    /\ UNCHANGED <<activeWorkflows, serverActive, wfFetch, serverExec, push, current, loads>>

-----------------------------------------------------------------------------
(* Executions of the open workflow.                                         *)

\* loadCurrentWorkflowExecutions (lines 731-757): running executions, then
\* finished ones, as new objects; the editor stores the result.
LoadCurrentWorkflowExecutions ==
    /\ loads < MaxLoads
    /\ LET Objs(st) == SetToSeq({[id |-> e, gen |-> loads + 1] : e \in {x \in Execs : serverExec[x] = st}})
       IN current' = Objs("running") \o Objs("finished")
    /\ loads' = loads + 1
    /\ UNCHANGED <<activeWorkflows, serverActive, wfFetch, activeExecutions, serverExec,
                   push, execFetch>>

\* deleteExecution (lines 758-760): splice(indexOf(execution), 1); indexOf
\* is -1 for an object not in the list, and splice(-1, 1) removes the last.
IndexOf(s, x) == IF x \in ToSet(s) THEN SelectInSeq(s, LAMBDA y : y = x) - 1 ELSE -1
Splice1(s, i) ==
    IF i >= 0 THEN RemoveAt(s, i + 1)
    ELSE IF s = <<>> THEN s ELSE RemoveAt(s, Len(s) + 1 + i)

\* The editor deletes an execution object it rendered from some load.
DeleteExecution(x) ==
    /\ x.gen <= loads
    /\ current' = Splice1(current, IndexOf(current, x))
    /\ UNCHANGED <<activeWorkflows, serverActive, wfFetch, activeExecutions, serverExec,
                   push, execFetch, loads>>

Init ==
    /\ activeWorkflows = <<>> /\ serverActive = {} /\ wfFetch = None
    /\ activeExecutions = <<>> /\ serverExec = [e \in Execs |-> "none"]
    /\ push = <<>> /\ execFetch = None
    /\ current = <<>> /\ loads = 0

Next ==
    \/ \E w \in Wfs : Activate(w) \/ Deactivate(w)
    \/ FetchActiveWorkflowsRequest \/ FetchActiveWorkflowsResponse
    \/ \E e \in Execs : ServerStart(e) \/ ServerFinish(e)
    \/ HandlePush \/ RefreshRequest \/ SetActiveExecutions
    \/ LoadCurrentWorkflowExecutions
    \/ \E x \in ExecObject : DeleteExecution(x)

Spec == Init /\ [][Next]_vars

-----------------------------------------------------------------------------
TypeOK ==
    /\ activeWorkflows \in Seq(Wfs) /\ Len(activeWorkflows) <= MaxListLen
    /\ serverActive \subseteq Wfs /\ wfFetch \in SUBSET Wfs \cup {None}
    /\ activeExecutions \in Seq(ListedExec) /\ Len(activeExecutions) <= Cardinality(Execs)
    /\ serverExec \in [Execs -> ExecStates]
    /\ push \in Seq([kind : {"started", "finished"}, id : Execs, finished : BOOLEAN])
    /\ execFetch \in SUBSET Execs \cup {None}
    /\ current \in Seq(ExecObject) /\ Len(current) <= Cardinality(Execs)
    /\ loads \in 0..MaxLoads

\* No execution is listed twice in activeExecutions, although the push
\* 'executionStarted' (addActiveExecution, lines 226-240) and a refresh
\* (setActiveExecutions) can both bring the same execution in either order.
NoDuplicateActiveExecutions ==
    \A i, j \in 1..Len(activeExecutions) :
        i # j => activeExecutions[i].id # activeExecutions[j].id

\* Once every push has been handled and no refresh is pending, an
\* execution the list shows as running (no stoppedAt) is running on the
\* server: a
\* refresh answered before a finish (setActiveExecutions, line 260) must not
\* bring it back as running.
ShownRunningIsRunning ==
    (push = <<>> /\ execFetch = None) =>
        \A i \in 1..Len(activeExecutions) :
            ~activeExecutions[i].stopped => serverExec[activeExecutions[i].id] = "running"

\* Deactivating a workflow removes it from activeWorkflows: the list never
\* holds it twice (setWorkflowActive, line 281, pushes only an id it finds).
DeactivatedNotListed ==
    [][\A w \in Wfs : Deactivate(w) => w \notin ToSet(activeWorkflows')]_vars

\* When no fetch is in flight, every listed workflow is active on the
\* server: a fetch answered before a deactivation (fetchActiveWorkflows,
\* line 295) must not bring it back.
ListedOnlyIfActive ==
    wfFetch = None => ToSet(activeWorkflows) \subseteq serverActive

\* Deleting an execution never removes a different execution, even when
\* the object was rendered from an earlier load (deleteExecution, line 759).
DeleteRemovesNoOther ==
    [][\A x \in ExecObject :
         DeleteExecution(x) =>
            \A i \in 1..Len(current) : current[i].id # x.id => current[i] \in ToSet(current')]_vars

====
