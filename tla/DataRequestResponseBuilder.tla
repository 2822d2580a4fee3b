----------------------- MODULE DataRequestResponseBuilder -----------------------
(***************************************************************************)
(* DataRequestResponseBuilder                                               *)
(* (src/packages/cli/src/runners/task-managers/data-request-response-builder.ts): *)
(* the answer of the main process to a task runner's data request, built   *)
(* to send only the data the runner asked for.                             *)
(*                                                                         *)
(* Payloads are copied through unchanged, so an object keyed by node name  *)
(* (runData, pinData) is its set of node names, and the other parts are    *)
(* whether their content is sent or replaced by an empty value.            *)
(***************************************************************************)
EXTENDS FiniteSets

CONSTANTS
    NodeNames   \* names of the workflow's nodes (strings)

\* The request: dataOfNodes is 'all' or a list of names; prevNode, input
\* and env ask for the previous node's data, the input data, the env.
DataOfNodes == {[all |-> TRUE, names |-> {}]}
                 \cup {[all |-> FALSE, names |-> S] : S \in SUBSET NodeNames}
RequestParams == [dataOfNodes : DataOfNodes,
                  prevNode : BOOLEAN, input : BOOLEAN, env : BOOLEAN]
IsAll(rp) == rp.dataOfNodes.all

\* An object keyed by node names that may be undefined (pinData).
Optional(S) == {[defined |-> FALSE, names |-> {}]}
                 \cup {[defined |-> TRUE, names |-> N] : N \in SUBSET S}

\* The task data: node names with run data and with pinned data (or
\* undefined), the previous node of executeData.source.main[0] ("" when
\* there is none, as determinePrevNodeName returns), whether executeData
\* is defined.
TaskData == [runData : SUBSET NodeNames, pinData : Optional(NodeNames),
             previousNode : NodeNames \cup {""}, executeData : BOOLEAN]

\* determinePrevNodeName (lines 191-198).
determinePrevNodeName(taskData) == taskData.previousNode

\* The constructor (lines 22-33): `new Set(requestParams.dataOfNodes)` --
\* the characters of the string when it is 'all' -- plus the previous
\* node when asked for and not 'all'.
RequestedNodeNamesNoPrev(rp, taskData) ==
    IF IsAll(rp) THEN {"a", "l"} ELSE rp.dataOfNodes.names
RequestedNodeNames(rp, taskData) ==
    LET names == IF IsAll(rp) THEN {"a", "l"} ELSE rp.dataOfNodes.names IN
    IF rp.prevNode /\ ~IsAll(rp)
    THEN names \cup {determinePrevNodeName(taskData)}
    ELSE names

\* filterObjectByNodeNames (lines 171-189), on the object's keys.
filterObjectByNodeNames(rp, requested, keys) ==
    IF IsAll(rp) THEN keys ELSE keys \cap requested

\* buildRunExecutionData with buildRunData and buildPinData (lines
\* 91-129): everything for 'all', else runData and pinData filtered.
buildRunExecutionData(rp, requested, taskData) ==
    [runData |-> filterObjectByNodeNames(rp, requested, taskData.runData),
     pinData |-> IF ~taskData.pinData.defined THEN taskData.pinData
                 ELSE [defined |-> TRUE, names |->
                         filterObjectByNodeNames(rp, requested, taskData.pinData.names)]]

\* buildExecuteData (lines 78-89): undefined stays undefined; its data is
\* sent only when the input was requested.
buildExecuteData(rp, taskData) ==
    IF ~taskData.executeData THEN "undefined"
    ELSE IF rp.input THEN "data" ELSE "empty"

\* buildEnvProviderState, buildInputData and buildConnectionInputData
\* (lines 126-152): the content is sent only when requested, else an empty
\* value (env {} with the two flags kept, {} and []).
buildEnvProviderState(rp) == rp.env
buildInputData(rp) == rp.input
buildConnectionInputData(rp) == rp.input

\* build (lines 38-59); the workflow and additionalData parts are copies
\* and are left out.
build(rp, taskData) ==
    LET requested == RequestedNodeNames(rp, taskData) IN
    [runExecutionData    |-> buildRunExecutionData(rp, requested, taskData),
     inputData           |-> buildInputData(rp),
     connectionInputData |-> buildConnectionInputData(rp),
     env                 |-> buildEnvProviderState(rp),
     executeData         |-> buildExecuteData(rp, taskData)]

=============================================================================
