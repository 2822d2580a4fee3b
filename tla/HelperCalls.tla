------------------------------ MODULE HelperCalls ------------------------------
(***************************************************************************)
(* The pure helpers of the repository, called on every input of bounded    *)
(* size: each step is one call, `call` its function and arguments and      *)
(* `result` what it returned.  The invariants compare each result with a   *)
(* definition of what the function promises, written independently of the *)
(* loop that computes it.                                                  *)
(*                                                                         *)
(*   ObjectExtensions            (workflow/src/Extensions/ObjectExtensions.ts) *)
(*   WorkflowActivationCheck     (cli/src/active-workflow-manager.ts)      *)
(*   DataRequestResponseBuilder  (cli/src/runners/task-managers/...)        *)
(***************************************************************************)
EXTENDS Naturals, ObjectExtensions, WorkflowActivationCheck, DataRequestResponseBuilder

CONSTANTS
    StartingNodes,  \* STARTING_NODES of n8n-workflow: types add() ignores (line 575)
    MaxNodes        \* bound: nodes of a workflow

VARIABLES call, result
vars == <<call, result>>

\* Bounded inputs.  Strings: '', 'a', 'nil'; objects nest two levels deep.
Scalars  == {Null, Undefined, JsNumber, JsString(<<>>), JsString(<<"a">>), JsString(NIL)}
Objects1 == {JsObject(f) : f \in UNION {[D -> Scalars] : D \in SUBSET Keys}}
Objects2 == {JsObject(f) : f \in UNION {[D -> Scalars \cup Objects1] : D \in SUBSET Keys}}
\* The first extra argument: missing, not a string, '', or strings.
MatchArgs == {Undefined, JsNumber, JsString(<<>>), JsString(<<"a">>), JsString(<<"n">>)}
NodeLists == UNION {[1..n -> Node] : n \in 0..MaxNodes}

\* A call starts from the idle state: the caller makes one call at a time.
Call(fn, args, r) ==
    /\ call.fn = "none"
    /\ call' = [fn |-> fn, args |-> args] /\ result' = r

CallObjectPredicate(v, k) ==
    \/ Call("isEmpty", <<v>>, isEmpty(v))
    \/ Call("isNotEmpty", <<v>>, isNotEmpty(v))
    \/ Call("hasField", <<v, k>>, hasField(v, k))

CallRemoveField(v, k) == Call("removeField", <<v, k>>, removeField(v, k))

CallRemoveFieldsContaining(v, m) ==
    Call("removeFieldsContaining", <<v, m>>, removeFieldsContaining(v, m))

CallKeepFieldsContaining(v, m) ==
    Call("keepFieldsContaining", <<v, m>>, keepFieldsContaining(v, m))

CallCompact(v) == Call("compact", <<v>>, compact(v))

CallCheckIfWorkflowCanBeActivated(nodes) ==
    Call("checkIfWorkflowCanBeActivated", <<nodes>>,
         checkIfWorkflowCanBeActivated(nodes, StartingNodes))

CallBuild(rp, taskData) == Call("build", <<rp, taskData>>, build(rp, taskData))

Idle == [fn |-> "none", args |-> <<>>]

Init == call = Idle /\ result = "none"

\* The call returns: its result is used and the caller is ready for the next.
Return ==
    /\ call.fn # "none"
    /\ call' = Idle /\ result' = "none"

Next ==
    \/ \E v \in Objects1, k \in Keys : CallObjectPredicate(v, k) \/ CallRemoveField(v, k)
    \/ \E v \in Objects1, m \in MatchArgs :
          CallRemoveFieldsContaining(v, m) \/ CallKeepFieldsContaining(v, m)
    \/ \E v \in Objects2 : CallCompact(v)
    \/ \E nodes \in NodeLists : CallCheckIfWorkflowCanBeActivated(nodes)
    \/ \E rp \in RequestParams, taskData \in TaskData : CallBuild(rp, taskData)
    \/ Return

Spec == Init /\ [][Next]_vars

Arg(i) == call.args[i]

-----------------------------------------------------------------------------
(* compact                                                                  *)

\* The scalar leaves of an object: each with the path of keys to it.
RECURSIVE Leaves(_)
Leaves(v) ==
    UNION {IF IsObject(v.o[k])
           THEN {[path |-> <<k>> \o l.path, val |-> l.val] : l \in Leaves(v.o[k])}
           ELSE {[path |-> <<k>>, val |-> v.o[k]]}
           : k \in DOMAIN v.o}

\* The objects at every depth of a value, the value included.
RECURSIVE SubObjects(_)
SubObjects(v) ==
    {v} \cup UNION {SubObjects(v.o[k]) : k \in {k2 \in DOMAIN v.o : IsObject(v.o[k2])}}

\* The values compact's documentation calls empty: null, undefined, the
\* string 'nil' and the empty string.
EmptyValues == {Null, Undefined, JsString(<<>>), JsString(NIL)}

\* compact (lines 60-77) keeps exactly the non-empty scalar leaves, at the
\* same paths: no null, undefined, 'nil' or '' survives at any depth, and
\* every other leaf does.
CompactKeepsNonEmptyLeaves ==
    call.fn = "compact" =>
        Leaves(result) = {l \in Leaves(Arg(1)) : l.val \notin EmptyValues}

\* "Removes empty values from an Object" (compact.doc, lines 95-99): no object
\* left in the result is empty, at any depth.
CompactLeavesNoEmptyObject ==
    call.fn = "compact" => \A o \in SubObjects(result) : o = result \/ ~isEmpty(o)

-----------------------------------------------------------------------------
(* removeFieldsContaining and keepFieldsContaining                          *)

\* For a valid match, keepFieldsContaining keeps exactly the fields that
\* removeFieldsContaining deletes (lines 28-58): each field of the object is
\* kept by exactly one of the two, with its value unchanged.
KeepAndRemovePartitionFields ==
    (call.fn = "keepFieldsContaining" /\ ValidMatch(Arg(2))) =>
        LET kept == result.o
            rest == removeFieldsContaining(Arg(1), Arg(2)).o
        IN /\ DOMAIN kept \cup DOMAIN rest = DOMAIN Arg(1).o
           /\ DOMAIN kept \cap DOMAIN rest = {}
           /\ \A k \in DOMAIN kept : kept[k] = Arg(1).o[k]

-----------------------------------------------------------------------------
(* checkIfWorkflowCanBeActivated                                            *)

\* The loop with its `continue`s and early return (lines 625-659) answers
\* whether some enabled node of a known, not ignored type can start the
\* workflow.
CanBeActivatedIffStarterNode ==
    call.fn = "checkIfWorkflowCanBeActivated" =>
        result = \E i \in DOMAIN Arg(1) :
                    /\ ~Arg(1)[i].disabled
                    /\ Arg(1)[i].type \in (NodeTypes \cap Starters) \ StartingNodes

-----------------------------------------------------------------------------
(* DataRequestResponseBuilder.build                                        *)

\* The node data a request asks for: all, the listed nodes, and the
\* previous node when prevNode is set.
Wanted(rp, taskData, n) ==
    \/ IsAll(rp)
    \/ n \in rp.dataOfNodes.names
    \/ rp.prevNode /\ n = taskData.previousNode

\* The response carries the run and pinned data of exactly the requested
\* nodes, and input data only when requested (build and its helpers,
\* lines 22-198).
ResponseHasRequestedData ==
    call.fn = "build" =>
        LET rp == Arg(1)  td == Arg(2)  r == result IN
        /\ r.runExecutionData.runData = {n \in td.runData : Wanted(rp, td, n)}
        /\ r.runExecutionData.pinData.defined = td.pinData.defined
        /\ r.runExecutionData.pinData.names = {n \in td.pinData.names : Wanted(rp, td, n)}
        /\ r.inputData = rp.input /\ r.connectionInputData = rp.input
        /\ r.executeData \in IF td.executeData
                             THEN {IF rp.input THEN "data" ELSE "empty"} ELSE {"undefined"}

=============================================================================
