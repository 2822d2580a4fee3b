------------------------ MODULE WorkflowActivationCheck ------------------------
(***************************************************************************)
(* ActiveWorkflowManager.checkIfWorkflowCanBeActivated                      *)
(* (src/packages/cli/src/active-workflow-manager.ts, lines 619-659), the   *)
(* check add() runs before activating (line 575, with STARTING_NODES as the *)
(* types to ignore): the loop over the workflow's nodes as a recursive     *)
(* operator.                                                               *)
(*                                                                         *)
(* A node is its type and its `disabled` flag.  NodeTypes is what          *)
(* nodeTypes.getByNameAndVersion knows; a known type with `poll`,         *)
(* `trigger` or `webhook` defined is in Starters.                          *)
(***************************************************************************)
EXTENDS Naturals, Sequences

CONSTANTS
    Types,      \* node type names used by workflows
    NodeTypes,  \* the types nodeTypes.getByNameAndVersion returns a description for
    Starters    \* known types whose description defines poll, trigger or webhook

Node == [type : Types, disabled : BOOLEAN]

\* The `continue`s of the loop (lines 632-648): a disabled node, a node of
\* an ignored type, a node of an unknown type.
SkippedKeepsDisabled(node, ignoreNodeTypes) ==
    node.type \in ignoreNodeTypes \/ node.type \notin NodeTypes
Skipped(node, ignoreNodeTypes) ==
    \/ node.disabled
    \/ node.type \in ignoreNodeTypes
    \/ node.type \notin NodeTypes

\* The loop from the i-th node on: `return true` at the first node that is
\* not skipped and can start the workflow, `return false` after the last.
RECURSIVE CanBeActivatedFrom(_, _, _)
CanBeActivatedFrom(nodes, ignoreNodeTypes, i) ==
    IF i > Len(nodes) THEN FALSE
    ELSE IF ~Skipped(nodes[i], ignoreNodeTypes) /\ nodes[i].type \in Starters THEN TRUE
    ELSE CanBeActivatedFrom(nodes, ignoreNodeTypes, i + 1)

checkIfWorkflowCanBeActivated(nodes, ignoreNodeTypes) ==
    CanBeActivatedFrom(nodes, ignoreNodeTypes, 1)

=============================================================================
