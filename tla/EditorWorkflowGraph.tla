-------------------------- MODULE EditorWorkflowGraph --------------------------
(***************************************************************************)
(* The graph part of the editor's workflows store,                        *)
(* src/packages/editor-ui/src/stores/workflows.ts: the nodes of the       *)
(* workflow being edited, its connections, its pinned data and the node   *)
(* metadata, and the store actions that change them.  Each store action   *)
(* is synchronous, so it is one atomic step; the editor may call them in  *)
(* any order.                                                              *)
(*                                                                         *)
(* A node is its name.  `workflow.connections[source][type][output]` is a  *)
(* list of destinations {node, type, index}; every connection type is     *)
(* 'main' here, so a destination is [node, index] and `conns[s]` is the    *)
(* list of outputs of s (an absent source or type is the empty list).     *)
(* Pinned data and node metadata are kept as the set of node names that    *)
(* have an entry, and so is the run data of workflowExecutionData (None    *)
(* when that is null).  A node's issues are the set of issue types set on  *)
(* it.  uiStore.lastSelectedNode, which the rename updates, is kept too;   *)
(* the UI store selects nodes (SelectNode).                                *)
(***************************************************************************)
EXTENDS Naturals, Sequences, SequencesExt, FiniteSets

CONSTANTS
    Names,      \* node names
    Outputs,    \* output indexes of a source node (0-based)
    Inputs,     \* input indexes of a destination node (0-based)
    MaxConns,   \* bound: connections in the workflow at once
    IssueTypes, \* node issue types ('parameters', 'credentials', ...)
    None        \* null

Conn == [node : Names, index : Inputs]

VARIABLES
    nodes,      \* names of workflow.nodes (the editor keeps them unique)
    conns,      \* workflow.connections: source -> outputs -> destinations
    pinned,     \* names with an entry in workflow.pinData
    metadata,   \* names with an entry in nodeMetadata
    runData,    \* names with run data, or None: workflowExecutionData is null
    issues,     \* node name -> issue types set on the node
    lastSelected \* uiStore.lastSelectedNode

vars == <<nodes, conns, pinned, metadata, runData, issues, lastSelected>>
nodeVars == <<runData, issues, lastSelected>>

NumConns ==
    Cardinality(UNION {UNION {{<<s, o, j>> : j \in 1..Len(conns[s][o])} : o \in 1..Len(conns[s])}
                       : s \in Names})

-----------------------------------------------------------------------------
(* The two loops that delete from a destination list.                      *)

\* The test of removeConnection (line 364): same node, type and index.
MatchesNodeOnly(c, d) == c.node = d.node
Matches(c, d) == c.node = d.node /\ c.index = d.index

\* removeConnection (lines 362-368): `for (const index in connections)`
\* with `splice` inside.  A key already visited is not revisited, a key
\* past the shrunken length is skipped, so the loop at key i sees the list
\* as the earlier splices left it.
RECURSIVE ForInSplice(_, _, _)
ForInSplice(l, d, i) ==
    IF i >= Len(l) THEN l
    ELSE IF Matches(l[i+1], d) THEN ForInSplice(RemoveAt(l, i+1), d, i+1)
         ELSE ForInSplice(l, d, i+1)

\* removeAllNodeConnection (lines 393-402): collect the keys of every
\* destination equal to the node, then splice each collected key in
\* ascending order from the list the earlier splices shortened.
RECURSIVE SpliceEach(_, _)
SpliceEach(l, keys) ==
    IF keys = <<>> THEN l
    ELSE SpliceEach(IF Head(keys) < Len(l) THEN RemoveAt(l, Head(keys) + 1) ELSE l,
                    Tail(keys))

KeysTo(l, n) == SetToSortSeq({i \in 0..Len(l)-1 : l[i+1].node = n}, <)

\* The padding loop of addConnection (lines 321-325): push empty outputs
\* until output o exists.
PaddedOffByOne(outs, o) ==
    IF Len(outs) < o + 2 THEN outs \o [i \in 1..(o + 2 - Len(outs)) |-> <<>>] ELSE outs
Padded(outs, o) ==
    IF Len(outs) < o + 1 THEN outs \o [i \in 1..(o + 1 - Len(outs)) |-> <<>>] ELSE outs

\* The dedup loop of addConnection (lines 327-340).
ConnectedNever(l, d) == FALSE
Connected(l, d) == Contains(l, d)

-----------------------------------------------------------------------------
\* addNode (lines 501-508): append the node (the editor gives it a fresh name).
AddNode(n) ==
    /\ n \notin nodes
    /\ nodes' = nodes \cup {n}
    /\ UNCHANGED <<conns, pinned, metadata, nodeVars>>

\* removeNode (lines 509-523): drop its metadata and pinned data and the
\* node itself; its connections are left to removeAllNodeConnection.
RemoveNode(n) ==
    /\ nodes' = nodes \ {n}
    /\ metadata' = metadata \ {n}
    /\ pinned' = pinned \ {n}
    /\ issues' = [issues EXCEPT ![n] = {}]
    /\ UNCHANGED <<conns, runData, lastSelected>>

\* removeAllNodes (lines 525-536): every node and all metadata; pinned data
\* only when asked.
RemoveAllNodes(removePinData) ==
    /\ nodes' = {}
    /\ metadata' = {}
    /\ pinned' = IF removePinData THEN {} ELSE pinned
    /\ issues' = [m \in Names |-> {}]
    /\ UNCHANGED <<conns, runData, lastSelected>>

\* addConnection (lines 301-346): create the source's outputs up to `o`,
\* then append the destination unless it is already there.
AddConnection(s, o, d) ==
    /\ NumConns < MaxConns
    /\ LET outs == Padded(conns[s], o) IN conns' = [conns EXCEPT ![s] =
                      IF Connected(outs[o+1], d) THEN outs
                      ELSE [outs EXCEPT ![o+1] = Append(@, d)]]
    /\ UNCHANGED <<nodes, pinned, metadata, nodeVars>>

\* removeConnection (lines 347-370): nothing unless the source has output o.
RemoveConnection(s, o, d) ==
    /\ Len(conns[s]) >= o + 1
    /\ conns' = [conns EXCEPT ![s][o+1] = ForInSplice(@, d, 0)]
    /\ UNCHANGED <<nodes, pinned, metadata, nodeVars>>

\* removeAllConnections (lines 371-377).
RemoveAllConnections ==
    /\ conns' = [s \in Names |-> <<>>]
    /\ UNCHANGED <<nodes, pinned, metadata, nodeVars>>

\* removeAllNodeConnection (lines 378-406): delete the node's own outputs,
\* then the destinations equal to it in every other source's outputs.
RemoveAllNodeConnection(n) ==
    /\ conns' = [s \in Names |->
                   IF s = n THEN <<>>
                   ELSE [o \in 1..Len(conns[s]) |->
                           SpliceEach(conns[s][o], KeysTo(conns[s][o], n))]]
    /\ UNCHANGED <<nodes, pinned, metadata, nodeVars>>

\* A key moved from old to new in a table kept as a set of names.
Moved(keys, old, new) == IF old \in keys THEN (keys \ {old}) \cup {new} ELSE keys

\* renameNodeSelectedAndExecution (lines 407-431): move the run data, the
\* last selection, the metadata and the pinned data of `old` to `new` (the
\* metadata key is set even when `old` had none).  The node's own name is
\* changed by the caller elsewhere.
RenameNodeSelectedAndExecution(old, new) ==
    /\ old # new
    /\ runData' = IF runData = None THEN None ELSE Moved(runData, old, new)
    /\ lastSelected' = IF lastSelected = old THEN new ELSE lastSelected
    /\ metadata' = (metadata \ {old}) \cup {new}
    /\ pinned' = Moved(pinned, old, new)
    /\ UNCHANGED <<nodes, conns, issues>>

\* setNodeParameters (lines 566-584): throws unless the node exists, then
\* creates its metadata entry.
SetNodeParameters(n) ==
    /\ n \in nodes
    /\ metadata' = metadata \cup {n}
    /\ UNCHANGED <<nodes, conns, pinned, nodeVars>>

\* pinData and unpinData (lines 648-678).
PinData(n) ==
    /\ pinned' = pinned \cup {n}
    /\ UNCHANGED <<nodes, conns, metadata, nodeVars>>

UnpinData(n) ==
    /\ pinned' = pinned \ {n}
    /\ UNCHANGED <<nodes, conns, metadata, nodeVars>>

\* resetAllNodesIssues (lines 432-437).
ResetAllNodesIssues ==
    /\ issues' = [m \in Names |-> {}]
    /\ UNCHANGED <<nodes, conns, pinned, metadata, runData, lastSelected>>

\* setNodeIssue (lines 438-462): nothing unless the node exists; a null
\* value deletes the type, any other value sets it.
SetNodeIssue(n, type, set) ==
    /\ n \in nodes
    /\ issues' = [issues EXCEPT ![n] = IF set THEN @ \cup {type} ELSE @ \ {type}]
    /\ UNCHANGED <<nodes, conns, pinned, metadata, runData, lastSelected>>

\* setWorkflowExecutionData (lines 585-588): null, or an execution whose
\* run data has entries for the names in d.
SetWorkflowExecutionData(d) ==
    /\ runData' = d
    /\ UNCHANGED <<nodes, conns, pinned, metadata, issues, lastSelected>>

\* addNodeExecutionData (lines 589-598): throws while workflowExecutionData
\* is null; otherwise creates the node's run list and appends to it.
AddNodeExecutionData(n) ==
    /\ runData # None
    /\ runData' = runData \cup {n}
    /\ UNCHANGED <<nodes, conns, pinned, metadata, issues, lastSelected>>

\* clearNodeExecutionData (lines 599-604): nothing while it is null.
ClearNodeExecutionData(n) ==
    /\ runData # None
    /\ runData' = runData \ {n}
    /\ UNCHANGED <<nodes, conns, pinned, metadata, issues, lastSelected>>

\* The UI store selects a node (not in this file).
SelectNode(n) ==
    /\ n \in nodes
    /\ lastSelected' = n
    /\ UNCHANGED <<nodes, conns, pinned, metadata, runData, issues>>

Init ==
    /\ nodes = {}
    /\ conns = [s \in Names |-> <<>>]
    /\ pinned = {}
    /\ metadata = {}
    /\ runData = None
    /\ issues = [n \in Names |-> {}]
    /\ lastSelected = None

Next ==
    \/ \E n \in Names : AddNode(n) \/ RemoveNode(n) \/ RemoveAllNodeConnection(n)
                        \/ SetNodeParameters(n) \/ PinData(n) \/ UnpinData(n)
                        \/ AddNodeExecutionData(n) \/ ClearNodeExecutionData(n)
                        \/ SelectNode(n)
    \/ \E n \in Names, type \in IssueTypes, set \in BOOLEAN : SetNodeIssue(n, type, set)
    \/ ResetAllNodesIssues
    \/ \E d \in {None} \cup SUBSET Names : SetWorkflowExecutionData(d)
    \/ \E b \in BOOLEAN : RemoveAllNodes(b)
    \/ \E s \in Names, o \in Outputs, d \in Conn :
          AddConnection(s, o, d) \/ RemoveConnection(s, o, d)
    \/ RemoveAllConnections
    \/ \E old, new \in Names : RenameNodeSelectedAndExecution(old, new)

Spec == Init /\ [][Next]_vars

-----------------------------------------------------------------------------
TypeOK ==
    /\ nodes \subseteq Names /\ pinned \subseteq Names /\ metadata \subseteq Names
    /\ runData \in {None} \cup SUBSET Names
    /\ issues \in [Names -> SUBSET IssueTypes]
    /\ lastSelected \in {None} \cup Names
    /\ conns \in [Names -> Seq(Seq(Conn))]
    /\ \A s \in Names : Len(conns[s]) <= Cardinality(Outputs)

\* No output of a node lists the same destination twice: addConnection's
\* labelled loop (lines 327-340) must find every existing copy.  The
\* removal loops below rely on it.
NoDuplicateConnections ==
    \A s \in Names : \A o \in 1..Len(conns[s]) :
        LET l == conns[s][o] IN \A i, j \in 1..Len(l) : i # j => l[i] # l[j]

\* removeConnection deletes exactly the named connection and keeps the
\* others in order: its `for...in` loop with `splice` (lines 362-368) has
\* the effect of filtering the list.
RemoveConnectionIsFilter ==
    [][\A s \in Names, o \in Outputs, d \in Conn :
         RemoveConnection(s, o, d) => conns'[s][o+1] = Remove(conns[s][o+1], d)]_vars

\* removeAllNodeConnection leaves no connection into the node and keeps
\* every other one: its splices of the collected keys (lines 400-402) must
\* have the effect of filtering each list.
RemoveAllNodeConnectionIsFilter ==
    [][\A n \in Names :
         RemoveAllNodeConnection(n) =>
            \A s \in Names \ {n} : \A o \in 1..Len(conns[s]) :
               conns'[s][o] = SelectSeq(conns[s][o], LAMBDA c : c.node # n)]_vars

====
