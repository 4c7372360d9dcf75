-------------------------- MODULE WorkflowDefinition --------------------------
(***************************************************************************)
(* Every workflow definition an author can send: the state is what was     *)
(* drawn so far, as the request body lists it, duplicate ids and names,    *)
(* dangling edges and cycles included; the properties say what the         *)
(* functions of WorkflowValidation make of it.                             *)
(***************************************************************************)
EXTENDS WorkflowValidation

CONSTANTS NodeIds,       \* ids a node may be given
          PhaseChoices,  \* phases a node may be given
          MaxNodes,      \* bound on the length of the node list
          ExportedNames, \* names a node may export
          MaxEdges,      \* bound on the length of the edge list, and with it on edges, reads and exports
          MaxReads       \* bound on the number of template references

ASSUME PhaseChoicesAssumption == PhaseChoices \subseteq Phases
ASSUME BoundsAssumption == MaxNodes \in Nat /\ MaxEdges \in Nat /\ MaxReads \in Nat

VARIABLES nodes,    \* def.nodes: a sequence of [id, phase]
          edges,    \* def.edges: a sequence of <<source, target>>
          edgeIds,  \* their ids
          exports,  \* the export names of all nodes; a reference names its producer instead
          reads     \* template references: <<reader, node whose export is read>>; bound: not with exports

definitionVars == <<nodes, edges, edgeIds, exports, reads>>

Init == nodes = <<>> /\ edges = <<>> /\ edgeIds = <<>> /\ exports = <<>> /\ reads = {}

MayGrow == Len(edges) + Len(exports) + Cardinality(reads) < MaxEdges

AddNode(id, phase) ==
    /\ Len(nodes) < MaxNodes /\ edges = <<>> /\ exports = <<>> /\ reads = {}
    /\ nodes' = Append(nodes, [id |-> id, phase |-> phase])
    /\ UNCHANGED <<edges, edgeIds, exports, reads>>

\* Bound: if an edge has the id of another, they are the only two.
AddEdge(source, target, id) ==
    /\ Len(nodes) > 0 /\ MayGrow /\ exports = <<>> /\ reads = {} /\ ~Repeats(edgeIds)
    /\ edges' = Append(edges, <<source, target>>) /\ edgeIds' = Append(edgeIds, id)
    /\ UNCHANGED <<nodes, exports, reads>>

DeclareExport(name) ==
    /\ Len(nodes) > 0 /\ MayGrow /\ reads = {}
    /\ exports' = Append(exports, name)
    /\ UNCHANGED <<nodes, edges, edgeIds, reads>>

AddRead(reader, producer) ==
    /\ Cardinality(reads) < MaxReads /\ MayGrow /\ exports = <<>>
    /\ {reader, producer} \subseteq {nodes[i].id : i \in DOMAIN nodes}
    /\ reads' = reads \union {<<reader, producer>>}
    /\ UNCHANGED <<nodes, edges, edgeIds, exports>>

IdChoices == IF Len(edges) = 1 THEN {1, 2} ELSE {Len(edges) + 1}

Next ==
    \/ \E id \in NodeIds, phase \in PhaseChoices : AddNode(id, phase)
    \/ \E source, target \in NodeIds, id \in IdChoices : AddEdge(source, target, id)
    \/ \E name \in ExportedNames : DeclareExport(name)
    \/ \E reader, producer \in NodeIds : AddRead(reader, producer)

\* What the server makes of the definition when it is saved.
Verdict == ParseAndValidateDefinition(nodes, edges, edgeIds, exports)

Spec == Init /\ [][Next]_definitionVars
------------------------------------------------------------------------------
(* A definition of the right shape is accepted exactly when its node ids, edge ids and export
   names are unique, its edges join its nodes, no edge leads to an earlier phase and no node
   depends on itself, which Kahn's count finds out (definition.schema.ts:191-303, two edges
   between the same nodes and self-loops included). *)
AcceptsExactlyDags ==
    Verdict = "ok" <=>
        /\ ~DuplicateIds(nodes) /\ ~Repeats(edgeIds) /\ ~Repeats(exports) /\ ~DanglingEdge(nodes, edges)
        /\ PhasesMoveForward(PhaseOf(nodes), EdgeSet(edges))
        /\ \A n \in IdSet(nodes) : n \notin Descendants(IdSet(nodes), EdgeSet(edges), n)

(* Running an accepted definition phase by phase respects every dependency:
   cutting the order of the whole graph into phases gives an order of the whole
   graph again (runner.service.ts:92-102). *)
PhasedOrderIsTopological ==
    Verdict = "ok" =>
        LinearExtension(IdSet(nodes), EdgeSet(edges), ExecutionOrder(nodes, edges))

(* The depth-first searches return what reachability means, from either end,
   on every graph, cyclic ones included (test-workflow-graph.ts:56-107). *)
SearchesAreReachability ==
    ~DuplicateIds(nodes) /\ ~DanglingEdge(nodes, edges) =>
        \A n \in IdSet(nodes) : /\ GetDescendants(n, edges) = Descendants(IdSet(nodes), EdgeSet(edges), n)
                                /\ GetAncestors(n, edges) = Ancestors(IdSet(nodes), EdgeSet(edges), n)

(* In a definition accepted for a run, the node that exports a variable is
   executed before every node whose template reads it
   (test-workflow-validator.ts:85-102, runner.service.ts:98-102). *)
ProducersRunFirst ==
    Verdict = "ok" /\ ValidateDefinitionForRun(edges, reads) = "ok" =>
        LET order == ExecutionOrder(nodes, edges)
        IN \A r \in reads : \E i, j \in DOMAIN order : i < j /\ order[i] = r[2] /\ order[j] = r[1]
=============================================================================
