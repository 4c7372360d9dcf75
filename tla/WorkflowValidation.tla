-------------------------- MODULE WorkflowValidation --------------------------
(***************************************************************************)
(* The functions over a workflow definition that save it and run it: the   *)
(* structural validation (parseAndValidateDefinition), the run-time check  *)
(* that a template reads only exports of ancestors                         *)
(* (validateDefinitionForRun), and the two loops of test-workflow-graph.ts *)
(* round by round: Kahn's algorithm with a FIFO queue, and a depth-first   *)
(* search with a stack.                                                    *)
(*                                                                         *)
(* nodes is a sequence of [id, phase] and edges one of <<source, target>>, *)
(* as the request body lists them: duplicate ids, dangling edges and       *)
(* cycles included.  edgeIds is the sequence of the ids of the edges and   *)
(* exports the one of the export names of all nodes.  The shape that Zod   *)
(* checks before is taken for granted.                                     *)
(***************************************************************************)
EXTENDS WorkflowGraph

Ids(nodes) == [i \in DOMAIN nodes |-> nodes[i].id]
IdSet(nodes) == {nodes[i].id : i \in DOMAIN nodes}
EdgeSet(edges) == {edges[i] : i \in DOMAIN edges}

\* The targets of the edges at some places of the list, in the order of the list.
Targets(edges, places) == LET out == Filter(edges, places) IN [k \in DOMAIN out |-> out[k][2]]
------------------------------------------------------------------------------
(***************************************************************************)
(* buildTopologicalOrder and detectCycle.                                  *)
(***************************************************************************)

InDegrees(ids, edges) ==
    [n \in {ids[i] : i \in DOMAIN ids} |-> Cardinality({i \in DOMAIN edges : edges[i][2] = n})]

\* Mutant: nodes with one incoming edge start in the queue too.
KahnStartOffByOne(ids, edges) ==
    LET degree == InDegrees(ids, edges)
    IN [inDegree |-> degree, queue |-> Filter(ids, {i \in DOMAIN ids : degree[ids[i]] <= 1}), order |-> <<>>]

KahnStart(ids, edges) ==
    LET degree == InDegrees(ids, edges)
    IN [inDegree |-> degree, queue |-> Filter(ids, {i \in DOMAIN ids : degree[ids[i]] = 0}), order |-> <<>>]

(* One node is taken off the queue, and each of its edges lowers the in-degree of
   its target, which is queued when the last of its edges is gone. *)
KahnRound(edges, s) ==
    LET current == Head(s.queue)
        left == [m \in DOMAIN s.inDegree |-> s.inDegree[m] - Cardinality({i \in DOMAIN edges : edges[i] = <<current, m>>})]
        freed == {i \in DOMAIN edges : /\ edges[i][1] = current /\ left[edges[i][2]] = 0
                                       /\ \A j \in DOMAIN edges : edges[j] = edges[i] => j <= i}
    IN [inDegree |-> left,
        queue |-> Tail(s.queue) \o Targets(edges, freed),
        order |-> Append(s.order, current)]

KahnStep(edges, s) == IF s.queue = <<>> THEN s ELSE KahnRound(edges, s)

KahnStates(ids, edges) ==
    LET state[i \in Nat] == IF i = 0 THEN KahnStart(ids, edges) ELSE KahnStep(edges, state[i - 1])
    IN state

\* The loop takes one node off the queue per round, so Len(ids) rounds empty it.
BuildTopologicalOrder(ids, edges) == KahnStates(ids, edges)[Len(ids)].order

CycleFound(nodes, edges) == Len(BuildTopologicalOrder(Ids(nodes), edges)) # Len(nodes)
------------------------------------------------------------------------------
(***************************************************************************)
(* getDescendants and getAncestors: the search from n with a stack and the *)
(* set of nodes found.                                                     *)
(***************************************************************************)

\* The node on top is popped; its neighbours not found yet are pushed, once each.
SearchRound(edges, s) ==
    LET current == s.stack[Len(s.stack)]
        new == {i \in DOMAIN edges : /\ edges[i][1] = current /\ edges[i][2] \notin s.found
                                     /\ \A j \in DOMAIN edges : edges[j] = edges[i] => i <= j}
    IN [stack |-> SubSeq(s.stack, 1, Len(s.stack) - 1) \o Targets(edges, new),
        found |-> s.found \union {edges[i][2] : i \in new}]

SearchStep(edges, s) == IF s.stack = <<>> THEN s ELSE SearchRound(edges, s)

\* Mutant: the start node counts as found.
SearchStatesFindStart(n, edges) ==
    LET state[i \in Nat] == IF i = 0 THEN [stack |-> <<n>>, found |-> {n}] ELSE SearchStep(edges, state[i - 1])
    IN state

SearchStates(n, edges) ==
    LET state[i \in Nat] == IF i = 0 THEN [stack |-> <<n>>, found |-> {}] ELSE SearchStep(edges, state[i - 1])
    IN state

\* The start node and every target are popped once at most.
GetDescendants(n, edges) == SearchStates(n, edges)[Len(edges) + 1].found

\* getAncestors searches along the edges read backwards.
Backwards(edges) == [i \in DOMAIN edges |-> <<edges[i][2], edges[i][1]>>]
GetAncestors(n, edges) == GetDescendants(n, Backwards(edges))
------------------------------------------------------------------------------
(***************************************************************************)
(* The two validations.                                                    *)
(***************************************************************************)

\* An entry of the list occurs in it again.
Repeats(list) == \E i, j \in DOMAIN list : i # j /\ list[i] = list[j]

DuplicateIds(nodes) == Repeats(Ids(nodes))
DanglingEdge(nodes, edges) == ~ \A e \in EdgeSet(edges) : e[1] \in IdSet(nodes) /\ e[2] \in IdSet(nodes)
PhaseOf(nodes) == [n \in IdSet(nodes) |-> nodes[CHOOSE i \in DOMAIN nodes : nodes[i].id = n].phase]

\* Mutant: edges may lead back to an earlier phase.
ParseWithoutPhases(nodes, edges, edgeIds, exports) ==
    IF DuplicateIds(nodes) THEN "duplicate node id"
    ELSE IF Repeats(edgeIds) \/ DanglingEdge(nodes, edges) THEN "invalid edge"
    ELSE IF Repeats(exports) THEN "duplicate export name"
    ELSE IF CycleFound(nodes, edges) THEN "WORKFLOW_CYCLE"
    ELSE "ok"

(* parseAndValidateDefinition: the first rule broken names the error.  One loop looks for
   edge ids used before and for edges that dangle, and stops at the first of either.  The
   rules are tried in this order because the later ones look nodes up. *)
ParseAndValidateDefinition(nodes, edges, edgeIds, exports) ==
    IF DuplicateIds(nodes) THEN "duplicate node id"
    ELSE IF Repeats(edgeIds) \/ DanglingEdge(nodes, edges) THEN "invalid edge"
    ELSE IF ~PhasesMoveForward(PhaseOf(nodes), EdgeSet(edges)) THEN "invalid phase edge"
    ELSE IF Repeats(exports) THEN "duplicate export name"
    ELSE IF CycleFound(nodes, edges) THEN "WORKFLOW_CYCLE"
    ELSE "ok"

\* Mutant: any other node may be read.
ValidateOtherNode(edges, reads) == IF \A r \in reads : r[2] # r[1] THEN "ok" ELSE "VAR_REF_NOT_ANCESTOR"

\* validateDefinitionForRun: every {{vars.x}} is exported by an ancestor.
ValidateDefinitionForRun(edges, reads) ==
    IF \A r \in reads : r[2] \in GetAncestors(r[1], edges) THEN "ok" ELSE "VAR_REF_NOT_ANCESTOR"

\* executeRun cuts the order into its setup, test and teardown nodes.
NodesByPhase(nodes, edges) ==
    LET order == BuildTopologicalOrder(Ids(nodes), edges)
    IN [p \in Phases |-> NodesForPhase(PhaseOf(nodes), order, p)]

\* The nodes in the order in which executeRun visits them.
ExecutionOrder(nodes, edges) ==
    LET byPhase == NodesByPhase(nodes, edges)
    IN byPhase["setup"] \o byPhase["test"] \o byPhase["teardown"]
=============================================================================
