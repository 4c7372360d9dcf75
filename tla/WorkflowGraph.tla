---------------------------- MODULE WorkflowGraph ----------------------------
(***************************************************************************)
(* The graph of a test workflow: nodes carry a phase, edges are the        *)
(* dependencies the editor draws.  What the runner and the validator need  *)
(* of it: transitive descendants and ancestors, the rule that an edge      *)
(* never goes back to an earlier phase, and the sequential order in which  *)
(* a run visits the nodes.                                                 *)
(*                                                                         *)
(* An edge is a pair <<source, target>>.  Descendants is given here by the *)
(* least set closed under the edges; the two loops of                      *)
(* test-workflow-graph.ts (Kahn's algorithm and the depth-first search)    *)
(* are in WorkflowValidation.                                              *)
(***************************************************************************)
EXTENDS Naturals, Sequences, FiniteSets

Phases == {"setup", "test", "teardown"}

\* phaseOrder: an edge may stay in its phase or go to a later one.
PhaseOrder(p) == CASE p = "setup" -> 0 [] p = "test" -> 1 [] p = "teardown" -> 2

Children(edges, n) == {e[2] : e \in {x \in edges : x[1] = n}}

ClosedUnder(edges, S) == \A e \in edges : e[1] \in S => e[2] \in S

\* getDescendants: every node reachable from n by at least one edge.
Descendants(nodes, edges, n) ==
    {m \in nodes : \A S \in SUBSET nodes :
                        Children(edges, n) \subseteq S /\ ClosedUnder(edges, S) => m \in S}

\* getAncestors: the nodes n is reachable from.
Ancestors(nodes, edges, n) == {a \in nodes : n \in Descendants(nodes, edges, a)}

\* The order visits every node once and no edge points backwards in it.
LinearExtension(nodes, edges, order) ==
    /\ order \in Seq(nodes)
    /\ \A n \in nodes : \E i \in 1..Len(order) : order[i] = n
    /\ \A i, j \in 1..Len(order) : order[i] = order[j] => i = j
    /\ \A i, j \in 1..Len(order) : <<order[i], order[j]>> \in edges => i < j

\* parseAndValidateDefinition's rule on the phases of an edge's ends.
PhasesMoveForward(phase, edges) == \A e \in edges : PhaseOrder(phase[e[1]]) <= PhaseOrder(phase[e[2]])

\* A filter: the elements at the positions kept, in their order.
Position(kept, k) == CHOOSE i \in kept : Cardinality({j \in kept : j <= i}) = k
Filter(list, kept) == [k \in 1..Cardinality(kept) |-> list[Position(kept, k)]]

\* nodesForPhase: the nodes of one phase, in the order of the whole graph.
NodesForPhase(phase, order, p) == Filter(order, {i \in DOMAIN order : phase[order[i]] = p})

(* A definition that parseAndValidateDefinition and validateDefinitionForRun
   accept: a phase for each node, edges that never regress in phase, for each
   phase its nodes in the order a run visits them (nodesForPhase of
   buildTopologicalOrder, which exists because there is no cycle), and for each
   node the nodes whose exports its template reads, all of them ancestors. *)
IsDefinition(nodes, d) ==
    /\ d.phase \in [nodes -> Phases]
    /\ d.edges \in SUBSET (nodes \X nodes)
    /\ PhasesMoveForward(d.phase, d.edges)
    /\ d.byPhase \in [Phases -> Seq(nodes)]
    /\ \A p \in Phases : \A i \in 1..Len(d.byPhase[p]) : d.phase[d.byPhase[p][i]] = p
    /\ LinearExtension(nodes, d.edges, d.byPhase["setup"] \o d.byPhase["test"] \o d.byPhase["teardown"])
    /\ d.reads \in [nodes -> SUBSET nodes]
    /\ \A n \in nodes : d.reads[n] \subseteq Ancestors(nodes, d.edges, n)
=============================================================================
