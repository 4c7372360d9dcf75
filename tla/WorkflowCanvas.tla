--------------------------- MODULE WorkflowCanvas ---------------------------
(***************************************************************************)
(* Drawing a workflow in the editor: endpoints are dropped on the canvas,  *)
(* connected, selected, given a phase in the inspector and removed.  The   *)
(* canvas refuses a connection with searches of its own, written apart     *)
(* from the validation the server runs when the drawing is saved.          *)
(*                                                                         *)
(* Sources: frontend widgets/test-workflow-canvas/ui/                      *)
(* test-workflow-canvas.tsx, features/test-workflow-editor.                *)
(***************************************************************************)
EXTENDS WorkflowValidation

CONSTANTS CanvasIds,    \* ids the canvas can generate
          NotSelected,  \* no node is selected
          DefaultName,  \* the name a new export has
          OtherNames,   \* names an export may be given
          MaxDrawn      \* bound on the number of edges and exports drawn

ASSUME MaxDrawnAssumption == MaxDrawn \in Nat

VARIABLES drawnNodes,  \* definition.nodes: a sequence of [id, phase]
          drawnEdges,  \* definition.edges: a sequence of <<source, target>>
          drawnExports,  \* exports of the nodes: a sequence of <<node, name>>
          selected,    \* selectedNodeId
          rephased     \* history: a phase was chosen since the last save

canvasVars == <<drawnNodes, drawnEdges, drawnExports, selected, rephased>>

DrawnIds == IdSet(drawnNodes)
DrawnEdgeSet == EdgeSet(drawnEdges)
DrawnPhase(n) == drawnNodes[CHOOSE i \in DOMAIN drawnNodes : drawnNodes[i].id = n].phase

DrawnNames == [i \in DOMAIN drawnExports |-> drawnExports[i][2]]
ExportNames == {DefaultName} \union OtherNames
MayDraw == Len(drawnEdges) + Len(drawnExports) < MaxDrawn

\* What the server makes of the drawing; the canvas gives each edge an id of its own.
ServerVerdict == ParseAndValidateDefinition(drawnNodes, drawnEdges, [i \in DOMAIN drawnEdges |-> i], DrawnNames)
------------------------------------------------------------------------------
\* ADD_NODE: a dropped endpoint is a test node with an id never used before.
OnDrop(id) ==
    /\ id \notin DrawnIds
    /\ drawnNodes' = Append(drawnNodes, [id |-> id, phase |-> "test"])
    /\ UNCHANGED <<drawnEdges, drawnExports, selected, rephased>>

\* Mutant: only an edge straight back is a cycle.
HasCycleStraight(source, target) == source = target \/ <<target, source>> \in DrawnEdgeSet

\* hasCycle: the source is found from the target.
HasCycle(source, target) == source = target \/ source \in Descendants(DrawnIds, DrawnEdgeSet, target)

GetPhaseConnectionError(source, target) ==
    \/ ~({source, target} \subseteq DrawnIds)
    \/ PhaseOrder(DrawnPhase(source)) > PhaseOrder(DrawnPhase(target))

\* ADD_EDGE; the same two nodes may be connected twice.
OnConnect(source, target) ==
    /\ MayDraw
    /\ ~HasCycle(source, target) /\ ~GetPhaseConnectionError(source, target)
    /\ drawnEdges' = Append(drawnEdges, <<source, target>>)
    /\ UNCHANGED <<drawnNodes, drawnExports, selected, rephased>>

\* REMOVE_EDGE, by the edge's id; edges are deleted one by one.
OnEdgesDelete(i) ==
    /\ drawnEdges' = Filter(drawnEdges, DOMAIN drawnEdges \ {i})
    /\ UNCHANGED <<drawnNodes, drawnExports, selected, rephased>>

\* SELECT_NODE opens the inspector; SELECT_EDGE and DESELECT close it.
Select(n) ==
    /\ n \in DrawnIds \union {NotSelected} /\ n # selected
    /\ selected' = n
    /\ UNCHANGED <<drawnNodes, drawnEdges, drawnExports, rephased>>

\* The inspector's phase menu: SET_NODES, whatever edges the node has.
UpdateNodePhase(phase) ==
    /\ selected # NotSelected /\ phase # DrawnPhase(selected)
    /\ drawnNodes' = [i \in DOMAIN drawnNodes |->
                         IF drawnNodes[i].id = selected THEN [drawnNodes[i] EXCEPT !.phase = phase] ELSE drawnNodes[i]]
    /\ rephased' = TRUE
    /\ UNCHANGED <<drawnEdges, drawnExports, selected>>

\* UPDATE_NODE_EXPORTS from the inspector's list of exports.
AppendExport ==
    /\ selected # NotSelected /\ MayDraw
    /\ drawnExports' = Append(drawnExports, <<selected, DefaultName>>)
    /\ UNCHANGED <<drawnNodes, drawnEdges, selected, rephased>>

RemoveExport(i) ==
    /\ drawnExports[i][1] = selected
    /\ drawnExports' = Filter(drawnExports, DOMAIN drawnExports \ {i})
    /\ UNCHANGED <<drawnNodes, drawnEdges, selected, rephased>>

RenameExport(i, name) ==
    /\ drawnExports[i][1] = selected /\ drawnExports[i][2] # name
    /\ drawnExports' = [drawnExports EXCEPT ![i] = <<selected, name>>]
    /\ UNCHANGED <<drawnNodes, drawnEdges, selected, rephased>>

\* Mutant: the inspector stays with the node that is gone.
DeleteNodeSelected ==
    /\ selected # NotSelected
    /\ drawnNodes' = Filter(drawnNodes, {i \in DOMAIN drawnNodes : drawnNodes[i].id # selected})
    /\ drawnEdges' = Filter(drawnEdges, {i \in DOMAIN drawnEdges : selected \notin {drawnEdges[i][1], drawnEdges[i][2]}})
    /\ drawnExports' = Filter(drawnExports, {i \in DOMAIN drawnExports : drawnExports[i][1] # selected})
    /\ UNCHANGED <<selected, rephased>>

\* REMOVE_NODE, from the inspector: its edges and its exports go with it.
DeleteNode ==
    /\ selected # NotSelected
    /\ drawnNodes' = Filter(drawnNodes, {i \in DOMAIN drawnNodes : drawnNodes[i].id # selected})
    /\ drawnEdges' = Filter(drawnEdges, {i \in DOMAIN drawnEdges : selected \notin {drawnEdges[i][1], drawnEdges[i][2]}})
    /\ drawnExports' = Filter(drawnExports, {i \in DOMAIN drawnExports : drawnExports[i][1] # selected})
    /\ selected' = NotSelected
    /\ UNCHANGED rephased

\* SAVE_SUCCESS of a drawing the server accepts: what was drawn is loaded again.
Saved ==
    /\ ServerVerdict = "ok" /\ rephased
    /\ rephased' = FALSE /\ selected' = NotSelected
    /\ UNCHANGED <<drawnNodes, drawnEdges, drawnExports>>
------------------------------------------------------------------------------
CanvasInit ==
    drawnNodes = <<>> /\ drawnEdges = <<>> /\ drawnExports = <<>> /\ selected = NotSelected /\ rephased = FALSE

CanvasNext ==
    \/ \E id \in CanvasIds : OnDrop(id)
    \/ \E source, target \in CanvasIds : OnConnect(source, target)
    \/ \E i \in DOMAIN drawnEdges : OnEdgesDelete(i)
    \/ \E n \in CanvasIds \union {NotSelected} : Select(n)
    \/ \E phase \in Phases : UpdateNodePhase(phase)
    \/ \E i \in DOMAIN drawnExports : RemoveExport(i) \/ \E name \in ExportNames : RenameExport(i, name)
    \/ AppendExport \/ DeleteNode \/ Saved

CanvasSpec == CanvasInit /\ [][CanvasNext]_canvasVars
------------------------------------------------------------------------------
(* The lists are lists of nodes and of edges, and a selected node exists. *)
CanvasTypeOK ==
    /\ drawnNodes \in Seq([id : CanvasIds, phase : Phases])
    /\ drawnEdges \in Seq(CanvasIds \X CanvasIds)
    /\ drawnExports \in Seq(DrawnIds \X ExportNames)
    /\ selected \in DrawnIds \union {NotSelected}
    /\ rephased \in BOOLEAN

(* However an author draws and removes nodes, edges and exports, as long as no phase was changed
   since the last save, of what the server checks beyond the shape it finds one thing to refuse
   at most: two exports of one name.
   The two searches for cycles and the two phase rules agree (test-workflow-canvas.tsx:154-180,
   workflow-phases.ts:21, definition.schema.ts:191-303), but nothing in the editor keeps names
   apart, and two new exports have the same (exports-editor.tsx:14).  A phase change is not
   compared with the edges there are, so after one the server may refuse more
   (node-inspector.tsx:93). *)
CanvasBuildsValid ==
    ~rephased => ServerVerdict = IF Repeats(DrawnNames) THEN "duplicate export name" ELSE "ok"
=============================================================================
