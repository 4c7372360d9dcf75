-------------------------- MODULE MCWorkflowEditor --------------------------
(***************************************************************************)
(* One instance of the modules around the workflow editor: every           *)
(* definition with up to MaxNodes nodes and MaxEdges edges, the canvas on  *)
(* which one is drawn, the inspector of its nodes, stored workflows with   *)
(* their tabs, and what a run's steps send.  A behaviour moves one of      *)
(* them, its subject.  The code compares ids for equality only, so node    *)
(* ids are symmetric.                                                      *)
(***************************************************************************)
EXTENDS WorkflowDefinition, WorkflowCanvas, NodeInspector, WorkflowAuthoring, StepExecution, TLC

CONSTANTS tab1, tab2, call1, call2

VARIABLE subject

AllPhases == Phases
EditorSymmetry ==
    Permutations(NodeIds) \union Permutations({tab1, tab2}) \union Permutations({call1, call2})

\* What a step of StepExecution may be: one that sends a literal, or one that reads a value.
Literal == [form |-> "literal", ns |-> "none", name |-> "none", place |-> "body"]
NoAssertion == [type |-> "none", operator |-> "lessThan", expected |-> "number"]
StatusIs == [type |-> "status", operator |-> "equals", expected |-> "number"]
FieldIs == [type |-> "jsonPath", operator |-> "equals", expected |-> "text"]
BodyAsX == [name |-> "x", source |-> "body"]
BodyAsY == [name |-> "y", source |-> "body"]
HeaderAsX == [name |-> "x", source |-> "header"]
NoExport == [name |-> "none", source |-> "status"]

\* An export as a body's field, in the query or inside a text; test data inside a text.
References ==
    {t \in Templates : \/ t.ns = "vars" /\ (t.form = "pure" \/ t.place = "body")
                       \/ t.ns = "data" /\ t.form = "embedded"}

MCPlans ==
    [template : {Literal}, assertion : {StatusIs, FieldIs}, export : {BodyAsX}]
    \union [template : {Literal}, assertion : {NoAssertion}, export : {NoExport, HeaderAsX}]
    \union [template : References, assertion : {NoAssertion}, export : {NoExport, BodyAsY}]

writingVars == <<canvasVars, inspectorVars, authoringVars>>

\* Nothing reads what the last step exports, so the last step is a reader that exports nothing.
MCInit ==
    /\ subject \in {"definitions", "canvas", "inspector", "workflows", "steps"}
    /\ Init /\ CanvasInit /\ InspectorInit /\ AuthoringInit /\ StepInit
    /\ subject = "steps" => plan[Steps].template # Literal /\ plan[Steps].export = NoExport
    /\ subject # "steps" => \A n \in StepIds : plan[n] = [template |-> Literal, assertion |-> NoAssertion, export |-> NoExport]

MCNext ==
    /\ UNCHANGED subject
    /\ \/ subject = "definitions" /\ Next /\ UNCHANGED <<writingVars, stepVars>>
       \/ subject = "canvas" /\ CanvasNext /\ UNCHANGED <<definitionVars, inspectorVars, authoringVars, stepVars>>
       \/ subject = "inspector" /\ InspectorNext /\ UNCHANGED <<definitionVars, canvasVars, authoringVars, stepVars>>
       \/ subject = "workflows" /\ AuthoringNext /\ UNCHANGED <<definitionVars, canvasVars, inspectorVars, stepVars>>
       \/ subject = "steps" /\ StepNext /\ UNCHANGED <<definitionVars, writingVars>>

MCSpec == MCInit /\ [][MCNext]_<<subject, definitionVars, writingVars, stepVars>>
------------------------------------------------------------------------------
(* Every variable of the module that moves stays in its range. *)
EditorTypeOK ==
    /\ subject = "canvas" => CanvasTypeOK
    /\ subject = "inspector" => InspectorTypeOK
    /\ subject = "workflows" => AuthoringTypeOK
    /\ subject = "steps" => StepTypeOK
=============================================================================
