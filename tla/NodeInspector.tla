---------------------------- MODULE NodeInspector ---------------------------
(***************************************************************************)
(* The inspector of a workflow's node: the request it sends, the values it *)
(* exports and its assertions.  The request tab copies the node's template *)
(* into tables of its own and writes the whole template back on every      *)
(* edit.  It stays mounted when another node is selected, and a file is    *)
(* read while editing goes on, so its callback holds an older render.      *)
(* Content is abstracted to the nodes its author was editing.              *)
(*                                                                         *)
(* Sources: frontend features/test-workflow-editor, entities/api-console,  *)
(* page/dashboard-tests/workflow.                                          *)
(***************************************************************************)
EXTENDS Naturals, Sequences

CONSTANTS InspectedIds,  \* ids of nodes
          NoNode,
          MaxInspected   \* bound: edits

ASSUME InspectorAssumption == NoNode \notin InspectedIds /\ MaxInspected \in Nat

VARIABLES drafted,       \* the definition's nodes
          inspected,     \* selectedNodeId
          activeTab,     \* the inspector's tab
          form,          \* the state of the request tab
          fileRead,      \* a file being read, with the render that chose it
          lateRead,      \* a file was read after something had changed
          inspectorEdits

inspectorVars == <<drafted, inspected, activeTab, form, fileRead, lateRead, inspectorEdits>>

Origins == SUBSET InspectedIds

\* headers, query and path parameters; other: a content-type row, in lower case, of another type.
InspectorTables == [from : Origins, other : BOOLEAN]
Template == [tables : InspectorTables, kind : {"none", "text", "object", "parts"}, body : Origins]

EmptyTemplate == [tables |-> [from |-> {}, other |-> FALSE], kind |-> "none", body |-> {}]

Sources == {"body", "header", "status"}
Export == [source : Sources, path : {"missing", "empty", "typed"}, headerName : {"missing", "empty", "typed"}]
Operators(type) ==
    CASE type = "status" -> {"equals", "notEquals", "in"}
      [] type = "jsonPath" -> {"exists", "equals", "notEquals", "contains"}
      [] type = "header" -> {"exists", "equals", "contains"}
      [] type = "responseTime" -> {"lessThan"}
AssertionTypes == {"status", "jsonPath", "header", "responseTime"}
------------------------------------------------------------------------------
NewForm == [tables |-> [from |-> {}, other |-> FALSE], type |-> "json", text |-> {}, object |-> FALSE,
            fields |-> {}, parts |-> {}]
NotReading == [node |-> NoNode, form |-> NewForm, drafted |-> <<>>, mounted |-> FALSE]

\* A body in parts is told by its content type, of which the first row counts.
ShownType(t) ==
    CASE t.kind = "parts" /\ ~t.tables.other -> "multipart"
      [] t.kind = "object" -> "key-value"
      [] OTHER -> "json"

\* Mutant: the tables of the other tabs keep what they had.
PopulateShown(t) ==
    [form EXCEPT !.tables = t.tables, !.type = ShownType(t), !.object = FALSE,
                 !.text = IF ShownType(t) = "json" THEN t.body ELSE @,
                 !.fields = IF ShownType(t) = "key-value" THEN t.body ELSE @,
                 !.parts = IF ShownType(t) = "multipart" THEN t.body ELSE @]

\* The tables and the body of a template; the tabs it does not use are emptied.
Populate(t) ==
    [tables |-> t.tables, type |-> ShownType(t), object |-> FALSE,
     text |-> IF ShownType(t) = "json" THEN t.body ELSE {},
     fields |-> IF ShownType(t) = "key-value" THEN t.body ELSE {},
     parts |-> IF ShownType(t) = "multipart" THEN t.body ELSE {}]

\* The template a form stands for.  Text that parses to an object is stored as one.
Written(f) ==
    [tables |-> f.tables,
     kind |-> CASE f.type = "multipart" -> "parts"
                [] f.type = "key-value" -> "object"
                [] OTHER -> IF f.text = {} THEN "none" ELSE IF f.object THEN "object" ELSE "text",
     body |-> CASE f.type = "multipart" -> f.parts
                [] f.type = "key-value" -> f.fields
                [] OTHER -> f.text]
------------------------------------------------------------------------------
(***************************************************************************)
(* Selecting, adding and deleting nodes.                                   *)
(***************************************************************************)
\* A selected node that is not among the nodes is not shown.
Shown == inspected \in DOMAIN drafted

InspectorEdit == inspectorEdits < MaxInspected /\ inspectorEdits' = inspectorEdits + 1

\* Leaving the tab unmounts the component a read reports to.
LeaveTab == fileRead' = [fileRead EXCEPT !.mounted = FALSE]

\* The effect on node.id runs before anything else is clicked.
SelectNode(n) ==
    /\ n \in DOMAIN drafted /\ n # inspected /\ inspected' = n
    /\ activeTab' = IF ~Shown THEN "general" ELSE activeTab
    /\ form' = IF activeTab' = "request" THEN Populate(drafted[n].template) ELSE form
    /\ UNCHANGED <<drafted, fileRead, lateRead, inspectorEdits>>

\* The canvas, and every save, which loads the workflow again.
Deselect ==
    /\ inspected # NoNode /\ inspected' = NoNode /\ activeTab' = "general" /\ LeaveTab
    /\ UNCHANGED <<drafted, form, lateRead, inspectorEdits>>

OpenTab(tab) ==
    /\ Shown /\ tab # activeTab /\ activeTab' = tab /\ LeaveTab
    /\ form' = IF tab = "request" THEN Populate(drafted[inspected].template) ELSE form
    /\ UNCHANGED <<drafted, inspected, lateRead, inspectorEdits>>

DropEndpoint(n) ==
    /\ InspectorEdit /\ n \notin DOMAIN drafted \union {inspected}
    /\ drafted' = [m \in DOMAIN drafted \union {n} |->
                       IF m = n THEN [template |-> EmptyTemplate, exports |-> <<>>, assertions |-> <<>>]
                       ELSE drafted[m]]
    /\ UNCHANGED <<inspected, activeTab, form, fileRead, lateRead>>

RemoveNode ==
    /\ InspectorEdit /\ Shown /\ drafted' = [m \in DOMAIN drafted \ {inspected} |-> drafted[m]]
    /\ inspected' = NoNode /\ activeTab' = "general" /\ LeaveTab
    /\ UNCHANGED <<form, lateRead>>
------------------------------------------------------------------------------
(***************************************************************************)
(* The request tab.                                                        *)
(***************************************************************************)
\* Every edit writes the whole template; updateNode maps the nodes of the render.
TriggerFieldsChange(f) ==
    /\ InspectorEdit /\ Shown /\ activeTab = "request"
    /\ form' = f /\ drafted' = [drafted EXCEPT ![inspected].template = Written(f)]
    /\ UNCHANGED <<inspected, activeTab, fileRead, lateRead>>

\* Rows are added, changed or deleted.
Typed(from) == SUBSET (from \union {inspected})

EditTables == \E from \in Typed(form.tables.from), other \in BOOLEAN :
    /\ other => inspected \in from \/ form.tables.other
    /\ TriggerFieldsChange([form EXCEPT !.tables = [from |-> from, other |-> other]])

ChangeBodyType(type) == TriggerFieldsChange([form EXCEPT !.type = type])

EditBodyText == \E from \in Typed({}), object \in BOOLEAN :
    form.type = "json" /\ TriggerFieldsChange([form EXCEPT !.text = from, !.object = object])

EditBodyFields == \E from \in Typed(form.fields) :
    form.type = "key-value" /\ TriggerFieldsChange([form EXCEPT !.fields = from])

EditBodyParts == \E from \in Typed(form.parts) :
    form.type = "multipart" /\ TriggerFieldsChange([form EXCEPT !.parts = from])

ChooseFile ==
    /\ Shown /\ activeTab = "request" /\ form.type = "multipart" /\ fileRead = NotReading
    /\ fileRead' = [node |-> inspected, form |-> form, drafted |-> drafted, mounted |-> TRUE]
    /\ UNCHANGED <<drafted, inspected, activeTab, form, lateRead, inspectorEdits>>

\* onload calls the handlers of the render that chose the file: its node, form and nodes.
FileRead ==
    /\ fileRead # NotReading
    /\ LET read == [fileRead.form EXCEPT !.parts = @ \union {fileRead.node}] IN
       /\ drafted' = [fileRead.drafted EXCEPT ![fileRead.node].template = Written(read)]
       /\ form' = IF fileRead.mounted THEN [form EXCEPT !.parts = read.parts] ELSE form
    /\ lateRead' = (lateRead \/ fileRead # [node |-> inspected, form |-> form, drafted |-> drafted, mounted |-> TRUE])
    /\ activeTab' = IF inspected \in DOMAIN drafted' THEN activeTab ELSE "general"
    /\ fileRead' = NotReading
    /\ UNCHANGED <<inspected, inspectorEdits>>
------------------------------------------------------------------------------
(***************************************************************************)
(* The tabs of exports and of assertions: one of each is enough.           *)
(***************************************************************************)
EditOf(tab) == InspectorEdit /\ Shown /\ activeTab = tab /\ UNCHANGED <<inspected, activeTab, form, fileRead, lateRead>>

SetExports(list) == EditOf("exports") /\ drafted' = [drafted EXCEPT ![inspected].exports = list]

AddExport ==
    /\ drafted[inspected].exports = <<>>
    /\ SetExports(<<[source |-> "body", path |-> "typed", headerName |-> "missing"]>>)

\* The fields of the other sources are deleted, an empty one gets a default.
ChangeSource(source) ==
    [source |-> source,
     path |-> IF source # "body" THEN "missing" ELSE "typed",
     headerName |-> IF source # "header" THEN "missing" ELSE "typed"]

EditExport ==
    /\ Shown /\ drafted[inspected].exports # <<>>
    /\ LET e == drafted[inspected].exports[1] IN
       \/ SetExports(<<>>)
       \/ \E source \in Sources \ {e.source} : SetExports(<<ChangeSource(source)>>)
       \/ \E typed \in {"empty", "typed"} :
              \/ e.source = "body" /\ SetExports(<<[e EXCEPT !.path = typed]>>)
              \/ e.source = "header" /\ SetExports(<<[e EXCEPT !.headerName = typed]>>)
SetAssertions(list) == EditOf("assertions") /\ drafted' = [drafted EXCEPT ![inspected].assertions = list]

NewAssertion(type) ==
    [type |-> type, operator |-> IF type = "responseTime" THEN "lessThan" ELSE "equals",
     expected |-> IF type \in {"status", "responseTime"} THEN "number" ELSE "text", named |-> TRUE]

AddAssertion(type) == drafted[inspected].assertions = <<>> /\ SetAssertions(<<NewAssertion(type)>>)

\* Changing the operator keeps what is expected; a number that does not parse becomes the default.
EditAssertion ==
    /\ Shown /\ drafted[inspected].assertions # <<>>
    /\ LET a == drafted[inspected].assertions[1] IN
       \/ SetAssertions(<<>>)
       \/ \E operator \in Operators(a.type) : SetAssertions(<<[a EXCEPT !.operator = operator]>>)
       \/ a.type = "status" /\ SetAssertions(<<[a EXCEPT !.expected = IF a.operator = "in" THEN "list" ELSE "number"]>>)
       \/ a.type \in {"jsonPath", "header"} /\ SetAssertions(<<[a EXCEPT !.named = ~a.named]>>)
------------------------------------------------------------------------------
InspectorInit ==
    /\ drafted = <<>> /\ inspected = NoNode /\ activeTab = "general" /\ form = NewForm
    /\ fileRead = NotReading /\ lateRead = FALSE /\ inspectorEdits = 0

InspectorNext ==
    \/ \E n \in InspectedIds : SelectNode(n) \/ DropEndpoint(n)
    \/ Deselect \/ RemoveNode
    \/ \E tab \in {"general", "request", "exports", "assertions"} : OpenTab(tab)
    \/ EditTables \/ EditBodyText \/ EditBodyFields \/ EditBodyParts
    \/ \E type \in {"json", "key-value", "multipart"} \ {form.type} : ChangeBodyType(type)
    \/ ChooseFile \/ FileRead
    \/ Shown /\ (AddExport \/ \E type \in AssertionTypes : AddAssertion(type))
    \/ EditExport \/ EditAssertion

InspectorSpec == InspectorInit /\ [][InspectorNext]_inspectorVars
------------------------------------------------------------------------------
InspectorTypeOK ==
    /\ DOMAIN drafted \subseteq InspectedIds /\ inspected \in InspectedIds \union {NoNode}
    /\ \A n \in DOMAIN drafted : drafted[n].template \in Template
    /\ activeTab \in {"general", "request", "exports", "assertions"}
    /\ form.type \in {"json", "key-value", "multipart"}
    /\ {form.text, form.fields, form.parts, form.tables.from} \subseteq Origins
    /\ lateRead \in BOOLEAN /\ inspectorEdits \in 0..MaxInspected

\* What extractExport requires of an export.
Extractable(e) ==
    /\ e.source = "body" => e.path # "missing"
    /\ e.source = "header" => e.headerName # "missing"

(* Unless a file was read after something had changed, what was typed for a node is in that
   node's template alone, and the request tab shows what a save would store: its tables are
   those of the selected node's template, or the template is what they stand for.  An export has
   the field its source is read by, however often the source changed. *)
TemplatesStayWithTheirNode ==
    ~lateRead =>
        /\ inspected # NoNode => Shown
        /\ \A n \in DOMAIN drafted :
               /\ drafted[n].template.tables.from \union drafted[n].template.body \subseteq {n}
               /\ \A i \in DOMAIN drafted[n].exports : Extractable(drafted[n].exports[i])
        /\ Shown /\ activeTab = "request" =>
               \/ form = Populate(drafted[inspected].template)
               \/ Written(form) = drafted[inspected].template
=============================================================================
