---------------------------- MODULE Editor_proofs -----------------------------
(***************************************************************************)
(* Proofs about the workflow editor: what the tabs save, what the inspector*)
(* of a node writes, and what the steps of a run send.  The modules share  *)
(* no variable: a theorem is of its own module's specification, and the    *)
(* last section puts them together to the instance that is checked.        *)
(***************************************************************************)
EXTENDS MCWorkflowEditor, WorkflowDefinition_proofs, FiniteSetTheorems, WellFoundedInduction, TLAPS
------------------------------------------------------------------------------
(***************************************************************************)
(* Stored workflows and the editors of several tabs.  Whoever knows a      *)
(* workflow by the revision that is stored, be it a list, an editor or a   *)
(* save under way, has all of what is stored (Fits), and a save replaces   *)
(* the stored content under the stored revision only.                      *)
(***************************************************************************)
EditorRowType == [state : {"none", "live", "deleted"}, revision : Nat \ {0}, content : SUBSET Edits]
EntryType == [listed : BOOLEAN, revision : Nat \ {0}, content : SUBSET Edits]
EditorType == [workflow : WorkflowIds \union {NoWorkflow}, revision : Nat \ {0}, content : SUBSET Edits,
               dirty : BOOLEAN, saving : BOOLEAN, conflict : BOOLEAN, saved : BOOLEAN]
EditorCallType ==
    [pc : {"idle", "read", "insert", "update", "answer"}, tab : Tabs \union {NoPageTab},
     kind : {"create", "save", "delete"}, workflow : WorkflowIds \union {NoWorkflow}, revision : Nat \ {0},
     content : SUBSET Edits, list : SUBSET WorkflowIds, result : {"none", "done", "conflict", "refused"}]

Fits(row, revision, content) == revision <= row.revision /\ (revision = row.revision => row.content \subseteq content)
EntryFits(row, e) == e.listed => Fits(row, e.revision, e.content)
EditorFits(rows, s) == s.workflow # NoWorkflow => Fits(rows[s.workflow], s.revision, s.content)

\* A call that is about a workflow.
Concerns(call) ==
    \/ call.kind \in {"save", "delete"} /\ call.pc \in {"read", "update"}
    \/ call.kind \in {"create", "save"} /\ call.pc = "answer" /\ call.result = "done"

CallFits(rows, call) ==
    /\ Concerns(call) => call.workflow \in WorkflowIds /\ (call.kind = "save" => Fits(rows[call.workflow], call.revision, call.content))
    /\ call.pc = "insert" => call.kind = "create"
    /\ call.pc = "answer" => call.tab \in Tabs

RowsTyped(rows) ==
    /\ rows \in [WorkflowIds -> EditorRowType]
    /\ \A w \in WorkflowIds : rows[w].revision = 1 => rows[w].content = {}

PagesFit(rows, editors, lists) ==
    /\ editors \in [Tabs -> EditorType] /\ lists \in [Tabs -> [WorkflowIds -> EntryType]]
    /\ \A t \in Tabs : EditorFits(rows, editors[t]) /\ \A w \in WorkflowIds : EntryFits(rows[w], lists[t][w])

CallsFit(rows, calls) ==
    /\ calls \in [EditorCalls -> EditorCallType]
    /\ \A c \in EditorCalls : CallFits(rows, calls[c])

AuthoringInv ==
    /\ RowsTyped(workflowRow) /\ PagesFit(workflowRow, editor, workflows) /\ CallsFit(workflowRow, editorCall)
    /\ edits \in 0..MaxEdits

\* A revision is stored once: a row keeps its content, or its revision grows and its content too.
Grows(rows, next) ==
    \A w \in WorkflowIds :
        \/ next[w].revision = rows[w].revision /\ next[w].content = rows[w].content
        \/ next[w].revision > rows[w].revision /\ rows[w].content \subseteq next[w].content
------------------------------------------------------------------------------
LEMMA CurrentListed ==
    ASSUME NEW list \in [WorkflowIds -> EntryType], NEW r
    PROVE  Current(list, r) = NoWorkflow \/ (Current(list, r) \in WorkflowIds /\ list[Current(list, r)].listed)
  <1> DEFINE listed == {w \in WorkflowIds : list[w].listed}
  <1>1. listed # {} => \E m \in listed : \A k \in listed : k <= m
    BY GreatestExists, AuthoringAssumption DEF WorkflowIds
  <1>2. CASE r \in listed
    BY <1>2 DEF Current
  <1>3. CASE listed = {}
    BY <1>3 DEF Current
  <1>4. CASE r \notin listed /\ listed # {}
    <2>1. Current(list, r) = CHOOSE w \in listed : \A x \in listed : x <= w
      BY <1>4 DEF Current
    <2> HIDE DEF listed
    <2>2. Current(list, r) \in listed
      BY <1>1, <1>4, <2>1
    <2> QED BY <2>2 DEF listed
  <1> QED BY <1>2, <1>3, <1>4

LEMMA EmptyEditorTyped == EmptyEditor \in EditorType /\ EmptyEditor.workflow = NoWorkflow /\ ~EmptyEditor.saved
  BY DEF EmptyEditor, EditorType

LEMMA LoadedFits ==
    ASSUME NEW rows, NEW w \in WorkflowIds, NEW e \in EntryType, EntryFits(rows[w], e), e.listed
    PROVE  /\ LoadWorkflow(w, e) \in EditorType /\ EditorFits(rows, LoadWorkflow(w, e))
           /\ LoadWorkflow(w, e).workflow = w /\ LoadWorkflow(w, e).revision = e.revision
           /\ LoadWorkflow(w, e).content = e.content
  <1>1. PICK l : l = LoadWorkflow(w, e)
    OBVIOUS
  <1>2. l = [workflow |-> w, revision |-> e.revision, content |-> e.content,
             dirty |-> FALSE, saving |-> FALSE, conflict |-> FALSE, saved |-> FALSE]
    BY <1>1 DEF LoadWorkflow, EmptyEditor
  <1>3. l \in EditorType /\ l.workflow = w /\ l.revision = e.revision /\ l.content = e.content
    BY <1>2 DEF EditorType, EntryType
  <1>4. EditorFits(rows, l)
    BY <1>3 DEF EditorFits, EntryFits
  <1> QED BY <1>1, <1>3, <1>4

LEMMA EntryTyped ==
    ASSUME NEW r \in Nat \ {0}, NEW c \in SUBSET Edits
    PROVE  Entry(r, c) \in EntryType /\ Entry(r, c).listed /\ Entry(r, c).revision = r /\ Entry(r, c).content = c
  BY DEF Entry, EntryType

\* What a render makes of a list and an editor that fit fits too.
LEMMA RenderKeeps ==
    ASSUME RowsTyped(workflowRow), PagesFit(workflowRow, editor, workflows), NEW t \in Tabs,
           NEW list \in [WorkflowIds -> EntryType], NEW r, NEW s \in EditorType,
           EditorFits(workflowRow, s), \A w \in WorkflowIds : EntryFits(workflowRow[w], list[w]),
           Render(t, list, r, s)
    PROVE  PagesFit(workflowRow, editor', workflows')
  <1>1. PICK e, l : e = LoadCurrent(list, r, s) /\ l = SyncList(list, s)
    OBVIOUS
  <1>2. e \in EditorType /\ EditorFits(workflowRow, e)
    <2>1. PICK w : w = Current(list, r)
      OBVIOUS
    <2>2. CASE w \in {NoWorkflow, s.workflow}
      BY <1>1, <2>1, <2>2 DEF LoadCurrent
    <2>3. CASE w \notin {NoWorkflow, s.workflow}
      <3>1. w \in WorkflowIds /\ list[w].listed
        BY <2>1, <2>3, CurrentListed
      <3>2. e = LoadWorkflow(w, list[w])
        BY <1>1, <2>1, <2>3 DEF LoadCurrent
      <3>3. list[w] \in EntryType /\ EntryFits(workflowRow[w], list[w])
        BY <3>1
      <3> QED BY <3>1, <3>2, <3>3, LoadedFits
    <2> QED BY <2>2, <2>3
  <1>3. l \in [WorkflowIds -> EntryType] /\ \A w \in WorkflowIds : EntryFits(workflowRow[w], l[w])
    <2>1. CASE s.saved /\ s.workflow # NoWorkflow /\ list[s.workflow].listed
      <3>1. PICK w, n : w = s.workflow /\ n = Entry(s.revision, s.content)
        OBVIOUS
      <3>2. w \in WorkflowIds /\ n \in EntryType
        BY <2>1, <3>1, EntryTyped DEF EditorType
      <3>3. EntryFits(workflowRow[w], n)
        BY <2>1, <3>1 DEF EntryFits, EditorFits, Entry
      <3>4. l = [list EXCEPT ![w] = n]
        BY <1>1, <2>1, <3>1 DEF SyncList
      <3> QED BY <3>2, <3>3, <3>4
    <2>2. CASE ~(s.saved /\ s.workflow # NoWorkflow /\ list[s.workflow].listed)
      BY <1>1, <2>2 DEF SyncList
    <2> QED BY <2>1, <2>2
  <1>4. editor' = [editor EXCEPT ![t] = e] /\ workflows' = [workflows EXCEPT ![t] = l]
    BY <1>1 DEF Render
  <1> QED BY <1>2, <1>3, <1>4 DEF PagesFit

\* A call that fits takes the place of one.
LEMMA CallsKeep ==
    ASSUME NEW rows, NEW calls, CallsFit(rows, calls), NEW c \in EditorCalls, NEW k \in EditorCallType, CallFits(rows, k)
    PROVE  CallsFit(rows, [calls EXCEPT ![c] = k])
  BY DEF CallsFit

LEMMA NoCallFits == NoEditorCall \in EditorCallType /\ \A rows : CallFits(rows, NoEditorCall)
  BY DEF NoEditorCall, EditorCallType, CallFits, Concerns

\* Pages and calls keep fitting when rows grow.
LEMMA GrowingFits ==
    ASSUME NEW rows, NEW next, RowsTyped(rows), RowsTyped(next), Grows(rows, next), NEW w \in WorkflowIds,
           NEW r \in Nat, NEW c, Fits(rows[w], r, c)
    PROVE  Fits(next[w], r, c)
  <1>1. rows[w].revision \in Nat /\ next[w].revision \in Nat
    BY DEF RowsTyped, EditorRowType
  <1> QED BY <1>1 DEF Grows, Fits

LEMMA PagesKeepFitting ==
    ASSUME NEW rows, NEW next, RowsTyped(rows), RowsTyped(next), Grows(rows, next), NEW e, NEW l, PagesFit(rows, e, l)
    PROVE  PagesFit(next, e, l)
  <1> SUFFICES ASSUME NEW t \in Tabs PROVE EditorFits(next, e[t]) /\ \A w \in WorkflowIds : EntryFits(next[w], l[t][w])
    BY DEF PagesFit
  <1>1. e[t] \in EditorType /\ EditorFits(rows, e[t])
    BY DEF PagesFit
  <1>2. EditorFits(next, e[t])
    <2> SUFFICES ASSUME e[t].workflow # NoWorkflow PROVE Fits(next[e[t].workflow], e[t].revision, e[t].content)
      BY DEF EditorFits
    <2>1. /\ e[t].workflow \in WorkflowIds /\ e[t].revision \in Nat
          /\ Fits(rows[e[t].workflow], e[t].revision, e[t].content)
      BY <1>1 DEF EditorType, EditorFits
    <2> QED BY <2>1, GrowingFits
  <1>3. ASSUME NEW w \in WorkflowIds, l[t][w].listed PROVE Fits(next[w], l[t][w].revision, l[t][w].content)
    <2>1. l[t][w] \in EntryType /\ EntryFits(rows[w], l[t][w])
      BY DEF PagesFit
    <2>2. l[t][w].revision \in Nat /\ Fits(rows[w], l[t][w].revision, l[t][w].content)
      BY <1>3, <2>1 DEF EntryType, EntryFits
    <2> QED BY <2>2, GrowingFits
  <1> QED BY <1>2, <1>3 DEF EntryFits

LEMMA CallsKeepFitting ==
    ASSUME NEW rows, NEW next, RowsTyped(rows), RowsTyped(next), Grows(rows, next), NEW calls, CallsFit(rows, calls)
    PROVE  CallsFit(next, calls)
  <1> SUFFICES ASSUME NEW c \in EditorCalls PROVE CallFits(next, calls[c])
    BY DEF CallsFit
  <1>1. PICK k : k = calls[c] /\ k \in EditorCallType /\ CallFits(rows, k)
    BY DEF CallsFit
  <1>2. ASSUME Concerns(k), k.kind = "save" PROVE Fits(next[k.workflow], k.revision, k.content)
    <2>1. k.workflow \in WorkflowIds /\ k.revision \in Nat /\ Fits(rows[k.workflow], k.revision, k.content)
      BY <1>1, <1>2 DEF EditorCallType, CallFits
    <2> QED BY <2>1, GrowingFits
  <1> QED BY <1>1, <1>2 DEF CallFits
------------------------------------------------------------------------------
\* The steps of a page: rows stay, what is rendered and what is asked fits.
LEMMA StaysInv ==
    ASSUME AuthoringInv, UNCHANGED workflowRow, PagesFit(workflowRow, editor', workflows'),
           CallsFit(workflowRow, editorCall'), edits' \in 0..MaxEdits
    PROVE  AuthoringInv'
  BY DEF AuthoringInv

LEMMA MountKeeps ==
    ASSUME AuthoringInv, NEW t \in Tabs, NEW r, Mount(t, r)
    PROVE  AuthoringInv'
  <1>1. PICK list : list = [w \in WorkflowIds |-> IF LiveWorkflow(w) THEN Entry(workflowRow[w].revision, workflowRow[w].content)
                                                ELSE NotInList]
    OBVIOUS
  <1>2. ASSUME NEW w \in WorkflowIds PROVE list[w] \in EntryType /\ EntryFits(workflowRow[w], list[w])
    <2>1. workflowRow[w].revision \in Nat \ {0} /\ workflowRow[w].content \in SUBSET Edits
      BY DEF AuthoringInv, RowsTyped, EditorRowType
    <2>2. CASE LiveWorkflow(w)
      <3>1. list[w] = Entry(workflowRow[w].revision, workflowRow[w].content)
        BY <1>1, <2>2
      <3> QED BY <2>1, <3>1, EntryTyped DEF EntryFits, Fits
    <2>3. CASE ~LiveWorkflow(w)
      <3>1. list[w] = NotInList
        BY <1>1, <2>3
      <3> QED BY <3>1 DEF EntryFits, NotInList, EntryType
    <2> QED BY <2>2, <2>3
  <1>3. list \in [WorkflowIds -> EntryType]
    BY <1>1, <1>2
  <1>4. Render(t, list, r, EmptyEditor) /\ UNCHANGED <<workflowRow, edits>>
    BY <1>1 DEF Mount
  <1>5. EditorFits(workflowRow, EmptyEditor)
    BY EmptyEditorTyped DEF EditorFits
  <1>6. PagesFit(workflowRow, editor', workflows')
    BY <1>2, <1>3, <1>4, <1>5, EmptyEditorTyped, RenderKeeps DEF AuthoringInv
  <1>7. ASSUME NEW c \in EditorCalls
        PROVE  editorCall'[c] \in EditorCallType /\ CallFits(workflowRow, editorCall'[c])
    <2>1. PICK k : k = editorCall[c] /\ k \in EditorCallType /\ CallFits(workflowRow, k)
      BY DEF AuthoringInv, CallsFit
    <2>2. editorCall'[c] = IF k.tab # t THEN k ELSE IF k.pc = "answer" THEN NoEditorCall ELSE [k EXCEPT !.tab = NoPageTab]
      BY <2>1 DEF Mount
    <2>3. CASE k.tab # t \/ k.pc = "answer"
      BY <2>1, <2>2, <2>3, NoCallFits
    <2>4. CASE k.tab = t /\ k.pc # "answer"
      <3>1. PICK n : n = [k EXCEPT !.tab = NoPageTab] /\ n = editorCall'[c]
        BY <2>2, <2>4
      <3>2. /\ n \in EditorCallType /\ n.pc = k.pc /\ n.kind = k.kind /\ n.workflow = k.workflow
            /\ n.revision = k.revision /\ n.content = k.content /\ n.result = k.result
        BY <2>1, <3>1 DEF EditorCallType
      <3> QED BY <2>1, <2>4, <3>1, <3>2 DEF CallFits, Concerns
    <2> QED BY <2>3, <2>4
  <1>8. CallsFit(workflowRow, editorCall')
    <2>1. editorCall' = [c \in EditorCalls |-> editorCall'[c]]
      BY DEF Mount
    <2> QED BY <1>7, <2>1 DEF CallsFit
  <1> QED BY <1>4, <1>6, <1>8, StaysInv DEF AuthoringInv

LEMMA EditKeeps ==
    ASSUME AuthoringInv, NEW t \in Tabs, Edit(t)
    PROVE  AuthoringInv'
  <1>1. PICK s : s = editor[t] /\ s \in EditorType /\ EditorFits(workflowRow, s)
    BY DEF AuthoringInv, PagesFit
  <1>2. edits \in Nat /\ edits + 1 \in Edits /\ edits' = edits + 1 /\ UNCHANGED <<workflowRow, editorCall>>
    BY AuthoringAssumption DEF AuthoringInv, Edit, Edits
  <1>3. PICK n : n = [s EXCEPT !.content = @ \union {edits + 1}, !.dirty = TRUE]
    OBVIOUS
  <1>4. /\ n \in EditorType /\ n.workflow = s.workflow /\ n.revision = s.revision /\ s.content \subseteq n.content
    BY <1>1, <1>2, <1>3 DEF EditorType
  <1>5. EditorFits(workflowRow, n)
    BY <1>1, <1>4 DEF EditorFits, Fits
  <1>6. Render(t, workflows[t], route[t], n)
    BY <1>1, <1>3 DEF Edit
  <1>7. PagesFit(workflowRow, editor', workflows')
    <2>1. workflows[t] \in [WorkflowIds -> EntryType] /\ \A w \in WorkflowIds : EntryFits(workflowRow[w], workflows[t][w])
      BY DEF AuthoringInv, PagesFit
    <2> QED BY <1>4, <1>5, <1>6, <2>1, RenderKeeps DEF AuthoringInv
  <1>8. edits' \in 0..MaxEdits
    BY <1>2 DEF Edits
  <1> QED BY <1>2, <1>7, <1>8, StaysInv DEF AuthoringInv

\* A call that is asked fits.
LEMMA AskKeeps ==
    ASSUME AuthoringInv, NEW c \in EditorCalls, NEW k \in EditorCallType, CallFits(workflowRow, k), Ask(c, k)
    PROVE  CallsFit(workflowRow, editorCall')
  BY CallsKeep DEF Ask, AuthoringInv

LEMMA SaveKeeps ==
    ASSUME AuthoringInv, NEW t \in Tabs, NEW c \in EditorCalls, Save(t, c)
    PROVE  AuthoringInv'
  <1>1. PICK s : s = editor[t] /\ s \in EditorType /\ EditorFits(workflowRow, s)
    BY DEF AuthoringInv, PagesFit
  <1>2. PICK n : n = [s EXCEPT !.saving = TRUE]
    OBVIOUS
  <1>3. n \in EditorType /\ n.workflow = s.workflow /\ n.revision = s.revision /\ n.content = s.content
    BY <1>1, <1>2 DEF EditorType
  <1>4. EditorFits(workflowRow, n)
    BY <1>1, <1>3 DEF EditorFits
  <1>5. Render(t, workflows[t], route[t], n) /\ s.workflow # NoWorkflow /\ UNCHANGED <<workflowRow, edits>>
    BY <1>1, <1>2 DEF Save
  <1>6. PagesFit(workflowRow, editor', workflows')
    <2>1. workflows[t] \in [WorkflowIds -> EntryType] /\ \A w \in WorkflowIds : EntryFits(workflowRow[w], workflows[t][w])
      BY DEF AuthoringInv, PagesFit
    <2> QED BY <1>3, <1>4, <1>5, <2>1, RenderKeeps DEF AuthoringInv
  <1>7. PICK k : k = [NoEditorCall EXCEPT !.pc = "read", !.tab = t, !.workflow = s.workflow, !.revision = s.revision,
                                          !.content = s.content]
    OBVIOUS
  <1>8. k = [pc |-> "read", tab |-> t, kind |-> "save", workflow |-> s.workflow, revision |-> s.revision,
             content |-> s.content, list |-> {}, result |-> "none"]
    BY <1>7 DEF NoEditorCall
  <1>9. k \in EditorCallType /\ CallFits(workflowRow, k)
    BY <1>1, <1>5, <1>8 DEF EditorCallType, EditorType, CallFits, Concerns, EditorFits
  <1>10. CallsFit(workflowRow, editorCall')
    <2>1. Ask(c, k)
      BY <1>1, <1>7 DEF Save
    <2> QED BY <1>9, <2>1, AskKeeps
  <1> QED BY <1>5, <1>6, <1>10, StaysInv DEF AuthoringInv

LEMMA CreateAsked ==
    ASSUME AuthoringInv, NEW t \in Tabs, NEW c \in EditorCalls, HandleCreateWorkflow(t, c)
    PROVE  AuthoringInv'
  <1>1. PICK k : k = [NoEditorCall EXCEPT !.pc = "insert", !.tab = t, !.kind = "create"]
    OBVIOUS
  <1>2. k = [pc |-> "insert", tab |-> t, kind |-> "create", workflow |-> NoWorkflow, revision |-> 1,
             content |-> {}, list |-> {}, result |-> "none"]
    BY <1>1 DEF NoEditorCall
  <1>3. k \in EditorCallType /\ CallFits(workflowRow, k)
    BY <1>2 DEF EditorCallType, CallFits, Concerns
  <1>4. CallsFit(workflowRow, editorCall')
    BY <1>1, <1>3, AskKeeps DEF HandleCreateWorkflow
  <1> QED BY <1>4, StaysInv DEF AuthoringInv, HandleCreateWorkflow

LEMMA DeleteAsked ==
    ASSUME AuthoringInv, NEW t \in Tabs, NEW c \in EditorCalls, HandleDeleteWorkflow(t, c)
    PROVE  AuthoringInv'
  <1>0. editor[t] \in EditorType /\ editor[t].workflow # NoWorkflow
    BY DEF AuthoringInv, PagesFit, HandleDeleteWorkflow
  <1>1. PICK k : k = [NoEditorCall EXCEPT !.pc = "read", !.tab = t, !.kind = "delete", !.workflow = editor[t].workflow,
                                          !.list = {w \in WorkflowIds : workflows[t][w].listed}]
    OBVIOUS
  <1>2. k = [pc |-> "read", tab |-> t, kind |-> "delete", workflow |-> editor[t].workflow, revision |-> 1,
             content |-> {}, list |-> {w \in WorkflowIds : workflows[t][w].listed}, result |-> "none"]
    BY <1>1 DEF NoEditorCall
  <1>3. k \in EditorCallType /\ CallFits(workflowRow, k)
    BY <1>0, <1>2 DEF EditorCallType, EditorType, CallFits, Concerns
  <1>4. CallsFit(workflowRow, editorCall')
    BY <1>1, <1>3, AskKeeps DEF HandleDeleteWorkflow
  <1> QED BY <1>4, StaysInv DEF AuthoringInv, HandleDeleteWorkflow
------------------------------------------------------------------------------
\* The service answers: the call keeps its tab, or nobody waits.
LEMMA AnswerKeeps ==
    ASSUME NEW rows, CallsFit(rows, editorCall), NEW c \in EditorCalls, NEW a \in EditorCallType, a.tab = editorCall[c].tab,
           a.result = "done" =>
               /\ a.kind \in {"create", "save"} => a.workflow \in WorkflowIds
               /\ a.kind = "save" => Fits(rows[a.workflow], a.revision, a.content),
           Answer(c, a)
    PROVE  CallsFit(rows, editorCall')
  <1>1. PICK k : k = IF editorCall[c].tab \notin Tabs THEN NoEditorCall ELSE [a EXCEPT !.pc = "answer"]
    OBVIOUS
  <1>2. editorCall' = [editorCall EXCEPT ![c] = k]
    BY <1>1 DEF Answer, CallsFit
  <1>3. k \in EditorCallType /\ CallFits(rows, k)
    <2>1. CASE editorCall[c].tab \notin Tabs
      BY <1>1, <2>1, NoCallFits
    <2>2. CASE editorCall[c].tab \in Tabs
      <3>1. k = [a EXCEPT !.pc = "answer"]
        BY <1>1, <2>2
      <3>2. /\ k \in EditorCallType /\ k.pc = "answer" /\ k.tab = a.tab /\ k.kind = a.kind /\ k.workflow = a.workflow
            /\ k.revision = a.revision /\ k.content = a.content /\ k.result = a.result
        BY <3>1 DEF EditorCallType
      <3> QED BY <2>2, <3>2 DEF CallFits, Concerns
    <2> QED BY <2>1, <2>2
  <1> QED BY <1>2, <1>3, CallsKeep

LEMMA ReplyKeeps ==
    ASSUME NEW rows, CallsFit(rows, editorCall), NEW c \in EditorCalls, NEW result \in {"conflict", "refused"}, Reply(c, result)
    PROVE  CallsFit(rows, editorCall')
  <1>1. PICK x : x = editorCall[c] /\ x \in EditorCallType
    BY DEF CallsFit
  <1>2. PICK a : a = [NoEditorCall EXCEPT !.tab = x.tab, !.kind = x.kind, !.result = result]
    OBVIOUS
  <1>3. a = [pc |-> "idle", tab |-> x.tab, kind |-> x.kind, workflow |-> NoWorkflow, revision |-> 1,
             content |-> {}, list |-> {}, result |-> result]
    BY <1>2 DEF NoEditorCall
  <1>4. a \in EditorCallType /\ a.tab = x.tab /\ a.result # "done"
    BY <1>1, <1>3 DEF EditorCallType
  <1>5. Answer(c, a)
    BY <1>1, <1>2 DEF Reply
  <1> QED BY <1>1, <1>4, <1>5, AnswerKeeps

LEMMA ReplyInv ==
    ASSUME AuthoringInv, NEW c \in EditorCalls, NEW result \in {"conflict", "refused"}, Reply(c, result),
           UNCHANGED <<workflowRow, editor, workflows, route, edits>>
    PROVE  AuthoringInv'
  BY ReplyKeeps DEF AuthoringInv

\* A row that changes keeps its revision and content, or gets the next revision and a content with all of its own.
LEMMA RowsGrow ==
    ASSUME RowsTyped(workflowRow), NEW w \in WorkflowIds, NEW row \in EditorRowType,
           \/ row.revision = workflowRow[w].revision /\ row.content = workflowRow[w].content
           \/ row.revision = workflowRow[w].revision + 1 /\ workflowRow[w].content \subseteq row.content,
           workflowRow' = [workflowRow EXCEPT ![w] = row]
    PROVE  RowsTyped(workflowRow') /\ Grows(workflowRow, workflowRow') /\ workflowRow'[w] = row
  <1>1. workflowRow'[w] = row /\ workflowRow' \in [WorkflowIds -> EditorRowType]
        /\ \A x \in WorkflowIds \ {w} : workflowRow'[x] = workflowRow[x]
    BY DEF RowsTyped
  <1>2. workflowRow[w].revision \in Nat \ {0}
    BY DEF RowsTyped, EditorRowType
  <1>3. row.revision = 1 => row.content = {}
    BY <1>2 DEF RowsTyped
  <1> QED BY <1>1, <1>2, <1>3 DEF RowsTyped, Grows

LEMMA GrowsInv ==
    ASSUME AuthoringInv, RowsTyped(workflowRow'), Grows(workflowRow, workflowRow'),
           UNCHANGED <<editor, workflows, edits>>, CallsFit(workflowRow', editorCall')
    PROVE  AuthoringInv'
  BY PagesKeepFitting DEF AuthoringInv

LEMMA CreateKeeps ==
    ASSUME AuthoringInv, NEW c \in EditorCalls, CreateWorkflow(c)
    PROVE  AuthoringInv' /\ Grows(workflowRow, workflowRow')
  <1> USE DEF AuthoringInv
  <1>1. CASE Reply(c, "refused") /\ UNCHANGED workflowRow
    BY <1>1, ReplyInv DEF CreateWorkflow, Grows
  <1>2. ASSUME NEW w \in WorkflowIds, workflowRow' = [workflowRow EXCEPT ![w].state = "live"],
               Answer(c, [editorCall[c] EXCEPT !.result = "done", !.workflow = w])
        PROVE  AuthoringInv' /\ Grows(workflowRow, workflowRow')
    <2>1. PICK row : row = [workflowRow[w] EXCEPT !.state = "live"]
      OBVIOUS
    <2>2. row \in EditorRowType /\ row.revision = workflowRow[w].revision /\ row.content = workflowRow[w].content
      BY <2>1 DEF RowsTyped, EditorRowType
    <2>3. workflowRow' = [workflowRow EXCEPT ![w] = row]
      BY <1>2, <2>1
    <2>4. RowsTyped(workflowRow') /\ Grows(workflowRow, workflowRow')
      BY <2>2, <2>3, RowsGrow
    <2>5. PICK k : k = editorCall[c] /\ k \in EditorCallType /\ k.kind = "create"
      BY DEF CallsFit, CallFits, CreateWorkflow
    <2>6. PICK a : a = [k EXCEPT !.result = "done", !.workflow = w]
      OBVIOUS
    <2>7. a \in EditorCallType /\ a.kind = "create" /\ a.workflow = w /\ a.tab = k.tab
      BY <2>5, <2>6 DEF EditorCallType
    <2>8. CallsFit(workflowRow', editorCall)
      BY <2>4, CallsKeepFitting
    <2>9. Answer(c, a)
      BY <1>2, <2>5, <2>6
    <2>10. CallsFit(workflowRow', editorCall')
      <3> HIDE DEF AuthoringInv
      <3>1. a.tab = editorCall[c].tab /\ a.kind # "save"
        BY <2>5, <2>7
      <3> QED BY <2>7, <2>8, <2>9, <3>1, AnswerKeeps
    <2> QED BY <2>4, <2>10, GrowsInv DEF CreateWorkflow
  <1> QED BY <1>1, <1>2 DEF CreateWorkflow

LEMMA RequireKeeps ==
    ASSUME AuthoringInv, NEW c \in EditorCalls, RequireWorkflow(c)
    PROVE  AuthoringInv'
  <1>1. CASE Reply(c, "refused") \/ Reply(c, "conflict")
    BY <1>1, ReplyInv DEF RequireWorkflow
  <1>2. CASE editorCall' = [editorCall EXCEPT ![c].pc = "update"]
    <2>1. PICK k, n : /\ k = editorCall[c] /\ k \in EditorCallType /\ k.pc = "read" /\ CallFits(workflowRow, k)
                      /\ n = [k EXCEPT !.pc = "update"]
      BY DEF AuthoringInv, CallsFit, RequireWorkflow
    <2>2. /\ n \in EditorCallType /\ n.pc = "update" /\ n.kind = k.kind /\ n.workflow = k.workflow
          /\ n.revision = k.revision /\ n.content = k.content
      BY <2>1 DEF EditorCallType
    <2>3. CallFits(workflowRow, n)
      BY <2>1, <2>2 DEF CallFits, Concerns
    <2>4. editorCall' = [editorCall EXCEPT ![c] = n]
      BY <1>2, <2>1 DEF AuthoringInv, CallsFit
    <2>5. CallsFit(workflowRow, editorCall')
      BY <2>2, <2>3, <2>4, CallsKeep DEF AuthoringInv
    <2> QED BY <2>5 DEF AuthoringInv, RequireWorkflow
  <1> QED BY <1>1, <1>2 DEF RequireWorkflow

LEMMA UpdateKeeps ==
    ASSUME AuthoringInv, NEW c \in EditorCalls, UpdateWorkflow(c)
    PROVE  AuthoringInv' /\ Grows(workflowRow, workflowRow')
  <1>1. PICK k : k = editorCall[c] /\ k \in EditorCallType /\ CallFits(workflowRow, k) /\ Concerns(k) /\ k.kind = "save"
    BY DEF AuthoringInv, CallsFit, UpdateWorkflow, Concerns
  <1>2. PICK w, r : w = k.workflow /\ r = k.revision
    OBVIOUS
  <1>3. w \in WorkflowIds /\ r \in Nat \ {0} /\ k.content \in SUBSET Edits /\ Fits(workflowRow[w], r, k.content)
    BY <1>1, <1>2 DEF CallFits, EditorCallType
  <1>4. CASE ~(LiveWorkflow(w) /\ workflowRow[w].revision = r)
    <2>1. Reply(c, "conflict") /\ UNCHANGED <<workflowRow, editor, workflows, route, edits>>
      BY <1>1, <1>2, <1>4 DEF UpdateWorkflow
    <2> QED BY <2>1, ReplyInv DEF Grows
  <1>5. CASE LiveWorkflow(w) /\ workflowRow[w].revision = r
    <2>1. PICK row : row = [workflowRow[w] EXCEPT !.revision = r + 1, !.content = k.content]
      OBVIOUS
    <2>2. row \in EditorRowType /\ row.revision = r + 1 /\ row.content = k.content
      <3>1. workflowRow[w] \in EditorRowType /\ r + 1 \in Nat \ {0}
        BY <1>3 DEF AuthoringInv, RowsTyped
      <3>2. row = [state |-> workflowRow[w].state, revision |-> r + 1, content |-> k.content]
        BY <2>1, <3>1 DEF EditorRowType
      <3> QED BY <1>3, <3>1, <3>2 DEF EditorRowType
    <2>3. workflowRow' = [workflowRow EXCEPT ![w] = row]
      <3>1. workflowRow' = [workflowRow EXCEPT ![w].revision = r + 1, ![w].content = k.content]
        BY <1>1, <1>2, <1>5 DEF UpdateWorkflow
      <3> QED BY <1>3, <2>1, <3>1 DEF AuthoringInv, RowsTyped
    <2>4. workflowRow[w].content \subseteq row.content
      BY <1>3, <1>5, <2>2 DEF Fits
    <2>5. RowsTyped(workflowRow') /\ Grows(workflowRow, workflowRow') /\ workflowRow'[w] = row
      BY <1>3, <1>5, <2>2, <2>3, <2>4, RowsGrow DEF AuthoringInv
    <2>6. PICK a : a = [k EXCEPT !.result = "done", !.revision = r + 1]
      OBVIOUS
    <2>7. /\ a \in EditorCallType /\ a.kind = "save" /\ a.workflow = w /\ a.tab = k.tab
          /\ a.revision = r + 1 /\ a.content = k.content
      <3>1. a = [pc |-> k.pc, tab |-> k.tab, kind |-> k.kind, workflow |-> k.workflow, revision |-> r + 1,
                 content |-> k.content, list |-> k.list, result |-> "done"]
        BY <1>1, <2>6 DEF EditorCallType
      <3>2. r + 1 \in Nat \ {0}
        BY <1>3
      <3> QED BY <1>1, <1>2, <3>1, <3>2 DEF EditorCallType
    <2>8. CallsFit(workflowRow', editorCall)
      BY <2>5, CallsKeepFitting DEF AuthoringInv
    <2>9. Answer(c, a)
      BY <1>1, <1>2, <1>5, <2>6 DEF UpdateWorkflow
    <2>10. Fits(workflowRow'[a.workflow], a.revision, a.content)
      BY <1>3, <2>2, <2>5, <2>7 DEF Fits
    <2>11. CallsFit(workflowRow', editorCall')
      <3>1. a.tab = editorCall[c].tab
        BY <1>1, <2>7
      <3> QED BY <1>3, <2>7, <2>8, <2>9, <2>10, <3>1, AnswerKeeps
    <2> QED BY <2>5, <2>11, GrowsInv DEF UpdateWorkflow
  <1> QED BY <1>4, <1>5

LEMMA DeleteKeeps ==
    ASSUME AuthoringInv, NEW c \in EditorCalls, DeleteWorkflow(c)
    PROVE  AuthoringInv' /\ Grows(workflowRow, workflowRow')
  <1>1. PICK k : k = editorCall[c] /\ k \in EditorCallType /\ CallFits(workflowRow, k) /\ Concerns(k) /\ k.kind = "delete"
    BY DEF AuthoringInv, CallsFit, DeleteWorkflow, Concerns
  <1>2. PICK w : w = k.workflow /\ w \in WorkflowIds
    BY <1>1 DEF CallFits
  <1>3. PICK row : row = [workflowRow[w] EXCEPT !.state = "deleted"]
    OBVIOUS
  <1>4. row \in EditorRowType /\ row.revision = workflowRow[w].revision /\ row.content = workflowRow[w].content
    BY <1>2, <1>3 DEF AuthoringInv, RowsTyped, EditorRowType
  <1>5. workflowRow' = [workflowRow EXCEPT ![w] = row]
    BY <1>1, <1>2, <1>3 DEF DeleteWorkflow
  <1>6. RowsTyped(workflowRow') /\ Grows(workflowRow, workflowRow')
    BY <1>2, <1>4, <1>5, RowsGrow DEF AuthoringInv
  <1>7. PICK a : a = [k EXCEPT !.result = "done"]
    OBVIOUS
  <1>8. a \in EditorCallType /\ a.kind = "delete" /\ a.tab = editorCall[c].tab
    BY <1>1, <1>7 DEF EditorCallType
  <1>9. CallsFit(workflowRow', editorCall)
    BY <1>6, CallsKeepFitting DEF AuthoringInv
  <1>10. Answer(c, a)
    BY <1>1, <1>7 DEF DeleteWorkflow
  <1>11. CallsFit(workflowRow', editorCall')
    BY <1>8, <1>9, <1>10, AnswerKeeps
  <1> QED BY <1>6, <1>11, GrowsInv DEF DeleteWorkflow
------------------------------------------------------------------------------
\* An answer reaches its page: its call is over, and what the page makes of it fits.
LEMMA AnswerReceived ==
    ASSUME AuthoringInv, NEW c \in EditorCalls, NEW kind, NEW result, Answered(c, kind, result)
    PROVE  /\ CallsFit(workflowRow, editorCall') /\ UNCHANGED <<workflowRow, edits>>
           /\ editorCall[c] \in EditorCallType /\ CallFits(workflowRow, editorCall[c]) /\ editorCall[c].tab \in Tabs
           /\ editorCall[c].pc = "answer" /\ editorCall[c].kind = kind /\ editorCall[c].result = result
           /\ editor[editorCall[c].tab] \in EditorType /\ EditorFits(workflowRow, editor[editorCall[c].tab])
           /\ workflows[editorCall[c].tab] \in [WorkflowIds -> EntryType]
           /\ \A w \in WorkflowIds : EntryFits(workflowRow[w], workflows[editorCall[c].tab][w])
  <1>1. /\ editorCall[c] \in EditorCallType /\ CallFits(workflowRow, editorCall[c]) /\ editorCall[c].pc = "answer"
        /\ editorCall' = [editorCall EXCEPT ![c] = NoEditorCall] /\ CallsFit(workflowRow, editorCall)
    BY DEF AuthoringInv, CallsFit, Answered
  <1>2. editorCall[c].tab \in Tabs
    BY <1>1 DEF CallFits
  <1>3. CallsFit(workflowRow, editorCall')
    BY <1>1, NoCallFits, CallsKeep
  <1> QED BY <1>1, <1>2, <1>3 DEF Answered, AuthoringInv, PagesFit

LEMMA RenderInv ==
    ASSUME AuthoringInv, CallsFit(workflowRow, editorCall'), UNCHANGED <<workflowRow, edits>>, NEW t \in Tabs,
           NEW list \in [WorkflowIds -> EntryType], NEW r, NEW s \in EditorType,
           EditorFits(workflowRow, s), \A w \in WorkflowIds : EntryFits(workflowRow[w], list[w]),
           Render(t, list, r, s)
    PROVE  AuthoringInv'
  <1>1. PagesFit(workflowRow, editor', workflows')
    BY RenderKeeps DEF AuthoringInv
  <1> QED BY <1>1 DEF AuthoringInv

LEMMA SavedKeeps ==
    ASSUME AuthoringInv, NEW c \in EditorCalls, SaveSucceeded(c)
    PROVE  AuthoringInv'
  <1>1. PICK a : a = editorCall[c]
    OBVIOUS
  <1>2. Answered(c, "save", "done")
    BY DEF SaveSucceeded
  <1>3. Concerns(a) /\ a.kind = "save" /\ a \in EditorCallType /\ CallFits(workflowRow, a) /\ a.tab \in Tabs
    BY <1>1, <1>2, AnswerReceived DEF Concerns
  <1>4. a.workflow \in WorkflowIds /\ Fits(workflowRow[a.workflow], a.revision, a.content)
        /\ a.revision \in Nat \ {0} /\ a.content \in SUBSET Edits
    BY <1>3 DEF CallFits, EditorCallType
  <1>5. PICK e : /\ e = Entry(a.revision, a.content) /\ e \in EntryType /\ e.listed
                 /\ e.revision = a.revision /\ e.content = a.content
    BY <1>4, EntryTyped
  <1>6. PICK l : l = LoadWorkflow(a.workflow, e) /\ l \in EditorType /\ EditorFits(workflowRow, l)
    BY <1>4, <1>5, LoadedFits DEF EntryFits
  <1>7. PICK s : s = [l EXCEPT !.saved = TRUE]
    OBVIOUS
  <1>8. s \in EditorType /\ s.workflow = l.workflow /\ s.revision = l.revision /\ s.content = l.content
    BY <1>6, <1>7 DEF EditorType
  <1>9. EditorFits(workflowRow, s)
    BY <1>6, <1>8 DEF EditorFits
  <1>10. Render(a.tab, workflows[a.tab], route[a.tab], s)
    BY <1>1, <1>5, <1>6, <1>7 DEF SaveSucceeded
  <1>11. /\ workflows[a.tab] \in [WorkflowIds -> EntryType] /\ CallsFit(workflowRow, editorCall') /\ UNCHANGED <<workflowRow, edits>>
         /\ \A w \in WorkflowIds : EntryFits(workflowRow[w], workflows[a.tab][w])
    BY <1>1, <1>2, AnswerReceived
  <1> QED BY <1>3, <1>8, <1>9, <1>10, <1>11, RenderInv

LEMMA RefusedKeeps ==
    ASSUME AuthoringInv, NEW c \in EditorCalls, SaveRefused(c)
    PROVE  AuthoringInv'
  <1>1. PICK result \in {"conflict", "refused"} :
            /\ Answered(c, "save", result)
            /\ Render(editorCall[c].tab, workflows[editorCall[c].tab], route[editorCall[c].tab],
                      [editor[editorCall[c].tab] EXCEPT !.saving = FALSE, !.conflict = @ \/ result = "conflict"])
    BY DEF SaveRefused
  <1>2. PICK t : t = editorCall[c].tab /\ t \in Tabs
    BY <1>1, AnswerReceived
  <1>3. PICK l : l = editor[t] /\ l \in EditorType /\ EditorFits(workflowRow, l)
    BY <1>1, <1>2, AnswerReceived
  <1>4. PICK s : s = [l EXCEPT !.saving = FALSE, !.conflict = @ \/ result = "conflict"]
    OBVIOUS
  <1>5. s = [workflow |-> l.workflow, revision |-> l.revision, content |-> l.content, dirty |-> l.dirty,
             saving |-> FALSE, conflict |-> l.conflict \/ result = "conflict", saved |-> l.saved]
    BY <1>3, <1>4 DEF EditorType
  <1>6. s \in EditorType /\ s.workflow = l.workflow /\ s.revision = l.revision /\ s.content = l.content
    BY <1>3, <1>5 DEF EditorType
  <1>7. EditorFits(workflowRow, s)
    BY <1>3, <1>6 DEF EditorFits
  <1>8. Render(t, workflows[t], route[t], s)
    BY <1>1, <1>2, <1>3, <1>4
  <1>9. /\ workflows[t] \in [WorkflowIds -> EntryType] /\ CallsFit(workflowRow, editorCall') /\ UNCHANGED <<workflowRow, edits>>
        /\ \A w \in WorkflowIds : EntryFits(workflowRow[w], workflows[t][w])
    BY <1>1, <1>2, AnswerReceived
  <1> QED BY <1>2, <1>6, <1>7, <1>8, <1>9, RenderInv

LEMMA CreatedKeeps ==
    ASSUME AuthoringInv, NEW c \in EditorCalls, Created(c)
    PROVE  AuthoringInv'
  <1>1. PICK a : a = editorCall[c]
    OBVIOUS
  <1>2. Answered(c, "create", "done")
    BY DEF Created
  <1>3. Concerns(a) /\ a \in EditorCallType /\ CallFits(workflowRow, a) /\ a.tab \in Tabs
    BY <1>1, <1>2, AnswerReceived DEF Concerns
  <1>4. PICK w : w = a.workflow /\ w \in WorkflowIds
    BY <1>3 DEF CallFits
  <1>5. PICK e : e = Entry(1, {}) /\ e \in EntryType /\ e.listed /\ e.revision = 1 /\ e.content = {}
    BY EntryTyped
  <1>6. EntryFits(workflowRow[w], e)
    BY <1>4, <1>5 DEF AuthoringInv, RowsTyped, EditorRowType, EntryFits, Fits
  <1>7. PICK s : s = LoadWorkflow(w, e) /\ s \in EditorType /\ EditorFits(workflowRow, s)
    BY <1>4, <1>5, <1>6, LoadedFits
  <1>8. /\ workflows[a.tab] \in [WorkflowIds -> EntryType] /\ CallsFit(workflowRow, editorCall') /\ UNCHANGED <<workflowRow, edits>>
        /\ \A x \in WorkflowIds : EntryFits(workflowRow[x], workflows[a.tab][x])
    BY <1>1, <1>2, AnswerReceived
  <1>9. PICK list : list = [workflows[a.tab] EXCEPT ![w] = e]
    OBVIOUS
  <1>10. list \in [WorkflowIds -> EntryType] /\ \A x \in WorkflowIds : EntryFits(workflowRow[x], list[x])
    BY <1>4, <1>5, <1>6, <1>8, <1>9
  <1>11. Render(a.tab, list, route[a.tab], s)
    BY <1>1, <1>4, <1>5, <1>7, <1>9 DEF Created
  <1> QED BY <1>3, <1>7, <1>8, <1>10, <1>11, RenderInv

LEMMA DeletedKeeps ==
    ASSUME AuthoringInv, NEW c \in EditorCalls, Deleted(c)
    PROVE  AuthoringInv'
  <1>1. PICK a : a = editorCall[c]
    OBVIOUS
  <1>2. Answered(c, "delete", "done")
    BY DEF Deleted
  <1>3. /\ workflows[a.tab] \in [WorkflowIds -> EntryType] /\ CallsFit(workflowRow, editorCall') /\ UNCHANGED <<workflowRow, edits>>
        /\ \A w \in WorkflowIds : EntryFits(workflowRow[w], workflows[a.tab][w])
        /\ a.tab \in Tabs /\ editor[a.tab] \in EditorType /\ EditorFits(workflowRow, editor[a.tab])
    BY <1>1, <1>2, AnswerReceived
  <1>4. PICK list : list = [w \in WorkflowIds |-> IF w \in a.list \ {a.workflow} THEN workflows[a.tab][w] ELSE NotInList]
    OBVIOUS
  <1>5. NotInList \in EntryType /\ ~NotInList.listed
    BY DEF NotInList, EntryType
  <1>6. list \in [WorkflowIds -> EntryType] /\ \A w \in WorkflowIds : EntryFits(workflowRow[w], list[w])
    BY <1>3, <1>4, <1>5 DEF EntryFits
  <1>7. Render(a.tab, list, route[a.tab], editor[a.tab])
    BY <1>1, <1>4 DEF Deleted
  <1> QED BY <1>3, <1>6, <1>7, RenderInv

\* Every step keeps the invariant, and rows grow.
LEMMA AuthoringStepHolds ==
    ASSUME AuthoringInv, [AuthoringNext]_authoringVars
    PROVE  AuthoringInv' /\ Grows(workflowRow, workflowRow')
  <1>1. CASE UNCHANGED authoringVars
    BY <1>1 DEF authoringVars, AuthoringInv, Grows
  <1>2. ASSUME NEW c \in EditorCalls, EditorService(c) PROVE AuthoringInv' /\ Grows(workflowRow, workflowRow')
    <2>1. CASE CreateWorkflow(c)
      BY <2>1, CreateKeeps
    <2>2. CASE RequireWorkflow(c)
      BY <2>2, RequireKeeps DEF RequireWorkflow, Grows
    <2>3. CASE UpdateWorkflow(c)
      BY <2>3, UpdateKeeps
    <2>4. CASE DeleteWorkflow(c)
      BY <2>4, DeleteKeeps
    <2>5. CASE EditorCallFails(c)
      BY <2>5, ReplyInv DEF EditorCallFails, Grows
    <2>6. CASE SaveSucceeded(c)
      BY <2>6, SavedKeeps DEF SaveSucceeded, Answered, Grows
    <2>7. CASE SaveRefused(c)
      BY <2>7, RefusedKeeps DEF SaveRefused, Answered, Grows
    <2>8. CASE Created(c)
      BY <2>8, CreatedKeeps DEF Created, Answered, Grows
    <2>9. CASE Deleted(c)
      BY <2>9, DeletedKeeps DEF Deleted, Answered, Grows
    <2>10. CASE CallRefused(c)
      <3>1. PICK kind \in {"create", "delete"} : Answered(c, kind, "refused")
        BY <2>10 DEF CallRefused
      <3>2. CallsFit(workflowRow, editorCall') /\ UNCHANGED <<workflowRow, edits>>
        BY <3>1, AnswerReceived
      <3> QED BY <2>10, <3>2 DEF CallRefused, AuthoringInv, Grows
    <2> QED BY <1>2, <2>1, <2>2, <2>3, <2>4, <2>5, <2>6, <2>7, <2>8, <2>9, <2>10 DEF EditorService
  <1>3. ASSUME NEW t \in Tabs, NEW c \in EditorCalls, Save(t, c) \/ HandleCreateWorkflow(t, c) \/ HandleDeleteWorkflow(t, c)
        PROVE  AuthoringInv' /\ Grows(workflowRow, workflowRow')
    BY <1>3, SaveKeeps, CreateAsked, DeleteAsked DEF Save, HandleCreateWorkflow, HandleDeleteWorkflow, Grows
  <1>4. ASSUME NEW t \in Tabs, Edit(t) PROVE AuthoringInv' /\ Grows(workflowRow, workflowRow')
    BY <1>4, EditKeeps DEF Edit, Grows
  <1>5. ASSUME NEW t \in Tabs, NEW w \in WorkflowIds, OpenWorkflow(t, w) PROVE AuthoringInv' /\ Grows(workflowRow, workflowRow')
    BY <1>5, MountKeeps DEF OpenWorkflow, Mount, Grows
  <1> QED BY <1>1, <1>2, <1>3, <1>4, <1>5 DEF AuthoringNext

LEMMA AuthoringInitHolds == AuthoringInit => AuthoringInv
  <1> SUFFICES ASSUME AuthoringInit PROVE AuthoringInv
    OBVIOUS
  <1>1. RowsTyped(workflowRow)
    BY DEF AuthoringInit, RowsTyped, NoWorkflowRow, EditorRowType
  <1>2. NotInList \in EntryType /\ ~NotInList.listed
    BY DEF NotInList, EntryType
  <1>3. PagesFit(workflowRow, editor, workflows)
    BY <1>2, EmptyEditorTyped DEF AuthoringInit, PagesFit, EditorFits, EntryFits
  <1>4. CallsFit(workflowRow, editorCall)
    BY NoCallFits DEF AuthoringInit, CallsFit
  <1> QED BY <1>1, <1>3, <1>4, AuthoringAssumption DEF AuthoringInit, AuthoringInv

(* Whatever tabs load, edit and save at the same time, a save contains everything that had been
   saved before (test-workflows.service.ts:176, 251). *)
THEOREM SavesBuildOnLatestHolds == AuthoringSpec => SavesBuildOnLatest
  <1>1. AuthoringInv /\ [AuthoringNext]_authoringVars =>
            [\A w \in WorkflowIds : workflowRow[w].content \subseteq workflowRow'[w].content]_authoringVars
    BY AuthoringStepHolds DEF Grows
  <1>2. AuthoringInv /\ [AuthoringNext]_authoringVars => AuthoringInv'
    BY AuthoringStepHolds
  <1> QED BY <1>1, <1>2, AuthoringInitHolds, PTL DEF AuthoringSpec, SavesBuildOnLatest
------------------------------------------------------------------------------
(***************************************************************************)
(* What a revision costs.  A row is saved from an editor that was dirty at *)
(* the stored revision, or by a call such an editor made; after the save   *)
(* nothing is pending at the new one until somebody edits again.  So the   *)
(* revision of a row stays within the edits made, and so do those the      *)
(* pages hold.                                                             *)
(***************************************************************************)
\* What is pending at a revision of a workflow: an editor with edits, or a save under way.
Dirty(s, w, r) == s.dirty /\ s.workflow = w /\ s.revision = r
Waiting(k, w, r) == k.kind = "save" /\ k.pc \in {"read", "update"} /\ k.workflow = w /\ k.revision = r
Pending(editors, calls, w, r) ==
    (\E t \in Tabs : Dirty(editors[t], w, r)) \/ \E c \in EditorCalls : Waiting(calls[c], w, r)

RevisionsCost(rows, editors, calls, made) ==
    \A w \in WorkflowIds :
        /\ rows[w].revision <= made + 1
        /\ Pending(editors, calls, w, rows[w].revision) => rows[w].revision <= made

Unloaded(s) == s.workflow = NoWorkflow => s.revision = 1
Unlisted(list) == \A w \in WorkflowIds : ~list[w].listed => list[w].revision = 1
PagesTidy(editors, lists, routes) ==
    /\ \A t \in Tabs : Unloaded(editors[t]) /\ Unlisted(lists[t])
    /\ routes \in [Tabs -> WorkflowIds \union {NoWorkflow}]

RevisionsInv ==
    /\ AuthoringInv /\ PagesTidy(editor, workflows, route)
    /\ RevisionsCost(workflowRow, editor, editorCall, edits)

\* No step but an edit makes anything pending that was not.
NothingNew(editors, calls) ==
    \A w \in WorkflowIds, r \in Nat : Pending(editors, calls, w, r) => Pending(editor, editorCall, w, r)

LEMMA CostStays ==
    ASSUME RevisionsInv, AuthoringInv', NothingNew(editor', editorCall'), UNCHANGED edits,
           \A w \in WorkflowIds : workflowRow'[w].revision = workflowRow[w].revision
    PROVE  RevisionsCost(workflowRow', editor', editorCall', edits')
  <1>1. ASSUME NEW w \in WorkflowIds
        PROVE  /\ workflowRow'[w].revision <= edits' + 1
               /\ Pending(editor', editorCall', w, workflowRow'[w].revision) => workflowRow'[w].revision <= edits'
    <2>1. workflowRow[w].revision \in Nat
      BY DEF RevisionsInv, AuthoringInv, RowsTyped, EditorRowType
    <2>2. /\ workflowRow[w].revision <= edits + 1
          /\ Pending(editor, editorCall, w, workflowRow[w].revision) => workflowRow[w].revision <= edits
      BY DEF RevisionsInv, RevisionsCost
    <2>3. Pending(editor', editorCall', w, workflowRow[w].revision) => Pending(editor, editorCall, w, workflowRow[w].revision)
      BY <2>1 DEF NothingNew
    <2> QED BY <2>2, <2>3
  <1> QED BY <1>1 DEF RevisionsCost

\* A render: the other pages stay, this one shows the editor it was given or has loaded another workflow.
LEMMA RenderTidies ==
    ASSUME RevisionsInv, NEW t \in Tabs, NEW list \in [WorkflowIds -> EntryType], NEW r \in WorkflowIds \union {NoWorkflow},
           NEW s \in EditorType, Unloaded(s), Unlisted(list), Render(t, list, r, s)
    PROVE  /\ PagesTidy(editor', workflows', route')
           /\ \A x \in Tabs : x # t => editor'[x] = editor[x]
           /\ editor'[t] = s \/ ~editor'[t].dirty
  <1>1. PICK e, l : e = LoadCurrent(list, r, s) /\ l = SyncList(list, s)
    OBVIOUS
  <1>2. editor' = [editor EXCEPT ![t] = e] /\ workflows' = [workflows EXCEPT ![t] = l] /\ route' = [route EXCEPT ![t] = r]
    BY <1>1 DEF Render
  <1>3. editor \in [Tabs -> EditorType] /\ workflows \in [Tabs -> [WorkflowIds -> EntryType]]
    BY DEF RevisionsInv, AuthoringInv, PagesFit
  <1>4. e = s \/ (~e.dirty /\ Unloaded(e))
    <2>1. PICK w : w = Current(list, r)
      OBVIOUS
    <2>2. CASE w \in {NoWorkflow, s.workflow}
      BY <1>1, <2>1, <2>2 DEF LoadCurrent
    <2>3. CASE w \notin {NoWorkflow, s.workflow}
      <3>1. e = LoadWorkflow(w, list[w])
        BY <1>1, <2>1, <2>3 DEF LoadCurrent
      <3>2. ~e.dirty /\ e.workflow = w
        BY <3>1 DEF LoadWorkflow, EmptyEditor
      <3> QED BY <2>3, <3>2 DEF Unloaded
    <2> QED BY <2>2, <2>3
  <1>5. Unlisted(l)
    <2>1. CASE l = list
      BY <2>1
    <2>2. CASE s.workflow \in WorkflowIds /\ l = [list EXCEPT ![s.workflow] = Entry(s.revision, s.content)]
      BY <2>2 DEF Unlisted, Entry
    <2> QED BY <1>1, <2>1, <2>2 DEF SyncList, EditorType
  <1>6. PagesTidy(editor, workflows, route)
    BY DEF RevisionsInv
  <1> QED BY <1>2, <1>3, <1>4, <1>5, <1>6 DEF PagesTidy

\* Nothing new is pending when no dirty editor is shown but those before, and no call waits but those before.
LEMMA NothingNewShown ==
    ASSUME NEW t \in Tabs, \A x \in Tabs : x # t => editor'[x] = editor[x],
           NEW s, editor'[t] = s \/ ~editor'[t].dirty,
           s.dirty => editor[t].dirty /\ s.workflow = editor[t].workflow /\ s.revision = editor[t].revision,
           \A c \in EditorCalls, w \in WorkflowIds, r \in Nat :
               Waiting(editorCall'[c], w, r) => Pending(editor, editorCall, w, r)
    PROVE  NothingNew(editor', editorCall')
  <1> SUFFICES ASSUME NEW w \in WorkflowIds, NEW r \in Nat, Pending(editor', editorCall', w, r)
               PROVE  Pending(editor, editorCall, w, r)
    BY DEF NothingNew
  <1>1. CASE \E c \in EditorCalls : Waiting(editorCall'[c], w, r)
    BY <1>1
  <1>2. ASSUME NEW x \in Tabs, Dirty(editor'[x], w, r) PROVE Dirty(editor[x], w, r)
    BY <1>2 DEF Dirty
  <1> QED BY <1>1, <1>2 DEF Pending

\* The calls of a step in which one call is replaced by one that waits for no save.
LEMMA CallsQuiet ==
    ASSUME NEW calls \in [EditorCalls -> EditorCallType], NEW c \in EditorCalls, NEW k,
           \A w \in WorkflowIds, r \in Nat : Waiting(k, w, r) => Pending(editor, calls, w, r),
           NEW d \in EditorCalls, NEW w \in WorkflowIds, NEW r \in Nat, Waiting([calls EXCEPT ![c] = k][d], w, r)
    PROVE  Pending(editor, calls, w, r)
  <1>1. CASE d = c
    BY <1>1
  <1>2. CASE d # c
    BY <1>2 DEF Pending
  <1> QED BY <1>1, <1>2

LEMMA AnswerQuiet ==
    ASSUME RevisionsInv, NEW c \in EditorCalls, NEW a \in EditorCallType, Answer(c, a),
           NEW d \in EditorCalls, NEW w \in WorkflowIds, NEW r \in Nat, Waiting(editorCall'[d], w, r)
    PROVE  Pending(editor, editorCall, w, r)
  <1>1. editorCall \in [EditorCalls -> EditorCallType]
    BY DEF RevisionsInv, AuthoringInv, CallsFit
  <1>2. PICK k : k = IF editorCall[c].tab \notin Tabs THEN NoEditorCall ELSE [a EXCEPT !.pc = "answer"]
    OBVIOUS
  <1>3. k.pc \notin {"read", "update"}
    BY <1>2 DEF NoEditorCall, EditorCallType
  <1>4. editorCall' = [editorCall EXCEPT ![c] = k]
    BY <1>1, <1>2 DEF Answer
  <1> QED BY <1>1, <1>3, <1>4, CallsQuiet DEF Waiting

LEMMA ReplyQuiet ==
    ASSUME RevisionsInv, NEW c \in EditorCalls, NEW result \in {"conflict", "refused"}, Reply(c, result),
           NEW d \in EditorCalls, NEW w \in WorkflowIds, NEW r \in Nat, Waiting(editorCall'[d], w, r)
    PROVE  Pending(editor, editorCall, w, r)
  <1>1. PICK x : x = editorCall[c] /\ x \in EditorCallType
    BY DEF RevisionsInv, AuthoringInv, CallsFit
  <1>2. PICK a : a = [NoEditorCall EXCEPT !.tab = x.tab, !.kind = x.kind, !.result = result]
    OBVIOUS
  <1>3. a = [pc |-> "idle", tab |-> x.tab, kind |-> x.kind, workflow |-> NoWorkflow, revision |-> 1,
             content |-> {}, list |-> {}, result |-> result]
    BY <1>2 DEF NoEditorCall
  <1>4. a \in EditorCallType
    BY <1>1, <1>3 DEF EditorCallType
  <1>5. Answer(c, a)
    BY <1>1, <1>2 DEF Reply
  <1> QED BY <1>4, <1>5, AnswerQuiet

\* A step of the service in which no page changes and no revision does.
LEMMA ServiceTidy ==
    ASSUME RevisionsInv, AuthoringInv', UNCHANGED <<editor, workflows, route, edits>>,
           \A w \in WorkflowIds : workflowRow'[w].revision = workflowRow[w].revision,
           \A d \in EditorCalls, w \in WorkflowIds, r \in Nat : Waiting(editorCall'[d], w, r) => Pending(editor, editorCall, w, r)
    PROVE  RevisionsInv'
  <1>1. NothingNew(editor', editorCall')
    BY DEF NothingNew, Pending
  <1> QED BY <1>1, CostStays DEF RevisionsInv
------------------------------------------------------------------------------
LEMMA CreateCosts ==
    ASSUME RevisionsInv, AuthoringInv', NEW c \in EditorCalls, CreateWorkflow(c)
    PROVE  RevisionsInv'
  <1>0. UNCHANGED <<editor, workflows, route, edits>>
    BY DEF CreateWorkflow
  <1>1. CASE Reply(c, "refused") /\ UNCHANGED workflowRow
    BY <1>0, <1>1, ReplyQuiet, ServiceTidy
  <1>2. ASSUME NEW w \in WorkflowIds, workflowRow' = [workflowRow EXCEPT ![w].state = "live"],
               Answer(c, [editorCall[c] EXCEPT !.result = "done", !.workflow = w])
        PROVE  RevisionsInv'
    <2>1. \A x \in WorkflowIds : workflowRow'[x].revision = workflowRow[x].revision
      BY <1>2 DEF RevisionsInv, AuthoringInv, RowsTyped, EditorRowType
    <2>2. PICK k, a : k = editorCall[c] /\ k \in EditorCallType /\ a = [k EXCEPT !.result = "done", !.workflow = w]
      BY DEF RevisionsInv, AuthoringInv, CallsFit
    <2>3. a \in EditorCallType
      BY <2>2 DEF EditorCallType
    <2>4. Answer(c, a)
      BY <1>2, <2>2
    <2> QED BY <1>0, <2>1, <2>3, <2>4, AnswerQuiet, ServiceTidy
  <1> QED BY <1>1, <1>2 DEF CreateWorkflow

LEMMA RequireCosts ==
    ASSUME RevisionsInv, AuthoringInv', NEW c \in EditorCalls, RequireWorkflow(c)
    PROVE  RevisionsInv'
  <1>0. UNCHANGED <<workflowRow, editor, workflows, route, edits>>
    BY DEF RequireWorkflow
  <1>1. CASE Reply(c, "refused") \/ Reply(c, "conflict")
    BY <1>0, <1>1, ReplyQuiet, ServiceTidy
  <1>2. CASE editorCall' = [editorCall EXCEPT ![c].pc = "update"]
    <2>1. editorCall \in [EditorCalls -> EditorCallType]
      BY DEF RevisionsInv, AuthoringInv, CallsFit
    <2>2. PICK k, n : k = editorCall[c] /\ k \in EditorCallType /\ k.pc = "read" /\ n = [k EXCEPT !.pc = "update"]
      BY <2>1 DEF RequireWorkflow
    <2>3. n.kind = k.kind /\ n.workflow = k.workflow /\ n.revision = k.revision
      BY <2>2 DEF EditorCallType
    <2>4. editorCall' = [editorCall EXCEPT ![c] = n]
      BY <1>2, <2>1, <2>2
    <2>5. \A w \in WorkflowIds, r \in Nat : Waiting(n, w, r) => Pending(editor, editorCall, w, r)
      BY <2>2, <2>3 DEF Waiting, Pending
    <2> QED BY <1>0, <2>1, <2>4, <2>5, CallsQuiet, ServiceTidy
  <1> QED BY <1>1, <1>2 DEF RequireWorkflow

\* Nobody is dirty or saves at a revision above the stored one.
LEMMA PendingFits ==
    ASSUME RevisionsInv, NEW w \in WorkflowIds, NEW r \in Nat, Pending(editor, editorCall, w, r)
    PROVE  r <= workflowRow[w].revision
  <1>1. CASE \E t \in Tabs : Dirty(editor[t], w, r)
    <2>1. PICK t \in Tabs : Dirty(editor[t], w, r)
      BY <1>1
    <2>2. EditorFits(workflowRow, editor[t])
      BY DEF RevisionsInv, AuthoringInv, PagesFit
    <2> QED BY <2>1, <2>2 DEF Dirty, EditorFits, Fits, WorkflowIds, NoWorkflow
  <1>2. CASE \E c \in EditorCalls : Waiting(editorCall[c], w, r)
    <2>1. PICK c \in EditorCalls : Waiting(editorCall[c], w, r)
      BY <1>2
    <2>2. CallFits(workflowRow, editorCall[c])
      BY DEF RevisionsInv, AuthoringInv, CallsFit
    <2> QED BY <2>1, <2>2 DEF Waiting, CallFits, Concerns, Fits
  <1> QED BY <1>1, <1>2 DEF Pending

LEMMA UpdateCosts ==
    ASSUME RevisionsInv, AuthoringInv', NEW c \in EditorCalls, UpdateWorkflow(c)
    PROVE  RevisionsInv'
  <1>0. UNCHANGED <<editor, workflows, route, edits>>
    BY DEF UpdateWorkflow
  <1>1. PICK k, w, r : /\ k = editorCall[c] /\ k \in EditorCallType /\ k.kind = "save" /\ k.pc = "update"
                       /\ w = k.workflow /\ r = k.revision /\ CallFits(workflowRow, k)
    BY DEF RevisionsInv, AuthoringInv, CallsFit, UpdateWorkflow
  <1>2. w \in WorkflowIds /\ r \in Nat \ {0} /\ k.content \in SUBSET Edits
    BY <1>1 DEF CallFits, Concerns, EditorCallType
  <1>3. CASE ~(LiveWorkflow(w) /\ workflowRow[w].revision = r)
    <2>1. Reply(c, "conflict") /\ UNCHANGED workflowRow
      BY <1>1, <1>3 DEF UpdateWorkflow
    <2> QED BY <1>0, <2>1, ReplyQuiet, ServiceTidy
  <1>4. CASE LiveWorkflow(w) /\ workflowRow[w].revision = r
    <2>1. /\ workflowRow' = [workflowRow EXCEPT ![w].revision = r + 1, ![w].content = k.content]
          /\ Answer(c, [k EXCEPT !.result = "done", !.revision = r + 1])
      BY <1>1, <1>4 DEF UpdateWorkflow
    <2>2. workflowRow'[w].revision = r + 1 /\ \A x \in WorkflowIds \ {w} : workflowRow'[x] = workflowRow[x]
      BY <1>2, <2>1 DEF RevisionsInv, AuthoringInv, RowsTyped, EditorRowType
    <2>3. PICK a : a = [k EXCEPT !.result = "done", !.revision = r + 1]
      OBVIOUS
    <2>4. a = [pc |-> k.pc, tab |-> k.tab, kind |-> k.kind, workflow |-> k.workflow, revision |-> r + 1,
               content |-> k.content, list |-> k.list, result |-> "done"]
      BY <1>1, <2>3 DEF EditorCallType
    <2>5. r + 1 \in Nat \ {0}
      BY <1>2
    <2>6. a \in EditorCallType
      BY <1>1, <2>4, <2>5 DEF EditorCallType
    <2>7. ASSUME NEW x \in WorkflowIds, NEW q \in Nat, Pending(editor', editorCall', x, q)
          PROVE  Pending(editor, editorCall, x, q)
      <3>1. Answer(c, a)
        BY <2>1, <2>3
      <3>2. CASE \E d \in EditorCalls : Waiting(editorCall'[d], x, q)
        BY <2>6, <3>1, <3>2, AnswerQuiet
      <3>3. CASE \E t \in Tabs : Dirty(editor'[t], x, q)
        BY <1>0, <3>3 DEF Pending
      <3> QED BY <2>7, <3>2, <3>3 DEF Pending
    <2>8. r <= edits /\ edits \in Nat
      <3>1. Pending(editor, editorCall, w, r)
        BY <1>1 DEF Pending, Waiting
      <3> QED BY <1>2, <1>4, <3>1 DEF RevisionsInv, RevisionsCost, AuthoringInv
    <2>9. ASSUME NEW x \in WorkflowIds
          PROVE  /\ workflowRow'[x].revision <= edits' + 1
                 /\ Pending(editor', editorCall', x, workflowRow'[x].revision) => workflowRow'[x].revision <= edits'
      <3>1. CASE x = w
        <4>1. ~Pending(editor', editorCall', w, r + 1)
          <5>1. Pending(editor', editorCall', w, r + 1) => r + 1 <= r
            BY <1>2, <1>4, <2>5, <2>7, PendingFits
          <5> QED BY <1>2, <5>1
        <4> QED BY <1>0, <2>2, <2>8, <3>1, <4>1, <1>2
      <3>2. CASE x # w
        <4>1. workflowRow'[x].revision = workflowRow[x].revision /\ workflowRow[x].revision \in Nat
          BY <2>2, <3>2 DEF RevisionsInv, AuthoringInv, RowsTyped, EditorRowType
        <4>2. /\ workflowRow[x].revision <= edits + 1
              /\ Pending(editor, editorCall, x, workflowRow[x].revision) => workflowRow[x].revision <= edits
          BY DEF RevisionsInv, RevisionsCost
        <4> QED BY <1>0, <2>7, <4>1, <4>2
      <3> QED BY <3>1, <3>2
    <2>10. RevisionsCost(workflowRow', editor', editorCall', edits')
      BY <2>9 DEF RevisionsCost
    <2> QED BY <1>0, <2>10 DEF RevisionsInv
  <1> QED BY <1>3, <1>4

LEMMA DeleteCosts ==
    ASSUME RevisionsInv, AuthoringInv', NEW c \in EditorCalls, DeleteWorkflow(c)
    PROVE  RevisionsInv'
  <1>1. PICK k, a : k = editorCall[c] /\ k \in EditorCallType /\ a = [k EXCEPT !.result = "done"]
    BY DEF RevisionsInv, AuthoringInv, CallsFit
  <1>2. a \in EditorCallType
    BY <1>1 DEF EditorCallType
  <1>3. Answer(c, a)
    BY <1>1 DEF DeleteWorkflow
  <1>4. \A x \in WorkflowIds : workflowRow'[x].revision = workflowRow[x].revision
    BY DEF DeleteWorkflow, RevisionsInv, AuthoringInv, RowsTyped, EditorRowType
  <1> QED BY <1>2, <1>3, <1>4, AnswerQuiet, ServiceTidy DEF DeleteWorkflow
------------------------------------------------------------------------------
\* A step of a page: what it renders is tidy, and what becomes dirty or waits was pending before.
LEMMA PageCosts ==
    ASSUME RevisionsInv, AuthoringInv', UNCHANGED <<workflowRow, edits>>, NEW t \in Tabs,
           NEW list \in [WorkflowIds -> EntryType], NEW r \in WorkflowIds \union {NoWorkflow},
           NEW s \in EditorType, Unloaded(s), Unlisted(list), Render(t, list, r, s),
           s.dirty => editor[t].dirty /\ s.workflow = editor[t].workflow /\ s.revision = editor[t].revision,
           \A c \in EditorCalls, w \in WorkflowIds, q \in Nat :
               Waiting(editorCall'[c], w, q) => Pending(editor, editorCall, w, q)
    PROVE  RevisionsInv'
  <1>1. /\ PagesTidy(editor', workflows', route') /\ \A x \in Tabs : x # t => editor'[x] = editor[x]
        /\ editor'[t] = s \/ ~editor'[t].dirty
    BY RenderTidies
  <1>2. NothingNew(editor', editorCall')
    BY <1>1, NothingNewShown
  <1>3. RevisionsCost(workflowRow', editor', editorCall', edits')
    BY <1>2, CostStays
  <1> QED BY <1>1, <1>3 DEF RevisionsInv

LEMMA PageTyped ==
    ASSUME RevisionsInv, NEW t \in Tabs
    PROVE  /\ editor[t] \in EditorType /\ Unloaded(editor[t])
           /\ workflows[t] \in [WorkflowIds -> EntryType] /\ Unlisted(workflows[t])
           /\ route[t] \in WorkflowIds \union {NoWorkflow}
  BY DEF RevisionsInv, AuthoringInv, PagesFit, PagesTidy

LEMMA MountCosts ==
    ASSUME RevisionsInv, AuthoringInv', NEW t \in Tabs, NEW r \in WorkflowIds, Mount(t, r)
    PROVE  RevisionsInv'
  <1>1. PICK list : list = [w \in WorkflowIds |-> IF LiveWorkflow(w) THEN Entry(workflowRow[w].revision, workflowRow[w].content)
                                                ELSE NotInList]
    OBVIOUS
  <1>2. ASSUME NEW w \in WorkflowIds PROVE list[w] \in EntryType /\ (~list[w].listed => list[w].revision = 1)
    <2>1. workflowRow[w].revision \in Nat \ {0} /\ workflowRow[w].content \in SUBSET Edits
      BY DEF RevisionsInv, AuthoringInv, RowsTyped, EditorRowType
    <2>2. CASE LiveWorkflow(w)
      <3>1. list[w] = Entry(workflowRow[w].revision, workflowRow[w].content)
        BY <1>1, <2>2
      <3> QED BY <2>1, <3>1, EntryTyped
    <2>3. CASE ~LiveWorkflow(w)
      <3>1. list[w] = NotInList
        BY <1>1, <2>3
      <3> QED BY <3>1 DEF NotInList, EntryType
    <2> QED BY <2>2, <2>3
  <1>3. list \in [WorkflowIds -> EntryType] /\ Unlisted(list)
    BY <1>1, <1>2 DEF Unlisted
  <1>4. Render(t, list, r, EmptyEditor) /\ UNCHANGED <<workflowRow, edits>>
    BY <1>1 DEF Mount
  <1>5. EmptyEditor \in EditorType /\ Unloaded(EmptyEditor) /\ ~EmptyEditor.dirty
    BY EmptyEditorTyped DEF Unloaded, EmptyEditor
  <1>6. ASSUME NEW c \in EditorCalls, NEW w \in WorkflowIds, NEW q \in Nat, Waiting(editorCall'[c], w, q)
        PROVE  Pending(editor, editorCall, w, q)
    <2>1. PICK k : k = editorCall[c] /\ k \in EditorCallType
      BY DEF RevisionsInv, AuthoringInv, CallsFit
    <2>2. editorCall'[c] = IF k.tab # t THEN k ELSE IF k.pc = "answer" THEN NoEditorCall ELSE [k EXCEPT !.tab = NoPageTab]
      BY <2>1 DEF Mount
    <2>3. PICK n : n = [k EXCEPT !.tab = NoPageTab]
      OBVIOUS
    <2>4. n.kind = k.kind /\ n.pc = k.pc /\ n.workflow = k.workflow /\ n.revision = k.revision
      BY <2>1, <2>3 DEF EditorCallType
    <2>5. editorCall'[c] \in {k, n, NoEditorCall}
      BY <2>2, <2>3
    <2>6. ~Waiting(NoEditorCall, w, q)
      BY DEF Waiting, NoEditorCall
    <2>7. Waiting(k, w, q)
      BY <1>6, <2>4, <2>5, <2>6 DEF Waiting
    <2> QED BY <2>1, <2>7 DEF Pending
  <1> QED BY <1>3, <1>4, <1>5, <1>6, PageCosts

LEMMA EditCosts ==
    ASSUME RevisionsInv, AuthoringInv', NEW t \in Tabs, Edit(t)
    PROVE  RevisionsInv'
  <1>1. PICK s : s = editor[t] /\ s \in EditorType /\ Unloaded(s)
    BY PageTyped
  <1>2. edits \in Nat /\ edits + 1 \in Edits /\ edits' = edits + 1 /\ UNCHANGED <<workflowRow, editorCall>>
    BY AuthoringAssumption DEF RevisionsInv, AuthoringInv, Edit, Edits
  <1>3. PICK n : n = [s EXCEPT !.content = @ \union {edits + 1}, !.dirty = TRUE]
    OBVIOUS
  <1>4. n \in EditorType /\ n.workflow = s.workflow /\ n.revision = s.revision
    BY <1>1, <1>2, <1>3 DEF EditorType
  <1>5. Unloaded(n)
    BY <1>1, <1>4 DEF Unloaded
  <1>6. Render(t, workflows[t], route[t], n)
    BY <1>1, <1>3 DEF Edit
  <1>7. PagesTidy(editor', workflows', route')
    BY <1>4, <1>5, <1>6, PageTyped, RenderTidies
  <1>8. RevisionsCost(workflowRow', editor', editorCall', edits')
    <2> SUFFICES ASSUME NEW w \in WorkflowIds PROVE workflowRow'[w].revision <= edits'
      BY <1>2 DEF RevisionsCost, RevisionsInv, AuthoringInv, RowsTyped, EditorRowType
    <2> QED BY <1>2 DEF RevisionsInv, RevisionsCost
  <1> QED BY <1>7, <1>8 DEF RevisionsInv

LEMMA SaveCosts ==
    ASSUME RevisionsInv, AuthoringInv', NEW t \in Tabs, NEW c \in EditorCalls, Save(t, c)
    PROVE  RevisionsInv'
  <1>1. PICK s, n : s = editor[t] /\ s \in EditorType /\ Unloaded(s) /\ n = [s EXCEPT !.saving = TRUE]
    BY PageTyped
  <1>2. n \in EditorType /\ n.workflow = s.workflow /\ n.revision = s.revision /\ n.dirty = s.dirty
    BY <1>1 DEF EditorType
  <1>3. Render(t, workflows[t], route[t], n) /\ s.dirty /\ UNCHANGED <<workflowRow, edits>>
    BY <1>1 DEF Save
  <1>4. PICK k : k = [NoEditorCall EXCEPT !.pc = "read", !.tab = t, !.workflow = s.workflow, !.revision = s.revision,
                                          !.content = s.content]
    OBVIOUS
  <1>5. k.workflow = s.workflow /\ k.revision = s.revision
    BY <1>4 DEF NoEditorCall
  <1>6. \A w \in WorkflowIds, q \in Nat : Waiting(k, w, q) => Pending(editor, editorCall, w, q)
    BY <1>1, <1>3, <1>5 DEF Waiting, Pending, Dirty
  <1>7. editorCall' = [editorCall EXCEPT ![c] = k] /\ editorCall \in [EditorCalls -> EditorCallType]
    BY <1>1, <1>4 DEF Save, Ask, RevisionsInv, AuthoringInv, CallsFit
  <1>8. \A d \in EditorCalls, w \in WorkflowIds, q \in Nat :
            Waiting(editorCall'[d], w, q) => Pending(editor, editorCall, w, q)
    BY <1>6, <1>7, CallsQuiet
  <1>9. Unloaded(n)
    BY <1>1, <1>2 DEF Unloaded
  <1> QED BY <1>1, <1>2, <1>3, <1>8, <1>9, PageTyped, PageCosts

\* Asking to create or to delete is not saving.
LEMMA AskedCosts ==
    ASSUME RevisionsInv, AuthoringInv', NEW t \in Tabs, NEW c \in EditorCalls,
           HandleCreateWorkflow(t, c) \/ HandleDeleteWorkflow(t, c)
    PROVE  RevisionsInv'
  <1>1. UNCHANGED <<workflowRow, editor, workflows, route, edits>>
    BY DEF HandleCreateWorkflow, HandleDeleteWorkflow
  <1>2. \E k : editorCall' = [editorCall EXCEPT ![c] = k] /\ k.kind # "save"
    <2>1. CASE HandleCreateWorkflow(t, c)
      <3>1. PICK k : k = [NoEditorCall EXCEPT !.pc = "insert", !.tab = t, !.kind = "create"]
        OBVIOUS
      <3>2. k.kind = "create"
        BY <3>1 DEF NoEditorCall
      <3> QED BY <2>1, <3>1, <3>2 DEF HandleCreateWorkflow, Ask
    <2>2. CASE HandleDeleteWorkflow(t, c)
      <3>1. PICK k : k = [NoEditorCall EXCEPT !.pc = "read", !.tab = t, !.kind = "delete", !.workflow = editor[t].workflow,
                                              !.list = {w \in WorkflowIds : workflows[t][w].listed}]
        OBVIOUS
      <3>2. k.kind = "delete"
        BY <3>1 DEF NoEditorCall
      <3> QED BY <2>2, <3>1, <3>2 DEF HandleDeleteWorkflow, Ask
    <2> QED BY <2>1, <2>2
  <1>3. editorCall \in [EditorCalls -> EditorCallType]
    BY DEF RevisionsInv, AuthoringInv, CallsFit
  <1>4. \A d \in EditorCalls, w \in WorkflowIds, q \in Nat :
            Waiting(editorCall'[d], w, q) => Pending(editor, editorCall, w, q)
    BY <1>2, <1>3, CallsQuiet DEF Waiting
  <1> QED BY <1>1, <1>4, ServiceTidy

LEMMA AnsweredQuiet ==
    ASSUME RevisionsInv, NEW c \in EditorCalls, NEW kind, NEW result, Answered(c, kind, result)
    PROVE  /\ UNCHANGED <<workflowRow, edits>> /\ editorCall[c].tab \in Tabs
           /\ \A d \in EditorCalls, w \in WorkflowIds, q \in Nat :
                  Waiting(editorCall'[d], w, q) => Pending(editor, editorCall, w, q)
  <1>1. /\ editorCall \in [EditorCalls -> EditorCallType] /\ CallFits(workflowRow, editorCall[c])
        /\ editorCall' = [editorCall EXCEPT ![c] = NoEditorCall] /\ editorCall[c].pc = "answer"
    BY DEF RevisionsInv, AuthoringInv, CallsFit, Answered
  <1>2. \A w, q : ~Waiting(NoEditorCall, w, q)
    BY DEF Waiting, NoEditorCall
  <1>3. \A d \in EditorCalls, w \in WorkflowIds, q \in Nat :
            Waiting(editorCall'[d], w, q) => Pending(editor, editorCall, w, q)
    BY <1>1, <1>2, CallsQuiet
  <1> QED BY <1>1, <1>3 DEF Answered, CallFits

LEMMA SavedCosts ==
    ASSUME RevisionsInv, AuthoringInv', NEW c \in EditorCalls, SaveSucceeded(c)
    PROVE  RevisionsInv'
  <1>1. PICK a : a = editorCall[c]
    OBVIOUS
  <1>2. Answered(c, "save", "done") /\ AuthoringInv
    BY DEF SaveSucceeded, RevisionsInv
  <1>3. Concerns(a) /\ a.kind = "save" /\ a \in EditorCallType /\ CallFits(workflowRow, a) /\ a.tab \in Tabs
    BY <1>1, <1>2, AnswerReceived DEF Concerns
  <1>4. a.workflow \in WorkflowIds /\ a.revision \in Nat \ {0} /\ a.content \in SUBSET Edits
    BY <1>3 DEF CallFits, EditorCallType
  <1>5. PICK s : s = [LoadWorkflow(a.workflow, Entry(a.revision, a.content)) EXCEPT !.saved = TRUE]
    OBVIOUS
  <1>6. s = [workflow |-> a.workflow, revision |-> a.revision, content |-> a.content,
             dirty |-> FALSE, saving |-> FALSE, conflict |-> FALSE, saved |-> TRUE]
    BY <1>5 DEF LoadWorkflow, EmptyEditor, Entry
  <1>7. s \in EditorType /\ Unloaded(s) /\ ~s.dirty
    BY <1>4, <1>6 DEF EditorType, Unloaded, WorkflowIds, NoWorkflow
  <1>8. Render(a.tab, workflows[a.tab], route[a.tab], s)
    BY <1>1, <1>5 DEF SaveSucceeded
  <1>9. /\ UNCHANGED <<workflowRow, edits>>
        /\ \A d \in EditorCalls, w \in WorkflowIds, q \in Nat :
               Waiting(editorCall'[d], w, q) => Pending(editor, editorCall, w, q)
    BY <1>2, AnsweredQuiet
  <1> QED BY <1>3, <1>7, <1>8, <1>9, PageTyped, PageCosts

LEMMA RefusedCosts ==
    ASSUME RevisionsInv, AuthoringInv', NEW c \in EditorCalls, SaveRefused(c)
    PROVE  RevisionsInv'
  <1>1. PICK result \in {"conflict", "refused"} :
            /\ Answered(c, "save", result)
            /\ Render(editorCall[c].tab, workflows[editorCall[c].tab], route[editorCall[c].tab],
                      [editor[editorCall[c].tab] EXCEPT !.saving = FALSE, !.conflict = @ \/ result = "conflict"])
    BY DEF SaveRefused
  <1>2. PICK t : t = editorCall[c].tab /\ t \in Tabs
    BY <1>1, AnsweredQuiet
  <1>3. PICK l, s : /\ l = editor[t] /\ l \in EditorType /\ Unloaded(l)
                    /\ s = [l EXCEPT !.saving = FALSE, !.conflict = @ \/ result = "conflict"]
    BY <1>2, PageTyped
  <1>4. s = [workflow |-> l.workflow, revision |-> l.revision, content |-> l.content, dirty |-> l.dirty,
             saving |-> FALSE, conflict |-> l.conflict \/ result = "conflict", saved |-> l.saved]
    BY <1>3 DEF EditorType
  <1>5. s \in EditorType /\ s.workflow = l.workflow /\ s.revision = l.revision /\ s.dirty = l.dirty
    BY <1>3, <1>4 DEF EditorType
  <1>6. Unloaded(s)
    BY <1>3, <1>5 DEF Unloaded
  <1>7. Render(t, workflows[t], route[t], s)
    BY <1>1, <1>2, <1>3
  <1>8. /\ UNCHANGED <<workflowRow, edits>>
        /\ \A d \in EditorCalls, w \in WorkflowIds, q \in Nat :
               Waiting(editorCall'[d], w, q) => Pending(editor, editorCall, w, q)
    BY <1>1, AnsweredQuiet
  <1>9. s.dirty => editor[t].dirty /\ s.workflow = editor[t].workflow /\ s.revision = editor[t].revision
    BY <1>3, <1>5
  <1>10. /\ workflows[t] \in [WorkflowIds -> EntryType] /\ Unlisted(workflows[t])
         /\ route[t] \in WorkflowIds \union {NoWorkflow}
    BY <1>2, PageTyped
  <1> QED BY <1>2, <1>5, <1>6, <1>7, <1>8, <1>9, <1>10, PageCosts

LEMMA CreatedCosts ==
    ASSUME RevisionsInv, AuthoringInv', NEW c \in EditorCalls, Created(c)
    PROVE  RevisionsInv'
  <1>1. PICK a : a = editorCall[c]
    OBVIOUS
  <1>2. Answered(c, "create", "done") /\ AuthoringInv
    BY DEF Created, RevisionsInv
  <1>3. Concerns(a) /\ CallFits(workflowRow, a) /\ a.tab \in Tabs
    BY <1>1, <1>2, AnswerReceived DEF Concerns
  <1>4. PICK w : w = a.workflow /\ w \in WorkflowIds
    BY <1>3 DEF CallFits
  <1>5. PICK e, s : e = Entry(1, {}) /\ e \in EntryType /\ e.listed /\ s = LoadWorkflow(w, e)
    BY EntryTyped
  <1>6. s = [workflow |-> w, revision |-> 1, content |-> {},
             dirty |-> FALSE, saving |-> FALSE, conflict |-> FALSE, saved |-> FALSE]
    BY <1>5 DEF LoadWorkflow, EmptyEditor, Entry
  <1>7. s \in EditorType /\ Unloaded(s) /\ ~s.dirty
    BY <1>4, <1>6 DEF EditorType, Unloaded
  <1>8. PICK list : list = [workflows[a.tab] EXCEPT ![w] = e]
    OBVIOUS
  <1>9. list \in [WorkflowIds -> EntryType] /\ Unlisted(list)
    BY <1>3, <1>4, <1>5, <1>8, PageTyped DEF Unlisted
  <1>10. Render(a.tab, list, route[a.tab], s)
    BY <1>1, <1>4, <1>5, <1>8 DEF Created
  <1>11. /\ UNCHANGED <<workflowRow, edits>>
         /\ \A d \in EditorCalls, x \in WorkflowIds, q \in Nat :
                Waiting(editorCall'[d], x, q) => Pending(editor, editorCall, x, q)
    BY <1>2, AnsweredQuiet
  <1> QED BY <1>3, <1>7, <1>9, <1>10, <1>11, PageTyped, PageCosts

LEMMA DeletedCosts ==
    ASSUME RevisionsInv, AuthoringInv', NEW c \in EditorCalls, Deleted(c)
    PROVE  RevisionsInv'
  <1>1. PICK a : a = editorCall[c]
    OBVIOUS
  <1>2. Answered(c, "delete", "done")
    BY DEF Deleted
  <1>3. /\ UNCHANGED <<workflowRow, edits>> /\ a.tab \in Tabs
        /\ \A d \in EditorCalls, w \in WorkflowIds, q \in Nat :
               Waiting(editorCall'[d], w, q) => Pending(editor, editorCall, w, q)
    BY <1>1, <1>2, AnsweredQuiet
  <1>4. PICK list : list = [w \in WorkflowIds |-> IF w \in a.list \ {a.workflow} THEN workflows[a.tab][w] ELSE NotInList]
    OBVIOUS
  <1>5. NotInList \in EntryType /\ NotInList.revision = 1
    BY DEF NotInList, EntryType
  <1>6. list \in [WorkflowIds -> EntryType] /\ Unlisted(list)
    BY <1>3, <1>4, <1>5, PageTyped DEF Unlisted
  <1>7. Render(a.tab, list, route[a.tab], editor[a.tab])
    BY <1>1, <1>4 DEF Deleted
  <1> QED BY <1>3, <1>6, <1>7, PageTyped, PageCosts

LEMMA RevisionsStepHolds ==
    ASSUME RevisionsInv, [AuthoringNext]_authoringVars
    PROVE  RevisionsInv'
  <1>1. AuthoringInv'
    BY AuthoringStepHolds DEF RevisionsInv
  <1>2. CASE UNCHANGED authoringVars
    BY <1>1, <1>2 DEF authoringVars, RevisionsInv
  <1>3. ASSUME NEW c \in EditorCalls, EditorService(c) PROVE RevisionsInv'
    <2>1. CASE EditorCallFails(c)
      BY <1>1, <2>1, ReplyQuiet, ServiceTidy DEF EditorCallFails
    <2>2. CASE CallRefused(c)
      <3>1. PICK kind \in {"create", "delete"} : Answered(c, kind, "refused")
        BY <2>2 DEF CallRefused
      <3>2. /\ UNCHANGED <<workflowRow, edits>>
            /\ \A d \in EditorCalls, w \in WorkflowIds, q \in Nat :
                   Waiting(editorCall'[d], w, q) => Pending(editor, editorCall, w, q)
        BY <3>1, AnsweredQuiet
      <3>3. NothingNew(editor', editorCall')
        BY <2>2, <3>2 DEF CallRefused, NothingNew, Pending
      <3>4. RevisionsCost(workflowRow', editor', editorCall', edits')
        BY <1>1, <3>2, <3>3, CostStays
      <3>5. PagesTidy(editor', workflows', route')
        BY <2>2, <3>1 DEF CallRefused, Answered, RevisionsInv, PagesTidy
      <3> QED BY <1>1, <3>4, <3>5 DEF RevisionsInv
    <2> QED BY <1>1, <1>3, <2>1, <2>2, CreateCosts, RequireCosts, UpdateCosts, DeleteCosts, SavedCosts, RefusedCosts,
               CreatedCosts, DeletedCosts DEF EditorService
  <1>4. ASSUME NEW t \in Tabs, NEW c \in EditorCalls, Save(t, c) \/ HandleCreateWorkflow(t, c) \/ HandleDeleteWorkflow(t, c)
        PROVE  RevisionsInv'
    BY <1>1, <1>4, SaveCosts, AskedCosts
  <1>5. ASSUME NEW t \in Tabs, Edit(t) PROVE RevisionsInv'
    BY <1>1, <1>5, EditCosts
  <1>6. ASSUME NEW t \in Tabs, NEW w \in WorkflowIds, OpenWorkflow(t, w) PROVE RevisionsInv'
    BY <1>1, <1>6, MountCosts DEF OpenWorkflow
  <1> QED BY <1>2, <1>3, <1>4, <1>5, <1>6 DEF AuthoringNext

LEMMA RevisionsInitHolds == AuthoringInit => RevisionsInv
  <1> SUFFICES ASSUME AuthoringInit PROVE RevisionsInv
    OBVIOUS
  <1>1. \A t \in Tabs : ~editor[t].dirty /\ Unloaded(editor[t])
    BY DEF AuthoringInit, EmptyEditor, Unloaded
  <1>2. \A c \in EditorCalls : \A w, r : ~Waiting(editorCall[c], w, r)
    BY DEF AuthoringInit, NoEditorCall, Waiting
  <1>3. \A w \in WorkflowIds : workflowRow[w].revision = 1
    BY DEF AuthoringInit, NoWorkflowRow
  <1>4. RevisionsCost(workflowRow, editor, editorCall, edits)
    BY <1>1, <1>2, <1>3 DEF RevisionsCost, Pending, Dirty, AuthoringInit
  <1>5. \A t \in Tabs : Unlisted(workflows[t])
    BY DEF AuthoringInit, NotInList, Unlisted
  <1>6. route \in [Tabs -> WorkflowIds \union {NoWorkflow}]
    BY DEF AuthoringInit
  <1> QED BY <1>1, <1>4, <1>5, <1>6, AuthoringInitHolds DEF RevisionsInv, PagesTidy

\* A page knows no revision above the stored one, and that one has cost an edit for each it is above 1.
LEMMA RevisionsBound ==
    ASSUME RevisionsInv
    PROVE  AuthoringTypeOK
  <1>1. edits \in 0..MaxEdits
    BY DEF RevisionsInv, AuthoringInv
  <1>2. ASSUME NEW w \in WorkflowIds
        PROVE  /\ workflowRow[w] \in EditorRowType /\ workflowRow[w].revision \in 1..MaxEdits + 1
               /\ \A r \in Nat \ {0} : r <= workflowRow[w].revision => r \in 1..MaxEdits + 1
    <2>1. workflowRow[w] \in EditorRowType /\ workflowRow[w].revision \in Nat \ {0}
      BY DEF RevisionsInv, AuthoringInv, RowsTyped, EditorRowType
    <2>2. workflowRow[w].revision <= edits + 1
      BY DEF RevisionsInv, RevisionsCost
    <2> QED BY <1>1, <2>1, <2>2, AuthoringAssumption
  <1>3. workflowRow \in [WorkflowIds -> [state : {"none", "live", "deleted"}, revision : 1..MaxEdits + 1, content : SUBSET Edits]]
    <2>1. \A w \in WorkflowIds : workflowRow[w] \in [state : {"none", "live", "deleted"}, revision : 1..MaxEdits + 1, content : SUBSET Edits]
      BY <1>2 DEF EditorRowType
    <2> QED BY <2>1 DEF RevisionsInv, AuthoringInv, RowsTyped
  <1>4. 1 \in 1..MaxEdits + 1
    BY AuthoringAssumption
  <1>5. ASSUME NEW t \in Tabs
        PROVE  editor[t] \in [workflow : WorkflowIds \union {NoWorkflow}, revision : 1..MaxEdits + 1, content : SUBSET Edits,
                              dirty : BOOLEAN, saving : BOOLEAN, conflict : BOOLEAN, saved : BOOLEAN]
    <2>1. editor[t] \in EditorType /\ Unloaded(editor[t]) /\ EditorFits(workflowRow, editor[t])
      BY PageTyped DEF RevisionsInv, AuthoringInv, PagesFit
    <2>2. editor[t].revision \in 1..MaxEdits + 1
      BY <1>2, <1>4, <2>1 DEF EditorType, Unloaded, EditorFits, Fits
    <2> QED BY <2>1, <2>2 DEF EditorType
  <1>6. ASSUME NEW t \in Tabs, NEW w \in WorkflowIds
        PROVE  workflows[t][w] \in [listed : BOOLEAN, revision : 1..MaxEdits + 1, content : SUBSET Edits]
    <2>1. workflows[t][w] \in EntryType /\ Unlisted(workflows[t]) /\ EntryFits(workflowRow[w], workflows[t][w])
      BY PageTyped DEF RevisionsInv, AuthoringInv, PagesFit
    <2>2. workflows[t][w].revision \in 1..MaxEdits + 1
      BY <1>2, <1>4, <2>1 DEF EntryType, Unlisted, EntryFits, Fits
    <2> QED BY <2>1, <2>2 DEF EntryType
  <1>7. editor \in [Tabs -> EditorType] /\ workflows \in [Tabs -> [WorkflowIds -> EntryType]]
    BY DEF RevisionsInv, AuthoringInv, PagesFit
  <1>8. editor \in [Tabs -> [workflow : WorkflowIds \union {NoWorkflow}, revision : 1..MaxEdits + 1, content : SUBSET Edits,
                             dirty : BOOLEAN, saving : BOOLEAN, conflict : BOOLEAN, saved : BOOLEAN]]
    BY <1>5, <1>7
  <1>9. workflows \in [Tabs -> [WorkflowIds -> [listed : BOOLEAN, revision : 1..MaxEdits + 1, content : SUBSET Edits]]]
    <2>1. \A t \in Tabs : workflows[t] \in [WorkflowIds -> [listed : BOOLEAN, revision : 1..MaxEdits + 1, content : SUBSET Edits]]
      BY <1>6, <1>7
    <2> QED BY <1>7, <2>1
  <1> QED BY <1>1, <1>3, <1>8, <1>9 DEF AuthoringTypeOK, RevisionsInv, PagesTidy

(* Whatever tabs load, edit, save and delete, no page and no row has a revision above what the
   edits made so far pay for: a save writes only what was edited at the stored revision
   (test-workflows.service.ts:251). *)
THEOREM AuthoringTypes == AuthoringSpec => []AuthoringTypeOK
  <1>1. RevisionsInv /\ [AuthoringNext]_authoringVars => RevisionsInv'
    BY RevisionsStepHolds
  <1>2. RevisionsInv => AuthoringTypeOK
    BY RevisionsBound
  <1> QED BY <1>1, <1>2, RevisionsInitHolds, PTL DEF AuthoringSpec
------------------------------------------------------------------------------
(***************************************************************************)
(* The templates of the nodes.  The request tab, while it is shown, holds  *)
(* what was typed for the selected node, so that writing the whole of it   *)
(* back mixes no nodes; and a file is read into the tab that chose it, or  *)
(* the tab was left.                                                       *)
(***************************************************************************)
Forms ==
    [tables : InspectorTables, type : {"json", "key-value", "multipart"},
     text : Origins, object : BOOLEAN, fields : Origins, parts : Origins]

\* What was typed for one node.
TemplateOf(t, n) == t \in Template /\ t.tables.from \subseteq {n} /\ t.body \subseteq {n}
FormOf(f, n) ==
    f \in Forms /\ f.tables.from \subseteq {n} /\ f.text \subseteq {n} /\ f.fields \subseteq {n} /\ f.parts \subseteq {n}

ExportLists == {<<>>} \union {<<e>> : e \in {x \in Export : Extractable(x)}}

NodeFits(node, n) ==
    /\ DOMAIN node = {"template", "exports", "assertions"}
    /\ TemplateOf(node.template, n) /\ node.exports \in ExportLists

NodesFit(d) == DOMAIN d \subseteq InspectedIds /\ \A n \in DOMAIN d : NodeFits(d[n], n)

ShowsNode(f, t, n) == FormOf(f, n) /\ (f = Populate(t) \/ Written(f) = t)

\* The request tab is open on a node.
RequestShown == Shown /\ activeTab = "request"

NodesKept ==
    /\ NodesFit(drafted) /\ (inspected # NoNode => Shown) /\ form \in Forms
    /\ RequestShown => ShowsNode(form, drafted[inspected].template, inspected)
    /\ "mounted" \in DOMAIN fileRead /\ (fileRead.mounted => RequestShown)

InspectorInv == ~lateRead => NodesKept
------------------------------------------------------------------------------
LEMMA PopulateFits ==
    ASSUME NEW n \in InspectedIds, NEW t, TemplateOf(t, n)
    PROVE  ShowsNode(Populate(t), t, n)
  <1>1. ShownType(t) \in {"json", "key-value", "multipart"}
    BY DEF ShownType
  <1>2. t.tables \in InspectorTables /\ t.body \in Origins
    BY DEF TemplateOf, Template
  <1> DEFINE part(type) == IF ShownType(t) = type THEN t.body ELSE {}
  <1>3. \A type : part(type) \in Origins /\ part(type) \subseteq {n}
    BY <1>2 DEF Origins, TemplateOf
  <1> HIDE DEF part
  <1>4. Populate(t) = [tables |-> t.tables, type |-> ShownType(t), object |-> FALSE, text |-> part("json"),
                       fields |-> part("key-value"), parts |-> part("multipart")]
    BY DEF Populate, part
  <1>5. FormOf(Populate(t), n)
    BY <1>1, <1>2, <1>3, <1>4 DEF FormOf, Forms, TemplateOf
  <1> QED BY <1>5 DEF ShowsNode

LEMMA WrittenFits ==
    ASSUME NEW n, NEW f, FormOf(f, n)
    PROVE  TemplateOf(Written(f), n)
  <1>1. /\ f.tables \in InspectorTables /\ f.type \in {"json", "key-value", "multipart"}
        /\ f.text \in Origins /\ f.fields \in Origins /\ f.parts \in Origins
    BY DEF FormOf, Forms
  <1> DEFINE kind == CASE f.type = "multipart" -> "parts"
                       [] f.type = "key-value" -> "object"
                       [] OTHER -> IF f.text = {} THEN "none" ELSE IF f.object THEN "object" ELSE "text"
             body == CASE f.type = "multipart" -> f.parts
                       [] f.type = "key-value" -> f.fields
                       [] OTHER -> f.text
  <1>2. kind \in {"none", "text", "object", "parts"}
    BY <1>1
  <1>3. body \in Origins /\ body \subseteq {n}
    BY <1>1 DEF FormOf
  <1> HIDE DEF kind, body
  <1>4. Written(f) = [tables |-> f.tables, kind |-> kind, body |-> body]
    BY DEF Written, kind, body
  <1> QED BY <1>1, <1>2, <1>3, <1>4 DEF TemplateOf, Template, FormOf

\* A node gets another template.
Rewritten(d, n, t) == [d EXCEPT ![n].template = t]

LEMMA TemplateChanged ==
    ASSUME NEW d, NodesFit(d), NEW n \in DOMAIN d, NEW t, TemplateOf(t, n), NEW e, e = Rewritten(d, n, t)
    PROVE  NodesFit(e) /\ DOMAIN e = DOMAIN d /\ e[n].template = t
  <1>1. PICK node : node = [d[n] EXCEPT !.template = t]
    OBVIOUS
  <1>2. DOMAIN e = DOMAIN d /\ e[n] = node /\ \A m \in DOMAIN d \ {n} : e[m] = d[m]
    BY <1>1 DEF Rewritten
  <1>3. NodeFits(d[n], n)
    BY DEF NodesFit
  <1>4. DOMAIN node = DOMAIN d[n] /\ node.template = t /\ node.exports = d[n].exports
    BY <1>1, <1>3 DEF NodeFits
  <1>5. NodeFits(node, n)
    BY <1>3, <1>4 DEF NodeFits
  <1> QED BY <1>2, <1>4, <1>5 DEF NodesFit

\* A node gets other exports or other assertions.
Relisted(d, n, list, e) ==
    \/ e = [d EXCEPT ![n].exports = list] /\ list \in ExportLists
    \/ e = [d EXCEPT ![n].assertions = list]

LEMMA ListChanged ==
    ASSUME NEW d, NodesFit(d), NEW n \in DOMAIN d, NEW list, NEW e, Relisted(d, n, list, e)
    PROVE  NodesFit(e) /\ DOMAIN e = DOMAIN d /\ e[n].template = d[n].template
  <1>0. NodeFits(d[n], n)
    BY DEF NodesFit
  <1>1. CASE e = [d EXCEPT ![n].exports = list] /\ list \in ExportLists
    <2>1. PICK node : node = [d[n] EXCEPT !.exports = list]
      OBVIOUS
    <2>2. DOMAIN e = DOMAIN d /\ e[n] = node /\ \A m \in DOMAIN d \ {n} : e[m] = d[m]
      BY <1>1, <2>1
    <2>3. DOMAIN node = DOMAIN d[n] /\ node.template = d[n].template /\ node.exports = list
      BY <1>0, <2>1 DEF NodeFits
    <2>4. NodeFits(node, n)
      BY <1>0, <1>1, <2>3 DEF NodeFits
    <2> QED BY <2>2, <2>3, <2>4 DEF NodesFit
  <1>2. CASE e = [d EXCEPT ![n].assertions = list]
    <2>1. PICK node : node = [d[n] EXCEPT !.assertions = list]
      OBVIOUS
    <2>2. DOMAIN e = DOMAIN d /\ e[n] = node /\ \A m \in DOMAIN d \ {n} : e[m] = d[m]
      BY <1>2, <2>1
    <2>3. DOMAIN node = DOMAIN d[n] /\ node.template = d[n].template /\ node.exports = d[n].exports
      BY <1>0, <2>1 DEF NodeFits
    <2>4. NodeFits(node, n)
      BY <1>0, <2>3 DEF NodeFits
    <2> QED BY <2>2, <2>3, <2>4 DEF NodesFit
  <1> QED BY <1>1, <1>2 DEF Relisted
------------------------------------------------------------------------------
LEMMA SelectNodeKeeps ==
    ASSUME NodesKept, NEW n \in InspectedIds, SelectNode(n)
    PROVE  NodesKept'
  <1>1. n \in DOMAIN drafted /\ inspected' = n /\ UNCHANGED <<drafted, fileRead>>
        /\ activeTab' = (IF ~Shown THEN "general" ELSE activeTab)
        /\ form' = (IF activeTab' = "request" THEN Populate(drafted[n].template) ELSE form)
    BY DEF SelectNode
  <1>2. ShowsNode(Populate(drafted[n].template), drafted[n].template, n)
    BY <1>1, PopulateFits DEF NodesKept, NodesFit, NodeFits
  <1>3. form' \in Forms
    BY <1>1, <1>2 DEF ShowsNode, FormOf, NodesKept
  <1>4. RequestShown' => ShowsNode(form, drafted[inspected].template, inspected)'
    BY <1>1, <1>2 DEF RequestShown, ShowsNode, Populate, Written
  <1>5. "mounted" \in DOMAIN fileRead' /\ (fileRead'.mounted => RequestShown')
    BY <1>1 DEF NodesKept, RequestShown, Shown
  <1>6. NodesFit(drafted)' /\ Shown'
    BY <1>1 DEF NodesKept, Shown
  <1> QED BY <1>3, <1>4, <1>5, <1>6 DEF NodesKept

\* The tab is left: a file that is being read reports to none.
LEMMA LeftTab ==
    ASSUME NodesKept, LeaveTab
    PROVE  "mounted" \in DOMAIN fileRead' /\ ~fileRead'.mounted
  BY DEF LeaveTab, NodesKept
LEMMA DeselectKeeps ==
    ASSUME NodesKept, Deselect
    PROVE  NodesKept'
  <1>1. "mounted" \in DOMAIN fileRead' /\ ~fileRead'.mounted
    BY LeftTab DEF Deselect
  <1>2. NodesFit(drafted)' /\ inspected' = NoNode /\ activeTab' = "general" /\ form' \in Forms
    BY DEF Deselect, NodesKept
  <1> QED BY <1>1, <1>2 DEF NodesKept, RequestShown

LEMMA OpenTabKeeps ==
    ASSUME NodesKept, NEW tab, OpenTab(tab)
    PROVE  NodesKept'
  <1>1. "mounted" \in DOMAIN fileRead' /\ ~fileRead'.mounted
    BY LeftTab DEF OpenTab
  <1>2. Shown /\ activeTab' = tab /\ UNCHANGED <<drafted, inspected>>
        /\ form' = (IF tab = "request" THEN Populate(drafted[inspected].template) ELSE form)
    BY DEF OpenTab
  <1>3. inspected \in InspectedIds /\ TemplateOf(drafted[inspected].template, inspected)
    BY <1>2 DEF NodesKept, NodesFit, NodeFits, Shown
  <1>4. ShowsNode(Populate(drafted[inspected].template), drafted[inspected].template, inspected)
    BY <1>3, PopulateFits
  <1>5. form' \in Forms
    BY <1>2, <1>4 DEF ShowsNode, FormOf, NodesKept
  <1>6. RequestShown' => ShowsNode(form, drafted[inspected].template, inspected)'
    BY <1>2, <1>4 DEF RequestShown, ShowsNode, Populate, Written
  <1>7. NodesFit(drafted)' /\ Shown'
    BY <1>2 DEF NodesKept, Shown
  <1> QED BY <1>1, <1>5, <1>6, <1>7 DEF NodesKept

LEMMA DropEndpointKeeps ==
    ASSUME NodesKept, NEW n \in InspectedIds, DropEndpoint(n)
    PROVE  NodesKept'
  <1>1. PICK new : new = [template |-> EmptyTemplate, exports |-> <<>>, assertions |-> <<>>]
    OBVIOUS
  <1>2. /\ n \notin DOMAIN drafted /\ n # inspected /\ UNCHANGED <<inspected, activeTab, form, fileRead>>
        /\ drafted' = [m \in DOMAIN drafted \union {n} |-> IF m = n THEN new ELSE drafted[m]]
    BY <1>1 DEF DropEndpoint
  <1>3. NodeFits(new, n)
    <2>1. TemplateOf(EmptyTemplate, n)
      BY DEF TemplateOf, EmptyTemplate, Template, InspectorTables, Origins
    <2> QED BY <1>1, <2>1 DEF NodeFits, ExportLists
  <1>4. DOMAIN drafted' = DOMAIN drafted \union {n} /\ drafted'[n] = new /\ \A m \in DOMAIN drafted : drafted'[m] = drafted[m]
    BY <1>2
  <1>5. NodesFit(drafted')
    BY <1>3, <1>4 DEF NodesKept, NodesFit
  <1>6. Shown' <=> Shown
    BY <1>2, <1>4 DEF Shown
  <1>7. Shown => drafted'[inspected] = drafted[inspected]
    BY <1>4 DEF Shown
  <1>8. RequestShown' => ShowsNode(form, drafted[inspected].template, inspected)'
    BY <1>2, <1>6, <1>7 DEF NodesKept, RequestShown, ShowsNode, Populate, Written
  <1> QED BY <1>2, <1>5, <1>6, <1>8 DEF NodesKept, RequestShown

LEMMA RemoveNodeKeeps ==
    ASSUME NodesKept, RemoveNode
    PROVE  NodesKept'
  <1>1. "mounted" \in DOMAIN fileRead' /\ ~fileRead'.mounted
    BY LeftTab DEF RemoveNode
  <1>2. inspected' = NoNode /\ activeTab' = "general" /\ form' \in Forms
        /\ drafted' = [m \in DOMAIN drafted \ {inspected} |-> drafted[m]]
    BY DEF RemoveNode, NodesKept
  <1>3. NodesFit(drafted')
    BY <1>2 DEF NodesKept, NodesFit
  <1> QED BY <1>1, <1>2, <1>3 DEF NodesKept, RequestShown
------------------------------------------------------------------------------
\* The tab writes a form of the selected node.
LEMMA FieldsChangeKeeps ==
    ASSUME NodesKept, NEW f, f \in Forms,
           RequestShown => FormOf(f, inspected), TriggerFieldsChange(f)
    PROVE  NodesKept'
  <1>1. RequestShown /\ form' = f /\ UNCHANGED <<inspected, activeTab, fileRead>>
        /\ drafted' = [drafted EXCEPT ![inspected].template = Written(f)]
    BY DEF TriggerFieldsChange, RequestShown
  <1>2. inspected \in DOMAIN drafted /\ FormOf(f, inspected)
    BY <1>1 DEF RequestShown, Shown
  <1>3. TemplateOf(Written(f), inspected)
    BY <1>2, WrittenFits
  <1>4. NodesFit(drafted') /\ DOMAIN drafted' = DOMAIN drafted /\ drafted'[inspected].template = Written(f)
    <2>1. drafted' = Rewritten(drafted, inspected, Written(f))
      BY <1>1 DEF Rewritten
    <2> QED BY <1>2, <1>3, <2>1, TemplateChanged DEF NodesKept
  <1>5. Shown' /\ (RequestShown' <=> RequestShown)
    BY <1>1, <1>2, <1>4 DEF Shown, RequestShown
  <1>6. ShowsNode(form, drafted[inspected].template, inspected)'
    BY <1>1, <1>2, <1>4 DEF ShowsNode
  <1> QED BY <1>1, <1>4, <1>5, <1>6 DEF NodesKept

\* What is typed is typed for the selected node.
LEMMA TypedForShown ==
    ASSUME NodesKept, RequestShown
    PROVE  /\ inspected \in InspectedIds /\ FormOf(form, inspected)
           /\ \A s \in SUBSET {inspected} : Typed(s) = SUBSET {inspected} /\ s \in Origins
  <1>1. inspected \in InspectedIds
    BY DEF NodesKept, RequestShown, Shown, NodesFit
  <1>2. FormOf(form, inspected)
    BY DEF NodesKept, ShowsNode
  <1>3. ASSUME NEW s \in SUBSET {inspected} PROVE Typed(s) = SUBSET {inspected} /\ s \in Origins
    <2>1. s \union {inspected} = {inspected}
      OBVIOUS
    <2> QED BY <1>1, <2>1 DEF Typed, Origins
  <1> QED BY <1>1, <1>2, <1>3

LEMMA EditsShown ==
    ASSUME EditTables \/ EditBodyText \/ EditBodyFields \/ EditBodyParts
           \/ \E type \in {"json", "key-value", "multipart"} : ChangeBodyType(type)
    PROVE  RequestShown
  BY DEF EditTables, EditBodyText, EditBodyFields, EditBodyParts, ChangeBodyType, TriggerFieldsChange, RequestShown

LEMMA RequestEditsKeep ==
    ASSUME NodesKept, EditTables \/ EditBodyText \/ EditBodyFields \/ EditBodyParts
           \/ \E type \in {"json", "key-value", "multipart"} : ChangeBodyType(type)
    PROVE  NodesKept'
  <1>1. RequestShown
    BY EditsShown
  <1>2. inspected \in InspectedIds /\ FormOf(form, inspected)
        /\ \A s \in SUBSET {inspected} : Typed(s) = SUBSET {inspected} /\ s \in Origins
    BY <1>1, TypedForShown
  <1>3. form \in Forms /\ form.tables.from \in SUBSET {inspected} /\ form.fields \in SUBSET {inspected}
        /\ form.parts \in SUBSET {inspected}
    BY <1>2 DEF FormOf
  <1>4. CASE EditTables
    <2>1. PICK from \in Typed(form.tables.from), other \in BOOLEAN :
              TriggerFieldsChange([form EXCEPT !.tables = [from |-> from, other |-> other]])
      BY <1>4 DEF EditTables
    <2>2. PICK t : t = [from |-> from, other |-> other]
      OBVIOUS
    <2>3. PICK f : f = [form EXCEPT !.tables = t]
      OBVIOUS
    <2>4. from \in SUBSET {inspected}
      BY <1>2, <1>3
    <2>5. t \in InspectorTables /\ t.from = from
      BY <1>2, <2>2, <2>4 DEF InspectorTables
    <2>6. FormOf(f, inspected)
      BY <1>2, <2>3, <2>4, <2>5 DEF FormOf, Forms
    <2> QED BY <2>1, <2>2, <2>3, <2>6, FieldsChangeKeeps DEF FormOf
  <1>5. CASE EditBodyText
    <2>1. PICK from \in Typed({}), object \in BOOLEAN : TriggerFieldsChange([form EXCEPT !.text = from, !.object = object])
      BY <1>5 DEF EditBodyText
    <2>2. PICK f : f = [form EXCEPT !.text = from, !.object = object]
      OBVIOUS
    <2>3. {} \in SUBSET {inspected}
      OBVIOUS
    <2>4. from \in SUBSET {inspected} /\ from \in Origins
      BY <1>2, <2>3
    <2>5. f = [tables |-> form.tables, type |-> form.type, text |-> from, object |-> object,
               fields |-> form.fields, parts |-> form.parts]
      BY <1>3, <2>2 DEF Forms
    <2>6. FormOf(f, inspected)
      BY <1>2, <2>4, <2>5 DEF FormOf, Forms
    <2> QED BY <2>1, <2>2, <2>6, FieldsChangeKeeps DEF FormOf
  <1>6. CASE EditBodyFields
    <2>1. PICK from \in Typed(form.fields) : TriggerFieldsChange([form EXCEPT !.fields = from])
      BY <1>6 DEF EditBodyFields
    <2>2. PICK f : f = [form EXCEPT !.fields = from]
      OBVIOUS
    <2>3. from \in SUBSET {inspected} /\ from \in Origins
      BY <1>2, <1>3
    <2>4. FormOf(f, inspected)
      BY <1>2, <2>2, <2>3 DEF FormOf, Forms
    <2> QED BY <2>1, <2>2, <2>4, FieldsChangeKeeps DEF FormOf
  <1>7. CASE EditBodyParts
    <2>1. PICK from \in Typed(form.parts) : TriggerFieldsChange([form EXCEPT !.parts = from])
      BY <1>7 DEF EditBodyParts
    <2>2. PICK f : f = [form EXCEPT !.parts = from]
      OBVIOUS
    <2>3. from \in SUBSET {inspected} /\ from \in Origins
      BY <1>2, <1>3
    <2>4. FormOf(f, inspected)
      BY <1>2, <2>2, <2>3 DEF FormOf, Forms
    <2> QED BY <2>1, <2>2, <2>4, FieldsChangeKeeps DEF FormOf
  <1>8. CASE \E type \in {"json", "key-value", "multipart"} : ChangeBodyType(type)
    <2>1. PICK type \in {"json", "key-value", "multipart"} : TriggerFieldsChange([form EXCEPT !.type = type])
      BY <1>8 DEF ChangeBodyType
    <2>2. PICK f : f = [form EXCEPT !.type = type]
      OBVIOUS
    <2>3. FormOf(f, inspected)
      BY <1>2, <2>2 DEF FormOf, Forms
    <2> QED BY <2>1, <2>2, <2>3, FieldsChangeKeeps DEF FormOf
  <1> QED BY <1>4, <1>5, <1>6, <1>7, <1>8
------------------------------------------------------------------------------
LEMMA ChooseFileKeeps ==
    ASSUME NodesKept, ChooseFile
    PROVE  NodesKept'
  <1>1. PICK read : read = [node |-> inspected, form |-> form, drafted |-> drafted, mounted |-> TRUE]
    OBVIOUS
  <1>2. RequestShown /\ fileRead' = read /\ UNCHANGED <<drafted, inspected, activeTab, form>>
    BY <1>1 DEF ChooseFile, RequestShown
  <1>3. "mounted" \in DOMAIN read
    BY <1>1
  <1>4. RequestShown' <=> RequestShown
    BY <1>2 DEF RequestShown, Shown
  <1>5. RequestShown' => ShowsNode(form, drafted[inspected].template, inspected)'
    BY <1>2 DEF NodesKept, RequestShown, ShowsNode, Populate, Written
  <1>6. NodesFit(drafted)' /\ Shown'
    BY <1>2 DEF NodesKept, RequestShown, Shown
  <1> QED BY <1>2, <1>3, <1>4, <1>5, <1>6 DEF NodesKept

\* A file that is read before anything has changed is read into the node that chose it.
LEMMA FileReadKeeps ==
    ASSUME NodesKept, FileRead, ~lateRead'
    PROVE  NodesKept'
  <1>1. fileRead = [node |-> inspected, form |-> form, drafted |-> drafted, mounted |-> TRUE]
    BY DEF FileRead
  <1>2. fileRead.node = inspected /\ fileRead.form = form /\ fileRead.drafted = drafted /\ fileRead.mounted
    BY <1>1
  <1>3. RequestShown /\ inspected \in DOMAIN drafted /\ inspected \in InspectedIds /\ FormOf(form, inspected)
    BY <1>2 DEF NodesKept, NodesFit, RequestShown, Shown, ShowsNode
  <1>4. PICK read : read = [form EXCEPT !.parts = @ \union {inspected}]
    OBVIOUS
  <1>5. FormOf(read, inspected)
    BY <1>3, <1>4 DEF FormOf, Forms, Origins
  <1>6. drafted' = [drafted EXCEPT ![inspected].template = Written(read)]
        /\ form' = [form EXCEPT !.parts = read.parts] /\ inspected' = inspected
        /\ (inspected \in DOMAIN drafted' => activeTab' = activeTab) /\ fileRead' = NotReading
    BY <1>2, <1>4 DEF FileRead
  <1>7. form' = read
    BY <1>3, <1>4, <1>6 DEF FormOf, Forms
  <1>8. TemplateOf(Written(read), inspected)
    BY <1>5, WrittenFits
  <1>9. NodesFit(drafted') /\ DOMAIN drafted' = DOMAIN drafted /\ drafted'[inspected].template = Written(read)
    <2>1. drafted' = Rewritten(drafted, inspected, Written(read))
      BY <1>6 DEF Rewritten
    <2> QED BY <1>3, <1>8, <2>1, TemplateChanged DEF NodesKept
  <1>10. Shown' /\ "mounted" \in DOMAIN fileRead' /\ ~fileRead'.mounted
    BY <1>3, <1>6, <1>9 DEF Shown, NotReading
  <1>11. ShowsNode(form, drafted[inspected].template, inspected)'
    BY <1>5, <1>6, <1>7, <1>9 DEF ShowsNode
  <1> QED BY <1>5, <1>7, <1>9, <1>10, <1>11 DEF NodesKept, FormOf
LEMMA ListsKeep ==
    ASSUME NodesKept, NEW list, (SetExports(list) /\ list \in ExportLists) \/ SetAssertions(list)
    PROVE  NodesKept'
  <1>1. /\ Shown /\ activeTab # "request" /\ UNCHANGED <<inspected, activeTab, form, fileRead>>
        /\ \/ drafted' = [drafted EXCEPT ![inspected].exports = list] /\ list \in ExportLists
           \/ drafted' = [drafted EXCEPT ![inspected].assertions = list]
    BY DEF SetExports, SetAssertions, EditOf
  <1>2. Relisted(drafted, inspected, list, drafted')
    BY <1>1 DEF Relisted
  <1>3. NodesFit(drafted') /\ DOMAIN drafted' = DOMAIN drafted
    BY <1>1, <1>2, ListChanged DEF NodesKept, Shown
  <1> QED BY <1>1, <1>3 DEF NodesKept, RequestShown, Shown

LEMMA ExportsKeep ==
    ASSUME NodesKept, Shown, AddExport \/ EditExport
    PROVE  NodesKept'
  <1>1. CASE AddExport
    <2>1. PICK e : e = [source |-> "body", path |-> "typed", headerName |-> "missing"] /\ SetExports(<<e>>)
      BY <1>1 DEF AddExport
    <2>2. <<e>> \in ExportLists
      BY <2>1 DEF ExportLists, Export, Extractable, Sources
    <2> QED BY <2>1, <2>2, ListsKeep
  <1>2. CASE EditExport
    <2> DEFINE list == drafted[inspected].exports
    <2>1. list \in ExportLists /\ list # <<>>
      BY <1>2 DEF EditExport, NodesKept, NodesFit, NodeFits, Shown
    <2>2. PICK e : e \in Export /\ Extractable(e) /\ list = <<e>>
      BY <2>1 DEF ExportLists
    <2>3. list[1] = e
      BY <2>2
    <2>4. \/ SetExports(<<>>)
          \/ \E source \in Sources : SetExports(<<ChangeSource(source)>>)
          \/ \E typed \in {"empty", "typed"} : e.source = "body" /\ SetExports(<<[e EXCEPT !.path = typed]>>)
          \/ \E typed \in {"empty", "typed"} : e.source = "header" /\ SetExports(<<[e EXCEPT !.headerName = typed]>>)
      BY <1>2, <2>3 DEF EditExport
    <2>5. CASE SetExports(<<>>)
      BY <2>5, ListsKeep DEF ExportLists
    <2>6. CASE \E source \in Sources : SetExports(<<ChangeSource(source)>>)
      <3>1. PICK source \in Sources : SetExports(<<ChangeSource(source)>>)
        BY <2>6
      <3>2. PICK x : x = ChangeSource(source)
        OBVIOUS
      <3>3. x \in Export /\ Extractable(x)
        BY <3>2 DEF ChangeSource, Export, Extractable, Sources
      <3>4. <<x>> \in ExportLists
        BY <3>3 DEF ExportLists
      <3> QED BY <3>1, <3>2, <3>4, ListsKeep
    <2>7. CASE \E typed \in {"empty", "typed"} : e.source = "body" /\ SetExports(<<[e EXCEPT !.path = typed]>>)
      <3>1. PICK typed \in {"empty", "typed"} : e.source = "body" /\ SetExports(<<[e EXCEPT !.path = typed]>>)
        BY <2>7
      <3>2. PICK x : x = [e EXCEPT !.path = typed]
        OBVIOUS
      <3>3. x \in Export /\ Extractable(x)
        BY <2>2, <3>1, <3>2 DEF Export, Extractable, Sources
      <3>4. <<x>> \in ExportLists
        BY <3>3 DEF ExportLists
      <3> QED BY <3>1, <3>2, <3>4, ListsKeep
    <2>8. CASE \E typed \in {"empty", "typed"} : e.source = "header" /\ SetExports(<<[e EXCEPT !.headerName = typed]>>)
      <3>1. PICK typed \in {"empty", "typed"} : e.source = "header" /\ SetExports(<<[e EXCEPT !.headerName = typed]>>)
        BY <2>8
      <3>2. PICK x : x = [e EXCEPT !.headerName = typed]
        OBVIOUS
      <3>3. x \in Export /\ Extractable(x)
        BY <2>2, <3>1, <3>2 DEF Export, Extractable, Sources
      <3>4. <<x>> \in ExportLists
        BY <3>3 DEF ExportLists
      <3> QED BY <3>1, <3>2, <3>4, ListsKeep
    <2> QED BY <2>4, <2>5, <2>6, <2>7, <2>8
  <1> QED BY <1>1, <1>2

LEMMA AssertionsKeep ==
    ASSUME NodesKept, (\E type \in AssertionTypes : AddAssertion(type)) \/ EditAssertion
    PROVE  NodesKept'
  <1>1. PICK list : SetAssertions(list)
    BY DEF AddAssertion, EditAssertion
  <1> QED BY <1>1, ListsKeep

LEMMA InspectorInitInv == InspectorInit => InspectorInv
  <1> SUFFICES ASSUME InspectorInit PROVE NodesKept
    BY DEF InspectorInv
  <1>1. DOMAIN drafted = {}
    BY DEF InspectorInit
  <1>2. NewForm \in Forms
    BY DEF NewForm, Forms, InspectorTables, Origins
  <1>3. "mounted" \in DOMAIN NotReading /\ ~NotReading.mounted
    BY DEF NotReading
  <1>4. ~RequestShown
    BY <1>1 DEF RequestShown, Shown
  <1> QED BY <1>1, <1>2, <1>3, <1>4 DEF InspectorInit, NodesKept, NodesFit

LEMMA InspectorNextInv == InspectorInv /\ [InspectorNext]_inspectorVars => InspectorInv'
  <1> SUFFICES ASSUME InspectorInv, [InspectorNext]_inspectorVars, ~lateRead' PROVE NodesKept'
    BY DEF InspectorInv
  <1>1. CASE FileRead
    <2>1. ~lateRead
      BY <1>1 DEF FileRead
    <2> QED BY <1>1, <2>1, FileReadKeeps DEF InspectorInv
  <1>2. CASE ~FileRead /\ InspectorNext
    <2>1. lateRead' = lateRead
      BY <1>2 DEF InspectorNext, SelectNode, DropEndpoint, Deselect, RemoveNode, OpenTab, EditTables, EditBodyText,
                  EditBodyFields, EditBodyParts, ChangeBodyType, TriggerFieldsChange, ChooseFile, AddExport, EditExport,
                  SetExports, EditOf, AddAssertion, EditAssertion, SetAssertions
    <2>2. NodesKept
      BY <2>1 DEF InspectorInv
    <2>3. ASSUME NEW n \in InspectedIds, SelectNode(n) \/ DropEndpoint(n) PROVE NodesKept'
      BY <2>2, <2>3, SelectNodeKeeps, DropEndpointKeeps
    <2>4. CASE Deselect \/ RemoveNode
      BY <2>2, <2>4, DeselectKeeps, RemoveNodeKeeps
    <2>5. ASSUME NEW tab, OpenTab(tab) PROVE NodesKept'
      BY <2>2, <2>5, OpenTabKeeps
    <2>6. CASE EditTables \/ EditBodyText \/ EditBodyFields \/ EditBodyParts
               \/ \E type \in {"json", "key-value", "multipart"} : ChangeBodyType(type)
      BY <2>2, <2>6, RequestEditsKeep
    <2>7. CASE ChooseFile
      BY <2>2, <2>7, ChooseFileKeeps
    <2>8. CASE (Shown /\ AddExport) \/ EditExport
      <3>1. Shown
        BY <2>8 DEF EditExport
      <3> QED BY <2>2, <2>8, <3>1, ExportsKeep
    <2>9. CASE (\E type \in AssertionTypes : AddAssertion(type)) \/ EditAssertion
      BY <2>2, <2>9, AssertionsKeep
    <2>10. \/ \E n \in InspectedIds : SelectNode(n) \/ DropEndpoint(n)
           \/ Deselect \/ RemoveNode
           \/ \E tab \in {"general", "request", "exports", "assertions"} : OpenTab(tab)
           \/ EditTables \/ EditBodyText \/ EditBodyFields \/ EditBodyParts
           \/ \E type \in {"json", "key-value", "multipart"} : ChangeBodyType(type)
           \/ ChooseFile
           \/ (Shown /\ AddExport) \/ EditExport
           \/ (\E type \in AssertionTypes : AddAssertion(type)) \/ EditAssertion
      BY <1>2 DEF InspectorNext
    <2> QED BY <2>3, <2>4, <2>5, <2>6, <2>7, <2>8, <2>9, <2>10
  <1>3. CASE UNCHANGED inspectorVars
    BY <1>3 DEF inspectorVars, InspectorInv, NodesKept, NodesFit, NodeFits, TemplateOf, ExportLists, RequestShown, Shown,
                ShowsNode, FormOf, Populate, Written
  <1> QED BY <1>1, <1>2, <1>3

(* Unless a file was read late, a node's template holds what was typed for that node alone, the
   request tab shows what is stored, and exports have the field their source needs
   (TemplatesStayWithTheirNode, request-mapping tab and use-test-workflow-editor). *)
THEOREM TemplatesStayWithTheirNodeHolds == InspectorSpec => []TemplatesStayWithTheirNode
  <1>1. InspectorInv => TemplatesStayWithTheirNode
    <2> SUFFICES ASSUME NodesKept
                 PROVE  /\ inspected # NoNode => Shown
                        /\ \A n \in DOMAIN drafted :
                               /\ drafted[n].template.tables.from \union drafted[n].template.body \subseteq {n}
                               /\ \A i \in DOMAIN drafted[n].exports : Extractable(drafted[n].exports[i])
                        /\ Shown /\ activeTab = "request" =>
                               \/ form = Populate(drafted[inspected].template)
                               \/ Written(form) = drafted[inspected].template
      BY DEF InspectorInv, TemplatesStayWithTheirNode
    <2>1. ASSUME NEW n \in DOMAIN drafted
          PROVE  /\ drafted[n].template.tables.from \union drafted[n].template.body \subseteq {n}
                 /\ \A i \in DOMAIN drafted[n].exports : Extractable(drafted[n].exports[i])
      <3>1. TemplateOf(drafted[n].template, n) /\ drafted[n].exports \in ExportLists
        BY DEF NodesKept, NodesFit, NodeFits
      <3>2. ASSUME NEW list \in ExportLists, NEW i \in DOMAIN list PROVE Extractable(list[i])
        BY <3>2 DEF ExportLists
      <3> QED BY <3>1, <3>2 DEF TemplateOf
    <2> QED BY <2>1 DEF NodesKept, RequestShown, ShowsNode
  <1> QED BY <1>1, InspectorInitInv, InspectorNextInv, PTL DEF InspectorSpec
------------------------------------------------------------------------------
\* The variables of the inspector in their ranges, whatever was read late.
NodesTyped(d) ==
    /\ DOMAIN d \subseteq InspectedIds
    /\ \A n \in DOMAIN d : DOMAIN d[n] = {"template", "exports", "assertions"} /\ d[n].template \in Template
ReadTyped(read) ==
    /\ DOMAIN read = {"node", "form", "drafted", "mounted"}
    /\ read.form \in Forms /\ NodesTyped(read.drafted) /\ read.node \in DOMAIN read.drafted
InspectorTabs == {"general", "request", "exports", "assertions"}
InspectorTyped ==
    /\ NodesTyped(drafted) /\ inspected \in InspectedIds \union {NoNode} /\ activeTab \in InspectorTabs /\ form \in Forms
    /\ fileRead = NotReading \/ ReadTyped(fileRead)
    /\ lateRead \in BOOLEAN /\ inspectorEdits \in 0..MaxInspected

LEMMA PopulateTyped ==
    ASSUME NEW t \in Template
    PROVE  Populate(t) \in Forms
  <1>1. ShownType(t) \in {"json", "key-value", "multipart"}
    BY DEF ShownType
  <1>2. t.tables \in InspectorTables /\ t.body \in Origins /\ {} \in Origins
    BY DEF Template, Origins
  <1> QED BY <1>1, <1>2 DEF Populate, Forms

LEMMA WrittenTyped ==
    ASSUME NEW f \in Forms
    PROVE  Written(f) \in Template
  <1>1. /\ f.tables \in InspectorTables /\ f.type \in {"json", "key-value", "multipart"}
        /\ f.text \in Origins /\ f.fields \in Origins /\ f.parts \in Origins
    BY DEF Forms
  <1> QED BY <1>1 DEF Written, Template

\* A node gets a template, or other lists.
LEMMA NodeChanged ==
    ASSUME NEW d, NodesTyped(d), NEW n \in DOMAIN d, NEW e,
           \/ \E t \in Template : e = [d EXCEPT ![n].template = t]
           \/ \E list : e = [d EXCEPT ![n].exports = list] \/ e = [d EXCEPT ![n].assertions = list]
    PROVE  NodesTyped(e) /\ DOMAIN e = DOMAIN d
  <1>1. DOMAIN d[n] = {"template", "exports", "assertions"} /\ d[n].template \in Template
    BY DEF NodesTyped
  <1>2. DOMAIN e = DOMAIN d /\ \A m \in DOMAIN d \ {n} : e[m] = d[m]
    OBVIOUS
  <1>3. DOMAIN e[n] = {"template", "exports", "assertions"} /\ e[n].template \in Template
    BY <1>1
  <1> QED BY <1>2, <1>3 DEF NodesTyped

LEMMA SelectingTyped ==
    ASSUME InspectorTyped, NEW n \in InspectedIds, SelectNode(n) \/ DropEndpoint(n)
    PROVE  InspectorTyped'
  <1>1. CASE SelectNode(n)
    <2>1. Populate(drafted[n].template) \in Forms
      BY <1>1, PopulateTyped DEF InspectorTyped, NodesTyped, SelectNode
    <2>2. form' \in Forms /\ activeTab' \in InspectorTabs /\ inspected' = n
      BY <1>1, <2>1 DEF SelectNode, InspectorTyped, InspectorTabs
    <2> QED BY <1>1, <2>2 DEF SelectNode, InspectorTyped, NodesTyped, ReadTyped
  <1>2. CASE DropEndpoint(n)
    <2>1. PICK new : new = [template |-> EmptyTemplate, exports |-> <<>>, assertions |-> <<>>]
      OBVIOUS
    <2>2. drafted' = [m \in DOMAIN drafted \union {n} |-> IF m = n THEN new ELSE drafted[m]]
      BY <1>2, <2>1 DEF DropEndpoint
    <2>3. DOMAIN new = {"template", "exports", "assertions"} /\ new.template \in Template
      BY <2>1 DEF EmptyTemplate, Template, InspectorTables, Origins
    <2>4. NodesTyped(drafted')
      BY <2>2, <2>3 DEF InspectorTyped, NodesTyped
    <2>5. inspectorEdits' \in 0..MaxInspected
      BY <1>2, InspectorAssumption DEF DropEndpoint, InspectorEdit, InspectorTyped
    <2> QED BY <1>2, <2>4, <2>5 DEF DropEndpoint, InspectorTyped
  <1> QED BY <1>1, <1>2

LEMMA LeavingTyped ==
    ASSUME InspectorTyped, LeaveTab
    PROVE  fileRead' = NotReading \/ ReadTyped(fileRead')
  <1>1. CASE fileRead = NotReading
    BY <1>1 DEF LeaveTab, NotReading
  <1>2. CASE ReadTyped(fileRead)
    <2>1. /\ DOMAIN fileRead' = DOMAIN fileRead /\ fileRead'.node = fileRead.node /\ fileRead'.form = fileRead.form
          /\ fileRead'.drafted = fileRead.drafted
      BY <1>2 DEF LeaveTab, ReadTyped
    <2> QED BY <1>2, <2>1 DEF ReadTyped
  <1> QED BY <1>1, <1>2 DEF InspectorTyped

LEMMA TabsTyped ==
    ASSUME InspectorTyped, Deselect \/ RemoveNode \/ \E tab \in InspectorTabs : OpenTab(tab)
    PROVE  InspectorTyped'
  <1>1. fileRead' = NotReading \/ ReadTyped(fileRead')
    BY LeavingTyped DEF Deselect, RemoveNode, OpenTab
  <1>2. CASE Deselect
    BY <1>1, <1>2 DEF Deselect, InspectorTyped, InspectorTabs
  <1>3. CASE RemoveNode
    <2>1. drafted' = [m \in DOMAIN drafted \ {inspected} |-> drafted[m]]
      BY <1>3 DEF RemoveNode
    <2>2. NodesTyped(drafted')
      BY <2>1 DEF InspectorTyped, NodesTyped
    <2>3. inspectorEdits' \in 0..MaxInspected
      BY <1>3, InspectorAssumption DEF RemoveNode, InspectorEdit, InspectorTyped
    <2> QED BY <1>1, <1>3, <2>2, <2>3 DEF RemoveNode, InspectorTyped, InspectorTabs
  <1>4. CASE \E tab \in InspectorTabs : OpenTab(tab)
    <2>1. PICK tab \in InspectorTabs : OpenTab(tab)
      BY <1>4
    <2>2. Populate(drafted[inspected].template) \in Forms
      BY <2>1, PopulateTyped DEF InspectorTyped, NodesTyped, OpenTab, Shown
    <2>3. form' \in Forms
      BY <2>1, <2>2 DEF OpenTab, InspectorTyped
    <2> QED BY <1>1, <2>1, <2>3 DEF OpenTab, InspectorTyped
  <1> QED BY <1>2, <1>3, <1>4

LEMMA FieldsTyped ==
    ASSUME InspectorTyped, NEW f \in Forms, TriggerFieldsChange(f)
    PROVE  InspectorTyped'
  <1>1. NodesTyped(drafted')
    BY NodeChanged, WrittenTyped DEF TriggerFieldsChange, Shown, InspectorTyped
  <1>2. inspectorEdits' \in 0..MaxInspected
    BY InspectorAssumption DEF TriggerFieldsChange, InspectorEdit, InspectorTyped
  <1> QED BY <1>1, <1>2 DEF TriggerFieldsChange, InspectorTyped

LEMMA RequestEditsTyped ==
    ASSUME InspectorTyped, EditTables \/ EditBodyText \/ EditBodyFields \/ EditBodyParts
           \/ \E type \in {"json", "key-value", "multipart"} : ChangeBodyType(type)
    PROVE  InspectorTyped'
  <1>1. inspected \in InspectedIds
    <2>1. Shown
      BY EditsShown DEF RequestShown
    <2> QED BY <2>1 DEF InspectorTyped, NodesTyped, Shown
  <1>2. \A s \in Origins : Typed(s) \subseteq Origins
    BY <1>1 DEF Typed, Origins
  <1>3. /\ form \in Forms /\ form.tables \in InspectorTables /\ form.tables.from \in Origins
        /\ form.fields \in Origins /\ form.parts \in Origins /\ {} \in Origins
    BY DEF InspectorTyped, Forms, InspectorTables, Origins
  <1>4. CASE EditTables
    <2>1. PICK from \in Typed(form.tables.from), other \in BOOLEAN :
              TriggerFieldsChange([form EXCEPT !.tables = [from |-> from, other |-> other]])
      BY <1>4 DEF EditTables
    <2>2. PICK t, f : t = [from |-> from, other |-> other] /\ f = [form EXCEPT !.tables = t]
      OBVIOUS
    <2>3. t \in InspectorTables
      BY <1>2, <1>3, <2>2 DEF InspectorTables
    <2>4. f \in Forms
      BY <1>3, <2>2, <2>3 DEF Forms
    <2> QED BY <2>1, <2>2, <2>4, FieldsTyped
  <1>5. CASE EditBodyText
    <2>1. PICK from \in Typed({}), object \in BOOLEAN : TriggerFieldsChange([form EXCEPT !.text = from, !.object = object])
      BY <1>5 DEF EditBodyText
    <2>2. PICK f : f = [form EXCEPT !.text = from, !.object = object]
      OBVIOUS
    <2>3. f \in Forms
      BY <1>2, <1>3, <2>2 DEF Forms
    <2> QED BY <2>1, <2>2, <2>3, FieldsTyped
  <1>6. CASE EditBodyFields
    <2>1. PICK from \in Typed(form.fields) : TriggerFieldsChange([form EXCEPT !.fields = from])
      BY <1>6 DEF EditBodyFields
    <2>2. PICK f : f = [form EXCEPT !.fields = from]
      OBVIOUS
    <2>3. f \in Forms
      BY <1>2, <1>3, <2>2 DEF Forms
    <2> QED BY <2>1, <2>2, <2>3, FieldsTyped
  <1>7. CASE EditBodyParts
    <2>1. PICK from \in Typed(form.parts) : TriggerFieldsChange([form EXCEPT !.parts = from])
      BY <1>7 DEF EditBodyParts
    <2>2. PICK f : f = [form EXCEPT !.parts = from]
      OBVIOUS
    <2>3. f \in Forms
      BY <1>2, <1>3, <2>2 DEF Forms
    <2> QED BY <2>1, <2>2, <2>3, FieldsTyped
  <1>8. CASE \E type \in {"json", "key-value", "multipart"} : ChangeBodyType(type)
    <2>1. PICK type \in {"json", "key-value", "multipart"} : TriggerFieldsChange([form EXCEPT !.type = type])
      BY <1>8 DEF ChangeBodyType
    <2>2. PICK f : f = [form EXCEPT !.type = type]
      OBVIOUS
    <2>3. f \in Forms
      BY <1>3, <2>2 DEF Forms
    <2> QED BY <2>1, <2>2, <2>3, FieldsTyped
  <1> QED BY <1>4, <1>5, <1>6, <1>7, <1>8

LEMMA FilesTyped ==
    ASSUME InspectorTyped, ChooseFile \/ FileRead
    PROVE  InspectorTyped'
  <1>1. CASE ChooseFile
    <2>1. fileRead' = [node |-> inspected, form |-> form, drafted |-> drafted, mounted |-> TRUE] /\ inspected \in DOMAIN drafted
          /\ UNCHANGED <<drafted, inspected, activeTab, form, lateRead, inspectorEdits>>
      BY <1>1 DEF ChooseFile, Shown
    <2>2. ReadTyped(fileRead')
      BY <2>1 DEF InspectorTyped, ReadTyped
    <2> QED BY <2>1, <2>2 DEF InspectorTyped
  <1>2. CASE FileRead
    <2>1. ReadTyped(fileRead)
      BY <1>2 DEF InspectorTyped, FileRead
    <2>2. PICK read : read = [fileRead.form EXCEPT !.parts = @ \union {fileRead.node}]
      OBVIOUS
    <2>3. read \in Forms /\ read.parts \in Origins
      BY <2>1, <2>2 DEF ReadTyped, NodesTyped, Forms, Origins
    <2>4. /\ drafted' = [fileRead.drafted EXCEPT ![fileRead.node].template = Written(read)]
          /\ form' = (IF fileRead.mounted THEN [form EXCEPT !.parts = read.parts] ELSE form)
          /\ activeTab' = (IF inspected \in DOMAIN drafted' THEN activeTab ELSE "general")
          /\ fileRead' = NotReading /\ UNCHANGED <<inspected, inspectorEdits>> /\ lateRead' \in BOOLEAN
      BY <1>2, <2>2 DEF FileRead, InspectorTyped
    <2>5. NodesTyped(drafted')
      BY <2>1, <2>3, <2>4, NodeChanged, WrittenTyped DEF ReadTyped
    <2>6. form' \in Forms
      BY <2>3, <2>4 DEF InspectorTyped, Forms
    <2> QED BY <2>4, <2>5, <2>6 DEF InspectorTyped, InspectorTabs
  <1> QED BY <1>1, <1>2

LEMMA ListsTyped ==
    ASSUME InspectorTyped, NEW list, SetExports(list) \/ SetAssertions(list)
    PROVE  InspectorTyped'
  <1>1. /\ inspected \in DOMAIN drafted /\ UNCHANGED <<inspected, activeTab, form, fileRead, lateRead>> /\ InspectorEdit
        /\ drafted' = [drafted EXCEPT ![inspected].exports = list] \/ drafted' = [drafted EXCEPT ![inspected].assertions = list]
    BY DEF SetExports, SetAssertions, EditOf, Shown
  <1>2. NodesTyped(drafted')
    BY <1>1, NodeChanged DEF InspectorTyped
  <1>3. inspectorEdits' \in 0..MaxInspected
    BY <1>1, InspectorAssumption DEF InspectorEdit, InspectorTyped
  <1> QED BY <1>1, <1>2, <1>3 DEF InspectorTyped

LEMMA InspectorStaysTyped ==
    ASSUME InspectorTyped, [InspectorNext]_inspectorVars
    PROVE  InspectorTyped'
  <1>1. ASSUME NEW n \in InspectedIds, SelectNode(n) \/ DropEndpoint(n) PROVE InspectorTyped'
    BY <1>1, SelectingTyped
  <1>2. CASE Deselect \/ RemoveNode \/ \E tab \in InspectorTabs : OpenTab(tab)
    BY <1>2, TabsTyped
  <1>3. CASE EditTables \/ EditBodyText \/ EditBodyFields \/ EditBodyParts
             \/ \E type \in {"json", "key-value", "multipart"} : ChangeBodyType(type)
    BY <1>3, RequestEditsTyped
  <1>4. CASE ChooseFile \/ FileRead
    BY <1>4, FilesTyped
  <1>5. CASE AddExport \/ (\E type \in AssertionTypes : AddAssertion(type)) \/ EditExport \/ EditAssertion
    <2>1. \E list : SetExports(list) \/ SetAssertions(list)
      BY <1>5 DEF AddExport, AddAssertion, EditExport, EditAssertion
    <2> QED BY <2>1, ListsTyped
  <1>6. CASE UNCHANGED inspectorVars
    BY <1>6 DEF inspectorVars, InspectorTyped, NodesTyped, ReadTyped
  <1> QED BY <1>1, <1>2, <1>3, <1>4, <1>5, <1>6 DEF InspectorNext, InspectorTabs

LEMMA InspectorStartsTyped == InspectorInit => InspectorTyped
  <1> SUFFICES ASSUME InspectorInit PROVE InspectorTyped
    OBVIOUS
  <1>1. DOMAIN drafted = {}
    BY DEF InspectorInit
  <1>2. NewForm \in Forms
    BY DEF NewForm, Forms, InspectorTables, Origins
  <1>3. 0 \in 0..MaxInspected
    BY InspectorAssumption
  <1>4. NodesTyped(drafted)
    BY <1>1 DEF NodesTyped
  <1> QED BY <1>2, <1>3, <1>4 DEF InspectorInit, InspectorTyped, InspectorTabs

LEMMA InspectorInRange == InspectorTyped => InspectorTypeOK
  BY DEF InspectorTyped, InspectorTypeOK, NodesTyped, InspectorTabs, Forms, InspectorTables

(* The inspector's variables stay in their ranges, also after a file was read late. *)
THEOREM InspectorTypes == InspectorSpec => []InspectorTypeOK
  <1>1. InspectorTyped /\ [InspectorNext]_inspectorVars => InspectorTyped'
    BY InspectorStaysTyped
  <1> QED BY <1>1, InspectorInRange, InspectorStartsTyped, PTL DEF InspectorSpec
------------------------------------------------------------------------------
(***************************************************************************)
(* What the steps of a run send.  Steps begin in order, so what a step     *)
(* reads was produced by steps that are over; a value in memory is what    *)
(* the last step of that name to succeed has produced, and in the first    *)
(* delivery a name without a value has no such step.                       *)
(***************************************************************************)
StepStatuses == {"queued", "running", "succeeded", "failed", "skipped"}
Held == Value \union {NoValue}
Done(status) == status \in {"succeeded", "failed", "skipped"}

\* Step m, before n, has succeeded and exports what n reads.
Offers(p, st, n, m) == p[m].export.name = p[n].template.name /\ st[m] = "succeeded"

\* Step m is the last one to offer what n reads.
LastOffer(p, st, n, m) ==
    m \in 1..(n - 1) /\ Offers(p, st, n, m) /\ \A k \in 1..(n - 1) : Offers(p, st, n, k) => k <= m

InOrder(st) == \A n \in StepIds : st[n] # "queued" => \A m \in 1..(n - 1) : Done(st[m])
SkippedWithCause(st) == \A n \in StepIds : st[n] = "skipped" => \E m \in 1..(n - 1) : st[m] = "failed"

\* What a step that succeeded has produced comes from it, and is not redacted.
OwnValue(v, n) == v \in Value /\ v.from = n /\ ~v.redacted
ValuesGiven(st, pr) == \A n \in StepIds : st[n] = "succeeded" => OwnValue(pr[n], n)

\* Step m exports x and has succeeded, and none after it has.
LastOf(p, st, x, m) ==
    /\ p[m].export.name = x /\ st[m] = "succeeded"
    /\ \A k \in StepIds : p[k].export.name = x /\ st[k] = "succeeded" => k <= m

VarFits(p, st, pr, d, x, v) ==
    /\ v # NoValue => \E m \in StepIds : LastOf(p, st, x, m) /\ v = pr[m]
    /\ d = 1 /\ v = NoValue => \A m \in StepIds : ~(p[m].export.name = x /\ st[m] = "succeeded")

SentFits(p, st, pr, n, v) ==
    v # NoValue =>
        /\ st[n] # "queued"
        /\ p[n].template.ns = "vars" => \E m \in 1..(n - 1) :
               /\ LastOffer(p, st, n, m) /\ ~v.redacted /\ v.from = m
               /\ IF p[n].template.form = "pure" /\ p[n].template.place = "body" THEN v = pr[m] ELSE v.kind = "text"

CodeFits(p, st, pr, d, n, why) ==
    why = "VAR_REF_INVALID" =>
        /\ st[n] = "failed"
        /\ p[n].template.ns = "vars" /\ d = 1 =>
               p[n].template.form = "embedded" /\ \E m \in 1..(n - 1) : LastOffer(p, st, n, m) /\ pr[m].kind = "object"

StepsTyped ==
    /\ plan \in [StepIds -> Plans] /\ stepStatus \in [StepIds -> StepStatuses]
    /\ DOMAIN code = StepIds /\ delivery \in Nat \ {0} /\ at \in 0..Steps
    /\ produced \in [StepIds -> Held] /\ sent \in [StepIds -> Held] /\ vars \in [Names -> Held]
    /\ \A n \in StepIds : ValidPlan(n)

StepInv ==
    /\ StepsTyped /\ InOrder(stepStatus) /\ SkippedWithCause(stepStatus) /\ ValuesGiven(stepStatus, produced)
    /\ at # 0 => stepStatus[at] = "running"
    /\ \A x \in Names : VarFits(plan, stepStatus, produced, delivery, x, vars[x])
    /\ \A n \in StepIds : SentFits(plan, stepStatus, produced, n, sent[n])
    /\ \A n \in StepIds : CodeFits(plan, stepStatus, produced, delivery, n, code[n])

\* The step the worker is at, or comes to.
AtHand(n) == n \in StepIds /\ ~Done(stepStatus[n]) /\ \A m \in 1..(n - 1) : Done(stepStatus[m])

\* The step at hand gets a status, and nothing but its own product changes.
Moves(n, status, pr, next) ==
    /\ n \in StepIds /\ AtHand(n) /\ status \in StepStatuses \ {"queued"}
    /\ status = "skipped" => \E m \in 1..(n - 1) : stepStatus[m] = "failed"
    /\ \A m \in StepIds \ {n} : pr[m] = produced[m]
    /\ status = "succeeded" => OwnValue(pr[n], n)
    /\ next = [stepStatus EXCEPT ![n] = status]

\* What holds then of the statuses, and of the other steps.
Moved(n, status, pr, next) ==
    /\ next \in [StepIds -> StepStatuses] /\ next[n] = status
    /\ \A m \in StepIds \ {n} : next[m] = stepStatus[m]
    /\ \A m \in 1..(n - 1) : next[m] = stepStatus[m] /\ pr[m] = produced[m] /\ m \in StepIds
    /\ InOrder(next) /\ SkippedWithCause(next) /\ ValuesGiven(next, pr)
    /\ \A m \in StepIds \ {n} : SentFits(plan, next, pr, m, sent[m])
    /\ \A m \in StepIds \ {n} : CodeFits(plan, next, pr, delivery, m, code[m])
------------------------------------------------------------------------------
LEMMA StepsBefore ==
    ASSUME NEW n \in StepIds
    PROVE  n \in Nat /\ n >= 1 /\ n <= Steps /\ \A m \in 1..(n - 1) : m \in StepIds /\ m # n /\ m < n
  BY StepsAssumption DEF StepIds

LEMMA StepAtHand ==
    ASSUME StepInv, NEW n, (IsNext(n) /\ n \in StepIds) \/ (at # 0 /\ n = at)
    PROVE  AtHand(n)
  <1>1. CASE IsNext(n) /\ n \in StepIds
    BY <1>1 DEF AtHand, IsNext, Terminal, Done
  <1>2. CASE at # 0 /\ n = at
    <2>1. n \in StepIds /\ stepStatus[n] = "running"
      BY <1>2, StepsAssumption DEF StepInv, StepsTyped, StepIds
    <2> QED BY <2>1 DEF AtHand, StepInv, InOrder, Done
  <1> QED BY <1>1, <1>2

\* Steps behind the one at hand have not begun.
LEMMA StepsBehind ==
    ASSUME StepInv, NEW n \in StepIds, AtHand(n), NEW m \in StepIds, m # n
    PROVE  \/ m < n /\ Done(stepStatus[m])
           \/ n < m /\ stepStatus[m] = "queued" /\ sent[m] = NoValue /\ code[m] # "VAR_REF_INVALID"
  <1>0. m \in Nat /\ n \in Nat /\ m >= 1 /\ n >= 1
    BY StepsBefore
  <1>1. CASE m < n
    <2>1. m \in 1..(n - 1)
      BY <1>0, <1>1
    <2> QED BY <1>1, <2>1 DEF AtHand
  <1>2. CASE n < m
    <2>1. n \in 1..(m - 1)
      BY <1>0, <1>2
    <2>2. stepStatus[m] = "queued"
      BY <2>1 DEF StepInv, InOrder, AtHand
    <2> QED BY <1>2, <2>2 DEF StepInv, SentFits, CodeFits
  <1> QED BY <1>0, <1>1, <1>2

\* The offers before step n are the same when statuses and values before it are.
LEMMA SameOffers ==
    ASSUME NEW p, NEW st, NEW next, NEW n, \A m \in 1..(n - 1) : next[m] = st[m]
    PROVE  \A m : LastOffer(p, next, n, m) <=> LastOffer(p, st, n, m)
  BY DEF LastOffer, Offers

\* The step at hand gets a status: what holds of the others goes on to hold.
LEMMA StatusKeeps ==
    ASSUME StepInv, NEW n, NEW status, NEW pr, NEW next, Moves(n, status, pr, next)
    PROVE  Moved(n, status, pr, next)
  <1> USE DEF Moves
  <1>1. next \in [StepIds -> StepStatuses] /\ next[n] = status /\ \A m \in StepIds \ {n} : next[m] = stepStatus[m]
    BY DEF StepInv, StepsTyped
  <1>2. \A m \in 1..(n - 1) : next[m] = stepStatus[m] /\ pr[m] = produced[m] /\ m \in StepIds
    BY <1>1, StepsBefore
  <1>3. InOrder(next)
    <2> SUFFICES ASSUME NEW m \in StepIds, next[m] # "queued", NEW k \in 1..(m - 1) PROVE Done(next[k])
      BY DEF InOrder
    <2>1. k \in StepIds /\ k < m /\ m \in Nat /\ k \in Nat
      BY StepsBefore
    <2>2. CASE m = n
      BY <1>2, <2>2 DEF AtHand
    <2>3. CASE m # n
      <3>1. m < n
        BY <1>1, <2>3, StepsBehind
      <3>2. k \in 1..(n - 1)
        BY <2>1, <3>1, StepsBefore
      <3> QED BY <1>2, <3>2 DEF AtHand
    <2> QED BY <2>2, <2>3
  <1>4. SkippedWithCause(next)
    <2> SUFFICES ASSUME NEW m \in StepIds, next[m] = "skipped" PROVE \E k \in 1..(m - 1) : next[k] = "failed"
      BY DEF SkippedWithCause
    <2>1. CASE m = n
      BY <1>1, <1>2, <2>1
    <2>2. CASE m # n
      <3>1. m < n /\ stepStatus[m] = "skipped"
        BY <1>1, <2>2, StepsBehind
      <3>2. PICK k \in 1..(m - 1) : stepStatus[k] = "failed"
        BY <3>1 DEF StepInv, SkippedWithCause
      <3>3. k \in 1..(n - 1)
        BY <3>1, StepsBefore
      <3> QED BY <1>2, <3>2, <3>3
    <2> QED BY <2>1, <2>2
  <1>5. ValuesGiven(next, pr)
    BY <1>1 DEF ValuesGiven, StepInv
  <1>6. ASSUME NEW m \in StepIds \ {n}
        PROVE  SentFits(plan, next, pr, m, sent[m]) /\ CodeFits(plan, next, pr, delivery, m, code[m])
    <2>1. CASE n < m /\ sent[m] = NoValue /\ code[m] # "VAR_REF_INVALID"
      BY <2>1 DEF SentFits, CodeFits
    <2>2. CASE m < n
      <3>1. \A k \in 1..(m - 1) : next[k] = stepStatus[k] /\ pr[k] = produced[k]
        <4> SUFFICES ASSUME NEW k \in 1..(m - 1) PROVE k \in 1..(n - 1)
          BY <1>2
        <4> QED BY <2>2, StepsBefore
      <3>2. \A k : LastOffer(plan, next, m, k) <=> LastOffer(plan, stepStatus, m, k)
        BY <3>1, SameOffers
      <3>3. SentFits(plan, stepStatus, produced, m, sent[m]) /\ CodeFits(plan, stepStatus, produced, delivery, m, code[m])
        BY DEF StepInv
      <3>4. SentFits(plan, next, pr, m, sent[m])
        BY <1>1, <3>1, <3>2, <3>3 DEF SentFits
      <3>5. CodeFits(plan, next, pr, delivery, m, code[m])
        BY <1>1, <3>1, <3>2, <3>3 DEF CodeFits
      <3> QED BY <3>4, <3>5
    <2> QED BY <2>1, <2>2, StepsBehind
  <1> QED BY <1>1, <1>2, <1>3, <1>4, <1>5, <1>6 DEF Moved

\* Values in memory stay what they are when no step succeeds.
LEMMA VarsStay ==
    ASSUME StepInv, NEW n, NEW status, NEW pr, NEW next, Moves(n, status, pr, next), status # "succeeded"
    PROVE  \A x \in Names : VarFits(plan, next, pr, delivery, x, vars[x])
  <1>1. stepStatus[n] # "succeeded" /\ next[n] # "succeeded" /\ \A m \in StepIds \ {n} : next[m] = stepStatus[m]
    BY DEF Moves, AtHand, Done, StepInv, StepsTyped
  <1>2. \A m \in StepIds : next[m] = "succeeded" <=> stepStatus[m] = "succeeded"
    BY <1>1
  <1> SUFFICES ASSUME NEW x \in Names PROVE VarFits(plan, next, pr, delivery, x, vars[x])
    OBVIOUS
  <1>3. VarFits(plan, stepStatus, produced, delivery, x, vars[x])
    BY DEF StepInv
  <1>4. \A m \in StepIds : LastOf(plan, stepStatus, x, m) => LastOf(plan, next, x, m) /\ pr[m] = produced[m]
    BY <1>1, <1>2 DEF LastOf, Moves
  <1> QED BY <1>2, <1>3, <1>4 DEF VarFits

\* A value turned into text is from the same step.
LEMMA StringifiedValue ==
    ASSUME NEW v \in Value
    PROVE  LET s == Stringified(v) IN s \in Value /\ s.kind = "text" /\ s.from = v.from /\ s.redacted = v.redacted
  <1>1. PICK s : s = [v EXCEPT !.kind = "text", !.secret = @ /\ v.kind # "object"]
    OBVIOUS
  <1>2. s = [kind |-> "text", from |-> v.from, secret |-> (v.secret /\ v.kind # "object"), redacted |-> v.redacted]
    BY <1>1 DEF Value
  <1>3. Stringified(v) = s
    BY <1>1 DEF Stringified
  <1> QED BY <1>2, <1>3 DEF Value

\* What an export gives comes from the step.
LEMMA ExtractedValue ==
    ASSUME NEW n \in StepIds, NEW e \in Exports, NEW r \in Responses, ExtractExport(n, e, r) # NoValue
    PROVE  OwnValue(ExtractExport(n, e, r), n)
  <1>1. n \in 0..Steps
    BY StepsAssumption DEF StepIds
  <1>2. e.source \in {"status", "header", "body"}
    BY DEF Exports
  <1>3. r.header \in {"missing", "text"} /\ r.field \in {"missing", "text", "number", "object", "null"} /\ r.secret \in BOOLEAN
    BY DEF Responses
  <1>4. CASE e.source = "status"
    BY <1>1, <1>4 DEF ExtractExport, OwnValue, Value, Plain
  <1>5. CASE e.source = "header"
    <2>1. r.header = "text"
      BY <1>3, <1>5 DEF ExtractExport
    <2> QED BY <1>1, <1>3, <1>5, <2>1 DEF ExtractExport, OwnValue, Value
  <1>6. CASE e.source = "body"
    <2>1. r.field # "missing"
      BY <1>6 DEF ExtractExport
    <2> QED BY <1>1, <1>3, <1>6, <2>1 DEF ExtractExport, OwnValue, Value
  <1> QED BY <1>2, <1>4, <1>5, <1>6

\* An assertion passes or fails.
LEMMA CodeFound ==
    ASSUME NEW a \in Assertions, NEW r \in Responses, NEW passed \in EvaluateAssertion(a, r)
    PROVE  passed \in BOOLEAN
  <1>1. r.fast \in BOOLEAN
    BY DEF Responses
  <1>2. a.type \in {"none", "responseTime", "status", "jsonPath", "header"}
    BY DEF Assertions
  <1>3. CASE a.type = "status"
    <2>1. a.operator \in {"equals", "notEquals", "in"}
      BY <1>3 DEF Assertions
    <2> QED BY <1>3, <2>1 DEF EvaluateAssertion, EvaluateStatus
  <1>4. CASE a.type = "jsonPath"
    BY <1>4 DEF EvaluateAssertion, EvaluateJsonPath
  <1>5. CASE a.type = "header"
    BY <1>5 DEF EvaluateAssertion, EvaluateHeader
  <1>6. CASE a.type \in {"none", "responseTime"}
    BY <1>1, <1>6 DEF EvaluateAssertion
  <1> QED BY <1>2, <1>3, <1>4, <1>5, <1>6

\* What a step reads is what the last step to offer it has produced.
LEMMA ReadsTheLast ==
    ASSUME StepInv, NEW n \in StepIds, AtHand(n), plan[n].template.ns = "vars",
           plan[n].template.name \in Names, vars[plan[n].template.name] # NoValue
    PROVE  \E m \in 1..(n - 1) :
               LastOffer(plan, stepStatus, n, m) /\ vars[plan[n].template.name] = produced[m] /\ OwnValue(produced[m], m)
  <1> DEFINE x == plan[n].template.name
  <1>1. VarFits(plan, stepStatus, produced, delivery, x, vars[x])
    BY DEF StepInv
  <1>2. PICK m \in StepIds : LastOf(plan, stepStatus, x, m) /\ vars[x] = produced[m]
    BY <1>1 DEF VarFits
  <1>3. stepStatus[m] = "succeeded" /\ m # n
    BY <1>2 DEF LastOf, AtHand, Done
  <1>4. m < n
    BY <1>3, StepsBehind
  <1>5. m \in 1..(n - 1)
    BY <1>4, StepsBefore
  <1>6. LastOffer(plan, stepStatus, n, m)
    BY <1>2, <1>5, StepsBefore DEF LastOf, LastOffer, Offers
  <1>7. OwnValue(produced[m], m)
    BY <1>3 DEF StepInv, ValuesGiven
  <1> QED BY <1>2, <1>5, <1>6, <1>7

\* Names and values of a template that reads a step's export.
LEMMA TemplateTyped ==
    ASSUME StepInv, NEW n \in StepIds
    PROVE  /\ plan[n].template \in Templates /\ plan[n].assertion \in Assertions /\ plan[n].export \in Exports
           /\ plan[n].template.ns = "vars" => plan[n].template.name \in Names
           /\ plan[n].export.name \in Names \union {"none"}
  <1>1. plan[n] \in [template : Templates, assertion : Assertions, export : Exports]
    BY StepsAssumption DEF StepInv, StepsTyped
  <1>2. plan[n].template \in Templates /\ plan[n].assertion \in Assertions /\ plan[n].export \in Exports
    BY <1>1
  <1>3. plan[n].template.ns = "vars" => plan[n].template.name \in Names
    BY <1>2 DEF Templates
  <1>4. plan[n].export.name \in Names \union {"none"}
    BY <1>2 DEF Exports
  <1> QED BY <1>2, <1>3, <1>4

\* What a request is sent with.
LEMMA SentValue ==
    ASSUME StepInv, NEW n \in StepIds, AtHand(n), "none" \in InterpolationErrors(plan[n].template),
           NEW v, v = Interpolate(plan[n].template)
    PROVE  /\ v \in Value
           /\ plan[n].template.ns = "vars" => \E m \in 1..(n - 1) :
                  /\ LastOffer(plan, stepStatus, n, m) /\ ~v.redacted /\ v.from = m
                  /\ IF plan[n].template.form = "pure" /\ plan[n].template.place = "body"
                     THEN v = produced[m] ELSE v.kind = "text"
  <1> DEFINE t == plan[n].template
             u == ResolveRef(t)
  <1>1. t \in Templates /\ (t.ns = "vars" => t.name \in Names)
    BY TemplateTyped
  <1>2. t.ns \in {"none", "vars", "env", "data"} /\ (t.ns = "vars" => t.form \in {"pure", "embedded"} /\ t.place \in {"body", "query"})
    BY <1>1 DEF Templates
  <1>3. t.ns = "vars" => vars[t.name] # NoValue /\ u = vars[t.name]
    BY DEF InterpolationErrors, ResolveRef
  <1>4. u \in Value
    <2>1. CASE t.ns = "vars"
      <3>1. vars[t.name] \in Held
        BY <1>1, <2>1 DEF StepInv, StepsTyped
      <3> QED BY <1>3, <2>1, <3>1 DEF Held
    <2>2. CASE t.ns = "env"
      BY <2>2, StepsAssumption DEF ResolveRef, Value, Context
    <2>3. CASE t.ns = "data"
      BY <2>3, StepsAssumption DEF ResolveRef, Value, Context, Plain
    <2>4. CASE t.ns = "none"
      BY <2>4, StepsAssumption DEF ResolveRef, Value, Context, Plain
    <2> QED BY <1>2, <2>1, <2>2, <2>3, <2>4
  <1>5. Stringified(u) \in Value /\ Stringified(u).kind = "text" /\ Stringified(u).from = u.from
        /\ Stringified(u).redacted = u.redacted
    BY <1>4, StringifiedValue
  <1>6. v = IF t.form = "embedded" \/ t.place = "query" THEN Stringified(u) ELSE u
    BY DEF Interpolate
  <1>7. v \in Value /\ v.from = u.from /\ v.redacted = u.redacted
    BY <1>4, <1>5, <1>6
  <1>8. ASSUME t.ns = "vars"
        PROVE  \E m \in 1..(n - 1) :
                  /\ LastOffer(plan, stepStatus, n, m) /\ ~v.redacted /\ v.from = m
                  /\ IF t.form = "pure" /\ t.place = "body" THEN v = produced[m] ELSE v.kind = "text"
    <2>1. PICK m \in 1..(n - 1) : LastOffer(plan, stepStatus, n, m) /\ vars[t.name] = produced[m] /\ OwnValue(produced[m], m)
      BY <1>1, <1>3, <1>8, ReadsTheLast
    <2>2. u = produced[m]
      BY <1>3, <1>8, <2>1
    <2>3. ~v.redacted /\ v.from = m
      BY <1>7, <2>1, <2>2 DEF OwnValue
    <2>4. IF t.form = "pure" /\ t.place = "body" THEN v = produced[m] ELSE v.kind = "text"
      BY <1>2, <1>5, <1>6, <1>8, <2>2
    <2> QED BY <2>1, <2>3, <2>4
  <1> QED BY <1>7, <1>8
------------------------------------------------------------------------------
LEMMA StartStepKeeps ==
    ASSUME StepInv, NEW n \in StepIds, StartStep(n)
    PROVE  StepInv'
  <1>1. AtHand(n)
    BY StepAtHand DEF StartStep
  <1>2. /\ stepStatus' = [stepStatus EXCEPT ![n] = "running"] /\ "none" \in InterpolationErrors(plan[n].template)
        /\ at' = n /\ sent' = [sent EXCEPT ![n] = Interpolate(plan[n].template)]
        /\ UNCHANGED <<plan, code, delivery, vars, produced>>
    BY DEF StartStep
  <1>3. Moves(n, "running", produced, stepStatus')
    BY <1>1, <1>2 DEF Moves, StepStatuses
  <1>4. Moved(n, "running", produced, stepStatus')
    BY <1>3, StatusKeeps
  <1>5. \A x \in Names : VarFits(plan, stepStatus', produced, delivery, x, vars[x])
    BY <1>3, VarsStay
  <1>6. PICK v : v = Interpolate(plan[n].template)
    OBVIOUS
  <1>7. /\ v \in Value
        /\ plan[n].template.ns = "vars" => \E m \in 1..(n - 1) :
               /\ LastOffer(plan, stepStatus, n, m) /\ ~v.redacted /\ v.from = m
               /\ IF plan[n].template.form = "pure" /\ plan[n].template.place = "body"
                  THEN v = produced[m] ELSE v.kind = "text"
    BY <1>1, <1>2, <1>6, SentValue
  <1>8. \A m : LastOffer(plan, stepStatus', n, m) <=> LastOffer(plan, stepStatus, n, m)
    BY <1>4, SameOffers DEF Moved
  <1>9. SentFits(plan, stepStatus', produced, n, v)
    BY <1>4, <1>7, <1>8 DEF SentFits, Moved
  <1>10. CodeFits(plan, stepStatus', produced, delivery, n, code[n])
    <2>1. CodeFits(plan, stepStatus, produced, delivery, n, code[n]) /\ stepStatus[n] # "failed"
      BY <1>1 DEF StepInv, AtHand, Done
    <2> QED BY <2>1 DEF CodeFits
  <1>11. sent' \in [StepIds -> Held] /\ sent'[n] = v /\ \A m \in StepIds \ {n} : sent'[m] = sent[m]
    BY <1>2, <1>6, <1>7 DEF StepInv, StepsTyped, Held
  <1>12. StepsTyped'
    <2>1. at' \in 0..Steps
      BY <1>2, StepsBefore, StepsAssumption
    <2> QED BY <1>2, <1>4, <1>11, <2>1 DEF StepInv, StepsTyped, ValidPlan, Moved
  <1>13. \A m \in StepIds : SentFits(plan', stepStatus', produced', m, sent'[m])
    BY <1>2, <1>4, <1>9, <1>11 DEF Moved
  <1>14. \A m \in StepIds : CodeFits(plan', stepStatus', produced', delivery', m, code'[m])
    BY <1>2, <1>4, <1>10 DEF Moved
  <1>15. InOrder(stepStatus)' /\ SkippedWithCause(stepStatus)' /\ ValuesGiven(stepStatus, produced)'
    BY <1>2, <1>4 DEF Moved, InOrder, SkippedWithCause, ValuesGiven, StepIds
  <1>16. \A x \in Names : VarFits(plan', stepStatus', produced', delivery', x, vars'[x])
    BY <1>2, <1>5
  <1>17. stepStatus'[at'] = "running"
    BY <1>2, <1>4 DEF Moved
  <1> QED BY <1>12, <1>13, <1>14, <1>15, <1>16, <1>17 DEF StepInv

\* The step at hand is over, and the worker is between two.
LEMMA StepEnds ==
    ASSUME StepInv, NEW n, NEW status, Moves(n, status, produced', stepStatus'), at' = 0,
           UNCHANGED <<plan, delivery, sent>>,
           DOMAIN code' = StepIds, \A m \in StepIds \ {n} : code'[m] = code[m],
           CodeFits(plan, stepStatus', produced', delivery, n, code'[n]),
           \A x \in Names : VarFits(plan, stepStatus', produced', delivery, x, vars'[x]),
           vars' \in [Names -> Held], produced' \in [StepIds -> Held]
    PROVE  StepInv'
  <1>1. Moved(n, status, produced', stepStatus')
    BY StatusKeeps
  <1>2. n \in StepIds /\ AtHand(n) /\ status # "queued"
    BY DEF Moves
  <1>3. \A m : LastOffer(plan, stepStatus', n, m) <=> LastOffer(plan, stepStatus, n, m)
    BY <1>1, SameOffers DEF Moved
  <1>4. SentFits(plan, stepStatus', produced', n, sent[n])
    <2>1. SentFits(plan, stepStatus, produced, n, sent[n])
      BY <1>2 DEF StepInv
    <2>2. stepStatus'[n] # "queued" /\ \A m \in 1..(n - 1) : produced'[m] = produced[m]
      BY <1>1, <1>2 DEF Moved
    <2> QED BY <1>3, <2>1, <2>2 DEF SentFits
  <1>5. StepsTyped'
    <2>1. stepStatus' \in [StepIds -> StepStatuses]
      BY <1>1 DEF Moved
    <2>2. \A k \in StepIds : ValidPlan(k)'
      BY DEF StepInv, StepsTyped, ValidPlan, StepIds
    <2> QED BY <2>1, <2>2, StepsAssumption DEF StepInv, StepsTyped
  <1>6. \A m \in StepIds : SentFits(plan', stepStatus', produced', m, sent'[m])
    BY <1>1, <1>4 DEF Moved
  <1>7. \A m \in StepIds : CodeFits(plan', stepStatus', produced', delivery', m, code'[m])
    BY <1>1 DEF Moved
  <1>8. InOrder(stepStatus)' /\ SkippedWithCause(stepStatus)' /\ ValuesGiven(stepStatus, produced)'
    BY <1>1 DEF Moved, InOrder, SkippedWithCause, ValuesGiven, StepIds
  <1>9. \A x \in Names : VarFits(plan', stepStatus', produced', delivery', x, vars'[x])
    OBVIOUS
  <1> QED BY <1>5, <1>6, <1>7, <1>8, <1>9 DEF StepInv

\* The step at hand fails without an answer, for a reason that fits.
LEMMA StepFails ==
    ASSUME StepInv, NEW n \in StepIds, AtHand(n), NEW why, PersistFailed(n, why),
           CodeFits(plan, stepStatus', produced, delivery, n, why)
    PROVE  StepInv'
  <1>1. /\ stepStatus' = [stepStatus EXCEPT ![n] = "failed"] /\ code' = [code EXCEPT ![n] = why] /\ at' = 0
        /\ UNCHANGED <<plan, delivery, vars, sent, produced>>
    BY DEF PersistFailed
  <1>2. Moves(n, "failed", produced', stepStatus')
    BY <1>1 DEF Moves, StepStatuses
  <1>3. DOMAIN code' = StepIds /\ code'[n] = why /\ \A m \in StepIds \ {n} : code'[m] = code[m]
    BY <1>1 DEF StepInv, StepsTyped
  <1>4. \A x \in Names : VarFits(plan, stepStatus', produced', delivery, x, vars[x])
    BY <1>2, VarsStay
  <1>5. vars' \in [Names -> Held] /\ produced' \in [StepIds -> Held]
    BY <1>1 DEF StepInv, StepsTyped
  <1>6. CodeFits(plan, stepStatus', produced', delivery, n, code'[n])
    BY <1>1, <1>3
  <1> QED BY <1>1, <1>2, <1>3, <1>4, <1>5, <1>6, StepEnds

\* Before a step that is not blocked, every step has succeeded.
LEMMA BeforeUnblocked ==
    ASSUME StepInv, NEW n \in StepIds, AtHand(n), ~Blocked(n), NEW m \in 1..(n - 1)
    PROVE  stepStatus[m] = "succeeded"
  <1>1. Done(stepStatus[m]) /\ stepStatus[m] # "failed"
    BY DEF AtHand, Blocked
  <1>2. stepStatus[m] # "skipped"
    <2> SUFFICES ASSUME stepStatus[m] = "skipped" PROVE FALSE
      OBVIOUS
    <2>1. PICK k \in 1..(m - 1) : stepStatus[k] = "failed"
      BY StepsBefore DEF StepInv, SkippedWithCause
    <2>2. k \in 1..(n - 1)
      BY StepsBefore
    <2> QED BY <2>1, <2>2 DEF Blocked
  <1> QED BY <1>1, <1>2 DEF Done

LEMMA StepNotSentKeeps ==
    ASSUME StepInv, NEW n \in StepIds, StepNotSent(n)
    PROVE  StepInv'
  <1>1. AtHand(n) /\ ~Blocked(n)
    BY StepAtHand DEF StepNotSent
  <1>2. PICK error \in InterpolationErrors(plan[n].template) \ {"none"} : PersistFailed(n, error)
    BY DEF StepNotSent
  <1> DEFINE t == plan[n].template
  <1>3. stepStatus' = [stepStatus EXCEPT ![n] = "failed"]
    BY <1>2 DEF PersistFailed
  <1>4. Moves(n, "failed", produced, stepStatus')
    BY <1>1, <1>3 DEF Moves, StepStatuses
  <1>5. Moved(n, "failed", produced, stepStatus')
    BY <1>4, StatusKeeps
  <1>6. ASSUME error = "VAR_REF_INVALID", t.ns = "vars", delivery = 1
        PROVE  t.form = "embedded" /\ \E m \in 1..(n - 1) : LastOffer(plan, stepStatus, n, m) /\ produced[m].kind = "object"
    <2>1. t.name \in Names
      BY <1>6, TemplateTyped
    <2>2. PICK m \in 1..(n - 1) : plan[m].export.name = t.name
      BY <1>6 DEF StepInv, StepsTyped, ValidPlan
    <2>3. stepStatus[m] = "succeeded" /\ m \in StepIds
      BY <1>1, BeforeUnblocked, StepsBefore
    <2>4. VarFits(plan, stepStatus, produced, delivery, t.name, vars[t.name])
      BY <2>1 DEF StepInv
    <2>5. vars[t.name] # NoValue
      BY <1>6, <2>2, <2>3, <2>4 DEF VarFits
    <2>6. ResolveRef(t) = vars[t.name]
      BY <1>6 DEF ResolveRef
    <2>7. t.form = "embedded" /\ vars[t.name].kind = "object"
      BY <1>6, <2>5, <2>6 DEF InterpolationErrors
    <2> QED BY <1>1, <1>6, <2>1, <2>5, <2>7, ReadsTheLast
  <1>7. \A m : LastOffer(plan, stepStatus', n, m) <=> LastOffer(plan, stepStatus, n, m)
    BY <1>5, SameOffers DEF Moved
  <1>8. CodeFits(plan, stepStatus', produced, delivery, n, error)
    BY <1>5, <1>6, <1>7 DEF CodeFits, Moved
  <1> QED BY <1>1, <1>2, <1>8, StepFails

LEMMA SkipBlockedKeeps ==
    ASSUME StepInv, NEW n \in StepIds, SkipBlocked(n)
    PROVE  StepInv'
  <1>1. AtHand(n) /\ at = 0 /\ stepStatus[n] = "queued"
    BY StepAtHand DEF SkipBlocked, IsNext
  <1>2. /\ stepStatus' = [stepStatus EXCEPT ![n] = "skipped"] /\ Blocked(n)
        /\ UNCHANGED <<plan, code, delivery, at, vars, sent, produced>>
    BY DEF SkipBlocked
  <1>3. Moves(n, "skipped", produced', stepStatus')
    BY <1>1, <1>2 DEF Moves, StepStatuses, Blocked
  <1>4. \A x \in Names : VarFits(plan, stepStatus', produced', delivery, x, vars[x])
    BY <1>3, VarsStay
  <1>5. vars' \in [Names -> Held] /\ produced' \in [StepIds -> Held] /\ DOMAIN code' = StepIds
    BY <1>2 DEF StepInv, StepsTyped
  <1>6. CodeFits(plan, stepStatus', produced', delivery, n, code'[n])
    <2>1. CodeFits(plan, stepStatus, produced, delivery, n, code[n])
      BY DEF StepInv
    <2> QED BY <1>1, <1>2, <2>1 DEF CodeFits
  <1> QED BY <1>1, <1>2, <1>3, <1>4, <1>5, <1>6, StepEnds

LEMMA UnansweredKeeps ==
    ASSUME StepInv, RequestFails \/ ExportFails
    PROVE  StepInv'
  <1>1. PICK why \in RequestErrors \union {"EXPORT_FAILED"} : PersistFailed(at, why)
    BY DEF RequestFails, ExportFails
  <1>2. at # 0
    BY DEF RequestFails, ExportFails
  <1>3. at \in StepIds /\ AtHand(at)
    BY <1>2, StepAtHand DEF AtHand
  <1>4. CodeFits(plan, stepStatus', produced, delivery, at, why)
    BY <1>1 DEF CodeFits, RequestErrors
  <1> QED BY <1>1, <1>3, <1>4, StepFails

\* The last name to succeed gives the value; the other names keep theirs.
LEMMA ValuesAccumulate ==
    ASSUME StepInv, NEW n, NEW pr, NEW next, Moves(n, "succeeded", pr, next),
           NEW after, after = Accumulate(plan[n].export, pr[n])
    PROVE  /\ after \in [Names -> Held]
           /\ \A x \in Names : VarFits(plan, next, pr, delivery, x, after[x])
  <1> DEFINE y == plan[n].export.name
  <1>1. n \in StepIds /\ AtHand(n) /\ OwnValue(pr[n], n) /\ \A m \in StepIds \ {n} : pr[m] = produced[m]
    BY DEF Moves
  <1>2. Moved(n, "succeeded", pr, next)
    BY StatusKeeps
  <1>3. next[n] = "succeeded" /\ \A m \in StepIds \ {n} : next[m] = stepStatus[m]
    BY <1>2 DEF Moved
  <1>4. stepStatus[n] # "succeeded"
    BY <1>1 DEF AtHand, Done
  <1>5. y \in Names \union {"none"} /\ vars \in [Names -> Held] /\ pr[n] \in Held
    BY <1>1, TemplateTyped DEF StepInv, StepsTyped, OwnValue, Held
  <1>6. after = IF y = "none" THEN vars ELSE [vars EXCEPT ![y] = pr[n]]
    BY DEF Accumulate
  <1>7. after \in [Names -> Held]
    BY <1>5, <1>6
  <1>8. ASSUME NEW x \in Names PROVE VarFits(plan, next, pr, delivery, x, after[x])
    <2>1. x # "none"
      BY StepsAssumption
    <2>2. CASE x = y
      <3>1. after[x] = pr[n]
        BY <1>5, <1>6, <2>1, <2>2
      <3>2. \A k \in StepIds : next[k] = "succeeded" => k <= n
        <4> SUFFICES ASSUME NEW k \in StepIds, next[k] = "succeeded", k # n PROVE k <= n
          BY <1>1, StepsBefore
        <4>1. k < n
          BY <1>1, <1>3, StepsBehind
        <4> QED BY <1>1, <4>1, StepsBefore
      <3>3. LastOf(plan, next, x, n)
        BY <1>3, <2>2, <3>2 DEF LastOf
      <3>4. pr[n] # NoValue
        BY <1>1 DEF OwnValue, Value, NoValue, Context
      <3> QED BY <1>1, <3>1, <3>3, <3>4 DEF VarFits
    <2>3. CASE x # y
      <3>1. after[x] = vars[x]
        BY <1>5, <1>6, <2>3
      <3>2. VarFits(plan, stepStatus, produced, delivery, x, vars[x])
        BY DEF StepInv
      <3>3. \A m \in StepIds : plan[m].export.name = x => next[m] = stepStatus[m] /\ pr[m] = produced[m]
        BY <1>1, <1>3, <2>3
      <3>4. \A m \in StepIds : LastOf(plan, stepStatus, x, m) => LastOf(plan, next, x, m) /\ pr[m] = produced[m]
        BY <3>3 DEF LastOf
      <3> QED BY <3>1, <3>2, <3>3, <3>4 DEF VarFits
    <2> QED BY <2>2, <2>3
  <1> QED BY <1>7, <1>8

LEMMA AnswerStepKeeps ==
    ASSUME StepInv, AnswerStep
    PROVE  StepInv'
  <1>1. at # 0 /\ at' = 0 /\ UNCHANGED <<plan, delivery, sent>>
    BY DEF AnswerStep
  <1>2. at \in StepIds /\ AtHand(at)
    BY <1>1, StepAtHand DEF AtHand
  <1> DEFINE answers(r, passed, value) ==
                /\ value = ExtractExport(at, plan[at].export, r) /\ value # NoValue
                /\ produced' = [produced EXCEPT ![at] = value]
                /\ stepStatus' = [stepStatus EXCEPT ![at] = IF passed THEN "succeeded" ELSE "failed"]
                /\ code' = [code EXCEPT ![at] = IF passed THEN "none" ELSE "ASSERTION_FAILED"]
                /\ vars' = IF passed THEN Accumulate(plan[at].export, value) ELSE vars
  <1>3. PICK r \in Responses : \E passed \in EvaluateAssertion(plan[at].assertion, r) :
             answers(r, passed, ExtractExport(at, plan[at].export, r))
    BY DEF AnswerStep
  <1>4. PICK passed \in EvaluateAssertion(plan[at].assertion, r) : answers(r, passed, ExtractExport(at, plan[at].export, r))
    BY <1>3
  <1>5. PICK value : answers(r, passed, value)
    BY <1>4
  <1>6. passed \in BOOLEAN
    BY <1>2, TemplateTyped, CodeFound
  <1>7. OwnValue(value, at)
    BY <1>2, <1>5, TemplateTyped, ExtractedValue
  <1>8. produced' \in [StepIds -> Held] /\ produced'[at] = value /\ \A m \in StepIds \ {at} : produced'[m] = produced[m]
    <2>1. value \in Held
      BY <1>7 DEF OwnValue, Held
    <2> QED BY <1>2, <1>5, <2>1 DEF StepInv, StepsTyped
  <1>9. PICK why : why = code'[at] /\ why # "VAR_REF_INVALID" /\ DOMAIN code' = StepIds
                   /\ \A m \in StepIds \ {at} : code'[m] = code[m]
    BY <1>2, <1>5, <1>6 DEF StepInv, StepsTyped
  <1>10. CodeFits(plan, stepStatus', produced', delivery, at, code'[at])
    BY <1>9 DEF CodeFits
  <1>11. CASE passed
    <2>1. Moves(at, "succeeded", produced', stepStatus')
      BY <1>2, <1>5, <1>7, <1>8, <1>11 DEF Moves, StepStatuses
    <2>2. vars' = Accumulate(plan[at].export, produced'[at])
      BY <1>5, <1>8, <1>11
    <2>3. vars' \in [Names -> Held] /\ \A x \in Names : VarFits(plan, stepStatus', produced', delivery, x, vars'[x])
      BY <2>1, <2>2, ValuesAccumulate
    <2> QED BY <1>1, <1>8, <1>9, <1>10, <2>1, <2>3, StepEnds
  <1>12. CASE ~passed
    <2>1. Moves(at, "failed", produced', stepStatus')
      BY <1>2, <1>5, <1>8, <1>12 DEF Moves, StepStatuses
    <2>2. vars' = vars /\ vars' \in [Names -> Held]
      BY <1>5, <1>12 DEF StepInv, StepsTyped
    <2>3. \A x \in Names : VarFits(plan, stepStatus', produced', delivery, x, vars'[x])
      BY <2>1, <2>2, VarsStay
    <2> QED BY <1>1, <1>8, <1>9, <1>10, <2>1, <2>2, <2>3, StepEnds
  <1> QED BY <1>6, <1>11, <1>12

LEMMA DeliveredAgainKeeps ==
    ASSUME StepInv, DeliveredAgain
    PROVE  StepInv'
  <1>1. /\ delivery' = delivery + 1 /\ at' = 0 /\ vars' = NoVars
        /\ UNCHANGED <<plan, stepStatus, code, sent, produced>>
    BY DEF DeliveredAgain
  <1>2. delivery' \in Nat \ {0} /\ delivery' # 1
    BY <1>1 DEF StepInv, StepsTyped
  <1>3. StepsTyped'
    BY <1>1, <1>2, StepsAssumption DEF StepInv, StepsTyped, ValidPlan, NoVars, Held
  <1>4. \A x \in Names : VarFits(plan', stepStatus', produced', delivery', x, vars'[x])
    BY <1>1, <1>2 DEF VarFits, NoVars
  <1>5. \A n \in StepIds : SentFits(plan', stepStatus', produced', n, sent'[n])
    BY <1>1 DEF StepInv
  <1>6. \A n \in StepIds : CodeFits(plan', stepStatus', produced', delivery', n, code'[n])
    BY <1>1, <1>2 DEF StepInv, CodeFits
  <1>7. InOrder(stepStatus)' /\ SkippedWithCause(stepStatus)' /\ ValuesGiven(stepStatus, produced)'
    BY <1>1 DEF StepInv, InOrder, SkippedWithCause, ValuesGiven, StepIds
  <1> QED BY <1>1, <1>3, <1>4, <1>5, <1>6, <1>7 DEF StepInv

LEMMA StepInitInv == StepInit => StepInv
  <1> SUFFICES ASSUME StepInit PROVE StepInv
    OBVIOUS
  <1>1. StepsTyped
    BY StepsAssumption DEF StepInit, StepsTyped, StepStatuses, NoVars, Held
  <1>2. InOrder(stepStatus) /\ SkippedWithCause(stepStatus) /\ ValuesGiven(stepStatus, produced)
    BY DEF StepInit, InOrder, SkippedWithCause, ValuesGiven
  <1>3. \A x \in Names : VarFits(plan, stepStatus, produced, delivery, x, vars[x])
    BY DEF StepInit, VarFits, NoVars
  <1>4. \A n \in StepIds : SentFits(plan, stepStatus, produced, n, sent[n])
    BY DEF StepInit, SentFits
  <1>5. \A n \in StepIds : CodeFits(plan, stepStatus, produced, delivery, n, code[n])
    BY DEF StepInit, CodeFits
  <1> QED BY <1>1, <1>2, <1>3, <1>4, <1>5 DEF StepInv, StepInit

LEMMA StepNextInv == StepInv /\ [StepNext]_stepVars => StepInv'
  <1> SUFFICES ASSUME StepInv, [StepNext]_stepVars PROVE StepInv'
    OBVIOUS
  <1>1. ASSUME NEW n \in StepIds, StartStep(n) PROVE StepInv'
    BY <1>1, StartStepKeeps
  <1>2. ASSUME NEW n \in StepIds, StepNotSent(n) PROVE StepInv'
    BY <1>2, StepNotSentKeeps
  <1>3. ASSUME NEW n \in StepIds, SkipBlocked(n) PROVE StepInv'
    BY <1>3, SkipBlockedKeeps
  <1>4. CASE RequestFails \/ ExportFails
    BY <1>4, UnansweredKeeps
  <1>5. CASE AnswerStep
    BY <1>5, AnswerStepKeeps
  <1>6. CASE DeliveredAgain
    BY <1>6, DeliveredAgainKeeps
  <1>7. CASE UNCHANGED stepVars
    BY <1>7 DEF stepVars, StepInv, StepsTyped, InOrder, SkippedWithCause, ValuesGiven, ValidPlan, StepIds,
                VarFits, LastOf, SentFits, CodeFits, LastOffer, Offers
  <1> QED BY <1>1, <1>2, <1>3, <1>4, <1>5, <1>6, <1>7 DEF StepNext

\* The producer of what a step reads is the step that offers it: no other exports that name.
LEMMA OfferProduces ==
    ASSUME StepInv, NEW n \in StepIds, plan[n].template.ns = "vars", NEW m \in 1..(n - 1),
           LastOffer(plan, stepStatus, n, m)
    PROVE  Producer(n) = m /\ stepStatus[m] = "succeeded"
  <1>1. plan[m].export.name = plan[n].template.name /\ stepStatus[m] = "succeeded" /\ m \in StepIds
    BY StepsBefore DEF LastOffer, Offers
  <1>2. plan[n].template \in Templates
    <2>1. plan[n] \in Plans
      BY DEF StepInv, StepsTyped
    <2> QED BY <2>1, StepsAssumption
  <1>3. plan[n].template.name # "none"
    BY <1>2, StepsAssumption DEF Templates
  <1>4. \A k \in StepIds \ {m} : plan[k].export.name # plan[m].export.name
    BY <1>1, <1>3 DEF StepInv, StepsTyped, ValidPlan
  <1>5. \A k \in 1..(n - 1) : plan[k].export.name = plan[n].template.name => k = m
    BY <1>1, <1>4, StepsBefore
  <1> QED BY <1>1, <1>5 DEF Producer

(* A step's request holds what the step it reads from has produced, with its type or as text,
   and not the redacted copy, in whichever delivery of the job it is sent (StepsSendWhatWasProduced,
   runner/step-executor.ts and node-runner.ts). *)
THEOREM StepsSendWhatWasProducedHolds == StepSpec => []StepsSendWhatWasProduced
  <1>1. StepInv => StepsSendWhatWasProduced
    <2> SUFFICES ASSUME StepInv, NEW n \in StepIds, plan[n].template.ns = "vars"
                 PROVE  /\ sent[n] # NoValue =>
                               /\ stepStatus[Producer(n)] = "succeeded" /\ ~sent[n].redacted /\ sent[n].from = Producer(n)
                               /\ IF plan[n].template.form = "pure" /\ plan[n].template.place = "body"
                                  THEN sent[n] = produced[Producer(n)]
                                  ELSE sent[n].kind = "text"
                        /\ delivery = 1 /\ code[n] = "VAR_REF_INVALID" =>
                               plan[n].template.form = "embedded" /\ produced[Producer(n)].kind = "object"
      BY DEF StepsSendWhatWasProduced
    <2>1. SentFits(plan, stepStatus, produced, n, sent[n]) /\ CodeFits(plan, stepStatus, produced, delivery, n, code[n])
      BY DEF StepInv
    <2>2. ASSUME sent[n] # NoValue
          PROVE  /\ stepStatus[Producer(n)] = "succeeded" /\ ~sent[n].redacted /\ sent[n].from = Producer(n)
                 /\ IF plan[n].template.form = "pure" /\ plan[n].template.place = "body"
                    THEN sent[n] = produced[Producer(n)]
                    ELSE sent[n].kind = "text"
      <3>1. PICK m \in 1..(n - 1) :
                /\ LastOffer(plan, stepStatus, n, m) /\ ~sent[n].redacted /\ sent[n].from = m
                /\ IF plan[n].template.form = "pure" /\ plan[n].template.place = "body"
                   THEN sent[n] = produced[m] ELSE sent[n].kind = "text"
        BY <2>1, <2>2 DEF SentFits
      <3> QED BY <3>1, OfferProduces
    <2>3. ASSUME delivery = 1, code[n] = "VAR_REF_INVALID"
          PROVE  plan[n].template.form = "embedded" /\ produced[Producer(n)].kind = "object"
      <3>1. plan[n].template.form = "embedded"
            /\ \E m \in 1..(n - 1) : LastOffer(plan, stepStatus, n, m) /\ produced[m].kind = "object"
        BY <2>1, <2>3 DEF CodeFits
      <3> QED BY <3>1, OfferProduces
    <2> QED BY <2>2, <2>3
  <1> QED BY <1>1, StepInitInv, StepNextInv, PTL DEF StepSpec
------------------------------------------------------------------------------
\* What is stored of a step is held or none, in any delivery.
StoredInv ==
    /\ StepInv /\ delivery \in 1..MaxDeliveries
    /\ stored \in [StepIds -> Held] /\ input \in [StepIds -> Held]

LEMMA RedactedHeld ==
    ASSUME NEW v \in Held
    PROVE  RedactSecretValues(v) \in Held
  <1>1. CASE v \in Value
    <2>1. [v EXCEPT !.redacted = TRUE] \in Value
      BY <1>1 DEF Value
    <2> QED BY <1>1, <2>1 DEF RedactSecretValues, Held
  <1>2. CASE v = NoValue
    BY <1>2 DEF RedactSecretValues, NoValue, Held
  <1> QED BY <1>1, <1>2 DEF Held

\* What a template refers to, also where nothing is held under the name.
LEMMA ResolvedHeld ==
    ASSUME StepInv, NEW n \in StepIds
    PROVE  ResolveRef(plan[n].template) \in Held /\ CollectedInput(plan[n].template) \in Held
  <1> DEFINE t == plan[n].template
  <1>1. t \in Templates /\ (t.ns = "vars" => t.name \in Names)
    BY TemplateTyped
  <1>2. t.ns \in {"none", "vars", "env", "data"}
    BY <1>1 DEF Templates
  <1>3. 0 \in 0..Steps
    BY StepsAssumption
  <1>4. ResolveRef(t) \in Held
    <2>1. CASE t.ns = "vars"
      BY <1>1, <2>1 DEF StepInv, StepsTyped, ResolveRef
    <2>2. CASE t.ns = "env"
      BY <1>3, <2>2, StepsAssumption DEF ResolveRef, Value, Context, Held
    <2>3. CASE t.ns \in {"data", "none"}
      BY <1>3, <2>3 DEF ResolveRef, Value, Context, Plain, Held
    <2> QED BY <1>2, <2>1, <2>2, <2>3
  <1>5. NoValue \in Held
    BY DEF Held
  <1> QED BY <1>4, <1>5, RedactedHeld DEF CollectedInput

LEMMA AnswerStored ==
    ASSUME StoredInv, AnswerStep
    PROVE  stored' \in [StepIds -> Held] /\ input' \in [StepIds -> Held]
  <1>1. at \in StepIds
    BY StepAtHand DEF AnswerStep, StoredInv, AtHand
  <1>2. \E value : /\ \E r \in Responses : value = ExtractExport(at, plan[at].export, r)
                   /\ value # NoValue /\ stored' = [stored EXCEPT ![at] = RedactSecretValues(value)]
                   /\ input' = [input EXCEPT ![at] = CollectedInput(plan[at].template)]
    BY DEF AnswerStep
  <1>3. PICK value : /\ \E r \in Responses : value = ExtractExport(at, plan[at].export, r)
                     /\ value # NoValue /\ stored' = [stored EXCEPT ![at] = RedactSecretValues(value)]
                     /\ input' = [input EXCEPT ![at] = CollectedInput(plan[at].template)]
    BY <1>2
  <1>4. StepInv
    BY DEF StoredInv
  <1>5. value \in Held
    BY <1>1, <1>3, <1>4, TemplateTyped, ExtractedValue DEF OwnValue, Held
  <1>6. RedactSecretValues(value) \in Held /\ CollectedInput(plan[at].template) \in Held
    BY <1>1, <1>4, <1>5, RedactedHeld, ResolvedHeld
  <1> QED BY <1>1, <1>3, <1>6 DEF StoredInv

LEMMA StoredStepHolds ==
    ASSUME StoredInv, [StepNext]_stepVars
    PROVE  StoredInv'
  <1>1. StepInv'
    BY StepNextInv DEF StoredInv
  <1>2. CASE AnswerStep
    <2>1. stored' \in [StepIds -> Held] /\ input' \in [StepIds -> Held]
      BY <1>2, AnswerStored
    <2> QED BY <1>1, <1>2, <2>1 DEF AnswerStep, StoredInv
  <1>3. CASE DeliveredAgain
    <2>1. delivery' \in 1..MaxDeliveries
      BY <1>3, StepsAssumption DEF DeliveredAgain, StoredInv
    <2> QED BY <1>1, <1>3, <2>1 DEF DeliveredAgain, StoredInv
  <1>4. ASSUME UNCHANGED <<stored, input, delivery>> PROVE StoredInv'
    BY <1>1, <1>4 DEF StoredInv
  <1>5. CASE StepNext /\ ~AnswerStep /\ ~DeliveredAgain
    <2>1. UNCHANGED <<stored, input, delivery>>
      BY <1>5 DEF StepNext, StartStep, StepNotSent, SkipBlocked, RequestFails, ExportFails, PersistFailed
    <2> QED BY <1>4, <2>1
  <1>6. CASE UNCHANGED stepVars
    BY <1>4, <1>6 DEF stepVars
  <1> QED BY <1>2, <1>3, <1>5, <1>6

LEMMA StoredInitHolds == StepInit => StoredInv
  <1> SUFFICES ASSUME StepInit PROVE StoredInv
    OBVIOUS
  <1>1. StepInv
    BY StepInitInv
  <1>2. NoValue \in Held
    BY DEF Held
  <1> QED BY <1>1, <1>2, StepsAssumption DEF StepInit, StoredInv

LEMMA StoredTypes == StoredInv => StepTypeOK
  BY DEF StoredInv, StepInv, StepsTyped, StepTypeOK, Held

(* The values sent, stored and held in memory stay in their ranges, and the job is delivered as
   often as it may be (runner/step-executor.ts, redaction.ts). *)
THEOREM StepTypes == StepSpec => []StepTypeOK
  <1>1. StoredInv /\ [StepNext]_stepVars => StoredInv'
    BY StoredStepHolds
  <1> QED BY <1>1, StoredTypes, StoredInitHolds, PTL DEF StepSpec
------------------------------------------------------------------------------
(***************************************************************************)
(* The instance that is checked moves one part at a time, so it behaves as *)
(* each of its parts is specified to, and what is proved of them holds.    *)
(***************************************************************************)
\* A step of the instance is a step of the part that moves, and the others stay.
LEMMA PartsStep ==
    ASSUME [MCNext]_<<subject, definitionVars, writingVars, stepVars>>
    PROVE  /\ [Next]_definitionVars /\ [CanvasNext]_canvasVars /\ [InspectorNext]_inspectorVars
           /\ [AuthoringNext]_authoringVars /\ [StepNext]_stepVars
  <1>1. CASE UNCHANGED <<subject, definitionVars, writingVars, stepVars>>
    BY <1>1 DEF writingVars
  <1>2. CASE MCNext
    BY <1>2 DEF MCNext, writingVars
  <1> QED BY <1>1, <1>2

(* Whichever part moves, every part moves as its own module says. *)
THEOREM EditorRunsItsParts == MCSpec => Spec /\ CanvasSpec /\ InspectorSpec /\ AuthoringSpec /\ StepSpec
  <1>1. MCInit => Init /\ CanvasInit /\ InspectorInit /\ AuthoringInit /\ StepInit
    BY DEF MCInit
  <1>2. [MCNext]_<<subject, definitionVars, writingVars, stepVars>> =>
            /\ [Next]_definitionVars /\ [CanvasNext]_canvasVars /\ [InspectorNext]_inspectorVars
            /\ [AuthoringNext]_authoringVars /\ [StepNext]_stepVars
    BY PartsStep
  <1> QED BY <1>1, <1>2, PTL DEF MCSpec, Spec, CanvasSpec, InspectorSpec, AuthoringSpec, StepSpec

(* Every variable of the editor, of its canvas and inspector and of the steps of a run stays in
   its range. *)
THEOREM EditorTypeOKHolds == MCSpec => []EditorTypeOK
  <1>1. CanvasTypeOK /\ InspectorTypeOK /\ AuthoringTypeOK /\ StepTypeOK => EditorTypeOK
    BY DEF EditorTypeOK
  <1> QED BY <1>1, EditorRunsItsParts, CanvasTypes, InspectorTypes, AuthoringTypes, StepTypes, PTL
=============================================================================
