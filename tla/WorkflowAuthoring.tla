------------------------- MODULE WorkflowAuthoring -------------------------
(***************************************************************************)
(* Stored workflows with their revisions, and the editor pages of several  *)
(* browser tabs that load, edit, save, create and delete them.  What a     *)
(* workflow contains is abstracted to the edits that have gone into it.    *)
(*                                                                         *)
(* A page keeps two copies: the list of workflows it was loaded with, and  *)
(* the editor's state.  Two effects run after every change: one loads the  *)
(* workflow of the route from the list when the editor holds another one,  *)
(* the other copies the editor's state into the list once it was saved.    *)
(*                                                                         *)
(* Sources: backend test-workflows/test-workflows.service.ts; frontend     *)
(* features/test-workflow-editor/model, page/dashboard-tests.              *)
(***************************************************************************)
EXTENDS Integers, FiniteSets

CONSTANTS MaxWorkflows,  \* bound: workflows that are ever created
          Tabs,          \* browser tabs
          NoPageTab,     \* the tab of a call whose page is gone
          EditorCalls,   \* calls to the API under way at a time
          MaxEdits       \* bound: edits that are ever made

ASSUME AuthoringAssumption == MaxWorkflows \in Nat /\ MaxEdits \in Nat

VARIABLES workflowRow,   \* TestWorkflow rows
          editor,        \* the editor's state in each tab
          workflows,     \* the list of each tab's page
          route,         \* the workflow of each page's address
          editorCall,    \* calls of the pages
          edits          \* edits made so far

authoringVars == <<workflowRow, editor, workflows, route, editorCall, edits>>

\* Ids grow with the time of creation; 0 is none.
WorkflowIds == 1..MaxWorkflows
NoWorkflow == 0
Edits == 1..MaxEdits
NoWorkflowRow == [state |-> "none", revision |-> 1, content |-> {}]
NotInList == [listed |-> FALSE, revision |-> 1, content |-> {}]
Entry(revision, content) == [listed |-> TRUE, revision |-> revision, content |-> content]
EmptyEditor == [workflow |-> NoWorkflow, revision |-> 1, content |-> {},
                dirty |-> FALSE, saving |-> FALSE, conflict |-> FALSE, saved |-> FALSE]
NoEditorCall == [pc |-> "idle", tab |-> NoPageTab, kind |-> "save", workflow |-> NoWorkflow, revision |-> 1,
                 content |-> {}, list |-> {}, result |-> "none"]
LiveWorkflow(w) == workflowRow[w].state = "live"
------------------------------------------------------------------------------
(***************************************************************************)
(* The page.                                                               *)
(***************************************************************************)
\* LOAD_WORKFLOW.
LoadWorkflow(w, entry) == [EmptyEditor EXCEPT !.workflow = w, !.revision = entry.revision, !.content = entry.content]

\* The workflow of the route, or else the newest one.
Current(list, r) ==
    LET listed == {w \in WorkflowIds : list[w].listed} IN
    CASE r \in listed -> r
      [] listed = {}  -> NoWorkflow
      [] OTHER        -> CHOOSE w \in listed : \A x \in listed : x <= w

\* The effects of one render: the list is synced from a saved editor, the editor loaded from the list.
SyncList(list, s) ==
    IF s.saved /\ s.workflow # NoWorkflow /\ list[s.workflow].listed
    THEN [list EXCEPT ![s.workflow] = Entry(s.revision, s.content)] ELSE list
LoadCurrent(list, r, s) ==
    LET w == Current(list, r) IN IF w \in {NoWorkflow, s.workflow} THEN s ELSE LoadWorkflow(w, list[w])

Render(t, list, r, s) ==
    /\ editor' = [editor EXCEPT ![t] = LoadCurrent(list, r, s)]
    /\ workflows' = [workflows EXCEPT ![t] = SyncList(list, s)]
    /\ route' = [route EXCEPT ![t] = r]

\* The server component lists the workflows and the page is mounted anew; old calls find no page.
Mount(t, r) ==
    LET Gone(call) == IF call.tab # t THEN call
                      ELSE IF call.pc = "answer" THEN NoEditorCall ELSE [call EXCEPT !.tab = NoPageTab] IN
    /\ Render(t, [w \in WorkflowIds |-> IF LiveWorkflow(w) THEN Entry(workflowRow[w].revision, workflowRow[w].content)
                                        ELSE NotInList], r, EmptyEditor)
    /\ editorCall' = [c \in EditorCalls |-> Gone(editorCall[c])]
    /\ UNCHANGED <<workflowRow, edits>>

\* The page is opened, reloaded, or navigation to another workflow has ended.
OpenWorkflow(t, w) == LiveWorkflow(w) /\ Mount(t, w)

\* The canvas, the inspector or the settings change the definition; the conflict overlay forbids it.
Edit(t) ==
    /\ editor[t].workflow # NoWorkflow /\ ~editor[t].conflict /\ edits < MaxEdits
    /\ edits' = edits + 1
    /\ Render(t, workflows[t], route[t], [editor[t] EXCEPT !.content = @ \union {edits + 1}, !.dirty = TRUE])
    /\ UNCHANGED <<workflowRow, editorCall>>

Ask(c, call) == editorCall[c].pc = "idle" /\ editorCall' = [editorCall EXCEPT ![c] = call]

\* The Save button waits for a save to end; Run saves a dirty workflow whether or not one is under way.
Save(t, c) ==
    /\ editor[t].workflow # NoWorkflow /\ ~editor[t].conflict /\ editor[t].dirty
    /\ LET s == editor[t] IN
       /\ Ask(c, [NoEditorCall EXCEPT !.pc = "read", !.tab = t, !.workflow = s.workflow, !.revision = s.revision,
                                      !.content = s.content])
       /\ Render(t, workflows[t], route[t], [s EXCEPT !.saving = TRUE])
    /\ UNCHANGED <<workflowRow, edits>>

HandleCreateWorkflow(t, c) ==
    /\ Ask(c, [NoEditorCall EXCEPT !.pc = "insert", !.tab = t, !.kind = "create"])
    /\ UNCHANGED <<workflowRow, editor, workflows, route, edits>>

HandleDeleteWorkflow(t, c) ==
    /\ editor[t].workflow # NoWorkflow /\ ~editor[t].conflict
    /\ Ask(c, [NoEditorCall EXCEPT !.pc = "read", !.tab = t, !.kind = "delete", !.workflow = editor[t].workflow,
                                   !.list = {w \in WorkflowIds : workflows[t][w].listed}])
    /\ UNCHANGED <<workflowRow, editor, workflows, route, edits>>
------------------------------------------------------------------------------
(***************************************************************************)
(* The service.                                                            *)
(***************************************************************************)
\* The answer of a call, which nobody awaits once the page is gone.
Answer(c, answer) ==
    editorCall' = [editorCall EXCEPT ![c] = IF @.tab \notin Tabs THEN NoEditorCall ELSE [answer EXCEPT !.pc = "answer"]]
Reply(c, result) ==
    Answer(c, [NoEditorCall EXCEPT !.tab = editorCall[c].tab, !.kind = editorCall[c].kind, !.result = result])

\* A name whose slug a workflow has, even one that was deleted, is refused.
CreateWorkflow(c) ==
    /\ editorCall[c].pc = "insert"
    /\ \/ /\ \E w \in WorkflowIds :
               /\ workflowRow[w].state = "none" /\ \A x \in WorkflowIds : x < w => workflowRow[x].state # "none"
               /\ workflowRow' = [workflowRow EXCEPT ![w].state = "live"]
               /\ Answer(c, [editorCall[c] EXCEPT !.result = "done", !.workflow = w])
       \/ Reply(c, "refused") /\ UNCHANGED workflowRow
    /\ UNCHANGED <<editor, workflows, route, edits>>

\* requireWorkflow, then the revision that was expected; the definition is validated here.
RequireWorkflow(c) ==
    /\ editorCall[c].pc = "read"
    /\ LET w == editorCall[c].workflow IN
       IF ~LiveWorkflow(w) THEN Reply(c, "refused")
       ELSE IF editorCall[c].kind = "save" /\ workflowRow[w].revision # editorCall[c].revision THEN Reply(c, "conflict")
       ELSE \/ editorCall' = [editorCall EXCEPT ![c].pc = "update"]
            \/ editorCall[c].kind = "save" /\ Reply(c, "refused")
    /\ UNCHANGED <<workflowRow, editor, workflows, route, edits>>

\* Mutant: the UPDATE does not look at the revision again.
UpdateWorkflowById(c) ==
    /\ editorCall[c].pc = "update" /\ editorCall[c].kind = "save"
    /\ workflowRow' = [workflowRow EXCEPT ![editorCall[c].workflow].revision = @ + 1,
                           ![editorCall[c].workflow].content = editorCall[c].content]
    /\ Answer(c, [editorCall[c] EXCEPT !.result = "done",
                                       !.revision = workflowRow[editorCall[c].workflow].revision + 1])
    /\ UNCHANGED <<editor, workflows, route, edits>>

\* UPDATE ... WHERE revision = $6 AND deletedAt IS NULL; the answer is the row.
UpdateWorkflow(c) ==
    /\ editorCall[c].pc = "update" /\ editorCall[c].kind = "save"
    /\ LET w == editorCall[c].workflow
           r == editorCall[c].revision IN
       IF LiveWorkflow(w) /\ workflowRow[w].revision = r
       THEN /\ workflowRow' = [workflowRow EXCEPT ![w].revision = r + 1, ![w].content = editorCall[c].content]
            /\ Answer(c, [editorCall[c] EXCEPT !.result = "done", !.revision = r + 1])
       ELSE Reply(c, "conflict") /\ UNCHANGED workflowRow
    /\ UNCHANGED <<editor, workflows, route, edits>>

\* A soft delete, whatever the revision.
DeleteWorkflow(c) ==
    /\ editorCall[c].pc = "update" /\ editorCall[c].kind = "delete"
    /\ workflowRow' = [workflowRow EXCEPT ![editorCall[c].workflow].state = "deleted"]
    /\ Answer(c, [editorCall[c] EXCEPT !.result = "done"])
    /\ UNCHANGED <<editor, workflows, route, edits>>

\* The call or its answer is lost; the row may have been written.
EditorCallFails(c) ==
    /\ editorCall[c].pc \in {"read", "insert", "update", "answer"} /\ editorCall[c].result # "refused"
    /\ Reply(c, "refused")
    /\ UNCHANGED <<workflowRow, editor, workflows, route, edits>>
------------------------------------------------------------------------------
(***************************************************************************)
(* Answers.                                                                *)
(***************************************************************************)
Answered(c, kind, result) ==
    /\ editorCall[c].pc = "answer"
    /\ editorCall[c].kind = kind /\ editorCall[c].result = result
    /\ editorCall' = [editorCall EXCEPT ![c] = NoEditorCall]
    /\ UNCHANGED <<workflowRow, edits>>

\* SAVE_SUCCESS loads what was saved over what was edited meanwhile, whatever the editor holds.
SaveSucceeded(c) ==
    /\ Answered(c, "save", "done")
    /\ LET a == editorCall[c] IN
       Render(a.tab, workflows[a.tab], route[a.tab],
              [LoadWorkflow(a.workflow, Entry(a.revision, a.content)) EXCEPT !.saved = TRUE])

\* SAVE_CONFLICT, SAVE_FAILURE.
SaveRefused(c) ==
    \E result \in {"conflict", "refused"} :
        /\ Answered(c, "save", result)
        /\ LET t == editorCall[c].tab IN
           Render(t, workflows[t], route[t],
                  [editor[t] EXCEPT !.saving = FALSE, !.conflict = @ \/ result = "conflict"])

\* The new workflow is listed and loaded; the address changes when navigation ends.
Created(c) ==
    /\ Answered(c, "create", "done")
    /\ LET a == editorCall[c] IN
       Render(a.tab, [workflows[a.tab] EXCEPT ![a.workflow] = Entry(1, {})], route[a.tab],
              LoadWorkflow(a.workflow, Entry(1, {})))

\* The list is the one of the click without the workflow: one created meanwhile leaves it again.
Deleted(c) ==
    /\ Answered(c, "delete", "done")
    /\ LET a == editorCall[c] IN
       Render(a.tab, [w \in WorkflowIds |-> IF w \in a.list \ {a.workflow} THEN workflows[a.tab][w] ELSE NotInList],
              route[a.tab], editor[a.tab])

\* An error is shown.
CallRefused(c) ==
    /\ \E kind \in {"create", "delete"} : Answered(c, kind, "refused")
    /\ UNCHANGED <<editor, workflows, route>>
------------------------------------------------------------------------------
AuthoringInit ==
    /\ workflowRow = [w \in WorkflowIds |-> NoWorkflowRow]
    /\ editor = [t \in Tabs |-> EmptyEditor]
    /\ workflows = [t \in Tabs |-> [w \in WorkflowIds |-> NotInList]]
    /\ route = [t \in Tabs |-> NoWorkflow]
    /\ editorCall = [c \in EditorCalls |-> NoEditorCall]
    /\ edits = 0

EditorService(c) ==
    \/ CreateWorkflow(c) \/ RequireWorkflow(c) \/ UpdateWorkflow(c) \/ DeleteWorkflow(c) \/ EditorCallFails(c)
    \/ SaveSucceeded(c) \/ SaveRefused(c) \/ Created(c) \/ Deleted(c) \/ CallRefused(c)

AuthoringNext ==
    \/ \E c \in EditorCalls : EditorService(c)
    \/ \E t \in Tabs, c \in EditorCalls : Save(t, c) \/ HandleCreateWorkflow(t, c) \/ HandleDeleteWorkflow(t, c)
    \/ \E t \in Tabs : Edit(t) \/ \E w \in WorkflowIds : OpenWorkflow(t, w)

AuthoringSpec == AuthoringInit /\ [][AuthoringNext]_authoringVars
------------------------------------------------------------------------------
(* Every variable stays in its range. *)
AuthoringTypeOK ==
    /\ workflowRow \in [WorkflowIds ->
           [state : {"none", "live", "deleted"}, revision : 1..MaxEdits + 1, content : SUBSET Edits]]
    /\ editor \in [Tabs -> [workflow : WorkflowIds \union {NoWorkflow}, revision : 1..MaxEdits + 1, content : SUBSET Edits,
                            dirty : BOOLEAN, saving : BOOLEAN, conflict : BOOLEAN, saved : BOOLEAN]]
    /\ workflows \in [Tabs -> [WorkflowIds -> [listed : BOOLEAN, revision : 1..MaxEdits + 1, content : SUBSET Edits]]]
    /\ route \in [Tabs -> WorkflowIds \union {NoWorkflow}]
    /\ edits \in 0..MaxEdits

(* "Workflow updates use optimistic revisions" (SYSTEM_DESIGN.md:619): whatever tabs load, edit
   and save at the same time, and however often Run saves again, a save contains everything
   that had been saved before (test-workflows.service.ts:176, 251). *)
SavesBuildOnLatest ==
    [][\A w \in WorkflowIds : workflowRow[w].content \subseteq workflowRow'[w].content]_authoringVars
=============================================================================
