--------------------------- MODULE GithubDeploys ---------------------------
(***************************************************************************)
(* The GitHub App as a second source of deploys: repositories are linked   *)
(* to an organization, a spec file on a branch of a repository is mapped   *)
(* to a doc, and a push or pull request deploys the file to every doc it   *)
(* is mapped to.  Webhooks are processed as they arrive, so several are    *)
(* under way while people change links, mappings and docs.                 *)
(*                                                                         *)
(* Sources: backend github/, frontend .../[doc]/settings/route.ts.         *)
(***************************************************************************)
EXTENDS Naturals, FiniteSets

CONSTANTS Docs,         \* rows of Doc; an id is never used again
          Repos,        \* GitHub repositories
          Paths,        \* spec paths
          Contents,     \* contents of spec files
          GithubCalls,  \* webhooks and simulated pushes
          NoDoc,        \* no doc is assigned
          Absent,       \* no row, or no file
          MaxLinkEdits  \* bound: changes of links, mappings and docs

ASSUME LinksAssumption == NoDoc \notin Docs /\ Absent \notin Docs \union Contents \union {NoDoc} /\ MaxLinkEdits \in Nat

VARIABLES consumer,     \* a consumer is wired to the queue: the manual server does, main does not
          docs,         \* docs that exist
          repoDoc,      \* GithubRepository rows: the assigned doc
          mapped,       \* GithubRepoBranchMapping rows of one branch: the doc of a file
          settings,     \* a form of the settings page that calls the backend twice
          edits,
          hooks,        \* webhooks
          pushed        \* versions: doc, branch, content, and the webhook and file they came from

linkVars == <<docs, repoDoc, mapped, settings, edits>>
githubVars == <<consumer, linkVars, hooks, pushed>>

SpecFiles == Repos \X Paths
NoForm == [pc |-> "idle"]
NoHook == [pc |-> "idle"]
------------------------------------------------------------------------------
(***************************************************************************)
(* Links and mappings.                                                     *)
(***************************************************************************)
Linked(r) == repoDoc[r] # Absent
Change == edits < MaxLinkEdits /\ edits' = edits + 1

\* ON CONFLICT ("githubRepoId"): the row and its doc stay.
WithRepository(r) == IF Linked(r) THEN repoDoc ELSE [repoDoc EXCEPT ![r] = NoDoc]
LinkRepository(r) == Change /\ repoDoc' = WithRepository(r) /\ UNCHANGED <<docs, mapped, settings>>

AssignRepository(r, d) ==
    /\ Change /\ Linked(r) /\ d \in docs \union {NoDoc}
    /\ repoDoc' = [repoDoc EXCEPT ![r] = d]
    /\ UNCHANGED <<docs, mapped, settings>>

\* The mappings of the repository go with it.
UnlinkRepository(r) ==
    /\ Change /\ repoDoc' = [repoDoc EXCEPT ![r] = Absent]
    /\ mapped' = [s \in SpecFiles |-> IF s[1] = r THEN Absent ELSE mapped[s]]
    /\ UNCHANGED <<docs, settings>>

\* ON CONFLICT (repository, branch, path): the file moves to the doc.
WithMapping(s, d) == [mapped EXCEPT ![s] = d]
CreateMapping(s, d) ==
    /\ Change /\ Linked(s[1]) /\ d \in docs /\ mapped' = WithMapping(s, d)
    /\ UNCHANGED <<docs, repoDoc, settings>>

DeleteMapping(s) == Change /\ mapped' = WithMapping(s, Absent) /\ UNCHANGED <<docs, repoDoc, settings>>

\* Foreign keys: the assignment is set to null, mappings and versions are deleted.
DeleteDoc(d) ==
    /\ Change /\ d \in docs /\ docs' = docs \ {d}
    /\ repoDoc' = [r \in Repos |-> IF repoDoc[r] = d THEN NoDoc ELSE repoDoc[r]]
    /\ mapped' = [s \in SpecFiles |-> IF mapped[s] = d THEN Absent ELSE mapped[s]]
    /\ pushed' = {v \in pushed : v.doc # d}
    /\ UNCHANGED <<consumer, settings, hooks>>

\* create_and_link_repo: the second call assigns the row that the first has returned.
CreateAndLinkRepository(r, d) ==
    /\ settings.pc = "idle" /\ Change
    /\ d \in docs /\ repoDoc' = WithRepository(r)
    /\ settings' = [pc |-> "assign", repo |-> r, doc |-> d]
    /\ UNCHANGED <<docs, mapped>>

AssignCreated ==
    /\ settings.pc = "assign" /\ settings' = NoForm
    /\ repoDoc' = IF Linked(settings.repo) /\ settings.doc \in docs
                  THEN [repoDoc EXCEPT ![settings.repo] = settings.doc] ELSE repoDoc
    /\ UNCHANGED <<docs, mapped, edits>>

\* create_mapping: then the mappings of the doc are listed, and the new one is pushed for.
CreateDocMapping(s, d) ==
    /\ settings.pc = "idle" /\ Change
    /\ Linked(s[1]) /\ d \in docs /\ mapped' = WithMapping(s, d)
    /\ settings' = [pc |-> "simulate", spec |-> s, doc |-> d]
    /\ UNCHANGED <<docs, repoDoc>>

\* trigger_push and trigger_webhook: of a mapping the page shows.
TriggerPush(s) ==
    /\ settings.pc = "idle" /\ mapped[s] # Absent
    /\ settings' = [pc |-> "simulate", spec |-> s, doc |-> mapped[s]]
    /\ UNCHANGED <<docs, repoDoc, mapped, edits>>
------------------------------------------------------------------------------
(***************************************************************************)
(* Webhooks.                                                               *)
(***************************************************************************)
\* enqueue runs the consumer at once, or keeps the job where nothing takes it out.
Enqueued == IF consumer THEN "find" ELSE "kept"
Enqueue(j, r, target, tree) ==
    hooks' = [hooks EXCEPT ![j] = [pc |-> Enqueued, repo |-> r, branch |-> target, tree |-> tree,
                                   read |-> {}, todo |-> {}, now |-> {}, lost |-> {}]]

\* A push, or a pull request whose head is the mapped branch; other events change nothing.
ReceiveWebhook(j) ==
    /\ hooks[j].pc = "idle"
    /\ \E r \in Repos, target \in {"main", "pr"}, tree \in [Paths -> Contents \union {Absent}] :
          Enqueue(j, r, target, tree)
    /\ UNCHANGED <<consumer, linkVars, pushed>>

\* The commit of a simulated push does not exist.  In production, where main runs, the call is a 404.
SimulatePush ==
    /\ settings.pc = "simulate" /\ settings' = NoForm
    /\ IF consumer /\ mapped[settings.spec] = settings.doc
       THEN \E j \in GithubCalls : hooks[j].pc = "idle" /\ Enqueue(j, settings.spec[1], "main", [p \in Paths |-> Absent])
       ELSE UNCHANGED hooks
    /\ UNCHANGED <<consumer, docs, repoDoc, mapped, edits, pushed>>

\* Two reads, of the repository and of its mappings, which go with it.
FindMappings(j) ==
    /\ hooks[j].pc = "find"
    /\ LET found == {[path |-> s[2], doc |-> mapped[s]] :
                       s \in {t \in SpecFiles : t[1] = hooks[j].repo /\ mapped[t] # Absent}}
       IN  hooks' = [hooks EXCEPT ![j] = [@ EXCEPT !.pc = "next", !.read = found, !.todo = found]]
    /\ UNCHANGED <<consumer, linkVars, pushed>>

\* The loop is over.
EndPush(j) ==
    /\ hooks[j].pc = "next" /\ hooks[j].todo = {}
    /\ hooks' = [hooks EXCEPT ![j].pc = "done"]
    /\ UNCHANGED <<consumer, linkVars, pushed>>

\* The next file of the loop: its version is created, or it is left out.
Take(j, m) == hooks' = [hooks EXCEPT ![j] = [hooks[j] EXCEPT !.pc = "create", !.now = {m}, !.todo = @ \ {m}]]
LeaveOut(j, m, pc) ==
    hooks' = [hooks EXCEPT ![j] =
                 [hooks[j] EXCEPT !.pc = pc, !.now = {}, !.todo = @ \ {m}, !.lost = @ \union {m}]]
Continue(j, pc) == hooks' = [hooks EXCEPT ![j] = [@ EXCEPT !.pc = pc, !.now = {}]]

\* Mutant: a file that cannot be fetched ends the loop.
FetchSpecOrReturn(j) ==
    /\ hooks[j].pc = "next"
    /\ \E m \in hooks[j].todo :
          \/ hooks[j].tree[m.path] # Absent /\ Take(j, m)
          \/ LeaveOut(j, m, "done")
    /\ UNCHANGED <<consumer, linkVars, pushed>>

\* fetchSpecFromGithub answers null for a missing file and for every failure: continue.
FetchSpec(j) ==
    /\ hooks[j].pc = "next"
    /\ \E m \in hooks[j].todo :
          \/ hooks[j].tree[m.path] # Absent /\ Take(j, m)
          \/ LeaveOut(j, m, "next")
    /\ UNCHANGED <<consumer, linkVars, pushed>>

Holds(d, target, content) == \E v \in pushed : v.doc = d /\ v.branch = target /\ v.content = content

\* createQueuedVersion, in a transaction; findVersionByHash before it compares slugs with the
\* ids of the mapping and finds nothing, so the unique index is what refuses known content.
CreateVersion(j) ==
    LET h == hooks[j] IN
    /\ h.pc = "create"
    /\ \E m \in h.now :
          \/ /\ m.doc \in docs /\ ~Holds(m.doc, h.branch, h.tree[m.path])
             /\ pushed' = pushed \union
                     {[doc |-> m.doc, branch |-> h.branch, content |-> h.tree[m.path], hook |-> j, path |-> m.path]}
             /\ Continue(j, "enqueue")
          \/ /\ m.doc \notin docs \/ Holds(m.doc, h.branch, h.tree[m.path])
             /\ Continue(j, "next") /\ UNCHANGED pushed
    /\ UNCHANGED <<consumer, linkVars>>

\* The database or the object store fails: the catch is inside the loop.
PushedCreateFails(j) ==
    /\ hooks[j].pc = "create" /\ \E m \in hooks[j].now : LeaveOut(j, m, "next")
    /\ UNCHANGED <<consumer, linkVars, pushed>>

\* enqueueDeploy, which may throw into the same catch: the version stays queued.
EnqueuePushed(j) ==
    /\ hooks[j].pc = "enqueue" /\ Continue(j, "next")
    /\ UNCHANGED <<consumer, linkVars, pushed>>
------------------------------------------------------------------------------
GithubInit ==
    /\ consumer \in BOOLEAN /\ docs = Docs /\ edits = 0 /\ settings = NoForm
    /\ repoDoc \in [Repos -> {Absent, NoDoc}]
    /\ mapped \in {m \in [SpecFiles -> Docs \union {Absent}] : \A s \in SpecFiles : Linked(s[1]) \/ m[s] = Absent}
    /\ hooks = [j \in GithubCalls |-> NoHook] /\ pushed = {}

ManageLinks ==
    /\ \/ \E r \in Repos : LinkRepository(r) \/ UnlinkRepository(r)
       \/ \E r \in Repos, d \in docs \union {NoDoc} : AssignRepository(r, d)
       \/ \E s \in SpecFiles, d \in docs : CreateMapping(s, d)
       \/ \E s \in SpecFiles : DeleteMapping(s)
    /\ UNCHANGED <<consumer, hooks, pushed>>

SettingsPage ==
    /\ \/ \E r \in Repos, d \in docs : CreateAndLinkRepository(r, d)
       \/ AssignCreated
       \/ \E s \in SpecFiles, d \in docs : CreateDocMapping(s, d)
       \/ \E s \in SpecFiles : TriggerPush(s)
    /\ UNCHANGED <<consumer, hooks, pushed>>

ProcessPush(j) ==
    \/ FindMappings(j) \/ FetchSpec(j) \/ CreateVersion(j) \/ PushedCreateFails(j)
    \/ EnqueuePushed(j) \/ EndPush(j)

GithubNext ==
    \/ ManageLinks \/ SettingsPage \/ SimulatePush
    \/ \E d \in Docs : DeleteDoc(d)
    \/ \E j \in GithubCalls : ReceiveWebhook(j) \/ ProcessPush(j)

GithubSpec == GithubInit /\ [][GithubNext]_githubVars
------------------------------------------------------------------------------
GithubTypeOK ==
    /\ docs \subseteq Docs /\ edits \in 0..MaxLinkEdits
    /\ \A r \in Repos : repoDoc[r] \in docs \union {NoDoc, Absent}
    /\ \A s \in SpecFiles : mapped[s] = Absent \/ (mapped[s] \in docs /\ Linked(s[1]))
    /\ \A v \in pushed : v.doc \in docs /\ v.content \in Contents

(* A webhook that has been processed has brought the file of its commit to every doc that it
   read a mapping for, but to those that are gone and those whose fetch or insert failed, however
   the mappings changed and whatever else was deployed meanwhile; and no branch of a doc has two
   versions of one content, though the lookup before the insert finds nothing
   (github-worker.ts:25-119). *)
PushReachesEveryMapping ==
    /\ \A j \in GithubCalls : hooks[j].pc = "done" =>
           \A m \in hooks[j].read \ hooks[j].lost :
               m.doc \in docs => Holds(m.doc, hooks[j].branch, hooks[j].tree[m.path])
    /\ \A v, w \in pushed : v.doc = w.doc /\ v.branch = w.branch /\ v.content = w.content => v = w
=============================================================================
