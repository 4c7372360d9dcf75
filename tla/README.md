# bumd: a TLA+ verification project

bumd publishes API documentation: clients deploy OpenAPI and AsyncAPI specs, a worker
validates, diffs, indexes and announces each version, readers browse, search and try the
documented API in a portal, and *test workflows* call it and record what happened. This
directory models the parts whose correctness depends on the order of asynchronous steps
(database statements, queue jobs, HTTP answers, React callbacks), checks the models with
TLC and proves the most important invariants with TLAPS.

Paths below are relative to `src/`. `runner/` stands for
`apps/backend/src/test-workflows/runner/`, `versions/`, `webhooks/`, `catalog/`, `auth/`,
`github/` and `search/` for the directories of `apps/backend/src/`, `frontend/` for
`apps/frontend/src/`.

## 1. Inventory

| Component | State it keeps | Operations | What is hard |
|---|---|---|---|
| Test workflow runs (`test-workflow-runs.service.ts`, `runner/`) | run and step rows, the BullMQ job, the memory of `executeRun` | create, enqueue, cancel, process, reap | cancellation against completion, crash and redelivery, a reaper that guesses, two workers on one run |
| Execution of a step (`runner/test-workflow-step-executor.ts`, template, assertions, exports, redaction) | the step row, exported values in memory | interpolate, send, assert, export, redact | what a redelivered job still knows; types of values; secrets |
| Workflow definitions (schema, graph, validator) | none | validate, order, search | cycles, duplicate edges, phases against dependencies |
| Workflow storage and editor (`test-workflows.service.ts`, `use-workflow-editor`) | rows with a revision; a list and an editor per tab | create, update, delete, load, save, retry | optimistic revisions, edits while a save is in flight |
| Canvas and inspector (`test-workflow-canvas.tsx`, `node-inspector.tsx`, `request-template-editor.tsx`) | nodes, edges, forms | draw, connect, set a phase, edit a request | two validators written apart; callbacks of old renders |
| Run console (`use-run-workflow.ts`) | interval, run id, status | run, poll, cancel | answers out of order |
| Test environments (service and modal) | environment rows with write-only values | create, update, delete | overlapping transactions, secrets kept unseen |
| Deploy pipeline (`versions/`) | branch, version, artifact, diff, job rows; the BullMQ job; the index | deploy, process | racing deploys, unique indexes, retries that repeat inserts |
| Webhook delivery (`webhooks/`) | endpoint rows, delivery rows, delayed jobs | edit endpoints, enqueue, deliver, retry | crash between POST, record and enqueue; edits meanwhile |
| GitHub integration (`github/`, settings page) | links, mappings | link, map, push, pull request | a loop over mappings that change |
| Dashboard sessions (`auth/dashboard-auth.service.ts`, `auth.ts`) | users, sessions, the browser's cookie | sign up, sign in, refresh, log out | rotation under concurrent refreshes |
| Invites and membership (`catalog/`, `auth/`) | invites, memberships | invite, accept (two ways), revoke, change role, remove | check-then-act without a transaction |
| API tokens (`auth/api-token*`, `github-oidc-*`) | token rows | issue (four ways), revoke, guard | a call admitted while its token is revoked |
| Dashboard pages (`page/dashboard-*`) | React state | list, create, edit, delete | dialogs closed while they load |
| Portal and Try-it-out (`portal-doc`, `try-it-out*`) | cached version, modal, draft | select, edit, send | stale pages, conversions of a body |
| Portal search (`search/`, `search-box`) | the index, hits | replace documents, search | ids of rows against slugs |
| GitHub action and CLI (`packages/github-action`, `apps/cli`) | a sticky comment, two files | deploy, diff, login, ... | concurrent runs |
| Diff engine, in-memory stores, catalog reads, object storage, rate limiter, rendering | external or none | pure or single calls | nothing that several steps share |

How they interact. The HTTP API writes a row and adds a BullMQ job; workers in the same
image take jobs, write rows and call other components. A deploy job calls the diff engine,
the object store, the search index and the webhook dispatcher, which adds delivery jobs.
A run job reads the definition's snapshot and calls the Try-it-out proxy. Pages render rows
and keep copies of them in React state. Nothing but rows, jobs, the index and the cookie
outlives a process or a page, so each question about interleaving is one about the order of
SQL statements, Redis calls, answers and crashes: the models make each awaited call, each
click and each answer an action.

What makes each correct is stated by the properties of section 3, one line each there.

## 2. Modules

| Module | Models | State and actions |
|---|---|---|
| `WorkflowGraph` | graph vocabulary | phases, ancestors, linear extensions; no state |
| `RunContract` | abstract: what a run promises a reader of its rows | five row variables; `Begin`, `Conclude`, `Interrupt`, ... |
| `TestWorkflowRun` | creation, cancellation, job, workers, reaper, clock | columns of the run and step rows, `job`, `local[w]` with a program counter; one action per awaited call of `process` and `executeRun` |
| `StepExecution` | a plan of steps: template, request, assertion, export, redaction | a value is its kind and the step it comes from; `DeliveredAgain` is a crash with redelivery |
| `WorkflowValidation` | the functions on a definition: both validators, Kahn's order, the searches, the phase cut | no state; the loops are recursive functions of the round |
| `WorkflowDefinition` | every definition of the right shape a client may send | nodes, edges with their ids, export names and reads that grow; the properties of `WorkflowValidation` |
| `WorkflowAuthoring` | stored workflows and editor tabs | rows, list and editor per tab, calls under way |
| `WorkflowCanvas` | drawing | nodes, edges and exports as the editor keeps them |
| `NodeInspector` | the inspector's form and late file reads | content is the set of nodes its author was editing |
| `RunConsole` | Run, polls, cancel | intervals, the timer that can be cleared, polls that overtake each other |
| `TestEnvironments` | service transactions and modal | statement by statement under READ COMMITTED with row locks |
| `DeployPipeline` | one branch from the API call to the announced version | `version[d]` is the row with its artifact, diff and job rows; `createQueuedVersion` is BEGIN, lock and MAX, COMMIT; indexing deletes the branch's documents, then adds the version's |
| `DeliveryContract` | abstract: what delivery promises an endpoint | announced, pending, closed; requests per attempt |
| `WebhookDelivery` | endpoints, fan-out, jobs, workers | one action per awaited call of the dispatcher |
| `DeployDelivery` | deploy pipeline and webhook delivery composed | the worker's announcement is the dispatcher's fan-out |
| `GithubDeploys` | links, mappings, webhooks | the worker's loop over the mappings it has read |
| `DashboardSessions` | accounts, sessions, one browser | a refresh is check under the row's lock, rotation, answer; a logout is the guard's read, then the UPDATE |
| `Membership` | members and invites | role read before the call; the dashboard's accept is a transaction that lets test invites be accepted again, the token API's is three statements |
| `ApiTokens` | tokens and guards | lookup, verification, admission are separate steps |
| `ManagementPages` | four dashboard pages | list, dialogs, one-time secret, calls |
| `TryItOut`, `RequestDraft` | portal page, proxy; the draft's three tabs | versions, cached page, modal, calls; texts are kinds |
| `PortalSearch` | index, controller, search box | two requests replace a branch's documents |
| `DeployClients` | action and command line | runs with their comment, commands with their files |

`MC*` modules instantiate them. `MCDeploys`, `MCClients` and `MCWorkflowEditor` hold several
modules that share no state: a variable `subject`, chosen once, says which of them moves,
so state spaces add up where they would multiply. `*_proofs` modules hold the theorems.

Two abstract specifications are refined: `TestWorkflowRun` implements `RunContract` with the
row variables mapped to themselves (`ImplementsContract`), `WebhookDelivery` implements
`DeliveryContract` with the stage of a delivery computed from fan-out, jobs and senders
(`DeliveryKeepsContract`).

## 3. Runs

Symmetry is used where ids are compared for equality only, and in no run with a liveness
property (in `clients`: of the calls, which the models tell apart by nothing else). `CHECK_DEADLOCK FALSE` everywhere: a run that ended, a workflow that cannot grow,
a page whose bound of edits is used up stop.

| Run | Checks |
|---|---|
| `one_worker` | four workflows of four nodes, one live worker, one redelivery, failing calls, cancel, reaper: `TestsRunAfterAncestors`, `TeardownAfterBody`, `StatusTellsSteps`, `DroppedWithCause`, `FirstDeliveryResolves`, `SettledRunStays`, `ImplementsContract`, `RunningRunEnds` |
| `two_workers` | one workflow, two workers whose locks lapse: `CanceledWasRequested`, `RequestsPerDelivery` |
| `deploys` | two racing deploys with two workers and two faults on a version; two GitHub webhooks with changing links: `OneVersionPerContent`, `PublishedVersionsAreWhole`, `JobEndTellsVersion`, `PushReachesEveryMapping` |
| `deploy_outcome` | pipeline and dispatcher composed: `EndpointsHearTheTruth`, `OutcomeReachesEndpoints`, `JobEnds` |
| `webhook_log` | one event, one endpoint that is edited, disabled, deleted; stalls and a crash: `DeliveryLogIsTrue`, `DeliveryKeepsContract`, `DeliveriesClose` |
| `clients` | ten subjects: `OneLivePerLogin`, `InviteAdmitsOnce`, `RevokedTokensStopWorking`, `OneSubmitAtATime`, `ValuesAreTheLastTyped`, `AnswersFitThePage`, `RequiredBodiesAreSent`, `GatesAndCommentsHold`, `RunningIsPolled` |
| `editor` | five subjects: `AcceptsExactlyDags`, `PhasedOrderIsTopological`, `SearchesAreReachability`, `ProducersRunFirst`, `CanvasBuildsValid`, `TemplatesStayWithTheirNode`, `StepsSendWhatWasProduced`, `SavesBuildOnLatest` |
| `redelivery`, `reaped`, `deploy_retry`, `session`, `search` | counterexamples to statements of the repository, below |

Each property's comment in its module says what it means and which lines it is about.
`one_worker`, `clients` and `editor` carry one type invariant each.

### Bounds

* *Workflows* are a setup/test chain, a setup chain whose middle is skipped, a test chain
  that reads a grandparent's export, and chained teardown: every branch of `executeRun`
  (skip, block, sweep as skipped or canceled, teardown dependency) has one that reaches it.
* *`MaxStalledCount = 1`* is BullMQ's default: one redelivery, then the job fails.
* *`LockMayLapse`* is FALSE where the contract is checked and TRUE in `two_workers`: with
  two live workers a step is executed again (section 6).
* *Definitions* up to three nodes and three edges give cycles up to three, self-loops,
  duplicated edges and disconnected nodes; edges, exports and reads are three together, so a
  read of an exported value comes with at most two edges, which is a path from one end to the
  other, and two exports of one name with one edge. If an edge has the id of another they are
  the only two. The canvas has the same three ids, and three edges and exports together; an
  export has the name a new one gets or another.
* *Deploys*: two calls and two workers meet in every race of the transaction; each diff has
  zero or one candidate base. Specs are two good ones and a bad one, so that content
  repeats, differs or fails; the good ones have operations to index in `deploys`, and the one
  in `deploy_outcome` has none. `MaxFaults = 2` combines any two of crash, failing call and
  lost event; `MaxAttempts = 3` is the queue's.
* *GitHub*: two webhooks, two docs, two paths, one change of a link or doc between any two
  steps, and every tree of one content or nothing per path.
* *Webhooks*: five attempts (the retry table), one stall and one crash of a sender, one
  edit of the endpoint, answers 200, 404 or none.
* *Sessions*: two GitHub accounts with the address of one person, two requests at a time,
  three sessions: enough for a login, a rotation and a second login or rotation.
* *Members*: two users, two calls, one invite in a behaviour, ordinary or a test invite;
  *tokens*: two plaintexts with one prefix.
* *Pages, environments, Try-it-out, console, action*: two calls or runs at a time, which is
  what an answer needs to overtake another; two environments with one variable, two saves;
  versions up to two; `MaxTyped = 4` edits of a draft, `MaxInspected = 4` of the inspector;
  three comments with two to a page; `MaxPolls = 3` of the device login.
* *Steps*: three, so that a value passes over a step that fails or is skipped; one
  redelivery. The first or second exports `x`, a reader may export `y`, and each name is exported
  once, as the validator demands. The third step reads and exports nothing.

Model values stand for content. Where a text's form matters (empty, an object, not JSON; a
whole reference or one inside a text) it is a member of a small set of forms.

### What the violations show

* `redelivery`: a redelivered run has lost the exports of finished steps, so tests fail
  although their ancestors succeeded (ARCHITECTURE.md:160).
* `reaped`: a run of more than ten minutes is failed as interrupted while its worker goes
  on; steps do not refresh `updatedAt`.
* `deploy_retry`: after one fault behind `recordDiff` no retry can succeed
  (SYSTEM_DESIGN.md:697).
* `session`: pages read the cookie and never run the callback that refreshes it, so a page
  is refused after 15 minutes of a 30-day session (SYSTEM_DESIGN.md:319).
* `search`: documents are indexed under row ids and looked for under slugs, so nothing is
  found with the database store (ARCHITECTURE.md:164).

## 4. Fairness

* `TestWorkflowRun`: weak fairness of each worker's steps and of taking a job (an await
  returns or throws, BullMQ polls), of the stalled check, of the clock and of the reaper
  (`setInterval`). Clients, crashes and failures get none. `RunningRunEnds` needs the
  reaper: a worker may die with its redeliveries used up. Nothing says that a *queued* run
  starts: when Redis is down after the commit it never does (SYSTEM_DESIGN.md:667).
* `WebhookDelivery`: weak fairness of the adds of a fan-out, of senders, and of the queue
  (handing out a job, the stalled check). `DeliveriesClose` holds with faults and edits.
* `DeployDelivery`: the same for deploy workers and their queue, with the dispatcher's.
  `JobEnds` is about the job: the *version* of a job that ended by stalls, or by a failure
  outside the `try`, may stay `processing`, so `JobEndTellsVersion` speaks of versions no
  fault has hit.
* The other modules state no fairness and no liveness: a person may stop clicking.

## 5. Proofs

Every theorem holds for all values of the constants that satisfy the named assumptions
(finite sets where needed, sentinels outside of the sets they extend, bounds natural).
An invariant a run checks is in the list with the same name and `Holds`.

* `TestWorkflowRun_proofs`, of the contract and of the detailed model.
  * `ContractSpec`: `TestsRunAfterAncestors`, `TeardownAfterBody`, `StatusTellsSteps`,
    `DroppedWithCause`, `SettledRunStays`, `TerminalStepsFinal`. They are proved one on top of
    the other: a step that succeeded never changes, so what `MayBegin` required stays true; a
    decided step is never queued again; `Conclude` alone writes a worker's verdict.
  * `Spec`, lapsing locks included: `TypeCorrect`, `CanceledWasRequested`. A worker writes
    `canceled` from its flag, not from the row; the invariant adds `MemoryAgrees`: a set flag
    means a request that no step takes back.
* `RunRefinement_proofs`: that the worker keeps the contract.
  * `ImplementsContractHolds`: without lapsing locks every step of `TestWorkflowRun` is a
    step of `RunContract` or a stutter, for every workflow; `ContractPromisesHold` carries the
    theorems above over to the detailed model. `FirstDeliveryFollowsContract` says the same of
    each step before the first redelivery, whatever the locks do.
  * The invariant `RunInv`: one worker at a time processes the job (`OneProcesses`), what it
    remembers of nodes and statuses is what the rows say (`MemoryInv`), and the rows are as far
    as its phase, its list and its program counter (`RowsInv`). The topological order is used
    through its two facts only: it lists the nodes of a phase once, ancestors first.
  * `FirstDeliveryResolvesHolds` follows from `RunInv` and holds with lapsing locks too, since
    a lock lapses only by handing the job out again.
  * `RequestsPerDeliveryHolds`: for each node, requests sent, requests a worker may still
    send (`Pending`) and the job that waits to be taken together are at most one more than the
    redeliveries.
* `Deploys_proofs`, of `DeployPipeline`: `PipelineTypeCorrect`, `OneVersionPerContent`,
  `PublishedVersionsAreWhole`, `JobEndTellsVersion`. The invariant has three further parts:
  `StoreInv` (a call past MAX holds the branch row, and its number is above every committed
  one), `WorkersProgress` (what an attempt's program counter says it has stored is stored) and
  `ReadyIsPublished`. `JobEndTellsVersion` adds the story of each version that no fault has hit
  (`Stories`): which statuses its rows may have at each program counter and job state.
  `EventsAreTrue` says what an announced event tells: a new version is published with its
  artifact and its diff, a failed one has a bad spec or was hit by a fault. What a version has
  reached it keeps, so an event stays true. Its place in the index it does not keep, since a
  worker that publishes deletes all documents of the branch first. `IndexInv` says what is
  left: only published versions with operations are indexed, and when all of them have some,
  no fault has hit and no worker is between its two requests, the index is not empty once a
  version was announced.
* `WebhookDelivery_proofs`: `HookTypesCorrect`, the refinement `DeliveryKeepsContract`, and
  `DeliveryLogIsTrue`. A job is held by one worker at most; requests of an attempt never
  exceed its stalls plus one; the next attempt's job is added while the job of the one before
  is active, so a closed delivery, all of whose jobs are over, gets none. For the log, an
  untroubled delivery relates rows, jobs and holder: rows number the attempts from one and all
  but the last retry (`RowsFit`), jobs up to the last row are over (`JobFits`), and the
  holder's program counter tells whether its own row is there (`HolderFits`).
  * The composition `DeployDelivery`: a step of the system is a step of the deploy pipeline
    or leaves it alone (`SystemRunsThePipeline`), and likewise of the dispatcher, so the
    theorems of both parts hold of the whole (`SystemKeepsVersions`,
    `SystemKeepsDeliveries`, `SystemTypesCorrect`). `EndpointsHearTheTruth` joins them: an
    event handed to an endpoint was announced by the worker, and what is announced is true.
* `Deploys_proofs`, of `GithubDeploys`: `GithubTypeCorrect`, `PushReachesEveryMapping`. Every mapping a
  webhook has read is still to do, in hand, left out, of a deleted doc, or held by a version.
* `Accounts_proofs` has three specifications.
  * `SessionSpec`: `SessionsTypeCorrect`, `OneLivePerLogin`. A refresh past its check holds
    the row of a live session alone; rows are created in order, so a new login has no row yet;
    a live session is the latest of its login (`LiveIsLatest`), so a login whose latest session
    a logout has revoked has no live one, and gets none, since only a live one is rotated. A
    logout whose UPDATE found the latest session replaced is not among these.
  * `MemberSpec`: `MembersTypeCorrect`, `InviteAdmitsOnce` (an action property). The
    transaction holds the row it has checked until the commit (`CommitsHoldRows`); the claim of
    a token call is harmless while the row is as it was read (`DueRow`), and the property names
    the step in which it is not (`ClaimRaced`) and the test invites as the two exceptions.
  * `TokenSpec`: `TokensTypeCorrect`, `RevokedTokensStopWorking`. What is dead stays dead, the
    lookup takes a live row, a plaintext is never issued again.
* `Clients_proofs`, of the six modules of pages and clients and of the instance `MCClients`.
  * `OneSubmitAtATime`: of two submits none begins while the dialog loads, and only the
    submit's answer, or leaving the page, ends the loading.
  * `ValuesAreTheLastTyped`: a transaction holds its row from before the read to the commit,
    so what it has read is what is stored, and rows locked by two are disjoint.
  * `AnswersFitThePage`: a version's documents do not change, so an answer that is late is
    still about its version; the modal has one call, and it is of the operation it shows.
  * `RunningIsPolled` is inductive. `RequiredBodiesAreSent` needs the tab and the text typed.
  * `GatesAndCommentsHold`: a stored diff stays; the page a run has looked at last, and what it
    has found there, fits the comments as long as no other run writes in between.
  * `ClientsTypeOK`, which joins the types of all ten subjects: the console polls only runs
    that exist (`AskedRunsExist`), the versions of the deploy clients differ in content
    (`ContentsDiffer`), and the rows of a draft stay within their bound.
* `Editor_proofs`, of the modules around the workflow editor and of the instance
  `MCWorkflowEditor`.
  * `SavesBuildOnLatest` (an action property): a list, an editor or a save under way that
    names the stored revision has all of the stored content (`Fits`), so the update that the
    revision lets through adds to it.
  * `TemplatesStayWithTheirNode`: while the request tab is shown its form holds only what was
    typed for the selected node (`ShowsNode`), and a file that reports to a tab that was not
    left finds it on the node that chose it.
  * `StepsSendWhatWasProduced`: steps begin in order (`InOrder`), so what a step reads is
    decided when it begins; a value in memory is what a step of that name that succeeded has
    produced (`VarFits`), a name without a value has, in the first delivery, no such step, and
    no two steps export one name (`ValidPlan`).
  * `EditorRunsItsParts`: every behaviour of the instance is one of each of its five modules,
    so a theorem about a module is one about the run that checks it.
  * `EditorTypeOK` follows from the types of the parts, of which two are not obvious.
    `AuthoringTypes` bounds the revisions, which no guard does: each revision past the first
    is paid for by an edit. By `RevisionsCost` a stored revision is at most one above the
    number of edits, and not above it while an editor with edits or a save under way names
    it: nothing is pending at a revision just stored until somebody edits. `InspectorTypes` types the template of every drafted node and,
    with it, what a file that is read late was chosen over.

* `WorkflowDefinition_proofs`, of the algorithms on a definition and of the canvas, for
  graphs of every size.
  * The loops are recursive functions of the round, and the library's induction is of no use
    here (its theorems take an operator). `NumbersInSet` replaces it: a set of numbers with
    0 that is closed under +1 has them all, from the least number outside. So an invariant
    of a round (`KahnInv`, `SearchInv`) holds after any number of rounds.
  * `AcceptsExactlyDags`: in-degrees count the edges that do not come from the order so far,
    and the nodes with none are those ordered or queued; after one round per node the queue
    is empty, and a node is left out exactly when one depends on itself (`KahnDecides`:
    one with as many descendants as any other left out has a predecessor left out, with more).
  * `SearchesAreReachability`: what was popped has all its children found, and every round
    takes a node off the stack for good, so one round per edge and one for the start suffice.
    `getAncestors` is the search on the edges read backwards (`ReachedBackwards`).
  * `PhasedOrderIsTopological`: cutting an order by phase and joining the parts again keeps
    it topological when no edge leads back (`PhasesKeepOrder`). `ProducersRunFirst` adds that
    a node's ancestors come earlier.
  * `AcceptedPlansAreDefinitionsHolds` links the components: what `executeRun` computes from an
    accepted definition is an `IsDefinition`, which is all that `DefinitionsAssumption` asks
    of the workflows that `RunContract` and `TestWorkflowRun` run.
  * `CanvasBuildsValid`: a drawing has unique ids and no cycle, since an edge is drawn only when
    its source is not reachable from its target (`EdgeAdded`), and deleting makes none. So the
    server's verdict is decided by the names of the exports alone. `CanvasTypes` needs
    `ExportsInv`: exports go with their node.

Only model-checked is liveness, which is out of the prover's reach: `RunningRunEnds`,
`DeliveriesClose`, `JobEnds` and `OutcomeReachesEndpoints`. Every invariant and every action
property of a run without a counterexample, and both refinements, have a theorem. The five
counterexamples are TLC's.

## 6. Observed limits of the code

The models follow the code in these points, and no property asserts the contrary.

* *Runs.* A cancellation after the worker's last check does not win, though
  SYSTEM_DESIGN.md:661 says cancellation does. Overlapping deliveries execute a step again
  (SYSTEM_DESIGN.md:663). A failing export loses the results of the assertions. An expected
  text never equals a number; a status compared by `in` with a number, or by `equals` with
  a list, never passes. A replaced
  value with `$&` in it is expanded by `String.replace`.
* *Deploys.* A failure after `markVersionReady` marks a published version failed, and a
  worker that dies there leaves it unindexed and unannounced. Indexing deletes the documents
  of the whole branch in one request and adds the version's in another: of two workers that
  publish at the same time one may delete what the other has added, an older version may
  replace a newer one's documents, both may stay side by side, and a failure between the two
  requests, or a version without operations, leaves the branch with none. The property names read from a
  diff row differ from the column aliases, so `diff.breaking_detected` is never sent. A
  version committed before its job could be added stays queued, and later deploys of the
  spec are skipped.
* *GitHub.* Nothing in `main` consumes the queue, only `testing/manual-server.ts` does
  (`consumer`). `findVersionByHash` compares ids with slugs and finds nothing; the unique
  index refuses the repeated version. In production the settings form creates its mapping
  and then gets a 404 for the simulated push, whose commit would not exist anyway.
  Unassigning a repository's doc keeps its mappings deploying. Webhooks of two pushes may
  be processed out of order.
* *Dashboard.* The last owner can be removed. Two environments can both be the default
  (SYSTEM_DESIGN.md:292). Logging out of the command line revokes nothing. A logout on the
  dashboard that the guard refuses, because the credential is 15 minutes old, is ignored by
  the page, and one overtaken by a refresh finds its session revoked already and is answered
  as a success: either way the session lives on. The token API marks an invite accepted
  whatever happened to it since it was read, and the dashboard accepts the invites of three
  test tokens again (`auth/dashboard-auth.service.ts:227`).
* *Portal.* The panel keeps the result of another operation; search answers arrive out of
  order; a doc without a ready version fails to load, an unreadable spec shows an empty page.
* *Draft and inspector.* A file read late undoes the edits made since, in the inspector all
  edits of the template. Changing tabs turns texts like `1` and `true` into numbers and
  booleans, nested values into `[object Object]`.
* *Canvas.* A phase set after an edge was drawn may make a drawing the server refuses. Two new
  exports have the same name until one is renamed, and the server refuses to save them.
* *Run console.* The late answer of a former run shows that run's status, and if the run is
  over it stops the polling of the new one.
* *Clients.* Versions carry no `hasBreaking`, so `bumd diff` always fails; there is no route
  for `bumd versions`. The preview's classification is always `none`. Concurrent runs, or
  more than a page of comments, leave several sticky comments
  (docs/guides/github-actions-deploy.md:69). An unreadable `auth.json` fails a command whose
  token is in the environment, an unreadable `.bumd.json` one whose flags say everything;
  the `apiUrl` that login stores is not used.

## 7. Not modelled, and why

* *Diff engine*: runs an external program; its result is chosen freely where it matters.
* *OpenAPI and AsyncAPI rendering, layout, catalog reads*: pure functions and single reads.
* *In-memory stores and queues*: fallbacks without Redis and PostgreSQL, single-threaded.
* *Object storage*: a thin client; its failures are faults of `DeployPipeline`.
* *Rate limiter and run history*: arithmetic in one process, a sorted list with a cursor.
* *A call that is applied although its caller sees an error*: a failing store call leaves
  the database as it was, except where an UPDATE is followed by a separate re-read.
* *Several branches of deploys*: every query of the pipeline is keyed by branch.
* *Two live workers on one deploy job*: only dead workers' jobs are handed out again there.
* *Passwords, hashes, signatures, OAuth state, GitHub's API*: abstracted or external.
* *Bytes*: spec contents, message formats, wording, styles.

## 8. Plan

1. An abstract version life cycle that `DeployPipeline` implements.
2. Overlapping deliveries of one deploy job; a third deploy, so that a diff has a choice of
   bases.
