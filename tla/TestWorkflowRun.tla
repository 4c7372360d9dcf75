--------------------------- MODULE TestWorkflowRun ---------------------------
(***************************************************************************)
(* The life of one test-workflow run: the API process that creates and     *)
(* cancels it, the BullMQ job, the workers that process it, the reaper,    *)
(* and the clock that makes a row stale.  Every await of the code is the   *)
(* end of an action: between two database calls any other actor may step.  *)
(*                                                                         *)
(* Sources: test-workflow-runs.service.ts, test-workflow-run-repository.ts,*)
(* test-workflow-run-dispatcher.ts, runner/test-workflow-runner.service.ts,*)
(* runner/test-workflow-node-runner.ts, runner/test-workflow-run-store.ts, *)
(* runner/test-workflow-reaper.service.ts.                                 *)
(***************************************************************************)
EXTENDS RunContract

CONSTANTS Workers,          \* backend processes that run a BullMQ worker
          NoWorker,         \* owner of a job nobody has taken
          MaxStalledCount,  \* BullMQ: how often a stalled job is handed out again (default 1)
          LockMayLapse      \* may BullMQ take a job from a worker that is still alive?

ASSUME WorkersAssumption == NoWorker \notin Workers
ASSUME MaxStalledCountAssumption == MaxStalledCount \in Nat
ASSUME LockMayLapseAssumption == LockMayLapse \in BOOLEAN

VARIABLES stale,      \* updatedAt is more than RUN_TIMEOUT_MINUTES ago
          creator,    \* where createRun stands
          canceller,  \* where cancelRun stands
          job,        \* the BullMQ job of the run
          sent,       \* requests sent to the API under test, per node
          local       \* the memory of each worker's process() call

vars == <<definition, runStatus, errorCode, cancelRequested, step,
          stale, creator, canceller, job, sent, local>>

rowVars == <<definition, runStatus, errorCode, cancelRequested, step, stale>>
runRow == <<runStatus, errorCode, cancelRequested, stale>>

PCs == {"idle", "loadRun", "markRun", "checkCancel", "skipBlocked", "loadStep", "skipStep",
        "markStep", "execute", "persist", "sweep", "finalCheck", "teardownCheck",
        "finalize", "finalizeError", "done"}

\* The state of a worker that is not in process(); the locals of executeRun are reset.
Fresh == [pc |-> "idle", phase |-> "setup", todo |-> <<>>,
          failedNodes |-> {}, accumulatedVars |-> {}, blockedTests |-> {},
          setupFailed |-> FALSE, testFailed |-> FALSE, teardownFailed |-> FALSE,
          canceled |-> FALSE, sweepTo |-> "canceled", result |-> "succeeded"]

PhaseNodes(p) == definition.byPhase[p]
------------------------------------------------------------------------------
(***************************************************************************)
(* The control flow of executeRun between two awaits, as functions on a    *)
(* worker's memory.  todo holds the nodes the current loop has yet to      *)
(* visit; its head is the node being visited.                              *)
(***************************************************************************)

\* Mutant: the teardown loop is entered even when it has no node.
StartTeardownAlways(l) ==
    [l EXCEPT !.phase = "teardown", !.todo = PhaseNodes("teardown"), !.pc = "loadStep"]

\* The teardown loop begins, or the outcome is computed when it has no node.
StartTeardown(l) ==
    [l EXCEPT !.phase = "teardown", !.todo = PhaseNodes("teardown"),
              !.pc = IF PhaseNodes("teardown") = <<>> THEN "finalize" ELSE "loadStep"]

\* canceled = canceled || await cancelRequested(): no read once canceled.
AfterBody(l) == IF l.canceled THEN StartTeardown(l) ELSE [l EXCEPT !.pc = "finalCheck"]

\* markQueuedNodes on a list: one guarded UPDATE per node.
StartSweep(l, nodes, status) ==
    IF nodes = <<>> THEN AfterBody(l)
    ELSE [l EXCEPT !.pc = "sweep", !.todo = nodes, !.sweepTo = status]

StartTests(l) ==
    IF PhaseNodes("test") = <<>> THEN AfterBody([l EXCEPT !.phase = "test"])
    ELSE [l EXCEPT !.phase = "test", !.todo = PhaseNodes("test"), !.pc = "checkCancel"]

\* Mutant: the tests behind a failed setup are marked canceled instead of skipped.
AfterSetupMarksCanceled(l) ==
    IF l.setupFailed THEN StartSweep(l, PhaseNodes("test"), "canceled") ELSE StartTests(l)

\* Mutant: a failed setup is taken for a cancellation.
AfterSetupCancels(l) ==
    IF l.setupFailed THEN StartSweep([l EXCEPT !.canceled = TRUE], PhaseNodes("test"), "canceled") ELSE StartTests(l)

AfterSetup(l) ==
    IF l.setupFailed THEN StartSweep(l, PhaseNodes("test"), "skipped") ELSE StartTests(l)

StartSetup(l) ==
    IF PhaseNodes("setup") = <<>> THEN AfterSetup(l)
    ELSE [l EXCEPT !.todo = PhaseNodes("setup"), !.pc = "checkCancel"]

\* The loop goes on to its next node, or to what follows the loop.
NextNode(l) ==
    LET rest == [l EXCEPT !.todo = Tail(l.todo)] IN
    CASE l.phase = "setup" ->
            IF rest.todo = <<>> THEN AfterSetup(rest) ELSE [rest EXCEPT !.pc = "checkCancel"]
      [] l.phase = "test" ->
            IF rest.todo = <<>> THEN AfterBody(rest) ELSE [rest EXCEPT !.pc = "checkCancel"]
      [] l.phase = "teardown" ->
            IF rest.todo = <<>> THEN [rest EXCEPT !.pc = "finalize"]
            ELSE [rest EXCEPT !.pc = "loadStep"]

\* A teardown node is followed by a cancel check unless canceled is already set.
AfterNode(l) ==
    IF l.phase = "teardown" /\ ~l.canceled THEN [l EXCEPT !.pc = "teardownCheck"] ELSE NextNode(l)

\* Mutant: a failed test blocks its direct dependents only.
NodeFailedBlocksChildren(l) ==
    AfterNode([l EXCEPT
        !.setupFailed = @ \/ l.phase = "setup",
        !.testFailed = @ \/ l.phase = "test",
        !.teardownFailed = @ \/ l.phase = "teardown",
        !.blockedTests = IF l.phase = "test" THEN @ \union Children(definition.edges, Head(l.todo)) ELSE @])

\* executeRun's reaction to the outcome a node run returned.
NodeFailed(l) ==
    AfterNode([l EXCEPT
        !.setupFailed = @ \/ l.phase = "setup",
        !.testFailed = @ \/ l.phase = "test",
        !.teardownFailed = @ \/ l.phase = "teardown",
        !.blockedTests = IF l.phase = "test"
                         THEN @ \union DescendantsOf[definition][Head(l.todo)] ELSE @])

\* Mutant: a teardown failure hides a failure of the body.
FinalOutcomeTeardownFirst(l) ==
    CASE l.canceled -> <<"canceled", "none">>
      [] ~l.canceled /\ l.teardownFailed -> <<"failed", "TEARDOWN_FAILED">>
      [] ~l.canceled /\ ~l.teardownFailed /\ (l.setupFailed \/ l.testFailed) -> <<"failed", "RUN_FAILED">>
      [] OTHER -> <<"succeeded", "none">>

\* The status and error code executeRun returns, by precedence.
FinalOutcome(l) ==
    CASE l.canceled -> <<"canceled", "none">>
      [] ~l.canceled /\ (l.setupFailed \/ l.testFailed) -> <<"failed", "RUN_FAILED">>
      [] ~l.canceled /\ ~l.setupFailed /\ ~l.testFailed /\ l.teardownFailed -> <<"failed", "TEARDOWN_FAILED">>
      [] OTHER -> <<"succeeded", "none">>

FailedDependency(l, n) == \E m \in l.failedNodes : <<m, n>> \in definition.edges
------------------------------------------------------------------------------
(***************************************************************************)
(* createRun and cancelRun: the API process.                               *)
(***************************************************************************)

\* persistRun: one transaction inserts the run and all its steps as queued.
CreateRun ==
    /\ creator = "idle"
    /\ creator' = "persisted"
    /\ runStatus' = "queued"
    /\ step' = [n \in Nodes |-> "queued"]
    /\ UNCHANGED <<definition, errorCode, cancelRequested, stale, canceller, job, sent, local>>

\* dispatcher.enqueue: the job is added after the transaction has committed.
Enqueue ==
    /\ creator = "persisted"
    /\ creator' = "answered"
    /\ job' = [job EXCEPT !.state = "waiting"]
    /\ UNCHANGED <<rowVars, canceller, sent, local>>

\* No REDIS_URL, Redis unreachable, or the process ends between the two.
EnqueueLost ==
    /\ creator = "persisted"
    /\ creator' = "answered"
    /\ UNCHANGED <<rowVars, canceller, job, sent, local>>

\* cancelRun reads the run and answers 409 when it is terminal.
CancelCheck ==
    /\ canceller = "idle"
    /\ runStatus \notin TerminalRunStatuses \union {"absent"}
    /\ canceller' = "checked"
    /\ UNCHANGED <<rowVars, creator, job, sent, local>>

\* requestRunCancel: the UPDATE is guarded by cancelRequestedAt IS NULL only.
CancelWrite ==
    /\ canceller = "checked"
    /\ canceller' = "idle"
    /\ cancelRequested' = TRUE
    /\ stale' = (stale /\ cancelRequested)
    /\ UNCHANGED <<definition, runStatus, errorCode, step, creator, job, sent, local>>
------------------------------------------------------------------------------
(***************************************************************************)
(* process(): one worker.                                                  *)
(***************************************************************************)

GoTo(w, l) == local' = [local EXCEPT ![w] = l]

WriteStep(w, s) == step' = [step EXCEPT ![Head(local[w].todo)] = s]

OnlyLocal == UNCHANGED <<rowVars, creator, canceller, job, sent>>
StepWritten == UNCHANGED <<definition, runRow, creator, canceller, job, sent>>

TakeJob(w) ==
    /\ local[w].pc = "idle" /\ job.state = "waiting"
    /\ job' = [job EXCEPT !.state = "active", !.owner = w]
    /\ GoTo(w, [Fresh EXCEPT !.pc = "loadRun"])
    /\ UNCHANGED <<rowVars, creator, canceller, sent>>

\* Mutant: the terminal status is not looked at.
LoadRunAnyStatus(w) ==
    /\ local[w].pc = "loadRun"
    /\ GoTo(w, [local[w] EXCEPT !.pc = "markRun"])
    /\ OnlyLocal

\* A run that is already terminal is not processed again.
LoadRun(w) ==
    /\ local[w].pc = "loadRun"
    /\ GoTo(w, [local[w] EXCEPT !.pc = IF runStatus \in TerminalRunStatuses THEN "done" ELSE "markRun"])
    /\ OnlyLocal

\* markRunRunning: an UPDATE by id, whatever the status has become meanwhile.
MarkRunRunning(w) ==
    /\ local[w].pc = "markRun"
    /\ runStatus' = "running" /\ stale' = FALSE
    /\ GoTo(w, StartSetup(local[w]))
    /\ UNCHANGED <<definition, errorCode, cancelRequested, step, creator, canceller, job, sent>>

\* Mutant: a cancellation in setup forgets the test nodes.
CheckCancelPhaseOnly(w) ==
    LET l == local[w] IN
    /\ l.pc = "checkCancel"
    /\ GoTo(w, CASE cancelRequested -> StartSweep([l EXCEPT !.canceled = TRUE], PhaseNodes(l.phase), "canceled")
                 [] ~cancelRequested /\ Head(l.todo) \in l.blockedTests -> [l EXCEPT !.pc = "skipBlocked"]
                 [] OTHER -> [l EXCEPT !.pc = "loadStep"])
    /\ OnlyLocal

\* cancelRequested() before a setup or test node.
CheckCancel(w) ==
    LET l == local[w]
        sweepList == IF l.phase = "setup" THEN PhaseNodes("setup") \o PhaseNodes("test")
                     ELSE PhaseNodes("test")
    IN
    /\ l.pc = "checkCancel"
    /\ GoTo(w, CASE cancelRequested -> StartSweep([l EXCEPT !.canceled = TRUE], sweepList, "canceled")
                 [] ~cancelRequested /\ Head(l.todo) \in l.blockedTests -> [l EXCEPT !.pc = "skipBlocked"]
                 [] OTHER -> [l EXCEPT !.pc = "loadStep"])
    /\ OnlyLocal

\* A descendant of a failed test is marked skipped without being loaded.
SkipBlocked(w) ==
    /\ local[w].pc = "skipBlocked"
    /\ WriteStep(w, "skipped")
    /\ GoTo(w, NextNode(local[w]))
    /\ StepWritten

(* executeOrSkipBlocked and executeTeardown: a terminal step is not run again
   and reports "failed" only if it had failed; failedNodes is not updated for
   it.  A node with a failed direct dependency is skipped. *)
LoadStep(w) ==
    LET l == local[w]
        n == Head(l.todo)
    IN
    /\ l.pc = "loadStep"
    /\ GoTo(w, CASE step[n] = "failed" -> NodeFailed(l)
                 [] step[n] \in TerminalStepStatuses \ {"failed"} -> AfterNode(l)
                 [] step[n] \notin TerminalStepStatuses /\ FailedDependency(l, n) -> [l EXCEPT !.pc = "skipStep"]
                 [] OTHER -> [l EXCEPT !.pc = "markStep"])
    /\ OnlyLocal

\* In teardown the blocked node is persisted as failed and blocks its own dependents.
SkipDependent(w) ==
    LET l == local[w] IN
    /\ l.pc = "skipStep"
    /\ \/ /\ l.phase # "teardown"
          /\ WriteStep(w, "skipped")
          /\ GoTo(w, NextNode(l))
       \/ /\ l.phase = "teardown"
          /\ WriteStep(w, "failed")
          /\ GoTo(w, NodeFailed([l EXCEPT !.failedNodes = @ \union {Head(l.todo)}]))
    /\ StepWritten

\* Mutant: the step is executed without being marked first.
MarkStepRunningUnwritten(w) ==
    /\ local[w].pc = "markStep"
    /\ GoTo(w, [local[w] EXCEPT !.pc = "execute"])
    /\ OnlyLocal

MarkStepRunning(w) ==
    /\ local[w].pc = "markStep"
    /\ WriteStep(w, "running")
    /\ GoTo(w, [local[w] EXCEPT !.pc = "execute"])
    /\ StepWritten

(* executeWorkflowStep: a template that reads an export the worker does not
   hold fails before anything is sent; otherwise the request goes out and the
   API under test decides. *)
ExecuteStep(w) ==
    LET l == local[w]
        n == Head(l.todo)
        resolved == definition.reads[n] \subseteq l.accumulatedVars
    IN
    /\ l.pc = "execute"
    /\ \E r \in IF resolved THEN {"succeeded", "failed"} ELSE {"failed"} :
          GoTo(w, [l EXCEPT !.pc = "persist", !.result = r])
    /\ sent' = IF resolved THEN [sent EXCEPT ![n] = @ + 1] ELSE sent
    /\ UNCHANGED <<rowVars, creator, canceller, job>>

\* Mutant: the exports of a step replace those collected before.
PersistStepReplacesVars(w) ==
    LET l == local[w]
        n == Head(l.todo)
    IN
    /\ l.pc = "persist"
    /\ WriteStep(w, l.result)
    /\ GoTo(w, IF l.result = "failed"
               THEN NodeFailed([l EXCEPT !.failedNodes = @ \union {n}])
               ELSE AfterNode([l EXCEPT !.accumulatedVars = {n}]))
    /\ StepWritten

PersistStep(w) ==
    LET l == local[w]
        n == Head(l.todo)
    IN
    /\ l.pc = "persist"
    /\ WriteStep(w, l.result)
    /\ GoTo(w, IF l.result = "failed"
               THEN NodeFailed([l EXCEPT !.failedNodes = @ \union {n}])
               ELSE AfterNode([l EXCEPT !.accumulatedVars = @ \union {n}]))
    /\ StepWritten

\* One UPDATE ... WHERE status = 'queued' of markQueuedNodes.
MarkQueuedNode(w) ==
    LET l == local[w] IN
    /\ l.pc = "sweep"
    /\ IF step[Head(l.todo)] = "queued" THEN WriteStep(w, l.sweepTo) ELSE step' = step
    /\ GoTo(w, IF Tail(l.todo) = <<>> THEN AfterBody([l EXCEPT !.todo = <<>>])
               ELSE [l EXCEPT !.todo = Tail(@)])
    /\ StepWritten

\* The cancel check between the body and teardown.
FinalCheck(w) ==
    /\ local[w].pc = "finalCheck"
    /\ GoTo(w, StartTeardown([local[w] EXCEPT !.canceled = cancelRequested]))
    /\ OnlyLocal

\* The cancel check after a teardown node.
TeardownCheck(w) ==
    /\ local[w].pc = "teardownCheck"
    /\ GoTo(w, NextNode([local[w] EXCEPT !.canceled = cancelRequested]))
    /\ OnlyLocal

\* finalizeRun: an UPDATE by id, whatever the status has become meanwhile.
FinalizeRun(w) ==
    LET outcome == FinalOutcome(local[w]) IN
    /\ local[w].pc = "finalize"
    /\ runStatus' = outcome[1] /\ errorCode' = outcome[2] /\ stale' = FALSE
    /\ GoTo(w, [local[w] EXCEPT !.pc = "done"])
    /\ UNCHANGED <<definition, cancelRequested, step, creator, canceller, job, sent>>

\* A store call inside process()'s try block throws.
StoreFails(w) ==
    /\ local[w].pc \in PCs \ {"idle", "loadRun", "markRun", "execute", "finalizeError", "done"}
    /\ GoTo(w, [local[w] EXCEPT !.pc = "finalizeError"])
    /\ OnlyLocal

\* process()'s catch block.
FinalizeError(w) ==
    /\ local[w].pc = "finalizeError"
    /\ runStatus' = "failed" /\ errorCode' = "INTERNAL_ERROR" /\ stale' = FALSE
    /\ GoTo(w, [local[w] EXCEPT !.pc = "done"])
    /\ UNCHANGED <<definition, cancelRequested, step, creator, canceller, job, sent>>

\* A store call outside the try block throws: the job itself fails.
JobFails(w) ==
    /\ local[w].pc \in {"loadRun", "markRun", "finalizeError"}
    /\ GoTo(w, [local[w] EXCEPT !.pc = "done"])
    /\ OnlyLocal

\* Mutant: the job is retried when the handler is over.
ReleaseJobRetries(w) ==
    /\ local[w].pc = "done"
    /\ GoTo(w, Fresh)
    /\ job' = IF job.state = "active" /\ job.owner = w
              THEN [job EXCEPT !.state = "waiting", !.owner = NoWorker] ELSE job
    /\ UNCHANGED <<rowVars, creator, canceller, sent>>

(* The handler has returned or thrown.  With one attempt and removeOnComplete
   and removeOnFail the job disappears, unless this worker lost it before. *)
ReleaseJob(w) ==
    /\ local[w].pc = "done"
    /\ GoTo(w, Fresh)
    /\ job' = IF job.state = "active" /\ job.owner = w
              THEN [job EXCEPT !.state = "gone", !.owner = NoWorker] ELSE job
    /\ UNCHANGED <<rowVars, creator, canceller, sent>>
------------------------------------------------------------------------------
(***************************************************************************)
(* What happens to the workers from outside, and the reaper.               *)
(***************************************************************************)

\* The process dies: its memory is lost, its job stays active in Redis.
Crash(w) ==
    /\ local[w].pc # "idle"
    /\ GoTo(w, Fresh)
    /\ OnlyLocal

(* BullMQ's stalled check: the lock of an active job was not renewed.  The job
   is handed out again at most MaxStalledCount times, then failed and removed. *)
JobStalls ==
    /\ job.state = "active"
    /\ LockMayLapse \/ local[job.owner].pc = "idle"
    /\ job' = IF job.stalled < MaxStalledCount
              THEN [state |-> "waiting", owner |-> NoWorker, stalled |-> job.stalled + 1]
              ELSE [job EXCEPT !.state = "gone", !.owner = NoWorker]
    /\ UNCHANGED <<rowVars, creator, canceller, sent, local>>

\* Ten minutes pass without an UPDATE of a running row.
TimePasses ==
    /\ runStatus = "running" /\ ~stale
    /\ stale' = TRUE
    /\ UNCHANGED <<definition, runStatus, errorCode, cancelRequested, step, creator, canceller, job, sent, local>>

\* Mutant: the sweep looks for queued rows.
ReaperSweepQueued ==
    /\ runStatus = "queued" /\ stale
    /\ runStatus' = "failed" /\ errorCode' = "WORKER_INTERRUPTED" /\ stale' = FALSE
    /\ UNCHANGED <<definition, cancelRequested, step, creator, canceller, job, sent, local>>

\* failStaleRuns, every minute: the row is failed, the steps are left alone.
ReaperSweep ==
    /\ runStatus = "running" /\ stale
    /\ runStatus' = "failed" /\ errorCode' = "WORKER_INTERRUPTED" /\ stale' = FALSE
    /\ UNCHANGED <<definition, cancelRequested, step, creator, canceller, job, sent, local>>
------------------------------------------------------------------------------
Init ==
    /\ ContractInit
    /\ stale = FALSE
    /\ creator = "idle" /\ canceller = "idle"
    /\ job = [state |-> "none", owner |-> NoWorker, stalled |-> 0]
    /\ sent = [n \in Nodes |-> 0]
    /\ local = [w \in Workers |-> Fresh]

\* The steps a worker takes by itself once it has a job.
Progress(w) ==
    \/ LoadRun(w) \/ MarkRunRunning(w) \/ CheckCancel(w) \/ SkipBlocked(w) \/ LoadStep(w)
    \/ SkipDependent(w) \/ MarkStepRunning(w) \/ ExecuteStep(w) \/ PersistStep(w)
    \/ MarkQueuedNode(w) \/ FinalCheck(w) \/ TeardownCheck(w) \/ FinalizeRun(w)
    \/ FinalizeError(w) \/ ReleaseJob(w)

Faults(w) == StoreFails(w) \/ JobFails(w) \/ Crash(w)

Next ==
    \/ CreateRun \/ Enqueue \/ EnqueueLost \/ CancelCheck \/ CancelWrite
    \/ \E w \in Workers : TakeJob(w) \/ Progress(w) \/ Faults(w)
    \/ JobStalls \/ TimePasses \/ ReaperSweep

Spec == Init /\ [][Next]_vars

(* setInterval runs the sweep every minute and time passes; a worker that has
   taken a job goes on, and BullMQ's stalled check runs on every live worker.
   Nothing is assumed of the clients and of the faults. *)
Fairness ==
    /\ WF_vars(TimePasses) /\ WF_vars(ReaperSweep)
    /\ WF_vars(JobStalls)
    /\ \A w \in Workers : WF_vars(Progress(w)) /\ WF_vars(TakeJob(w))

FairSpec == Spec /\ Fairness
------------------------------------------------------------------------------
LocalStates ==
    [pc : PCs, phase : Phases, todo : Seq(Nodes),
     failedNodes : SUBSET Nodes, accumulatedVars : SUBSET Nodes, blockedTests : SUBSET Nodes,
     setupFailed : BOOLEAN, testFailed : BOOLEAN, teardownFailed : BOOLEAN, canceled : BOOLEAN,
     sweepTo : {"skipped", "canceled"}, result : {"succeeded", "failed"}]

\* The program counters at which a node is being visited.
Visiting == {"checkCancel", "skipBlocked", "loadStep", "skipStep", "markStep", "execute",
             "persist", "sweep", "teardownCheck"}

(* Every variable stays in its range, and a worker that visits a node has one. *)
TypeOK ==
    /\ ContractTypeOK
    /\ stale \in BOOLEAN
    /\ creator \in {"idle", "persisted", "answered"}
    /\ canceller \in {"idle", "checked"}
    /\ job \in [state : {"none", "waiting", "active", "gone"}, owner : Workers \union {NoWorker}, stalled : Nat]
    /\ job.state = "active" => job.owner \in Workers
    /\ sent \in [Nodes -> Nat]
    /\ local \in [Workers -> LocalStates]
    /\ \A w \in Workers : local[w].pc \in Visiting => local[w].todo # <<>>

(* No delivery of the job sends a node's request twice: however often workers
   crash, stall and overlap, a node is requested at most once per delivery
   (node-runner.ts:79-98 and BullMQ's redelivery of a stalled job). *)
RequestsPerDelivery == \A n \in Nodes : sent[n] <= job.stalled + 1

(* A run ends as canceled only when somebody asked for it, also when two workers
   process it at the same time and when store calls fail: the worker's canceled
   flag never outruns the row (runner.service.ts:128-193, 222-224). *)
CanceledWasRequested == runStatus = "canceled" => cancelRequested

(* While the job has been delivered once, a test node that is about to send its
   request holds every export its template reads: ancestors have run and their
   exports are in accumulatedVars (runner.service.ts:149-173). *)
FirstDeliveryResolves ==
    \A w \in Workers :
        job.stalled = 0 /\ local[w].pc = "execute" /\ local[w].phase = "test"
            => definition.reads[Head(local[w].todo)] \subseteq local[w].accumulatedVars

(* The run's rows follow RunContract, step by step. *)
ImplementsContract == ContractSpec

(* A running run does not stay running: the worker finishes it, or the reaper
   gives up on it (runner.service.ts:236-242). *)
RunningRunEnds == runStatus = "running" ~> runStatus \in TerminalRunStatuses

(* "Worker was interrupted before completing the run." (run-store.ts:139): when
   the reaper says so, no worker is processing the run. *)
ReapedMeansInterrupted ==
    Interrupted => \A w \in Workers : local[w].pc \in {"idle", "loadRun", "markRun", "done"}

(* "Workers must tolerate duplicate execution" (ARCHITECTURE.md:160): a test node
   whose ancestors have all succeeded finds the exports it reads, also in a
   second delivery of the job. *)
EveryDeliveryResolves ==
    \A w \in Workers :
        LET n == Head(local[w].todo) IN
        (local[w].pc = "execute" /\ \A m \in AncestorsOf[definition][n] : step[m] = "succeeded")
            => definition.reads[n] \subseteq local[w].accumulatedVars
=============================================================================
