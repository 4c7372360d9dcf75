----------------------------- MODULE RunContract -----------------------------
(***************************************************************************)
(* What a test run promises to somebody who only reads the rows            *)
(* TestWorkflowRun and TestWorkflowStepRun: which steps may run when, and  *)
(* what the final status says about the steps.  There are no workers, no   *)
(* queue and no clock here; TestWorkflowRun.tla has them and implements    *)
(* this specification as long as a job has one live worker at a time.      *)
(***************************************************************************)
EXTENDS WorkflowGraph

CONSTANTS Nodes,        \* the nodes of the workflow
          Definitions   \* the validated definitions a run may be started from

VARIABLES definition,       \* definitionSnapshotJson: fixed when the run is created
          runStatus,        \* TestWorkflowRun.status, "absent" before the insert
          errorCode,        \* TestWorkflowRun.errorCode
          cancelRequested,  \* cancelRequestedAt IS NOT NULL
          step              \* TestWorkflowStepRun.status of each node

contractVars == <<definition, runStatus, errorCode, cancelRequested, step>>

RunStatuses == {"absent", "queued", "running", "succeeded", "failed", "canceled"}
TerminalRunStatuses == {"succeeded", "failed", "canceled"}
ErrorCodes == {"none", "RUN_FAILED", "TEARDOWN_FAILED", "WORKER_INTERRUPTED", "INTERNAL_ERROR"}
StepStatuses == {"absent", "queued", "running", "succeeded", "failed", "skipped", "canceled"}
TerminalStepStatuses == {"succeeded", "failed", "skipped", "canceled"}

ASSUME NodesAssumption == IsFiniteSet(Nodes)
ASSUME DefinitionsAssumption == \A d \in Definitions : IsDefinition(Nodes, d)

\* Constant-level tables: evaluated once, not in every state.
AncestorsOf == [d \in Definitions |-> [n \in Nodes |-> Ancestors(Nodes, d.edges, n)]]
DescendantsOf == [d \in Definitions |-> [n \in Nodes |-> Descendants(Nodes, d.edges, n)]]

NodesIn(p) == {n \in Nodes : definition.phase[n] = p}
Body == NodesIn("setup") \union NodesIn("test")

\* The reaper's verdict is provisional: a worker that is still alive may go on.
Interrupted == runStatus = "failed" /\ errorCode = "WORKER_INTERRUPTED"
Live == runStatus = "running" \/ Interrupted

ContractInit ==
    /\ definition \in Definitions
    /\ runStatus = "absent"
    /\ errorCode = "none"
    /\ cancelRequested = FALSE
    /\ step = [n \in Nodes |-> "absent"]

Create ==
    /\ runStatus = "absent"
    /\ runStatus' = "queued"
    /\ step' = [n \in Nodes |-> "queued"]
    /\ UNCHANGED <<definition, errorCode, cancelRequested>>

Start ==
    /\ runStatus = "queued" \/ Live
    /\ runStatus' = "running"
    /\ UNCHANGED <<definition, errorCode, cancelRequested, step>>

\* A cancel may land on any existing run, even one that has just ended.
RequestCancel ==
    /\ runStatus # "absent"
    /\ cancelRequested' = TRUE
    /\ UNCHANGED <<definition, runStatus, errorCode, step>>

(* When a node may send its request.  Setup nodes: from the start.  Test nodes:
   every setup node and every ancestor has succeeded.  Teardown nodes: no setup
   or test node is still queued. *)
MayBegin(n) ==
    /\ definition.phase[n] = "test" =>
          \A m \in NodesIn("setup") \union AncestorsOf[definition][n] : step[m] = "succeeded"
    /\ definition.phase[n] = "teardown" => \A m \in Body : step[m] # "queued"

SetStep(n, s) ==
    /\ step' = [step EXCEPT ![n] = s]
    /\ UNCHANGED <<definition, runStatus, errorCode, cancelRequested>>

BeginStep(n) == Live /\ step[n] \in {"queued", "running"} /\ MayBegin(n) /\ SetStep(n, "running")

EndStep(n, s) == Live /\ step[n] = "running" /\ s \in {"succeeded", "failed"} /\ SetStep(n, s)

\* A step is skipped only because something in setup or test failed.
SkipStep(n) ==
    /\ Live /\ step[n] = "queued" /\ n \in Body
    /\ \E m \in Body : step[m] = "failed"
    /\ SetStep(n, "skipped")

CancelStep(n) == Live /\ step[n] = "queued" /\ n \in Body /\ cancelRequested /\ SetStep(n, "canceled")

\* A teardown node whose dependency failed is failed without sending anything.
FailTeardownStep(n) ==
    /\ Live /\ step[n] = "queued" /\ definition.phase[n] = "teardown"
    /\ \A m \in Body : step[m] # "queued"
    /\ \E m \in Nodes : <<m, n>> \in definition.edges /\ step[m] = "failed"
    /\ SetStep(n, "failed")

SomeFailed(S) == \E n \in S : step[n] = "failed"
AllSucceeded(S) == \A n \in S : step[n] = "succeeded"

(* The four outcomes, by precedence: canceled, setup or test failure, teardown
   failure, success. *)
Outcome(s, c) ==
    \/ s = "canceled" /\ c = "none" /\ cancelRequested
    \/ s = "failed" /\ c = "RUN_FAILED" /\ SomeFailed(Body)
    \/ s = "failed" /\ c = "TEARDOWN_FAILED" /\ AllSucceeded(Body) /\ SomeFailed(NodesIn("teardown"))
    \/ s = "succeeded" /\ c = "none" /\ AllSucceeded(Nodes)

Conclude ==
    /\ Live
    /\ \A n \in Nodes : step[n] # "queued"
    /\ \E s \in TerminalRunStatuses, c \in ErrorCodes :
          Outcome(s, c) /\ runStatus' = s /\ errorCode' = c
    /\ UNCHANGED <<definition, cancelRequested, step>>

Interrupt ==
    /\ runStatus = "running"
    /\ runStatus' = "failed" /\ errorCode' = "WORKER_INTERRUPTED"
    /\ UNCHANGED <<definition, cancelRequested, step>>

Abort ==
    /\ Live
    /\ runStatus' = "failed" /\ errorCode' = "INTERNAL_ERROR"
    /\ UNCHANGED <<definition, cancelRequested, step>>

StepChange(n) ==
    \/ BeginStep(n)
    \/ \E s \in {"succeeded", "failed"} : EndStep(n, s)
    \/ SkipStep(n) \/ CancelStep(n) \/ FailTeardownStep(n)

ContractNext ==
    \/ Create \/ Start \/ RequestCancel
    \/ \E n \in Nodes : StepChange(n)
    \/ Conclude \/ Interrupt \/ Abort

ContractSpec == ContractInit /\ [][ContractNext]_contractVars
------------------------------------------------------------------------------
ContractTypeOK ==
    /\ definition \in Definitions
    /\ runStatus \in RunStatuses
    /\ errorCode \in ErrorCodes
    /\ cancelRequested \in BOOLEAN
    /\ step \in [Nodes -> StepStatuses]

\* The statuses of a step whose request was sent, or may have been.
Ran == {"running", "succeeded", "failed"}

(* A test node runs only after every setup node and every ancestor has
   succeeded, across cancellations, crashes and redeliveries: the setup gate and
   the descendant blocking of executeRun (runner.service.ts:144-173). *)
TestsRunAfterAncestors ==
    \A n \in NodesIn("test") :
        step[n] \in Ran => \A m \in NodesIn("setup") \union AncestorsOf[definition][n] : step[m] = "succeeded"

(* Teardown starts only when every setup and test node has been decided: none is
   left queued, whichever way the body ended (runner.service.ts:144-180). *)
TeardownAfterBody ==
    \A n \in NodesIn("teardown") :
        step[n] \in Ran => \A m \in Body : step[m] # "queued"

(* What a worker's final status says about the rows it leaves behind: nothing
   queued, success only when every step succeeded, TEARDOWN_FAILED only when the
   body succeeded, RUN_FAILED only with a failed setup or test step, canceled
   only when a cancel was requested (runner.service.ts:193-208). *)
StatusTellsSteps ==
    /\ runStatus = "succeeded" => AllSucceeded(Nodes)
    /\ runStatus = "canceled" => cancelRequested /\ \A n \in Nodes : step[n] # "queued"
    /\ runStatus = "failed" /\ errorCode = "RUN_FAILED" =>
            SomeFailed(Body) /\ \A n \in Nodes : step[n] # "queued"
    /\ runStatus = "failed" /\ errorCode = "TEARDOWN_FAILED" =>
            AllSucceeded(Body) /\ SomeFailed(NodesIn("teardown")) /\ \A n \in Nodes : step[n] # "queued"

(* No step disappears from a run without a cause that can be read from its rows:
   a skipped step has a failed setup or test step beside it, a canceled step a
   cancel request (runner.service.ts:144-176, node-runner.ts:42-48). *)
DroppedWithCause ==
    \A n \in Nodes :
        /\ step[n] = "skipped" => SomeFailed(Body)
        /\ step[n] = "canceled" => cancelRequested

(* A status a worker wrote as final is never overwritten; only the reaper's
   WORKER_INTERRUPTED verdict may be (run-store.ts:46-68, 130-145). *)
SettledRunStays ==
    [][(runStatus \in TerminalRunStatuses /\ ~Interrupted) =>
           runStatus' = runStatus /\ errorCode' = errorCode /\ step' = step]_contractVars

(* A terminal step never changes again, so it is never re-executed, also when
   the job is delivered a second time (node-runner.ts:38-41, run-store.ts:115-128). *)
TerminalStepsFinal ==
    [][\A n \in Nodes : step[n] \in TerminalStepStatuses => step'[n] = step[n]]_contractVars
=============================================================================
