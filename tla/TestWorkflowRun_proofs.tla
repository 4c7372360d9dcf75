------------------------ MODULE TestWorkflowRun_proofs ------------------------
(***************************************************************************)
(* Theorems about the contract of a run, for every set of nodes and every  *)
(* definition; and about the detailed model, for every workflow, every     *)
(* number of workers and redeliveries, and whether or not locks lapse.     *)
(***************************************************************************)
EXTENDS RunContract, TestWorkflowRun, TLAPS
(***************************************************************************)
(* The contract.                                                           *)
(***************************************************************************)
(* A change of one step touches a step that is queued or running, and leaves
   everything else alone: the fact each step invariant below rests on. *)
LEMMA StepChangeFacts ==
    ASSUME NEW k \in Nodes, StepChange(k)
    PROVE  /\ Live
           /\ step[k] \in {"queued", "running"}
           /\ UNCHANGED <<definition, runStatus, errorCode, cancelRequested>>
           /\ \E s \in StepStatuses \ {"absent", "queued"} : step' = [step EXCEPT ![k] = s]
  BY DEF StepChange, BeginStep, EndStep, SkipStep, CancelStep, FailTeardownStep, SetStep, StepStatuses

(* Only Create and StepChange write steps. *)
LEMMA StepWriters ==
    ASSUME ContractNext
    PROVE  \/ Create
           \/ \E k \in Nodes : StepChange(k)
           \/ step' = step
  BY DEF ContractNext, Start, RequestCancel, Conclude, Interrupt, Abort

(* No action changes the definition a run was created from. *)
LEMMA DefinitionFixed ==
    ASSUME [ContractNext]_contractVars
    PROVE  definition' = definition
  <1>1. CASE \E k \in Nodes : StepChange(k)
    BY <1>1, StepChangeFacts
  <1>2. CASE ~ \E k \in Nodes : StepChange(k)
    BY <1>2 DEF ContractNext, contractVars, Create, Start, RequestCancel, Conclude, Interrupt, Abort
  <1>3. QED BY <1>1, <1>2
------------------------------------------------------------------------------
(* Every variable of the contract stays in its range. *)
THEOREM ContractTypeCorrect == ContractSpec => []ContractTypeOK
  <1>1. ContractInit => ContractTypeOK
    BY DEF ContractInit, ContractTypeOK, RunStatuses, ErrorCodes, StepStatuses
  <1>2. ContractTypeOK /\ [ContractNext]_contractVars => ContractTypeOK'
    <2> SUFFICES ASSUME ContractTypeOK, [ContractNext]_contractVars PROVE ContractTypeOK'
      OBVIOUS
    <2> USE DEF ContractTypeOK
    <2>1. CASE Create
      BY <2>1 DEF Create, RunStatuses, StepStatuses
    <2>2. CASE Start
      BY <2>2 DEF Start, RunStatuses
    <2>3. CASE RequestCancel
      BY <2>3 DEF RequestCancel
    <2>4. ASSUME NEW k \in Nodes, StepChange(k) PROVE ContractTypeOK'
      BY <2>4, StepChangeFacts
    <2>5. CASE Conclude
      BY <2>5 DEF Conclude, RunStatuses, TerminalRunStatuses
    <2>6. CASE Interrupt
      BY <2>6 DEF Interrupt, RunStatuses, ErrorCodes
    <2>7. CASE Abort
      BY <2>7 DEF Abort, RunStatuses, ErrorCodes
    <2>8. CASE UNCHANGED contractVars
      BY <2>8 DEF contractVars
    <2>9. QED
      BY <2>1, <2>2, <2>3, <2>4, <2>5, <2>6, <2>7, <2>8 DEF ContractNext
  <1>3. QED
    BY <1>1, <1>2, PTL DEF ContractSpec
------------------------------------------------------------------------------
(* A test node runs only after every setup node and every ancestor of it has
   succeeded. The invariant is inductive because a step that has succeeded never
   changes again. *)
THEOREM TestsRunAfterAncestorsHolds == ContractSpec => []TestsRunAfterAncestors
  <1>1. ContractInit => TestsRunAfterAncestors
    BY DEF ContractInit, TestsRunAfterAncestors, NodesIn, Ran
  <1>2. ContractTypeOK /\ TestsRunAfterAncestors /\ [ContractNext]_contractVars => TestsRunAfterAncestors'
    <2> SUFFICES ASSUME ContractTypeOK, TestsRunAfterAncestors, [ContractNext]_contractVars
                 PROVE  TestsRunAfterAncestors'
      OBVIOUS
    <2>1. definition' = definition
      BY DefinitionFixed
    <2>2. CASE Create
      BY <2>2 DEF Create, TestsRunAfterAncestors, NodesIn, Ran
    <2>3. CASE step' = step
      BY <2>1, <2>3 DEF TestsRunAfterAncestors, NodesIn
    <2>4. ASSUME NEW k \in Nodes, StepChange(k)
          PROVE  TestsRunAfterAncestors'
      <3>1. /\ step[k] \in {"queued", "running"}
            /\ \A m \in Nodes : m # k => step'[m] = step[m]
        BY <2>4, StepChangeFacts DEF ContractTypeOK
      <3> SUFFICES ASSUME NEW n \in Nodes, definition.phase[n] = "test", step'[n] \in Ran,
                          NEW m \in NodesIn("setup") \union AncestorsOf[definition][n]
                   PROVE  step'[m] = "succeeded"
        BY <2>1 DEF TestsRunAfterAncestors, NodesIn
      <3>2. step[m] = "succeeded"
        <4>1. CASE n # k
          <5>1. step[n] \in Ran
            BY <3>1, <4>1
          <5>2. QED
            BY <5>1 DEF TestsRunAfterAncestors, NodesIn
        <4>2. CASE n = k /\ BeginStep(k)
          BY <4>2 DEF BeginStep, MayBegin
        <4>3. CASE n = k /\ \E s \in {"succeeded", "failed"} : EndStep(k, s)
          <5>1. step[n] \in Ran
            BY <4>3 DEF EndStep, Ran
          <5>2. QED
            BY <5>1 DEF TestsRunAfterAncestors, NodesIn
        <4>4. CASE n = k /\ (SkipStep(k) \/ CancelStep(k))
          BY <4>4 DEF SkipStep, CancelStep, SetStep, Ran, ContractTypeOK
        <4>5. CASE n = k /\ FailTeardownStep(k)
          BY <4>5 DEF FailTeardownStep
        <4>6. QED
          BY <2>4, <4>1, <4>2, <4>3, <4>4, <4>5 DEF StepChange
      <3>3. m \in Nodes
        BY DEF NodesIn, AncestorsOf, Ancestors, ContractTypeOK
      <3>4. m # k
        BY <3>1, <3>2
      <3>5. QED
        BY <3>1, <3>2, <3>3, <3>4
    <2>5. QED
      BY <2>2, <2>3, <2>4, StepWriters DEF contractVars
  <1>3. QED
    BY <1>1, <1>2, ContractTypeCorrect, PTL DEF ContractSpec
------------------------------------------------------------------------------
(* Teardown starts only when no setup or test node is queued: a step that has
   left the queue never returns to it. *)
THEOREM TeardownAfterBodyHolds == ContractSpec => []TeardownAfterBody
  <1>1. ContractInit => TeardownAfterBody
    BY DEF ContractInit, TeardownAfterBody, NodesIn, Ran
  <1>2. ContractTypeOK /\ TeardownAfterBody /\ [ContractNext]_contractVars => TeardownAfterBody'
    <2> SUFFICES ASSUME ContractTypeOK, TeardownAfterBody, [ContractNext]_contractVars
                 PROVE  TeardownAfterBody'
      OBVIOUS
    <2>1. definition' = definition
      BY DefinitionFixed
    <2>2. CASE Create
      BY <2>2 DEF Create, TeardownAfterBody, NodesIn, Ran
    <2>3. CASE step' = step
      BY <2>1, <2>3 DEF TeardownAfterBody, NodesIn, Body
    <2>4. ASSUME NEW k \in Nodes, StepChange(k)
          PROVE  TeardownAfterBody'
      <3>1. /\ step'[k] # "queued"
            /\ \A m \in Nodes : m # k => step'[m] = step[m]
        BY <2>4, StepChangeFacts DEF ContractTypeOK
      <3> SUFFICES ASSUME NEW n \in Nodes, definition.phase[n] = "teardown", step'[n] \in Ran,
                          NEW m \in Body
                   PROVE  step'[m] # "queued"
        BY <2>1 DEF TeardownAfterBody, NodesIn, Body
      <3>2. step[m] # "queued" \/ m = k
        <4>1. CASE n # k
          <5>1. step[n] \in Ran
            BY <3>1, <4>1
          <5>2. QED
            BY <5>1 DEF TeardownAfterBody, NodesIn
        <4>2. CASE n = k /\ BeginStep(k)
          BY <4>2 DEF BeginStep, MayBegin
        <4>3. CASE n = k /\ \E s \in {"succeeded", "failed"} : EndStep(k, s)
          <5>1. step[n] \in Ran
            BY <4>3 DEF EndStep, Ran
          <5>2. QED
            BY <5>1 DEF TeardownAfterBody, NodesIn
        <4>4. CASE n = k /\ (SkipStep(k) \/ CancelStep(k))
          BY <4>4 DEF SkipStep, CancelStep, SetStep, Ran, ContractTypeOK
        <4>5. CASE n = k /\ FailTeardownStep(k)
          BY <4>5 DEF FailTeardownStep
        <4>6. QED
          BY <2>4, <4>1, <4>2, <4>3, <4>4, <4>5 DEF StepChange
      <3>3. QED
        BY <3>1, <3>2 DEF Body, NodesIn
    <2>5. QED
      BY <2>2, <2>3, <2>4, StepWriters DEF contractVars
  <1>3. QED
    BY <1>1, <1>2, ContractTypeCorrect, PTL DEF ContractSpec
------------------------------------------------------------------------------
(* What the final status says about the steps. Once a worker has written its
   outcome the run is no longer Live, and no step of a run that is not Live
   changes. *)
THEOREM StatusTellsStepsHolds == ContractSpec => []StatusTellsSteps
  <1>1. ContractInit => StatusTellsSteps
    BY DEF ContractInit, StatusTellsSteps
  <1>2. ContractTypeOK /\ StatusTellsSteps /\ [ContractNext]_contractVars => StatusTellsSteps'
    <2> SUFFICES ASSUME ContractTypeOK, StatusTellsSteps, [ContractNext]_contractVars
                 PROVE  StatusTellsSteps'
      OBVIOUS
    <2> USE DEF StatusTellsSteps
    <2>1. CASE Create
      BY <2>1 DEF Create
    <2>2. CASE Start
      BY <2>2 DEF Start
    <2>3. CASE RequestCancel
      BY <2>3 DEF RequestCancel, SomeFailed, AllSucceeded, Body, NodesIn
    <2>4. ASSUME NEW k \in Nodes, StepChange(k) PROVE StatusTellsSteps'
      <3>1. Live /\ runStatus' = runStatus /\ errorCode' = errorCode
        BY <2>4, StepChangeFacts
      <3>2. QED
        BY <3>1 DEF Live, Interrupted
    <2>5. CASE Conclude
      BY <2>5 DEF Conclude, Outcome, SomeFailed, AllSucceeded, Body, NodesIn
    <2>6. CASE Interrupt
      BY <2>6 DEF Interrupt
    <2>7. CASE Abort
      BY <2>7 DEF Abort
    <2>8. CASE UNCHANGED contractVars
      BY <2>8 DEF contractVars, SomeFailed, AllSucceeded, Body, NodesIn
    <2>9. QED
      BY <2>1, <2>2, <2>3, <2>4, <2>5, <2>6, <2>7, <2>8 DEF ContractNext
  <1>3. QED
    BY <1>1, <1>2, ContractTypeCorrect, PTL DEF ContractSpec
------------------------------------------------------------------------------
(* A step is skipped beside a failed setup or test step, and canceled beside a
   cancel request: the cause never goes away afterwards. *)
THEOREM DroppedWithCauseHolds == ContractSpec => []DroppedWithCause
  <1>1. ContractInit => DroppedWithCause
    BY DEF ContractInit, DroppedWithCause
  <1>2. ContractTypeOK /\ DroppedWithCause /\ [ContractNext]_contractVars => DroppedWithCause'
    <2> SUFFICES ASSUME ContractTypeOK, DroppedWithCause, [ContractNext]_contractVars
                 PROVE  DroppedWithCause'
      OBVIOUS
    <2>1. definition' = definition
      BY DefinitionFixed
    <2>2. CASE Create
      BY <2>2 DEF Create, DroppedWithCause
    <2>3. CASE step' = step
      <3>1. cancelRequested => cancelRequested'
        BY DEF ContractNext, contractVars, Create, Start, RequestCancel, StepChange, BeginStep, EndStep,
               SkipStep, CancelStep, FailTeardownStep, SetStep, Conclude, Interrupt, Abort
      <3>2. QED
        BY <2>1, <2>3, <3>1 DEF DroppedWithCause, SomeFailed, Body, NodesIn
    <2>4. ASSUME NEW k \in Nodes, StepChange(k)
          PROVE  DroppedWithCause'
      <3>1. /\ step[k] \in {"queued", "running"}
            /\ \A m \in Nodes : m # k => step'[m] = step[m]
            /\ cancelRequested' = cancelRequested
        BY <2>4, StepChangeFacts DEF ContractTypeOK
      <3>2. SomeFailed(Body) => SomeFailed(Body)'
        BY <2>1, <3>1 DEF SomeFailed, Body, NodesIn
      <3>3. step'[k] = "skipped" => SomeFailed(Body)
        <4>1. CASE SkipStep(k)
          BY <4>1 DEF SkipStep, SomeFailed
        <4>2. CASE ~SkipStep(k)
          BY <2>4, <4>2 DEF StepChange, BeginStep, EndStep, CancelStep, FailTeardownStep, SetStep, ContractTypeOK
        <4>3. QED BY <4>1, <4>2
      <3>4. step'[k] = "canceled" => cancelRequested
        <4>1. CASE CancelStep(k)
          BY <4>1 DEF CancelStep
        <4>2. CASE ~CancelStep(k)
          BY <2>4, <4>2 DEF StepChange, BeginStep, EndStep, SkipStep, FailTeardownStep, SetStep, ContractTypeOK
        <4>3. QED BY <4>1, <4>2
      <3>5. QED
        BY <3>1, <3>2, <3>3, <3>4 DEF DroppedWithCause
    <2>5. QED
      BY <2>2, <2>3, <2>4, StepWriters DEF contractVars
  <1>3. QED
    BY <1>1, <1>2, ContractTypeCorrect, PTL DEF ContractSpec
------------------------------------------------------------------------------
(* A final status a worker wrote stays, with its error code and its steps. *)
THEOREM SettledRunStaysHolds == ContractSpec => SettledRunStays
  <1>1. ASSUME [ContractNext]_contractVars, runStatus \in TerminalRunStatuses, ~Interrupted
        PROVE  runStatus' = runStatus /\ errorCode' = errorCode /\ step' = step
    <2>1. ~Live /\ runStatus # "absent" /\ runStatus # "queued"
      BY <1>1 DEF Live, TerminalRunStatuses
    <2>2. CASE \E k \in Nodes : StepChange(k)
      BY <2>1, <2>2, StepChangeFacts
    <2>3. CASE ~ \E k \in Nodes : StepChange(k)
      BY <1>1, <2>1, <2>3 DEF ContractNext, contractVars, Create, Start, RequestCancel, Conclude,
                              Interrupt, Abort, Live
    <2>4. QED BY <2>2, <2>3
  <1>2. QED
    BY <1>1, PTL DEF ContractSpec, SettledRunStays

(* Before the run exists none of its steps does: needed because Create writes
   every step. *)
NothingBeforeCreate == runStatus = "absent" => \A n \in Nodes : step[n] = "absent"

LEMMA NothingBeforeCreateHolds == ContractSpec => []NothingBeforeCreate
  <1>1. ContractInit => NothingBeforeCreate
    BY DEF ContractInit, NothingBeforeCreate
  <1>2. NothingBeforeCreate /\ [ContractNext]_contractVars => NothingBeforeCreate'
    <2> SUFFICES ASSUME NothingBeforeCreate, [ContractNext]_contractVars PROVE NothingBeforeCreate'
      OBVIOUS
    <2>1. CASE \E k \in Nodes : StepChange(k)
      BY <2>1, StepChangeFacts DEF NothingBeforeCreate, Live, Interrupted
    <2>2. CASE ~ \E k \in Nodes : StepChange(k)
      BY <2>2 DEF NothingBeforeCreate, ContractNext, contractVars, Create, Start, RequestCancel, Conclude,
                  Interrupt, Abort, TerminalRunStatuses
    <2>3. QED BY <2>1, <2>2
  <1>3. QED
    BY <1>1, <1>2, PTL DEF ContractSpec

(* A terminal step never changes again: what makes a second delivery of the job
   harmless for the steps that were already decided. *)
THEOREM TerminalStepsFinalHolds == ContractSpec => TerminalStepsFinal
  <1>1. ContractTypeOK /\ NothingBeforeCreate /\ [ContractNext]_contractVars =>
           \A n \in Nodes : step[n] \in TerminalStepStatuses => step'[n] = step[n]
    <2> SUFFICES ASSUME ContractTypeOK, NothingBeforeCreate, [ContractNext]_contractVars,
                        NEW n \in Nodes, step[n] \in TerminalStepStatuses
                 PROVE  step'[n] = step[n]
      OBVIOUS
    <2>1. CASE Create
      BY <2>1 DEF Create, NothingBeforeCreate, TerminalStepStatuses
    <2>2. CASE step' = step
      BY <2>2
    <2>3. ASSUME NEW k \in Nodes, StepChange(k) PROVE step'[n] = step[n]
      <3>1. n # k
        BY <2>3, StepChangeFacts DEF TerminalStepStatuses
      <3>2. PICK s \in StepStatuses : step' = [step EXCEPT ![k] = s]
        BY <2>3, StepChangeFacts
      <3>3. QED
        BY <3>1, <3>2 DEF ContractTypeOK
    <2>4. QED
      BY <2>1, <2>2, <2>3, StepWriters DEF contractVars
  <1>2. QED
    BY <1>1, ContractTypeCorrect, NothingBeforeCreateHolds, PTL DEF ContractSpec, TerminalStepsFinal
------------------------------------------------------------------------------
(***************************************************************************)
(* The detailed model: types and cancellation.                             *)
(***************************************************************************)
\* What the control-flow functions need of the definition and of a memory.
LEMMA PhaseNodesType ==
    ASSUME definition \in Definitions, NEW p \in Phases
    PROVE  PhaseNodes(p) \in Seq(Nodes)
  BY DefinitionsAssumption DEF PhaseNodes, IsDefinition

\* A memory in its range that visits a node whenever its program counter says so.
LocalOK(l) == l \in LocalStates /\ (l.pc \in Visiting => l.todo # <<>>)

\* The control flow between two awaits keeps a memory well formed and does not
\* touch the canceled flag.
Follows(l, next) == LocalOK(next) /\ next.canceled = l.canceled

LEMMA FreshOK == LocalOK(Fresh) /\ ~Fresh.canceled
  BY DEF LocalOK, Fresh, LocalStates, Visiting, PCs, Phases

LEMMA StartTeardownOK ==
    ASSUME definition \in Definitions, NEW l \in LocalStates
    PROVE  Follows(l, StartTeardown(l))
  <1>1. PhaseNodes("teardown") \in Seq(Nodes)
    BY PhaseNodesType DEF Phases
  <1>2. QED
    BY <1>1 DEF StartTeardown, Follows, LocalOK, LocalStates, Visiting, PCs, Phases

LEMMA AfterBodyOK ==
    ASSUME definition \in Definitions, NEW l \in LocalStates
    PROVE  Follows(l, AfterBody(l))
  <1>1. CASE l.canceled
    BY <1>1, StartTeardownOK DEF AfterBody, Follows
  <1>2. CASE ~l.canceled
    BY <1>2 DEF AfterBody, Follows, LocalOK, LocalStates, Visiting, PCs
  <1>3. QED BY <1>1, <1>2

LEMMA StartSweepOK ==
    ASSUME definition \in Definitions, NEW l \in LocalStates,
           NEW list \in Seq(Nodes), NEW s \in {"skipped", "canceled"}
    PROVE  Follows(l, StartSweep(l, list, s))
  <1>1. CASE list = <<>>
    BY <1>1, AfterBodyOK DEF StartSweep, Follows
  <1>2. CASE list # <<>>
    BY <1>2 DEF StartSweep, Follows, LocalOK, LocalStates, Visiting, PCs
  <1>3. QED BY <1>1, <1>2

LEMMA StartTestsOK ==
    ASSUME definition \in Definitions, NEW l \in LocalStates
    PROVE  Follows(l, StartTests(l))
  <1>1. PhaseNodes("test") \in Seq(Nodes)
    BY PhaseNodesType DEF Phases
  <1>2. CASE PhaseNodes("test") = <<>>
    <2>1. [l EXCEPT !.phase = "test"] \in LocalStates /\ [l EXCEPT !.phase = "test"].canceled = l.canceled
      BY DEF LocalStates, Phases
    <2>2. QED
      BY <1>2, <2>1, AfterBodyOK DEF StartTests, Follows
  <1>3. CASE PhaseNodes("test") # <<>>
    BY <1>1, <1>3 DEF StartTests, Follows, LocalOK, LocalStates, Visiting, PCs, Phases
  <1>4. QED BY <1>2, <1>3

LEMMA AfterSetupOK ==
    ASSUME definition \in Definitions, NEW l \in LocalStates
    PROVE  Follows(l, AfterSetup(l))
  <1>1. PhaseNodes("test") \in Seq(Nodes)
    BY PhaseNodesType DEF Phases
  <1>2. QED
    BY <1>1, StartSweepOK, StartTestsOK DEF AfterSetup, Follows

LEMMA StartSetupOK ==
    ASSUME definition \in Definitions, NEW l \in LocalStates
    PROVE  Follows(l, StartSetup(l))
  <1>1. PhaseNodes("setup") \in Seq(Nodes)
    BY PhaseNodesType DEF Phases
  <1>2. CASE PhaseNodes("setup") = <<>>
    BY <1>2, AfterSetupOK DEF StartSetup, Follows
  <1>3. CASE PhaseNodes("setup") # <<>>
    BY <1>1, <1>3 DEF StartSetup, Follows, LocalOK, LocalStates, Visiting, PCs
  <1>4. QED BY <1>2, <1>3

LEMMA NextNodeOK ==
    ASSUME definition \in Definitions, NEW l \in LocalStates, l.todo # <<>>
    PROVE  Follows(l, NextNode(l))
  <1> DEFINE rest == [l EXCEPT !.todo = Tail(l.todo)]
  <1>1. rest \in LocalStates
    <2>1. l.todo \in Seq(Nodes)
      BY DEF LocalStates
    <2>2. Tail(l.todo) \in Seq(Nodes)
      BY <2>1
    <2>3. QED
      BY <2>2 DEF LocalStates
  <1>2. rest.todo = Tail(l.todo) /\ rest.canceled = l.canceled
    BY DEF LocalStates
  <1> HIDE DEF rest
  <1>3. CASE l.phase = "setup"
    <2>1. CASE rest.todo = <<>>
      BY <1>1, <1>2, <1>3, <2>1, AfterSetupOK DEF NextNode, rest, Follows
    <2>2. CASE rest.todo # <<>>
      <3>1. NextNode(l) = [rest EXCEPT !.pc = "checkCancel"]
        BY <1>3, <2>2 DEF NextNode, rest
      <3>2. QED
        BY <1>1, <1>2, <2>2, <3>1 DEF Follows, LocalOK, LocalStates, PCs
    <2>3. QED BY <2>1, <2>2
  <1>4. CASE l.phase = "test"
    <2>1. CASE rest.todo = <<>>
      BY <1>1, <1>2, <1>4, <2>1, AfterBodyOK DEF NextNode, rest, Follows
    <2>2. CASE rest.todo # <<>>
      <3>1. NextNode(l) = [rest EXCEPT !.pc = "checkCancel"]
        BY <1>4, <2>2 DEF NextNode, rest
      <3>2. QED
        BY <1>1, <1>2, <2>2, <3>1 DEF Follows, LocalOK, LocalStates, PCs
    <2>3. QED BY <2>1, <2>2
  <1>5. CASE l.phase = "teardown"
    <2>1. CASE rest.todo = <<>>
      <3>1. NextNode(l) = [rest EXCEPT !.pc = "finalize"]
        BY <1>5, <2>1 DEF NextNode, rest
      <3>2. QED
        BY <1>1, <1>2, <3>1 DEF Follows, LocalOK, LocalStates, PCs, Visiting
    <2>2. CASE rest.todo # <<>>
      <3>1. NextNode(l) = [rest EXCEPT !.pc = "loadStep"]
        BY <1>5, <2>2 DEF NextNode, rest
      <3>2. QED
        BY <1>1, <1>2, <2>2, <3>1 DEF Follows, LocalOK, LocalStates, PCs
    <2>3. QED BY <2>1, <2>2
  <1>6. QED
    BY <1>3, <1>4, <1>5 DEF LocalStates, Phases

LEMMA AfterNodeOK ==
    ASSUME definition \in Definitions, NEW l \in LocalStates, l.todo # <<>>
    PROVE  Follows(l, AfterNode(l))
  <1>1. CASE l.phase = "teardown" /\ ~l.canceled
    BY <1>1 DEF AfterNode, Follows, LocalOK, LocalStates, PCs
  <1>2. CASE ~(l.phase = "teardown" /\ ~l.canceled)
    BY <1>2, NextNodeOK DEF AfterNode, Follows
  <1>3. QED BY <1>1, <1>2

LEMMA NodeFailedOK ==
    ASSUME definition \in Definitions, NEW l \in LocalStates, l.todo # <<>>
    PROVE  Follows(l, NodeFailed(l))
  <1> DEFINE after == [l EXCEPT
                 !.setupFailed = @ \/ l.phase = "setup",
                 !.testFailed = @ \/ l.phase = "test",
                 !.teardownFailed = @ \/ l.phase = "teardown",
                 !.blockedTests = IF l.phase = "test"
                                  THEN @ \union DescendantsOf[definition][Head(l.todo)] ELSE @]
  <1>1. Head(l.todo) \in Nodes
    BY DEF LocalStates
  <1>2. DescendantsOf[definition][Head(l.todo)] \subseteq Nodes
    BY <1>1 DEF DescendantsOf, Descendants
  <1>3. after \in LocalStates /\ after.todo = l.todo /\ after.canceled = l.canceled
    BY <1>2 DEF LocalStates
  <1>4. NodeFailed(l) = AfterNode(after)
    BY DEF NodeFailed
  <1> HIDE DEF after
  <1>5. QED
    BY <1>3, <1>4, AfterNodeOK DEF Follows
------------------------------------------------------------------------------
(***************************************************************************)
(* The inductive invariant: types, and the link between a worker's memory  *)
(* and the row: a worker believes in a cancellation only if the row says   *)
(* so. Without it "canceled implies requested" is not inductive, because   *)
(* FinalizeRun writes the status from the memory alone.                    *)
(***************************************************************************)
MemoryAgrees == \A w \in Workers : local[w].canceled => cancelRequested

CancelInvariant == TypeOK /\ MemoryAgrees /\ CanceledWasRequested

LocalsOK == local \in [Workers -> LocalStates] /\ \A w \in Workers : LocalOK(local[w])

\* What a single worker's move to a well-formed memory preserves.
LEMMA GoToOK ==
    ASSUME LocalsOK, MemoryAgrees, NEW w \in Workers, NEW l,
           LocalOK(l), l.canceled => cancelRequested', cancelRequested => cancelRequested',
           GoTo(w, l)
    PROVE  LocalsOK' /\ MemoryAgrees'
  <1>1. local' = [local EXCEPT ![w] = l] /\ l \in LocalStates
    BY DEF GoTo, LocalOK
  <1>2. \A v \in Workers : local'[v] = IF v = w THEN l ELSE local[v]
    BY <1>1 DEF LocalsOK
  <1>3. QED
    BY <1>1, <1>2 DEF LocalsOK, MemoryAgrees

\* A write to the row of the node being visited.
LEMMA WriteStepOK ==
    ASSUME TypeOK, NEW w \in Workers, local[w].todo # <<>>, NEW s \in StepStatuses, WriteStep(w, s)
    PROVE  step' \in [Nodes -> StepStatuses]
  BY DEF TypeOK, ContractTypeOK, WriteStep, LocalStates

\* TypeOK without the workers' memories.
RowsOK ==
    /\ ContractTypeOK
    /\ stale \in BOOLEAN
    /\ creator \in {"idle", "persisted", "answered"}
    /\ canceller \in {"idle", "checked"}
    /\ job \in [state : {"none", "waiting", "active", "gone"}, owner : Workers \union {NoWorker}, stalled : Nat]
    /\ job.state = "active" => job.owner \in Workers
    /\ sent \in [Nodes -> Nat]

LEMMA TypeOKSplit ==
    /\ TypeOK <=> RowsOK /\ LocalsOK
    /\ TypeOK' <=> RowsOK' /\ LocalsOK'
  <1>1. TypeOK <=> RowsOK /\ LocalsOK
    BY DEF TypeOK, RowsOK, LocalsOK, LocalOK
  <1>2. TypeOK' <=> RowsOK' /\ LocalsOK'
    BY DEF TypeOK, RowsOK, LocalsOK, LocalOK
  <1>3. QED BY <1>1, <1>2

LEMMA CancelInvariantInit == Init => CancelInvariant
  <1> SUFFICES ASSUME Init PROVE CancelInvariant
    OBVIOUS
  <1>1. RowsOK
    BY DEF Init, ContractInit, RowsOK, ContractTypeOK, RunStatuses, ErrorCodes, StepStatuses
  <1>2. LocalsOK /\ MemoryAgrees
    BY FreshOK DEF Init, LocalsOK, MemoryAgrees, LocalOK
  <1>3. CanceledWasRequested
    BY DEF Init, ContractInit, CanceledWasRequested
  <1>4. QED
    BY <1>1, <1>2, <1>3, TypeOKSplit DEF CancelInvariant

\* The actions of the API process, the queue, the clock and the reaper.
LEMMA OutsideStep ==
    ASSUME CancelInvariant,
           \/ CreateRun \/ Enqueue \/ EnqueueLost \/ CancelCheck \/ CancelWrite
           \/ JobStalls \/ TimePasses \/ ReaperSweep
    PROVE  CancelInvariant'
  <1>1. RowsOK /\ LocalsOK
    BY TypeOKSplit DEF CancelInvariant
  <1>2. RowsOK'
    <2>1. CASE CreateRun
      BY <1>1, <2>1 DEF CreateRun, RowsOK, ContractTypeOK, RunStatuses, StepStatuses
    <2>2. CASE Enqueue \/ EnqueueLost
      BY <1>1, <2>2 DEF Enqueue, EnqueueLost, RowsOK, ContractTypeOK, rowVars
    <2>3. CASE CancelCheck \/ CancelWrite
      BY <1>1, <2>3 DEF CancelCheck, CancelWrite, RowsOK, ContractTypeOK, rowVars
    <2>4. CASE JobStalls
      <3>1. /\ job' \in [state : {"none", "waiting", "active", "gone"}, owner : Workers \union {NoWorker}, stalled : Nat]
            /\ job'.state # "active"
        <4>1. job.stalled \in Nat
          BY <1>1 DEF RowsOK
        <4>2. CASE job.stalled < MaxStalledCount
          <5>1. job' = [state |-> "waiting", owner |-> NoWorker, stalled |-> job.stalled + 1]
            BY <2>4, <4>2 DEF JobStalls
          <5>2. QED
            BY <4>1, <5>1
        <4>3. CASE ~(job.stalled < MaxStalledCount)
          <5>1. job' = [job EXCEPT !.state = "gone", !.owner = NoWorker]
            BY <2>4, <4>3 DEF JobStalls
          <5>2. QED
            BY <1>1, <5>1 DEF RowsOK
        <4>4. QED BY <4>2, <4>3
      <3>2. QED
        BY <1>1, <2>4, <3>1 DEF JobStalls, RowsOK, ContractTypeOK, rowVars
    <2>5. CASE TimePasses \/ ReaperSweep
      BY <1>1, <2>5 DEF TimePasses, ReaperSweep, RowsOK, ContractTypeOK, RunStatuses, ErrorCodes
    <2>6. QED BY <2>1, <2>2, <2>3, <2>4, <2>5
  <1>3. local' = local /\ (cancelRequested => cancelRequested')
    BY DEF CreateRun, Enqueue, EnqueueLost, CancelCheck, CancelWrite, JobStalls, TimePasses, ReaperSweep, rowVars
  <1>4. LocalsOK' /\ MemoryAgrees'
    BY <1>1, <1>3 DEF LocalsOK, MemoryAgrees, CancelInvariant
  <1>5. CanceledWasRequested'
    BY DEF CancelInvariant, CanceledWasRequested, CreateRun, Enqueue, EnqueueLost, CancelCheck, CancelWrite,
           JobStalls, TimePasses, ReaperSweep, rowVars
  <1>6. QED
    BY <1>2, <1>4, <1>5, TypeOKSplit DEF CancelInvariant

\* The moves of a worker that write nothing.
LEMMA LocalStep ==
    ASSUME CancelInvariant, NEW w \in Workers, NEW l, LocalOK(l), l.canceled => cancelRequested,
           GoTo(w, l), OnlyLocal
    PROVE  CancelInvariant'
  <1>1. RowsOK /\ LocalsOK
    BY TypeOKSplit DEF CancelInvariant
  <1>2. RowsOK'
    BY <1>1 DEF OnlyLocal, rowVars, RowsOK, ContractTypeOK
  <1>3. LocalsOK' /\ MemoryAgrees'
    BY <1>1, GoToOK DEF OnlyLocal, rowVars, CancelInvariant
  <1>4. CanceledWasRequested'
    BY DEF CancelInvariant, CanceledWasRequested, OnlyLocal, rowVars
  <1>5. QED
    BY <1>2, <1>3, <1>4, TypeOKSplit DEF CancelInvariant

\* The moves of a worker that write the step it visits, or leave it alone.
LEMMA StepWritingStep ==
    ASSUME CancelInvariant, NEW w \in Workers, NEW l, LocalOK(l), l.canceled => cancelRequested,
           GoTo(w, l), StepWritten, step' \in [Nodes -> StepStatuses]
    PROVE  CancelInvariant'
  <1>1. RowsOK /\ LocalsOK
    BY TypeOKSplit DEF CancelInvariant
  <1>2. RowsOK'
    BY <1>1 DEF StepWritten, runRow, RowsOK, ContractTypeOK
  <1>3. LocalsOK' /\ MemoryAgrees'
    BY <1>1, GoToOK DEF StepWritten, runRow, CancelInvariant
  <1>4. CanceledWasRequested'
    BY DEF CancelInvariant, CanceledWasRequested, StepWritten, runRow
  <1>5. QED
    BY <1>2, <1>3, <1>4, TypeOKSplit DEF CancelInvariant
------------------------------------------------------------------------------
\* A worker's own steps and the faults that hit it, one by one.
LEMMA WorkerStep ==
    ASSUME CancelInvariant, NEW w \in Workers, TakeJob(w) \/ Progress(w) \/ Faults(w)
    PROVE  CancelInvariant'
  <1> DEFINE l == local[w]
  <1>1. /\ RowsOK /\ LocalsOK
        /\ definition \in Definitions
        /\ l \in LocalStates
        /\ l.canceled => cancelRequested
        /\ l.pc \in Visiting => l.todo # <<>>
    BY TypeOKSplit DEF CancelInvariant, RowsOK, ContractTypeOK, LocalsOK, LocalOK, MemoryAgrees
  \* A change of the program counter alone, to a place where no node is visited
  \* or from a place where one is.
  <1>2. ASSUME NEW p \in PCs, p \in Visiting => l.todo # <<>>
        PROVE  LocalOK([l EXCEPT !.pc = p]) /\ [l EXCEPT !.pc = p].canceled = l.canceled
    BY <1>1, <1>2 DEF LocalOK, LocalStates
  \* Reading the cancel flag into the memory.
  <1>3. ASSUME NEW c \in BOOLEAN
        PROVE  /\ [l EXCEPT !.canceled = c] \in LocalStates
               /\ [l EXCEPT !.canceled = c].todo = l.todo
               /\ [l EXCEPT !.canceled = c].canceled = c
    BY <1>1 DEF LocalStates
  <1>4. cancelRequested \in BOOLEAN
    BY <1>1 DEF RowsOK, ContractTypeOK
  <1>5. CASE TakeJob(w)
    <2>1. LocalOK([Fresh EXCEPT !.pc = "loadRun"]) /\ ~[Fresh EXCEPT !.pc = "loadRun"].canceled
      BY FreshOK DEF LocalOK, LocalStates, Fresh, Visiting, PCs
    <2>2. LocalsOK' /\ MemoryAgrees'
      BY <1>1, <1>5, <2>1, GoToOK DEF TakeJob, rowVars, CancelInvariant
    <2>3. RowsOK'
      BY <1>1, <1>5 DEF TakeJob, rowVars, RowsOK, ContractTypeOK
    <2>4. CanceledWasRequested'
      BY <1>5 DEF TakeJob, rowVars, CancelInvariant, CanceledWasRequested
    <2>5. QED
      BY <2>2, <2>3, <2>4, TypeOKSplit DEF CancelInvariant
  <1>6. CASE LoadRun(w)
    <2>1. PICK p \in {"done", "markRun"} : GoTo(w, [l EXCEPT !.pc = p])
      BY <1>6 DEF LoadRun
    <2>2. LocalOK([l EXCEPT !.pc = p]) /\ [l EXCEPT !.pc = p].canceled = l.canceled
      BY <1>2 DEF PCs, Visiting
    <2>3. QED
      BY <1>1, <1>6, <2>1, <2>2, LocalStep DEF LoadRun
  <1>7. CASE MarkRunRunning(w)
    <2>1. Follows(l, StartSetup(l))
      BY <1>1, StartSetupOK
    <2>2. LocalsOK' /\ MemoryAgrees'
      BY <1>1, <1>7, <2>1, GoToOK DEF MarkRunRunning, Follows, CancelInvariant
    <2>3. RowsOK'
      BY <1>1, <1>7 DEF MarkRunRunning, RowsOK, ContractTypeOK, RunStatuses
    <2>4. CanceledWasRequested'
      BY <1>7 DEF MarkRunRunning, CanceledWasRequested
    <2>5. QED
      BY <2>2, <2>3, <2>4, TypeOKSplit DEF CancelInvariant
  <1>8. CASE CheckCancel(w)
    <2> DEFINE list == IF l.phase = "setup" THEN PhaseNodes("setup") \o PhaseNodes("test") ELSE PhaseNodes("test")
    <2>1. l.todo # <<>> /\ OnlyLocal
      BY <1>1, <1>8 DEF CheckCancel, Visiting
    <2>2. list \in Seq(Nodes)
      BY <1>1, PhaseNodesType DEF Phases
    <2>3. CASE cancelRequested
      <3>1. [l EXCEPT !.canceled = TRUE] \in LocalStates /\ [l EXCEPT !.canceled = TRUE].canceled
        BY <1>3
      <3>2. Follows([l EXCEPT !.canceled = TRUE], StartSweep([l EXCEPT !.canceled = TRUE], list, "canceled"))
        BY <1>1, <2>2, <3>1, StartSweepOK
      <3>3. GoTo(w, StartSweep([l EXCEPT !.canceled = TRUE], list, "canceled"))
        BY <1>8, <2>3 DEF CheckCancel
      <3>4. QED
        BY <2>1, <2>3, <3>2, <3>3, LocalStep DEF Follows
    <2>4. CASE ~cancelRequested
      <3>1. PICK p \in {"skipBlocked", "loadStep"} : GoTo(w, [l EXCEPT !.pc = p])
        BY <1>8, <2>4 DEF CheckCancel
      <3>2. LocalOK([l EXCEPT !.pc = p]) /\ [l EXCEPT !.pc = p].canceled = l.canceled
        BY <1>2, <2>1 DEF PCs
      <3>3. QED
        BY <1>1, <2>1, <3>1, <3>2, LocalStep
    <2>5. QED BY <2>3, <2>4
  <1>9. CASE SkipBlocked(w)
    <2>1. l.todo # <<>> /\ StepWritten /\ GoTo(w, NextNode(l)) /\ WriteStep(w, "skipped")
      BY <1>1, <1>9 DEF SkipBlocked, Visiting
    <2>2. Follows(l, NextNode(l))
      BY <1>1, <2>1, NextNodeOK
    <2>3. step' \in [Nodes -> StepStatuses]
      BY <2>1, WriteStepOK DEF CancelInvariant, StepStatuses
    <2>4. QED
      BY <1>1, <2>1, <2>2, <2>3, StepWritingStep DEF Follows
  <1>10. CASE LoadStep(w)
    <2>1. l.todo # <<>> /\ OnlyLocal
      BY <1>1, <1>10 DEF LoadStep, Visiting
    <2>2. PICK next \in {NodeFailed(l), AfterNode(l), [l EXCEPT !.pc = "skipStep"], [l EXCEPT !.pc = "markStep"]} :
              GoTo(w, next)
      BY <1>10 DEF LoadStep
    <2>3. Follows(l, NodeFailed(l)) /\ Follows(l, AfterNode(l))
      BY <1>1, <2>1, NodeFailedOK, AfterNodeOK
    <2>4. Follows(l, [l EXCEPT !.pc = "skipStep"]) /\ Follows(l, [l EXCEPT !.pc = "markStep"])
      BY <1>2, <2>1 DEF PCs, Follows
    <2>5. QED
      BY <1>1, <2>1, <2>2, <2>3, <2>4, LocalStep DEF Follows
  <1>11. CASE SkipDependent(w)
    <2>1. l.todo # <<>> /\ StepWritten
      BY <1>1, <1>11 DEF SkipDependent, Visiting
    <2>2. CASE WriteStep(w, "skipped") /\ GoTo(w, NextNode(l))
      <3>1. Follows(l, NextNode(l))
        BY <1>1, <2>1, NextNodeOK
      <3>2. step' \in [Nodes -> StepStatuses]
        BY <2>1, <2>2, WriteStepOK DEF CancelInvariant, StepStatuses
      <3>3. QED
        BY <1>1, <2>1, <2>2, <3>1, <3>2, StepWritingStep DEF Follows
    <2>3. CASE /\ WriteStep(w, "failed")
               /\ GoTo(w, NodeFailed([l EXCEPT !.failedNodes = @ \union {Head(l.todo)}]))
      <3> DEFINE marked == [l EXCEPT !.failedNodes = @ \union {Head(l.todo)}]
      <3>1. marked \in LocalStates /\ marked.todo = l.todo /\ marked.canceled = l.canceled
        BY <1>1, <2>1 DEF LocalStates
      <3>2. Follows(marked, NodeFailed(marked))
        BY <1>1, <2>1, <3>1, NodeFailedOK
      <3>3. step' \in [Nodes -> StepStatuses]
        BY <2>1, <2>3, WriteStepOK DEF CancelInvariant, StepStatuses
      <3>4. QED
        BY <1>1, <2>1, <2>3, <3>1, <3>2, <3>3, StepWritingStep DEF Follows
    <2>4. QED
      BY <1>11, <2>2, <2>3 DEF SkipDependent
  <1>12. CASE MarkStepRunning(w)
    <2>1. l.todo # <<>> /\ StepWritten /\ WriteStep(w, "running") /\ GoTo(w, [l EXCEPT !.pc = "execute"])
      BY <1>1, <1>12 DEF MarkStepRunning, Visiting
    <2>2. LocalOK([l EXCEPT !.pc = "execute"]) /\ [l EXCEPT !.pc = "execute"].canceled = l.canceled
      BY <1>2, <2>1 DEF PCs
    <2>3. step' \in [Nodes -> StepStatuses]
      BY <2>1, WriteStepOK DEF CancelInvariant, StepStatuses
    <2>4. QED
      BY <1>1, <2>1, <2>2, <2>3, StepWritingStep
  <1>13. CASE ExecuteStep(w)
    <2>1. PICK r \in {"succeeded", "failed"} : GoTo(w, [l EXCEPT !.pc = "persist", !.result = r])
      BY <1>13 DEF ExecuteStep
    <2>2. l.todo # <<>>
      BY <1>1, <1>13 DEF ExecuteStep, Visiting
    <2>3. Follows(l, [l EXCEPT !.pc = "persist", !.result = r])
      BY <1>1, <2>2 DEF Follows, LocalOK, LocalStates, PCs
    <2>4. LocalsOK' /\ MemoryAgrees'
      BY <1>1, <1>13, <2>1, <2>3, GoToOK DEF ExecuteStep, rowVars, Follows, CancelInvariant
    <2>5. sent' \in [Nodes -> Nat]
      <3>1. Head(l.todo) \in Nodes /\ sent \in [Nodes -> Nat]
        BY <1>1, <2>2 DEF LocalStates, RowsOK
      <3>2. sent' = sent \/ sent' = [sent EXCEPT ![Head(l.todo)] = @ + 1]
        BY <1>13 DEF ExecuteStep
      <3>3. QED BY <3>1, <3>2
    <2>6. RowsOK' /\ CanceledWasRequested'
      BY <1>1, <1>13, <2>5 DEF ExecuteStep, rowVars, RowsOK, ContractTypeOK, CancelInvariant, CanceledWasRequested
    <2>7. QED
      BY <2>4, <2>6, TypeOKSplit DEF CancelInvariant
  <1>14. CASE PersistStep(w)
    <2>1. l.todo # <<>> /\ StepWritten /\ WriteStep(w, l.result)
      BY <1>1, <1>14 DEF PersistStep, Visiting
    <2> DEFINE failed == [l EXCEPT !.failedNodes = @ \union {Head(l.todo)}]
               passed == [l EXCEPT !.accumulatedVars = @ \union {Head(l.todo)}]
    <2>2. /\ failed \in LocalStates /\ failed.todo = l.todo /\ failed.canceled = l.canceled
          /\ passed \in LocalStates /\ passed.todo = l.todo /\ passed.canceled = l.canceled
      BY <1>1, <2>1 DEF LocalStates
    <2>3. Follows(failed, NodeFailed(failed)) /\ Follows(passed, AfterNode(passed))
      BY <1>1, <2>1, <2>2, NodeFailedOK, AfterNodeOK
    <2>4. PICK next \in {NodeFailed(failed), AfterNode(passed)} : GoTo(w, next)
      BY <1>14 DEF PersistStep
    <2>5. step' \in [Nodes -> StepStatuses]
      <3>1. l.result \in StepStatuses
        BY <1>1 DEF LocalStates, StepStatuses
      <3>2. QED
        BY <2>1, <3>1, WriteStepOK DEF CancelInvariant
    <2> HIDE DEF failed, passed
    <2>6. QED
      BY <1>1, <2>1, <2>2, <2>3, <2>4, <2>5, StepWritingStep DEF Follows
  <1>15. CASE MarkQueuedNode(w)
    <2>1. l.todo # <<>> /\ StepWritten
      BY <1>1, <1>15 DEF MarkQueuedNode, Visiting
    <2> DEFINE swept == [l EXCEPT !.todo = <<>>]
               rest == [l EXCEPT !.todo = Tail(l.todo)]
    <2>2. swept \in LocalStates /\ swept.canceled = l.canceled
      <3>1. <<>> \in Seq(Nodes)
        OBVIOUS
      <3>2. QED
        BY <1>1, <3>1 DEF LocalStates
    <2>3. Tail(l.todo) \in Seq(Nodes)
      <3>1. l.todo \in Seq(Nodes)
        BY <1>1 DEF LocalStates
      <3>2. QED BY <2>1, <3>1
    <2>4. Follows(swept, AfterBody(swept))
      BY <1>1, <2>2, AfterBodyOK
    <2>5. Tail(l.todo) # <<>> => Follows(l, rest)
      BY <1>1, <2>3 DEF Follows, LocalOK, LocalStates
    <2>6. PICK next : GoTo(w, next) /\ LocalOK(next) /\ (next.canceled => cancelRequested)
      <3>1. CASE Tail(l.todo) = <<>>
        <4>1. GoTo(w, AfterBody(swept))
          BY <1>15, <3>1 DEF MarkQueuedNode
        <4>2. LocalOK(AfterBody(swept)) /\ (AfterBody(swept).canceled => cancelRequested)
          BY <1>1, <2>2, <2>4 DEF Follows
        <4> HIDE DEF swept
        <4>3. QED BY <4>1, <4>2
      <3>2. CASE Tail(l.todo) # <<>>
        <4>1. GoTo(w, rest)
          BY <1>15, <3>2 DEF MarkQueuedNode
        <4>2. LocalOK(rest) /\ (rest.canceled => cancelRequested)
          BY <1>1, <2>5, <3>2 DEF Follows
        <4> HIDE DEF rest
        <4>3. QED BY <4>1, <4>2
      <3>3. QED BY <3>1, <3>2
    <2>7. step' \in [Nodes -> StepStatuses]
      <3>1. CASE step[Head(l.todo)] = "queued"
        <4>1. WriteStep(w, l.sweepTo) /\ l.sweepTo \in StepStatuses
          BY <1>1, <1>15, <3>1 DEF MarkQueuedNode, LocalStates, StepStatuses
        <4>2. QED
          BY <2>1, <4>1, WriteStepOK DEF CancelInvariant
      <3>2. CASE step[Head(l.todo)] # "queued"
        BY <1>1, <1>15, <3>2 DEF MarkQueuedNode, RowsOK, ContractTypeOK
      <3>3. QED BY <3>1, <3>2
    <2>8. QED
      BY <2>1, <2>6, <2>7, StepWritingStep
  <1>16. CASE FinalCheck(w) \/ TeardownCheck(w)
    <2> DEFINE told == [l EXCEPT !.canceled = cancelRequested]
    <2>1. told \in LocalStates /\ told.todo = l.todo /\ told.canceled = cancelRequested
      BY <1>3, <1>4
    <2> HIDE DEF told
    <2>2. CASE FinalCheck(w)
      <3>1. Follows(told, StartTeardown(told))
        BY <1>1, <2>1, StartTeardownOK
      <3>2. GoTo(w, StartTeardown(told)) /\ OnlyLocal
        BY <2>2 DEF FinalCheck, told
      <3>3. QED
        BY <2>1, <3>1, <3>2, LocalStep DEF Follows
    <2>3. CASE TeardownCheck(w)
      <3>1. l.todo # <<>> /\ GoTo(w, NextNode(told)) /\ OnlyLocal
        BY <1>1, <2>3 DEF TeardownCheck, Visiting, told
      <3>2. Follows(told, NextNode(told))
        BY <1>1, <2>1, <3>1, NextNodeOK
      <3>3. QED
        BY <2>1, <3>1, <3>2, LocalStep DEF Follows
    <2>4. QED BY <1>16, <2>2, <2>3
  <1>17. CASE FinalizeRun(w) \/ FinalizeError(w)
    <2>1. /\ GoTo(w, [l EXCEPT !.pc = "done"])
          /\ cancelRequested' = cancelRequested /\ step' = step /\ stale' = FALSE
          /\ UNCHANGED <<definition, creator, canceller, job, sent>>
      BY <1>17 DEF FinalizeRun, FinalizeError
    <2>2. Follows(l, [l EXCEPT !.pc = "done"])
      BY <1>2 DEF PCs, Visiting, Follows
    <2>3. LocalsOK' /\ MemoryAgrees'
      BY <1>1, <2>1, <2>2, GoToOK DEF Follows, CancelInvariant
    <2>4. runStatus' \in RunStatuses /\ errorCode' \in ErrorCodes /\ CanceledWasRequested'
      <3>1. CASE FinalizeRun(w)
        <4>1. /\ FinalOutcome(l)[1] \in RunStatuses /\ FinalOutcome(l)[2] \in ErrorCodes
              /\ FinalOutcome(l)[1] = "canceled" => l.canceled
          BY DEF FinalOutcome, RunStatuses, ErrorCodes
        <4>2. runStatus' = FinalOutcome(l)[1] /\ errorCode' = FinalOutcome(l)[2]
          BY <3>1 DEF FinalizeRun
        <4>3. QED
          BY <1>1, <2>1, <4>1, <4>2 DEF CanceledWasRequested
      <3>2. CASE FinalizeError(w)
        BY <3>2 DEF FinalizeError, RunStatuses, ErrorCodes, CanceledWasRequested
      <3>3. QED BY <1>17, <3>1, <3>2
    <2>5. RowsOK'
      BY <1>1, <2>1, <2>4 DEF RowsOK, ContractTypeOK
    <2>6. QED
      BY <2>3, <2>4, <2>5, TypeOKSplit DEF CancelInvariant
  <1>18. CASE ReleaseJob(w)
    <2>1. LocalsOK' /\ MemoryAgrees'
      BY <1>1, <1>18, FreshOK, GoToOK DEF ReleaseJob, rowVars, CancelInvariant
    <2>2. job' = job \/ job' = [job EXCEPT !.state = "gone", !.owner = NoWorker]
      BY <1>18 DEF ReleaseJob
    <2>3. RowsOK' /\ CanceledWasRequested'
      BY <1>1, <1>18, <2>2 DEF ReleaseJob, rowVars, RowsOK, ContractTypeOK, CancelInvariant, CanceledWasRequested
    <2>4. QED
      BY <2>1, <2>3, TypeOKSplit DEF CancelInvariant
  <1>19. CASE Faults(w)
    <2>1. CASE StoreFails(w) \/ JobFails(w)
      <3>1. PICK p \in {"finalizeError", "done"} : GoTo(w, [l EXCEPT !.pc = p])
        BY <2>1 DEF StoreFails, JobFails
      <3>2. LocalOK([l EXCEPT !.pc = p]) /\ [l EXCEPT !.pc = p].canceled = l.canceled
        BY <1>2 DEF PCs, Visiting
      <3>3. OnlyLocal
        BY <2>1 DEF StoreFails, JobFails
      <3>4. QED
        BY <1>1, <3>1, <3>2, <3>3, LocalStep
    <2>2. CASE Crash(w)
      BY <2>2, FreshOK, LocalStep DEF Crash
    <2>3. QED
      BY <1>19, <2>1, <2>2 DEF Faults
  <1>20. QED
    BY <1>5, <1>6, <1>7, <1>8, <1>9, <1>10, <1>11, <1>12, <1>13, <1>14, <1>15, <1>16, <1>17, <1>18, <1>19
    DEF Progress
------------------------------------------------------------------------------
(* Every step of the system keeps the invariant. *)
LEMMA CancelInvariantStep == CancelInvariant /\ [Next]_vars => CancelInvariant'
  <1> SUFFICES ASSUME CancelInvariant, [Next]_vars PROVE CancelInvariant'
    OBVIOUS
  <1>1. CASE \/ CreateRun \/ Enqueue \/ EnqueueLost \/ CancelCheck \/ CancelWrite
             \/ JobStalls \/ TimePasses \/ ReaperSweep
    BY <1>1, OutsideStep
  <1>2. CASE \E w \in Workers : TakeJob(w) \/ Progress(w) \/ Faults(w)
    BY <1>2, WorkerStep
  <1>3. CASE UNCHANGED vars
    BY <1>3 DEF vars, CancelInvariant, TypeOK, ContractTypeOK, MemoryAgrees, CanceledWasRequested
  <1>4. QED
    BY <1>1, <1>2, <1>3 DEF Next

(* Every row, job and worker memory stays in its range, and a worker that
   visits a node has one (all of executeRun, its store and its actors). *)
THEOREM TypeCorrect == Spec => []TypeOK
  <1>1. CancelInvariant => TypeOK
    BY DEF CancelInvariant
  <1>2. QED
    BY <1>1, CancelInvariantInit, CancelInvariantStep, PTL DEF Spec

(* A run ends as canceled only if cancellation was requested, for any number of
   workers, redeliveries, lapsed locks and failing store calls
   (runner.service.ts:128-193, 222-224). *)
THEOREM CanceledWasRequestedHolds == Spec => []CanceledWasRequested
  <1>1. CancelInvariant => CanceledWasRequested
    BY DEF CancelInvariant
  <1>2. QED
    BY <1>1, CancelInvariantInit, CancelInvariantStep, PTL DEF Spec
=============================================================================
