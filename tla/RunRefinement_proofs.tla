------------------------ MODULE RunRefinement_proofs ------------------------
(***************************************************************************)
(* The detailed model implements RunContract as long as a job is not taken *)
(* from a worker that is still alive, for every workflow, any number of    *)
(* workers and redeliveries.                                               *)
(*                                                                         *)
(* The argument: one worker processes the run at a time (OneProcesses), so *)
(* what its memory says about the rows stays true between its awaits.      *)
(* MemoryInv says what that is at each place of executeRun, RowsInv what   *)
(* earlier deliveries left behind in the rows.                             *)
(*                                                                         *)
(* The last part, RequestsPerDelivery, is about any number of workers at   *)
(* once: it counts the workers that may still send a node's request.       *)
(***************************************************************************)
EXTENDS TestWorkflowRun_proofs, FiniteSetTheorems

(***************************************************************************)
(* The invariant.  d is the definition, st the steps, cr the cancel flag,  *)
(* l the memory of the worker.                                             *)
(***************************************************************************)
In(d, p) == {n \in Nodes : d.phase[n] = p}
BodyOf(d) == In(d, "setup") \union In(d, "test")
Elements(q) == {q[i] : i \in 1..Len(q)}
Succeeded(st, S) == \A n \in S : st[n] = "succeeded"
Failed(st, S) == \E n \in S : st[n] = "failed"

\* A setup node is skipped behind a failed dependency, a test node behind a
\* failed ancestor or a failed setup; teardown nodes are never dropped.
SkipsHaveCauses(d, st) ==
    /\ \A n \in In(d, "setup") : st[n] = "skipped" =>
          \E m \in In(d, "setup") : <<m, n>> \in d.edges /\ st[m] = "failed"
    /\ \A n \in In(d, "test") : st[n] = "skipped" =>
          Failed(st, In(d, "setup")) \/ Failed(st, AncestorsOf[d][n])
    /\ \A n \in In(d, "teardown") : st[n] \notin {"skipped", "canceled"}

\* What ran did so after what it depends on.
RanInOrder(d, st) ==
    /\ \A m, n \in In(d, "setup") : <<m, n>> \in d.edges /\ st[n] \in Ran => st[m] \in TerminalStepStatuses
    /\ \A n \in In(d, "test") : st[n] \in Ran => Succeeded(st, In(d, "setup") \union AncestorsOf[d][n])

CanceledOnRequest(st, cr) == \A n \in Nodes : st[n] = "canceled" => cr

RowsInv(d, st, cr) == SkipsHaveCauses(d, st) /\ RanInOrder(d, st) /\ CanceledOnRequest(st, cr)

\* The list a loop goes through: nodes of its phase, ancestors first.
TodoInv(d, l) ==
    /\ \A i \in 1..Len(l.todo) : d.phase[l.todo[i]] = l.phase
    /\ \A i, j \in 1..Len(l.todo) : l.todo[i] \in AncestorsOf[d][l.todo[j]] => i < j

\* What the flags and the sets of a memory say about the rows.
FlagsInv(d, l, st, cr) ==
    /\ l.canceled => cr
    /\ l.setupFailed => Failed(st, In(d, "setup"))
    /\ l.testFailed => Failed(st, In(d, "test"))
    /\ l.teardownFailed => Failed(st, In(d, "teardown"))
    /\ \A m \in l.failedNodes : st[m] = "failed" /\ \A n \in BodyOf(d) : <<m, n>> \in d.edges => st[n] \notin Ran
    /\ \A n \in l.blockedTests : Failed(st, AncestorsOf[d][n] \intersect In(d, "test"))

\* The nodes of a phase that a loop has been through: all but those in rest.
SetupVisited(d, l, st, rest) ==
    \A n \in In(d, "setup") \ rest :
        st[n] \in {"succeeded", "failed", "skipped"} /\ (st[n] = "failed" => l.setupFailed)
TestsVisited(d, l, st, rest) ==
    \A n \in In(d, "test") \ rest :
        /\ st[n] \in {"succeeded", "failed", "skipped"}
        /\ st[n] = "failed" => l.testFailed /\ DescendantsOf[d][n] \subseteq l.blockedTests
TeardownVisited(d, l, st, rest) ==
    \A n \in In(d, "teardown") \ rest : st[n] \in {"succeeded", "failed"} /\ (st[n] = "failed" => l.teardownFailed)

NothingCanceled(st) == \A n \in Nodes : st[n] # "canceled"

SetupLoop(d, l, st, rest) ==
    l.phase = "setup" /\ ~l.canceled /\ ~l.testFailed /\ l.blockedTests = {} /\ SetupVisited(d, l, st, rest)
TestLoop(d, l, st, rest) ==
    /\ l.phase = "test" /\ ~l.canceled /\ ~l.setupFailed
    /\ Succeeded(st, In(d, "setup")) /\ TestsVisited(d, l, st, rest)
BodyLoop(d, l, st, rest) == SetupLoop(d, l, st, rest) \/ TestLoop(d, l, st, rest)

\* The body is decided, and only a flag excuses a node that has not succeeded.
BodyDone(d, l, st) ==
    /\ \A n \in BodyOf(d) : st[n] # "queued"
    /\ ~l.canceled /\ ~l.setupFailed /\ ~l.testFailed => Succeeded(st, BodyOf(d))

Sweeping(d, l, st) ==
    /\ Elements(l.todo) \subseteq BodyOf(d)
    /\ \A n \in BodyOf(d) \ Elements(l.todo) : st[n] # "queued"
    /\ IF l.sweepTo = "canceled" THEN l.canceled
       ELSE l.setupFailed /\ Elements(l.todo) \subseteq In(d, "test")

TeardownLoop(d, l, st, rest) == l.phase = "teardown" /\ BodyDone(d, l, st) /\ TeardownVisited(d, l, st, rest)

LoopPCs == {"checkCancel", "skipBlocked", "loadStep", "skipStep", "markStep", "execute", "persist"}
Blocked(d, l, n) == \E m \in l.failedNodes : <<m, n>> \in d.edges
Undecided == {"queued", "running"}

\* What the worker knows of the node it visits.
VisitInv(d, l, st) ==
    LET n == Head(l.todo) IN
    /\ l.phase # "teardown" /\ l.pc # "checkCancel" => NothingCanceled(st)
    /\ l.pc \in {"checkCancel", "skipBlocked"} => l.phase # "teardown"
    /\ l.pc = "skipBlocked" => n \in l.blockedTests
    /\ l.phase = "test" /\ l.pc \in {"loadStep", "skipStep", "markStep"} => n \notin l.blockedTests
    /\ l.pc = "skipStep" => st[n] \in Undecided /\ Blocked(d, l, n)
    /\ l.pc = "markStep" => st[n] \in Undecided /\ ~Blocked(d, l, n)
    /\ l.pc \in {"execute", "persist"} => st[n] = "running"

Untouched(l) ==
    /\ l.phase = "setup" /\ l.failedNodes = {} /\ l.blockedTests = {}
    /\ ~l.setupFailed /\ ~l.testFailed /\ ~l.teardownFailed /\ ~l.canceled

MemoryInv(d, l, st, cr) ==
    /\ l.pc \in {"loadRun", "markRun"} => Untouched(l)
    /\ l.pc \in PCs \ {"idle", "loadRun", "markRun", "done", "finalizeError"} => FlagsInv(d, l, st, cr)
    /\ l.pc \in LoopPCs =>
          /\ TodoInv(d, l) /\ VisitInv(d, l, st)
          /\ BodyLoop(d, l, st, Elements(l.todo)) \/ TeardownLoop(d, l, st, Elements(l.todo))
    /\ l.pc = "sweep" => Sweeping(d, l, st)
    /\ l.pc = "finalCheck" => BodyDone(d, l, st) /\ ~l.canceled
    /\ l.pc = "teardownCheck" => TodoInv(d, l) /\ TeardownLoop(d, l, st, Elements(Tail(l.todo)))
    /\ l.pc = "finalize" => TeardownLoop(d, l, st, {})

\* The job has one worker: locks do not lapse, or it was handed out once.
OneAtATime == ~LockMayLapse \/ job.stalled = 0

OneProcesses ==
    /\ \A w \in Workers : local[w].pc # "idle" => job.state \in {"active", "gone"} /\ (job.state = "active" => job.owner = w)
    /\ \A v, w \in Workers : local[v].pc # "idle" /\ local[w].pc # "idle" => v = w

\* Where the run's row stands while a worker is at it.
RunIsLive ==
    \A w \in Workers :
        /\ local[w].pc = "markRun" => runStatus = "queued" \/ Live
        /\ local[w].pc \in PCs \ {"idle", "loadRun", "markRun", "done"} => Live

\* In its first delivery a worker holds the exports of whatever has succeeded.
FirstDelivery ==
    job.stalled = 0 =>
        /\ job.state \in {"none", "waiting"} => \A n \in Nodes : step[n] # "succeeded"
        /\ \A w \in Workers : local[w].pc # "idle" =>
              \A n \in Nodes : step[n] = "succeeded" => n \in local[w].accumulatedVars

Alone ==
    /\ OneProcesses /\ RunIsLive /\ FirstDelivery
    /\ RowsInv(definition, step, cancelRequested)
    /\ \A w \in Workers : MemoryInv(definition, local[w], step, cancelRequested)

\* The API process, the row and the job come into being in this order.
Created ==
    /\ creator = "idle" <=> runStatus = "absent"
    /\ canceller = "checked" => runStatus # "absent"
    /\ job.state # "none" => creator = "answered"
    /\ \A w \in Workers : local[w].pc # "idle" => creator = "answered"
    /\ \A n \in Nodes : step[n] = "absent" <=> runStatus = "absent"

RunInv == CancelInvariant /\ Created /\ (OneAtATime => Alone)
------------------------------------------------------------------------------
(***************************************************************************)
(* Facts about the graph of a definition.                                  *)
(***************************************************************************)
LEMMA DefinitionType ==
    ASSUME NEW d \in Definitions
    PROVE  /\ d.phase \in [Nodes -> Phases]
           /\ d.edges \in SUBSET (Nodes \X Nodes)
           /\ d.byPhase \in [Phases -> Seq(Nodes)]
           /\ \A n \in Nodes : /\ AncestorsOf[d][n] = Ancestors(Nodes, d.edges, n)
                               /\ DescendantsOf[d][n] = Descendants(Nodes, d.edges, n)
  BY DefinitionsAssumption DEF IsDefinition, AncestorsOf, DescendantsOf

LEMMA AncestorType ==
    ASSUME NEW d \in Definitions, NEW n \in Nodes
    PROVE  AncestorsOf[d][n] \subseteq Nodes
  BY DefinitionType DEF Ancestors

LEMMA AncestorsAreReached ==
    ASSUME NEW d \in Definitions, NEW m \in Nodes, NEW n \in Nodes
    PROVE  m \in AncestorsOf[d][n] <=> n \in DescendantsOf[d][m]
  BY DefinitionType DEF Ancestors

LEMMA DependencyIsAncestor ==
    ASSUME NEW d \in Definitions, NEW m \in Nodes, NEW n \in Nodes, <<m, n>> \in d.edges
    PROVE  m \in AncestorsOf[d][n]
  <1>1. n \in Children(d.edges, m)
    BY DEF Children
  <1>2. n \in Descendants(Nodes, d.edges, m)
    BY <1>1 DEF Descendants
  <1>3. QED BY <1>2, DefinitionType DEF Ancestors

LEMMA AncestorsAreTransitive ==
    ASSUME NEW d \in Definitions, NEW m \in Nodes, NEW k \in Nodes, NEW n \in Nodes,
           m \in AncestorsOf[d][k], k \in AncestorsOf[d][n]
    PROVE  m \in AncestorsOf[d][n]
  <1>1. k \in Descendants(Nodes, d.edges, m) /\ n \in Descendants(Nodes, d.edges, k)
    BY DefinitionType DEF Ancestors
  <1>2. ASSUME NEW S \in SUBSET Nodes, Children(d.edges, m) \subseteq S, ClosedUnder(d.edges, S)
        PROVE  n \in S
    <2>1. k \in S
      BY <1>1, <1>2 DEF Descendants
    <2>2. Children(d.edges, k) \subseteq S
      BY <1>2, <2>1 DEF Children, ClosedUnder
    <2>3. QED BY <1>1, <1>2, <2>2 DEF Descendants
  <1>3. n \in Descendants(Nodes, d.edges, m)
    BY <1>2 DEF Descendants
  <1>4. QED BY <1>3, DefinitionType DEF Ancestors

LEMMA AncestorsComeEarlier ==
    ASSUME NEW d \in Definitions, NEW m \in Nodes, NEW n \in Nodes, m \in AncestorsOf[d][n]
    PROVE  PhaseOrder(d.phase[m]) <= PhaseOrder(d.phase[n])
  <1> DEFINE S == {x \in Nodes : PhaseOrder(d.phase[m]) <= PhaseOrder(d.phase[x])}
  <1>1. PhasesMoveForward(d.phase, d.edges) /\ d.edges \in SUBSET (Nodes \X Nodes)
    BY DefinitionsAssumption DEF IsDefinition
  <1>2. \A x \in Nodes : PhaseOrder(d.phase[x]) \in Nat
    <2>1. \A x \in Nodes : d.phase[x] \in Phases
      BY DefinitionType
    <2>2. QED BY <2>1 DEF Phases, PhaseOrder
  <1>3. \A e \in d.edges : e[1] \in Nodes /\ e[2] \in Nodes /\ PhaseOrder(d.phase[e[1]]) <= PhaseOrder(d.phase[e[2]])
    BY <1>1 DEF PhasesMoveForward
  <1>4. Children(d.edges, m) \subseteq S
    BY <1>3 DEF Children
  <1>5. ClosedUnder(d.edges, S)
    <2> SUFFICES ASSUME NEW e \in d.edges, e[1] \in S PROVE e[2] \in S
      BY DEF ClosedUnder
    <2>1. e[2] \in Nodes /\ PhaseOrder(d.phase[e[1]]) <= PhaseOrder(d.phase[e[2]]) /\ e[1] \in Nodes
      BY <1>3
    <2>2. PhaseOrder(d.phase[m]) <= PhaseOrder(d.phase[e[2]])
      BY <1>2, <2>1
    <2>3. QED BY <2>1, <2>2
  <1>6. n \in Descendants(Nodes, d.edges, m)
    BY DefinitionType DEF Ancestors
  <1>7. n \in S
    BY <1>4, <1>5, <1>6 DEF Descendants
  <1>8. QED BY <1>7

LEMMA PhaseOrders == /\ PhaseOrder("setup") = 0 /\ PhaseOrder("test") = 1 /\ PhaseOrder("teardown") = 2
  BY DEF PhaseOrder

\* What a setup node depends on is setup, and what a test node depends on is of the body.
LEMMA BodyIsClosed ==
    ASSUME NEW d \in Definitions, NEW n \in Nodes, NEW m \in AncestorsOf[d][n]
    PROVE  /\ d.phase[n] = "setup" => m \in In(d, "setup")
           /\ n \in BodyOf(d) => m \in BodyOf(d)
  <1>1. m \in Nodes
    BY AncestorType
  <1>2. PhaseOrder(d.phase[m]) <= PhaseOrder(d.phase[n]) /\ d.phase[m] \in Phases
    BY <1>1, AncestorsComeEarlier, DefinitionType
  <1>3. d.phase[n] = "setup" => d.phase[m] = "setup"
    BY <1>2, PhaseOrders DEF Phases
  <1>4. d.phase[n] = "test" => d.phase[m] \in {"setup", "test"}
    BY <1>2, PhaseOrders DEF Phases
  <1>5. QED BY <1>1, <1>3, <1>4 DEF In, BodyOf

LEMMA AncestorsAreOrdered ==
    ASSUME NEW d \in Definitions, NEW o, LinearExtension(Nodes, d.edges, o),
           NEW i \in 1..Len(o), NEW j \in 1..Len(o), o[i] \in AncestorsOf[d][o[j]]
    PROVE  i < j
  <1> DEFINE Later == {o[k] : k \in {x \in 1..Len(o) : i < x}}
  <1>1. /\ o \in Seq(Nodes) /\ Len(o) \in Nat /\ \A k \in 1..Len(o) : o[k] \in Nodes
        /\ \A n \in Nodes : \E k \in 1..Len(o) : o[k] = n
        /\ \A x, y \in 1..Len(o) : o[x] = o[y] => x = y
        /\ \A x, y \in 1..Len(o) : <<o[x], o[y]>> \in d.edges => x < y
    BY SMTT(60) DEF LinearExtension
  <1>2. Later \in SUBSET Nodes
    <2> SUFFICES ASSUME NEW x \in Later PROVE x \in Nodes
      OBVIOUS
    <2>1. PICK k \in 1..Len(o) : x = o[k]
      OBVIOUS
    <2>2. QED BY <1>1, <2>1
  <1>3. \A e \in d.edges : e[1] \in Nodes /\ e[2] \in Nodes /\ e = <<e[1], e[2]>>
    BY DefinitionType
  <1>4. Children(d.edges, o[i]) \subseteq Later
    <2> SUFFICES ASSUME NEW e \in d.edges, e[1] = o[i] PROVE e[2] \in Later
      BY DEF Children
    <2>1. PICK k \in 1..Len(o) : o[k] = e[2]
      BY <1>1, <1>3
    <2>2. <<o[i], o[k]>> \in d.edges
      BY <1>3, <2>1
    <2>3. i < k
      BY <1>1, <2>2
    <2>4. QED BY <2>1, <2>3
  <1>5. ClosedUnder(d.edges, Later)
    <2> SUFFICES ASSUME NEW e \in d.edges, e[1] \in Later PROVE e[2] \in Later
      BY DEF ClosedUnder
    <2>1. PICK x \in 1..Len(o) : o[x] = e[1] /\ i < x
      OBVIOUS
    <2>2. PICK y \in 1..Len(o) : o[y] = e[2]
      BY <1>1, <1>3
    <2>3. <<o[x], o[y]>> \in d.edges
      BY <1>3, <2>1, <2>2
    <2>4. x < y
      BY <1>1, <2>3
    <2>5. i < y
      BY <1>1, <2>1, <2>2, <2>4
    <2>6. QED BY <2>2, <2>5
  <1>6. o[j] \in Descendants(Nodes, d.edges, o[i])
    BY SMTT(60), <1>1, DefinitionType DEF Ancestors
  <1> HIDE DEF Later
  <1>7. o[j] \in Later
    BY <1>2, <1>4, <1>5, <1>6 DEF Descendants
  <1>8. PICK k \in 1..Len(o) : o[k] = o[j] /\ i < k
    BY <1>7 DEF Later
  <1>9. k = j
    BY <1>1, <1>8
  <1>10. QED BY <1>8, <1>9

\* The list of a phase has every node of the phase, no other, and ancestors first.
LEMMA PhaseList ==
    ASSUME NEW d \in Definitions, NEW p \in Phases
    PROVE  /\ d.byPhase[p] \in Seq(Nodes)
           /\ In(d, p) = Elements(d.byPhase[p])
           /\ \A i, j \in 1..Len(d.byPhase[p]) :
                 d.byPhase[p][i] \in AncestorsOf[d][d.byPhase[p][j]] => i < j
           /\ \A i, j \in 1..Len(d.byPhase[p]) : d.byPhase[p][i] = d.byPhase[p][j] => i = j
  <1> DEFINE s == d.byPhase["setup"]
             t == d.byPhase["test"]
             u == d.byPhase["teardown"]
             o == s \o t \o u
             q == d.byPhase[p]
             k == CASE p = "setup" -> 0 [] p = "test" -> Len(s) [] p = "teardown" -> Len(s) + Len(t)
  <1>1. s \in Seq(Nodes) /\ t \in Seq(Nodes) /\ u \in Seq(Nodes) /\ q \in Seq(Nodes)
    BY DefinitionType DEF Phases
  <1>2. /\ LinearExtension(Nodes, d.edges, o)
        /\ \A i \in 1..Len(s) : d.phase[s[i]] = "setup"
        /\ \A i \in 1..Len(t) : d.phase[t[i]] = "test"
        /\ \A i \in 1..Len(u) : d.phase[u[i]] = "teardown"
        /\ \A i \in 1..Len(q) : d.phase[q[i]] = p
    BY DefinitionsAssumption DEF IsDefinition, Phases
  <1> HIDE DEF s, t, u
  <1>3. /\ Len(o) = Len(s) + Len(t) + Len(u) /\ Len(s) \in Nat /\ Len(t) \in Nat /\ Len(u) \in Nat
        /\ \A i \in 1..Len(s) : o[i] = s[i]
        /\ \A i \in 1..Len(t) : o[Len(s) + i] = t[i]
        /\ \A i \in 1..Len(u) : o[Len(s) + Len(t) + i] = u[i]
    BY <1>1
  <1>4. \A i \in 1..Len(o) : \/ i \in 1..Len(s)
                             \/ \E x \in 1..Len(t) : i = Len(s) + x
                             \/ \E x \in 1..Len(u) : i = Len(s) + Len(t) + x
    <2> SUFFICES ASSUME NEW i \in 1..Len(o), i \notin 1..Len(s),
                        ~ \E x \in 1..Len(t) : i = Len(s) + x
                 PROVE  \E x \in 1..Len(u) : i = Len(s) + Len(t) + x
      OBVIOUS
    <2>1. i \in Nat /\ i > Len(s) /\ i <= Len(s) + Len(t) + Len(u)
      BY <1>3
    <2>2. ~(i - Len(s) \in 1..Len(t))
      <3>1. i = Len(s) + (i - Len(s))
        BY <1>3, <2>1
      <3>2. QED BY <3>1
    <2>3. i - (Len(s) + Len(t)) \in 1..Len(u)
      BY <1>3, <2>1, <2>2
    <2>4. i = Len(s) + Len(t) + (i - (Len(s) + Len(t)))
      BY <1>3, <2>1
    <2>5. QED BY <2>3, <2>4
  <1>5. k \in Nat /\ \A i \in 1..Len(q) : k + i \in 1..Len(o) /\ o[k + i] = q[i]
    <2>1. CASE p = "setup"
      BY <1>3, <2>1 DEF s
    <2>2. CASE p = "test"
      BY SMTT(60), <1>3, <2>2 DEF t
    <2>3. CASE p = "teardown"
      <3>1. k = Len(s) + Len(t) /\ q = u
        BY <2>3 DEF u
      <3> HIDE DEF k, q, o
      <3>2. QED BY <1>3, <3>1
    <2>4. QED BY <2>1, <2>2, <2>3 DEF Phases
  <1>6. In(d, p) \subseteq Elements(q)
    <2> SUFFICES ASSUME NEW n \in Nodes, d.phase[n] = p PROVE n \in Elements(q)
      BY DEF In
    <2>1. PICK i \in 1..Len(o) : o[i] = n
      BY <1>2 DEF LinearExtension
    <2> HIDE DEF o
    <2>2. CASE i \in 1..Len(s)
      <3>1. n = s[i] /\ p = "setup"
        BY <1>2, <1>3, <2>1, <2>2
      <3>2. q = s
        BY <3>1 DEF s
      <3> HIDE DEF q
      <3>3. QED BY <2>2, <3>1, <3>2 DEF Elements
    <2>3. CASE \E x \in 1..Len(t) : i = Len(s) + x
      <3>1. PICK x \in 1..Len(t) : i = Len(s) + x
        BY <2>3
      <3>2. n = t[x] /\ p = "test"
        BY <1>2, <1>3, <2>1, <3>1
      <3>3. q = t
        BY <3>2 DEF t
      <3> HIDE DEF q
      <3>4. QED BY <3>2, <3>3 DEF Elements
    <2>4. CASE \E x \in 1..Len(u) : i = Len(s) + Len(t) + x
      BY SMTT(60), <1>2, <1>3, <2>1, <2>4 DEF u, Elements
    <2>5. QED BY <1>4, <2>2, <2>3, <2>4
  <1>7. Elements(q) \subseteq In(d, p)
    BY <1>1, <1>2 DEF Elements, In
  <1> HIDE DEF o, k, q
  <1>8. ASSUME NEW i \in 1..Len(q), NEW j \in 1..Len(q)
        PROVE  (q[i] \in AncestorsOf[d][q[j]] => i < j) /\ (q[i] = q[j] => i = j)
    <2>1. k + i \in 1..Len(o) /\ k + j \in 1..Len(o) /\ o[k + i] = q[i] /\ o[k + j] = q[j]
      BY <1>5
    <2>2. q[i] \in AncestorsOf[d][q[j]] => k + i < k + j
      BY <1>2, <2>1, AncestorsAreOrdered
    <2>3. q[i] = q[j] => k + i = k + j
      <3>1. \A x, y \in 1..Len(o) : o[x] = o[y] => x = y
        BY <1>2 DEF LinearExtension
      <3>2. QED BY <2>1, <3>1
    <2>4. Len(q) \in Nat
      BY <1>1
    <2>5. QED BY <1>5, <2>2, <2>3, <2>4
  <1>9. QED
    BY <1>1, <1>6, <1>7, <1>8 DEF q
------------------------------------------------------------------------------
(***************************************************************************)
(* What a memory has to satisfy at each place of executeRun.               *)
(***************************************************************************)
LEMMA IdleMemory ==
    ASSUME NEW d, NEW l, NEW st, NEW cr, l.pc \in {"idle", "done", "finalizeError"}
    PROVE  MemoryInv(d, l, st, cr)
  BY DEF MemoryInv, LoopPCs

LEMMA AtLoop ==
    ASSUME NEW d, NEW l, NEW st, NEW cr, l.pc \in LoopPCs,
           FlagsInv(d, l, st, cr), TodoInv(d, l), VisitInv(d, l, st),
           BodyLoop(d, l, st, Elements(l.todo)) \/ TeardownLoop(d, l, st, Elements(l.todo))
    PROVE  MemoryInv(d, l, st, cr)
  BY DEF MemoryInv, LoopPCs

LEMMA AtSweep ==
    ASSUME NEW d, NEW l, NEW st, NEW cr, l.pc = "sweep", FlagsInv(d, l, st, cr), Sweeping(d, l, st)
    PROVE  MemoryInv(d, l, st, cr)
  BY DEF MemoryInv, LoopPCs

LEMMA AtFinalCheck ==
    ASSUME NEW d, NEW l, NEW st, NEW cr, l.pc = "finalCheck", FlagsInv(d, l, st, cr),
           BodyDone(d, l, st), ~l.canceled
    PROVE  MemoryInv(d, l, st, cr)
  BY DEF MemoryInv, LoopPCs

LEMMA AtTeardownCheck ==
    ASSUME NEW d, NEW l, NEW st, NEW cr, l.pc = "teardownCheck", FlagsInv(d, l, st, cr),
           TodoInv(d, l), TeardownLoop(d, l, st, Elements(Tail(l.todo)))
    PROVE  MemoryInv(d, l, st, cr)
  BY DEF MemoryInv, LoopPCs

LEMMA AtFinalize ==
    ASSUME NEW d, NEW l, NEW st, NEW cr, l.pc = "finalize", FlagsInv(d, l, st, cr), TeardownLoop(d, l, st, {})
    PROVE  MemoryInv(d, l, st, cr)
  BY DEF MemoryInv, LoopPCs

\* The flags and sets of a memory, which most of the control flow leaves alone.
SameFlags(l, k) ==
    /\ k.canceled = l.canceled /\ k.setupFailed = l.setupFailed /\ k.testFailed = l.testFailed
    /\ k.teardownFailed = l.teardownFailed /\ k.failedNodes = l.failedNodes /\ k.blockedTests = l.blockedTests

LEMMA FlagsMove ==
    ASSUME NEW d, NEW l, NEW k, NEW st, NEW cr, SameFlags(l, k)
    PROVE  /\ FlagsInv(d, l, st, cr) => FlagsInv(d, k, st, cr)
           /\ BodyDone(d, l, st) => BodyDone(d, k, st)
           /\ \A rest : SetupVisited(d, l, st, rest) => SetupVisited(d, k, st, rest)
           /\ \A rest : TestsVisited(d, l, st, rest) => TestsVisited(d, k, st, rest)
           /\ \A rest : TeardownVisited(d, l, st, rest) => TeardownVisited(d, k, st, rest)
  BY DEF SameFlags, FlagsInv, BodyDone, SetupVisited, TestsVisited, TeardownVisited

LEMMA ElementsOfList ==
    ASSUME NEW q \in Seq(Nodes)
    PROVE  /\ Elements(q) \subseteq Nodes
           /\ q = <<>> => Elements(q) = {}
           /\ q # <<>> => /\ Tail(q) \in Seq(Nodes) /\ Head(q) \in Nodes
                          /\ Head(q) \in Elements(q)
                          /\ Elements(q) = {Head(q)} \union Elements(Tail(q))
  <1>1. Len(q) \in Nat /\ \A i \in 1..Len(q) : q[i] \in Nodes
    OBVIOUS
  <1>2. Elements(q) \subseteq Nodes
    BY <1>1 DEF Elements
  <1>3. q = <<>> => Elements(q) = {}
    BY DEF Elements
  <1>4. ASSUME q # <<>>
        PROVE  /\ Tail(q) \in Seq(Nodes) /\ Head(q) \in Nodes
               /\ Head(q) \in Elements(q)
               /\ Elements(q) = {Head(q)} \union Elements(Tail(q))
    <2>1. Tail(q) \in Seq(Nodes) /\ Len(q) >= 1 /\ Head(q) = q[1] /\ Len(Tail(q)) = Len(q) - 1
          /\ \A i \in 1..Len(Tail(q)) : Tail(q)[i] = q[i + 1]
      BY <1>1, <1>4
    <2>2. Head(q) \in Elements(q) /\ Head(q) \in Nodes
      BY <1>1, <2>1 DEF Elements
    <2>3. Elements(q) \subseteq {Head(q)} \union Elements(Tail(q))
      <3> SUFFICES ASSUME NEW i \in 1..Len(q), i # 1 PROVE q[i] \in Elements(Tail(q))
        BY <2>1 DEF Elements
      <3>1. i - 1 \in 1..Len(Tail(q)) /\ (i - 1) + 1 = i
        BY <1>1, <2>1
      <3>2. Tail(q)[i - 1] = q[i]
        BY <2>1, <3>1
      <3>3. QED BY <3>1, <3>2 DEF Elements
    <2>4. Elements(Tail(q)) \subseteq Elements(q)
      <3> SUFFICES ASSUME NEW i \in 1..Len(Tail(q)) PROVE Tail(q)[i] \in Elements(q)
        BY DEF Elements
      <3>1. i + 1 \in 1..Len(q)
        BY <1>1, <2>1
      <3>2. QED BY <2>1, <3>1 DEF Elements
    <2>5. QED BY <2>1, <2>2, <2>3, <2>4
  <1>5. QED BY <1>2, <1>3, <1>4

LEMMA PhaseElements ==
    ASSUME definition \in Definitions, NEW p \in Phases
    PROVE  /\ PhaseNodes(p) \in Seq(Nodes)
           /\ Elements(PhaseNodes(p)) = In(definition, p)
           /\ PhaseNodes(p) = <<>> => In(definition, p) = {}
  <1>1. PhaseNodes(p) \in Seq(Nodes) /\ Elements(PhaseNodes(p)) = In(definition, p)
    BY PhaseList DEF PhaseNodes
  <1>2. QED BY <1>1, ElementsOfList

\* The list of a whole phase, and what remains of a list, are in order.
LEMMA WholePhaseInOrder ==
    ASSUME definition \in Definitions, NEW p \in Phases, NEW l, l.phase = p, l.todo = PhaseNodes(p)
    PROVE  TodoInv(definition, l)
  <1>1. Elements(definition.byPhase[p]) = In(definition, p)
    BY PhaseList
  <1>2. \A i \in 1..Len(definition.byPhase[p]) : definition.phase[definition.byPhase[p][i]] = p
    BY <1>1 DEF Elements, In
  <1>3. \A i, j \in 1..Len(definition.byPhase[p]) :
            definition.byPhase[p][i] \in AncestorsOf[definition][definition.byPhase[p][j]] => i < j
    BY PhaseList
  <1>4. QED BY <1>2, <1>3 DEF TodoInv, PhaseNodes

LEMMA RestInOrder ==
    ASSUME NEW d, NEW l, NEW k, l.todo \in Seq(Nodes), l.todo # <<>>, TodoInv(d, l),
           k.phase = l.phase, k.todo = Tail(l.todo)
    PROVE  TodoInv(d, k)
  <1> DEFINE q == l.todo
             r == k.todo
  <1>1. Len(q) \in Nat /\ Len(r) = Len(q) - 1 /\ \A i \in 1..Len(r) : r[i] = q[i + 1] /\ i + 1 \in 1..Len(q)
    OBVIOUS
  <1>2. /\ \A i \in 1..Len(q) : d.phase[q[i]] = l.phase
        /\ \A i, j \in 1..Len(q) : q[i] \in AncestorsOf[d][q[j]] => i < j
    BY DEF TodoInv
  <1> HIDE DEF q, r
  <1>3. \A i \in 1..Len(r) : d.phase[r[i]] = k.phase
    BY <1>1, <1>2
  <1>4. ASSUME NEW i \in 1..Len(r), NEW j \in 1..Len(r), r[i] \in AncestorsOf[d][r[j]]
        PROVE  i < j
    <2>1. i + 1 < j + 1
      BY <1>1, <1>2, <1>4
    <2>2. i \in Nat /\ j \in Nat
      BY <1>1
    <2>3. QED BY <2>1, <2>2
  <1>5. QED BY <1>3, <1>4 DEF TodoInv, r
------------------------------------------------------------------------------
(***************************************************************************)
(* The control flow establishes MemoryInv.                                 *)
(***************************************************************************)
LEMMA StartTeardownInv ==
    ASSUME definition \in Definitions, NEW l \in LocalStates, NEW st, NEW cr,
           FlagsInv(definition, l, st, cr), BodyDone(definition, l, st)
    PROVE  MemoryInv(definition, StartTeardown(l), st, cr)
  <1>1. PICK k : k = StartTeardown(l)
    OBVIOUS
  <1>2. /\ k.phase = "teardown" /\ k.todo = PhaseNodes("teardown") /\ SameFlags(l, k)
        /\ k.pc = IF PhaseNodes("teardown") = <<>> THEN "finalize" ELSE "loadStep"
    BY <1>1 DEF StartTeardown, LocalStates, SameFlags
  <1>3. FlagsInv(definition, k, st, cr) /\ BodyDone(definition, k, st)
    BY <1>2, FlagsMove
  <1>4. /\ Elements(k.todo) = In(definition, "teardown")
        /\ PhaseNodes("teardown") = <<>> => In(definition, "teardown") = {}
    BY <1>2, PhaseElements DEF Phases
  <1>5. TeardownLoop(definition, k, st, Elements(k.todo))
    BY <1>2, <1>3, <1>4 DEF TeardownLoop, TeardownVisited
  <1>6. CASE PhaseNodes("teardown") = <<>>
    <2>1. TeardownLoop(definition, k, st, {})
      BY <1>4, <1>5, <1>6
    <2>2. QED BY <1>1, <1>2, <1>3, <1>6, <2>1, AtFinalize
  <1>7. CASE PhaseNodes("teardown") # <<>>
    <2>1. TodoInv(definition, k)
      BY <1>2, WholePhaseInOrder DEF Phases
    <2>2. VisitInv(definition, k, st) /\ k.pc \in LoopPCs
      BY <1>2, <1>7 DEF VisitInv, LoopPCs
    <2>3. QED BY <1>1, <1>3, <1>5, <2>1, <2>2, AtLoop
  <1>8. QED BY <1>6, <1>7

LEMMA AfterBodyInv ==
    ASSUME definition \in Definitions, NEW l \in LocalStates, NEW st, NEW cr,
           FlagsInv(definition, l, st, cr), BodyDone(definition, l, st)
    PROVE  MemoryInv(definition, AfterBody(l), st, cr)
  <1>1. CASE l.canceled
    BY <1>1, StartTeardownInv DEF AfterBody
  <1>2. CASE ~l.canceled
    <2>1. PICK k : k = AfterBody(l)
      OBVIOUS
    <2>2. k.pc = "finalCheck" /\ SameFlags(l, k) /\ ~k.canceled
      BY <1>2, <2>1 DEF AfterBody, LocalStates, SameFlags
    <2>3. FlagsInv(definition, k, st, cr) /\ BodyDone(definition, k, st)
      BY <2>2, FlagsMove
    <2>4. QED BY <2>1, <2>2, <2>3, AtFinalCheck
  <1>3. QED BY <1>1, <1>2

LEMMA StartSweepInv ==
    ASSUME definition \in Definitions, NEW l \in LocalStates, NEW st, NEW cr,
           FlagsInv(definition, l, st, cr), NEW list \in Seq(Nodes), NEW s \in {"skipped", "canceled"},
           Elements(list) \subseteq BodyOf(definition),
           \A n \in BodyOf(definition) \ Elements(list) : st[n] # "queued",
           IF s = "canceled" THEN l.canceled
           ELSE l.setupFailed /\ Elements(list) \subseteq In(definition, "test")
    PROVE  MemoryInv(definition, StartSweep(l, list, s), st, cr)
  <1>1. CASE list = <<>>
    <2>1. BodyDone(definition, l, st)
      BY <1>1, ElementsOfList DEF BodyDone
    <2>2. QED BY <1>1, <2>1, AfterBodyInv DEF StartSweep
  <1>2. CASE list # <<>>
    <2>1. PICK k : k = StartSweep(l, list, s)
      OBVIOUS
    <2>2. k.pc = "sweep" /\ k.todo = list /\ k.sweepTo = s /\ SameFlags(l, k)
      BY <1>2, <2>1 DEF StartSweep, LocalStates, SameFlags
    <2>3. FlagsInv(definition, k, st, cr)
      BY <2>2, FlagsMove
    <2>4. Sweeping(definition, k, st)
      BY <2>2 DEF Sweeping, SameFlags
    <2>5. QED BY <2>1, <2>2, <2>3, <2>4, AtSweep
  <1>3. QED BY <1>1, <1>2

LEMMA StartTestsInv ==
    ASSUME definition \in Definitions, NEW l \in LocalStates, NEW st, NEW cr,
           FlagsInv(definition, l, st, cr), ~l.canceled, ~l.setupFailed, Succeeded(st, In(definition, "setup"))
    PROVE  MemoryInv(definition, StartTests(l), st, cr)
  <1>1. /\ Elements(PhaseNodes("test")) = In(definition, "test")
        /\ PhaseNodes("test") = <<>> => In(definition, "test") = {}
    BY PhaseElements DEF Phases
  <1>2. CASE PhaseNodes("test") = <<>>
    <2>1. PICK k : k = [l EXCEPT !.phase = "test"]
      OBVIOUS
    <2>2. k \in LocalStates /\ SameFlags(l, k)
      BY <2>1 DEF LocalStates, Phases, SameFlags
    <2>3. BodyDone(definition, l, st)
      BY <1>1, <1>2 DEF BodyDone, BodyOf, Succeeded
    <2>4. FlagsInv(definition, k, st, cr) /\ BodyDone(definition, k, st)
      BY <2>2, <2>3, FlagsMove
    <2>5. MemoryInv(definition, AfterBody(k), st, cr)
      BY <2>2, <2>4, AfterBodyInv
    <2>6. QED BY <1>2, <2>1, <2>5 DEF StartTests
  <1>3. CASE PhaseNodes("test") # <<>>
    <2>1. PICK k : k = StartTests(l)
      OBVIOUS
    <2>2. k.pc = "checkCancel" /\ k.phase = "test" /\ k.todo = PhaseNodes("test") /\ SameFlags(l, k)
      BY <1>3, <2>1 DEF StartTests, LocalStates, SameFlags
    <2>3. FlagsInv(definition, k, st, cr)
      BY <2>2, FlagsMove
    <2>4. TodoInv(definition, k)
      BY <2>2, WholePhaseInOrder DEF Phases
    <2>5. VisitInv(definition, k, st) /\ k.pc \in LoopPCs
      BY <2>2 DEF VisitInv, LoopPCs
    <2>6. BodyLoop(definition, k, st, Elements(k.todo))
      BY <1>1, <2>2 DEF BodyLoop, TestLoop, TestsVisited, SameFlags
    <2>7. QED BY <2>1, <2>3, <2>4, <2>5, <2>6, AtLoop
  <1>4. QED BY <1>2, <1>3

LEMMA AfterSetupInv ==
    ASSUME definition \in Definitions, NEW l \in LocalStates, NEW st, NEW cr,
           FlagsInv(definition, l, st, cr), SkipsHaveCauses(definition, st),
           SetupVisited(definition, l, st, {}), ~l.canceled
    PROVE  MemoryInv(definition, AfterSetup(l), st, cr)
  <1>1. PhaseNodes("test") \in Seq(Nodes) /\ Elements(PhaseNodes("test")) = In(definition, "test")
    BY PhaseElements DEF Phases
  <1>2. CASE l.setupFailed
    <2>1. \A n \in BodyOf(definition) \ Elements(PhaseNodes("test")) : st[n] # "queued"
      BY <1>1 DEF BodyOf, SetupVisited
    <2>2. Elements(PhaseNodes("test")) \subseteq BodyOf(definition)
      BY <1>1 DEF BodyOf
    <2>3. QED BY <1>1, <1>2, <2>1, <2>2, StartSweepInv DEF AfterSetup
  <1>3. CASE ~l.setupFailed
    <2>1. Succeeded(st, In(definition, "setup"))
      <3> SUFFICES ASSUME NEW n \in In(definition, "setup") PROVE st[n] = "succeeded"
        BY DEF Succeeded
      <3>1. \A m \in In(definition, "setup") : st[m] \in {"succeeded", "skipped"}
        BY <1>3 DEF SetupVisited
      <3>2. st[n] # "skipped"
        BY <3>1 DEF SkipsHaveCauses
      <3>3. QED BY <3>1, <3>2
    <2>2. QED BY <1>3, <2>1, StartTestsInv DEF AfterSetup
  <1>4. QED BY <1>2, <1>3

LEMMA StartSetupInv ==
    ASSUME definition \in Definitions, NEW l \in LocalStates, NEW st, NEW cr,
           Untouched(l), SkipsHaveCauses(definition, st)
    PROVE  MemoryInv(definition, StartSetup(l), st, cr)
  <1>1. FlagsInv(definition, l, st, cr)
    BY DEF Untouched, FlagsInv
  <1>2. /\ Elements(PhaseNodes("setup")) = In(definition, "setup")
        /\ PhaseNodes("setup") = <<>> => In(definition, "setup") = {}
    BY PhaseElements DEF Phases
  <1>3. CASE PhaseNodes("setup") = <<>>
    <2>1. SetupVisited(definition, l, st, {}) /\ ~l.canceled
      BY <1>2, <1>3 DEF SetupVisited, Untouched
    <2>2. QED BY <1>1, <1>3, <2>1, AfterSetupInv DEF StartSetup
  <1>4. CASE PhaseNodes("setup") # <<>>
    <2>1. PICK k : k = StartSetup(l)
      OBVIOUS
    <2>2. k.pc = "checkCancel" /\ k.phase = "setup" /\ k.todo = PhaseNodes("setup") /\ SameFlags(l, k)
      BY <1>4, <2>1 DEF StartSetup, LocalStates, SameFlags, Untouched
    <2>3. FlagsInv(definition, k, st, cr)
      BY <1>1, <2>2, FlagsMove
    <2>4. TodoInv(definition, k)
      BY <2>2, WholePhaseInOrder DEF Phases
    <2>5. VisitInv(definition, k, st) /\ k.pc \in LoopPCs
      BY <2>2 DEF VisitInv, LoopPCs
    <2>6. BodyLoop(definition, k, st, Elements(k.todo))
      BY <1>2, <2>2 DEF BodyLoop, SetupLoop, SetupVisited, SameFlags, Untouched
    <2>7. QED BY <2>1, <2>3, <2>4, <2>5, <2>6, AtLoop
  <1>5. QED BY <1>3, <1>4

\* Somewhere in one of the three loops, the nodes in rest still to be visited.
LoopInv(d, l, st, rest) == BodyLoop(d, l, st, rest) \/ TeardownLoop(d, l, st, rest)

LEMMA LoopMoves ==
    ASSUME NEW d, NEW l, NEW k, NEW st, NEW rest, SameFlags(l, k), k.phase = l.phase, LoopInv(d, l, st, rest)
    PROVE  LoopInv(d, k, st, rest)
  <1>1. \A cr : FlagsInv(d, l, st, cr) => FlagsInv(d, k, st, cr)
    BY FlagsMove
  <1>2. /\ BodyDone(d, l, st) => BodyDone(d, k, st)
        /\ SetupVisited(d, l, st, rest) => SetupVisited(d, k, st, rest)
        /\ TestsVisited(d, l, st, rest) => TestsVisited(d, k, st, rest)
        /\ TeardownVisited(d, l, st, rest) => TeardownVisited(d, k, st, rest)
    BY FlagsMove
  <1>3. QED
    BY <1>2 DEF LoopInv, BodyLoop, SetupLoop, TestLoop, TeardownLoop, SameFlags

\* After the last test the body is done.
LEMMA TestsDone ==
    ASSUME NEW d \in Definitions, NEW l, NEW st, TestLoop(d, l, st, {}), SkipsHaveCauses(d, st)
    PROVE  BodyDone(d, l, st)
  <1>1. /\ Succeeded(st, In(d, "setup"))
        /\ \A n \in In(d, "test") : st[n] \in {"succeeded", "failed", "skipped"} /\ (st[n] = "failed" => l.testFailed)
    BY DEF TestLoop, TestsVisited
  <1>2. \A n \in BodyOf(d) : st[n] # "queued"
    BY <1>1 DEF BodyOf, Succeeded
  <1>3. ASSUME ~l.testFailed, NEW n \in In(d, "test") PROVE st[n] = "succeeded"
    <2>1. \A m \in BodyOf(d) : st[m] # "failed"
      BY <1>1, <1>3 DEF BodyOf, Succeeded
    <2>2. n \in Nodes /\ n \in BodyOf(d)
      BY DEF In, BodyOf
    <2>3. ~Failed(st, In(d, "setup"))
      BY <2>1 DEF Failed, BodyOf
    <2>4. ~Failed(st, AncestorsOf[d][n])
      BY <2>1, <2>2, BodyIsClosed DEF Failed
    <2>5. st[n] # "skipped"
      BY <2>3, <2>4 DEF SkipsHaveCauses
    <2>6. QED BY <1>1, <1>3, <2>5
  <1>4. ~l.testFailed => Succeeded(st, BodyOf(d))
    BY <1>1, <1>3 DEF BodyOf, Succeeded
  <1>5. QED BY <1>2, <1>4 DEF BodyDone

LEMMA NextNodeInv ==
    ASSUME definition \in Definitions, NEW l \in LocalStates, NEW st, NEW cr, l.todo # <<>>,
           FlagsInv(definition, l, st, cr), TodoInv(definition, l), SkipsHaveCauses(definition, st),
           LoopInv(definition, l, st, Elements(Tail(l.todo)))
    PROVE  MemoryInv(definition, NextNode(l), st, cr)
  <1>1. PICK rest : rest = [l EXCEPT !.todo = Tail(l.todo)]
    OBVIOUS
  <1>2. l.todo \in Seq(Nodes) /\ Tail(l.todo) \in Seq(Nodes)
    BY ElementsOfList DEF LocalStates
  <1>3. rest \in LocalStates /\ rest.todo = Tail(l.todo) /\ rest.phase = l.phase /\ SameFlags(l, rest)
    BY <1>1, <1>2 DEF LocalStates, SameFlags
  <1>4. FlagsInv(definition, rest, st, cr) /\ LoopInv(definition, rest, st, Elements(rest.todo))
    BY <1>3, FlagsMove, LoopMoves
  <1>5. TodoInv(definition, rest)
    BY <1>2, <1>3, RestInOrder
  <1>6. rest.todo = <<>> => Elements(rest.todo) = {}
    BY <1>2, <1>3, ElementsOfList
  \* The loop goes on.
  <1>7. ASSUME NEW pc \in {"checkCancel", "loadStep"}, NextNode(l) = [rest EXCEPT !.pc = pc],
               pc = "loadStep" <=> l.phase = "teardown"
        PROVE  MemoryInv(definition, NextNode(l), st, cr)
    <2>1. PICK k : k = [rest EXCEPT !.pc = pc]
      OBVIOUS
    <2>2. k.pc = pc /\ k.todo = rest.todo /\ k.phase = rest.phase /\ SameFlags(rest, k)
      BY <1>3, <2>1 DEF LocalStates, SameFlags
    <2>3. FlagsInv(definition, k, st, cr) /\ LoopInv(definition, k, st, Elements(k.todo)) /\ TodoInv(definition, k)
      <3>1. FlagsInv(definition, k, st, cr) /\ LoopInv(definition, k, st, Elements(k.todo))
        BY <1>4, <2>2, FlagsMove, LoopMoves
      <3>2. TodoInv(definition, k)
        BY <1>5, <2>2 DEF TodoInv
      <3>3. QED BY <3>1, <3>2
    <2>4. VisitInv(definition, k, st) /\ k.pc \in LoopPCs
      BY <1>3, <1>7, <2>2 DEF VisitInv, LoopPCs
    <2>5. QED BY <1>7, <2>1, <2>3, <2>4, AtLoop DEF LoopInv
  <1>8. CASE l.phase = "setup"
    <2>1. CASE rest.todo = <<>>
      <3>1. SetupVisited(definition, rest, st, {}) /\ ~rest.canceled
        BY <1>3, <1>4, <1>6, <1>8, <2>1 DEF LoopInv, BodyLoop, SetupLoop, TestLoop, TeardownLoop
      <3>2. NextNode(l) = AfterSetup(rest)
        BY <1>1, <1>8, <2>1 DEF NextNode
      <3>3. QED BY <1>3, <1>4, <3>1, <3>2, AfterSetupInv
    <2>2. CASE rest.todo # <<>>
      <3>1. NextNode(l) = [rest EXCEPT !.pc = "checkCancel"]
        BY <1>1, <1>8, <2>2 DEF NextNode
      <3>2. QED BY <1>7, <1>8, <3>1
    <2>3. QED BY <2>1, <2>2
  <1>9. CASE l.phase = "test"
    <2>1. CASE rest.todo = <<>>
      <3>1. TestLoop(definition, rest, st, {})
        BY <1>3, <1>4, <1>6, <1>9, <2>1 DEF LoopInv, BodyLoop, SetupLoop, TestLoop, TeardownLoop
      <3>2. BodyDone(definition, rest, st)
        BY <3>1, TestsDone
      <3>3. NextNode(l) = AfterBody(rest)
        BY <1>1, <1>9, <2>1 DEF NextNode
      <3>4. QED BY <1>3, <1>4, <3>2, <3>3, AfterBodyInv
    <2>2. CASE rest.todo # <<>>
      <3>1. NextNode(l) = [rest EXCEPT !.pc = "checkCancel"]
        BY <1>1, <1>9, <2>2 DEF NextNode
      <3>2. QED BY <1>7, <1>9, <3>1
    <2>3. QED BY <2>1, <2>2
  <1>10. CASE l.phase = "teardown"
    <2>1. CASE rest.todo = <<>>
      <3>1. TeardownLoop(definition, rest, st, {})
        BY <1>3, <1>4, <1>6, <1>10, <2>1 DEF LoopInv, BodyLoop, SetupLoop, TestLoop
      <3>2. PICK k : k = [rest EXCEPT !.pc = "finalize"]
        OBVIOUS
      <3>3. k.pc = "finalize" /\ k.phase = rest.phase /\ SameFlags(rest, k)
        BY <1>3, <3>2 DEF LocalStates, SameFlags
      <3>4. FlagsInv(definition, k, st, cr) /\ LoopInv(definition, k, st, {})
        BY <1>4, <3>1, <3>3, FlagsMove, LoopMoves DEF LoopInv
      <3>5. TeardownLoop(definition, k, st, {})
        BY <1>3, <1>10, <3>3, <3>4 DEF LoopInv, BodyLoop, SetupLoop, TestLoop
      <3>6. NextNode(l) = k
        BY <1>1, <1>10, <2>1, <3>2 DEF NextNode
      <3>7. QED BY <3>3, <3>4, <3>5, <3>6, AtFinalize
    <2>2. CASE rest.todo # <<>>
      <3>1. NextNode(l) = [rest EXCEPT !.pc = "loadStep"]
        BY <1>1, <1>10, <2>2 DEF NextNode
      <3>2. QED BY <1>7, <1>10, <3>1
    <2>3. QED BY <2>1, <2>2
  <1>11. QED
    BY <1>8, <1>9, <1>10 DEF LocalStates, Phases

LEMMA AfterNodeInv ==
    ASSUME definition \in Definitions, NEW l \in LocalStates, NEW st, NEW cr, l.todo # <<>>,
           FlagsInv(definition, l, st, cr), TodoInv(definition, l), SkipsHaveCauses(definition, st),
           LoopInv(definition, l, st, Elements(Tail(l.todo)))
    PROVE  MemoryInv(definition, AfterNode(l), st, cr)
  <1>1. CASE l.phase = "teardown" /\ ~l.canceled
    <2>1. PICK k : k = [l EXCEPT !.pc = "teardownCheck"]
      OBVIOUS
    <2>2. k.pc = "teardownCheck" /\ k.todo = l.todo /\ k.phase = l.phase /\ SameFlags(l, k)
      BY <2>1 DEF LocalStates, SameFlags
    <2>3. FlagsInv(definition, k, st, cr) /\ LoopInv(definition, k, st, Elements(Tail(k.todo)))
      BY <2>2, FlagsMove, LoopMoves
    <2>4. TodoInv(definition, k)
      BY <2>2 DEF TodoInv
    <2>5. TeardownLoop(definition, k, st, Elements(Tail(k.todo)))
      BY <1>1, <2>2, <2>3 DEF LoopInv, BodyLoop, SetupLoop, TestLoop
    <2>6. AfterNode(l) = k
      BY <1>1, <2>1 DEF AfterNode
    <2>7. QED BY <2>2, <2>3, <2>4, <2>5, <2>6, AtTeardownCheck
  <1>2. CASE ~(l.phase = "teardown" /\ ~l.canceled)
    BY <1>2, NextNodeInv DEF AfterNode
  <1>3. QED BY <1>1, <1>2

\* A visited node that has succeeded, or been skipped in the body, leaves the list.
LEMMA NodeDecided ==
    ASSUME NEW d \in Definitions, NEW l \in LocalStates, NEW st, l.todo # <<>>,
           LoopInv(d, l, st, Elements(l.todo)),
           st[Head(l.todo)] = "succeeded" \/ (st[Head(l.todo)] = "skipped" /\ l.phase # "teardown")
    PROVE  LoopInv(d, l, st, Elements(Tail(l.todo)))
  <1>1. Elements(l.todo) = {Head(l.todo)} \union Elements(Tail(l.todo))
    BY ElementsOfList DEF LocalStates
  <1>2. \A p : \A n \in In(d, p) \ Elements(Tail(l.todo)) : n = Head(l.todo) \/ n \in In(d, p) \ Elements(l.todo)
    BY <1>1
  <1>3. SetupLoop(d, l, st, Elements(l.todo)) => SetupLoop(d, l, st, Elements(Tail(l.todo)))
    BY <1>2 DEF SetupLoop, SetupVisited
  <1>4. TestLoop(d, l, st, Elements(l.todo)) => TestLoop(d, l, st, Elements(Tail(l.todo)))
    BY <1>2 DEF TestLoop, TestsVisited
  <1>5. TeardownLoop(d, l, st, Elements(l.todo)) => TeardownLoop(d, l, st, Elements(Tail(l.todo)))
    BY <1>2 DEF TeardownLoop, TeardownVisited
  <1>6. QED BY <1>3, <1>4, <1>5 DEF LoopInv, BodyLoop

LEMMA NodeFailedInv ==
    ASSUME definition \in Definitions, NEW l \in LocalStates, NEW st, NEW cr, l.todo # <<>>,
           FlagsInv(definition, l, st, cr), TodoInv(definition, l), SkipsHaveCauses(definition, st),
           LoopInv(definition, l, st, Elements(l.todo)), st[Head(l.todo)] = "failed"
    PROVE  MemoryInv(definition, NodeFailed(l), st, cr)
  <1> DEFINE n == Head(l.todo)
             d == definition
  <1>1. PICK k : k = [l EXCEPT
                 !.setupFailed = @ \/ l.phase = "setup",
                 !.testFailed = @ \/ l.phase = "test",
                 !.teardownFailed = @ \/ l.phase = "teardown",
                 !.blockedTests = IF l.phase = "test" THEN @ \union DescendantsOf[definition][n] ELSE @]
    OBVIOUS
  <1>2. /\ l.todo \in Seq(Nodes) /\ n \in Nodes /\ n \in Elements(l.todo)
        /\ Elements(l.todo) = {n} \union Elements(Tail(l.todo))
    BY ElementsOfList DEF LocalStates
  <1>3. DescendantsOf[d][n] \subseteq Nodes
    BY <1>2, DefinitionType DEF Descendants
  <1>4. k \in LocalStates
    BY ZenonT(60), <1>1, <1>3 DEF LocalStates
  <1>5. /\ k.todo = l.todo /\ k.phase = l.phase /\ k.canceled = l.canceled /\ k.failedNodes = l.failedNodes
        /\ k.setupFailed = (l.setupFailed \/ l.phase = "setup")
        /\ k.testFailed = (l.testFailed \/ l.phase = "test")
        /\ k.teardownFailed = (l.teardownFailed \/ l.phase = "teardown")
        /\ k.blockedTests = IF l.phase = "test" THEN l.blockedTests \union DescendantsOf[d][n] ELSE l.blockedTests
    BY <1>1 DEF LocalStates
  <1>6. d.phase[n] = l.phase /\ n \in In(d, l.phase)
    <2>1. 1 \in 1..Len(l.todo) /\ n = l.todo[1]
      BY <1>2
    <2>2. QED BY <1>2, <2>1 DEF TodoInv, In
  <1>7. \A x \in DescendantsOf[d][n] : n \in AncestorsOf[d][x]
    BY <1>2, <1>3, AncestorsAreReached
  <1> HIDE DEF n, d
  <1>8. st[n] = "failed"
    BY DEF n
  <1>9. FlagsInv(d, k, st, cr)
    <2>1. FlagsInv(d, l, st, cr)
      BY DEF d
    <2>2. /\ k.canceled => cr
          /\ k.setupFailed => Failed(st, In(d, "setup"))
          /\ k.testFailed => Failed(st, In(d, "test"))
          /\ k.teardownFailed => Failed(st, In(d, "teardown"))
      BY <1>5, <1>6, <1>8, <2>1 DEF FlagsInv, Failed
    <2>3. \A m \in k.failedNodes : st[m] = "failed" /\ \A x \in BodyOf(d) : <<m, x>> \in d.edges => st[x] \notin Ran
      BY <1>5, <2>1 DEF FlagsInv
    <2>4. \A x \in k.blockedTests : Failed(st, AncestorsOf[d][x] \intersect In(d, "test"))
      <3> SUFFICES ASSUME NEW x \in k.blockedTests, x \notin l.blockedTests
                   PROVE  Failed(st, AncestorsOf[d][x] \intersect In(d, "test"))
        BY <2>1 DEF FlagsInv
      <3>1. l.phase = "test" /\ x \in DescendantsOf[d][n]
        BY <1>5
      <3>2. n \in AncestorsOf[d][x] \intersect In(d, "test")
        BY <1>6, <1>7, <3>1
      <3>3. QED BY <1>8, <3>2 DEF Failed
    <2>5. QED BY <2>2, <2>3, <2>4 DEF FlagsInv
  <1>10. LoopInv(d, k, st, Elements(Tail(k.todo)))
    <2>1. LoopInv(d, l, st, Elements(l.todo))
      BY DEF d
    <2>2. \A p : \A x \in In(d, p) \ Elements(Tail(k.todo)) : x = n \/ x \in In(d, p) \ Elements(l.todo)
      BY <1>2, <1>5
    <2>3. SetupLoop(d, l, st, Elements(l.todo)) => SetupLoop(d, k, st, Elements(Tail(k.todo)))
      BY <1>5, <1>8, <2>2 DEF SetupLoop, SetupVisited
    <2>4. TestLoop(d, l, st, Elements(l.todo)) => TestLoop(d, k, st, Elements(Tail(k.todo)))
      <3> SUFFICES ASSUME TestLoop(d, l, st, Elements(l.todo)) PROVE TestLoop(d, k, st, Elements(Tail(k.todo)))
        OBVIOUS
      <3>1. /\ k.phase = "test" /\ ~k.canceled /\ ~k.setupFailed /\ Succeeded(st, In(d, "setup"))
            /\ k.testFailed /\ k.blockedTests = l.blockedTests \union DescendantsOf[d][n]
        BY <1>5 DEF TestLoop
      <3>2. TestsVisited(d, k, st, Elements(Tail(k.todo)))
        BY <1>8, <2>2, <3>1 DEF TestLoop, TestsVisited
      <3>3. QED BY <3>1, <3>2 DEF TestLoop
    <2>5. TeardownLoop(d, l, st, Elements(l.todo)) => TeardownLoop(d, k, st, Elements(Tail(k.todo)))
      <3> SUFFICES ASSUME TeardownLoop(d, l, st, Elements(l.todo))
                   PROVE  TeardownLoop(d, k, st, Elements(Tail(k.todo)))
        OBVIOUS
      <3>1. /\ k.phase = "teardown" /\ k.teardownFailed /\ k.canceled = l.canceled
            /\ k.setupFailed <=> l.setupFailed
            /\ k.testFailed <=> l.testFailed
        BY <1>5 DEF TeardownLoop
      <3>2. BodyDone(d, k, st)
        BY <3>1 DEF TeardownLoop, BodyDone
      <3>3. TeardownVisited(d, k, st, Elements(Tail(k.todo)))
        BY <1>8, <2>2, <3>1 DEF TeardownLoop, TeardownVisited
      <3>4. QED BY <3>1, <3>2, <3>3 DEF TeardownLoop
    <2>6. QED BY <2>1, <2>3, <2>4, <2>5 DEF LoopInv, BodyLoop
  <1>11. TodoInv(d, k)
    BY <1>5 DEF TodoInv, d
  <1>12. NodeFailed(l) = AfterNode(k)
    BY <1>1 DEF NodeFailed, n
  <1>13. MemoryInv(d, AfterNode(k), st, cr)
    BY <1>4, <1>5, <1>9, <1>10, <1>11, AfterNodeInv DEF d
  <1>14. QED BY <1>12, <1>13 DEF d
------------------------------------------------------------------------------
(***************************************************************************)
(* Where the control flow leads: always to a place of executeRun where the *)
(* run is live, with the exports collected so far.                         *)
(***************************************************************************)
Places == {"checkCancel", "loadStep", "sweep", "finalCheck", "finalize", "teardownCheck"}
LeadsOn(l, next) == next.pc \in Places /\ next.accumulatedVars = l.accumulatedVars

LEMMA StartTeardownLeads ==
    ASSUME NEW l \in LocalStates
    PROVE  LeadsOn(l, StartTeardown(l))
  BY DEF StartTeardown, LeadsOn, Places, LocalStates

LEMMA AfterBodyLeads ==
    ASSUME NEW l \in LocalStates
    PROVE  LeadsOn(l, AfterBody(l))
  <1>1. CASE l.canceled
    BY <1>1, StartTeardownLeads DEF AfterBody
  <1>2. CASE ~l.canceled
    BY <1>2 DEF AfterBody, LeadsOn, Places, LocalStates
  <1>3. QED BY <1>1, <1>2

LEMMA StartSweepLeads ==
    ASSUME NEW l \in LocalStates, NEW list, NEW s
    PROVE  LeadsOn(l, StartSweep(l, list, s))
  <1>1. CASE list = <<>>
    BY <1>1, AfterBodyLeads DEF StartSweep
  <1>2. CASE list # <<>>
    BY <1>2 DEF StartSweep, LeadsOn, Places, LocalStates
  <1>3. QED BY <1>1, <1>2

LEMMA StartTestsLeads ==
    ASSUME NEW l \in LocalStates
    PROVE  LeadsOn(l, StartTests(l))
  <1>1. CASE PhaseNodes("test") = <<>>
    <2>1. PICK k : k = [l EXCEPT !.phase = "test"]
      OBVIOUS
    <2>2. k \in LocalStates /\ k.accumulatedVars = l.accumulatedVars
      BY <2>1 DEF LocalStates, Phases
    <2>3. LeadsOn(k, AfterBody(k)) /\ StartTests(l) = AfterBody(k)
      BY <1>1, <2>1, <2>2, AfterBodyLeads DEF StartTests
    <2>4. QED BY <2>2, <2>3 DEF LeadsOn
  <1>2. CASE PhaseNodes("test") # <<>>
    BY <1>2 DEF StartTests, LeadsOn, Places, LocalStates
  <1>3. QED BY <1>1, <1>2

LEMMA AfterSetupLeads ==
    ASSUME NEW l \in LocalStates
    PROVE  LeadsOn(l, AfterSetup(l))
  BY StartSweepLeads, StartTestsLeads DEF AfterSetup

LEMMA StartSetupLeads ==
    ASSUME NEW l \in LocalStates
    PROVE  LeadsOn(l, StartSetup(l))
  <1>1. CASE PhaseNodes("setup") = <<>>
    BY <1>1, AfterSetupLeads DEF StartSetup
  <1>2. CASE PhaseNodes("setup") # <<>>
    BY <1>2 DEF StartSetup, LeadsOn, Places, LocalStates
  <1>3. QED BY <1>1, <1>2

LEMMA NextNodeLeads ==
    ASSUME NEW l \in LocalStates, l.todo # <<>>
    PROVE  LeadsOn(l, NextNode(l))
  <1>1. PICK rest : rest = [l EXCEPT !.todo = Tail(l.todo)]
    OBVIOUS
  <1>2. rest \in LocalStates /\ rest.accumulatedVars = l.accumulatedVars
    <2>1. Tail(l.todo) \in Seq(Nodes)
      BY ElementsOfList DEF LocalStates
    <2>2. QED BY <1>1, <2>1 DEF LocalStates
  <1>3. LeadsOn(rest, AfterSetup(rest)) /\ LeadsOn(rest, AfterBody(rest))
    BY <1>2, AfterSetupLeads, AfterBodyLeads
  <1>4. \A pc \in Places : LeadsOn(rest, [rest EXCEPT !.pc = pc])
    BY <1>2 DEF LeadsOn, LocalStates
  <1>5. \/ NextNode(l) = AfterSetup(rest)
        \/ NextNode(l) = AfterBody(rest)
        \/ \E pc \in Places : NextNode(l) = [rest EXCEPT !.pc = pc]
    <2>1. CASE l.phase = "setup"
      BY <1>1, <2>1 DEF NextNode, Places
    <2>2. CASE l.phase = "test"
      BY <1>1, <2>2 DEF NextNode, Places
    <2>3. CASE l.phase = "teardown"
      BY <1>1, <2>3 DEF NextNode, Places
    <2>4. QED BY <2>1, <2>2, <2>3 DEF LocalStates, Phases
  <1>6. LeadsOn(rest, NextNode(l))
    BY <1>3, <1>4, <1>5
  <1>7. QED BY <1>2, <1>6 DEF LeadsOn

LEMMA AfterNodeLeads ==
    ASSUME NEW l \in LocalStates, l.todo # <<>>
    PROVE  LeadsOn(l, AfterNode(l))
  <1>1. CASE l.phase = "teardown" /\ ~l.canceled
    BY <1>1 DEF AfterNode, LeadsOn, Places, LocalStates
  <1>2. CASE ~(l.phase = "teardown" /\ ~l.canceled)
    BY <1>2, NextNodeLeads DEF AfterNode
  <1>3. QED BY <1>1, <1>2

LEMMA NodeFailedLeads ==
    ASSUME definition \in Definitions, NEW l \in LocalStates, l.todo # <<>>
    PROVE  LeadsOn(l, NodeFailed(l))
  <1>1. PICK k : k = [l EXCEPT
                 !.setupFailed = @ \/ l.phase = "setup",
                 !.testFailed = @ \/ l.phase = "test",
                 !.teardownFailed = @ \/ l.phase = "teardown",
                 !.blockedTests = IF l.phase = "test"
                                  THEN @ \union DescendantsOf[definition][Head(l.todo)] ELSE @]
    OBVIOUS
  <1>2. DescendantsOf[definition][Head(l.todo)] \subseteq Nodes
    BY ElementsOfList, DefinitionType DEF Descendants, LocalStates
  <1>3. k \in LocalStates /\ k.todo = l.todo /\ k.accumulatedVars = l.accumulatedVars
    BY ZenonT(60), <1>1, <1>2 DEF LocalStates
  <1>4. LeadsOn(k, AfterNode(k)) /\ NodeFailed(l) = AfterNode(k)
    BY <1>1, <1>3, AfterNodeLeads DEF NodeFailed
  <1>5. QED BY <1>3, <1>4 DEF LeadsOn
------------------------------------------------------------------------------
(***************************************************************************)
(* What a change of one row does to the invariant.                         *)
(***************************************************************************)
MayRun(d, st, n) ==
    /\ n \in In(d, "setup") => \A m \in In(d, "setup") : <<m, n>> \in d.edges => st[m] \in TerminalStepStatuses
    /\ n \in In(d, "test") => Succeeded(st, In(d, "setup") \union AncestorsOf[d][n])

HasCause(d, st, n) ==
    /\ n \in In(d, "setup") => \E m \in In(d, "setup") : <<m, n>> \in d.edges /\ st[m] = "failed"
    /\ n \in In(d, "test") => Failed(st, In(d, "setup")) \/ Failed(st, AncestorsOf[d][n])
    /\ n \notin In(d, "teardown")

\* A row that was not terminal may change where its new status is justified.
LEMMA RowsMove ==
    ASSUME NEW d \in Definitions, NEW st \in [Nodes -> StepStatuses], NEW cr, NEW n \in Nodes,
           NEW s \in StepStatuses, NEW st2, st2 = [st EXCEPT ![n] = s],
           st[n] \notin TerminalStepStatuses, RowsInv(d, st, cr),
           s \in Ran => MayRun(d, st, n),
           s = "skipped" => HasCause(d, st, n),
           s = "canceled" => cr /\ n \notin In(d, "teardown")
    PROVE  RowsInv(d, st2, cr)
  <1>1. st2[n] = s /\ \A m \in Nodes : m # n => st2[m] = st[m]
    OBVIOUS
  <1>2. \A m \in Nodes : st[m] \in TerminalStepStatuses => st2[m] = st[m]
    BY <1>1
  <1>3. \A p : In(d, p) \subseteq Nodes
    BY DEF In
  <1>4. \A m \in Nodes : AncestorsOf[d][m] \subseteq Nodes
    BY AncestorType
  <1>5. \A S \in SUBSET Nodes : (Succeeded(st, S) => Succeeded(st2, S)) /\ (Failed(st, S) => Failed(st2, S))
    BY <1>2 DEF Succeeded, Failed, TerminalStepStatuses
  <1>6. \A k \in Nodes : MayRun(d, st, k) => MayRun(d, st2, k)
    <2>1. \A k \in Nodes : (In(d, "setup") \union AncestorsOf[d][k]) \subseteq Nodes
      BY <1>3, <1>4
    <2>2. QED BY <1>2, <1>3, <1>5, <2>1 DEF MayRun
  <1>7. \A k \in Nodes : HasCause(d, st, k) => HasCause(d, st2, k)
    <2> SUFFICES ASSUME NEW k \in Nodes, HasCause(d, st, k) PROVE HasCause(d, st2, k)
      OBVIOUS
    <2>1. ASSUME NEW m \in In(d, "setup"), st[m] = "failed" PROVE st2[m] = "failed"
      BY <1>2, <1>3, <2>1 DEF TerminalStepStatuses
    <2>2. /\ Failed(st, In(d, "setup")) => Failed(st2, In(d, "setup"))
          /\ Failed(st, AncestorsOf[d][k]) => Failed(st2, AncestorsOf[d][k])
      BY <1>3, <1>4, <1>5
    <2>3. QED BY <2>1, <2>2 DEF HasCause
  <1>8. \A k \in Nodes : st[k] \in Ran => MayRun(d, st, k)
    BY DEF RowsInv, RanInOrder, MayRun
  <1>9. \A k \in Nodes : st2[k] \in Ran => MayRun(d, st2, k)
    BY <1>1, <1>6, <1>8
  <1>10. RanInOrder(d, st2)
    BY <1>3, <1>9 DEF RanInOrder, MayRun
  <1>11. \A k \in Nodes : st[k] = "skipped" => HasCause(d, st, k)
    <2> SUFFICES ASSUME NEW k \in Nodes, st[k] = "skipped" PROVE HasCause(d, st, k)
      OBVIOUS
    <2>1. SkipsHaveCauses(d, st)
      BY DEF RowsInv
    <2>2. k \notin In(d, "teardown")
      BY <2>1 DEF SkipsHaveCauses
    <2>3. k \in In(d, "setup") => \E m \in In(d, "setup") : <<m, k>> \in d.edges /\ st[m] = "failed"
      BY <2>1 DEF SkipsHaveCauses
    <2>4. k \in In(d, "test") => Failed(st, In(d, "setup")) \/ Failed(st, AncestorsOf[d][k])
      BY <2>1 DEF SkipsHaveCauses
    <2>5. QED BY <2>2, <2>3, <2>4 DEF HasCause
  <1>12. \A k \in Nodes : st2[k] = "skipped" => HasCause(d, st2, k)
    BY <1>1, <1>7, <1>11
  <1>13. \A k \in In(d, "teardown") : st2[k] \notin {"skipped", "canceled"}
    <2> SUFFICES ASSUME NEW k \in In(d, "teardown") PROVE st2[k] \notin {"skipped", "canceled"}
      OBVIOUS
    <2>1. st[k] \notin {"skipped", "canceled"}
      BY DEF RowsInv, SkipsHaveCauses
    <2>2. k = n => s \notin {"skipped", "canceled"}
      BY DEF HasCause
    <2>3. QED BY <1>1, <1>3, <2>1, <2>2
  <1>14. SkipsHaveCauses(d, st2)
    BY <1>3, <1>12, <1>13 DEF SkipsHaveCauses, HasCause
  <1>15. CanceledOnRequest(st2, cr)
    BY <1>1 DEF RowsInv, CanceledOnRequest
  <1>16. QED BY <1>10, <1>14, <1>15 DEF RowsInv

\* What a memory says of the rows stays true when rows are decided and no node
\* behind a failed one starts.
LEMMA RowsSettle ==
    ASSUME NEW d \in Definitions, NEW l \in LocalStates, NEW st, NEW st2, NEW cr,
           \A n \in Nodes : st[n] \in TerminalStepStatuses => st2[n] = st[n],
           \A n \in Nodes : st2[n] = "queued" => st[n] = "queued",
           \A n \in BodyOf(d) : Blocked(d, l, n) /\ st2[n] \in Ran => st[n] \in Ran
    PROVE  /\ FlagsInv(d, l, st, cr) => FlagsInv(d, l, st2, cr)
           /\ \A rest : LoopInv(d, l, st, rest) => LoopInv(d, l, st2, rest)
           /\ BodyDone(d, l, st) => BodyDone(d, l, st2)
  <1>1. BodyOf(d) \subseteq Nodes /\ \A p : In(d, p) \subseteq Nodes
    BY DEF In, BodyOf
  <1>2. \A S \in SUBSET Nodes : (Succeeded(st, S) => Succeeded(st2, S)) /\ (Failed(st, S) => Failed(st2, S))
    BY DEF Succeeded, Failed, TerminalStepStatuses
  <1>3. ASSUME FlagsInv(d, l, st, cr) PROVE FlagsInv(d, l, st2, cr)
    <2>1. /\ l.canceled => cr
          /\ l.setupFailed => Failed(st2, In(d, "setup"))
          /\ l.testFailed => Failed(st2, In(d, "test"))
          /\ l.teardownFailed => Failed(st2, In(d, "teardown"))
      BY <1>1, <1>2, <1>3 DEF FlagsInv
    <2>2. \A m \in l.failedNodes : st2[m] = "failed"
      BY <1>3 DEF FlagsInv, LocalStates, TerminalStepStatuses
    <2>3. ASSUME NEW m \in l.failedNodes, NEW n \in BodyOf(d), <<m, n>> \in d.edges
          PROVE  st2[n] \notin Ran
      <3>1. st[n] \notin Ran
        BY <1>3, <2>3 DEF FlagsInv
      <3>2. Blocked(d, l, n)
        BY <2>3 DEF Blocked
      <3>3. QED BY <3>1, <3>2
    <2>4. ASSUME NEW n \in l.blockedTests
          PROVE  Failed(st2, AncestorsOf[d][n] \intersect In(d, "test"))
      <3>1. Failed(st, AncestorsOf[d][n] \intersect In(d, "test"))
        BY <1>3 DEF FlagsInv
      <3>2. AncestorsOf[d][n] \intersect In(d, "test") \in SUBSET Nodes
        BY <1>1
      <3>3. QED BY <1>2, <3>1, <3>2
    <2>5. QED BY <2>1, <2>2, <2>3, <2>4 DEF FlagsInv
  <1>4. ASSUME BodyDone(d, l, st) PROVE BodyDone(d, l, st2)
    BY <1>1, <1>2, <1>4 DEF BodyDone
  <1>5. ASSUME NEW rest
        PROVE  /\ SetupVisited(d, l, st, rest) => SetupVisited(d, l, st2, rest)
               /\ TestsVisited(d, l, st, rest) => TestsVisited(d, l, st2, rest)
               /\ TeardownVisited(d, l, st, rest) => TeardownVisited(d, l, st2, rest)
    <2>1. SetupVisited(d, l, st, rest) => SetupVisited(d, l, st2, rest)
      BY <1>1 DEF SetupVisited, TerminalStepStatuses
    <2>2. TestsVisited(d, l, st, rest) => TestsVisited(d, l, st2, rest)
      BY <1>1 DEF TestsVisited, TerminalStepStatuses
    <2>3. TeardownVisited(d, l, st, rest) => TeardownVisited(d, l, st2, rest)
      BY <1>1 DEF TeardownVisited, TerminalStepStatuses
    <2>4. QED BY <2>1, <2>2, <2>3
  <1>6. Succeeded(st, In(d, "setup")) => Succeeded(st2, In(d, "setup"))
    BY <1>1, <1>2
  <1>7. ASSUME NEW rest, LoopInv(d, l, st, rest) PROVE LoopInv(d, l, st2, rest)
    BY <1>4, <1>5, <1>6, <1>7 DEF LoopInv, BodyLoop, SetupLoop, TestLoop, TeardownLoop
  <1>8. QED BY <1>3, <1>4, <1>7

\* No ancestor of the node being visited is still on the list.
LEMMA HeadIsFirst ==
    ASSUME NEW d, NEW l \in LocalStates, l.todo # <<>>, TodoInv(d, l)
    PROVE  /\ Head(l.todo) \in Nodes /\ Head(l.todo) \in Elements(l.todo)
           /\ d.phase[Head(l.todo)] = l.phase
           /\ \A m \in AncestorsOf[d][Head(l.todo)] : m \notin Elements(l.todo)
  <1>1. l.todo \in Seq(Nodes) /\ Head(l.todo) \in Nodes /\ Head(l.todo) \in Elements(l.todo)
    BY ElementsOfList DEF LocalStates
  <1>2. 1 \in 1..Len(l.todo) /\ Head(l.todo) = l.todo[1]
    BY <1>1
  <1>3. ASSUME NEW m \in AncestorsOf[d][Head(l.todo)], m \in Elements(l.todo) PROVE FALSE
    <2>1. PICK i \in 1..Len(l.todo) : m = l.todo[i]
      BY <1>3 DEF Elements
    <2>2. i < 1
      BY <1>2, <1>3, <2>1 DEF TodoInv
    <2>3. QED BY <2>2
  <1>4. QED BY <1>1, <1>2, <1>3 DEF TodoInv

\* A test node that is reached and not blocked has only succeeded ancestors.
LEMMA TestMayBegin ==
    ASSUME NEW d \in Definitions, NEW l \in LocalStates, NEW st, l.todo # <<>>, TodoInv(d, l),
           TestLoop(d, l, st, Elements(l.todo)), SkipsHaveCauses(d, st), Head(l.todo) \notin l.blockedTests
    PROVE  Succeeded(st, In(d, "setup") \union AncestorsOf[d][Head(l.todo)])
  <1>1. PICK n : n = Head(l.todo)
    OBVIOUS
  <1>2. n \in Nodes /\ d.phase[n] = "test" /\ \A m \in AncestorsOf[d][n] : m \in Nodes /\ m \notin Elements(l.todo)
    BY <1>1, HeadIsFirst, AncestorType DEF TestLoop
  <1>3. n \in BodyOf(d)
    BY <1>2 DEF BodyOf, In
  <1>4. \A m \in AncestorsOf[d][n] : m \in BodyOf(d)
    BY <1>2, <1>3, BodyIsClosed
  <1>5. Succeeded(st, In(d, "setup"))
    BY DEF TestLoop
  <1>6. ASSUME NEW m \in AncestorsOf[d][n], m \in In(d, "test")
        PROVE  st[m] \in {"succeeded", "skipped"}
    <2>1. /\ st[m] \in {"succeeded", "failed", "skipped"}
          /\ st[m] = "failed" => DescendantsOf[d][m] \subseteq l.blockedTests
      BY <1>2, <1>6 DEF TestLoop, TestsVisited
    <2>2. n \in DescendantsOf[d][m]
      BY <1>2, <1>6, AncestorsAreReached
    <2>3. QED BY <1>1, <2>1, <2>2
  <1>7. \A m \in AncestorsOf[d][n] : st[m] # "failed"
    BY <1>4, <1>5, <1>6 DEF BodyOf, Succeeded
  \* A skipped ancestor would have a failed one, which is an ancestor of n too.
  <1>8. ASSUME NEW m \in AncestorsOf[d][n], m \in In(d, "test"), st[m] = "skipped" PROVE FALSE
    <2>1. Failed(st, In(d, "setup")) \/ Failed(st, AncestorsOf[d][m])
      BY <1>8 DEF SkipsHaveCauses
    <2>2. ~Failed(st, In(d, "setup"))
      BY <1>5 DEF Failed, Succeeded
    <2>3. PICK k \in AncestorsOf[d][m] : st[k] = "failed"
      BY <2>1, <2>2 DEF Failed
    <2>4. k \in Nodes
      BY <1>2, <1>8, AncestorType
    <2>5. k \in AncestorsOf[d][n]
      BY <1>2, <1>8, <2>4, AncestorsAreTransitive
    <2>6. QED BY <1>7, <2>3, <2>5
  <1>9. QED
    BY <1>1, <1>4, <1>5, <1>6, <1>8 DEF BodyOf, Succeeded
------------------------------------------------------------------------------
(***************************************************************************)
(* The steps of the one worker that processes the run.                     *)
(***************************************************************************)
Working == PCs \ {"idle", "loadRun", "markRun", "done"}

\* What a worker that is in process() knows.
Knows(w, l, st) ==
    /\ definition \in Definitions /\ cancelRequested \in BOOLEAN
    /\ st \in [Nodes -> StepStatuses] /\ \A n \in Nodes : st[n] # "absent"
    /\ l \in LocalStates /\ (l.pc \in Visiting => l.todo # <<>>)
    /\ l.canceled => cancelRequested
    /\ RowsInv(definition, st, cancelRequested)
    /\ MemoryInv(definition, l, st, cancelRequested)
    /\ job.stalled = 0 => \A n \in Nodes : st[n] = "succeeded" => n \in l.accumulatedVars
    /\ runStatus # "absent"
    /\ l.pc = "markRun" => runStatus = "queued" \/ Live
    /\ l.pc \in Working => Live

LEMMA WorkerKnows ==
    ASSUME RunInv, OneAtATime, NEW w \in Workers, local[w].pc # "idle"
    PROVE  Knows(w, local[w], step)
  <1>1. TypeOK /\ MemoryAgrees /\ Created /\ Alone
    BY DEF RunInv, CancelInvariant
  <1>2. runStatus # "absent"
    BY <1>1 DEF Created
  <1>3. /\ definition \in Definitions /\ cancelRequested \in BOOLEAN
        /\ step \in [Nodes -> StepStatuses] /\ local[w] \in LocalStates
        /\ local[w].pc \in Visiting => local[w].todo # <<>>
    BY <1>1 DEF TypeOK, ContractTypeOK
  <1>4. \A n \in Nodes : step[n] # "absent"
    BY <1>1, <1>2 DEF Created
  <1>5. /\ RowsInv(definition, step, cancelRequested)
        /\ MemoryInv(definition, local[w], step, cancelRequested)
        /\ job.stalled = 0 => \A n \in Nodes : step[n] = "succeeded" => n \in local[w].accumulatedVars
    BY <1>1 DEF Alone, FirstDelivery
  <1>6. /\ local[w].pc = "markRun" => runStatus = "queued" \/ Live
        /\ local[w].pc \in Working => Live
    BY <1>1 DEF Alone, RunIsLive, Working
  <1>7. QED BY <1>1, <1>2, <1>3, <1>4, <1>5, <1>6 DEF Knows, MemoryAgrees

\* A step of the worker that keeps its job.
LEMMA WorkerMoves ==
    ASSUME RunInv, OneAtATime, NEW w \in Workers, local[w].pc # "idle", NEW next, GoTo(w, next),
           UNCHANGED <<definition, job, cancelRequested>>,
           RowsInv(definition, step', cancelRequested),
           MemoryInv(definition, next, step', cancelRequested),
           next.pc = "markRun" => runStatus' = "queued" \/ Live',
           next.pc \in Working => Live',
           next.pc # "idle" /\ job.stalled = 0 =>
               \A n \in Nodes : step'[n] = "succeeded" => n \in next.accumulatedVars
    PROVE  Alone'
  <1>1. /\ local'[w] = next
        /\ \A v \in Workers : v # w => local'[v] = local[v] /\ local[v].pc = "idle"
        /\ job.state \in {"active", "gone"} /\ (job.state = "active" => job.owner = w)
    BY DEF GoTo, RunInv, CancelInvariant, TypeOK, Alone, OneProcesses
  <1>2. OneProcesses'
    BY <1>1 DEF OneProcesses
  <1>3. RunIsLive'
    BY <1>1 DEF RunIsLive, Working
  <1>4. FirstDelivery'
    BY <1>1 DEF FirstDelivery
  <1>5. RowsInv(definition, step, cancelRequested)'
    OBVIOUS
  <1>6. \A v \in Workers : MemoryInv(definition, local[v], step, cancelRequested)'
    <2> SUFFICES ASSUME NEW v \in Workers PROVE MemoryInv(definition', local'[v], step', cancelRequested')
      OBVIOUS
    <2>1. CASE v = w
      BY <1>1, <2>1
    <2>2. CASE v # w
      BY <1>1, <2>2, IdleMemory
    <2>3. QED BY <2>1, <2>2
  <1>7. QED BY <1>2, <1>3, <1>4, <1>5, <1>6 DEF Alone

\* No row changes.
LEMMA MemoryMoves ==
    ASSUME RunInv, OneAtATime, NEW w \in Workers, local[w].pc # "idle", NEW next, GoTo(w, next),
           UNCHANGED <<rowVars, job>>,
           MemoryInv(definition, next, step, cancelRequested),
           next.pc = "markRun" => runStatus = "queued" \/ Live,
           next.pc \in Working => Live,
           next.pc # "idle" => next.accumulatedVars = local[w].accumulatedVars
    PROVE  UNCHANGED contractVars /\ Alone'
  <1>1. UNCHANGED <<definition, runStatus, errorCode, cancelRequested, step, job>>
    BY DEF rowVars
  <1>2. Knows(w, local[w], step)
    BY WorkerKnows
  <1>3. /\ RowsInv(definition, step', cancelRequested)
        /\ MemoryInv(definition, next, step', cancelRequested)
    BY <1>1, <1>2 DEF Knows
  <1>4. /\ next.pc = "markRun" => runStatus' = "queued" \/ Live'
        /\ next.pc \in Working => Live'
    BY <1>1 DEF Live, Interrupted
  <1>5. next.pc # "idle" /\ job.stalled = 0 =>
               \A n \in Nodes : step'[n] = "succeeded" => n \in next.accumulatedVars
    BY <1>1, <1>2 DEF Knows
  <1>6. Alone'
    BY <1>1, <1>3, <1>4, <1>5, WorkerMoves
  <1>7. QED BY <1>1, <1>6 DEF contractVars

\* The row of the visited node changes.
LEMMA RowMoves ==
    ASSUME RunInv, OneAtATime, NEW w \in Workers, local[w].pc \in Working, NEW next, GoTo(w, next),
           StepWritten,
           RowsInv(definition, step', cancelRequested),
           MemoryInv(definition, next, step', cancelRequested),
           next.pc \in Working,
           local[w].accumulatedVars \subseteq next.accumulatedVars,
           \A n \in Nodes : step'[n] = "succeeded" => step[n] = "succeeded" \/ n \in next.accumulatedVars
    PROVE  Alone'
  <1>1. UNCHANGED <<definition, runStatus, errorCode, cancelRequested, job>>
    BY DEF StepWritten, runRow
  <1>2. local[w].pc # "idle" /\ next.pc \notin {"idle", "markRun"}
    BY DEF Working
  <1>3. Knows(w, local[w], step)
    BY <1>2, WorkerKnows
  <1>4. Live'
    BY <1>1, <1>3 DEF Knows, Live, Interrupted
  <1>5. job.stalled = 0 => \A n \in Nodes : step'[n] = "succeeded" => n \in next.accumulatedVars
    BY <1>3 DEF Knows
  <1>6. QED BY <1>1, <1>2, <1>4, <1>5, WorkerMoves

\* A visited node has a place in the loop and a row that a write touches alone.
LEMMA Visit ==
    ASSUME RunInv, OneAtATime, NEW w \in Workers, local[w].pc \in LoopPCs
    PROVE  /\ Knows(w, local[w], step) /\ Live /\ local[w].pc # "idle" /\ local[w].todo # <<>>
           /\ local[w].phase \in Phases
           /\ Head(local[w].todo) \in Nodes /\ Head(local[w].todo) \in In(definition, local[w].phase)
           /\ FlagsInv(definition, local[w], step, cancelRequested)
           /\ TodoInv(definition, local[w]) /\ VisitInv(definition, local[w], step)
           /\ LoopInv(definition, local[w], step, Elements(local[w].todo))
           /\ SkipsHaveCauses(definition, step) /\ RanInOrder(definition, step)
           /\ \A s : WriteStep(w, s) =>
                 step'[Head(local[w].todo)] = s /\ \A m \in Nodes : m # Head(local[w].todo) => step'[m] = step[m]
  <1>1. local[w].pc # "idle" /\ local[w].pc \in Working
    BY DEF LoopPCs, Working, PCs
  <1>2. Knows(w, local[w], step)
    BY <1>1, WorkerKnows
  <1>3. local[w].todo # <<>>
    <2>1. local[w].pc \in Visiting
      BY DEF LoopPCs, Visiting
    <2>2. QED BY <1>2, <2>1 DEF Knows
  <1>4. local[w].pc \in PCs \ {"idle", "loadRun", "markRun", "done", "finalizeError"}
    BY DEF LoopPCs, PCs
  <1>5. /\ FlagsInv(definition, local[w], step, cancelRequested)
        /\ TodoInv(definition, local[w]) /\ VisitInv(definition, local[w], step)
        /\ LoopInv(definition, local[w], step, Elements(local[w].todo))
    BY <1>2, <1>4 DEF Knows, MemoryInv, LoopInv
  <1>6. /\ Head(local[w].todo) \in Nodes
        /\ definition.phase[Head(local[w].todo)] = local[w].phase
    BY <1>2, <1>3, <1>5, HeadIsFirst DEF Knows
  <1>7. local[w].phase \in Phases
    BY <1>2 DEF Knows, LocalStates
  <1>8. step \in [Nodes -> StepStatuses]
    BY <1>2 DEF Knows
  <1>9. QED
    BY <1>1, <1>2, <1>3, <1>5, <1>6, <1>7, <1>8 DEF Knows, RowsInv, In, WriteStep

LEMMA ContractNames ==
    /\ \A p : NodesIn(p) = In(definition, p)
    /\ Body = BodyOf(definition)
    /\ \A l, n : FailedDependency(l, n) <=> Blocked(definition, l, n)
  BY DEF NodesIn, In, Body, BodyOf, FailedDependency, Blocked

\* The phases are apart.
LEMMA PhasesApart ==
    ASSUME NEW d, NEW n
    PROVE  /\ ~(n \in In(d, "setup") /\ n \in In(d, "test"))
           /\ ~(n \in BodyOf(d) /\ n \in In(d, "teardown"))
  BY DEF In, BodyOf
------------------------------------------------------------------------------
LEMMA LoadRunStep ==
    ASSUME RunInv, OneAtATime, NEW w \in Workers, LoadRun(w)
    PROVE  UNCHANGED contractVars /\ Alone'
  <1>1. local[w].pc = "loadRun" /\ UNCHANGED <<rowVars, job>>
    BY DEF LoadRun, OnlyLocal
  <1>2. Knows(w, local[w], step)
    BY <1>1, WorkerKnows
  <1>3. PICK k : k = [local[w] EXCEPT !.pc = IF runStatus \in TerminalRunStatuses THEN "done" ELSE "markRun"]
    OBVIOUS
  <1>4. /\ k.pc = IF runStatus \in TerminalRunStatuses THEN "done" ELSE "markRun"
        /\ k.phase = local[w].phase /\ SameFlags(local[w], k)
        /\ k.accumulatedVars = local[w].accumulatedVars
    BY <1>2, <1>3 DEF Knows, LocalStates, SameFlags
  <1>5. GoTo(w, k)
    BY <1>3 DEF LoadRun
  <1>6. k.pc = "markRun" => runStatus = "queued" \/ Live
    <2>1. runStatus \in RunStatuses
      BY DEF RunInv, CancelInvariant, TypeOK, ContractTypeOK
    <2>2. QED BY <1>2, <1>4, <2>1 DEF Knows, RunStatuses, TerminalRunStatuses, Live
  <1>7. MemoryInv(definition, k, step, cancelRequested)
    <2>1. Untouched(local[w])
      BY <1>1, <1>2 DEF Knows, MemoryInv
    <2>2. Untouched(k)
      BY <1>4, <2>1 DEF Untouched, SameFlags
    <2>3. QED BY <1>4, <2>2 DEF MemoryInv, LoopPCs
  <1>8. k.pc \notin Working
    BY <1>4 DEF Working
  <1>9. QED BY <1>1, <1>4, <1>5, <1>6, <1>7, <1>8, MemoryMoves

LEMMA MarkRunRunningStep ==
    ASSUME RunInv, OneAtATime, NEW w \in Workers, MarkRunRunning(w)
    PROVE  Start /\ Alone'
  <1>1. /\ local[w].pc = "markRun" /\ runStatus' = "running" /\ GoTo(w, StartSetup(local[w]))
        /\ UNCHANGED <<definition, errorCode, cancelRequested, step, job>>
    BY DEF MarkRunRunning
  <1>2. Knows(w, local[w], step)
    BY <1>1, WorkerKnows
  <1>3. Start
    BY <1>1, <1>2 DEF Start, Knows
  <1>4. Untouched(local[w]) /\ SkipsHaveCauses(definition, step)
    BY <1>1, <1>2 DEF Knows, MemoryInv, RowsInv
  <1>5. MemoryInv(definition, StartSetup(local[w]), step, cancelRequested)
    BY <1>2, <1>4, StartSetupInv DEF Knows
  <1>6. LeadsOn(local[w], StartSetup(local[w]))
    BY <1>2, StartSetupLeads DEF Knows
  <1>7. PICK k : k = StartSetup(local[w])
    OBVIOUS
  <1>8. Alone'
    <2>1. k.pc # "markRun" /\ k.accumulatedVars = local[w].accumulatedVars
      BY <1>6, <1>7 DEF LeadsOn, Places
    <2>2. Live'
      BY <1>1 DEF Live
    <2>3. job.stalled = 0 => \A n \in Nodes : step'[n] = "succeeded" => n \in k.accumulatedVars
      BY <1>1, <1>2, <2>1 DEF Knows
    <2>4. RowsInv(definition, step', cancelRequested) /\ MemoryInv(definition, k, step', cancelRequested)
      BY <1>1, <1>2, <1>5, <1>7 DEF Knows
    <2>5. GoTo(w, k) /\ local[w].pc # "idle" /\ UNCHANGED <<definition, job, cancelRequested>>
      BY <1>1, <1>7
    <2>6. QED BY <2>1, <2>2, <2>3, <2>4, <2>5, WorkerMoves
  <1>9. QED BY <1>3, <1>8

LEMMA CheckCancelStep ==
    ASSUME RunInv, OneAtATime, NEW w \in Workers, CheckCancel(w)
    PROVE  UNCHANGED contractVars /\ Alone'
  <1> DEFINE list == IF local[w].phase = "setup" THEN PhaseNodes("setup") \o PhaseNodes("test")
                     ELSE PhaseNodes("test")
  <1>1. local[w].pc = "checkCancel" /\ local[w].pc \in LoopPCs /\ UNCHANGED <<rowVars, job>>
    BY DEF CheckCancel, OnlyLocal, LoopPCs
  <1>2. PICK l : l = local[w]
    OBVIOUS
  <1>3. PICK d : d = definition
    OBVIOUS
  <1>4. /\ Knows(w, l, step) /\ Live /\ l.pc = "checkCancel" /\ l.todo # <<>>
        /\ l.phase \in Phases /\ l.phase # "teardown"
        /\ FlagsInv(definition, l, step, cancelRequested) /\ TodoInv(definition, l)
        /\ LoopInv(definition, l, step, Elements(l.todo))
        /\ Head(l.todo) \in In(d, l.phase)
    BY <1>1, <1>2, <1>3, Visit DEF VisitInv
  <1>5. l \in LocalStates /\ definition \in Definitions /\ cancelRequested \in BOOLEAN
    BY <1>4 DEF Knows
  <1>6. PICK next : next = CASE cancelRequested -> StartSweep([l EXCEPT !.canceled = TRUE], list, "canceled")
                 [] ~cancelRequested /\ Head(l.todo) \in l.blockedTests -> [l EXCEPT !.pc = "skipBlocked"]
                 [] OTHER -> [l EXCEPT !.pc = "loadStep"]
    OBVIOUS
  <1>7. GoTo(w, next)
    BY <1>2, <1>6 DEF CheckCancel
  <1>8. BodyLoop(definition, l, step, Elements(l.todo))
    BY <1>4 DEF LoopInv, TeardownLoop
  <1>9. /\ MemoryInv(definition, next, step, cancelRequested) /\ next.pc # "markRun"
        /\ next.accumulatedVars = l.accumulatedVars
    <2>1. CASE cancelRequested
      <3>1. PICK k : k = [l EXCEPT !.canceled = TRUE]
        OBVIOUS
      <3>2. /\ k \in LocalStates /\ k.canceled /\ k.setupFailed = l.setupFailed /\ k.testFailed = l.testFailed
            /\ k.teardownFailed = l.teardownFailed /\ k.failedNodes = l.failedNodes
            /\ k.blockedTests = l.blockedTests /\ k.accumulatedVars = l.accumulatedVars
        BY <1>5, <3>1 DEF LocalStates
      <3>3. FlagsInv(definition, k, step, cancelRequested)
        BY <1>4, <2>1, <3>2 DEF FlagsInv
      <3>4. /\ PhaseNodes("setup") \in Seq(Nodes) /\ Elements(PhaseNodes("setup")) = In(definition, "setup")
            /\ PhaseNodes("test") \in Seq(Nodes) /\ Elements(PhaseNodes("test")) = In(definition, "test")
        BY <1>5, PhaseElements DEF Phases
      <3>5. /\ list \in Seq(Nodes)
            /\ Elements(list) = IF l.phase = "setup" THEN BodyOf(definition) ELSE In(definition, "test")
        <4>1. CASE l.phase = "setup"
          <5> DEFINE s == PhaseNodes("setup")
                     t == PhaseNodes("test")
          <5>1. list = s \o t
            BY <1>2, <4>1
          <5>2. s \in Seq(Nodes) /\ t \in Seq(Nodes)
            BY <3>4
          <5> HIDE DEF s, t
          <5>3. Elements(s \o t) = Elements(s) \union Elements(t)
            <6>1. /\ Len(s \o t) = Len(s) + Len(t) /\ Len(s) \in Nat /\ Len(t) \in Nat
                  /\ \A i \in 1..Len(s) : (s \o t)[i] = s[i]
                  /\ \A i \in 1..Len(t) : (s \o t)[Len(s) + i] = t[i]
              BY <5>2
            <6>2. ASSUME NEW i \in 1..(Len(s) + Len(t)), i \notin 1..Len(s)
                  PROVE  \E j \in 1..Len(t) : i = Len(s) + j
              <7>1. i - Len(s) \in 1..Len(t) /\ i = Len(s) + (i - Len(s))
                BY <6>1, <6>2
              <7>2. QED BY <7>1
            <6>3. \A i \in 1..Len(s) : i \in 1..(Len(s) + Len(t))
              BY <6>1
            <6>4. \A i \in 1..Len(t) : Len(s) + i \in 1..(Len(s) + Len(t))
              BY <6>1
            <6>5. Elements(s \o t) \subseteq Elements(s) \union Elements(t)
              BY <6>1, <6>2 DEF Elements
            <6>6. Elements(s) \union Elements(t) \subseteq Elements(s \o t)
              BY <6>1, <6>3, <6>4 DEF Elements
            <6>7. QED BY <6>5, <6>6
          <5>4. s \o t \in Seq(Nodes)
            BY <5>2
          <5>5. Elements(s \o t) = BodyOf(definition)
            BY <3>4, <5>3 DEF BodyOf, s, t
          <5>6. QED BY <4>1, <5>1, <5>4, <5>5
        <4>2. CASE l.phase # "setup"
          BY <1>2, <3>4, <4>2
        <4>3. QED BY <4>1, <4>2
      <3>6. Elements(list) \subseteq BodyOf(definition)
        BY <3>5 DEF BodyOf
      <3>7. \A n \in BodyOf(definition) \ Elements(list) : step[n] # "queued"
        BY <1>4, <1>8, <3>5 DEF BodyLoop, SetupLoop, TestLoop, BodyOf, Succeeded
      <3>8. next = StartSweep(k, list, "canceled")
        BY <1>6, <2>1, <3>1
      <3>9. MemoryInv(definition, next, step, cancelRequested)
        BY <1>5, <3>2, <3>3, <3>5, <3>6, <3>7, <3>8, StartSweepInv
      <3>10. LeadsOn(k, next)
        BY <3>2, <3>8, StartSweepLeads
      <3>11. QED BY <3>2, <3>9, <3>10 DEF LeadsOn, Places
    <2>2. CASE ~cancelRequested
      <3>1. next = [l EXCEPT !.pc = IF Head(l.todo) \in l.blockedTests THEN "skipBlocked" ELSE "loadStep"]
        BY <1>6, <2>2
      <3>2. /\ next.pc = IF Head(l.todo) \in l.blockedTests THEN "skipBlocked" ELSE "loadStep"
            /\ next.phase = l.phase /\ next.todo = l.todo /\ SameFlags(l, next)
            /\ next.accumulatedVars = l.accumulatedVars
        BY <1>5, <3>1 DEF LocalStates, SameFlags
      <3>3. FlagsInv(definition, next, step, cancelRequested)
        BY <1>4, <3>2, FlagsMove
      <3>4. LoopInv(definition, next, step, Elements(next.todo))
        BY <1>4, <3>2, LoopMoves
      <3>5. TodoInv(definition, next)
        BY <1>4, <3>2 DEF TodoInv
      <3>6. NothingCanceled(step)
        BY <1>4, <2>2 DEF Knows, RowsInv, CanceledOnRequest, NothingCanceled
      <3>7. VisitInv(definition, next, step)
        BY <1>4, <3>2, <3>6 DEF VisitInv, SameFlags
      <3>8. next.pc \in LoopPCs
        BY <3>2 DEF LoopPCs
      <3>9. MemoryInv(definition, next, step, cancelRequested)
        BY <3>3, <3>4, <3>5, <3>7, <3>8, AtLoop DEF LoopInv
      <3>10. QED BY <3>2, <3>9
    <2>3. QED BY <2>1, <2>2
  <1>10. QED BY <1>1, <1>2, <1>4, <1>7, <1>9, MemoryMoves

\* Writing the row of the visited node keeps what is known of all the rows.
LEMMA RowWritten ==
    ASSUME RunInv, OneAtATime, NEW w \in Workers, local[w].pc \in LoopPCs,
           NEW s \in StepStatuses \ {"absent", "queued", "canceled"}, WriteStep(w, s),
           step[Head(local[w].todo)] \notin TerminalStepStatuses,
           s \in Ran => MayRun(definition, step, Head(local[w].todo)),
           s = "skipped" => HasCause(definition, step, Head(local[w].todo)),
           Blocked(definition, local[w], Head(local[w].todo)) /\ s \in Ran
               => step[Head(local[w].todo)] \in Ran \/ local[w].phase = "teardown"
    PROVE  /\ RowsInv(definition, step', cancelRequested)
           /\ FlagsInv(definition, local[w], step', cancelRequested)
           /\ LoopInv(definition, local[w], step', Elements(local[w].todo))
           /\ SkipsHaveCauses(definition, step')
           /\ BodyDone(definition, local[w], step) => BodyDone(definition, local[w], step')
  <1>1. PICK n : n = Head(local[w].todo)
    OBVIOUS
  <1>2. /\ Knows(w, local[w], step) /\ n \in Nodes /\ n \in In(definition, local[w].phase)
        /\ FlagsInv(definition, local[w], step, cancelRequested)
        /\ LoopInv(definition, local[w], step, Elements(local[w].todo))
        /\ step'[n] = s /\ \A m \in Nodes : m # n => step'[m] = step[m]
    BY <1>1, Visit
  <1>3. /\ definition \in Definitions /\ step \in [Nodes -> StepStatuses]
        /\ RowsInv(definition, step, cancelRequested) /\ local[w] \in LocalStates
    BY <1>2 DEF Knows
  <1>4. step' = [step EXCEPT ![n] = s]
    BY <1>1 DEF WriteStep
  <1>5. RowsInv(definition, step', cancelRequested)
    <2>1. /\ s \in StepStatuses /\ s # "canceled" /\ step[n] \notin TerminalStepStatuses
          /\ s \in Ran => MayRun(definition, step, n)
          /\ s = "skipped" => HasCause(definition, step, n)
      BY <1>1
    <2>2. n \in Nodes
      BY <1>2
    <2>3. QED BY <1>3, <1>4, <2>1, <2>2, RowsMove
  <1>6. \A m \in Nodes : step[m] \in TerminalStepStatuses => step'[m] = step[m]
    BY <1>1, <1>2
  <1>7. \A m \in Nodes : step'[m] = "queued" => step[m] = "queued"
    BY <1>2
  <1>8. \A m \in BodyOf(definition) : Blocked(definition, local[w], m) /\ step'[m] \in Ran => step[m] \in Ran
    <2> SUFFICES ASSUME NEW m \in BodyOf(definition), Blocked(definition, local[w], m), step'[m] \in Ran
                 PROVE  step[m] \in Ran
      OBVIOUS
    <2>1. m \in Nodes
      BY DEF BodyOf, In
    <2>2. m = n => local[w].phase # "teardown"
      BY <1>2 DEF BodyOf, In
    <2>3. QED BY <1>1, <1>2, <2>1, <2>2
  <1>9. /\ FlagsInv(definition, local[w], step', cancelRequested)
        /\ LoopInv(definition, local[w], step', Elements(local[w].todo))
        /\ BodyDone(definition, local[w], step) => BodyDone(definition, local[w], step')
    BY <1>2, <1>3, <1>6, <1>7, <1>8, RowsSettle
  <1>10. QED BY <1>5, <1>9 DEF RowsInv
------------------------------------------------------------------------------
LEMMA SkipBlockedStep ==
    ASSUME RunInv, OneAtATime, NEW w \in Workers, SkipBlocked(w)
    PROVE  [ContractNext]_contractVars /\ Alone'
  <1>1. /\ local[w].pc = "skipBlocked" /\ local[w].pc \in LoopPCs /\ local[w].pc \in Working
        /\ WriteStep(w, "skipped") /\ GoTo(w, NextNode(local[w])) /\ StepWritten
    BY DEF SkipBlocked, LoopPCs, Working, PCs
  <1>2. PICK l : l = local[w]
    OBVIOUS
  <1>3. PICK n : n = Head(l.todo)
    OBVIOUS
  <1>4. /\ Knows(w, l, step) /\ Live /\ l.todo # <<>> /\ n \in Nodes /\ n \in In(definition, l.phase)
        /\ FlagsInv(definition, l, step, cancelRequested) /\ TodoInv(definition, l)
        /\ LoopInv(definition, l, step, Elements(l.todo))
        /\ RanInOrder(definition, step) /\ SkipsHaveCauses(definition, step)
        /\ step'[n] = "skipped" /\ \A m \in Nodes : m # n => step'[m] = step[m]
    BY <1>1, <1>2, <1>3, Visit
  <1>5. VisitInv(definition, l, step)
    BY <1>1, <1>2, Visit
  <1>6. /\ n \in l.blockedTests /\ NothingCanceled(step) /\ l.phase = "test"
    BY <1>1, <1>2, <1>3, <1>4, <1>5 DEF VisitInv, LoopInv, BodyLoop, SetupLoop, TestLoop, TeardownLoop
  <1>7. l \in LocalStates /\ definition \in Definitions /\ step \in [Nodes -> StepStatuses] /\ step[n] # "absent"
    BY <1>4 DEF Knows
  <1>8. PICK m \in AncestorsOf[definition][n] : m \in In(definition, "test") /\ step[m] = "failed"
    BY <1>4, <1>6 DEF FlagsInv, Failed
  <1>9. step[n] \in {"queued", "skipped"}
    <2>1. step[n] \notin Ran
      BY <1>4, <1>6, <1>8 DEF RanInOrder, Succeeded
    <2>2. step[n] # "canceled"
      BY <1>4, <1>6 DEF NothingCanceled
    <2>3. QED BY <1>4, <1>7, <2>1, <2>2 DEF StepStatuses, Ran
  <1>10. n \notin In(definition, "setup") /\ n \notin In(definition, "teardown")
    BY <1>4, <1>6 DEF In
  <1>11. HasCause(definition, step, n)
    BY <1>8, <1>10 DEF HasCause, Failed
  <1>12. step' = [step EXCEPT ![n] = "skipped"]
    BY <1>1, <1>2, <1>3 DEF WriteStep
  <1>13. step[n] = "skipped" => step' = step
    BY <1>4, <1>7, <1>12
  <1>14. /\ RowsInv(definition, step', cancelRequested) /\ SkipsHaveCauses(definition, step')
         /\ FlagsInv(definition, l, step', cancelRequested)
         /\ LoopInv(definition, l, step', Elements(l.todo))
    <2>1. CASE step[n] = "skipped"
      BY <1>4, <1>13, <2>1 DEF Knows
    <2>2. CASE step[n] = "queued"
      <3>1. "skipped" \in StepStatuses \ {"absent", "queued", "canceled"} /\ "skipped" \notin Ran
        BY DEF StepStatuses, Ran
      <3>2. step[n] \notin TerminalStepStatuses
        BY <2>2 DEF TerminalStepStatuses
      <3>3. QED BY <1>1, <1>2, <1>3, <1>11, <3>1, <3>2, RowWritten
    <2>3. QED BY <1>9, <2>1, <2>2
  <1>15. LoopInv(definition, l, step', Elements(Tail(l.todo)))
    BY <1>3, <1>4, <1>6, <1>7, <1>14, NodeDecided
  <1>16. MemoryInv(definition, NextNode(l), step', cancelRequested)
    BY <1>4, <1>7, <1>14, <1>15, NextNodeInv
  <1>17. LeadsOn(l, NextNode(l))
    BY <1>4, <1>7, NextNodeLeads
  <1>18. Alone'
    <2>1. NextNode(l).pc \in Working /\ l.accumulatedVars \subseteq NextNode(l).accumulatedVars
      BY <1>17 DEF LeadsOn, Places, Working, PCs
    <2>2. \A k \in Nodes : step'[k] = "succeeded" => step[k] = "succeeded" \/ k \in NextNode(l).accumulatedVars
      BY <1>4
    <2>3. QED BY <1>1, <1>2, <1>14, <1>16, <2>1, <2>2, RowMoves
  <1>19. [ContractNext]_contractVars
    <2>1. CASE step[n] = "skipped"
      BY <1>1, <1>13, <2>1 DEF StepWritten, runRow, contractVars
    <2>2. CASE step[n] = "queued"
      <3>1. n \in Body /\ m \in Body
        BY <1>4, <1>6, <1>8, ContractNames DEF BodyOf
      <3>2. SkipStep(n)
        BY <1>1, <1>4, <1>8, <1>12, <2>2, <3>1 DEF SkipStep, SetStep, StepWritten, runRow
      <3>3. QED BY <1>4, <3>2 DEF ContractNext, StepChange
    <2>3. QED BY <1>9, <2>1, <2>2
  <1>20. QED BY <1>18, <1>19

LEMMA LoadStepStep ==
    ASSUME RunInv, OneAtATime, NEW w \in Workers, LoadStep(w)
    PROVE  UNCHANGED contractVars /\ Alone'
  <1>1. local[w].pc = "loadStep" /\ local[w].pc \in LoopPCs /\ UNCHANGED <<rowVars, job>>
    BY DEF LoadStep, OnlyLocal, LoopPCs
  <1>2. PICK l : l = local[w]
    OBVIOUS
  <1>3. PICK n : n = Head(l.todo)
    OBVIOUS
  <1>4. /\ Knows(w, l, step) /\ Live /\ l.todo # <<>> /\ n \in Nodes /\ n \in In(definition, l.phase)
        /\ l.phase \in Phases
        /\ FlagsInv(definition, l, step, cancelRequested) /\ TodoInv(definition, l)
        /\ LoopInv(definition, l, step, Elements(l.todo)) /\ VisitInv(definition, l, step)
        /\ SkipsHaveCauses(definition, step)
    BY <1>1, <1>2, <1>3, Visit
  <1>5. l \in LocalStates /\ definition \in Definitions /\ step[n] \in StepStatuses /\ step[n] # "absent"
    BY <1>4 DEF Knows
  <1>6. PICK next : next = CASE step[n] = "failed" -> NodeFailed(l)
                 [] step[n] \in TerminalStepStatuses \ {"failed"} -> AfterNode(l)
                 [] step[n] \notin TerminalStepStatuses /\ FailedDependency(l, n) -> [l EXCEPT !.pc = "skipStep"]
                 [] OTHER -> [l EXCEPT !.pc = "markStep"]
    OBVIOUS
  <1>7. GoTo(w, next)
    BY <1>2, <1>3, <1>6 DEF LoadStep
  <1>8. /\ MemoryInv(definition, next, step, cancelRequested) /\ next.pc # "markRun"
        /\ next.accumulatedVars = l.accumulatedVars
    <2>1. CASE step[n] = "failed"
      <3>1. next = NodeFailed(l)
        BY <1>6, <2>1 DEF TerminalStepStatuses
      <3>2. QED BY <1>3, <1>4, <1>5, <2>1, <3>1, NodeFailedInv, NodeFailedLeads DEF LeadsOn, Places
    <2>2. CASE step[n] \in TerminalStepStatuses \ {"failed"}
      <3>1. next = AfterNode(l)
        BY <1>6, <2>2
      <3>2. step[n] = "canceled" => FALSE
        <4>1. CASE l.phase = "teardown"
          BY <1>4, <4>1 DEF SkipsHaveCauses
        <4>2. CASE l.phase # "teardown"
          BY <1>1, <1>2, <1>4, <4>2 DEF VisitInv, NothingCanceled
        <4>3. QED BY <4>1, <4>2
      <3>3. step[n] = "skipped" => l.phase # "teardown"
        BY <1>4 DEF SkipsHaveCauses
      <3>4. step[Head(l.todo)] = "succeeded" \/ (step[Head(l.todo)] = "skipped" /\ l.phase # "teardown")
        BY <1>3, <2>2, <3>2, <3>3 DEF TerminalStepStatuses
      <3>5. LoopInv(definition, l, step, Elements(Tail(l.todo)))
        BY <1>4, <1>5, <3>4, NodeDecided
      <3>6. QED BY <1>4, <1>5, <3>1, <3>5, AfterNodeInv, AfterNodeLeads DEF LeadsOn, Places
    <2>3. CASE step[n] \notin TerminalStepStatuses
      <3>1. step[n] \in Undecided /\ step[n] # "failed"
        BY <1>5, <2>3 DEF StepStatuses, TerminalStepStatuses, Undecided
      <3>2. next = [l EXCEPT !.pc = IF Blocked(definition, l, n) THEN "skipStep" ELSE "markStep"]
        BY <1>6, <2>3, <3>1, ContractNames
      <3>3. /\ next.pc = IF Blocked(definition, l, n) THEN "skipStep" ELSE "markStep"
            /\ next.phase = l.phase /\ next.todo = l.todo /\ SameFlags(l, next)
            /\ next.accumulatedVars = l.accumulatedVars
        BY <1>5, <3>2 DEF LocalStates, SameFlags
      <3>4. FlagsInv(definition, next, step, cancelRequested)
        BY <1>4, <3>3, FlagsMove
      <3>5. LoopInv(definition, next, step, Elements(next.todo))
        BY <1>4, <3>3, LoopMoves
      <3>6. TodoInv(definition, next)
        BY <1>4, <3>3 DEF TodoInv
      <3>7. VisitInv(definition, next, step)
        <4>1. l.pc = "loadStep"
          BY <1>1, <1>2
        <4>2. Blocked(definition, next, n) <=> Blocked(definition, l, n)
          BY <3>3 DEF Blocked, SameFlags
        <4>3. next.phase # "teardown" => NothingCanceled(step)
          BY <1>4, <3>3, <4>1 DEF VisitInv
        <4>4. next.phase = "test" => n \notin next.blockedTests
          BY <1>3, <1>4, <3>3, <4>1 DEF VisitInv, SameFlags
        <4>5. Head(next.todo) = n
          BY <1>3, <3>3
        <4>6. QED BY <3>1, <3>3, <4>2, <4>3, <4>4, <4>5 DEF VisitInv
      <3>8. next.pc \in LoopPCs
        BY <3>3 DEF LoopPCs
      <3>9. MemoryInv(definition, next, step, cancelRequested)
        BY <3>4, <3>5, <3>6, <3>7, <3>8, AtLoop DEF LoopInv
      <3>10. QED BY <3>3, <3>9
    <2>4. QED BY <2>1, <2>2, <2>3 DEF TerminalStepStatuses
  <1>9. QED BY <1>1, <1>2, <1>4, <1>7, <1>8, MemoryMoves

LEMMA SkipDependentStep ==
    ASSUME RunInv, OneAtATime, NEW w \in Workers, SkipDependent(w)
    PROVE  [ContractNext]_contractVars /\ Alone'
  <1>1. /\ local[w].pc = "skipStep" /\ local[w].pc \in LoopPCs /\ local[w].pc \in Working /\ StepWritten
    BY DEF SkipDependent, LoopPCs, Working, PCs
  <1>2. PICK l : l = local[w]
    OBVIOUS
  <1>3. PICK n : n = Head(l.todo)
    OBVIOUS
  <1>4. /\ Knows(w, l, step) /\ Live /\ l.todo # <<>> /\ n \in Nodes /\ n \in In(definition, l.phase)
        /\ l.phase \in Phases
        /\ FlagsInv(definition, l, step, cancelRequested) /\ TodoInv(definition, l)
        /\ LoopInv(definition, l, step, Elements(l.todo)) /\ VisitInv(definition, l, step)
        /\ SkipsHaveCauses(definition, step)
    BY <1>1, <1>2, <1>3, Visit
  <1>5. l \in LocalStates /\ definition \in Definitions /\ step \in [Nodes -> StepStatuses]
    BY <1>4 DEF Knows
  <1>6. step[n] \in Undecided /\ step[n] \notin TerminalStepStatuses
    BY <1>1, <1>2, <1>3, <1>4 DEF VisitInv, Undecided, TerminalStepStatuses
  <1>7. PICK m \in l.failedNodes : <<m, n>> \in definition.edges
    BY <1>1, <1>2, <1>3, <1>4 DEF VisitInv, Blocked
  <1>8. m \in Nodes /\ step[m] = "failed"
    BY <1>4, <1>5, <1>7 DEF LocalStates, FlagsInv
  <1>9. m \in AncestorsOf[definition][n]
    BY <1>4, <1>5, <1>7, <1>8, DependencyIsAncestor
  \* In setup and test the node is skipped.
  <1>10. CASE l.phase # "teardown"
    <2>1. WriteStep(w, "skipped") /\ GoTo(w, NextNode(l))
      BY <1>2, <1>10 DEF SkipDependent
    <2>2. n \in BodyOf(definition) /\ m \in BodyOf(definition)
      <3>1. n \in BodyOf(definition)
        BY <1>4, <1>10 DEF Phases, BodyOf
      <3>2. QED BY <1>4, <1>5, <1>9, <3>1, BodyIsClosed
    <2>3. step[n] = "queued"
      BY <1>4, <1>6, <1>7, <2>2 DEF FlagsInv, Undecided, Ran
    <2>4. HasCause(definition, step, n)
      <3>1. n \in In(definition, "setup") => m \in In(definition, "setup")
        BY <1>4, <1>5, <1>9, BodyIsClosed DEF In
      <3>2. n \notin In(definition, "teardown")
        BY <2>2, PhasesApart
      <3>3. Failed(step, AncestorsOf[definition][n])
        BY <1>8, <1>9 DEF Failed
      <3>4. n \in In(definition, "setup") =>
               \E x \in In(definition, "setup") : <<x, n>> \in definition.edges /\ step[x] = "failed"
        BY <1>7, <1>8, <3>1
      <3>5. QED BY <3>2, <3>3, <3>4 DEF HasCause
    <2>5. step'[n] = "skipped" /\ \A x \in Nodes : x # n => step'[x] = step[x]
      BY <1>1, <1>2, <1>3, <2>1, Visit
    <2>6. /\ RowsInv(definition, step', cancelRequested) /\ SkipsHaveCauses(definition, step')
          /\ FlagsInv(definition, l, step', cancelRequested)
          /\ LoopInv(definition, l, step', Elements(l.todo))
      <3>1. "skipped" \in StepStatuses \ {"absent", "queued", "canceled"} /\ "skipped" \notin Ran
        BY DEF StepStatuses, Ran
      <3>2. QED BY <1>1, <1>2, <1>3, <1>6, <2>1, <2>4, <3>1, RowWritten
    <2>7. LoopInv(definition, l, step', Elements(Tail(l.todo)))
      BY <1>3, <1>4, <1>5, <1>10, <2>5, <2>6, NodeDecided
    <2>8. MemoryInv(definition, NextNode(l), step', cancelRequested)
      BY <1>4, <1>5, <2>6, <2>7, NextNodeInv
    <2>9. LeadsOn(l, NextNode(l))
      BY <1>4, <1>5, NextNodeLeads
    <2>10. Alone'
      <3>1. NextNode(l).pc \in Working /\ l.accumulatedVars \subseteq NextNode(l).accumulatedVars
        BY <2>9 DEF LeadsOn, Places, Working, PCs
      <3>2. \A k \in Nodes : step'[k] = "succeeded" => step[k] = "succeeded" \/ k \in NextNode(l).accumulatedVars
        BY <2>5
      <3>3. QED BY <1>1, <1>2, <2>1, <2>6, <2>8, <3>1, <3>2, RowMoves
    <2>11. SkipStep(n)
      <3>1. step' = [step EXCEPT ![n] = "skipped"]
        BY <1>2, <1>3, <2>1 DEF WriteStep
      <3>2. QED
        BY <1>1, <1>4, <1>8, <2>2, <2>3, <3>1, ContractNames DEF SkipStep, SetStep, StepWritten, runRow
    <2>12. QED BY <1>4, <2>10, <2>11 DEF ContractNext, StepChange
  \* In teardown it is failed.
  <1>11. CASE l.phase = "teardown"
    <2>1. PICK k : k = [l EXCEPT !.failedNodes = @ \union {n}]
      OBVIOUS
    <2>2. WriteStep(w, "failed") /\ GoTo(w, NodeFailed(k))
      BY <1>2, <1>3, <1>11, <2>1 DEF SkipDependent
    <2>3. /\ k \in LocalStates /\ k.failedNodes = l.failedNodes \union {n}
          /\ k.todo = l.todo /\ k.phase = l.phase /\ k.canceled = l.canceled
          /\ k.setupFailed = l.setupFailed /\ k.testFailed = l.testFailed /\ k.teardownFailed = l.teardownFailed
          /\ k.blockedTests = l.blockedTests /\ k.accumulatedVars = l.accumulatedVars
      BY <1>4, <1>5, <2>1 DEF LocalStates
    <2>4. step'[n] = "failed" /\ \A x \in Nodes : x # n => step'[x] = step[x]
      BY <1>1, <1>2, <1>3, <2>2, Visit
    <2>5. n \in In(definition, "teardown") /\ n \notin In(definition, "setup") /\ n \notin In(definition, "test")
      BY <1>4, <1>11 DEF In
    <2>6. /\ RowsInv(definition, step', cancelRequested) /\ SkipsHaveCauses(definition, step')
          /\ FlagsInv(definition, l, step', cancelRequested)
          /\ LoopInv(definition, l, step', Elements(l.todo))
      <3>1. "failed" \in StepStatuses \ {"absent", "queued", "canceled"}
        BY DEF StepStatuses
      <3>2. MayRun(definition, step, n)
        BY <2>5 DEF MayRun
      <3>3. QED BY <1>1, <1>2, <1>3, <1>6, <1>11, <2>2, <3>1, <3>2, RowWritten
    <2>7. FlagsInv(definition, k, step', cancelRequested)
      <3>1. \A x \in BodyOf(definition) : <<n, x>> \notin definition.edges
        <4> SUFFICES ASSUME NEW x \in BodyOf(definition), <<n, x>> \in definition.edges PROVE FALSE
          OBVIOUS
        <4>1. x \in Nodes
          BY DEF BodyOf, In
        <4>2. n \in AncestorsOf[definition][x]
          BY <1>4, <1>5, <4>1, DependencyIsAncestor
        <4>3. n \in BodyOf(definition)
          BY <1>5, <4>1, <4>2, BodyIsClosed
        <4>4. QED BY <2>5, <4>3, PhasesApart
      <3>2. QED BY <2>3, <2>4, <2>6, <3>1 DEF FlagsInv
    <2>8. LoopInv(definition, k, step', Elements(k.todo))
      BY <2>3, <2>6 DEF LoopInv, BodyLoop, SetupLoop, TestLoop, TeardownLoop, SetupVisited, TestsVisited,
                        TeardownVisited, BodyDone
    <2>9. TodoInv(definition, k)
      BY <1>4, <2>3 DEF TodoInv
    <2>10. MemoryInv(definition, NodeFailed(k), step', cancelRequested)
      BY <1>3, <1>4, <1>5, <2>3, <2>4, <2>6, <2>7, <2>8, <2>9, NodeFailedInv
    <2>11. LeadsOn(k, NodeFailed(k))
      BY <1>4, <1>5, <2>3, NodeFailedLeads
    <2>12. Alone'
      <3>1. NodeFailed(k).pc \in Working /\ l.accumulatedVars \subseteq NodeFailed(k).accumulatedVars
        BY <2>3, <2>11 DEF LeadsOn, Places, Working, PCs
      <3>2. \A x \in Nodes : step'[x] = "succeeded" => step[x] = "succeeded" \/ x \in NodeFailed(k).accumulatedVars
        BY <2>4
      <3>3. QED BY <1>1, <1>2, <2>2, <2>6, <2>10, <3>1, <3>2, RowMoves
    <2>13. step' = [step EXCEPT ![n] = "failed"]
      BY <1>2, <1>3, <2>2 DEF WriteStep
    <2>14. SetStep(n, "failed")
      BY <1>1, <2>13 DEF SetStep, StepWritten, runRow
    <2>15. CASE step[n] = "running"
      BY <1>4, <2>12, <2>14, <2>15 DEF ContractNext, StepChange, EndStep
    <2>16. CASE step[n] = "queued"
      <3>1. \A x \in Body : step[x] # "queued"
        BY <1>4, <1>11, ContractNames DEF LoopInv, BodyLoop, SetupLoop, TestLoop, TeardownLoop, BodyDone
      <3>2. definition.phase[n] = "teardown"
        BY <2>5 DEF In
      <3>3. FailTeardownStep(n)
        BY <1>4, <1>7, <1>8, <2>14, <2>16, <3>1, <3>2 DEF FailTeardownStep
      <3>4. QED BY <1>4, <2>12, <3>3 DEF ContractNext, StepChange
    <2>17. QED BY <1>6, <2>15, <2>16 DEF Undecided
  <1>12. QED BY <1>10, <1>11

LEMMA MarkStepRunningStep ==
    ASSUME RunInv, OneAtATime, NEW w \in Workers, MarkStepRunning(w)
    PROVE  [ContractNext]_contractVars /\ Alone'
  <1>1. /\ local[w].pc = "markStep" /\ local[w].pc \in LoopPCs /\ local[w].pc \in Working /\ StepWritten
        /\ WriteStep(w, "running") /\ GoTo(w, [local[w] EXCEPT !.pc = "execute"])
    BY DEF MarkStepRunning, LoopPCs, Working, PCs
  <1>2. PICK l : l = local[w]
    OBVIOUS
  <1>3. PICK n : n = Head(l.todo)
    OBVIOUS
  <1>4. /\ Knows(w, l, step) /\ Live /\ l.todo # <<>> /\ n \in Nodes /\ n \in In(definition, l.phase)
        /\ l.phase \in Phases
        /\ FlagsInv(definition, l, step, cancelRequested) /\ TodoInv(definition, l)
        /\ LoopInv(definition, l, step, Elements(l.todo)) /\ VisitInv(definition, l, step)
        /\ SkipsHaveCauses(definition, step)
        /\ step'[n] = "running" /\ \A x \in Nodes : x # n => step'[x] = step[x]
    BY <1>1, <1>2, <1>3, Visit
  <1>5. l \in LocalStates /\ definition \in Definitions
    BY <1>4 DEF Knows
  <1>6. /\ step[n] \in Undecided /\ step[n] \notin TerminalStepStatuses
        /\ ~Blocked(definition, l, n)
        /\ l.phase = "test" => n \notin l.blockedTests
        /\ l.phase # "teardown" => NothingCanceled(step)
    BY <1>1, <1>2, <1>3, <1>4 DEF VisitInv, Undecided, TerminalStepStatuses
  <1>7. l.phase = "test" => Succeeded(step, In(definition, "setup") \union AncestorsOf[definition][n])
    <2> SUFFICES ASSUME l.phase = "test"
                 PROVE  Succeeded(step, In(definition, "setup") \union AncestorsOf[definition][n])
      OBVIOUS
    <2>1. TestLoop(definition, l, step, Elements(l.todo))
      BY <1>4 DEF LoopInv, BodyLoop, SetupLoop, TeardownLoop
    <2>2. QED BY <1>3, <1>4, <1>5, <1>6, <2>1, TestMayBegin
  <1>8. MayRun(definition, step, n)
    <2>1. ASSUME n \in In(definition, "setup"), NEW m \in In(definition, "setup"), <<m, n>> \in definition.edges
          PROVE  step[m] \in TerminalStepStatuses
      <3>1. l.phase = "setup"
        BY <1>4, <2>1 DEF In
      <3>2. m \in Nodes
        BY DEF In
      <3>3. m \in AncestorsOf[definition][n]
        BY <1>4, <1>5, <2>1, <3>2, DependencyIsAncestor
      <3>4. m \notin Elements(l.todo)
        BY <1>3, <1>4, <1>5, <3>3, HeadIsFirst
      <3>5. SetupVisited(definition, l, step, Elements(l.todo))
        BY <1>4, <3>1 DEF LoopInv, BodyLoop, SetupLoop, TestLoop, TeardownLoop
      <3>6. QED BY <3>4, <3>5 DEF SetupVisited, TerminalStepStatuses
    <2>2. n \in In(definition, "test") => l.phase = "test"
      BY <1>4 DEF In
    <2>3. QED BY <1>7, <2>1, <2>2 DEF MayRun
  <1>9. /\ RowsInv(definition, step', cancelRequested)
        /\ FlagsInv(definition, l, step', cancelRequested)
        /\ LoopInv(definition, l, step', Elements(l.todo))
    <2>1. "running" \in StepStatuses \ {"absent", "queued", "canceled"}
      BY DEF StepStatuses
    <2>2. QED BY <1>1, <1>2, <1>3, <1>6, <1>8, <2>1, RowWritten
  <1>10. PICK k : k = [l EXCEPT !.pc = "execute"]
    OBVIOUS
  <1>11. /\ k.pc = "execute" /\ k.todo = l.todo /\ k.phase = l.phase /\ SameFlags(l, k)
         /\ k.accumulatedVars = l.accumulatedVars
    BY <1>5, <1>10 DEF LocalStates, SameFlags
  <1>12. MemoryInv(definition, k, step', cancelRequested)
    <2>1. FlagsInv(definition, k, step', cancelRequested)
      BY <1>9, <1>11, FlagsMove
    <2>2. LoopInv(definition, k, step', Elements(k.todo))
      BY <1>9, <1>11, LoopMoves
    <2>3. TodoInv(definition, k)
      BY <1>4, <1>11 DEF TodoInv
    <2>4. k.phase # "teardown" => NothingCanceled(step')
      BY <1>4, <1>6, <1>11 DEF NothingCanceled
    <2>5. VisitInv(definition, k, step')
      BY <1>3, <1>4, <1>11, <2>4 DEF VisitInv
    <2>6. k.pc \in LoopPCs
      BY <1>11 DEF LoopPCs
    <2>7. QED BY <2>1, <2>2, <2>3, <2>5, <2>6, AtLoop DEF LoopInv
  <1>13. Alone'
    <2>1. k.pc \in Working /\ l.accumulatedVars \subseteq k.accumulatedVars
      BY <1>11 DEF Working, PCs
    <2>2. \A x \in Nodes : step'[x] = "succeeded" => step[x] = "succeeded" \/ x \in k.accumulatedVars
      BY <1>4
    <2>3. GoTo(w, k)
      BY <1>1, <1>2, <1>10
    <2>4. QED BY <1>1, <1>2, <1>9, <1>12, <2>1, <2>2, <2>3, RowMoves
  <1>14. BeginStep(n)
    <2>1. step' = [step EXCEPT ![n] = "running"]
      BY <1>1, <1>2, <1>3 DEF WriteStep
    <2>2. SetStep(n, "running")
      BY <1>1, <2>1 DEF SetStep, StepWritten, runRow
    <2>3. definition.phase[n] = l.phase
      BY <1>4 DEF In
    <2>4. l.phase = "teardown" => \A m \in Body : step[m] # "queued"
      BY <1>4, ContractNames DEF LoopInv, BodyLoop, SetupLoop, TestLoop, TeardownLoop, BodyDone
    <2>5. l.phase = "test" => \A m \in NodesIn("setup") \union AncestorsOf[definition][n] : step[m] = "succeeded"
      BY <1>7, ContractNames DEF Succeeded
    <2>6. MayBegin(n)
      BY <2>3, <2>4, <2>5 DEF MayBegin
    <2>7. QED BY <1>4, <1>6, <2>2, <2>6 DEF BeginStep, Undecided
  <1>15. QED BY <1>4, <1>13, <1>14 DEF ContractNext, StepChange

LEMMA ExecuteStepStep ==
    ASSUME RunInv, OneAtATime, NEW w \in Workers, ExecuteStep(w)
    PROVE  UNCHANGED contractVars /\ Alone'
  <1>1. local[w].pc = "execute" /\ local[w].pc \in LoopPCs /\ UNCHANGED <<rowVars, job>>
    BY DEF ExecuteStep, LoopPCs
  <1>2. PICK l : l = local[w]
    OBVIOUS
  <1>3. /\ Knows(w, l, step) /\ Live
        /\ FlagsInv(definition, l, step, cancelRequested) /\ TodoInv(definition, l)
        /\ LoopInv(definition, l, step, Elements(l.todo)) /\ VisitInv(definition, l, step)
    BY <1>1, <1>2, Visit
  <1>4. PICK r \in {"succeeded", "failed"} : GoTo(w, [l EXCEPT !.pc = "persist", !.result = r])
    BY <1>2 DEF ExecuteStep
  <1>5. PICK k : k = [l EXCEPT !.pc = "persist", !.result = r]
    OBVIOUS
  <1>6. /\ k.pc = "persist" /\ k.todo = l.todo /\ k.phase = l.phase /\ SameFlags(l, k)
        /\ k.accumulatedVars = l.accumulatedVars
    BY <1>3, <1>5 DEF Knows, LocalStates, SameFlags
  <1>7. MemoryInv(definition, k, step, cancelRequested)
    <2>1. FlagsInv(definition, k, step, cancelRequested)
      BY <1>3, <1>6, FlagsMove
    <2>2. LoopInv(definition, k, step, Elements(k.todo))
      BY <1>3, <1>6, LoopMoves
    <2>3. TodoInv(definition, k)
      BY <1>3, <1>6 DEF TodoInv
    <2>4. VisitInv(definition, k, step)
      BY <1>1, <1>2, <1>3, <1>6 DEF VisitInv
    <2>5. k.pc \in LoopPCs
      BY <1>6 DEF LoopPCs
    <2>6. QED BY <2>1, <2>2, <2>3, <2>4, <2>5, AtLoop DEF LoopInv
  <1>8. GoTo(w, k) /\ local[w].pc # "idle" /\ k.pc # "markRun"
    BY <1>1, <1>4, <1>5, <1>6
  <1>9. QED BY <1>1, <1>2, <1>3, <1>6, <1>7, <1>8, MemoryMoves

LEMMA PersistStepStep ==
    ASSUME RunInv, OneAtATime, NEW w \in Workers, PersistStep(w)
    PROVE  [ContractNext]_contractVars /\ Alone'
  <1>1. /\ local[w].pc = "persist" /\ local[w].pc \in LoopPCs /\ local[w].pc \in Working /\ StepWritten
        /\ WriteStep(w, local[w].result)
    BY DEF PersistStep, LoopPCs, Working, PCs
  <1>2. PICK l : l = local[w]
    OBVIOUS
  <1>3. PICK n : n = Head(l.todo)
    OBVIOUS
  <1>4. /\ Knows(w, l, step) /\ Live /\ l.todo # <<>> /\ n \in Nodes /\ n \in In(definition, l.phase)
        /\ l.phase \in Phases
        /\ FlagsInv(definition, l, step, cancelRequested) /\ TodoInv(definition, l)
        /\ LoopInv(definition, l, step, Elements(l.todo)) /\ VisitInv(definition, l, step)
        /\ RanInOrder(definition, step)
        /\ step'[n] = l.result /\ \A x \in Nodes : x # n => step'[x] = step[x]
    BY <1>1, <1>2, <1>3, Visit
  <1>5. l \in LocalStates /\ definition \in Definitions /\ l.result \in {"succeeded", "failed"}
    BY <1>4 DEF Knows, LocalStates
  <1>6. step[n] = "running" /\ step[n] \in Ran /\ step[n] \notin TerminalStepStatuses
    BY <1>1, <1>2, <1>3, <1>4 DEF VisitInv, Ran, TerminalStepStatuses
  <1>7. MayRun(definition, step, n)
    BY <1>4, <1>6 DEF MayRun, RanInOrder
  <1>8. /\ RowsInv(definition, step', cancelRequested) /\ SkipsHaveCauses(definition, step')
        /\ FlagsInv(definition, l, step', cancelRequested)
        /\ LoopInv(definition, l, step', Elements(l.todo))
    <2>1. l.result \in StepStatuses \ {"absent", "queued", "canceled"} /\ l.result # "skipped"
      BY <1>5 DEF StepStatuses
    <2>2. QED BY <1>1, <1>2, <1>3, <1>6, <1>7, <2>1, RowWritten
  <1>9. [ContractNext]_contractVars
    <2>1. step' = [step EXCEPT ![n] = l.result]
      BY <1>1, <1>2, <1>3 DEF WriteStep
    <2>2. SetStep(n, l.result)
      BY <1>1, <2>1 DEF SetStep, StepWritten, runRow
    <2>3. EndStep(n, l.result)
      BY <1>4, <1>5, <1>6, <2>2 DEF EndStep
    <2>4. QED BY <1>4, <1>5, <2>3 DEF ContractNext, StepChange
  <1>10. CASE l.result = "succeeded"
    <2>1. PICK k : k = [l EXCEPT !.accumulatedVars = @ \union {n}]
      OBVIOUS
    <2>2. /\ k \in LocalStates /\ k.todo = l.todo /\ k.phase = l.phase /\ SameFlags(l, k)
          /\ k.accumulatedVars = l.accumulatedVars \union {n}
      BY <1>4, <1>5, <2>1 DEF LocalStates, SameFlags
    <2>3. GoTo(w, AfterNode(k))
      BY <1>2, <1>3, <1>10, <2>1 DEF PersistStep
    <2>4. FlagsInv(definition, k, step', cancelRequested) /\ LoopInv(definition, k, step', Elements(k.todo))
      BY <1>8, <2>2, FlagsMove, LoopMoves
    <2>5. TodoInv(definition, k)
      BY <1>4, <2>2 DEF TodoInv
    <2>6. LoopInv(definition, k, step', Elements(Tail(k.todo)))
      BY <1>3, <1>4, <1>5, <1>10, <2>2, <2>4, NodeDecided
    <2>7. MemoryInv(definition, AfterNode(k), step', cancelRequested)
      BY <1>4, <1>5, <1>8, <2>2, <2>4, <2>5, <2>6, AfterNodeInv
    <2>8. LeadsOn(k, AfterNode(k))
      BY <1>4, <2>2, AfterNodeLeads
    <2>9. AfterNode(k).pc \in Working /\ l.accumulatedVars \subseteq AfterNode(k).accumulatedVars
      BY <2>2, <2>8 DEF LeadsOn, Places, Working, PCs
    <2>10. \A x \in Nodes : step'[x] = "succeeded" => step[x] = "succeeded" \/ x \in AfterNode(k).accumulatedVars
      BY <1>4, <2>2, <2>8 DEF LeadsOn
    <2>11. Alone'
      BY <1>1, <1>2, <1>8, <2>3, <2>7, <2>9, <2>10, RowMoves
    <2>12. QED BY <1>9, <2>11
  <1>11. CASE l.result = "failed"
    <2>1. PICK k : k = [l EXCEPT !.failedNodes = @ \union {n}]
      OBVIOUS
    <2>2. /\ k \in LocalStates /\ k.failedNodes = l.failedNodes \union {n}
          /\ k.todo = l.todo /\ k.phase = l.phase /\ k.canceled = l.canceled
          /\ k.setupFailed = l.setupFailed /\ k.testFailed = l.testFailed /\ k.teardownFailed = l.teardownFailed
          /\ k.blockedTests = l.blockedTests /\ k.accumulatedVars = l.accumulatedVars
      BY <1>4, <1>5, <2>1 DEF LocalStates
    <2>3. GoTo(w, NodeFailed(k))
      BY <1>2, <1>3, <1>11, <2>1 DEF PersistStep
    <2>4. FlagsInv(definition, k, step', cancelRequested)
      <3>1. ASSUME NEW x \in BodyOf(definition), <<n, x>> \in definition.edges PROVE step'[x] \notin Ran
        <4>1. x \in Nodes
          BY DEF BodyOf, In
        <4>2. n \in AncestorsOf[definition][x]
          BY <1>4, <1>5, <3>1, <4>1, DependencyIsAncestor
        <4>3. CASE x \in In(definition, "setup")
          <5>1. n \in In(definition, "setup")
            BY <1>5, <4>1, <4>2, <4>3, BodyIsClosed DEF In
          <5>2. step[x] \notin Ran
            BY <1>4, <1>6, <3>1, <4>3, <5>1 DEF RanInOrder
          <5>3. QED BY <1>4, <1>6, <4>1, <5>2
        <4>4. CASE x \in In(definition, "test")
          <5>1. step[x] \notin Ran
            BY <1>4, <1>6, <4>2, <4>4 DEF RanInOrder, Succeeded
          <5>2. QED BY <1>4, <1>6, <4>1, <5>1
        <4>5. QED BY <4>3, <4>4 DEF BodyOf
      <3>2. QED BY <1>4, <1>8, <1>11, <2>2, <3>1 DEF FlagsInv
    <2>5. LoopInv(definition, k, step', Elements(k.todo))
      BY <1>8, <2>2 DEF LoopInv, BodyLoop, SetupLoop, TestLoop, TeardownLoop, SetupVisited, TestsVisited,
                        TeardownVisited, BodyDone
    <2>6. TodoInv(definition, k)
      BY <1>4, <2>2 DEF TodoInv
    <2>7. MemoryInv(definition, NodeFailed(k), step', cancelRequested)
      BY <1>3, <1>4, <1>5, <1>8, <1>11, <2>2, <2>4, <2>5, <2>6, NodeFailedInv
    <2>8. LeadsOn(k, NodeFailed(k))
      BY <1>4, <1>5, <2>2, NodeFailedLeads
    <2>9. NodeFailed(k).pc \in Working /\ l.accumulatedVars \subseteq NodeFailed(k).accumulatedVars
      BY <2>2, <2>8 DEF LeadsOn, Places, Working, PCs
    <2>10. \A x \in Nodes : step'[x] = "succeeded" => step[x] = "succeeded" \/ x \in NodeFailed(k).accumulatedVars
      BY <1>4, <1>11
    <2>11. Alone'
      BY <1>1, <1>2, <1>8, <2>3, <2>7, <2>9, <2>10, RowMoves
    <2>12. QED BY <1>9, <2>11
  <1>12. QED BY <1>5, <1>10, <1>11

LEMMA MarkQueuedNodeStep ==
    ASSUME RunInv, OneAtATime, NEW w \in Workers, MarkQueuedNode(w)
    PROVE  [ContractNext]_contractVars /\ Alone'
  <1>1. local[w].pc = "sweep" /\ local[w].pc \in Working /\ local[w].pc \in Visiting /\ StepWritten
    BY DEF MarkQueuedNode, Working, PCs, Visiting
  <1>2. PICK l : l = local[w]
    OBVIOUS
  <1>3. PICK n : n = Head(l.todo)
    OBVIOUS
  <1>4. Knows(w, l, step)
    BY <1>1, <1>2, WorkerKnows DEF Working
  <1>5. /\ l \in LocalStates /\ definition \in Definitions /\ step \in [Nodes -> StepStatuses]
        /\ l.todo # <<>> /\ Live /\ RowsInv(definition, step, cancelRequested)
        /\ l.canceled => cancelRequested
        /\ l.sweepTo \in {"skipped", "canceled"}
    BY <1>1, <1>2, <1>4 DEF Knows, LocalStates
  <1>6. FlagsInv(definition, l, step, cancelRequested) /\ Sweeping(definition, l, step)
    <2>1. l.pc \in PCs \ {"idle", "loadRun", "markRun", "done", "finalizeError"} /\ l.pc = "sweep"
      BY <1>1, <1>2 DEF PCs
    <2>2. QED BY <1>4, <2>1 DEF Knows, MemoryInv
  <1>7. /\ l.todo \in Seq(Nodes) /\ n \in Nodes /\ n \in Elements(l.todo)
        /\ Tail(l.todo) \in Seq(Nodes) /\ Elements(l.todo) = {n} \union Elements(Tail(l.todo))
    BY <1>3, <1>5, ElementsOfList DEF LocalStates
  <1>8. n \in BodyOf(definition)
    BY <1>6, <1>7 DEF Sweeping
  <1>9. step' = IF step[n] = "queued" THEN [step EXCEPT ![n] = l.sweepTo] ELSE step
    BY <1>2, <1>3 DEF MarkQueuedNode, WriteStep
  <1>10. /\ step'[n] = IF step[n] = "queued" THEN l.sweepTo ELSE step[n]
         /\ \A x \in Nodes : x # n => step'[x] = step[x]
    BY <1>5, <1>7, <1>9
  <1>11. step'[n] # "queued" /\ l.sweepTo \notin Ran /\ l.sweepTo # "succeeded"
    BY <1>5, <1>10 DEF Ran
  <1>12. step[n] = "queued" /\ l.sweepTo = "skipped" =>
            HasCause(definition, step, n) /\ \E m \in BodyOf(definition) : step[m] = "failed"
    <2> SUFFICES ASSUME l.sweepTo = "skipped"
                 PROVE  HasCause(definition, step, n) /\ \E m \in BodyOf(definition) : step[m] = "failed"
      OBVIOUS
    <2>1. l.setupFailed /\ n \in In(definition, "test")
      BY <1>6, <1>7 DEF Sweeping
    <2>2. Failed(step, In(definition, "setup"))
      BY <1>6, <2>1 DEF FlagsInv
    <2>3. n \notin In(definition, "setup") /\ n \notin In(definition, "teardown")
      BY <2>1 DEF In
    <2>4. QED BY <2>2, <2>3 DEF HasCause, Failed, BodyOf
  <1>13. l.sweepTo = "canceled" => l.canceled /\ cancelRequested
    BY <1>5, <1>6 DEF Sweeping
  <1>14. n \notin In(definition, "teardown")
    BY <1>8, PhasesApart
  <1>15. RowsInv(definition, step', cancelRequested)
    <2>1. CASE step[n] = "queued"
      <3>1. PICK s : s = l.sweepTo
        OBVIOUS
      <3>2. s \in StepStatuses /\ step[n] \notin TerminalStepStatuses
        BY <1>5, <2>1, <3>1 DEF StepStatuses, TerminalStepStatuses
      <3>3. step' = [step EXCEPT ![n] = s]
        BY <1>9, <2>1, <3>1
      <3>4. /\ s \in Ran => MayRun(definition, step, n)
            /\ s = "skipped" => HasCause(definition, step, n)
            /\ s = "canceled" => cancelRequested /\ n \notin In(definition, "teardown")
        BY <1>11, <1>12, <1>13, <1>14, <2>1, <3>1
      <3>5. n \in Nodes /\ definition \in Definitions /\ step \in [Nodes -> StepStatuses]
            /\ RowsInv(definition, step, cancelRequested)
        BY <1>5, <1>7
      <3>6. QED BY <3>2, <3>3, <3>4, <3>5, RowsMove
    <2>2. CASE step[n] # "queued"
      BY <1>5, <1>9, <2>2
    <2>3. QED BY <2>1, <2>2
  <1>16. FlagsInv(definition, l, step', cancelRequested)
    <2>1. \A x \in Nodes : step[x] \in TerminalStepStatuses => step'[x] = step[x]
      BY <1>10 DEF TerminalStepStatuses
    <2>2. \A x \in Nodes : step'[x] = "queued" => step[x] = "queued"
      BY <1>10, <1>11
    <2>3. BodyOf(definition) \subseteq Nodes
      BY DEF BodyOf, In
    <2>4. \A x \in BodyOf(definition) : Blocked(definition, l, x) /\ step'[x] \in Ran => step[x] \in Ran
      BY <1>10, <1>11, <2>3
    <2>5. QED BY <1>5, <1>6, <2>1, <2>2, <2>4, RowsSettle
  <1>17. \A x \in BodyOf(definition) \ Elements(Tail(l.todo)) : step'[x] # "queued"
    <2> SUFFICES ASSUME NEW x \in BodyOf(definition), x \notin Elements(Tail(l.todo)) PROVE step'[x] # "queued"
      OBVIOUS
    <2>1. x \in Nodes
      BY DEF BodyOf, In
    <2>2. x = n \/ step[x] # "queued"
      BY <1>6, <1>7 DEF Sweeping
    <2>3. QED BY <1>10, <1>11, <2>1, <2>2
  <1>18. \E k : /\ GoTo(w, k) /\ k.pc \in Working /\ k.accumulatedVars = l.accumulatedVars
                /\ MemoryInv(definition, k, step', cancelRequested)
    <2>1. CASE Tail(l.todo) = <<>>
      <3>1. PICK k : k = [l EXCEPT !.todo = <<>>]
        OBVIOUS
      <3>2. k \in LocalStates /\ SameFlags(l, k) /\ k.accumulatedVars = l.accumulatedVars
        <4>1. <<>> \in Seq(Nodes)
          OBVIOUS
        <4>2. QED BY <1>5, <3>1, <4>1 DEF LocalStates, SameFlags
      <3>3. GoTo(w, AfterBody(k))
        BY <1>2, <2>1, <3>1 DEF MarkQueuedNode
      <3>4. \A x \in BodyOf(definition) : step'[x] # "queued"
        BY <1>7, <1>17, <2>1, ElementsOfList
      <3>5. l.canceled \/ l.setupFailed
        BY <1>5, <1>6 DEF Sweeping
      <3>6. BodyDone(definition, l, step')
        BY <3>4, <3>5 DEF BodyDone
      <3>7. BodyDone(definition, k, step') /\ FlagsInv(definition, k, step', cancelRequested)
        BY <1>16, <3>2, <3>6, FlagsMove
      <3>8. MemoryInv(definition, AfterBody(k), step', cancelRequested)
        BY <1>5, <3>2, <3>7, AfterBodyInv
      <3>9. LeadsOn(k, AfterBody(k))
        BY <3>2, AfterBodyLeads
      <3>10. AfterBody(k).pc \in Working /\ AfterBody(k).accumulatedVars = l.accumulatedVars
        BY <3>2, <3>9 DEF LeadsOn, Places, Working, PCs
      <3>11. QED BY <3>3, <3>8, <3>10
    <2>2. CASE Tail(l.todo) # <<>>
      <3>1. PICK k : k = [l EXCEPT !.todo = Tail(@)]
        OBVIOUS
      <3>2. /\ k.pc = "sweep" /\ k.todo = Tail(l.todo) /\ k.sweepTo = l.sweepTo
            /\ SameFlags(l, k) /\ k.accumulatedVars = l.accumulatedVars
        BY <1>1, <1>2, <1>5, <3>1 DEF LocalStates, SameFlags
      <3>3. GoTo(w, k)
        BY <1>2, <2>2, <3>1 DEF MarkQueuedNode
      <3>4. Elements(k.todo) \subseteq Elements(l.todo)
        BY <1>7, <3>2
      <3>5. Sweeping(definition, k, step')
        BY <1>6, <1>17, <3>2, <3>4 DEF Sweeping, SameFlags
      <3>6. FlagsInv(definition, k, step', cancelRequested)
        BY <1>16, <3>2, FlagsMove
      <3>7. MemoryInv(definition, k, step', cancelRequested)
        BY <3>2, <3>5, <3>6, AtSweep
      <3>8. k.pc \in Working
        BY <3>2 DEF Working, PCs
      <3>9. QED BY <3>2, <3>3, <3>7, <3>8
    <2>3. QED BY <2>1, <2>2
  <1>19. Alone'
    <2>1. PICK k : /\ GoTo(w, k) /\ k.pc \in Working /\ k.accumulatedVars = l.accumulatedVars
                   /\ MemoryInv(definition, k, step', cancelRequested)
      BY <1>18
    <2>2. \A x \in Nodes : step'[x] = "succeeded" => step[x] = "succeeded"
      BY <1>10, <1>11
    <2>3. QED BY <1>1, <1>2, <1>15, <2>1, <2>2, RowMoves
  <1>20. [ContractNext]_contractVars
    <2>1. CASE step[n] # "queued"
      BY <1>1, <1>9, <2>1 DEF StepWritten, runRow, contractVars
    <2>2. CASE step[n] = "queued"
      <3>1. SetStep(n, l.sweepTo)
        BY <1>1, <1>9, <2>2 DEF SetStep, StepWritten, runRow
      <3>2. n \in Body
        BY <1>8, ContractNames
      <3>3. l.sweepTo = "canceled" => CancelStep(n)
        BY <1>5, <1>13, <2>2, <3>1, <3>2 DEF CancelStep
      <3>4. l.sweepTo = "skipped" => SkipStep(n)
        BY <1>5, <1>12, <2>2, <3>1, <3>2, ContractNames DEF SkipStep
      <3>5. QED BY <1>5, <1>7, <3>3, <3>4 DEF ContractNext, StepChange
    <2>3. QED BY <2>1, <2>2
  <1>21. QED BY <1>19, <1>20

LEMMA FinalCheckStep ==
    ASSUME RunInv, OneAtATime, NEW w \in Workers, FinalCheck(w)
    PROVE  UNCHANGED contractVars /\ Alone'
  <1>1. local[w].pc = "finalCheck" /\ local[w].pc \in Working /\ UNCHANGED <<rowVars, job>>
    BY DEF FinalCheck, Working, PCs, OnlyLocal
  <1>2. PICK l : l = local[w]
    OBVIOUS
  <1>3. Knows(w, l, step)
    BY <1>1, <1>2, WorkerKnows DEF Working
  <1>4. l \in LocalStates /\ definition \in Definitions /\ cancelRequested \in BOOLEAN /\ Live
    BY <1>1, <1>2, <1>3 DEF Knows
  <1>5. FlagsInv(definition, l, step, cancelRequested) /\ BodyDone(definition, l, step) /\ ~l.canceled
    <2>1. l.pc \in PCs \ {"idle", "loadRun", "markRun", "done", "finalizeError"} /\ l.pc = "finalCheck"
      BY <1>1, <1>2 DEF PCs
    <2>2. QED BY <1>3, <2>1 DEF Knows, MemoryInv
  <1>6. PICK k : k = [l EXCEPT !.canceled = cancelRequested]
    OBVIOUS
  <1>7. /\ k \in LocalStates /\ k.canceled = cancelRequested
        /\ k.setupFailed = l.setupFailed /\ k.testFailed = l.testFailed /\ k.teardownFailed = l.teardownFailed
        /\ k.failedNodes = l.failedNodes /\ k.blockedTests = l.blockedTests
        /\ k.accumulatedVars = l.accumulatedVars
    BY <1>4, <1>6 DEF LocalStates
  <1>8. FlagsInv(definition, k, step, cancelRequested) /\ BodyDone(definition, k, step)
    BY <1>5, <1>7 DEF FlagsInv, BodyDone
  <1>9. MemoryInv(definition, StartTeardown(k), step, cancelRequested)
    BY <1>4, <1>7, <1>8, StartTeardownInv
  <1>10. LeadsOn(k, StartTeardown(k)) /\ GoTo(w, StartTeardown(k))
    BY <1>2, <1>6, <1>7, StartTeardownLeads DEF FinalCheck
  <1>11. StartTeardown(k).pc # "markRun" /\ StartTeardown(k).accumulatedVars = l.accumulatedVars
    BY <1>7, <1>10 DEF LeadsOn, Places
  <1>12. QED BY <1>1, <1>2, <1>4, <1>9, <1>10, <1>11, MemoryMoves

LEMMA TeardownCheckStep ==
    ASSUME RunInv, OneAtATime, NEW w \in Workers, TeardownCheck(w)
    PROVE  UNCHANGED contractVars /\ Alone'
  <1>1. /\ local[w].pc = "teardownCheck" /\ local[w].pc \in Working /\ local[w].pc \in Visiting
        /\ UNCHANGED <<rowVars, job>>
    BY DEF TeardownCheck, Working, PCs, Visiting, OnlyLocal
  <1>2. PICK l : l = local[w]
    OBVIOUS
  <1>3. Knows(w, l, step)
    BY <1>1, <1>2, WorkerKnows DEF Working
  <1>4. /\ l \in LocalStates /\ definition \in Definitions /\ cancelRequested \in BOOLEAN /\ Live
        /\ l.todo # <<>> /\ SkipsHaveCauses(definition, step) /\ (l.canceled => cancelRequested)
    BY <1>1, <1>2, <1>3 DEF Knows, RowsInv
  <1>5. /\ FlagsInv(definition, l, step, cancelRequested) /\ TodoInv(definition, l)
        /\ TeardownLoop(definition, l, step, Elements(Tail(l.todo)))
    <2>1. l.pc \in PCs \ {"idle", "loadRun", "markRun", "done", "finalizeError"} /\ l.pc = "teardownCheck"
      BY <1>1, <1>2 DEF PCs
    <2>2. QED BY <1>3, <2>1 DEF Knows, MemoryInv
  <1>6. PICK k : k = [l EXCEPT !.canceled = cancelRequested]
    OBVIOUS
  <1>7. /\ k \in LocalStates /\ k.canceled = cancelRequested
        /\ k.setupFailed = l.setupFailed /\ k.testFailed = l.testFailed /\ k.teardownFailed = l.teardownFailed
        /\ k.failedNodes = l.failedNodes /\ k.blockedTests = l.blockedTests
        /\ k.accumulatedVars = l.accumulatedVars /\ k.todo = l.todo /\ k.phase = l.phase
    BY <1>4, <1>6 DEF LocalStates
  <1>8. FlagsInv(definition, k, step, cancelRequested)
    BY <1>5, <1>7 DEF FlagsInv
  <1>9. TodoInv(definition, k)
    BY <1>5, <1>7 DEF TodoInv
  <1>10. LoopInv(definition, k, step, Elements(Tail(k.todo)))
    <2>1. BodyDone(definition, k, step)
      BY <1>4, <1>5, <1>7 DEF TeardownLoop, BodyDone
    <2>2. TeardownVisited(definition, k, step, Elements(Tail(k.todo)))
      BY <1>5, <1>7 DEF TeardownLoop, TeardownVisited
    <2>3. QED BY <1>5, <1>7, <2>1, <2>2 DEF LoopInv, TeardownLoop
  <1>11. MemoryInv(definition, NextNode(k), step, cancelRequested)
    BY <1>4, <1>7, <1>8, <1>9, <1>10, NextNodeInv
  <1>12. LeadsOn(k, NextNode(k)) /\ GoTo(w, NextNode(k))
    BY <1>2, <1>4, <1>6, <1>7, NextNodeLeads DEF TeardownCheck
  <1>13. NextNode(k).pc # "markRun" /\ NextNode(k).accumulatedVars = l.accumulatedVars
    BY <1>7, <1>12 DEF LeadsOn, Places
  <1>14. QED BY <1>1, <1>2, <1>4, <1>11, <1>12, <1>13, MemoryMoves

\* The end of the handler: the memory holds nothing that the rows depend on.
LEMMA HandlerEnds ==
    ASSUME RunInv, OneAtATime, NEW w \in Workers, local[w].pc # "idle", NEW next, GoTo(w, next),
           UNCHANGED <<definition, job, cancelRequested, step>>,
           next.pc \in {"idle", "done", "finalizeError"}, next.pc = "finalizeError" => Live',
           next.pc # "idle" => next.accumulatedVars = local[w].accumulatedVars
    PROVE  Alone'
  <1>1. Knows(w, local[w], step)
    BY WorkerKnows
  <1>2. RowsInv(definition, step', cancelRequested) /\ MemoryInv(definition, next, step', cancelRequested)
    BY <1>1, IdleMemory DEF Knows
  <1>3. next.pc # "markRun" /\ (next.pc \in Working => Live')
    BY DEF Working
  <1>4. next.pc # "idle" /\ job.stalled = 0 =>
               \A n \in Nodes : step'[n] = "succeeded" => n \in next.accumulatedVars
    BY <1>1 DEF Knows
  <1>5. QED BY <1>2, <1>3, <1>4, WorkerMoves

LEMMA FinalizeRunStep ==
    ASSUME RunInv, OneAtATime, NEW w \in Workers, FinalizeRun(w)
    PROVE  Conclude /\ Alone'
  <1>1. /\ local[w].pc = "finalize" /\ local[w].pc \in Working
        /\ UNCHANGED <<definition, job, cancelRequested, step>>
        /\ GoTo(w, [local[w] EXCEPT !.pc = "done"])
    BY DEF FinalizeRun, Working, PCs
  <1>2. PICK l : l = local[w]
    OBVIOUS
  <1>3. Knows(w, l, step)
    BY <1>1, <1>2, WorkerKnows DEF Working
  <1>4. l \in LocalStates /\ definition \in Definitions /\ Live
    BY <1>1, <1>2, <1>3 DEF Knows
  <1>5. FlagsInv(definition, l, step, cancelRequested) /\ TeardownLoop(definition, l, step, {})
    <2>1. l.pc \in PCs \ {"idle", "loadRun", "markRun", "done", "finalizeError"} /\ l.pc = "finalize"
      BY <1>1, <1>2 DEF PCs
    <2>2. QED BY <1>3, <2>1 DEF Knows, MemoryInv
  <1>6. /\ BodyDone(definition, l, step)
        /\ \A n \in In(definition, "teardown") :
              step[n] \in {"succeeded", "failed"} /\ (step[n] = "failed" => l.teardownFailed)
    BY <1>5 DEF TeardownLoop, TeardownVisited
  <1>7. \A n \in Nodes : n \in BodyOf(definition) \/ n \in In(definition, "teardown")
    BY <1>4, DefinitionType DEF BodyOf, In, Phases
  <1>8. \A n \in Nodes : step[n] # "queued"
    BY <1>6, <1>7 DEF BodyDone
  <1>9. Outcome(FinalOutcome(l)[1], FinalOutcome(l)[2])
        /\ FinalOutcome(l)[1] \in TerminalRunStatuses /\ FinalOutcome(l)[2] \in ErrorCodes
    <2>1. CASE l.canceled
      <3>1. FinalOutcome(l) = <<"canceled", "none">>
        BY <2>1 DEF FinalOutcome
      <3>2. cancelRequested
        BY <1>5, <2>1 DEF FlagsInv
      <3>3. QED BY <3>1, <3>2 DEF Outcome, TerminalRunStatuses, ErrorCodes
    <2>2. CASE ~l.canceled /\ (l.setupFailed \/ l.testFailed)
      <3>1. FinalOutcome(l) = <<"failed", "RUN_FAILED">>
        BY <2>2 DEF FinalOutcome
      <3>2. SomeFailed(Body)
        BY <1>5, <2>2, ContractNames DEF FlagsInv, Failed, SomeFailed, BodyOf
      <3>3. QED BY <3>1, <3>2 DEF Outcome, TerminalRunStatuses, ErrorCodes
    <2>3. CASE ~l.canceled /\ ~l.setupFailed /\ ~l.testFailed /\ l.teardownFailed
      <3>1. FinalOutcome(l) = <<"failed", "TEARDOWN_FAILED">>
        BY <2>3 DEF FinalOutcome
      <3>2. AllSucceeded(Body)
        BY <1>6, <2>3, ContractNames DEF BodyDone, Succeeded, AllSucceeded
      <3>3. SomeFailed(NodesIn("teardown"))
        BY <1>5, <2>3, ContractNames DEF FlagsInv, Failed, SomeFailed
      <3>4. QED BY <3>1, <3>2, <3>3 DEF Outcome, TerminalRunStatuses, ErrorCodes
    <2>4. CASE ~l.canceled /\ ~l.setupFailed /\ ~l.testFailed /\ ~l.teardownFailed
      <3>1. FinalOutcome(l) = <<"succeeded", "none">>
        BY <2>4 DEF FinalOutcome
      <3>2. AllSucceeded(Nodes)
        BY <1>6, <1>7, <2>4 DEF BodyDone, Succeeded, AllSucceeded
      <3>3. QED BY <3>1, <3>2 DEF Outcome, TerminalRunStatuses, ErrorCodes
    <2>5. l.canceled \in BOOLEAN /\ l.setupFailed \in BOOLEAN /\ l.testFailed \in BOOLEAN /\ l.teardownFailed \in BOOLEAN
      BY <1>4 DEF LocalStates
    <2>6. QED BY <2>1, <2>2, <2>3, <2>4, <2>5
  <1>10. runStatus' = FinalOutcome(l)[1] /\ errorCode' = FinalOutcome(l)[2]
    BY <1>2 DEF FinalizeRun
  <1>11. Conclude
    BY <1>1, <1>4, <1>8, <1>9, <1>10 DEF Conclude
  <1>12. PICK k : k = [l EXCEPT !.pc = "done"]
    OBVIOUS
  <1>13. k.pc = "done" /\ k.accumulatedVars = l.accumulatedVars
    BY <1>4, <1>12 DEF LocalStates
  <1>14. GoTo(w, k) /\ local[w].pc # "idle"
    BY <1>1, <1>2, <1>12
  <1>15. Alone'
    BY <1>1, <1>2, <1>13, <1>14, HandlerEnds
  <1>16. QED BY <1>11, <1>15

LEMMA StoreFailsStep ==
    ASSUME RunInv, OneAtATime, NEW w \in Workers, StoreFails(w) \/ JobFails(w) \/ Crash(w)
    PROVE  UNCHANGED contractVars /\ Alone'
  <1>1. local[w].pc # "idle" /\ UNCHANGED <<rowVars, job>>
    BY DEF StoreFails, JobFails, Crash, OnlyLocal
  <1>2. UNCHANGED <<definition, job, cancelRequested, step, runStatus, errorCode>>
    BY <1>1 DEF rowVars
  <1>3. UNCHANGED contractVars
    BY <1>2 DEF contractVars
  <1>4. Knows(w, local[w], step)
    BY <1>1, WorkerKnows
  <1>5. \A pc \in {"done", "finalizeError"} :
            /\ [local[w] EXCEPT !.pc = pc].pc = pc
            /\ [local[w] EXCEPT !.pc = pc].accumulatedVars = local[w].accumulatedVars
    BY <1>4 DEF Knows, LocalStates
  <1>6. CASE StoreFails(w)
    <2>1. PICK k : k = [local[w] EXCEPT !.pc = "finalizeError"]
      OBVIOUS
    <2>2. GoTo(w, k) /\ local[w].pc \in Working
      BY <1>6, <2>1 DEF StoreFails, Working
    <2>3. Live'
      BY <1>2, <1>4, <2>2 DEF Knows, Live, Interrupted
    <2>4. QED BY <1>1, <1>2, <1>3, <1>5, <2>1, <2>2, <2>3, HandlerEnds
  <1>7. CASE JobFails(w)
    <2>1. PICK k : k = [local[w] EXCEPT !.pc = "done"]
      OBVIOUS
    <2>2. GoTo(w, k)
      BY <1>7, <2>1 DEF JobFails
    <2>3. QED BY <1>1, <1>2, <1>3, <1>5, <2>1, <2>2, HandlerEnds
  <1>8. CASE Crash(w)
    <2>1. GoTo(w, Fresh) /\ Fresh.pc = "idle"
      BY <1>8 DEF Crash, Fresh
    <2>2. QED BY <1>1, <1>2, <1>3, <2>1, HandlerEnds
  <1>9. QED BY <1>6, <1>7, <1>8

LEMMA FinalizeErrorStep ==
    ASSUME RunInv, OneAtATime, NEW w \in Workers, FinalizeError(w)
    PROVE  Abort /\ Alone'
  <1>1. /\ local[w].pc = "finalizeError" /\ local[w].pc # "idle" /\ local[w].pc \in Working
        /\ UNCHANGED <<definition, job, cancelRequested, step>>
        /\ runStatus' = "failed" /\ errorCode' = "INTERNAL_ERROR"
        /\ GoTo(w, [local[w] EXCEPT !.pc = "done"])
    BY DEF FinalizeError, Working, PCs
  <1>2. Knows(w, local[w], step)
    BY <1>1, WorkerKnows
  <1>3. Abort
    BY <1>1, <1>2 DEF Knows, Abort
  <1>4. PICK k : k = [local[w] EXCEPT !.pc = "done"]
    OBVIOUS
  <1>5. k.pc = "done" /\ k.accumulatedVars = local[w].accumulatedVars
    BY <1>2, <1>4 DEF Knows, LocalStates
  <1>6. QED BY <1>1, <1>3, <1>4, <1>5, HandlerEnds

LEMMA ReleaseJobStep ==
    ASSUME RunInv, OneAtATime, NEW w \in Workers, ReleaseJob(w)
    PROVE  UNCHANGED contractVars /\ Alone'
  <1>1. local[w].pc = "done" /\ GoTo(w, Fresh) /\ Fresh.pc = "idle" /\ UNCHANGED rowVars
    BY DEF ReleaseJob, Fresh
  <1>2. UNCHANGED <<definition, cancelRequested, step, runStatus, errorCode>>
    BY <1>1 DEF rowVars
  <1>3. /\ TypeOK /\ OneProcesses /\ RowsInv(definition, step, cancelRequested)
    BY DEF RunInv, CancelInvariant, Alone
  <1>4. \A v \in Workers : local'[v].pc = "idle"
    BY <1>1, <1>3 DEF TypeOK, OneProcesses, GoTo
  <1>5. job'.state \in {"active", "gone"}
    <2>1. job.state \in {"active", "gone"}
      BY <1>1, <1>3 DEF OneProcesses
    <2>2. CASE job' = [job EXCEPT !.state = "gone", !.owner = NoWorker]
      BY <1>3, <2>2 DEF TypeOK
    <2>3. CASE job' = job
      BY <2>1, <2>3
    <2>4. QED BY <2>2, <2>3 DEF ReleaseJob
  <1>6. OneProcesses' /\ RunIsLive' /\ FirstDelivery'
    BY <1>4, <1>5 DEF OneProcesses, RunIsLive, FirstDelivery
  <1>7. RowsInv(definition, step, cancelRequested)'
    BY <1>2, <1>3
  <1>8. \A v \in Workers : MemoryInv(definition', local'[v], step', cancelRequested')
    BY <1>4, IdleMemory
  <1>9. QED BY <1>2, <1>6, <1>7, <1>8 DEF Alone, contractVars

LEMMA TakeJobStep ==
    ASSUME RunInv, OneAtATime, NEW w \in Workers, TakeJob(w)
    PROVE  UNCHANGED contractVars /\ Alone'
  <1>1. PICK k : k = [Fresh EXCEPT !.pc = "loadRun"]
    OBVIOUS
  <1>2. /\ local[w].pc = "idle" /\ job.state = "waiting" /\ GoTo(w, k) /\ UNCHANGED rowVars
        /\ job' = [job EXCEPT !.state = "active", !.owner = w]
    BY <1>1 DEF TakeJob
  <1>3. UNCHANGED <<definition, cancelRequested, step, runStatus, errorCode>>
    BY <1>2 DEF rowVars
  <1>4. k.pc = "loadRun" /\ Untouched(k)
    BY <1>1 DEF Fresh, Untouched
  <1>5. TypeOK /\ Alone
    BY DEF RunInv, CancelInvariant
  <1>6. /\ local'[w] = k
        /\ \A v \in Workers : v # w => local'[v] = local[v] /\ local[v].pc = "idle"
    BY <1>2, <1>5 DEF TypeOK, GoTo, Alone, OneProcesses
  <1>7. job'.state = "active" /\ job'.owner = w /\ job'.stalled = job.stalled
    BY <1>2, <1>5 DEF TypeOK
  <1>8. OneProcesses'
    BY <1>6, <1>7 DEF OneProcesses
  <1>9. RunIsLive'
    BY <1>4, <1>6 DEF RunIsLive
  <1>10. FirstDelivery'
    BY <1>2, <1>3, <1>5, <1>7 DEF FirstDelivery, Alone
  <1>11. RowsInv(definition, step, cancelRequested)'
    BY <1>3, <1>5 DEF Alone
  <1>12. MemoryInv(definition', k, step', cancelRequested')
    BY <1>4 DEF MemoryInv, LoopPCs
  <1>13. \A v \in Workers : MemoryInv(definition', local'[v], step', cancelRequested')
    BY <1>6, <1>12, IdleMemory
  <1>14. QED BY <1>3, <1>8, <1>9, <1>10, <1>11, <1>13 DEF Alone, contractVars
------------------------------------------------------------------------------
(***************************************************************************)
(* The API process, the queue, the clock and the reaper.                   *)
(***************************************************************************)

\* A later cancel request contradicts nothing a memory or a row says.
LEMMA CancelArrives ==
    ASSUME NEW d, NEW l, NEW st, NEW cr, NEW cr2, cr => cr2
    PROVE  /\ RowsInv(d, st, cr) => RowsInv(d, st, cr2)
           /\ MemoryInv(d, l, st, cr) => MemoryInv(d, l, st, cr2)
  <1>1. FlagsInv(d, l, st, cr) => FlagsInv(d, l, st, cr2)
    BY DEF FlagsInv
  <1>2. CanceledOnRequest(st, cr) => CanceledOnRequest(st, cr2)
    BY DEF CanceledOnRequest
  <1>3. QED BY <1>1, <1>2 DEF RowsInv, MemoryInv

LEMMA CreateRunStep ==
    ASSUME RunInv, CreateRun
    PROVE  Create /\ Alone'
  <1>1. /\ TypeOK /\ runStatus = "absent" /\ \A w \in Workers : local[w].pc = "idle"
    BY DEF RunInv, CancelInvariant, Created, CreateRun
  <1>2. \A n \in Nodes : step'[n] = "queued"
    BY DEF CreateRun
  <1>3. Create
    BY <1>1 DEF CreateRun, Create
  <1>4. OneProcesses' /\ RunIsLive' /\ FirstDelivery'
    BY <1>1, <1>2 DEF CreateRun, OneProcesses, RunIsLive, FirstDelivery
  <1>5. SkipsHaveCauses(definition', step') /\ RanInOrder(definition', step')
        /\ CanceledOnRequest(step', cancelRequested')
    BY <1>2 DEF SkipsHaveCauses, RanInOrder, CanceledOnRequest, Ran, In
  <1>6. \A w \in Workers : MemoryInv(definition', local'[w], step', cancelRequested')
    BY <1>1, IdleMemory DEF CreateRun
  <1>7. QED BY <1>3, <1>4, <1>5, <1>6 DEF Alone, RowsInv

LEMMA JobStallsStep ==
    ASSUME RunInv, OneAtATime, OneAtATime', JobStalls
    PROVE  UNCHANGED contractVars /\ Alone'
  <1>1. /\ TypeOK /\ OneProcesses /\ RunIsLive /\ FirstDelivery
        /\ RowsInv(definition, step, cancelRequested)
        /\ \A w \in Workers : MemoryInv(definition, local[w], step, cancelRequested)
    BY DEF RunInv, CancelInvariant, Alone
  <1>2. /\ UNCHANGED <<definition, runStatus, errorCode, cancelRequested, step, local>>
        /\ job.state = "active"
    BY DEF JobStalls, rowVars
  <1>3. RunIsLive'
    BY <1>1, <1>2 DEF RunIsLive, Live, Interrupted
  <1>4. RowsInv(definition', step', cancelRequested')
        /\ \A w \in Workers : MemoryInv(definition', local'[w], step', cancelRequested')
    BY <1>1, <1>2
  <1>5. OneProcesses' /\ FirstDelivery'
    <2>1. job.stalled \in Nat
      BY <1>1 DEF TypeOK
    <2>2. CASE job.stalled < MaxStalledCount
      <3>1. job' = [state |-> "waiting", owner |-> NoWorker, stalled |-> job.stalled + 1]
        BY <2>2 DEF JobStalls
      <3>2. job'.stalled # 0
        BY <2>1, <3>1
      <3>3. ~LockMayLapse
        BY <3>2 DEF OneAtATime
      <3>4. \A w \in Workers : local[w].pc = "idle"
        BY <1>1, <1>2, <3>3 DEF JobStalls, OneProcesses
      <3>5. QED BY <1>2, <3>2, <3>4 DEF OneProcesses, FirstDelivery
    <2>3. CASE ~(job.stalled < MaxStalledCount)
      <3>1. job' = [job EXCEPT !.state = "gone", !.owner = NoWorker]
        BY <2>3 DEF JobStalls
      <3>2. job'.state = "gone" /\ job'.stalled = job.stalled
        BY <1>1, <3>1 DEF TypeOK
      <3>3. OneProcesses'
        BY <1>1, <1>2, <3>2 DEF OneProcesses
      <3>4. FirstDelivery'
        BY <1>1, <1>2, <3>2 DEF FirstDelivery
      <3>5. QED BY <3>3, <3>4
    <2>4. QED BY <2>2, <2>3
  <1>6. QED BY <1>2, <1>3, <1>4, <1>5 DEF Alone, contractVars

\* The other steps from outside leave the memories, the steps and the delivery alone.
LEMMA OutsideMoves ==
    ASSUME RunInv, OneAtATime, UNCHANGED <<definition, step, local>>,
           cancelRequested => cancelRequested',
           job' = job \/ (job'.state = "waiting" /\ job'.stalled = job.stalled /\ job.state = "none"
                          /\ \A w \in Workers : local[w].pc = "idle"),
           runStatus = "queued" => runStatus' = "queued", Live => Live'
    PROVE  Alone'
  <1>1. /\ OneProcesses /\ RunIsLive /\ FirstDelivery
        /\ RowsInv(definition, step, cancelRequested)
        /\ \A w \in Workers : MemoryInv(definition, local[w], step, cancelRequested)
    BY DEF RunInv, Alone
  <1>2. OneProcesses' /\ FirstDelivery'
    BY <1>1 DEF OneProcesses, FirstDelivery
  <1>3. RunIsLive'
    BY <1>1 DEF RunIsLive
  <1>4. RowsInv(definition', step', cancelRequested')
        /\ \A w \in Workers : MemoryInv(definition', local'[w], step', cancelRequested')
    BY <1>1, CancelArrives
  <1>5. QED BY <1>2, <1>3, <1>4 DEF Alone

LEMMA EnqueueStep ==
    ASSUME RunInv, OneAtATime, Enqueue \/ EnqueueLost
    PROVE  UNCHANGED contractVars /\ Alone'
  <1>1. /\ creator = "persisted"
        /\ UNCHANGED <<definition, runStatus, errorCode, cancelRequested, step, local>>
    BY DEF Enqueue, EnqueueLost, rowVars
  <1>2. TypeOK /\ job.state = "none" /\ \A w \in Workers : local[w].pc = "idle"
    BY <1>1 DEF RunInv, CancelInvariant, Created
  <1>3. job' = job \/ (job'.state = "waiting" /\ job'.stalled = job.stalled /\ job.state = "none"
                       /\ \A w \in Workers : local[w].pc = "idle")
    BY <1>2 DEF Enqueue, EnqueueLost, TypeOK
  <1>4. Live => Live'
    BY <1>1 DEF Live, Interrupted
  <1>5. QED BY <1>1, <1>3, <1>4, OutsideMoves DEF contractVars

LEMMA CancelAndClockStep ==
    ASSUME RunInv, OneAtATime, CancelCheck \/ CancelWrite \/ TimePasses \/ ReaperSweep
    PROVE  [ContractNext]_contractVars /\ Alone'
  <1>1. UNCHANGED <<definition, step, local, job>>
    BY DEF CancelCheck, CancelWrite, TimePasses, ReaperSweep, rowVars
  <1>2. /\ cancelRequested => cancelRequested'
        /\ runStatus = "queued" => runStatus' = "queued"
        /\ Live => Live'
    BY DEF CancelCheck, CancelWrite, TimePasses, ReaperSweep, rowVars, Live, Interrupted
  <1>3. Alone'
    BY <1>1, <1>2, OutsideMoves
  <1>4. CASE CancelCheck \/ TimePasses
    BY <1>3, <1>4 DEF CancelCheck, TimePasses, rowVars, contractVars
  <1>5. CASE CancelWrite
    <2>1. runStatus # "absent"
      BY <1>5 DEF CancelWrite, RunInv, Created
    <2>2. RequestCancel
      BY <1>5, <2>1 DEF CancelWrite, RequestCancel
    <2>3. QED BY <1>3, <2>2 DEF ContractNext
  <1>6. CASE ReaperSweep
    <2>1. Interrupt
      BY <1>6 DEF ReaperSweep, Interrupt
    <2>2. QED BY <1>3, <2>1 DEF ContractNext
  <1>7. QED BY <1>4, <1>5, <1>6
------------------------------------------------------------------------------
(***************************************************************************)
(* Created is kept by every step.                                          *)
(***************************************************************************)

\* What a worker's step leaves alone.
LEMMA WorkerFrame ==
    ASSUME TypeOK, NEW w \in Workers, TakeJob(w) \/ Progress(w) \/ Faults(w)
    PROVE  /\ UNCHANGED <<creator, canceller>>
           /\ local[w].pc # "idle" \/ job.state = "waiting"
           /\ \A v \in Workers : v # w => local'[v] = local[v]
           /\ runStatus' = runStatus \/ runStatus' # "absent"
           /\ \A n \in Nodes : step'[n] = step[n] \/ step'[n] # "absent"
  <1>1. /\ step \in [Nodes -> StepStatuses] /\ local \in [Workers -> LocalStates]
        /\ local[w].result # "absent" /\ local[w].sweepTo # "absent"
    BY DEF TypeOK, ContractTypeOK, LocalStates
  <1>2. \A next : GoTo(w, next) => \A v \in Workers : v # w => local'[v] = local[v]
    BY <1>1 DEF GoTo
  <1>3. \A s : s # "absent" /\ WriteStep(w, s) => \A n \in Nodes : step'[n] = step[n] \/ step'[n] # "absent"
    BY <1>1 DEF WriteStep
  <1>4. CASE TakeJob(w)
    BY <1>2, <1>4 DEF TakeJob, rowVars
  <1>5. CASE LoadRun(w) \/ CheckCancel(w) \/ LoadStep(w)
    BY <1>2, <1>5 DEF LoadRun, CheckCancel, LoadStep, OnlyLocal, rowVars
  <1>6. CASE MarkRunRunning(w) \/ FinalizeError(w)
    BY <1>2, <1>6 DEF MarkRunRunning, FinalizeError
  <1>7. CASE SkipBlocked(w) \/ SkipDependent(w) \/ MarkStepRunning(w)
    BY <1>2, <1>3, <1>7 DEF SkipBlocked, SkipDependent, MarkStepRunning, StepWritten, runRow
  <1>8. CASE ExecuteStep(w)
    BY <1>2, <1>8 DEF ExecuteStep, rowVars
  <1>9. CASE PersistStep(w) \/ MarkQueuedNode(w)
    BY <1>1, <1>2, <1>3, <1>9 DEF PersistStep, MarkQueuedNode, StepWritten, runRow
  <1>10. CASE FinalCheck(w) \/ TeardownCheck(w) \/ StoreFails(w) \/ JobFails(w) \/ Crash(w)
    BY <1>2, <1>10 DEF FinalCheck, TeardownCheck, StoreFails, JobFails, Crash, OnlyLocal, rowVars
  <1>11. CASE FinalizeRun(w)
    <2>1. FinalOutcome(local[w])[1] # "absent"
      BY DEF FinalOutcome
    <2>2. QED BY <1>2, <1>11, <2>1 DEF FinalizeRun
  <1>12. CASE ReleaseJob(w)
    BY <1>2, <1>12 DEF ReleaseJob, rowVars
  <1>13. QED
    BY <1>4, <1>5, <1>6, <1>7, <1>8, <1>9, <1>10, <1>11, <1>12 DEF Progress, Faults

LEMMA CreatedStep ==
    ASSUME TypeOK, TypeOK', Created, Next
    PROVE  Created'
  <1>1. CASE CreateRun
    <2>1. creator' = "persisted" /\ runStatus' = "queued" /\ \A n \in Nodes : step'[n] = "queued"
      BY <1>1 DEF CreateRun
    <2>2. job'.state = "none" /\ canceller' = canceller /\ local' = local
      BY <1>1 DEF CreateRun, Created
    <2>3. \A w \in Workers : local[w].pc = "idle"
      BY <1>1 DEF CreateRun, Created
    <2>4. QED BY <2>1, <2>2, <2>3 DEF Created
  <1>2. CASE Enqueue \/ EnqueueLost
    BY <1>2 DEF Enqueue, EnqueueLost, rowVars, Created
  <1>3. CASE CancelCheck \/ CancelWrite
    BY <1>3 DEF CancelCheck, CancelWrite, rowVars, Created
  <1>4. CASE JobStalls
    BY <1>4 DEF JobStalls, rowVars, Created
  <1>5. CASE TimePasses \/ ReaperSweep
    BY <1>5 DEF TimePasses, ReaperSweep, Created
  <1>6. ASSUME NEW w \in Workers, TakeJob(w) \/ Progress(w) \/ Faults(w)
        PROVE  Created'
    <2>1. /\ UNCHANGED <<creator, canceller>>
          /\ local[w].pc # "idle" \/ job.state = "waiting"
          /\ \A v \in Workers : v # w => local'[v] = local[v]
          /\ runStatus' = runStatus \/ runStatus' # "absent"
          /\ \A n \in Nodes : step'[n] = step[n] \/ step'[n] # "absent"
      BY <1>6, WorkerFrame
    <2>2. creator = "answered" /\ runStatus # "absent" /\ \A n \in Nodes : step[n] # "absent"
      BY <2>1 DEF Created
    <2>3. QED BY <2>1, <2>2 DEF Created
  <1>7. QED
    BY <1>1, <1>2, <1>3, <1>4, <1>5, <1>6 DEF Next
------------------------------------------------------------------------------
LEMMA RunInvInit == Init => RunInv
  <1> SUFFICES ASSUME Init PROVE RunInv
    OBVIOUS
  <1>1. /\ \A w \in Workers : local[w].pc = "idle"
        /\ \A n \in Nodes : step[n] = "absent"
        /\ job.state = "none" /\ runStatus = "absent" /\ creator = "idle" /\ canceller = "idle"
    BY DEF Init, ContractInit, Fresh
  <1>2. Created
    BY <1>1 DEF Created
  <1>3. OneProcesses /\ RunIsLive /\ FirstDelivery
    BY <1>1 DEF OneProcesses, RunIsLive, FirstDelivery
  <1>4. RowsInv(definition, step, cancelRequested)
    BY <1>1 DEF RowsInv, SkipsHaveCauses, RanInOrder, CanceledOnRequest, Ran, In
  <1>5. \A w \in Workers : MemoryInv(definition, local[w], step, cancelRequested)
    BY <1>1, IdleMemory
  <1>6. QED BY <1>2, <1>3, <1>4, <1>5, CancelInvariantInit DEF RunInv, Alone

\* The deliveries of a job are only ever counted up.
LEMMA StalledGrows ==
    ASSUME TypeOK, [Next]_vars, OneAtATime'
    PROVE  OneAtATime
  <1>1. job.stalled \in Nat
    BY DEF TypeOK
  <1>2. CASE JobStalls
    <2>1. job'.stalled = job.stalled \/ job'.stalled = job.stalled + 1
      BY <1>2 DEF JobStalls, TypeOK
    <2>2. QED BY <1>1, <2>1 DEF OneAtATime
  <1>3. CASE \E w \in Workers : TakeJob(w) \/ ReleaseJob(w)
    <2>1. job'.stalled = job.stalled
      BY <1>3 DEF TakeJob, ReleaseJob, TypeOK
    <2>2. QED BY <2>1 DEF OneAtATime
  <1>4. CASE Enqueue
    <2>1. job'.stalled = job.stalled
      BY <1>4 DEF Enqueue, TypeOK
    <2>2. QED BY <2>1 DEF OneAtATime
  <1>5. CASE job' = job
    BY <1>5 DEF OneAtATime
  <1>6. ASSUME NEW w \in Workers, Progress(w) \/ Faults(w) PROVE job' = job \/ ReleaseJob(w)
    BY <1>6 DEF Progress, Faults, LoadRun, MarkRunRunning, CheckCancel, SkipBlocked, LoadStep, SkipDependent,
                MarkStepRunning, ExecuteStep, PersistStep, MarkQueuedNode, FinalCheck, TeardownCheck,
                FinalizeRun, FinalizeError, StoreFails, JobFails, Crash, OnlyLocal, StepWritten
  <1>7. CreateRun \/ EnqueueLost \/ CancelCheck \/ CancelWrite \/ TimePasses \/ ReaperSweep \/ UNCHANGED vars
            => job' = job
    BY DEF CreateRun, EnqueueLost, CancelCheck, CancelWrite, TimePasses, ReaperSweep, vars
  <1>8. QED
    BY <1>2, <1>3, <1>4, <1>5, <1>6, <1>7 DEF Next

\* While the job has one worker every step is one of the contract, or none.
LEMMA StepFollowsContract ==
    ASSUME RunInv, [Next]_vars, OneAtATime'
    PROVE  [ContractNext]_contractVars /\ Alone'
  <1>1. TypeOK
    BY DEF RunInv, CancelInvariant
  <1>2. OneAtATime
    BY <1>1, StalledGrows
  <1>3. CASE CreateRun
    BY <1>3, CreateRunStep DEF ContractNext
  <1>4. CASE Enqueue \/ EnqueueLost
    BY <1>2, <1>4, EnqueueStep
  <1>5. CASE CancelCheck \/ CancelWrite \/ TimePasses \/ ReaperSweep
    BY <1>2, <1>5, CancelAndClockStep
  <1>6. CASE JobStalls
    BY <1>2, <1>6, JobStallsStep
  <1>7. ASSUME NEW w \in Workers, TakeJob(w) \/ Progress(w) \/ Faults(w)
        PROVE  [ContractNext]_contractVars /\ Alone'
    <2>1. CASE TakeJob(w) \/ LoadRun(w) \/ CheckCancel(w) \/ LoadStep(w) \/ ExecuteStep(w)
      BY <1>2, <2>1, TakeJobStep, LoadRunStep, CheckCancelStep, LoadStepStep, ExecuteStepStep
    <2>2. CASE FinalCheck(w) \/ TeardownCheck(w) \/ ReleaseJob(w)
      BY <1>2, <2>2, FinalCheckStep, TeardownCheckStep, ReleaseJobStep
    <2>3. CASE StoreFails(w) \/ JobFails(w) \/ Crash(w)
      BY <1>2, <2>3, StoreFailsStep
    <2>4. CASE SkipBlocked(w) \/ SkipDependent(w) \/ MarkStepRunning(w) \/ PersistStep(w) \/ MarkQueuedNode(w)
      BY <1>2, <2>4, SkipBlockedStep, SkipDependentStep, MarkStepRunningStep, PersistStepStep, MarkQueuedNodeStep
    <2>5. CASE MarkRunRunning(w) \/ FinalizeRun(w) \/ FinalizeError(w)
      <3>1. (Start \/ Conclude \/ Abort) /\ Alone'
        BY <1>2, <2>5, MarkRunRunningStep, FinalizeRunStep, FinalizeErrorStep
      <3>2. QED BY <3>1 DEF ContractNext
    <2>6. QED BY <1>7, <2>1, <2>2, <2>3, <2>4, <2>5 DEF Progress, Faults
  <1>8. CASE UNCHANGED vars
    <2>1. Alone
      BY <1>2 DEF RunInv
    <2>2. Alone'
      BY <1>8, <2>1 DEF vars, Alone, OneProcesses, RunIsLive, FirstDelivery, Live, Interrupted
    <2>3. QED BY <1>8, <2>2 DEF vars, contractVars
  <1>9. QED BY <1>3, <1>4, <1>5, <1>6, <1>7, <1>8 DEF Next

LEMMA RunInvStep == RunInv /\ [Next]_vars => RunInv'
  <1> SUFFICES ASSUME RunInv, [Next]_vars PROVE RunInv'
    OBVIOUS
  <1>1. CancelInvariant'
    BY CancelInvariantStep DEF RunInv
  <1>2. Created'
    <2>1. TypeOK /\ TypeOK' /\ Created
      BY <1>1 DEF RunInv, CancelInvariant
    <2>2. CASE UNCHANGED vars
      BY <2>1, <2>2 DEF vars, Created
    <2>3. QED BY <2>1, <2>2, CreatedStep
  <1>3. OneAtATime' => Alone'
    BY StepFollowsContract
  <1>4. QED BY <1>1, <1>2, <1>3 DEF RunInv

LEMMA RunInvHolds == Spec => []RunInv
  BY RunInvInit, RunInvStep, PTL DEF Spec
------------------------------------------------------------------------------
(* When BullMQ never takes a job from a worker that is alive, the rows follow
   RunContract whatever the workflow, however often workers crash and the job is
   delivered again, and wherever a cancel or a store failure lands. *)
THEOREM ImplementsContractHolds ==
    ASSUME ~LockMayLapse
    PROVE  Spec => ImplementsContract
  <1>1. OneAtATime'
    BY DEF OneAtATime
  <1>2. RunInv /\ [Next]_vars => [ContractNext]_contractVars
    BY <1>1, StepFollowsContract
  <1>3. Init => ContractInit
    BY DEF Init
  <1>4. QED
    BY <1>2, <1>3, RunInvHolds, PTL DEF Spec, ImplementsContract, ContractSpec

(* Also when locks may lapse, nothing outside the contract happens to the rows
   before the job is handed out a second time. *)
THEOREM FirstDeliveryFollowsContract ==
    Spec => [][job'.stalled = 0 => [ContractNext]_contractVars]_vars
  <1>1. RunInv /\ [Next]_vars => [job'.stalled = 0 => [ContractNext]_contractVars]_vars
    <2> SUFFICES ASSUME RunInv, [Next]_vars, job'.stalled = 0 PROVE [ContractNext]_contractVars
      OBVIOUS
    <2>1. OneAtATime'
      BY DEF OneAtATime
    <2>2. QED BY <2>1, StepFollowsContract
  <1>2. QED
    BY <1>1, RunInvHolds, PTL DEF Spec

(* A test node that sends its request in the first delivery holds every export
   its template reads, whether or not locks may lapse. *)
THEOREM FirstDeliveryResolvesHolds == Spec => []FirstDeliveryResolves
  <1>1. RunInv => FirstDeliveryResolves
    <2> SUFFICES ASSUME RunInv, NEW w \in Workers, job.stalled = 0, local[w].pc = "execute",
                        local[w].phase = "test"
                 PROVE  definition.reads[Head(local[w].todo)] \subseteq local[w].accumulatedVars
      BY DEF FirstDeliveryResolves
    <2>1. PICK n : n = Head(local[w].todo)
      OBVIOUS
    <2>2. OneAtATime /\ local[w].pc \in LoopPCs
      BY DEF OneAtATime, LoopPCs
    <2>3. /\ Knows(w, local[w], step) /\ n \in Nodes /\ n \in In(definition, "test")
          /\ VisitInv(definition, local[w], step) /\ RanInOrder(definition, step)
      BY <2>1, <2>2, Visit
    <2>4. step[n] \in Ran
      BY <2>1, <2>3 DEF VisitInv, Ran
    <2>5. Succeeded(step, AncestorsOf[definition][n])
      BY <2>3, <2>4 DEF RanInOrder, Succeeded
    <2>6. definition.reads[n] \subseteq AncestorsOf[definition][n]
      BY <2>3, DefinitionsAssumption, DefinitionType DEF Knows, IsDefinition
    <2>7. AncestorsOf[definition][n] \subseteq Nodes
      BY <2>3, AncestorType DEF Knows
    <2>8. QED BY <2>1, <2>3, <2>5, <2>6, <2>7 DEF Knows, Succeeded
  <1>2. QED
    BY <1>1, RunInvHolds, PTL

(* What RunContract guarantees therefore holds of the program with its workers,
   its queue and its faults: each invariant of the contract, and the two
   promises about what is never overwritten. *)
THEOREM ContractPromisesHold ==
    ASSUME ~LockMayLapse
    PROVE  Spec => /\ [](TestsRunAfterAncestors /\ TeardownAfterBody /\ StatusTellsSteps /\ DroppedWithCause)
                   /\ SettledRunStays /\ TerminalStepsFinal
  BY ImplementsContractHolds, TestsRunAfterAncestorsHolds, TeardownAfterBodyHolds, StatusTellsStepsHolds,
     DroppedWithCauseHolds, SettledRunStaysHolds, TerminalStepsFinalHolds, PTL DEF ImplementsContract
------------------------------------------------------------------------------
(***************************************************************************)
(* RequestsPerDelivery holds for any number of workers at once: a node's   *)
(* requests sent so far, the workers that may still send one, and the      *)
(* delivery that nobody has taken together are at most the deliveries.     *)
(***************************************************************************)
Later(d, p) == {n \in Nodes : PhaseOrder(d.phase[n]) > PhaseOrder(p)}

\* The nodes a worker may still send a request for.
Ahead(d, l) ==
    CASE l.pc \in {"loadRun", "markRun"} -> Nodes
      [] l.pc \in LoopPCs \ {"persist"} -> Elements(l.todo) \union Later(d, l.phase)
      [] l.pc \in {"persist", "teardownCheck"} -> Elements(Tail(l.todo)) \union Later(d, l.phase)
      [] l.pc \in {"sweep", "finalCheck"} -> In(d, "teardown")
      [] l.pc \in {"idle", "finalize", "finalizeError", "done"} -> {}

\* The list of a loop: nodes of its phase, each once.
ListInv(d, l) ==
    /\ l.pc \in {"loadRun", "markRun"} => l.phase = "setup"
    /\ l.pc = "checkCancel" => l.phase # "teardown"
    /\ l.pc \in LoopPCs \union {"teardownCheck"} =>
          /\ \A i \in 1..Len(l.todo) : d.phase[l.todo[i]] = l.phase
          /\ \A i, j \in 1..Len(l.todo) : l.todo[i] = l.todo[j] => i = j

Pending(n) == {w \in Workers : n \in Ahead(definition, local[w])}
Untaken == IF job.state \in {"none", "waiting"} THEN 1 ELSE 0

SendInv ==
    /\ \A w \in Workers : ListInv(definition, local[w])
    /\ \A n \in Nodes :
          /\ IsFiniteSet(Pending(n))
          /\ sent[n] + Cardinality(Pending(n)) + Untaken <= job.stalled + 1

\* Where a piece of control flow leads, in terms of what may still be sent.
Sends(next, S) ==
    Ahead(definition, next) \subseteq S /\ ListInv(definition, next)

TestsOn(d) == In(d, "test") \union In(d, "teardown")

LEMMA LaterPhases ==
    ASSUME NEW d \in Definitions
    PROVE  /\ Later(d, "setup") = TestsOn(d) /\ Later(d, "test") = In(d, "teardown") /\ Later(d, "teardown") = {}
           /\ \A p : In(d, p) \subseteq Nodes
  <1>1. \A n \in Nodes : d.phase[n] \in {"setup", "test", "teardown"}
    BY DefinitionType DEF Phases
  <1>2. \A n \in Nodes : /\ PhaseOrder(d.phase[n]) > 0 <=> d.phase[n] \in {"test", "teardown"}
                         /\ PhaseOrder(d.phase[n]) > 1 <=> d.phase[n] = "teardown"
                         /\ ~(PhaseOrder(d.phase[n]) > 2)
    <2> SUFFICES ASSUME NEW n \in Nodes
                 PROVE  /\ PhaseOrder(d.phase[n]) > 0 <=> d.phase[n] \in {"test", "teardown"}
                        /\ PhaseOrder(d.phase[n]) > 1 <=> d.phase[n] = "teardown"
                        /\ ~(PhaseOrder(d.phase[n]) > 2)
      OBVIOUS
    <2>1. CASE d.phase[n] = "setup"
      BY <2>1, PhaseOrders
    <2>2. CASE d.phase[n] = "test"
      BY <2>2, PhaseOrders
    <2>3. CASE d.phase[n] = "teardown"
      BY <2>3, PhaseOrders
    <2>4. QED BY <1>1, <2>1, <2>2, <2>3
  <1>3. QED BY <1>2, PhaseOrders DEF Later, TestsOn, In

\* The list of a phase has each of its nodes once, and so has what remains of a list.
LEMMA PhaseListInv ==
    ASSUME definition \in Definitions, NEW p \in Phases
    PROVE  /\ \A i \in 1..Len(PhaseNodes(p)) : definition.phase[PhaseNodes(p)[i]] = p
           /\ \A i, j \in 1..Len(PhaseNodes(p)) : PhaseNodes(p)[i] = PhaseNodes(p)[j] => i = j
  <1>1. Elements(definition.byPhase[p]) = In(definition, p)
    BY PhaseList
  <1>2. \A i \in 1..Len(definition.byPhase[p]) : definition.phase[definition.byPhase[p][i]] = p
    BY <1>1 DEF Elements, In
  <1>3. \A i, j \in 1..Len(definition.byPhase[p]) : definition.byPhase[p][i] = definition.byPhase[p][j] => i = j
    BY PhaseList
  <1>4. QED BY <1>2, <1>3 DEF PhaseNodes

LEMMA HeadIsOnce ==
    ASSUME NEW q \in Seq(Nodes), q # <<>>, \A i, j \in 1..Len(q) : q[i] = q[j] => i = j
    PROVE  Head(q) \notin Elements(Tail(q))
  <1>1. Len(q) \in Nat /\ 1 \in 1..Len(q) /\ Head(q) = q[1]
    OBVIOUS
  <1>2. \A i \in 1..Len(Tail(q)) : Tail(q)[i] = q[i + 1] /\ i + 1 \in 1..Len(q) /\ i + 1 # 1
    BY <1>1
  <1>3. QED BY <1>1, <1>2 DEF Elements

LEMMA RestOfList ==
    ASSUME NEW d, NEW p, NEW q \in Seq(Nodes), q # <<>>,
           \A i \in 1..Len(q) : d.phase[q[i]] = p,
           \A i, j \in 1..Len(q) : q[i] = q[j] => i = j
    PROVE  /\ \A i \in 1..Len(Tail(q)) : d.phase[Tail(q)[i]] = p
           /\ \A i, j \in 1..Len(Tail(q)) : Tail(q)[i] = Tail(q)[j] => i = j
           /\ d.phase[Head(q)] = p
  <1>1. Len(q) \in Nat /\ 1 \in 1..Len(q) /\ Head(q) = q[1] /\ Len(Tail(q)) = Len(q) - 1
    OBVIOUS
  <1>2. \A i \in 1..Len(Tail(q)) : Tail(q)[i] = q[i + 1] /\ i + 1 \in 1..Len(q) /\ i + 1 # 1
    BY <1>1
  <1>3. PICK r : r = Tail(q)
    OBVIOUS
  <1>4. \A i \in 1..Len(r) : r[i] = q[i + 1] /\ i + 1 \in 1..Len(q) /\ i + 1 # 1
    BY <1>2, <1>3
  <1>5. \A i \in 1..Len(r) : d.phase[r[i]] = p
    BY <1>4
  <1>6. ASSUME NEW i \in 1..Len(r), NEW j \in 1..Len(r), r[i] = r[j] PROVE i = j
    <2>1. i + 1 = j + 1
      BY <1>4, <1>6
    <2>2. Len(r) \in Nat
      BY <1>1, <1>3
    <2>3. QED BY <2>1, <2>2
  <1>7. d.phase[Head(q)] = p
    BY <1>1
  <1>8. QED BY <1>3, <1>5, <1>6, <1>7

LEMMA StartTeardownSends ==
    ASSUME definition \in Definitions, NEW l \in LocalStates
    PROVE  Sends(StartTeardown(l), In(definition, "teardown"))
  <1>1. PICK k : k = StartTeardown(l)
    OBVIOUS
  <1>2. /\ k.phase = "teardown" /\ k.todo = PhaseNodes("teardown")
        /\ k.pc = IF PhaseNodes("teardown") = <<>> THEN "finalize" ELSE "loadStep"
    BY <1>1 DEF StartTeardown, LocalStates
  <1>3. Elements(k.todo) = In(definition, "teardown") /\ Later(definition, "teardown") = {}
    BY <1>2, PhaseElements, LaterPhases DEF Phases
  <1>4. ListInv(definition, k)
    BY <1>2, PhaseListInv DEF ListInv, Phases
  <1>5. QED BY <1>1, <1>2, <1>3, <1>4 DEF Sends, Ahead, LoopPCs

LEMMA AfterBodySends ==
    ASSUME definition \in Definitions, NEW l \in LocalStates
    PROVE  Sends(AfterBody(l), In(definition, "teardown"))
  <1>1. CASE l.canceled
    BY <1>1, StartTeardownSends DEF AfterBody
  <1>2. CASE ~l.canceled
    <2>1. PICK k : k = AfterBody(l)
      OBVIOUS
    <2>2. k.pc = "finalCheck"
      BY <1>2, <2>1 DEF AfterBody, LocalStates
    <2>3. QED BY <2>1, <2>2 DEF Sends, Ahead, LoopPCs, ListInv
  <1>3. QED BY <1>1, <1>2

LEMMA StartSweepSends ==
    ASSUME definition \in Definitions, NEW l \in LocalStates, NEW list, NEW s
    PROVE  Sends(StartSweep(l, list, s), In(definition, "teardown"))
  <1>1. CASE list = <<>>
    BY <1>1, AfterBodySends DEF StartSweep
  <1>2. CASE list # <<>>
    <2>1. PICK k : k = StartSweep(l, list, s)
      OBVIOUS
    <2>2. k.pc = "sweep"
      BY <1>2, <2>1 DEF StartSweep, LocalStates
    <2>3. QED BY <2>1, <2>2 DEF Sends, Ahead, LoopPCs, ListInv
  <1>3. QED BY <1>1, <1>2

LEMMA StartTestsSends ==
    ASSUME definition \in Definitions, NEW l \in LocalStates
    PROVE  Sends(StartTests(l), TestsOn(definition))
  <1>1. CASE PhaseNodes("test") = <<>>
    <2>1. PICK k : k = [l EXCEPT !.phase = "test"]
      OBVIOUS
    <2>2. k \in LocalStates
      BY <2>1 DEF LocalStates, Phases
    <2>3. Sends(AfterBody(k), In(definition, "teardown")) /\ StartTests(l) = AfterBody(k)
      BY <1>1, <2>1, <2>2, AfterBodySends DEF StartTests
    <2>4. QED BY <2>3 DEF Sends, TestsOn
  <1>2. CASE PhaseNodes("test") # <<>>
    <2>1. PICK k : k = StartTests(l)
      OBVIOUS
    <2>2. k.phase = "test" /\ k.todo = PhaseNodes("test") /\ k.pc = "checkCancel"
      BY <1>2, <2>1 DEF StartTests, LocalStates
    <2>3. Elements(k.todo) = In(definition, "test") /\ Later(definition, "test") = In(definition, "teardown")
      BY <2>2, PhaseElements, LaterPhases DEF Phases
    <2>4. ListInv(definition, k)
      BY <2>2, PhaseListInv DEF ListInv, Phases
    <2>5. QED BY <2>1, <2>2, <2>3, <2>4 DEF Sends, Ahead, LoopPCs, TestsOn
  <1>3. QED BY <1>1, <1>2

LEMMA AfterSetupSends ==
    ASSUME definition \in Definitions, NEW l \in LocalStates
    PROVE  Sends(AfterSetup(l), TestsOn(definition))
  <1>1. CASE l.setupFailed
    BY <1>1, StartSweepSends DEF AfterSetup, Sends, TestsOn
  <1>2. CASE ~l.setupFailed
    BY <1>2, StartTestsSends DEF AfterSetup
  <1>3. QED BY <1>1, <1>2

LEMMA StartSetupSends ==
    ASSUME definition \in Definitions, NEW l \in LocalStates, l.phase = "setup"
    PROVE  Sends(StartSetup(l), Nodes)
  <1>1. TestsOn(definition) \subseteq Nodes
    BY LaterPhases DEF TestsOn
  <1>2. CASE PhaseNodes("setup") = <<>>
    BY <1>1, <1>2, AfterSetupSends DEF StartSetup, Sends
  <1>3. CASE PhaseNodes("setup") # <<>>
    <2>1. PICK k : k = StartSetup(l)
      OBVIOUS
    <2>2. k.phase = "setup" /\ k.todo = PhaseNodes("setup") /\ k.pc = "checkCancel"
      BY <1>3, <2>1 DEF StartSetup, LocalStates
    <2>3. Elements(k.todo) = In(definition, "setup") /\ Later(definition, "setup") = TestsOn(definition)
      BY <2>2, PhaseElements, LaterPhases DEF Phases
    <2>4. ListInv(definition, k)
      BY <2>2, PhaseListInv DEF ListInv, Phases
    <2>5. Ahead(definition, k) \subseteq Nodes
      BY <1>1, <2>2, <2>3, LaterPhases DEF Ahead, LoopPCs
    <2>6. QED BY <2>1, <2>2, <2>4, <2>5 DEF Sends
  <1>4. QED BY <1>2, <1>3

LEMMA NextNodeSends ==
    ASSUME definition \in Definitions, NEW l \in LocalStates, l.todo # <<>>,
           \A i \in 1..Len(l.todo) : definition.phase[l.todo[i]] = l.phase,
           \A i, j \in 1..Len(l.todo) : l.todo[i] = l.todo[j] => i = j
    PROVE  Sends(NextNode(l), Elements(Tail(l.todo)) \union Later(definition, l.phase))
  <1>1. PICK rest : rest = [l EXCEPT !.todo = Tail(l.todo)]
    OBVIOUS
  <1>2. l.todo \in Seq(Nodes) /\ Tail(l.todo) \in Seq(Nodes)
    BY ElementsOfList DEF LocalStates
  <1>3. rest \in LocalStates /\ rest.todo = Tail(l.todo) /\ rest.phase = l.phase
    BY <1>1, <1>2 DEF LocalStates
  <1>4. /\ \A i \in 1..Len(rest.todo) : definition.phase[rest.todo[i]] = l.phase
        /\ \A i, j \in 1..Len(rest.todo) : rest.todo[i] = rest.todo[j] => i = j
    BY <1>2, <1>3, RestOfList
  <1>5. ASSUME NEW pc \in {"checkCancel", "loadStep"}, NextNode(l) = [rest EXCEPT !.pc = pc],
               pc = "checkCancel" => l.phase # "teardown"
        PROVE  Sends(NextNode(l), Elements(Tail(l.todo)) \union Later(definition, l.phase))
    <2>1. PICK k : k = [rest EXCEPT !.pc = pc]
      OBVIOUS
    <2>2. k.pc = pc /\ k.todo = Tail(l.todo) /\ k.phase = l.phase /\ k.todo = rest.todo
      BY <1>3, <2>1 DEF LocalStates
    <2>3. ListInv(definition, k)
      BY <1>4, <1>5, <2>2 DEF ListInv
    <2>4. Ahead(definition, k) = Elements(k.todo) \union Later(definition, k.phase)
      BY <2>2 DEF Ahead, LoopPCs
    <2>5. QED BY <1>5, <2>1, <2>2, <2>3, <2>4 DEF Sends
  <1>6. CASE l.phase = "setup"
    <2>1. CASE rest.todo = <<>>
      <3>1. NextNode(l) = AfterSetup(rest)
        BY <1>1, <1>6, <2>1 DEF NextNode
      <3>2. QED BY <1>3, <1>6, <3>1, AfterSetupSends, LaterPhases DEF Sends
    <2>2. CASE rest.todo # <<>>
      <3>1. NextNode(l) = [rest EXCEPT !.pc = "checkCancel"]
        BY <1>1, <1>6, <2>2 DEF NextNode
      <3>2. QED BY <1>5, <1>6, <3>1
    <2>3. QED BY <2>1, <2>2
  <1>7. CASE l.phase = "test"
    <2>1. CASE rest.todo = <<>>
      <3>1. NextNode(l) = AfterBody(rest)
        BY <1>1, <1>7, <2>1 DEF NextNode
      <3>2. QED BY <1>3, <1>7, <3>1, AfterBodySends, LaterPhases DEF Sends
    <2>2. CASE rest.todo # <<>>
      <3>1. NextNode(l) = [rest EXCEPT !.pc = "checkCancel"]
        BY <1>1, <1>7, <2>2 DEF NextNode
      <3>2. QED BY <1>5, <1>7, <3>1
    <2>3. QED BY <2>1, <2>2
  <1>8. CASE l.phase = "teardown"
    <2>1. CASE rest.todo = <<>>
      <3>1. PICK k : k = [rest EXCEPT !.pc = "finalize"]
        OBVIOUS
      <3>2. k.pc = "finalize"
        BY <1>3, <3>1 DEF LocalStates
      <3>3. NextNode(l) = k
        BY <1>1, <1>8, <2>1, <3>1 DEF NextNode
      <3>4. QED BY <3>2, <3>3 DEF Sends, Ahead, LoopPCs, ListInv
    <2>2. CASE rest.todo # <<>>
      <3>1. NextNode(l) = [rest EXCEPT !.pc = "loadStep"]
        BY <1>1, <1>8, <2>2 DEF NextNode
      <3>2. QED BY <1>5, <1>8, <3>1
    <2>3. QED BY <2>1, <2>2
  <1>9. QED BY <1>6, <1>7, <1>8 DEF LocalStates, Phases

LEMMA AfterNodeSends ==
    ASSUME definition \in Definitions, NEW l \in LocalStates, l.todo # <<>>,
           \A i \in 1..Len(l.todo) : definition.phase[l.todo[i]] = l.phase,
           \A i, j \in 1..Len(l.todo) : l.todo[i] = l.todo[j] => i = j
    PROVE  Sends(AfterNode(l), Elements(Tail(l.todo)) \union Later(definition, l.phase))
  <1>1. CASE l.phase = "teardown" /\ ~l.canceled
    <2>1. PICK k : k = [l EXCEPT !.pc = "teardownCheck"]
      OBVIOUS
    <2>2. k.pc = "teardownCheck" /\ k.todo = l.todo /\ k.phase = l.phase /\ AfterNode(l) = k
      BY <1>1, <2>1 DEF LocalStates, AfterNode
    <2>3. ListInv(definition, k)
      BY <2>2 DEF ListInv
    <2>4. Ahead(definition, k) = Elements(Tail(k.todo)) \union Later(definition, k.phase)
      BY <2>2 DEF Ahead, LoopPCs
    <2>5. QED BY <2>2, <2>3, <2>4 DEF Sends
  <1>2. CASE ~(l.phase = "teardown" /\ ~l.canceled)
    BY <1>2, NextNodeSends DEF AfterNode
  <1>3. QED BY <1>1, <1>2

LEMMA NodeFailedSends ==
    ASSUME definition \in Definitions, NEW l \in LocalStates, l.todo # <<>>,
           \A i \in 1..Len(l.todo) : definition.phase[l.todo[i]] = l.phase,
           \A i, j \in 1..Len(l.todo) : l.todo[i] = l.todo[j] => i = j
    PROVE  Sends(NodeFailed(l), Elements(Tail(l.todo)) \union Later(definition, l.phase))
  <1>1. PICK k : k = [l EXCEPT
                 !.setupFailed = @ \/ l.phase = "setup",
                 !.testFailed = @ \/ l.phase = "test",
                 !.teardownFailed = @ \/ l.phase = "teardown",
                 !.blockedTests = IF l.phase = "test"
                                  THEN @ \union DescendantsOf[definition][Head(l.todo)] ELSE @]
    OBVIOUS
  <1>2. DescendantsOf[definition][Head(l.todo)] \subseteq Nodes
    BY ElementsOfList, DefinitionType DEF Descendants, LocalStates
  <1>3. k \in LocalStates /\ k.todo = l.todo /\ k.phase = l.phase
    BY ZenonT(60), <1>1, <1>2 DEF LocalStates
  <1>4. Sends(AfterNode(k), Elements(Tail(l.todo)) \union Later(definition, l.phase))
    BY <1>3, AfterNodeSends
  <1>5. QED BY <1>1, <1>4 DEF NodeFailed, Sends

\* A step of a worker that sends nothing, and after which it may send no more than before.
Narrows(w) ==
    /\ \E next : /\ GoTo(w, next) /\ ListInv(definition, next)
                 /\ Ahead(definition, next) \subseteq Ahead(definition, local[w])
    /\ UNCHANGED <<definition, sent>> /\ Untaken' = Untaken /\ job'.stalled = job.stalled

LEMMA WorkerNarrows ==
    ASSUME TypeOK, SendInv, NEW w \in Workers, Progress(w) \/ Faults(w), ~ExecuteStep(w)
    PROVE  Narrows(w)
  <1>1. PICK l : l = local[w]
    OBVIOUS
  <1>2. /\ definition \in Definitions /\ l \in LocalStates /\ ListInv(definition, l)
        /\ l.pc \in Visiting => l.todo # <<>>
    BY <1>1 DEF TypeOK, ContractTypeOK, SendInv
  <1>3. l.todo \in Seq(Nodes) /\ (l.todo # <<>> => Elements(Tail(l.todo)) \subseteq Elements(l.todo))
    BY <1>2, ElementsOfList DEF LocalStates
  <1>4. l.pc \in LoopPCs \union {"teardownCheck"} =>
           /\ l.todo # <<>>
           /\ \A i \in 1..Len(l.todo) : definition.phase[l.todo[i]] = l.phase
           /\ \A i, j \in 1..Len(l.todo) : l.todo[i] = l.todo[j] => i = j
    BY <1>2 DEF ListInv, LoopPCs, Visiting
  \* What the worker has ahead of it, by place.
  <1>5. /\ l.pc \in {"loadRun", "markRun"} => Ahead(definition, l) = Nodes
        /\ l.pc \in LoopPCs \ {"persist"} => Ahead(definition, l) = Elements(l.todo) \union Later(definition, l.phase)
        /\ l.pc \in {"persist", "teardownCheck"} =>
              Ahead(definition, l) = Elements(Tail(l.todo)) \union Later(definition, l.phase)
        /\ l.pc \in {"sweep", "finalCheck"} => Ahead(definition, l) = In(definition, "teardown")
    BY DEF Ahead, LoopPCs
  <1>6. l.phase # "teardown" => In(definition, "teardown") \subseteq Later(definition, l.phase)
    BY <1>2, LaterPhases DEF LocalStates, Phases, TestsOn
  \* The next node, or the one after it, from a memory with the same list.
  <1>7. ASSUME l.pc \in LoopPCs \union {"teardownCheck"}, NEW k \in LocalStates, k.todo = l.todo, k.phase = l.phase,
               NEW next \in {NextNode(k), AfterNode(k), NodeFailed(k)}
        PROVE  ListInv(definition, next) /\ Ahead(definition, next) \subseteq Ahead(definition, l)
    <2>1. Sends(next, Elements(Tail(l.todo)) \union Later(definition, l.phase))
      BY <1>2, <1>4, <1>7, NextNodeSends, AfterNodeSends, NodeFailedSends
    <2>2. Elements(Tail(l.todo)) \union Later(definition, l.phase) \subseteq Ahead(definition, l)
      BY <1>3, <1>4, <1>5, <1>7
    <2>3. QED BY <2>1, <2>2 DEF Sends
  <1>8. UNCHANGED job => Untaken' = Untaken /\ job'.stalled = job.stalled
    BY DEF Untaken
  <1>9. CASE LoadRun(w)
    <2>1. PICK k : k = [l EXCEPT !.pc = IF runStatus \in TerminalRunStatuses THEN "done" ELSE "markRun"]
      OBVIOUS
    <2>2. /\ k.pc = IF runStatus \in TerminalRunStatuses THEN "done" ELSE "markRun"
          /\ k.phase = l.phase
      BY <1>2, <2>1 DEF LocalStates
    <2>3. l.pc = "loadRun" /\ GoTo(w, k) /\ UNCHANGED <<definition, sent, job>>
      BY <1>1, <1>9, <2>1 DEF LoadRun, OnlyLocal, rowVars
    <2>4. ListInv(definition, k) /\ Ahead(definition, k) \subseteq Ahead(definition, l)
      BY <1>2, <1>5, <2>2, <2>3 DEF ListInv, Ahead, LoopPCs
    <2>5. QED BY <1>1, <1>8, <2>3, <2>4 DEF Narrows
  <1>10. CASE MarkRunRunning(w)
    <2>1. l.pc = "markRun" /\ GoTo(w, StartSetup(l)) /\ UNCHANGED <<definition, sent, job>>
      BY <1>1, <1>10 DEF MarkRunRunning
    <2>2. Sends(StartSetup(l), Nodes)
      BY <1>2, <2>1, StartSetupSends DEF ListInv
    <2>3. QED BY <1>1, <1>5, <1>8, <2>1, <2>2 DEF Narrows, Sends
  <1>11. CASE CheckCancel(w)
    <2>1. l.pc = "checkCancel" /\ l.phase # "teardown" /\ UNCHANGED <<definition, sent, job>>
      BY <1>1, <1>2, <1>11 DEF CheckCancel, OnlyLocal, rowVars, ListInv
    <2>2. Ahead(definition, l) = Elements(l.todo) \union Later(definition, l.phase)
      BY <1>5, <2>1 DEF LoopPCs
    <2>3. CASE cancelRequested
      <3>1. PICK k : k = [l EXCEPT !.canceled = TRUE]
        OBVIOUS
      <3>2. k \in LocalStates
        BY <1>2, <3>1 DEF LocalStates
      <3>3. PICK list : GoTo(w, StartSweep(k, list, "canceled"))
        BY <1>1, <1>11, <2>3, <3>1 DEF CheckCancel
      <3>4. Sends(StartSweep(k, list, "canceled"), In(definition, "teardown"))
        BY <1>2, <3>2, StartSweepSends
      <3>5. QED BY <1>1, <1>6, <1>8, <2>1, <2>2, <3>3, <3>4 DEF Narrows, Sends
    <2>4. CASE ~cancelRequested
      <3>1. PICK pc \in {"skipBlocked", "loadStep"} : GoTo(w, [l EXCEPT !.pc = pc])
        BY <1>1, <1>11, <2>4 DEF CheckCancel
      <3>2. PICK k : k = [l EXCEPT !.pc = pc]
        OBVIOUS
      <3>3. k.pc = pc /\ k.todo = l.todo /\ k.phase = l.phase
        BY <1>2, <3>2 DEF LocalStates
      <3>4. ListInv(definition, k) /\ Ahead(definition, k) = Ahead(definition, l)
        BY <1>4, <2>1, <2>2, <3>3 DEF ListInv, Ahead, LoopPCs
      <3>5. QED BY <1>1, <1>8, <2>1, <3>1, <3>2, <3>4 DEF Narrows
    <2>5. QED BY <2>3, <2>4
  <1>12. CASE SkipBlocked(w)
    <2>1. l.pc \in LoopPCs /\ GoTo(w, NextNode(l)) /\ UNCHANGED <<definition, sent, job>>
      BY <1>1, <1>12 DEF SkipBlocked, StepWritten, LoopPCs
    <2>2. QED BY <1>1, <1>2, <1>7, <1>8, <2>1 DEF Narrows
  <1>13. CASE LoadStep(w)
    <2>1. l.pc = "loadStep" /\ l.pc \in LoopPCs /\ UNCHANGED <<definition, sent, job>>
      BY <1>1, <1>13 DEF LoadStep, OnlyLocal, rowVars, LoopPCs
    <2>2. \/ GoTo(w, NodeFailed(l)) \/ GoTo(w, AfterNode(l))
          \/ \E pc \in {"skipStep", "markStep"} : GoTo(w, [l EXCEPT !.pc = pc])
      BY <1>1, <1>13 DEF LoadStep
    <2>3. CASE GoTo(w, NodeFailed(l)) \/ GoTo(w, AfterNode(l))
      BY <1>1, <1>2, <1>7, <1>8, <2>1, <2>3 DEF Narrows
    <2>4. ASSUME NEW pc \in {"skipStep", "markStep"}, GoTo(w, [l EXCEPT !.pc = pc]) PROVE Narrows(w)
      <3>1. PICK k : k = [l EXCEPT !.pc = pc]
        OBVIOUS
      <3>2. k.pc = pc /\ k.todo = l.todo /\ k.phase = l.phase
        BY <1>2, <3>1 DEF LocalStates
      <3>3. ListInv(definition, k) /\ Ahead(definition, k) = Ahead(definition, l)
        BY <1>4, <1>5, <2>1, <3>2 DEF ListInv, Ahead, LoopPCs
      <3>4. QED BY <1>1, <1>8, <2>1, <2>4, <3>1, <3>3 DEF Narrows
    <2>5. QED BY <2>2, <2>3, <2>4
  <1>14. CASE SkipDependent(w)
    <2>1. l.pc \in LoopPCs /\ UNCHANGED <<definition, sent, job>>
      BY <1>1, <1>14 DEF SkipDependent, StepWritten, LoopPCs
    <2>2. PICK k : k = [l EXCEPT !.failedNodes = @ \union {Head(l.todo)}]
      OBVIOUS
    <2>3. Head(l.todo) \in Nodes
      BY <1>3, <1>4, <2>1, ElementsOfList
    <2>4. k \in LocalStates /\ k.todo = l.todo /\ k.phase = l.phase
      BY <1>2, <2>2, <2>3 DEF LocalStates
    <2>5. GoTo(w, NextNode(l)) \/ GoTo(w, NodeFailed(k))
      BY <1>1, <1>14, <2>2 DEF SkipDependent
    <2>6. QED BY <1>1, <1>2, <1>7, <1>8, <2>1, <2>4, <2>5 DEF Narrows
  <1>15. CASE MarkStepRunning(w)
    <2>1. l.pc = "markStep" /\ GoTo(w, [l EXCEPT !.pc = "execute"]) /\ UNCHANGED <<definition, sent, job>>
      BY <1>1, <1>15 DEF MarkStepRunning, StepWritten
    <2>2. PICK k : k = [l EXCEPT !.pc = "execute"]
      OBVIOUS
    <2>3. k.pc = "execute" /\ k.todo = l.todo /\ k.phase = l.phase
      BY <1>2, <2>2 DEF LocalStates
    <2>4. ListInv(definition, k) /\ Ahead(definition, k) = Ahead(definition, l)
      BY <1>4, <1>5, <2>1, <2>3 DEF ListInv, Ahead, LoopPCs
    <2>5. QED BY <1>1, <1>8, <2>1, <2>2, <2>4 DEF Narrows
  <1>16. CASE PersistStep(w)
    <2>1. l.pc \in LoopPCs /\ UNCHANGED <<definition, sent, job>>
      BY <1>1, <1>16 DEF PersistStep, StepWritten, LoopPCs
    <2>2. PICK k : k = [l EXCEPT !.failedNodes = @ \union {Head(l.todo)}]
      OBVIOUS
    <2>3. PICK m : m = [l EXCEPT !.accumulatedVars = @ \union {Head(l.todo)}]
      OBVIOUS
    <2>4. Head(l.todo) \in Nodes
      BY <1>3, <1>4, <2>1, ElementsOfList
    <2>5. /\ k \in LocalStates /\ k.todo = l.todo /\ k.phase = l.phase
          /\ m \in LocalStates /\ m.todo = l.todo /\ m.phase = l.phase
      BY <1>2, <2>2, <2>3, <2>4 DEF LocalStates
    <2>6. GoTo(w, AfterNode(m)) \/ GoTo(w, NodeFailed(k))
      BY <1>1, <1>16, <2>2, <2>3 DEF PersistStep
    <2>7. QED BY <1>1, <1>7, <1>8, <2>1, <2>5, <2>6 DEF Narrows
  <1>17. CASE MarkQueuedNode(w)
    <2>1. l.pc = "sweep" /\ UNCHANGED <<definition, sent, job>>
      BY <1>1, <1>17 DEF MarkQueuedNode, StepWritten
    <2>2. CASE Tail(l.todo) = <<>>
      <3>1. PICK k : k = [l EXCEPT !.todo = <<>>]
        OBVIOUS
      <3>2. k \in LocalStates
        <4>1. <<>> \in Seq(Nodes)
          OBVIOUS
        <4>2. QED BY <1>2, <3>1, <4>1 DEF LocalStates
      <3>3. GoTo(w, AfterBody(k))
        BY <1>1, <1>17, <2>2, <3>1 DEF MarkQueuedNode
      <3>4. Sends(AfterBody(k), In(definition, "teardown"))
        BY <1>2, <3>2, AfterBodySends
      <3>5. QED BY <1>1, <1>5, <1>8, <2>1, <3>3, <3>4 DEF Narrows, Sends
    <2>3. CASE Tail(l.todo) # <<>>
      <3>1. PICK k : k = [l EXCEPT !.todo = Tail(@)]
        OBVIOUS
      <3>2. k.pc = "sweep"
        BY <1>2, <2>1, <3>1 DEF LocalStates
      <3>3. GoTo(w, k)
        BY <1>1, <1>17, <2>3, <3>1 DEF MarkQueuedNode
      <3>4. ListInv(definition, k) /\ Ahead(definition, k) = In(definition, "teardown")
        BY <3>2 DEF ListInv, Ahead, LoopPCs
      <3>5. QED BY <1>1, <1>5, <1>8, <2>1, <3>3, <3>4 DEF Narrows
    <2>4. QED BY <2>2, <2>3
  <1>18. cancelRequested \in BOOLEAN
    BY DEF TypeOK, ContractTypeOK
  <1>19. [l EXCEPT !.canceled = cancelRequested] \in LocalStates
         /\ [l EXCEPT !.canceled = cancelRequested].todo = l.todo
         /\ [l EXCEPT !.canceled = cancelRequested].phase = l.phase
    BY <1>2, <1>18 DEF LocalStates
  <1>20. CASE FinalCheck(w)
    <2>1. PICK k : k = [l EXCEPT !.canceled = cancelRequested]
      OBVIOUS
    <2>2. l.pc = "finalCheck" /\ GoTo(w, StartTeardown(k)) /\ UNCHANGED <<definition, sent, job>>
      BY <1>1, <1>20, <2>1 DEF FinalCheck, OnlyLocal, rowVars
    <2>3. Sends(StartTeardown(k), In(definition, "teardown"))
      BY <1>2, <1>19, <2>1, StartTeardownSends
    <2>4. QED BY <1>1, <1>5, <1>8, <2>2, <2>3 DEF Narrows, Sends
  <1>21. CASE TeardownCheck(w)
    <2>1. PICK k : k = [l EXCEPT !.canceled = cancelRequested]
      OBVIOUS
    <2>2. l.pc = "teardownCheck" /\ GoTo(w, NextNode(k)) /\ UNCHANGED <<definition, sent, job>>
      BY <1>1, <1>21, <2>1 DEF TeardownCheck, OnlyLocal, rowVars
    <2>3. k \in LocalStates /\ k.todo = l.todo /\ k.phase = l.phase
      BY <1>19, <2>1
    <2>4. QED BY <1>1, <1>7, <1>8, <2>2, <2>3 DEF Narrows
  \* The handler ends: nothing is ahead of it any more.
  <1>22. ASSUME NEW next, next.pc \in {"idle", "done", "finalizeError"}
         PROVE  ListInv(definition, next) /\ Ahead(definition, next) \subseteq Ahead(definition, l)
    BY <1>22 DEF ListInv, Ahead, LoopPCs
  <1>23. \A pc \in {"done", "finalizeError"} : [l EXCEPT !.pc = pc].pc = pc
    BY <1>2 DEF LocalStates
  <1>24. CASE FinalizeRun(w) \/ FinalizeError(w) \/ StoreFails(w) \/ JobFails(w)
    <2>1. \E pc \in {"done", "finalizeError"} : GoTo(w, [l EXCEPT !.pc = pc])
      BY <1>1, <1>24 DEF FinalizeRun, FinalizeError, StoreFails, JobFails
    <2>2. UNCHANGED <<definition, sent, job>>
      BY <1>24 DEF FinalizeRun, FinalizeError, StoreFails, JobFails, OnlyLocal, rowVars
    <2>3. PICK pc \in {"done", "finalizeError"} : GoTo(w, [l EXCEPT !.pc = pc])
      BY <2>1
    <2>4. PICK k : k = [l EXCEPT !.pc = pc]
      OBVIOUS
    <2>5. k.pc = pc
      BY <1>23, <2>4
    <2>6. ListInv(definition, k) /\ Ahead(definition, k) \subseteq Ahead(definition, l)
      BY <1>22, <2>5
    <2>7. GoTo(w, k)
      BY <2>3, <2>4
    <2>8. QED BY <1>1, <1>8, <2>2, <2>6, <2>7 DEF Narrows
  <1>25. CASE Crash(w)
    <2>1. GoTo(w, Fresh) /\ Fresh.pc = "idle" /\ UNCHANGED <<definition, sent, job>>
      BY <1>25 DEF Crash, OnlyLocal, rowVars, Fresh
    <2>2. QED BY <1>1, <1>8, <1>22, <2>1 DEF Narrows
  <1>26. CASE ReleaseJob(w)
    <2>1. GoTo(w, Fresh) /\ Fresh.pc = "idle" /\ UNCHANGED <<definition, sent>>
      BY <1>26 DEF ReleaseJob, rowVars, Fresh
    <2>2. Untaken' = Untaken /\ job'.stalled = job.stalled
      BY <1>26 DEF ReleaseJob, Untaken, TypeOK
    <2>3. QED BY <1>1, <1>22, <2>1, <2>2 DEF Narrows
  <1>27. QED
    BY <1>9, <1>10, <1>11, <1>12, <1>13, <1>14, <1>15, <1>16, <1>17, <1>20, <1>21, <1>24, <1>25, <1>26
    DEF Progress, Faults

LEMMA SendInvInit == Init => SendInv
  <1> SUFFICES ASSUME Init PROVE SendInv
    OBVIOUS
  <1>1. \A w \in Workers : local[w].pc = "idle"
    BY DEF Init, Fresh
  <1>2. \A w \in Workers : ListInv(definition, local[w]) /\ Ahead(definition, local[w]) = {}
    BY <1>1 DEF ListInv, Ahead, LoopPCs
  <1>3. \A n \in Nodes : Pending(n) = {}
    BY <1>2 DEF Pending
  <1>4. Untaken = 1 /\ job.stalled = 0 /\ \A n \in Nodes : sent[n] = 0
    BY DEF Init, Untaken
  <1>5. QED BY <1>2, <1>3, <1>4, FS_EmptySet DEF SendInv

\* The numbers SendInv adds up.
LEMMA CountTypes ==
    ASSUME TypeOK, NEW n \in Nodes
    PROVE  sent[n] \in Nat /\ Untaken \in {0, 1} /\ job.stalled \in Nat
  BY DEF TypeOK, Untaken

\* One worker moves: the memories afterwards.
LEMMA OneMoves ==
    ASSUME TypeOK, SendInv, NEW w \in Workers, NEW next, GoTo(w, next), ListInv(definition, next),
           definition' = definition
    PROVE  /\ \A v \in Workers : local'[v] = IF v = w THEN next ELSE local[v]
           /\ \A v \in Workers : ListInv(definition', local'[v])
           /\ \A n \in Nodes : Pending(n)' \subseteq Pending(n) \union {w}
           /\ \A n \in Nodes : n \notin Ahead(definition, next) => Pending(n)' \subseteq Pending(n) \ {w}
  <1>1. \A v \in Workers : local'[v] = IF v = w THEN next ELSE local[v]
    BY DEF TypeOK, GoTo
  <1>2. \A v \in Workers : ListInv(definition', local'[v])
    BY <1>1 DEF SendInv
  <1>3. \A n \in Nodes : \A v \in Pending(n)' :
           v \in Workers /\ (v = w => n \in Ahead(definition, next)) /\ (v # w => v \in Pending(n))
    BY <1>1 DEF Pending
  <1>4. QED BY <1>1, <1>2, <1>3

LEMMA NarrowsKeepsSendInv ==
    ASSUME TypeOK, SendInv, NEW w \in Workers, Narrows(w)
    PROVE  SendInv'
  <1>1. PICK next : /\ GoTo(w, next) /\ ListInv(definition, next)
                    /\ Ahead(definition, next) \subseteq Ahead(definition, local[w])
    BY DEF Narrows
  <1>2. definition' = definition /\ sent' = sent /\ Untaken' = Untaken /\ job'.stalled = job.stalled
    BY DEF Narrows
  <1>3. /\ \A v \in Workers : ListInv(definition', local'[v])
        /\ \A n \in Nodes : Pending(n)' \subseteq Pending(n) \union {w}
        /\ \A n \in Nodes : n \notin Ahead(definition, next) => Pending(n)' \subseteq Pending(n) \ {w}
    BY <1>1, <1>2, OneMoves
  <1>4. ASSUME NEW n \in Nodes
        PROVE  IsFiniteSet(Pending(n)') /\ sent'[n] + Cardinality(Pending(n)') + Untaken' <= job'.stalled + 1
    <2>1. Pending(n)' \subseteq Pending(n)
      BY <1>1, <1>3 DEF Pending
    <2>2. IsFiniteSet(Pending(n)) /\ sent[n] + Cardinality(Pending(n)) + Untaken <= job.stalled + 1
      BY DEF SendInv
    <2>3. PICK P : P = Pending(n)'
      OBVIOUS
    <2>4. IsFiniteSet(P) /\ Cardinality(P) <= Cardinality(Pending(n))
      BY <2>1, <2>2, <2>3, FS_Subset
    <2>5. Cardinality(P) \in Nat /\ Cardinality(Pending(n)) \in Nat
      BY <2>2, <2>4, FS_CardinalityType
    <2>6. QED BY <1>2, <2>2, <2>3, <2>4, <2>5, CountTypes
  <1>5. QED BY <1>3, <1>4 DEF SendInv

\* A request is paid for by the worker that might have sent it.
LEMMA ExecuteKeepsSendInv ==
    ASSUME TypeOK, SendInv, NEW w \in Workers, ExecuteStep(w)
    PROVE  SendInv'
  <1>1. PICK l : l = local[w]
    OBVIOUS
  <1>2. PICK n : n = Head(l.todo)
    OBVIOUS
  <1>3. /\ definition \in Definitions /\ l \in LocalStates /\ l.pc = "execute" /\ ListInv(definition, l)
        /\ l.todo # <<>> /\ l.todo \in Seq(Nodes)
    BY <1>1 DEF ExecuteStep, TypeOK, ContractTypeOK, SendInv, LocalStates, Visiting
  <1>4. /\ \A i \in 1..Len(l.todo) : definition.phase[l.todo[i]] = l.phase
        /\ \A i, j \in 1..Len(l.todo) : l.todo[i] = l.todo[j] => i = j
    BY <1>3 DEF ListInv, LoopPCs
  <1>5. /\ n \notin Elements(Tail(l.todo)) /\ definition.phase[n] = l.phase
        /\ Elements(Tail(l.todo)) \subseteq Elements(l.todo)
    <2>1. PICK q : q = l.todo
      OBVIOUS
    <2>2. PICK p : p = l.phase
      OBVIOUS
    <2>3. PICK d : d = definition
      OBVIOUS
    <2>4. q \in Seq(Nodes) /\ q # <<>>
      BY <1>3, <2>1
    <2>5. \A i \in 1..Len(q) : d.phase[q[i]] = p
      BY <1>4, <2>1, <2>2, <2>3
    <2>6. \A i, j \in 1..Len(q) : q[i] = q[j] => i = j
      BY <1>4, <2>1
    <2>7. Head(q) \notin Elements(Tail(q))
      BY <2>4, <2>6, HeadIsOnce
    <2>8. d.phase[Head(q)] = p
      BY <2>4, <2>5, <2>6, RestOfList
    <2>9. Elements(Tail(q)) \subseteq Elements(q)
      BY <2>4, ElementsOfList
    <2>10. QED BY <1>2, <2>1, <2>2, <2>3, <2>7, <2>8, <2>9
  <1>6. n \in Nodes /\ n \in Elements(l.todo)
    BY <1>2, <1>3, ElementsOfList
  <1>7. n \notin Later(definition, l.phase)
    <2>1. PhaseOrder(l.phase) \in Nat
      BY <1>3, PhaseOrders DEF LocalStates, Phases
    <2>2. QED BY <1>5, <2>1 DEF Later
  <1>8. PICK r : GoTo(w, [l EXCEPT !.pc = "persist", !.result = r])
    BY <1>1 DEF ExecuteStep
  <1>9. PICK k : k = [l EXCEPT !.pc = "persist", !.result = r]
    OBVIOUS
  <1>10. k.pc = "persist" /\ k.todo = l.todo /\ k.phase = l.phase /\ GoTo(w, k)
    BY <1>3, <1>8, <1>9 DEF LocalStates
  <1>11. ListInv(definition, k)
    BY <1>4, <1>10 DEF ListInv, LoopPCs
  <1>12. /\ Ahead(definition, l) = Elements(l.todo) \union Later(definition, l.phase)
         /\ Ahead(definition, k) = Elements(Tail(l.todo)) \union Later(definition, l.phase)
    BY <1>3, <1>10 DEF Ahead, LoopPCs
  <1>13. Ahead(definition, k) \subseteq Ahead(definition, l) /\ n \in Ahead(definition, l) /\ n \notin Ahead(definition, k)
    BY <1>5, <1>6, <1>7, <1>12
  <1>14. /\ UNCHANGED <<definition, job>>
         /\ sent' = sent \/ sent' = [sent EXCEPT ![n] = @ + 1]
    BY <1>1, <1>2 DEF ExecuteStep, rowVars
  <1>15. Untaken' = Untaken /\ job'.stalled = job.stalled
    BY <1>14 DEF Untaken
  <1>16. /\ \A v \in Workers : ListInv(definition', local'[v])
         /\ \A m \in Nodes : Pending(m)' \subseteq Pending(m) \union {w}
         /\ \A m \in Nodes : m \notin Ahead(definition, k) => Pending(m)' \subseteq Pending(m) \ {w}
    BY <1>10, <1>11, <1>14, OneMoves
  <1>17. ASSUME NEW m \in Nodes
         PROVE  IsFiniteSet(Pending(m)') /\ sent'[m] + Cardinality(Pending(m)') + Untaken' <= job'.stalled + 1
    <2>1. IsFiniteSet(Pending(m)) /\ sent[m] + Cardinality(Pending(m)) + Untaken <= job.stalled + 1
      BY DEF SendInv
    <2>2. PICK P : P = Pending(m)'
      OBVIOUS
    <2>3. Cardinality(Pending(m)) \in Nat
      BY <2>1, FS_CardinalityType
    <2>4. CASE m = n
      <3>1. P \subseteq Pending(m) \ {w} /\ w \in Pending(m)
        BY <1>1, <1>13, <1>16, <2>2, <2>4 DEF Pending
      <3>2. IsFiniteSet(Pending(m) \ {w}) /\ Cardinality(Pending(m) \ {w}) = Cardinality(Pending(m)) - 1
        BY <2>1, <3>1, FS_RemoveElement
      <3>3. IsFiniteSet(P) /\ Cardinality(P) <= Cardinality(Pending(m) \ {w})
        BY <3>1, <3>2, FS_Subset
      <3>4. Cardinality(P) \in Nat
        BY <3>3, FS_CardinalityType
      <3>5. sent'[m] <= sent[m] + 1 /\ sent'[m] \in Nat
        BY <1>14, <2>4 DEF TypeOK
      <3>6. QED BY <1>15, <2>1, <2>2, <2>3, <3>2, <3>3, <3>4, <3>5, CountTypes
    <2>5. CASE m # n
      <3>1. P \subseteq Pending(m)
        BY <1>1, <1>13, <1>16, <2>2 DEF Pending
      <3>2. IsFiniteSet(P) /\ Cardinality(P) <= Cardinality(Pending(m))
        BY <2>1, <3>1, FS_Subset
      <3>3. Cardinality(P) \in Nat
        BY <3>2, FS_CardinalityType
      <3>4. sent'[m] = sent[m]
        BY <1>14, <2>5 DEF TypeOK
      <3>5. QED BY <1>15, <2>1, <2>2, <2>3, <3>2, <3>3, <3>4, CountTypes
    <2>6. QED BY <2>4, <2>5
  <1>18. QED BY <1>16, <1>17 DEF SendInv

\* A delivery that nobody had taken has found its worker.
LEMMA TakeJobKeepsSendInv ==
    ASSUME TypeOK, SendInv, NEW w \in Workers, TakeJob(w)
    PROVE  SendInv'
  <1>1. PICK k : k = [Fresh EXCEPT !.pc = "loadRun"]
    OBVIOUS
  <1>2. k.pc = "loadRun" /\ k.phase = "setup" /\ GoTo(w, k)
    BY <1>1 DEF TakeJob, Fresh
  <1>3. ListInv(definition, k)
    BY <1>2 DEF ListInv, LoopPCs
  <1>4. UNCHANGED <<definition, sent>> /\ Untaken = 1 /\ Untaken' = 0 /\ job'.stalled = job.stalled
    BY DEF TakeJob, rowVars, Untaken, TypeOK
  <1>5. /\ \A v \in Workers : ListInv(definition', local'[v])
        /\ \A n \in Nodes : Pending(n)' \subseteq Pending(n) \union {w}
    BY <1>2, <1>3, <1>4, OneMoves
  <1>6. ASSUME NEW n \in Nodes
        PROVE  IsFiniteSet(Pending(n)') /\ sent'[n] + Cardinality(Pending(n)') + Untaken' <= job'.stalled + 1
    <2>1. IsFiniteSet(Pending(n)) /\ sent[n] + Cardinality(Pending(n)) + Untaken <= job.stalled + 1
      BY DEF SendInv
    <2>2. PICK P : P = Pending(n)'
      OBVIOUS
    <2>3. /\ IsFiniteSet(Pending(n) \union {w}) /\ Cardinality(Pending(n)) \in Nat
          /\ Cardinality(Pending(n) \union {w}) \in Nat
          /\ Cardinality(Pending(n) \union {w}) <= Cardinality(Pending(n)) + 1
      <3>1. Cardinality(Pending(n)) \in Nat
        BY <2>1, FS_CardinalityType
      <3>2. QED BY SMTT(60), <2>1, <3>1, FS_AddElement
    <2>4. P \subseteq Pending(n) \union {w}
      BY <1>5, <2>2
    <2>5. IsFiniteSet(P) /\ Cardinality(P) <= Cardinality(Pending(n) \union {w})
      BY <2>3, <2>4, FS_Subset
    <2>6. Cardinality(P) \in Nat
      BY <2>5, FS_CardinalityType
    <2>7. QED BY <1>4, <2>1, <2>2, <2>3, <2>5, <2>6, CountTypes
  <1>7. QED BY <1>5, <1>6 DEF SendInv

\* Every other step leaves the workers alone, and a delivery that is added is counted.
LEMMA OutsideKeepsSendInv ==
    ASSUME TypeOK, SendInv, UNCHANGED <<definition, sent, local>>, Untaken' - job'.stalled <= Untaken - job.stalled,
           job'.stalled \in Nat, Untaken' \in {0, 1}
    PROVE  SendInv'
  <1>1. \A n \in Nodes : Pending(n)' = Pending(n)
    BY DEF Pending
  <1>2. ASSUME NEW n \in Nodes
        PROVE  IsFiniteSet(Pending(n)') /\ sent'[n] + Cardinality(Pending(n)') + Untaken' <= job'.stalled + 1
    <2>1. IsFiniteSet(Pending(n)) /\ sent[n] + Cardinality(Pending(n)) + Untaken <= job.stalled + 1
      BY DEF SendInv
    <2>2. Cardinality(Pending(n)) \in Nat
      BY <2>1, FS_CardinalityType
    <2>3. QED BY <1>1, <2>1, <2>2, CountTypes
  <1>3. QED BY <1>2 DEF SendInv

LEMMA SendInvStep == TypeOK /\ Created /\ SendInv /\ [Next]_vars => SendInv'
  <1> SUFFICES ASSUME TypeOK, Created, SendInv, [Next]_vars PROVE SendInv'
    OBVIOUS
  <1>1. job.stalled \in Nat /\ Untaken \in {0, 1}
    BY DEF TypeOK, Untaken
  <1>2. CASE \E w \in Workers : TakeJob(w) \/ Progress(w) \/ Faults(w)
    <2>1. PICK w \in Workers : TakeJob(w) \/ Progress(w) \/ Faults(w)
      BY <1>2
    <2>2. CASE TakeJob(w)
      BY <2>2, TakeJobKeepsSendInv
    <2>3. CASE ExecuteStep(w)
      BY <2>3, ExecuteKeepsSendInv
    <2>4. CASE (Progress(w) \/ Faults(w)) /\ ~ExecuteStep(w)
      BY <2>4, WorkerNarrows, NarrowsKeepsSendInv
    <2>5. QED BY <2>1, <2>2, <2>3, <2>4
  <1>3. ASSUME UNCHANGED <<definition, sent, local, job>> PROVE SendInv'
    <2>1. Untaken' = Untaken /\ job' = job
      BY <1>3 DEF Untaken
    <2>2. QED BY <1>1, <1>3, <2>1, OutsideKeepsSendInv
  <1>4. CASE CreateRun \/ EnqueueLost \/ CancelCheck \/ CancelWrite \/ TimePasses \/ ReaperSweep \/ UNCHANGED vars
    <2>1. UNCHANGED <<definition, sent, local, job>>
      BY <1>4 DEF CreateRun, EnqueueLost, CancelCheck, CancelWrite, TimePasses, ReaperSweep, rowVars, vars
    <2>2. QED BY <1>3, <2>1
  <1>5. CASE Enqueue
    <2>1. UNCHANGED <<definition, sent, local>> /\ job'.stalled = job.stalled /\ Untaken' = 1
      BY <1>5 DEF Enqueue, rowVars, TypeOK, Untaken
    <2>2. Untaken = 1
      BY <1>5 DEF Enqueue, Created, Untaken
    <2>3. QED BY <1>1, <2>1, <2>2, OutsideKeepsSendInv
  <1>6. CASE JobStalls
    <2>1. UNCHANGED <<definition, sent, local>> /\ job.state = "active" /\ Untaken = 0
      BY <1>6 DEF JobStalls, rowVars, Untaken
    <2>2. \/ job'.stalled = job.stalled + 1 /\ Untaken' = 1
          \/ job'.stalled = job.stalled /\ Untaken' = 0
      BY <1>6 DEF JobStalls, Untaken, TypeOK
    <2>3. QED BY <1>1, <2>1, <2>2, OutsideKeepsSendInv
  <1>7. QED BY <1>2, <1>4, <1>5, <1>6 DEF Next

(* However often workers crash, stall and overlap, and also when a job is taken
   from a worker that is still alive, a node's request is sent at most once per
   delivery of the job. *)
THEOREM RequestsPerDeliveryHolds == Spec => []RequestsPerDelivery
  <1>1. TypeOK /\ SendInv => RequestsPerDelivery
    <2> SUFFICES ASSUME TypeOK, SendInv, NEW n \in Nodes PROVE sent[n] <= job.stalled + 1
      BY DEF RequestsPerDelivery
    <2>1. IsFiniteSet(Pending(n)) /\ sent[n] + Cardinality(Pending(n)) + Untaken <= job.stalled + 1
      BY DEF SendInv
    <2>2. Cardinality(Pending(n)) \in Nat
      BY <2>1, FS_CardinalityType
    <2>3. QED BY <2>1, <2>2, CountTypes
  <1>2. RunInv => TypeOK /\ Created
    BY DEF RunInv, CancelInvariant
  <1>3. QED
    BY <1>1, <1>2, SendInvInit, SendInvStep, RunInvHolds, PTL DEF Spec
=============================================================================
