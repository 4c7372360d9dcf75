-------------------------- MODULE MCTestWorkflowRun --------------------------
(***************************************************************************)
(* Small workflows for TLC.  Each definition exercises one shape of the    *)
(* graph; the third argument is the order buildTopologicalOrder returns    *)
(* when the nodes are listed alphabetically.                               *)
(***************************************************************************)
EXTENDS TestWorkflowRun, TLC

CONSTANTS a, b, c, d, w1, w2

\* executeRun cuts the topological order into the three phases.
Ordered(phase, edges, order, reads) ==
    [phase |-> phase, edges |-> edges, reads |-> reads,
     byPhase |-> [p \in Phases |-> NodesForPhase(phase, order, p)]]

\* setup -> test chain with an independent test and no teardown dependency.
Chain == Ordered((a :> "setup" @@ b :> "test" @@ c :> "test" @@ d :> "teardown"),
            {<<a, b>>, <<b, c>>}, <<a, d, b, c>>,
            (a :> {} @@ b :> {a} @@ c :> {b} @@ d :> {}))

\* A setup chain: a failure of a skips b and leaves c to run.
SetupChain == Ordered((a :> "setup" @@ b :> "setup" @@ c :> "setup" @@ d :> "test"),
            {<<a, b>>, <<b, c>>, <<c, d>>}, <<a, b, c, d>>,
            (a :> {} @@ b :> {} @@ c :> {} @@ d :> {a}))

\* No setup: a test chain whose last node reads its grandparent's export; teardown
\* depends on the first test.
TestFan == Ordered((a :> "test" @@ b :> "test" @@ c :> "test" @@ d :> "teardown"),
            {<<a, b>>, <<b, c>>, <<a, d>>}, <<a, b, d, c>>,
            (a :> {} @@ b :> {} @@ c :> {a} @@ d :> {a}))

\* Independent tests and two chained teardown nodes.
Cleanup == Ordered((a :> "test" @@ b :> "test" @@ c :> "teardown" @@ d :> "teardown"),
            {<<b, c>>, <<c, d>>}, <<a, b, c, d>>,
            (a :> {} @@ b :> {} @@ c :> {b} @@ d :> {}))

\* The smallest workflow with all three phases, for two overlapping workers.
Small == Ordered((a :> "setup" @@ b :> "test" @@ c :> "teardown"),
            {<<a, b>>, <<b, c>>}, <<a, b, c>>,
            (a :> {} @@ b :> {a} @@ c :> {}))

WorkerSymmetry == Permutations({w1, w2})
SmallOnly == {Small}
AllDefinitions == {Chain, SetupChain, TestFan, Cleanup}
ChainOnly == {Chain}
=============================================================================
