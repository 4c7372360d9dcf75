--------------------------- MODULE StepExecution ---------------------------
(***************************************************************************)
(* What a run's steps send and store.  Steps execute one after the other,  *)
(* each depending on the one before.  A step's template is interpolated    *)
(* with the environment, the test data and the values earlier steps        *)
(* exported; its request goes through the Try-it-out proxy; the response   *)
(* is asserted and exported from; the result is stored with secret values  *)
(* replaced, while later steps use the values themselves.  A worker may    *)
(* die, and the next delivery of the job starts with no values.            *)
(* A value is abstracted to its kind and to the step it comes from.        *)
(*                                                                         *)
(* Sources: backend test-workflows/runner: step-executor, node-runner,     *)
(* template, assertions, exports, redaction, error-classifier.             *)
(***************************************************************************)
EXTENDS Naturals

CONSTANTS Steps,          \* number of steps
          Names,          \* names of exported values
          Secrets,        \* the environment has secrets
          Plans,          \* the nodes a step may be
          MaxDeliveries   \* bound: deliveries of the job

Context == 0   \* where the values of the environment and of the test data come from

(***************************************************************************)
(* Values.                                                                 *)
(***************************************************************************)
Value == [kind : {"text", "number", "object", "null"}, from : 0..Steps, secret : BOOLEAN, redacted : BOOLEAN]
NoValue == [kind |-> "none", from |-> Context, secret |-> FALSE, redacted |-> FALSE]
Plain(kind, from) == [kind |-> kind, from |-> from, secret |-> FALSE, redacted |-> FALSE]

\* redactSecretValues: text that contains a secret, also inside an object.
RedactSecretValues(v) == IF v.secret THEN [v EXCEPT !.redacted = TRUE] ELSE v

\* String(v); an object becomes "[object Object]".
Stringified(v) == [v EXCEPT !.kind = "text", !.secret = @ /\ v.kind # "object"]
------------------------------------------------------------------------------
(***************************************************************************)
(* Templates, assertions and exports, as the inspector makes them.         *)
(***************************************************************************)
\* A literal, or one reference that is the whole text or embedded in some, in the body or the query.
Templates ==
    {[form |-> "literal", ns |-> "none", name |-> "none", place |-> "body"]}
    \union [form : {"pure", "embedded"}, ns : {"vars"}, name : Names, place : {"body", "query"}]
    \union [form : {"pure", "embedded"}, ns : {"env", "data"}, name : {"none"}, place : {"body"}]

Assertions ==
    [type : {"none", "responseTime"}, operator : {"lessThan"}, expected : {"number"}]
    \union [type : {"status"}, operator : {"equals", "notEquals", "in"}, expected : {"number", "list"}]
    \union [type : {"jsonPath", "header"}, operator : {"exists", "equals", "contains"}, expected : {"text"}]

Exports == [name : {"none"}, source : {"status"}] \union [name : Names, source : {"status", "header", "body"}]

\* A header, and the value a JSON path leads to, may be missing.
Responses ==
    [ok : BOOLEAN, fast : BOOLEAN, header : {"missing", "text"},
     field : {"missing", "text", "number", "object", "null"}, secret : IF Secrets THEN BOOLEAN ELSE {FALSE}]

ASSUME StepsAssumption ==
    /\ Steps \in Nat \ {0} /\ MaxDeliveries \in Nat \ {0} /\ Secrets \in BOOLEAN /\ "none" \notin Names
    /\ Plans \subseteq [template : Templates, assertion : Assertions, export : Exports]
------------------------------------------------------------------------------
VARIABLES plan,        \* each step's node
          stepStatus,  \* of each step's row
          code,        \* its error code
          stored,      \* its exportsJson
          input,       \* its inputsJson
          delivery,    \* deliveries of the job
          at,          \* the step the worker executes, 0 when it is between two
          vars,        \* accumulatedVars
          sent,        \* the value of the template in the last request of each step
          produced     \* what the response of each step gave its export

stepVars == <<plan, stepStatus, code, stored, input, delivery, at, vars, sent, produced>>

StepIds == 1..Steps
Terminal(n) == stepStatus[n] \in {"succeeded", "failed", "skipped"}
NoVars == [x \in Names |-> NoValue]

\* The step executeRun has come to, and whether one it depends on has failed.
IsNext(n) == at = 0 /\ ~Terminal(n) /\ \A m \in 1..(n - 1) : Terminal(m)
Blocked(n) == \E m \in 1..(n - 1) : stepStatus[m] = "failed"

\* An earlier step exports what is read (validateDefinitionForRun), and no two export one name.
ValidPlan(n) ==
    /\ plan[n].template.ns = "vars" => \E m \in 1..(n - 1) : plan[m].export.name = plan[n].template.name
    /\ plan[n].export.name = "none" \/ \A m \in StepIds \ {n} : plan[m].export.name # plan[n].export.name
------------------------------------------------------------------------------
(***************************************************************************)
(* Interpolation.                                                          *)
(***************************************************************************)
\* What the reference resolves to; a value of the environment is text.
ResolveRef(t) ==
    CASE t.ns = "env" -> [kind |-> "text", from |-> Context, secret |-> Secrets, redacted |-> FALSE]
      [] t.ns = "data" -> Plain("object", Context)
      [] t.ns = "vars" -> vars[t.name]
      [] OTHER -> Plain("text", Context)

\* A secret may have lost its value since the run was triggered.
InterpolationErrors(t) ==
    (IF t.ns = "env" THEN {"none", "ENV_VAR_MISSING"} ELSE {})
    \union (IF t.ns = "vars" /\ vars[t.name] = NoValue THEN {"VAR_REF_INVALID"}
            ELSE IF t.form = "embedded" /\ ResolveRef(t).kind = "object" THEN {"VAR_REF_INVALID"}
            ELSE {"none"})

\* The type is kept by a template that is the whole text; the query is a record of strings.
Interpolate(t) ==
    IF t.form = "embedded" \/ t.place = "query" THEN Stringified(ResolveRef(t)) ELSE ResolveRef(t)

\* collectedRefsToInputs, and sanitizeStepInputs when it is read.
CollectedInput(t) == IF t.form = "literal" THEN NoValue ELSE RedactSecretValues(ResolveRef(t))
------------------------------------------------------------------------------
(***************************************************************************)
(* Assertions and exports.  A verdict is a set: texts may be equal or not. *)
(***************************************************************************)
EvaluateStatus(a, r) ==
    CASE a.operator = "equals" -> {a.expected = "number" /\ r.ok}
      [] a.operator = "notEquals" -> {~(a.expected = "number" /\ r.ok)}
      [] a.operator = "in" -> {a.expected = "list" /\ r.ok}

\* What is expected was typed, so it is text and equals no number.
EvaluateJsonPath(a, r) ==
    IF r.field = "missing" THEN {FALSE}
    ELSE IF a.operator = "exists" THEN {TRUE}
    ELSE IF r.field = "text" THEN BOOLEAN ELSE {FALSE}

EvaluateHeader(a, r) ==
    IF r.header = "missing" THEN {FALSE}
    ELSE IF a.operator = "exists" THEN {TRUE} ELSE BOOLEAN

EvaluateAssertion(a, r) ==
    CASE a.type = "status" -> EvaluateStatus(a, r)
      [] a.type = "jsonPath" -> EvaluateJsonPath(a, r)
      [] a.type = "header" -> EvaluateHeader(a, r)
      [] a.type = "responseTime" -> {r.fast}
      [] OTHER -> {TRUE}

\* What the response gives an export, NoValue when it fails.
ExtractExport(n, e, r) ==
    LET text(kind) == [kind |-> kind, from |-> n, secret |-> r.secret /\ kind \in {"text", "object"}, redacted |-> FALSE]
    IN CASE e.source = "status" -> Plain("number", n)
         [] e.source = "header" -> IF r.header = "missing" THEN NoValue ELSE text(r.header)
         [] e.source = "body" -> IF r.field = "missing" THEN NoValue ELSE text(r.field)
------------------------------------------------------------------------------
(***************************************************************************)
(* Executing a step.                                                       *)
(***************************************************************************)
PersistFailed(n, why) ==
    /\ stepStatus' = [stepStatus EXCEPT ![n] = "failed"] /\ code' = [code EXCEPT ![n] = why]
    /\ at' = 0
    /\ UNCHANGED <<plan, stored, input, delivery, vars, sent, produced>>

\* markStepStatus, interpolate, and the call of the proxy.
StartStep(n) ==
    /\ IsNext(n) /\ ~Blocked(n) /\ "none" \in InterpolationErrors(plan[n].template)
    /\ at' = n /\ stepStatus' = [stepStatus EXCEPT ![n] = "running"]
    /\ sent' = [sent EXCEPT ![n] = Interpolate(plan[n].template)]
    /\ UNCHANGED <<plan, code, stored, input, delivery, vars, produced>>

StepNotSent(n) ==
    /\ IsNext(n) /\ ~Blocked(n)
    /\ \E error \in InterpolationErrors(plan[n].template) \ {"none"} : PersistFailed(n, error)

SkipBlocked(n) ==
    /\ IsNext(n) /\ Blocked(n) /\ stepStatus[n] = "queued"
    /\ stepStatus' = [stepStatus EXCEPT ![n] = "skipped"]
    /\ UNCHANGED <<plan, code, stored, input, delivery, at, vars, sent, produced>>

\* requestErrorCode: the host is refused, the call takes too long, or it fails otherwise.
RequestErrors == {"REQUEST_BLOCKED", "REQUEST_TIMEOUT", "REQUEST_FAILED"}

RequestFails == at # 0 /\ \E error \in RequestErrors : PersistFailed(at, error)

\* An export that fails leaves nothing of the response, not the assertions either.
ExportFails ==
    /\ at # 0
    /\ \E r \in Responses : ExtractExport(at, plan[at].export, r) = NoValue
    /\ PersistFailed(at, "EXPORT_FAILED")

\* Mutant: later steps use what is stored.
AccumulateStored(e, value) == IF e.name = "none" THEN vars ELSE [vars EXCEPT ![e.name] = RedactSecretValues(value)]

\* Object.assign(accumulatedVars, runtimeExports)
Accumulate(e, value) == IF e.name = "none" THEN vars ELSE [vars EXCEPT ![e.name] = value]

\* persistStep: the copies are redacted; a failed assertion exports nothing to later steps.
AnswerStep ==
    /\ at # 0 /\ at' = 0
    /\ \E r \in Responses :
       \E passed \in EvaluateAssertion(plan[at].assertion, r) :
          LET value == ExtractExport(at, plan[at].export, r) IN
          /\ value # NoValue
          /\ produced' = [produced EXCEPT ![at] = value]
          /\ stored' = [stored EXCEPT ![at] = RedactSecretValues(value)]
          /\ input' = [input EXCEPT ![at] = CollectedInput(plan[at].template)]
          /\ stepStatus' = [stepStatus EXCEPT ![at] = IF passed THEN "succeeded" ELSE "failed"]
          /\ code' = [code EXCEPT ![at] = IF passed THEN "none" ELSE "ASSERTION_FAILED"]
          /\ vars' = IF passed THEN Accumulate(plan[at].export, value) ELSE vars
    /\ UNCHANGED <<plan, delivery, sent>>

\* The worker dies; the job is delivered again and terminal steps are not executed again.
DeliveredAgain ==
    /\ delivery < MaxDeliveries /\ delivery' = delivery + 1
    /\ \E n \in StepIds : ~Terminal(n)
    /\ at' = 0 /\ vars' = NoVars
    /\ UNCHANGED <<plan, stepStatus, code, stored, input, sent, produced>>
------------------------------------------------------------------------------
StepInit ==
    /\ plan \in [StepIds -> Plans] /\ \A n \in StepIds : ValidPlan(n)
    /\ stepStatus = [n \in StepIds |-> "queued"] /\ code = [n \in StepIds |-> "none"]
    /\ stored = [n \in StepIds |-> NoValue] /\ input = [n \in StepIds |-> NoValue]
    /\ delivery = 1 /\ at = 0 /\ vars = NoVars
    /\ sent = [n \in StepIds |-> NoValue] /\ produced = [n \in StepIds |-> NoValue]

StepNext ==
    \/ \E n \in StepIds : StartStep(n) \/ StepNotSent(n) \/ SkipBlocked(n)
    \/ RequestFails \/ ExportFails \/ AnswerStep \/ DeliveredAgain

StepSpec == StepInit /\ [][StepNext]_stepVars
------------------------------------------------------------------------------
StepTypeOK ==
    /\ plan \in [StepIds -> Plans] /\ delivery \in 1..MaxDeliveries /\ at \in 0..Steps
    /\ \A n \in StepIds : {stored[n], input[n], sent[n], produced[n]} \subseteq Value \union {NoValue}
    /\ \A x \in Names : vars[x] \in Value \union {NoValue}

\* The step whose export a step reads.
Producer(n) == CHOOSE m \in 1..(n - 1) : plan[m].export.name = plan[n].template.name

(* A step that reads a value sends the one the response of its producer had, never the copy
   that was stored without secrets: the whole of it, with its type, when the reference is the
   whole of a body's field, and its text otherwise; also when the job was delivered again.  In
   the first delivery no step fails because a value it reads is missing. *)
StepsSendWhatWasProduced ==
    \A n \in StepIds : plan[n].template.ns = "vars" =>
        /\ sent[n] # NoValue =>
               /\ stepStatus[Producer(n)] = "succeeded" /\ ~sent[n].redacted /\ sent[n].from = Producer(n)
               /\ IF plan[n].template.form = "pure" /\ plan[n].template.place = "body"
                  THEN sent[n] = produced[Producer(n)]
                  ELSE sent[n].kind = "text"
        /\ delivery = 1 /\ code[n] = "VAR_REF_INVALID" =>
               plan[n].template.form = "embedded" /\ produced[Producer(n)].kind = "object"
=============================================================================
