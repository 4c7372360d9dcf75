----------------------- MODULE WebhookDelivery_proofs -----------------------
(***************************************************************************)
(* The dispatcher, its workers and BullMQ keep the promise of              *)
(* DeliveryContract, for any events, endpoints, workers, crashes and       *)
(* stalls: every step is a step of the contract or leaves its state.  And  *)
(* the delivery log is the truth for every delivery that nothing disturbed.*)
(***************************************************************************)
EXTENDS DeployDelivery, Deploys_proofs, TLAPS

DeliveryJobType == [state : {"none", "waiting", "active", "completed", "failed"}, stalls : 0..MaxJobStalls]
HoldType == [pc : {"load", "missing", "post", "record", "retry", "return", "throw"},
             to : Deliveries, attempt : Attempts, status : StatusCodes]
RowType == [attempt : Attempts, code : StatusCodes, status : {"delivered", "retrying", "failed"}]

\* What deliveries go by: jobs, workers and requests.
JobsTyped ==
    /\ delivery \in [Deliveries -> [Attempts -> DeliveryJobType]]
    /\ sender \in [Senders -> {Nobody} \union HoldType]
    /\ sent \in [Deliveries -> [Attempts -> Nat]]
    /\ acked \subseteq Deliveries

\* The rest of the type invariant.
OthersTyped ==
    /\ endpoint \in [Endpoints -> [state : EndpointStates, types : SUBSET EventTypes, readable : BOOLEAN]]
    /\ fanout \in [Events -> SUBSET Endpoints]
    /\ rows \in [Deliveries -> Seq(RowType)]
    /\ troubled \subseteq Deliveries
    /\ spent \in [faults : 0..MaxSenderFaults, edits : 0..MaxEdits]

Carries(s, d, n) == sender[s] \in HoldType /\ sender[s].to = d /\ sender[s].attempt = n

\* A worker alone holds an active job; what it knows of the attempt it has made.
HoldersKnow ==
    /\ \A s \in Senders, d \in Deliveries, n \in Attempts : Carries(s, d, n) =>
           /\ delivery[d][n].state = "active"
           /\ \A t \in Senders : Carries(t, d, n) => t = s
           /\ sender[s].pc \in {"load", "missing", "post"} => sent[d][n] <= delivery[d][n].stalls
           /\ sender[s].pc \in {"record", "retry"} => sent[d][n] > 0
           /\ sender[s].pc = "retry" => n + 1 \in Attempts

\* The job of an attempt is added after a request of the attempt before.
JobsInOrder ==
    \A d \in Deliveries, n \in Attempts : delivery[d][n].state # "none" =>
        delivery[d][1].state # "none" /\ (n > 1 => sent[d][n - 1] > 0)

\* A job that is handed out makes one request, and is handed out again when it has stalled.
RequestsCounted ==
    \A d \in Deliveries, n \in Attempts :
        /\ sent[d][n] <= delivery[d][n].stalls + 1
        /\ delivery[d][n].state = "none" => sent[d][n] = 0
        /\ delivery[d][n].state = "waiting" => sent[d][n] <= delivery[d][n].stalls

CoreInv == JobsTyped /\ HoldersKnow /\ JobsInOrder /\ RequestsCounted
HookInv == CoreInv /\ OthersTyped
------------------------------------------------------------------------------
\* There are five attempts.
LEMMA FiveAttempts == Attempts = 1..5 /\ DOMAIN RetryDelays = 1..5
  BY DEF Attempts, RetryDelays

\* No job has been added.
LEMMA HookInitHolds == HookInit => HookInv
  <1> SUFFICES ASSUME HookInit PROVE HookInv
    OBVIOUS
  <1>1. NoJob \in DeliveryJobType /\ NoJob.state = "none" /\ NoJob.stalls = 0
    BY SenderBoundsAssumption DEF NoJob, DeliveryJobType
  <1>2. JobsTyped
    BY <1>1 DEF HookInit, JobsTyped
  <1>3. Nobody \notin HoldType
    BY DEF Nobody, HoldType
  <1>4. HoldersKnow
    BY <1>3 DEF HookInit, HoldersKnow, Carries
  <1>5. JobsInOrder /\ RequestsCounted
    BY <1>1 DEF HookInit, JobsInOrder, RequestsCounted
  <1>6. OthersTyped
    <2>1. <<>> \in Seq(RowType) /\ rows = [d \in Deliveries |-> <<>>]
      BY DEF HookInit
    <2>2. rows \in [Deliveries -> Seq(RowType)]
      BY <2>1
    <2>3. spent \in [faults : 0..MaxSenderFaults, edits : 0..MaxEdits]
      BY SenderBoundsAssumption DEF HookInit
    <2> DEFINE EndpointType == [state : EndpointStates, types : SUBSET EventTypes, readable : BOOLEAN]
    <2>4. /\ [state |-> "absent", types |-> {}, readable |-> TRUE] \in EndpointType
          /\ [state |-> "enabled", types |-> EventTypes, readable |-> TRUE] \in EndpointType
      BY DEF EndpointStates
    <2>5. endpoint \in [Endpoints -> EndpointType]
      <3> HIDE DEF EndpointType
      <3> QED BY <2>4 DEF HookInit
    <2>6. fanout \in [Events -> SUBSET Endpoints] /\ troubled \subseteq Deliveries
      BY DEF HookInit
    <2> QED BY <2>2, <2>3, <2>5, <2>6 DEF OthersTyped
  <1> QED BY <1>2, <1>4, <1>5, <1>6 DEF HookInv, CoreInv

\* A worker that is not idle holds a job.
LEMMA Holding ==
    ASSUME CoreInv, NEW s \in Senders, sender[s].pc # "idle"
    PROVE  /\ sender[s] \in HoldType /\ sender[s].to \in Deliveries /\ sender[s].attempt \in Attempts
           /\ Carries(s, sender[s].to, sender[s].attempt)
  BY DEF CoreInv, JobsTyped, Nobody, HoldType, Carries

\* One job changes.
JobSet(d, n, j) ==
    /\ delivery' \in [Deliveries -> [Attempts -> DeliveryJobType]] /\ delivery'[d][n] = j
    /\ \A x \in Deliveries, k \in Attempts : x # d \/ k # n => delivery'[x][k] = delivery[x][k]

LEMMA JobChanges ==
    ASSUME JobsTyped, NEW d \in Deliveries, NEW n \in Attempts, NEW j \in DeliveryJobType,
           delivery' = [delivery EXCEPT ![d][n] = j]
    PROVE  JobSet(d, n, j)
  BY DEF JobsTyped, JobSet

\* A worker that holds a job goes on with it, and the jobs and requests stay.
LEMMA HolderGoesOn ==
    ASSUME CoreInv, NEW s \in Senders, sender[s].pc # "idle",
           NEW pc \in {"load", "missing", "post", "record", "retry", "return", "throw"}, Step(s, pc),
           UNCHANGED <<delivery, sent, acked>>,
           pc \in {"missing", "post"} => sender[s].pc = "load",
           pc # "load",
           pc \in {"record", "retry"} => sent[sender[s].to][sender[s].attempt] > 0,
           pc = "retry" => sender[s].attempt + 1 \in Attempts
    PROVE  CoreInv'
  <1>1. PICK o : o = sender[s]
    OBVIOUS
  <1>2. o \in HoldType /\ Carries(s, o.to, o.attempt)
    BY <1>1, Holding
  <1>3. PICK h : h = [o EXCEPT !.pc = pc]
    OBVIOUS
  <1>4. h \in HoldType /\ h.pc = pc /\ h.to = o.to /\ h.attempt = o.attempt
    BY <1>2, <1>3 DEF HoldType
  <1>5. sender' = [sender EXCEPT ![s] = h]
    BY <1>1, <1>3 DEF Step
  <1>6. /\ sender' \in [Senders -> {Nobody} \union HoldType] /\ sender'[s] = h
        /\ \A t \in Senders : t # s => sender'[t] = sender[t]
    BY <1>4, <1>5 DEF CoreInv, JobsTyped
  <1>7. \A t \in Senders, d \in Deliveries, n \in Attempts : Carries(t, d, n)' => Carries(t, d, n)
    BY <1>1, <1>2, <1>4, <1>6 DEF Carries
  <1>8. HoldersKnow'
    <2> SUFFICES ASSUME NEW t \in Senders, NEW d \in Deliveries, NEW n \in Attempts, Carries(t, d, n)'
                 PROVE  /\ delivery[d][n].state = "active"
                        /\ \A u \in Senders : Carries(u, d, n)' => u = t
                        /\ sender'[t].pc \in {"load", "missing", "post"} => sent[d][n] <= delivery[d][n].stalls
                        /\ sender'[t].pc \in {"record", "retry"} => sent[d][n] > 0
                        /\ sender'[t].pc = "retry" => n + 1 \in Attempts
      BY DEF HoldersKnow
    <2>1. Carries(t, d, n)
      BY <1>7
    <2>2. CASE t = s
      <3>1. o.to = d /\ o.attempt = n
        BY <1>1, <2>1, <2>2 DEF Carries
      <3> QED BY <1>1, <1>4, <1>6, <1>7, <2>1, <2>2, <3>1 DEF CoreInv, HoldersKnow
    <2>3. CASE t # s
      BY <1>6, <1>7, <2>1, <2>3 DEF CoreInv, HoldersKnow
    <2> QED BY <2>2, <2>3
  <1> QED BY <1>6, <1>8 DEF CoreInv, JobsTyped, JobsInOrder, RequestsCounted

\* A worker lets go of its job.
LEMMA HolderLeaves ==
    ASSUME CoreInv, NEW s \in Senders, sender' = [sender EXCEPT ![s] = Nobody]
    PROVE  /\ sender' \in [Senders -> {Nobody} \union HoldType]
           /\ \A t \in Senders, d \in Deliveries, n \in Attempts :
                  Carries(t, d, n)' => t # s /\ Carries(t, d, n) /\ sender'[t] = sender[t]
  <1>1. Nobody \notin HoldType
    BY DEF Nobody, HoldType
  <1> QED BY <1>1 DEF CoreInv, JobsTyped, Carries

\* A waiting job is taken.
LEMMA TakeKeeps ==
    ASSUME CoreInv, NEW s \in Senders, NEW d \in Deliveries, NEW n \in Attempts, TakeDelivery(s, d, n)
    PROVE  CoreInv'
  <1>1. PICK o : o = delivery[d][n]
    OBVIOUS
  <1>2. o \in DeliveryJobType /\ o.state = "waiting"
    BY <1>1 DEF TakeDelivery, CoreInv, JobsTyped
  <1>3. PICK j : j = [o EXCEPT !.state = "active"]
    OBVIOUS
  <1>4. j \in DeliveryJobType /\ j.state = "active" /\ j.stalls = o.stalls
    BY <1>2, <1>3 DEF DeliveryJobType
  <1>5. delivery' = [delivery EXCEPT ![d][n] = j]
    BY <1>1, <1>3 DEF TakeDelivery
  <1>6. /\ delivery' \in [Deliveries -> [Attempts -> DeliveryJobType]] /\ delivery'[d][n] = j
        /\ \A x \in Deliveries, k \in Attempts : x # d \/ k # n => delivery'[x][k] = delivery[x][k]
    <2>1. JobSet(d, n, j)
      BY <1>4, <1>5, JobChanges DEF CoreInv
    <2> QED BY <2>1 DEF JobSet
  <1>7. PICK h : h = [pc |-> "load", to |-> d, attempt |-> n, status |-> NoStatus]
    OBVIOUS
  <1>8. h \in HoldType /\ h.pc = "load" /\ h.to = d /\ h.attempt = n
    BY <1>7, StatusCodesAssumption DEF HoldType
  <1>9. sender' = [sender EXCEPT ![s] = h] /\ UNCHANGED <<sent, acked>>
    BY <1>7 DEF TakeDelivery
  <1>10. /\ sender' \in [Senders -> {Nobody} \union HoldType] /\ sender'[s] = h
         /\ \A t \in Senders : t # s => sender'[t] = sender[t]
    BY <1>8, <1>9 DEF CoreInv, JobsTyped
  <1>11. \A t \in Senders : ~Carries(t, d, n)
    BY <1>1, <1>2 DEF CoreInv, HoldersKnow
  <1>12. HoldersKnow'
    <2> SUFFICES ASSUME NEW t \in Senders, NEW x \in Deliveries, NEW k \in Attempts, Carries(t, x, k)'
                 PROVE  /\ delivery'[x][k].state = "active"
                        /\ \A u \in Senders : Carries(u, x, k)' => u = t
                        /\ sender'[t].pc \in {"load", "missing", "post"} => sent[x][k] <= delivery'[x][k].stalls
                        /\ sender'[t].pc \in {"record", "retry"} => sent[x][k] > 0
                        /\ sender'[t].pc = "retry" => k + 1 \in Attempts
      BY <1>9 DEF HoldersKnow
    <2>1. CASE t = s
      <3>1. x = d /\ k = n
        BY <1>8, <1>10, <2>1 DEF Carries
      <3>2. \A u \in Senders : Carries(u, x, k)' => u = s
        BY <1>10, <1>11, <3>1 DEF Carries
      <3>3. sent[d][n] <= o.stalls
        BY <1>1, <1>2 DEF CoreInv, RequestsCounted
      <3> QED BY <1>4, <1>6, <1>8, <1>10, <2>1, <3>1, <3>2, <3>3
    <2>2. CASE t # s
      <3>1. Carries(t, x, k) /\ sender'[t] = sender[t] /\ (x # d \/ k # n)
        BY <1>10, <1>11, <2>2 DEF Carries
      <3>2. \A u \in Senders : Carries(u, x, k)' => u = t
        BY <1>8, <1>10, <3>1 DEF CoreInv, HoldersKnow, Carries
      <3> QED BY <1>6, <3>1, <3>2 DEF CoreInv, HoldersKnow
    <2> QED BY <2>1, <2>2
  <1>13. JobsInOrder'
    BY <1>1, <1>2, <1>4, <1>6, <1>9, FiveAttempts DEF CoreInv, JobsInOrder
  <1>14. RequestsCounted'
    BY <1>1, <1>2, <1>4, <1>6, <1>9 DEF CoreInv, RequestsCounted
  <1> QED BY <1>6, <1>9, <1>10, <1>12, <1>13, <1>14 DEF CoreInv, JobsTyped

\* A job that no worker holds changes its state, and the workers stay.
LEMMA UnheldJobChanges ==
    ASSUME CoreInv, NEW d \in Deliveries, NEW n \in Attempts, NEW j \in DeliveryJobType,
           delivery' = [delivery EXCEPT ![d][n] = j], UNCHANGED <<sent, acked>>, j.state # "none",
           sender' \in [Senders -> {Nobody} \union HoldType],
           \A t \in Senders, x \in Deliveries, k \in Attempts :
               Carries(t, x, k)' => Carries(t, x, k) /\ sender'[t].pc \in {sender[t].pc, "return"} /\ (x # d \/ k # n),
           sent[d][n] <= j.stalls + 1, j.state = "waiting" => sent[d][n] <= j.stalls,
           n > 1 => delivery[d][1].state # "none" /\ sent[d][n - 1] > 0
    PROVE  CoreInv'
  <1>1. /\ delivery' \in [Deliveries -> [Attempts -> DeliveryJobType]] /\ delivery'[d][n] = j
        /\ \A x \in Deliveries, k \in Attempts : x # d \/ k # n => delivery'[x][k] = delivery[x][k]
    <2>1. JobSet(d, n, j)
      BY JobChanges DEF CoreInv
    <2> QED BY <2>1 DEF JobSet
  <1>2. HoldersKnow'
    <2> SUFFICES ASSUME NEW t \in Senders, NEW x \in Deliveries, NEW k \in Attempts, Carries(t, x, k)'
                 PROVE  /\ delivery'[x][k].state = "active"
                        /\ \A u \in Senders : Carries(u, x, k)' => u = t
                        /\ sender'[t].pc \in {"load", "missing", "post"} => sent[x][k] <= delivery'[x][k].stalls
                        /\ sender'[t].pc \in {"record", "retry"} => sent[x][k] > 0
                        /\ sender'[t].pc = "retry" => k + 1 \in Attempts
      BY DEF HoldersKnow
    <2>1. Carries(t, x, k) /\ sender'[t].pc \in {sender[t].pc, "return"} /\ delivery'[x][k] = delivery[x][k]
      BY <1>1
    <2> QED BY <2>1 DEF CoreInv, HoldersKnow
  <1>3. JobsInOrder'
    <2> SUFFICES ASSUME NEW x \in Deliveries, NEW k \in Attempts, delivery'[x][k].state # "none"
                 PROVE  delivery'[x][1].state # "none" /\ (k > 1 => sent[x][k - 1] > 0)
      BY DEF JobsInOrder
    <2>1. 1 \in Attempts
      BY FiveAttempts
    <2>2. delivery[x][1].state # "none" => delivery'[x][1].state # "none"
      BY <1>1, <2>1
    <2>3. CASE x = d /\ k = n
      BY <1>1, <2>1, <2>2, <2>3, FiveAttempts
    <2>4. CASE x # d \/ k # n
      BY <1>1, <2>2, <2>4 DEF CoreInv, JobsInOrder
    <2> QED BY <2>3, <2>4
  <1>4. RequestsCounted'
    BY <1>1 DEF CoreInv, RequestsCounted
  <1> QED BY <1>1, <1>2, <1>3, <1>4 DEF CoreInv, JobsTyped

\* A job is added, for the first attempt by the dispatcher and for the next one by the worker.
LEMMA AddKeeps ==
    ASSUME CoreInv, NEW e \in Events, NEW h \in Endpoints, NEW n \in Attempts, AddJob(e, h, n),
           UNCHANGED <<sent, acked>>, sender' \in [Senders -> {Nobody} \union HoldType],
           \A t \in Senders, x \in Deliveries, k \in Attempts :
               Carries(t, x, k)' => Carries(t, x, k) /\ sender'[t].pc \in {sender[t].pc, "return"},
           n > 1 => delivery[<<e, h>>][1].state # "none" /\ sent[<<e, h>>][n - 1] > 0
    PROVE  CoreInv'
  <1>0. PICK d : d = <<e, h>>
    OBVIOUS
  <1>1. d \in Deliveries /\ (n > 1 => delivery[d][1].state # "none" /\ sent[d][n - 1] > 0)
    BY <1>0 DEF Deliveries
  <1>2. CASE delivery[d][n].state = "none"
    <2>1. PICK j : j = [NoJob EXCEPT !.state = "waiting"]
      OBVIOUS
    <2>2. j \in DeliveryJobType /\ j.state = "waiting" /\ j.stalls = 0
      BY <2>1, SenderBoundsAssumption DEF NoJob, DeliveryJobType
    <2>3. delivery' = [delivery EXCEPT ![d][n] = j]
      BY <1>0, <1>2, <2>1 DEF AddJob
    <2>4. sent[d][n] = 0
      BY <1>1, <1>2 DEF CoreInv, RequestsCounted
    <2>5. \A t \in Senders : ~Carries(t, d, n)
      BY <1>1, <1>2 DEF CoreInv, HoldersKnow
    <2>6. \A t \in Senders, x \in Deliveries, k \in Attempts :
              Carries(t, x, k)' => Carries(t, x, k) /\ sender'[t].pc \in {sender[t].pc, "return"} /\ (x # d \/ k # n)
      BY <2>5
    <2>7. sent[d][n] <= j.stalls + 1 /\ sent[d][n] <= j.stalls
      BY <2>2, <2>4
    <2> QED BY <1>1, <2>2, <2>3, <2>6, <2>7, UnheldJobChanges
  <1>3. CASE delivery[d][n].state # "none"
    <2>1. delivery' = delivery
      BY <1>0, <1>3 DEF AddJob
    <2>2. HoldersKnow'
      BY <2>1 DEF CoreInv, HoldersKnow
    <2> QED BY <2>1, <2>2 DEF CoreInv, JobsTyped, JobsInOrder, RequestsCounted
  <1> QED BY <1>2, <1>3

\* A request is made: the attempt's job is active and had requests left.
LEMMA DeliverKeeps ==
    ASSUME CoreInv, NEW s \in Senders, Deliver(s)
    PROVE  /\ CoreInv'
           /\ delivery' = delivery
           /\ sent[sender[s].to][sender[s].attempt] <= MaxJobStalls
           /\ sent' = [sent EXCEPT ![sender[s].to][sender[s].attempt] = @ + 1]
           /\ acked' \in {acked, acked \union {sender[s].to}}
  <1>1. PICK o : o = sender[s]
    OBVIOUS
  <1>2. o \in HoldType /\ Carries(s, o.to, o.attempt) /\ o.to \in Deliveries /\ o.attempt \in Attempts /\ o.pc = "post"
    BY <1>1, Holding DEF Deliver, Sends
  <1>3. PICK code \in StatusCodes :
            /\ sender' = [sender EXCEPT ![s].pc = "record", ![s].status = code]
            /\ acked' = IF code \in 200..299 THEN acked \union {sender[s].to} ELSE acked
    BY DEF Deliver
  <1>4. sent' = [sent EXCEPT ![o.to][o.attempt] = @ + 1] /\ delivery' = delivery
    BY <1>1 DEF Deliver
  <1>5. PICK h : h = [o EXCEPT !.pc = "record", !.status = code]
    OBVIOUS
  <1>6. h \in HoldType /\ h.pc = "record" /\ h.to = o.to /\ h.attempt = o.attempt
    BY <1>2, <1>3, <1>5 DEF HoldType
  <1>7. sender' = [sender EXCEPT ![s] = h]
    BY <1>1, <1>2, <1>3, <1>5 DEF HoldType, CoreInv, JobsTyped
  <1>8. /\ sender' \in [Senders -> {Nobody} \union HoldType] /\ sender'[s] = h
        /\ \A t \in Senders : t # s => sender'[t] = sender[t]
    BY <1>6, <1>7 DEF CoreInv, JobsTyped
  <1>9. /\ sent' \in [Deliveries -> [Attempts -> Nat]] /\ sent'[o.to][o.attempt] = sent[o.to][o.attempt] + 1
        /\ \A x \in Deliveries, k \in Attempts : x # o.to \/ k # o.attempt => sent'[x][k] = sent[x][k]
    BY <1>2, <1>4 DEF CoreInv, JobsTyped
  <1>10. delivery[o.to][o.attempt].state = "active" /\ sent[o.to][o.attempt] <= delivery[o.to][o.attempt].stalls
    BY <1>1, <1>2 DEF CoreInv, HoldersKnow
  <1>11. delivery[o.to][o.attempt].stalls \in 0..MaxJobStalls
    BY <1>2 DEF CoreInv, JobsTyped, DeliveryJobType
  <1>12. \A x \in Deliveries, k \in Attempts : sent'[x][k] >= sent[x][k] /\ sent[x][k] \in Nat /\ sent'[x][k] \in Nat
    BY <1>2, <1>9 DEF CoreInv, JobsTyped
  <1>13. \A t \in Senders, x \in Deliveries, k \in Attempts : Carries(t, x, k)' => Carries(t, x, k)
    BY <1>1, <1>2, <1>6, <1>8 DEF Carries
  <1>14. HoldersKnow'
    <2> SUFFICES ASSUME NEW t \in Senders, NEW x \in Deliveries, NEW k \in Attempts, Carries(t, x, k)'
                 PROVE  /\ delivery'[x][k].state = "active"
                        /\ \A u \in Senders : Carries(u, x, k)' => u = t
                        /\ sender'[t].pc \in {"load", "missing", "post"} => sent'[x][k] <= delivery'[x][k].stalls
                        /\ sender'[t].pc \in {"record", "retry"} => sent'[x][k] > 0
                        /\ sender'[t].pc = "retry" => k + 1 \in Attempts
      BY DEF HoldersKnow
    <2>1. Carries(t, x, k)
      BY <1>13
    <2>2. delivery[x][k].state = "active" /\ \A u \in Senders : Carries(u, x, k)' => u = t
      BY <1>13, <2>1 DEF CoreInv, HoldersKnow
    <2>3. CASE t = s
      <3>1. x = o.to /\ k = o.attempt /\ sender'[t].pc = "record"
        BY <1>1, <1>6, <1>8, <2>1, <2>3 DEF Carries
      <3>2. sent'[x][k] > 0
        BY <1>2, <1>9, <3>1 DEF CoreInv, JobsTyped
      <3> QED BY <1>4, <2>2, <3>1, <3>2
    <2>4. CASE t # s
      <3>1. x # o.to \/ k # o.attempt
        BY <1>2, <2>1, <2>4 DEF CoreInv, HoldersKnow
      <3>2. sent'[x][k] = sent[x][k] /\ sender'[t] = sender[t]
        BY <1>8, <1>9, <2>4, <3>1
      <3> QED BY <1>4, <2>1, <2>2, <3>2 DEF CoreInv, HoldersKnow
    <2> QED BY <2>3, <2>4
  <1>15. JobsInOrder'
    <2> SUFFICES ASSUME NEW x \in Deliveries, NEW k \in Attempts, delivery[x][k].state # "none"
                 PROVE  delivery[x][1].state # "none" /\ (k > 1 => sent'[x][k - 1] > 0)
      BY <1>4 DEF JobsInOrder
    <2>1. delivery[x][1].state # "none" /\ (k > 1 => sent[x][k - 1] > 0)
      BY DEF CoreInv, JobsInOrder
    <2>2. k > 1 => k - 1 \in Attempts
      BY FiveAttempts
    <2> QED BY <1>12, <2>1, <2>2
  <1>16. RequestsCounted'
    <2> SUFFICES ASSUME NEW x \in Deliveries, NEW k \in Attempts
                 PROVE  /\ sent'[x][k] <= delivery[x][k].stalls + 1
                        /\ delivery[x][k].state = "none" => sent'[x][k] = 0
                        /\ delivery[x][k].state = "waiting" => sent'[x][k] <= delivery[x][k].stalls
      BY <1>4 DEF RequestsCounted
    <2>1. CASE x = o.to /\ k = o.attempt
      BY <1>9, <1>10, <1>11, <1>12, <2>1
    <2>2. CASE x # o.to \/ k # o.attempt
      BY <1>9, <2>2 DEF CoreInv, RequestsCounted
    <2> QED BY <2>1, <2>2
  <1>17. acked' \subseteq Deliveries
    BY <1>1, <1>2, <1>3 DEF CoreInv, JobsTyped
  <1>18. CoreInv'
    BY <1>4, <1>8, <1>9, <1>14, <1>15, <1>16, <1>17 DEF CoreInv, JobsTyped
  <1>19. sent[o.to][o.attempt] <= MaxJobStalls
    BY <1>2, <1>10, <1>11, <1>12, SenderBoundsAssumption
  <1> QED BY <1>1, <1>3, <1>4, <1>18, <1>19

\* The held job is finished, and an abandoned one is handed out again or fails.
LEMMA EndKeeps ==
    ASSUME CoreInv, NEW d \in Deliveries, NEW n \in Attempts, NEW j \in DeliveryJobType,
           delivery' = [delivery EXCEPT ![d][n] = j], UNCHANGED <<sent, acked>>, delivery[d][n].state = "active",
           \/ j.state \in {"completed", "failed"} /\ j.stalls = delivery[d][n].stalls
           \/ j.state = "waiting" /\ j.stalls = delivery[d][n].stalls + 1,
           sender' \in [Senders -> {Nobody} \union HoldType],
           \A t \in Senders, x \in Deliveries, k \in Attempts :
               Carries(t, x, k)' => Carries(t, x, k) /\ sender'[t] = sender[t] /\ (x # d \/ k # n)
    PROVE  CoreInv'
  <1>1. sent[d][n] <= delivery[d][n].stalls + 1
    BY DEF CoreInv, RequestsCounted
  <1>2. delivery[d][n].stalls \in Nat /\ sent[d][n] \in Nat
    BY SenderBoundsAssumption DEF CoreInv, JobsTyped, DeliveryJobType
  <1>3. n > 1 => delivery[d][1].state # "none" /\ sent[d][n - 1] > 0
    BY DEF CoreInv, JobsInOrder
  <1>4. sent[d][n] <= j.stalls + 1 /\ (j.state = "waiting" => sent[d][n] <= j.stalls) /\ j.state # "none"
    BY <1>1, <1>2
  <1> QED BY <1>3, <1>4, UnheldJobChanges
------------------------------------------------------------------------------
(***************************************************************************)
(* The contract.                                                           *)
(***************************************************************************)
stageOf == [d \in Deliveries |-> IF ~Announced(d) THEN "unannounced" ELSE IF Live(d) THEN "pending" ELSE "closed"]

ContractStep == [Contract!DeliveryNext]_(Contract!deliveryVars)

\* Steps that leave the jobs, the requests and the answers leave the contract's state.
LEMMA ContractStutters == ASSUME UNCHANGED <<delivery, sent, acked>> PROVE ContractStep
  BY DEF ContractStep, Contract!deliveryVars, Announced, Live

\* An active or waiting job belongs to a pending delivery.
LEMMA BusyIsPending ==
    ASSUME CoreInv, NEW d \in Deliveries, NEW n \in Attempts, delivery[d][n].state \in {"waiting", "active"}
    PROVE  stageOf[d] = "pending" /\ Announced(d)
  <1>1. delivery[d][1].state # "none"
    BY DEF CoreInv, JobsInOrder
  <1> QED BY <1>1 DEF stageOf, Announced, Live

\* One job changes: its delivery was pending, and stays or is closed, or it is announced.
LEMMA JobStep ==
    ASSUME CoreInv, NEW d \in Deliveries, NEW n \in Attempts, NEW j \in DeliveryJobType,
           delivery' = [delivery EXCEPT ![d][n] = j], UNCHANGED <<sent, acked>>, j.state # "none",
           \/ stageOf[d] = "pending"
           \/ n = 1 /\ delivery[d][n].state = "none" /\ j.state = "waiting"
    PROVE  ContractStep
  <1>1. /\ delivery' \in [Deliveries -> [Attempts -> DeliveryJobType]] /\ delivery'[d][n] = j
        /\ \A x \in Deliveries, k \in Attempts : x # d \/ k # n => delivery'[x][k] = delivery[x][k]
    <2>1. JobSet(d, n, j)
      BY JobChanges DEF CoreInv
    <2> QED BY <2>1 DEF JobSet
  <1>2. 1 \in Attempts
    BY FiveAttempts
  <1>3. \A x \in Deliveries : x # d => stageOf'[x] = stageOf[x]
    <2> SUFFICES ASSUME NEW x \in Deliveries, x # d PROVE stageOf'[x] = stageOf[x]
      OBVIOUS
    <2>1. Announced(x)' <=> Announced(x)
      BY <1>1, <1>2 DEF Announced
    <2>2. Live(x)' <=> Live(x)
      BY <1>1 DEF Live
    <2> QED BY <2>1, <2>2 DEF stageOf
  <1>4. Announced(d)'
    <2>1. stageOf[d] = "pending" => Announced(d)
      BY DEF stageOf
    <2> QED BY <1>1, <1>2, <2>1 DEF Announced
  <1>5. stageOf'[d] \in {"pending", "closed"}
    BY <1>4 DEF stageOf
  <1>6. CASE stageOf[d] = "pending"
    <2>1. CASE stageOf'[d] = "pending"
      <3>1. stageOf' = stageOf
        BY <1>3, <1>6, <2>1 DEF stageOf
      <3> QED BY <3>1 DEF ContractStep, Contract!deliveryVars, stageOf
    <2>2. CASE stageOf'[d] = "closed"
      <3>1. stageOf' = [stageOf EXCEPT ![d] = "closed"]
        BY <1>3, <2>2 DEF stageOf
      <3>2. Contract!CloseDelivery(d)
        BY <1>6, <3>1 DEF Contract!CloseDelivery, stageOf
      <3> QED BY <3>2 DEF ContractStep, Contract!DeliveryNext
    <2> QED BY <1>5, <2>1, <2>2
  <1>7. CASE n = 1 /\ delivery[d][n].state = "none" /\ j.state = "waiting"
    <2>1. ~Announced(d) /\ Live(d)'
      BY <1>1, <1>7 DEF Announced, Live
    <2>2. stageOf[d] = "unannounced" /\ stageOf'[d] = "pending"
      BY <1>4, <2>1 DEF stageOf
    <2>3. stageOf' = [stageOf EXCEPT ![d] = "pending"]
      BY <1>3, <2>2 DEF stageOf
    <2>4. Contract!AnnounceTo(d)
      BY <2>2, <2>3 DEF Contract!AnnounceTo, stageOf
    <2> QED BY <2>4 DEF ContractStep, Contract!DeliveryNext
  <1> QED BY <1>6, <1>7

\* A job is added: the first one announces, the next one belongs to a pending delivery.
LEMMA AddStep ==
    ASSUME CoreInv, NEW e \in Events, NEW h \in Endpoints, NEW n \in Attempts, AddJob(e, h, n),
           UNCHANGED <<sent, acked>>, n = 1 \/ stageOf[<<e, h>>] = "pending"
    PROVE  ContractStep
  <1>1. PICK d : d = <<e, h>>
    OBVIOUS
  <1>2. d \in Deliveries /\ (n = 1 \/ stageOf[d] = "pending")
    BY <1>1 DEF Deliveries
  <1>3. CASE delivery[d][n].state = "none"
    <2>1. PICK j : j = [NoJob EXCEPT !.state = "waiting"]
      OBVIOUS
    <2>2. j \in DeliveryJobType /\ j.state = "waiting"
      BY <2>1, SenderBoundsAssumption DEF NoJob, DeliveryJobType
    <2>3. delivery' = [delivery EXCEPT ![d][n] = j]
      BY <1>1, <1>3, <2>1 DEF AddJob
    <2> QED BY <1>2, <1>3, <2>2, <2>3, JobStep
  <1>4. CASE delivery[d][n].state # "none"
    <2>1. delivery' = delivery
      BY <1>1, <1>4 DEF AddJob
    <2> QED BY <2>1, ContractStutters
  <1> QED BY <1>3, <1>4

\* A request: its delivery is pending, the attempt has requests left and follows the one before.
LEMMA DeliverStep ==
    ASSUME CoreInv, NEW s \in Senders, Deliver(s)
    PROVE  ContractStep
  <1>1. PICK d, n : d = sender[s].to /\ n = sender[s].attempt
    OBVIOUS
  <1>2. d \in Deliveries /\ n \in Attempts /\ delivery[d][n].state = "active"
    BY <1>1, Holding DEF Deliver, Sends, CoreInv, HoldersKnow
  <1>3. /\ delivery' = delivery /\ sent[d][n] <= MaxJobStalls
        /\ sent' = [sent EXCEPT ![d][n] = @ + 1] /\ acked' \in {acked, acked \union {d}}
    BY <1>1, DeliverKeeps
  <1>4. n = 1 \/ (n - 1 \in Attempts /\ sent[d][n - 1] > 0)
    BY <1>2, FiveAttempts DEF CoreInv, JobsInOrder
  <1>5. stageOf[d] = "pending" /\ stageOf' = stageOf
    BY <1>2, <1>3, BusyIsPending DEF stageOf, Announced, Live
  <1>6. Contract!SendRequest(d, n)
    BY <1>3, <1>4, <1>5 DEF Contract!SendRequest, stageOf
  <1> QED BY <1>2, <1>6 DEF ContractStep, Contract!DeliveryNext
------------------------------------------------------------------------------
\* The steps of a worker keep the invariant and the contract.
LEMMA SendKeeps ==
    ASSUME CoreInv, NEW s \in Senders, Send(s) \/ SenderCallFails(s) \/ SenderCrash(s)
    PROVE  CoreInv' /\ ContractStep
  <1>1. sender[s].pc # "idle"
    BY DEF Send, SenderCallFails, SenderCrash, Sends, GetWebhookEndpoint, Deliver, RecordDeliveryAttempt,
           RecordMissingEndpoint, EnqueueRetry, DeliveryReturns, DeliveryThrows
  <1>2. PICK d, n : d = sender[s].to /\ n = sender[s].attempt
    OBVIOUS
  <1>3. d \in Deliveries /\ n \in Attempts /\ Carries(s, d, n) /\ delivery[d][n].state = "active"
    BY <1>1, <1>2, Holding DEF CoreInv, HoldersKnow
  <1>4. ASSUME NEW pc \in {"missing", "post", "retry", "return", "throw"}, Step(s, pc), UNCHANGED <<delivery, sent, acked>>,
               pc \in {"missing", "post"} => sender[s].pc = "load",
               pc = "retry" => sender[s].pc = "record" /\ sender[s].attempt + 1 \in Attempts
        PROVE  CoreInv' /\ ContractStep
    <2>1. pc = "retry" => sent[d][n] > 0
      BY <1>3, <1>2, <1>4 DEF CoreInv, HoldersKnow
    <2> QED BY <1>1, <1>2, <1>4, <2>1, HolderGoesOn, ContractStutters
  <1>5. CASE GetWebhookEndpoint(s)
    BY <1>4, <1>5 DEF GetWebhookEndpoint, Sends
  <1>6. CASE Deliver(s)
    BY <1>6, DeliverKeeps, DeliverStep
  <1>7. CASE RecordDeliveryAttempt(s)
    <2>1. HasRetry(s) => sender[s].attempt + 1 \in Attempts
      BY FiveAttempts DEF HasRetry
    <2>2. Step(s, "throw") \/ Step(s, "return") \/ (HasRetry(s) /\ Step(s, "retry"))
      BY <1>7 DEF RecordDeliveryAttempt
    <2> QED BY <1>4, <1>7, <2>1, <2>2 DEF RecordDeliveryAttempt, Sends
  <1>8. CASE RecordMissingEndpoint(s)
    <2>1. Step(s, "throw") \/ Step(s, "return")
      BY <1>8 DEF RecordMissingEndpoint
    <2> QED BY <1>4, <1>8, <2>1 DEF RecordMissingEndpoint
  <1>9. CASE EnqueueRetry(s)
    <2>1. PICK e \in Events, h \in Endpoints : d = <<e, h>>
      BY <1>3 DEF Deliveries
    <2>2. d[1] = e /\ d[2] = h
      BY <2>1
    <2>3. AddJob(e, h, n + 1) /\ UNCHANGED <<sent, acked>> /\ sender' = [sender EXCEPT ![s].pc = "return"]
      BY <1>2, <1>9, <2>2 DEF EnqueueRetry, Step
    <2>4. n + 1 \in Attempts /\ sent[d][n] > 0
      BY <1>2, <1>3, <1>9 DEF EnqueueRetry, Sends, CoreInv, HoldersKnow
    <2>5. PICK x : x = [sender[s] EXCEPT !.pc = "return"]
      OBVIOUS
    <2>6. x \in HoldType /\ x.pc = "return" /\ x.to = d /\ x.attempt = n
      BY <1>1, <1>2, <2>5, Holding DEF HoldType
    <2>7. /\ sender' \in [Senders -> {Nobody} \union HoldType] /\ sender'[s] = x
          /\ \A t \in Senders : t # s => sender'[t] = sender[t]
      BY <2>3, <2>5, <2>6 DEF CoreInv, JobsTyped
    <2>8. \A t \in Senders, y \in Deliveries, k \in Attempts :
              Carries(t, y, k)' => Carries(t, y, k) /\ sender'[t].pc \in {sender[t].pc, "return"}
      BY <1>3, <2>6, <2>7 DEF Carries
    <2>9. delivery[d][1].state # "none" /\ stageOf[d] = "pending"
      BY <1>3, BusyIsPending DEF CoreInv, JobsInOrder
    <2>10. n \in Nat /\ (n + 1) - 1 = n
      BY <1>3, FiveAttempts
    <2>11. CoreInv'
      BY <2>1, <2>3, <2>4, <2>7, <2>8, <2>9, <2>10, AddKeeps
    <2>12. ContractStep
      BY <2>1, <2>3, <2>4, <2>9, AddStep
    <2> QED BY <2>11, <2>12
  <1>10. ASSUME NEW end \in {"completed", "failed"}, Finish(s, end) PROVE CoreInv' /\ ContractStep
    <2>1. PICK j : j = [delivery[d][n] EXCEPT !.state = end]
      OBVIOUS
    <2>2. j \in DeliveryJobType /\ j.state = end /\ j.stalls = delivery[d][n].stalls
      BY SMTT(60), <1>3, <2>1 DEF CoreInv, JobsTyped, DeliveryJobType
    <2>3. delivery' = [delivery EXCEPT ![d][n] = j] /\ UNCHANGED <<sent, acked>> /\ sender' = [sender EXCEPT ![s] = Nobody]
      BY <1>2, <1>10, <2>1 DEF Finish
    <2>4. sender' \in [Senders -> {Nobody} \union HoldType]
          /\ \A t \in Senders, x \in Deliveries, k \in Attempts :
                 Carries(t, x, k)' => Carries(t, x, k) /\ sender'[t] = sender[t] /\ (x # d \/ k # n)
      <3>1. \A t \in Senders : Carries(t, d, n) => t = s
        BY <1>3 DEF CoreInv, HoldersKnow
      <3>2. /\ sender' \in [Senders -> {Nobody} \union HoldType]
            /\ \A t \in Senders, x \in Deliveries, k \in Attempts :
                   Carries(t, x, k)' => t # s /\ Carries(t, x, k) /\ sender'[t] = sender[t]
        BY <2>3, HolderLeaves
      <3> QED BY <3>1, <3>2
    <2>5. CoreInv'
      BY <1>3, <2>2, <2>3, <2>4, EndKeeps
    <2>6. ContractStep
      BY <1>3, <2>2, <2>3, BusyIsPending, JobStep
    <2> QED BY <2>5, <2>6
  <1>11. CASE DeliveryReturns(s) \/ DeliveryThrows(s)
    BY <1>10, <1>11 DEF DeliveryReturns, DeliveryThrows
  <1>12. CASE SenderCallFails(s)
    BY <1>4, <1>12 DEF SenderCallFails
  <1>13. CASE SenderCrash(s)
    <2>1. sender' = [sender EXCEPT ![s] = Nobody] /\ UNCHANGED <<delivery, sent, acked>>
      BY <1>13 DEF SenderCrash
    <2>2. /\ sender' \in [Senders -> {Nobody} \union HoldType]
          /\ \A t \in Senders, x \in Deliveries, k \in Attempts :
                 Carries(t, x, k)' => t # s /\ Carries(t, x, k) /\ sender'[t] = sender[t]
      BY <2>1, HolderLeaves
    <2>3. HoldersKnow'
      BY <2>1, <2>2 DEF CoreInv, HoldersKnow
    <2>4. CoreInv'
      BY <2>1, <2>2, <2>3 DEF CoreInv, JobsTyped, JobsInOrder, RequestsCounted
    <2> QED BY <2>1, <2>4, ContractStutters
  <1> QED BY <1>5, <1>6, <1>7, <1>8, <1>9, <1>11, <1>12, <1>13 DEF Send

\* BullMQ hands out a job, or takes back the one of a dead worker.
LEMMA QueueKeeps ==
    ASSUME CoreInv, NEW d \in Deliveries, NEW n \in Attempts, Queue(d, n)
    PROVE  CoreInv' /\ ContractStep
  <1>1. ASSUME NEW s \in Senders, TakeDelivery(s, d, n) PROVE CoreInv' /\ ContractStep
    <2>1. PICK j : j = [delivery[d][n] EXCEPT !.state = "active"]
      OBVIOUS
    <2>a. delivery[d][n] \in DeliveryJobType /\ delivery[d][n].state = "waiting"
      BY <1>1 DEF TakeDelivery, CoreInv, JobsTyped
    <2>2. j \in DeliveryJobType /\ j.state = "active"
      BY <2>1, <2>a DEF DeliveryJobType
    <2>3. delivery' = [delivery EXCEPT ![d][n] = j] /\ UNCHANGED <<sent, acked>>
      BY <1>1, <2>1 DEF TakeDelivery
    <2>4. ContractStep
      BY <2>2, <2>3, <2>a, BusyIsPending, JobStep
    <2> QED BY <1>1, <2>4, TakeKeeps
  <1>2. CASE DeliveryStalls(d, n)
    <2>1. delivery[d][n] \in DeliveryJobType /\ delivery[d][n].state = "active" /\ UNCHANGED <<sender, sent, acked>>
      BY <1>2 DEF DeliveryStalls, CoreInv, JobsTyped
    <2>2. PICK j : j = IF delivery[d][n].stalls < MaxJobStalls
                       THEN [state |-> "waiting", stalls |-> delivery[d][n].stalls + 1]
                       ELSE [delivery[d][n] EXCEPT !.state = "failed"]
      OBVIOUS
    <2>3. /\ j \in DeliveryJobType
          /\ \/ j.state = "failed" /\ j.stalls = delivery[d][n].stalls
             \/ j.state = "waiting" /\ j.stalls = delivery[d][n].stalls + 1
      <3>1. CASE delivery[d][n].stalls < MaxJobStalls
        <4>1. delivery[d][n].stalls + 1 \in 0..MaxJobStalls
          BY <2>1, <3>1, SenderBoundsAssumption DEF DeliveryJobType
        <4> QED BY <2>2, <3>1, <4>1 DEF DeliveryJobType
      <3>2. CASE ~(delivery[d][n].stalls < MaxJobStalls)
        BY <2>1, <2>2, <3>2 DEF DeliveryJobType
      <3> QED BY <3>1, <3>2
    <2>4. delivery' = [delivery EXCEPT ![d][n] = j]
      BY <1>2, <2>2 DEF DeliveryStalls
    <2>5. \A t \in Senders, x \in Deliveries, k \in Attempts :
              Carries(t, x, k)' => Carries(t, x, k) /\ sender'[t] = sender[t] /\ (x # d \/ k # n)
      BY <1>2, <2>1 DEF DeliveryStalls, Held, Sends, Carries, HoldType
    <2>6. sender' \in [Senders -> {Nobody} \union HoldType]
      BY <2>1 DEF CoreInv, JobsTyped
    <2>7. CoreInv'
      BY <2>1, <2>3, <2>4, <2>5, <2>6, EndKeeps
    <2>8. ContractStep
      BY <2>1, <2>3, <2>4, BusyIsPending, JobStep
    <2> QED BY <2>7, <2>8
  <1> QED BY <1>1, <1>2 DEF Queue

\* The dashboard and the fan-out.
LEMMA AnnounceKeeps ==
    ASSUME CoreInv, NEW e \in Events, NEW h \in Endpoints, EnqueueDelivery(e, h)
    PROVE  CoreInv' /\ ContractStep
  <1>1. AddJob(e, h, 1) /\ UNCHANGED <<sender, sent, acked>> /\ 1 \in Attempts
    BY FiveAttempts DEF EnqueueDelivery
  <1>2. ContractStep
    BY <1>1, AddStep
  <1>3. sender' \in [Senders -> {Nobody} \union HoldType]
    BY <1>1 DEF CoreInv, JobsTyped
  <1>4. \A t \in Senders, x \in Deliveries, k \in Attempts :
            Carries(t, x, k)' => Carries(t, x, k) /\ sender'[t].pc \in {sender[t].pc, "return"}
    BY <1>1 DEF Carries
  <1>5. CoreInv'
    <2>1. ~(1 > 1)
      OBVIOUS
    <2> QED BY <1>1, <1>3, <1>4, <2>1, AddKeeps
  <1> QED BY <1>2, <1>5

\* The steps that no job, worker or request takes part in.
LEMMA OutsideKeeps ==
    ASSUME CoreInv, UNCHANGED <<delivery, sender, sent, acked>>
    PROVE  CoreInv' /\ ContractStep
  <1>1. HoldersKnow'
    BY DEF CoreInv, HoldersKnow, Carries
  <1>2. CoreInv'
    BY <1>1 DEF CoreInv, JobsTyped, JobsInOrder, RequestsCounted
  <1> QED BY <1>2, ContractStutters
------------------------------------------------------------------------------
EndpointType == [state : EndpointStates, types : SUBSET EventTypes, readable : BOOLEAN]

\* An edit is counted, and a fault.
LEMMA SpentTyped ==
    ASSUME OthersTyped, (\E h \in Endpoints : Edit(h)) \/ (\E d \in Deliveries : SenderFault(d))
    PROVE  spent' \in [faults : 0..MaxSenderFaults, edits : 0..MaxEdits] /\ troubled' \subseteq Deliveries
  <1>1. spent \in [faults : 0..MaxSenderFaults, edits : 0..MaxEdits] /\ troubled \subseteq Deliveries
    BY DEF OthersTyped
  <1>2. ASSUME NEW h \in Endpoints, Edit(h)
        PROVE spent' \in [faults : 0..MaxSenderFaults, edits : 0..MaxEdits] /\ troubled' \subseteq Deliveries
    <2>1. spent.edits + 1 \in 0..MaxEdits
      BY <1>1, <1>2, SenderBoundsAssumption DEF Edit
    <2> QED BY <1>1, <1>2, <2>1 DEF Edit
  <1>3. ASSUME NEW d \in Deliveries, SenderFault(d)
        PROVE spent' \in [faults : 0..MaxSenderFaults, edits : 0..MaxEdits] /\ troubled' \subseteq Deliveries
    <2>1. spent.faults + 1 \in 0..MaxSenderFaults
      BY <1>1, <1>3, SenderBoundsAssumption DEF SenderFault
    <2> QED BY <1>1, <1>3, <2>1 DEF SenderFault
  <1> QED BY <1>2, <1>3

\* The dashboard's calls keep endpoints and rows typed, and leave the jobs alone.
LEMMA ManageKeeps ==
    ASSUME OthersTyped, ManageWebhooks
    PROVE  OthersTyped' /\ UNCHANGED <<delivery, sender, sent, acked>>
  <1>1. endpoint \in [Endpoints -> EndpointType]
    BY DEF OthersTyped, EndpointType
  <1>2. PICK h \in Endpoints : CreateWebhook(h) \/ UpdateWebhook(h) \/ RotateWebhookSecret(h) \/ SecretsKeyChanges(h) \/ DeleteWebhook(h)
    BY DEF ManageWebhooks
  <1>3. Edit(h) /\ UNCHANGED <<fanout, delivery, sender, sent, acked>>
    BY <1>2 DEF CreateWebhook, UpdateWebhook, RotateWebhookSecret, SecretsKeyChanges, DeleteWebhook
  <1>4. rows' \in [Deliveries -> Seq(RowType)]
    <2>1. CASE DeleteWebhook(h)
      <3>1. <<>> \in Seq(RowType)
        OBVIOUS
      <3> QED BY <2>1, <3>1 DEF DeleteWebhook, OthersTyped
    <2>2. CASE rows' = rows
      BY <2>2 DEF OthersTyped
    <2> QED BY <1>2, <2>1, <2>2 DEF CreateWebhook, UpdateWebhook, RotateWebhookSecret, SecretsKeyChanges
  <1>5. ASSUME NEW r \in EndpointType, endpoint' = [endpoint EXCEPT ![h] = r]
        PROVE endpoint' \in [Endpoints -> EndpointType]
    BY <1>1, <1>5
  <1>6. endpoint[h] \in EndpointType
    BY <1>1
  <1>7. endpoint' \in [Endpoints -> EndpointType]
    <2>1. CASE CreateWebhook(h)
      <3>1. PICK types \in SUBSET EventTypes : endpoint' = [endpoint EXCEPT ![h] = [state |-> "enabled", types |-> types, readable |-> TRUE]]
        BY <2>1 DEF CreateWebhook
      <3>2. [state |-> "enabled", types |-> types, readable |-> TRUE] \in EndpointType
        BY DEF EndpointType, EndpointStates
      <3> QED BY <1>5, <3>1, <3>2
    <2>2. CASE UpdateWebhook(h)
      <3>1. PICK on \in {"enabled", "disabled"}, types \in SUBSET EventTypes :
                endpoint' = [endpoint EXCEPT ![h].state = on, ![h].types = types]
        BY <2>2 DEF UpdateWebhook
      <3>2. PICK r : r = [endpoint[h] EXCEPT !.state = on, !.types = types]
        OBVIOUS
      <3>3. r \in EndpointType
        BY <1>6, <3>2 DEF EndpointType, EndpointStates
      <3>4. endpoint' = [endpoint EXCEPT ![h] = r]
        BY <1>1, <1>6, <3>1, <3>2 DEF EndpointType
      <3> QED BY <1>5, <3>3, <3>4
    <2>3. CASE RotateWebhookSecret(h) \/ SecretsKeyChanges(h)
      <3>1. PICK b \in BOOLEAN : endpoint' = [endpoint EXCEPT ![h].readable = b]
        BY <2>3 DEF RotateWebhookSecret, SecretsKeyChanges
      <3>2. PICK r : r = [endpoint[h] EXCEPT !.readable = b]
        OBVIOUS
      <3>3. r \in EndpointType
        BY <1>6, <3>2 DEF EndpointType
      <3> QED BY <1>5, <3>1, <3>2, <3>3
    <2>4. CASE DeleteWebhook(h)
      <3>1. PICK r : r = [endpoint[h] EXCEPT !.state = "deleted"]
        OBVIOUS
      <3>2. r \in EndpointType
        BY <1>6, <3>1 DEF EndpointType, EndpointStates
      <3>3. endpoint' = [endpoint EXCEPT ![h] = r]
        BY <2>4, <3>1 DEF DeleteWebhook
      <3> QED BY <1>5, <3>2, <3>3
    <2> QED BY <1>2, <2>1, <2>2, <2>3, <2>4
  <1> QED BY <1>3, <1>4, <1>7, SpentTyped DEF OthersTyped, EndpointType

\* The fan-out, the workers and the queue keep them typed too.
LEMMA OthersStayTyped ==
    ASSUME HookInv, HookNext, ~ManageWebhooks
    PROVE  OthersTyped'
  <1>1. OthersTyped /\ CoreInv
    BY DEF HookInv
  <1>2. ASSUME UNCHANGED <<endpoint, rows>>, fanout' \in [Events -> SUBSET Endpoints],
               UNCHANGED <<troubled, spent>> \/ \E d \in Deliveries : SenderFault(d)
        PROVE  OthersTyped'
    BY <1>1, <1>2, SpentTyped DEF OthersTyped
  <1>3. ASSUME NEW e \in Events, NEW h \in Endpoints, EnqueueDelivery(e, h) \/ EnqueueDeliveryLost(e, h)
        PROVE OthersTyped'
    <2>1. <<e, h>> \in Deliveries
      BY DEF Deliveries
    <2>2. fanout' \in [Events -> SUBSET Endpoints] /\ UNCHANGED <<endpoint, rows>>
      BY <1>1, <1>3 DEF EnqueueDelivery, EnqueueDeliveryLost, OthersTyped
    <2> QED BY <1>2, <1>3, <2>1, <2>2 DEF EnqueueDelivery, EnqueueDeliveryLost
  <1>4. ASSUME NEW e \in Events, AnnounceEvent(e) PROVE OthersTyped'
    <2>1. fanout' \in [Events -> SUBSET Endpoints]
      BY <1>1, <1>4 DEF AnnounceEvent, ListSubscribedWebhooks, Subscribed, OthersTyped
    <2> QED BY <1>2, <1>4, <2>1 DEF AnnounceEvent, ListSubscribedWebhooks
  <1>5. fanout \in [Events -> SUBSET Endpoints]
    BY <1>1 DEF OthersTyped
  <1>6. ASSUME NEW s \in Senders, SenderCallFails(s) \/ SenderCrash(s) PROVE OthersTyped'
    <2>1. sender[s].to \in Deliveries
      BY <1>1, <1>6, Holding DEF SenderCallFails, SenderCrash, Sends
    <2> QED BY <1>2, <1>5, <1>6, <2>1 DEF SenderCallFails, SenderCrash
  <1>7. ASSUME NEW s \in Senders, NEW r \in RowType, NEW d \in Deliveries, rows' = [rows EXCEPT ![d] = Append(@, r)],
               UNCHANGED <<endpoint, fanout, troubled, spent>>
        PROVE  OthersTyped'
    <2>1. rows[d] \in Seq(RowType)
      BY <1>1 DEF OthersTyped
    <2>2. Append(rows[d], r) \in Seq(RowType)
      BY <2>1
    <2> QED BY <1>1, <1>7, <2>2 DEF OthersTyped
  <1>8. ASSUME NEW s \in Senders, Send(s) PROVE OthersTyped'
    <2>1. CASE RecordDeliveryAttempt(s) \/ RecordMissingEndpoint(s)
      <3>1. sender[s] \in HoldType /\ sender[s].to \in Deliveries
        BY <1>1, <2>1, Holding DEF RecordDeliveryAttempt, RecordMissingEndpoint, Sends
      <3>2. Row(s, DeliveryStatus(s)) \in RowType /\ Row(s, "failed") \in RowType
        BY <3>1 DEF Row, RowType, HoldType, DeliveryStatus
      <3>3. CASE rows' = rows
        BY <1>2, <1>5, <2>1, <3>3 DEF RecordDeliveryAttempt, RecordMissingEndpoint
      <3>4. CASE \E r \in RowType : rows' = [rows EXCEPT ![sender[s].to] = Append(@, r)]
        BY <1>7, <2>1, <3>1, <3>4 DEF RecordDeliveryAttempt, RecordMissingEndpoint
      <3> QED BY <2>1, <3>2, <3>3, <3>4 DEF RecordDeliveryAttempt, RecordMissingEndpoint
    <2>2. CASE GetWebhookEndpoint(s) \/ Deliver(s) \/ EnqueueRetry(s) \/ DeliveryReturns(s) \/ DeliveryThrows(s)
      BY <1>2, <1>5, <2>2 DEF GetWebhookEndpoint, Deliver, EnqueueRetry, DeliveryReturns, DeliveryThrows, Finish
    <2> QED BY <1>8, <2>1, <2>2 DEF Send
  <1>9. ASSUME NEW d \in Deliveries, NEW n \in Attempts, Queue(d, n) PROVE OthersTyped'
    BY <1>2, <1>5, <1>9 DEF Queue, DeliveryStalls, TakeDelivery
  <1> QED BY <1>3, <1>4, <1>6, <1>8, <1>9 DEF HookNext, HookStep

\* Every step keeps the invariant, and is a step of the contract or a stutter.
LEMMA HookStepHolds == HookInv /\ [HookNext]_hookVars => HookInv' /\ ContractStep
  <1> SUFFICES ASSUME HookInv, [HookNext]_hookVars PROVE HookInv' /\ ContractStep
    OBVIOUS
  <1>1. CASE UNCHANGED hookVars
    <2>1. CoreInv' /\ ContractStep
      BY <1>1, OutsideKeeps DEF hookVars, HookInv
    <2> QED BY <1>1, <2>1 DEF hookVars, HookInv, OthersTyped
  <1>2. CASE HookNext /\ ManageWebhooks
    BY <1>2, ManageKeeps, OutsideKeeps DEF HookInv
  <1>3. CASE HookNext /\ ~ManageWebhooks
    <2>1. OthersTyped'
      BY <1>3, OthersStayTyped
    <2>2. ASSUME NEW e \in Events, NEW h \in Endpoints, EnqueueDeliveryLost(e, h)
          PROVE CoreInv' /\ ContractStep
      BY <2>2, OutsideKeeps DEF EnqueueDeliveryLost, HookInv
    <2>3. ASSUME NEW e \in Events, AnnounceEvent(e) PROVE CoreInv' /\ ContractStep
      BY <2>3, OutsideKeeps DEF AnnounceEvent, ListSubscribedWebhooks, HookInv
    <2>4. CoreInv' /\ ContractStep
      BY <1>3, <2>2, <2>3, AnnounceKeeps, SendKeeps, QueueKeeps DEF HookNext, HookStep, HookInv
    <2> QED BY <2>1, <2>4 DEF HookInv
  <1> QED BY <1>1, <1>2, <1>3

\* The invariant implies the types.
LEMMA HookTypes == HookInv => HookTypeOK
  <1> SUFFICES ASSUME HookInv PROVE HookTypeOK
    OBVIOUS
  <1>1. \A s \in Senders : ~Sends(s, "idle") => delivery[sender[s].to][sender[s].attempt].state = "active"
    BY Holding DEF HookInv, Sends, CoreInv, HoldersKnow
  <1>2. sender \in [Senders -> [pc : {"idle"}] \union HoldType]
    BY DEF HookInv, CoreInv, JobsTyped, Nobody
  <1> QED BY <1>1, <1>2 DEF HookInv, CoreInv, JobsTyped, OthersTyped, HookTypeOK, DeliveryJobType, HoldType, RowType

(* Endpoints, jobs, workers and rows keep their types, and the job that a worker holds is
   active, through crashes, stalls and edits. *)
THEOREM HookTypesCorrect == HookSpec => []HookTypeOK
  BY HookTypes, HookInitHolds, HookStepHolds, PTL DEF HookSpec

\* Nothing has been announced.
LEMMA HookInitContract == HookInit => Contract!DeliveryInit
  <1> SUFFICES ASSUME HookInit PROVE Contract!DeliveryInit
    OBVIOUS
  <1>1. \A d \in Deliveries : ~Announced(d)
    BY FiveAttempts DEF HookInit, Announced, NoJob
  <1> QED BY <1>1 DEF HookInit, Contract!DeliveryInit

(* Webhook delivery implements DeliveryContract: an event is announced to an endpoint once, its
   attempts come in order, each makes at most one request more than BullMQ hands its job out
   again, and a closed delivery makes no request, for any number of events, endpoints, workers,
   crashes and repeated announcements (webhook-dispatcher.ts:40-84).  A worker alone holds the
   active job of an attempt, and the next attempt's job is added while it does. *)
THEOREM DeliveryKeepsContractHolds == HookSpec => DeliveryKeepsContract
  <1>1. HookInit => Contract!DeliveryInit
    BY HookInitContract
  <1>2. HookInv /\ [HookNext]_hookVars => [Contract!DeliveryNext]_(Contract!deliveryVars)
    BY HookStepHolds DEF ContractStep
  <1> QED BY <1>1, <1>2, HookInitHolds, HookStepHolds, PTL DEF HookSpec, DeliveryKeepsContract,
     Contract!DeliverySpec
------------------------------------------------------------------------------
(***************************************************************************)
(* The delivery log.                                                       *)
(***************************************************************************)
\* The rows of a delivery: one for each attempt, all but the last "retrying", and "failed" for cause.
RowsFit(l) ==
    /\ Len(l) \in 0..5
    /\ \A i \in 1..Len(l) : l[i].attempt = i
    /\ \A i \in 1..(Len(l) - 1) : l[i].status = "retrying"
    /\ Len(l) > 0 =>
           /\ l[Len(l)].status = "retrying" => Len(l) < 5
           /\ l[Len(l)].status = "failed" =>
                  Len(l) = 5 \/ (l[Len(l)].code < 500 /\ l[Len(l)].code \notin {NoStatus, 408, 409, 429})

\* Another attempt is due.
Due(l) == Len(l) = 0 \/ l[Len(l)].status = "retrying"

\* The job of attempt n, which has made so many requests, when l has been recorded.
JobFits(l, n, state, made) ==
    /\ state # "failed"
    /\ n <= Len(l) => made = 1 /\ state \in {"active", "completed"}
    /\ n = Len(l) + 1 => /\ state # "completed" /\ (state # "none" => Due(l))
                         /\ state \in {"none", "waiting"} => made = 0
    /\ n > Len(l) + 1 => state = "none" /\ made = 0

\* The worker that holds it; next is the state of the next attempt's job.
HolderFits(l, n, pc, made, next) ==
    \/ n <= Len(l) /\ pc = "return"
    \/ n = Len(l) /\ pc = "retry" /\ Due(l) /\ next = "none"
    \/ n = Len(l) + 1 /\ pc \in {"load", "post"} /\ made = 0
    \/ n = Len(l) + 1 /\ pc = "record" /\ made = 1

Retries(s, d, k) == Carries(s, d, k) /\ sender[s].pc = "retry"
Heard(s, d, k) == Carries(s, d, k) /\ sender[s].pc = "record" /\ Success(sender[s].status)

\* Rows, jobs, workers and answers of one delivery tell the same story.
Log(d) ==
    /\ RowsFit(rows[d])
    /\ \A n \in Attempts : JobFits(rows[d], n, delivery[d][n].state, sent[d][n])
    /\ \A n \in Attempts : delivery[d][n].state = "active" => \E s \in Senders : Carries(s, d, n)
    /\ \A s \in Senders, n \in Attempts : Carries(s, d, n) =>
           HolderFits(rows[d], n, sender[s].pc, sent[d][n], delivery[d][n + 1].state)
    /\ Len(rows[d]) > 0 /\ Due(rows[d]) /\ delivery[d][Len(rows[d]) + 1].state = "none" =>
           \E s \in Senders : Retries(s, d, Len(rows[d]))
    /\ d \in acked <=> \/ Len(rows[d]) > 0 /\ rows[d][Len(rows[d])].status = "delivered"
                       \/ \E s \in Senders : Heard(s, d, Len(rows[d]) + 1)

\* An undisturbed delivery that is under way has its endpoint, and a deleted endpoint takes the rows along.
Sound(d) ==
    /\ Live(d) \/ d[2] \in fanout[d[1]] => Usable(d[2])
    /\ IF endpoint[d[2]].state = "deleted" THEN rows[d] = <<>> ELSE Log(d)

LogInv == \A d \in Deliveries \ troubled : Sound(d)

\* A worker that has a job of the delivery.
WorksOn(s, d) == sender[s] \in HoldType /\ sender[s].to = d

\* The log of a delivery that nothing of has changed.
LEMMA LogStays ==
    ASSUME NEW d \in Deliveries, Log(d), delivery'[d] = delivery[d], sent'[d] = sent[d], rows'[d] = rows[d],
           d \in acked' <=> d \in acked,
           \A s \in Senders : sender'[s] = sender[s] \/ (~WorksOn(s, d) /\ ~WorksOn(s, d)')
    PROVE  Log(d)'
  <1>1. \A s \in Senders : \A n : (Carries(s, d, n)' <=> Carries(s, d, n)) /\ (Carries(s, d, n) => sender'[s] = sender[s])
    BY DEF Carries, WorksOn
  <1>2. RowsFit(rows'[d]) /\ \A n \in Attempts : JobFits(rows'[d], n, delivery'[d][n].state, sent'[d][n])
    BY DEF Log
  <1>3. \A n \in Attempts : delivery'[d][n].state = "active" => \E s \in Senders : Carries(s, d, n)'
    BY <1>1 DEF Log
  <1>4. \A s \in Senders, n \in Attempts : Carries(s, d, n)' =>
            HolderFits(rows'[d], n, sender'[s].pc, sent'[d][n], delivery'[d][n + 1].state)
    BY <1>1 DEF Log
  <1>5. PICK k : k = Len(rows[d])
    OBVIOUS
  <1>6. Len(rows'[d]) = k
    BY <1>5
  <1>7. \A s \in Senders : (Retries(s, d, k)' <=> Retries(s, d, k)) /\ (Heard(s, d, k + 1)' <=> Heard(s, d, k + 1))
    BY <1>1 DEF Retries, Heard
  <1>8. k > 0 /\ Due(rows'[d]) /\ delivery'[d][k + 1].state = "none" => \E s \in Senders : Retries(s, d, k)'
    BY <1>5, <1>7 DEF Log
  <1>9. d \in acked' <=> \/ k > 0 /\ rows'[d][k].status = "delivered"
                         \/ \E s \in Senders : Heard(s, d, k + 1)'
    BY <1>5, <1>7 DEF Log
  <1> QED BY <1>2, <1>3, <1>4, <1>6, <1>8, <1>9 DEF Log, Retries, Heard

\* A delivery that a step leaves alone.
LEMMA SoundStays ==
    ASSUME NEW d \in Deliveries, Sound(d), delivery'[d] = delivery[d], sent'[d] = sent[d], rows'[d] = rows[d],
           d \in acked' <=> d \in acked,
           \A s \in Senders : sender'[s] = sender[s] \/ (~WorksOn(s, d) /\ ~WorksOn(s, d)'),
           endpoint' = endpoint, d[2] \in fanout'[d[1]] => Usable(d[2])
    PROVE  Sound(d)'
  <1>1. Live(d)' <=> Live(d)
    BY DEF Live
  <1>2. Usable(d[2])' <=> Usable(d[2])
    BY DEF Usable
  <1>3. Live(d)' \/ d[2] \in fanout'[d[1]] => Usable(d[2])'
    BY <1>1, <1>2 DEF Sound
  <1>4. CASE endpoint[d[2]].state = "deleted"
    BY <1>3, <1>4 DEF Sound
  <1>5. CASE endpoint[d[2]].state # "deleted"
    <2>1. Log(d)
      BY <1>5 DEF Sound
    <2>2. Log(d)'
      BY <2>1, LogStays
    <2> QED BY <1>3, <1>5, <2>2 DEF Sound
  <1> QED BY <1>4, <1>5

\* A delivery that has a job under way keeps its log, if it is undisturbed.
LEMMA BusyHasLog ==
    ASSUME NEW d \in Deliveries, NEW n \in Attempts, Sound(d), delivery[d][n].state \in {"waiting", "active"}
    PROVE  Log(d) /\ Usable(d[2]) /\ Exists(d[2])
  BY DEF Sound, Live, Usable, Exists

\* A step that is about one delivery.
LEMMA OneDelivery ==
    ASSUME LogInv, NEW d \in Deliveries, UNCHANGED endpoint, troubled \subseteq troubled',
           \A x \in Deliveries : x[2] \in fanout'[x[1]] => x[2] \in fanout[x[1]],
           \A x \in Deliveries : x # d => /\ delivery'[x] = delivery[x] /\ sent'[x] = sent[x] /\ rows'[x] = rows[x]
                                          /\ (x \in acked' <=> x \in acked),
           \A s \in Senders : sender'[s] = sender[s]
               \/ \A x \in Deliveries : x # d => ~WorksOn(s, x) /\ ~WorksOn(s, x)',
           d \notin troubled' /\ Sound(d) => Sound(d)'
    PROVE  LogInv'
  <1> SUFFICES ASSUME NEW x \in Deliveries, x \notin troubled' PROVE Sound(x)'
    BY DEF LogInv, Sound
  <1>1. Sound(x)
    BY DEF LogInv, Sound
  <1>2. x[2] \in fanout'[x[1]] => Usable(x[2])
    BY <1>1 DEF Sound
  <1>3. CASE x = d
    BY <1>1, <1>3
  <1>4. CASE x # d
    BY <1>1, <1>2, <1>4, SoundStays
  <1> QED BY <1>3, <1>4

\* A worker's record changes, and names the same delivery before and after.
LEMMA OneWorker ==
    ASSUME JobsTyped, NEW s \in Senders, NEW h \in {Nobody} \union HoldType, sender' = [sender EXCEPT ![s] = h],
           NEW d \in Deliveries, sender[s] = Nobody \/ WorksOn(s, d), h = Nobody \/ h.to = d
    PROVE  /\ sender'[s] = h /\ \A t \in Senders : t # s => sender'[t] = sender[t]
           /\ \A t \in Senders : sender'[t] = sender[t] \/ \A x \in Deliveries : x # d => ~WorksOn(t, x) /\ ~WorksOn(t, x)'
  <1>1. sender'[s] = h /\ \A t \in Senders : t # s => sender'[t] = sender[t]
    BY DEF JobsTyped
  <1>2. Nobody \notin HoldType
    BY DEF Nobody, HoldType
  <1> QED BY <1>1, <1>2 DEF WorksOn

\* The worker has read the endpoint, which is there, and goes on to the request.
LEMMA LoadLogs ==
    ASSUME CoreInv, NEW s \in Senders, NEW d \in Deliveries, NEW n \in Attempts, Carries(s, d, n), Log(d),
           sender[s].pc = "load", Step(s, "post"), UNCHANGED <<delivery, sent, rows, acked>>
    PROVE  Log(d)'
  <1>1. PICK h : h = [sender[s] EXCEPT !.pc = "post"]
    OBVIOUS
  <1>2. h \in HoldType /\ h.pc = "post" /\ h.to = d /\ h.attempt = n
    BY <1>1 DEF Carries, HoldType
  <1>3. sender'[s] = h /\ \A t \in Senders : t # s => sender'[t] = sender[t]
    BY <1>1 DEF Step, CoreInv, JobsTyped
  <1>4. \A t \in Senders : \A m : Carries(t, d, m)' <=> Carries(t, d, m)
    BY <1>2, <1>3 DEF Carries
  <1>5. PICK k : k = Len(rows[d])
    OBVIOUS
  <1>6. n = k + 1 /\ sent[d][n] = 0
    BY <1>5 DEF Log, HolderFits
  <1>7. \A t \in Senders, m \in Attempts : Carries(t, d, m)' =>
            HolderFits(rows[d], m, sender'[t].pc, sent[d][m], delivery[d][m + 1].state)
    <2> SUFFICES ASSUME NEW t \in Senders, NEW m \in Attempts, Carries(t, d, m)
                 PROVE  HolderFits(rows[d], m, sender'[t].pc, sent[d][m], delivery[d][m + 1].state)
      BY <1>4
    <2>1. CASE t = s
      <3>1. m = n
        BY <2>1 DEF Carries
      <3> QED BY <1>2, <1>3, <1>5, <1>6, <2>1, <3>1 DEF HolderFits
    <2>2. CASE t # s
      BY <1>3, <2>2 DEF Log
    <2> QED BY <2>1, <2>2
  <1>8. \A t \in Senders : (Retries(t, d, k)' <=> Retries(t, d, k)) /\ (Heard(t, d, k + 1)' <=> Heard(t, d, k + 1))
    <2>1. \A t \in Senders : t # s => (Retries(t, d, k)' <=> Retries(t, d, k)) /\ (Heard(t, d, k + 1)' <=> Heard(t, d, k + 1))
      BY <1>3, <1>4 DEF Retries, Heard
    <2>2. ~Retries(s, d, k) /\ ~Retries(s, d, k)' /\ ~Heard(s, d, k + 1) /\ ~Heard(s, d, k + 1)'
      BY <1>2, <1>3 DEF Retries, Heard
    <2> QED BY <2>1, <2>2
  <1>9. \A m \in Attempts : delivery[d][m].state = "active" => \E t \in Senders : Carries(t, d, m)'
    BY <1>4 DEF Log
  <1> QED BY <1>5, <1>7, <1>8, <1>9 DEF Log, Retries, Heard

\* The facts about a delivery that the lemmas below go by.
LEMMA LogFacts ==
    ASSUME CoreInv, OthersTyped, NEW d \in Deliveries, Log(d)
    PROVE  /\ rows[d] \in Seq(RowType) /\ Len(rows[d]) \in 0..5
           /\ \A n \in Attempts : n \in 1..5 /\ delivery[d][n] \in DeliveryJobType /\ sent[d][n] \in Nat
           /\ \A s, t \in Senders, n \in Attempts : Carries(s, d, n) /\ Carries(t, d, n) => s = t
           /\ \A s \in Senders, n \in Attempts : Carries(s, d, n) => delivery[d][n].state = "active"
           /\ \A s \in Senders : \A n : Carries(s, d, n) => n \in Attempts
  <1>1. \A s \in Senders : \A n : Carries(s, d, n) => n \in Attempts
    BY DEF Carries, HoldType
  <1>2. rows[d] \in Seq(RowType) /\ Len(rows[d]) \in 0..5
    BY DEF OthersTyped, Log, RowsFit
  <1>3. \A n \in Attempts : n \in 1..5 /\ delivery[d][n] \in DeliveryJobType /\ sent[d][n] \in Nat
    BY FiveAttempts DEF CoreInv, JobsTyped
  <1> QED BY <1>1, <1>2, <1>3 DEF CoreInv, HoldersKnow

\* A request has been answered.
LEMMA DeliverLogs ==
    ASSUME CoreInv, OthersTyped, NEW s \in Senders, NEW d \in Deliveries, NEW n \in Attempts, Carries(s, d, n), Log(d), Deliver(s)
    PROVE  Log(d)'
  <1>0. sender[s].to = d /\ sender[s].attempt = n /\ sender[s].pc = "post" /\ UNCHANGED <<delivery, rows>>
    BY DEF Carries, Deliver, Sends
  <1>1. PICK code \in StatusCodes :
            /\ sender' = [sender EXCEPT ![s].pc = "record", ![s].status = code]
            /\ acked' = IF code \in 200..299 THEN acked \union {d} ELSE acked
    BY ZenonT(60), <1>0 DEF Deliver
  <1>2. PICK h : h = [sender[s] EXCEPT !.pc = "record", !.status = code]
    OBVIOUS
  <1>3. h \in HoldType /\ h.pc = "record" /\ h.to = d /\ h.attempt = n /\ h.status = code
    BY <1>2 DEF Carries, HoldType
  <1>4. sender'[s] = h /\ \A t \in Senders : t # s => sender'[t] = sender[t]
    <2>1. sender' = [sender EXCEPT ![s] = h]
      BY <1>1, <1>2 DEF CoreInv, JobsTyped, Carries, HoldType
    <2> QED BY <2>1 DEF CoreInv, JobsTyped
  <1>5. \A t \in Senders : \A m : Carries(t, d, m)' <=> Carries(t, d, m)
    BY <1>3, <1>4 DEF Carries
  <1>6. PICK k : k = Len(rows[d])
    OBVIOUS
  <1>7. n = k + 1 /\ sent[d][n] = 0 /\ k \in 0..5
    BY <1>0, <1>6, LogFacts DEF Log, HolderFits
  <1>8. sent'[d][n] = 1 /\ \A m \in Attempts : m # n => sent'[d][m] = sent[d][m]
    BY <1>0, <1>7 DEF Deliver, CoreInv, JobsTyped
  <1>9. delivery[d][n].state = "active" /\ Due(rows[d])
    BY <1>6, <1>7, LogFacts DEF Log, JobFits
  <1>10. \A m \in Attempts : JobFits(rows[d], m, delivery[d][m].state, sent'[d][m])
    <2> TAKE m \in Attempts
    <2>1. JobFits(rows[d], m, delivery[d][m].state, sent[d][m])
      BY DEF Log
    <2>2. CASE m = n
      BY <1>6, <1>7, <1>8, <1>9, <2>1, <2>2 DEF JobFits
    <2>3. CASE m # n
      BY <1>8, <2>1, <2>3
    <2> QED BY <2>2, <2>3
  <1>11. \A t \in Senders, m \in Attempts : Carries(t, d, m)' =>
            HolderFits(rows[d], m, sender'[t].pc, sent'[d][m], delivery[d][m + 1].state)
    <2> SUFFICES ASSUME NEW t \in Senders, NEW m \in Attempts, Carries(t, d, m)
                 PROVE  HolderFits(rows[d], m, sender'[t].pc, sent'[d][m], delivery[d][m + 1].state)
      BY <1>5
    <2>1. CASE t = s
      <3>1. m = n
        BY <1>0, <2>1 DEF Carries
      <3> QED BY <1>3, <1>4, <1>6, <1>7, <1>8, <2>1, <3>1 DEF HolderFits
    <2>2. CASE t # s
      <3>1. m # n
        BY <2>2, LogFacts
      <3> QED BY <1>4, <1>8, <2>2, <3>1 DEF Log
    <2> QED BY <2>1, <2>2
  <1>12. d \notin acked
    <2>1. ~(k > 0 /\ rows[d][k].status = "delivered")
      BY <1>6, <1>7, <1>9 DEF Due
    <2>2. \A t \in Senders : ~Heard(t, d, k + 1)
      BY <1>0, <1>7, LogFacts DEF Heard
    <2> QED BY <1>6, <2>1, <2>2 DEF Log
  <1>13. d \in acked' <=> Success(code)
    BY <1>1, <1>12 DEF Success
  <1>14. (\E t \in Senders : Heard(t, d, k + 1)') <=> Success(code)
    <2>1. Heard(s, d, k + 1)' <=> Success(code)
      BY <1>3, <1>4, <1>5, <1>7 DEF Heard
    <2>2. \A t \in Senders : t # s => ~Heard(t, d, k + 1)'
      BY <1>5, <1>7, LogFacts DEF Heard
    <2> QED BY <2>1, <2>2
  <1>15. ~(k > 0 /\ rows[d][k].status = "delivered")
    BY <1>6, <1>7, <1>9 DEF Due
  <1>16. delivery[d][k + 1].state # "none"
    BY <1>7, <1>9
  <1>17. \A m \in Attempts : delivery[d][m].state = "active" => \E t \in Senders : Carries(t, d, m)'
    BY <1>5 DEF Log
  <1>18. RowsFit(rows[d])
    BY DEF Log
  <1> QED BY <1>0, <1>6, <1>10, <1>11, <1>13, <1>14, <1>15, <1>16, <1>17, <1>18 DEF Log, Retries, Heard

\* An attempt has been recorded.
LEMMA RecordLogs ==
    ASSUME CoreInv, OthersTyped, NEW s \in Senders, NEW d \in Deliveries, NEW n \in Attempts, Carries(s, d, n), Log(d),
           Exists(d[2]), RecordDeliveryAttempt(s)
    PROVE  Log(d)'
  <1>0. /\ sender[s] \in HoldType /\ sender[s].to = d /\ sender[s].attempt = n /\ sender[s].pc = "record"
        /\ UNCHANGED <<delivery, sent, acked>>
    BY DEF Carries, RecordDeliveryAttempt, Sends
  <1>1. PICK pc : pc = IF HasRetry(s) THEN "retry" ELSE "return"
    OBVIOUS
  <1>2. PICK r : r = Row(s, DeliveryStatus(s))
    OBVIOUS
  <1>3. rows' = [rows EXCEPT ![d] = Append(@, r)] /\ Step(s, pc)
    BY <1>0, <1>1, <1>2 DEF RecordDeliveryAttempt
  <1>4. PICK h : h = [sender[s] EXCEPT !.pc = pc]
    OBVIOUS
  <1>5. h \in HoldType /\ h.pc = pc /\ h.to = d /\ h.attempt = n /\ h.status = sender[s].status
    BY <1>0, <1>1, <1>4 DEF HoldType
  <1>6. sender'[s] = h /\ \A t \in Senders : t # s => sender'[t] = sender[t]
    BY <1>3, <1>4 DEF Step, CoreInv, JobsTyped
  <1>7. \A t \in Senders : \A m : Carries(t, d, m)' <=> Carries(t, d, m)
    BY <1>0, <1>5, <1>6 DEF Carries
  <1>8. PICK l, k : l = rows[d] /\ k = Len(rows[d])
    OBVIOUS
  <1>9. n = k + 1 /\ sent[d][n] = 1 /\ n \in 1..5 /\ k \in 0..5
    BY <1>0, <1>8, LogFacts DEF Log, HolderFits
  <1>10. delivery[d][n].state = "active" /\ Due(l)
    BY <1>8, <1>9, LogFacts DEF Log, JobFits
  <1>11. r \in RowType /\ r.attempt = n /\ r.code = sender[s].status /\ r.status = DeliveryStatus(s)
    BY <1>0, <1>2 DEF Row, RowType, HoldType, DeliveryStatus
  <1>12. PICK a : a = Append(l, r)
    OBVIOUS
  <1>13. l \in Seq(RowType) /\ rows'[d] = a
    BY <1>3, <1>8, <1>12, LogFacts DEF OthersTyped
  <1>14. Len(a) = n /\ a[n] = r /\ \A i \in 1..k : a[i] = l[i]
    BY <1>8, <1>9, <1>11, <1>12, <1>13
  <1>15. r.status = "retrying" <=> HasRetry(s)
    BY <1>11 DEF DeliveryStatus, HasRetry
  <1>16. r.status = "delivered" <=> Success(sender[s].status)
    BY <1>11 DEF DeliveryStatus
  <1>17. HasRetry(s) => n < 5 /\ n + 1 \in Attempts
    BY <1>0, <1>9, FiveAttempts DEF HasRetry
  <1>18. r.status = "failed" => n = 5 \/ (r.code < 500 /\ r.code \notin {NoStatus, 408, 409, 429})
    <2> SUFFICES ASSUME r.status = "failed", n # 5
                 PROVE  r.code < 500 /\ r.code \notin {NoStatus, 408, 409, 429}
      OBVIOUS
    <2>1. n + 1 \in DOMAIN RetryDelays
      BY <1>9, FiveAttempts
    <2>2. ~IsRetryable(r.code)
      BY <1>0, <1>11, <2>1 DEF DeliveryStatus, HasRetry
    <2>3. r.code \in Nat
      BY <1>11, StatusCodesAssumption DEF RowType
    <2> QED BY <2>2, <2>3 DEF IsRetryable
  <1>19. RowsFit(a)
    <2>1. RowsFit(l)
      BY <1>8 DEF Log
    <2>2. \A i \in 1..n : a[i].attempt = i
      <3> TAKE i \in 1..n
      <3>1. CASE i = n
        BY <1>11, <1>14, <3>1
      <3>2. CASE i # n
        BY <1>8, <1>9, <1>14, <2>1, <3>2 DEF RowsFit
      <3> QED BY <3>1, <3>2
    <2>3. \A i \in 1..(n - 1) : a[i].status = "retrying"
      <3> TAKE i \in 1..(n - 1)
      <3>1. CASE i = k
        BY <1>8, <1>9, <1>10, <1>14, <3>1 DEF Due
      <3>2. CASE i # k
        BY <1>8, <1>9, <1>14, <2>1, <3>2 DEF RowsFit
      <3> QED BY <3>1, <3>2
    <2> QED BY <1>9, <1>14, <1>15, <1>17, <1>18, <2>2, <2>3 DEF RowsFit
  <1>20. \A m \in Attempts : JobFits(a, m, delivery[d][m].state, sent[d][m])
    <2> TAKE m \in Attempts
    <2>1. JobFits(l, m, delivery[d][m].state, sent[d][m]) /\ m \in 1..5
      BY <1>8, LogFacts DEF Log
    <2>2. CASE m = n
      BY <1>9, <1>10, <1>14, <2>2 DEF JobFits
    <2>3. CASE m < n
      BY <1>8, <1>9, <1>14, <2>1, <2>3 DEF JobFits
    <2>4. CASE m > n
      BY <1>8, <1>9, <1>14, <2>1, <2>4 DEF JobFits
    <2> QED BY <1>9, <2>1, <2>2, <2>3, <2>4
  <1>21. \A t \in Senders, m \in Attempts : Carries(t, d, m)' =>
            HolderFits(a, m, sender'[t].pc, sent[d][m], delivery[d][m + 1].state)
    <2> SUFFICES ASSUME NEW t \in Senders, NEW m \in Attempts, Carries(t, d, m)
                 PROVE  HolderFits(a, m, sender'[t].pc, sent[d][m], delivery[d][m + 1].state)
      BY <1>7
    <2>1. CASE t = s
      <3>1. m = n /\ sender'[t].pc = pc
        BY <1>0, <1>5, <1>6, <2>1 DEF Carries
      <3>2. CASE HasRetry(s)
        <4>1. delivery[d][n + 1].state = "none"
          BY <1>8, <1>9, <1>17, <3>2 DEF Log, JobFits
        <4>2. Due(a)
          BY <1>14, <1>15, <3>2 DEF Due
        <4> QED BY <1>1, <1>14, <3>1, <3>2, <4>1, <4>2 DEF HolderFits
      <3>3. CASE ~HasRetry(s)
        BY <1>1, <1>9, <1>14, <3>1, <3>3 DEF HolderFits
      <3> QED BY <3>2, <3>3
    <2>2. CASE t # s
      <3>1. m # n /\ m \in 1..5
        BY <2>2, LogFacts
      <3>2. HolderFits(l, m, sender[t].pc, sent[d][m], delivery[d][m + 1].state)
        BY <1>8 DEF Log
      <3>3. m <= k /\ sender[t].pc = "return"
        <4>1. ~(m = k /\ delivery[d][m + 1].state = "none")
          BY <1>9, <1>10
        <4> QED BY <1>8, <1>9, <3>1, <3>2, <4>1 DEF HolderFits
      <3> QED BY <1>6, <1>9, <1>14, <2>2, <3>1, <3>3 DEF HolderFits
    <2> QED BY <2>1, <2>2
  <1>22. Due(a) => Retries(s, d, n)'
    <2>1. Due(a) => pc = "retry"
      BY <1>1, <1>9, <1>14, <1>15 DEF Due
    <2> QED BY <1>5, <1>6, <1>7, <2>1 DEF Retries
  <1>23. d \in acked <=> Success(sender[s].status)
    <2>1. ~(k > 0 /\ l[k].status = "delivered")
      BY <1>8, <1>9, <1>10 DEF Due
    <2>2. \A t \in Senders : Heard(t, d, k + 1) => t = s
      BY <1>9, LogFacts DEF Heard
    <2>3. Heard(s, d, k + 1) <=> Success(sender[s].status)
      BY <1>0, <1>9 DEF Heard
    <2> QED BY <1>8, <2>1, <2>2, <2>3 DEF Log
  <1>24. \A t \in Senders : ~Heard(t, d, n + 1)'
    <2> SUFFICES ASSUME NEW t \in Senders, Heard(t, d, n + 1)' PROVE FALSE
      OBVIOUS
    <2>1. Carries(t, d, n + 1)
      BY <1>7 DEF Heard
    <2>2. n + 1 \in Attempts /\ delivery[d][n + 1].state = "active"
      BY <2>1, LogFacts
    <2>3. delivery[d][n + 1].state = "none"
      BY <1>8, <1>9, <2>2 DEF Log, JobFits
    <2> QED BY <2>2, <2>3
  <1>25. d \in acked <=> n > 0 /\ a[n].status = "delivered"
    BY <1>9, <1>14, <1>16, <1>23
  <1>26. \A m \in Attempts : delivery[d][m].state = "active" => \E t \in Senders : Carries(t, d, m)'
    BY <1>7 DEF Log
  <1> QED BY <1>0, <1>13, <1>14, <1>19, <1>20, <1>21, <1>22, <1>24, <1>25, <1>26 DEF Log, Retries, Heard

\* The next attempt has been queued.
LEMMA RetryLogs ==
    ASSUME CoreInv, OthersTyped, NEW s \in Senders, NEW d \in Deliveries, NEW n \in Attempts, Carries(s, d, n), Log(d),
           EnqueueRetry(s)
    PROVE  Log(d)'
  <1>0. /\ sender[s] \in HoldType /\ sender[s].to = d /\ sender[s].attempt = n /\ sender[s].pc = "retry"
        /\ UNCHANGED <<rows, sent, acked>>
    BY DEF Carries, EnqueueRetry, Sends
  <1>1. PICK h : h = [sender[s] EXCEPT !.pc = "return"]
    OBVIOUS
  <1>2. h \in HoldType /\ h.pc = "return" /\ h.to = d /\ h.attempt = n
    BY <1>0, <1>1 DEF HoldType
  <1>3. sender'[s] = h /\ \A t \in Senders : t # s => sender'[t] = sender[t]
    BY <1>1 DEF EnqueueRetry, Step, CoreInv, JobsTyped
  <1>4. \A t \in Senders : \A m : Carries(t, d, m)' <=> Carries(t, d, m)
    BY <1>0, <1>2, <1>3 DEF Carries
  <1>5. PICK l, k : l = rows[d] /\ k = Len(rows[d])
    OBVIOUS
  <1>6. n = k /\ Due(l) /\ delivery[d][n + 1].state = "none" /\ n \in 1..5 /\ k > 0
    BY <1>0, <1>5, LogFacts DEF Log, HolderFits
  <1>7. n + 1 \in Attempts
    <2>1. n < 5
      BY <1>5, <1>6 DEF Log, RowsFit, Due
    <2> QED BY <1>6, <2>1, FiveAttempts
  <1>8. sent[d][n + 1] = 0
    BY <1>5, <1>6, <1>7 DEF Log, JobFits
  <1>9. /\ delivery'[d][n + 1].state = "waiting"
        /\ \A m \in Attempts : m # n + 1 => delivery'[d][m] = delivery[d][m]
    <2>1. PICK e \in Events, w \in Endpoints : d = <<e, w>>
      BY DEF Deliveries
    <2>2. PICK j : j = [NoJob EXCEPT !.state = "waiting"]
      OBVIOUS
    <2>3. j \in DeliveryJobType /\ j.state = "waiting"
      BY <2>2, SenderBoundsAssumption DEF NoJob, DeliveryJobType
    <2>4. delivery' = [delivery EXCEPT ![d][n + 1] = j]
      BY <1>0, <1>6, <2>1, <2>2 DEF EnqueueRetry, AddJob
    <2>5. n + 1 \in Attempts /\ JobsTyped
      BY <1>7 DEF CoreInv
    <2>6. /\ delivery' \in [Deliveries -> [Attempts -> DeliveryJobType]] /\ delivery'[d][n + 1] = j
          /\ \A x \in Deliveries, m \in Attempts : x # d \/ m # n + 1 => delivery'[x][m] = delivery[x][m]
      <3>1. JobSet(d, n + 1, j)
        BY <2>3, <2>4, <2>5, JobChanges
      <3> QED BY <3>1 DEF JobSet
    <2> QED BY <2>3, <2>6
  <1>10. \A m \in Attempts : JobFits(l, m, delivery'[d][m].state, sent[d][m])
    <2> TAKE m \in Attempts
    <2>1. JobFits(l, m, delivery[d][m].state, sent[d][m])
      BY <1>5 DEF Log
    <2>2. CASE m = n + 1
      BY <1>5, <1>6, <1>8, <1>9, <2>2 DEF JobFits
    <2>3. CASE m # n + 1
      BY <1>9, <2>1, <2>3
    <2> QED BY <2>2, <2>3
  <1>11. \A m \in Attempts : delivery'[d][m].state = "active" => \E t \in Senders : Carries(t, d, m)'
    BY <1>4, <1>9 DEF Log
  <1>12. \A t \in Senders, m \in Attempts : Carries(t, d, m)' =>
            HolderFits(l, m, sender'[t].pc, sent[d][m], delivery'[d][m + 1].state)
    <2> SUFFICES ASSUME NEW t \in Senders, NEW m \in Attempts, Carries(t, d, m)
                 PROVE  HolderFits(l, m, sender'[t].pc, sent[d][m], delivery'[d][m + 1].state)
      BY <1>4
    <2>1. CASE t = s
      <3>1. m = n /\ sender'[t].pc = "return"
        BY <1>0, <1>2, <1>3, <2>1 DEF Carries
      <3> QED BY <1>5, <1>6, <3>1 DEF HolderFits
    <2>2. CASE t # s
      <3>1. m # n /\ m \in 1..5 /\ delivery[d][m].state = "active"
        BY <2>2, LogFacts
      <3>2. m # k + 1
        BY <1>6, <3>1
      <3>3. m <= k /\ sender[t].pc = "return"
        BY <1>5, <1>6, <3>1, <3>2 DEF Log, HolderFits
      <3> QED BY <1>3, <1>5, <2>2, <3>3 DEF HolderFits
    <2> QED BY <2>1, <2>2
  <1>13. delivery'[d][k + 1].state # "none"
    BY <1>6, <1>9
  <1>14. \A t \in Senders : Heard(t, d, k + 1)' <=> Heard(t, d, k + 1)
    <2>1. \A t \in Senders : ~Carries(t, d, k + 1)
      BY <1>6, <1>7, LogFacts
    <2> QED BY <1>4, <2>1 DEF Heard
  <1>15. d \in acked <=> (k > 0 /\ l[k].status = "delivered") \/ \E t \in Senders : Heard(t, d, k + 1)'
    BY <1>5, <1>14 DEF Log
  <1>16. RowsFit(l) /\ rows'[d] = l
    BY <1>0, <1>5 DEF Log
  <1> QED BY <1>0, <1>5, <1>10, <1>11, <1>12, <1>13, <1>15, <1>16 DEF Log, Retries, Heard

\* A job has been done.
LEMMA ReturnLogs ==
    ASSUME CoreInv, OthersTyped, NEW s \in Senders, NEW d \in Deliveries, NEW n \in Attempts, Carries(s, d, n), Log(d),
           DeliveryReturns(s)
    PROVE  Log(d)'
  <1>0. /\ sender[s] \in HoldType /\ sender[s].to = d /\ sender[s].attempt = n /\ sender[s].pc = "return"
        /\ UNCHANGED <<rows, sent, acked>> /\ sender' = [sender EXCEPT ![s] = Nobody]
    BY DEF Carries, DeliveryReturns, Finish, Sends
  <1>1. /\ \A t \in Senders, x \in Deliveries, m \in Attempts :
               Carries(t, x, m)' => t # s /\ Carries(t, x, m) /\ sender'[t] = sender[t]
        /\ \A t \in Senders : t # s => sender'[t] = sender[t]
    BY <1>0, HolderLeaves DEF CoreInv, JobsTyped
  <1>2. PICK l, k : l = rows[d] /\ k = Len(rows[d])
    OBVIOUS
  <1>3. n <= k /\ n \in 1..5 /\ k \in 0..5
    BY <1>0, <1>2, LogFacts DEF Log, HolderFits
  <1>4. /\ delivery'[d][n].state = "completed"
        /\ \A m \in Attempts : m # n => delivery'[d][m] = delivery[d][m]
    <2>1. PICK j : j = [delivery[d][n] EXCEPT !.state = "completed"]
      OBVIOUS
    <2>2. j \in DeliveryJobType /\ j.state = "completed"
      BY <2>1, LogFacts DEF DeliveryJobType
    <2>3. delivery' = [delivery EXCEPT ![d][n] = j]
      BY <1>0, <2>1 DEF DeliveryReturns, Finish
    <2>5. n \in Attempts /\ JobsTyped
      BY DEF CoreInv
    <2>6. /\ delivery' \in [Deliveries -> [Attempts -> DeliveryJobType]] /\ delivery'[d][n] = j
          /\ \A x \in Deliveries, m \in Attempts : x # d \/ m # n => delivery'[x][m] = delivery[x][m]
      <3>1. JobSet(d, n, j)
        BY <2>2, <2>3, <2>5, JobChanges
      <3> QED BY <3>1 DEF JobSet
    <2> QED BY <2>2, <2>6
  <1>5. \A m \in Attempts : JobFits(l, m, delivery'[d][m].state, sent[d][m])
    <2> TAKE m \in Attempts
    <2>1. JobFits(l, m, delivery[d][m].state, sent[d][m])
      BY <1>2 DEF Log
    <2>2. CASE m = n
      BY <1>2, <1>3, <1>4, <2>1, <2>2 DEF JobFits
    <2>3. CASE m # n
      BY <1>4, <2>1, <2>3
    <2> QED BY <2>2, <2>3
  <1>6. \A m \in Attempts : delivery'[d][m].state = "active" => \E t \in Senders : Carries(t, d, m)'
    <2> SUFFICES ASSUME NEW m \in Attempts, delivery'[d][m].state = "active" PROVE \E t \in Senders : Carries(t, d, m)'
      OBVIOUS
    <2>1. m # n /\ delivery[d][m].state = "active"
      BY <1>4
    <2>2. PICK t \in Senders : Carries(t, d, m)
      BY <2>1 DEF Log
    <2>3. t # s
      BY <1>0, <2>1, <2>2 DEF Carries
    <2> QED BY <1>1, <2>2, <2>3 DEF Carries
  <1>7. \A t \in Senders, m \in Attempts : Carries(t, d, m)' =>
            HolderFits(l, m, sender'[t].pc, sent[d][m], delivery'[d][m + 1].state)
    <2> SUFFICES ASSUME NEW t \in Senders, NEW m \in Attempts, Carries(t, d, m)'
                 PROVE  HolderFits(l, m, sender'[t].pc, sent[d][m], delivery'[d][m + 1].state)
      OBVIOUS
    <2>1. Carries(t, d, m) /\ sender'[t] = sender[t] /\ m \in 1..5
      BY <1>1, LogFacts
    <2>2. HolderFits(l, m, sender[t].pc, sent[d][m], delivery[d][m + 1].state)
      BY <1>2, <2>1 DEF Log
    <2>3. CASE m = k /\ sender[t].pc = "retry"
      <3>1. delivery[d][m + 1].state = "none" /\ Due(l)
        BY <1>2, <2>2, <2>3 DEF HolderFits
      <3>2. m + 1 \in Attempts
        <4>1. m < 5
          BY <1>2, <2>1, <2>3, <3>1 DEF Log, RowsFit, Due
        <4> QED BY <2>1, <4>1, FiveAttempts
      <3>3. delivery'[d][m + 1].state = "none"
        BY <1>3, <1>4, <2>3, <3>1, <3>2
      <3> QED BY <1>2, <2>1, <2>3, <3>1, <3>3 DEF HolderFits
    <2>4. CASE ~(m = k /\ sender[t].pc = "retry")
      BY <1>2, <2>1, <2>2, <2>4 DEF HolderFits
    <2> QED BY <2>3, <2>4
  <1>8. k > 0 /\ Due(l) /\ delivery'[d][k + 1].state = "none" => \E t \in Senders : Retries(t, d, k)'
    <2> SUFFICES ASSUME k > 0, Due(l), delivery'[d][k + 1].state = "none" PROVE \E t \in Senders : Retries(t, d, k)'
      OBVIOUS
    <2>1. k < 5
      BY <1>2, <1>3 DEF Log, RowsFit, Due
    <2>2. k + 1 \in Attempts /\ k \in Attempts /\ k + 1 # n
      BY <1>3, <2>1, FiveAttempts
    <2>3. delivery[d][k + 1].state = "none"
      BY <1>4, <2>2
    <2>4. PICK t \in Senders : Retries(t, d, k)
      BY <1>2, <2>3 DEF Log
    <2>5. t # s
      BY <1>0, <2>4 DEF Retries
    <2> QED BY <1>1, <2>4, <2>5 DEF Retries, Carries
  <1>9. \A t \in Senders : Heard(t, d, k + 1)' <=> Heard(t, d, k + 1)
    <2>1. ~Heard(s, d, k + 1)
      BY <1>0 DEF Heard
    <2>2. ~Carries(s, d, k + 1)'
      <3>1. Nobody \notin HoldType
        BY DEF Nobody, HoldType
      <3> QED BY <1>0, <3>1 DEF Carries, CoreInv, JobsTyped
    <2>3. \A t \in Senders : t # s => sender'[t] = sender[t]
      BY <1>1
    <2> QED BY <2>1, <2>2, <2>3 DEF Heard, Carries
  <1>10. d \in acked <=> (k > 0 /\ l[k].status = "delivered") \/ \E t \in Senders : Heard(t, d, k + 1)'
    BY <1>2, <1>9 DEF Log
  <1>11. RowsFit(l) /\ rows'[d] = l
    BY <1>0, <1>2 DEF Log
  <1> QED BY <1>0, <1>2, <1>5, <1>6, <1>7, <1>8, <1>10, <1>11 DEF Log, Retries, Heard

\* A waiting job of an undisturbed delivery is the one that is due.
LEMMA WaitingIsDue ==
    ASSUME CoreInv, OthersTyped, NEW d \in Deliveries, NEW n \in Attempts, Log(d), delivery[d][n].state = "waiting"
    PROVE  n = Len(rows[d]) + 1 /\ Due(rows[d]) /\ sent[d][n] = 0 /\ \A t \in Senders : ~Carries(t, d, n)
  <1>1. JobFits(rows[d], n, "waiting", sent[d][n]) /\ Len(rows[d]) \in 0..5 /\ n \in 1..5
    BY LogFacts DEF Log
  <1>2. n = Len(rows[d]) + 1
    BY <1>1 DEF JobFits
  <1> QED BY <1>1, <1>2, LogFacts DEF JobFits

\* A worker has taken the job.
LEMMA TakeLogs ==
    ASSUME CoreInv, OthersTyped, NEW s \in Senders, NEW d \in Deliveries, NEW n \in Attempts, Log(d), TakeDelivery(s, d, n)
    PROVE  Log(d)'
  <1>0. UNCHANGED <<rows, sent, acked>> /\ sender[s].pc = "idle" /\ delivery[d][n].state = "waiting"
    BY DEF TakeDelivery, Sends
  <1>1. PICK l, k : l = rows[d] /\ k = Len(rows[d])
    OBVIOUS
  <1>2. n = k + 1 /\ Due(l) /\ sent[d][n] = 0 /\ \A t \in Senders : ~Carries(t, d, n)
    BY <1>0, <1>1, WaitingIsDue
  <1>3. k \in 0..5
    BY <1>1, LogFacts
  <1>4. PICK h : h = [pc |-> "load", to |-> d, attempt |-> n, status |-> NoStatus]
    OBVIOUS
  <1>5. h \in HoldType /\ h.pc = "load" /\ h.to = d /\ h.attempt = n
    BY <1>4, StatusCodesAssumption DEF HoldType
  <1>6. sender'[s] = h /\ \A t \in Senders : t # s => sender'[t] = sender[t]
    BY <1>4 DEF TakeDelivery, CoreInv, JobsTyped
  <1>7. \A m : ~Carries(s, d, m)
    BY <1>0 DEF Carries, HoldType
  <1>8. \A t \in Senders : \A m : Carries(t, d, m)' <=> Carries(t, d, m) \/ (t = s /\ m = n)
    BY <1>5, <1>6, <1>7 DEF Carries
  <1>9. PICK j : j = [delivery[d][n] EXCEPT !.state = "active"]
    OBVIOUS
  <1>10. j \in DeliveryJobType /\ j.state = "active"
    BY <1>9, LogFacts DEF DeliveryJobType
  <1>11. delivery' = [delivery EXCEPT ![d][n] = j] /\ JobsTyped
    BY <1>9 DEF TakeDelivery, CoreInv
  <1>12. /\ delivery' \in [Deliveries -> [Attempts -> DeliveryJobType]] /\ delivery'[d][n] = j
         /\ \A x \in Deliveries, m \in Attempts : x # d \/ m # n => delivery'[x][m] = delivery[x][m]
    <2>1. JobSet(d, n, j)
      BY <1>10, <1>11, JobChanges
    <2> QED BY <2>1 DEF JobSet
  <1>13. \A m \in Attempts : JobFits(l, m, delivery'[d][m].state, sent[d][m])
    <2> TAKE m \in Attempts
    <2>1. JobFits(l, m, delivery[d][m].state, sent[d][m])
      BY <1>1 DEF Log
    <2>2. CASE m = n
      BY <1>1, <1>2, <1>3, <1>10, <1>12, <2>2 DEF JobFits
    <2>3. CASE m # n
      BY <1>12, <2>1, <2>3
    <2> QED BY <2>2, <2>3
  <1>14. \A m \in Attempts : delivery'[d][m].state = "active" => \E t \in Senders : Carries(t, d, m)'
    BY <1>8, <1>12 DEF Log
  <1>15. \A t \in Senders, m \in Attempts : Carries(t, d, m)' =>
            HolderFits(l, m, sender'[t].pc, sent[d][m], delivery'[d][m + 1].state)
    <2> SUFFICES ASSUME NEW t \in Senders, NEW m \in Attempts, Carries(t, d, m)'
                 PROVE  HolderFits(l, m, sender'[t].pc, sent[d][m], delivery'[d][m + 1].state)
      OBVIOUS
    <2>1. CASE t = s
      <3>1. m = n
        BY <1>7, <1>8, <2>1
      <3> QED BY <1>1, <1>2, <1>5, <1>6, <2>1, <3>1 DEF HolderFits
    <2>2. CASE t # s
      <3>1. Carries(t, d, m) /\ m # n /\ m \in 1..5
        BY <1>2, <1>8, <2>2, LogFacts
      <3>2. HolderFits(l, m, sender[t].pc, sent[d][m], delivery[d][m + 1].state)
        BY <1>1, <3>1 DEF Log
      <3>3. m <= k /\ sender[t].pc = "return"
        <4>1. ~(m = k /\ delivery[d][m + 1].state = "none")
          BY <1>0, <1>2
        <4> QED BY <1>1, <1>2, <1>3, <3>1, <3>2, <4>1 DEF HolderFits
      <3> QED BY <1>1, <1>6, <2>2, <3>3 DEF HolderFits
    <2> QED BY <2>1, <2>2
  <1>16. delivery'[d][k + 1].state # "none"
    BY <1>2, <1>10, <1>12
  <1>17. \A t \in Senders : Heard(t, d, k + 1)' <=> Heard(t, d, k + 1)
    <2>1. \A t \in Senders : ~Heard(t, d, k + 1)
      BY <1>2 DEF Heard
    <2>2. \A t \in Senders : ~Heard(t, d, k + 1)'
      BY <1>2, <1>5, <1>6, <1>8 DEF Heard
    <2> QED BY <2>1, <2>2
  <1>18. d \in acked <=> (k > 0 /\ l[k].status = "delivered") \/ \E t \in Senders : Heard(t, d, k + 1)'
    BY <1>1, <1>17 DEF Log
  <1>19. RowsFit(l) /\ rows'[d] = l
    BY <1>0, <1>1 DEF Log
  <1> QED BY <1>0, <1>1, <1>13, <1>14, <1>15, <1>16, <1>18, <1>19 DEF Log, Retries, Heard

\* The first attempt has been queued.
LEMMA AnnounceLogs ==
    ASSUME CoreInv, OthersTyped, NEW d \in Deliveries, Log(d), NEW j \in DeliveryJobType, j.state = "waiting",
           delivery[d][1].state = "none", delivery' = [delivery EXCEPT ![d][1] = j], UNCHANGED <<sender, rows, sent, acked>>
    PROVE  Log(d)'
  <1>1. PICK l, k : l = rows[d] /\ k = Len(rows[d])
    OBVIOUS
  <1>2. 1 \in Attempts /\ JobsTyped
    BY FiveAttempts DEF CoreInv
  <1>3. /\ delivery' \in [Deliveries -> [Attempts -> DeliveryJobType]] /\ delivery'[d][1] = j
        /\ \A x \in Deliveries, m \in Attempts : x # d \/ m # 1 => delivery'[x][m] = delivery[x][m]
    <2>1. JobSet(d, 1, j)
      BY <1>2, JobChanges
    <2> QED BY <2>1 DEF JobSet
  <1>4. k = 0
    <2>1. JobFits(l, 1, "none", sent[d][1]) /\ k \in 0..5
      BY <1>1, <1>2, LogFacts DEF Log
    <2> QED BY <1>1, <2>1 DEF JobFits
  <1>5. sent[d][1] = 0 /\ \A t \in Senders : ~Carries(t, d, 1)
    BY <1>2, LogFacts DEF CoreInv, RequestsCounted
  <1>6. \A m \in Attempts : JobFits(l, m, delivery'[d][m].state, sent[d][m])
    <2> TAKE m \in Attempts
    <2>1. JobFits(l, m, delivery[d][m].state, sent[d][m])
      BY <1>1 DEF Log
    <2>2. CASE m = 1
      BY <1>1, <1>3, <1>4, <1>5, <2>2 DEF JobFits, Due
    <2>3. CASE m # 1
      BY <1>3, <2>1, <2>3
    <2> QED BY <2>2, <2>3
  <1>7. \A t \in Senders : \A m : Carries(t, d, m)' <=> Carries(t, d, m)
    BY DEF Carries
  <1>8. \A m \in Attempts : delivery'[d][m].state = "active" => \E t \in Senders : Carries(t, d, m)'
    BY <1>3, <1>7 DEF Log
  <1>9. \A t \in Senders, m \in Attempts : Carries(t, d, m)' =>
            HolderFits(l, m, sender[t].pc, sent[d][m], delivery'[d][m + 1].state)
    <2> SUFFICES ASSUME NEW t \in Senders, NEW m \in Attempts, Carries(t, d, m)
                 PROVE  HolderFits(l, m, sender[t].pc, sent[d][m], delivery'[d][m + 1].state)
      BY <1>7
    <2>1. HolderFits(l, m, sender[t].pc, sent[d][m], delivery[d][m + 1].state) /\ m # 1 /\ m \in 1..5
      BY <1>1, <1>5, LogFacts DEF Log
    <2> QED BY <1>1, <1>4, <2>1 DEF HolderFits
  <1>10. d \in acked <=> (k > 0 /\ l[k].status = "delivered") \/ \E t \in Senders : Heard(t, d, k + 1)'
    BY <1>1, <1>7 DEF Log, Heard
  <1>11. RowsFit(l) /\ rows'[d] = l
    BY <1>1 DEF Log
  <1> QED BY <1>1, <1>4, <1>6, <1>8, <1>9, <1>10, <1>11 DEF Log, Retries, Heard

\* Nothing has been announced: the logs are empty.
LEMMA LogInitHolds == HookInit => LogInv
  <1> SUFFICES ASSUME HookInit, NEW d \in Deliveries PROVE Sound(d)
    BY DEF LogInv, Sound
  <1>1. /\ rows[d] = <<>> /\ d \notin acked
        /\ \A n \in Attempts : delivery[d][n].state = "none" /\ sent[d][n] = 0
    BY DEF HookInit, NoJob
  <1>2. \A s \in Senders : \A n : ~Carries(s, d, n)
    <2>1. Nobody \notin HoldType
      BY DEF Nobody, HoldType
    <2> QED BY <2>1 DEF HookInit, Carries
  <1>3. ~Live(d)
    BY <1>1 DEF Live
  <1>4. d[2] \notin fanout[d[1]]
    BY DEF HookInit, Deliveries
  <1>5. Len(rows[d]) = 0
    BY <1>1
  <1>6. RowsFit(rows[d]) /\ ~(Len(rows[d]) > 0)
    BY <1>5 DEF RowsFit
  <1>7. \A n \in Attempts : JobFits(rows[d], n, delivery[d][n].state, sent[d][n])
    BY <1>1, <1>5, FiveAttempts DEF JobFits
  <1>8. Log(d)
    BY <1>1, <1>2, <1>6, <1>7 DEF Log, Heard
  <1> QED BY <1>3, <1>4, <1>8, <1>1 DEF Sound

\* The steps of a worker that holds a job, if no fault meets it.
LEMMA SendLogs ==
    ASSUME CoreInv, OthersTyped, NEW s \in Senders, NEW d \in Deliveries, NEW n \in Attempts, Carries(s, d, n), Sound(d), Send(s)
    PROVE  Sound(d)'
  <1>1. sender[s].to = d /\ sender[s].attempt = n /\ delivery[d][n].state = "active"
    BY DEF Carries, CoreInv, HoldersKnow
  <1>2. Log(d) /\ Usable(d[2]) /\ Exists(d[2])
    BY <1>1, BusyHasLog
  <1>3. endpoint' = endpoint
    BY DEF Send, GetWebhookEndpoint, Deliver, RecordDeliveryAttempt, RecordMissingEndpoint, EnqueueRetry,
           DeliveryReturns, DeliveryThrows, Finish
  <1>4. sender[s].pc \notin {"missing", "throw"}
    BY <1>2 DEF Log, HolderFits
  <1>5. Log(d)' => Sound(d)'
    BY <1>2, <1>3 DEF Sound, Usable
  <1>6. CASE GetWebhookEndpoint(s)
    <2>1. sender[s].pc = "load" /\ Step(s, "post") /\ UNCHANGED <<delivery, sent, rows, acked>>
      BY <1>1, <1>2, <1>6 DEF GetWebhookEndpoint, Sends
    <2> QED BY <1>2, <1>5, <2>1, LoadLogs
  <1>7. CASE Deliver(s)
    BY <1>2, <1>5, <1>7, DeliverLogs
  <1>8. CASE RecordDeliveryAttempt(s)
    BY <1>2, <1>5, <1>8, RecordLogs
  <1>9. CASE EnqueueRetry(s)
    BY <1>2, <1>5, <1>9, RetryLogs
  <1>10. CASE DeliveryReturns(s)
    BY <1>2, <1>5, <1>10, ReturnLogs
  <1>11. CASE RecordMissingEndpoint(s) \/ DeliveryThrows(s)
    BY <1>4, <1>11 DEF RecordMissingEndpoint, DeliveryThrows, Sends
  <1> QED BY <1>6, <1>7, <1>8, <1>9, <1>10, <1>11 DEF Send

\* What a worker's step touches: the delivery whose job it holds.
LEMMA SendTouches ==
    ASSUME CoreInv, OthersTyped, NEW s \in Senders, Send(s) \/ SenderCallFails(s) \/ SenderCrash(s),
           NEW d \in Deliveries, d = sender[s].to, NEW n \in Attempts, n = sender[s].attempt, sender[s] \in HoldType
    PROVE  /\ UNCHANGED <<endpoint, fanout>>
           /\ \A x \in Deliveries : x # d => /\ delivery'[x] = delivery[x] /\ sent'[x] = sent[x] /\ rows'[x] = rows[x]
                                             /\ (x \in acked' <=> x \in acked)
           /\ \A t \in Senders : sender'[t] = sender[t]
                  \/ \A x \in Deliveries : x # d => ~WorksOn(t, x) /\ ~WorksOn(t, x)'
  <1>1. UNCHANGED <<endpoint, fanout>>
    BY DEF Send, GetWebhookEndpoint, Deliver, RecordDeliveryAttempt, RecordMissingEndpoint, EnqueueRetry,
           DeliveryReturns, DeliveryThrows, Finish, SenderCallFails, SenderCrash
  <1>2. \A x \in Deliveries : x # d => sent'[x] = sent[x] /\ (x \in acked' <=> x \in acked)
    <2>1. CASE Deliver(s)
      BY <2>1 DEF Deliver, CoreInv, JobsTyped
    <2>2. CASE UNCHANGED <<sent, acked>>
      BY <2>2
    <2> QED BY <2>1, <2>2 DEF Send, GetWebhookEndpoint, RecordDeliveryAttempt, RecordMissingEndpoint, EnqueueRetry,
           DeliveryReturns, DeliveryThrows, Finish, SenderCallFails, SenderCrash
  <1>3. \A x \in Deliveries : x # d => rows'[x] = rows[x]
    <2>1. CASE RecordDeliveryAttempt(s) \/ RecordMissingEndpoint(s)
      BY <2>1 DEF RecordDeliveryAttempt, RecordMissingEndpoint, OthersTyped
    <2>2. CASE UNCHANGED rows
      BY <2>2
    <2> QED BY <2>1, <2>2 DEF Send, GetWebhookEndpoint, Deliver, EnqueueRetry, DeliveryReturns, DeliveryThrows,
           Finish, SenderCallFails, SenderCrash
  <1>4. \A x \in Deliveries : x # d => delivery'[x] = delivery[x]
    <2>1. CASE EnqueueRetry(s)
      <3>1. PICK e \in Events, h \in Endpoints : d = <<e, h>>
        BY DEF Deliveries
      <3>2. AddJob(e, h, n + 1)
        BY <2>1, <3>1 DEF EnqueueRetry
      <3> QED BY <3>1, <3>2 DEF AddJob, CoreInv, JobsTyped
    <2>2. CASE DeliveryReturns(s) \/ DeliveryThrows(s)
      BY <2>2 DEF DeliveryReturns, DeliveryThrows, Finish, CoreInv, JobsTyped
    <2>3. CASE UNCHANGED delivery
      BY <2>3
    <2> QED BY <2>1, <2>2, <2>3 DEF Send, GetWebhookEndpoint, Deliver, RecordDeliveryAttempt, RecordMissingEndpoint,
           SenderCallFails, SenderCrash
  <1>5. PICK h \in {Nobody} \union HoldType : (h = Nobody \/ h.to = d) /\ sender' = [sender EXCEPT ![s] = h]
    <2>1. CASE DeliveryReturns(s) \/ DeliveryThrows(s) \/ SenderCrash(s)
      BY <2>1 DEF DeliveryReturns, DeliveryThrows, Finish, SenderCrash
    <2>2. CASE Deliver(s)
      <3>1. PICK code \in StatusCodes : sender' = [sender EXCEPT ![s].pc = "record", ![s].status = code]
        BY <2>2 DEF Deliver
      <3>2. PICK h : h = [sender[s] EXCEPT !.pc = "record", !.status = code]
        OBVIOUS
      <3>3. h \in HoldType /\ h.to = d
        BY <3>2 DEF HoldType
      <3>4. sender' = [sender EXCEPT ![s] = h]
        BY <3>1, <3>2 DEF CoreInv, JobsTyped, HoldType
      <3> QED BY <3>3, <3>4
    <2>3. ASSUME NEW pc \in {"missing", "post", "retry", "return", "throw"}, Step(s, pc)
          PROVE  \E h \in {Nobody} \union HoldType : (h = Nobody \/ h.to = d) /\ sender' = [sender EXCEPT ![s] = h]
      <3>1. PICK h : h = [sender[s] EXCEPT !.pc = pc]
        OBVIOUS
      <3>2. h \in HoldType /\ h.to = d
        BY <3>1 DEF HoldType
      <3>3. sender' = [sender EXCEPT ![s] = h]
        BY <2>3, <3>1 DEF Step
      <3> QED BY <3>2, <3>3
    <2>4. CASE GetWebhookEndpoint(s) \/ RecordDeliveryAttempt(s) \/ RecordMissingEndpoint(s) \/ EnqueueRetry(s) \/ SenderCallFails(s)
      BY <2>3, <2>4 DEF GetWebhookEndpoint, RecordDeliveryAttempt, RecordMissingEndpoint, EnqueueRetry, SenderCallFails
    <2> QED BY <2>1, <2>2, <2>4 DEF Send
  <1>6. \A t \in Senders : sender'[t] = sender[t]
            \/ \A x \in Deliveries : x # d => ~WorksOn(t, x) /\ ~WorksOn(t, x)'
    <2>1. WorksOn(s, d) /\ JobsTyped
      BY DEF WorksOn, CoreInv
    <2> QED BY <1>5, <2>1, OneWorker
  <1> QED BY <1>1, <1>2, <1>3, <1>4, <1>6

\* The workers keep the logs: a fault disturbs the delivery it meets, and no other.
LEMMA WorkersKeepLogs ==
    ASSUME HookInv, LogInv, NEW s \in Senders, Send(s) \/ SenderCallFails(s) \/ SenderCrash(s)
    PROVE  LogInv'
  <1>1. CoreInv /\ OthersTyped
    BY DEF HookInv
  <1>2. sender[s].pc # "idle"
    BY DEF Send, SenderCallFails, SenderCrash, Sends, GetWebhookEndpoint, Deliver, RecordDeliveryAttempt,
           RecordMissingEndpoint, EnqueueRetry, DeliveryReturns, DeliveryThrows
  <1>3. PICK d, n : d = sender[s].to /\ n = sender[s].attempt
    OBVIOUS
  <1>4. d \in Deliveries /\ n \in Attempts /\ Carries(s, d, n) /\ sender[s] \in HoldType
    BY <1>1, <1>2, <1>3, Holding
  <1>5. /\ UNCHANGED <<endpoint, fanout>>
        /\ \A x \in Deliveries : x # d => /\ delivery'[x] = delivery[x] /\ sent'[x] = sent[x] /\ rows'[x] = rows[x]
                                          /\ (x \in acked' <=> x \in acked)
        /\ \A t \in Senders : sender'[t] = sender[t]
               \/ \A x \in Deliveries : x # d => ~WorksOn(t, x) /\ ~WorksOn(t, x)'
    BY <1>1, <1>3, <1>4, SendTouches
  <1>6. troubled \subseteq troubled' /\ (d \in troubled' \/ Send(s))
    <2>1. CASE Send(s)
      BY <2>1 DEF Send, GetWebhookEndpoint, Deliver, RecordDeliveryAttempt, RecordMissingEndpoint, EnqueueRetry,
           DeliveryReturns, DeliveryThrows, Finish
    <2>2. CASE SenderCallFails(s) \/ SenderCrash(s)
      BY <1>3, <2>2 DEF SenderCallFails, SenderCrash, SenderFault
    <2> QED BY <2>1, <2>2
  <1>7. d \notin troubled' /\ Sound(d) => Sound(d)'
    BY <1>1, <1>4, <1>6, SendLogs
  <1>8. \A x \in Deliveries : x[2] \in fanout'[x[1]] => x[2] \in fanout[x[1]]
    BY <1>5
  <1> QED BY <1>4, <1>5, <1>6, <1>7, <1>8, OneDelivery

\* So does the queue: a job that nobody holds belongs to a delivery that has met a fault.
LEMMA QueueKeepsLogs ==
    ASSUME HookInv, LogInv, NEW d \in Deliveries, NEW n \in Attempts, Queue(d, n)
    PROVE  LogInv'
  <1>1. CoreInv /\ OthersTyped /\ JobsTyped
    BY DEF HookInv, CoreInv
  <1>2. UNCHANGED <<endpoint, fanout, rows, sent, acked, troubled>> /\ delivery[d][n].state \in {"waiting", "active"}
    BY DEF Queue, DeliveryStalls, TakeDelivery
  <1>3. \A x \in Deliveries : x # d => delivery'[x] = delivery[x]
    BY <1>1 DEF Queue, DeliveryStalls, TakeDelivery, JobsTyped
  <1>4. CASE DeliveryStalls(d, n)
    <2>1. Sound(d) => FALSE
      <3> SUFFICES ASSUME Sound(d) PROVE FALSE
        OBVIOUS
      <3>1. Log(d)
        BY <1>2, BusyHasLog
      <3>2. PICK s \in Senders : Carries(s, d, n)
        BY <1>4, <3>1 DEF Log, DeliveryStalls
      <3>3. Held(d, n)
        BY <3>2 DEF Held, Carries, HoldType, Sends
      <3> QED BY <1>4, <3>3 DEF DeliveryStalls
    <2>2. sender' = sender
      BY <1>4 DEF DeliveryStalls
    <2>3. troubled \subseteq troubled' /\ \A x \in Deliveries : x[2] \in fanout'[x[1]] => x[2] \in fanout[x[1]]
      BY <1>2
    <2> QED BY <1>2, <1>3, <2>1, <2>2, <2>3, OneDelivery
  <1>5. ASSUME NEW s \in Senders, TakeDelivery(s, d, n) PROVE LogInv'
    <2>1. PICK h : h = [pc |-> "load", to |-> d, attempt |-> n, status |-> NoStatus]
      OBVIOUS
    <2>2. h \in HoldType /\ h.to = d
      BY <2>1, StatusCodesAssumption DEF HoldType
    <2>3. sender' = [sender EXCEPT ![s] = h] /\ sender[s] = Nobody
      BY <1>1, <1>5, <2>1 DEF TakeDelivery, Sends, JobsTyped, HoldType
    <2>4. \A t \in Senders : sender'[t] = sender[t]
              \/ \A x \in Deliveries : x # d => ~WorksOn(t, x) /\ ~WorksOn(t, x)'
      BY ZenonT(60), <1>1, <2>2, <2>3, OneWorker
    <2>5. Sound(d) => Sound(d)'
      <3> SUFFICES ASSUME Sound(d) PROVE Sound(d)'
        OBVIOUS
      <3>1. Log(d) /\ Usable(d[2])
        BY <1>2, BusyHasLog
      <3>2. Log(d)'
        BY <1>1, <1>5, <3>1, TakeLogs
      <3> QED BY <1>2, <3>1, <3>2 DEF Sound, Usable
    <2>6. troubled \subseteq troubled' /\ \A x \in Deliveries : x[2] \in fanout'[x[1]] => x[2] \in fanout[x[1]]
      BY <1>2
    <2> QED BY <1>2, <1>3, <2>4, <2>5, <2>6, OneDelivery
  <1> QED BY <1>4, <1>5 DEF Queue

\* The fan-out keeps the logs: an add for an attempt that has a job adds nothing.
LEMMA FanoutKeepsLogs ==
    ASSUME HookInv, LogInv, NEW e \in Events, NEW h \in Endpoints, EnqueueDelivery(e, h) \/ EnqueueDeliveryLost(e, h)
    PROVE  LogInv'
  <1>1. CoreInv /\ OthersTyped /\ JobsTyped
    BY DEF HookInv, CoreInv
  <1>2. PICK d : d = <<e, h>>
    OBVIOUS
  <1>3. d \in Deliveries /\ d[1] = e /\ d[2] = h /\ 1 \in Attempts
    BY <1>2, FiveAttempts DEF Deliveries
  <1>4. UNCHANGED <<endpoint, rows, sender, sent, acked>> /\ h \in fanout[e] /\ fanout' = [fanout EXCEPT ![e] = @ \ {h}]
    BY DEF EnqueueDelivery, EnqueueDeliveryLost
  <1>5. \A x \in Deliveries : x[2] \in fanout'[x[1]] => x[2] \in fanout[x[1]]
    BY <1>1, <1>4 DEF OthersTyped, Deliveries
  <1>6. troubled \subseteq troubled'
    BY DEF EnqueueDelivery, EnqueueDeliveryLost, SenderFault
  <1>7. CASE delivery' = delivery
    <2> SUFFICES ASSUME NEW x \in Deliveries, x \notin troubled' PROVE Sound(x)'
      BY DEF LogInv, Sound
    <2>1. Sound(x)
      BY <1>6 DEF LogInv, Sound
    <2>2. x[2] \in fanout'[x[1]] => Usable(x[2])
      BY <1>5, <2>1 DEF Sound
    <2> QED BY <1>4, <1>7, <2>1, <2>2, SoundStays
  <1>8. CASE delivery' # delivery
    <2>1. PICK j : j = [NoJob EXCEPT !.state = "waiting"]
      OBVIOUS
    <2>2. j \in DeliveryJobType /\ j.state = "waiting"
      BY <2>1, SenderBoundsAssumption DEF NoJob, DeliveryJobType
    <2>3. delivery[d][1].state = "none" /\ delivery' = [delivery EXCEPT ![d][1] = j]
      BY <1>2, <1>8, <2>1 DEF EnqueueDelivery, EnqueueDeliveryLost, AddJob
    <2>4. Sound(d) => Sound(d)'
      <3> SUFFICES ASSUME Sound(d) PROVE Sound(d)'
        OBVIOUS
      <3>1. Usable(d[2])
        BY <1>3, <1>4 DEF Sound
      <3>2. Log(d)
        BY <3>1 DEF Sound, Usable
      <3>3. Log(d)'
        BY <1>1, <1>3, <1>4, <2>2, <2>3, <3>2, AnnounceLogs
      <3> QED BY <1>4, <3>1, <3>3 DEF Sound, Usable
    <2>5. \A x \in Deliveries : x # d => delivery'[x] = delivery[x]
      BY <1>1, <1>3, <2>3 DEF JobsTyped
    <2> QED BY <1>3, <1>4, <1>5, <1>6, <2>4, <2>5, OneDelivery
  <1> QED BY <1>7, <1>8

\* An edit disturbs what is under way, and the rows of the other deliveries go with the endpoint.
LEMMA EditsKeepLogs ==
    ASSUME HookInv, LogInv, ManageWebhooks
    PROVE  LogInv'
  <1> SUFFICES ASSUME NEW x \in Deliveries, x \notin troubled' PROVE Sound(x)'
    BY DEF LogInv, Sound
  <1>1. PICK h \in Endpoints : CreateWebhook(h) \/ UpdateWebhook(h) \/ RotateWebhookSecret(h) \/ SecretsKeyChanges(h) \/ DeleteWebhook(h)
    BY DEF ManageWebhooks
  <1>2. Edit(h) /\ UNCHANGED <<fanout, delivery, sender, sent, acked>>
    BY <1>1 DEF CreateWebhook, UpdateWebhook, RotateWebhookSecret, SecretsKeyChanges, DeleteWebhook
  <1>3. x \notin troubled /\ (x[2] = h => ~Live(x) /\ x[2] \notin fanout[x[1]])
    BY <1>2 DEF Edit
  <1>4. Sound(x)
    BY <1>3 DEF LogInv, Sound
  <1>5. Live(x)' <=> Live(x)
    BY <1>2 DEF Live
  <1>6. rows'[x] = rows[x] => (Log(x) => Log(x)')
    BY <1>2, LogStays
  <1>7. x[2] \in Endpoints /\ endpoint \in [Endpoints -> EndpointType]
    BY DEF Deliveries, HookInv, OthersTyped, EndpointType
  <1>8. CASE x[2] # h
    <2>1. endpoint'[x[2]] = endpoint[x[2]] /\ rows'[x] = rows[x]
      BY <1>1, <1>7, <1>8 DEF CreateWebhook, UpdateWebhook, RotateWebhookSecret, SecretsKeyChanges, DeleteWebhook
    <2> QED BY <1>2, <1>4, <1>5, <1>6, <2>1 DEF Sound, Usable
  <1>9. CASE x[2] = h
    <2>1. ~Live(x)' /\ x[2] \notin fanout'[x[1]]
      BY <1>2, <1>3, <1>5, <1>9
    <2>2. CASE DeleteWebhook(h)
      BY <1>7, <1>9, <2>1, <2>2 DEF DeleteWebhook, Sound, EndpointType
    <2>3. CASE CreateWebhook(h) \/ UpdateWebhook(h) \/ RotateWebhookSecret(h) \/ SecretsKeyChanges(h)
      <3>1. endpoint[h].state # "deleted" /\ rows' = rows
        BY <2>3 DEF CreateWebhook, UpdateWebhook, RotateWebhookSecret, SecretsKeyChanges, Exists, Usable
      <3>2. endpoint'[h].state # "deleted"
        <4>1. CASE CreateWebhook(h)
          BY <1>7, <1>9, <4>1 DEF CreateWebhook
        <4>2. CASE UpdateWebhook(h)
          BY <1>7, <1>9, <4>2 DEF UpdateWebhook, EndpointType
        <4>3. CASE RotateWebhookSecret(h) \/ SecretsKeyChanges(h)
          BY <1>7, <1>9, <3>1, <4>3 DEF RotateWebhookSecret, SecretsKeyChanges, EndpointType
        <4> QED BY <2>3, <4>1, <4>2, <4>3
      <3>3. Log(x)
        BY <1>4, <1>9, <3>1 DEF Sound
      <3> QED BY <1>6, <1>9, <2>1, <3>1, <3>2, <3>3 DEF Sound
    <2> QED BY <1>1, <2>2, <2>3
  <1> QED BY <1>8, <1>9

\* Every step keeps the logs.
LEMMA LogStepHolds == HookInv /\ LogInv /\ [HookNext]_hookVars => LogInv'
  <1> SUFFICES ASSUME HookInv, LogInv, [HookNext]_hookVars PROVE LogInv'
    OBVIOUS
  <1>1. ASSUME UNCHANGED <<endpoint, delivery, rows, sender, sent, acked, troubled>>,
               \A x \in Deliveries : x[2] \in fanout'[x[1]] => x[2] \in fanout[x[1]] \/ Usable(x[2])
        PROVE  LogInv'
    <2> SUFFICES ASSUME NEW x \in Deliveries, x \notin troubled PROVE Sound(x)'
      BY <1>1 DEF LogInv, Sound
    <2>1. Sound(x)
      BY DEF LogInv, Sound
    <2>2. x[2] \in fanout'[x[1]] => Usable(x[2])
      BY <1>1, <2>1 DEF Sound
    <2> QED BY <1>1, <2>1, <2>2, SoundStays
  <1>2. CASE UNCHANGED hookVars
    BY <1>1, <1>2 DEF hookVars
  <1>3. ASSUME NEW e \in Events, AnnounceEvent(e) PROVE LogInv'
    <2>1. \A x \in Deliveries : x[2] \in fanout'[x[1]] => x[2] \in fanout[x[1]] \/ Usable(x[2])
      BY <1>3 DEF AnnounceEvent, ListSubscribedWebhooks, Subscribed, HookInv, OthersTyped, Deliveries
    <2> QED BY <1>1, <1>3, <2>1 DEF AnnounceEvent, ListSubscribedWebhooks
  <1>4. CASE HookStep
    BY <1>4, WorkersKeepLogs, QueueKeepsLogs, FanoutKeepsLogs, EditsKeepLogs DEF HookStep
  <1> QED BY <1>2, <1>3, <1>4 DEF HookNext

\* The invariant tells what every log says.
LEMMA LogsAreTrue == HookInv /\ LogInv => DeliveryLogIsTrue
  <1> SUFFICES ASSUME HookInv, LogInv, NEW d \in Deliveries, d \notin troubled
               PROVE  LET k == Len(rows[d])
                          last == rows[d][k] IN
                      /\ \A i \in 1..k : rows[d][i].attempt = i
                      /\ \A i \in 1..(k - 1) : rows[d][i].status = "retrying"
                      /\ \A n \in 1..k : sent[d][n] = 1
                      /\ Closed(d) /\ Exists(d[2]) =>
                            /\ k > 0 /\ \A n \in Attempts : n > k => sent[d][n] = 0
                            /\ (last.status = "delivered") = (d \in acked)
                            /\ last.status = "failed" =>
                                  k = Len(RetryDelays) \/ (last.code < 500 /\ last.code \notin {NoStatus, 408, 409, 429})
                            /\ last.status # "retrying"
    BY DEF DeliveryLogIsTrue
  <1>0. PICK l, k : l = rows[d] /\ k = Len(rows[d])
    OBVIOUS
  <1>1. Sound(d) /\ CoreInv /\ OthersTyped
    BY DEF LogInv, Sound, HookInv
  <1>2. CASE endpoint[d[2]].state = "deleted"
    <2>1. Len(rows[d]) = 0 /\ ~Exists(d[2])
      BY <1>1, <1>2 DEF Sound, Exists
    <2> QED BY <2>1
  <1>3. CASE endpoint[d[2]].state # "deleted"
    <2>1. Log(d)
      BY <1>1, <1>3 DEF Sound
    <2>2. RowsFit(l) /\ k \in 0..5 /\ k = Len(l)
      BY <1>0, <1>1, <2>1, LogFacts DEF Log
    <2>3. \A n \in Attempts : JobFits(l, n, delivery[d][n].state, sent[d][n]) /\ n \in 1..5
      BY <1>0, <1>1, <2>1, LogFacts DEF Log
    <2>4. \A n \in 1..k : sent[d][n] = 1
      <3>1. \A n \in Attempts : n <= k => sent[d][n] = 1
        BY <2>2, <2>3 DEF JobFits
      <3>2. 1..k \subseteq Attempts
        BY <2>2, FiveAttempts
      <3>3. \A n \in 1..k : n <= k
        BY <2>2
      <3> QED BY <3>1, <3>2, <3>3
    <2>5. ASSUME Closed(d)
          PROVE  /\ k > 0 /\ \A n \in Attempts : n > k => sent[d][n] = 0
                 /\ (l[k].status = "delivered") <=> (d \in acked)
                 /\ l[k].status # "retrying"
      <3>1. delivery[d][1].state # "none" /\ \A n \in Attempts : delivery[d][n].state \notin {"waiting", "active"}
        BY <2>5 DEF Closed, Announced, Live
      <3>2. \A n \in Attempts : delivery[d][n].state \in {"none", "completed"}
        BY <1>1, <2>1, <3>1, LogFacts DEF Log, JobFits, DeliveryJobType
      <3>3. k > 0
        BY <2>2, <2>3, <3>1, <3>2, FiveAttempts DEF JobFits
      <3>4. \A n \in Attempts : n > k => delivery[d][n].state = "none"
        BY <2>2, <2>3, <3>2 DEF JobFits
      <3>5. \A n \in Attempts : n > k => sent[d][n] = 0
        BY <1>1, <3>4 DEF CoreInv, RequestsCounted
      <3>6. \A s \in Senders : \A n : ~Carries(s, d, n)
        BY <1>1, <2>1, <3>1, LogFacts
      <3>7. l[k].status # "retrying"
        <4> SUFFICES ASSUME l[k].status = "retrying" PROVE FALSE
          OBVIOUS
        <4>1. k < 5 /\ Due(l)
          BY <2>2, <3>3 DEF RowsFit, Due
        <4>2. k + 1 \in Attempts
          BY <2>2, <4>1, FiveAttempts
        <4>3. delivery[d][k + 1].state = "none"
          BY <2>2, <3>4, <4>2
        <4>4. \E s \in Senders : Retries(s, d, k)
          BY <1>0, <2>1, <3>3, <4>1, <4>3 DEF Log
        <4> QED BY <3>6, <4>4 DEF Retries
      <3>8. (l[k].status = "delivered") <=> (d \in acked)
        BY <1>0, <2>1, <3>3, <3>6 DEF Log, Heard
      <3> QED BY <3>3, <3>5, <3>7, <3>8
    <2>6. /\ \A i \in 1..k : l[i].attempt = i
          /\ \A i \in 1..(k - 1) : l[i].status = "retrying"
          /\ k > 0 /\ l[k].status = "failed" =>
                k = 5 \/ (l[k].code < 500 /\ l[k].code \notin {NoStatus, 408, 409, 429})
      BY <2>2 DEF RowsFit
    <2>7. Len(RetryDelays) = 5
      BY DEF RetryDelays
    <2> QED BY <1>0, <2>4, <2>5, <2>6, <2>7
  <1> QED BY <1>2, <1>3

(* The delivery log of a webhook is the truth for every delivery that no fault and no edit has
   disturbed, for any number of events, endpoints, workers and repeated announcements: one row
   for each request, in order, and the last one says how the delivery ended
   (webhook-dispatcher.ts:58-83).  Rows, jobs, workers and answers of a delivery tell one story,
   and the faults of another delivery do not touch it. *)
THEOREM DeliveryLogIsTrueHolds == HookSpec => []DeliveryLogIsTrue
  <1>1. HookInv /\ LogInv => DeliveryLogIsTrue
    BY LogsAreTrue
  <1>2. HookSpec => [](HookInv /\ LogInv)
    BY HookInitHolds, HookStepHolds, LogInitHolds, LogStepHolds, PTL DEF HookSpec
  <1> QED BY <1>1, <1>2, PTL
------------------------------------------------------------------------------
(***************************************************************************)
(* The composition of the deploy pipeline and webhook delivery.            *)
(***************************************************************************)
DispatcherInv == HookInv /\ LogInv
SystemSteps == SystemInit /\ [][SystemNext]_systemVars

\* The dispatcher is asked for an event whose adds have all settled, or for none it knows.
LEMMA HandOverAnnounces ==
    ASSUME fanout \in [Events -> SUBSET Endpoints], NEW w \in Workers, ~Dispatching(w), HandOver(w)
    PROVE  [HookNext]_hookVars
  <1>1. PICK e : e = <<local[w].ver, EventAt[local[w].pc]>>
    OBVIOUS
  <1>2. CASE UNCHANGED hookVars
    BY <1>2
  <1>3. CASE ListSubscribedWebhooks(e) /\ e \in Events
    <2>1. fanout[e] = {}
      BY <1>1, <1>3 DEF Dispatching
    <2> QED BY <1>3, <2>1 DEF HookNext, AnnounceEvent
  <1>4. CASE ListSubscribedWebhooks(e) /\ e \notin Events
    <2>1. fanout' = fanout
      BY <1>4 DEF ListSubscribedWebhooks
    <2> QED BY <1>4, <2>1 DEF ListSubscribedWebhooks, hookVars
  <1> QED BY <1>1, <1>2, <1>3, <1>4 DEF HandOver

\* A deploy worker that dies takes adds along: no delivery, log or request is touched.
LEMMA LostAddsKeep ==
    ASSUME DispatcherInv, UNCHANGED <<endpoint, delivery, rows, sender, sent, acked, troubled, spent>>,
           fanout' \in [Events -> SUBSET Endpoints], \A e \in Events : fanout'[e] \subseteq fanout[e]
    PROVE  DispatcherInv' /\ ContractStep
  <1>1. CoreInv' /\ ContractStep
    BY OutsideKeeps DEF DispatcherInv, HookInv
  <1>2. OthersTyped'
    BY DEF DispatcherInv, HookInv, OthersTyped
  <1>3. LogInv'
    <2> SUFFICES ASSUME NEW d \in Deliveries, d \notin troubled PROVE Sound(d)'
      BY DEF LogInv, Sound
    <2>1. Sound(d)
      BY DEF DispatcherInv, LogInv, Sound
    <2>2. d[2] \in fanout'[d[1]] => Usable(d[2])
      <3>1. d[1] \in Events
        BY DEF Deliveries
      <3> QED BY <2>1, <3>1 DEF Sound
    <2> QED BY <2>1, <2>2, SoundStays
  <1> QED BY <1>1, <1>2, <1>3 DEF DispatcherInv, HookInv

\* A step of the composition is one of the pipeline or leaves it, and the same for the dispatcher.
LEMMA SystemStepHolds ==
    DispatcherInv /\ [SystemNext]_systemVars => [Next]_vars /\ DispatcherInv' /\ ContractStep
  <1> SUFFICES ASSUME DispatcherInv, [SystemNext]_systemVars PROVE [Next]_vars /\ DispatcherInv' /\ ContractStep
    OBVIOUS
  <1>1. fanout \in [Events -> SUBSET Endpoints]
    BY DEF DispatcherInv, HookInv, OthersTyped
  <1>2. ASSUME [HookNext]_hookVars PROVE DispatcherInv' /\ ContractStep
    BY <1>2, HookStepHolds, LogStepHolds DEF DispatcherInv
  <1>3. CASE UNCHANGED systemVars
    BY <1>2, <1>3 DEF systemVars
  <1>4. ASSUME NEW d \in Deploys, Deploy(d) \/ DeployQueue(d), UNCHANGED hookVars
        PROVE  [Next]_vars /\ DispatcherInv' /\ ContractStep
    BY <1>2, <1>4 DEF DeployQueue, Next
  <1>5. ASSUME NEW w \in Workers, DeployWorker(w) PROVE [Next]_vars /\ DispatcherInv' /\ ContractStep
    BY <1>1, <1>2, <1>5, HandOverAnnounces DEF DeployWorker, Next
  <1>6. ASSUME NEW w \in Workers, DeployStoreFails(w) PROVE [Next]_vars /\ DispatcherInv' /\ ContractStep
    BY <1>2, <1>6 DEF DeployStoreFails, Next
  <1>7. ASSUME NEW w \in Workers, DeployWorkerCrash(w) PROVE [Next]_vars /\ DispatcherInv' /\ ContractStep
    <2>1. fanout' \in [Events -> SUBSET Endpoints] /\ \A e \in Events : fanout'[e] \subseteq fanout[e]
      BY <1>1, <1>7 DEF DeployWorkerCrash
    <2>2. UNCHANGED <<endpoint, delivery, rows, sender, sent, acked, troubled, spent>>
      BY <1>7 DEF DeployWorkerCrash
    <2>3. DispatcherInv' /\ ContractStep
      BY <2>1, <2>2, LostAddsKeep
    <2> QED BY <1>7, <2>3 DEF DeployWorkerCrash, Next
  <1>8. CASE HookStep /\ UNCHANGED vars
    BY <1>2, <1>8 DEF HookNext
  <1> QED BY <1>3, <1>4, <1>5, <1>6, <1>7, <1>8 DEF SystemNext

LEMMA SystemKeepsDispatcher == SystemSpec => [](DispatcherInv) /\ [][SystemNext]_systemVars /\ SystemInit
  <1>1. SystemInit => DispatcherInv
    BY HookInitHolds, LogInitHolds DEF SystemInit, DispatcherInv
  <1>2. DispatcherInv /\ [SystemNext]_systemVars => DispatcherInv'
    BY SystemStepHolds
  <1> QED BY <1>1, <1>2, PTL DEF SystemSpec

(* The dispatcher does not disturb the pipeline: composed with it, suspended while its adds are
   under way, the deploy worker takes steps of DeployPipeline's specification and no others
   (versions-worker.ts:131-134, webhook-dispatcher.ts:15-29). *)
THEOREM SystemRunsThePipeline == SystemSpec => Spec
  <1>1. SystemInit => Init
    BY DEF SystemInit
  <1> QED BY <1>1, SystemKeepsDispatcher, SystemStepHolds, PTL DEF Spec

(* So what the pipeline promises alone it promises with its dispatcher, whose calls its workers wait
   for: a content is stored once, what is published or indexed is whole, the end of a job tells what
   became of its version, and workers that replace each other's documents do not empty the index. *)
THEOREM SystemKeepsVersions == SystemSpec => [](OneVersionPerContent /\ PublishedVersionsAreWhole /\ JobEndTellsVersion)
  BY SystemRunsThePipeline, OneVersionPerContentHolds, PublishedVersionsAreWholeHolds, JobEndTellsVersionHolds, PTL

(* Nor does the pipeline, whose worker announces an event again or dies with adds it has not made,
   disturb what the dispatcher promises: its contract with the endpoints and a log that is true. *)
THEOREM SystemKeepsDeliveries == SystemSpec => DeliveryKeepsContract /\ []DeliveryLogIsTrue
  <1>1. SystemInit => Contract!DeliveryInit
    BY HookInitContract DEF SystemInit
  <1>2. DispatcherInv /\ [SystemNext]_systemVars => [Contract!DeliveryNext]_(Contract!deliveryVars)
    BY SystemStepHolds DEF ContractStep
  <1>3. DispatcherInv => DeliveryLogIsTrue
    BY LogsAreTrue DEF DispatcherInv
  <1> QED BY <1>1, <1>2, <1>3, SystemKeepsDispatcher, PTL DEF DeliveryKeepsContract, Contract!DeliverySpec

\* Both types.
THEOREM SystemTypesCorrect == SystemSpec => [](TypeOK /\ HookTypeOK)
  <1>1. DispatcherInv => HookTypeOK
    BY HookTypes DEF DispatcherInv
  <1> QED BY <1>1, SystemRunsThePipeline, PipelineTypeCorrect, SystemKeepsDispatcher, PTL
------------------------------------------------------------------------------
\* An add that is under way, or a job, is of an event that has been announced.
HandedOver == \A d \in Deliveries : Announced(d) \/ d[2] \in fanout[d[1]] => d[1] \in events

\* The first job of a delivery is added by the fan-out.
LEMMA DeliveriesBegin ==
    ASSUME HookInv, HookStep, NEW d \in Deliveries, Announced(d)', ~Announced(d)
    PROVE  d[2] \in fanout[d[1]]
  <1>1. /\ delivery \in [Deliveries -> [Attempts -> DeliveryJobType]] /\ CoreInv
        /\ delivery[d][1].state = "none" /\ delivery'[d][1].state # "none" /\ 1 \in Attempts
    BY FiveAttempts DEF HookInv, CoreInv, JobsTyped, Announced
  <1>2. delivery' # delivery
    BY <1>1
  <1>3. ASSUME NEW x \in Deliveries, NEW n \in Attempts, NEW j, delivery' = [delivery EXCEPT ![x][n] = j]
        PROVE  x = d /\ n = 1
    BY <1>1, <1>3
  <1>4. ASSUME NEW e \in Events, NEW h \in Endpoints, EnqueueDelivery(e, h)
        PROVE  d[2] \in fanout[d[1]]
    <2>1. <<e, h>> \in Deliveries
      BY DEF Deliveries
    <2>2. <<e, h>> = d
      BY <1>1, <1>2, <1>3, <1>4, <2>1 DEF EnqueueDelivery, AddJob
    <2> QED BY <1>4, <2>2 DEF EnqueueDelivery
  <1>5. ASSUME NEW s \in Senders, Send(s) PROVE FALSE
    <2>1. PICK x, n : x = sender[s].to /\ n = sender[s].attempt
      OBVIOUS
    <2>2. sender[s].pc # "idle"
      BY <1>5 DEF Send, Sends, GetWebhookEndpoint, Deliver, RecordDeliveryAttempt,
             RecordMissingEndpoint, EnqueueRetry, DeliveryReturns, DeliveryThrows
    <2>3. x \in Deliveries /\ n \in Attempts /\ Carries(s, x, n) /\ delivery[x][n].state = "active"
      BY <1>1, <2>1, <2>2, Holding DEF CoreInv, HoldersKnow
    <2>4. CASE EnqueueRetry(s)
      <3>1. <<x[1], x[2]>> = x /\ n + 1 \in Attempts /\ n + 1 # 1
        <4>1. sender[s].pc = "retry"
          BY <2>4 DEF EnqueueRetry, Sends
        <4> QED BY <1>1, <2>3, <4>1, FiveAttempts DEF Deliveries, CoreInv, HoldersKnow
      <3> QED BY <1>2, <1>3, <2>1, <2>3, <2>4, <3>1 DEF EnqueueRetry, AddJob
    <2>5. CASE DeliveryReturns(s) \/ DeliveryThrows(s)
      <3>1. \E j : delivery' = [delivery EXCEPT ![x][n] = j]
        BY <2>1, <2>5 DEF DeliveryReturns, DeliveryThrows, Finish
      <3>2. x = d /\ n = 1
        BY <1>3, <2>3, <3>1
      <3> QED BY <1>1, <2>3, <3>2
    <2> QED BY <1>2, <1>5, <2>4, <2>5 DEF Send, GetWebhookEndpoint, Deliver, RecordDeliveryAttempt, RecordMissingEndpoint
  <1>6. ASSUME NEW x \in Deliveries, NEW n \in Attempts, Queue(x, n) PROVE FALSE
    <2>1. delivery[x][n].state # "none" /\ \E j : delivery' = [delivery EXCEPT ![x][n] = j]
      BY <1>6 DEF Queue, DeliveryStalls, TakeDelivery
    <2>2. x = d /\ n = 1
      BY <1>3, <2>1
    <2> QED BY <1>1, <2>1, <2>2
  <1> QED BY <1>2, <1>4, <1>5, <1>6 DEF HookStep, ManageWebhooks, CreateWebhook, UpdateWebhook, RotateWebhookSecret,
             SecretsKeyChanges, DeleteWebhook, EnqueueDeliveryLost, SenderCallFails, SenderCrash

\* Events are not taken back, and the fan-out is asked for those that have been announced.
LEMMA HandedOverStays ==
    ASSUME DispatcherInv, EventInv, HandedOver, SystemNext PROVE HandedOver'
  <1>1. events \subseteq events'
    <2>1. [Next]_vars /\ TellInv
      BY SystemStepHolds DEF EventInv
    <2>2. CASE Next
      BY <2>1, <2>2, WhoAnnounces
    <2> QED BY <2>1, <2>2 DEF vars
  <1>2. fanout \in [Events -> SUBSET Endpoints] /\ HookInv
    BY DEF DispatcherInv, HookInv, OthersTyped
  <1>3. \A d \in Deliveries : d[1] \in Events
    BY DEF Deliveries
  <1>4. ASSUME \A e \in Events : fanout'[e] \subseteq fanout[e] \/ e \in events',
               \A d \in Deliveries : Announced(d)' => Announced(d) \/ d[2] \in fanout[d[1]]
        PROVE  HandedOver'
    BY <1>1, <1>3, <1>4 DEF HandedOver
  <1>5. CASE UNCHANGED hookVars
    BY <1>4, <1>5 DEF hookVars, Announced
  <1>6. ASSUME NEW w \in Workers, DeployWorker(w) PROVE HandedOver'
    <2>1. PICK e : e = <<local[w].ver, EventAt[local[w].pc]>>
      OBVIOUS
    <2>2. CASE ListSubscribedWebhooks(e) /\ e \in events'
      <3>1. \A x \in Events : x # e => fanout'[x] = fanout[x]
        BY <1>2, <2>2 DEF ListSubscribedWebhooks
      <3>2. \A d \in Deliveries : Announced(d)' => Announced(d)
        BY <2>2 DEF ListSubscribedWebhooks, Announced
      <3> QED BY <1>4, <2>2, <3>1, <3>2
    <2> QED BY <1>5, <1>6, <2>1, <2>2 DEF DeployWorker, HandOver
  <1>7. ASSUME NEW w \in Workers, DeployWorkerCrash(w) PROVE HandedOver'
    <2>1. \A x \in Events : fanout'[x] \subseteq fanout[x]
      BY <1>2, <1>7 DEF DeployWorkerCrash
    <2> QED BY <1>4, <1>7, <2>1 DEF DeployWorkerCrash, Announced
  <1>8. CASE HookStep
    <2>1. \A x \in Events : fanout'[x] \subseteq fanout[x]
      <3>1. ASSUME NEW e \in Events, NEW h \in Endpoints, EnqueueDelivery(e, h) \/ EnqueueDeliveryLost(e, h)
            PROVE  \A x \in Events : fanout'[x] \subseteq fanout[x]
        BY <1>2, <3>1 DEF EnqueueDelivery, EnqueueDeliveryLost
      <3>2. CASE ManageWebhooks
        BY <3>2 DEF ManageWebhooks, CreateWebhook, UpdateWebhook, RotateWebhookSecret, SecretsKeyChanges, DeleteWebhook
      <3>3. ASSUME NEW s \in Senders, Send(s) \/ SenderCallFails(s) \/ SenderCrash(s) PROVE fanout' = fanout
        BY <3>3 DEF Send, SenderCallFails, SenderCrash, GetWebhookEndpoint, Deliver, RecordDeliveryAttempt,
                    RecordMissingEndpoint, EnqueueRetry, DeliveryReturns, DeliveryThrows, Finish
      <3>4. ASSUME NEW d \in Deliveries, NEW n \in Attempts, Queue(d, n) PROVE fanout' = fanout
        BY <3>4 DEF Queue, DeliveryStalls, TakeDelivery
      <3> QED BY <1>8, <3>1, <3>2, <3>3, <3>4 DEF HookStep
    <2>2. \A d \in Deliveries : Announced(d)' => Announced(d) \/ d[2] \in fanout[d[1]]
      BY <1>2, <1>8, DeliveriesBegin
    <2> QED BY <1>4, <2>1, <2>2
  <1> QED BY <1>5, <1>6, <1>7, <1>8 DEF SystemNext, DeployStoreFails

(* An endpoint hears of a version only what has happened to it, for any number of deploys, workers,
   endpoints, retries, crashes and faults: of a new version when it is published, normalized and diffed, of a
   failure when the spec is bad or a fault has hit it.  A worker announces only where it stands
   after those steps, and the fan-out knows announced events only. *)
THEOREM EndpointsHearTheTruthHolds == SystemSpec => []EndpointsHearTheTruth
  <1>1. SystemInit => HandedOver /\ EventInv
    <2> SUFFICES ASSUME SystemInit PROVE HandedOver /\ EventInv
      OBVIOUS
    <2>1. \A d \in Deliveries : ~Announced(d) /\ d[1] \in Events
      BY FiveAttempts DEF SystemInit, HookInit, Announced, NoJob, Deliveries
    <2> QED BY <2>1, EventInitHolds DEF SystemInit, HookInit, HandedOver
  <1>2. DispatcherInv /\ EventInv /\ HandedOver /\ [SystemNext]_systemVars => HandedOver' /\ EventInv'
    <2> SUFFICES ASSUME DispatcherInv, EventInv, HandedOver, [SystemNext]_systemVars PROVE HandedOver' /\ EventInv'
      OBVIOUS
    <2>1. EventInv'
      BY SystemStepHolds, EventStepHolds
    <2>2. CASE UNCHANGED systemVars
      BY <2>1, <2>2 DEF systemVars, vars, hookVars, HandedOver, Announced
    <2> QED BY <2>1, <2>2, HandedOverStays
  <1>3. EventInv /\ HandedOver => EndpointsHearTheTruth
    <2> SUFFICES ASSUME EventInv, HandedOver, NEW d \in Deliveries, Announced(d)
                 PROVE  /\ d[1] \in events
                        /\ d[1][2] = "version.created" => LET v == d[1][1] IN
                                   version[v].readyAt /\ version[v].artifact /\ version[v].diffed
                        /\ d[1][2] = "version.failed" => Content(d[1][1]) \in BadSpecs \/ faults[d[1][1]] > 0
      BY DEF EndpointsHearTheTruth
    <2>1. d[1] \in events /\ events \subseteq Deploys \X EventType
      BY TellInvParts DEF HandedOver, EventInv, TypeOK
    <2>2. d[1] = <<d[1][1], d[1][2]>> /\ d[1][1] \in Deploys
      BY <2>1
    <2> QED BY <2>1, <2>2 DEF EventInv, EventsAreTrue
  <1> QED BY <1>1, <1>2, <1>3, SystemKeepsDispatcher, PTL
=============================================================================
