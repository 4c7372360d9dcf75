--------------------------- MODULE WebhookDelivery ---------------------------
(***************************************************************************)
(* Webhook endpoints and the delivery of events to them: the dashboard API *)
(* that edits endpoints, the fan-out of an event into BullMQ jobs, and the *)
(* workers that post an event, record the attempt and queue the next one.  *)
(* Each await of the code ends an action; delays are abstracted, a queued  *)
(* job may be taken at any time.                                           *)
(*                                                                         *)
(* Sources: webhooks/webhook-dispatcher.ts, webhooks/webhook-retry-policy  *)
(* .ts, webhooks/database-webhook-store.ts, webhooks/bullmq-webhook-queue  *)
(* .ts, catalog/catalog.service.ts.                                        *)
(***************************************************************************)
EXTENDS Integers, Sequences, FiniteSets

CONSTANTS Events,            \* announced events, <<version, type>>: their id is evt_<version>_<type>
          EventTypes,        \* the types an endpoint may subscribe to
          Endpoints,         \* webhook ids
          Senders,           \* processes that run the delivery worker
          StatusCodes,       \* answers an endpoint may give; NoStatus: no answer
          MaxJobStalls,      \* BullMQ: how often a stalled job is handed out again (default 1)
          MaxSenderFaults,   \* bound: crashes, failing store and queue calls
          MaxEdits           \* bound: dashboard calls that change a webhook

NoStatus == 0
RetryDelays == <<0, 30, 300, 1800, 7200>>
Attempts == 1..Len(RetryDelays)
Deliveries == Events \X Endpoints

ASSUME EventsAssumption == \A e \in Events : e[2] \in EventTypes
ASSUME StatusCodesAssumption == StatusCodes \subseteq Nat /\ NoStatus \in StatusCodes
ASSUME SenderBoundsAssumption == MaxJobStalls \in Nat /\ MaxSenderFaults \in Nat /\ MaxEdits \in Nat

VARIABLES endpoint,   \* Webhook rows
          fanout,     \* endpoints an enqueueEvent in progress still has to add a job for
          delivery,   \* BullMQ jobs webhook-<event>-<webhook>-<attempt>
          rows,       \* WebhookDelivery rows of each delivery, oldest first
          sender,     \* the memory of each worker's process() call
          sent,       \* requests made for each attempt of each delivery
          acked,      \* deliveries some request of which was answered 2xx
          troubled,   \* deliveries a fault or an edit of the endpoint has disturbed
          spent       \* faults and edits so far

hookVars == <<endpoint, fanout, delivery, rows, sender, sent, acked, troubled, spent>>

NoJob == [state |-> "none", stalls |-> 0]
Nobody == [pc |-> "idle"]
EndpointStates == {"absent", "enabled", "disabled", "deleted"}

\* The webhook rows a query with "enabled" = true returns and whose secret can be decrypted.
Usable(h) == endpoint[h].state = "enabled" /\ endpoint[h].readable
Exists(h) == endpoint[h].state \in {"enabled", "disabled"}
Subscribed(e) == {h \in Endpoints : Usable(h) /\ e[2] \in endpoint[h].types}

Announced(d) == delivery[d][1].state # "none"
Live(d) == \E n \in Attempts : delivery[d][n].state \in {"waiting", "active"}
Closed(d) == Announced(d) /\ ~Live(d)
------------------------------------------------------------------------------
(***************************************************************************)
(* The dashboard: catalog.service.ts.  Bound: MaxEdits calls.  An edit      *)
(* disturbs the deliveries that are under way.                             *)
(***************************************************************************)
Edit(h) ==
    /\ spent.edits < MaxEdits
    /\ spent' = [spent EXCEPT !.edits = @ + 1]
    /\ troubled' = troubled \union {d \in Deliveries : d[2] = h /\ (Live(d) \/ h \in fanout[d[1]])}

CreateWebhook(h) ==
    /\ endpoint[h].state = "absent"
    /\ Edit(h)
    /\ \E types \in SUBSET EventTypes \ {{}} :
           endpoint' = [endpoint EXCEPT ![h] = [state |-> "enabled", types |-> types, readable |-> TRUE]]
    /\ UNCHANGED <<fanout, delivery, rows, sender, sent, acked>>

\* PATCH with the fields the request names: enabled and event types matter here.
UpdateWebhook(h) ==
    /\ Exists(h)
    /\ Edit(h)
    /\ \E s \in {"enabled", "disabled"}, types \in SUBSET EventTypes \ {{}} :
           endpoint' = [endpoint EXCEPT ![h].state = s, ![h].types = types]
    /\ UNCHANGED <<fanout, delivery, rows, sender, sent, acked>>

RotateWebhookSecret(h) ==
    /\ Exists(h)
    /\ Edit(h)
    /\ endpoint' = [endpoint EXCEPT ![h].readable = TRUE]
    /\ UNCHANGED <<fanout, delivery, rows, sender, sent, acked>>

\* The backend restarts with another WEBHOOK_SECRETS_KEY: the stored secret no longer decrypts.
SecretsKeyChanges(h) ==
    /\ Usable(h)
    /\ Edit(h)
    /\ endpoint' = [endpoint EXCEPT ![h].readable = FALSE]
    /\ UNCHANGED <<fanout, delivery, rows, sender, sent, acked>>

\* ON DELETE CASCADE takes the delivery rows along.
DeleteWebhook(h) ==
    /\ Exists(h)
    /\ Edit(h)
    /\ endpoint' = [endpoint EXCEPT ![h].state = "deleted"]
    /\ rows' = [d \in Deliveries |-> IF d[2] = h THEN <<>> ELSE rows[d]]
    /\ UNCHANGED <<fanout, delivery, sender, sent, acked>>
------------------------------------------------------------------------------
(***************************************************************************)
(* WebhookDispatcher.enqueueEvent.                                         *)
(***************************************************************************)
ListSubscribedWebhooks(e) ==
    /\ fanout' = [fanout EXCEPT ![e] = Subscribed(e)]
    /\ UNCHANGED <<endpoint, delivery, rows, sender, sent, acked, troubled, spent>>

\* Mutant: job ids do not name the attempt's job: a second add starts it again.
AddAnyway(e, h, n) == delivery' = [delivery EXCEPT ![<<e, h>>][n] = [NoJob EXCEPT !.state = "waiting"]]

\* BullMQ ignores an add whose job id it knows: an event that is announced again starts nothing.
AddJob(e, h, n) ==
    delivery' = IF delivery[<<e, h>>][n].state = "none"
                THEN [delivery EXCEPT ![<<e, h>>][n] = [NoJob EXCEPT !.state = "waiting"]]
                ELSE delivery

\* The adds of Promise.all are in flight together and land in any order.
EnqueueDelivery(e, h) ==
    /\ h \in fanout[e]
    /\ AddJob(e, h, 1)
    /\ fanout' = [fanout EXCEPT ![e] = @ \ {h}]
    /\ UNCHANGED <<endpoint, rows, sender, sent, acked, troubled, spent>>

SenderFault(d) ==
    /\ spent.faults < MaxSenderFaults
    /\ spent' = [spent EXCEPT !.faults = @ + 1]
    /\ troubled' = troubled \union {d}

\* Redis refuses an add, which nobody repeats: enqueueEvent's error is swallowed by its caller.
EnqueueDeliveryLost(e, h) ==
    /\ h \in fanout[e]
    /\ SenderFault(<<e, h>>)
    /\ fanout' = [fanout EXCEPT ![e] = @ \ {h}]
    /\ UNCHANGED <<endpoint, delivery, rows, sender, sent, acked>>
------------------------------------------------------------------------------
(***************************************************************************)
(* WebhookDeliveryWorker.process.                                          *)
(***************************************************************************)
Sends(s, pc) == sender[s].pc = pc
Step(s, pc) == sender' = [sender EXCEPT ![s].pc = pc]

TakeDelivery(s, d, n) ==
    /\ Sends(s, "idle")
    /\ delivery[d][n].state = "waiting"
    /\ delivery' = [delivery EXCEPT ![d][n].state = "active"]
    /\ sender' = [sender EXCEPT ![s] = [pc |-> "load", to |-> d, attempt |-> n, status |-> NoStatus]]
    /\ UNCHANGED <<endpoint, fanout, rows, sent, acked, troubled, spent>>

GetWebhookEndpoint(s) ==
    /\ Sends(s, "load")
    /\ Step(s, IF Usable(sender[s].to[2]) THEN "post" ELSE "missing")
    /\ UNCHANGED <<endpoint, fanout, delivery, rows, sent, acked, troubled, spent>>

\* The request and its answer, or its timeout: only the endpoint knows whether it was heard.
Deliver(s) ==
    /\ Sends(s, "post")
    /\ \E code \in StatusCodes :
           /\ sender' = [sender EXCEPT ![s].pc = "record", ![s].status = code]
           /\ acked' = IF code \in 200..299 THEN acked \union {sender[s].to} ELSE acked
    /\ sent' = [sent EXCEPT ![sender[s].to][sender[s].attempt] = @ + 1]
    /\ UNCHANGED <<endpoint, fanout, delivery, rows, troubled, spent>>

Success(code) == code \in 200..299
IsRetryable(code) == code = NoStatus \/ code >= 500 \/ code \in {408, 409, 429}

\* Mutant: the delay table is indexed from 1: the last attempt is dropped.
HasRetryEarly(s) ==
    /\ ~Success(sender[s].status) /\ IsRetryable(sender[s].status)
    /\ sender[s].attempt + 2 \in DOMAIN RetryDelays

\* nextWebhookRetryDelay # null: the delay table, indexed from 0, has an entry for this attempt.
HasRetry(s) ==
    /\ ~Success(sender[s].status) /\ IsRetryable(sender[s].status)
    /\ sender[s].attempt + 1 \in DOMAIN RetryDelays

DeliveryStatus(s) ==
    IF Success(sender[s].status) THEN "delivered" ELSE IF HasRetry(s) THEN "retrying" ELSE "failed"

Row(s, status) == [attempt |-> sender[s].attempt, code |-> sender[s].status, status |-> status]

\* The INSERT refers to the webhook: it fails when the webhook has been deleted.
RecordDeliveryAttempt(s) ==
    /\ Sends(s, "record")
    /\ LET d == sender[s].to IN
       IF Exists(d[2])
       THEN /\ rows' = [rows EXCEPT ![d] = Append(@, Row(s, DeliveryStatus(s)))]
            /\ Step(s, IF HasRetry(s) THEN "retry" ELSE "return")
       ELSE Step(s, "throw") /\ UNCHANGED rows
    /\ UNCHANGED <<endpoint, fanout, delivery, sent, acked, troubled, spent>>

RecordMissingEndpoint(s) ==
    /\ Sends(s, "missing")
    /\ LET d == sender[s].to IN
       IF Exists(d[2])
       THEN /\ rows' = [rows EXCEPT ![d] = Append(@, Row(s, "failed"))]
            /\ Step(s, "return")
       ELSE Step(s, "throw") /\ UNCHANGED rows
    /\ UNCHANGED <<endpoint, fanout, delivery, sent, acked, troubled, spent>>

EnqueueRetry(s) ==
    /\ Sends(s, "retry")
    /\ AddJob(sender[s].to[1], sender[s].to[2], sender[s].attempt + 1)
    /\ Step(s, "return")
    /\ UNCHANGED <<endpoint, fanout, rows, sent, acked, troubled, spent>>

Finish(s, state) ==
    /\ delivery' = [delivery EXCEPT ![sender[s].to][sender[s].attempt].state = state]
    /\ sender' = [sender EXCEPT ![s] = Nobody]
    /\ UNCHANGED <<endpoint, fanout, rows, sent, acked, troubled, spent>>

DeliveryReturns(s) == Sends(s, "return") /\ Finish(s, "completed")

\* Mutant: a job that throws is tried again.
DeliveryThrowsRetried(s) == Sends(s, "throw") /\ Finish(s, "waiting")

\* attempts: 1: a job that throws has failed.
DeliveryThrows(s) == Sends(s, "throw") /\ Finish(s, "failed")

\* A database or Redis call throws; nothing in process() catches it.
SenderCallFails(s) ==
    /\ sender[s].pc \in {"load", "record", "missing", "retry"}
    /\ SenderFault(sender[s].to)
    /\ Step(s, "throw")
    /\ UNCHANGED <<endpoint, fanout, delivery, rows, sent, acked>>

SenderCrash(s) ==
    /\ ~Sends(s, "idle")
    /\ SenderFault(sender[s].to)
    /\ sender' = [sender EXCEPT ![s] = Nobody]
    /\ UNCHANGED <<endpoint, fanout, delivery, rows, sent, acked>>

Held(d, n) == \E s \in Senders : ~Sends(s, "idle") /\ sender[s].to = d /\ sender[s].attempt = n

\* The stalled check hands the job of a dead worker out again, or fails it.
DeliveryStalls(d, n) ==
    /\ delivery[d][n].state = "active" /\ ~Held(d, n)
    /\ delivery' = [delivery EXCEPT ![d][n] =
           IF @.stalls < MaxJobStalls THEN [state |-> "waiting", stalls |-> @.stalls + 1]
           ELSE [@ EXCEPT !.state = "failed"]]
    /\ UNCHANGED <<endpoint, fanout, rows, sender, sent, acked, troubled, spent>>
------------------------------------------------------------------------------
HookInit ==
    /\ endpoint \in [Endpoints -> {[state |-> "absent", types |-> {}, readable |-> TRUE],
                                   [state |-> "enabled", types |-> EventTypes, readable |-> TRUE]}]
    /\ fanout = [e \in Events |-> {}]
    /\ delivery = [d \in Deliveries |-> [n \in Attempts |-> NoJob]]
    /\ rows = [d \in Deliveries |-> <<>>]
    /\ sender = [s \in Senders |-> Nobody]
    /\ sent = [d \in Deliveries |-> [n \in Attempts |-> 0]]
    /\ acked = {} /\ troubled = {}
    /\ spent = [faults |-> 0, edits |-> 0]

ManageWebhooks ==
    \E h \in Endpoints : CreateWebhook(h) \/ UpdateWebhook(h) \/ RotateWebhookSecret(h)
                             \/ SecretsKeyChanges(h) \/ DeleteWebhook(h)

\* The steps a worker takes by itself once it has a job.
Send(s) ==
    \/ GetWebhookEndpoint(s) \/ Deliver(s) \/ RecordDeliveryAttempt(s) \/ RecordMissingEndpoint(s)
    \/ EnqueueRetry(s) \/ DeliveryReturns(s) \/ DeliveryThrows(s)

Queue(d, n) == DeliveryStalls(d, n) \/ \E s \in Senders : TakeDelivery(s, d, n)

\* Everything but the announcement of an event, which belongs to the deploy worker.
HookStep ==
    \/ ManageWebhooks
    \/ \E e \in Events, h \in Endpoints : EnqueueDelivery(e, h) \/ EnqueueDeliveryLost(e, h)
    \/ \E s \in Senders : Send(s) \/ SenderCallFails(s) \/ SenderCrash(s)
    \/ \E d \in Deliveries, n \in Attempts : Queue(d, n)

\* A deploy worker announces an event, once or, when its job is retried, again.
AnnounceEvent(e) == fanout[e] = {} /\ ListSubscribedWebhooks(e)

HookNext == HookStep \/ \E e \in Events : AnnounceEvent(e)

(* Adds that are in flight land, a worker that has a job goes on, BullMQ hands out
   waiting jobs and checks for stalled ones.  Endpoints, edits and faults owe nothing. *)
HookFairness ==
    /\ \A e \in Events, h \in Endpoints : WF_hookVars(EnqueueDelivery(e, h))
    /\ \A s \in Senders : WF_hookVars(Send(s))
    /\ \A d \in Deliveries, n \in Attempts : WF_hookVars(Queue(d, n))

HookSpec == HookInit /\ [][HookNext]_hookVars
FairHookSpec == HookSpec /\ HookFairness

Contract == INSTANCE DeliveryContract WITH
    MaxDuplicates <- MaxJobStalls,
    requests <- sent,
    accepted <- acked,
    stage <- [d \in Deliveries |-> IF ~Announced(d) THEN "unannounced" ELSE IF Live(d) THEN "pending" ELSE "closed"]

(* Every variable stays in its range, and a job that is held is active. *)
HookTypeOK ==
    /\ endpoint \in [Endpoints -> [state : EndpointStates, types : SUBSET EventTypes, readable : BOOLEAN]]
    /\ fanout \in [Events -> SUBSET Endpoints]
    /\ delivery \in [Deliveries -> [Attempts ->
            [state : {"none", "waiting", "active", "completed", "failed"}, stalls : 0..MaxJobStalls]]]
    /\ rows \in [Deliveries -> Seq([attempt : Attempts, code : StatusCodes, status : {"delivered", "retrying", "failed"}])]
    /\ sender \in [Senders -> [pc : {"idle"}] \union
            [pc : {"load", "missing", "post", "record", "retry", "return", "throw"},
             to : Deliveries, attempt : Attempts, status : StatusCodes]]
    /\ sent \in [Deliveries -> [Attempts -> Nat]]
    /\ acked \subseteq Deliveries /\ troubled \subseteq Deliveries
    /\ spent \in [faults : 0..MaxSenderFaults, edits : 0..MaxEdits]
    /\ \A s \in Senders : ~Sends(s, "idle") => delivery[sender[s].to][sender[s].attempt].state = "active"

(* The dispatcher, its workers and BullMQ keep the promise of DeliveryContract through
   crashes, stalls, repeated announcements and edits: attempts come in order and are bounded,
   and a closed delivery makes no request (webhook-dispatcher.ts:40-84). *)
DeliveryKeepsContract == Contract!DeliverySpec

(* The delivery log on the dashboard is the truth for every delivery no fault and no edit
   has disturbed: one row per request, in order, all but the last "retrying"; a closed
   delivery ends in "delivered", or in "failed" after a refusal or the last attempt
   (webhook-dispatcher.ts:58-83, webhook-retry-policy.ts:3-25). *)
DeliveryLogIsTrue ==
    \A d \in Deliveries \ troubled :
        LET k == Len(rows[d])
            last == rows[d][k] IN
        /\ \A i \in 1..k : rows[d][i].attempt = i
        /\ \A i \in 1..(k - 1) : rows[d][i].status = "retrying"
        /\ \A n \in 1..k : sent[d][n] = 1
        /\ Closed(d) /\ Exists(d[2]) =>
              /\ k > 0 /\ \A n \in Attempts : n > k => sent[d][n] = 0
              /\ (last.status = "delivered") = (d \in acked)
              /\ last.status = "failed" =>
                      k = Len(RetryDelays) \/ (last.code < 500 /\ last.code \notin {NoStatus, 408, 409, 429})
              /\ last.status # "retrying"

(* A delivery that has been announced is closed in the end, whatever crashes, failing calls
   and edits happen: no job is retried or handed out for ever (webhook-dispatcher.ts:78-83). *)
DeliveriesClose == \A d \in Deliveries : Announced(d) ~> Closed(d)
=============================================================================
