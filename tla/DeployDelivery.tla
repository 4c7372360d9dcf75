--------------------------- MODULE DeployDelivery ---------------------------
(***************************************************************************)
(* The deploy pipeline and webhook delivery composed: the deploy worker    *)
(* announces a version by calling the dispatcher, waits for its adds, and  *)
(* goes on; endpoints, jobs and delivery workers run beside it.            *)
(*                                                                         *)
(* Sources: versions/versions-worker.ts, webhooks/webhook-dispatcher.ts.   *)
(***************************************************************************)
EXTENDS DeployPipeline, WebhookDelivery

systemVars == <<vars, hookVars>>

EventAt == [announce |-> "version.created", readDiff |-> "diff.breaking_detected",
            failEvent |-> "version.failed"]

\* enqueueEvent is awaited: its worker is suspended until the adds have settled.
Dispatching(w) == \E e \in Events : e[1] = local[w].ver /\ fanout[e] # {}

\* Mutant: the failure event is not handed to the dispatcher.
HandOverCreatedOnly(w) ==
    LET e == <<local[w].ver, "version.created">> IN
    IF At(w, "announce") /\ faults' = faults /\ e \in events'
    THEN ListSubscribedWebhooks(e) ELSE UNCHANGED hookVars

\* Mutant: the event is handed over before the version is published.
HandOverBeforePublishing(w) ==
    IF At(w, "ready") THEN ListSubscribedWebhooks(<<local[w].ver, "version.created">>) ELSE UNCHANGED hookVars

\* A step of the worker that announces an event makes the dispatcher list its endpoints.
HandOver(w) ==
    LET e == <<local[w].ver, EventAt[local[w].pc]>> IN
    IF local[w].pc \in DOMAIN EventAt /\ faults' = faults /\ e \in events'
    THEN ListSubscribedWebhooks(e) ELSE UNCHANGED hookVars

DeployWorker(w) == ~Dispatching(w) /\ Process(w) /\ HandOver(w)

\* The process that dies takes the adds it has not made with it.
DeployWorkerCrash(w) ==
    /\ Crash(w)
    /\ fanout' = [e \in Events |-> IF e[1] = local[w].ver THEN {} ELSE fanout[e]]
    /\ UNCHANGED <<endpoint, delivery, rows, sender, sent, acked, troubled, spent>>

DeployStoreFails(w) == ~Dispatching(w) /\ StoreFails(w) /\ UNCHANGED hookVars

DeployQueue(v) == JobStalls(v) \/ \E w \in Workers : TakeJob(w, v)

SystemInit == Init /\ HookInit

SystemNext ==
    \/ \E d \in Deploys : (Deploy(d) \/ DeployQueue(d)) /\ UNCHANGED hookVars
    \/ \E w \in Workers : DeployWorker(w) \/ DeployStoreFails(w) \/ DeployWorkerCrash(w)
    \/ HookStep /\ UNCHANGED vars

SystemSpec ==
    /\ SystemInit /\ [][SystemNext]_systemVars
    /\ \A w \in Workers : WF_vars(DeployWorker(w))
    /\ \A v \in Deploys : WF_vars(JobStalls(v)) /\ WF_vars(\E w \in Workers : TakeJob(w, v))
    /\ HookFairness

(* An endpoint hears of a version only what has happened to it, whatever faults and retries:
   of a new version once it is published, normalized and diffed, of a failure when the spec is
   bad or a fault has hit the version (versions-worker.ts:45-60, 131-134).  Nothing is said of
   the search index: another version may have replaced the documents by then. *)
EndpointsHearTheTruth ==
    \A d \in Deliveries : Announced(d) =>
        LET v == d[1][1] IN
        /\ d[1] \in events
        /\ d[1][2] = "version.created" => version[v].readyAt /\ version[v].artifact /\ version[v].diffed
        /\ d[1][2] = "version.failed" => Content(v) \in BadSpecs \/ faults[v] > 0

(* End to end: once the job of a deploy no fault has hit has ended, each endpoint subscribed
   to its outcome has a log that ends "delivered" or "failed", unless a fault or an edit of an
   endpoint has happened (versions-worker.ts:131-134, 57-60, webhook-dispatcher.ts:15-29). *)
OutcomeReachesEndpoints ==
    \A v \in Deploys, h \in Endpoints :
        LET outcome == <<v, IF Content(v) \in BadSpecs THEN "version.failed" ELSE "version.created">>
            log == rows[<<outcome, h>>] IN
        job[v].state \in {"completed", "failed"} /\ faults[v] = 0 /\ outcome[2] \in endpoint[h].types
            ~> \/ log # <<>> /\ log[Len(log)].status \in {"delivered", "failed"}
               \/ spent.faults + spent.edits > 0 \/ faults[v] > 0
=============================================================================
