---------------------------- MODULE DeployPipeline ----------------------------
(***************************************************************************)
(* Deploys to one branch: the API calls that create versions, the BullMQ   *)
(* deploy queue, and the workers that parse, validate, diff, publish,      *)
(* index and announce a version.  A deploy call creates at most one        *)
(* version, so a call names the version it creates; each await of the code *)
(* is the end of an action.                                                *)
(*                                                                         *)
(* Sources: versions/versions.service.ts, versions/versions-worker.ts,     *)
(* versions/database-deploy-store.ts, versions/bullmq-deploy-queue.ts,     *)
(* versions/bullmq-deploy-worker.ts, search/meilisearch-search-index.ts.   *)
(***************************************************************************)
EXTENDS Integers, FiniteSets

CONSTANTS Deploys,          \* deploy calls, and the versions they create
          NoDeploy,         \* no version, no lock holder
          Specs, BadSpecs,  \* spec contents; those that do not parse or validate
          BareSpecs,        \* those without an operation: nothing to search for
          Workers,          \* backend processes that run the deploy worker
          MaxAttempts,      \* attempts of a job (3)
          MaxStalledCount,  \* BullMQ: how often a stalled job is handed out again (default 1)
          MaxFaults         \* bound: faults that hit the one unlucky version

ASSUME DeploysAssumption == NoDeploy \notin Deploys
ASSUME SpecsAssumption == BadSpecs \subseteq Specs /\ BareSpecs \subseteq Specs /\ Specs # {}
ASSUME BoundsAssumption ==
    MaxAttempts \in Nat \ {0} /\ MaxStalledCount \in Nat /\ MaxFaults \in Nat

VARIABLES branch,     \* the Branch row is committed
          lock,       \* the call whose transaction holds the branch row
          call,       \* where each deploy call stands: pc, its spec, what it saw
          version,    \* Version rows, with the artifact, Diff and ProcessingJob rows
          job,        \* BullMQ jobs
          indexed,    \* versions whose documents are in the search index
          events,     \* webhook events handed to the dispatcher
          local,      \* the memory of each worker's process() call
          faults      \* how many faults have hit each version

apiVars == <<branch, lock, call>>
vars == <<branch, lock, call, version, job, indexed, events, local, faults>>

CallPCs == {"idle", "find", "begin", "transaction", "enqueue", "answered", "skipped", "rejected", "failed"}
WorkerPCs == {"idle", "get", "markVersion", "markJob", "parse", "base", "diff", "ready", "search",
              "addDocuments", "announce", "readDiff", "complete", "fail", "failJob", "failEvent", "return", "throw"}

NoVersion == [status |-> "none", seq |-> 0, readyAt |-> FALSE, artifact |-> FALSE,
              diffed |-> FALSE, base |-> NoDeploy, breaking |-> FALSE, jobStatus |-> "none"]

Versions == {d \in Deploys : version[d].status # "none"}
Content(d) == call[d].spec

\* A fault hits d.  Bound: all faults of a behaviour hit one version, at most MaxFaults times.
Fault(d) ==
    /\ faults[d] < MaxFaults /\ \A v \in Deploys \ {d} : faults[v] = 0
    /\ faults' = [faults EXCEPT ![d] = @ + 1]
------------------------------------------------------------------------------
(***************************************************************************)
(* VersionsService.deploy and createQueuedVersion.                         *)
(***************************************************************************)
GoCall(d, pc) == call' = [call EXCEPT ![d].pc = pc]

\* A client deploys some spec; auth and parsing have passed.
Submit(d) ==
    /\ call[d].pc = "idle"
    /\ \E s \in Specs : call' = [call EXCEPT ![d].pc = "find", ![d].spec = s]
    /\ UNCHANGED <<branch, lock, version, job, indexed, events, local, faults>>

\* The versions findVersionByHash and the unique index look at.
SameContent(d) == {v \in Versions : Content(v) = Content(d)}

FindVersionByHash(d) ==
    /\ call[d].pc = "find"
    /\ GoCall(d, IF SameContent(d) # {} THEN "skipped" ELSE "begin")
    /\ UNCHANGED <<branch, lock, version, job, indexed, events, local, faults>>

\* BEGIN and the lookups: an uncommitted branch of another call is not seen.
BeginCreate(d) ==
    /\ call[d].pc = "begin"
    /\ call' = [call EXCEPT ![d].pc = "transaction", ![d].sawBranch = branch]
    /\ UNCHANGED <<branch, lock, version, job, indexed, events, local, faults>>

LastSeq == CHOOSE n \in {0} \union {version[v].seq : v \in Deploys} :
               \A v \in Deploys : version[v].seq <= n

(* The branch row is held: by INSERT when the call has not seen one (a second
   INSERT waits for the first), else by SELECT ... FOR UPDATE.  Then MAX is read. *)
LockBranch(d) ==
    /\ call[d].pc = "transaction" /\ call[d].seq = 0
    /\ lock = NoDeploy
    /\ call[d].sawBranch \/ ~branch
    /\ lock' = d
    /\ call' = [call EXCEPT ![d].seq = LastSeq + 1]
    /\ UNCHANGED <<branch, version, job, indexed, events, local, faults>>

\* Another call has committed the branch meanwhile: INSERT fails, ROLLBACK.
BranchConflict(d) ==
    /\ call[d].pc = "transaction" /\ call[d].seq = 0
    /\ lock = NoDeploy /\ ~call[d].sawBranch /\ branch
    /\ GoCall(d, "rejected")
    /\ UNCHANGED <<branch, lock, version, job, indexed, events, local, faults>>

\* Mutant: no unique index on (docId, branchId, sha256).
InsertableAnyContent(d) == \A v \in Versions : version[v].seq # call[d].seq

\* The unique indexes of Version admit the row.
Insertable(d) == SameContent(d) = {} /\ \A v \in Versions : version[v].seq # call[d].seq

\* Version and ProcessingJob are inserted, the spec is stored, COMMIT.
CommitVersion(d) ==
    /\ call[d].pc = "transaction" /\ call[d].seq # 0
    /\ Insertable(d)
    /\ version' = [version EXCEPT ![d] =
            [NoVersion EXCEPT !.status = "queued", !.seq = call[d].seq, !.jobStatus = "queued"]]
    /\ branch' = TRUE /\ lock' = NoDeploy
    /\ GoCall(d, "enqueue")
    /\ UNCHANGED <<job, indexed, events, local, faults>>

\* A unique index refuses the row: ROLLBACK, the call answers an error.
RefuseVersion(d) ==
    /\ call[d].pc = "transaction" /\ call[d].seq # 0
    /\ ~Insertable(d)
    /\ lock' = NoDeploy
    /\ GoCall(d, "rejected")
    /\ UNCHANGED <<branch, version, job, indexed, events, local, faults>>

\* The object store or the connection fails before COMMIT: ROLLBACK.
CreateFails(d) ==
    /\ call[d].pc = "transaction" /\ call[d].seq # 0
    /\ Fault(d)
    /\ lock' = NoDeploy
    /\ GoCall(d, "failed")
    /\ UNCHANGED <<branch, version, job, indexed, events, local>>

EnqueueDeploy(d) ==
    /\ call[d].pc = "enqueue"
    /\ job' = [job EXCEPT ![d].state = "waiting"]
    /\ GoCall(d, "answered")
    /\ UNCHANGED <<branch, lock, version, indexed, events, local, faults>>

\* Redis is down: the version stays queued, nothing will process it.
EnqueueLost(d) ==
    /\ call[d].pc = "enqueue"
    /\ Fault(d)
    /\ GoCall(d, "failed")
    /\ UNCHANGED <<branch, lock, version, job, indexed, events, local>>
------------------------------------------------------------------------------
(***************************************************************************)
(* VersionsWorker.process.                                                 *)
(***************************************************************************)
Idle == [pc |-> "idle", ver |-> NoDeploy, base |-> NoDeploy]

\* Worker w stands at pc with a version; it goes to pc2.
At(w, pc) == local[w].pc = pc
GoTo(w, pc) == local' = [local EXCEPT ![w].pc = pc]
SetRow(v, row) == version' = [version EXCEPT ![v] = row]
OnlyLocal == UNCHANGED <<branch, lock, call, version, job, indexed, events, faults>>
OnlyRow == UNCHANGED <<branch, lock, call, job, indexed, events, faults>>

TakeJob(w, v) ==
    /\ At(w, "idle") /\ job[v].state = "waiting"
    /\ job' = [job EXCEPT ![v].state = "active"]
    /\ local' = [local EXCEPT ![w] = [Idle EXCEPT !.pc = "get", !.ver = v]]
    /\ UNCHANGED <<branch, lock, call, version, indexed, events, faults>>

\* A version that is ready is not processed again.
GetVersion(w) ==
    /\ At(w, "get")
    /\ GoTo(w, IF version[local[w].ver].status = "ready" THEN "return" ELSE "markVersion")
    /\ OnlyLocal

MarkVersionProcessing(w) ==
    /\ At(w, "markVersion")
    /\ LET v == local[w].ver IN SetRow(v, [version[v] EXCEPT !.status = "processing"])
    /\ GoTo(w, "markJob")
    /\ OnlyRow

\* The second update of markVersionProcessing; the row is read back, which may fail.
MarkJobProcessing(w) ==
    /\ At(w, "markJob")
    /\ LET v == local[w].ver IN SetRow(v, [version[v] EXCEPT !.jobStatus = "processing"])
    /\ \/ GoTo(w, "parse") /\ UNCHANGED faults
       \/ GoTo(w, "throw") /\ Fault(local[w].ver)
    /\ UNCHANGED <<branch, lock, call, job, indexed, events>>

\* Mutant: validate is not awaited, its failure is lost.
ParseAndValidateUnchecked(w) ==
    /\ At(w, "parse")
    /\ LET v == local[w].ver IN SetRow(v, [version[v] EXCEPT !.artifact = TRUE])
    /\ GoTo(w, "base")
    /\ OnlyRow

(* parse() records the normalized spec, validate() looks at it.  A bad spec fails
   in either: with or without the artifact. *)
ParseAndValidate(w) ==
    /\ At(w, "parse")
    /\ LET v == local[w].ver IN
        \/ /\ Content(v) \notin BadSpecs
           /\ SetRow(v, [version[v] EXCEPT !.artifact = TRUE])
           /\ GoTo(w, "base")
        \/ /\ Content(v) \in BadSpecs
           /\ \E recorded \in BOOLEAN : SetRow(v, [version[v] EXCEPT !.artifact = @ \/ recorded])
           /\ GoTo(w, "fail")
    /\ OnlyRow

Earlier(v) == {u \in Versions : version[u].seq < version[v].seq}

\* Mutant: the previous version, whatever its status.
PreviousReadyAnyStatus(v) == Earlier(v)

PreviousReady(v) == {u \in Earlier(v) : version[u].status = "ready"}

\* previousReadyVersion: ORDER BY "sequenceNumber" DESC LIMIT 1.
PreviousReadyVersion(w) ==
    /\ At(w, "base")
    /\ LET previous == PreviousReady(local[w].ver) IN
        \/ previous = {} /\ local' = [local EXCEPT ![w].pc = "diff", ![w].base = NoDeploy]
        \/ \E u \in previous :
            /\ \A x \in previous : version[x].seq <= version[u].seq
            /\ local' = [local EXCEPT ![w].pc = "diff", ![w].base = u]
    /\ OnlyLocal

\* recordDiff: "headVersionId" is unique, a second row for the version is refused.
RecordDiff(w) ==
    /\ At(w, "diff")
    /\ LET v == local[w].ver IN
        \/ /\ ~version[v].diffed
           /\ \E b \in BOOLEAN :
                /\ local[w].base = NoDeploy => ~b
                /\ SetRow(v, [version[v] EXCEPT !.diffed = TRUE, !.base = local[w].base, !.breaking = b])
           /\ GoTo(w, "ready")
        \/ /\ version[v].diffed
           /\ GoTo(w, "fail")
           /\ UNCHANGED version
    /\ OnlyRow

MarkVersionReady(w) ==
    /\ At(w, "ready")
    /\ LET v == local[w].ver IN SetRow(v, [version[v] EXCEPT !.status = "ready", !.readyAt = TRUE])
    /\ GoTo(w, "search")
    /\ OnlyRow

\* Mutant: the early return of replaceVersionDocuments is taken when there are documents.
DeleteDocumentsOnly(w) ==
    /\ At(w, "search")
    /\ indexed' = {}
    /\ GoTo(w, IF Content(local[w].ver) \in BareSpecs THEN "addDocuments" ELSE "announce")
    /\ UNCHANGED <<branch, lock, call, version, job, events, faults>>

(* replaceVersionDocuments, the first request: the documents of the whole branch go, those of
   other versions too.  A version without documents has none to add. *)
DeleteDocuments(w) ==
    /\ At(w, "search")
    /\ indexed' = {}
    /\ GoTo(w, IF Content(local[w].ver) \in BareSpecs THEN "announce" ELSE "addDocuments")
    /\ UNCHANGED <<branch, lock, call, version, job, events, faults>>

\* The second request.
AddDocuments(w) ==
    /\ At(w, "addDocuments")
    /\ indexed' = indexed \union {local[w].ver}
    /\ GoTo(w, "announce")
    /\ UNCHANGED <<branch, lock, call, version, job, events, faults>>

\* enqueueEvent swallows the dispatcher's errors: the event may be lost.
Announce(w, type, next) ==
    /\ \/ events' = events \union {<<local[w].ver, type>>} /\ UNCHANGED faults
       \/ Fault(local[w].ver) /\ UNCHANGED events
    /\ GoTo(w, next)
    /\ UNCHANGED <<branch, lock, call, version, job, indexed>>

AnnounceCreated(w) == At(w, "announce") /\ Announce(w, "version.created", "readDiff")

(* diffForVersionAsync names its columns "hasBreaking" ... in the query and reads
   has_breaking ... of the row: an absent property, which is not true. *)
DiffForVersion(v) ==
    LET row == [hasBreaking |-> version[v].breaking] IN
    [hasBreaking |-> "has_breaking" \in DOMAIN row /\ row["has_breaking"]]

\* diff?.hasBreaking === true, then the second event.
AnnounceBreaking(w) ==
    /\ At(w, "readDiff")
    /\ IF version[local[w].ver].diffed /\ DiffForVersion(local[w].ver).hasBreaking
       THEN Announce(w, "diff.breaking_detected", "complete")
       ELSE GoTo(w, "complete") /\ OnlyLocal

MarkJobCompleted(w) ==
    /\ At(w, "complete")
    /\ LET v == local[w].ver IN SetRow(v, [version[v] EXCEPT !.jobStatus = "completed"])
    /\ GoTo(w, "return")
    /\ OnlyRow

\* The catch block: markVersionFailed is two updates.
MarkVersionFailed(w) ==
    /\ At(w, "fail")
    /\ LET v == local[w].ver IN SetRow(v, [version[v] EXCEPT !.status = "failed"])
    /\ GoTo(w, "failJob")
    /\ OnlyRow

MarkJobFailed(w) ==
    /\ At(w, "failJob")
    /\ LET v == local[w].ver IN SetRow(v, [version[v] EXCEPT !.jobStatus = "failed"])
    /\ GoTo(w, "failEvent")
    /\ OnlyRow

AnnounceFailed(w) == At(w, "failEvent") /\ Announce(w, "version.failed", "throw")

\* A database, object-store or search call throws; inside the try the catch block follows.
InTry == {"parse", "base", "diff", "ready", "search", "addDocuments", "readDiff", "complete"}
StoreFails(w) ==
    /\ local[w].pc \in InTry \union {"get", "markVersion", "markJob", "fail", "failJob"}
    /\ Fault(local[w].ver)
    /\ GoTo(w, IF local[w].pc \in InTry THEN "fail" ELSE "throw")
    /\ UNCHANGED <<branch, lock, call, version, job, indexed, events>>
------------------------------------------------------------------------------
(***************************************************************************)
(* BullMQ's side of a job.                                                 *)
(***************************************************************************)
JobReturns(w) ==
    /\ At(w, "return")
    /\ job' = [job EXCEPT ![local[w].ver].state = "completed"]
    /\ local' = [local EXCEPT ![w] = Idle]
    /\ UNCHANGED <<branch, lock, call, version, indexed, events, faults>>

\* Mutant: the attempts of a job are not counted.
JobThrowsUncounted(w) ==
    /\ At(w, "throw")
    /\ job' = [job EXCEPT ![local[w].ver].state = "waiting"]
    /\ local' = [local EXCEPT ![w] = Idle]
    /\ UNCHANGED <<branch, lock, call, version, indexed, events, faults>>

\* A failed attempt waits for its backoff and is tried again, or the job has failed.
JobThrows(w) ==
    /\ At(w, "throw")
    /\ LET v == local[w].ver IN
       job' = [job EXCEPT ![v].attempts = @ + 1,
                          ![v].state = IF job[v].attempts + 1 < MaxAttempts THEN "waiting" ELSE "failed"]
    /\ local' = [local EXCEPT ![w] = Idle]
    /\ UNCHANGED <<branch, lock, call, version, indexed, events, faults>>

\* The process dies: its memory is lost, the job stays active in Redis.
Crash(w) ==
    /\ ~At(w, "idle")
    /\ Fault(local[w].ver)
    /\ local' = [local EXCEPT ![w] = Idle]
    /\ UNCHANGED <<branch, lock, call, version, job, indexed, events>>

\* The stalled check hands the job of a dead worker out again, or fails it.
JobStalls(v) ==
    /\ job[v].state = "active" /\ \A w \in Workers : local[w].ver # v
    /\ job' = [job EXCEPT ![v].stalls = @ + 1,
                          ![v].state = IF job[v].stalls < MaxStalledCount THEN "waiting" ELSE "failed"]
    /\ UNCHANGED <<branch, lock, call, version, indexed, events, local, faults>>
------------------------------------------------------------------------------
Init ==
    /\ branch \in BOOLEAN
    /\ lock = NoDeploy
    /\ \E s \in Specs : call = [d \in Deploys |-> [pc |-> "idle", spec |-> s, sawBranch |-> FALSE, seq |-> 0]]
    /\ version = [d \in Deploys |-> NoVersion]
    /\ job = [d \in Deploys |-> [state |-> "none", attempts |-> 0, stalls |-> 0]]
    /\ indexed = {} /\ events = {}
    /\ local = [w \in Workers |-> Idle]
    /\ faults = [d \in Deploys |-> 0]

Deploy(d) ==
    \/ Submit(d) \/ FindVersionByHash(d) \/ BeginCreate(d) \/ LockBranch(d) \/ BranchConflict(d)
    \/ CommitVersion(d) \/ RefuseVersion(d) \/ CreateFails(d) \/ EnqueueDeploy(d) \/ EnqueueLost(d)

\* The steps a worker takes by itself once it has a job.
Process(w) ==
    \/ GetVersion(w) \/ MarkVersionProcessing(w) \/ MarkJobProcessing(w) \/ ParseAndValidate(w)
    \/ PreviousReadyVersion(w) \/ RecordDiff(w) \/ MarkVersionReady(w) \/ DeleteDocuments(w)
    \/ AddDocuments(w) \/ AnnounceCreated(w) \/ AnnounceBreaking(w) \/ MarkJobCompleted(w)
    \/ MarkVersionFailed(w) \/ MarkJobFailed(w) \/ AnnounceFailed(w)
    \/ JobReturns(w) \/ JobThrows(w)

Next ==
    \/ \E d \in Deploys : Deploy(d) \/ JobStalls(d)
    \/ \E w \in Workers : Process(w) \/ StoreFails(w) \/ Crash(w) \/ \E v \in Deploys : TakeJob(w, v)

Spec == Init /\ [][Next]_vars

(* A worker that has taken a job goes on, BullMQ hands out every waiting job and
   checks for stalled ones.  Nothing is assumed of the clients and of the faults. *)
Fairness ==
    /\ \A w \in Workers : WF_vars(Process(w))
    /\ \A v \in Deploys : WF_vars(JobStalls(v)) /\ WF_vars(\E w \in Workers : TakeJob(w, v))

FairSpec == Spec /\ Fairness
------------------------------------------------------------------------------
CallType == [pc : CallPCs, spec : Specs, sawBranch : BOOLEAN, seq : Nat]
VersionType == [status : {"none", "queued", "processing", "ready", "failed"}, seq : Nat, readyAt : BOOLEAN,
                artifact : BOOLEAN, diffed : BOOLEAN, base : Deploys \union {NoDeploy}, breaking : BOOLEAN,
                jobStatus : {"none", "queued", "processing", "completed", "failed"}]
JobType == [state : {"none", "waiting", "active", "completed", "failed"},
            attempts : 0..MaxAttempts, stalls : 0..(MaxStalledCount + 1)]
LocalType == [pc : WorkerPCs, ver : Deploys \union {NoDeploy}, base : Deploys \union {NoDeploy}]
EventType == {"version.created", "version.failed", "diff.breaking_detected"}

(* Every variable stays in its range; a job has at most MaxAttempts failed attempts. *)
TypeOK ==
    /\ branch \in BOOLEAN /\ lock \in Deploys \union {NoDeploy}
    /\ call \in [Deploys -> CallType] /\ version \in [Deploys -> VersionType]
    /\ job \in [Deploys -> JobType] /\ local \in [Workers -> LocalType]
    /\ indexed \subseteq Deploys /\ events \subseteq Deploys \X EventType
    /\ \A w \in Workers : local[w].ver = NoDeploy <=> At(w, "idle")
    /\ faults \in [Deploys -> 0..MaxFaults]

(* A content is stored once on a branch, whatever deploys of it overlap: the lookup before
   the transaction does not see them, the unique index does.  And a unique index refuses a
   deploy only when the same content has been stored meanwhile, or the branch has been created
   meanwhile: sequence numbers never collide (versions.service.ts:46-56,
   database-deploy-store.ts:133-148). *)
OneVersionPerContent ==
    /\ \A u, v \in Versions : u # v => Content(u) # Content(v)
    /\ \A d \in Deploys : call[d].pc = "rejected" =>
          \E v \in Versions \ {d} : Content(v) = Content(d) \/ ~call[d].sawBranch

(* What has been published had been validated, normalized and diffed, in spite of
   retries and crashes, and a diff is taken against an older version of the branch
   that has been published, while other workers publish and fail versions.  What the search
   index holds has been published (versions-worker.ts:44-49, database-deploy-store.ts:237-252). *)
PublishedVersionsAreWhole ==
    \A v \in Versions :
        /\ version[v].readyAt => version[v].artifact /\ version[v].diffed /\ Content(v) \notin BadSpecs
        /\ version[v].base # NoDeploy => /\ version[version[v].base].readyAt
                                        /\ version[version[v].base].seq < version[v].seq
        /\ v \in indexed => version[v].readyAt /\ Content(v) \notin BareSpecs

\* Every published version had documents, none was disturbed, and no worker is between its two requests.
IndexSettled ==
    /\ \A v \in Deploys : faults[v] = 0 /\ (version[v].readyAt => Content(v) \notin BareSpecs)
    /\ \A w \in Workers : ~At(w, "addDocuments")

(* BullMQ and the database agree: a job completes only for a ready version, and when no fault
   has hit a version, the end of its job leaves it published and announced, or failed and
   announced, after its spec.  Workers that publish at the same time delete each other's
   documents, but not those added last: the branch's search is not left empty
   (versions-worker.ts:21-62, meilisearch-search-index.ts:54-82). *)
JobEndTellsVersion ==
    \A v \in Deploys :
        /\ job[v].state = "completed" => version[v].status = "ready"
        /\ job[v].state \in {"completed", "failed"} /\ faults[v] = 0 =>
              IF Content(v) \in BadSpecs
              THEN /\ version[v].status = "failed" /\ version[v].jobStatus = "failed"
                   /\ {e \in events : e[1] = v} = {<<v, "version.failed">>}
              ELSE /\ version[v].status = "ready" /\ version[v].jobStatus = "completed"
                   /\ <<v, "version.created">> \in events
                   /\ IndexSettled => indexed # {}

(* A job that has been queued ends: no crash and no failing store call keeps it going
   round for ever (bullmq-deploy-queue.ts:15-24). *)
JobEnds == \A v \in Deploys : job[v].state = "waiting" ~> job[v].state \in {"completed", "failed"}

(* "Workers acquire jobs independently and must be safe to retry" (SYSTEM_DESIGN.md:697):
   a job of a valid spec fails for good only when each of its attempts met a fault. *)
RetriesAreSafe ==
    \A v \in Deploys :
        job[v].state = "failed" /\ Content(v) \notin BadSpecs => faults[v] >= MaxAttempts
=============================================================================
