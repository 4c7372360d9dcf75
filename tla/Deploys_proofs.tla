--------------------------- MODULE Deploys_proofs ---------------------------
(***************************************************************************)
(* Theorems about the two sources of deploys.                              *)
(*                                                                         *)
(* DeployPipeline, for any number of deploys, specs, workers, attempts and *)
(* faults: the type invariant, that a content is stored once and sequence  *)
(* numbers never collide, that what is published is whole, and what the    *)
(* end of a job tells of its version.                                      *)
(*                                                                         *)
(* GithubDeploys, for any repositories, docs, files and webhooks under     *)
(* way: a processed webhook has deployed its file to every doc that it     *)
(* read a mapping for, but to those that are gone and those that failed.   *)
(***************************************************************************)
EXTENDS DeployPipeline, GithubDeploys, TLAPS

(* The greatest sequence number exists, so that LastSeq is one: of a set of deploys that is
   not known to be finite this is an invariant of its own. *)
Highest(n) == n \in {0} \union {version[v].seq : v \in Deploys} /\ \A v \in Deploys : version[v].seq <= n
HasHighest == \E n \in Nat : Highest(n)

\* A worker holds an active job, alone; a job that goes on has attempts and stalls left.
WorkersHoldJobs ==
    /\ \A w \in Workers : local[w].ver # NoDeploy => job[local[w].ver].state = "active"
    /\ \A w, x \in Workers : local[w].ver # NoDeploy /\ local[w].ver = local[x].ver => w = x
    /\ \A v \in Deploys : job[v].state \in {"none", "waiting", "active"} =>
           job[v].attempts < MaxAttempts /\ job[v].stalls <= MaxStalledCount

TypeInv == TypeOK /\ HasHighest /\ WorkersHoldJobs

\* Initially every row is absent, every counter 0.
LEMMA InitTyped == Init => TypeInv
  <1> SUFFICES ASSUME Init PROVE TypeInv
    OBVIOUS
  <1>1. TypeOK
    BY DeploysAssumption, SpecsAssumption, BoundsAssumption DEF Init, TypeOK, CallType, VersionType,
       JobType, LocalType, NoVersion, Idle, CallPCs, WorkerPCs, At
  <1>2. Highest(0)
    BY DEF Init, NoVersion, Highest
  <1>3. WorkersHoldJobs
    BY BoundsAssumption DEF Init, Idle, WorkersHoldJobs
  <1> QED
    BY <1>1, <1>2, <1>3 DEF TypeInv, HasHighest

\* LastSeq is the greatest sequence number.
LEMMA LastSeqIsHighest == ASSUME TypeInv PROVE LastSeq \in Nat /\ \A v \in Deploys : version[v].seq <= LastSeq
  <1>1. \E n \in {0} \union {version[v].seq : v \in Deploys} : \A v \in Deploys : version[v].seq <= n
    BY DEF TypeInv, HasHighest, Highest
  <1>2. LastSeq \in {0} \union {version[v].seq : v \in Deploys} /\ \A v \in Deploys : version[v].seq <= LastSeq
    BY <1>1 DEF LastSeq
  <1>3. \A v \in Deploys : version[v].seq \in Nat
    BY DEF TypeInv, TypeOK, VersionType
  <1> QED
    BY <1>2, <1>3
------------------------------------------------------------------------------
(***************************************************************************)
(* Types.                                                                  *)
(***************************************************************************)
\* The three ways in which actions change a row, a job and a worker's memory.
LEMMA RowTyped ==
    ASSUME TypeOK, NEW v \in Deploys, NEW row \in VersionType, SetRow(v, row)
    PROVE  version' \in [Deploys -> VersionType]
  BY DEF TypeOK, SetRow

\* A worker's memory is replaced.
LEMMA MemoryTyped ==
    ASSUME TypeOK, NEW w \in Workers, NEW m \in LocalType, m.ver = NoDeploy <=> m.pc = "idle",
           local' = [local EXCEPT ![w] = m]
    PROVE  local' \in [Workers -> LocalType] /\ \A x \in Workers : local'[x].ver = NoDeploy <=> local'[x].pc = "idle"
  BY DEF TypeOK, At

\* A worker goes on to another await.
LEMMA MoveTyped ==
    ASSUME TypeOK, NEW w \in Workers, ~At(w, "idle"), NEW pc \in WorkerPCs, pc # "idle", GoTo(w, pc)
    PROVE  local' \in [Workers -> LocalType] /\ \A x \in Workers : local'[x].ver = NoDeploy <=> local'[x].pc = "idle"
  <1>1. local[w] \in LocalType /\ local[w].ver # NoDeploy
    BY DEF TypeOK, At
  <1>2. [local[w] EXCEPT !.pc = pc] \in LocalType
    BY <1>1 DEF LocalType
  <1>3. local' = [local EXCEPT ![w] = [local[w] EXCEPT !.pc = pc]]
    BY DEF GoTo
  <1> QED
    BY <1>1, <1>2, <1>3, MemoryTyped DEF LocalType

\* Faults are counted up to their bound.
LEMMA FaultTyped == ASSUME TypeOK, NEW v \in Deploys, Fault(v) PROVE faults' \in [Deploys -> 0..MaxFaults]
  BY BoundsAssumption DEF TypeOK, Fault

\* The rows that the worker writes.
LEMMA WrittenRowsTyped ==
    ASSUME NEW r \in VersionType, NEW b \in BOOLEAN, NEW u \in Deploys \union {NoDeploy}
    PROVE  /\ [r EXCEPT !.status = "processing"] \in VersionType
           /\ [r EXCEPT !.status = "failed"] \in VersionType
           /\ [r EXCEPT !.status = "ready", !.readyAt = TRUE] \in VersionType
           /\ [r EXCEPT !.jobStatus = "processing"] \in VersionType
           /\ [r EXCEPT !.jobStatus = "completed"] \in VersionType
           /\ [r EXCEPT !.jobStatus = "failed"] \in VersionType
           /\ [r EXCEPT !.artifact = TRUE] \in VersionType
           /\ [r EXCEPT !.artifact = @ \/ b] \in VersionType
           /\ [r EXCEPT !.diffed = TRUE, !.base = u, !.breaking = b] \in VersionType
  BY DEF VersionType

\* BullMQ moves a job.
LEMMA StateTyped ==
    ASSUME TypeOK, NEW v \in Deploys, NEW st \in {"waiting", "active", "completed"},
           job' = [job EXCEPT ![v].state = st]
    PROVE  job' \in [Deploys -> JobType]
  BY DEF TypeOK, JobType

\* The memory of a worker that has taken a job.
LEMMA TakenTyped ==
    ASSUME NEW v \in Deploys
    PROVE  /\ [Idle EXCEPT !.pc = "get", !.ver = v] \in LocalType
           /\ [Idle EXCEPT !.pc = "get", !.ver = v].pc = "get"
           /\ [Idle EXCEPT !.pc = "get", !.ver = v].ver = v
           /\ [Idle EXCEPT !.pc = "get", !.ver = v].base = NoDeploy
  <1>1. Idle \in LocalType /\ Idle.base = NoDeploy
    BY DEF Idle, LocalType, WorkerPCs
  <1> QED
    BY <1>1 DEF LocalType, WorkerPCs

\* Taking a job keeps the memories typed.
LEMMA TakeTyped ==
    ASSUME TypeOK, NEW w \in Workers, NEW v \in Deploys, TakeJob(w, v)
    PROVE  local' \in [Workers -> LocalType] /\ \A x \in Workers : local'[x].ver = NoDeploy <=> local'[x].pc = "idle"
  <1>1. PICK m \in LocalType : local' = [local EXCEPT ![w] = m] /\ m.pc = "get" /\ m.ver = v
    BY TakenTyped DEF TakeJob
  <1>2. m.ver = NoDeploy <=> m.pc = "idle"
    BY <1>1, DeploysAssumption
  <1> QED
    BY <1>1, <1>2, MemoryTyped

\* A worker that is not idle has a version.
LEMMA VersionAtHand ==
    ASSUME TypeOK, NEW w \in Workers, ~At(w, "idle")
    PROVE  local[w].ver \in Deploys /\ version[local[w].ver] \in VersionType
  BY DEF TypeOK, LocalType

\* The actions of the API call.
LEMMA DeployTyped == ASSUME TypeInv, NEW d \in Deploys, Deploy(d) \/ JobStalls(d) PROVE TypeOK'
  <1> USE DeploysAssumption, SpecsAssumption, BoundsAssumption DEF TypeInv, TypeOK, At
  <1>1. CASE Submit(d)
    <2>1. PICK s \in Specs : call' = [call EXCEPT ![d].pc = "find", ![d].spec = s]
      BY <1>1 DEF Submit
    <2>2. call[d] \in CallType
      OBVIOUS
    <2>3. [call[d] EXCEPT !.pc = "find", !.spec = s] \in CallType
      BY <2>2 DEF CallType, CallPCs
    <2>4. call' \in [Deploys -> CallType]
      BY <2>1, <2>3
    <2> QED
      BY <1>1, <2>4 DEF Submit
  <1>2. CASE FindVersionByHash(d)
    BY <1>2 DEF FindVersionByHash, GoCall, CallType, CallPCs
  <1>3. CASE BeginCreate(d)
    BY ZenonT(60), <1>3 DEF BeginCreate, CallType, CallPCs
  <1>4. CASE LockBranch(d)
    BY <1>4, LastSeqIsHighest DEF LockBranch, CallType, CallPCs
  <1>5. CASE BranchConflict(d)
    BY <1>5 DEF BranchConflict, GoCall, CallType, CallPCs
  <1>6. CASE CommitVersion(d)
    <2>1. call[d].seq \in Nat
      BY DEF CallType
    <2>2. [NoVersion EXCEPT !.status = "queued", !.seq = call[d].seq, !.jobStatus = "queued"] \in VersionType
      BY <2>1 DEF NoVersion, VersionType
    <2>3. version' \in [Deploys -> VersionType]
      BY <1>6, <2>2 DEF CommitVersion
    <2>4. call' \in [Deploys -> CallType]
      BY <1>6 DEF CommitVersion, GoCall, CallType, CallPCs
    <2> QED
      BY <1>6, <2>3, <2>4 DEF CommitVersion
  <1>7. CASE RefuseVersion(d)
    BY <1>7 DEF RefuseVersion, GoCall, CallType, CallPCs
  <1>8. CASE CreateFails(d)
    BY <1>8, FaultTyped DEF CreateFails, GoCall, CallType, CallPCs
  <1>9. CASE EnqueueDeploy(d)
    BY SMTT(60), <1>9 DEF EnqueueDeploy, GoCall, JobType, CallType, CallPCs
  <1>10. CASE EnqueueLost(d)
    BY <1>10, FaultTyped DEF EnqueueLost, GoCall, CallType, CallPCs
  <1>11. CASE JobStalls(d)
    BY <1>11 DEF JobStalls, JobType, WorkersHoldJobs
  <1> QED
    BY <1>1, <1>2, <1>3, <1>4, <1>5, <1>6, <1>7, <1>8, <1>9, <1>10, <1>11 DEF Deploy

\* A job whose attempt threw waits for the next one, or has failed, and nobody holds it.
ThrownAs(w, v, j) ==
    /\ v = local[w].ver /\ job[v].state = "active" /\ v # NoDeploy
    /\ job' \in [Deploys -> JobType] /\ job'[v] = j /\ \A u \in Deploys \ {v} : job'[u] = job[u]
    /\ j.stalls = job[v].stalls /\ j.state \in {"waiting", "failed"}
    /\ j.state = "waiting" => j.attempts < MaxAttempts
    /\ local' \in [Workers -> LocalType] /\ local'[w].ver = NoDeploy /\ local'[w].pc = "idle"
    /\ \A x \in Workers \ {w} : local'[x] = local[x]

LEMMA ThrownTyped ==
    ASSUME TypeInv, NEW w \in Workers, JobThrows(w)
    PROVE  \E v \in Deploys, j \in JobType : ThrownAs(w, v, j)
  <1>1. PICK v : v = local[w].ver
    OBVIOUS
  <1>2. v \in Deploys /\ v # NoDeploy
    BY <1>1 DEF TypeInv, TypeOK, JobThrows, At, LocalType
  <1>3. job[v] \in JobType /\ job[v].state = "active" /\ job[v].attempts < MaxAttempts /\ job \in [Deploys -> JobType]
    BY <1>1, <1>2 DEF TypeInv, TypeOK, WorkersHoldJobs
  <1>4. PICK n, t : /\ n = job[v].attempts + 1 /\ t = IF n < MaxAttempts THEN "waiting" ELSE "failed"
                    /\ job' = [job EXCEPT ![v].attempts = n, ![v].state = t]
    BY <1>1 DEF JobThrows
  <1>5. PICK j : j = [job[v] EXCEPT !.attempts = n, !.state = t]
    OBVIOUS
  <1>6. job' = [job EXCEPT ![v] = j]
    BY <1>2, <1>3, <1>4, <1>5
  <1>7. n \in 0..MaxAttempts /\ t \in {"waiting", "failed"} /\ (t = "waiting" => n < MaxAttempts)
    BY <1>3, <1>4, BoundsAssumption DEF JobType
  <1>8. j \in JobType /\ j.attempts = n /\ j.state = t /\ j.stalls = job[v].stalls
    BY <1>3, <1>5, <1>7 DEF JobType
  <1>9. job' \in [Deploys -> JobType] /\ job'[v] = j /\ \A u \in Deploys \ {v} : job'[u] = job[u]
    BY <1>2, <1>3, <1>6, <1>8
  <1>10. Idle \in LocalType /\ Idle.ver = NoDeploy /\ Idle.pc = "idle"
    BY DEF Idle, LocalType, WorkerPCs
  <1>11. local' = [local EXCEPT ![w] = Idle] /\ local \in [Workers -> LocalType]
    BY DEF JobThrows, TypeInv, TypeOK
  <1>12. /\ local' \in [Workers -> LocalType] /\ local'[w].ver = NoDeploy /\ local'[w].pc = "idle"
         /\ \A x \in Workers \ {w} : local'[x] = local[x]
    BY <1>10, <1>11
  <1>13. ThrownAs(w, v, j)
    BY <1>1, <1>2, <1>3, <1>7, <1>8, <1>9, <1>12 DEF ThrownAs
  <1> QED
    BY <1>2, <1>8, <1>13

LEMMA ThrowTyped ==
    ASSUME TypeInv, NEW w \in Workers, JobThrows(w) PROVE TypeOK'
  <1>1. PICK v \in Deploys, j \in JobType : ThrownAs(w, v, j)
    BY ThrownTyped
  <1>2. UNCHANGED <<branch, lock, call, version, indexed, events, faults>>
    BY DEF JobThrows
  <1> QED
    BY <1>1, <1>2 DEF TypeInv, TypeOK, ThrownAs, At

LEMMA ThrowHolds ==
    ASSUME TypeInv, NEW w \in Workers, JobThrows(w) PROVE WorkersHoldJobs'
  <1>1. PICK v \in Deploys, j \in JobType : ThrownAs(w, v, j)
    BY ThrownTyped
  <1>2. ASSUME NEW x \in Workers, local'[x].ver # NoDeploy
        PROVE  x # w /\ local'[x] = local[x] /\ local[x].ver # v /\ local[x].ver \in Deploys
    BY <1>1, <1>2 DEF ThrownAs, TypeInv, TypeOK, WorkersHoldJobs, LocalType
  <1>3. \A x \in Workers : local'[x].ver # NoDeploy => job'[local'[x].ver].state = "active"
    BY <1>1, <1>2 DEF ThrownAs, TypeInv, WorkersHoldJobs
  <1>4. \A x, y \in Workers : local'[x].ver # NoDeploy /\ local'[x].ver = local'[y].ver => x = y
    BY <1>2 DEF TypeInv, WorkersHoldJobs
  <1>5. \A u \in Deploys : job'[u].state \in {"none", "waiting", "active"} =>
            job'[u].attempts < MaxAttempts /\ job'[u].stalls <= MaxStalledCount
    BY <1>1 DEF ThrownAs, TypeInv, WorkersHoldJobs
  <1> QED
    BY <1>3, <1>4, <1>5 DEF WorkersHoldJobs

\* The actions of a worker, and its death.
LEMMA ProcessTyped ==
    ASSUME TypeInv, NEW w \in Workers, Process(w) \/ StoreFails(w) \/ Crash(w) \/ \E v \in Deploys : TakeJob(w, v)
    PROVE  TypeOK'
  <1>16. CASE JobThrows(w)
    BY <1>16, ThrowTyped
  <1> USE DeploysAssumption, BoundsAssumption, VersionAtHand, MoveTyped, RowTyped, FaultTyped DEF TypeInv,
     TypeOK, At
  <1>1. CASE GetVersion(w)
    BY <1>1 DEF GetVersion, OnlyLocal, WorkerPCs
  <1>2. CASE MarkVersionProcessing(w)
    <2>1. local[w].ver \in Deploys /\ version[local[w].ver] \in VersionType
      BY <1>2 DEF MarkVersionProcessing
    <2>2. version' \in [Deploys -> VersionType]
      BY <1>2, <2>1, WrittenRowsTyped DEF MarkVersionProcessing
    <2> QED
      BY <1>2, <2>1, <2>2 DEF MarkVersionProcessing, OnlyRow, WorkerPCs
  <1>3. CASE MarkJobProcessing(w)
    <2>1. local[w].ver \in Deploys /\ version[local[w].ver] \in VersionType
      BY <1>3 DEF MarkJobProcessing
    <2>2. version' \in [Deploys -> VersionType]
      BY <1>3, <2>1, WrittenRowsTyped DEF MarkJobProcessing
    <2> QED
      BY <1>3, <2>1, <2>2 DEF MarkJobProcessing, WorkerPCs
  <1>4. CASE ParseAndValidate(w)
    <2>1. local[w].ver \in Deploys /\ version[local[w].ver] \in VersionType
      BY <1>4 DEF ParseAndValidate
    <2>2. version' \in [Deploys -> VersionType]
      BY <1>4, <2>1, WrittenRowsTyped DEF ParseAndValidate
    <2> QED
      BY <1>4, <2>1, <2>2 DEF ParseAndValidate, OnlyRow, WorkerPCs
  <1>5. CASE PreviousReadyVersion(w)
    <2>1. PICK u \in Deploys \union {NoDeploy} : local' = [local EXCEPT ![w].pc = "diff", ![w].base = u]
      BY <1>5 DEF PreviousReadyVersion, PreviousReady, Earlier, Versions
    <2>2. [local[w] EXCEPT !.pc = "diff", !.base = u] \in LocalType
      <3>1. local[w] \in LocalType /\ "diff" \in WorkerPCs
        BY DEF WorkerPCs
      <3> QED BY ZenonT(60), <3>1 DEF LocalType
    <2>3. local' = [local EXCEPT ![w] = [local[w] EXCEPT !.pc = "diff", !.base = u]]
      BY <2>1
    <2>4. local[w].ver # NoDeploy
      BY <1>5 DEF PreviousReadyVersion
    <2>5. /\ local' \in [Workers -> LocalType]
          /\ \A x \in Workers : local'[x].ver = NoDeploy <=> local'[x].pc = "idle"
      BY <2>2, <2>3, <2>4, MemoryTyped DEF LocalType
    <2> QED
      BY <1>5, <2>5 DEF PreviousReadyVersion, OnlyLocal
  <1>6. CASE RecordDiff(w)
    <2>1. local[w].ver \in Deploys /\ version[local[w].ver] \in VersionType /\ local[w].base \in Deploys \union {NoDeploy}
      BY <1>6 DEF RecordDiff, LocalType
    <2>2. version' \in [Deploys -> VersionType]
      BY <1>6, <2>1, WrittenRowsTyped DEF RecordDiff
    <2> QED
      BY <1>6, <2>1, <2>2 DEF RecordDiff, OnlyRow, WorkerPCs
  <1>7. CASE MarkVersionReady(w)
    <2>1. local[w].ver \in Deploys /\ version[local[w].ver] \in VersionType
      BY <1>7 DEF MarkVersionReady
    <2>2. version' \in [Deploys -> VersionType]
      BY <1>7, <2>1, WrittenRowsTyped DEF MarkVersionReady
    <2> QED
      BY <1>7, <2>1, <2>2 DEF MarkVersionReady, OnlyRow, WorkerPCs
  <1>8. CASE DeleteDocuments(w) \/ AddDocuments(w)
    BY <1>8 DEF DeleteDocuments, AddDocuments, WorkerPCs
  <1>9. CASE AnnounceCreated(w)
    BY <1>9 DEF AnnounceCreated, Announce, WorkerPCs, EventType
  <1>10. CASE AnnounceBreaking(w)
    BY <1>10 DEF AnnounceBreaking, Announce, OnlyLocal, WorkerPCs, EventType
  <1>11. CASE MarkJobCompleted(w)
    <2>1. local[w].ver \in Deploys /\ version[local[w].ver] \in VersionType
      BY <1>11 DEF MarkJobCompleted
    <2>2. version' \in [Deploys -> VersionType]
      BY <1>11, <2>1, WrittenRowsTyped DEF MarkJobCompleted
    <2> QED
      BY <1>11, <2>1, <2>2 DEF MarkJobCompleted, OnlyRow, WorkerPCs
  <1>12. CASE MarkVersionFailed(w)
    <2>1. local[w].ver \in Deploys /\ version[local[w].ver] \in VersionType
      BY <1>12 DEF MarkVersionFailed
    <2>2. version' \in [Deploys -> VersionType]
      BY <1>12, <2>1, WrittenRowsTyped DEF MarkVersionFailed
    <2> QED
      BY <1>12, <2>1, <2>2 DEF MarkVersionFailed, OnlyRow, WorkerPCs
  <1>13. CASE MarkJobFailed(w)
    <2>1. local[w].ver \in Deploys /\ version[local[w].ver] \in VersionType
      BY <1>13 DEF MarkJobFailed
    <2>2. version' \in [Deploys -> VersionType]
      BY <1>13, <2>1, WrittenRowsTyped DEF MarkJobFailed
    <2> QED
      BY <1>13, <2>1, <2>2 DEF MarkJobFailed, OnlyRow, WorkerPCs
  <1>14. CASE AnnounceFailed(w)
    BY <1>14 DEF AnnounceFailed, Announce, WorkerPCs, EventType
  <1>15. CASE JobReturns(w)
    BY <1>15 DEF JobReturns, Idle, WorkerPCs, JobType, LocalType, WorkersHoldJobs
  <1>17. CASE StoreFails(w)
    BY <1>17 DEF StoreFails, InTry, WorkerPCs
  <1>18. CASE Crash(w)
    BY <1>18 DEF Crash, Idle, WorkerPCs, LocalType
  <1>19. ASSUME NEW v \in Deploys, TakeJob(w, v) PROVE TypeOK'
    <2>1. /\ local' \in [Workers -> LocalType]
          /\ \A x \in Workers : local'[x].ver = NoDeploy <=> local'[x].pc = "idle"
      BY <1>19, TakeTyped
    <2>2. job' \in [Deploys -> JobType]
      BY <1>19, StateTyped DEF TakeJob
    <2> QED
      BY <1>19, <2>1, <2>2 DEF TakeJob
  <1> QED
    BY <1>1, <1>2, <1>3, <1>4, <1>5, <1>6, <1>7, <1>8, <1>9, <1>10, <1>11, <1>12, <1>13, <1>14, <1>15,
       <1>16, <1>17, <1>18, <1>19 DEF Process

------------------------------------------------------------------------------
(***************************************************************************)
(* What a worker leaves of the rows and the calls.                         *)
(***************************************************************************)
WorkerStep(w) == Process(w) \/ StoreFails(w) \/ Crash(w) \/ \E v \in Deploys : TakeJob(w, v)

\* A job belongs to a stored version, whose call has answered.
JobsHaveVersions == \A v \in Deploys : job[v].state # "none" => v \in Versions /\ call[v].pc = "answered"

\* No row comes or goes, changes its number, or loses what it has got.
RowsKept ==
    /\ UNCHANGED <<branch, lock, call>>
    /\ \A d \in Deploys :
          /\ version'[d].seq = version[d].seq
          /\ version'[d].status = "none" <=> version[d].status = "none"
          /\ version[d].status = "none" => version'[d] = version[d]
          /\ version[d].readyAt => version'[d].readyAt
          /\ version[d].artifact => version'[d].artifact
          /\ version[d].diffed => version'[d].diffed

\* The version a worker holds is stored, and its job is active.
LEMMA HeldIsStored ==
    ASSUME TypeInv, JobsHaveVersions, NEW w \in Workers, ~At(w, "idle")
    PROVE  /\ local[w].ver \in Versions /\ local[w].ver \in Deploys
           /\ version[local[w].ver] \in VersionType /\ version[local[w].ver].status # "none"
           /\ job[local[w].ver].state = "active"
  BY VersionAtHand DEF TypeInv, TypeOK, At, WorkersHoldJobs, JobsHaveVersions, Versions

\* Whatever a worker does, it keeps the rows in that sense.
LEMMA WorkerKeepsRows ==
    ASSUME TypeInv, JobsHaveVersions, NEW w \in Workers, WorkerStep(w)
    PROVE  RowsKept
  <1> USE HeldIsStored DEF RowsKept, At
  <1>1. CASE MarkVersionProcessing(w)
    BY <1>1 DEF MarkVersionProcessing, SetRow, OnlyRow, TypeInv, TypeOK, VersionType
  <1>2. CASE MarkJobProcessing(w)
    BY <1>2 DEF MarkJobProcessing, SetRow, TypeInv, TypeOK, VersionType
  <1>3. CASE ParseAndValidate(w)
    <2>1. PICK b \in BOOLEAN : SetRow(local[w].ver, [version[local[w].ver] EXCEPT !.artifact = b])
                              /\ (version[local[w].ver].artifact => b)
      <3>1. version[local[w].ver].artifact \in BOOLEAN
        BY <1>3 DEF ParseAndValidate, VersionType
      <3> QED
        BY <1>3, <3>1 DEF ParseAndValidate
    <2> QED
      <3>1. PICK v, r : v = local[w].ver /\ r = [version[v] EXCEPT !.artifact = b]
        OBVIOUS
      <3>2. v \in Deploys /\ version[v] \in VersionType /\ version \in [Deploys -> VersionType]
        BY <1>3, <3>1 DEF ParseAndValidate, TypeInv, TypeOK
      <3>3. /\ r.seq = version[v].seq /\ r.status = version[v].status /\ r.readyAt = version[v].readyAt
            /\ r.artifact = b /\ r.diffed = version[v].diffed
        BY <3>1, <3>2 DEF VersionType
      <3>4. version' = [version EXCEPT ![v] = r] /\ UNCHANGED <<branch, lock, call>>
        BY <1>3, <2>1, <3>1 DEF ParseAndValidate, SetRow, OnlyRow
      <3>5. version[v].status # "none"
        BY <1>3, <3>1 DEF ParseAndValidate
      <3> QED BY <2>1, <3>1, <3>2, <3>3, <3>4, <3>5
  <1>4. CASE RecordDiff(w)
    <2>1. CASE UNCHANGED version
      BY <1>4, <2>1 DEF RecordDiff, OnlyRow
    <2>2. CASE ~UNCHANGED version
      <3>1. PICK b \in BOOLEAN : SetRow(local[w].ver, [version[local[w].ver] EXCEPT
                !.diffed = TRUE, !.base = local[w].base, !.breaking = b])
        BY <1>4, <2>2 DEF RecordDiff
      <3> QED
        BY ZenonT(60), <1>4, <3>1 DEF RecordDiff, SetRow, OnlyRow, TypeInv, TypeOK, VersionType
    <2> QED
      BY <2>1, <2>2
  <1>5. CASE MarkVersionReady(w)
    BY <1>5 DEF MarkVersionReady, SetRow, OnlyRow, TypeInv, TypeOK, VersionType
  <1>6. CASE MarkJobCompleted(w)
    BY <1>6 DEF MarkJobCompleted, SetRow, OnlyRow, TypeInv, TypeOK, VersionType
  <1>7. CASE MarkVersionFailed(w)
    BY <1>7 DEF MarkVersionFailed, SetRow, OnlyRow, TypeInv, TypeOK, VersionType
  <1>8. CASE MarkJobFailed(w)
    BY <1>8 DEF MarkJobFailed, SetRow, OnlyRow, TypeInv, TypeOK, VersionType
  <1>9. CASE UNCHANGED <<branch, lock, call, version>>
    BY <1>9
  <1> QED
    BY <1>1, <1>2, <1>3, <1>4, <1>5, <1>6, <1>7, <1>8, <1>9 DEF WorkerStep, Process, TakeJob, OnlyLocal,
       Announce, GetVersion, PreviousReadyVersion, DeleteDocuments, AddDocuments, AnnounceCreated, AnnounceBreaking,
       AnnounceFailed, JobReturns, JobThrows, StoreFails, Crash

------------------------------------------------------------------------------
(***************************************************************************)
(* The inductive invariant.                                                *)
(***************************************************************************)
\* A call that has not committed has no version; one that answers or enqueues has.
CallsAndVersions ==
    \A d \in Deploys :
        /\ call[d].pc \in {"idle", "find", "begin", "transaction", "skipped", "rejected"} => version[d] = NoVersion
        /\ call[d].pc \in {"enqueue", "answered"} => d \in Versions
        /\ call[d].pc = "idle" => call[d].seq = 0
        /\ call[d].pc \in {"find", "begin"} => call[d].seq = 0
        /\ d \notin Versions => version[d] = NoVersion

\* The number a transaction has read stays the next one: it holds the branch row.
NumbersReserved ==
    \A d \in Deploys :
        call[d].pc = "transaction" /\ call[d].seq # 0 =>
            lock = d /\ \A v \in Versions : version[v].seq < call[d].seq

\* A branch that a transaction has not seen was created by the commit of a version.
BranchesHaveVersions ==
    \A d \in Deploys :
        call[d].pc = "transaction" /\ ~call[d].sawBranch /\ branch => Versions # {}

\* What a worker has done to its version by the time it publishes it.
WorkersProgress ==
    \A w \in Workers :
        /\ local[w].pc \in {"base", "diff", "ready"} =>
               version[local[w].ver].artifact /\ Content(local[w].ver) \notin BadSpecs
        /\ local[w].pc = "ready" => version[local[w].ver].diffed
        /\ local[w].pc = "diff" /\ local[w].base # NoDeploy =>
               /\ version[local[w].base].readyAt
               /\ version[local[w].base].seq < version[local[w].ver].seq

ReadyIsPublished == \A v \in Deploys : version[v].status = "ready" => version[v].readyAt

StoreInv == /\ TypeInv /\ JobsHaveVersions /\ CallsAndVersions /\ NumbersReserved
            /\ BranchesHaveVersions /\ OneVersionPerContent
(* PublishedVersionsAreWhole, of the rows alone. *)
RowsAreWhole ==
    \A v \in Versions :
        /\ version[v].readyAt => version[v].artifact /\ version[v].diffed /\ Content(v) \notin BadSpecs
        /\ version[v].base # NoDeploy => /\ version[version[v].base].readyAt
                                        /\ version[version[v].base].seq < version[v].seq

PipelineInv == StoreInv /\ WorkersProgress /\ ReadyIsPublished /\ RowsAreWhole
------------------------------------------------------------------------------
(***************************************************************************)
(* The steps of workers keep the invariant.                                *)
(***************************************************************************)
\* A step inside process() leaves the jobs, and the versions the workers hold.
LEMMA MovesHold ==
    ASSUME TypeOK, NEW w \in Workers, Process(w) \/ StoreFails(w), ~JobReturns(w), ~JobThrows(w)
    PROVE  job' = job /\ \A x \in Workers : local'[x].ver = local[x].ver
  <1> USE DEF TypeOK, LocalType, GoTo
  <1>1. CASE GetVersion(w)
    BY <1>1 DEF GetVersion, OnlyLocal
  <1>2. CASE MarkVersionProcessing(w)
    BY <1>2 DEF MarkVersionProcessing, OnlyRow
  <1>3. CASE MarkJobProcessing(w)
    BY <1>3 DEF MarkJobProcessing
  <1>4. CASE ParseAndValidate(w)
    BY <1>4 DEF ParseAndValidate, OnlyRow
  <1>5. CASE PreviousReadyVersion(w)
    BY <1>5 DEF PreviousReadyVersion, OnlyLocal
  <1>6. CASE RecordDiff(w)
    <2>1. GoTo(w, "ready") \/ GoTo(w, "fail")
      BY <1>6 DEF RecordDiff
    <2>2. job' = job
      BY <1>6 DEF RecordDiff, OnlyRow
    <2> QED
      BY <2>1, <2>2
  <1>7. CASE MarkVersionReady(w)
    BY <1>7 DEF MarkVersionReady, OnlyRow
  <1>8. CASE DeleteDocuments(w) \/ AddDocuments(w)
    BY <1>8 DEF DeleteDocuments, AddDocuments
  <1>9. CASE AnnounceCreated(w)
    BY <1>9 DEF AnnounceCreated, Announce
  <1>10. CASE AnnounceBreaking(w)
    BY <1>10 DEF AnnounceBreaking, Announce, OnlyLocal
  <1>11. CASE MarkJobCompleted(w)
    BY <1>11 DEF MarkJobCompleted, OnlyRow
  <1>12. CASE MarkVersionFailed(w)
    BY <1>12 DEF MarkVersionFailed, OnlyRow
  <1>13. CASE MarkJobFailed(w)
    BY <1>13 DEF MarkJobFailed, OnlyRow
  <1>14. CASE AnnounceFailed(w)
    BY <1>14 DEF AnnounceFailed, Announce
  <1>15. CASE StoreFails(w)
    BY <1>15 DEF StoreFails
  <1> QED
    BY <1>1, <1>2, <1>3, <1>4, <1>5, <1>6, <1>7, <1>8, <1>9, <1>10, <1>11, <1>12, <1>13, <1>14, <1>15 DEF
       Process

\* Workers keep holding active jobs, each alone.
LEMMA WorkerHoldsJob ==
    ASSUME TypeInv, NEW w \in Workers, WorkerStep(w) PROVE WorkersHoldJobs'
  <1>3. CASE JobThrows(w)
    BY <1>3, ThrowHolds
  <1> USE DeploysAssumption, BoundsAssumption DEF TypeInv, TypeOK, WorkersHoldJobs, JobType, LocalType, At
  <1>1. CASE (Process(w) \/ StoreFails(w)) /\ ~JobReturns(w) /\ ~JobThrows(w)
    BY <1>1, MovesHold
  <1>2. CASE JobReturns(w)
    BY <1>2 DEF JobReturns, Idle
  <1>4. CASE Crash(w)
    BY <1>4 DEF Crash, Idle
  <1>5. ASSUME NEW v \in Deploys, TakeJob(w, v) PROVE WorkersHoldJobs'
    <2>1. PICK m \in LocalType : local' = [local EXCEPT ![w] = m] /\ m.ver = v
      BY <1>5, TakenTyped DEF TakeJob
    <2> QED
      BY <1>5, <2>1 DEF TakeJob
  <1> QED
    BY <1>1, <1>2, <1>3, <1>4, <1>5 DEF WorkerStep

\* A worker keeps what calls and jobs rely on.
LEMMA WorkerKeepsStore ==
    ASSUME StoreInv, NEW w \in Workers, WorkerStep(w) PROVE StoreInv'
  <1> USE DEF StoreInv
  <1>1. RowsKept
    BY WorkerKeepsRows
  <1>2. TypeInv'
    <2>1. HasHighest'
      BY <1>1 DEF TypeInv, HasHighest, Highest, RowsKept
    <2> QED
      BY <2>1, ProcessTyped, WorkerHoldsJob DEF WorkerStep, TypeInv
  <1>3. JobsHaveVersions'
    <2>1. \A v \in Deploys : job'[v].state # "none" => job[v].state # "none"
      <3> USE HeldIsStored DEF TypeInv, TypeOK, JobType, At
      <3>1. CASE (Process(w) \/ StoreFails(w)) /\ ~JobReturns(w) /\ ~JobThrows(w)
        BY <3>1, MovesHold
      <3>2. CASE JobReturns(w) \/ JobThrows(w) \/ Crash(w) \/ \E v \in Deploys : TakeJob(w, v)
        BY <3>2 DEF JobReturns, JobThrows, Crash, TakeJob
      <3> QED
        BY <3>1, <3>2 DEF WorkerStep
    <2> QED
      BY <1>1, <2>1 DEF JobsHaveVersions, Versions, RowsKept
  <1>4. CallsAndVersions'
    <2>1. NoVersion.status = "none"
      BY DEF NoVersion
    <2> QED
      BY <1>1, <2>1 DEF CallsAndVersions, RowsKept, Versions
  <1>5. NumbersReserved'
    BY <1>1 DEF NumbersReserved, RowsKept, Versions
  <1>6. BranchesHaveVersions'
    BY <1>1 DEF BranchesHaveVersions, RowsKept, Versions
  <1>7. OneVersionPerContent'
    BY <1>1 DEF OneVersionPerContent, RowsKept, Versions, Content
  <1> QED
    BY <1>2, <1>3, <1>4, <1>5, <1>6, <1>7
------------------------------------------------------------------------------
(***************************************************************************)
(* The steps of calls keep the invariant.                                  *)
(***************************************************************************)
\* The commit of a version gives the greatest sequence number, the others leave it.
LEMMA CallKeepsTypes ==
    ASSUME StoreInv, NEW d \in Deploys, Deploy(d) \/ JobStalls(d) PROVE TypeInv'
  <1> USE DEF StoreInv
  <1>1. TypeOK'
    BY DeployTyped
  <1>2. HasHighest'
    <2>1. CASE CommitVersion(d)
      <3>1. PICK n \in Nat : Highest(n)
        BY DEF TypeInv, HasHighest
      <3>2. call[d].seq \in Nat /\ version[d] = NoVersion /\ NoVersion.seq = 0
        BY <2>1 DEF CommitVersion, TypeInv, TypeOK, CallType, CallsAndVersions, NoVersion
      <3>3. \A v \in Deploys : version'[v].seq = IF v = d THEN call[d].seq ELSE version[v].seq
        BY <2>1 DEF CommitVersion, TypeInv, TypeOK, VersionType, NoVersion
      <3>4. \A v \in Deploys : version[v].seq \in Nat
        BY DEF TypeInv, TypeOK, VersionType
      <3>5. CASE call[d].seq > n
        <4>1. PICK m \in Nat : m = call[d].seq
          BY <3>2
        <4>2. Highest(m)'
          BY <3>1, <3>2, <3>3, <3>4, <3>5, <4>1 DEF Highest
        <4> QED
          BY <4>2 DEF HasHighest
      <3>6. CASE call[d].seq <= n
        BY <3>1, <3>2, <3>3, <3>4, <3>6 DEF Highest, HasHighest
      <3> QED
        BY <3>1, <3>2, <3>5, <3>6
    <2>2. CASE UNCHANGED version
      BY <2>2 DEF TypeInv, HasHighest, Highest
    <2> QED
      BY <2>1, <2>2 DEF Deploy, Submit, FindVersionByHash, BeginCreate, LockBranch, BranchConflict,
                        RefuseVersion, CreateFails, EnqueueDeploy, EnqueueLost, JobStalls
  <1>3. WorkersHoldJobs'
    <2> USE DEF TypeInv, TypeOK, JobType, WorkersHoldJobs
    <2>1. CASE EnqueueDeploy(d)
      BY <2>1 DEF EnqueueDeploy, JobsHaveVersions
    <2>2. CASE JobStalls(d)
      BY <2>2, BoundsAssumption, DeploysAssumption DEF JobStalls
    <2>3. CASE UNCHANGED <<job, local>>
      BY <2>3
    <2> QED
      BY <2>1, <2>2, <2>3 DEF Deploy, Submit, FindVersionByHash, BeginCreate, LockBranch, BranchConflict,
                              CommitVersion, RefuseVersion, CreateFails, EnqueueLost
  <1> QED
    BY <1>1, <1>2, <1>3 DEF TypeInv

\* A job is added by the call whose version has been stored.
LEMMA CallKeepsJobs ==
    ASSUME StoreInv, NEW d \in Deploys, Deploy(d) \/ JobStalls(d) PROVE JobsHaveVersions'
  <1> USE DeploysAssumption DEF StoreInv, TypeInv, TypeOK, CallType, VersionType, JobsHaveVersions,
     Versions, JobType
  <1>1. CASE Submit(d)
    BY <1>1 DEF Submit
  <1>2. CASE FindVersionByHash(d)
    BY <1>2 DEF FindVersionByHash, GoCall
  <1>3. CASE BeginCreate(d)
    BY <1>3 DEF BeginCreate
  <1>4. CASE LockBranch(d)
    BY <1>4 DEF LockBranch
  <1>5. CASE BranchConflict(d)
    BY <1>5 DEF BranchConflict, GoCall
  <1>6. CASE CommitVersion(d)
    BY <1>6 DEF CommitVersion, GoCall, NoVersion, Versions
  <1>7. CASE RefuseVersion(d)
    BY <1>7 DEF RefuseVersion, GoCall
  <1>8. CASE CreateFails(d)
    BY <1>8 DEF CreateFails, GoCall
  <1>9. CASE EnqueueDeploy(d)
    BY <1>9 DEF EnqueueDeploy, GoCall, CallsAndVersions, Versions
  <1>10. CASE EnqueueLost(d)
    BY <1>10 DEF EnqueueLost, GoCall
  <1>11. CASE JobStalls(d)
    BY <1>11 DEF JobStalls
  <1> QED
    BY <1>1, <1>2, <1>3, <1>4, <1>5, <1>6, <1>7, <1>8, <1>9, <1>10, <1>11 DEF Deploy

\* A call stores its version when it commits, and not before.
LEMMA CallKeepsRows ==
    ASSUME StoreInv, NEW d \in Deploys, Deploy(d) \/ JobStalls(d) PROVE CallsAndVersions'
  <1> USE DeploysAssumption DEF StoreInv, TypeInv, TypeOK, CallType, VersionType, CallsAndVersions,
     Versions, NoVersion
  <1>1. CASE Submit(d)
    BY <1>1 DEF Submit
  <1>2. CASE FindVersionByHash(d)
    BY <1>2 DEF FindVersionByHash, GoCall
  <1>3. CASE BeginCreate(d)
    BY <1>3 DEF BeginCreate
  <1>4. CASE LockBranch(d)
    BY <1>4 DEF LockBranch
  <1>5. CASE BranchConflict(d)
    BY <1>5 DEF BranchConflict, GoCall
  <1>6. CASE CommitVersion(d)
    <2>1. version'[d].status = "queued" /\ \A e \in Deploys \ {d} : version'[e] = version[e]
      BY <1>6 DEF CommitVersion
    <2>2. call'[d].pc = "enqueue" /\ \A e \in Deploys \ {d} : call'[e] = call[e]
      BY <1>6 DEF CommitVersion, GoCall
    <2> QED
      BY ZenonT(60), <2>1, <2>2
  <1>7. CASE RefuseVersion(d)
    BY <1>7 DEF RefuseVersion, GoCall
  <1>8. CASE CreateFails(d)
    BY <1>8 DEF CreateFails, GoCall
  <1>9. CASE EnqueueDeploy(d)
    BY <1>9 DEF EnqueueDeploy, GoCall
  <1>10. CASE EnqueueLost(d)
    BY <1>10 DEF EnqueueLost, GoCall
  <1>11. CASE JobStalls(d)
    BY <1>11 DEF JobStalls
  <1> QED
    BY <1>1, <1>2, <1>3, <1>4, <1>5, <1>6, <1>7, <1>8, <1>9, <1>10, <1>11 DEF Deploy

\* The branch row is held from the read of MAX to the end of the transaction.
LEMMA CallKeepsNumbers ==
    ASSUME StoreInv, NEW d \in Deploys, Deploy(d) \/ JobStalls(d) PROVE NumbersReserved'
  <1> USE DeploysAssumption DEF StoreInv, TypeInv, TypeOK, CallType, VersionType, NumbersReserved, Versions
  <1>1. CASE Submit(d)
    BY <1>1 DEF Submit
  <1>2. CASE FindVersionByHash(d)
    BY <1>2 DEF FindVersionByHash, GoCall
  <1>3. CASE BeginCreate(d)
    BY <1>3 DEF BeginCreate, CallsAndVersions
  <1>4. CASE LockBranch(d)
    BY <1>4, LastSeqIsHighest DEF LockBranch, Versions
  <1>5. CASE BranchConflict(d)
    BY <1>5 DEF BranchConflict, GoCall
  <1>6. CASE CommitVersion(d)
    BY <1>6 DEF CommitVersion, GoCall, NoVersion, CallsAndVersions
  <1>7. CASE RefuseVersion(d)
    BY <1>7 DEF RefuseVersion, GoCall
  <1>8. CASE CreateFails(d)
    BY <1>8 DEF CreateFails, GoCall
  <1>9. CASE EnqueueDeploy(d)
    BY <1>9 DEF EnqueueDeploy, GoCall
  <1>10. CASE EnqueueLost(d)
    BY <1>10 DEF EnqueueLost, GoCall
  <1>11. CASE JobStalls(d)
    BY <1>11 DEF JobStalls
  <1> QED
    BY <1>1, <1>2, <1>3, <1>4, <1>5, <1>6, <1>7, <1>8, <1>9, <1>10, <1>11 DEF Deploy

\* A branch appears with the first version that is committed to it.
LEMMA CallKeepsBranch ==
    ASSUME StoreInv, NEW d \in Deploys, Deploy(d) \/ JobStalls(d) PROVE BranchesHaveVersions'
  <1> USE DeploysAssumption DEF StoreInv, TypeInv, TypeOK, CallType, VersionType, BranchesHaveVersions, Versions
  <1>1. CASE Submit(d)
    BY <1>1 DEF Submit
  <1>2. CASE FindVersionByHash(d)
    BY <1>2 DEF FindVersionByHash, GoCall
  <1>3. CASE BeginCreate(d)
    BY <1>3 DEF BeginCreate
  <1>4. CASE LockBranch(d)
    BY <1>4 DEF LockBranch
  <1>5. CASE BranchConflict(d)
    BY <1>5 DEF BranchConflict, GoCall
  <1>6. CASE CommitVersion(d)
    BY <1>6 DEF CommitVersion, GoCall, NoVersion
  <1>7. CASE RefuseVersion(d)
    BY <1>7 DEF RefuseVersion, GoCall
  <1>8. CASE CreateFails(d)
    BY <1>8 DEF CreateFails, GoCall
  <1>9. CASE EnqueueDeploy(d)
    BY <1>9 DEF EnqueueDeploy, GoCall
  <1>10. CASE EnqueueLost(d)
    BY <1>10 DEF EnqueueLost, GoCall
  <1>11. CASE JobStalls(d)
    BY <1>11 DEF JobStalls
  <1> QED
    BY <1>1, <1>2, <1>3, <1>4, <1>5, <1>6, <1>7, <1>8, <1>9, <1>10, <1>11 DEF Deploy

\* The unique index and the held branch row keep contents apart.
LEMMA CallKeepsContents ==
    ASSUME StoreInv, NEW d \in Deploys, Deploy(d) \/ JobStalls(d) PROVE OneVersionPerContent'
  <1> USE DeploysAssumption DEF StoreInv, TypeInv, TypeOK, CallType, VersionType, OneVersionPerContent,
     Versions, Content, SameContent
  <1>1. CASE Submit(d)
    BY SMTT(60), <1>1 DEF Submit
  <1>2. CASE FindVersionByHash(d)
    BY <1>2 DEF FindVersionByHash, GoCall
  <1>3. CASE BeginCreate(d)
    <2>1. \A e \in Deploys :
             /\ call'[e].spec = call[e].spec
             /\ call'[e].pc = "rejected" => call[e].pc = "rejected" /\ call'[e].sawBranch = call[e].sawBranch
      BY <1>3 DEF BeginCreate
    <2>2. version' = version
      BY <1>3 DEF BeginCreate
    <2> QED
      BY <2>1, <2>2
  <1>4. CASE LockBranch(d)
    BY <1>4 DEF LockBranch
  <1>5. CASE BranchConflict(d)
    <2>1. version' = version /\ call' = [call EXCEPT ![d].pc = "rejected"]
      BY <1>5 DEF BranchConflict, GoCall
    <2>2. PICK v \in Versions : v # d
      BY <1>5 DEF BranchConflict, BranchesHaveVersions, CallsAndVersions, NoVersion
    <2>3. ~call[d].sawBranch
      BY <1>5 DEF BranchConflict
    <2> QED
      BY <2>1, <2>2, <2>3
  <1>6. CASE CommitVersion(d)
    <2>1. version'[d].status = "queued" /\ \A e \in Deploys \ {d} : version'[e] = version[e]
      BY <1>6 DEF CommitVersion, NoVersion
    <2>2. /\ call'[d].pc = "enqueue" /\ \A e \in Deploys \ {d} : call'[e] = call[e]
          /\ call'[d].spec = call[d].spec
      BY <1>6 DEF CommitVersion, GoCall
    <2>3. \A v \in Deploys : version[v].status # "none" => call[v].spec # call[d].spec
      BY <1>6 DEF CommitVersion, Insertable
    <2>4. version[d].status = "none"
      BY <1>6 DEF CommitVersion, CallsAndVersions, NoVersion
    <2>5. \A u, v \in Deploys : version'[u].status # "none" /\ version'[v].status # "none" /\ u # v =>
              call'[u].spec # call'[v].spec
      BY <2>1, <2>2, <2>3
    <2>6. ASSUME NEW e \in Deploys, call'[e].pc = "rejected"
          PROVE  \E v \in Deploys \ {e} : /\ version'[v].status # "none"
                                          /\ call'[v].spec = call'[e].spec \/ ~call'[e].sawBranch
      <3>1. e # d /\ call'[e] = call[e]
        BY <2>2, <2>6
      <3>2. PICK v \in Deploys \ {e} : version[v].status # "none" /\ (call[v].spec = call[e].spec \/ ~call[e].sawBranch)
        BY <2>6, <3>1
      <3>3. v # d
        BY <2>4, <3>2
      <3> QED
        BY <2>1, <2>2, <3>1, <3>2, <3>3
    <2> QED
      BY <2>5, <2>6
  <1>7. CASE RefuseVersion(d)
    <2>1. version' = version /\ call' = [call EXCEPT ![d].pc = "rejected"]
      BY <1>7 DEF RefuseVersion, GoCall
    <2>2. version[d].status = "none"
      BY <1>7 DEF RefuseVersion, CallsAndVersions, NoVersion
    <2>3. \A v \in Versions : version[v].seq # call[d].seq
      BY <1>7 DEF RefuseVersion, NumbersReserved
    <2>4. PICK v \in Versions \ {d} : Content(v) = Content(d)
      BY <1>7, <2>2, <2>3 DEF RefuseVersion, Insertable
    <2> QED
      BY <2>1, <2>4
  <1>8. CASE CreateFails(d)
    BY <1>8 DEF CreateFails, GoCall
  <1>9. CASE EnqueueDeploy(d)
    BY <1>9 DEF EnqueueDeploy, GoCall
  <1>10. CASE EnqueueLost(d)
    BY <1>10 DEF EnqueueLost, GoCall
  <1>11. CASE JobStalls(d)
    BY <1>11 DEF JobStalls
  <1> QED
    BY <1>1, <1>2, <1>3, <1>4, <1>5, <1>6, <1>7, <1>8, <1>9, <1>10, <1>11 DEF Deploy
------------------------------------------------------------------------------
(***************************************************************************)
(* What is published is whole.                                             *)
(***************************************************************************)
\* A worker leaves the memory of the others alone.
LEMMA OthersUntouched ==
    ASSUME TypeInv, NEW w \in Workers, WorkerStep(w)
    PROVE  \A x \in Workers \ {w} : local'[x] = local[x]
  BY DEF WorkerStep, TypeInv, TypeOK, Process, GoTo, TakeJob, StoreFails, Crash, GetVersion,
     MarkVersionProcessing, MarkJobProcessing, ParseAndValidate, PreviousReadyVersion, RecordDiff,
     MarkVersionReady, DeleteDocuments, AddDocuments, AnnounceCreated, AnnounceBreaking, MarkJobCompleted,
     MarkVersionFailed, MarkJobFailed, AnnounceFailed, JobReturns, JobThrows, Announce

\* What is known of another worker's progress survives the step of w.
LEMMA OthersProgress ==
    ASSUME PipelineInv, NEW w \in Workers, RowsKept, NEW x \in Workers, local'[x] = local[x]
    PROVE  /\ local'[x].pc \in {"base", "diff", "ready"} =>
                  version'[local'[x].ver].artifact /\ call'[local'[x].ver].spec \notin BadSpecs
           /\ local'[x].pc = "ready" => version'[local'[x].ver].diffed
           /\ local'[x].pc = "diff" /\ local'[x].base # NoDeploy =>
                  /\ version'[local'[x].base].readyAt
                  /\ version'[local'[x].base].seq < version'[local'[x].ver].seq
  <1>1. CASE At(x, "idle")
    BY <1>1 DEF At
  <1>2. CASE ~At(x, "idle")
    <2>1. local[x].ver \in Deploys
      BY <1>2, VersionAtHand DEF PipelineInv, StoreInv, TypeInv
    <2>2. local[x].base # NoDeploy => local[x].base \in Deploys
      BY DEF PipelineInv, StoreInv, TypeInv, TypeOK, LocalType
    <2> QED
      BY <2>1, <2>2 DEF PipelineInv, RowsKept, WorkersProgress, Content
  <1> QED
    BY <1>1, <1>2

\* The step of w itself: it parses, looks for the base and records the diff before it publishes.
LEMMA OwnProgress ==
    ASSUME PipelineInv, NEW w \in Workers, WorkerStep(w), RowsKept
    PROVE  /\ local'[w].pc \in {"base", "diff", "ready"} =>
                  version'[local'[w].ver].artifact /\ call'[local'[w].ver].spec \notin BadSpecs
           /\ local'[w].pc = "ready" => version'[local'[w].ver].diffed
           /\ local'[w].pc = "diff" /\ local'[w].base # NoDeploy =>
                  /\ version'[local'[w].base].readyAt
                  /\ version'[local'[w].base].seq < version'[local'[w].ver].seq
  <1> DEFINE v == local[w].ver
  <1>1. CASE ParseAndValidate(w)
    <2>1. v \in Deploys /\ version[v] \in VersionType
      BY <1>1, VersionAtHand DEF ParseAndValidate, PipelineInv, StoreInv, TypeInv, At
    <2>2. CASE Content(v) \notin BadSpecs
      <3>1. GoTo(w, "base") /\ SetRow(v, [version[v] EXCEPT !.artifact = TRUE]) /\ call' = call
        BY <1>1, <2>2 DEF ParseAndValidate, OnlyRow
      <3>2. local'[w].pc = "base" /\ local'[w].ver = v
        BY <3>1 DEF GoTo, PipelineInv, StoreInv, TypeInv, TypeOK, LocalType
      <3>3. version'[v].artifact
        BY <2>1, <3>1 DEF SetRow, PipelineInv, StoreInv, TypeInv, TypeOK, VersionType
      <3> QED
        BY <2>2, <3>1, <3>2, <3>3 DEF Content
    <2>3. CASE Content(v) \in BadSpecs
      <3>1. local'[w].pc = "fail"
        BY <1>1, <2>3 DEF ParseAndValidate, GoTo, PipelineInv, StoreInv, TypeInv, TypeOK, LocalType
      <3> QED
        BY <3>1
    <2> QED
      BY <2>2, <2>3
  <1>2. CASE PreviousReadyVersion(w)
    <2>1. v \in Deploys /\ version' = version /\ call' = call
      BY <1>2, VersionAtHand DEF PreviousReadyVersion, PipelineInv, StoreInv, TypeInv, At, OnlyLocal
    <2>2. PICK u \in Deploys \union {NoDeploy} :
             /\ local' = [local EXCEPT ![w].pc = "diff", ![w].base = u]
             /\ u # NoDeploy => u \in PreviousReady(v)
      BY <1>2 DEF PreviousReadyVersion, PreviousReady, Earlier, Versions
    <2>3. local'[w].pc = "diff" /\ local'[w].base = u /\ local'[w].ver = v
      BY <2>2 DEF PipelineInv, StoreInv, TypeInv, TypeOK, LocalType
    <2>4. version[v].artifact /\ Content(v) \notin BadSpecs
      BY <1>2 DEF PreviousReadyVersion, PipelineInv, WorkersProgress, At
    <2>5. u # NoDeploy => version[u].readyAt /\ version[u].seq < version[v].seq
      BY <2>2 DEF PreviousReady, Earlier, Versions, PipelineInv, ReadyIsPublished
    <2> QED
      BY <2>1, <2>3, <2>4, <2>5 DEF Content
  <1>3. CASE RecordDiff(w)
    <2>1. v \in Deploys /\ version[v] \in VersionType
      BY <1>3, VersionAtHand DEF RecordDiff, PipelineInv, StoreInv, TypeInv, At
    <2>2. CASE version[v].diffed
      <3>1. local'[w].pc = "fail"
        BY <1>3, <2>2 DEF RecordDiff, GoTo, PipelineInv, StoreInv, TypeInv, TypeOK, LocalType
      <3> QED
        BY <3>1
    <2>3. CASE ~version[v].diffed
      <3>1. PICK b \in BOOLEAN : SetRow(v, [version[v] EXCEPT !.diffed = TRUE, !.base = local[w].base, !.breaking = b])
        BY <1>3, <2>3 DEF RecordDiff
      <3>2. version'[v].diffed
        BY <2>1, <3>1 DEF SetRow, PipelineInv, StoreInv, TypeInv, TypeOK, VersionType
      <3>3. local'[w].pc = "ready" /\ local'[w].ver = v
        BY <1>3, <2>3 DEF RecordDiff, GoTo, PipelineInv, StoreInv, TypeInv, TypeOK, LocalType
      <3>4. version'[v].artifact /\ call'[v].spec \notin BadSpecs
        BY <1>3, <2>1 DEF RecordDiff, At, PipelineInv, WorkersProgress, RowsKept, Content
      <3> QED
        BY <3>2, <3>3, <3>4
    <2> QED
      BY <2>2, <2>3
  <1>4. CASE ~ParseAndValidate(w) /\ ~PreviousReadyVersion(w) /\ ~RecordDiff(w)
    <2>1. CASE JobReturns(w) \/ JobThrows(w) \/ Crash(w)
      BY <2>1 DEF JobReturns, JobThrows, Crash, Idle, PipelineInv, StoreInv, TypeInv, TypeOK
    <2>2. CASE \E u \in Deploys : TakeJob(w, u)
      BY <2>2, TakenTyped DEF TakeJob, PipelineInv, StoreInv, TypeInv, TypeOK
    <2>3. CASE \E pc \in {"markVersion", "return", "markJob", "parse", "throw", "search", "addDocuments", "announce",
                          "readDiff", "complete", "fail", "failJob", "failEvent"} : GoTo(w, pc)
      BY <2>3 DEF GoTo, PipelineInv, StoreInv, TypeInv, TypeOK, LocalType
    <2>4. CASE StoreFails(w)
      BY <2>3, <2>4 DEF StoreFails
    <2> QED
      BY <1>4, <2>1, <2>2, <2>3, <2>4 DEF WorkerStep, Process, Announce, GetVersion, MarkVersionProcessing,
         MarkJobProcessing, MarkVersionReady, DeleteDocuments, AddDocuments, AnnounceCreated, AnnounceBreaking,
         MarkJobCompleted, MarkVersionFailed, MarkJobFailed, AnnounceFailed
  <1> QED
    BY <1>1, <1>2, <1>3, <1>4

\* Of the fields that tell what is published, only two actions set one.
FieldsKept ==
    \A d \in Deploys :
        /\ version'[d].readyAt = version[d].readyAt /\ version'[d].base = version[d].base
        /\ version'[d].status = "ready" => version[d].status = "ready"

\* All but recording the diff and publishing leave those fields.
LEMMA OthersKeepFields ==
    ASSUME PipelineInv, NEW w \in Workers, WorkerStep(w), ~RecordDiff(w), ~MarkVersionReady(w)
    PROVE  FieldsKept
  <1> USE HeldIsStored DEF PipelineInv, StoreInv, TypeInv, TypeOK, VersionType, SetRow, OnlyRow, FieldsKept, At
  <1>1. CASE MarkVersionProcessing(w)
    BY <1>1 DEF MarkVersionProcessing
  <1>2. CASE MarkJobProcessing(w)
    BY <1>2 DEF MarkJobProcessing
  <1>3. CASE MarkJobCompleted(w)
    BY <1>3 DEF MarkJobCompleted
  <1>4. CASE MarkVersionFailed(w)
    BY <1>4 DEF MarkVersionFailed
  <1>5. CASE MarkJobFailed(w)
    BY <1>5 DEF MarkJobFailed
  <1>6. CASE ParseAndValidate(w)
    <2>1. PICK b \in BOOLEAN : SetRow(local[w].ver, [version[local[w].ver] EXCEPT !.artifact = b])
      <3>1. version[local[w].ver].artifact \in BOOLEAN
        BY <1>6 DEF ParseAndValidate
      <3> QED
        BY <1>6, <3>1 DEF ParseAndValidate
    <2> QED
      BY <1>6, <2>1 DEF ParseAndValidate
  <1>7. CASE version' = version
    BY <1>7
  <1> QED
    BY <1>1, <1>2, <1>3, <1>4, <1>5, <1>6, <1>7 DEF WorkerStep, Process, TakeJob, OnlyLocal, Announce,
       GetVersion, PreviousReadyVersion, DeleteDocuments, AddDocuments, AnnounceCreated, AnnounceBreaking,
       AnnounceFailed, JobReturns, JobThrows, StoreFails, Crash

\* A step of a worker keeps the whole invariant.
LEMMA WorkerKeepsPublished ==
    ASSUME PipelineInv, NEW w \in Workers, WorkerStep(w) PROVE PipelineInv'
  <1>1. StoreInv' /\ RowsKept
    BY WorkerKeepsStore, WorkerKeepsRows DEF PipelineInv, StoreInv
  <1>2. WorkersProgress'
    <2>1. ASSUME NEW x \in Workers
          PROVE  /\ local'[x].pc \in {"base", "diff", "ready"} =>
                        version'[local'[x].ver].artifact /\ call'[local'[x].ver].spec \notin BadSpecs
                 /\ local'[x].pc = "ready" => version'[local'[x].ver].diffed
                 /\ local'[x].pc = "diff" /\ local'[x].base # NoDeploy =>
                        /\ version'[local'[x].base].readyAt
                        /\ version'[local'[x].base].seq < version'[local'[x].ver].seq
      <3>1. CASE x = w
        BY <1>1, <3>1, OwnProgress
      <3>2. CASE x # w
        <4>1. local'[x] = local[x]
          BY <3>2, OthersUntouched DEF PipelineInv, StoreInv
        <4> QED
          BY <1>1, <4>1, OthersProgress
      <3> QED
        BY <3>1, <3>2
    <2> QED
      BY <2>1 DEF WorkersProgress, Content
  <1>3. (ReadyIsPublished /\ RowsAreWhole)'
    <2> DEFINE v == local[w].ver
    <2>1. CASE RecordDiff(w)
      <3>1. v \in Deploys /\ version[v] \in VersionType /\ local[w].base \in Deploys \union {NoDeploy}
        BY <2>1, HeldIsStored DEF RecordDiff, At, PipelineInv, StoreInv, TypeInv, TypeOK, LocalType
      <3>2. /\ \A d \in Deploys : version'[d].readyAt = version[d].readyAt /\ version'[d].status = version[d].status
            /\ \A d \in Deploys \ {v} : version'[d].base = version[d].base
            /\ version'[v].base \in {version[v].base, local[w].base}
        <4>1. CASE UNCHANGED version
          BY <4>1
        <4>2. CASE ~UNCHANGED version
          <5>1. PICK b \in BOOLEAN : SetRow(v, [version[v] EXCEPT !.diffed = TRUE, !.base = local[w].base, !.breaking = b])
            BY <2>1, <4>2 DEF RecordDiff
          <5> QED
            BY <3>1, <5>1 DEF SetRow, PipelineInv, StoreInv, TypeInv, TypeOK, VersionType
        <4> QED
          BY <4>1, <4>2
      <3>3. local[w].base # NoDeploy =>
               version[local[w].base].readyAt /\ version[local[w].base].seq < version[v].seq
        BY <2>1 DEF RecordDiff, At, PipelineInv, WorkersProgress
      <3>4. \A d \in Deploys : version[d].base \in Deploys \union {NoDeploy}
        BY DEF PipelineInv, StoreInv, TypeInv, TypeOK, VersionType
      <3> QED
        BY <1>1, <3>1, <3>2, <3>3, <3>4 DEF PipelineInv, RowsKept, ReadyIsPublished,
           RowsAreWhole, Versions, Content
    <2>2. CASE MarkVersionReady(w)
      <3>1. v \in Deploys /\ version[v] \in VersionType
        BY <2>2, HeldIsStored DEF MarkVersionReady, At, PipelineInv, StoreInv, TypeInv
      <3>2. /\ \A d \in Deploys : version'[d].base = version[d].base
            /\ version'[v].readyAt
            /\ \A d \in Deploys \ {v} : version'[d] = version[d]
        BY <2>2, <3>1 DEF MarkVersionReady, SetRow, PipelineInv, StoreInv, TypeInv, TypeOK, VersionType
      <3>3. version[v].artifact /\ version[v].diffed /\ Content(v) \notin BadSpecs
        BY <2>2 DEF MarkVersionReady, At, PipelineInv, WorkersProgress
      <3>4. \A d \in Deploys : version[d].base \in Deploys \union {NoDeploy}
        BY DEF PipelineInv, StoreInv, TypeInv, TypeOK, VersionType
      <3> QED
        BY <1>1, <3>1, <3>2, <3>3, <3>4 DEF PipelineInv, RowsKept, ReadyIsPublished,
           RowsAreWhole, Versions, Content
    <2>3. CASE ~RecordDiff(w) /\ ~MarkVersionReady(w)
      <3>1. FieldsKept
        BY <2>3, OthersKeepFields
      <3>2. \A d \in Deploys : version[d].base \in Deploys \union {NoDeploy}
        BY DEF PipelineInv, StoreInv, TypeInv, TypeOK, VersionType
      <3> QED
        BY <1>1, <3>1, <3>2 DEF FieldsKept, PipelineInv, RowsKept, ReadyIsPublished,
           RowsAreWhole, Versions, Content
    <2> QED
      BY <2>1, <2>2, <2>3
  <1> QED
    BY <1>1, <1>2, <1>3 DEF PipelineInv

\* A call leaves the versions that are stored, and publishes none.
LEMMA CallKeepsVersions ==
    ASSUME PipelineInv, NEW d \in Deploys, Deploy(d) \/ JobStalls(d)
    PROVE  /\ \A v \in Versions : version'[v] = version[v] /\ call'[v].spec = call[v].spec
           /\ \A v \in Deploys \ Versions : ~version'[v].readyAt /\ version'[v].base = NoDeploy /\ version'[v].status # "ready"
  <1> USE DEF PipelineInv, StoreInv, TypeInv, TypeOK, CallType, CallsAndVersions, Versions
  <1>1. CASE CommitVersion(d)
    BY <1>1 DEF CommitVersion, GoCall, NoVersion
  <1>2. CASE Submit(d)
    BY <1>2 DEF Submit, NoVersion
  <1>3. CASE version' = version /\ \A v \in Deploys : call'[v].spec = call[v].spec
    BY <1>3 DEF NoVersion
  <1>4. CASE FindVersionByHash(d) \/ BeginCreate(d) \/ LockBranch(d) \/ BranchConflict(d) \/ RefuseVersion(d)
             \/ CreateFails(d) \/ EnqueueDeploy(d) \/ EnqueueLost(d) \/ JobStalls(d)
    BY <1>3, <1>4 DEF FindVersionByHash, BeginCreate, LockBranch, BranchConflict, RefuseVersion, CreateFails,
                      EnqueueDeploy, EnqueueLost, JobStalls, GoCall
  <1> QED
    BY <1>1, <1>2, <1>4 DEF Deploy

\* A step of a call keeps it too: it touches no row that is stored.
LEMMA CallKeepsPublished ==
    ASSUME PipelineInv, NEW d \in Deploys, Deploy(d) \/ JobStalls(d) PROVE PipelineInv'
  <1>1. StoreInv'
    BY CallKeepsTypes, CallKeepsJobs, CallKeepsRows, CallKeepsNumbers, CallKeepsBranch, CallKeepsContents
       DEF PipelineInv, StoreInv
  <1>2. local' = local
    BY DEF Deploy, Submit, FindVersionByHash, BeginCreate, LockBranch, BranchConflict, CommitVersion,
           RefuseVersion, CreateFails, EnqueueDeploy, EnqueueLost, JobStalls
  <1>3. /\ \A v \in Versions : version'[v] = version[v] /\ call'[v].spec = call[v].spec
        /\ \A v \in Deploys \ Versions : ~version'[v].readyAt /\ version'[v].base = NoDeploy /\ version'[v].status # "ready"
    BY CallKeepsVersions
  <1>4. \A v \in Deploys : version[v].base \in Deploys \union {NoDeploy} /\ (version[v].readyAt => v \in Versions)
    BY DEF PipelineInv, StoreInv, TypeInv, TypeOK, VersionType, CallsAndVersions, NoVersion
  <1>5. \A w \in Workers : ~At(w, "idle") => local[w].ver \in Versions
    BY HeldIsStored DEF PipelineInv, StoreInv
  <1>6. \A w \in Workers : local[w].base \in Deploys \union {NoDeploy}
    BY DEF PipelineInv, StoreInv, TypeInv, TypeOK, LocalType
  <1>7. WorkersProgress'
    BY <1>2, <1>3, <1>4, <1>5, <1>6 DEF PipelineInv, WorkersProgress, Content, At
  <1>8. (ReadyIsPublished /\ RowsAreWhole)'
    BY <1>3, <1>4 DEF PipelineInv, ReadyIsPublished, RowsAreWhole, Versions, Content
  <1> QED
    BY <1>1, <1>7, <1>8 DEF PipelineInv
------------------------------------------------------------------------------
\* The invariant holds initially.
LEMMA InitPublished == Init => PipelineInv
  <1> SUFFICES ASSUME Init PROVE PipelineInv
    OBVIOUS
  <1>1. TypeInv
    BY InitTyped
  <1> QED
    BY <1>1 DEF Init, NoVersion, Idle, PipelineInv, StoreInv, JobsHaveVersions, CallsAndVersions,
       NumbersReserved,
       BranchesHaveVersions, OneVersionPerContent, WorkersProgress, ReadyIsPublished,
          RowsAreWhole, Versions

\* Every step keeps it.
LEMMA StepPublished == PipelineInv /\ [Next]_vars => PipelineInv'
  <1> SUFFICES ASSUME PipelineInv, [Next]_vars PROVE PipelineInv'
    OBVIOUS
  <1>1. ASSUME NEW d \in Deploys, Deploy(d) \/ JobStalls(d) PROVE PipelineInv'
    BY <1>1, CallKeepsPublished
  <1>2. ASSUME NEW w \in Workers, WorkerStep(w) PROVE PipelineInv'
    BY <1>2, WorkerKeepsPublished
  <1>3. CASE UNCHANGED vars
    BY <1>3 DEF vars, PipelineInv, StoreInv, TypeInv, TypeOK, HasHighest, Highest, WorkersHoldJobs,
       JobsHaveVersions,
       CallsAndVersions, NumbersReserved, BranchesHaveVersions, OneVersionPerContent, WorkersProgress,
          ReadyIsPublished,
       RowsAreWhole, Versions, Content, At
  <1> QED
    BY <1>1, <1>2, <1>3 DEF Next, WorkerStep

\* So it always holds.
LEMMA PipelineInvariant == Spec => []PipelineInv
  <1> QED
    BY InitPublished, StepPublished, PTL DEF Spec

(* Every variable of the deploy pipeline keeps its type, sequence numbers and counters of BullMQ
   included, whatever calls, workers, crashes and retries overlap. *)
THEOREM PipelineTypeCorrect == Spec => []TypeOK
  <1>1. PipelineInv => TypeOK
    BY DEF PipelineInv, StoreInv, TypeInv
  <1> QED
    BY <1>1, PipelineInvariant, PTL

(* However many deploys overlap, a branch stores a content once, sequence numbers never collide,
   and a deploy is refused for one of the two reasons the unique indexes have. *)
THEOREM OneVersionPerContentHolds == Spec => []OneVersionPerContent
  <1>1. PipelineInv => OneVersionPerContent
    BY DEF PipelineInv, StoreInv
  <1> QED
    BY <1>1, PipelineInvariant, PTL
------------------------------------------------------------------------------
(***************************************************************************)
(* What the end of a job tells.  at is where a version stands: the state   *)
(* of its job, or the place its worker has reached; told are its events.   *)
(***************************************************************************)
Told(v) == {e \in events : e[1] = v}
Finished == {"search", "addDocuments", "announce", "readDiff", "complete", "return", "completed"}

\* A bad spec, with no fault: never ready, failed at the end and announced as failed.
BadStory(v, at, row, told) ==
    /\ at \in {"none", "waiting", "get", "markVersion", "markJob", "parse", "fail", "failJob",
               "failEvent", "throw", "failed"}
    /\ row.status # "ready" /\ told \subseteq {<<v, "version.failed">>}
    /\ at \in {"failJob", "failEvent", "throw", "failed"} => row.status = "failed"
    /\ at \in {"failEvent", "throw", "failed"} => row.jobStatus = "failed"
    /\ at \in {"throw", "failed"} => <<v, "version.failed">> \in told

\* Any other spec, with no fault: one pass, published and announced at the end.
GoodStory(v, at, row, told) ==
    /\ at \in {"none", "waiting", "get", "markVersion", "markJob", "parse", "base", "diff", "ready"} \union Finished
    /\ at \in {"none", "waiting", "get"} => row.status # "ready"
    /\ at \in {"none", "waiting", "get", "markVersion", "markJob", "parse", "base", "diff"} => ~row.diffed
    /\ at \in {"readDiff", "complete", "return", "completed"} => <<v, "version.created">> \in told
    /\ at \in {"return", "completed"} => row.jobStatus = "completed"

Story(v, at) ==
    IF Content(v) \in BadSpecs THEN BadStory(v, at, version[v], Told(v))
    ELSE GoodStory(v, at, version[v], Told(v))

\* Before there is a job nothing has happened to the row.
NotBegun(v) ==
    Told(v) = {} /\ ~version[v].diffed /\ version[v].status \in {"none", "queued"}

FinishedIsReady ==
    /\ \A v \in Deploys : job[v].state = "completed" => version[v].status = "ready"
    /\ \A w \in Workers : local[w].pc \in Finished => version[local[w].ver].status = "ready"

Stories ==
    /\ \A v \in Deploys :
          /\ job[v].state = "none" => NotBegun(v)
          /\ faults[v] = 0 /\ job[v].state = "active" => \E w \in Workers : local[w].ver = v
          /\ faults[v] = 0 /\ job[v].state # "active" => Story(v, job[v].state)
    /\ \A w \in Workers :
          local[w].ver # NoDeploy /\ faults[local[w].ver] = 0 => Story(local[w].ver, local[w].pc)

TellInv == PipelineInv /\ FinishedIsReady /\ Stories
\* A fault counts.
LEMMA FaultShows ==
    ASSUME TypeOK, NEW v \in Deploys, Fault(v)
    PROVE  faults'[v] # 0 /\ \A u \in Deploys \ {v} : faults'[u] = faults[u]
  <1>1. faults[v] \in Nat /\ faults' = [faults EXCEPT ![v] = @ + 1] /\ faults \in [Deploys -> 0..MaxFaults]
    BY BoundsAssumption DEF TypeOK, Fault
  <1>2. faults'[v] = faults[v] + 1
    BY <1>1
  <1> QED
    BY <1>1, <1>2

\* A step inside process() moves its worker on, and touches no version but the one at hand.
LEMMA OneVersionMoves ==
    ASSUME TypeInv, JobsHaveVersions, NEW w \in Workers, Process(w) \/ StoreFails(w) \/ Crash(w)
    PROVE  /\ ~At(w, "idle") /\ call' = call
           /\ faults' = faults \/ Fault(local[w].ver)
           /\ \A u \in Deploys \ {local[w].ver} :
                 /\ version'[u] = version[u] /\ job'[u] = job[u] /\ Told(u)' = Told(u)
  <1> DEFINE v == local[w].ver
             Other == \A u \in Deploys \ {v} :
                 /\ version'[u] = version[u] /\ job'[u] = job[u] /\ Told(u)' = Told(u)
  <1>1. ASSUME NEW row, SetRow(v, row), UNCHANGED <<job, events>> PROVE Other
    BY <1>1 DEF SetRow, TypeInv, TypeOK, Told
  <1>2. ASSUME UNCHANGED <<version, job, events>> PROVE Other
    BY <1>2 DEF Told
  <1>3. ASSUME NEW type, NEW next, Announce(w, type, next)
        PROVE  Other /\ call' = call /\ (faults' = faults \/ Fault(v))
    BY <1>3 DEF Announce, Told
  <1>4. ASSUME NEW s, job' = [job EXCEPT ![v] = s], UNCHANGED <<version, events>> PROVE Other
    BY <1>4 DEF Told, TypeInv, TypeOK
  <1> SUFFICES ~At(w, "idle") /\ call' = call /\ (faults' = faults \/ Fault(v)) /\ Other
    OBVIOUS
  <1> HIDE DEF Other
  <1>5. CASE GetVersion(w) \/ PreviousReadyVersion(w)
    BY <1>2, <1>5 DEF GetVersion, PreviousReadyVersion, OnlyLocal, At
  <1>6. CASE MarkVersionProcessing(w) \/ MarkVersionReady(w) \/ MarkJobCompleted(w) \/ MarkVersionFailed(w)
             \/ MarkJobFailed(w)
    BY <1>1, <1>6 DEF MarkVersionProcessing, MarkVersionReady, MarkJobCompleted, MarkVersionFailed, MarkJobFailed,
                      OnlyRow, At
  <1>7. CASE MarkJobProcessing(w)
    BY <1>1, <1>7 DEF MarkJobProcessing, At
  <1>8. CASE ParseAndValidate(w)
    BY <1>1, <1>8 DEF ParseAndValidate, OnlyRow, At
  <1>9. CASE RecordDiff(w)
    BY <1>1, <1>2, <1>9 DEF RecordDiff, OnlyRow, At
  <1>10. CASE DeleteDocuments(w) \/ AddDocuments(w)
    BY <1>2, <1>10 DEF DeleteDocuments, AddDocuments, At
  <1>11. CASE AnnounceCreated(w) \/ AnnounceFailed(w)
    BY <1>3, <1>11 DEF AnnounceCreated, AnnounceFailed, At
  <1>12. CASE AnnounceBreaking(w)
    BY <1>2, <1>3, <1>12 DEF AnnounceBreaking, OnlyLocal, At
  <1>13. CASE StoreFails(w)
    BY <1>2, <1>13 DEF StoreFails, InTry, At
  <1>14. CASE Crash(w)
    BY <1>2, <1>14 DEF Crash
  <1>15. CASE JobReturns(w)
    <2>1. \E s : job' = [job EXCEPT ![v] = s]
      BY <1>15 DEF JobReturns
    <2> QED
      BY <1>4, <1>15, <2>1 DEF JobReturns, At
  <1>16. CASE JobThrows(w)
    <2>1. \E s : job' = [job EXCEPT ![v] = s]
      BY <1>16 DEF JobThrows
    <2> QED
      BY <1>4, <1>16, <2>1 DEF JobThrows, At
  <1> QED
    BY <1>5, <1>6, <1>7, <1>8, <1>9, <1>10, <1>11, <1>12, <1>13, <1>14, <1>15, <1>16 DEF Process

\* Without a fault, the story of a version goes on with every step of its worker.
LEMMA StoryGoesOn ==
    ASSUME TellInv, NEW w \in Workers, Process(w), ~JobReturns(w), ~JobThrows(w),
           NEW v, v = local[w].ver, faults'[v] = 0
    PROVE  \E pc : local'[w].pc = pc /\ Story(v, pc)'
  <1>1. v = local[w].ver
    OBVIOUS
  <1>2. PICK row : row = version[v]
    OBVIOUS
  <1>3. PICK told : told = Told(v)
    OBVIOUS
  <1>5. /\ TypeInv /\ TypeOK /\ JobsHaveVersions /\ call' = call /\ ~At(w, "idle")
        /\ v \in Deploys /\ row \in VersionType
    <2>1. TypeInv /\ TypeOK /\ JobsHaveVersions
      BY DEF TellInv, PipelineInv, StoreInv, TypeInv
    <2>2. call' = call /\ ~At(w, "idle")
      BY <2>1, OneVersionMoves
    <2> QED
      BY <1>1, <1>2, <2>1, <2>2, HeldIsStored
  <1>6. ~Fault(v) /\ faults[v] = 0 /\ faults' = faults
    BY <1>1, <1>5, FaultShows, OneVersionMoves
  <1>7. Story(v, local[w].pc)
    BY <1>1, <1>5, <1>6, DeploysAssumption DEF TellInv, Stories
  <1>8. /\ Content(v) \in BadSpecs => BadStory(v, local[w].pc, row, told)
        /\ Content(v) \notin BadSpecs => GoodStory(v, local[w].pc, row, told)
    BY <1>2, <1>3, <1>7 DEF Story, GoodStory
  <1>9. \A pc : GoTo(w, pc) => local'[w].pc = pc
    BY <1>5 DEF GoTo, TypeOK, LocalType
  \* What has to be shown, of the row and the events after the step.
  <1>10. ASSUME NEW pc, NEW row2, NEW told2, local'[w].pc = pc, version'[v] = row2,
                Told(v)' = told2,
                Content(v) \in BadSpecs => BadStory(v, pc, row2, told2),
                Content(v) \notin BadSpecs => GoodStory(v, pc, row2, told2)
         PROVE  \E q : local'[w].pc = q /\ Story(v, q)'
    <2>1. Content(v)' = Content(v)
      BY <1>5 DEF Content
    <2>2. Story(v, pc)'
      BY <1>10, <2>1 DEF Story, GoodStory
    <2> QED
      BY <1>10, <2>2
  <1>11. ASSUME NEW pc, local'[w].pc = pc, UNCHANGED <<version, events>>,
                Content(v) \in BadSpecs => BadStory(v, pc, row, told),
                Content(v) \notin BadSpecs => GoodStory(v, pc, row, told)
         PROVE  \E q : local'[w].pc = q /\ Story(v, q)'
    <2>1. version'[v] = row /\ Told(v)' = told
      BY <1>2, <1>3, <1>11 DEF Told
    <2> QED
      BY <1>10, <1>11, <2>1
  <1>12. ASSUME NEW pc, NEW row2, local'[w].pc = pc, SetRow(v, row2), events' = events,
                Content(v) \in BadSpecs => BadStory(v, pc, row2, told),
                Content(v) \notin BadSpecs => GoodStory(v, pc, row2, told)
         PROVE  \E q : local'[w].pc = q /\ Story(v, q)'
    <2>1. version'[v] = row2
      BY <1>5, <1>12 DEF SetRow, TypeOK
    <2>2. Told(v)' = told
      BY <1>3, <1>12 DEF Told
    <2> QED
      BY <1>10, <1>12, <2>1, <2>2
  <1>13. ASSUME NEW pc, NEW type, Announce(w, type, pc),
                Content(v) \in BadSpecs => BadStory(v, pc, row, told \union {<<v, type>>}),
                Content(v) \notin BadSpecs => GoodStory(v, pc, row, told \union {<<v, type>>})
         PROVE  \E q : local'[w].pc = q /\ Story(v, q)'
    <2>1. events' = events \union {<<v, type>>} /\ version' = version /\ local'[w].pc = pc
      BY <1>1, <1>6, <1>9, <1>13 DEF Announce
    <2>2. Told(v)' = told \union {<<v, type>>}
      BY <1>3, <2>1 DEF Told
    <2>3. version'[v] = row
      BY <1>2, <2>1
    <2> QED
      BY <1>10, <1>13, <2>1, <2>2, <2>3
  <1>14. CASE GetVersion(w)
    <2>1. local[w].pc = "get" /\ UNCHANGED <<version, events>>
      BY <1>14 DEF GetVersion, OnlyLocal, At
    <2>2. row.status # "ready"
      BY <1>8, <2>1 DEF BadStory, GoodStory
    <2>3. local'[w].pc = "markVersion"
      BY <1>1, <1>2, <1>9, <1>14, <2>2 DEF GetVersion
    <2> QED
      BY <1>8, <1>11, <2>1, <2>3 DEF BadStory, GoodStory, Finished
  <1>15. CASE MarkVersionProcessing(w)
    <2>1. PICK k : k = [row EXCEPT !.status = "processing"]
      OBVIOUS
    <2>2. k.status = "processing" /\ k.diffed = row.diffed /\ k.jobStatus = row.jobStatus
      BY <1>5, <2>1 DEF VersionType
    <2>3. local[w].pc = "markVersion" /\ local'[w].pc = "markJob" /\ SetRow(v, k) /\ events' = events
      BY <1>1, <1>2, <1>9, <1>15, <2>1 DEF MarkVersionProcessing, OnlyRow, At
    <2>4. /\ Content(v) \in BadSpecs => BadStory(v, "markJob", k, told)
          /\ Content(v) \notin BadSpecs => GoodStory(v, "markJob", k, told)
      BY <1>8, <2>2, <2>3 DEF BadStory, GoodStory, Finished
    <2> QED
      BY <1>12, <2>3, <2>4
  <1>16. CASE MarkJobProcessing(w)
    <2>1. PICK k : k = [row EXCEPT !.jobStatus = "processing"]
      OBVIOUS
    <2>2. k.status = row.status /\ k.diffed = row.diffed
      BY <1>5, <2>1 DEF VersionType
    <2>3. local[w].pc = "markJob" /\ local'[w].pc = "parse" /\ SetRow(v, k) /\ events' = events
      BY <1>1, <1>2, <1>6, <1>9, <1>16, <2>1 DEF MarkJobProcessing, At
    <2>4. /\ Content(v) \in BadSpecs => BadStory(v, "parse", k, told)
          /\ Content(v) \notin BadSpecs => GoodStory(v, "parse", k, told)
      BY <1>8, <2>2, <2>3 DEF BadStory, GoodStory, Finished
    <2> QED
      BY <1>12, <2>3, <2>4
  <1>17. CASE ParseAndValidate(w)
    <2>1. PICK b \in BOOLEAN : SetRow(v, [row EXCEPT !.artifact = b])
      <3>1. row.artifact \in BOOLEAN
        BY <1>5 DEF VersionType
      <3> QED
        BY <1>1, <1>2, <1>17, <3>1 DEF ParseAndValidate
    <2>2. PICK k : k = [row EXCEPT !.artifact = b]
      OBVIOUS
    <2>3. k.status = row.status /\ k.diffed = row.diffed /\ k.jobStatus = row.jobStatus
      BY <1>5, <2>2 DEF VersionType
    <2>4. local[w].pc = "parse" /\ SetRow(v, k) /\ events' = events
      BY <1>17, <2>1, <2>2 DEF ParseAndValidate, OnlyRow, At
    <2>5. CASE Content(v) \in BadSpecs
      <3>1. local'[w].pc = "fail"
        BY <1>1, <1>9, <1>17, <2>5 DEF ParseAndValidate
      <3>2. BadStory(v, "fail", k, told)
        BY <1>8, <2>3, <2>4, <2>5 DEF BadStory
      <3> QED
        BY <1>12, <2>4, <2>5, <3>1, <3>2
    <2>6. CASE Content(v) \notin BadSpecs
      <3>1. local'[w].pc = "base"
        BY <1>1, <1>9, <1>17, <2>6 DEF ParseAndValidate
      <3>2. GoodStory(v, "base", k, told)
        BY <1>8, <2>3, <2>4, <2>6 DEF GoodStory, Finished
      <3> QED
        BY <1>12, <2>4, <2>6, <3>1, <3>2
    <2> QED
      BY <2>5, <2>6
  <1>18. CASE PreviousReadyVersion(w)
    <2>1. local[w].pc = "base" /\ UNCHANGED <<version, events>>
      BY <1>18 DEF PreviousReadyVersion, OnlyLocal, At
    <2>2. local'[w].pc = "diff"
      BY <1>5, <1>18 DEF PreviousReadyVersion, TypeOK, LocalType
    <2>3. /\ Content(v) \in BadSpecs => BadStory(v, "diff", row, told)
          /\ Content(v) \notin BadSpecs => GoodStory(v, "diff", row, told)
      BY <1>8, <2>1 DEF BadStory, GoodStory, Finished
    <2> QED
      BY <1>11, <2>1, <2>2, <2>3
  <1>19. CASE RecordDiff(w)
    <2>1. local[w].pc = "diff" /\ events' = events
      BY <1>19 DEF RecordDiff, OnlyRow, At
    <2>2. Content(v) \notin BadSpecs /\ ~row.diffed
      BY <1>8, <2>1 DEF BadStory, GoodStory
    <2>3. PICK b \in BOOLEAN : SetRow(v, [row EXCEPT !.diffed = TRUE, !.base = local[w].base, !.breaking = b])
      BY <1>1, <1>2, <1>19, <2>2 DEF RecordDiff
    <2>4. PICK k : k = [row EXCEPT !.diffed = TRUE, !.base = local[w].base, !.breaking = b]
      OBVIOUS
    <2>5. local'[w].pc = "ready" /\ SetRow(v, k)
      BY <1>1, <1>2, <1>9, <1>19, <2>2, <2>3, <2>4 DEF RecordDiff
    <2>6. GoodStory(v, "ready", k, told)
      BY <1>8, <2>1, <2>2 DEF GoodStory, Finished
    <2> QED
      BY <1>12, <2>1, <2>2, <2>5, <2>6
  <1>20. CASE MarkVersionReady(w)
    <2>1. PICK k : k = [row EXCEPT !.status = "ready", !.readyAt = TRUE]
      OBVIOUS
    <2>2. local[w].pc = "ready" /\ local'[w].pc = "search" /\ SetRow(v, k) /\ events' = events
      BY <1>1, <1>2, <1>9, <1>20, <2>1 DEF MarkVersionReady, OnlyRow, At
    <2>3. Content(v) \notin BadSpecs /\ GoodStory(v, "search", k, told)
      BY <1>8, <2>2 DEF BadStory, GoodStory, Finished
    <2> QED
      BY <1>12, <2>2, <2>3
  <1>21. CASE DeleteDocuments(w) \/ AddDocuments(w)
    <2>1. /\ local[w].pc \in {"search", "addDocuments"} /\ UNCHANGED <<version, events>>
          /\ local'[w].pc \in {"addDocuments", "announce"}
      BY <1>9, <1>21 DEF DeleteDocuments, AddDocuments, At
    <2>2. /\ Content(v) \notin BadSpecs /\ GoodStory(v, "announce", row, told)
          /\ GoodStory(v, "addDocuments", row, told)
      BY <1>8, <2>1 DEF BadStory, GoodStory, Finished
    <2> QED
      BY <1>11, <2>1, <2>2
  <1>22. CASE AnnounceCreated(w)
    <2>1. local[w].pc = "announce" /\ Announce(w, "version.created", "readDiff")
      BY <1>22 DEF AnnounceCreated, At
    <2>2. Content(v) \notin BadSpecs /\ GoodStory(v, "readDiff", row, told \union {<<v, "version.created">>})
      BY <1>8, <2>1 DEF BadStory, GoodStory, Finished
    <2> QED
      BY <1>13, <2>1, <2>2
  <1>23. CASE AnnounceBreaking(w)
    <2>1. local[w].pc = "readDiff"
      BY <1>23 DEF AnnounceBreaking, At
    <2>2. /\ Content(v) \notin BadSpecs /\ GoodStory(v, "complete", row, told)
          /\ GoodStory(v, "complete", row, told \union {<<v, "diff.breaking_detected">>})
      BY <1>8, <2>1 DEF BadStory, GoodStory, Finished
    <2>3. CASE Announce(w, "diff.breaking_detected", "complete")
      BY <1>13, <2>2, <2>3
    <2>4. CASE GoTo(w, "complete") /\ OnlyLocal
      BY <1>9, <1>11, <2>2, <2>4 DEF OnlyLocal
    <2> QED
      BY <1>23, <2>3, <2>4 DEF AnnounceBreaking
  <1>24. CASE MarkJobCompleted(w)
    <2>1. PICK k : k = [row EXCEPT !.jobStatus = "completed"]
      OBVIOUS
    <2>2. k.jobStatus = "completed"
      BY <1>5, <2>1 DEF VersionType
    <2>3. local[w].pc = "complete" /\ local'[w].pc = "return" /\ SetRow(v, k) /\ events' = events
      BY <1>1, <1>2, <1>9, <1>24, <2>1 DEF MarkJobCompleted, OnlyRow, At
    <2>4. Content(v) \notin BadSpecs /\ GoodStory(v, "return", k, told)
      BY <1>8, <2>2, <2>3 DEF BadStory, GoodStory, Finished
    <2> QED
      BY <1>12, <2>3, <2>4
  <1>25. CASE MarkVersionFailed(w)
    <2>1. PICK k : k = [row EXCEPT !.status = "failed"]
      OBVIOUS
    <2>2. k.status = "failed"
      BY <1>5, <2>1 DEF VersionType
    <2>3. local[w].pc = "fail" /\ local'[w].pc = "failJob" /\ SetRow(v, k) /\ events' = events
      BY <1>1, <1>2, <1>9, <1>25, <2>1 DEF MarkVersionFailed, OnlyRow, At
    <2>4. Content(v) \in BadSpecs /\ BadStory(v, "failJob", k, told)
      BY <1>8, <2>2, <2>3 DEF BadStory, GoodStory, Finished
    <2> QED
      BY <1>12, <2>3, <2>4
  <1>26. CASE MarkJobFailed(w)
    <2>1. PICK k : k = [row EXCEPT !.jobStatus = "failed"]
      OBVIOUS
    <2>2. k.jobStatus = "failed" /\ k.status = row.status
      BY <1>5, <2>1 DEF VersionType
    <2>3. local[w].pc = "failJob" /\ local'[w].pc = "failEvent" /\ SetRow(v, k) /\ events' = events
      BY <1>1, <1>2, <1>9, <1>26, <2>1 DEF MarkJobFailed, OnlyRow, At
    <2>4. Content(v) \in BadSpecs /\ BadStory(v, "failEvent", k, told)
      BY <1>8, <2>2, <2>3 DEF BadStory, GoodStory, Finished
    <2> QED
      BY <1>12, <2>3, <2>4
  <1>27. CASE AnnounceFailed(w)
    <2>1. local[w].pc = "failEvent" /\ Announce(w, "version.failed", "throw")
      BY <1>27 DEF AnnounceFailed, At
    <2>2. Content(v) \in BadSpecs /\ BadStory(v, "throw", row, told \union {<<v, "version.failed">>})
      BY <1>8, <2>1 DEF BadStory, GoodStory, Finished
    <2> QED
      BY <1>13, <2>1, <2>2
  <1> QED
    BY <1>14, <1>15, <1>16, <1>17, <1>18, <1>19, <1>20, <1>21, <1>22, <1>23, <1>24, <1>25, <1>26, <1>27
    DEF Process

\* A worker reaches the end of process() with a version it has made ready, or found so.
LEMMA OwnFinished ==
    ASSUME TypeInv, JobsHaveVersions, FinishedIsReady, NEW w \in Workers, NEW v, v = local[w].ver,
           Process(w) \/ StoreFails(w) \/ Crash(w), local'[w].pc \in Finished
    PROVE  local'[w].ver = v /\ version'[v].status = "ready"
  <1>1. local \in [Workers -> LocalType] /\ version \in [Deploys -> VersionType] /\ v \in Deploys
    BY OneVersionMoves, HeldIsStored DEF TypeInv, TypeOK
  <1>2. \A pc : GoTo(w, pc) => local'[w].pc = pc /\ local'[w].ver = v
    BY <1>1 DEF GoTo, LocalType
  <1>3. \A k : SetRow(v, k) => version'[v] = k
    BY <1>1 DEF SetRow
  <1>4. ASSUME local' = [local EXCEPT ![w] = Idle] PROVE FALSE
    BY <1>1, <1>4 DEF Idle, Finished
  <1>5. ASSUME NEW pc, GoTo(w, pc), pc \notin Finished PROVE FALSE
    BY <1>2, <1>5
  <1>6. CASE GetVersion(w)
    BY <1>2, <1>5, <1>6 DEF GetVersion, OnlyLocal, Finished
  <1>7. CASE MarkVersionReady(w)
    <2>1. SetRow(v, [version[v] EXCEPT !.status = "ready", !.readyAt = TRUE]) /\ local'[w].ver = v
      BY <1>2, <1>7 DEF MarkVersionReady
    <2> QED
      BY <1>1, <1>3, <2>1 DEF VersionType
  <1>8. CASE DeleteDocuments(w) \/ AddDocuments(w) \/ AnnounceCreated(w) \/ AnnounceBreaking(w)
    <2>1. local[w].pc \in Finished /\ version' = version
      BY <1>8 DEF DeleteDocuments, AddDocuments, AnnounceCreated, AnnounceBreaking, Announce, OnlyLocal, Finished, At
    <2>2. local'[w].ver = v
      BY <1>2, <1>8 DEF DeleteDocuments, AddDocuments, AnnounceCreated, AnnounceBreaking, Announce
    <2> QED
      BY <2>1, <2>2 DEF FinishedIsReady
  <1>9. CASE MarkJobCompleted(w)
    <2>1. SetRow(v, [version[v] EXCEPT !.jobStatus = "completed"]) /\ local'[w].ver = v /\ local[w].pc \in Finished
      BY <1>2, <1>9 DEF MarkJobCompleted, Finished, At
    <2>2. version'[v].status = version[v].status
      BY <1>1, <1>3, <2>1 DEF VersionType
    <2> QED
      BY <2>1, <2>2 DEF FinishedIsReady
  <1>10. CASE MarkVersionProcessing(w) \/ MarkVersionFailed(w) \/ MarkJobFailed(w)
    BY <1>5, <1>10 DEF MarkVersionProcessing, MarkVersionFailed, MarkJobFailed, Finished
  <1>11. CASE MarkJobProcessing(w) \/ ParseAndValidate(w) \/ RecordDiff(w)
    BY <1>5, <1>11 DEF MarkJobProcessing, ParseAndValidate, RecordDiff, Finished
  <1>12. CASE PreviousReadyVersion(w)
    BY <1>1, <1>12 DEF PreviousReadyVersion, Finished, LocalType
  <1>13. CASE AnnounceFailed(w)
    BY <1>5, <1>13 DEF AnnounceFailed, Announce, Finished
  <1>14. CASE StoreFails(w)
    BY <1>5, <1>14 DEF StoreFails, Finished
  <1>15. CASE JobReturns(w) \/ JobThrows(w) \/ Crash(w)
    BY <1>4, <1>15 DEF JobReturns, JobThrows, Crash
  <1> QED
    BY <1>6, <1>7, <1>8, <1>9, <1>10, <1>11, <1>12, <1>13, <1>14, <1>15 DEF Process

\* The story of a version nobody touches is the same.
LEMMA StoryStays ==
    ASSUME NEW u, NEW at, version'[u] = version[u], Told(u)' = Told(u),
           call'[u].spec = call[u].spec
    PROVE  Story(u, at)' <=> Story(u, at)
  BY DEF Story, Content, GoodStory

LEMMA StoryBegins ==
    ASSUME NEW v, NotBegun(v), NEW at \in {"none", "waiting"}
    PROVE  Story(v, at)
  BY DEF NotBegun, Story, BadStory, GoodStory, Finished

LEMMA TellInvParts ==
    ASSUME TellInv
    PROVE  TypeInv /\ TypeOK /\ JobsHaveVersions /\ WorkersHoldJobs /\ StoreInv /\ PipelineInv /\ CallsAndVersions
  BY DEF TellInv, PipelineInv, StoreInv, TypeInv

\* A step inside process() keeps the invariant.
LEMMA WorkerTells ==
    ASSUME TellInv, NEW w \in Workers, Process(w) \/ StoreFails(w) \/ Crash(w)
    PROVE  TellInv'
  <1>1. PICK v : v = local[w].ver
    OBVIOUS
  <1>2. /\ TypeInv /\ TypeOK /\ JobsHaveVersions /\ WorkersHoldJobs /\ FinishedIsReady /\ Stories
        /\ PipelineInv'
    BY TellInvParts, WorkerKeepsPublished DEF WorkerStep, TellInv
  <1>3. /\ ~At(w, "idle") /\ call' = call /\ (faults' = faults \/ Fault(v))
        /\ \A u \in Deploys \ {v} :
              /\ version'[u] = version[u] /\ job'[u] = job[u] /\ Told(u)' = Told(u)
    BY <1>1, <1>2, OneVersionMoves
  <1>4. v \in Deploys /\ job[v].state = "active" /\ v # NoDeploy
    BY <1>1, <1>2, <1>3, HeldIsStored, DeploysAssumption
  <1>5. /\ \A u \in Deploys \ {v} : faults'[u] = faults[u]
        /\ faults'[v] = 0 => faults' = faults /\ ~Fault(v) /\ faults[v] = 0
    BY <1>2, <1>3, <1>4, FaultShows
  <1>6. \A x \in Workers \ {w} : local'[x] = local[x] /\ local[x].ver # v
    BY <1>1, <1>2, <1>4, OthersUntouched DEF WorkerStep, WorkersHoldJobs
  <1>7. \A x \in Workers : local[x].ver \in Deploys \union {NoDeploy} /\ (local[x].ver = NoDeploy => local[x].pc = "idle")
    BY <1>2 DEF TypeOK, LocalType, At
  <1>8. ASSUME NEW u \in Deploys \ {v}, NEW at PROVE Story(u, at)' <=> Story(u, at)
    BY <1>3, StoryStays
  <1>9. \/ job' = job /\ local'[w].ver = v /\ ~JobReturns(w) /\ ~JobThrows(w) /\ ~Crash(w)
        \/ local'[w] = Idle /\ (JobReturns(w) \/ JobThrows(w) \/ Crash(w))
    <2>1. CASE JobReturns(w) \/ JobThrows(w) \/ Crash(w)
      BY <1>2, <2>1 DEF JobReturns, JobThrows, Crash, TypeOK
    <2>2. CASE ~(JobReturns(w) \/ JobThrows(w) \/ Crash(w))
      BY <1>1, <1>2, <2>2, MovesHold
    <2> QED
      BY <2>1, <2>2
  <1>10. job'[v].state \in {"active", "completed", "waiting", "failed"}
         /\ (job'[v].state # "active" => JobReturns(w) \/ JobThrows(w))
         /\ (JobReturns(w) => job'[v].state = "completed" /\ local[w].pc = "return")
         /\ (JobThrows(w) => job'[v].state \in {"waiting", "failed"} /\ local[w].pc = "throw")
    <2>1. CASE job' = job
      <3>1. ~JobReturns(w) /\ ~JobThrows(w)
        BY <1>1, <1>2, <1>4, <2>1 DEF JobReturns, JobThrows, TypeOK, JobType
      <3> QED
        BY <1>4, <2>1, <3>1
    <2>2. CASE Crash(w)
      BY <2>1, <2>2 DEF Crash
    <2>3. CASE JobReturns(w)
      BY <1>1, <1>2, <1>4, <2>3 DEF JobReturns, JobThrows, TypeOK, JobType, At
    <2>4. CASE JobThrows(w)
      BY <1>1, <1>2, <1>4, <2>4 DEF JobReturns, JobThrows, TypeOK, JobType, At
    <2> QED
      BY <1>9, <2>1, <2>2, <2>3, <2>4
  <1>11. Idle.ver = NoDeploy /\ Idle.pc = "idle"
    BY DEF Idle
  <1>12. FinishedIsReady'
    <2>1. ASSUME NEW u \in Deploys, job'[u].state = "completed" PROVE version'[u].status = "ready"
      <3>1. CASE u # v
        BY <1>2, <1>3, <2>1, <3>1 DEF FinishedIsReady
      <3>2. CASE u = v
        <4>1. JobReturns(w) /\ local[w].pc = "return"
          BY <1>10, <2>1, <3>2
        <4>2. version' = version
          BY <4>1 DEF JobReturns
        <4> QED
          BY <1>1, <1>2, <3>2, <4>1, <4>2 DEF FinishedIsReady, Finished
      <3> QED
        BY <3>1, <3>2
    <2>2. ASSUME NEW x \in Workers, local'[x].pc \in Finished PROVE version'[local'[x].ver].status = "ready"
      <3>1. CASE x = w
        BY <1>1, <1>2, <2>2, <3>1, OwnFinished
      <3>2. CASE x # w
        <4>1. PICK u : u = local[x].ver
          OBVIOUS
        <4>2. local'[x] = local[x] /\ u \in Deploys \ {v}
          BY <1>6, <1>7, <2>2, <3>2, <4>1 DEF Finished
        <4> QED
          BY <1>2, <1>3, <2>2, <4>1, <4>2 DEF FinishedIsReady
      <3> QED
        BY <3>1, <3>2
    <2> QED
      BY <2>1, <2>2 DEF FinishedIsReady
  <1>13. Stories'
    <2>1. ASSUME NEW u \in Deploys \ {v}
          PROVE  /\ job'[u].state = "none" => NotBegun(u)'
                 /\ faults'[u] = 0 /\ job'[u].state = "active" => \E x \in Workers : local'[x].ver = u
                 /\ faults'[u] = 0 /\ job'[u].state # "active" => Story(u, job[u].state)'
      <3>1. job'[u].state = "none" => NotBegun(u)'
        BY <1>2, <1>3 DEF Stories, NotBegun
      <3>2. ASSUME faults'[u] = 0, job'[u].state = "active" PROVE \E x \in Workers : local'[x].ver = u
        <4>1. PICK x \in Workers : local[x].ver = u
          BY <1>2, <1>3, <1>5, <3>2 DEF Stories
        <4> QED
          BY <1>1, <1>6, <4>1
      <3>3. ASSUME faults'[u] = 0, job'[u].state # "active" PROVE Story(u, job[u].state)'
        <4>1. PICK s : s = job[u].state
          OBVIOUS
        <4>2. Story(u, s) /\ job'[u] = job[u]
          BY <1>2, <1>3, <1>5, <3>3, <4>1 DEF Stories
        <4>3. Story(u, s)'
          BY <1>8, <4>2
        <4> QED
          BY <4>1, <4>2, <4>3
      <3> QED
        BY <3>1, <3>2, <3>3
    <2>2. /\ job'[v].state = "none" => NotBegun(v)'
          /\ faults'[v] = 0 /\ job'[v].state = "active" => \E x \in Workers : local'[x].ver = v
          /\ faults'[v] = 0 /\ job'[v].state # "active" => Story(v, job[v].state)'
      <3>1. job'[v].state # "none"
        BY <1>10
      <3>2. ASSUME faults'[v] = 0 PROVE ~Crash(w) /\ ~StoreFails(w)
        BY <1>1, <1>5, <3>2 DEF Crash, StoreFails
      <3>3. ASSUME faults'[v] = 0, job'[v].state = "active" PROVE local'[w].ver = v
        BY <1>9, <1>10, <3>2, <3>3
      <3>4. ASSUME faults'[v] = 0, job'[v].state # "active" PROVE Story(v, job[v].state)'
        <4>1. PICK s : s = job'[v].state
          OBVIOUS
        <4>2. /\ Story(v, local[w].pc)
              /\ \/ JobReturns(w) /\ local[w].pc = "return" /\ s = "completed"
                 \/ JobThrows(w) /\ local[w].pc = "throw" /\ s \in {"waiting", "failed"}
          BY <1>1, <1>2, <1>4, <1>5, <1>10, <3>4, <4>1 DEF Stories
        <4>3. Story(v, s)
          BY <4>2 DEF Story, GoodStory, BadStory, Finished
        <4>4. UNCHANGED <<version, events, call>>
          BY <4>2 DEF JobReturns, JobThrows
        <4>5. Story(v, s)'
          BY <4>3, <4>4, StoryStays DEF Told
        <4> QED
          BY <4>1, <4>5
      <3> QED
        BY <3>1, <3>3, <3>4
    <2>3. ASSUME NEW x \in Workers, local'[x].ver # NoDeploy, faults'[local'[x].ver] = 0
          PROVE  Story(local[x].ver, local[x].pc)'
      <3>1. CASE x = w
        <4>1. job' = job /\ local'[w].ver = v /\ ~JobReturns(w) /\ ~JobThrows(w) /\ ~Crash(w)
          BY <1>9, <1>11, <2>3, <3>1
        <4>2. ~StoreFails(w)
          BY <1>1, <1>5, <2>3, <3>1, <4>1 DEF StoreFails
        <4>3. PICK pc : local'[w].pc = pc /\ Story(v, pc)'
          BY <1>1, <2>3, <3>1, <4>1, <4>2, StoryGoesOn
        <4> QED
          BY <3>1, <4>1, <4>3
      <3>2. CASE x # w
        <4>1. PICK u : u = local[x].ver
          OBVIOUS
        <4>2. PICK pc : pc = local[x].pc
          OBVIOUS
        <4>3. local'[x] = local[x] /\ u \in Deploys \ {v}
          BY <1>6, <1>7, <2>3, <3>2, <4>1
        <4>4. Story(u, pc)
          BY <1>2, <1>5, <2>3, <4>1, <4>2, <4>3 DEF Stories
        <4>5. Story(u, pc)'
          BY <1>8, <4>3, <4>4
        <4> QED
          BY <4>1, <4>2, <4>3, <4>5
      <3> QED
        BY <3>1, <3>2
    <2> QED
      BY <2>1, <2>2, <2>3 DEF Stories
  <1> QED
    BY <1>2, <1>12, <1>13 DEF TellInv

\* A worker takes a job: what is told of its version so far goes on.
LEMMA TakeTells ==
    ASSUME TellInv, NEW w \in Workers, NEW v \in Deploys, TakeJob(w, v)
    PROVE  TellInv'
  <1>1. /\ TypeInv /\ TypeOK /\ WorkersHoldJobs /\ FinishedIsReady /\ Stories /\ PipelineInv'
    BY TellInvParts, WorkerKeepsPublished DEF WorkerStep, TellInv
  <1>2. /\ UNCHANGED <<call, version, indexed, events, faults>> /\ job[v].state = "waiting"
        /\ local[w].pc = "idle" /\ local[w].ver = NoDeploy
    BY <1>1 DEF TakeJob, At, TypeOK
  <1>3. /\ local'[w].pc = "get" /\ local'[w].ver = v
        /\ \A x \in Workers \ {w} : local'[x] = local[x]
    BY <1>1, TakenTyped DEF TakeJob, TypeOK
  <1>4. /\ job'[v].state = "active"
        /\ \A u \in Deploys \ {v} : job'[u] = job[u]
    BY <1>1 DEF TakeJob, TypeOK, JobType
  <1>5. ASSUME NEW u, NEW at PROVE Story(u, at)' <=> Story(u, at)
    BY <1>2, StoryStays DEF Told
  <1>6. FinishedIsReady'
    BY <1>1, <1>2, <1>3, <1>4 DEF FinishedIsReady, Finished
  <1>7. Stories'
    <2>1. ASSUME NEW u \in Deploys
          PROVE  /\ job'[u].state = "none" => NotBegun(u)'
                 /\ faults'[u] = 0 /\ job'[u].state = "active" => \E x \in Workers : local'[x].ver = u
                 /\ faults'[u] = 0 /\ job'[u].state # "active" => Story(u, job[u].state)'
      <3>1. CASE u = v
        BY <1>3, <1>4, <3>1
      <3>2. CASE u # v
        <4>1. job'[u] = job[u] /\ (job[u].state = "none" => NotBegun(u)')
          BY <1>1, <1>2, <1>4, <3>2 DEF Stories, NotBegun, Told
        <4>2. ASSUME faults'[u] = 0, job'[u].state = "active" PROVE \E x \in Workers : local'[x].ver = u
          <5>1. PICK x \in Workers : local[x].ver = u
            BY <1>1, <1>2, <4>1, <4>2 DEF Stories
          <5>2. x # w
            BY <1>2, <5>1, DeploysAssumption
          <5> QED
            BY <1>3, <5>1, <5>2
        <4>3. ASSUME faults'[u] = 0, job'[u].state # "active" PROVE Story(u, job[u].state)'
          <5>1. PICK s : s = job[u].state
            OBVIOUS
          <5>2. Story(u, s)
            BY <1>1, <1>2, <4>1, <4>3, <5>1 DEF Stories
          <5> QED
            BY <1>5, <4>1, <5>1, <5>2
        <4> QED
          BY <4>1, <4>2, <4>3
      <3> QED
        BY <3>1, <3>2
    <2>2. ASSUME NEW x \in Workers, local'[x].ver # NoDeploy, faults'[local'[x].ver] = 0
          PROVE  Story(local[x].ver, local[x].pc)'
      <3>1. CASE x = w
        <4>1. Story(v, "waiting")
          BY <1>1, <1>2, <1>3, <2>2, <3>1 DEF Stories
        <4>2. Story(v, "get")
          BY <4>1 DEF Story, GoodStory, BadStory, Finished
        <4> QED
          BY <1>3, <1>5, <3>1, <4>2
      <3>2. CASE x # w
        <4>1. PICK u : u = local[x].ver
          OBVIOUS
        <4>2. PICK pc : pc = local[x].pc
          OBVIOUS
        <4>3. Story(u, pc) /\ local'[x] = local[x]
          BY <1>1, <1>2, <1>3, <2>2, <3>2, <4>1, <4>2 DEF Stories
        <4> QED
          BY <1>5, <4>1, <4>2, <4>3
      <3> QED
        BY <3>1, <3>2
    <2> QED
      BY <2>1, <2>2 DEF Stories
  <1> QED
    BY <1>1, <1>6, <1>7 DEF TellInv

\* A step of a call is about a version that has no job yet, or hands its first job over.
LEMMA CallTells ==
    ASSUME TellInv, NEW d \in Deploys, Deploy(d)
    PROVE  TellInv'
  <1>1. /\ TypeInv /\ TypeOK /\ JobsHaveVersions /\ WorkersHoldJobs /\ FinishedIsReady /\ Stories /\ PipelineInv'
    BY TellInvParts, CallKeepsPublished DEF TellInv
  <1>2. /\ call[d].pc \notin {"answered"} /\ UNCHANGED <<indexed, events, local>>
        /\ \A u \in Deploys \ {d} : /\ call'[u] = call[u] /\ version'[u] = version[u] /\ job'[u] = job[u]
                                    /\ faults'[u] = faults[u]
    <2> USE DEF TypeOK, Deploy, GoCall, Fault
    <2>1. CASE Submit(d) \/ FindVersionByHash(d) \/ BeginCreate(d) \/ LockBranch(d) \/ BranchConflict(d)
      BY <1>1, <2>1 DEF Submit, FindVersionByHash, BeginCreate, LockBranch, BranchConflict
    <2>2. CASE CommitVersion(d) \/ RefuseVersion(d) \/ EnqueueDeploy(d)
      BY <1>1, <2>2 DEF CommitVersion, RefuseVersion, EnqueueDeploy
    <2>3. CASE CreateFails(d) \/ EnqueueLost(d)
      BY <1>1, <2>3 DEF CreateFails, EnqueueLost
    <2> QED
      BY <2>1, <2>2, <2>3
  <1>3. job[d].state = "none" /\ NotBegun(d)
    BY <1>1, <1>2 DEF JobsHaveVersions, Stories
  <1>4. NotBegun(d)' /\ job'[d].state \in {"none", "waiting"}
    <2>1. CASE CommitVersion(d)
      <3>1. version'[d].status = "queued" /\ ~version'[d].diffed /\ job' = job
        BY <1>1, <2>1 DEF CommitVersion, TypeOK, NoVersion
      <3> QED
        BY <1>2, <1>3, <3>1 DEF NotBegun, Told
    <2>2. CASE ~CommitVersion(d)
      <3>1. version' = version
        BY <2>2 DEF Deploy, Submit, FindVersionByHash, BeginCreate, LockBranch, BranchConflict, RefuseVersion,
                    CreateFails, EnqueueDeploy, EnqueueLost
      <3>2. job' = job \/ job' = [job EXCEPT ![d].state = "waiting"]
        BY <2>2 DEF Deploy, Submit, FindVersionByHash, BeginCreate, LockBranch, BranchConflict, RefuseVersion,
                    CreateFails, EnqueueDeploy, EnqueueLost
      <3>3. job'[d].state \in {"none", "waiting"}
        BY <1>1, <1>3, <3>2 DEF TypeOK, JobType
      <3> QED
        BY <1>2, <1>3, <3>1, <3>3 DEF NotBegun, Told
    <2> QED
      BY <2>1, <2>2
  <1>5. \A x \in Workers : local[x].ver # d
    BY <1>1, <1>3, DeploysAssumption DEF WorkersHoldJobs
  <1>6. ASSUME NEW u \in Deploys \ {d}, NEW at PROVE Story(u, at)' <=> Story(u, at)
    BY <1>2, StoryStays DEF Told
  <1>7. \A x \in Workers : local[x].ver \in Deploys \union {NoDeploy} /\ (local[x].ver = NoDeploy => local[x].pc = "idle")
    BY <1>1 DEF TypeOK, LocalType, At
  <1>8. FinishedIsReady'
    <2>1. \A x \in Workers : local[x].pc \in Finished => local[x].ver \in Deploys \ {d}
      BY <1>5, <1>7 DEF Finished
    <2> QED
      BY <1>1, <1>2, <1>4, <2>1 DEF FinishedIsReady
  <1>9. Stories'
    <2>1. ASSUME NEW u \in Deploys
          PROVE  /\ job'[u].state = "none" => NotBegun(u)'
                 /\ faults'[u] = 0 /\ job'[u].state = "active" => \E x \in Workers : local'[x].ver = u
                 /\ faults'[u] = 0 /\ job'[u].state # "active" => Story(u, job[u].state)'
      <3>1. CASE u = d
        <4>1. PICK s : s = job'[d].state
          OBVIOUS
        <4>2. s \in {"none", "waiting"} /\ Told(d)' = {} /\ ~version'[d].diffed
              /\ version'[d].status \in {"none", "queued"}
          BY <1>4, <4>1 DEF NotBegun
        <4>3. Story(d, s)'
          BY <4>2 DEF Story, BadStory, GoodStory, Finished
        <4> QED
          BY <1>4, <3>1, <4>1, <4>2, <4>3
      <3>2. CASE u # d
        <4>1. job'[u] = job[u] /\ (job[u].state = "none" => NotBegun(u)')
          BY <1>1, <1>2, <3>2 DEF Stories, NotBegun, Told
        <4>2. faults'[u] = 0 /\ job'[u].state = "active" => \E x \in Workers : local'[x].ver = u
          BY <1>1, <1>2, <3>2 DEF Stories
        <4>3. ASSUME faults'[u] = 0, job'[u].state # "active" PROVE Story(u, job[u].state)'
          <5>1. PICK s : s = job[u].state
            OBVIOUS
          <5>2. Story(u, s)
            BY <1>1, <1>2, <3>2, <4>3, <5>1 DEF Stories
          <5>3. Story(u, s)'
            BY <1>6, <3>2, <5>2
          <5> QED
            BY <4>1, <5>1, <5>3
        <4> QED
          BY <4>1, <4>2, <4>3
      <3> QED
        BY <3>1, <3>2
    <2>2. ASSUME NEW x \in Workers, local'[x].ver # NoDeploy, faults'[local'[x].ver] = 0
          PROVE  Story(local[x].ver, local[x].pc)'
      <3>1. PICK u : u = local[x].ver
        OBVIOUS
      <3>2. PICK pc : pc = local[x].pc
        OBVIOUS
      <3>3. local' = local /\ u \in Deploys \ {d} /\ Story(u, pc)
        BY <1>1, <1>2, <1>5, <1>7, <2>2, <3>1, <3>2 DEF Stories
      <3>4. Story(u, pc)'
        BY <1>6, <3>3
      <3> QED
        BY <3>1, <3>2, <3>3, <3>4
    <2> QED
      BY <2>1, <2>2 DEF Stories
  <1> QED
    BY <1>1, <1>8, <1>9 DEF TellInv

\* A job stalls only when its worker has gone, which is a fault.
LEMMA StallTells ==
    ASSUME TellInv, NEW d \in Deploys, JobStalls(d)
    PROVE  TellInv'
  <1>1. /\ TypeInv /\ TypeOK /\ FinishedIsReady /\ Stories /\ PipelineInv'
    BY TellInvParts, CallKeepsPublished DEF TellInv
  <1>2. /\ UNCHANGED <<call, version, indexed, events, local, faults>> /\ job[d].state = "active"
        /\ \A w \in Workers : local[w].ver # d
    BY DEF JobStalls
  <1>3. /\ job'[d].state \in {"waiting", "failed"}
        /\ \A u \in Deploys \ {d} : job'[u] = job[u]
    BY <1>1 DEF JobStalls, TypeOK, JobType
  <1>4. faults[d] # 0
    BY <1>1, <1>2 DEF Stories
  <1>5. ASSUME NEW u, NEW at PROVE Story(u, at)' <=> Story(u, at)
    BY <1>2, StoryStays DEF Told
  <1>6. FinishedIsReady'
    BY <1>1, <1>2, <1>3 DEF FinishedIsReady
  <1>7. Stories'
    <2>1. ASSUME NEW u \in Deploys
          PROVE  /\ job'[u].state = "none" => NotBegun(u)'
                 /\ faults'[u] = 0 /\ job'[u].state = "active" => \E x \in Workers : local'[x].ver = u
                 /\ faults'[u] = 0 /\ job'[u].state # "active" => Story(u, job[u].state)'
      <3>1. CASE u = d
        BY <1>2, <1>3, <1>4, <3>1
      <3>2. CASE u # d
        <4>1. job'[u] = job[u] /\ (job[u].state = "none" => NotBegun(u)')
          BY <1>1, <1>2, <1>3, <3>2 DEF Stories, NotBegun, Told
        <4>2. faults'[u] = 0 /\ job'[u].state = "active" => \E x \in Workers : local'[x].ver = u
          BY <1>1, <1>2, <4>1 DEF Stories
        <4>3. ASSUME faults'[u] = 0, job'[u].state # "active" PROVE Story(u, job[u].state)'
          <5>1. PICK s : s = job[u].state
            OBVIOUS
          <5>2. Story(u, s)
            BY <1>1, <1>2, <4>1, <4>3, <5>1 DEF Stories
          <5> QED
            BY <1>5, <4>1, <5>1, <5>2
        <4> QED
          BY <4>1, <4>2, <4>3
      <3> QED
        BY <3>1, <3>2
    <2>2. ASSUME NEW x \in Workers, local'[x].ver # NoDeploy, faults'[local'[x].ver] = 0
          PROVE  Story(local[x].ver, local[x].pc)'
      <3>1. PICK u : u = local[x].ver
        OBVIOUS
      <3>2. PICK pc : pc = local[x].pc
        OBVIOUS
      <3>3. Story(u, pc)
        BY <1>1, <1>2, <2>2, <3>1, <3>2 DEF Stories
      <3> QED
        BY <1>2, <1>5, <3>1, <3>2, <3>3
    <2> QED
      BY <2>1, <2>2 DEF Stories
  <1> QED
    BY <1>1, <1>6, <1>7 DEF TellInv

LEMMA InitTells == Init => TellInv
  <1> SUFFICES ASSUME Init PROVE TellInv
    OBVIOUS
  <1>1. /\ \A v \in Deploys : job[v].state = "none" /\ NotBegun(v)
        /\ \A w \in Workers : local[w].pc = "idle" /\ local[w].ver = NoDeploy
    BY DEF Init, NoVersion, Idle, NotBegun, Told
  <1>2. FinishedIsReady
    BY <1>1 DEF FinishedIsReady, Finished
  <1>3. Stories
    BY <1>1, StoryBegins DEF Stories
  <1> QED
    BY <1>2, <1>3, InitPublished DEF TellInv

LEMMA StepTells == TellInv /\ [Next]_vars => TellInv'
  <1> SUFFICES ASSUME TellInv, [Next]_vars PROVE TellInv'
    OBVIOUS
  <1>1. CASE UNCHANGED vars
    <2>1. PipelineInv'
      BY <1>1, StepPublished DEF TellInv
    <2>2. UNCHANGED <<call, version, job, indexed, events, local, faults>>
      BY <1>1 DEF vars
    <2>3. \A u : /\ Told(u)' = Told(u) /\ (NotBegun(u)' <=> NotBegun(u))
               /\ \A at : Story(u, at)' <=> Story(u, at)
      BY <2>2, StoryStays DEF Told, NotBegun
    <2>4. FinishedIsReady'
      BY <2>2 DEF TellInv, FinishedIsReady
    <2>5. Stories'
      <3> HIDE DEF Story, NotBegun
      <3> QED
        BY <2>2, <2>3 DEF TellInv, Stories
    <2> QED
      BY <2>1, <2>4, <2>5 DEF TellInv
  <1>2. ASSUME NEW d \in Deploys, Deploy(d) \/ JobStalls(d) PROVE TellInv'
    BY <1>2, CallTells, StallTells
  <1>3. ASSUME NEW w \in Workers, WorkerStep(w) PROVE TellInv'
    BY <1>3, WorkerTells, TakeTells DEF WorkerStep
  <1> QED
    BY <1>1, <1>2, <1>3 DEF Next, WorkerStep

------------------------------------------------------------------------------
(***************************************************************************)
(* What events tell and what the search index holds.                       *)
(***************************************************************************)
\* A stored version keeps its spec and what it has reached.
LEMMA VersionsKeep ==
    ASSUME TellInv, Next
    PROVE  /\ \A v \in Deploys : faults[v] > 0 => faults'[v] > 0
           /\ \A v \in Versions :
                 /\ v \in Versions' /\ Content(v)' = Content(v)
                 /\ version[v].readyAt => version'[v].readyAt
                 /\ version[v].artifact => version'[v].artifact
                 /\ version[v].diffed => version'[v].diffed
  <1> USE TellInvParts DEF Versions, Content
  <1>1. \A v \in Deploys : faults[v] > 0 => faults'[v] > 0
    <2>1. CASE faults' = faults
      BY <2>1
    <2>2. ASSUME NEW d \in Deploys, Fault(d) PROVE \A v \in Deploys : faults[v] > 0 => faults'[v] > 0
      <3>1. faults'[d] > 0
        BY <2>2, BoundsAssumption DEF TypeOK, Fault
      <3> QED BY <2>2, <3>1, FaultShows
    <2>3. ASSUME NEW w \in Workers, WorkerStep(w)
          PROVE  faults' = faults \/ \E d \in Deploys : Fault(d)
      <3>1. CASE \E v \in Deploys : TakeJob(w, v)
        BY <3>1 DEF TakeJob
      <3>2. CASE Process(w) \/ StoreFails(w) \/ Crash(w)
        BY <3>2, OneVersionMoves, HeldIsStored
      <3> QED BY <2>3, <3>1, <3>2 DEF WorkerStep
    <2>4. ASSUME NEW d \in Deploys, Deploy(d) \/ JobStalls(d) PROVE faults' = faults \/ Fault(d)
      BY <2>4 DEF Deploy, Submit, FindVersionByHash, BeginCreate, LockBranch, BranchConflict, CommitVersion,
                  RefuseVersion, CreateFails, EnqueueDeploy, EnqueueLost, JobStalls
    <2> QED BY <2>1, <2>2, <2>3, <2>4 DEF Next, WorkerStep
  <1>2. ASSUME NEW w \in Workers, WorkerStep(w)
        PROVE  /\ call' = call
               /\ \A v \in Versions :
                     /\ version'[v].status # "none" /\ (version[v].readyAt => version'[v].readyAt)
                     /\ version[v].artifact => version'[v].artifact
                     /\ version[v].diffed => version'[v].diffed
    BY <1>2, WorkerKeepsRows DEF RowsKept
  <1>3. ASSUME NEW d \in Deploys, Deploy(d) \/ JobStalls(d)
        PROVE  \A v \in Versions : version'[v] = version[v] /\ call'[v].spec = call[v].spec
    BY <1>3, CallKeepsVersions DEF TellInv
  <1> QED BY <1>1, <1>2, <1>3 DEF Next, WorkerStep

\* Which steps hand an event to the dispatcher.
LEMMA WhoAnnounces ==
    ASSUME TellInv, Next
    PROVE  \/ events' = events
           \/ \E w \in Workers :
                  /\ ~At(w, "idle") /\ UNCHANGED <<call, version, faults>>
                  /\ \/ At(w, "announce") /\ events' = events \union {<<local[w].ver, "version.created">>}
                     \/ At(w, "failEvent") /\ events' = events \union {<<local[w].ver, "version.failed">>}
  <1>1. ASSUME NEW w \in Workers, WorkerStep(w), events' # events
        PROVE  (AnnounceCreated(w) \/ AnnounceFailed(w)) /\ ~At(w, "idle")
    <2>1. \A v : ~DiffForVersion(v).hasBreaking
      BY DEF DiffForVersion
    <2> QED
      BY <1>1, <2>1 DEF WorkerStep, Process, TakeJob, StoreFails, Crash, GetVersion, MarkVersionProcessing,
         MarkJobProcessing, ParseAndValidate, PreviousReadyVersion, RecordDiff, MarkVersionReady,
         DeleteDocuments, AddDocuments, AnnounceCreated, AnnounceBreaking, MarkJobCompleted, MarkVersionFailed,
         MarkJobFailed, AnnounceFailed, JobReturns, JobThrows, OnlyLocal, OnlyRow, At
  <1>2. ASSUME NEW d \in Deploys, Deploy(d) \/ JobStalls(d) PROVE events' = events
    BY <1>2 DEF Deploy, Submit, FindVersionByHash, BeginCreate, LockBranch, BranchConflict, CommitVersion,
                RefuseVersion, CreateFails, EnqueueDeploy, EnqueueLost, JobStalls
  <1> QED BY <1>1, <1>2 DEF Next, WorkerStep, AnnounceCreated, AnnounceFailed, Announce

\* What has been announced of a version is so.
EventsAreTrue ==
    \A v \in Deploys :
        /\ <<v, "version.created">> \in events => version[v].readyAt /\ version[v].artifact /\ version[v].diffed
        /\ <<v, "version.failed">> \in events => Content(v) \in BadSpecs \/ faults[v] > 0
        /\ <<v, "diff.breaking_detected">> \notin events

EventInv ==
    /\ TellInv /\ EventsAreTrue
    /\ \A e \in events : e[1] \in Versions

LEMMA EventInitHolds == Init => EventInv
  <1> SUFFICES ASSUME Init PROVE EventInv
    OBVIOUS
  <1>1. TellInv
    BY InitTells
  <1> QED BY <1>1 DEF Init, EventInv, EventsAreTrue

\* A worker that is done with its version had published it, whole.
LEMMA FinishedIsWhole ==
    ASSUME TellInv, NEW w \in Workers, local[w].pc \in Finished
    PROVE  LET v == local[w].ver IN
           v \in Versions /\ version[v].readyAt /\ version[v].artifact /\ version[v].diffed
  <1>1. local[w].ver \in Versions /\ local[w].ver \in Deploys
    BY TellInvParts, HeldIsStored DEF At, Finished
  <1> QED BY <1>1 DEF TellInv, FinishedIsReady, PipelineInv, ReadyIsPublished, RowsAreWhole

\* An event is handed over where it is true, and stays so.
LEMMA EventStepHolds == EventInv /\ [Next]_vars => EventInv'
  <1> SUFFICES ASSUME EventInv, [Next]_vars PROVE EventInv'
    OBVIOUS
  <1>1. TellInv /\ TellInv'
    BY StepTells DEF EventInv
  <1>2. CASE UNCHANGED vars
    BY <1>1, <1>2 DEF vars, EventInv, EventsAreTrue, Versions, Content
  <1>3. CASE Next
    <2>1. TypeOK /\ StoreInv /\ TypeInv /\ JobsHaveVersions
      BY <1>1, TellInvParts DEF StoreInv
    <2>2. /\ \A v \in Deploys : faults[v] > 0 => faults'[v] > 0
          /\ \A v \in Versions : /\ v \in Versions' /\ Content(v)' = Content(v)
                                 /\ version[v].readyAt => version'[v].readyAt
                                 /\ version[v].artifact => version'[v].artifact
                                 /\ version[v].diffed => version'[v].diffed
      BY <1>1, <1>3, VersionsKeep
    <2>3. \/ events' = events
          \/ \E w \in Workers :
                 /\ ~At(w, "idle") /\ UNCHANGED <<call, version, faults>>
                 /\ \/ At(w, "announce") /\ events' = events \union {<<local[w].ver, "version.created">>}
                    \/ At(w, "failEvent") /\ events' = events \union {<<local[w].ver, "version.failed">>}
      BY <1>1, <1>3, WhoAnnounces
    <2>4. ASSUME NEW w \in Workers, At(w, "announce")
          PROVE  LET v == local[w].ver IN version[v].readyAt /\ version[v].artifact /\ version[v].diffed
      BY <1>1, <2>4, FinishedIsWhole DEF At, Finished
    <2>5. ASSUME NEW w \in Workers, At(w, "failEvent")
          PROVE  Content(local[w].ver) \in BadSpecs \/ faults[local[w].ver] > 0
      <3>1. local[w].ver \in Deploys /\ local[w].ver # NoDeploy /\ faults[local[w].ver] \in Nat
        BY <2>1, <2>5, HeldIsStored, DeploysAssumption, BoundsAssumption DEF At, TypeOK
      <3>2. faults[local[w].ver] = 0 => Story(local[w].ver, "failEvent")
        BY <1>1, <2>5, <3>1 DEF TellInv, Stories, At
      <3> QED BY <3>1, <3>2 DEF Story, GoodStory, Finished
    <2>6. \A e \in events' : e[1] \in Versions'
      <3>1. \A w \in Workers : ~At(w, "idle") => local[w].ver \in Versions
        BY <2>1, HeldIsStored
      <3> QED BY <2>2, <2>3, <3>1 DEF EventInv
    <2>7. EventsAreTrue'
      <3> DEFINE True(v) ==
             /\ <<v, "version.created">> \in events' => version'[v].readyAt /\ version'[v].artifact /\ version'[v].diffed
             /\ <<v, "version.failed">> \in events' => Content(v)' \in BadSpecs \/ faults'[v] > 0
             /\ <<v, "diff.breaking_detected">> \notin events'
      <3> SUFFICES ASSUME NEW v \in Deploys PROVE True(v)
        BY DEF EventsAreTrue
      <3>1. CASE events' = events
        <4>1. \A type : <<v, type>> \in events => v \in Versions
          BY DEF EventInv
        <4> QED BY <2>2, <3>1, <4>1 DEF EventInv, EventsAreTrue
      <3>2. ASSUME NEW w \in Workers, At(w, "announce"), UNCHANGED <<call, version, faults>>,
                   events' = events \union {<<local[w].ver, "version.created">>}
            PROVE  True(v)
        BY <2>4, <3>2 DEF EventInv, EventsAreTrue, Content
      <3>3. ASSUME NEW w \in Workers, At(w, "failEvent"), UNCHANGED <<call, version, faults>>,
                   events' = events \union {<<local[w].ver, "version.failed">>}
            PROVE  True(v)
        BY <2>5, <3>3 DEF EventInv, EventsAreTrue, Content
      <3> HIDE DEF True
      <3> QED BY <2>3, <3>1, <3>2, <3>3
    <2> QED BY <1>1, <2>6, <2>7 DEF EventInv
  <1> QED BY <1>2, <1>3

(* A version whose worker has come past its requests has left documents in the index, its own or
   those of the version that deleted its own: unless that version had none, or a fault hit it. *)
SomeAnnounced == (\E e \in events : e[2] = "version.created") \/ (\E w \in Workers : At(w, "announce"))

IndexInv ==
    /\ TellInv
    /\ \A v \in indexed : v \in Versions /\ version[v].readyAt /\ Content(v) \notin BareSpecs
    /\ \A w \in Workers : At(w, "addDocuments") => Content(local[w].ver) \notin BareSpecs
    /\ IndexSettled /\ SomeAnnounced => indexed # {}

LEMMA IndexInitHolds == Init => IndexInv
  <1> SUFFICES ASSUME Init PROVE IndexInv
    OBVIOUS
  <1>1. TellInv
    BY InitTells
  <1> QED BY <1>1 DEF Init, IndexInv, SomeAnnounced, At, Idle

\* Who changes the index, and how a worker comes to and leaves the two requests.
LEMMA IndexMoves ==
    ASSUME TellInv, Next
    PROVE  /\ \/ indexed' = indexed
              \/ \E w \in Workers : DeleteDocuments(w) \/ AddDocuments(w)
           /\ \A x \in Workers :
                 \/ local'[x] = local[x]
                 \/ DeleteDocuments(x) \/ AddDocuments(x)
                 \/ /\ ~At(x, "addDocuments") \/ \E d \in Deploys : Fault(d)
                    /\ local'[x].pc \notin {"addDocuments", "announce"}
  <1> USE TellInvParts
  <1>1. ASSUME NEW w \in Workers, WorkerStep(w), ~DeleteDocuments(w), ~AddDocuments(w)
        PROVE  /\ indexed' = indexed
               /\ ~At(w, "addDocuments") \/ \E d \in Deploys : Fault(d)
               /\ local'[w].pc \notin {"addDocuments", "announce"}
    <2> USE DEF At
    <2>1. local \in [Workers -> LocalType]
      BY DEF TypeOK
    <2>2. ASSUME NEW pc, GoTo(w, pc), pc \notin {"addDocuments", "announce"}
          PROVE  local'[w].pc \notin {"addDocuments", "announce"}
      BY <2>1, <2>2 DEF GoTo, LocalType
    <2>3. ASSUME NEW m, m.pc \notin {"addDocuments", "announce"}, local' = [local EXCEPT ![w] = m]
          PROVE  local'[w].pc \notin {"addDocuments", "announce"}
      BY <2>1, <2>3
    <2>4. CASE ParseAndValidate(w) \/ RecordDiff(w) \/ MarkJobProcessing(w) \/ GetVersion(w)
      BY <2>2, <2>4 DEF ParseAndValidate, RecordDiff, MarkJobProcessing, GetVersion, OnlyLocal, OnlyRow
    <2>5. CASE PreviousReadyVersion(w)
      BY <2>1, <2>5 DEF PreviousReadyVersion, OnlyLocal, LocalType
    <2>6. CASE \/ MarkVersionProcessing(w) \/ MarkVersionReady(w) \/ MarkJobCompleted(w)
               \/ MarkVersionFailed(w) \/ MarkJobFailed(w)
      BY <2>2, <2>6 DEF MarkVersionProcessing, MarkVersionReady, MarkJobCompleted, MarkVersionFailed,
         MarkJobFailed, OnlyRow
    <2>7. CASE AnnounceCreated(w) \/ AnnounceBreaking(w) \/ AnnounceFailed(w)
      BY <2>2, <2>7 DEF AnnounceCreated, AnnounceBreaking, AnnounceFailed, Announce, OnlyLocal
    <2>8. Idle.pc = "idle" /\ \A v : [Idle EXCEPT !.pc = "get", !.ver = v].pc = "get"
      BY DEF Idle
    <2>9. CASE JobReturns(w) \/ JobThrows(w) \/ \E v \in Deploys : TakeJob(w, v)
      BY <2>3, <2>8, <2>9 DEF JobReturns, JobThrows, TakeJob
    <2>10. CASE StoreFails(w) \/ Crash(w)
      <3>1. local[w].ver \in Deploys /\ Fault(local[w].ver) /\ indexed' = indexed
        BY <2>10, HeldIsStored DEF StoreFails, Crash, InTry
      <3> QED BY <2>2, <2>3, <2>8, <2>10, <3>1 DEF StoreFails, Crash
    <2> QED BY <1>1, <2>4, <2>5, <2>6, <2>7, <2>9, <2>10 DEF WorkerStep, Process
  <1>2. ASSUME NEW w \in Workers, WorkerStep(w) PROVE \A x \in Workers \ {w} : local'[x] = local[x]
    BY <1>2, OthersUntouched
  <1>3. ASSUME NEW d \in Deploys, Deploy(d) \/ JobStalls(d) PROVE local' = local /\ indexed' = indexed
    BY <1>3 DEF Deploy, Submit, FindVersionByHash, BeginCreate, LockBranch, BranchConflict, CommitVersion,
                RefuseVersion, CreateFails, EnqueueDeploy, EnqueueLost, JobStalls
  <1> QED BY <1>1, <1>2, <1>3 DEF Next, WorkerStep

\* The two requests keep the invariant, and so does everything that can disturb it.
LEMMA IndexStepHolds == IndexInv /\ [Next]_vars => IndexInv'
  <1> SUFFICES ASSUME IndexInv, [Next]_vars PROVE IndexInv'
    OBVIOUS
  <1>1. TellInv /\ TellInv'
    BY StepTells DEF IndexInv
  <1>2. CASE UNCHANGED vars
    BY <1>1, <1>2 DEF vars, IndexInv, IndexSettled, SomeAnnounced, Versions, Content, At
  <1>3. CASE Next
    <2>1. TypeOK /\ TypeInv /\ JobsHaveVersions /\ TypeOK' /\ CallsAndVersions
      BY <1>1 DEF TellInv, PipelineInv, StoreInv, TypeInv
    <2>2. /\ \A v \in Deploys : faults[v] > 0 => faults'[v] > 0
          /\ \A v \in Versions : /\ v \in Versions' /\ Content(v)' = Content(v)
                                 /\ version[v].readyAt => version'[v].readyAt
      BY <1>1, <1>3, VersionsKeep
    <2>3. /\ \/ indexed' = indexed
             \/ \E w \in Workers : DeleteDocuments(w) \/ AddDocuments(w)
          /\ \A x \in Workers :
                \/ local'[x] = local[x]
                \/ DeleteDocuments(x) \/ AddDocuments(x)
                \/ /\ ~At(x, "addDocuments") \/ \E d \in Deploys : Fault(d)
                   /\ local'[x].pc \notin {"addDocuments", "announce"}
      BY <1>1, <1>3, IndexMoves
    <2>4. ASSUME NEW w \in Workers, DeleteDocuments(w) \/ AddDocuments(w)
          PROVE  /\ local[w].ver \in Versions /\ version[local[w].ver].readyAt /\ local'[w].ver = local[w].ver
                 /\ UNCHANGED <<call, version, events, faults>>
                 /\ DeleteDocuments(w) => /\ indexed' = {}
                                          /\ Content(local[w].ver) \in BareSpecs \/ local'[w].pc = "addDocuments"
                                          /\ local'[w].pc = "addDocuments" => Content(local[w].ver) \notin BareSpecs
                 /\ AddDocuments(w) => /\ indexed' = indexed \union {local[w].ver}
                                       /\ Content(local[w].ver) \notin BareSpecs
                                       /\ local'[w].pc = "announce"
      <3>1. local[w].pc \in Finished
        BY <2>4 DEF DeleteDocuments, AddDocuments, At, Finished
      <3>2. \A pc : GoTo(w, pc) => local'[w].pc = pc /\ local'[w].ver = local[w].ver
        BY <2>1 DEF GoTo, TypeOK, LocalType
      <3> QED BY <1>1, <2>4, <3>1, <3>2, FinishedIsWhole DEF DeleteDocuments, AddDocuments, IndexInv
    <2>5. \A v \in indexed' : v \in Versions' /\ version'[v].readyAt /\ Content(v)' \notin BareSpecs
      BY <2>2, <2>3, <2>4 DEF IndexInv
    <2>6. ASSUME NEW x \in Workers, At(x, "addDocuments")' PROVE Content(local[x].ver)' \notin BareSpecs
      <3>1. CASE local'[x] = local[x]
        <4>1. local[x].ver \in Versions
          BY <2>1, <2>6, <3>1, HeldIsStored DEF At
        <4> QED BY <2>2, <2>6, <3>1, <4>1 DEF IndexInv, At, Content
      <3>2. CASE DeleteDocuments(x) \/ AddDocuments(x)
        BY <2>4, <2>6, <3>2 DEF At, Content
      <3> QED BY <2>3, <2>6, <3>1, <3>2 DEF At
    <2>7. ASSUME IndexSettled', SomeAnnounced' PROVE indexed' # {}
      <3>1. \A d \in Deploys : ~Fault(d) /\ faults[d] = 0
        <4>1. \A d \in Deploys : faults'[d] = 0 /\ faults[d] \in Nat
          BY <2>1, <2>7, BoundsAssumption DEF IndexSettled, TypeOK
        <4> QED BY <2>1, <2>2, <4>1, FaultShows
      <3>2. CASE \E w \in Workers : AddDocuments(w)
        BY <2>4, <3>2
      <3>3. ASSUME NEW w \in Workers, DeleteDocuments(w) PROVE FALSE
        <4>1. local[w].ver \in Deploys
          BY <2>4, <3>3 DEF Versions
        <4> QED BY <2>4, <2>7, <3>3, <4>1 DEF IndexSettled, At, Content
      <3>4. CASE ~\E w \in Workers : DeleteDocuments(w) \/ AddDocuments(w)
        <4>1. /\ indexed' = indexed
              /\ \A x \in Workers : local'[x] = local[x] \/ (~At(x, "addDocuments") /\ ~At(x, "announce")')
          BY <2>3, <3>1, <3>4 DEF At
        <4>2. IndexSettled
          <5>1. \A v \in Deploys : version[v].readyAt => v \in Versions
            BY <2>1 DEF CallsAndVersions, NoVersion
          <5>2. \A v \in Deploys : version[v].readyAt => Content(v) \notin BareSpecs
            BY <2>2, <2>7, <5>1 DEF IndexSettled, Content
          <5>3. \A w \in Workers : ~At(w, "addDocuments")
            BY <2>7, <4>1 DEF IndexSettled, At
          <5> QED BY <3>1, <5>2, <5>3 DEF IndexSettled
        <4>3. SomeAnnounced
          <5>1. CASE \E w \in Workers : At(w, "announce")'
            BY <4>1, <5>1 DEF SomeAnnounced, At
          <5>2. CASE \E e \in events' : e[2] = "version.created"
            BY <1>1, <1>3, <5>2, WhoAnnounces DEF SomeAnnounced
          <5> QED BY <2>7, <5>1, <5>2 DEF SomeAnnounced
        <4> QED BY <4>1, <4>2, <4>3 DEF IndexInv
      <3> QED BY <3>2, <3>3, <3>4
    <2> QED BY <1>1, <2>5, <2>6, <2>7 DEF IndexInv
  <1> QED BY <1>2, <1>3

\* So it always holds.
LEMMA IndexInvariant == Spec => []IndexInv
  <1> QED
    BY IndexInitHolds, IndexStepHolds, PTL DEF Spec

(* What is published has been validated, normalized and diffed against an older published version,
   and what the index holds has been published, in spite of any number of workers, retries and
   crashes. *)
THEOREM PublishedVersionsAreWholeHolds == Spec => []PublishedVersionsAreWhole
  <1>1. IndexInv => PublishedVersionsAreWhole
    BY DEF IndexInv, TellInv, PipelineInv, RowsAreWhole, PublishedVersionsAreWhole
  <1> QED
    BY <1>1, IndexInvariant, PTL

(* A job completes only for a version that is ready, with any number of faults, retries and
   workers; and where no fault has hit a version the end of its job leaves exactly what its spec
   deserves: published and announced, or failed and announced as that and nothing else.  And the
   workers that publish at the same time, each of which deletes what the others have indexed, do
   not leave the index empty. *)
THEOREM JobEndTellsVersionHolds == Spec => []JobEndTellsVersion
  <1>1. IndexInv => JobEndTellsVersion
    <2> SUFFICES ASSUME IndexInv, NEW v \in Deploys
                 PROVE  /\ job[v].state = "completed" => version[v].status = "ready"
                        /\ job[v].state \in {"completed", "failed"} /\ faults[v] = 0 =>
                              IF Content(v) \in BadSpecs
                              THEN /\ version[v].status = "failed" /\ version[v].jobStatus = "failed"
                                   /\ Told(v) = {<<v, "version.failed">>}
                              ELSE /\ version[v].status = "ready" /\ version[v].jobStatus = "completed"
                                   /\ <<v, "version.created">> \in events
                                   /\ IndexSettled => indexed # {}
      BY DEF JobEndTellsVersion, Told
    <2>1. job[v].state = "completed" => version[v].status = "ready"
      BY DEF IndexInv, TellInv, FinishedIsReady
    <2>2. ASSUME job[v].state \in {"completed", "failed"}, faults[v] = 0
          PROVE  Story(v, job[v].state)
      BY <2>2 DEF IndexInv, TellInv, Stories
    <2>3. \A e \in Told(v) : e \in events
      BY DEF Told
    <2>4. ASSUME job[v].state \in {"completed", "failed"}, faults[v] = 0, Content(v) \in BadSpecs
          PROVE  /\ version[v].status = "failed" /\ version[v].jobStatus = "failed"
                 /\ Told(v) = {<<v, "version.failed">>}
      BY <2>2, <2>4 DEF Story, BadStory
    <2>5. ASSUME job[v].state \in {"completed", "failed"}, faults[v] = 0, Content(v) \notin BadSpecs
          PROVE  /\ version[v].status = "ready" /\ version[v].jobStatus = "completed"
                 /\ <<v, "version.created">> \in events
      BY <2>1, <2>2, <2>3, <2>5 DEF Story, GoodStory, Finished
    <2>6. <<v, "version.created">> \in events /\ IndexSettled => indexed # {}
      BY DEF IndexInv, SomeAnnounced
    <2> QED
      BY <2>1, <2>4, <2>5, <2>6
  <1> QED
    BY <1>1, IndexInvariant, PTL
------------------------------------------------------------------------------
(***************************************************************************)
(* Deploys from GitHub.                                                    *)
(***************************************************************************)
Targets == {"main", "pr"}
Mappings == [path : Paths, doc : Docs]
HookType == [pc : {"kept", "find", "next", "create", "enqueue", "done"}, repo : Repos, branch : Targets,
             tree : [Paths -> Contents \union {Absent}],
             read : SUBSET Mappings, todo : SUBSET Mappings, now : SUBSET Mappings, lost : SUBSET Mappings]
PushedType == [doc : Docs, branch : Targets, content : Contents, hook : GithubCalls, path : Paths]
FormType == {NoForm} \union [pc : {"assign"}, repo : Repos, doc : Docs]
                     \union [pc : {"simulate"}, spec : SpecFiles, doc : Docs]

\* Links, mappings and docs, with the domains of the functions.
LinksTyped ==
    /\ GithubTypeOK
    /\ repoDoc \in [Repos -> Docs \union {NoDoc, Absent}]
    /\ mapped \in [SpecFiles -> Docs \union {Absent}]
    /\ settings \in FormType
    /\ pushed \in SUBSET PushedType
    /\ hooks \in [GithubCalls -> {NoHook} \union HookType]

\* What has become of a mapping that h has read.
Accounted(h, m) ==
    \/ m \in h.todo \/ m \in h.lost
    \/ m \in h.now /\ h.pc = "create"
    \/ m.doc \notin docs
    \/ Holds(m.doc, h.branch, h.tree[m.path])

HookHolds(h) ==
    /\ \A m \in h.read : Accounted(h, m)
    /\ h.pc = "create" => \A m, n \in h.now : m = n /\ h.tree[m.path] \in Contents
    /\ h.pc = "done" => h.todo = {}

ContentsAreApart == \A v, w \in pushed : v.doc = w.doc /\ v.branch = w.branch /\ v.content = w.content => v = w

HooksHold == \A j \in GithubCalls : hooks[j] # NoHook => HookHolds(hooks[j])

GithubInv == LinksTyped /\ HooksHold /\ ContentsAreApart
------------------------------------------------------------------------------
\* No webhook has arrived and nothing is deployed.
LEMMA GithubInitHolds == GithubInit => GithubInv
  <1> SUFFICES ASSUME GithubInit PROVE GithubInv
    OBVIOUS
  <1>1. GithubTypeOK
    BY LinksAssumption DEF GithubInit, GithubTypeOK, SpecFiles
  <1>2. LinksTyped
    BY <1>1 DEF GithubInit, LinksTyped, FormType
  <1>3. HooksHold /\ ContentsAreApart
    BY DEF GithubInit, HooksHold, ContentsAreApart
  <1> QED BY <1>2, <1>3 DEF GithubInv

\* Links, mappings and the form change while no webhook moves and nothing is deployed.
LEMMA LinksChange ==
    ASSUME GithubInv, docs' = docs, UNCHANGED <<hooks, pushed>>,
           repoDoc' \in [Repos -> docs \union {NoDoc, Absent}],
           mapped' \in [SpecFiles -> docs \union {Absent}],
           \A s \in SpecFiles : mapped'[s] # Absent => repoDoc'[s[1]] # Absent,
           settings' \in FormType, edits' \in 0..MaxLinkEdits
    PROVE  GithubInv'
  <1>1. docs \subseteq Docs
    BY DEF GithubInv, LinksTyped, GithubTypeOK
  <1>2. LinksTyped'
    BY <1>1 DEF GithubInv, LinksTyped, GithubTypeOK, Linked
  <1>3. HooksHold'
    <2> SUFFICES ASSUME NEW j \in GithubCalls, hooks[j] # NoHook PROVE HookHolds(hooks[j])'
      BY DEF HooksHold
    <2>1. hooks[j] \in HookType /\ HookHolds(hooks[j])
      BY DEF GithubInv, LinksTyped, HooksHold
    <2> QED BY <2>1 DEF HookHolds, Accounted, Holds
  <1>4. ContentsAreApart'
    BY DEF GithubInv, ContentsAreApart
  <1> QED BY <1>2, <1>3, <1>4 DEF GithubInv

\* People and the settings page change links and mappings.
LEMMA LinkActions ==
    ASSUME GithubInv, ManageLinks \/ SettingsPage
    PROVE  GithubInv'
  <1>1. /\ docs \subseteq Docs /\ edits \in 0..MaxLinkEdits /\ settings \in FormType
        /\ repoDoc \in [Repos -> docs \union {NoDoc, Absent}]
        /\ mapped \in [SpecFiles -> docs \union {Absent}]
        /\ \A s \in SpecFiles : mapped[s] # Absent => repoDoc[s[1]] # Absent
    BY DEF GithubInv, LinksTyped, GithubTypeOK, Linked
  <1>2. \A s \in SpecFiles : s[1] \in Repos
    BY DEF SpecFiles
  <1>3. UNCHANGED <<consumer, hooks, pushed>>
    BY DEF ManageLinks, SettingsPage
  <1>4. Change => edits' \in 0..MaxLinkEdits
    BY <1>1, LinksAssumption DEF Change
  <1>5. \A r \in Repos :
            /\ WithRepository(r) \in [Repos -> docs \union {NoDoc, Absent}]
            /\ \A q \in Repos : repoDoc[q] # Absent => WithRepository(r)[q] # Absent
    BY <1>1, LinksAssumption DEF WithRepository
  <1>6. ASSUME NEW r \in Repos, LinkRepository(r) PROVE GithubInv'
    BY <1>1, <1>2, <1>3, <1>4, <1>5, <1>6, LinksChange DEF LinkRepository
  <1>7. ASSUME NEW r \in Repos, NEW d \in docs \union {NoDoc}, AssignRepository(r, d) PROVE GithubInv'
    <2>1. d # Absent
      BY <1>1, LinksAssumption
    <2>2. /\ repoDoc' \in [Repos -> docs \union {NoDoc, Absent}]
          /\ \A q \in Repos : repoDoc[q] # Absent => repoDoc'[q] # Absent
      BY <1>1, <1>7, <2>1 DEF AssignRepository
    <2> QED BY <1>1, <1>2, <1>3, <1>4, <1>7, <2>2, LinksChange DEF AssignRepository
  <1>8. ASSUME NEW r \in Repos, UnlinkRepository(r) PROVE GithubInv'
    <2>1. /\ repoDoc' \in [Repos -> docs \union {NoDoc, Absent}]
          /\ \A q \in Repos : q # r => repoDoc'[q] = repoDoc[q]
      BY <1>1, <1>8 DEF UnlinkRepository
    <2>2. /\ mapped' \in [SpecFiles -> docs \union {Absent}]
          /\ \A s \in SpecFiles : mapped'[s] # Absent => s[1] # r /\ mapped'[s] = mapped[s]
      BY <1>1, <1>8 DEF UnlinkRepository
    <2> QED BY <1>1, <1>2, <1>3, <1>4, <1>8, <2>1, <2>2, LinksChange DEF UnlinkRepository
  <1>9. ASSUME NEW s \in SpecFiles, NEW d \in docs, Linked(s[1]), mapped' = WithMapping(s, d) PROVE
            /\ mapped' \in [SpecFiles -> docs \union {Absent}]
            /\ \A t \in SpecFiles : mapped'[t] # Absent => repoDoc[t[1]] # Absent
    BY <1>1, <1>9 DEF WithMapping, Linked
  <1>10. ASSUME NEW s \in SpecFiles, NEW d \in docs, CreateMapping(s, d) PROVE GithubInv'
    BY <1>1, <1>3, <1>4, <1>9, <1>10, LinksChange DEF CreateMapping
  <1>11. ASSUME NEW s \in SpecFiles, DeleteMapping(s) PROVE GithubInv'
    <2>1. /\ mapped' \in [SpecFiles -> docs \union {Absent}]
          /\ \A t \in SpecFiles : mapped'[t] # Absent => mapped[t] # Absent
      BY <1>1, <1>11 DEF DeleteMapping, WithMapping
    <2> QED BY <1>1, <1>3, <1>4, <1>11, <2>1, LinksChange DEF DeleteMapping
  <1>12. ASSUME NEW r \in Repos, NEW d \in docs, CreateAndLinkRepository(r, d) PROVE GithubInv'
    <2>1. settings' \in FormType
      BY <1>1, <1>12 DEF CreateAndLinkRepository, FormType
    <2> QED BY <1>1, <1>2, <1>3, <1>4, <1>5, <1>12, <2>1, LinksChange DEF CreateAndLinkRepository
  <1>13. CASE AssignCreated
    <2>1. settings' \in FormType /\ UNCHANGED <<docs, mapped, edits>>
      BY <1>13 DEF AssignCreated, FormType
    <2>2. /\ repoDoc' \in [Repos -> docs \union {NoDoc, Absent}]
          /\ \A q \in Repos : repoDoc[q] # Absent => repoDoc'[q] # Absent
      <3>1. CASE repoDoc' = repoDoc
        BY <3>1, <1>1
      <3>2. CASE settings.doc \in docs /\ repoDoc' = [repoDoc EXCEPT ![settings.repo] = settings.doc]
        <4>1. settings.doc # Absent
          BY <3>2, <1>1, LinksAssumption
        <4> QED BY <1>1, <3>2, <4>1
      <3> QED BY <1>13, <3>1, <3>2 DEF AssignCreated
    <2> QED BY <1>1, <1>2, <1>3, <2>1, <2>2, LinksChange
  <1>14. ASSUME NEW s \in SpecFiles, NEW d \in docs, CreateDocMapping(s, d) PROVE GithubInv'
    <2>1. settings' \in FormType
      BY <1>1, <1>14 DEF CreateDocMapping, FormType
    <2> QED BY <1>1, <1>3, <1>4, <1>9, <1>14, <2>1, LinksChange DEF CreateDocMapping
  <1>15. ASSUME NEW s \in SpecFiles, TriggerPush(s) PROVE GithubInv'
    <2>1. mapped[s] \in Docs
      BY <1>1, <1>15 DEF TriggerPush
    <2>2. settings' \in FormType
      BY <1>15, <2>1 DEF TriggerPush, FormType
    <2> QED BY <1>1, <1>3, <1>15, <2>2, LinksChange DEF TriggerPush
  <1> QED BY <1>6, <1>7, <1>8, <1>10, <1>11, <1>12, <1>13, <1>14, <1>15 DEF ManageLinks, SettingsPage

\* A doc goes with its mappings and its versions.
LEMMA DocGoes ==
    ASSUME GithubInv, NEW d \in Docs, DeleteDoc(d)
    PROVE  GithubInv'
  <1>1. docs' = docs \ {d} /\ docs \subseteq Docs
    BY DEF DeleteDoc, GithubInv, LinksTyped, GithubTypeOK
  <1>2. /\ repoDoc' \in [Repos -> docs' \union {NoDoc, Absent}]
        /\ \A r \in Repos : repoDoc[r] # Absent => repoDoc'[r] # Absent
    BY <1>1, LinksAssumption DEF DeleteDoc, GithubInv, LinksTyped, GithubTypeOK
  <1>3. /\ mapped' \in [SpecFiles -> docs' \union {Absent}]
        /\ \A s \in SpecFiles : mapped'[s] # Absent => mapped'[s] = mapped[s]
    BY <1>1, LinksAssumption DEF DeleteDoc, GithubInv, LinksTyped, GithubTypeOK
  <1>4. /\ pushed' \subseteq pushed /\ (\A v \in pushed' : v.doc \in docs') /\ edits' \in 0..MaxLinkEdits
        /\ \A v \in pushed : v.doc \in docs' => v \in pushed'
    BY <1>1, LinksAssumption DEF DeleteDoc, Change, GithubInv, LinksTyped, GithubTypeOK
  <1>5. UNCHANGED <<consumer, settings, hooks>>
    BY DEF DeleteDoc
  <1>6. GithubTypeOK'
    <2>1. \A s \in SpecFiles : mapped'[s] = Absent \/ (mapped'[s] \in docs' /\ repoDoc'[s[1]] # Absent)
      <3> SUFFICES ASSUME NEW s \in SpecFiles, mapped'[s] # Absent PROVE mapped'[s] \in docs' /\ repoDoc'[s[1]] # Absent
        OBVIOUS
      <3>1. s[1] \in Repos /\ mapped[s] # Absent
        BY <1>3 DEF SpecFiles
      <3> QED BY <3>1, <1>2, <1>3 DEF GithubInv, LinksTyped, GithubTypeOK, Linked
    <2> QED BY <1>1, <1>2, <1>4, <2>1 DEF GithubInv, LinksTyped, GithubTypeOK, Linked
  <1>7. LinksTyped'
    BY <1>1, <1>2, <1>3, <1>4, <1>5, <1>6 DEF GithubInv, LinksTyped
  <1>8. HooksHold'
    <2> SUFFICES ASSUME NEW j \in GithubCalls, hooks[j] # NoHook PROVE HookHolds(hooks[j])'
      BY <1>5 DEF HooksHold
    <2>1. hooks[j] \in HookType /\ HookHolds(hooks[j])
      BY DEF GithubInv, LinksTyped, HooksHold
    <2>2. docs' \subseteq docs
      BY <1>1
    <2> DEFINE h == hooks[j]
    <2>3. ASSUME NEW m \in h.read PROVE Accounted(h, m)'
      <3>1. Accounted(h, m)
        BY <2>1 DEF HookHolds
      <3>2. Holds(m.doc, h.branch, h.tree[m.path]) /\ m.doc \in docs' => Holds(m.doc, h.branch, h.tree[m.path])'
        BY <1>4, <1>5 DEF Holds
      <3> QED BY <3>1, <3>2, <2>2, <1>5 DEF Accounted
    <2> QED BY <2>1, <2>3, <1>5 DEF HookHolds
  <1>9. ContentsAreApart'
    BY <1>4 DEF GithubInv, ContentsAreApart
  <1> QED BY <1>7, <1>8, <1>9 DEF GithubInv

\* One webhook moves to h, and versions are added.
LEMMA HookMoves ==
    ASSUME GithubInv, NEW j \in GithubCalls, NEW CONSTANT h, h \in HookType, hooks' = [hooks EXCEPT ![j] = h],
           HookHolds(h)', ContentsAreApart', settings' \in FormType,
           UNCHANGED <<consumer, docs, repoDoc, mapped, edits>>,
           pushed \subseteq pushed', pushed' \subseteq PushedType, \A v \in pushed' : v.doc \in docs
    PROVE  GithubInv'
  <1>1. /\ hooks' \in [GithubCalls -> {NoHook} \union HookType] /\ hooks'[j] = h
        /\ \A i \in GithubCalls : i # j => hooks'[i] = hooks[i]
    BY DEF GithubInv, LinksTyped
  <1>2. GithubTypeOK'
    BY DEF GithubInv, LinksTyped, GithubTypeOK, Linked, PushedType
  <1>3. LinksTyped'
    BY <1>1, <1>2 DEF GithubInv, LinksTyped
  <1>4. HooksHold'
    <2> SUFFICES ASSUME NEW i \in GithubCalls, hooks'[i] # NoHook PROVE HookHolds(hooks[i])'
      BY DEF HooksHold
    <2>1. CASE i = j
      BY <1>1, <2>1 DEF HookHolds, Accounted
    <2>2. CASE i # j
      <3>1. hooks'[i] = hooks[i] /\ HookHolds(hooks[i])
        BY <1>1, <2>2 DEF GithubInv, HooksHold
      <3> QED BY <3>1 DEF HookHolds, Accounted, Holds
    <2> QED BY <2>1, <2>2
  <1> QED BY <1>3, <1>4 DEF GithubInv

\* A webhook arrives: nothing has been read for it yet.
LEMMA WebhookArrives ==
    ASSUME GithubInv, NEW j \in GithubCalls, NEW r \in Repos, NEW target \in Targets,
           NEW tree \in [Paths -> Contents \union {Absent}], Enqueue(j, r, target, tree),
           UNCHANGED <<consumer, docs, repoDoc, mapped, edits, pushed>>, settings' \in FormType
    PROVE  GithubInv'
  <1>1. PICK h : h = [pc |-> Enqueued, repo |-> r, branch |-> target, tree |-> tree,
                      read |-> {}, todo |-> {}, now |-> {}, lost |-> {}]
    OBVIOUS
  <1>2. h \in HookType /\ h.read = {} /\ h.todo = {} /\ h.pc # "create"
    BY <1>1 DEF HookType, Enqueued
  <1>3. hooks' = [hooks EXCEPT ![j] = h]
    BY <1>1 DEF Enqueue
  <1>4. HookHolds(h)'
    BY <1>2 DEF HookHolds
  <1>5. ContentsAreApart'
    BY DEF GithubInv, ContentsAreApart
  <1>6. pushed' \subseteq PushedType /\ \A v \in pushed' : v.doc \in docs
    BY DEF GithubInv, LinksTyped, GithubTypeOK
  <1> QED BY <1>2, <1>3, <1>4, <1>5, <1>6, HookMoves

\* A step of the worker that deploys nothing.
LEMMA HookGoesOn ==
    ASSUME GithubInv, NEW j \in GithubCalls, NEW CONSTANT h, h \in HookType, hooks' = [hooks EXCEPT ![j] = h],
           HookHolds(h), UNCHANGED <<consumer, linkVars, pushed>>
    PROVE  GithubInv'
  <1>1. HookHolds(h)' /\ ContentsAreApart'
    BY DEF linkVars, HookHolds, Accounted, Holds, GithubInv, ContentsAreApart
  <1>2. pushed' \subseteq PushedType /\ (\A v \in pushed' : v.doc \in docs) /\ settings' \in FormType
    BY DEF linkVars, GithubInv, LinksTyped, GithubTypeOK
  <1> QED BY <1>1, <1>2, HookMoves DEF linkVars

\* What is known of a webhook under way.
LEMMA HookKnown ==
    ASSUME GithubInv, NEW j \in GithubCalls, hooks[j].pc # "idle"
    PROVE  hooks[j] \in HookType /\ HookHolds(hooks[j])
  BY DEF GithubInv, LinksTyped, HooksHold, NoHook

\* A mapping is taken, left out or done with: what the webhook holds of the others stays.
LEMMA LoopSteps ==
    ASSUME GithubInv, NEW j \in GithubCalls, NEW m \in Mappings, UNCHANGED <<consumer, linkVars, pushed>>,
           \/ /\ hooks[j].pc = "next" /\ Take(j, m) /\ hooks[j].tree[m.path] # Absent /\ m \in hooks[j].todo
           \/ /\ hooks[j].pc = "next" /\ LeaveOut(j, m, "next") /\ m \in hooks[j].todo
           \/ /\ hooks[j].pc = "create" /\ LeaveOut(j, m, "next") /\ m \in hooks[j].now
    PROVE  GithubInv'
  <1>1. hooks[j] \in HookType /\ HookHolds(hooks[j])
    BY HookKnown
  <1>2. PICK o : o = hooks[j]
    OBVIOUS
  <1>3. o \in HookType /\ (\A x \in o.read : Accounted(o, x)) /\ (o.pc = "create" => \A x, y \in o.now : x = y)
    BY <1>1, <1>2 DEF HookHolds
  <1>4. CASE o.pc = "next" /\ Take(j, m) /\ o.tree[m.path] # Absent /\ m \in o.todo
    <2>1. PICK h : h = [o EXCEPT !.pc = "create", !.now = {m}, !.todo = @ \ {m}]
      OBVIOUS
    <2>a. {m} \subseteq Mappings /\ o.todo \ {m} \subseteq Mappings
      BY <1>3 DEF HookType
    <2>2. /\ h \in HookType /\ h.pc = "create" /\ h.now = {m} /\ h.todo = o.todo \ {m}
          /\ h.read = o.read /\ h.lost = o.lost /\ h.branch = o.branch /\ h.tree = o.tree
      BY <1>3, <2>1, <2>a DEF HookType
    <2>3. hooks' = [hooks EXCEPT ![j] = h]
      BY <1>2, <1>4, <2>1 DEF Take
    <2>4. \A x \in h.read : Accounted(h, x)
      BY <1>3, <1>4, <2>2 DEF Accounted
    <2>5. o.tree[m.path] \in Contents
      BY <1>3, <1>4 DEF HookType, Mappings
    <2> QED BY <2>2, <2>3, <2>4, <2>5, HookGoesOn DEF HookHolds
  <1>5. CASE LeaveOut(j, m, "next") /\ (o.pc = "create" => m \in o.now) /\ o.pc \in {"next", "create"}
    <2>1. PICK h : h = [o EXCEPT !.pc = "next", !.now = {}, !.todo = @ \ {m}, !.lost = @ \union {m}]
      OBVIOUS
    <2>a. o.lost \union {m} \subseteq Mappings /\ o.todo \ {m} \subseteq Mappings
      BY <1>3 DEF HookType
    <2>2. /\ h \in HookType /\ h.pc = "next" /\ h.now = {} /\ h.todo = o.todo \ {m}
          /\ h.read = o.read /\ h.lost = o.lost \union {m} /\ h.branch = o.branch /\ h.tree = o.tree
      BY <1>3, <2>1, <2>a DEF HookType
    <2>3. hooks' = [hooks EXCEPT ![j] = h]
      BY <1>2, <1>5, <2>1 DEF LeaveOut
    <2>4. \A x \in h.read : Accounted(h, x)
      BY <1>3, <1>5, <2>2 DEF Accounted
    <2> QED BY <2>2, <2>3, <2>4, HookGoesOn DEF HookHolds
  <1> QED BY <1>2, <1>4, <1>5

\* The mappings are read: all of them are to do.
LEMMA MappingsFound ==
    ASSUME GithubInv, NEW j \in GithubCalls, FindMappings(j)
    PROVE  GithubInv'
  <1>1. hooks[j] \in HookType
    BY HookKnown DEF FindMappings
  <1>2. PICK found : found = {[path |-> s[2], doc |-> mapped[s]] : s \in {t \in SpecFiles : t[1] = hooks[j].repo /\ mapped[t] # Absent}}
    OBVIOUS
  <1>3. found \subseteq Mappings
    <2> SUFFICES ASSUME NEW s \in SpecFiles, mapped[s] # Absent PROVE [path |-> s[2], doc |-> mapped[s]] \in Mappings
      BY <1>2
    <2>1. s[2] \in Paths /\ mapped[s] \in Docs
      BY DEF SpecFiles, GithubInv, LinksTyped
    <2> QED BY <2>1 DEF Mappings
  <1>4. PICK h : h = [hooks[j] EXCEPT !.pc = "next", !.read = found, !.todo = found]
    OBVIOUS
  <1>5. h \in HookType /\ h.pc = "next" /\ h.read = found /\ h.todo = found
    BY <1>1, <1>3, <1>4 DEF HookType
  <1>6. hooks' = [hooks EXCEPT ![j] = h] /\ UNCHANGED <<consumer, linkVars, pushed>>
    BY <1>2, <1>4 DEF FindMappings
  <1>7. HookHolds(h)
    BY <1>5 DEF HookHolds, Accounted
  <1> QED BY <1>5, <1>6, <1>7, HookGoesOn

\* The version is created, unless its doc is gone or holds the content already.
LEMMA VersionCreated ==
    ASSUME GithubInv, NEW j \in GithubCalls, CreateVersion(j)
    PROVE  GithubInv'
  <1>1. PICK o : o = hooks[j]
    OBVIOUS
  <1>2. o \in HookType /\ (\A x \in o.read : Accounted(o, x)) /\ o.pc = "create"
        /\ \A x, y \in o.now : x = y /\ o.tree[x.path] \in Contents
    BY <1>1, HookKnown DEF CreateVersion, HookHolds
  <1>3. PICK m \in o.now :
            \/ /\ m.doc \in docs /\ ~Holds(m.doc, o.branch, o.tree[m.path])
               /\ pushed' = pushed \union
                      {[doc |-> m.doc, branch |-> o.branch, content |-> o.tree[m.path], hook |-> j, path |-> m.path]}
               /\ Continue(j, "enqueue")
            \/ /\ m.doc \notin docs \/ Holds(m.doc, o.branch, o.tree[m.path])
               /\ Continue(j, "next") /\ UNCHANGED pushed
    BY <1>1 DEF CreateVersion
  <1>4. m \in Mappings /\ o.tree[m.path] \in Contents
    BY <1>2 DEF HookType
  <1>5. UNCHANGED <<consumer, docs, repoDoc, mapped, settings, edits>>
    BY DEF CreateVersion, linkVars
  <1>6. pushed \subseteq PushedType /\ (\A v \in pushed : v.doc \in docs) /\ ContentsAreApart
    BY DEF GithubInv, LinksTyped, GithubTypeOK
  <1>7. /\ pushed \subseteq pushed' /\ pushed' \subseteq PushedType /\ (\A v \in pushed' : v.doc \in docs)
        /\ ContentsAreApart'
        /\ m.doc \notin docs \/ Holds(m.doc, o.branch, o.tree[m.path])'
    <2>1. CASE UNCHANGED pushed
      <3>1. m.doc \notin docs \/ Holds(m.doc, o.branch, o.tree[m.path])
        <4>1. ASSUME m.doc \in docs,
                     pushed' = pushed \union
                         {[doc |-> m.doc, branch |-> o.branch, content |-> o.tree[m.path], hook |-> j, path |-> m.path]}
              PROVE  Holds(m.doc, o.branch, o.tree[m.path])
          <5>1. PICK n : n = [doc |-> m.doc, branch |-> o.branch, content |-> o.tree[m.path], hook |-> j, path |-> m.path]
            OBVIOUS
          <5>2. n.doc = m.doc /\ n.branch = o.branch /\ n.content = o.tree[m.path]
            BY <5>1
          <5>3. n \in pushed
            BY <4>1, <2>1, <5>1
          <5> QED BY <5>2, <5>3 DEF Holds
        <4> QED BY <1>3, <4>1
      <3> QED BY <1>6, <2>1, <3>1 DEF ContentsAreApart, Holds
    <2>2. CASE /\ m.doc \in docs /\ ~Holds(m.doc, o.branch, o.tree[m.path])
               /\ pushed' = pushed \union
                      {[doc |-> m.doc, branch |-> o.branch, content |-> o.tree[m.path], hook |-> j, path |-> m.path]}
      <3>1. PICK n : n = [doc |-> m.doc, branch |-> o.branch, content |-> o.tree[m.path], hook |-> j, path |-> m.path]
        OBVIOUS
      <3>2. n \in PushedType /\ n.doc = m.doc /\ n.branch = o.branch /\ n.content = o.tree[m.path]
        BY <1>2, <1>4, <3>1 DEF PushedType, Mappings, HookType
      <3>3. pushed' = pushed \union {n}
        BY <2>2, <3>1
      <3>4. \A v \in pushed : ~(v.doc = n.doc /\ v.branch = n.branch /\ v.content = n.content)
        BY <2>2, <3>2 DEF Holds
      <3>5. ContentsAreApart'
        BY <1>6, <3>3, <3>4 DEF ContentsAreApart
      <3> QED BY <1>6, <2>2, <3>2, <3>3, <3>5 DEF Holds
    <2> QED BY <1>3, <2>1, <2>2
  <1>8. PICK h : \E pc \in {"enqueue", "next"} : h = [o EXCEPT !.pc = pc, !.now = {}] /\ Continue(j, pc)
    BY <1>3
  <1>9. /\ h \in HookType /\ h.pc \in {"enqueue", "next"} /\ h.todo = o.todo
        /\ h.read = o.read /\ h.lost = o.lost /\ h.branch = o.branch /\ h.tree = o.tree
    BY <1>2, <1>8 DEF HookType
  <1>10. hooks' = [hooks EXCEPT ![j] = h]
    BY <1>1, <1>8 DEF Continue
  <1>11. \A x \in h.read : Accounted(h, x)'
    <2> SUFFICES ASSUME NEW x \in o.read PROVE Accounted(h, x)'
      BY <1>9
    <2>1. Accounted(o, x)
      BY <1>2
    <2>2. x \in o.now => x = m
      BY <1>2
    <2>3. Holds(x.doc, h.branch, h.tree[x.path]) => Holds(x.doc, h.branch, h.tree[x.path])'
      BY <1>7 DEF Holds
    <2> QED BY <1>5, <1>7, <1>9, <2>1, <2>2, <2>3 DEF Accounted
  <1>12. HookHolds(h)'
    BY <1>9, <1>11 DEF HookHolds
  <1>13. settings' \in FormType
    BY <1>5 DEF GithubInv, LinksTyped
  <1> QED BY <1>5, <1>7, <1>9, <1>10, <1>12, <1>13, HookMoves

\* Every step of the worker keeps the invariant.
LEMMA WorkerSteps ==
    ASSUME GithubInv, NEW j \in GithubCalls, ProcessPush(j)
    PROVE  GithubInv'
  <1>1. CASE FetchSpec(j)
    <2>1. hooks[j] \in HookType /\ hooks[j].pc = "next" /\ UNCHANGED <<consumer, linkVars, pushed>>
      BY <1>1, HookKnown DEF FetchSpec
    <2>2. PICK m \in hooks[j].todo : \/ hooks[j].tree[m.path] # Absent /\ Take(j, m)
                                     \/ LeaveOut(j, m, "next")
      BY <1>1 DEF FetchSpec
    <2>3. m \in Mappings
      BY <2>1 DEF HookType
    <2> QED BY <2>1, <2>2, <2>3, LoopSteps
  <1>2. CASE PushedCreateFails(j)
    <2>1. hooks[j] \in HookType /\ hooks[j].pc = "create" /\ UNCHANGED <<consumer, linkVars, pushed>>
      BY <1>2, HookKnown DEF PushedCreateFails
    <2>2. PICK m \in hooks[j].now : LeaveOut(j, m, "next")
      BY <1>2 DEF PushedCreateFails
    <2>3. m \in Mappings
      BY <2>1 DEF HookType
    <2> QED BY <2>1, <2>2, <2>3, LoopSteps
  <1>3. CASE EnqueuePushed(j)
    <2>1. hooks[j] \in HookType /\ HookHolds(hooks[j]) /\ hooks[j].pc = "enqueue" /\ UNCHANGED <<consumer, linkVars, pushed>>
      BY <1>3, HookKnown DEF EnqueuePushed
    <2>2. PICK h : h = [hooks[j] EXCEPT !.pc = "next", !.now = {}]
      OBVIOUS
    <2>3. /\ h \in HookType /\ h.pc = "next" /\ h.todo = hooks[j].todo /\ h.read = hooks[j].read
          /\ h.lost = hooks[j].lost /\ h.branch = hooks[j].branch /\ h.tree = hooks[j].tree
      BY <2>1, <2>2 DEF HookType
    <2>4. hooks' = [hooks EXCEPT ![j] = h]
      BY <1>3, <2>2 DEF EnqueuePushed, Continue
    <2>5. HookHolds(h)
      BY <2>1, <2>3 DEF HookHolds, Accounted
    <2> QED BY <2>1, <2>3, <2>4, <2>5, HookGoesOn
  <1>4. CASE EndPush(j)
    <2>1. hooks[j] \in HookType /\ HookHolds(hooks[j]) /\ hooks[j].pc = "next" /\ hooks[j].todo = {}
          /\ UNCHANGED <<consumer, linkVars, pushed>>
      BY <1>4, HookKnown DEF EndPush
    <2>2. PICK h : h = [hooks[j] EXCEPT !.pc = "done"]
      OBVIOUS
    <2>3. /\ h \in HookType /\ h.pc = "done" /\ h.todo = hooks[j].todo /\ h.read = hooks[j].read
          /\ h.lost = hooks[j].lost /\ h.branch = hooks[j].branch /\ h.tree = hooks[j].tree
      BY <2>1, <2>2 DEF HookType
    <2>4. hooks' = [hooks EXCEPT ![j] = h]
      BY <1>4, <2>2 DEF EndPush
    <2>5. HookHolds(h)
      BY <2>1, <2>3 DEF HookHolds, Accounted
    <2> QED BY <2>1, <2>3, <2>4, <2>5, HookGoesOn
  <1> QED BY <1>1, <1>2, <1>3, <1>4, MappingsFound, VersionCreated DEF ProcessPush

\* Every step of the system keeps it.
LEMMA GithubStepHolds == GithubInv /\ [GithubNext]_githubVars => GithubInv'
  <1> SUFFICES ASSUME GithubInv, [GithubNext]_githubVars PROVE GithubInv'
    OBVIOUS
  <1>1. CASE UNCHANGED githubVars
    <2>1. LinksTyped' /\ ContentsAreApart'
      BY <1>1 DEF githubVars, linkVars, GithubInv, LinksTyped, GithubTypeOK, Linked, ContentsAreApart
    <2>2. HooksHold'
      BY <1>1 DEF githubVars, linkVars, GithubInv, HooksHold, HookHolds, Accounted, Holds
    <2> QED BY <2>1, <2>2 DEF GithubInv
  <1>2. CASE SimulatePush
    <2>1. settings.pc = "simulate" /\ settings' \in FormType /\ UNCHANGED <<consumer, docs, repoDoc, mapped, edits, pushed>>
      BY <1>2 DEF SimulatePush, FormType
    <2>2. settings.spec[1] \in Repos
      BY <2>1 DEF GithubInv, LinksTyped, FormType, NoForm, SpecFiles
    <2>3. CASE \E j \in GithubCalls : Enqueue(j, settings.spec[1], "main", [p \in Paths |-> Absent])
      <3>1. [p \in Paths |-> Absent] \in [Paths -> Contents \union {Absent}] /\ "main" \in Targets
        BY DEF Targets
      <3> QED BY <2>1, <2>2, <2>3, <3>1, WebhookArrives
    <2>4. CASE UNCHANGED hooks
      <3>1. LinksTyped' /\ ContentsAreApart'
        BY <2>1, <2>4 DEF GithubInv, LinksTyped, GithubTypeOK, Linked, ContentsAreApart
      <3>2. HooksHold'
        BY <2>1, <2>4 DEF GithubInv, HooksHold, HookHolds, Accounted, Holds
      <3> QED BY <3>1, <3>2 DEF GithubInv
    <2> QED BY <1>2, <2>3, <2>4 DEF SimulatePush
  <1>3. ASSUME NEW j \in GithubCalls, ReceiveWebhook(j) PROVE GithubInv'
    <2>1. UNCHANGED <<consumer, docs, repoDoc, mapped, edits, pushed>> /\ settings' \in FormType
      BY <1>3 DEF ReceiveWebhook, linkVars, GithubInv, LinksTyped
    <2> QED BY <1>3, <2>1, WebhookArrives DEF ReceiveWebhook, Targets
  <1> QED BY <1>1, <1>2, <1>3, LinkActions, DocGoes, WorkerSteps DEF GithubNext

(* Links, mappings and versions keep their types: no mapping outlives its link or its doc, and
   no version its doc. *)
THEOREM GithubTypeCorrect == GithubSpec => []GithubTypeOK
  <1>1. GithubInv => GithubTypeOK
    BY DEF GithubInv, LinksTyped
  <1> QED BY <1>1, GithubInitHolds, GithubStepHolds, PTL DEF GithubSpec

(* A processed webhook has brought its file to every doc that it read a mapping for, but to
   those that are gone and those that failed, and no branch has two versions of one content: for
   any number of webhooks, links and mappings that change meanwhile (github-worker.ts:25-119).
   Each mapping that was read is still to do, taken, left out, or deployed. *)
THEOREM PushReachesEveryMappingHolds == GithubSpec => []PushReachesEveryMapping
  <1>1. GithubInv => PushReachesEveryMapping
    <2> SUFFICES ASSUME GithubInv PROVE PushReachesEveryMapping
      OBVIOUS
    <2>1. ASSUME NEW j \in GithubCalls, hooks[j].pc = "done", NEW m \in hooks[j].read \ hooks[j].lost, m.doc \in docs
          PROVE  Holds(m.doc, hooks[j].branch, hooks[j].tree[m.path])
      <3>1. HookHolds(hooks[j])
        BY <2>1, HookKnown
      <3> QED BY <2>1, <3>1 DEF HookHolds, Accounted
    <2> QED BY <2>1 DEF GithubInv, ContentsAreApart, PushReachesEveryMapping
  <1> QED BY <1>1, GithubInitHolds, GithubStepHolds, PTL DEF GithubSpec
=============================================================================
