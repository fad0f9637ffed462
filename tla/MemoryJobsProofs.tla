-------------------------- MODULE MemoryJobsProofs --------------------------
(***************************************************************************)
(* The safety of the jobs in the state database: of the memory jobs, for   *)
(* any number of sessions and threads and any length of a lease, and at    *)
(* the end of the agent jobs, for any items and any concurrency.           *)
(*                                                                         *)
(* Every change of an output moves the input watermark of the global job.  *)
(* So a consolidation that ends with the watermark it started from has     *)
(* missed nothing, and one that was overtaken leaves the job dirty.        *)
(***************************************************************************)
EXTENDS MemoryJobs, AgentJobs, FiniteSetTheorems, TLAPS

\* The columns of a row agree: a running job is in its last try or before, and
\* its success is not ahead of its input.
RowAgrees(j) ==
    /\ j.status = "running" => j.retries >= 1
    /\ j.status = "none" <=> j.input = 0
    /\ j.success <= j.input

RowsAgree == RowAgrees(global) /\ \A t \in Threads : RowAgrees(job[t])

\* Without a global row there is no output; with one its input is as new as any.
InputCoversOutputs ==
    /\ global.status = "none" => output = Nothing /\ picked = Nothing
    /\ \A t \in Threads : output[t] <= global.input

RunningIsDirty == global.status = "running" => Dirty

\* What the owner will store as success is no newer than the input; if it is
\* the input, then nothing has changed since the selection was read.
OwnerMissesNothing ==
    \A w \in Workers : Owns(w, global) =>
        /\ watermark[w] <= global.input
        /\ pc[w] \in {"agent", "succeed"} /\ watermark[w] = global.input =>
               \A t \in Threads : memoryMode[t] = "enabled" => selection[w][t] = output[t]

IInv ==
    /\ TypeOK
    /\ RowsAgree
    /\ RunningLimit
    /\ InputCoversOutputs
    /\ RunningIsDirty
    /\ OwnerMissesNothing
    /\ NothingMissed

\* Steps that leave the database, the clock and the consolidating workers alone
\* are not told apart by the invariant's parts about them.
WorkStep(w, t) == SucceedStage1(w, t) \/ SucceedStage1NoOutput(w, t) \/ FailStage1(w, t)

-----------------------------------------------------------------------------
(* Rows *)

\* An enqueue leaves a row in the table whose input is greater than it was, is at
\* least what was asked for, and is ahead of its success.
LEMMA EnqueuedRow ==
    ASSUME global \in Jobs, RowAgrees(global), NEW input \in Nat \ {0}
    PROVE  /\ Enqueued(input) \in Jobs
           /\ RowAgrees(Enqueued(input))
           /\ Enqueued(input).status # "none"
           /\ Enqueued(input).input > global.input
           /\ Enqueued(input).input >= input
           /\ Enqueued(input).input > Enqueued(input).success
           /\ global.status # "none" => Enqueued(input).success = global.success
           /\ global.status = "none" => Enqueued(input).success = 0
           /\ \A w \in Workers : Owns(w, Enqueued(input)) => Owns(w, global)
<1>0. RetryLimit \in Nat /\ RetryLimit >= 1
  BY ConstantsAssumption
<1>1. CASE global.status = "none"
  <2>1. Enqueued(input) = [NoJob EXCEPT !.status = "pending", !.retries = RetryLimit, !.input = input]
    BY <1>1 DEF Enqueued
  <2>2. Enqueued(input) =
            [status |-> "pending", owner |-> NoWorker, lease |-> 0, retryAt |-> 0,
             retries |-> RetryLimit, input |-> input, success |-> 0]
    BY <2>1 DEF NoJob
  <2>3. Enqueued(input) \in Jobs
    BY <1>0, <2>2 DEF Jobs, Statuses
  <2>4. global.input = 0
    BY <1>1 DEF RowAgrees
  <2> QED
    BY <1>0, <1>1, <2>2, <2>3, <2>4 DEF RowAgrees, Owns
<1>2. CASE global.status # "none"
  <2> DEFINE s == IF global.status = "running" THEN global.status ELSE "pending"
             a == IF global.status = "running" THEN global.retryAt ELSE 0
             r == IF global.retries < RetryLimit THEN RetryLimit ELSE global.retries
             i == IF input > global.input THEN input ELSE global.input + 1
  <2>1. Enqueued(input) = [global EXCEPT !.status = s, !.retryAt = a, !.retries = r, !.input = i]
    BY <1>2 DEF Enqueued
  <2>2. /\ s \in Statuses \ {"none"} /\ a \in Nat /\ r \in Nat /\ i \in Nat
        /\ r >= 1 /\ i > global.input /\ i >= input
        /\ s = "running" => global.status = "running"
    BY <1>0, <1>2 DEF Jobs, Statuses
  <2> HIDE DEF s, a, r, i
  <2>3. Enqueued(input) \in Jobs
    BY <2>1, <2>2 DEF Jobs, Statuses
  <2>4. /\ Enqueued(input).status = s /\ Enqueued(input).input = i /\ Enqueued(input).retries = r
        /\ Enqueued(input).success = global.success /\ Enqueued(input).owner = global.owner
    BY <2>1 DEF Jobs
  <2> QED
    BY <1>2, <2>2, <2>3, <2>4 DEF Jobs, Statuses, RowAgrees, Owns
<1> QED
  BY <1>1, <1>2

LEMMA ClaimedRow ==
    ASSUME NEW j \in Jobs, RowAgrees(j), NEW w \in Workers, NEW source \in Nat \ {0},
           now \in Nat, j.success < source, Claimable(j, source)
    PROVE  Claimed(j, w, source) \in Jobs /\ RowAgrees(Claimed(j, w, source))
<1> DEFINE r == IF source > j.input THEN RetryLimit ELSE j.retries
           l == now + LeaseSeconds
<1>1. r \in Nat /\ r >= 1 /\ l \in Nat
  BY ConstantsAssumption DEF Claimable, Jobs, RowAgrees
<1>2. Claimed(j, w, source) = [j EXCEPT !.status = "running", !.owner = w, !.lease = l,
                                        !.retryAt = 0, !.retries = r, !.input = source]
  BY DEF Claimed
<1> HIDE DEF r, l
<1>3. Claimed(j, w, source) \in Jobs
  <2>1. ASSUME NEW m \in Nat, NEW n \in Nat
        PROVE  [j EXCEPT !.status = "running", !.owner = w, !.lease = m,
                         !.retryAt = 0, !.retries = n, !.input = source] \in Jobs
    BY DEF Jobs, Statuses
  <2> QED
    BY <1>1, <1>2, <2>1
<1>4. RowAgrees(Claimed(j, w, source))
  BY <1>1, <1>2 DEF Jobs, RowAgrees
<1> QED
  BY <1>3, <1>4

LEMMA FinishedRow ==
    ASSUME NEW j \in Jobs, RowAgrees(j), j.status = "running", now \in Nat
    PROVE  /\ Succeeded(j) \in Jobs /\ RowAgrees(Succeeded(j))
           /\ Failed(j) \in Jobs /\ RowAgrees(Failed(j))
           /\ Succeeded(j).success >= j.success /\ Failed(j).success = j.success
           /\ Failed(j).input = j.input
           /\ ~Live(Succeeded(j)) /\ ~Live(Failed(j))
<1>1. Succeeded(j) \in Jobs
  BY DEF Succeeded, Jobs, Statuses
<1>2. /\ RowAgrees(Succeeded(j)) /\ Succeeded(j).success >= j.success
      /\ ~Live(Succeeded(j))
  BY DEF Succeeded, Jobs, RowAgrees, Live
<1>3. now + RetryDelay \in Nat /\ j.retries - 1 \in Nat
  BY ConstantsAssumption DEF RowAgrees, Jobs
<1>4. Failed(j) \in Jobs
  <2>1. ASSUME NEW m \in Nat, NEW n \in Nat
        PROVE  [j EXCEPT !.status = "error", !.lease = 0, !.retryAt = m, !.retries = n] \in Jobs
    BY DEF Jobs, Statuses
  <2> QED
    BY <1>3, <2>1, Zenon DEF Failed
<1>5. /\ Failed(j).status = "error" /\ Failed(j).success = j.success
      /\ Failed(j).input = j.input
  BY DEF Failed, Jobs
<1>6. RowAgrees(Failed(j)) /\ ~Live(Failed(j))
  BY <1>5 DEF RowAgrees, Live
<1> QED
  BY <1>1, <1>2, <1>4, <1>5, <1>6

LEMMA LeasedRow ==
    ASSUME NEW j \in Jobs, RowAgrees(j), NEW w \in Workers, NEW l \in Nat, j.retries > 0, j.status # "none"
    PROVE  /\ [j EXCEPT !.lease = l] \in Jobs /\ RowAgrees([j EXCEPT !.lease = l])
           /\ [j EXCEPT !.status = "running", !.owner = w, !.lease = l, !.retryAt = 0] \in Jobs
           /\ RowAgrees([j EXCEPT !.status = "running", !.owner = w, !.lease = l, !.retryAt = 0])
<1>1. [j EXCEPT !.lease = l] \in Jobs
  BY DEF Jobs
<1>2. RowAgrees([j EXCEPT !.lease = l])
  BY DEF Jobs, RowAgrees
<1>3. [j EXCEPT !.status = "running", !.owner = w, !.lease = l, !.retryAt = 0] \in Jobs
  BY DEF Jobs, Statuses
<1>4. RowAgrees([j EXCEPT !.status = "running", !.owner = w, !.lease = l, !.retryAt = 0])
  <2> DEFINE k == [j EXCEPT !.status = "running", !.owner = w, !.lease = l, !.retryAt = 0]
  <2>1. k.status = "running" /\ k.retries = j.retries /\ k.input = j.input /\ k.success = j.success
    BY DEF Jobs
  <2> HIDE DEF k
  <2>2. RowAgrees(k)
    BY <2>1 DEF RowAgrees, Jobs
  <2> QED
    BY <2>2 DEF k
<1> QED
  BY <1>1, <1>2, <1>3, <1>4

LEMMA ConsolidatedRow ==
    ASSUME NEW j \in Jobs, RowAgrees(j), NEW s \in Nat, s <= j.input, j.status # "none"
    PROVE  /\ [j EXCEPT !.status = "done", !.lease = 0, !.success = s] \in Jobs
           /\ RowAgrees([j EXCEPT !.status = "done", !.lease = 0, !.success = s])
<1>1. [j EXCEPT !.status = "done", !.lease = 0, !.success = s] \in Jobs
  BY DEF Jobs, Statuses
<1>2. RowAgrees([j EXCEPT !.status = "done", !.lease = 0, !.success = s])
  <2> DEFINE k == [j EXCEPT !.status = "done", !.lease = 0, !.success = s]
  <2>1. k.status = "done" /\ k.input = j.input /\ k.success = s
    BY DEF Jobs
  <2> HIDE DEF k
  <2>2. RowAgrees(k)
    BY <2>1 DEF RowAgrees, Jobs
  <2> QED
    BY <2>2 DEF k
<1> QED
  BY <1>1, <1>2

LEMMA EmptyRow == NoJob \in Jobs /\ RowAgrees(NoJob) /\ ~Live(NoJob)
  BY DEF NoJob, Jobs, Statuses, RowAgrees, Live

-----------------------------------------------------------------------------
(* Types and rows *)

LEMMA TypeInit == Init => TypeOK /\ RowsAgree
  BY EmptyRow DEF Init, TypeOK, RowsAgree, Nothing, PipelinePCs

LEMMA TypeStep == IInv /\ [Next]_vars => TypeOK' /\ RowsAgree'
<1> SUFFICES ASSUME IInv, [Next]_vars PROVE TypeOK' /\ RowsAgree'
  OBVIOUS
<1> USE DEF IInv, TypeOK, RowsAgree
<1>1. CASE Tick
  BY <1>1 DEF Tick, threadVars, dbVars, workerVars
<1>2. ASSUME NEW t \in Threads, Touch(t) PROVE TypeOK' /\ RowsAgree'
  BY <1>2 DEF Touch, dbVars, workerVars
<1>3. ASSUME NEW t \in Threads, MarkPolluted(t) PROVE TypeOK' /\ RowsAgree'
  <2>1. global' \in Jobs /\ RowAgrees(global')
    BY <1>3, EnqueuedRow DEF MarkPolluted
  <2> QED
    BY <1>3, <2>1 DEF MarkPolluted, workerVars
<1>4. ASSUME NEW disable \in BOOLEAN, ClearMemoryData(disable) PROVE TypeOK' /\ RowsAgree'
  BY <1>4, EmptyRow DEF ClearMemoryData, workerVars, Nothing
<1>5. ASSUME NEW w \in Workers, ScanThreads(w) PROVE TypeOK' /\ RowsAgree'
  BY <1>5 DEF ScanThreads, threadVars, dbVars, PipelinePCs
<1>6. ASSUME NEW w \in Workers, NEW t \in Threads, ClaimStage1(w, t) PROVE TypeOK' /\ RowsAgree'
  <2> DEFINE source == scanned[w][t]
  <2>1. source \in Nat \ {0}
    BY <1>6 DEF ClaimStage1, Candidate
  <2>2. CASE UNCHANGED <<job, held>>
    BY <1>6, <2>2 DEF ClaimStage1, AfterClaim, threadVars, Nothing
  <2>3. CASE /\ job' = [job EXCEPT ![t] = Claimed(@, w, source)]
             /\ held' = [held EXCEPT ![w][t] = source]
             /\ OutOfDate(t, source) /\ Claimable(job[t], source)
    <3>1. Claimed(job[t], w, source) \in Jobs /\ RowAgrees(Claimed(job[t], w, source))
      BY <2>1, <2>3, ClaimedRow DEF OutOfDate
    <3>2. scanned' \in [Workers -> [Threads -> Nat]]
      BY <1>6 DEF ClaimStage1, AfterClaim, Nothing
    <3>3. held' \in [Workers -> [Threads -> Nat]]
      BY <2>1, <2>3
    <3> QED
      BY <1>6, <2>3, <3>1, <3>2, <3>3 DEF ClaimStage1, AfterClaim, threadVars
  <2> QED
    BY <1>6, <2>2, <2>3 DEF ClaimStage1, AfterClaim
<1>7. ASSUME NEW w \in Workers, NEW t \in Threads, WorkStep(w, t) PROVE TypeOK' /\ RowsAgree'
  <2>1. CASE ~Owns(w, job[t])
    BY <1>7, <2>1 DEF WorkStep, SucceedStage1, SucceedStage1NoOutput, FailStage1, LetGo, dbVars, threadVars
  <2>2. CASE Owns(w, job[t])
    <3>1. /\ Succeeded(job[t]) \in Jobs /\ RowAgrees(Succeeded(job[t]))
          /\ Failed(job[t]) \in Jobs /\ RowAgrees(Failed(job[t]))
      BY <2>2, FinishedRow DEF Owns
    <3>2. job' \in [Threads -> Jobs] /\ \A u \in Threads : RowAgrees(job'[u])
      BY <1>7, <2>2, <3>1 DEF WorkStep, SucceedStage1, SucceedStage1NoOutput, FailStage1
    <3>3. held[w][t] \in Nat \ {0}
      BY <1>7 DEF WorkStep, SucceedStage1, SucceedStage1NoOutput, FailStage1, Working
    <3>4. job[t].input \in Nat \ {0}
      BY <2>2 DEF Owns, RowAgrees, Jobs
    <3>5. Enqueued(held[w][t]) \in Jobs /\ RowAgrees(Enqueued(held[w][t]))
      BY <3>3, EnqueuedRow
    <3>6. Enqueued(job[t].input) \in Jobs /\ RowAgrees(Enqueued(job[t].input))
      BY <3>4, EnqueuedRow
    <3>7. global' \in Jobs /\ RowAgrees(global')
      BY <1>7, <2>2, <3>5, <3>6, Zenon DEF WorkStep, SucceedStage1, SucceedStage1NoOutput, FailStage1
    <3>8. output' \in [Threads -> Nat] /\ picked' \in [Threads -> Nat]
      <4>1. CASE SucceedStage1(w, t)
        BY <2>2, <3>3, <4>1 DEF SucceedStage1
      <4>2. CASE SucceedStage1NoOutput(w, t)
        <5>1. output' = [output EXCEPT ![t] = 0] /\ picked' = [picked EXCEPT ![t] = 0]
          BY <2>2, <4>2, Zenon DEF SucceedStage1NoOutput
        <5> QED
          BY <5>1
      <4>3. CASE FailStage1(w, t)
        BY <4>3 DEF FailStage1
      <4> QED
        BY <1>7, <4>1, <4>2, <4>3 DEF WorkStep
    <3>9. LetGo(w, t)
      BY <1>7 DEF WorkStep, SucceedStage1, SucceedStage1NoOutput, FailStage1
    <3> QED
      BY <3>2, <3>7, <3>8, <3>9 DEF LetGo, threadVars
  <2> QED
    BY <2>1, <2>2
<1>8. ASSUME NEW w \in Workers, ClaimGlobal(w) PROVE TypeOK' /\ RowsAgree'
  <2>1. global' \in Jobs /\ RowAgrees(global')
    <3>1. now + LeaseSeconds \in Nat
      BY ConstantsAssumption
    <3>2. CASE global.retries > 0 /\ global.input > global.success
      <4>1. /\ [global EXCEPT !.status = "running", !.owner = w,
                              !.lease = now + LeaseSeconds, !.retryAt = 0] \in Jobs
            /\ RowAgrees([global EXCEPT !.status = "running", !.owner = w,
                              !.lease = now + LeaseSeconds, !.retryAt = 0])
        <5>1. global.status # "none"
          BY <3>2 DEF RowAgrees, Jobs
        <5> QED
          BY <3>1, <3>2, <5>1, LeasedRow
      <4> QED
        BY <1>8, <4>1, Zenon DEF ClaimGlobal
    <3> QED
      BY <1>8, <3>2 DEF ClaimGlobal
  <2>2. global.input \in Nat
    BY DEF Jobs
  <2> QED
    BY <1>8, <2>1, <2>2 DEF ClaimGlobal, threadVars, PipelinePCs
<1>9. ASSUME NEW w \in Workers, SelectInputs(w) PROVE TypeOK' /\ RowsAgree'
  <2>1. Inputs \in [Threads -> Nat]
    BY DEF Inputs
  <2> QED
    BY <1>9, <2>1 DEF SelectInputs, threadVars, dbVars, PipelinePCs
<1>10. ASSUME NEW w \in Workers, Heartbeat(w) PROVE TypeOK' /\ RowsAgree'
  <2>1. global' \in Jobs /\ RowAgrees(global')
    <3>1. now + LeaseSeconds \in Nat /\ global.retries > 0 /\ global.status # "none"
      BY <1>10, ConstantsAssumption DEF Heartbeat, Owns, RowAgrees, Jobs
    <3> QED
      BY <1>10, <3>1, LeasedRow DEF Heartbeat
  <2> QED
    BY <1>10, <2>1 DEF Heartbeat, threadVars, workerVars
<1>11. ASSUME NEW w \in Workers, SucceedGlobal(w) PROVE TypeOK' /\ RowsAgree'
  <2>1. global' \in Jobs /\ RowAgrees(global')
    <3> DEFINE s == IF watermark[w] > global.success THEN watermark[w] ELSE global.success
    <3>1. CASE Owns(w, global)
      <4>1. s \in Nat /\ s <= global.input /\ global.status # "none"
        BY <3>1 DEF OwnerMissesNothing, RowAgrees, Jobs, Owns
      <4>2. global' = [global EXCEPT !.status = "done", !.lease = 0, !.success = s]
        BY <1>11, <3>1 DEF SucceedGlobal
      <4> QED
        BY <4>1, <4>2, ConsolidatedRow
    <3> QED
      BY <1>11, <3>1 DEF SucceedGlobal
  <2> QED
    BY <1>11, <2>1 DEF SucceedGlobal, EndPipeline, threadVars, PipelinePCs, Nothing
<1>12. ASSUME NEW w \in Workers, FailGlobal(w) PROVE TypeOK' /\ RowsAgree'
  <2>1. global' \in Jobs /\ RowAgrees(global')
    BY <1>12, FinishedRow DEF FailGlobal
  <2> QED
    BY <1>12, <2>1 DEF FailGlobal, EndPipeline, threadVars, PipelinePCs, Nothing
<1>13. ASSUME NEW w \in Workers, Crash(w) PROVE TypeOK' /\ RowsAgree'
  BY <1>13 DEF Crash, EndPipeline, threadVars, dbVars, PipelinePCs, Nothing
<1>14. CASE UNCHANGED vars
  BY <1>14 DEF vars, threadVars, dbVars, workerVars
<1> QED
  BY <1>1, <1>2, <1>3, <1>4, <1>5, <1>6, <1>7, <1>8, <1>9, <1>10, <1>11, <1>12, <1>13, <1>14
     DEF Next, Stage1, Consolidation, WorkStep
-----------------------------------------------------------------------------
(* The limit of running jobs *)

LEMMA RunningJobsAreFinite == IsFiniteSet(RunningJobs) /\ Cardinality(RunningJobs) \in Nat
<1>1. IsFiniteSet(RunningJobs)
  BY ConstantsAssumption, FS_Subset DEF RunningJobs
<1> QED
  BY <1>1, FS_CardinalityType

LEMMA OneMore ==
    ASSUME NEW S, NEW x, IsFiniteSet(S)
    PROVE  /\ Cardinality(S \cup {x}) \in Nat
           /\ Cardinality(S \cup {x}) <= Cardinality(S) + 1
           /\ IsFiniteSet(S \cup {x})
<1>1. Cardinality(S) \in Nat
  BY FS_CardinalityType
<1>2. /\ IsFiniteSet(S \cup {x})
      /\ Cardinality(S \cup {x}) = IF x \in S THEN Cardinality(S) ELSE Cardinality(S) + 1
  BY FS_AddElement
<1>3. x \in S => S \cup {x} = S
  OBVIOUS
<1> QED
  BY <1>1, <1>2, <1>3

LEMMA FewerRun ==
    ASSUME RunningLimit, RunningJobs' \subseteq RunningJobs
    PROVE  RunningLimit'
<1>1. Cardinality(RunningJobs') \in Nat /\ Cardinality(RunningJobs') <= Cardinality(RunningJobs)
  BY RunningJobsAreFinite, FS_Subset, FS_CardinalityType
<1> QED
  BY <1>1, RunningJobsAreFinite, ConstantsAssumption DEF RunningLimit

LEMMA LimitStep == IInv /\ [Next]_vars => RunningLimit'
<1> SUFFICES ASSUME IInv, [Next]_vars PROVE RunningLimit'
  OBVIOUS
<1> USE DEF IInv
<1>1. CASE Tick
  <2>1. \A t \in Threads : Live(job[t])' => Live(job[t])
    BY <1>1 DEF Tick, dbVars, Live, TypeOK, Jobs
  <2> QED
    BY <2>1, FewerRun DEF RunningJobs
<1>2. CASE UNCHANGED <<now, job>>
  <2>1. RunningJobs' \subseteq RunningJobs
    BY <1>2 DEF RunningJobs, Live
  <2> QED
    BY <2>1, FewerRun
<1>3. ASSUME NEW disable \in BOOLEAN, ClearMemoryData(disable) PROVE RunningLimit'
  <2>1. \A t \in Threads : ~Live(job[t])'
    BY <1>3, EmptyRow DEF ClearMemoryData, Live, NoJob
  <2> QED
    BY <2>1, FewerRun DEF RunningJobs
<1>4. ASSUME NEW w \in Workers, NEW t \in Threads, ClaimStage1(w, t) PROVE RunningLimit'
  <2>1. CASE job' = job
    BY <1>2, <1>4, <2>1 DEF ClaimStage1, AfterClaim
  <2>2. CASE /\ job' = [job EXCEPT ![t] = Claimed(@, w, scanned[w][t])]
             /\ Cardinality(RunningJobs) < MaxClaimed
    <3>1. now' = now
      BY <1>4 DEF ClaimStage1, AfterClaim
    <3>2. RunningJobs' \subseteq RunningJobs \cup {t}
      BY <2>2, <3>1 DEF RunningJobs, Live, TypeOK
    <3>3. /\ Cardinality(RunningJobs \cup {t}) \in Nat
          /\ Cardinality(RunningJobs \cup {t}) <= Cardinality(RunningJobs) + 1
          /\ IsFiniteSet(RunningJobs \cup {t})
      BY RunningJobsAreFinite, OneMore
    <3>4. /\ Cardinality(RunningJobs') \in Nat
          /\ Cardinality(RunningJobs') <= Cardinality(RunningJobs \cup {t})
      BY <3>2, <3>3, FS_Subset, FS_CardinalityType
    <3> QED
      BY <2>2, <3>3, <3>4, RunningJobsAreFinite, ConstantsAssumption DEF RunningLimit
  <2> QED
    BY <1>4, <2>1, <2>2 DEF ClaimStage1, AfterClaim
<1>5. ASSUME NEW w \in Workers, NEW t \in Threads, WorkStep(w, t) PROVE RunningLimit'
  <2>1. now' = now
    BY <1>5 DEF WorkStep, SucceedStage1, SucceedStage1NoOutput, FailStage1, LetGo
  <2>2. CASE ~Owns(w, job[t])
    BY <1>2, <1>5, <2>1, <2>2 DEF WorkStep, SucceedStage1, SucceedStage1NoOutput, FailStage1, dbVars
  <2>3. CASE Owns(w, job[t])
    <3>1. ~Live(Succeeded(job[t])) /\ ~Live(Failed(job[t]))
      BY <2>3, FinishedRow DEF Owns, TypeOK, RowsAgree
    <3>2. job' = [job EXCEPT ![t] = Succeeded(@)] \/ job' = [job EXCEPT ![t] = Failed(@)]
      BY <1>5, <2>3 DEF WorkStep, SucceedStage1, SucceedStage1NoOutput, FailStage1
    <3>3. \A u \in Threads : Live(job[u])' => Live(job[u])
      BY <2>1, <3>1, <3>2 DEF Live, TypeOK
    <3> QED
      BY <3>3, FewerRun DEF RunningJobs
  <2> QED
    BY <2>2, <2>3
<1> QED
  BY <1>1, <1>2, <1>3, <1>4, <1>5
     DEF Next, Stage1, Consolidation, WorkStep, Touch, MarkPolluted, ScanThreads, ClaimGlobal,
         SelectInputs, Heartbeat, SucceedGlobal, FailGlobal, Crash, EndPipeline, vars, dbVars

-----------------------------------------------------------------------------
(* The baseline of the consolidation *)

GlobalInv == InputCoversOutputs /\ RunningIsDirty /\ OwnerMissesNothing /\ NothingMissed

\* A step that adds work for the consolidation: whatever it did to the outputs,
\* the job is dirty and no owner can make it clean.
LEMMA EnqueueStep ==
    ASSUME IInv, NEW x \in Nat \ {0}, global' = Enqueued(x),
           UNCHANGED <<pc, watermark, selection>>,
           output' \in [Threads -> Nat],
           \A t \in Threads : output'[t] <= output[t] \/ output'[t] <= x
    PROVE  GlobalInv'
<1> USE DEF IInv, TypeOK
<1>1. /\ global'.status # "none" /\ global'.input > global.input /\ global'.input >= x
      /\ global'.input > global'.success /\ global' \in Jobs
      /\ \A w \in Workers : Owns(w, global') => Owns(w, global)
  BY EnqueuedRow DEF RowsAgree
<1>2. global.input \in Nat /\ global'.input \in Nat /\ global'.success \in Nat
  BY <1>1 DEF Jobs
<1>3. InputCoversOutputs'
  <2>1. ASSUME NEW t \in Threads PROVE output'[t] <= global'.input
    <3>1. output[t] <= global.input /\ output[t] \in Nat /\ output'[t] \in Nat
      BY DEF InputCoversOutputs
    <3> QED
      BY <1>1, <1>2, <3>1
  <2> QED
    BY <1>1, <2>1 DEF InputCoversOutputs
<1>4. Dirty'
  BY <1>1 DEF Dirty
<1>5. OwnerMissesNothing'
  BY <1>1, <1>2 DEF OwnerMissesNothing
<1> QED
  BY <1>3, <1>4, <1>5 DEF GlobalInv, RunningIsDirty, NothingMissed

\* What a step that adds no work leaves of a pipeline.
PipelineGoesOn(w) ==
    \/ pc'[w] = pc[w] /\ watermark'[w] = watermark[w] /\ selection'[w] = selection[w]
    \/ pc'[w] \notin {"agent", "succeed"} /\ watermark'[w] \in {0, watermark[w]}

LEMMA QuietStep ==
    ASSUME IInv,
           global'.input = global.input, global'.success = global.success,
           global'.status = "none" => global.status = "none",
           global'.status = "running" => global.status = "running",
           \A w \in Workers : Owns(w, global') => Owns(w, global),
           output' = output,
           picked' = picked \/ \E t \in Threads : picked' = [picked EXCEPT ![t] = 0] /\ output[t] = 0,
           \A t \in Threads : memoryMode'[t] = "enabled" => memoryMode[t] = "enabled",
           \A w \in Workers : PipelineGoesOn(w)
    PROVE  GlobalInv'
<1> USE DEF IInv, TypeOK
<1>1. InputCoversOutputs'
  BY DEF InputCoversOutputs, Nothing
<1>2. RunningIsDirty'
  BY DEF RunningIsDirty, Dirty
<1>3. OwnerMissesNothing'
  <2> SUFFICES ASSUME NEW w \in Workers, Owns(w, global')
               PROVE  /\ watermark'[w] <= global.input
                      /\ pc'[w] \in {"agent", "succeed"} /\ watermark'[w] = global.input =>
                             \A t \in Threads : memoryMode'[t] = "enabled" => selection'[w][t] = output[t]
    BY DEF OwnerMissesNothing, Owns
  <2>1. /\ watermark[w] <= global.input /\ 0 <= global.input
        /\ pc[w] \in {"agent", "succeed"} /\ watermark[w] = global.input =>
               \A t \in Threads : memoryMode[t] = "enabled" => selection[w][t] = output[t]
    BY DEF OwnerMissesNothing, Jobs
  <2> QED
    BY <2>1 DEF PipelineGoesOn
<1>4. NothingMissed'
  BY DEF NothingMissed, Dirty
<1> QED
  BY <1>1, <1>2, <1>3, <1>4 DEF GlobalInv

LEMMA GlobalStep == IInv /\ [Next]_vars => GlobalInv'
<1> SUFFICES ASSUME IInv, [Next]_vars PROVE GlobalInv'
  OBVIOUS
<1> USE DEF IInv, TypeOK
<1>1. CASE UNCHANGED <<memoryMode, output, picked, global, pc, selection, watermark>>
  BY <1>1, QuietStep DEF PipelineGoesOn
<1>2. ASSUME NEW t \in Threads, MarkPolluted(t) PROVE GlobalInv'
  <2>1. UNCHANGED <<output, picked, pc, selection, watermark>>
    BY <1>2 DEF MarkPolluted, workerVars
  <2>2. CASE picked[t] # 0
    BY <1>2, <2>1, <2>2, EnqueueStep DEF MarkPolluted
  <2>3. CASE picked[t] = 0
    <3>1. UNCHANGED global
      BY <1>2, <2>3 DEF MarkPolluted
    <3>2. \A u \in Threads : memoryMode'[u] = "enabled" => memoryMode[u] = "enabled"
      BY <1>2 DEF MarkPolluted
    <3> QED
      BY <2>1, <3>1, <3>2, QuietStep DEF PipelineGoesOn
  <2> QED
    BY <2>2, <2>3
<1>3. ASSUME NEW disable \in BOOLEAN, ClearMemoryData(disable) PROVE GlobalInv'
  <2>1. global' = NoJob /\ output' = Nothing /\ picked' = Nothing
    BY <1>3 DEF ClearMemoryData
  <2> QED
    BY <2>1 DEF GlobalInv, InputCoversOutputs, RunningIsDirty, OwnerMissesNothing, NothingMissed,
                NoJob, Owns, Nothing
<1>4. ASSUME NEW w \in Workers, ScanThreads(w) PROVE GlobalInv'
  <2>1. UNCHANGED <<memoryMode, output, picked, global, selection, watermark>>
    BY <1>4 DEF ScanThreads, threadVars, dbVars
  <2>2. \A v \in Workers : PipelineGoesOn(v)
    BY <1>4 DEF ScanThreads, PipelineGoesOn
  <2> QED
    BY <2>1, <2>2, QuietStep
<1>5. ASSUME NEW w \in Workers, NEW t \in Threads, ClaimStage1(w, t) PROVE GlobalInv'
  BY <1>1, <1>5 DEF ClaimStage1, AfterClaim, threadVars
<1>6. ASSUME NEW w \in Workers, NEW t \in Threads, WorkStep(w, t) PROVE GlobalInv'
  <2>1. UNCHANGED <<memoryMode, pc, selection, watermark>>
    BY <1>6 DEF WorkStep, SucceedStage1, SucceedStage1NoOutput, FailStage1, LetGo, threadVars
  <2>2. held[w][t] \in Nat \ {0}
    BY <1>6 DEF WorkStep, SucceedStage1, SucceedStage1NoOutput, FailStage1, Working
  <2>3. CASE ~Owns(w, job[t])
    BY <1>1, <1>6, <2>1, <2>3
       DEF WorkStep, SucceedStage1, SucceedStage1NoOutput, FailStage1, dbVars
  <2>4. CASE FailStage1(w, t)
    BY <1>1, <2>1, <2>4 DEF FailStage1
  <2>5. CASE Owns(w, job[t]) /\ SucceedStage1(w, t)
    <3>1. global' = Enqueued(held[w][t])
      BY <2>5, Zenon DEF SucceedStage1
    <3>2. output' = [output EXCEPT ![t] = IF held[w][t] >= @ THEN held[w][t] ELSE @]
      BY <2>5, Zenon DEF SucceedStage1
    <3>3. /\ output' \in [Threads -> Nat]
          /\ \A u \in Threads : output'[u] <= output[u] \/ output'[u] <= held[w][t]
      BY <2>2, <3>2
    <3> QED
      BY <2>1, <2>2, <3>1, <3>3, EnqueueStep
  <2>6. CASE Owns(w, job[t]) /\ SucceedStage1NoOutput(w, t)
    <3>1. output' = [output EXCEPT ![t] = 0] /\ picked' = [picked EXCEPT ![t] = 0]
      BY <2>6, Zenon DEF SucceedStage1NoOutput
    <3>2. CASE output[t] # 0
      <4>1. global' = Enqueued(job[t].input)
        BY <2>6, <3>2 DEF SucceedStage1NoOutput
      <4>2. job[t].input \in Nat \ {0}
        BY <2>6 DEF Owns, RowsAgree, RowAgrees, Jobs
      <4>3. output' \in [Threads -> Nat] /\ \A u \in Threads : output'[u] <= output[u]
        BY <3>1
      <4> QED
        BY <2>1, <4>1, <4>2, <4>3, EnqueueStep
    <3>3. CASE output[t] = 0
      <4>1. UNCHANGED global /\ output' = output
        BY <2>6, <3>1, <3>3 DEF SucceedStage1NoOutput
      <4> QED
        BY <2>1, <3>1, <3>3, <4>1, QuietStep DEF PipelineGoesOn
    <3> QED
      BY <3>2, <3>3
  <2> QED
    BY <1>6, <2>3, <2>4, <2>5, <2>6 DEF WorkStep
<1>7. ASSUME NEW w \in Workers, ClaimGlobal(w) PROVE GlobalInv'
  <2>1. UNCHANGED <<memoryMode, output, picked, selection>>
    BY <1>7 DEF ClaimGlobal, threadVars
  <2>2. CASE UNCHANGED <<global, watermark>> /\ pc' = [pc EXCEPT ![w] = "off"]
    <3>1. ASSUME NEW v \in Workers PROVE PipelineGoesOn(v)
      <4>1. CASE v = w
        BY <2>2, <4>1 DEF PipelineGoesOn
      <4>2. CASE v # w
        BY <2>1, <2>2, <4>2 DEF PipelineGoesOn
      <4> QED
        BY <4>1, <4>2
    <3> QED
      BY <2>1, <2>2, <3>1, QuietStep
  <2>3. CASE /\ global.input > global.success
             /\ global' = [global EXCEPT !.status = "running", !.owner = w,
                                         !.lease = now + LeaseSeconds, !.retryAt = 0]
             /\ watermark' = [watermark EXCEPT ![w] = global.input]
             /\ pc' = [pc EXCEPT ![w] = "select"]
    <3>1. /\ global'.status = "running" /\ global'.owner = w
          /\ global'.input = global.input /\ global'.success = global.success
      BY <2>3 DEF Jobs
    <3>2. Dirty'
      BY <2>3, <3>1 DEF Dirty
    <3>3. InputCoversOutputs'
      BY <2>1, <3>1 DEF InputCoversOutputs
    <3>4. OwnerMissesNothing'
      BY <2>3, <3>1 DEF OwnerMissesNothing, Owns, Jobs
    <3> QED
      BY <3>2, <3>3, <3>4 DEF GlobalInv, RunningIsDirty, NothingMissed
  <2> QED
    BY <1>7, <2>2, <2>3, Zenon DEF ClaimGlobal
<1>8. ASSUME NEW w \in Workers, SelectInputs(w) PROVE GlobalInv'
  <2>1. UNCHANGED <<memoryMode, output, picked, global>>
    BY <1>8 DEF SelectInputs, threadVars, dbVars
  <2>2. PICK m \in {watermark[w]} \cup {Inputs[t] : t \in Threads} :
            watermark' = [watermark EXCEPT ![w] = m]
    BY <1>8 DEF SelectInputs
  <2>3. Owns(w, global) => m <= global.input
    BY <2>2 DEF OwnerMissesNothing, InputCoversOutputs, Inputs, Jobs
  <2>4. /\ selection' = [selection EXCEPT ![w] = Inputs]
        /\ \A v \in Workers : v # w => pc'[v] = pc[v]
    BY <1>8 DEF SelectInputs
  <2>5. OwnerMissesNothing'
    BY <2>1, <2>2, <2>3, <2>4 DEF OwnerMissesNothing, Owns, Inputs
  <2> QED
    BY <2>1, <2>5 DEF GlobalInv, InputCoversOutputs, RunningIsDirty, NothingMissed, Dirty
<1>9. ASSUME NEW w \in Workers, Heartbeat(w) PROVE GlobalInv'
  <2>1. UNCHANGED <<memoryMode, output, picked, pc, selection, watermark>>
    BY <1>9 DEF Heartbeat, threadVars, workerVars
  <2>2. /\ global'.status = global.status /\ global'.owner = global.owner
        /\ global'.input = global.input /\ global'.success = global.success
    BY <1>9 DEF Heartbeat, Jobs
  <2> QED
    BY <2>1, <2>2, QuietStep DEF PipelineGoesOn, Owns
<1>10. ASSUME NEW w \in Workers, EndPipeline(w) PROVE \A v \in Workers : PipelineGoesOn(v)
  BY <1>10 DEF EndPipeline, PipelineGoesOn
<1>11. ASSUME NEW w \in Workers, SucceedGlobal(w) PROVE GlobalInv'
  <2>1. UNCHANGED <<memoryMode, output>>
    BY <1>11 DEF SucceedGlobal, EndPipeline, threadVars
  <2>2. CASE ~Owns(w, global)
    <3>1. UNCHANGED <<global, picked>>
      BY <1>11, <2>2 DEF SucceedGlobal
    <3> QED
      BY <1>10, <1>11, <2>1, <3>1, QuietStep DEF SucceedGlobal
  <2>3. CASE Owns(w, global)
    <3> DEFINE s == IF watermark[w] > global.success THEN watermark[w] ELSE global.success
    <3>1. /\ global' = [global EXCEPT !.status = "done", !.lease = 0, !.success = s]
          /\ picked' = [t \in Threads |-> IF selection[w][t] = output[t] THEN output[t] ELSE 0]
      BY <1>11, <2>3 DEF SucceedGlobal
    <3>2. /\ global'.status = "done" /\ global'.input = global.input /\ global'.success = s
      BY <3>1 DEF Jobs
    <3>3. global.input > global.success /\ global.input \in Nat /\ global.success \in Nat
      BY <2>3 DEF RunningIsDirty, Dirty, Owns, Jobs
    <3>4. InputCoversOutputs' /\ RunningIsDirty' /\ OwnerMissesNothing'
      BY <2>1, <3>2 DEF InputCoversOutputs, RunningIsDirty, OwnerMissesNothing, Owns
    <3>5. ASSUME ~Dirty', NEW t \in Threads, memoryMode'[t] = "enabled"
          PROVE  picked'[t] = output'[t]
      <4>1. watermark[w] = global.input
        <5>1. watermark[w] <= global.input /\ watermark[w] \in Nat
          BY <2>3 DEF OwnerMissesNothing
        <5>2. ~(global.input > s)
          BY <3>2, <3>5 DEF Dirty
        <5>3. \A a, b, i \in Nat :
                  a <= i /\ i > b /\ ~(i > IF a > b THEN a ELSE b) => a = i
          OBVIOUS
        <5> HIDE DEF IInv, TypeOK
        <5> QED
          BY <3>3, <5>1, <5>2, <5>3
      <4>2. selection[w][t] = output[t]
        BY <1>11, <2>1, <2>3, <3>5, <4>1 DEF OwnerMissesNothing, SucceedGlobal
      <4> QED
        BY <2>1, <3>1, <4>2
    <3> QED
      BY <3>4, <3>5 DEF GlobalInv, NothingMissed
  <2> QED
    BY <2>2, <2>3
<1>12. ASSUME NEW w \in Workers, FailGlobal(w) PROVE GlobalInv'
  <2>1. UNCHANGED <<memoryMode, output, picked>>
    BY <1>12 DEF FailGlobal, EndPipeline, threadVars
  <2>2. CASE UNCHANGED global
    BY <1>10, <1>12, <2>1, <2>2, QuietStep DEF FailGlobal
  <2>3. CASE global' = Failed(global) /\ global.status = "running"
    <3>1. global'.status = "error" /\ global'.input = global.input /\ global'.success = global.success
      BY <2>3 DEF Failed, Jobs
    <3> QED
      BY <1>10, <1>12, <2>1, <3>1, QuietStep DEF FailGlobal, Owns
  <2> QED
    BY <1>12, <2>2, <2>3 DEF FailGlobal
<1>13. ASSUME NEW w \in Workers, Crash(w) PROVE GlobalInv'
  <2>1. UNCHANGED <<memoryMode, output, picked, global>>
    BY <1>13 DEF Crash, EndPipeline, threadVars, dbVars
  <2> QED
    BY <1>10, <1>13, <2>1, QuietStep DEF Crash
<1> QED
  BY <1>1, <1>2, <1>3, <1>4, <1>5, <1>6, <1>7, <1>8, <1>9, <1>11, <1>12, <1>13
     DEF Next, Stage1, Consolidation, WorkStep, Tick, Touch, vars, threadVars, dbVars, workerVars

-----------------------------------------------------------------------------
(* The theorems *)

LEMMA IInvInit == Init => IInv
<1> SUFFICES ASSUME Init PROVE IInv
  OBVIOUS
<1>1. RunningJobs = {}
  BY DEF Init, RunningJobs, Live, NoJob
<1>2. RunningLimit
  BY <1>1, FS_EmptySet, ConstantsAssumption DEF RunningLimit
<1>3. InputCoversOutputs /\ RunningIsDirty /\ OwnerMissesNothing /\ NothingMissed
  BY DEF Init, InputCoversOutputs, RunningIsDirty, OwnerMissesNothing, NothingMissed, NoJob, Owns, Nothing
<1> QED
  BY <1>2, <1>3, TypeInit DEF IInv

\* The inductive invariant holds in every reachable state.
THEOREM Invariance == Spec => []IInv
<1>1. IInv /\ [Next]_vars => IInv'
  BY TypeStep, LimitStep, GlobalStep DEF IInv, GlobalInv
<1> QED
  BY <1>1, IInvInit, PTL DEF Spec

\* The rows of the job table keep their types; in particular no failure takes
\* more retries than there are.
THEOREM TypeCorrect == Spec => []TypeOK
  BY Invariance, PTL DEF IInv

\* Live leases never exceed the limit, however many sessions claim.
THEOREM LimitHolds == Spec => []RunningLimit
  BY Invariance, PTL DEF IInv

\* A clean consolidation job means that every output of an enabled thread is in
\* the baseline.
THEOREM NothingIsMissed == Spec => []NothingMissed
  BY Invariance, PTL DEF IInv

\* Outputs and watermarks of success only advance, but for a clearing.
THEOREM MemoriesAdvance == Spec => NeverBackwards
<1> DEFINE Forward ==
        /\ \A t \in Threads :
              /\ output'[t] >= output[t] \/ output'[t] = 0
              /\ job'[t].success >= job[t].success \/ job'[t] = NoJob
        /\ global'.success >= global.success \/ global' = NoJob
<1>1. IInv /\ [Next]_vars => [Forward]_dbVars
  <2> SUFFICES ASSUME IInv, [Next]_vars, ~UNCHANGED dbVars PROVE Forward
    OBVIOUS
  <2> USE DEF IInv, TypeOK, RowsAgree
  <2>1. /\ global.success \in Nat
        /\ \A t \in Threads : output[t] \in Nat /\ job[t].success \in Nat
    BY DEF Jobs
  <2>2. \A x \in Nat \ {0} : Enqueued(x).success >= global.success
    <3> SUFFICES ASSUME NEW x \in Nat \ {0} PROVE Enqueued(x).success >= global.success
      OBVIOUS
    <3> QED
      BY <2>1, EnqueuedRow DEF RowAgrees, Jobs
  <2>3. ASSUME NEW t \in Threads, MarkPolluted(t) PROVE Forward
    BY <2>1, <2>2, <2>3 DEF MarkPolluted, Jobs
  <2>4. ASSUME NEW disable \in BOOLEAN, ClearMemoryData(disable) PROVE Forward
    BY <2>4 DEF ClearMemoryData, Nothing
  <2>5. ASSUME NEW w \in Workers, NEW t \in Threads, ClaimStage1(w, t) PROVE Forward
    <3>1. \A u \in Threads : job'[u].success = job[u].success
      BY <2>5 DEF ClaimStage1, AfterClaim, Claimed, Jobs
    <3> QED
      BY <2>1, <2>5, <3>1 DEF ClaimStage1, AfterClaim, Jobs
  <2>6. ASSUME NEW w \in Workers, NEW t \in Threads, WorkStep(w, t) PROVE Forward
    <3>1. CASE ~Owns(w, job[t])
      BY <2>1, <2>6, <3>1 DEF WorkStep, SucceedStage1, SucceedStage1NoOutput, FailStage1, dbVars, Jobs
    <3>2. CASE Owns(w, job[t])
      <4>1. Succeeded(job[t]).success >= job[t].success /\ Failed(job[t]).success = job[t].success
        BY <3>2, FinishedRow DEF Owns
      <4>2. \A u \in Threads : job'[u].success >= job[u].success
        <5>1. job' = [job EXCEPT ![t] = Succeeded(@)] \/ job' = [job EXCEPT ![t] = Failed(@)]
          BY <2>6, <3>2, Zenon DEF WorkStep, SucceedStage1, SucceedStage1NoOutput, FailStage1
        <5>2. ASSUME NEW u \in Threads PROVE job'[u].success >= job[u].success
          <6>1. CASE u # t
            BY <2>1, <5>1, <6>1
          <6>2. CASE u = t
            <7>1. job'[t] = Succeeded(job[t]) \/ job'[t] = Failed(job[t])
              BY <5>1
            <7> QED
              BY <2>1, <4>1, <6>2, <7>1
          <6> QED
            BY <6>1, <6>2
        <5> QED
          BY <5>2
      <4>3. held[w][t] \in Nat \ {0} /\ job[t].input \in Nat \ {0}
        BY <2>6, <3>2 DEF WorkStep, SucceedStage1, SucceedStage1NoOutput, FailStage1, Working, Owns,
                          RowAgrees, Jobs
      <4>4. global'.success >= global.success
        BY <2>1, <2>2, <2>6, <3>2, <4>3 DEF WorkStep, SucceedStage1, SucceedStage1NoOutput, FailStage1, Jobs
      <4>5. \A u \in Threads : output'[u] >= output[u] \/ output'[u] = 0
        <5>1. \/ output' = output
              \/ output' = [output EXCEPT ![t] = IF held[w][t] >= @ THEN held[w][t] ELSE @]
              \/ output' = [output EXCEPT ![t] = 0]
          BY <2>6, <3>2, Zenon DEF WorkStep, SucceedStage1, SucceedStage1NoOutput, FailStage1
        <5>2. output \in [Threads -> Nat] /\ held[w][t] \in Nat
          BY <4>3
        <5> HIDE DEF IInv, TypeOK, RowsAgree
        <5> QED
          BY <5>1, <5>2
      <4> QED
        BY <4>2, <4>4, <4>5
    <3> QED
      BY <3>1, <3>2
  <2>7. ASSUME NEW w \in Workers, Consolidation(w) PROVE Forward
    <3>1. UNCHANGED <<output, job>>
      BY <2>7 DEF Consolidation, ClaimGlobal, SelectInputs, Heartbeat, SucceedGlobal, FailGlobal, dbVars
    <3>2. global'.success >= global.success
      <4>1. CASE ClaimGlobal(w) \/ SelectInputs(w) \/ Heartbeat(w)
        <5>1. \/ global' = [global EXCEPT !.status = "running", !.owner = w,
                                          !.lease = now + LeaseSeconds, !.retryAt = 0]
              \/ global' = [global EXCEPT !.lease = now + LeaseSeconds]
              \/ global' = global
          BY <4>1, Zenon DEF ClaimGlobal, SelectInputs, Heartbeat, dbVars
        <5>2. global'.success = global.success
          BY <5>1 DEF Jobs
        <5> QED
          BY <2>1, <5>2
      <4>2. CASE SucceedGlobal(w)
        <5>1. \/ global' = [global EXCEPT !.status = "done", !.lease = 0,
                                 !.success = IF watermark[w] > @ THEN watermark[w] ELSE @]
              \/ global' = global
          BY <4>2, Zenon DEF SucceedGlobal
        <5>2. \/ global'.success = global.success
              \/ global'.success = watermark[w] /\ watermark[w] > global.success
          BY <5>1 DEF Jobs
        <5> QED
          BY <2>1, <5>2
      <4>3. CASE FailGlobal(w)
        <5>1. Failed(global).success = global.success
          BY DEF Failed, Jobs
        <5>2. global' = Failed(global) \/ global' = global
          BY <4>3, Zenon DEF FailGlobal
        <5> QED
          BY <2>1, <5>1, <5>2
      <4> QED
        BY <2>7, <4>1, <4>2, <4>3 DEF Consolidation
    <3> QED
      BY <2>1, <3>1, <3>2
  <2> QED
    BY <2>3, <2>4, <2>5, <2>6, <2>7
       DEF Next, Stage1, WorkStep, Tick, Touch, ScanThreads, Crash, vars
<1> QED
  BY <1>1, Invariance, PTL DEF Spec, NeverBackwards

----------------------------------------------------------------------------
(* Agent jobs.  The rows alone do not tell that the end of the loop leaves *)
(* nothing: the runner looks after what its rows say is running, and a     *)
(* worker without a row of its own exists only between two of its steps.   *)

\* What is listed to be spawned is still pending.
ListedIsPending == todo \subseteq With("pending")

\* A running item is looked after, and so is a worker whose item has its row;
\* what is looked after is not pending.
RunningIsActive == With("running") \subseteq active /\ active \cap With("pending") = {}

WorkerIsKnown ==
    \A i \in Items : worker[i] \in {"working", "final"} => i \in active \/ item[i] = "pending"

\* Only between its spawn and its row has a pending item a worker, and only one.
Spawned == {i \in With("pending") : worker[i] # "none"}

SpawnedIsAtHand ==
    /\ runner \notin {"assign"} \cup Cut => Spawned = {}
    /\ \A i, j \in Spawned : i = j

\* The runner leaves its loop with nothing active, and with nothing pending but
\* in a job that it saw cancelled.
LoopLeftClean ==
    /\ runner \in Closing \cup {"over"} => active = {} /\ (cancelSeen \/ With("pending") = {})
    /\ runner = "complete" => ~cancelSeen
    /\ jobStatus = "completed" => runner = "over" /\ With("pending") = {}

ExportIsTrue ==
    /\ runner \in {"decide", "complete"} => exported = item
    /\ runner = "over" /\ jobStatus # "failed" => exported = item

JobInv ==
    /\ JobTypeOK /\ ListedIsPending /\ RunningIsActive /\ WorkerIsKnown
    /\ SpawnedIsAtHand /\ LoopLeftClean /\ ExportIsTrue

LEMMA JobInit_Inv == JobInit => JobInv
  BY DEF JobInit, JobInv, JobTypeOK, ListedIsPending, RunningIsActive, WorkerIsKnown, Spawned,
         SpawnedIsAtHand, LoopLeftClean, ExportIsTrue, With, Looping, Closing, Cut

LEMMA JobRunner_Inv ==
  ASSUME JobInv, RunnerStep
  PROVE  JobInv'
<1> USE DEF JobInv, JobTypeOK, ListedIsPending, RunningIsActive, WorkerIsKnown, Spawned,
            SpawnedIsAtHand, LoopLeftClean, ExportIsTrue, With, Looping, Closing, Cut,
            rowVars, agentVars
<1>1. CASE Look
  BY <1>1 DEF Look
<1>2. CASE SpawnFull
  BY <1>2 DEF SpawnFull
<1>3. CASE SpawningDone
  BY <1>3 DEF SpawningDone
<1>4. CASE ReapOverdue
  <2> USE <1>4 DEF ReapOverdue, Failing, ShutDown
  <2>1. \A i \in Items : /\ item'[i] = (IF i \in overdue /\ item[i] = "running" THEN "failed" ELSE item[i])
                         /\ i \notin overdue => worker'[i] = worker[i]
                         /\ i \in overdue => worker'[i] = "closing"
    OBVIOUS
  <2>2. With("pending")' = With("pending") /\ With("running")' = With("running") \ overdue
    BY <2>1
  <2>3. JobTypeOK' /\ ListedIsPending' /\ RunningIsActive' /\ WorkerIsKnown'
    BY <2>1, <2>2
  <2>4. SpawnedIsAtHand'
    BY <2>1, <2>2
  <2>5. LoopLeftClean' /\ ExportIsTrue'
    BY <2>2
  <2>6. QED
    BY <2>3, <2>4, <2>5
<1>5. CASE Find
  BY <1>5 DEF Find, Failing, ShutDown, Settled
<1>6. CASE Export
  BY <1>6 DEF Export
<1>7. CASE ExportFails
  BY <1>7 DEF ExportFails
<1>8. CASE Decide
  BY <1>8 DEF Decide
<1>9. CASE Complete
  BY <1>9 DEF Complete
<1>10. ASSUME NEW i \in Items, SpawnWorker(i)
       PROVE  JobInv'
  BY <1>10 DEF SpawnWorker
<1>11. ASSUME NEW i \in Items, SpawnError(i)
       PROVE  JobInv'
  BY <1>11 DEF SpawnError, Failing
<1>12. ASSUME NEW i \in Items, AssignWorker(i)
       PROVE  JobInv'
  BY <1>12 DEF AssignWorker
<1>13. QED
  BY <1>1, <1>2, <1>3, <1>4, <1>5, <1>6, <1>7, <1>8, <1>9, <1>10, <1>11, <1>12 DEF RunnerStep

LEMMA JobOthers_Inv ==
  ASSUME JobInv, NEW i \in Items,
         RunnerBreaks \/ RunnerDropped \/ Report(i) \/ CancelJob(i) \/ WorkerEnds(i) \/ WorkerGoesOn(i) \/ TimeIsUp(i)
  PROVE  JobInv'
<1> USE DEF JobInv, JobTypeOK, ListedIsPending, RunningIsActive, WorkerIsKnown, Spawned,
            SpawnedIsAtHand, LoopLeftClean, ExportIsTrue, With, Looping, Closing, Cut, Alive,
            rowVars, agentVars
<1>1. CASE RunnerBreaks
  BY <1>1 DEF RunnerBreaks
<1>2. CASE RunnerDropped
  BY <1>2 DEF RunnerDropped
<1>3. CASE Report(i)
  BY <1>3 DEF Report
<1>4. CASE CancelJob(i)
  BY <1>4 DEF CancelJob
<1>5. CASE WorkerEnds(i)
  BY <1>5 DEF WorkerEnds
<1>6. CASE WorkerGoesOn(i)
  BY <1>6 DEF WorkerGoesOn
<1>7. CASE TimeIsUp(i)
  BY <1>7 DEF TimeIsUp
<1>8. QED
  BY <1>1, <1>2, <1>3, <1>4, <1>5, <1>6, <1>7

LEMMA JobNext_Inv == JobInv /\ [JobNext]_jobVars => JobInv'
<1> SUFFICES ASSUME JobInv, [JobNext]_jobVars
             PROVE  JobInv'
  OBVIOUS
<1>1. CASE RunnerStep
  BY <1>1, JobRunner_Inv
<1>2. CASE RunnerBreaks \/ RunnerDropped
  <2>1. CASE Items = {}
    BY <1>2, <2>1 DEF RunnerBreaks, RunnerDropped, JobInv, JobTypeOK, ListedIsPending,
       RunningIsActive, WorkerIsKnown, Spawned, SpawnedIsAtHand, LoopLeftClean, ExportIsTrue,
       With, Looping, Closing, Cut, rowVars, agentVars
  <2>2. CASE Items # {}
    <3>1. PICK i \in Items : TRUE
      BY <2>2
    <3>2. QED
      BY <1>2, <3>1, JobOthers_Inv
  <2>3. QED
    BY <2>1, <2>2
<1>3. ASSUME NEW i \in Items, Report(i) \/ CancelJob(i) \/ WorkerEnds(i) \/ WorkerGoesOn(i) \/ TimeIsUp(i)
      PROVE  JobInv'
  BY <1>3, JobOthers_Inv
<1>4. CASE JobDone \/ UNCHANGED jobVars
  BY <1>4 DEF JobDone, jobVars, JobInv, JobTypeOK, ListedIsPending, RunningIsActive,
     WorkerIsKnown, Spawned, SpawnedIsAtHand, LoopLeftClean, ExportIsTrue, With, rowVars, agentVars
<1>5. QED
  BY <1>1, <1>2, <1>3, <1>4 DEF JobNext

LEMMA JobInvariant == JobSpec => []JobInv
  BY JobInit_Inv, JobNext_Inv, PTL DEF JobSpec

\* Type correctness of a job, its runner and its workers.
THEOREM JobTypeCorrect == JobSpec => []JobTypeOK
<1>1. JobInv => JobTypeOK
  BY DEF JobInv
<1>2. QED
  BY <1>1, JobInvariant, PTL

\* When the runner leaves its loop no item is running and no worker is at work,
\* and the CSV says what the table says.
THEOREM JobEndsClean == JobSpec => []JobLeavesNothing
<1>1. JobInv => JobLeavesNothing
  BY DEF JobInv, JobTypeOK, RunningIsActive, WorkerIsKnown, Spawned, SpawnedIsAtHand, LoopLeftClean,
         ExportIsTrue, JobLeavesNothing, With, Looping, Closing, Cut
<1>2. QED
  BY <1>1, JobInvariant, PTL

\* An item that is completed or failed stays so.
THEOREM FinalItemsAreKept == JobSpec => FinalItemsStay
<1> DEFINE Kept == \A i \in Items : item[i] \in FinalItem => item'[i] = item[i]
<1>1. ASSUME JobInv, [JobNext]_jobVars
      PROVE  Kept
  <2> USE <1>1 DEF JobInv, JobTypeOK, ListedIsPending, With, FinalItem, Failing
  <2>1. CASE RunnerStep
    BY <2>1 DEF RunnerStep, Look, SpawnFull, SpawningDone, ReapOverdue, Find, Export, ExportFails,
       Decide, Complete, SpawnWorker, SpawnError, AssignWorker, rowVars
  <2>2. CASE RunnerBreaks \/ RunnerDropped \/ JobDone \/ UNCHANGED jobVars
    BY <2>2 DEF RunnerBreaks, RunnerDropped, JobDone, jobVars, rowVars
  <2>3. ASSUME NEW i \in Items, Report(i) \/ CancelJob(i) \/ WorkerEnds(i) \/ WorkerGoesOn(i) \/ TimeIsUp(i)
        PROVE  Kept
    BY <2>3 DEF Report, CancelJob, WorkerEnds, WorkerGoesOn, TimeIsUp, rowVars
  <2>4. QED
    BY <2>1, <2>2, <2>3 DEF JobNext
<1>2. QED
  BY <1>1, JobInvariant, PTL DEF JobSpec, FinalItemsStay
=============================================================================
