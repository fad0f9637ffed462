----------------------------- MODULE MemoryJobs -----------------------------
(***************************************************************************)
(* The memory pipeline that every root session starts: stage-one jobs, one *)
(* per thread, and the global consolidation job, both rows of a SQLite     *)
(* table that all processes share.                                         *)
(*                                                                         *)
(* A transaction is a step.  Between two of them a pipeline may be slow,   *)
(* asleep past its lease, or dead, and its session may start again.  SQL's *)
(* NULL for a time, a watermark or a snapshot is 0; times start at 1.      *)
(***************************************************************************)
EXTENDS Naturals, FiniteSets

CONSTANTS
    Workers,        \* sessions; the ownership token of a claim is its session
    Threads,        \* threads whose rollouts may become memories
    NoWorker,
    LeaseSeconds, RetryDelay,
    RetryLimit,     \* DEFAULT_RETRY_REMAINING
    MaxClaimed,     \* max_rollouts_per_startup, also the limit of running jobs
    MaxNow          \* bound: the clock stops there

ASSUME ConstantsAssumption ==
    /\ NoWorker \notin Workers
    /\ IsFiniteSet(Threads)
    /\ LeaseSeconds \in Nat /\ RetryDelay \in Nat
    /\ RetryLimit \in Nat \ {0}
    /\ MaxClaimed \in Nat \ {0}
    /\ MaxNow \in Nat

VARIABLES
    now,
    updatedAt,    \* threads.updated_at
    memoryMode,   \* threads.memory_mode
    output,       \* stage1_outputs.source_updated_at, 0 without a row
    picked,       \* selected_for_phase2_source_updated_at of the row
    job,          \* the memory_stage1 row of each thread
    global,       \* the memory_consolidate_global row
    pc,           \* where the pipeline of each session is
    scanned,      \* the candidates it has still to claim, with their updated_at
    held,         \* the claims it works on, with their updated_at
    selection,    \* the snapshots it consolidates
    watermark     \* the watermark it claimed, then the one it will store

threadVars == <<updatedAt, memoryMode>>
dbVars == <<output, picked, job, global>>
workerVars == <<pc, scanned, held, selection, watermark>>
vars == <<now, threadVars, dbVars, workerVars>>

Statuses == {"none", "pending", "running", "done", "error"}

Jobs ==
    [status : Statuses, owner : Workers \cup {NoWorker}, lease : Nat, retryAt : Nat,
     retries : Nat, input : Nat, success : Nat]

NoJob ==
    [status |-> "none", owner |-> NoWorker, lease |-> 0, retryAt |-> 0,
     retries |-> 0, input |-> 0, success |-> 0]

Nothing == [t \in Threads |-> 0]

PipelinePCs == {"off", "stage1", "select", "agent", "succeed"}

TypeOK ==
    /\ now \in Nat \ {0}
    /\ updatedAt \in [Threads -> Nat \ {0}]
    /\ memoryMode \in [Threads -> {"enabled", "polluted", "disabled"}]
    /\ output \in [Threads -> Nat]
    /\ picked \in [Threads -> Nat]
    /\ job \in [Threads -> Jobs]
    /\ global \in Jobs
    /\ pc \in [Workers -> PipelinePCs]
    /\ scanned \in [Workers -> [Threads -> Nat]]
    /\ held \in [Workers -> [Threads -> Nat]]
    /\ selection \in [Workers -> [Threads -> Nat]]
    /\ watermark \in [Workers -> Nat]

Init ==
    /\ now = 1
    /\ updatedAt = [t \in Threads |-> 1]
    /\ memoryMode = [t \in Threads |-> "enabled"]
    /\ output = Nothing
    /\ picked = Nothing
    /\ job = [t \in Threads |-> NoJob]
    /\ global = NoJob
    /\ pc = [w \in Workers |-> "off"]
    /\ scanned = [w \in Workers |-> Nothing]
    /\ held = [w \in Workers |-> Nothing]
    /\ selection = [w \in Workers |-> Nothing]
    /\ watermark = [w \in Workers |-> 0]

-----------------------------------------------------------------------------
(* The world around the pipelines *)

Tick ==
    /\ now < MaxNow
    /\ now' = now + 1
    /\ UNCHANGED <<threadVars, dbVars, workerVars>>

\* A thread goes on: its rollout and so its updated_at change.
Touch(t) ==
    /\ updatedAt[t] # now
    /\ updatedAt' = [updatedAt EXCEPT ![t] = now]
    /\ UNCHANGED <<now, memoryMode, dbVars, workerVars>>

\* The row of the global job after work was added for it.  Every call leaves a
\* greater input watermark.
Enqueued(input) ==
    IF global.status = "none"
    THEN [NoJob EXCEPT !.status = "pending", !.retries = RetryLimit, !.input = input]
    ELSE LET running == global.status = "running"
         IN [global EXCEPT
                !.status = IF running THEN @ ELSE "pending",
                !.retryAt = IF running THEN @ ELSE 0,
                !.retries = IF @ < RetryLimit THEN RetryLimit ELSE @,
                !.input = IF input > @ THEN input ELSE @ + 1]

\* mark_thread_memory_mode_polluted: the thread used a source from outside.
MarkPolluted(t) ==
    /\ memoryMode[t] # "polluted"
    /\ memoryMode' = [memoryMode EXCEPT ![t] = "polluted"]
    /\ global' = IF picked[t] # 0 THEN Enqueued(now) ELSE global
    /\ UNCHANGED <<now, updatedAt, output, picked, job, workerVars>>

\* clear_memory_data and reset_memory_data_for_fresh_start.
ClearMemoryData(disable) ==
    /\ output' = Nothing
    /\ picked' = Nothing
    /\ job' = [t \in Threads |-> NoJob]
    /\ global' = NoJob
    /\ memoryMode' = [t \in Threads |->
           IF disable /\ memoryMode[t] = "enabled" THEN "disabled" ELSE memoryMode[t]]
    /\ UNCHANGED <<now, updatedAt, workerVars>>

-----------------------------------------------------------------------------
(* Stage one *)

Live(j) == j.status = "running" /\ j.lease > now

Owns(w, j) == j.status = "running" /\ j.owner = w

\* claim_stage1_jobs_for_startup reads its candidates first, outside the
\* transactions of the claims.
ScanThreads(w) ==
    /\ pc[w] = "off"
    /\ scanned' = [scanned EXCEPT ![w] = [t \in Threads |->
           IF /\ memoryMode[t] = "enabled"
              /\ output[t] < updatedAt[t]
              /\ job[t].success < updatedAt[t]
           THEN updatedAt[t] ELSE 0]]
    /\ pc' = [pc EXCEPT ![w] = "stage1"]
    /\ UNCHANGED <<now, threadVars, dbVars, held, selection, watermark>>

\* The row is free, or its owner's lease is over; a retry waits and is counted
\* unless the thread has changed since.
Claimable(j, source) ==
    \/ j.status = "none"
    \/ /\ ~Live(j)
       /\ j.retryAt <= now \/ source > j.input
       /\ j.retries > 0 \/ source > j.input

Claimed(j, w, source) ==
    [j EXCEPT !.status = "running", !.owner = w, !.lease = now + LeaseSeconds, !.retryAt = 0,
              !.retries = IF source > j.input THEN RetryLimit ELSE @, !.input = source]

RunningJobs == {t \in Threads : Live(job[t])}

Holds(w) == {t \in Threads : held[w][t] # 0}

\* Candidates are taken from the newest on, until enough are claimed.
Candidate(w, t) ==
    /\ pc[w] = "stage1"
    /\ scanned[w][t] # 0
    /\ \A u \in Threads : scanned[w][u] <= scanned[w][t]

AfterClaim(w, t, claims) ==
    /\ job' = IF claims THEN [job EXCEPT ![t] = Claimed(@, w, scanned[w][t])] ELSE job
    /\ held' = IF claims THEN [held EXCEPT ![w][t] = scanned[w][t]] ELSE held
    /\ scanned' = IF claims /\ Cardinality(Holds(w)) + 1 = MaxClaimed
                  THEN [scanned EXCEPT ![w] = Nothing]
                  ELSE [scanned EXCEPT ![w][t] = 0]
    /\ UNCHANGED <<now, threadVars, output, picked, global, pc, selection, watermark>>

OutOfDate(t, source) == output[t] < source /\ job[t].success < source

\* Mutant: the limit counts the claims of this startup only.
ClaimPastLimit(w, t) ==
    /\ Candidate(w, t)
    /\ AfterClaim(w, t, /\ OutOfDate(t, scanned[w][t])
                        /\ Claimable(job[t], scanned[w][t]))

\* try_claim_stage1_job, for the next candidate.
ClaimStage1(w, t) ==
    /\ Candidate(w, t)
    /\ AfterClaim(w, t, /\ OutOfDate(t, scanned[w][t])
                        /\ Claimable(job[t], scanned[w][t])
                        /\ Cardinality(RunningJobs) < MaxClaimed)

\* All claims are made before any of them is worked on.
Working(w, t) == scanned[w] = Nothing /\ held[w][t] # 0

LetGo(w, t) ==
    /\ held' = [held EXCEPT ![w][t] = 0]
    /\ UNCHANGED <<now, threadVars, pc, scanned, selection, watermark>>

Succeeded(j) == [j EXCEPT !.status = "done", !.lease = 0, !.success = j.input]

Failed(j) ==
    [j EXCEPT !.status = "error", !.lease = 0, !.retryAt = now + RetryDelay, !.retries = @ - 1]

\* Mutant: whoever worked on a job reports it, its owner or not.
SucceedUnowned(w, t) ==
    /\ Working(w, t)
    /\ job' = [job EXCEPT ![t] = Succeeded(@)]
    /\ output' = [output EXCEPT ![t] = held[w][t]]
    /\ global' = Enqueued(held[w][t])
    /\ LetGo(w, t)
    /\ UNCHANGED picked

\* mark_stage1_job_succeeded
SucceedStage1(w, t) ==
    /\ Working(w, t)
    /\ IF Owns(w, job[t])
       THEN /\ job' = [job EXCEPT ![t] = Succeeded(@)]
            /\ output' = [output EXCEPT ![t] = IF held[w][t] >= @ THEN held[w][t] ELSE @]
            /\ global' = Enqueued(held[w][t])
       ELSE UNCHANGED <<job, output, global>>
    /\ LetGo(w, t)
    /\ UNCHANGED picked

\* mark_stage1_job_succeeded_no_output takes an earlier output, and its place in
\* the baseline, away.
SucceedStage1NoOutput(w, t) ==
    /\ Working(w, t)
    /\ IF Owns(w, job[t])
       THEN /\ job' = [job EXCEPT ![t] = Succeeded(@)]
            /\ output' = [output EXCEPT ![t] = 0]
            /\ picked' = [picked EXCEPT ![t] = 0]
            /\ global' = IF output[t] # 0 THEN Enqueued(job[t].input) ELSE global
       ELSE UNCHANGED dbVars
    /\ LetGo(w, t)

\* mark_stage1_job_failed
FailStage1(w, t) ==
    /\ Working(w, t)
    /\ job' = IF Owns(w, job[t]) THEN [job EXCEPT ![t] = Failed(@)] ELSE job
    /\ LetGo(w, t)
    /\ UNCHANGED <<output, picked, global>>

-----------------------------------------------------------------------------
(* Consolidation *)

\* try_claim_global_phase2_job
ClaimGlobal(w) ==
    /\ pc[w] = "stage1" /\ scanned[w] = Nothing /\ held[w] = Nothing
    /\ IF /\ global.input > global.success
          /\ global.retries > 0
          /\ global.retryAt <= now
          /\ ~Live(global)
       THEN /\ global' = [global EXCEPT !.status = "running", !.owner = w,
                                        !.lease = now + LeaseSeconds, !.retryAt = 0]
            /\ watermark' = [watermark EXCEPT ![w] = global.input]
            /\ pc' = [pc EXCEPT ![w] = "select"]
       ELSE /\ pc' = [pc EXCEPT ![w] = "off"]
            /\ UNCHANGED <<global, watermark>>
    /\ UNCHANGED <<now, threadVars, output, picked, job, scanned, held, selection>>

Inputs == [t \in Threads |-> IF memoryMode[t] = "enabled" THEN output[t] ELSE 0]

\* get_watermark: the claimed one, or the newest input that was loaded.
IsCompletionWatermark(m, claimed, inputs) ==
    /\ m >= claimed
    /\ \A t \in Threads : m >= inputs[t]

\* Mutant: what arrives during the consolidation is taken for consolidated.
SelectionSeenLater(w) ==
    /\ pc[w] = "select"
    /\ selection' = [selection EXCEPT ![w] = Inputs]
    /\ watermark' = [watermark EXCEPT ![w] = @ + 1]
    /\ pc' = [pc EXCEPT ![w] = IF Inputs = Nothing THEN "succeed" ELSE "agent"]
    /\ UNCHANGED <<now, threadVars, dbVars, scanned, held>>

\* get_phase2_input_selection, with no more outputs than it may take and none of
\* them too old; without inputs there is nothing for an agent to do.
SelectInputs(w) ==
    /\ pc[w] = "select"
    /\ selection' = [selection EXCEPT ![w] = Inputs]
    /\ \E m \in {watermark[w]} \cup {Inputs[t] : t \in Threads} :
          /\ IsCompletionWatermark(m, watermark[w], Inputs)
          /\ watermark' = [watermark EXCEPT ![w] = m]
    /\ pc' = [pc EXCEPT ![w] = IF Inputs = Nothing THEN "succeed" ELSE "agent"]
    /\ UNCHANGED <<now, threadVars, dbVars, scanned, held>>

\* heartbeat_global_phase2_job; the heartbeat of a worker that is the owner no
\* more changes nothing, and its pipeline fails.
Heartbeat(w) ==
    /\ pc[w] = "agent"
    /\ Owns(w, global)
    /\ global' = [global EXCEPT !.lease = now + LeaseSeconds]
    /\ UNCHANGED <<now, threadVars, output, picked, job, workerVars>>

EndPipeline(w) ==
    /\ pc' = [pc EXCEPT ![w] = "off"]
    /\ scanned' = [scanned EXCEPT ![w] = Nothing]
    /\ held' = [held EXCEPT ![w] = Nothing]
    /\ selection' = [selection EXCEPT ![w] = Nothing]
    /\ watermark' = [watermark EXCEPT ![w] = 0]
    /\ UNCHANGED <<now, threadVars>>

\* mark_global_phase2_job_succeeded, after the agent completed, rewrites the
\* baseline: the snapshots that were selected and are still there.
SucceedGlobal(w) ==
    /\ pc[w] \in {"agent", "succeed"}
    /\ IF Owns(w, global)
       THEN /\ global' = [global EXCEPT !.status = "done", !.lease = 0,
                              !.success = IF watermark[w] > @ THEN watermark[w] ELSE @]
            /\ picked' = [t \in Threads |->
                              IF selection[w][t] = output[t] THEN output[t] ELSE 0]
       ELSE UNCHANGED <<global, picked>>
    /\ EndPipeline(w)
    /\ UNCHANGED <<output, job>>

\* mark_global_phase2_job_failed, and its fallback for a row without owner: no
\* configuration, inputs, files or agent, or an agent that ended badly.
FailGlobal(w) ==
    /\ pc[w] \in {"select", "agent", "succeed"}
    /\ global' = IF global.status = "running" /\ global.owner \in {w, NoWorker}
                 THEN Failed(global) ELSE global
    /\ EndPipeline(w)
    /\ UNCHANGED <<output, picked, job>>

\* The process ends; its rows stay.
Crash(w) ==
    /\ pc[w] # "off"
    /\ EndPipeline(w)
    /\ UNCHANGED dbVars

-----------------------------------------------------------------------------

Stage1(w) ==
    \/ ScanThreads(w)
    \/ \E t \in Threads :
          \/ ClaimStage1(w, t)
          \/ SucceedStage1(w, t) \/ SucceedStage1NoOutput(w, t) \/ FailStage1(w, t)

Consolidation(w) ==
    \/ ClaimGlobal(w) \/ SelectInputs(w) \/ Heartbeat(w)
    \/ SucceedGlobal(w) \/ FailGlobal(w)

Next ==
    \/ Tick
    \/ \E t \in Threads : Touch(t) \/ MarkPolluted(t)
    \/ \E disable \in BOOLEAN : ClearMemoryData(disable)
    \/ \E w \in Workers : Stage1(w) \/ Consolidation(w) \/ Crash(w)

Spec == Init /\ [][Next]_vars

-----------------------------------------------------------------------------
(* Safety *)

\* However many sessions claim at once, no more jobs hold a live lease than one
\* startup may claim.
RunningLimit == Cardinality(RunningJobs) <= MaxClaimed

Dirty == global.input > global.success

\* No memory is missed: unless a consolidation is due, every stored output of an
\* enabled thread was an input of the last one, whatever arrived or was taken
\* away while it ran, by whatever worker it was finished.
NothingMissed ==
    ~Dirty => \A t \in Threads : memoryMode[t] = "enabled" => picked[t] = output[t]

\* A worker that lost its lease cannot bring back an older memory: an output
\* only ever gives way to a newer one, and neither watermark of success falls,
\* unless all is cleared.
NeverBackwards ==
    [][ /\ \A t \in Threads :
              /\ output'[t] >= output[t] \/ output'[t] = 0
              /\ job'[t].success >= job[t].success \/ job'[t] = NoJob
        /\ global'.success >= global.success \/ global' = NoJob ]_dbVars
=============================================================================
