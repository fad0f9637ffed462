------------------------------ MODULE AgentJobs ------------------------------
(* A job over the rows of a CSV (spawn_agents_on_csv): a runner, inside a  *)
(* tool call, spawns a worker agent for each pending item, up to its       *)
(* concurrency, and looks in rounds which workers are overdue or finished; *)
(* a worker reports the result of its item by a tool of its own, from its  *)
(* own session, and may ask the job to stop.  They share rows in SQLite    *)
(* only, each update of which is guarded by the status of its row.  The    *)
(* only worker of an item is named by the item.  A job is run once, by the *)
(* call that created it, so recover_running_items finds nothing and the    *)
(* pending row of a spawned worker is still there to be assigned to it.    *)
EXTENDS Naturals, FiniteSets

CONSTANTS
    Items,
    Concurrency,    \* max_concurrency
    SpawnOutcomes   \* of spawn_agent: "ok", "full" (AgentLimitReached), "error"

ASSUME JobAssumption ==
    /\ IsFiniteSet(Items) /\ Concurrency \in Nat \ {0}
    /\ SpawnOutcomes \subseteq {"ok", "full", "error"}

VARIABLES
    runner,         \* where run_agent_job_loop is
    todo,           \* the rest of the pending items it has listed
    active,         \* active_items
    overdue,        \* those of them whose started_at is max_runtime ago
    cancelSeen,     \* cancel_requested
    jobStatus,      \* the row of the job
    item,           \* the rows of its items
    worker,         \* the agent of each item
    stopping,       \* its report asked to stop, and has not marked the job yet
    exported        \* what the output CSV says of the items

rowVars == <<jobStatus, item>>
agentVars == <<worker, stopping>>
jobVars == <<runner, todo, active, overdue, cancelSeen, rowVars, agentVars, exported>>

Looping == {"look", "spawn", "assign", "reap", "find"}
Closing == {"export", "decide", "complete"}
Cut == {"broken", "dropped"}
FinalItem == {"completed", "failed"}
Alive == {"working", "final", "closing"}

JobTypeOK ==
    /\ runner \in Looping \cup Closing \cup Cut \cup {"over"}
    /\ todo \subseteq Items /\ active \subseteq Items /\ overdue \subseteq active
    /\ cancelSeen \in BOOLEAN
    /\ jobStatus \in {"running", "completed", "failed", "cancelled"}
    /\ item \in [Items -> {"pending", "running", "completed", "failed"}]
    /\ worker \in [Items -> {"none", "working", "closing", "final", "gone"}]
    /\ stopping \subseteq Items
    /\ exported \in [Items -> {"none", "pending", "running", "completed", "failed"}]

With(status) == {i \in Items : item[i] = status}

\* mark_agent_job_item_failed: only what is running fails.
Failing(S) == [i \in Items |-> IF i \in S /\ item[i] = "running" THEN "failed" ELSE item[i]]

\* The job is created and marked running.
JobInit ==
    /\ runner = "look" /\ todo = {} /\ active = {} /\ overdue = {} /\ cancelSeen = FALSE
    /\ jobStatus = "running" /\ item = [i \in Items |-> "pending"]
    /\ worker = [i \in Items |-> "none"] /\ stopping = {}
    /\ exported = [i \in Items |-> "none"]

----------------------------------------------------------------------------
(* The runner.                                                             *)

\* The beginning of a round: is the job cancelled, and if not, which pending
\* items, in the order of their rows, are there slots for.
Look ==
    /\ runner = "look"
    /\ cancelSeen' = (cancelSeen \/ jobStatus = "cancelled")
    /\ IF cancelSeen' \/ Cardinality(active) >= Concurrency
       THEN todo' = {}
       ELSE \E S \in SUBSET With("pending") :
               /\ \/ S = With("pending")
                  \/ Cardinality(S) = Concurrency - Cardinality(active)
               /\ Cardinality(S) <= Concurrency - Cardinality(active)
               /\ todo' = S
    /\ runner' = "spawn"
    /\ UNCHANGED <<active, overdue, rowVars, agentVars, exported>>

\* The agent exists, and may begin, before its row says so.
SpawnWorker(i) ==
    /\ runner = "spawn" /\ i \in todo /\ "ok" \in SpawnOutcomes
    /\ worker' = [worker EXCEPT ![i] = "working"]
    /\ runner' = "assign"
    /\ UNCHANGED <<todo, active, overdue, cancelSeen, rowVars, stopping, exported>>

\* AgentLimitReached: the item is pending already; the others wait too.
SpawnFull ==
    /\ runner = "spawn" /\ todo # {} /\ "full" \in SpawnOutcomes
    /\ todo' = {}
    /\ UNCHANGED <<runner, active, overdue, cancelSeen, rowVars, agentVars, exported>>

\* Any other error: mark_agent_job_item_failed is called for the pending row.
SpawnError(i) ==
    /\ runner = "spawn" /\ i \in todo /\ "error" \in SpawnOutcomes
    /\ item' = Failing({i})
    /\ todo' = todo \ {i}
    /\ UNCHANGED <<runner, active, overdue, cancelSeen, jobStatus, agentVars, exported>>

\* mark_agent_job_item_running_with_thread and active_items.insert.
AssignWorker(i) ==
    /\ runner = "assign" /\ i \in todo /\ worker[i] # "none"
    /\ item' = [item EXCEPT ![i] = "running"]
    /\ active' = active \cup {i} /\ todo' = todo \ {i}
    /\ runner' = "spawn"
    /\ UNCHANGED <<overdue, cancelSeen, jobStatus, agentVars, exported>>

SpawningDone ==
    /\ runner = "spawn" /\ todo = {} /\ runner' = "reap"
    /\ UNCHANGED <<todo, active, overdue, cancelSeen, rowVars, agentVars, exported>>

\* shutdown_live_agent: the agents have Op::Shutdown in their queue.
ShutDown(S) == worker' = [i \in Items |-> IF i \in S THEN "closing" ELSE worker[i]]

\* Mutant: the row of an overdue item is left as it is.
ReapWithoutMark ==
    /\ runner = "reap" /\ ShutDown(overdue)
    /\ active' = active \ overdue /\ overdue' = {} /\ runner' = "find"
    /\ UNCHANGED <<todo, cancelSeen, rowVars, stopping, exported>>

\* reap_stale_active_items; an item that its worker reports meanwhile is
\* reported before or is refused.
ReapOverdue ==
    /\ runner = "reap"
    /\ item' = Failing(overdue) /\ ShutDown(overdue)
    /\ active' = active \ overdue /\ overdue' = {}
    /\ runner' = "find"
    /\ UNCHANGED <<todo, cancelSeen, jobStatus, stopping, exported>>

\* Mutant: the loop ends when no row is running, whoever is still at work.
RowsSettled == With("running") = {} /\ (cancelSeen \/ With("pending") = {})

\* The job is to end: nothing runs, and nothing is pending if it goes on.
Settled == active = {} /\ With("running") = {} /\ (cancelSeen \/ With("pending") = {})

\* find_finished_threads, and finalize_finished_item for each, whose result
\* would have set the row to completed; or the tests of an idle round.  The
\* wait for a change of status gives up after a while.
Find ==
    /\ runner = "find"
    /\ LET finished == {i \in active : worker[i] = "final"} IN
       IF finished # {}
       THEN /\ item' = Failing(finished) /\ ShutDown(finished)
            /\ active' = active \ finished /\ overdue' = overdue \ finished
            /\ runner' = "look"
       ELSE /\ runner' = IF Settled THEN "export" ELSE "look"
            /\ UNCHANGED <<active, overdue, item, worker>>
    /\ UNCHANGED <<todo, cancelSeen, jobStatus, stopping, exported>>

\* export_job_csv_snapshot ...
Export ==
    /\ runner = "export"
    /\ exported' = item
    /\ runner' = "decide"
    /\ UNCHANGED <<todo, active, overdue, cancelSeen, rowVars, agentVars>>

\* ... and its failure: mark_agent_job_failed, whatever the status was.
ExportFails ==
    /\ runner = "export"
    /\ jobStatus' = "failed"
    /\ runner' = "over"
    /\ UNCHANGED <<todo, active, overdue, cancelSeen, item, agentVars, exported>>

Decide ==
    /\ runner = "decide"
    /\ runner' = IF cancelSeen \/ jobStatus = "cancelled" THEN "over" ELSE "complete"
    /\ UNCHANGED <<todo, active, overdue, cancelSeen, rowVars, agentVars, exported>>

\* mark_agent_job_completed, whatever the status was.
Complete ==
    /\ runner = "complete"
    /\ jobStatus' = "completed"
    /\ runner' = "over"
    /\ UNCHANGED <<todo, active, overdue, cancelSeen, item, agentVars, exported>>

\* An error of the database: the job is marked failed; the workers go on.
RunnerBreaks ==
    /\ runner \in Looping \cup Closing
    /\ jobStatus' = "failed"
    /\ runner' = "broken"
    /\ UNCHANGED <<todo, active, overdue, cancelSeen, item, agentVars, exported>>

\* The turn is interrupted and the future of the tool call dropped.
RunnerDropped ==
    /\ runner \in Looping \cup Closing
    /\ runner' = "dropped"
    /\ UNCHANGED <<todo, active, overdue, cancelSeen, rowVars, agentVars, exported>>

RunnerStep ==
    \/ Look \/ SpawnFull \/ SpawningDone \/ ReapOverdue \/ Find
    \/ Export \/ ExportFails \/ Decide \/ Complete
    \/ \E i \in Items : SpawnWorker(i) \/ SpawnError(i) \/ AssignWorker(i)

----------------------------------------------------------------------------
(* The workers.                                                            *)

\* Mutant: a report that is late is taken.
ReportLate(i) ==
    /\ worker[i] \in Alive /\ item[i] # "pending"
    /\ item' = [item EXCEPT ![i] = "completed"]
    /\ stopping' \in {stopping, stopping \cup {i}}
    /\ UNCHANGED <<runner, todo, active, overdue, cancelSeen, jobStatus, worker, exported>>

\* report_agent_job_item_result, accepted.  It is refused, and changes nothing,
\* unless the item is running and assigned to the one who reports.
Report(i) ==
    /\ worker[i] \in Alive /\ item[i] = "running"
    /\ item' = [item EXCEPT ![i] = "completed"]
    /\ stopping' \in {stopping, stopping \cup {i}}
    /\ UNCHANGED <<runner, todo, active, overdue, cancelSeen, jobStatus, worker, exported>>

\* mark_agent_job_cancelled, for a report with stop.
CancelJob(i) ==
    /\ i \in stopping
    /\ stopping' = stopping \ {i}
    /\ jobStatus' = IF jobStatus = "running" THEN "cancelled" ELSE jobStatus
    /\ UNCHANGED <<runner, todo, active, overdue, cancelSeen, item, worker, exported>>

\* The status of the worker is final: its turn is over, with or without an
\* error; or it is shut down.  A report in its hands may be lost half-way.
WorkerEnds(i) ==
    /\ worker[i] \in {"working", "closing"}
    /\ worker' = [worker EXCEPT ![i] = IF worker[i] = "working" THEN "final" ELSE "gone"]
    /\ stopping' = stopping \ {i}
    /\ UNCHANGED <<runner, todo, active, overdue, cancelSeen, rowVars, exported>>

\* TurnStarted: somebody has sent it a message.
WorkerGoesOn(i) ==
    /\ worker[i] = "final"
    /\ worker' = [worker EXCEPT ![i] = "working"]
    /\ UNCHANGED <<runner, todo, active, overdue, cancelSeen, rowVars, stopping, exported>>

TimeIsUp(i) ==
    /\ i \in active \ overdue
    /\ overdue' = overdue \cup {i}
    /\ UNCHANGED <<runner, todo, active, cancelSeen, rowVars, agentVars, exported>>

JobDone ==
    /\ runner \in Cut \cup {"over"} /\ \A i \in Items : worker[i] \in {"none", "gone"}
    /\ UNCHANGED jobVars

JobNext ==
    \/ RunnerStep \/ RunnerBreaks \/ RunnerDropped \/ JobDone
    \/ \E i \in Items : Report(i) \/ CancelJob(i) \/ WorkerEnds(i) \/ WorkerGoesOn(i) \/ TimeIsUp(i)

JobSpec == JobInit /\ [][JobNext]_jobVars

\* The runtime polls the runner, and time passes.  Workers owe nothing.
JobFairness ==
    /\ WF_jobVars(RunnerStep)
    /\ \A i \in Items : WF_jobVars(TimeIsUp(i))

FairJobSpec == JobSpec /\ JobFairness

----------------------------------------------------------------------------
(* Properties.                                                             *)

\* When the runner leaves its loop no item is running and none of its workers
\* is at work, nothing is pending in a completed job, and the CSV it left says
\* of each item what the table says.
JobLeavesNothing ==
    /\ runner \in Closing \cup {"over"} =>
          \A i \in Items : item[i] # "running" /\ worker[i] \notin {"working", "final"}
    /\ runner = "over" /\ jobStatus = "completed" => With("pending") = {}
    /\ runner = "over" /\ jobStatus # "failed" => exported = item

\* An item that is completed or failed stays so: a report that comes after its
\* item was given up, or an item given up after its report, changes nothing.
FinalItemsStay ==
    [][\A i \in Items : item[i] \in FinalItem => item'[i] = item[i]]_jobVars

\* An item that is running is completed or failed in the end, whether its
\* worker reports, ends without a report, or hangs; but not when the runner is
\* cut off.
ItemsSettle ==
    \A i \in Items : item[i] = "running" ~> item[i] \in FinalItem \/ runner \in Cut

\* The call runs the job to completion.
JobEnds == runner = "look" ~> runner \notin Looping
=============================================================================
