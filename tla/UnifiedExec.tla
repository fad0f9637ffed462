----------------------------- MODULE UnifiedExec -----------------------------
(***************************************************************************)
(* The processes that exec_command opens and may leave running: the store  *)
(* of the session's UnifiedExecProcessManager, the calls that put them     *)
(* there, the write_stdin calls that poll them, the tasks that stream      *)
(* their output and report their end, and terminate_all_processes.         *)
(*                                                                         *)
(* A process is named by the call that opened it.  A step is what a task   *)
(* does from one await to the next, and a call may be dropped at any await *)
(* when its turn is interrupted.  The last reference to a process that is  *)
(* dropped terminates it.                                                  *)
(***************************************************************************)
EXTENDS Naturals, FiniteSets

CONSTANTS
    Calls,          \* exec_command calls
    Writers,        \* write_stdin calls
    ProcessIds,     \* the numbers that processes are given
    NoCall, NoId,
    MaxProcesses,   \* MAX_UNIFIED_EXEC_PROCESSES
    RecentlyUsed,   \* how many of the last used are never pruned
    MaxCleanups     \* bound on terminate_all_processes

ASSUME ExecAssumption ==
    /\ Calls \cap Writers = {}
    /\ NoCall \notin Calls \cup Writers
    /\ NoId \notin ProcessIds
    /\ IsFiniteSet(Calls)
    /\ MaxProcesses \in Nat /\ RecentlyUsed \in Nat /\ MaxCleanups \in Nat
    /\ RecentlyUsed < MaxProcesses

VARIABLES
    stage,        \* where each exec_command call is
    processId,    \* the id it was given
    writing,      \* the id that each write_stdin call polls
    taken,        \* the entry each call took out of the store and has to clean up
    processes,    \* ProcessStore.processes
    reserved,     \* ProcessStore.reserved_process_ids
    used,         \* <<c, d>>: the last_used of c is before that of d
    process,      \* the state of each process
    exitToken,    \* those whose cancellation_token is cancelled
    streaming,    \* the task that streams the output of each
    drained,      \* those whose output_drained holds a permit
    watcher,      \* the task that reports the end of each
    ends,         \* the number of ExecCommandEnd events of each
    netApprovals, \* those registered with the network approvals
    terminating,  \* what terminate_all_processes drained and has to terminate
    cleanups,     \* counts terminate_all_processes
    abandoned,    \* history: those whose cleanup was cut short by a dropped call
    reissuable    \* history: ids unreserved while a call went on to use them

callVars == <<stage, processId, writing, taken>>
storeVars == <<processes, reserved, used>>
endVars == <<streaming, drained, watcher, ends>>
cleanupVars == <<terminating, cleanups, reissuable>>
execVars == <<callVars, storeVars, process, exitToken, endVars, netApprovals, cleanupVars, abandoned>>

Stages ==
    {"off", "open", "failed", "begin", "store", "prune", "warn", "collect", "unregister",
     "short", "release", "finish", "done", "dropped"}

\* exec_command has the process in a local variable.
WithProcess == {"begin", "store", "prune", "warn", "collect", "unregister",
                "short", "release", "finish"}

ExecTypeOK ==
    /\ stage \in [Calls -> Stages]
    /\ processId \in [Calls -> ProcessIds \cup {NoId}]
    /\ writing \in [Writers -> ProcessIds \cup {NoId}]
    /\ taken \in [Calls \cup Writers -> Calls \cup {NoCall}]
    /\ processes \in [ProcessIds -> Calls \cup {NoCall}]
    /\ reserved \subseteq ProcessIds
    /\ used \subseteq Calls \X Calls
    /\ process \in [Calls -> {"none", "running", "exited", "killed"}]
    /\ exitToken \subseteq Calls
    /\ streaming \in [Calls -> {"off", "on", "done"}]
    /\ drained \subseteq Calls
    /\ watcher \in [Calls -> {"off", "token", "drained", "done"}]
    /\ ends \in [Calls -> Nat]
    /\ netApprovals \subseteq Calls
    /\ terminating \subseteq Calls
    /\ cleanups \in 0..MaxCleanups
    /\ abandoned \subseteq Calls
    /\ reissuable \subseteq ProcessIds

ExecInit ==
    /\ stage = [c \in Calls |-> "off"]
    /\ processId = [c \in Calls |-> NoId]
    /\ writing = [w \in Writers |-> NoId]
    /\ taken = [x \in Calls \cup Writers |-> NoCall]
    /\ processes = [i \in ProcessIds |-> NoCall]
    /\ reserved = {}
    /\ used = {}
    /\ process = [c \in Calls |-> "none"]
    /\ exitToken = {}
    /\ streaming = [c \in Calls |-> "off"]
    /\ drained = {}
    /\ watcher = [c \in Calls |-> "off"]
    /\ ends = [c \in Calls |-> 0]
    /\ netApprovals = {}
    /\ terminating = {}
    /\ cleanups = 0
    /\ abandoned = {}
    /\ reissuable = {}

-----------------------------------------------------------------------------
(* References to a process *)

Stored(c) == \E i \in ProcessIds : processes[i] = c

StoredCalls == {c \in Calls : Stored(c)}

Referenced(c) ==
    \/ stage[c] \in WithProcess
    \/ Stored(c)
    \/ \E x \in Calls \cup Writers : taken[x] = c
    \/ c \in terminating
    \/ watcher[c] \in {"token", "drained"}

\* The processes of `killed` are terminated, and so is each one whose last
\* reference this step drops.
Terminate(killed) ==
    LET over == {c \in Calls : process[c] # "none" /\ (c \in killed \/ ~Referenced(c)')}
    IN  /\ process' = [c \in Calls |-> IF c \in over /\ process[c] = "running" THEN "killed"
                                       ELSE process[c]]
        /\ exitToken' = exitToken \cup over

Go(c, from, to) == stage[c] = from /\ stage' = [stage EXCEPT ![c] = to]

-----------------------------------------------------------------------------
(* exec_command *)

\* Mutant: only the ids of stored processes are avoided.
AllocateUnstoredId(c) ==
    /\ Go(c, "off", "open")
    /\ \E i \in {j \in ProcessIds : processes[j] = NoCall} :
          /\ processId' = [processId EXCEPT ![c] = i]
          /\ reserved' = reserved \cup {i}
    /\ UNCHANGED <<writing, taken, processes, used, process, exitToken, endVars, netApprovals,
                   cleanupVars, abandoned>>

\* allocate_process_id draws numbers until one is not reserved.
AllocateProcessId(c) ==
    /\ Go(c, "off", "open")
    /\ \E i \in ProcessIds \ reserved :
          /\ processId' = [processId EXCEPT ![c] = i]
          /\ reserved' = reserved \cup {i}
    /\ UNCHANGED <<writing, taken, processes, used, process, exitToken, endVars, netApprovals,
                   cleanupVars, abandoned>>

\* The handler gives up before it calls exec_command, and keeps the id: no shell
\* for the command, or a patch that cannot be applied.
RefuseCommand(c) ==
    /\ Go(c, "open", "done")
    /\ UNCHANGED <<processId, writing, taken, storeVars, process, exitToken, endVars, netApprovals,
                   cleanupVars, abandoned>>

\* open_session_with_sandbox, up to an approval and two attempts long; a process
\* that ends at once is known to have exited.  Each is registered: unregistering
\* one that is not does nothing.
OpenSession(c) ==
    /\ Go(c, "open", "begin")
    /\ \/ process' = [process EXCEPT ![c] = "running"] /\ UNCHANGED exitToken
       \/ process' = [process EXCEPT ![c] = "exited"] /\ exitToken' = exitToken \cup {c}
    /\ netApprovals' = netApprovals \cup {c}
    /\ UNCHANGED <<processId, writing, taken, storeVars, endVars, cleanupVars, abandoned>>

FailToOpen(c) ==
    /\ Go(c, "open", "failed")
    /\ UNCHANGED <<processId, writing, taken, storeVars, process, exitToken, endVars, netApprovals,
                   cleanupVars, abandoned>>

\* last_used becomes the present.
Use(c) == used' = {before \in used : before[1] # c} \cup ((Calls \ {c}) \X {c})

\* The begin event is sent, the output is streamed from here on, and the call
\* looks once whether the process is still alive.
EmitBegin(c) ==
    /\ Go(c, "begin", IF process[c] = "running" THEN "store" ELSE "short")
    /\ streaming' = [streaming EXCEPT ![c] = "on"]
    /\ Use(c)
    /\ UNCHANGED <<processId, writing, taken, processes, reserved, process, exitToken, drained,
                   watcher, ends, netApprovals, cleanupVars, abandoned>>

\* process_id_to_prune_from_meta: of the processes that were not used recently,
\* the oldest that has exited, or the oldest.
OldProcesses ==
    {c \in StoredCalls :
        Cardinality({d \in StoredCalls : <<c, d>> \in used}) >= RecentlyUsed}

IsPruned(c) ==
    LET exited == {d \in OldProcesses : process[d] = "exited"}
        candidates == IF exited # {} THEN exited ELSE OldProcesses
    IN  c \in candidates /\ \A d \in candidates \ {c} : <<c, d>> \in used

\* spawn_exit_watcher; the call waits before it when the model is warned that
\* the store is nearly full.
Watch(c, warned) ==
    /\ stage' = [stage EXCEPT ![c] = IF warned THEN "warn" ELSE "collect"]
    /\ watcher' = IF warned THEN watcher ELSE [watcher EXCEPT ![c] = "token"]
    /\ UNCHANGED <<streaming, drained, ends>>

\* store_process makes room and inserts under one lock.
StoreWithRoom(c) ==
    /\ stage[c] = "store"
    /\ Cardinality(StoredCalls) < MaxProcesses
    /\ processes' = [processes EXCEPT ![processId[c]] = c]
    /\ \E warned \in BOOLEAN : Watch(c, warned)
    /\ UNCHANGED <<processId, writing, taken, reserved, used, netApprovals, cleanupVars, abandoned>>
    /\ Terminate({})

StoreAndPrune(c) ==
    /\ Go(c, "store", "prune")
    /\ Cardinality(StoredCalls) >= MaxProcesses
    /\ \E pruned \in StoredCalls :
          /\ IsPruned(pruned)
          /\ processes' = [i \in ProcessIds |->
                 IF i = processId[c] THEN c
                 ELSE IF processes[i] = pruned THEN NoCall ELSE processes[i]]
          /\ reserved' = reserved \ {processId[pruned]}
          /\ taken' = [taken EXCEPT ![c] = pruned]
    /\ UNCHANGED <<processId, writing, used, endVars, netApprovals, cleanupVars, abandoned>>
    /\ Terminate({})

\* Mutant: the pruned entry is dropped and not terminated.
DropPruned(c) ==
    /\ stage[c] = "prune"
    /\ netApprovals' = netApprovals \ {taken[c]}
    /\ taken' = [taken EXCEPT ![c] = NoCall]
    /\ \E warned \in BOOLEAN : Watch(c, warned)
    /\ UNCHANGED <<processId, writing, storeVars, cleanupVars, abandoned>>
    /\ Terminate({})

\* Only after the lock is the pruned process unregistered and terminated.
TerminatePruned(c) ==
    /\ stage[c] = "prune"
    /\ netApprovals' = netApprovals \ {taken[c]}
    /\ taken' = [taken EXCEPT ![c] = NoCall]
    /\ \E warned \in BOOLEAN : Watch(c, warned)
    /\ UNCHANGED <<processId, writing, storeVars, cleanupVars, abandoned>>
    /\ Terminate({taken[c]})

WarnModel(c) ==
    /\ stage[c] = "warn"
    /\ Watch(c, FALSE)
    /\ UNCHANGED <<processId, writing, taken, storeVars, process, exitToken, netApprovals,
                   cleanupVars, abandoned>>

\* ProcessStore::remove
Remove(x, i) ==
    /\ processes' = [processes EXCEPT ![i] = NoCall]
    /\ reserved' = reserved \ {i}
    /\ taken' = [taken EXCEPT ![x] = processes[i]]

\* refresh_process_state, by the call or writer x: a process that has exited is
\* taken out of the store.
RefreshProcessState(x, i) ==
    IF processes[i] # NoCall /\ process[processes[i]] = "exited"
    THEN Remove(x, i)
    ELSE UNCHANGED <<processes, reserved, taken>>

\* Mutant: the call looks again whether the process is alive.
RefreshOrReport(c) ==
    /\ Go(c, "collect", CASE process[c] = "exited" -> "short"
                          [] OTHER -> "done")
    /\ UNCHANGED <<processId, writing, taken, storeVars, endVars, netApprovals, cleanupVars,
                   abandoned>>
    /\ Terminate({})

\* The output is collected until the deadline or the exit.
RefreshCall(c) ==
    /\ stage[c] = "collect"
    /\ RefreshProcessState(c, processId[c])
    /\ stage' = [stage EXCEPT ![c] = IF taken' = taken THEN "done" ELSE "unregister"]
    /\ UNCHANGED <<processId, writing, used, endVars, netApprovals, cleanupVars, abandoned>>
    /\ Terminate({})

\* A short-lived process was never stored, and its call reports its end.
EmitEnd(c) ==
    /\ Go(c, "short", "release")
    /\ ends' = [ends EXCEPT ![c] = @ + 1]
    /\ UNCHANGED <<processId, writing, taken, storeVars, process, exitToken, streaming, drained,
                   watcher, netApprovals, cleanupVars, abandoned>>

\* release_process_id, after a failure or a short-lived process.
ReleaseProcessId(c) ==
    /\ \/ Go(c, "failed", "unregister")
       \/ Go(c, "release", "finish")
    /\ Remove(c, processId[c])
    /\ UNCHANGED <<processId, writing, used, process, exitToken, endVars, netApprovals,
                   cleanupVars, abandoned>>

\* unregister_network_approval_for_entry, and the entry is dropped.
UnregisterTaken(c) ==
    /\ stage[c] \in {"unregister", "finish"}
    /\ taken[c] # NoCall
    /\ netApprovals' = netApprovals \ {taken[c]}
    /\ taken' = [taken EXCEPT ![c] = NoCall]
    /\ UNCHANGED stage
    /\ UNCHANGED <<processId, writing, storeVars, endVars, cleanupVars, abandoned>>
    /\ Terminate({})

\* exec_command returns; the approval of a short-lived process ends with it.
Return(c) ==
    /\ stage[c] \in {"unregister", "finish"}
    /\ taken[c] = NoCall
    /\ stage' = [stage EXCEPT ![c] = "done"]
    /\ netApprovals' = IF stage[c] = "finish" THEN netApprovals \ {c} ELSE netApprovals
    /\ UNCHANGED <<processId, writing, taken, storeVars, endVars, cleanupVars, abandoned>>
    /\ Terminate({})

\* The turn is interrupted and the call dropped at an await.
DropCall(c) ==
    /\ stage[c] \notin {"off", "done", "dropped"}
    /\ stage' = [stage EXCEPT ![c] = "dropped"]
    /\ taken' = [taken EXCEPT ![c] = NoCall]
    /\ abandoned' = abandoned \cup ({taken[c]} \ {NoCall})
           \cup (IF stage[c] \in {"begin", "store", "short", "release", "finish"} THEN {c} ELSE {})
    /\ UNCHANGED <<processId, writing, storeVars, endVars, netApprovals, cleanupVars>>
    /\ Terminate({})

CallStep(c) ==
    \/ OpenSession(c) \/ FailToOpen(c) \/ EmitBegin(c)
    \/ StoreWithRoom(c) \/ StoreAndPrune(c)
    \/ TerminatePruned(c) \/ WarnModel(c) \/ RefreshCall(c)
    \/ EmitEnd(c) \/ ReleaseProcessId(c) \/ UnregisterTaken(c) \/ Return(c)

-----------------------------------------------------------------------------
(* write_stdin *)

\* prepare_process_handles
PrepareWrite(w, i) ==
    /\ writing[w] = NoId /\ taken[w] = NoCall
    /\ processes[i] # NoCall
    /\ writing' = [writing EXCEPT ![w] = i]
    /\ Use(processes[i])
    /\ UNCHANGED <<stage, processId, taken, processes, reserved, process, exitToken, endVars,
                   netApprovals, cleanupVars, abandoned>>

RefreshWrite(w) ==
    /\ writing[w] # NoId
    /\ RefreshProcessState(w, writing[w])
    /\ writing' = [writing EXCEPT ![w] = NoId]
    /\ UNCHANGED <<stage, processId, used, endVars, netApprovals, cleanupVars, abandoned>>
    /\ Terminate({})

UnregisterWritten(w) ==
    /\ taken[w] # NoCall
    /\ netApprovals' = netApprovals \ {taken[w]}
    /\ taken' = [taken EXCEPT ![w] = NoCall]
    /\ UNCHANGED <<stage, processId, writing, storeVars, endVars, cleanupVars, abandoned>>
    /\ Terminate({})

\* The call is dropped, or its input cannot be written.
DropWriter(w) ==
    /\ writing[w] # NoId \/ taken[w] # NoCall
    /\ writing' = [writing EXCEPT ![w] = NoId]
    /\ taken' = [taken EXCEPT ![w] = NoCall]
    /\ abandoned' = abandoned \cup ({taken[w]} \ {NoCall})
    /\ UNCHANGED <<stage, processId, storeVars, endVars, netApprovals, cleanupVars>>
    /\ Terminate({})

WriterStep(w) ==
    \/ \E i \in ProcessIds : PrepareWrite(w, i)
    \/ RefreshWrite(w) \/ UnregisterWritten(w) \/ DropWriter(w)

-----------------------------------------------------------------------------
(* The process and its tasks *)

Exit(c) ==
    /\ process[c] = "running"
    /\ process' = [process EXCEPT ![c] = "exited"]
    /\ UNCHANGED <<callVars, storeVars, exitToken, endVars, netApprovals, cleanupVars, abandoned>>

\* The task of from_spawned that waits for the exit.
CancelToken(c) ==
    /\ process[c] = "exited" /\ c \notin exitToken
    /\ exitToken' = exitToken \cup {c}
    /\ UNCHANGED <<callVars, storeVars, process, endVars, netApprovals, cleanupVars, abandoned>>

\* Mutant: notify_waiters in place of notify_one, which leaves no permit.
StopStreamingUnlatched(c) ==
    /\ streaming[c] = "on"
    /\ streaming' = [streaming EXCEPT ![c] = "done"]
    /\ drained' = IF watcher[c] = "drained" THEN drained \cup {c} ELSE drained
    /\ UNCHANGED <<callVars, storeVars, process, exitToken, watcher, ends, netApprovals,
                   cleanupVars, abandoned>>

\* The streaming task ends and leaves a permit for the watcher.
StopStreaming(c) ==
    /\ streaming[c] = "on"
    /\ streaming' = [streaming EXCEPT ![c] = "done"]
    /\ drained' = drained \cup {c}
    /\ UNCHANGED <<callVars, storeVars, process, exitToken, watcher, ends, netApprovals,
                   cleanupVars, abandoned>>

\* A process behind pipes closes or redirects its output and goes on running.
CloseOutput(c) == process[c] = "running" /\ StopStreaming(c)

\* The output of a process that is over ends, or its time of grace does.
EndStream(c) == (c \in exitToken \/ process[c] # "running") /\ StopStreaming(c)

WatchExit(c) ==
    /\ watcher[c] = "token" /\ c \in exitToken
    /\ watcher' = [watcher EXCEPT ![c] = "drained"]
    /\ UNCHANGED <<callVars, storeVars, process, exitToken, streaming, drained, ends, netApprovals,
                   cleanupVars, abandoned>>

ReportEnd(c) ==
    /\ watcher[c] = "drained" /\ c \in drained
    /\ watcher' = [watcher EXCEPT ![c] = "done"]
    /\ drained' = drained \ {c}
    /\ ends' = [ends EXCEPT ![c] = @ + 1]
    /\ UNCHANGED <<callVars, storeVars, streaming, netApprovals, cleanupVars, abandoned>>
    /\ Terminate({})

EndStep(c) == CancelToken(c) \/ EndStream(c) \/ WatchExit(c) \/ ReportEnd(c)

-----------------------------------------------------------------------------
(* terminate_all_processes *)

\* The calls that have an id and no entry yet, or will give it back.
UsesReservation(c) == stage[c] \in {"open", "failed", "begin", "store", "short", "release"}

\* The store is emptied, and every reservation with it, those of calls that go on
\* to use their number included.
DrainStore ==
    /\ terminating = {} /\ cleanups < MaxCleanups
    /\ cleanups' = cleanups + 1
    /\ processes' = [i \in ProcessIds |-> NoCall]
    /\ reserved' = {}
    /\ terminating' = StoredCalls
    /\ reissuable' = reissuable \cup {processId[c] : c \in {d \in Calls : UsesReservation(d)}}
    /\ UNCHANGED <<callVars, used, endVars, netApprovals, abandoned>>
    /\ Terminate({})

TerminateDrained(c) ==
    /\ c \in terminating
    /\ netApprovals' = netApprovals \ {c}
    /\ terminating' = terminating \ {c}
    /\ UNCHANGED <<callVars, storeVars, endVars, cleanups, reissuable, abandoned>>
    /\ Terminate({c})

-----------------------------------------------------------------------------

Quiet ==
    /\ \A c \in Calls : stage[c] \in {"done", "dropped"} /\ process[c] # "running"
    /\ UNCHANGED execVars

ExecNext ==
    \/ \E c \in Calls :
          \/ AllocateProcessId(c) \/ RefuseCommand(c) \/ CallStep(c) \/ DropCall(c)
          \/ Exit(c) \/ CloseOutput(c) \/ EndStep(c) \/ TerminateDrained(c)
    \/ \E w \in Writers : WriterStep(w)
    \/ DrainStore
    \/ Quiet

\* The runtime polls every task that can go on; collecting output ends at its
\* deadline.  Nothing makes a process exit or close its output, or a turn be
\* interrupted.
ExecFairness ==
    \A c \in Calls :
        WF_execVars(CallStep(c)) /\ WF_execVars(EndStep(c)) /\ WF_execVars(TerminateDrained(c))

ExecSpec == ExecInit /\ [][ExecNext]_execVars

ExecFairSpec == ExecSpec /\ ExecFairness

-----------------------------------------------------------------------------
(* Properties *)

\* The store holds no more processes than it may, also when several calls store
\* theirs at once.
StoreWithinLimit == Cardinality(StoredCalls) <= MaxProcesses

\* The end of a process is reported once: by its call if it was over when the
\* call looked, by its watcher if it was not, however the exit and the end of
\* the output fall.
EndReportedOnce == \A c \in Calls : ends[c] <= 1

\* Two processes are never known by one number, unless terminate_all_processes
\* gave the number of a call free that then used it.
Uses(c) == UsesReservation(c) \/ Stored(c)

OneProcessPerId ==
    \A c, d \in Calls :
        Uses(c) /\ Uses(d) /\ processId[c] = processId[d] =>
            c = d \/ processId[c] \in reissuable

\* Nothing is left behind: a process that runs, and one that is registered with
\* the network approvals, is in the store, in the hands of a call that goes on,
\* or about to be terminated, but for a call dropped in the middle of a cleanup.
CaredFor(c) ==
    \/ Stored(c)
    \/ stage[c] \in {"begin", "store", "short", "release", "finish"}
    \/ \E x \in Calls \cup Writers : taken[x] = c
    \/ c \in terminating

NothingLeftBehind ==
    \A c \in Calls :
        process[c] = "running" \/ c \in netApprovals =>
            CaredFor(c) \/ c \in abandoned \/ processId[c] \in reissuable

\* No end is lost between the tasks: while the end of a process that is over is
\* not reported, its call is on the way to see to it, or its watcher waits and
\* will be told that the output ended, unless the call was dropped before the
\* watcher was there.
EndIsComing ==
    \A c \in Calls :
        process[c] \in {"exited", "killed"} =>
            \/ ends[c] = 1
            \/ stage[c] \in {"begin", "store", "prune", "warn", "short"}
            \/ watcher[c] \in {"token", "drained"} /\ (streaming[c] = "on" \/ c \in drained)
            \/ stage[c] = "dropped" /\ watcher[c] = "off"

\* A process that is over has its end reported, also when its output ended
\* before anybody waited for that, or while the process went on, unless its call
\* was dropped before the watcher was there.
EndReported ==
    \A c \in Calls :
        process[c] \in {"exited", "killed"} ~>
            ends[c] > 0 \/ (stage[c] = "dropped" /\ watcher[c] = "off")
=============================================================================
