------------------------------ MODULE MCWaiting ------------------------------
(* The places where a task waits for what another does and may miss it:    *)
(* the readiness flag, the pending network approvals, the end of the       *)
(* output of a process, and the answers of clients.  A behaviour is one of *)
(* one of them, as `waits` says from the start.                            *)
EXTENDS Readiness, ClientRequests, TLC

CONSTANTS s1, s2, w1, w2, r1, r2, r3, h1, NoRequest, NoAttempt, NoCall, NoId, c1, k1, k2

MCSubscribers == {s1, s2}
MCWaiters == {w1, w2}
MCConnections == {k1, k2}
MCRequests == {r1}

VARIABLES
    waits,
    activeCalls, callOutcomes, pendingHosts, approved, denied, decision, listening, notified,
    requestPC, host, joined, answer, blames, callPC, result, userDenied,
    execStage, processId, writing, taken, processes, reserved, used, process, exitToken,
    streaming, drained, watcher, ends, netApprovals, terminating, cleanups, abandoned, reissuable

Network == INSTANCE NetworkApproval WITH
    Requests <- {r1, r2, r3}, Impatient <- {}, Hosts <- {h1}, Attempts <- {}, pc <- requestPC,
    pending <- pendingHosts

networkVars ==
    <<activeCalls, callOutcomes, pendingHosts, approved, denied, decision, listening, notified,
      requestPC, host, joined, answer, blames, callPC, result, userDenied>>

Exec == INSTANCE UnifiedExec WITH
    Calls <- {c1}, Writers <- {w1}, ProcessIds <- {1}, MaxProcesses <- 1, RecentlyUsed <- 0,
    MaxCleanups <- 1, stage <- execStage

execVars ==
    <<execStage, processId, writing, taken, processes, reserved, used, process, exitToken,
      streaming, drained, watcher, ends, netApprovals, terminating, cleanups, abandoned, reissuable>>

allVars == <<waits, vars, networkVars, execVars, clientVars>>

WaitingInit ==
    /\ waits \in {"flag", "approval", "exit", "answer"}
    /\ Init /\ Network!NetworkInit /\ Exec!ExecInit /\ ClientInit
    /\ subscribed = {k1} \* either connection will do

WaitingNext ==
    \/ waits = "flag" /\ Next /\ UNCHANGED <<waits, networkVars, execVars, clientVars>>
    \/ waits = "approval" /\ Network!NetworkNext /\ UNCHANGED <<waits, vars, execVars, clientVars>>
    \/ waits = "exit" /\ Exec!ExecNext /\ UNCHANGED <<waits, vars, networkVars, clientVars>>
    \/ waits = "answer" /\ ClientNext /\ UNCHANGED <<waits, vars, networkVars, execVars>>

WaitingSpec ==
    /\ WaitingInit /\ [][WaitingNext]_allVars
    /\ \A s \in Subscribers : WF_vars(waits = "flag" /\ SubscriberStep(s))
    /\ \A w \in Waiters : WF_vars(waits = "flag" /\ WaitReady(w))
    /\ \A r \in {r1, r2, r3} :
          WF_networkVars(waits = "approval" /\ Network!RequestStep(r))
    /\ WF_execVars(waits = "exit" /\ Exec!CallStep(c1))
    /\ WF_execVars(waits = "exit" /\ Exec!EndStep(c1))
    /\ WF_clientVars(waits = "answer" /\ ListenerGoesOn)
    /\ WF_clientVars(waits = "answer" /\ Teardown)
    /\ WF_clientVars(waits = "answer" /\ WaiterStep(r1))
    /\ SF_clientVars(waits = "answer" /\ TakeResolve(r1))
    /\ SF_clientVars(waits = "answer" /\ StopListener)

\* NetworkApproval's: every connection whose client stays is decided.
RequestDecided == Network!RequestDecided

\* UnifiedExec's: the end of every process is reported.
EndReported == Exec!EndReported
=============================================================================
