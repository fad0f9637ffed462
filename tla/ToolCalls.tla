------------------------------ MODULE ToolCalls ------------------------------
(* The tool calls of a turn.  A turn sends sampling requests to the model   *)
(* (run_turn); an attempt of a request reads the response stream, records   *)
(* each call in the history and starts its tool in a task at once; when the *)
(* stream is over it waits for the tools and records what they put out, in  *)
(* the order of the calls (try_run_sampling_request).  The tools of one     *)
(* request share a lock: exclusive ones take it for writing, parallel ones  *)
(* for reading, and mutating ones then wait for the gate of the turn, which *)
(* opens when its snapshot is done.  A stream that breaks drops the tools   *)
(* in flight, and the attempt is repeated with the same prompt; an          *)
(* interrupted turn is cancelled, and dropped where it stands if that takes *)
(* too long.                                                                *)
EXTENDS ContextHistory

CONSTANTS
    Calls,
    Custom, Search, Shell,      \* those of freeform tools, of tool_search, of local_shell
    Parallel, Mutating,         \* supports_parallel_tool_calls, is_mutating
    MaxTurns, MaxRequests, MaxRetries   \* bounds of a run

ASSUME CallsAssumption ==
    /\ NoCall \notin Calls
    /\ Custom \cap Search = {} /\ Custom \cap Shell = {} /\ Search \cap Shell = {}
ASSUME BoundsAssumption == MaxTurns \in Nat \ {0} /\ MaxRequests \in Nat /\ MaxRetries \in Nat

VARIABLES
    at,         \* where the turn's task is
    now,        \* the turn, its sampling request and attempt
    outcome,    \* of the stream that is over
    cancelled,  \* the cancellation token of the turn
    gateOpen,   \* the tool_call_gate of the turn is marked ready
    gateHeard,  \* and some tool was listening, so that its watch channel knows
    history,    \* the items of the ContextManager
    prompt,     \* the input of the sampling request
    calling,    \* the call whose item is recorded and whose tool is not started
    inFlight,   \* the FuturesOrdered of the attempt
    tool,       \* of each call, how far its task is, or that the server executes it
    origin,     \* and which attempt started it
    dropped     \* its handle was dropped, and the runtime has yet to drop the task

gateVars == <<gateOpen, gateHeard>>
turnVars == <<at, now, outcome, cancelled, gateVars>>
itemVars == <<history, prompt>>
toolVars == <<tool, origin, dropped>>
vars == <<turnVars, itemVars, calling, inFlight, toolVars>>

Attempts == [turn : 0..MaxTurns, request : 0..MaxRequests, retry : 0..MaxRetries]

ToolTypeOK ==
    /\ at \in {"build", "stream", "spawn", "drain", "backoff", "over"}
    /\ now \in Attempts /\ outcome \in {"completed", "closed"}
    /\ cancelled \in BOOLEAN /\ gateOpen \in BOOLEAN /\ gateHeard \in BOOLEAN
    /\ calling \in Calls \cup {NoCall} /\ inFlight \in Seq(Calls)
    /\ tool \in [Calls -> {"none", "server", "queued", "gate", "listening", "running", "result", "fatal", "gone"}]
    /\ origin \in [Calls -> Attempts] /\ dropped \subseteq Calls

Kind(c) == IF c \in Custom THEN "custom" ELSE IF c \in Search THEN "search" ELSE "function"

Busy == {c \in Calls : tool[c] \in {"queued", "gate", "listening", "running"}}

\* Those that hold the lock.
Started == {c \in Calls : tool[c] \in {"gate", "listening", "running"}}

\* The thread is new, or resumed after it went down with a call unanswered, and
\* with the output of a search that the server did.
Init ==
    /\ at = "build" /\ now = [turn |-> 1, request |-> 0, retry |-> 0]
    /\ outcome = "completed" /\ cancelled = FALSE /\ gateOpen = FALSE /\ gateHeard = FALSE
    /\ \/ history = <<UserMessage>>
       \/ \E c \in Calls : history = <<UserMessage, ServerOutput(NoCall), CallItem(Kind(c), c), UserMessage>>
    /\ prompt = <<>>
    /\ calling = NoCall /\ inFlight = <<>>
    /\ tool = [c \in Calls |-> "none"]
    /\ origin = [c \in Calls |-> now] /\ dropped = {}

----------------------------------------------------------------------------
(* The turn's task.                                                        *)

\* The loop of run_turn, and the runtime of tools, with its lock, for it.  The
\* prompt is ForPrompt(history): \E has TLC evaluate what is bound once.
BuildPrompt ==
    /\ at = "build" /\ now.request < MaxRequests
    /\ \E items \in {EnsureCallOutputsPresent(history)} : prompt' = RemoveOrphanOutputs(items)
    /\ now' = [turn |-> now.turn, request |-> now.request + 1, retry |-> 0]
    /\ at' = "stream"
    /\ UNCHANGED <<outcome, cancelled, gateVars, history, calling, inFlight, toolVars>>

\* built_tools notices the cancellation.
StopBuilding ==
    /\ at = "build" /\ cancelled /\ at' = "over"
    /\ UNCHANGED <<now, outcome, cancelled, gateVars, itemVars, calling, inFlight, toolVars>>

\* The response may have the call.
MayCall(c) ==
    /\ at = "stream" /\ tool[c] = "none" /\ calling = NoCall
    /\ \A i \in DOMAIN history : IsCall(history[i]) => history[i].id # c

\* OutputItemDone: the item is recorded at once; that of a local shell may have no
\* call id ...
RecordCall(c) ==
    /\ MayCall(c)
    /\ \E id \in IF c \in Shell THEN {c, NoCall} ELSE {c} :
          history' = Append(history, CallItem(Kind(c), id))
    /\ calling' = c /\ at' = "spawn"
    /\ UNCHANGED <<now, outcome, cancelled, gateVars, prompt, inFlight, toolVars>>

\* ... and its tool started, for a shell call without a call id under its item's id.
SpawnTool ==
    /\ at = "spawn"
    /\ tool' = [tool EXCEPT ![calling] = "queued"]
    /\ origin' = [origin EXCEPT ![calling] = now]
    /\ inFlight' = Append(inFlight, calling)
    /\ calling' = NoCall /\ at' = "stream"
    /\ UNCHANGED <<now, outcome, cancelled, gateVars, itemVars, dropped>>

\* RespondToModel, MissingLocalShellCallId: a tool_search whose arguments do not
\* parse, and a shell call without any id, are answered with the output of a
\* function call that has no id.
AnswerDirectly ==
    /\ at = "spawn"
    /\ calling \in Search \/ (calling \in Shell /\ Last(history).id = NoCall)
    /\ history' = Append(history, OutputItem("function", NoCall))
    /\ tool' = [tool EXCEPT ![calling] = "gone"]
    /\ calling' = NoCall /\ at' = "stream"
    /\ UNCHANGED <<now, outcome, cancelled, gateVars, prompt, inFlight, origin, dropped>>

\* A search that the server executes, or that has no call id, is recorded only ...
RecordSearch(c) ==
    /\ c \in Search /\ MayCall(c)
    /\ \E id \in {c, NoCall} : history' = Append(history, CallItem("search", id))
    /\ tool' = [tool EXCEPT ![c] = "server"]
    /\ origin' = [origin EXCEPT ![c] = now]
    /\ UNCHANGED <<turnVars, prompt, calling, inFlight, dropped>>

\* ... and so is what the server puts out, later in the same response.
RecordServerOutput(c) ==
    /\ at = "stream" /\ tool[c] = "server" /\ origin[c] = now
    /\ LET id == IF CallItem("search", c) \in ToSet(history) THEN c ELSE NoCall
       IN history' = Append(history, ServerOutput(id))
    /\ tool' = [tool EXCEPT ![c] = "gone"]
    /\ UNCHANGED <<turnVars, prompt, calling, inFlight, origin, dropped>>

\* The response is complete, the stream ends before it is, or the token is
\* cancelled: what is in flight is waited for.
EndStream(how) ==
    /\ at = "stream" /\ at' = "drain" /\ outcome' = how
    /\ UNCHANGED <<now, cancelled, gateVars, itemVars, calling, inFlight, toolVars>>

StreamEnds == \E how \in {"completed", "closed"} : EndStream(how)

StreamCancelled == cancelled /\ EndStream("closed")

\* Mutant: their tasks are detached.
ForgetInFlight == inFlight' = <<>> /\ UNCHANGED dropped

\* The tools in flight go with their futures: AbortOnDropHandle.
DropInFlight ==
    /\ inFlight' = <<>>
    /\ dropped' = dropped \cup (ToSet(inFlight) \cap Busy)

\* The stream yields an error, which is returned at once.
StreamFails ==
    /\ at = "stream" /\ at' \in {"backoff", "over"}
    /\ DropInFlight
    /\ UNCHANGED <<now, outcome, cancelled, gateVars, itemVars, calling, tool, origin>>

\* Mutant: results are recorded as they come.
DrainAny ==
    /\ at = "drain"
    /\ \E i \in DOMAIN inFlight :
          /\ tool[inFlight[i]] \in {"result", "fatal"}
          /\ history' = IF tool[inFlight[i]] = "fatal" THEN history
                        ELSE Append(history, OutputItem(Kind(inFlight[i]), inFlight[i]))
          /\ inFlight' = RemoveAt(inFlight, i)
    /\ UNCHANGED <<turnVars, prompt, calling, toolVars>>

\* The next result in the order of the calls; a fatal error is only logged.
DrainNext ==
    /\ at = "drain" /\ inFlight # <<>>
    /\ LET c == Head(inFlight) IN
          /\ tool[c] \in {"result", "fatal"}
          /\ history' = IF tool[c] = "fatal" THEN history
                        ELSE Append(history, OutputItem(Kind(c), c))
    /\ inFlight' = Tail(inFlight)
    /\ UNCHANGED <<turnVars, prompt, calling, toolVars>>

\* A completed response is followed up, or is the last of the turn.
Drained ==
    /\ at = "drain" /\ inFlight = <<>>
    /\ at' \in IF cancelled THEN {"over"}
               ELSE IF outcome = "completed" THEN {"build", "over"} ELSE {"backoff"}
    /\ UNCHANGED <<now, outcome, cancelled, gateVars, itemVars, calling, inFlight, toolVars>>

\* Another attempt with the prompt and the lock of the first.
Retry ==
    /\ at = "backoff" /\ now.retry < MaxRetries
    /\ now' = [now EXCEPT !.retry = @ + 1]
    /\ at' = "stream"
    /\ UNCHANGED <<outcome, cancelled, gateVars, itemVars, calling, inFlight, toolVars>>

GiveUp ==
    /\ \/ at = "backoff" /\ now.retry = MaxRetries
       \/ at = "build" /\ now.request = MaxRequests
    /\ at' = "over"
    /\ UNCHANGED <<now, outcome, cancelled, gateVars, itemVars, calling, inFlight, toolVars>>

----------------------------------------------------------------------------
(* The task of a tool.                                                     *)

\* Mutant: a lock for each attempt.
LockOfAttempt(c) == origin[c]

\* One lock for all attempts of a sampling request.
Lock(c) == [turn |-> origin[c].turn, request |-> origin[c].request]

\* The lock queues those who wait; here any of them may be next.
Acquire(c) ==
    /\ tool[c] = "queued" /\ c \notin dropped
    /\ \A d \in Started : Lock(d) = Lock(c) => {c, d} \subseteq Parallel
    /\ tool' = [tool EXCEPT ![c] = IF c \in Mutating /\ ~gateOpen THEN "gate" ELSE "running"]
    /\ UNCHANGED <<turnVars, itemVars, calling, inFlight, origin, dropped>>

\* wait_ready: the flag was down, and the tool subscribes to its channel.
Listen(c) ==
    /\ tool[c] = "gate" /\ c \notin dropped
    /\ tool' = [tool EXCEPT ![c] = "listening"]
    /\ UNCHANGED <<turnVars, itemVars, calling, inFlight, origin, dropped>>

PassGate(c) ==
    /\ tool[c] = "listening" /\ c \notin dropped /\ gateHeard
    /\ tool' = [tool EXCEPT ![c] = "running"]
    /\ UNCHANGED <<turnVars, itemVars, calling, inFlight, origin, dropped>>

\* An output, also one that says what failed; or a fatal error.
Finish(c) ==
    /\ tool[c] = "running" /\ c \notin dropped
    /\ \E end \in {"result", "fatal"} : tool' = [tool EXCEPT ![c] = end]
    /\ UNCHANGED <<turnVars, itemVars, calling, inFlight, origin, dropped>>

\* "aborted by user": the select drops the rest of the call, lock included.
CancelTool(c) ==
    /\ cancelled /\ c \in Busy \ dropped
    /\ tool' = [tool EXCEPT ![c] = "result"]
    /\ UNCHANGED <<turnVars, itemVars, calling, inFlight, origin, dropped>>

\* The runtime drops the task of a dropped handle, when it next suspends.
Reap(c) ==
    /\ c \in dropped
    /\ dropped' = dropped \ {c}
    /\ tool' = [tool EXCEPT ![c] = "gone"]
    /\ UNCHANGED <<turnVars, itemVars, calling, inFlight, origin>>

----------------------------------------------------------------------------
(* Those around.                                                           *)

\* Mutant: the snapshot waits until no tool works.
OpenGateAlone ==
    /\ at # "over" /\ ~gateOpen /\ Started = {} /\ gateOpen' = TRUE
    /\ UNCHANGED <<gateHeard, at, now, outcome, cancelled, itemVars, calling, inFlight, toolVars>>

\* The ghost snapshot is done or cancelled, and marks the gate: a mark nobody
\* listens to is lost on the channel (Readiness has the steps of both sides).
OpenGate ==
    /\ at # "over" /\ ~gateOpen /\ gateOpen' = TRUE
    /\ gateHeard' = \E c \in Calls : tool[c] = "listening"
    /\ UNCHANGED <<at, now, outcome, cancelled, itemVars, calling, inFlight, toolVars>>

Interrupt ==
    /\ at # "over" /\ ~cancelled /\ cancelled' = TRUE
    /\ UNCHANGED <<at, now, outcome, gateVars, itemVars, calling, inFlight, toolVars>>

\* The grace of handle_task_abort is over: the task goes, wherever it is.
AbortTask ==
    /\ at # "over" /\ cancelled /\ at' = "over"
    /\ DropInFlight
    /\ calling' = NoCall
    /\ UNCHANGED <<now, outcome, cancelled, gateVars, itemVars, tool, origin>>

StartTurn ==
    /\ at = "over" /\ now.turn < MaxTurns /\ now.request < MaxRequests
    /\ now' = [turn |-> now.turn + 1, request |-> now.request, retry |-> 0]
    /\ at' = "build" /\ cancelled' = FALSE /\ gateOpen' = FALSE /\ gateHeard' = FALSE
    /\ history' = Append(history, UserMessage)
    /\ UNCHANGED <<outcome, prompt, calling, inFlight, toolVars>>

\* thread_rollback, while no turn is active.
Rollback(n) ==
    /\ at = "over" /\ history' = DropLastNUserTurns(history, n)
    /\ prompt' = <<>>
    /\ UNCHANGED <<turnVars, calling, inFlight, toolVars>>

----------------------------------------------------------------------------
\* A stream that stays silent is ended by its idle timeout.
TurnGoesOn ==
    \/ BuildPrompt \/ StopBuilding \/ Retry \/ GiveUp
    \/ SpawnTool \/ StreamEnds \/ StreamCancelled \/ StreamFails
    \/ DrainNext \/ Drained

ToolGoesOn(c) == Acquire(c) \/ Listen(c) \/ PassGate(c) \/ Finish(c) \/ CancelTool(c) \/ Reap(c)

Next ==
    \/ TurnGoesOn \/ AnswerDirectly
    \/ \E c \in Calls :
          RecordCall(c) \/ RecordSearch(c) \/ RecordServerOutput(c) \/ ToolGoesOn(c)
    \/ OpenGate \/ Interrupt \/ AbortTask \/ StartTurn
    \/ \E n \in 1..MaxTurns : Rollback(n)

Spec == Init /\ [][Next]_vars

\* The runtime polls what is ready; tools and the snapshot come to an end.
Fairness ==
    /\ WF_vars(TurnGoesOn) /\ WF_vars(OpenGate)
    /\ \A c \in Calls : WF_vars(ToolGoesOn(c))

FairSpec == Spec /\ Fairness

----------------------------------------------------------------------------
\* Whatever became of the calls before, and also after a rollback, the model is
\* sent a call that has an id with its output, and no output alone but for those
\* of searches that may stand alone (normalize_history).
PromptIsPaired == IsPaired(prompt)

\* What the model was sent is not rewritten: but for rollbacks each prompt begins
\* with the one before (an output that is missing is put behind its call, and
\* never comes after all).
PromptsOnlyGrow == [][prompt' = <<>> \/ IsPrefix(prompt, prompt')]_prompt

IsToolOutput(item) == IsOutput(item) /\ item.execution = "client"

\* What the tools put out is recorded in the order of their calls, however they
\* end and streams break.
OutputsInCallOrder ==
    \A k, l \in DOMAIN history : k < l /\ IsToolOutput(history[k]) /\ IsToolOutput(history[l]) =>
        \A i, j \in DOMAIN history :
            Answers(history[k], history[i]) /\ Answers(history[l], history[j]) => i < j

SameRequest(c, d) ==
    origin[c].turn = origin[d].turn /\ origin[c].request = origin[d].request

\* A tool that is not parallel works alone: no tool of a broken stream that is
\* not gone yet works beside it in its request, and no tool still waited for in
\* any other (parallel_execution, drain_in_flight).
ExclusiveRunsAlone ==
    \A c, d \in Started :
        c # d /\ (SameRequest(c, d) \/ {c, d} \cap dropped = {}) => {c, d} \subseteq Parallel

\* No tool works that nobody waits for, but for those about to be dropped.
NoToolLeftBehind == Busy \subseteq ToSet(inFlight) \cup dropped

\* A tool listens for a mark that was lost: it waits until it is cancelled.
MissedGate == gateOpen /\ ~gateHeard /\ \E c \in Calls : tool[c] = "listening"

\* No call waits for ever for the lock, the gate or the calls before it: it is
\* answered, or given up with its attempt, unless a tool missed the gate.
CallsAreAnswered ==
    \A c \in Calls : (c \in ToSet(inFlight)) ~> (c \notin ToSet(inFlight) \/ MissedGate)
=============================================================================
