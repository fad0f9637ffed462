--------------------------- MODULE ClientRequests ---------------------------
(* The requests that the app server sends to the clients of a thread and   *)
(* waits for: approvals, questions of the model, elicitations, permissions *)
(* (API v2).  A thread has a *listener* task, which takes one event of the *)
(* thread or one command at a time; a request has a *waiter* task, which   *)
(* is spawned once the request is sent; and the *processor* handles what   *)
(* clients send, one message at a time.  They meet in the table of pending *)
(* requests and in the set of connections subscribed to the thread, each   *)
(* under a mutex: a step is one access.                                    *)
(* The module follows one load of a thread, until its state is removed.    *)
EXTENDS Integers, FiniteSets

CONSTANTS Connections, Requests, NoOne

ASSUME NoOneAssumption == NoOne \notin Connections \cup Requests
ASSUME RequestsAssumption == IsFiniteSet(Requests)

VARIABLES
    live,         \* live_connections
    subscribed,   \* connection_ids of the thread
    upToDate,     \* those of them that were there from the start, or resumed
    pending,      \* request_id_to_callback
    stage,        \* of each request, where its waiter is
    shown,        \* of each connection, the requests its client shows
    waitingFlag,  \* pending_permission_requests + pending_user_input_requests
    at,           \* where the listener is
    request,      \* the request, and
    connection,   \* the connection it works for
    targets,      \* the connections it has yet to send to
    backlog,      \* the requests it has yet to replay
    resumes,      \* connections with a SendThreadResumeResponse in its channel
    cleared,      \* clear_listener: nobody reaches the listener any more
    unload        \* where the processor is in the teardown of the thread

threadVars == <<live, subscribed, upToDate>>
listenerVars == <<at, request, connection, targets, backlog>>
clientVars == <<threadVars, pending, stage, shown, waitingFlag, listenerVars, resumes, cleared, unload>>

Stages == {"unsent", "noted", "sending", "waiting", "asking", "resolving", "releasing", "done"}

\* A ThreadWatchActiveGuard exists, or the task its drop spawned has yet to run.
Guarded == {q \in Requests : stage[q] \notin {"unsent", "done"}}

ClientTypeOK ==
    /\ live \subseteq Connections /\ subscribed \subseteq Connections
    /\ upToDate \subseteq subscribed
    /\ pending \subseteq Requests /\ stage \in [Requests -> Stages]
    /\ shown \in [Connections -> SUBSET Requests]
    /\ waitingFlag \in Nat
    /\ at \in {"select", "note", "insert", "send", "abort", "clear", "resolve",
               "compose", "list", "replay", "gone"}
    /\ request \in Requests \cup {NoOne} /\ connection \in Connections \cup {NoOne}
    /\ targets \subseteq Connections /\ backlog \subseteq Requests
    /\ resumes \subseteq Connections /\ cleared \in BOOLEAN
    /\ unload \in {"idle", "check", "cancel", "remove", "clear", "unloaded"}

ClientInit ==
    /\ live = Connections /\ subscribed \in {{c} : c \in Connections}
    /\ upToDate = subscribed
    /\ pending = {} /\ stage = [q \in Requests |-> "unsent"]
    /\ shown = [c \in Connections |-> {}]
    /\ waitingFlag = 0
    /\ at = "select" /\ request = NoOne /\ connection = NoOne
    /\ targets = {} /\ backlog = {} /\ resumes = {}
    /\ cleared = FALSE /\ unload = "idle"

\* The connections whose clients follow the thread: the subscribed ones, and
\* one that was told that it has resumed and is not attached yet.
Following == subscribed \cup (IF at \in {"list", "replay"} THEN {connection} ELSE {})

Show(c, q) ==
    shown' = [shown EXCEPT ![c] = IF c \in Following THEN @ \cup {q} ELSE @]

\* A client that leaves the thread closes what it showed of it.
CloseViews == shown' = [c \in Connections |-> IF c \in Following' THEN shown[c] ELSE {}]

----------------------------------------------------------------------------
(* The listener: an event that asks the clients for something.             *)

TakeRequest(q) ==
    /\ at = "select" /\ stage[q] = "unsent"
    /\ at' = "note" /\ request' = q /\ targets' = subscribed
    /\ UNCHANGED <<threadVars, pending, stage, shown, waitingFlag, connection, backlog,
                   resumes, cleared, unload>>

NotePermission ==
    /\ at = "note"
    /\ waitingFlag' = waitingFlag + 1
    /\ stage' = [stage EXCEPT ![request] = "noted"]
    /\ at' = "insert"
    /\ UNCHANGED <<threadVars, pending, shown, request, connection, targets, backlog,
                   resumes, cleared, unload>>

InsertCallback ==
    /\ at = "insert"
    /\ pending' = pending \cup {request}
    /\ stage' = [stage EXCEPT ![request] = "sending"]
    /\ at' = "send"
    /\ UNCHANGED <<threadVars, shown, waitingFlag, request, connection, targets, backlog,
                   resumes, cleared, unload>>

SendRequest(c) ==
    /\ at = "send" /\ c \in targets
    /\ targets' = targets \ {c}
    /\ Show(c, request)
    /\ UNCHANGED <<threadVars, pending, stage, waitingFlag, at, request, connection, backlog,
                   resumes, cleared, unload>>

SpawnWaiter ==
    /\ at = "send" /\ targets = {}
    /\ stage' = [stage EXCEPT ![request] = "waiting"]
    /\ at' = "select" /\ request' = NoOne
    /\ UNCHANGED <<threadVars, pending, shown, waitingFlag, connection, targets, backlog,
                   resumes, cleared, unload>>

(* The listener: a turn starts, completes or is aborted.                   *)

TakeTransition ==
    /\ at = "select" /\ at' = "abort"
    /\ UNCHANGED <<threadVars, pending, stage, shown, waitingFlag, request, connection,
                   targets, backlog, resumes, cleared, unload>>

\* abort_pending_server_requests; the end of a turn then clears its status.
AbortPending ==
    /\ at = "abort" /\ pending' = {}
    /\ at' \in {"select", "clear"}
    /\ UNCHANGED <<threadVars, stage, shown, waitingFlag, request, connection, targets,
                   backlog, resumes, cleared, unload>>

ClearActiveState ==
    /\ at = "clear" /\ waitingFlag' = 0 /\ at' = "select"
    /\ UNCHANGED <<threadVars, pending, stage, shown, request, connection, targets, backlog,
                   resumes, cleared, unload>>

(* The listener: a command to tell the clients that a request is resolved. *)
(* The channel keeps commands in order; here they are taken in any order,  *)
(* since nothing below depends on it.                                      *)

TakeResolve(q) ==
    /\ at = "select" /\ stage[q] = "asking"
    /\ stage' = [stage EXCEPT ![q] = "resolving"]
    /\ at' = "resolve" /\ request' = q /\ targets' = subscribed
    /\ UNCHANGED <<threadVars, pending, shown, waitingFlag, connection, backlog, resumes,
                   cleared, unload>>

SendResolved(c) ==
    /\ at = "resolve" /\ c \in targets
    /\ targets' = targets \ {c}
    /\ shown' = [shown EXCEPT ![c] = @ \ {request}]
    /\ UNCHANGED <<threadVars, pending, stage, waitingFlag, at, request, connection, backlog,
                   resumes, cleared, unload>>

\* Mutant: the completion is forgotten when no connection is there to be told.
CompleteForSubscribers ==
    /\ at = "resolve" /\ targets = {}
    /\ stage' = IF subscribed = {} THEN stage ELSE [stage EXCEPT ![request] = "releasing"]
    /\ at' = "select" /\ request' = NoOne
    /\ UNCHANGED <<threadVars, pending, shown, waitingFlag, connection, targets, backlog,
                   resumes, cleared, unload>>

CompleteResolve ==
    /\ at = "resolve" /\ targets = {}
    /\ stage' = [stage EXCEPT ![request] = "releasing"]
    /\ at' = "select" /\ request' = NoOne
    /\ UNCHANGED <<threadVars, pending, shown, waitingFlag, connection, targets, backlog,
                   resumes, cleared, unload>>

(* The listener: a command to bring a connection into a running thread.    *)

TakeResume(c) ==
    /\ at = "select" /\ c \in resumes
    /\ resumes' = resumes \ {c}
    /\ at' = "compose" /\ connection' = c
    /\ UNCHANGED <<threadVars, pending, stage, shown, waitingFlag, request, targets, backlog,
                   cleared, unload>>

\* The rollout cannot be read, and the connection gets an error.
FailResume ==
    /\ at = "compose" /\ at' = "select" /\ connection' = NoOne
    /\ UNCHANGED <<threadVars, pending, stage, shown, waitingFlag, request, targets, backlog,
                   resumes, cleared, unload>>

\* With the response a client starts its view of the thread anew.
SendResumeResponse ==
    /\ at = "compose" /\ at' = "list"
    /\ shown' = [shown EXCEPT ![connection] = {}]
    /\ UNCHANGED <<threadVars, pending, stage, waitingFlag, request, connection, targets,
                   backlog, resumes, cleared, unload>>

ListPending ==
    /\ at = "list" /\ at' = "replay" /\ backlog' = pending
    /\ UNCHANGED <<threadVars, pending, stage, shown, waitingFlag, request, connection,
                   targets, resumes, cleared, unload>>

\* In the order of their numbers; here in any order.
ReplayRequest(q) ==
    /\ at = "replay" /\ q \in backlog
    /\ backlog' = backlog \ {q}
    /\ Show(connection, q)
    /\ UNCHANGED <<threadVars, pending, stage, waitingFlag, at, request, connection, targets,
                   resumes, cleared, unload>>

AttachResumed ==
    /\ at = "replay" /\ backlog = {}
    /\ subscribed' = subscribed \cup ({connection} \cap live)
    /\ upToDate' = upToDate \cup ({connection} \cap live)
    /\ at' = "select" /\ connection' = NoOne
    /\ UNCHANGED <<live, pending, stage, waitingFlag, request, targets, backlog, resumes,
                   cleared, unload>>
    /\ CloseViews

\* The listener was told to stop; its channel goes with it.
StopListener ==
    /\ at = "select" /\ cleared /\ at' = "gone" /\ resumes' = {}
    /\ UNCHANGED <<threadVars, pending, stage, shown, waitingFlag, request, connection,
                   targets, backlog, cleared, unload>>

----------------------------------------------------------------------------
(* The waiter of a request: on_..._response.                               *)

\* Mutant: the waiter tells the clients itself.
TellResolved(q) ==
    /\ stage[q] = "waiting" /\ q \notin pending
    /\ stage' = [stage EXCEPT ![q] = "releasing"]
    /\ shown' = [c \in Connections |-> IF c \in subscribed THEN shown[c] \ {q} ELSE shown[c]]
    /\ UNCHANGED <<threadVars, pending, waitingFlag, listenerVars, resumes, cleared, unload>>

\* It has its answer, an error, or a callback that was dropped.
AskResolve(q) ==
    /\ stage[q] = "waiting" /\ q \notin pending
    /\ stage' = [stage EXCEPT ![q] = IF cleared THEN "releasing" ELSE "asking"]
    /\ UNCHANGED <<threadVars, pending, shown, waitingFlag, listenerVars, resumes, cleared,
                   unload>>

\* completion_rx fails.
GiveUp(q) ==
    /\ stage[q] = "asking" /\ at = "gone"
    /\ stage' = [stage EXCEPT ![q] = "releasing"]
    /\ UNCHANGED <<threadVars, pending, shown, waitingFlag, listenerVars, resumes, cleared,
                   unload>>

\* Mutant: the count of a request is kept when its guard goes.
KeepCount(q) ==
    /\ stage[q] = "releasing"
    /\ stage' = [stage EXCEPT ![q] = "done"]
    /\ UNCHANGED <<threadVars, pending, shown, waitingFlag, listenerVars, resumes, cleared, unload>>

\* note_active_guard_released, in a task of its own.
ReleaseGuard(q) ==
    /\ stage[q] = "releasing"
    /\ stage' = [stage EXCEPT ![q] = "done"]
    /\ waitingFlag' = IF waitingFlag > 0 THEN waitingFlag - 1 ELSE 0
    /\ UNCHANGED <<threadVars, pending, shown, listenerVars, resumes, cleared, unload>>

----------------------------------------------------------------------------
(* The processor.                                                          *)

\* notify_client_response or notify_client_error; who answers later finds nothing.
Answer(c, q) ==
    /\ unload = "idle" /\ c \in live
    /\ q \in shown[c] \cap pending
    /\ pending' = pending \ {q}
    /\ UNCHANGED <<threadVars, stage, shown, waitingFlag, listenerVars, resumes, cleared, unload>>

\* Mutant: the processor brings the connection in, past the listener.
ResumeAtOnce(c) ==
    /\ unload = "idle" /\ c \in live \ (subscribed \cup resumes)
    /\ subscribed' = subscribed \cup {c} /\ upToDate' = upToDate \cup {c}
    /\ shown' = [shown EXCEPT ![c] = pending]
    /\ UNCHANGED <<live, pending, stage, waitingFlag, listenerVars, resumes, cleared, unload>>

\* thread/resume of a running thread.
Resume(c) ==
    /\ unload = "idle" /\ c \in live \ resumes
    /\ resumes' = resumes \cup {c}
    /\ UNCHANGED <<threadVars, pending, stage, shown, waitingFlag, listenerVars, cleared, unload>>

\* thread/realtime/start, or the attachment of every connection to a thread
\* that has been created: no command, no replay.
AttachClient(c) ==
    /\ unload = "idle" /\ c \in live \ subscribed
    /\ subscribed' = subscribed \cup {c}
    /\ UNCHANGED <<live, upToDate, pending, stage, shown, waitingFlag, listenerVars, resumes,
                   cleared, unload>>

CloseConnection(c) ==
    /\ unload = "idle" /\ c \in live
    /\ live' = live \ {c}
    /\ subscribed' = subscribed \ {c} /\ upToDate' = upToDate \ {c}
    /\ UNCHANGED <<pending, stage, waitingFlag, listenerVars, resumes, cleared, unload>>
    /\ CloseViews

Unsubscribe(c) ==
    /\ unload = "idle" /\ c \in live \cap subscribed
    /\ subscribed' = subscribed \ {c} /\ upToDate' = upToDate \ {c}
    /\ unload' = "check"
    /\ UNCHANGED <<live, pending, stage, waitingFlag, listenerVars, resumes, cleared>>
    /\ CloseViews

HasSubscribers ==
    /\ unload = "check"
    /\ unload' = IF subscribed = {} THEN "cancel" ELSE "idle"
    /\ UNCHANGED <<threadVars, pending, stage, shown, waitingFlag, listenerVars, resumes, cleared>>

\* thread/archive, or a thread that the core has dropped: finalize_thread_teardown.
Archive ==
    /\ unload = "idle" /\ unload' = "cancel"
    /\ UNCHANGED <<threadVars, pending, stage, shown, waitingFlag, listenerVars, resumes, cleared>>

CancelRequests ==
    /\ unload = "cancel" /\ unload' = "remove"
    /\ pending' = {}
    /\ UNCHANGED <<threadVars, stage, shown, waitingFlag, listenerVars, resumes, cleared>>

RemoveThreadState ==
    /\ unload = "remove" /\ unload' = "clear"
    /\ subscribed' = {} /\ upToDate' = {}
    /\ UNCHANGED <<live, pending, stage, waitingFlag, listenerVars, resumes, cleared>>
    /\ CloseViews

ClearListener ==
    /\ unload = "clear" /\ unload' = "unloaded"
    /\ cleared' = TRUE
    /\ UNCHANGED <<threadVars, pending, stage, shown, waitingFlag, listenerVars, resumes>>

----------------------------------------------------------------------------
\* What the listener does once it has taken something.
ListenerGoesOn ==
    \/ NotePermission \/ InsertCallback \/ SpawnWaiter
    \/ AbortPending \/ ClearActiveState \/ CompleteResolve
    \/ FailResume \/ SendResumeResponse \/ ListPending \/ AttachResumed
    \/ \E c \in Connections : SendRequest(c) \/ SendResolved(c)
    \/ \E q \in Requests : ReplayRequest(q)

WaiterStep(q) == AskResolve(q) \/ GiveUp(q) \/ ReleaseGuard(q)

Teardown == HasSubscribers \/ CancelRequests \/ RemoveThreadState \/ ClearListener

Client(c) ==
    \/ Resume(c) \/ AttachClient(c) \/ Unsubscribe(c) \/ CloseConnection(c)
    \/ \E q \in Requests : Answer(c, q)

\* The thread is unloaded: nothing has to happen any more.
Quiescent == at = "gone" /\ UNCHANGED clientVars

ClientNext ==
    \/ \E q \in Requests : TakeRequest(q) \/ TakeResolve(q) \/ WaiterStep(q)
    \/ \E c \in Connections : TakeResume(c) \/ Client(c)
    \/ ListenerGoesOn \/ TakeTransition \/ StopListener
    \/ Archive \/ Teardown \/ Quiescent

ClientSpec == ClientInit /\ [][ClientNext]_clientVars

\* The runtime polls what is ready, and tokio's select! picks among what is
\* ready at random, so that a command does not wait for ever behind events.
\* Clients, and the core whose events the listener takes, may stop.
ClientFairness ==
    /\ WF_clientVars(ListenerGoesOn) /\ WF_clientVars(Teardown) /\ SF_clientVars(StopListener)
    /\ \A q \in Requests : WF_clientVars(WaiterStep(q)) /\ SF_clientVars(TakeResolve(q))

ClientFairSpec == ClientSpec /\ ClientFairness

----------------------------------------------------------------------------
\* A connection that resumed the thread, and stays, has every request that
\* waits for an answer before it, or in the listener's hands: none is sent
\* between the replay and the attachment (SendThreadResumeResponse:
\* "atomically subscribing for new updates").
PendingIsHeard ==
    \A c \in upToDate, q \in pending :
        \/ q \in shown[c]
        \/ at = "send" /\ request = q /\ c \in targets
        \/ connection = c /\ (at = "list" \/ (at = "replay" /\ q \in backlog))

\* A prompt that a client of the thread shows can still be answered, or its
\* waiter is on the way to have it closed: no request is shown, or shown again,
\* after it was said to be resolved (ResolveServerRequest, "ordered with regard
\* to the request itself").
PromptWillClose ==
    ~cleared =>
        \A c \in Following : \A q \in shown[c] :
            q \in pending \/ stage[q] \in {"sending", "waiting", "asking", "resolving"}

\* The status of a thread counts no request whose guard is gone: the counters,
\* which turns reset and guards lower from other tasks, never stay up.
FlagIsHonest == waitingFlag <= Cardinality(Guarded)

\* A request that has left the table, however it did, is done with: its waiter
\* has told the clients and goes on to the thread, whatever happens to the
\* listener it waits for.
RequestSettles ==
    \A q \in Requests :
        (stage[q] \notin {"unsent", "noted"} /\ q \notin pending) ~> (stage[q] = "done")
=============================================================================
