---------------------------- MODULE TurnLifecycle ----------------------------
(***************************************************************************)
(* The turn machinery of a session: the submission loop, which starts and  *)
(* aborts turns one operation at a time, the tokio task that runs each     *)
(* turn, clients that steer input straight into the active turn, and the   *)
(* approvals a turn waits for.                                             *)
(*                                                                         *)
(* Every access to Session.active_turn, and to the TurnState below it, is  *)
(* made under its mutex, so one critical section is one step.  The loop    *)
(* and the tasks interleave between them.                                  *)
(*                                                                         *)
(* JoinHandle::abort (tokio, external) does not stop a task that is being  *)
(* polled: it is dropped when it next suspends.  So an aborted task may go *)
(* on from a point where nothing need suspend it, but never from one where *)
(* it waits for somebody else.  A session with a rollout recorder is       *)
(* modelled.                                                               *)
(***************************************************************************)
EXTENDS Naturals, Sequences

CONSTANTS
    Turns,          \* sub ids: one for every turn that may be started
    UserInputs,     \* messages from the user
    AgentInputs,    \* messages from other agents
    NoTurn,
    OtherKinds,     \* the kinds of other tasks clients spawn
    Marker,         \* the <turn_aborted> message left in the history
    MaxFollowUps,   \* bound: follow-ups a turn's model or stop hook asks for
    MaxInterrupts   \* bound: interrupts the user sends

ASSUME ConstantsAssumption ==
    /\ NoTurn \notin Turns
    /\ UserInputs \cap AgentInputs = {}
    /\ Marker \notin UserInputs \cup AgentInputs
    /\ OtherKinds \subseteq {"undo", "compact"}
    /\ MaxFollowUps \in Nat
    /\ MaxInterrupts \in Nat

Inputs == UserInputs \cup AgentInputs

VARIABLES
    activeTurn,       \* Session.active_turn: the turn whose RunningTask it holds
    pendingInput,     \* TurnState.pending_input of each turn
    approvals,        \* TurnState.pending_approvals: the turns whose tool waits there
    idlePendingInput, \* Session.idle_pending_input
    history,          \* the inputs and markers recorded, in order, each with the turn
                      \* that recorded it
    taskPC,           \* where each turn's task is
    taskKind,         \* the SessionTask it runs
    taskInput,        \* the input it was started with
    heldInput,        \* pending input taken by the task and not yet recorded
    followUps,        \* follow-ups taken so far
    approval,         \* the state of each turn's approval wait
    cancelled,        \* the turns whose cancellation token fired
    handleAborted,    \* the turns whose JoinHandle was aborted
    loopPC,           \* where the submission loop is
    victim,           \* the turn abort_all_tasks took
    reason,           \* its TurnAbortReason
    next,             \* what the loop starts once the abort is over
    interrupts,       \* interrupts sent so far
    sent,             \* the inputs clients have sent
    arrivals,         \* history: the inputs accepted by each turn, in order
    started,          \* the turns that emitted TurnStarted
    completed,        \* the turns that emitted TurnComplete
    abortedEvents     \* the turns that emitted TurnAborted

turnVars == <<activeTurn, pendingInput, approvals, idlePendingInput>>
taskVars == <<taskPC, taskKind, taskInput, heldInput, followUps, approval>>
abortVars == <<cancelled, handleAborted>>
loopVars == <<loopPC, victim, reason, next>>
clientVars == <<interrupts, sent>>
eventVars == <<started, completed, abortedEvents>>
vars == <<turnVars, history, taskVars, abortVars, loopVars, clientVars, arrivals, eventVars>>

\* "undo" stands for undo and user shell tasks, whose TaskKind is Regular,
\* "compact" for compact and review tasks.
Kinds == {"regular", "undo", "compact"}
Steerable == {"regular", "undo"}

\* Points at which a task has not been polled yet or waits for somebody
\* else, so that an abort ends it.
Suspended == {"spawned", "working", "rollout_wait", "sampling", "approval", "stop_hook", "flush",
              "materialize"}
Running == Suspended \cup {"begun", "input", "head", "inspect", "blocked", "record", "finish",
                         "finish_record"}
LoopPCs == {"idle", "take", "cancel", "grace", "marker", "emit", "clear", "start",
            "register", "exited"}

TypeOK ==
    /\ activeTurn \in Turns \cup {NoTurn}
    /\ pendingInput \in [Turns -> Seq(Inputs)]
    /\ approvals \in [Turns -> SUBSET Turns]
    /\ idlePendingInput \in Seq(Inputs)
    /\ history \in Seq([item : Inputs \cup {Marker}, turn : Turns])
    /\ taskPC \in [Turns -> Running \cup {"none", "ended", "dropped"}]
    /\ taskKind \in [Turns -> Kinds]
    /\ taskInput \in [Turns -> Seq(Inputs)]
    /\ heldInput \in [Turns -> [inspecting : Seq(Inputs), accepted : Seq(Inputs)]]
    /\ followUps \in [Turns -> Nat]
    /\ approval \in [Turns -> {"none", "waiting", "decided", "refused", "sender_dropped"}]
    /\ cancelled \subseteq Turns
    /\ handleAborted \subseteq Turns
    /\ loopPC \in LoopPCs
    /\ victim \in Turns \cup {NoTurn}
    /\ reason \in {"Replaced", "Interrupted", "Shutdown"}
    /\ next \in [kind : Kinds, input : Seq(Inputs)]
    /\ interrupts \in Nat
    /\ sent \subseteq Inputs
    /\ arrivals \in [Turns -> Seq(Inputs)]
    /\ started \subseteq Turns
    /\ completed \subseteq Turns
    /\ abortedEvents \subseteq Turns

\* A regular task with no input of its own.
QueuedInputTask == [kind |-> "regular", input |-> <<>>]

NothingHeld == [inspecting |-> <<>>, accepted |-> <<>>]

Init ==
    /\ activeTurn = NoTurn
    /\ pendingInput = [t \in Turns |-> <<>>]
    /\ approvals = [t \in Turns |-> {}]
    /\ idlePendingInput = <<>>
    /\ history = <<>>
    /\ taskPC = [t \in Turns |-> "none"]
    /\ taskKind = [t \in Turns |-> "regular"]
    /\ taskInput = [t \in Turns |-> <<>>]
    /\ heldInput = [t \in Turns |-> NothingHeld]
    /\ followUps = [t \in Turns |-> 0]
    /\ approval = [t \in Turns |-> "none"]
    /\ cancelled = {}
    /\ handleAborted = {}
    /\ loopPC = "idle"
    /\ victim = NoTurn
    /\ reason = "Replaced"
    /\ next = QueuedInputTask
    /\ interrupts = 0
    /\ sent = {}
    /\ arrivals = [t \in Turns |-> <<>>]
    /\ started = {}
    /\ completed = {}
    /\ abortedEvents = {}

-----------------------------------------------------------------------------
(* Input *)

HasPendingInput == activeTurn # NoTurn /\ pendingInput[activeTurn] # <<>>

\* Items as turn t leaves them in the history.
Recorded(items, t) == [i \in DOMAIN items |-> [item |-> items[i], turn |-> t]]

\* Mutant: pushed in front of what is pending.
PushInFront(t, inputs) ==
    /\ pendingInput' = [pendingInput EXCEPT ![t] = inputs \o @]
    /\ arrivals' = [arrivals EXCEPT ![t] = @ \o inputs]

\* Pushes inputs at the back of a turn's pending input.
Push(t, inputs) ==
    /\ pendingInput' = [pendingInput EXCEPT ![t] = @ \o inputs]
    /\ arrivals' = [arrivals EXCEPT ![t] = @ \o inputs]

\* Mutant: the running task is not aborted first.
SpawnWithoutAbort(kind, input) ==
    /\ loopPC' = "start"
    /\ reason' = "Replaced"
    /\ next' = [kind |-> kind, input |-> input]
    /\ UNCHANGED victim

\* spawn_task: abort whatever runs, then start.
Spawn(kind, input) ==
    /\ loopPC' = "take"
    /\ reason' = "Replaced"
    /\ next' = [kind |-> kind, input |-> input]
    /\ UNCHANGED victim

FreshTurns == {t \in Turns : taskPC[t] = "none"}

\* Op::UserInput and Op::UserTurn.  A turn that cannot be steered answers
\* with an error and drops the input.
UserInput(m) ==
    /\ loopPC = "idle"
    /\ m \in UserInputs \ sent
    /\ sent' = sent \cup {m}
    /\ \/ /\ activeTurn # NoTurn
          /\ taskKind[activeTurn] \in Steerable
          /\ Push(activeTurn, <<m>>)
          /\ UNCHANGED loopVars
       \/ /\ activeTurn # NoTurn
          /\ taskKind[activeTurn] \notin Steerable
          /\ UNCHANGED <<pendingInput, arrivals, loopVars>>
       \/ /\ activeTurn = NoTurn
          /\ FreshTurns # {}
          /\ Spawn("regular", <<m>>)
          /\ UNCHANGED <<pendingInput, arrivals>>
    /\ UNCHANGED <<activeTurn, approvals, idlePendingInput, history, taskVars, abortVars,
                   interrupts, eventVars>>

\* turn/steer, which does not go through the submission loop.  The client
\* names the turn it means, so that a later turn never takes the input.
SteerInput(m, expected) ==
    /\ m \in UserInputs \ sent
    /\ activeTurn = expected
    /\ taskKind[expected] \in Steerable
    /\ sent' = sent \cup {m}
    /\ Push(expected, <<m>>)
    /\ UNCHANGED <<activeTurn, approvals, idlePendingInput, history, taskVars, abortVars,
                   loopVars, interrupts, eventVars>>

\* Op::InterAgentCommunication: into the active turn of any kind, or queued
\* for the turn it then spawns.
InterAgentCommunication(m) ==
    /\ loopPC = "idle"
    /\ m \in AgentInputs \ sent
    /\ sent' = sent \cup {m}
    /\ \/ /\ activeTurn # NoTurn
          /\ Push(activeTurn, <<m>>)
          /\ UNCHANGED <<idlePendingInput, loopVars>>
       \/ /\ activeTurn = NoTurn
          /\ FreshTurns # {}
          /\ idlePendingInput' = Append(idlePendingInput, m)
          /\ Spawn("regular", <<>>)
          /\ UNCHANGED <<pendingInput, arrivals>>
    /\ UNCHANGED <<activeTurn, approvals, history, taskVars, abortVars, interrupts, eventVars>>

\* Op::Undo, Op::Compact, Op::Review.
SpawnOther(kind) ==
    /\ loopPC = "idle"
    /\ FreshTurns # {}
    /\ Spawn(kind, <<>>)
    /\ UNCHANGED <<turnVars, history, taskVars, abortVars, clientVars, arrivals, eventVars>>

\* Op::Interrupt, and the Abort answer to an approval.
Interrupt ==
    /\ loopPC = "idle"
    /\ activeTurn # NoTurn
    /\ interrupts < MaxInterrupts
    /\ interrupts' = interrupts + 1
    /\ loopPC' = "take"
    /\ reason' = "Interrupted"
    /\ next' = QueuedInputTask
    /\ UNCHANGED <<turnVars, history, taskVars, abortVars, victim, sent, arrivals, eventVars>>

\* Op::Shutdown: abort with reason Interrupted, then leave the loop.
Shutdown ==
    /\ loopPC = "idle"
    /\ loopPC' = "take"
    /\ reason' = "Shutdown"
    /\ next' = QueuedInputTask
    /\ UNCHANGED <<turnVars, history, taskVars, abortVars, victim, clientVars, arrivals, eventVars>>

\* Op::ExecApproval and Op::PatchApproval with any other decision.
NotifyApproval(t) ==
    /\ loopPC = "idle"
    /\ activeTurn # NoTurn
    /\ t \in approvals[activeTurn]
    /\ approvals' = [approvals EXCEPT ![activeTurn] = @ \ {t}]
    /\ approval' = [approval EXCEPT ![t] = "decided"]
    /\ UNCHANGED <<activeTurn, pendingInput, idlePendingInput, history, taskPC, taskKind, taskInput,
                   heldInput, followUps, abortVars, loopVars, clientVars, arrivals, eventVars>>

-----------------------------------------------------------------------------
(* abort_all_tasks *)

AfterOp == IF reason = "Shutdown" THEN "exited" ELSE "idle"

\* Input still queued when an interrupt is over starts a turn of its own
\* (ensure_task_for_queued_response_items).
AfterAbort == IF reason = "Replaced" \/ idlePendingInput # <<>> THEN "start" ELSE AfterOp

\* Mutants: the active turn is looked at and not taken; its turn state is
\* cleared as soon as it is taken.
LookAtActiveTurn ==
    /\ loopPC = "take"
    /\ victim' = activeTurn
    /\ loopPC' = IF activeTurn = NoTurn THEN AfterAbort ELSE "cancel"
    /\ UNCHANGED <<activeTurn, pendingInput, approvals, idlePendingInput, history, taskVars,
                   abortVars, reason, next, clientVars, arrivals, eventVars>>

TakeActiveTurnAndClear ==
    /\ loopPC = "take"
    /\ victim' = activeTurn
    /\ activeTurn' = NoTurn
    /\ approval' = [u \in Turns |->
                       IF activeTurn # NoTurn /\ u \in approvals[activeTurn] THEN "sender_dropped"
                                                                           ELSE approval[u]]
    /\ loopPC' = IF activeTurn = NoTurn THEN AfterAbort ELSE "cancel"
    /\ UNCHANGED <<pendingInput, approvals, idlePendingInput, history, taskPC, taskKind, taskInput,
                   heldInput, followUps, abortVars, reason, next, clientVars, arrivals, eventVars>>

TakeActiveTurn ==
    /\ loopPC = "take"
    /\ victim' = activeTurn
    /\ activeTurn' = NoTurn
    /\ loopPC' = IF activeTurn = NoTurn THEN AfterAbort ELSE "cancel"
    /\ UNCHANGED <<pendingInput, approvals, idlePendingInput, history, taskVars, abortVars,
                   reason, next, clientVars, arrivals, eventVars>>

\* Mutant: the test of the token is inverted.
CancelTaskInverted ==
    /\ loopPC = "cancel"
    /\ cancelled' = cancelled \cup {victim}
    /\ loopPC' = IF victim \in cancelled THEN "grace" ELSE "clear"
    /\ UNCHANGED <<turnVars, history, taskVars, handleAborted, victim, reason, next, clientVars,
                   arrivals, eventVars>>

\* handle_task_abort does nothing for a token that has fired already.
CancelTask ==
    /\ loopPC = "cancel"
    /\ cancelled' = cancelled \cup {victim}
    /\ loopPC' = IF victim \in cancelled THEN "clear" ELSE "grace"
    /\ UNCHANGED <<turnVars, history, taskVars, handleAborted, victim, reason, next, clientVars,
                   arrivals, eventVars>>

\* The task gets 100 ms to notify that it is done, and may notify before
\* anybody listens: the wait ends whether or not the task has.
GraceOver ==
    /\ loopPC = "grace"
    /\ handleAborted' = handleAborted \cup {victim}
    /\ loopPC' = IF reason = "Replaced" THEN "emit" ELSE "marker"
    /\ UNCHANGED <<turnVars, history, taskVars, cancelled, victim, reason, next, clientVars,
                   arrivals, eventVars>>

RecordMarker ==
    /\ loopPC = "marker"
    /\ history' = history \o Recorded(<<Marker>>, victim)
    /\ loopPC' = "emit"
    /\ UNCHANGED <<turnVars, taskVars, abortVars, victim, reason, next, clientVars, arrivals,
                   eventVars>>

EmitTurnAborted ==
    /\ loopPC = "emit"
    /\ abortedEvents' = abortedEvents \cup {victim}
    /\ loopPC' = "clear"
    /\ UNCHANGED <<turnVars, history, taskVars, abortVars, victim, reason, next, clientVars,
                   arrivals, started, completed>>

\* Drops the senders of the approvals registered in t's turn state.
DropApprovals(t) ==
    /\ approvals' = [approvals EXCEPT ![t] = {}]
    /\ approval' = [u \in Turns |-> IF u \in approvals[t] THEN "sender_dropped" ELSE approval[u]]

ClearPending ==
    /\ loopPC = "clear"
    /\ pendingInput' = [pendingInput EXCEPT ![victim] = <<>>]
    /\ DropApprovals(victim)
    /\ loopPC' = AfterAbort
    /\ UNCHANGED <<activeTurn, idlePendingInput, history, taskPC, taskKind, taskInput, heldInput,
                   followUps, abortVars, victim, reason, next, clientVars, arrivals, eventVars>>

AbortAllTasks == TakeActiveTurn \/ CancelTask \/ GraceOver \/ RecordMarker
                 \/ EmitTurnAborted \/ ClearPending

-----------------------------------------------------------------------------
(* start_task *)

\* tokio::spawn: from here on the task runs, registered or not.  victim now
\* names the turn to register.
SpawnTokioTask ==
    /\ loopPC = "start"
    /\ \E t \in FreshTurns :
          /\ taskPC' = [taskPC EXCEPT ![t] = "spawned"]
          /\ taskKind' = [taskKind EXCEPT ![t] = next.kind]
          /\ taskInput' = [taskInput EXCEPT ![t] = next.input]
          /\ victim' = t
    /\ loopPC' = "register"
    /\ UNCHANGED <<turnVars, history, heldInput, followUps, approval, abortVars, reason, next,
                   clientVars, arrivals, eventVars>>

\* Mutant: the queued input is copied into the turn and stays queued.
RegisterKeepsQueue ==
    /\ loopPC = "register"
    /\ activeTurn' = victim
    /\ Push(victim, idlePendingInput)
    /\ loopPC' = AfterOp
    /\ UNCHANGED <<approvals, idlePendingInput, history, taskVars, abortVars, victim, reason, next,
                   clientVars, eventVars>>

\* Whatever active_turn held is overwritten, and a RunningTask that is
\* dropped aborts its task.
RegisterNewActiveTask ==
    /\ loopPC = "register"
    /\ activeTurn' = victim
    /\ handleAborted' = handleAborted \cup ({activeTurn} \ {NoTurn})
    /\ Push(victim, idlePendingInput)
    /\ idlePendingInput' = <<>>
    /\ loopPC' = AfterOp
    /\ UNCHANGED <<approvals, history, taskVars, cancelled, victim, reason, next, clientVars,
                   eventVars>>

LoopStep == AbortAllTasks \/ SpawnTokioTask \/ RegisterNewActiveTask

-----------------------------------------------------------------------------
(* The task of turn t *)

CanRun(t) == t \in handleAborted => taskPC[t] \notin Suspended

Step(t, from, to) ==
    /\ taskPC[t] = from
    /\ CanRun(t)
    /\ taskPC' = [taskPC EXCEPT ![t] = to]

\* RegularTask.run emits TurnStarted; CompactTask, ReviewTask and the others
\* do it before they set to work.
BeginTask(t) ==
    /\ Step(t, "spawned", IF taskKind[t] = "regular" THEN "begun" ELSE "working")
    /\ started' = started \cup {t}
    /\ UNCHANGED <<turnVars, history, taskKind, taskInput, heldInput, followUps, approval,
                   abortVars, loopVars, clientVars, arrivals, completed, abortedEvents>>

\* A step of a task that only moves it on.
Move(t, from, to) ==
    /\ Step(t, from, to)
    /\ UNCHANGED <<turnVars, history, taskKind, taskInput, heldInput, followUps, approval,
                   abortVars, loopVars, clientVars, arrivals, eventVars>>

OtherTaskEnds(t) == Move(t, "working", "flush")

\* run_turn returns at once when it has no input and finds none pending.
EnterRunTurn(t) ==
    Move(t, "begun", IF taskInput[t] = <<>> /\ ~HasPendingInput THEN "flush" ELSE "input")

\* The turn's own input is recorded unless something ends the turn first.
\* Recording a user message ends by waiting for the rollout writer.
RecordOwnInput(t) ==
    /\ Step(t, "input", IF taskInput[t] = <<>> THEN "head" ELSE "rollout_wait")
    /\ history' = history \o Recorded(taskInput[t], t)
    /\ UNCHANGED <<turnVars, taskKind, taskInput, heldInput, followUps, approval, abortVars,
                   loopVars, clientVars, arrivals, eventVars>>

\* A cancelled prewarm; a failed compaction, a session start hook or a prompt
\* hook before the own input; a session start hook at the head of the loop.
StopBeforeSampling(t) ==
    \/ t \in cancelled /\ Move(t, "begun", "flush")
    \/ Move(t, "input", "flush")
    \/ Move(t, "head", "flush")

\* Mutant: the pending input is copied and not taken.
CopyPendingInput(t) ==
    /\ Step(t, "head", "inspect")
    /\ heldInput' = [heldInput EXCEPT ![t].inspecting =
                        IF HasPendingInput THEN pendingInput[activeTurn] ELSE <<>>]
    /\ UNCHANGED <<turnVars, history, taskKind, taskInput, followUps, approval, abortVars,
                   loopVars, clientVars, arrivals, eventVars>>

\* get_pending_input takes from whichever turn is active.
GetPendingInput(t) ==
    /\ Step(t, "head", "inspect")
    /\ heldInput' = [heldInput EXCEPT ![t].inspecting =
                        IF HasPendingInput THEN pendingInput[activeTurn] ELSE <<>>]
    /\ pendingInput' = [u \in Turns |-> IF u = activeTurn THEN <<>> ELSE pendingInput[u]]
    /\ UNCHANGED <<activeTurn, approvals, idlePendingInput, history, taskKind, taskInput,
                   followUps, approval, abortVars, loopVars, clientVars, arrivals, eventVars>>

\* inspect_pending_input accepts the next item: it is no user message, or no hook
\* objects.
InspectAccept(t) ==
    /\ heldInput[t].inspecting # <<>>
    /\ Step(t, "inspect", "inspect")
    /\ heldInput' = [heldInput EXCEPT
                        ![t] = [inspecting |-> Tail(@.inspecting),
                                accepted   |-> Append(@.accepted, Head(@.inspecting))]]
    /\ UNCHANGED <<turnVars, history, taskKind, taskInput, followUps, approval, abortVars,
                   loopVars, clientVars, arrivals, eventVars>>

\* A hook blocks a user message, which is dropped.  The task waits for the hook's
\* process, so one that was aborted is dropped itself and hears of nothing.
HookBlocks(t) ==
    /\ heldInput[t].inspecting # <<>>
    /\ Head(heldInput[t].inspecting) \in UserInputs
    /\ t \notin handleAborted
    /\ Step(t, "inspect", "blocked")
    /\ heldInput' = [heldInput EXCEPT ![t].inspecting = Tail(@)]
    /\ UNCHANGED <<turnVars, history, taskKind, taskInput, followUps, approval, abortVars,
                   loopVars, clientVars, arrivals, eventVars>>

\* Mutant: the rest of the batch goes to the back of the queue.
InspectBlockAtBack(t) ==
    /\ LET rest == heldInput[t].inspecting
       IN /\ Step(t, "blocked", IF heldInput[t].accepted # <<>> THEN "record" ELSE "head")
          /\ pendingInput' = [u \in Turns |-> IF u = activeTurn THEN pendingInput[u] \o rest
                                                               ELSE pendingInput[u]]
    /\ heldInput' = [heldInput EXCEPT ![t].inspecting = <<>>]
    /\ UNCHANGED <<activeTurn, approvals, idlePendingInput, history, taskKind, taskInput,
                   followUps, approval, abortVars, loopVars, clientVars, arrivals, eventVars>>

\* What followed the blocked message goes back in front of the active turn's
\* pending input, if a turn is active.
InspectBlock(t) ==
    /\ LET rest == heldInput[t].inspecting
       IN /\ Step(t, "blocked", CASE heldInput[t].accepted # <<>> -> "record"
                                  [] heldInput[t].accepted = <<>> /\ rest # <<>> -> "head"
                                  [] heldInput[t].accepted = <<>> /\ rest = <<>> -> "flush")
          /\ pendingInput' = [u \in Turns |-> IF u = activeTurn THEN rest \o pendingInput[u]
                                                               ELSE pendingInput[u]]
    /\ heldInput' = [heldInput EXCEPT ![t].inspecting = <<>>]
    /\ UNCHANGED <<activeTurn, approvals, idlePendingInput, history, taskKind, taskInput,
                   followUps, approval, abortVars, loopVars, clientVars, arrivals, eventVars>>

InspectEnd(t) ==
    /\ heldInput[t].inspecting = <<>>
    /\ Move(t, "inspect", "record")

NothingToRecord(t) ==
    /\ heldInput[t].accepted = <<>>
    /\ Move(t, "record", "sampling")

\* One accepted item after the other.  The wait for the writer after the last
\* one is part of the sampling that follows.
RecordAccepted(t) ==
    /\ heldInput[t].accepted # <<>>
    /\ LET m == Head(heldInput[t].accepted)
           rest == Tail(heldInput[t].accepted)
       IN /\ Step(t, "record", CASE rest = <<>>                     -> "sampling"
                                 [] rest # <<>> /\ m \in UserInputs -> "rollout_wait"
                                 [] rest # <<>> /\ m \notin UserInputs -> "record")
          /\ history' = history \o Recorded(<<m>>, t)
          /\ heldInput' = [heldInput EXCEPT ![t].accepted = rest]
    /\ UNCHANGED <<turnVars, taskKind, taskInput, followUps, approval, abortVars, loopVars,
                   clientVars, arrivals, eventVars>>

RolloutWritten(t) ==
    Move(t, "rollout_wait", IF heldInput[t].accepted = <<>> THEN "head" ELSE "record")

\* The model's answer is complete: it called for another round, or input
\* came in meanwhile, or the stop hooks are asked.
FollowUp(t, from) ==
    /\ followUps[t] < MaxFollowUps
    /\ Step(t, from, "head")
    /\ followUps' = [followUps EXCEPT ![t] = @ + 1]
    /\ UNCHANGED <<turnVars, history, taskKind, taskInput, heldInput, approval, abortVars,
                   loopVars, clientVars, arrivals, eventVars>>

SampleFollowUp(t) == FollowUp(t, "sampling")

SampleCompleted(t) == Move(t, "sampling", IF HasPendingInput THEN "head" ELSE "stop_hook")

\* Cancelled (TurnAborted), or any error.
SampleFailed(t) == Move(t, "sampling", "flush")

StopHookBlocks(t) == FollowUp(t, "stop_hook")

StopHookEnds(t) == Move(t, "stop_hook", "flush")

\* request_command_approval: with no active turn the sender is dropped at once.
RequestApproval(t) ==
    /\ approval[t] = "none"
    /\ Step(t, "sampling", "approval")
    /\ approvals' = [u \in Turns |-> IF u = activeTurn THEN approvals[u] \cup {t} ELSE approvals[u]]
    /\ approval' = [approval EXCEPT ![t] = IF activeTurn = NoTurn THEN "refused" ELSE "waiting"]
    /\ UNCHANGED <<activeTurn, pendingInput, idlePendingInput, history, taskKind, taskInput,
                   heldInput, followUps, abortVars, loopVars, clientVars, arrivals, eventVars>>

\* The decision arrives, Abort if the sender is gone; the tool result goes
\* to the model.
ApprovalReturns(t) ==
    /\ approval[t] # "waiting"
    /\ Move(t, "approval", "sampling")

\* The token ends the sampling request, the waiting tool with it.
ApprovalCancelled(t) ==
    /\ t \in cancelled
    /\ Move(t, "approval", "flush")

RunTurn(t) ==
    \/ EnterRunTurn(t) \/ RecordOwnInput(t) \/ StopBeforeSampling(t) \/ GetPendingInput(t)
    \/ InspectAccept(t) \/ HookBlocks(t) \/ InspectBlock(t) \/ InspectEnd(t) \/ NothingToRecord(t)
    \/ RecordAccepted(t) \/ RolloutWritten(t)
    \/ SampleFollowUp(t) \/ SampleCompleted(t) \/ SampleFailed(t) \/ StopHookBlocks(t)
    \/ StopHookEnds(t) \/ RequestApproval(t) \/ ApprovalReturns(t) \/ ApprovalCancelled(t)

-----------------------------------------------------------------------------
(* The end of the spawned future *)

\* After the flush a cancelled task says nothing and is done.
FlushDone(t) == Move(t, "flush", IF t \in cancelled THEN "ended" ELSE "finish")

\* Mutant: the pending input stays in the turn that is removed.
FinishRemoveOnly(t) ==
    /\ Step(t, "finish", "finish_record")
    /\ activeTurn' = IF activeTurn = t THEN NoTurn ELSE activeTurn
    /\ handleAborted' = IF activeTurn = t THEN handleAborted \cup {t} ELSE handleAborted
    /\ UNCHANGED <<pendingInput, approvals, idlePendingInput, history, taskKind, taskInput,
                   heldInput, followUps, approval, cancelled, loopVars, clientVars, arrivals,
                   eventVars>>

\* on_task_finished, under the active_turn lock: the task leaves the active
\* turn with its pending input.  Dropping its own RunningTask aborts the very
\* task that runs this.
FinishRemove(t) ==
    /\ Step(t, "finish", "finish_record")
    /\ \/ /\ activeTurn = t
          /\ activeTurn' = NoTurn
          /\ heldInput' = [heldInput EXCEPT ![t].accepted = pendingInput[t]]
          /\ pendingInput' = [pendingInput EXCEPT ![t] = <<>>]
          /\ handleAborted' = handleAborted \cup {t}
          /\ approvals' = [approvals EXCEPT ![t] = {}]
          /\ approval' = [u \in Turns |->
                             IF u \in approvals[t] THEN "sender_dropped" ELSE approval[u]]
       \/ /\ activeTurn # t
          /\ UNCHANGED <<activeTurn, pendingInput, approvals, heldInput, approval, handleAborted>>
    /\ UNCHANGED <<idlePendingInput, history, taskKind, taskInput, followUps, cancelled, loopVars,
                   clientVars, arrivals, eventVars>>

\* The leftover input is recorded.  A hook that is asked about it ends the
\* aborted task instead (DropTask), so none of it is blocked.
FinishRecord(t) ==
    /\ heldInput[t].accepted # <<>>
    /\ LET m == Head(heldInput[t].accepted)
       IN /\ Step(t, "finish_record", IF m \in UserInputs THEN "materialize" ELSE "finish_record")
          /\ history' = history \o Recorded(<<m>>, t)
          /\ heldInput' = [heldInput EXCEPT ![t].accepted = Tail(@)]
    /\ UNCHANGED <<turnVars, taskKind, taskInput, followUps, approval, abortVars, loopVars,
                   clientVars, arrivals, eventVars>>

Materialized(t) == Move(t, "materialize", "finish_record")

EmitTurnComplete(t) ==
    /\ heldInput[t].accepted = <<>>
    /\ Step(t, "finish_record", "ended")
    /\ completed' = completed \cup {t}
    /\ UNCHANGED <<turnVars, history, taskKind, taskInput, heldInput, followUps, approval,
                   abortVars, loopVars, clientVars, arrivals, started, abortedEvents>>

OnTaskFinished(t) == FinishRemove(t) \/ FinishRecord(t) \/ Materialized(t) \/ EmitTurnComplete(t)

TaskStep(t) == BeginTask(t) \/ OtherTaskEnds(t) \/ RunTurn(t) \/ FlushDone(t) \/ OnTaskFinished(t)

\* tokio drops an aborted task at a suspension point.
DropTask(t) ==
    /\ t \in handleAborted
    /\ taskPC[t] \in Running
    /\ taskPC' = [taskPC EXCEPT ![t] = "dropped"]
    /\ UNCHANGED <<turnVars, history, taskKind, taskInput, heldInput, followUps, approval,
                   abortVars, loopVars, clientVars, arrivals, eventVars>>

-----------------------------------------------------------------------------
AtRest == loopPC \in {"idle", "exited"} /\ \A t \in Turns : taskPC[t] \notin Running

\* Nothing runs and nobody sends anything more.
Quiescent == AtRest /\ UNCHANGED vars

ClientStep ==
    \/ \E m \in UserInputs : UserInput(m) \/ \E t \in Turns : SteerInput(m, t)
    \/ \E m \in AgentInputs : InterAgentCommunication(m)
    \/ \E kind \in OtherKinds : SpawnOther(kind)
    \/ Interrupt
    \/ Shutdown
    \/ \E t \in Turns : NotifyApproval(t)

Next ==
    \/ ClientStep
    \/ LoopStep
    \/ \E t \in Turns : TaskStep(t) \/ DropTask(t)
    \/ Quiescent

Spec == Init /\ [][Next]_vars

\* The runtime polls the submission loop and every task that is ready, and
\* drops an aborted task that suspends.  A model answer, a hook or a rollout
\* acknowledgement comes; an answer to an approval need not.
Fairness ==
    /\ WF_vars(LoopStep)
    /\ \A t \in Turns : WF_vars(TaskStep(t) \/ DropTask(t))

FairSpec == Spec /\ Fairness

-----------------------------------------------------------------------------
(* Safety *)

\* The turns that were active and are not: of the spawned ones neither the
\* active one nor the one about to be registered.
TurnsOver ==
    {t \in Turns :
        /\ taskPC[t] # "none"
        /\ t # activeTurn
        /\ ~(loopPC = "register" /\ t = victim)}

Slot == INSTANCE TurnSlot WITH slot <- activeTurn, over <- TurnsOver

\* A turn leaves active_turn before another enters it, and none enters twice,
\* although register_new_active_task overwrites unconditionally and tasks,
\* aborts and starts interleave: a turn that was overwritten would lose its
\* task without a terminal event.
TurnsTakeTheSlotInTurn == Slot!Spec

\* At most one task runs that nobody has told to stop: a task is started only
\* after the one before it was cancelled or has left active_turn by itself.
OneUncancelledTask ==
    \A t, u \in Turns :
        /\ taskPC[t] \in Running /\ t \notin cancelled /\ t \notin handleAborted
        /\ taskPC[u] \in Running /\ u \notin cancelled /\ u \notin handleAborted
        => t = u

\* Input queued at session scope is there only while the submission loop is on
\* its way to the turn that takes it, so ensure_task_for_queued_response_items
\* never finds any after an interrupt.
QueuedInputHasTurnComing ==
    idlePendingInput # <<>> =>
        /\ reason = "Replaced"
        /\ loopPC \in {"take", "cancel", "grace", "emit", "clear", "start", "register"}

\* No input reaches the model's history twice, whichever of the steering,
\* requeueing and leftover paths it takes.
RecordedOnce ==
    \A i, j \in DOMAIN history :
        history[i].item = history[j].item /\ history[i].item \in Inputs => i = j

\* The inputs a turn accepts and records keep their order, also when a hook
\* sends the rest of a batch back in front of input that came later.
SteeredInputInOrder ==
    \A t \in Turns : \A i, j \in DOMAIN arrivals[t] : \A p, q \in DOMAIN history :
        /\ i < j
        /\ history[p] = [item |-> arrivals[t][i], turn |-> t]
        /\ history[q] = [item |-> arrivals[t][j], turn |-> t]
        => p < q

\* "Let interrupted tasks observe cancellation before dropping pending
\* approvals" (tasks/mod.rs:273): the sender of a registered approval is
\* dropped only when its task can no longer show the answer to the model.
ApprovalOutlivesTask ==
    \A t \in Turns : approval[t] = "sender_dropped" =>
        taskPC[t] \notin Running \/ t \in handleAborted

-----------------------------------------------------------------------------
(* Liveness, under FairSpec *)

\* An abort that took a turn is over, with its TurnAborted, however the task
\* behaves: the wait for it is bounded.
TakenTurnIsAborted ==
    \A t \in Turns : (loopPC = "cancel" /\ victim = t) ~> t \in abortedEvents

BeforeFinish(t) == taskPC[t] \in Running \ {"finish_record", "materialize"}

\* Input that reaches the active turn before its task finishes does not stay
\* pending: the task takes it, records it as leftover, or an abort clears it.
\* Only an unanswered approval may hold it up.
PendingInputConsumed ==
    \A t \in Turns :
        (activeTurn = t /\ pendingInput[t] # <<>> /\ BeforeFinish(t)) ~>
            (pendingInput[t] = <<>> \/ taskPC[t] = "approval")

-----------------------------------------------------------------------------
(* What the documentation says and the code does not do *)

\* state/turn.rs:26, "Metadata about the currently running turn": the task of
\* the active turn is still running.  It fails for a task that finishes before
\* start_task registers it.
ActiveTurnIsRunning == activeTurn # NoTurn => taskPC[activeTurn] \in Running

\* app-server/README.md:848, "Each turn emits `turn/started` when it begins
\* running and ends with `turn/completed`": a turn whose task is over has
\* said how it ended.
EachTurnEnds ==
    \A t \in Turns :
        (t \in started /\ taskPC[t] \in {"ended", "dropped"}) ~> t \in completed \cup abortedEvents
=============================================================================
