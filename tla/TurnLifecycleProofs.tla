------------------------- MODULE TurnLifecycleProofs -------------------------
(***************************************************************************)
(* The safety of the turn machinery, for any number of turns, inputs and   *)
(* interrupts.                                                             *)
(*                                                                         *)
(* The invariant follows the submission loop: while an operation is        *)
(* between taking the active turn and registering the next, the slot is    *)
(* empty, so a task that is not active is either told to stop, or the one  *)
(* the loop is about to cancel, or the one it is about to register.        *)
(*                                                                         *)
(* The second part follows the input: every input that a turn accepts is   *)
(* pending, in the batch a task inspects, accepted by it, or recorded, in  *)
(* one of these only, and goes from one to the next in order.              *)
(***************************************************************************)
EXTENDS TurnLifecycle, SequenceTheorems, TLAPS

TaskPCs == Running \cup {"none", "ended", "dropped"}

\* The part of TypeOK that the control of turns depends on.
ControlTypeOK ==
    /\ activeTurn \in Turns \cup {NoTurn}
    /\ approvals \in [Turns -> SUBSET Turns]
    /\ taskPC \in [Turns -> TaskPCs]
    /\ approval \in [Turns -> {"none", "waiting", "decided", "refused", "sender_dropped"}]
    /\ cancelled \subseteq Turns
    /\ handleAborted \subseteq Turns
    /\ loopPC \in LoopPCs
    /\ victim \in Turns \cup {NoTurn}
    /\ reason \in {"Replaced", "Interrupted", "Shutdown"}

\* From the moment an operation has taken the active turn until it registers
\* the next one, nobody else fills the slot.
SlotEmptyWhileLoopWorks ==
    loopPC \in {"cancel", "grace", "marker", "emit", "clear", "start", "register"}
        => activeTurn = NoTurn

\* The turn the loop holds is a turn: one not cancelled yet, one it has just
\* aborted, or one it has just spawned.
VictimIsHeld ==
    /\ loopPC \in {"cancel", "grace", "marker", "emit", "clear", "register"} => victim \in Turns
    /\ loopPC \in {"cancel", "register"} => victim \notin cancelled /\ taskPC[victim] # "none"
    /\ loopPC \in {"marker", "emit", "clear"} => victim \in handleAborted

ActiveTurnIsLive ==
    activeTurn # NoTurn => taskPC[activeTurn] # "none" /\ activeTurn \notin cancelled

\* A turn that was never started has left no trace.
FreshTurnsAreClean ==
    \A t \in Turns : taskPC[t] = "none" => t \notin cancelled /\ approval[t] = "none"

\* A task that runs untold to stop is the active one or in the loop's hands.
UncancelledTaskIsKnown ==
    \A t \in Turns :
        taskPC[t] \in Running /\ t \notin cancelled /\ t \notin handleAborted =>
            t = activeTurn \/ (loopPC \in {"cancel", "register"} /\ t = victim)

\* A task that was cancelled and not aborted is in its grace period.
CancelledTaskIsInGrace ==
    \A t \in Turns :
        taskPC[t] \in Running /\ t \in cancelled /\ t \notin handleAborted =>
            loopPC = "grace" /\ t = victim

\* A turn state holds the approvals of its own task only, so that clearing it
\* never drops another task's sender.
ApprovalsAreOwn ==
    \A t, u \in Turns : u \in approvals[t] => u = t /\ taskPC[t] # "none"

IInv ==
    /\ ControlTypeOK
    /\ SlotEmptyWhileLoopWorks
    /\ VictimIsHeld
    /\ ActiveTurnIsLive
    /\ FreshTurnsAreClean
    /\ UncancelledTaskIsKnown
    /\ CancelledTaskIsInGrace
    /\ ApprovalsAreOwn
    /\ ApprovalOutlivesTask
    /\ QueuedInputHasTurnComing

-----------------------------------------------------------------------------
(* Most steps of the clients and the tasks touch little of this state. *)

\* A client's operation that leaves the loop alone or sets it to work.
ClientFrame ==
    /\ UNCHANGED <<activeTurn, taskPC, cancelled, handleAborted, victim>>
    /\ \/ UNCHANGED <<loopPC, reason, idlePendingInput>>
       \/ /\ loopPC = "idle"
          /\ loopPC' = "take"
          /\ reason' \in {"Replaced", "Interrupted", "Shutdown"}
          /\ reason' # "Replaced" => UNCHANGED idlePendingInput

\* A step of task t that moves it on and touches neither the slot nor the
\* approvals.
TaskFrame(t) ==
    /\ taskPC[t] \in Running
    /\ \E to \in Running \cup {"ended", "dropped"} : taskPC' = [taskPC EXCEPT ![t] = to]
    /\ UNCHANGED <<activeTurn, approvals, approval, cancelled, handleAborted, loopVars,
                   idlePendingInput>>

LEMMA ClientFrames ==
    ASSUME ControlTypeOK, ClientStep PROVE ClientFrame
<1> USE DEF ClientFrame, taskVars, abortVars, loopVars, turnVars
<1>1. ASSUME NEW m, UserInput(m) PROVE ClientFrame
  BY <1>1 DEF UserInput, Spawn
<1>2. ASSUME NEW m, NEW t, SteerInput(m, t) PROVE ClientFrame
  BY <1>2 DEF SteerInput
<1>3. ASSUME NEW m, InterAgentCommunication(m) PROVE ClientFrame
  BY <1>3 DEF InterAgentCommunication, Spawn
<1>4. ASSUME NEW kind, SpawnOther(kind) PROVE ClientFrame
  BY <1>4 DEF SpawnOther, Spawn
<1>5. ASSUME Interrupt PROVE ClientFrame
  BY <1>5 DEF Interrupt
<1>6. ASSUME Shutdown PROVE ClientFrame
  BY <1>6 DEF Shutdown
<1>7. ASSUME NEW t, NotifyApproval(t) PROVE ClientFrame
  BY <1>7 DEF NotifyApproval
<1> QED
  BY <1>1, <1>2, <1>3, <1>4, <1>5, <1>6, <1>7 DEF ClientStep

LEMMA MoveIsFrame ==
    ASSUME NEW t, NEW from \in Running, NEW to \in Running \cup {"ended", "dropped"},
           Move(t, from, to)
    PROVE  TaskFrame(t)
  BY DEF Move, Step, TaskFrame, turnVars, abortVars, loopVars

LEMMA TaskFrames ==
    ASSUME ControlTypeOK, NEW t \in Turns, TaskStep(t) \/ DropTask(t)
    PROVE  TaskFrame(t) \/ RequestApproval(t) \/ FinishRemove(t)
<1> USE DEF Running, Suspended
<1>1. CASE BeginTask(t)
  BY <1>1 DEF BeginTask, Step, TaskFrame, turnVars, abortVars, loopVars
<1>2. CASE \/ OtherTaskEnds(t) \/ EnterRunTurn(t) \/ StopBeforeSampling(t) \/ InspectEnd(t)
  BY <1>2, MoveIsFrame DEF OtherTaskEnds, EnterRunTurn, StopBeforeSampling, InspectEnd
<1>3. CASE \/ SampleCompleted(t) \/ SampleFailed(t) \/ StopHookEnds(t) \/ ApprovalReturns(t)
           \/ ApprovalCancelled(t) \/ FlushDone(t) \/ Materialized(t)
           \/ NothingToRecord(t) \/ RolloutWritten(t)
  BY <1>3, MoveIsFrame DEF SampleCompleted, SampleFailed, StopHookEnds, ApprovalReturns,
                           ApprovalCancelled, FlushDone, Materialized, NothingToRecord,
                           RolloutWritten
<1>4. CASE \/ RecordOwnInput(t) \/ GetPendingInput(t) \/ InspectAccept(t) \/ HookBlocks(t)
           \/ RecordAccepted(t)
  BY <1>4 DEF RecordOwnInput, GetPendingInput, InspectAccept, HookBlocks, RecordAccepted,
              Step, TaskFrame, turnVars, abortVars, loopVars
<1>5. CASE InspectBlock(t)
  BY <1>5 DEF InspectBlock, Step, TaskFrame, abortVars, loopVars
<1>6. CASE SampleFollowUp(t) \/ StopHookBlocks(t)
  BY <1>6 DEF SampleFollowUp, StopHookBlocks, FollowUp, Step, TaskFrame, turnVars, abortVars,
              loopVars
<1>7. CASE FinishRecord(t) \/ EmitTurnComplete(t)
  BY <1>7 DEF FinishRecord, EmitTurnComplete, Step, TaskFrame, turnVars, abortVars, loopVars
<1>8. CASE DropTask(t)
  BY <1>8 DEF DropTask, TaskFrame, turnVars, abortVars, loopVars
<1> QED
  BY <1>1, <1>2, <1>3, <1>4, <1>5, <1>6, <1>7, <1>8 DEF TaskStep, RunTurn, OnTaskFinished

-----------------------------------------------------------------------------
(* Clients *)

\* No operation touches approvals but the answer to one, which takes it out.
LEMMA ClientApprovals ==
    ASSUME ControlTypeOK, ApprovalsAreOwn, ClientStep
    PROVE  /\ approvals' \in [Turns -> SUBSET Turns]
           /\ approval' \in [Turns -> {"none", "waiting", "decided", "refused", "sender_dropped"}]
           /\ \A t, u \in Turns : u \in approvals'[t] => u \in approvals[t]
           /\ \A t \in Turns :
                  approval'[t] # approval[t] => approval'[t] = "decided" /\ taskPC[t] # "none"
<1> USE DEF ControlTypeOK
<1>1. CASE \E t \in Turns : NotifyApproval(t)
  BY <1>1 DEF NotifyApproval, ApprovalsAreOwn
<1>2. CASE UNCHANGED <<approvals, approval>>
  BY <1>2
<1>3. \/ \E t \in Turns : NotifyApproval(t)
      \/ UNCHANGED <<approvals, approval>>
  <2> USE DEF taskVars, turnVars
  <2>1. ASSUME NEW m, UserInput(m) PROVE UNCHANGED <<approvals, approval>>
    BY <2>1 DEF UserInput
  <2>2. ASSUME NEW m, NEW t, SteerInput(m, t) PROVE UNCHANGED <<approvals, approval>>
    BY <2>2 DEF SteerInput
  <2>3. ASSUME NEW m, InterAgentCommunication(m) PROVE UNCHANGED <<approvals, approval>>
    BY <2>3 DEF InterAgentCommunication
  <2>4. ASSUME NEW kind, SpawnOther(kind) PROVE UNCHANGED <<approvals, approval>>
    BY <2>4 DEF SpawnOther
  <2>5. ASSUME Interrupt \/ Shutdown PROVE UNCHANGED <<approvals, approval>>
    BY <2>5 DEF Interrupt, Shutdown
  <2> QED
    BY <2>1, <2>2, <2>3, <2>4, <2>5 DEF ClientStep
<1> QED
  BY <1>1, <1>2, <1>3

LEMMA ClientSafe ==
    ASSUME IInv, ClientStep PROVE IInv'
<1> USE DEF IInv, ClientFrame
<1>0. ClientFrame
  BY ClientFrames
<1>1. ControlTypeOK'
  BY <1>0, ClientApprovals DEF ControlTypeOK, LoopPCs
<1>2. SlotEmptyWhileLoopWorks' /\ VictimIsHeld' /\ ActiveTurnIsLive'
  BY <1>0 DEF SlotEmptyWhileLoopWorks, VictimIsHeld, ActiveTurnIsLive
<1>3. FreshTurnsAreClean' /\ ApprovalsAreOwn' /\ ApprovalOutlivesTask'
  BY <1>0, ClientApprovals DEF FreshTurnsAreClean, ApprovalsAreOwn, ApprovalOutlivesTask
<1>4. UncancelledTaskIsKnown' /\ CancelledTaskIsInGrace'
  BY <1>0 DEF UncancelledTaskIsKnown, CancelledTaskIsInGrace
<1>5. QueuedInputHasTurnComing'
  BY <1>0 DEF QueuedInputHasTurnComing, ControlTypeOK
<1> QED
  BY <1>1, <1>2, <1>3, <1>4, <1>5

-----------------------------------------------------------------------------
(* The submission loop *)

LEMMA TakeActiveTurnSafe ==
    ASSUME IInv, TakeActiveTurn PROVE IInv'
<1> USE DEF IInv, TakeActiveTurn, AfterAbort, AfterOp, taskVars, abortVars
<1>1. ControlTypeOK'
  BY DEF ControlTypeOK, LoopPCs
<1>2. SlotEmptyWhileLoopWorks' /\ ActiveTurnIsLive'
  BY DEF SlotEmptyWhileLoopWorks, ActiveTurnIsLive
<1>3. VictimIsHeld'
  BY DEF VictimIsHeld, ActiveTurnIsLive, ControlTypeOK
<1>4. FreshTurnsAreClean' /\ ApprovalsAreOwn' /\ ApprovalOutlivesTask'
  BY DEF FreshTurnsAreClean, ApprovalsAreOwn, ApprovalOutlivesTask
<1>5. UncancelledTaskIsKnown' /\ CancelledTaskIsInGrace'
  BY ConstantsAssumption DEF UncancelledTaskIsKnown, CancelledTaskIsInGrace
<1>6. QueuedInputHasTurnComing'
  BY DEF QueuedInputHasTurnComing
<1> QED
  BY <1>1, <1>2, <1>3, <1>4, <1>5, <1>6

LEMMA CancelTaskSafe ==
    ASSUME IInv, CancelTask PROVE IInv'
<1> USE DEF IInv, CancelTask, taskVars, turnVars
<1>0. victim \in Turns /\ victim \notin cancelled /\ taskPC[victim] # "none" /\ activeTurn = NoTurn
  BY DEF VictimIsHeld, SlotEmptyWhileLoopWorks
<1>1. ControlTypeOK'
  BY <1>0 DEF ControlTypeOK, LoopPCs
<1>2. SlotEmptyWhileLoopWorks' /\ VictimIsHeld' /\ ActiveTurnIsLive'
  BY <1>0 DEF SlotEmptyWhileLoopWorks, VictimIsHeld, ActiveTurnIsLive
<1>3. FreshTurnsAreClean'
  BY <1>0 DEF FreshTurnsAreClean
<1>4. UncancelledTaskIsKnown' /\ CancelledTaskIsInGrace'
  BY <1>0 DEF UncancelledTaskIsKnown, CancelledTaskIsInGrace
<1>5. ApprovalsAreOwn' /\ ApprovalOutlivesTask' /\ QueuedInputHasTurnComing'
  BY <1>0 DEF ApprovalsAreOwn, ApprovalOutlivesTask, QueuedInputHasTurnComing
<1> QED
  BY <1>1, <1>2, <1>3, <1>4, <1>5

LEMMA GraceOverSafe ==
    ASSUME IInv, GraceOver PROVE IInv'
<1> USE DEF IInv, GraceOver, taskVars, turnVars
<1>0. victim \in Turns /\ activeTurn = NoTurn
  BY DEF VictimIsHeld, SlotEmptyWhileLoopWorks
<1>1. ControlTypeOK'
  BY <1>0 DEF ControlTypeOK, LoopPCs
<1>2. SlotEmptyWhileLoopWorks' /\ VictimIsHeld' /\ ActiveTurnIsLive'
  BY <1>0 DEF SlotEmptyWhileLoopWorks, VictimIsHeld, ActiveTurnIsLive
<1>3. UncancelledTaskIsKnown' /\ CancelledTaskIsInGrace'
  BY <1>0 DEF UncancelledTaskIsKnown, CancelledTaskIsInGrace
<1>4. FreshTurnsAreClean' /\ ApprovalsAreOwn' /\ ApprovalOutlivesTask'
  BY DEF FreshTurnsAreClean, ApprovalsAreOwn, ApprovalOutlivesTask
<1>5. QueuedInputHasTurnComing'
  BY DEF QueuedInputHasTurnComing
<1> QED
  BY <1>1, <1>2, <1>3, <1>4, <1>5

LEMMA MarkerAndEventSafe ==
    ASSUME IInv, RecordMarker \/ EmitTurnAborted PROVE IInv'
<1> USE DEF IInv, RecordMarker, EmitTurnAborted, taskVars, turnVars, abortVars
<1>1. ControlTypeOK'
  BY DEF ControlTypeOK, LoopPCs
<1>2. SlotEmptyWhileLoopWorks' /\ VictimIsHeld' /\ ActiveTurnIsLive'
  BY DEF SlotEmptyWhileLoopWorks, VictimIsHeld, ActiveTurnIsLive
<1>3. UncancelledTaskIsKnown' /\ CancelledTaskIsInGrace'
  BY DEF UncancelledTaskIsKnown, CancelledTaskIsInGrace
<1>4. FreshTurnsAreClean' /\ ApprovalsAreOwn' /\ ApprovalOutlivesTask'
  BY DEF FreshTurnsAreClean, ApprovalsAreOwn, ApprovalOutlivesTask
<1>5. QueuedInputHasTurnComing'
  BY DEF QueuedInputHasTurnComing
<1> QED
  BY <1>1, <1>2, <1>3, <1>4, <1>5

\* Clearing the victim's turn state drops the sender of the victim alone,
\* which was aborted.
LEMMA ClearPendingSafe ==
    ASSUME IInv, ClearPending PROVE IInv'
<1> USE DEF IInv, ClearPending, DropApprovals, AfterAbort, AfterOp, abortVars
<1>0. victim \in Turns /\ victim \in handleAborted
  BY DEF VictimIsHeld
<1>1. ControlTypeOK'
  BY <1>0 DEF ControlTypeOK, LoopPCs
<1>2. SlotEmptyWhileLoopWorks' /\ VictimIsHeld' /\ ActiveTurnIsLive'
  BY DEF SlotEmptyWhileLoopWorks, VictimIsHeld, ActiveTurnIsLive
<1>3. UncancelledTaskIsKnown' /\ CancelledTaskIsInGrace'
  BY DEF UncancelledTaskIsKnown, CancelledTaskIsInGrace
<1>4. FreshTurnsAreClean'
  BY <1>0 DEF FreshTurnsAreClean, ApprovalsAreOwn
<1>5. ApprovalsAreOwn'
  BY <1>0 DEF ApprovalsAreOwn, ControlTypeOK
<1>6. ApprovalOutlivesTask'
  BY <1>0 DEF ApprovalsAreOwn, ApprovalOutlivesTask
<1>7. QueuedInputHasTurnComing'
  BY DEF QueuedInputHasTurnComing
<1> QED
  BY <1>1, <1>2, <1>3, <1>4, <1>5, <1>6, <1>7

LEMMA SpawnTokioTaskSafe ==
    ASSUME IInv, SpawnTokioTask PROVE IInv'
<1> USE DEF IInv, turnVars, abortVars
<1>0. PICK t \in FreshTurns : taskPC' = [taskPC EXCEPT ![t] = "spawned"] /\ victim' = t
  BY DEF SpawnTokioTask
<1>1. /\ t \in Turns
      /\ t \notin cancelled
      /\ loopPC = "start"
      /\ loopPC' = "register"
      /\ activeTurn = NoTurn
      /\ UNCHANGED <<activeTurn, approvals, idlePendingInput, approval, cancelled, handleAborted,
                     reason>>
  BY DEF SpawnTokioTask, FreshTurns, FreshTurnsAreClean, SlotEmptyWhileLoopWorks
<1>2. ControlTypeOK'
  BY <1>0, <1>1 DEF ControlTypeOK, LoopPCs, TaskPCs, Running, Suspended
<1>3. SlotEmptyWhileLoopWorks' /\ VictimIsHeld' /\ ActiveTurnIsLive'
  BY <1>0, <1>1 DEF SlotEmptyWhileLoopWorks, VictimIsHeld, ActiveTurnIsLive, ControlTypeOK
<1>4. UncancelledTaskIsKnown' /\ CancelledTaskIsInGrace'
  BY <1>0, <1>1 DEF UncancelledTaskIsKnown, CancelledTaskIsInGrace, ControlTypeOK
<1>5. FreshTurnsAreClean' /\ ApprovalsAreOwn' /\ ApprovalOutlivesTask'
  BY <1>0, <1>1 DEF FreshTurnsAreClean, FreshTurns, ApprovalsAreOwn, ApprovalOutlivesTask,
                    ControlTypeOK
<1>6. QueuedInputHasTurnComing'
  BY <1>1 DEF QueuedInputHasTurnComing
<1> QED
  BY <1>2, <1>3, <1>4, <1>5, <1>6

LEMMA RegisterSafe ==
    ASSUME IInv, RegisterNewActiveTask PROVE IInv'
<1> USE DEF IInv, RegisterNewActiveTask, AfterOp, taskVars
<1>0. victim \in Turns /\ victim \notin cancelled /\ taskPC[victim] # "none" /\ activeTurn = NoTurn
  BY DEF VictimIsHeld, SlotEmptyWhileLoopWorks
<1>1. ControlTypeOK'
  BY <1>0 DEF ControlTypeOK, LoopPCs
<1>2. SlotEmptyWhileLoopWorks' /\ VictimIsHeld' /\ ActiveTurnIsLive'
  BY <1>0 DEF SlotEmptyWhileLoopWorks, VictimIsHeld, ActiveTurnIsLive
<1>3. UncancelledTaskIsKnown' /\ CancelledTaskIsInGrace'
  BY <1>0, ConstantsAssumption DEF UncancelledTaskIsKnown, CancelledTaskIsInGrace
<1>4. FreshTurnsAreClean' /\ ApprovalsAreOwn' /\ ApprovalOutlivesTask'
  BY DEF FreshTurnsAreClean, ApprovalsAreOwn, ApprovalOutlivesTask
<1>5. QueuedInputHasTurnComing'
  BY DEF QueuedInputHasTurnComing
<1> QED
  BY <1>1, <1>2, <1>3, <1>4, <1>5

-----------------------------------------------------------------------------
(* The tasks *)

LEMMA TaskFrameSafe ==
    ASSUME IInv, NEW t \in Turns, TaskFrame(t) PROVE IInv'
<1> USE DEF IInv, loopVars
<1>0. PICK to \in Running \cup {"ended", "dropped"} : taskPC' = [taskPC EXCEPT ![t] = to]
  BY DEF TaskFrame
<1>1. /\ taskPC[t] \in Running
      /\ \A u \in Turns : taskPC'[u] # "none" <=> taskPC[u] # "none"
      /\ \A u \in Turns : taskPC'[u] \in Running => taskPC[u] \in Running
      /\ UNCHANGED <<activeTurn, approvals, idlePendingInput, approval, cancelled, handleAborted,
                     loopPC, victim, reason>>
  BY <1>0 DEF TaskFrame, ControlTypeOK, Running, Suspended
<1>2. ControlTypeOK'
  BY <1>0, <1>1 DEF ControlTypeOK, TaskPCs
<1>3. SlotEmptyWhileLoopWorks' /\ VictimIsHeld' /\ ActiveTurnIsLive'
  BY <1>1 DEF SlotEmptyWhileLoopWorks, VictimIsHeld, ActiveTurnIsLive, ControlTypeOK
<1>4. UncancelledTaskIsKnown' /\ CancelledTaskIsInGrace'
  BY <1>1 DEF UncancelledTaskIsKnown, CancelledTaskIsInGrace
<1>5. FreshTurnsAreClean' /\ ApprovalsAreOwn' /\ ApprovalOutlivesTask'
  BY <1>1 DEF FreshTurnsAreClean, ApprovalsAreOwn, ApprovalOutlivesTask
<1>6. QueuedInputHasTurnComing'
  BY <1>1 DEF QueuedInputHasTurnComing
<1> QED
  BY <1>2, <1>3, <1>4, <1>5, <1>6

\* A task that asks for approval is the active one or there is none: it was
\* not aborted, or it would not get here, and a cancelled one or one the loop
\* holds finds the slot empty.
LEMMA RequestApprovalSafe ==
    ASSUME IInv, NEW t \in Turns, RequestApproval(t) PROVE IInv'
<1> USE DEF IInv, loopVars, abortVars
<1>1. /\ taskPC[t] \in Running
      /\ taskPC' = [taskPC EXCEPT ![t] = "approval"]
      /\ t \notin handleAborted
      /\ UNCHANGED <<activeTurn, idlePendingInput, cancelled, handleAborted, loopPC, victim, reason>>
  BY DEF RequestApproval, Step, CanRun, Running, Suspended
<1>2. activeTurn # NoTurn => t = activeTurn
  BY <1>1 DEF UncancelledTaskIsKnown, CancelledTaskIsInGrace, SlotEmptyWhileLoopWorks
<1>3. /\ approvals' = [u \in Turns |->
                            IF u = activeTurn THEN approvals[u] \cup {t} ELSE approvals[u]]
      /\ approval' = [approval EXCEPT ![t] = IF activeTurn = NoTurn THEN "refused" ELSE "waiting"]
  BY DEF RequestApproval
<1>4. ControlTypeOK'
  BY <1>1, <1>3 DEF ControlTypeOK, TaskPCs, Running, Suspended
<1>5. /\ \A u \in Turns : taskPC'[u] # "none" <=> taskPC[u] # "none"
      /\ \A u \in Turns : taskPC'[u] \in Running => taskPC[u] \in Running
  BY <1>1 DEF ControlTypeOK, Running, Suspended
<1>6. SlotEmptyWhileLoopWorks' /\ VictimIsHeld' /\ ActiveTurnIsLive'
  BY <1>1, <1>5 DEF SlotEmptyWhileLoopWorks, VictimIsHeld, ActiveTurnIsLive, ControlTypeOK
<1>7. UncancelledTaskIsKnown' /\ CancelledTaskIsInGrace'
  BY <1>1, <1>5 DEF UncancelledTaskIsKnown, CancelledTaskIsInGrace
<1>8. FreshTurnsAreClean' /\ ApprovalOutlivesTask'
  BY <1>1, <1>3, <1>5 DEF FreshTurnsAreClean, ApprovalOutlivesTask, ControlTypeOK, Running, Suspended
<1>9. ApprovalsAreOwn'
  <2>1. \A v, u \in Turns : u \in approvals'[v] => u \in approvals[v] \/ (u = t /\ v = activeTurn)
    BY <1>3
  <2>2. taskPC'[t] # "none"
    BY <1>1 DEF ControlTypeOK
  <2> QED
    BY <1>2, <1>5, <2>1, <2>2, ConstantsAssumption DEF ApprovalsAreOwn
<1>10. QueuedInputHasTurnComing'
  BY <1>1 DEF QueuedInputHasTurnComing
<1> QED
  BY <1>4, <1>6, <1>7, <1>8, <1>9, <1>10

\* A task that leaves the slot drops only its own senders, and is aborted.
LEMMA FinishRemoveSafe ==
    ASSUME IInv, NEW t \in Turns, FinishRemove(t) PROVE IInv'
<1> USE DEF IInv, loopVars
<1>1. CASE activeTurn # t
  BY <1>1, TaskFrameSafe DEF FinishRemove, Step, TaskFrame, Running, Suspended
<1>2. CASE activeTurn = t
  <2>1. /\ taskPC[t] \in Running
        /\ taskPC' = [taskPC EXCEPT ![t] = "finish_record"]
        /\ activeTurn' = NoTurn
        /\ handleAborted' = handleAborted \cup {t}
        /\ approvals' = [approvals EXCEPT ![t] = {}]
        /\ approval' = [u \in Turns |->
                            IF u \in approvals[t] THEN "sender_dropped" ELSE approval[u]]
        /\ UNCHANGED <<idlePendingInput, cancelled, loopPC, victim, reason>>
    BY <1>2 DEF FinishRemove, Step, Running, Suspended
  <2>2. /\ \A u \in Turns : taskPC'[u] # "none" <=> taskPC[u] # "none"
        /\ \A u \in Turns : taskPC'[u] \in Running => taskPC[u] \in Running
    BY <2>1 DEF ControlTypeOK, Running, Suspended
  <2>3. ControlTypeOK'
    BY <2>1 DEF ControlTypeOK, TaskPCs, Running, Suspended
  <2>4. SlotEmptyWhileLoopWorks' /\ VictimIsHeld' /\ ActiveTurnIsLive'
    BY <2>1, <2>2 DEF SlotEmptyWhileLoopWorks, VictimIsHeld, ActiveTurnIsLive, ControlTypeOK
  <2>5. UncancelledTaskIsKnown' /\ CancelledTaskIsInGrace'
    BY <1>2, <2>1, <2>2 DEF UncancelledTaskIsKnown, CancelledTaskIsInGrace
  <2>6. FreshTurnsAreClean'
    BY <2>1, <2>2 DEF FreshTurnsAreClean, ApprovalsAreOwn
  <2>7. ApprovalsAreOwn'
    BY <2>1, <2>2 DEF ApprovalsAreOwn, ControlTypeOK
  <2>8. ApprovalOutlivesTask'
    BY <2>1, <2>2 DEF ApprovalsAreOwn, ApprovalOutlivesTask
  <2>9. QueuedInputHasTurnComing'
    BY <2>1 DEF QueuedInputHasTurnComing
  <2> QED
    BY <2>3, <2>4, <2>5, <2>6, <2>7, <2>8, <2>9
<1> QED
  BY <1>1, <1>2

-----------------------------------------------------------------------------

LEMMA InvariantStep == IInv /\ [Next]_vars => IInv'
<1> SUFFICES ASSUME IInv, [Next]_vars PROVE IInv'
  OBVIOUS
<1>1. CASE ClientStep
  BY <1>1, ClientSafe
<1>2. CASE LoopStep
  BY <1>2, TakeActiveTurnSafe, CancelTaskSafe, GraceOverSafe, MarkerAndEventSafe,
     ClearPendingSafe, SpawnTokioTaskSafe, RegisterSafe DEF LoopStep, AbortAllTasks
<1>3. ASSUME NEW t \in Turns, TaskStep(t) \/ DropTask(t) PROVE IInv'
  BY <1>3, TaskFrames, TaskFrameSafe, RequestApprovalSafe, FinishRemoveSafe DEF IInv
<1>4. CASE UNCHANGED vars
  BY <1>4 DEF vars, turnVars, taskVars, abortVars, loopVars, IInv, ControlTypeOK,
     SlotEmptyWhileLoopWorks, VictimIsHeld, ActiveTurnIsLive, FreshTurnsAreClean,
     UncancelledTaskIsKnown, CancelledTaskIsInGrace, ApprovalsAreOwn, ApprovalOutlivesTask,
     QueuedInputHasTurnComing
<1> QED
  BY <1>1, <1>2, <1>3, <1>4 DEF Next, Quiescent

LEMMA Inductive == Spec => []IInv
<1>1. Init => IInv
  BY DEF Init, IInv, ControlTypeOK, SlotEmptyWhileLoopWorks, VictimIsHeld, ActiveTurnIsLive,
     FreshTurnsAreClean, UncancelledTaskIsKnown, CancelledTaskIsInGrace, ApprovalsAreOwn,
     ApprovalOutlivesTask, QueuedInputHasTurnComing, TaskPCs, Running, Suspended, LoopPCs
<1> QED
  BY <1>1, InvariantStep, PTL DEF Spec

\* At most one task runs that nobody has told to stop.
THEOREM AtMostOneUncancelledTask == Spec => []OneUncancelledTask
<1>1. IInv => OneUncancelledTask
  BY ConstantsAssumption DEF IInv, OneUncancelledTask, UncancelledTaskIsKnown,
     SlotEmptyWhileLoopWorks
<1> QED
  BY <1>1, Inductive, PTL

\* Input queued at session scope always has a turn coming that takes it.
THEOREM QueuedInputIsTaken == Spec => []QueuedInputHasTurnComing
<1>1. IInv => QueuedInputHasTurnComing
  BY DEF IInv
<1> QED
  BY <1>1, Inductive, PTL

\* No approval sender is dropped under a task that could still show the
\* answer to the model.
THEOREM ApprovalsOutliveTasks == Spec => []ApprovalOutlivesTask
<1>1. IInv => ApprovalOutlivesTask
  BY DEF IInv
<1> QED
  BY <1>1, Inductive, PTL

-----------------------------------------------------------------------------
(* The refinement of TurnSlot *)

\* A step that leaves the slot and the loop's register alone, and spawns no
\* turn, is a stutter of the slot.
LEMMA SlotStutters ==
    ASSUME UNCHANGED activeTurn,
           \A t \in Turns : taskPC'[t] # "none" <=> taskPC[t] # "none",
           loopPC # "register", loopPC' # "register"
    PROVE  UNCHANGED <<activeTurn, TurnsOver>>
  BY DEF TurnsOver

LEMMA SlotStep == IInv /\ [Next]_vars => [Slot!Next]_<<activeTurn, TurnsOver>>
<1> SUFFICES ASSUME IInv, [Next]_vars PROVE [Slot!Next]_<<activeTurn, TurnsOver>>
  OBVIOUS
<1>1. ASSUME UNCHANGED <<activeTurn, loopPC, victim>>,
             \A t \in Turns : taskPC'[t] # "none" <=> taskPC[t] # "none"
      PROVE  UNCHANGED <<activeTurn, TurnsOver>>
  BY <1>1 DEF TurnsOver
<1>2. CASE ClientStep
  <2>1. ClientFrame
    BY <1>2, ClientFrames DEF IInv
  <2> QED
    BY <2>1, <1>1, SlotStutters DEF ClientFrame
<1>3. CASE TakeActiveTurn
  <2>1. CASE activeTurn = NoTurn
    BY <1>3, <2>1, SlotStutters DEF TakeActiveTurn, AfterAbort, AfterOp, taskVars
  <2>2. CASE activeTurn # NoTurn
    <3>1. /\ activeTurn \in Turns
          /\ taskPC[activeTurn] # "none"
          /\ activeTurn' = NoTurn
          /\ loopPC = "take" /\ loopPC' = "cancel"
          /\ UNCHANGED taskPC
      BY <1>3, <2>2 DEF TakeActiveTurn, IInv, ControlTypeOK, ActiveTurnIsLive, taskVars
    <3>2. TurnsOver' = TurnsOver \cup {activeTurn}
      BY <3>1, ConstantsAssumption DEF TurnsOver
    <3> QED
      BY <2>2, <3>1, <3>2 DEF Slot!Next, Slot!Leave
  <2> QED
    BY <2>1, <2>2
<1>4. CASE CancelTask \/ GraceOver \/ RecordMarker \/ EmitTurnAborted \/ ClearPending
  BY <1>4, SlotStutters DEF CancelTask, GraceOver, RecordMarker, EmitTurnAborted, ClearPending,
     AfterAbort, AfterOp, turnVars, taskVars
<1>5. CASE SpawnTokioTask
  <2>1. PICK t \in FreshTurns : taskPC' = [taskPC EXCEPT ![t] = "spawned"] /\ victim' = t
    BY <1>5 DEF SpawnTokioTask
  <2>2. loopPC = "start" /\ loopPC' = "register" /\ UNCHANGED activeTurn
    BY <1>5 DEF SpawnTokioTask, turnVars
  <2> QED
    BY <2>1, <2>2 DEF TurnsOver, FreshTurns, IInv, ControlTypeOK
<1>6. CASE RegisterNewActiveTask
  <2>1. /\ victim \in Turns
        /\ activeTurn = NoTurn
        /\ activeTurn' = victim
        /\ loopPC = "register" /\ loopPC' # "register"
        /\ UNCHANGED <<taskPC, victim>>
    BY <1>6 DEF RegisterNewActiveTask, AfterOp, IInv, VictimIsHeld, SlotEmptyWhileLoopWorks,
       taskVars
  <2>2. victim \notin TurnsOver /\ UNCHANGED TurnsOver
    BY <2>1, ConstantsAssumption DEF TurnsOver
  <2> QED
    BY <2>1, <2>2 DEF Slot!Next, Slot!Enter
<1>7. ASSUME NEW t \in Turns, TaskStep(t) \/ DropTask(t)
      PROVE  [Slot!Next]_<<activeTurn, TurnsOver>>
  <2> USE DEF IInv, ControlTypeOK
  <2>1. CASE TaskFrame(t) \/ RequestApproval(t) \/ (FinishRemove(t) /\ activeTurn # t)
    <3>1. UNCHANGED <<activeTurn, loopPC, victim>>
      BY <2>1 DEF TaskFrame, RequestApproval, FinishRemove, loopVars
    <3>2. \A u \in Turns : taskPC'[u] # "none" <=> taskPC[u] # "none"
      BY <2>1 DEF TaskFrame, RequestApproval, FinishRemove, Step, Running, Suspended
    <3> QED
      BY <3>1, <3>2, <1>1
  <2>2. CASE FinishRemove(t) /\ activeTurn = t
    <3>1. /\ taskPC[t] = "finish"
          /\ taskPC' = [taskPC EXCEPT ![t] = "finish_record"]
          /\ activeTurn' = NoTurn
          /\ UNCHANGED <<loopPC, victim>>
      BY <2>2 DEF FinishRemove, Step, loopVars
    <3>2. loopPC # "register"
      BY <2>2, ConstantsAssumption DEF SlotEmptyWhileLoopWorks
    <3>3. TurnsOver' = TurnsOver \cup {t}
      BY <2>2, <3>1, <3>2, ConstantsAssumption DEF TurnsOver
    <3> QED
      BY <2>2, <3>1, <3>3, ConstantsAssumption DEF Slot!Next, Slot!Leave
  <2> QED
    BY <1>7, <2>1, <2>2, TaskFrames
<1>8. CASE UNCHANGED vars
  BY <1>8, <1>1 DEF vars, turnVars, taskVars, loopVars
<1> QED
  BY <1>2, <1>3, <1>4, <1>5, <1>6, <1>7, <1>8 DEF Next, LoopStep, AbortAllTasks, Quiescent

\* The session implements the slot: a turn enters only when it is empty, and
\* only once.
THEOREM SessionImplementsSlot == Spec => TurnsTakeTheSlotInTurn
<1>1. Init => Slot!Init
  BY DEF Init, Slot!Init, TurnsOver
<1> QED
  BY <1>1, SlotStep, Inductive, PTL DEF Spec, TurnsTakeTheSlotInTurn, Slot!Spec

-----------------------------------------------------------------------------
(* Type correctness of the data the turns carry *)

History == Seq([item : Inputs \cup {Marker}, turn : Turns])

\* The part of TypeOK that the control of turns does not depend on.
DataTypeOK ==
    /\ pendingInput \in [Turns -> Seq(Inputs)]
    /\ idlePendingInput \in Seq(Inputs)
    /\ history \in History
    /\ taskKind \in [Turns -> Kinds]
    /\ taskInput \in [Turns -> Seq(Inputs)]
    /\ heldInput \in [Turns -> [inspecting : Seq(Inputs), accepted : Seq(Inputs)]]
    /\ followUps \in [Turns -> Nat]
    /\ next \in [kind : Kinds, input : Seq(Inputs)]
    /\ interrupts \in Nat
    /\ sent \subseteq Inputs
    /\ arrivals \in [Turns -> Seq(Inputs)]
    /\ started \subseteq Turns
    /\ completed \subseteq Turns
    /\ abortedEvents \subseteq Turns

LEMMA TypeOKParts == TypeOK <=> ControlTypeOK /\ DataTypeOK
  BY DEF TypeOK, ControlTypeOK, DataTypeOK, TaskPCs, History

\* Recording items for a turn extends the history.
LEMMA RecordedType ==
    ASSUME NEW t \in Turns, NEW items \in Seq(Inputs \cup {Marker}), history \in History
    PROVE  history \o Recorded(items, t) \in History
<1>1. items \in [1..Len(items) -> Inputs \cup {Marker}] /\ Len(items) \in Nat
  BY LenProperties
<1>2. Recorded(items, t) \in [1..Len(items) -> [item : Inputs \cup {Marker}, turn : Turns]]
  BY <1>1 DEF Recorded
<1>3. Recorded(items, t) \in History
  <2> DEFINE S == [item : Inputs \cup {Marker}, turn : Turns]
  <2>1. Recorded(items, t) \in UNION {[1..n -> S] : n \in Nat}
    BY <1>1, <1>2
  <2>2. Recorded(items, t) \in Seq(S)
    BY <2>1, SeqDef, Zenon
  <2> QED
    BY <2>2 DEF History
<1> QED
  BY <1>3, ConcatProperties DEF History

LEMMA InputsAreItems ==
    ASSUME NEW items \in Seq(Inputs) PROVE items \in Seq(Inputs \cup {Marker})
  BY SeqMonotonic

LEMMA ClientData ==
    ASSUME TypeOK, ClientStep PROVE DataTypeOK'
<1> USE TypeOKParts DEF DataTypeOK, turnVars, taskVars, loopVars, clientVars, eventVars
<1>0. /\ \A m \in Inputs : <<m>> \in Seq(Inputs)
      /\ <<>> \in Seq(Inputs)
      /\ "regular" \in Kinds
      /\ OtherKinds \subseteq Kinds
  BY ConstantsAssumption DEF Kinds
<1>1. ASSUME NEW t \in Turns, NEW m \in Inputs, Push(t, <<m>>)
      PROVE  /\ pendingInput' \in [Turns -> Seq(Inputs)]
             /\ arrivals' \in [Turns -> Seq(Inputs)]
  BY <1>0, <1>1, ConcatProperties DEF Push
<1>2. ASSUME NEW kind \in Kinds, NEW input \in Seq(Inputs), Spawn(kind, input)
      PROVE  next' \in [kind : Kinds, input : Seq(Inputs)]
  BY <1>2 DEF Spawn
<1>3. ASSUME NEW m \in UserInputs, UserInput(m) PROVE DataTypeOK'
  <2>1. /\ pendingInput' \in [Turns -> Seq(Inputs)]
        /\ arrivals' \in [Turns -> Seq(Inputs)]
        /\ next' \in [kind : Kinds, input : Seq(Inputs)]
    BY <1>0, <1>1, <1>2, <1>3 DEF UserInput, Inputs, ControlTypeOK
  <2> QED
    BY <1>3, <2>1 DEF UserInput, Inputs
<1>4. ASSUME NEW m \in UserInputs, NEW t \in Turns, SteerInput(m, t) PROVE DataTypeOK'
  <2>1. /\ pendingInput' \in [Turns -> Seq(Inputs)]
        /\ arrivals' \in [Turns -> Seq(Inputs)]
    BY <1>1, <1>4 DEF SteerInput, Inputs
  <2> QED
    BY <1>4, <2>1 DEF SteerInput, Inputs
<1>5. ASSUME NEW m \in AgentInputs, InterAgentCommunication(m) PROVE DataTypeOK'
  <2>1. /\ pendingInput' \in [Turns -> Seq(Inputs)]
        /\ arrivals' \in [Turns -> Seq(Inputs)]
        /\ next' \in [kind : Kinds, input : Seq(Inputs)]
    BY <1>0, <1>1, <1>2, <1>5 DEF InterAgentCommunication, Inputs, ControlTypeOK
  <2>2. idlePendingInput' \in Seq(Inputs)
    <3>1. m \in Inputs /\ idlePendingInput \in Seq(Inputs)
      BY DEF Inputs
    <3>2. idlePendingInput' = idlePendingInput \/ idlePendingInput' = Append(idlePendingInput, m)
      BY <1>5 DEF InterAgentCommunication
    <3> HIDE DEF Inputs
    <3>3. Append(idlePendingInput, m) \in Seq(Inputs)
      BY <3>1, AppendProperties
    <3> QED
      BY <3>1, <3>2, <3>3
  <2> QED
    BY <1>5, <2>1, <2>2 DEF InterAgentCommunication, Inputs
<1>6. ASSUME NEW kind \in OtherKinds, SpawnOther(kind) PROVE DataTypeOK'
  BY <1>0, <1>2, <1>6 DEF SpawnOther
<1>7. ASSUME Interrupt PROVE DataTypeOK'
  BY <1>0, <1>7 DEF Interrupt, QueuedInputTask
<1>8. ASSUME Shutdown PROVE DataTypeOK'
  BY <1>0, <1>8 DEF Shutdown, QueuedInputTask
<1>9. ASSUME NEW t \in Turns, NotifyApproval(t) PROVE DataTypeOK'
  BY <1>9 DEF NotifyApproval
<1> QED
  BY <1>3, <1>4, <1>5, <1>6, <1>7, <1>8, <1>9 DEF ClientStep

LEMMA LoopData ==
    ASSUME TypeOK, VictimIsHeld, LoopStep PROVE DataTypeOK'
<1> USE TypeOKParts DEF DataTypeOK, turnVars, taskVars, clientVars, eventVars
<1>1. CASE TakeActiveTurn
  BY <1>1 DEF TakeActiveTurn
<1>2. CASE CancelTask \/ GraceOver
  BY <1>2 DEF CancelTask, GraceOver
<1>3. CASE RecordMarker
  <2>1. victim \in Turns /\ <<Marker>> \in Seq(Inputs \cup {Marker})
    BY <1>3 DEF RecordMarker, VictimIsHeld
  <2>2. history' \in History
    BY <1>3, <2>1, RecordedType DEF RecordMarker
  <2> QED
    BY <1>3, <2>2 DEF RecordMarker
<1>4. CASE EmitTurnAborted
  BY <1>4 DEF EmitTurnAborted, VictimIsHeld
<1>5. CASE ClearPending
  <2>1. pendingInput' \in [Turns -> Seq(Inputs)]
    BY <1>5, EmptySeq DEF ClearPending
  <2> QED
    BY <1>5, <2>1 DEF ClearPending
<1>6. CASE SpawnTokioTask
  <2>1. PICK t \in FreshTurns :
             /\ taskKind' = [taskKind EXCEPT ![t] = next.kind]
             /\ taskInput' = [taskInput EXCEPT ![t] = next.input]
    BY <1>6 DEF SpawnTokioTask
  <2> QED
    BY <1>6, <2>1 DEF SpawnTokioTask
<1>7. CASE RegisterNewActiveTask
  <2>1. victim \in Turns
    BY <1>7 DEF RegisterNewActiveTask, VictimIsHeld
  <2>2. /\ pendingInput' \in [Turns -> Seq(Inputs)]
        /\ arrivals' \in [Turns -> Seq(Inputs)]
    BY <1>7, <2>1, ConcatProperties DEF RegisterNewActiveTask, Push
  <2> QED
    BY <1>7, <2>2, EmptySeq DEF RegisterNewActiveTask
<1> QED
  BY <1>1, <1>2, <1>3, <1>4, <1>5, <1>6, <1>7 DEF LoopStep, AbortAllTasks

\* A task's step that only moves it on changes no data.
LEMMA TaskData ==
    ASSUME TypeOK, NEW t \in Turns, TaskStep(t) \/ DropTask(t) PROVE DataTypeOK'
<1> USE TypeOKParts DEF DataTypeOK
<1> DEFINE Held == [inspecting : Seq(Inputs), accepted : Seq(Inputs)]
<1>1. ASSUME NEW from, NEW to, Move(t, from, to) PROVE DataTypeOK'
  BY <1>1 DEF Move, turnVars, loopVars, clientVars, eventVars
<1>2. CASE \/ OtherTaskEnds(t) \/ EnterRunTurn(t) \/ StopBeforeSampling(t) \/ InspectEnd(t)
           \/ SampleCompleted(t) \/ SampleFailed(t) \/ StopHookEnds(t) \/ ApprovalReturns(t)
           \/ ApprovalCancelled(t) \/ FlushDone(t) \/ Materialized(t) \/ NothingToRecord(t)
           \/ RolloutWritten(t)
  BY <1>1, <1>2 DEF OtherTaskEnds, EnterRunTurn, StopBeforeSampling, InspectEnd,
     SampleCompleted, SampleFailed, StopHookEnds, ApprovalReturns, ApprovalCancelled, FlushDone,
     Materialized, NothingToRecord, RolloutWritten
<1>3. CASE BeginTask(t) \/ EmitTurnComplete(t) \/ DropTask(t) \/ RequestApproval(t)
  BY <1>3 DEF BeginTask, EmitTurnComplete, DropTask, RequestApproval, turnVars, loopVars,
     clientVars, eventVars
<1>4. CASE RecordOwnInput(t)
  <2>1. taskInput[t] \in Seq(Inputs \cup {Marker})
    BY InputsAreItems
  <2>2. history' \in History
    BY <1>4, <2>1, RecordedType DEF RecordOwnInput
  <2> QED
    BY <1>4, <2>2 DEF RecordOwnInput, turnVars, loopVars, clientVars, eventVars
<1>5. CASE GetPendingInput(t)
  <2>1. heldInput' \in [Turns -> Held] /\ pendingInput' \in [Turns -> Seq(Inputs)]
    BY <1>5, EmptySeq DEF GetPendingInput, HasPendingInput, ControlTypeOK
  <2> QED
    BY <1>5, <2>1 DEF GetPendingInput, loopVars, clientVars, eventVars
<1>6. CASE InspectAccept(t)
  <2> DEFINE batch == heldInput[t].inspecting
  <2>1. batch \in Seq(Inputs) /\ batch # <<>> /\ heldInput[t].accepted \in Seq(Inputs)
    BY <1>6 DEF InspectAccept
  <2>2. Head(batch) \in Inputs /\ Tail(batch) \in Seq(Inputs)
    BY <2>1, HeadTailProperties
  <2>3. Append(heldInput[t].accepted, Head(batch)) \in Seq(Inputs)
    BY <2>1, <2>2, AppendProperties
  <2>4. heldInput' \in [Turns -> Held]
    BY <1>6, <2>2, <2>3 DEF InspectAccept
  <2> QED
    BY <1>6, <2>4 DEF InspectAccept, turnVars, loopVars, clientVars, eventVars
<1>7. CASE InspectBlock(t)
  <2> DEFINE rest == heldInput[t].inspecting
  <2>1. rest \in Seq(Inputs)
    OBVIOUS
  <2>2. \A u \in Turns : rest \o pendingInput[u] \in Seq(Inputs)
    BY <2>1, ConcatProperties
  <2>3. pendingInput' \in [Turns -> Seq(Inputs)]
    BY <1>7, <2>2 DEF InspectBlock
  <2>4. heldInput' \in [Turns -> Held]
    BY <1>7, EmptySeq DEF InspectBlock
  <2> QED
    BY <1>7, <2>3, <2>4 DEF InspectBlock, loopVars, clientVars, eventVars
<1>8. CASE RecordAccepted(t)
  <2> DEFINE taken == heldInput[t].accepted
  <2>1. taken \in Seq(Inputs) /\ taken # <<>>
    BY <1>8 DEF RecordAccepted
  <2>2. Head(taken) \in Inputs /\ Tail(taken) \in Seq(Inputs)
    BY <2>1, HeadTailProperties
  <2>3. <<Head(taken)>> \in Seq(Inputs \cup {Marker})
    BY <2>2
  <2>4. history' \in History
    BY <1>8, <2>3, RecordedType DEF RecordAccepted
  <2>5. heldInput' \in [Turns -> Held]
    BY <1>8, <2>2 DEF RecordAccepted
  <2> QED
    BY <1>8, <2>4, <2>5 DEF RecordAccepted, turnVars, loopVars, clientVars, eventVars
<1>9. CASE SampleFollowUp(t) \/ StopHookBlocks(t)
  <2>1. followUps' = [followUps EXCEPT ![t] = @ + 1]
    BY <1>9 DEF SampleFollowUp, StopHookBlocks, FollowUp
  <2>2. followUps' \in [Turns -> Nat]
    BY <2>1
  <2> QED
    BY <1>9, <2>2 DEF SampleFollowUp, StopHookBlocks, FollowUp, turnVars, loopVars, clientVars,
       eventVars
<1>10. CASE FinishRemove(t)
  <2>1. CASE activeTurn = t
    <3>1. /\ heldInput' = [heldInput EXCEPT ![t].accepted = pendingInput[t]]
          /\ pendingInput' = [pendingInput EXCEPT ![t] = <<>>]
      BY <1>10, <2>1 DEF FinishRemove
    <3>2. heldInput' \in [Turns -> Held] /\ pendingInput' \in [Turns -> Seq(Inputs)]
      BY <3>1, EmptySeq
    <3> QED
      BY <1>10, <3>2 DEF FinishRemove, loopVars, clientVars, eventVars
  <2>2. CASE activeTurn # t
    BY <1>10, <2>2 DEF FinishRemove, loopVars, clientVars, eventVars
  <2> QED
    BY <2>1, <2>2
<1>11. CASE FinishRecord(t)
  <2> DEFINE left == heldInput[t].accepted
  <2>1. left \in Seq(Inputs) /\ left # <<>>
    BY <1>11 DEF FinishRecord
  <2>2. Head(left) \in Inputs /\ Tail(left) \in Seq(Inputs)
    BY <2>1, HeadTailProperties
  <2>3. <<Head(left)>> \in Seq(Inputs \cup {Marker})
    BY <2>2
  <2>4. history' \in History
    BY <1>11, <2>3, RecordedType DEF FinishRecord
  <2>5. heldInput' \in [Turns -> Held]
    BY <1>11, <2>2 DEF FinishRecord
  <2> QED
    BY <1>11, <2>4, <2>5 DEF FinishRecord, turnVars, loopVars, clientVars, eventVars
<1>12. CASE HookBlocks(t)
  <2>1. Tail(heldInput[t].inspecting) \in Seq(Inputs)
    BY <1>12, HeadTailProperties DEF HookBlocks
  <2>2. heldInput' \in [Turns -> Held]
    BY <1>12, <2>1 DEF HookBlocks
  <2> QED
    BY <1>12, <2>2 DEF HookBlocks, turnVars, loopVars, clientVars, eventVars
<1> QED
  BY <1>2, <1>3, <1>4, <1>5, <1>6, <1>7, <1>8, <1>9, <1>10, <1>11, <1>12
  DEF TaskStep, RunTurn, OnTaskFinished

\* Every variable keeps its type.
THEOREM TypeCorrect == Spec => []TypeOK
<1>1. Init => DataTypeOK
  BY EmptySeq DEF Init, DataTypeOK, History, NothingHeld, QueuedInputTask, Kinds
<1>2. IInv /\ DataTypeOK /\ [Next]_vars => DataTypeOK'
  <2> SUFFICES ASSUME IInv, DataTypeOK, [Next]_vars PROVE DataTypeOK'
    OBVIOUS
  <2>1. TypeOK
    BY TypeOKParts DEF IInv
  <2>2. CASE UNCHANGED vars
    BY <2>2 DEF vars, turnVars, taskVars, loopVars, clientVars, eventVars, DataTypeOK
  <2> QED
    BY <2>1, <2>2, ClientData, LoopData, TaskData DEF Next, Quiescent, IInv
<1>3. IInv /\ DataTypeOK => TypeOK
  BY TypeOKParts DEF IInv
<1> QED
  BY <1>1, <1>2, <1>3, Inductive, PTL DEF Spec
-----------------------------------------------------------------------------
(***************************************************************************)
(* Where input is, from the client that sends it to the history.           *)
(*                                                                         *)
(* An input waits for a turn (in idle_pending_input, or as the own input   *)
(* of the turn that is started for it), is accepted by one (arrivals), and *)
(* is then in one place at a time: pending in a turn, in a task's batch,   *)
(* among the items a task accepted, or in the history.  The invariant says *)
(* so, and, for the order, that what a task may still put back never       *)
(* overtakes what came before it.                                          *)
(***************************************************************************)

\* m comes before n in the sequence s.
Before(s, m, n) == \E i, j \in DOMAIN s : i < j /\ s[i] = m /\ s[j] = n

NoDuplicates(s) == \A m : ~Before(s, m, m)

Entry(m, t) == [item |-> m, turn |-> t]

Batch(t) == heldInput[t].inspecting
Accepted(t) == heldInput[t].accepted

\* The loop has an operation's input in hand and has not started its turn.
BeforeStart == {"take", "cancel", "grace", "marker", "emit", "clear", "start"}

\* Clients send every input once.
InputIsSent ==
    /\ \A t \in Turns : /\ Range(arrivals[t]) \subseteq sent
                        /\ Range(taskInput[t]) \subseteq sent \cap UserInputs
    /\ Range(idlePendingInput) \subseteq sent \cap AgentInputs
    /\ Range(next.input) \subseteq sent \cap UserInputs

\* A turn accepts an input once, and no other turn does.
AcceptedOnce ==
    /\ \A t \in Turns : NoDuplicates(arrivals[t])
    /\ NoDuplicates(idlePendingInput)
    /\ \A t, u \in Turns : \A m \in Range(arrivals[t]) : m \in Range(arrivals[u]) => t = u
    /\ \A t \in Turns : \A m \in Range(arrivals[t]) : m \notin Range(idlePendingInput)

\* The own input of a turn is that of no other and is accepted by none.
OwnInputIsOwn ==
    /\ \A t \in Turns : NoDuplicates(taskInput[t])
    /\ NoDuplicates(next.input)
    /\ \A t, u \in Turns : \A m \in Range(taskInput[t]) :
          /\ m \in Range(taskInput[u]) => t = u
          /\ m \notin Range(arrivals[u])
    /\ \A t \in Turns : \A m \in Range(next.input) :
          /\ m \notin Range(arrivals[t])
          /\ loopPC \in BeforeStart => m \notin Range(taskInput[t])

Arrived(m) == \E t \in Turns : m \in Range(arrivals[t])

\* A recorded input was accepted by some turn, or is the own input of the turn
\* that recorded it.
HistoryIsFromInput ==
    \A t \in Turns : \A m \in Inputs : Entry(m, t) \in Range(history) =>
        \/ Arrived(m)
        \/ m \in Range(taskInput[t]) /\ taskPC[t] \notin {"none", "spawned", "begun", "input"}

\* A task holds input only between taking and recording it.
HeldWhileInspecting ==
    \A t \in Turns :
        /\ Batch(t) # <<>> => taskPC[t] \in {"inspect", "blocked", "dropped"}
        /\ Accepted(t) # <<>> => taskPC[t] \in {"inspect", "blocked", "record", "rollout_wait",
                                                "finish_record", "materialize", "dropped"}

\* Every accepted input is in one place.
PlacesAreDisjoint ==
    /\ \A t \in Turns : /\ NoDuplicates(Accepted(t))
                        /\ NoDuplicates(Batch(t))
                        /\ NoDuplicates(pendingInput[t])
    /\ \A t, u \in Turns :
          /\ \A m \in Range(Accepted(t)) :
                /\ m \in Range(Accepted(u)) => t = u
                /\ m \notin Range(Batch(u))
                /\ m \notin Range(pendingInput[u])
          /\ \A m \in Range(Batch(t)) :
                /\ m \in Range(Batch(u)) => t = u
                /\ m \notin Range(pendingInput[u])
          /\ \A m \in Range(pendingInput[t]) : m \in Range(pendingInput[u]) => t = u

Held(t) == Range(Accepted(t)) \cup Range(Batch(t)) \cup Range(pendingInput[t])

HeldIsUnrecorded ==
    \A t \in Turns : \A m \in Held(t) :
        /\ Arrived(m)
        /\ \A u \in Turns : Entry(m, u) \notin Range(history)

HistoryHasNoDuplicates ==
    \A t, u \in Turns : \A m \in Inputs : ~Before(history, Entry(m, t), Entry(m, u))

\* A turn that was never active has been given nothing.
UnregisteredTurnsAreEmpty ==
    \A t \in Turns : taskPC[t] = "none" \/ (loopPC = "register" /\ t = victim) =>
        arrivals[t] = <<>> /\ pendingInput[t] = <<>> /\ t \notin handleAborted

\* A grace period is that of a turn that was started.
GraceIsForATask == loopPC = "grace" => taskPC[victim] # "none"

\* The active turn's task was not aborted: the handle is aborted only as it
\* leaves the slot.
ActiveTurnIsNotAborted == activeTurn # NoTurn => activeTurn \notin handleAborted

\* What the next task to look takes.
InPending(m) == activeTurn # NoTurn /\ m \in Range(pendingInput[activeTurn])

\* A task that may put the rest of its batch back: a hook may still block an
\* item of it, or has.
MayReturn(t) == t \notin handleAborted \/ taskPC[t] = "blocked"

\* While a task may return its own input, nobody else does.  Later that input
\* is in one place that the turn's task may take it from.
StraysAreTogether ==
    \A t, s \in Turns : \A m \in Range(arrivals[t]) :
        /\ MayReturn(t) /\ activeTurn # t => ~InPending(m)
        /\ MayReturn(t) /\ MayReturn(s) /\ s # t => m \notin Range(Batch(s))
        /\ activeTurn # t /\ InPending(m) =>
              \A n \in Range(arrivals[t]) : n \notin Range(Batch(t))
        /\ MayReturn(s) /\ s # t /\ m \in Range(Batch(s)) =>
              \A n \in Range(arrivals[t]) :
                 /\ ~InPending(n)
                 /\ n \notin Range(Batch(t))
                 /\ \A r \in Turns : MayReturn(r) /\ n \in Range(Batch(r)) => r = s

\* n, which turn t accepted after m, is not ahead of m on the way to its history.
NotAhead(t, n, m) ==
    /\ ~Before(history, Entry(n, t), Entry(m, t))
    /\ Entry(n, t) \in Range(history) \/ n \in Range(Accepted(t)) =>
          /\ ~InPending(m)
          /\ \A s \in Turns : s = t \/ MayReturn(s) => m \notin Range(Batch(s))
    /\ Entry(n, t) \in Range(history) => m \notin Range(Accepted(t))
    /\ n \in Range(Batch(t)) => ~InPending(m)
    /\ ~Before(Accepted(t), n, m)
    /\ \A s \in Turns : s = t \/ MayReturn(s) => ~Before(Batch(s), n, m)
    /\ activeTurn # NoTurn => ~Before(pendingInput[activeTurn], n, m)

InOrder ==
    \A t \in Turns : \A m, n \in Range(arrivals[t]) :
        Before(arrivals[t], m, n) => NotAhead(t, n, m)

SourceInv == InputIsSent /\ AcceptedOnce /\ OwnInputIsOwn

PlaceInv ==
    /\ HistoryIsFromInput
    /\ HeldWhileInspecting
    /\ PlacesAreDisjoint
    /\ HeldIsUnrecorded
    /\ HistoryHasNoDuplicates
    /\ UnregisteredTurnsAreEmpty
    /\ GraceIsForATask
    /\ ActiveTurnIsNotAborted

OrderInv == StraysAreTogether /\ InOrder

-----------------------------------------------------------------------------
(* The order of a sequence that is extended or shortened *)

\* An empty sequence has nothing in it, one of length one nothing in order.
LEMMA EmptyOrder ==
    /\ Range(<<>>) = {}
    /\ \A m, n : ~Before(<<>>, m, n)
  BY DEF Range, Before

LEMMA SingletonOrder ==
    ASSUME NEW x
    PROVE  /\ <<x>> \in Seq({x})
           /\ Range(<<x>>) = {x}
           /\ \A m, n : ~Before(<<x>>, m, n)
<1>1. DOMAIN <<x>> = {1} /\ <<x>>[1] = x
  OBVIOUS
<1> QED
  BY <1>1 DEF Range, Before

\* What comes before something is there, and so is what comes after.
LEMMA OrderInRange ==
    ASSUME NEW s, NEW m, NEW n, Before(s, m, n)
    PROVE  m \in Range(s) /\ n \in Range(s)
  BY DEF Range, Before

\* A sequence with something in it is not empty.
LEMMA NonEmptyRange ==
    ASSUME NEW S, NEW s \in Seq(S), NEW m \in Range(s)
    PROVE  s # <<>>
  BY DEF Range

\* Where nothing occurs twice, two items are in one order only.
LEMMA OrderIsAntisymmetric ==
    ASSUME NEW S, NEW s \in Seq(S), NoDuplicates(s), NEW m, NEW n, Before(s, m, n)
    PROVE  ~Before(s, n, m)
<1> SUFFICES ASSUME Before(s, n, m) PROVE FALSE
  OBVIOUS
<1>1. DOMAIN s = 1..Len(s) /\ Len(s) \in Nat
  BY LenProperties
<1>2. PICK i, j \in DOMAIN s : i < j /\ s[i] = m /\ s[j] = n
  BY DEF Before
<1>3. PICK k, l \in DOMAIN s : k < l /\ s[k] = n /\ s[l] = m
  BY DEF Before
<1>4. ~(i < l) /\ ~(l < i) /\ ~(j < k) /\ ~(k < j)
  BY <1>2, <1>3 DEF NoDuplicates, Before
<1> QED
  BY <1>1, <1>2, <1>3, <1>4

\* What is in a concatenation is in one of its parts, and what is in the first
\* part comes before what is in the second.
LEMMA ConcatOrder ==
    ASSUME NEW S, NEW s \in Seq(S), NEW r \in Seq(S)
    PROVE  /\ Range(s \o r) = Range(s) \cup Range(r)
           /\ \A m, n : Before(s \o r, m, n) <=>
                 \/ Before(s, m, n)
                 \/ Before(r, m, n)
                 \/ m \in Range(s) /\ n \in Range(r)
<1>1. /\ Len(s) \in Nat /\ Len(r) \in Nat
      /\ DOMAIN s = 1..Len(s) /\ DOMAIN r = 1..Len(r)
      /\ DOMAIN (s \o r) = 1..Len(s) + Len(r)
      /\ \A i \in 1..Len(s) + Len(r) :
             (s \o r)[i] = IF i <= Len(s) THEN s[i] ELSE r[i - Len(s)]
  BY LenProperties, ConcatProperties
<1> DEFINE c == s \o r
<1>2. /\ \A i \in DOMAIN s : i \in DOMAIN c /\ c[i] = s[i]
      /\ \A i \in DOMAIN r : Len(s) + i \in DOMAIN c /\ c[Len(s) + i] = r[i]
  BY <1>1
<1>3. Range(c) = Range(s) \cup Range(r)
  BY RangeConcatenation
<1>4. ASSUME NEW m, NEW n, Before(c, m, n)
      PROVE  Before(s, m, n) \/ Before(r, m, n) \/ (m \in Range(s) /\ n \in Range(r))
  <2>1. PICK i, j \in DOMAIN c : i < j /\ c[i] = m /\ c[j] = n
    BY <1>4 DEF Before
  <2>2. CASE j <= Len(s)
    <3>1. i \in DOMAIN s /\ j \in DOMAIN s /\ s[i] = m /\ s[j] = n
      BY <1>1, <2>1, <2>2
    <3> QED
      BY <2>1, <3>1 DEF Before
  <2>3. CASE i <= Len(s) /\ ~(j <= Len(s))
    <3>1. i \in DOMAIN s /\ s[i] = m /\ j - Len(s) \in DOMAIN r /\ r[j - Len(s)] = n
      BY <1>1, <2>1, <2>3
    <3> QED
      BY <3>1 DEF Range
  <2>4. CASE ~(i <= Len(s))
    <3>1. /\ i - Len(s) \in DOMAIN r /\ j - Len(s) \in DOMAIN r
          /\ i - Len(s) < j - Len(s)
          /\ r[i - Len(s)] = m /\ r[j - Len(s)] = n
      BY <1>1, <2>1, <2>4
    <3> QED
      BY <3>1 DEF Before
  <2> QED
    BY <1>1, <2>1, <2>2, <2>3, <2>4
<1>5. ASSUME NEW m, NEW n, Before(s, m, n) PROVE Before(c, m, n)
  BY <1>2, <1>5 DEF Before
<1>6. ASSUME NEW m, NEW n, Before(r, m, n) PROVE Before(c, m, n)
  <2>1. PICK i, j \in DOMAIN r : i < j /\ r[i] = m /\ r[j] = n
    BY <1>6 DEF Before
  <2>2. Len(s) + i < Len(s) + j
    BY <1>1, <2>1
  <2> QED
    BY <1>2, <2>1, <2>2 DEF Before
<1>7. ASSUME NEW m \in Range(s), NEW n \in Range(r) PROVE Before(c, m, n)
  <2>1. PICK i \in DOMAIN s : s[i] = m
    BY DEF Range
  <2>2. PICK j \in DOMAIN r : r[j] = n
    BY DEF Range
  <2>3. i < Len(s) + j
    BY <1>1
  <2> QED
    BY <1>2, <2>1, <2>2, <2>3 DEF Before
<1> QED
  BY <1>3, <1>4, <1>5, <1>6, <1>7

\* An appended item comes after all others.
LEMMA AppendOrder ==
    ASSUME NEW S, NEW s \in Seq(S), NEW x \in S
    PROVE  /\ Range(Append(s, x)) = Range(s) \cup {x}
           /\ \A m, n : Before(Append(s, x), m, n) <=>
                 Before(s, m, n) \/ (m \in Range(s) /\ n = x)
<1>1. Append(s, x) = s \o <<x>> /\ <<x>> \in Seq(S)
  BY AppendIsConcat
<1>2. /\ Range(s \o <<x>>) = Range(s) \cup Range(<<x>>)
      /\ \A m, n : Before(s \o <<x>>, m, n) <=>
            \/ Before(s, m, n)
            \/ Before(<<x>>, m, n)
            \/ m \in Range(s) /\ n \in Range(<<x>>)
  BY <1>1, ConcatOrder, Zenon
<1>3. Range(<<x>>) = {x} /\ \A m, n : ~Before(<<x>>, m, n)
  BY SingletonOrder
<1>4. /\ Range(s \o <<x>>) = Range(s) \cup {x}
      /\ \A m, n : Before(s \o <<x>>, m, n) <=>
            Before(s, m, n) \/ (m \in Range(s) /\ n = x)
  BY <1>2, <1>3, Zenon
<1> QED
  BY <1>1, <1>4

\* The head comes before all of the tail.
LEMMA HeadTailOrder ==
    ASSUME NEW S, NEW s \in Seq(S), s # <<>>
    PROVE  /\ Head(s) \in S /\ Tail(s) \in Seq(S)
           /\ Range(s) = {Head(s)} \cup Range(Tail(s))
           /\ \A m, n : Before(s, m, n) <=>
                 Before(Tail(s), m, n) \/ (m = Head(s) /\ n \in Range(Tail(s)))
<1>1. Head(s) \in S /\ Tail(s) \in Seq(S) /\ <<Head(s)>> \in Seq(S)
  BY HeadTailProperties
<1>2. s = <<Head(s)>> \o Tail(s)
  <2>1. s = <<s[1]>> \o Tail(s)
    BY SMT
  <2> QED
    BY <2>1
<1> DEFINE h == <<Head(s)>>
<1>3. /\ Range(h \o Tail(s)) = Range(h) \cup Range(Tail(s))
      /\ \A m, n : Before(h \o Tail(s), m, n) <=>
            \/ Before(h, m, n)
            \/ Before(Tail(s), m, n)
            \/ m \in Range(h) /\ n \in Range(Tail(s))
  BY <1>1, ConcatOrder, Zenon
<1>4. Range(h) = {Head(s)} /\ \A m, n : ~Before(h, m, n)
  BY SingletonOrder
<1> QED
  BY <1>1, <1>2, <1>3, <1>4, Zenon

\* What recording items for turn t adds to the entries of the history and to
\* their order.
LEMMA RecordedOrder ==
    ASSUME NEW t \in Turns, NEW items \in Seq(Inputs \cup {Marker}), history \in History,
           history' = history \o Recorded(items, t)
    PROVE  /\ \A m, u : Entry(m, u) \in Range(history') <=>
                 Entry(m, u) \in Range(history) \/ (u = t /\ m \in Range(items))
           /\ \A m, n, u, v : Before(history', Entry(m, u), Entry(n, v)) <=>
                 \/ Before(history, Entry(m, u), Entry(n, v))
                 \/ Entry(m, u) \in Range(history) /\ v = t /\ n \in Range(items)
                 \/ u = t /\ v = t /\ Before(items, m, n)
<1>1. history \in Seq([item : Inputs \cup {Marker}, turn : Turns])
  BY DEF History
<1>2. Recorded(items, t) \in Seq([item : Inputs \cup {Marker}, turn : Turns])
  <2>1. <<>> \in History
    BY EmptySeq DEF History
  <2>2. items \in [1..Len(items) -> Inputs \cup {Marker}] /\ Len(items) \in Nat
    BY LenProperties
  <2> DEFINE S == [item : Inputs \cup {Marker}, turn : Turns]
  <2>3. Recorded(items, t) \in [1..Len(items) -> S]
    BY <2>2 DEF Recorded
  <2>4. Recorded(items, t) \in UNION {[1..n -> S] : n \in Nat}
    BY <2>2, <2>3
  <2> QED
    BY <2>4, SeqDef, Zenon
<1>3. /\ DOMAIN Recorded(items, t) = DOMAIN items
      /\ \A i \in DOMAIN items : Recorded(items, t)[i] = Entry(items[i], t)
  BY DEF Recorded, Entry
<1>4. \A m, n, u, v : Entry(m, u) = Entry(n, v) <=> m = n /\ u = v
  BY DEF Entry
<1>5. \A m, u : Entry(m, u) \in Range(Recorded(items, t)) <=> u = t /\ m \in Range(items)
  BY <1>3, <1>4 DEF Range
<1>6. \A m, n, u, v : Before(Recorded(items, t), Entry(m, u), Entry(n, v)) <=>
          u = t /\ v = t /\ Before(items, m, n)
  BY <1>3, <1>4 DEF Before
<1> QED
  BY <1>1, <1>2, <1>5, <1>6, ConcatOrder

-----------------------------------------------------------------------------
(* Where input comes from *)

\* Push appends to what is pending and to what was accepted alike.
LEMMA PushOrder ==
    ASSUME TypeOK, NEW t \in Turns, NEW items \in Seq(Inputs), Push(t, items)
    PROVE  /\ \A u \in Turns :
                 /\ u # t => pendingInput'[u] = pendingInput[u] /\ arrivals'[u] = arrivals[u]
           /\ Range(pendingInput'[t]) = Range(pendingInput[t]) \cup Range(items)
           /\ Range(arrivals'[t]) = Range(arrivals[t]) \cup Range(items)
           /\ \A m, n : Before(pendingInput'[t], m, n) <=>
                 \/ Before(pendingInput[t], m, n)
                 \/ Before(items, m, n)
                 \/ m \in Range(pendingInput[t]) /\ n \in Range(items)
           /\ \A m, n : Before(arrivals'[t], m, n) <=>
                 \/ Before(arrivals[t], m, n)
                 \/ Before(items, m, n)
                 \/ m \in Range(arrivals[t]) /\ n \in Range(items)
<1>1. /\ pendingInput[t] \in Seq(Inputs) /\ arrivals[t] \in Seq(Inputs)
      /\ pendingInput' = [pendingInput EXCEPT ![t] = pendingInput[t] \o items]
      /\ arrivals' = [arrivals EXCEPT ![t] = arrivals[t] \o items]
      /\ pendingInput \in [Turns -> Seq(Inputs)] /\ arrivals \in [Turns -> Seq(Inputs)]
  BY DEF TypeOK, Push
<1>2. /\ pendingInput'[t] = pendingInput[t] \o items
      /\ arrivals'[t] = arrivals[t] \o items
      /\ \A u \in Turns : u # t => pendingInput'[u] = pendingInput[u] /\ arrivals'[u] = arrivals[u]
  BY <1>1
<1>3. /\ Range(pendingInput[t] \o items) = Range(pendingInput[t]) \cup Range(items)
      /\ \A m, n : Before(pendingInput[t] \o items, m, n) <=>
            \/ Before(pendingInput[t], m, n)
            \/ Before(items, m, n)
            \/ m \in Range(pendingInput[t]) /\ n \in Range(items)
  BY <1>1, ConcatOrder, Zenon
<1>4. /\ Range(arrivals[t] \o items) = Range(arrivals[t]) \cup Range(items)
      /\ \A m, n : Before(arrivals[t] \o items, m, n) <=>
            \/ Before(arrivals[t], m, n)
            \/ Before(items, m, n)
            \/ m \in Range(arrivals[t]) /\ n \in Range(items)
  BY <1>1, ConcatOrder, Zenon
<1> QED
  BY <1>2, <1>3, <1>4

\* The same for one item, as clients push it.
LEMMA PushOne ==
    ASSUME TypeOK, NEW t \in Turns, NEW m \in Inputs, Push(t, <<m>>)
    PROVE  /\ \A u \in Turns :
                 /\ u # t => pendingInput'[u] = pendingInput[u] /\ arrivals'[u] = arrivals[u]
           /\ Range(pendingInput'[t]) = Range(pendingInput[t]) \cup {m}
           /\ Range(arrivals'[t]) = Range(arrivals[t]) \cup {m}
           /\ \A x, y : Before(pendingInput'[t], x, y) <=>
                 Before(pendingInput[t], x, y) \/ (x \in Range(pendingInput[t]) /\ y = m)
           /\ \A x, y : Before(arrivals'[t], x, y) <=>
                 Before(arrivals[t], x, y) \/ (x \in Range(arrivals[t]) /\ y = m)
<1> DEFINE items == <<m>>
<1>1. items \in Seq(Inputs) /\ Range(items) = {m} /\ \A x, y : ~Before(items, x, y)
  BY SingletonOrder
<1>2. Push(t, items)
  OBVIOUS
<1> HIDE DEF items
<1>3. /\ \A u \in Turns :
            /\ u # t => pendingInput'[u] = pendingInput[u] /\ arrivals'[u] = arrivals[u]
      /\ Range(pendingInput'[t]) = Range(pendingInput[t]) \cup Range(items)
      /\ Range(arrivals'[t]) = Range(arrivals[t]) \cup Range(items)
      /\ \A x, y : Before(pendingInput'[t], x, y) <=>
            \/ Before(pendingInput[t], x, y)
            \/ Before(items, x, y)
            \/ x \in Range(pendingInput[t]) /\ y \in Range(items)
      /\ \A x, y : Before(arrivals'[t], x, y) <=>
            \/ Before(arrivals[t], x, y)
            \/ Before(items, x, y)
            \/ x \in Range(arrivals[t]) /\ y \in Range(items)
  BY <1>1, <1>2, PushOrder
<1> QED
  BY <1>1, <1>3

\* A step that neither sends nor passes on input keeps the sources.
LEMMA SourceFrame ==
    ASSUME SourceInv, UNCHANGED <<arrivals, idlePendingInput, taskInput, next>>,
           sent \subseteq sent',
           loopPC' \in BeforeStart => loopPC \in BeforeStart
    PROVE  SourceInv'
  BY DEF SourceInv, InputIsSent, AcceptedOnce, OwnInputIsOwn

\* The active turn accepts an input nobody has sent before.
LEMMA AcceptSource ==
    ASSUME TypeOK, SourceInv, NEW m \in Inputs \ sent, NEW t \in Turns, Push(t, <<m>>),
           sent' = sent \cup {m}, UNCHANGED <<idlePendingInput, taskInput, next, loopPC>>
    PROVE  SourceInv'
<1>2. /\ \A u \in Turns : u # t => arrivals'[u] = arrivals[u]
      /\ Range(arrivals'[t]) = Range(arrivals[t]) \cup {m}
      /\ \A x, y : Before(arrivals'[t], x, y) <=>
            Before(arrivals[t], x, y) \/ (x \in Range(arrivals[t]) /\ y = m)
  BY PushOne
<1> USE DEF SourceInv
<1>3. InputIsSent'
  BY <1>2 DEF InputIsSent
<1>4. AcceptedOnce'
  <2>1. /\ \A u \in Turns : m \notin Range(arrivals[u])
        /\ m \notin Range(idlePendingInput)
    BY DEF InputIsSent
  <2>2. \A u \in Turns : \A x : x \in Range(arrivals'[u]) <=>
            x \in Range(arrivals[u]) \/ (u = t /\ x = m)
    BY <1>2
  <2>3. ASSUME NEW u \in Turns, NEW x PROVE ~Before(arrivals'[u], x, x)
    <3>1. ~Before(arrivals[u], x, x)
      BY DEF AcceptedOnce, NoDuplicates
    <3> QED
      BY <1>2, <2>1, <3>1
  <2>4. \A u, v \in Turns : \A x \in Range(arrivals'[u]) : x \in Range(arrivals'[v]) => u = v
    BY <2>1, <2>2 DEF AcceptedOnce
  <2>5. \A u \in Turns : \A x \in Range(arrivals'[u]) : x \notin Range(idlePendingInput)
    BY <2>1, <2>2 DEF AcceptedOnce
  <2> QED
    BY <2>3, <2>4, <2>5 DEF AcceptedOnce, NoDuplicates
<1>5. OwnInputIsOwn'
  BY <1>2 DEF OwnInputIsOwn, InputIsSent
<1> QED
  BY <1>3, <1>4, <1>5

\* The loop takes up a message as the own input of a turn to start.
LEMMA OwnInputSource ==
    ASSUME SourceInv, NEW m \in UserInputs \ sent, next'.input = <<m>>,
           sent' = sent \cup {m}, UNCHANGED <<idlePendingInput, taskInput, arrivals>>
    PROVE  SourceInv'
<1>1. Range(next'.input) = {m} /\ \A x, y : ~Before(next'.input, x, y)
  BY SingletonOrder
<1>2. InputIsSent'
  BY <1>1 DEF SourceInv, InputIsSent
<1>3. AcceptedOnce'
  BY DEF SourceInv, AcceptedOnce
<1>4. OwnInputIsOwn'
  BY <1>1 DEF SourceInv, InputIsSent, OwnInputIsOwn, NoDuplicates
<1> QED
  BY <1>2, <1>3, <1>4 DEF SourceInv

\* The loop starts an operation that has no input of its own.
LEMMA NoInputSource ==
    ASSUME SourceInv, next'.input = <<>>, sent \subseteq sent',
           UNCHANGED <<taskInput, arrivals>>,
           UNCHANGED idlePendingInput
    PROVE  SourceInv'
  BY EmptyOrder DEF SourceInv, InputIsSent, OwnInputIsOwn, AcceptedOnce, NoDuplicates

\* An agent's message is queued for the turn the loop then starts.
LEMMA QueueSource ==
    ASSUME TypeOK, SourceInv, NEW m \in AgentInputs \ sent, next'.input = <<>>,
           sent' = sent \cup {m}, idlePendingInput' = Append(idlePendingInput, m),
           UNCHANGED <<taskInput, arrivals>>
    PROVE  SourceInv'
<1>1. idlePendingInput \in Seq(Inputs) /\ m \in Inputs
  BY DEF TypeOK, Inputs
<1>2. /\ Range(idlePendingInput') = Range(idlePendingInput) \cup {m}
      /\ \A x, y : Before(idlePendingInput', x, y) <=>
            Before(idlePendingInput, x, y) \/ (x \in Range(idlePendingInput) /\ y = m)
  BY <1>1, AppendOrder
<1>3. InputIsSent'
  BY <1>2, EmptyOrder DEF SourceInv, InputIsSent
<1>4. AcceptedOnce'
  BY <1>2 DEF SourceInv, AcceptedOnce, InputIsSent, NoDuplicates
<1>5. OwnInputIsOwn'
  BY EmptyOrder DEF SourceInv, OwnInputIsOwn, NoDuplicates
<1> QED
  BY <1>3, <1>4, <1>5 DEF SourceInv

\* The clients' steps send only what was not sent.
LEMMA ClientSource ==
    ASSUME TypeOK, SourceInv, ClientStep PROVE SourceInv'
<1> USE DEF taskVars, loopVars, clientVars, turnVars
<1>0. \A m : <<m>> # <<>>
  OBVIOUS
<1>1. ASSUME NEW m \in UserInputs, UserInput(m) PROVE SourceInv'
  <2>1. m \in UserInputs \ sent /\ m \in Inputs \ sent /\ sent' = sent \cup {m}
    BY <1>1 DEF UserInput, Inputs
  <2>2. CASE activeTurn # NoTurn /\ Push(activeTurn, <<m>>) /\ UNCHANGED loopVars
    BY <1>1, <2>1, <2>2, AcceptSource DEF UserInput, TypeOK
  <2>3. CASE UNCHANGED <<pendingInput, arrivals, loopVars>>
    BY <1>1, <2>1, <2>3, SourceFrame DEF UserInput
  <2>4. CASE Spawn("regular", <<m>>) /\ UNCHANGED <<pendingInput, arrivals>>
    BY <1>1, <2>1, <2>4, OwnInputSource DEF UserInput, Spawn
  <2> QED
    BY <1>1, <2>2, <2>3, <2>4 DEF UserInput
<1>2. ASSUME NEW m \in UserInputs, NEW t \in Turns, SteerInput(m, t) PROVE SourceInv'
  BY <1>2, AcceptSource DEF SteerInput, Inputs
<1>3. ASSUME NEW m \in AgentInputs, InterAgentCommunication(m) PROVE SourceInv'
  <2>1. m \in AgentInputs \ sent /\ m \in Inputs \ sent /\ sent' = sent \cup {m}
    BY <1>3 DEF InterAgentCommunication, Inputs
  <2>2. CASE activeTurn # NoTurn /\ Push(activeTurn, <<m>>)
             /\ UNCHANGED <<idlePendingInput, loopVars>>
    BY <1>3, <2>1, <2>2, AcceptSource DEF InterAgentCommunication, TypeOK
  <2>3. CASE /\ idlePendingInput' = Append(idlePendingInput, m)
             /\ Spawn("regular", <<>>)
             /\ UNCHANGED <<pendingInput, arrivals>>
    BY <1>3, <2>1, <2>3, QueueSource DEF InterAgentCommunication, Spawn
  <2> QED
    BY <1>3, <2>2, <2>3 DEF InterAgentCommunication
<1>4. ASSUME NEW kind, SpawnOther(kind) PROVE SourceInv'
  BY <1>4, NoInputSource DEF SpawnOther, Spawn
<1>5. CASE Interrupt \/ Shutdown
  BY <1>5, NoInputSource DEF Interrupt, Shutdown, QueuedInputTask
<1>6. ASSUME NEW t, NotifyApproval(t) PROVE SourceInv'
  BY <1>6, SourceFrame DEF NotifyApproval
<1> QED
  BY <1>1, <1>2, <1>3, <1>4, <1>5, <1>6 DEF ClientStep

\* The loop hands its operation's input to the turn it starts, and the queue to
\* the turn it registers.
LEMMA LoopSource ==
    ASSUME TypeOK, IInv, SourceInv, LoopStep PROVE SourceInv'
<1> USE DEF taskVars, clientVars, turnVars, BeforeStart
<1>1. CASE AbortAllTasks
  BY <1>1, SourceFrame DEF AbortAllTasks, TakeActiveTurn, CancelTask, GraceOver, RecordMarker,
     EmitTurnAborted, ClearPending
<1>2. CASE SpawnTokioTask
  <2>1. PICK t \in FreshTurns : taskInput' = [taskInput EXCEPT ![t] = next.input]
    BY <1>2 DEF SpawnTokioTask
  <2>2. /\ t \in Turns
        /\ taskInput'[t] = next.input
        /\ \A u \in Turns : u # t => taskInput'[u] = taskInput[u]
        /\ loopPC \in BeforeStart
        /\ loopPC' \notin BeforeStart
        /\ UNCHANGED <<arrivals, idlePendingInput, next, sent>>
    BY <1>2, <2>1 DEF SpawnTokioTask, FreshTurns, TypeOK
  <2>3. InputIsSent' /\ AcceptedOnce'
    BY <2>2 DEF SourceInv, InputIsSent, AcceptedOnce
  <2>4. OwnInputIsOwn'
    BY <2>2 DEF SourceInv, OwnInputIsOwn
  <2> QED
    BY <2>3, <2>4 DEF SourceInv
<1>3. CASE RegisterNewActiveTask
  <2>1. /\ victim \in Turns
        /\ idlePendingInput \in Seq(Inputs)
        /\ Push(victim, idlePendingInput)
        /\ idlePendingInput' = <<>>
        /\ loopPC' \notin BeforeStart
        /\ UNCHANGED <<taskInput, next, sent>>
    BY <1>3 DEF RegisterNewActiveTask, IInv, VictimIsHeld, TypeOK, AfterOp
  <2>2. /\ \A u \in Turns : u # victim => arrivals'[u] = arrivals[u]
        /\ Range(arrivals'[victim]) = Range(arrivals[victim]) \cup Range(idlePendingInput)
        /\ \A m, n : Before(arrivals'[victim], m, n) <=>
              \/ Before(arrivals[victim], m, n)
              \/ Before(idlePendingInput, m, n)
              \/ m \in Range(arrivals[victim]) /\ n \in Range(idlePendingInput)
    BY <2>1, PushOrder
  <2>3. InputIsSent'
    BY <2>1, <2>2, EmptyOrder DEF SourceInv, InputIsSent
  <2>4. AcceptedOnce'
    BY <2>1, <2>2, EmptyOrder DEF SourceInv, AcceptedOnce, NoDuplicates
  <2>5. OwnInputIsOwn'
    BY <2>1, <2>2, ConstantsAssumption DEF SourceInv, OwnInputIsOwn, InputIsSent
  <2> QED
    BY <2>3, <2>4, <2>5 DEF SourceInv
<1> QED
  BY <1>1, <1>2, <1>3 DEF LoopStep

-----------------------------------------------------------------------------
(* What the tasks' steps do with input *)

\* Until it has recorded its own input.
BeforeOwnInput == {"none", "spawned", "begun", "input"}

\* A step of task t that moves no input: it goes on from a point where it holds
\* none, or holds it still.
TaskMoves(t) ==
    /\ taskPC[t] \in Running
    /\ \A u \in Turns : u # t => taskPC'[u] = taskPC[u]
    /\ taskPC'[t] \notin {"none", "spawned", "blocked"}
    /\ Batch(t) # <<>> => taskPC'[t] \in {"inspect", "blocked", "dropped"}
    /\ Accepted(t) # <<>> => taskPC'[t] \in {"inspect", "blocked", "record", "rollout_wait",
                                              "finish_record", "materialize", "dropped"}
    /\ taskPC'[t] \in BeforeOwnInput => taskPC[t] \in BeforeOwnInput
    /\ UNCHANGED <<activeTurn, handleAborted, pendingInput, history, heldInput>>

\* A task records the first of the items it accepted.
RecordsFirst(t) ==
    /\ Accepted(t) # <<>>
    /\ taskPC[t] \in {"record", "finish_record"}
    /\ \A u \in Turns : u # t => taskPC'[u] = taskPC[u]
    /\ taskPC'[t] \in {"sampling", "rollout_wait", "record", "materialize", "finish_record"}
    /\ taskPC'[t] = "sampling" => Tail(Accepted(t)) = <<>>
    /\ history' = history \o Recorded(<<Head(Accepted(t))>>, t)
    /\ heldInput' = [heldInput EXCEPT ![t].accepted = Tail(Accepted(t))]
    /\ UNCHANGED <<activeTurn, handleAborted, pendingInput>>

\* No task's step concerns input that has not reached a turn.
LEMMA TaskKeepsSources ==
    ASSUME NEW t, TaskStep(t) \/ DropTask(t)
    PROVE  UNCHANGED <<arrivals, idlePendingInput, taskInput, next, sent, loopPC, victim, reason>>
<1> USE DEF loopVars, clientVars, turnVars
<1>1. ASSUME NEW from, NEW to, Move(t, from, to)
      PROVE  UNCHANGED <<arrivals, idlePendingInput, taskInput, next, sent, loopPC, victim, reason>>
  BY <1>1 DEF Move
<1>2. CASE \/ OtherTaskEnds(t) \/ EnterRunTurn(t) \/ StopBeforeSampling(t) \/ InspectEnd(t)
           \/ SampleCompleted(t) \/ SampleFailed(t) \/ StopHookEnds(t) \/ ApprovalReturns(t)
           \/ ApprovalCancelled(t) \/ FlushDone(t) \/ Materialized(t) \/ NothingToRecord(t)
           \/ RolloutWritten(t)
  BY <1>1, <1>2 DEF OtherTaskEnds, EnterRunTurn, StopBeforeSampling, InspectEnd,
     SampleCompleted, SampleFailed, StopHookEnds, ApprovalReturns, ApprovalCancelled, FlushDone,
     Materialized, NothingToRecord, RolloutWritten
<1>3. CASE BeginTask(t) \/ EmitTurnComplete(t) \/ DropTask(t) \/ RequestApproval(t)
           \/ RecordOwnInput(t) \/ GetPendingInput(t) \/ InspectAccept(t) \/ HookBlocks(t)
           \/ InspectBlock(t) \/ RecordAccepted(t) \/ SampleFollowUp(t) \/ StopHookBlocks(t)
           \/ FinishRemove(t) \/ FinishRecord(t)
  BY <1>3 DEF BeginTask, EmitTurnComplete, DropTask, RequestApproval, RecordOwnInput,
     GetPendingInput, InspectAccept, HookBlocks, InspectBlock, RecordAccepted, SampleFollowUp,
     StopHookBlocks, FollowUp, FinishRemove, FinishRecord
<1> QED
  BY <1>2, <1>3 DEF TaskStep, RunTurn, OnTaskFinished

\* No step breaks what is known of where input comes from.
LEMMA SourceStep ==
    ASSUME IInv, TypeOK, SourceInv, [Next]_vars PROVE SourceInv'
<1>1. CASE ClientStep
  BY <1>1, ClientSource
<1>2. CASE LoopStep
  BY <1>2, LoopSource
<1>3. ASSUME NEW t \in Turns, TaskStep(t) \/ DropTask(t) PROVE SourceInv'
  BY <1>3, TaskKeepsSources, SourceFrame
<1>4. CASE UNCHANGED vars
  BY <1>4, SourceFrame DEF vars, turnVars, taskVars, loopVars, clientVars
<1> QED
  BY <1>1, <1>2, <1>3, <1>4 DEF Next, Quiescent

\* Every step of a task is one of eight, as far as input goes.
LEMMA TaskInputSteps ==
    ASSUME TypeOK, HeldWhileInspecting, NEW t \in Turns, TaskStep(t) \/ DropTask(t)
    PROVE  \/ TaskMoves(t) \/ RecordOwnInput(t) \/ GetPendingInput(t) \/ InspectAccept(t)
           \/ HookBlocks(t) \/ InspectBlock(t) \/ RecordsFirst(t)
           \/ FinishRemove(t) /\ activeTurn = t
<1> USE DEF turnVars, abortVars, BeforeOwnInput, Running, Suspended
<1>0. /\ taskPC[t] \notin {"inspect", "blocked", "dropped"} => Batch(t) = <<>>
      /\ taskPC[t] \notin {"inspect", "blocked", "record", "rollout_wait", "finish_record",
                           "materialize", "dropped"} => Accepted(t) = <<>>
  BY DEF HeldWhileInspecting
<1> USE DEF TypeOK
<1>1. CASE \/ OtherTaskEnds(t) \/ EnterRunTurn(t) \/ StopBeforeSampling(t)
           \/ SampleCompleted(t) \/ SampleFailed(t) \/ StopHookEnds(t) \/ ApprovalReturns(t)
           \/ ApprovalCancelled(t) \/ FlushDone(t)
  BY <1>0, <1>1 DEF OtherTaskEnds, EnterRunTurn, StopBeforeSampling, SampleCompleted,
     SampleFailed, StopHookEnds, ApprovalReturns, ApprovalCancelled, FlushDone, Move, Step,
     TaskMoves
<1>2. CASE InspectEnd(t) \/ NothingToRecord(t) \/ RolloutWritten(t) \/ Materialized(t)
  BY <1>0, <1>2 DEF InspectEnd, NothingToRecord, RolloutWritten, Materialized, Move, Step,
     TaskMoves, Batch, Accepted
<1>3. CASE BeginTask(t) \/ SampleFollowUp(t) \/ StopHookBlocks(t) \/ RequestApproval(t)
  BY <1>0, <1>3 DEF BeginTask, SampleFollowUp, StopHookBlocks, FollowUp, RequestApproval, Step,
     TaskMoves
<1>4. CASE EmitTurnComplete(t)
  <2>1. /\ taskPC[t] = "finish_record"
        /\ taskPC' = [taskPC EXCEPT ![t] = "ended"]
        /\ Accepted(t) = <<>> /\ Batch(t) = <<>>
        /\ UNCHANGED <<activeTurn, handleAborted, pendingInput, history, heldInput>>
    BY <1>0, <1>4 DEF EmitTurnComplete, Step, Accepted
  <2> QED
    BY <2>1 DEF TaskMoves
<1>5. CASE DropTask(t)
  <2>1. /\ taskPC[t] \in Running
        /\ taskPC' = [taskPC EXCEPT ![t] = "dropped"]
        /\ UNCHANGED <<activeTurn, handleAborted, pendingInput, history, heldInput>>
    BY <1>5 DEF DropTask
  <2> QED
    BY <2>1 DEF TaskMoves
<1>6. CASE FinishRemove(t) /\ activeTurn # t
  <2>1. /\ taskPC[t] = "finish"
        /\ taskPC' = [taskPC EXCEPT ![t] = "finish_record"]
        /\ UNCHANGED <<activeTurn, handleAborted, pendingInput, history, heldInput>>
    BY <1>6 DEF FinishRemove, Step
  <2> QED
    BY <1>0, <2>1 DEF TaskMoves
<1>7. CASE RecordAccepted(t)
  BY <1>7 DEF RecordAccepted, Step, RecordsFirst, Accepted
<1>8. CASE FinishRecord(t)
  BY <1>8 DEF FinishRecord, Step, RecordsFirst, Accepted
<1> QED
  BY <1>1, <1>2, <1>3, <1>4, <1>5, <1>6, <1>7, <1>8 DEF TaskStep, RunTurn, OnTaskFinished

-----------------------------------------------------------------------------
(* Every input is in one place *)

\* An input that no turn has accepted or been started with is nowhere.
LEMMA NewInputIsNowhere ==
    ASSUME PlaceInv, NEW m \in Inputs,
           \A u \in Turns : m \notin Range(arrivals[u]) /\ m \notin Range(taskInput[u])
    PROVE  \A u \in Turns : /\ m \notin Range(Accepted(u))
                            /\ m \notin Range(Batch(u))
                            /\ m \notin Range(pendingInput[u])
                            /\ Entry(m, u) \notin Range(history)
  BY DEF PlaceInv, HeldIsUnrecorded, Held, HistoryIsFromInput, Arrived

\* Steps that move no input.
LEMMA PlaceFrame ==
    ASSUME PlaceInv,
           UNCHANGED <<pendingInput, history, taskPC, taskInput, heldInput, arrivals>>,
           activeTurn' \in {activeTurn, NoTurn},
           loopPC' = "register" => loopPC = "register" /\ victim' = victim,
           loopPC' = "grace" => taskPC[victim'] # "none",
           \A t \in handleAborted' :
              \/ t \in handleAborted
              \/ t # activeTurn' /\ taskPC[t] # "none" /\ loopPC' # "register"
    PROVE  PlaceInv'
<1> USE DEF PlaceInv
<1>1. HistoryIsFromInput' /\ HistoryHasNoDuplicates' /\ GraceIsForATask'
  BY DEF HistoryIsFromInput, HistoryHasNoDuplicates, Arrived, GraceIsForATask
<1>2. HeldWhileInspecting' /\ PlacesAreDisjoint' /\ HeldIsUnrecorded'
  BY DEF HeldWhileInspecting, PlacesAreDisjoint, HeldIsUnrecorded, Held, Arrived, Batch, Accepted
<1>3. UnregisteredTurnsAreEmpty' /\ ActiveTurnIsNotAborted'
  BY DEF UnregisteredTurnsAreEmpty, ActiveTurnIsNotAborted
<1> QED
  BY <1>1, <1>2, <1>3

\* An input that a client pushes into the active turn is new there.
LEMMA AcceptPlace ==
    ASSUME TypeOK, SourceInv, PlaceInv, NEW m \in Inputs \ sent, NEW t \in Turns,
           Push(t, <<m>>), taskPC[t] # "none", loopPC # "register",
           UNCHANGED <<activeTurn, history, taskPC, taskInput, heldInput, handleAborted, loopPC,
                       victim>>
    PROVE  PlaceInv'
<1> USE DEF PlaceInv
<1>1. /\ \A u \in Turns : /\ u # t => pendingInput'[u] = pendingInput[u]
                          /\ u # t => arrivals'[u] = arrivals[u]
      /\ Range(pendingInput'[t]) = Range(pendingInput[t]) \cup {m}
      /\ Range(arrivals'[t]) = Range(arrivals[t]) \cup {m}
      /\ \A x, y : Before(pendingInput'[t], x, y) <=>
            Before(pendingInput[t], x, y) \/ (x \in Range(pendingInput[t]) /\ y = m)
  BY PushOne
<1>2. \A u \in Turns : /\ m \notin Range(Accepted(u))
                       /\ m \notin Range(Batch(u))
                       /\ m \notin Range(pendingInput[u])
                       /\ Entry(m, u) \notin Range(history)
  BY NewInputIsNowhere DEF SourceInv, InputIsSent
<1>3. \A u \in Turns : Accepted(u)' = Accepted(u) /\ Batch(u)' = Batch(u)
  BY DEF Accepted, Batch
<1>4. \A u \in Turns : \A x : x \in Range(pendingInput'[u]) <=>
          x \in Range(pendingInput[u]) \/ (u = t /\ x = m)
  BY <1>1
<1>5. \A u \in Turns : \A x : x \in Range(arrivals'[u]) <=>
          x \in Range(arrivals[u]) \/ (u = t /\ x = m)
  BY <1>1
<1>6. HistoryIsFromInput' /\ HistoryHasNoDuplicates' /\ HeldWhileInspecting'
  BY <1>3, <1>5 DEF HistoryIsFromInput, HistoryHasNoDuplicates, Arrived, HeldWhileInspecting
<1>7. PlacesAreDisjoint'
  <2>1. \A u \in Turns : NoDuplicates(pendingInput[u])'
    <3>1. ASSUME NEW u \in Turns, NEW x PROVE ~Before(pendingInput'[u], x, x)
      <4>1. ~Before(pendingInput[u], x, x)
        BY DEF PlacesAreDisjoint, NoDuplicates
      <4> QED
        BY <1>1, <1>2, <4>1
    <3> QED
      BY <3>1 DEF NoDuplicates
  <2>2. \A u \in Turns : NoDuplicates(Accepted(u))' /\ NoDuplicates(Batch(u))'
    BY <1>3 DEF PlacesAreDisjoint, NoDuplicates
  <2> QED
    BY <1>2, <1>3, <1>4, <2>1, <2>2 DEF PlacesAreDisjoint
<1>8. HeldIsUnrecorded'
  BY <1>2, <1>3, <1>4, <1>5 DEF HeldIsUnrecorded, Held, Arrived
<1>9. UnregisteredTurnsAreEmpty' /\ ActiveTurnIsNotAborted' /\ GraceIsForATask'
  BY <1>1 DEF UnregisteredTurnsAreEmpty, ActiveTurnIsNotAborted, GraceIsForATask
<1> QED
  BY <1>6, <1>7, <1>8, <1>9

\* A turn takes the queued input as it is registered.
LEMMA RegisterPlace ==
    ASSUME TypeOK, IInv, SourceInv, PlaceInv, RegisterNewActiveTask PROVE PlaceInv'
<1> USE DEF PlaceInv, taskVars
<1> DEFINE t == victim
<1>1. /\ t \in Turns /\ taskPC[t] # "none" /\ activeTurn = NoTurn
      /\ idlePendingInput \in Seq(Inputs)
      /\ Push(t, idlePendingInput)
      /\ activeTurn' = t /\ handleAborted' = handleAborted
      /\ loopPC = "register" /\ loopPC' \notin {"register", "grace"}
      /\ UNCHANGED <<history, taskPC, taskInput, heldInput, victim>>
  BY DEF RegisterNewActiveTask, IInv, VictimIsHeld, SlotEmptyWhileLoopWorks, TypeOK, AfterOp
<1>2. pendingInput[t] = <<>> /\ arrivals[t] = <<>> /\ t \notin handleAborted
  BY <1>1 DEF UnregisteredTurnsAreEmpty
<1>3. /\ \A u \in Turns : u # t => pendingInput'[u] = pendingInput[u] /\ arrivals'[u] = arrivals[u]
      /\ Range(pendingInput'[t]) = Range(idlePendingInput)
      /\ Range(arrivals'[t]) = Range(idlePendingInput)
      /\ \A x, y : Before(pendingInput'[t], x, y) <=> Before(idlePendingInput, x, y)
  <2>1. /\ \A u \in Turns :
              u # t => pendingInput'[u] = pendingInput[u] /\ arrivals'[u] = arrivals[u]
        /\ Range(pendingInput'[t]) = Range(pendingInput[t]) \cup Range(idlePendingInput)
        /\ Range(arrivals'[t]) = Range(arrivals[t]) \cup Range(idlePendingInput)
        /\ \A x, y : Before(pendingInput'[t], x, y) <=>
              \/ Before(pendingInput[t], x, y)
              \/ Before(idlePendingInput, x, y)
              \/ x \in Range(pendingInput[t]) /\ y \in Range(idlePendingInput)
    BY <1>1, PushOrder
  <2>2. /\ Range(pendingInput[t]) = {} /\ Range(arrivals[t]) = {}
        /\ \A x, y : ~Before(pendingInput[t], x, y)
    BY <1>2, EmptyOrder
  <2> QED
    BY <2>1, <2>2
<1>4. \A m \in Range(idlePendingInput) : \A u \in Turns :
          /\ m \notin Range(Accepted(u))
          /\ m \notin Range(Batch(u))
          /\ m \notin Range(pendingInput[u])
          /\ Entry(m, u) \notin Range(history)
  <2>1. ASSUME NEW m \in Range(idlePendingInput)
        PROVE  m \in Inputs /\ \A u \in Turns : m \notin Range(arrivals[u])
                                             /\ m \notin Range(taskInput[u])
    BY ConstantsAssumption DEF SourceInv, InputIsSent, AcceptedOnce, TypeOK, Inputs
  <2> QED
    BY <2>1, NewInputIsNowhere
<1>5. \A u \in Turns : Accepted(u)' = Accepted(u) /\ Batch(u)' = Batch(u)
  BY <1>1 DEF Accepted, Batch
<1>6. \A u \in Turns : \A x : x \in Range(pendingInput'[u]) =>
          x \in Range(pendingInput[u]) \/ (u = t /\ x \in Range(idlePendingInput))
  BY <1>3
<1>7. /\ \A u \in Turns : \A x : x \in Range(arrivals[u]) => x \in Range(arrivals'[u])
      /\ \A x \in Range(idlePendingInput) : x \in Range(arrivals'[t])
  BY <1>2, <1>3, EmptyOrder
<1>8. HistoryIsFromInput' /\ HistoryHasNoDuplicates' /\ HeldWhileInspecting'
  BY <1>1, <1>5, <1>7 DEF HistoryIsFromInput, HistoryHasNoDuplicates, Arrived, HeldWhileInspecting
<1>9. PlacesAreDisjoint'
  <2>1. \A u \in Turns : NoDuplicates(pendingInput[u])'
    BY <1>1, <1>3 DEF PlacesAreDisjoint, NoDuplicates, SourceInv, AcceptedOnce
  <2>2. \A u \in Turns : NoDuplicates(Accepted(u))' /\ NoDuplicates(Batch(u))'
    BY <1>5 DEF PlacesAreDisjoint, NoDuplicates
  <2> QED
    BY <1>4, <1>5, <1>6, <2>1, <2>2 DEF PlacesAreDisjoint
<1>10. HeldIsUnrecorded'
  BY <1>1, <1>4, <1>5, <1>6, <1>7 DEF HeldIsUnrecorded, Held, Arrived
<1>11. UnregisteredTurnsAreEmpty' /\ ActiveTurnIsNotAborted' /\ GraceIsForATask'
  BY <1>1, <1>2, <1>3 DEF UnregisteredTurnsAreEmpty, ActiveTurnIsNotAborted, GraceIsForATask
<1> QED
  BY <1>8, <1>9, <1>10, <1>11

\* Clearing a turn's pending input takes it from its place.
LEMMA ClearPlace ==
    ASSUME TypeOK, PlaceInv, NEW t \in Turns, pendingInput' = [pendingInput EXCEPT ![t] = <<>>],
           UNCHANGED <<activeTurn, history, taskPC, taskInput, heldInput, arrivals, handleAborted>>,
           loopPC' \notin {"register", "grace"}
    PROVE  PlaceInv'
<1> USE DEF PlaceInv
<1>1. \A u \in Turns : pendingInput'[u] = <<>> \/ pendingInput'[u] = pendingInput[u]
  BY DEF TypeOK
<1>2. \A u \in Turns : \A x : x \in Range(pendingInput'[u]) => x \in Range(pendingInput[u])
  BY <1>1, EmptyOrder
<1>3. \A u \in Turns : Accepted(u)' = Accepted(u) /\ Batch(u)' = Batch(u)
  BY DEF Accepted, Batch
<1>4. HistoryIsFromInput' /\ HistoryHasNoDuplicates' /\ HeldWhileInspecting'
  BY <1>3 DEF HistoryIsFromInput, HistoryHasNoDuplicates, Arrived, HeldWhileInspecting
<1>5. PlacesAreDisjoint'
  <2>1. \A u \in Turns : NoDuplicates(pendingInput[u])'
    BY <1>1, EmptyOrder DEF PlacesAreDisjoint, NoDuplicates
  <2>2. \A u \in Turns : NoDuplicates(Accepted(u))' /\ NoDuplicates(Batch(u))'
    BY <1>3 DEF PlacesAreDisjoint, NoDuplicates
  <2> QED
    BY <1>2, <1>3, <2>1, <2>2 DEF PlacesAreDisjoint
<1>6. HeldIsUnrecorded'
  BY <1>2, <1>3 DEF HeldIsUnrecorded, Held, Arrived
<1>7. UnregisteredTurnsAreEmpty' /\ ActiveTurnIsNotAborted' /\ GraceIsForATask'
  BY <1>1 DEF UnregisteredTurnsAreEmpty, ActiveTurnIsNotAborted, GraceIsForATask
<1> QED
  BY <1>4, <1>5, <1>6, <1>7

\* The marker is no input.
LEMMA MarkerPlace ==
    ASSUME TypeOK, PlaceInv, NEW t \in Turns, history' = history \o Recorded(<<Marker>>, t),
           UNCHANGED <<activeTurn, pendingInput, taskPC, taskInput, heldInput, arrivals,
                       handleAborted>>,
           loopPC' \notin {"register", "grace"}
    PROVE  PlaceInv'
<1> USE DEF PlaceInv
<1> DEFINE items == <<Marker>>
<1>1. /\ items \in Seq(Inputs \cup {Marker})
      /\ Range(items) = {Marker} /\ \A x, y : ~Before(items, x, y)
      /\ Marker \notin Inputs
  BY SingletonOrder, ConstantsAssumption DEF Inputs
<1>2. history \in History /\ history' = history \o Recorded(items, t)
  BY DEF TypeOK, History
<1> HIDE DEF items
<1>3. /\ \A m \in Inputs, u \in Turns :
            Entry(m, u) \in Range(history') => Entry(m, u) \in Range(history)
      /\ \A m, n \in Inputs, u, v \in Turns :
            Before(history', Entry(m, u), Entry(n, v)) => Before(history, Entry(m, u), Entry(n, v))
  <2>1. /\ \A m, u : Entry(m, u) \in Range(history') <=>
              Entry(m, u) \in Range(history) \/ (u = t /\ m \in Range(items))
        /\ \A m, n, u, v : Before(history', Entry(m, u), Entry(n, v)) <=>
              \/ Before(history, Entry(m, u), Entry(n, v))
              \/ Entry(m, u) \in Range(history) /\ v = t /\ n \in Range(items)
              \/ u = t /\ v = t /\ Before(items, m, n)
    BY <1>1, <1>2, RecordedOrder
  <2> QED
    BY <1>1, <2>1
<1>4. \A u \in Turns : Accepted(u)' = Accepted(u) /\ Batch(u)' = Batch(u)
  BY DEF Accepted, Batch
<1>5. HistoryIsFromInput' /\ HistoryHasNoDuplicates' /\ HeldWhileInspecting'
  BY <1>3, <1>4 DEF HistoryIsFromInput, HistoryHasNoDuplicates, Arrived, HeldWhileInspecting
<1>6. PlacesAreDisjoint'
  BY <1>4 DEF PlacesAreDisjoint
<1>7. \A u \in Turns : \A m \in Held(u) : m \in Inputs
  <2>1. \A u \in Turns : /\ Accepted(u) \in Seq(Inputs) /\ Batch(u) \in Seq(Inputs)
                         /\ pendingInput[u] \in Seq(Inputs)
    BY DEF TypeOK, Accepted, Batch
  <2> QED
    BY <2>1, RangeOfSeq DEF Held
<1>8. HeldIsUnrecorded'
  BY <1>3, <1>4, <1>7 DEF HeldIsUnrecorded, Held, Arrived
<1>9. UnregisteredTurnsAreEmpty' /\ ActiveTurnIsNotAborted' /\ GraceIsForATask'
  BY DEF UnregisteredTurnsAreEmpty, ActiveTurnIsNotAborted, GraceIsForATask
<1> QED
  BY <1>5, <1>6, <1>8, <1>9

\* The turn that is spawned was never used.
LEMMA SpawnPlace ==
    ASSUME TypeOK, PlaceInv, SourceInv, activeTurn = NoTurn, SpawnTokioTask PROVE PlaceInv'
<1> USE DEF PlaceInv, turnVars, abortVars
<1>1. PICK t \in FreshTurns : /\ taskPC' = [taskPC EXCEPT ![t] = "spawned"]
                              /\ taskInput' = [taskInput EXCEPT ![t] = next.input]
                              /\ victim' = t
  BY DEF SpawnTokioTask
<1>2. /\ t \in Turns /\ taskPC[t] = "none" /\ taskPC'[t] = "spawned"
      /\ \A u \in Turns : u # t => taskPC'[u] = taskPC[u] /\ taskInput'[u] = taskInput[u]
      /\ loopPC' = "register" /\ victim' = t
      /\ UNCHANGED <<activeTurn, history, pendingInput, heldInput, arrivals, handleAborted>>
  BY <1>1 DEF SpawnTokioTask, FreshTurns, TypeOK
<1>3. \A u \in Turns : Accepted(u)' = Accepted(u) /\ Batch(u)' = Batch(u)
  BY <1>2 DEF Accepted, Batch
<1>4. HistoryIsFromInput' /\ HistoryHasNoDuplicates'
  BY <1>2 DEF HistoryIsFromInput, HistoryHasNoDuplicates, Arrived
<1>5. HeldWhileInspecting' /\ PlacesAreDisjoint' /\ HeldIsUnrecorded'
  <2>1. HeldWhileInspecting'
    BY <1>2, <1>3 DEF HeldWhileInspecting
  <2>2. PlacesAreDisjoint'
    BY <1>2, <1>3 DEF PlacesAreDisjoint, NoDuplicates
  <2>3. HeldIsUnrecorded'
    BY <1>2, <1>3 DEF HeldIsUnrecorded, Held, Arrived
  <2> QED
    BY <2>1, <2>2, <2>3
<1>6. UnregisteredTurnsAreEmpty' /\ ActiveTurnIsNotAborted' /\ GraceIsForATask'
  BY <1>2 DEF UnregisteredTurnsAreEmpty, ActiveTurnIsNotAborted, GraceIsForATask
<1> QED
  BY <1>4, <1>5, <1>6

\* The clients' steps keep every input in one place.
LEMMA ClientPlace ==
    ASSUME TypeOK, IInv, SourceInv, PlaceInv, ClientStep PROVE PlaceInv'
<1> USE DEF taskVars, loopVars, clientVars, turnVars, abortVars
<1>1. ASSUME NEW m \in Inputs \ sent, activeTurn # NoTurn, Push(activeTurn, <<m>>),
             UNCHANGED <<activeTurn, history, taskVars, abortVars, loopVars>>
      PROVE  PlaceInv'
  <2>1. activeTurn \in Turns /\ taskPC[activeTurn] # "none" /\ loopPC # "register"
    BY <1>1 DEF IInv, ControlTypeOK, ActiveTurnIsLive, SlotEmptyWhileLoopWorks
  <2> QED
    BY <1>1, <2>1, AcceptPlace
<1>2. ASSUME UNCHANGED <<activeTurn, pendingInput, history, taskPC, taskInput, heldInput, arrivals,
                         abortVars, victim>>,
             UNCHANGED loopPC \/ loopPC' = "take"
      PROVE  PlaceInv'
  BY <1>2, PlaceFrame DEF PlaceInv, GraceIsForATask
<1>3. ASSUME NEW m \in UserInputs, UserInput(m) PROVE PlaceInv'
  <2>1. m \in Inputs \ sent
    BY <1>3 DEF UserInput, Inputs
  <2> QED
    BY <1>1, <1>2, <1>3, <2>1 DEF UserInput, Spawn
<1>4. ASSUME NEW m \in UserInputs, NEW t \in Turns, SteerInput(m, t) PROVE PlaceInv'
  BY <1>1, <1>4, ConstantsAssumption DEF SteerInput, Inputs
<1>5. ASSUME NEW m \in AgentInputs, InterAgentCommunication(m) PROVE PlaceInv'
  <2>1. m \in Inputs \ sent
    BY <1>5 DEF InterAgentCommunication, Inputs
  <2> QED
    BY <1>1, <1>2, <1>5, <2>1 DEF InterAgentCommunication, Spawn
<1>6. ASSUME NEW kind, SpawnOther(kind) PROVE PlaceInv'
  BY <1>2, <1>6 DEF SpawnOther, Spawn
<1>7. CASE Interrupt \/ Shutdown
  BY <1>2, <1>7 DEF Interrupt, Shutdown
<1>8. ASSUME NEW t, NotifyApproval(t) PROVE PlaceInv'
  BY <1>2, <1>8 DEF NotifyApproval
<1> QED
  BY <1>3, <1>4, <1>5, <1>6, <1>7, <1>8 DEF ClientStep

\* So do the loop's.
LEMMA LoopPlace ==
    ASSUME TypeOK, IInv, SourceInv, PlaceInv, LoopStep PROVE PlaceInv'
<1> USE DEF taskVars, clientVars, turnVars, abortVars
<1>1. CASE TakeActiveTurn
  BY <1>1, PlaceFrame DEF TakeActiveTurn, AfterAbort, AfterOp
<1>2. CASE CancelTask
  BY <1>2, PlaceFrame DEF CancelTask, IInv, VictimIsHeld
<1>3. CASE GraceOver
  <2>1. taskPC[victim] # "none" /\ activeTurn = NoTurn /\ victim \in Turns
    BY <1>3 DEF GraceOver, PlaceInv, GraceIsForATask, IInv, SlotEmptyWhileLoopWorks, VictimIsHeld
  <2> QED
    BY <1>3, <2>1, PlaceFrame, ConstantsAssumption DEF GraceOver
<1>4. CASE RecordMarker
  BY <1>4, MarkerPlace DEF RecordMarker, IInv, VictimIsHeld
<1>5. CASE EmitTurnAborted
  BY <1>5, PlaceFrame DEF EmitTurnAborted
<1>6. CASE ClearPending
  BY <1>6, ClearPlace DEF ClearPending, AfterAbort, AfterOp, IInv, VictimIsHeld
<1>7. CASE SpawnTokioTask
  BY <1>7, SpawnPlace DEF SpawnTokioTask, IInv, SlotEmptyWhileLoopWorks
<1> QED
  BY <1>1, <1>2, <1>3, <1>4, <1>5, <1>6, <1>7, RegisterPlace DEF LoopStep, AbortAllTasks

\* The parts of the invariant that a task's step keeps as long as it neither
\* aborts the active turn nor gives input to a fresh one.
LEMMA TurnsPlace ==
    ASSUME PlaceInv, NEW t \in Turns, UNCHANGED <<arrivals, loopPC, victim>>,
           taskPC[t] # "none", taskPC'[t] # "none",
           \A u \in Turns : u # t => taskPC'[u] = taskPC[u],
           UNCHANGED <<activeTurn, handleAborted>>
              \/ (activeTurn' = NoTurn /\ handleAborted' = handleAborted \cup {t}
                  /\ loopPC # "register"),
           loopPC = "grace" => victim \in Turns,
           \A u \in Turns : pendingInput[u] = <<>> =>
              pendingInput'[u] = <<>> \/ (u = activeTurn /\ u # NoTurn),
           activeTurn # NoTurn => activeTurn \in Turns /\ taskPC[activeTurn] # "none"
                                  /\ loopPC # "register"
    PROVE  UnregisteredTurnsAreEmpty' /\ ActiveTurnIsNotAborted' /\ GraceIsForATask'
  BY DEF PlaceInv, UnregisteredTurnsAreEmpty, ActiveTurnIsNotAborted, GraceIsForATask

\* What the invariant of the turns says of a task that runs.
LEMMA RunningTaskFacts ==
    ASSUME TypeOK, IInv, NEW t \in Turns, taskPC[t] \in Running
    PROVE  /\ taskPC[t] # "none"
           /\ loopPC = "grace" => victim \in Turns
           /\ activeTurn # NoTurn => activeTurn \in Turns /\ taskPC[activeTurn] # "none"
                                     /\ loopPC # "register"
           /\ t \notin handleAborted /\ activeTurn # NoTurn => t = activeTurn
  BY DEF IInv, ControlTypeOK, VictimIsHeld, ActiveTurnIsLive, SlotEmptyWhileLoopWorks,
     UncancelledTaskIsKnown, CancelledTaskIsInGrace, Running, Suspended

\* A step that moves no input keeps it where it is.
LEMMA MovesPlace ==
    ASSUME TypeOK, IInv, PlaceInv, NEW t \in Turns, TaskMoves(t),
           UNCHANGED <<arrivals, taskInput, loopPC, victim>>
    PROVE  PlaceInv'
<1> USE DEF PlaceInv
<1>1. /\ taskPC[t] \in Running /\ taskPC'[t] # "none"
      /\ \A u \in Turns : u # t => taskPC'[u] = taskPC[u]
      /\ UNCHANGED <<activeTurn, handleAborted, pendingInput, history, heldInput>>
  BY DEF TaskMoves
<1>2. \A u \in Turns : Accepted(u)' = Accepted(u) /\ Batch(u)' = Batch(u)
  BY <1>1 DEF Accepted, Batch
<1>3. HistoryIsFromInput'
  BY <1>1 DEF HistoryIsFromInput, Arrived, TaskMoves, BeforeOwnInput
<1>4. HeldWhileInspecting'
  BY <1>1, <1>2 DEF HeldWhileInspecting, TaskMoves
<1>5. PlacesAreDisjoint' /\ HistoryHasNoDuplicates'
  BY <1>1, <1>2 DEF PlacesAreDisjoint, HistoryHasNoDuplicates
<1>6. HeldIsUnrecorded'
  BY <1>1, <1>2 DEF HeldIsUnrecorded, Held, Arrived
<1>7. UnregisteredTurnsAreEmpty' /\ ActiveTurnIsNotAborted' /\ GraceIsForATask'
  BY <1>1, RunningTaskFacts, TurnsPlace
<1> QED
  BY <1>3, <1>4, <1>5, <1>6, <1>7

\* The own input goes into the history, where it cannot be yet.
LEMMA OwnInputPlace ==
    ASSUME TypeOK, IInv, SourceInv, PlaceInv, NEW t \in Turns, RecordOwnInput(t),
           UNCHANGED <<arrivals, taskInput, loopPC, victim>>
    PROVE  PlaceInv'
<1> USE DEF PlaceInv, turnVars, abortVars
<1>1. /\ taskPC[t] = "input" /\ taskPC'[t] \in {"head", "rollout_wait"}
      /\ \A u \in Turns : u # t => taskPC'[u] = taskPC[u]
      /\ UNCHANGED <<activeTurn, handleAborted, pendingInput, heldInput>>
      /\ history' = history \o Recorded(taskInput[t], t)
      /\ history \in History
      /\ taskInput[t] \in Seq(Inputs \cup {Marker})
  BY InputsAreItems DEF RecordOwnInput, Step, TypeOK, History
<1>2. /\ \A m, u : Entry(m, u) \in Range(history') <=>
            Entry(m, u) \in Range(history) \/ (u = t /\ m \in Range(taskInput[t]))
      /\ \A m, n, u, v : Before(history', Entry(m, u), Entry(n, v)) <=>
            \/ Before(history, Entry(m, u), Entry(n, v))
            \/ Entry(m, u) \in Range(history) /\ v = t /\ n \in Range(taskInput[t])
            \/ u = t /\ v = t /\ Before(taskInput[t], m, n)
  BY <1>1, RecordedOrder
<1>3. \A u \in Turns : Accepted(u)' = Accepted(u) /\ Batch(u)' = Batch(u)
  BY <1>1 DEF Accepted, Batch
<1>4. \A m \in Range(taskInput[t]) :
          /\ ~Arrived(m)
          /\ \A u \in Turns : m \in Range(taskInput[u]) => u = t
  BY DEF SourceInv, OwnInputIsOwn, Arrived
<1>5. HistoryIsFromInput'
  BY <1>1, <1>2 DEF HistoryIsFromInput, Arrived
<1>6. HeldWhileInspecting'
  BY <1>1, <1>3 DEF HeldWhileInspecting
<1>7. PlacesAreDisjoint'
  BY <1>1, <1>3 DEF PlacesAreDisjoint
<1>8. HistoryHasNoDuplicates'
  <2>1. \A m \in Inputs : m \in Range(taskInput[t]) =>
            \A u \in Turns : Entry(m, u) \notin Range(history)
    BY <1>1, <1>4 DEF HistoryIsFromInput
  <2> QED
    BY <1>2, <2>1 DEF HistoryHasNoDuplicates, SourceInv, OwnInputIsOwn, NoDuplicates
<1>9. HeldIsUnrecorded'
  BY <1>1, <1>2, <1>3, <1>4 DEF HeldIsUnrecorded, Held, Arrived
<1>10. UnregisteredTurnsAreEmpty' /\ ActiveTurnIsNotAborted' /\ GraceIsForATask'
  BY <1>1, RunningTaskFacts, TurnsPlace DEF Running
<1> QED
  BY <1>5, <1>6, <1>7, <1>8, <1>9, <1>10

\* The effect of taking the active turn's pending input.
LEMMA GetPendingInputEffect ==
    ASSUME TypeOK, HeldWhileInspecting, NEW t \in Turns, GetPendingInput(t)
    PROVE  /\ taskPC[t] = "head" /\ taskPC'[t] = "inspect"
           /\ \A u \in Turns : u # t => taskPC'[u] = taskPC[u]
           /\ UNCHANGED <<activeTurn, handleAborted, history>>
           /\ Batch(t) = <<>> /\ Accepted(t) = <<>>
           /\ \A u \in Turns : Accepted(u)' = Accepted(u)
           /\ \A u \in Turns : u # t => Batch(u)' = Batch(u)
           /\ \A u \in Turns : u # activeTurn => pendingInput'[u] = pendingInput[u]
           /\ activeTurn = NoTurn => Batch(t)' = <<>>
           /\ activeTurn # NoTurn => /\ activeTurn \in Turns
                                     /\ Batch(t)' = pendingInput[activeTurn]
                                     /\ pendingInput'[activeTurn] = <<>>
<1>1. /\ taskPC[t] = "head" /\ taskPC'[t] = "inspect"
      /\ \A u \in Turns : u # t => taskPC'[u] = taskPC[u]
      /\ UNCHANGED <<activeTurn, handleAborted, history>>
  BY DEF GetPendingInput, Step, TypeOK, abortVars
<1>2. Batch(t) = <<>> /\ Accepted(t) = <<>>
  BY <1>1 DEF HeldWhileInspecting
<1>3. /\ \A u \in Turns : Accepted(u)' = Accepted(u)
      /\ \A u \in Turns : u # t => Batch(u)' = Batch(u)
      /\ Batch(t)' = IF HasPendingInput THEN pendingInput[activeTurn] ELSE <<>>
  BY DEF GetPendingInput, TypeOK, Accepted, Batch
<1>4. activeTurn \in Turns \cup {NoTurn}
  BY DEF TypeOK
<1>5. \A u \in Turns : pendingInput'[u] = IF u = activeTurn THEN <<>> ELSE pendingInput[u]
  BY DEF GetPendingInput
<1> QED
  BY <1>1, <1>2, <1>3, <1>4, <1>5, ConstantsAssumption DEF HasPendingInput

\* The pending input of the active turn becomes the batch of the task.
LEMMA GetPendingInputPlace ==
    ASSUME TypeOK, IInv, PlaceInv, NEW t \in Turns, GetPendingInput(t),
           UNCHANGED <<arrivals, taskInput, loopPC, victim>>
    PROVE  PlaceInv'
<1> USE DEF PlaceInv
<1>1. /\ taskPC[t] = "head" /\ taskPC'[t] = "inspect"
      /\ \A u \in Turns : u # t => taskPC'[u] = taskPC[u]
      /\ UNCHANGED <<activeTurn, handleAborted, history>>
      /\ Accepted(t) = <<>>
      /\ \A u \in Turns : Accepted(u)' = Accepted(u)
      /\ \A u \in Turns : u # t => Batch(u)' = Batch(u)
      /\ \A u \in Turns : u # activeTurn => pendingInput'[u] = pendingInput[u]
      /\ activeTurn = NoTurn => Batch(t)' = <<>>
      /\ activeTurn # NoTurn => /\ activeTurn \in Turns
                                /\ Batch(t)' = pendingInput[activeTurn]
                                /\ pendingInput'[activeTurn] = <<>>
  BY GetPendingInputEffect
<1>2. \A u \in Turns : \A x : x \in Range(pendingInput'[u]) =>
          x \in Range(pendingInput[u]) /\ u # activeTurn
  <2>1. \A u \in Turns : u = activeTurn => Range(pendingInput'[u]) = {}
    BY <1>1, EmptyOrder, ConstantsAssumption
  <2> QED
    BY <1>1, <2>1
<1>3. \A u \in Turns : \A x : x \in Range(Batch(u)') =>
          \/ u # t /\ x \in Range(Batch(u))
          \/ u = t /\ activeTurn \in Turns /\ x \in Range(pendingInput[activeTurn])
  BY <1>1, EmptyOrder
<1>4. HistoryIsFromInput' /\ HistoryHasNoDuplicates'
  BY <1>1 DEF HistoryIsFromInput, HistoryHasNoDuplicates, Arrived
<1>5. HeldWhileInspecting'
  BY <1>1 DEF HeldWhileInspecting
<1>6. PlacesAreDisjoint'
  <2>1. NoDuplicates(<<>>)
    BY EmptyOrder DEF NoDuplicates
  <2>2. \A u \in Turns : NoDuplicates(pendingInput'[u])
    BY <1>1, <2>1, ConstantsAssumption DEF PlacesAreDisjoint
  <2>3. \A u \in Turns : NoDuplicates(Batch(u)')
    BY <1>1, <2>1 DEF PlacesAreDisjoint
  <2>4. \A u \in Turns : NoDuplicates(Accepted(u)')
    BY <1>1 DEF PlacesAreDisjoint
  <2>5. \A u, v \in Turns : \A m \in Range(Accepted(u)') :
            /\ m \in Range(Accepted(v)') => u = v
            /\ m \notin Range(Batch(v)')
            /\ m \notin Range(pendingInput'[v])
    BY <1>1, <1>2, <1>3 DEF PlacesAreDisjoint
  <2>6. \A u, v \in Turns : \A m \in Range(Batch(u)') :
            /\ m \in Range(Batch(v)') => u = v
            /\ m \notin Range(pendingInput'[v])
    BY <1>2, <1>3 DEF PlacesAreDisjoint
  <2>7. \A u, v \in Turns : \A m \in Range(pendingInput'[u]) :
            m \in Range(pendingInput'[v]) => u = v
    BY <1>2 DEF PlacesAreDisjoint
  <2> QED
    BY <2>2, <2>3, <2>4, <2>5, <2>6, <2>7 DEF PlacesAreDisjoint, NoDuplicates, Batch, Accepted
<1>7. HeldIsUnrecorded'
  BY <1>1, <1>2, <1>3 DEF HeldIsUnrecorded, Held, Arrived
<1>8. UnregisteredTurnsAreEmpty' /\ ActiveTurnIsNotAborted' /\ GraceIsForATask'
  BY <1>1, RunningTaskFacts, TurnsPlace, ConstantsAssumption DEF Running
<1> QED
  BY <1>4, <1>5, <1>6, <1>7, <1>8

\* The effect of accepting the first item of the batch.
LEMMA InspectAcceptEffect ==
    ASSUME TypeOK, NEW t \in Turns, InspectAccept(t)
    PROVE  /\ taskPC[t] = "inspect" /\ taskPC' = taskPC
           /\ UNCHANGED <<activeTurn, handleAborted, pendingInput, history>>
           /\ \A u \in Turns : u # t => Batch(u)' = Batch(u) /\ Accepted(u)' = Accepted(u)
           /\ LET m == Head(Batch(t))
              IN  /\ m \in Inputs
                  /\ Range(Batch(t)) = {m} \cup Range(Batch(t)')
                  /\ \A x, y : Before(Batch(t), x, y) <=>
                        Before(Batch(t)', x, y) \/ (x = m /\ y \in Range(Batch(t)'))
                  /\ Range(Accepted(t)') = Range(Accepted(t)) \cup {m}
                  /\ \A x, y : Before(Accepted(t)', x, y) <=>
                        Before(Accepted(t), x, y) \/ (x \in Range(Accepted(t)) /\ y = m)
<1> DEFINE m == Head(Batch(t))
<1>1. /\ taskPC[t] = "inspect" /\ taskPC' = taskPC
      /\ UNCHANGED <<activeTurn, handleAborted, pendingInput, history>>
  BY DEF InspectAccept, Step, TypeOK, turnVars, abortVars
<1>2. /\ \A u \in Turns : u # t => Batch(u)' = Batch(u) /\ Accepted(u)' = Accepted(u)
      /\ Batch(t)' = Tail(Batch(t)) /\ Accepted(t)' = Append(Accepted(t), m)
      /\ Batch(t) # <<>> /\ Batch(t) \in Seq(Inputs) /\ Accepted(t) \in Seq(Inputs)
  BY DEF InspectAccept, TypeOK, Batch, Accepted
<1>3. /\ m \in Inputs
      /\ Range(Batch(t)) = {m} \cup Range(Tail(Batch(t)))
      /\ \A x, y : Before(Batch(t), x, y) <=>
            Before(Tail(Batch(t)), x, y) \/ (x = m /\ y \in Range(Tail(Batch(t))))
  BY <1>2, HeadTailOrder
<1>4. /\ Range(Append(Accepted(t), m)) = Range(Accepted(t)) \cup {m}
      /\ \A x, y : Before(Append(Accepted(t), m), x, y) <=>
            Before(Accepted(t), x, y) \/ (x \in Range(Accepted(t)) /\ y = m)
  BY <1>2, <1>3, AppendOrder
<1> HIDE DEF m
<1>5. /\ Range(Batch(t)) = {m} \cup Range(Batch(t)')
      /\ \A x, y : Before(Batch(t), x, y) <=>
            Before(Batch(t)', x, y) \/ (x = m /\ y \in Range(Batch(t)'))
      /\ Range(Accepted(t)') = Range(Accepted(t)) \cup {m}
      /\ \A x, y : Before(Accepted(t)', x, y) <=>
            Before(Accepted(t), x, y) \/ (x \in Range(Accepted(t)) /\ y = m)
  BY <1>2, <1>3, <1>4
<1> QED
  BY <1>1, <1>2, <1>3, <1>5 DEF m

\* The first of the batch goes to the accepted ones.
LEMMA InspectAcceptPlace ==
    ASSUME TypeOK, IInv, PlaceInv, NEW t \in Turns, InspectAccept(t),
           UNCHANGED <<arrivals, taskInput, loopPC, victim>>
    PROVE  PlaceInv'
<1> USE DEF PlaceInv
<1>1. PICK m \in Inputs :
          /\ taskPC[t] = "inspect" /\ taskPC' = taskPC
          /\ UNCHANGED <<activeTurn, handleAborted, pendingInput, history>>
          /\ \A u \in Turns : u # t => Batch(u)' = Batch(u) /\ Accepted(u)' = Accepted(u)
          /\ Range(Batch(t)) = {m} \cup Range(Batch(t)')
          /\ \A x, y : Before(Batch(t), x, y) <=>
                Before(Batch(t)', x, y) \/ (x = m /\ y \in Range(Batch(t)'))
          /\ Range(Accepted(t)') = Range(Accepted(t)) \cup {m}
          /\ \A x, y : Before(Accepted(t)', x, y) <=>
                Before(Accepted(t), x, y) \/ (x \in Range(Accepted(t)) /\ y = m)
  BY InspectAcceptEffect
<1>2. /\ \A u \in Turns : \A x : x \in Range(Batch(u)') => x \in Range(Batch(u))
      /\ \A u \in Turns : \A x : x \in Range(Accepted(u)') =>
            x \in Range(Accepted(u)) \/ (u = t /\ x = m)
      /\ m \in Range(Batch(t)) /\ m \notin Range(Batch(t)') /\ m \notin Range(Accepted(t))
  <2>1. m \in Range(Batch(t))
    BY <1>1
  <2>2. m \notin Range(Batch(t)')
    BY <1>1 DEF PlacesAreDisjoint, NoDuplicates
  <2> QED
    BY <1>1, <2>1, <2>2 DEF PlacesAreDisjoint
<1>3. HistoryIsFromInput' /\ HistoryHasNoDuplicates' /\ HeldWhileInspecting'
  BY <1>1 DEF HistoryIsFromInput, HistoryHasNoDuplicates, Arrived, HeldWhileInspecting
<1>4. PlacesAreDisjoint'
  <2>1. ASSUME NEW u \in Turns, NEW x
        PROVE  /\ ~Before(Batch(u)', x, x) /\ ~Before(Accepted(u)', x, x)
               /\ ~Before(pendingInput'[u], x, x)
    <3>1. /\ ~Before(Batch(u), x, x) /\ ~Before(Accepted(u), x, x)
          /\ ~Before(pendingInput[u], x, x)
      BY DEF PlacesAreDisjoint, NoDuplicates
    <3> QED
      BY <1>1, <1>2, <3>1
  <2>2. \A u, v \in Turns : \A x \in Range(Accepted(u)') :
            /\ x \in Range(Accepted(v)') => u = v
            /\ x \notin Range(Batch(v)')
            /\ x \notin Range(pendingInput'[v])
    BY <1>1, <1>2 DEF PlacesAreDisjoint
  <2>3. \A u, v \in Turns : \A x \in Range(Batch(u)') :
            /\ x \in Range(Batch(v)') => u = v
            /\ x \notin Range(pendingInput'[v])
    BY <1>1, <1>2 DEF PlacesAreDisjoint
  <2> QED
    BY <1>1, <2>1, <2>2, <2>3 DEF PlacesAreDisjoint, NoDuplicates
<1>5. HeldIsUnrecorded'
  BY <1>1, <1>2 DEF HeldIsUnrecorded, Held, Arrived
<1>6. UnregisteredTurnsAreEmpty' /\ ActiveTurnIsNotAborted' /\ GraceIsForATask'
  BY <1>1, RunningTaskFacts, TurnsPlace DEF Running
<1> QED
  BY <1>3, <1>4, <1>5, <1>6

\* The effect of a hook that blocks the first item of the batch.
LEMMA HookBlocksEffect ==
    ASSUME TypeOK, NEW t \in Turns, HookBlocks(t)
    PROVE  /\ taskPC[t] = "inspect" /\ taskPC'[t] = "blocked" /\ t \notin handleAborted
           /\ \A u \in Turns : u # t => taskPC'[u] = taskPC[u]
           /\ UNCHANGED <<activeTurn, handleAborted, pendingInput, history>>
           /\ \A u \in Turns : u # t => Batch(u)' = Batch(u)
           /\ \A u \in Turns : Accepted(u)' = Accepted(u)
           /\ \A x : x \in Range(Batch(t)') => x \in Range(Batch(t))
           /\ \A x, y : Before(Batch(t)', x, y) => Before(Batch(t), x, y)
<1>1. /\ taskPC[t] = "inspect" /\ taskPC'[t] = "blocked" /\ t \notin handleAborted
      /\ \A u \in Turns : u # t => taskPC'[u] = taskPC[u]
      /\ UNCHANGED <<activeTurn, handleAborted, pendingInput, history>>
  BY DEF HookBlocks, Step, TypeOK, turnVars, abortVars
<1>2. /\ \A u \in Turns : u # t => Batch(u)' = Batch(u)
      /\ \A u \in Turns : Accepted(u)' = Accepted(u)
      /\ Batch(t)' = Tail(Batch(t))
      /\ Batch(t) # <<>> /\ Batch(t) \in Seq(Inputs)
  BY DEF HookBlocks, TypeOK, Batch, Accepted
<1>3. /\ \A x : x \in Range(Tail(Batch(t))) => x \in Range(Batch(t))
      /\ \A x, y : Before(Tail(Batch(t)), x, y) => Before(Batch(t), x, y)
  BY <1>2, HeadTailOrder
<1> QED
  BY <1>1, <1>2, <1>3

\* The first of the batch is dropped.
LEMMA HookBlocksPlace ==
    ASSUME TypeOK, IInv, PlaceInv, NEW t \in Turns, HookBlocks(t),
           UNCHANGED <<arrivals, taskInput, loopPC, victim>>
    PROVE  PlaceInv'
<1> USE DEF PlaceInv
<1>1. /\ taskPC[t] = "inspect" /\ taskPC'[t] = "blocked"
      /\ \A u \in Turns : u # t => taskPC'[u] = taskPC[u]
      /\ UNCHANGED <<activeTurn, handleAborted, pendingInput, history>>
      /\ \A u \in Turns : u # t => Batch(u)' = Batch(u)
      /\ \A u \in Turns : Accepted(u)' = Accepted(u)
      /\ \A x : x \in Range(Batch(t)') => x \in Range(Batch(t))
      /\ \A x, y : Before(Batch(t)', x, y) => Before(Batch(t), x, y)
  BY HookBlocksEffect
<1>2. \A u \in Turns : \A x : x \in Range(Batch(u)') => x \in Range(Batch(u))
  BY <1>1
<1>3. HistoryIsFromInput' /\ HistoryHasNoDuplicates' /\ HeldWhileInspecting'
  BY <1>1 DEF HistoryIsFromInput, HistoryHasNoDuplicates, Arrived, HeldWhileInspecting
<1>4. PlacesAreDisjoint'
  <2>1. \A u \in Turns : NoDuplicates(Batch(u))'
    BY <1>1 DEF PlacesAreDisjoint, NoDuplicates
  <2>2. \A u \in Turns : NoDuplicates(Accepted(u))' /\ NoDuplicates(pendingInput[u])'
    BY <1>1 DEF PlacesAreDisjoint, NoDuplicates
  <2> QED
    BY <1>1, <1>2, <2>1, <2>2 DEF PlacesAreDisjoint
<1>5. HeldIsUnrecorded'
  BY <1>1, <1>2 DEF HeldIsUnrecorded, Held, Arrived
<1>6. UnregisteredTurnsAreEmpty' /\ ActiveTurnIsNotAborted' /\ GraceIsForATask'
  BY <1>1, RunningTaskFacts, TurnsPlace DEF Running
<1> QED
  BY <1>3, <1>4, <1>5, <1>6

\* The effect of putting the rest of the batch back.
LEMMA InspectBlockEffect ==
    ASSUME TypeOK, HeldWhileInspecting, NEW t \in Turns, InspectBlock(t)
    PROVE  /\ taskPC[t] = "blocked" /\ taskPC'[t] \in {"record", "head", "flush"}
           /\ taskPC'[t] # "record" => Accepted(t) = <<>>
           /\ \A u \in Turns : u # t => taskPC'[u] = taskPC[u]
           /\ UNCHANGED <<activeTurn, handleAborted, history>>
           /\ \A u \in Turns : u # t => Batch(u)' = Batch(u)
           /\ Batch(t)' = <<>>
           /\ \A u \in Turns : Accepted(u)' = Accepted(u)
           /\ \A u \in Turns : u # activeTurn => pendingInput'[u] = pendingInput[u]
           /\ activeTurn # NoTurn =>
                 /\ activeTurn \in Turns
                 /\ Range(pendingInput'[activeTurn]) =
                       Range(Batch(t)) \cup Range(pendingInput[activeTurn])
                 /\ \A x, y : Before(pendingInput'[activeTurn], x, y) <=>
                       \/ Before(Batch(t), x, y)
                       \/ Before(pendingInput[activeTurn], x, y)
                       \/ x \in Range(Batch(t)) /\ y \in Range(pendingInput[activeTurn])
<1>1. /\ taskPC[t] = "blocked" /\ taskPC'[t] \in {"record", "head", "flush"}
      /\ taskPC'[t] # "record" => Accepted(t) = <<>>
      /\ \A u \in Turns : u # t => taskPC'[u] = taskPC[u]
      /\ UNCHANGED <<activeTurn, handleAborted, history>>
  BY DEF InspectBlock, Step, TypeOK, abortVars, Accepted
<1>2. /\ \A u \in Turns : u # t => Batch(u)' = Batch(u)
      /\ Batch(t)' = <<>>
      /\ \A u \in Turns : Accepted(u)' = Accepted(u)
      /\ Batch(t) \in Seq(Inputs)
      /\ \A u \in Turns : pendingInput[u] \in Seq(Inputs)
      /\ activeTurn \in Turns \cup {NoTurn}
  BY DEF InspectBlock, TypeOK, Batch, Accepted
<1>3. \A u \in Turns : pendingInput'[u] =
          IF u = activeTurn THEN Batch(t) \o pendingInput[u] ELSE pendingInput[u]
  BY DEF InspectBlock, Batch
<1>4. ASSUME activeTurn # NoTurn
      PROVE  /\ activeTurn \in Turns
             /\ Range(Batch(t) \o pendingInput[activeTurn]) =
                   Range(Batch(t)) \cup Range(pendingInput[activeTurn])
             /\ \A x, y : Before(Batch(t) \o pendingInput[activeTurn], x, y) <=>
                   \/ Before(Batch(t), x, y)
                   \/ Before(pendingInput[activeTurn], x, y)
                   \/ x \in Range(Batch(t)) /\ y \in Range(pendingInput[activeTurn])
  BY <1>2, <1>4, ConcatOrder
<1> QED
  BY <1>1, <1>2, <1>3, <1>4

\* The rest of the batch goes back to the active turn, or is dropped.
LEMMA InspectBlockPlace ==
    ASSUME TypeOK, IInv, PlaceInv, NEW t \in Turns, InspectBlock(t),
           UNCHANGED <<arrivals, taskInput, loopPC, victim>>
    PROVE  PlaceInv'
<1> USE DEF PlaceInv
<1>1. /\ taskPC[t] = "blocked" /\ taskPC'[t] \in {"record", "head", "flush"}
      /\ taskPC'[t] # "record" => Accepted(t) = <<>>
      /\ \A u \in Turns : u # t => taskPC'[u] = taskPC[u]
      /\ UNCHANGED <<activeTurn, handleAborted, history>>
      /\ \A u \in Turns : u # t => Batch(u)' = Batch(u)
      /\ Batch(t)' = <<>>
      /\ \A u \in Turns : Accepted(u)' = Accepted(u)
      /\ \A u \in Turns : u # activeTurn => pendingInput'[u] = pendingInput[u]
      /\ activeTurn # NoTurn =>
            /\ activeTurn \in Turns
            /\ Range(pendingInput'[activeTurn]) =
                  Range(Batch(t)) \cup Range(pendingInput[activeTurn])
            /\ \A x, y : Before(pendingInput'[activeTurn], x, y) <=>
                  \/ Before(Batch(t), x, y)
                  \/ Before(pendingInput[activeTurn], x, y)
                  \/ x \in Range(Batch(t)) /\ y \in Range(pendingInput[activeTurn])
  BY InspectBlockEffect
<1>2. /\ \A u \in Turns : \A x : x \in Range(Batch(u)') => u # t /\ x \in Range(Batch(u))
      /\ \A u \in Turns : \A x : x \in Range(pendingInput'[u]) =>
            \/ x \in Range(pendingInput[u])
            \/ u = activeTurn /\ x \in Range(Batch(t))
  BY <1>1, EmptyOrder, ConstantsAssumption
<1>3. HistoryIsFromInput' /\ HistoryHasNoDuplicates' /\ HeldWhileInspecting'
  BY <1>1 DEF HistoryIsFromInput, HistoryHasNoDuplicates, Arrived, HeldWhileInspecting
<1>4. PlacesAreDisjoint'
  <2>1. ASSUME NEW u \in Turns, NEW x PROVE ~Before(pendingInput'[u], x, x)
    <3>1. ~Before(pendingInput[u], x, x) /\ ~Before(Batch(t), x, x)
      BY DEF PlacesAreDisjoint, NoDuplicates
    <3>2. x \in Range(Batch(t)) => x \notin Range(pendingInput[u])
      BY DEF PlacesAreDisjoint
    <3> QED
      BY <1>1, <3>1, <3>2, ConstantsAssumption
  <2>2. NoDuplicates(<<>>)
    BY EmptyOrder DEF NoDuplicates
  <2>3. \A u \in Turns : NoDuplicates(Accepted(u)') /\ NoDuplicates(Batch(u)')
    BY <1>1, <2>2 DEF PlacesAreDisjoint
  <2>4. \A u, v \in Turns : \A x \in Range(Accepted(u)') :
            /\ x \in Range(Accepted(v)') => u = v
            /\ x \notin Range(Batch(v)')
            /\ x \notin Range(pendingInput'[v])
    BY <1>1, <1>2 DEF PlacesAreDisjoint
  <2>5. \A u, v \in Turns : \A x \in Range(Batch(u)') :
            /\ x \in Range(Batch(v)') => u = v
            /\ x \notin Range(pendingInput'[v])
    BY <1>2 DEF PlacesAreDisjoint
  <2>6. \A u, v \in Turns : \A x \in Range(pendingInput'[u]) :
            x \in Range(pendingInput'[v]) => u = v
    BY <1>2 DEF PlacesAreDisjoint
  <2> QED
    BY <2>1, <2>3, <2>4, <2>5, <2>6 DEF PlacesAreDisjoint, NoDuplicates, Accepted, Batch
<1>5. HeldIsUnrecorded'
  BY <1>1, <1>2 DEF HeldIsUnrecorded, Held, Arrived
<1>6. UnregisteredTurnsAreEmpty' /\ ActiveTurnIsNotAborted' /\ GraceIsForATask'
  BY <1>1, RunningTaskFacts, TurnsPlace, ConstantsAssumption DEF Running
<1> QED
  BY <1>3, <1>4, <1>5, <1>6

\* The effect of recording the first accepted item.
LEMMA RecordsFirstEffect ==
    ASSUME TypeOK, PlacesAreDisjoint, NEW t \in Turns, RecordsFirst(t)
    PROVE  LET m == Head(Accepted(t))
           IN  /\ m \in Inputs
               /\ m \in Range(Accepted(t)) /\ m \notin Range(Accepted(t)')
               /\ Range(Accepted(t)) = {m} \cup Range(Accepted(t)')
               /\ \A x, y : Before(Accepted(t), x, y) <=>
                     Before(Accepted(t)', x, y) \/ (x = m /\ y \in Range(Accepted(t)'))
               /\ \A x, u : Entry(x, u) \in Range(history') <=>
                     Entry(x, u) \in Range(history) \/ (u = t /\ x = m)
               /\ \A x, y, u, v : Before(history', Entry(x, u), Entry(y, v)) <=>
                     \/ Before(history, Entry(x, u), Entry(y, v))
                     \/ Entry(x, u) \in Range(history) /\ v = t /\ y = m
               /\ taskPC'[t] = "sampling" => Accepted(t)' = <<>>
               /\ \A u \in Turns : u # t => Accepted(u)' = Accepted(u)
               /\ \A u \in Turns : Batch(u)' = Batch(u)
<1> DEFINE m == Head(Accepted(t))
<1> DEFINE items == <<m>>
<1>1. /\ Accepted(t) # <<>> /\ Accepted(t) \in Seq(Inputs)
      /\ Accepted(t)' = Tail(Accepted(t))
      /\ taskPC'[t] = "sampling" => Accepted(t)' = <<>>
      /\ \A u \in Turns : u # t => Accepted(u)' = Accepted(u)
      /\ \A u \in Turns : Batch(u)' = Batch(u)
  BY DEF RecordsFirst, TypeOK, Accepted, Batch
<1>2. /\ m \in Inputs
      /\ Range(Accepted(t)) = {m} \cup Range(Tail(Accepted(t)))
      /\ \A x, y : Before(Accepted(t), x, y) <=>
            Before(Tail(Accepted(t)), x, y) \/ (x = m /\ y \in Range(Tail(Accepted(t))))
  BY <1>1, HeadTailOrder
<1>3. /\ items \in Seq(Inputs \cup {Marker})
      /\ Range(items) = {m} /\ \A x, y : ~Before(items, x, y)
  <2>1. items \in Seq(Inputs)
    BY <1>2
  <2> QED
    BY <2>1, InputsAreItems, SingletonOrder
<1>4. history \in History /\ history' = history \o Recorded(items, t)
  BY DEF RecordsFirst, TypeOK, History
<1> HIDE DEF items, m
<1>5. /\ \A x, u : Entry(x, u) \in Range(history') <=>
            Entry(x, u) \in Range(history) \/ (u = t /\ x \in Range(items))
      /\ \A x, y, u, v : Before(history', Entry(x, u), Entry(y, v)) <=>
            \/ Before(history, Entry(x, u), Entry(y, v))
            \/ Entry(x, u) \in Range(history) /\ v = t /\ y \in Range(items)
            \/ u = t /\ v = t /\ Before(items, x, y)
  BY <1>3, <1>4, RecordedOrder
<1>6. m \in Range(Accepted(t)) /\ m \notin Range(Accepted(t)')
  BY <1>1, <1>2 DEF PlacesAreDisjoint, NoDuplicates
<1>7. /\ \A x, u : Entry(x, u) \in Range(history') <=>
            Entry(x, u) \in Range(history) \/ (u = t /\ x = m)
      /\ \A x, y, u, v : Before(history', Entry(x, u), Entry(y, v)) <=>
            \/ Before(history, Entry(x, u), Entry(y, v))
            \/ Entry(x, u) \in Range(history) /\ v = t /\ y = m
  BY <1>3, <1>5
<1>8. /\ Range(Accepted(t)) = {m} \cup Range(Accepted(t)')
      /\ \A x, y : Before(Accepted(t), x, y) <=>
            Before(Accepted(t)', x, y) \/ (x = m /\ y \in Range(Accepted(t)'))
  BY <1>1, <1>2
<1> QED
  BY <1>1, <1>2, <1>6, <1>7, <1>8 DEF m

\* The first of the accepted ones goes to the history.
LEMMA RecordsFirstPlace ==
    ASSUME TypeOK, IInv, PlaceInv, NEW t \in Turns, RecordsFirst(t),
           UNCHANGED <<arrivals, taskInput, loopPC, victim>>
    PROVE  PlaceInv'
<1> USE DEF PlaceInv
<1>1. PICK m \in Inputs :
          /\ m \in Range(Accepted(t)) /\ m \notin Range(Accepted(t)')
          /\ Range(Accepted(t)) = {m} \cup Range(Accepted(t)')
          /\ \A x, y : Before(Accepted(t), x, y) <=>
                Before(Accepted(t)', x, y) \/ (x = m /\ y \in Range(Accepted(t)'))
          /\ \A x, u : Entry(x, u) \in Range(history') <=>
                Entry(x, u) \in Range(history) \/ (u = t /\ x = m)
          /\ \A x, y, u, v : Before(history', Entry(x, u), Entry(y, v)) <=>
                \/ Before(history, Entry(x, u), Entry(y, v))
                \/ Entry(x, u) \in Range(history) /\ v = t /\ y = m
          /\ taskPC'[t] = "sampling" => Accepted(t)' = <<>>
          /\ \A u \in Turns : u # t => Accepted(u)' = Accepted(u)
          /\ \A u \in Turns : Batch(u)' = Batch(u)
  BY RecordsFirstEffect
<1>2. /\ taskPC[t] \in {"record", "finish_record"}
      /\ taskPC'[t] \in {"sampling", "rollout_wait", "record", "materialize", "finish_record"}
      /\ \A u \in Turns : u # t => taskPC'[u] = taskPC[u]
      /\ UNCHANGED <<activeTurn, handleAborted, pendingInput>>
  BY DEF RecordsFirst
<1>3. \A u \in Turns : \A x : x \in Range(Accepted(u)') => x \in Range(Accepted(u))
  BY <1>1
<1>4. Arrived(m) /\ \A u \in Turns : Entry(m, u) \notin Range(history)
  BY <1>1 DEF HeldIsUnrecorded, Held
<1>5. HistoryIsFromInput'
  BY <1>1, <1>2, <1>4 DEF HistoryIsFromInput, Arrived
<1>6. HistoryHasNoDuplicates'
  BY <1>1, <1>4 DEF HistoryHasNoDuplicates
<1>7. HeldWhileInspecting'
  BY <1>1, <1>2 DEF HeldWhileInspecting
<1>8. PlacesAreDisjoint'
  <2>1. \A u \in Turns : /\ NoDuplicates(Accepted(u)') /\ NoDuplicates(Batch(u)')
                         /\ NoDuplicates(pendingInput'[u])
    BY <1>1, <1>2 DEF PlacesAreDisjoint, NoDuplicates
  <2>2. \A u, v \in Turns : \A x \in Range(Accepted(u)') :
            /\ x \in Range(Accepted(v)') => u = v
            /\ x \notin Range(Batch(v)')
            /\ x \notin Range(pendingInput'[v])
    BY <1>1, <1>2, <1>3 DEF PlacesAreDisjoint
  <2>3. \A u, v \in Turns : \A x \in Range(Batch(u)') :
            /\ x \in Range(Batch(v)') => u = v
            /\ x \notin Range(pendingInput'[v])
    BY <1>1, <1>2 DEF PlacesAreDisjoint
  <2>4. \A u, v \in Turns : \A x \in Range(pendingInput'[u]) :
            x \in Range(pendingInput'[v]) => u = v
    BY <1>2 DEF PlacesAreDisjoint
  <2> QED
    BY <2>1, <2>2, <2>3, <2>4 DEF PlacesAreDisjoint, NoDuplicates, Accepted, Batch
<1>9. HeldIsUnrecorded'
  <2>1. ASSUME NEW u \in Turns, NEW x \in Held(u)' PROVE x \in Held(u) /\ x # m
    <3>1. \/ x \in Range(Accepted(u)')
          \/ x \in Range(Batch(u))
          \/ x \in Range(pendingInput[u])
      BY <1>1, <1>2, <2>1 DEF Held
    <3>2. m \notin Range(Batch(u)) /\ m \notin Range(pendingInput[u])
      BY <1>1 DEF PlacesAreDisjoint
    <3>3. m \notin Range(Accepted(u)')
      BY <1>1, <1>3 DEF PlacesAreDisjoint
    <3> QED
      BY <1>3, <3>1, <3>2, <3>3 DEF Held
  <2> QED
    BY <1>1, <2>1 DEF HeldIsUnrecorded, Arrived
<1>10. UnregisteredTurnsAreEmpty' /\ ActiveTurnIsNotAborted' /\ GraceIsForATask'
  BY <1>2, RunningTaskFacts, TurnsPlace DEF Running, Suspended
<1> QED
  BY <1>5, <1>6, <1>7, <1>8, <1>9, <1>10

\* The effect of leaving the active turn with its pending input.
LEMMA FinishRemoveEffect ==
    ASSUME TypeOK, HeldWhileInspecting, NEW t \in Turns, FinishRemove(t), activeTurn = t
    PROVE  /\ taskPC[t] = "finish" /\ taskPC'[t] = "finish_record"
           /\ \A u \in Turns : u # t => taskPC'[u] = taskPC[u]
           /\ activeTurn' = NoTurn /\ handleAborted' = handleAborted \cup {t}
           /\ UNCHANGED history
           /\ \A u \in Turns : Batch(u)' = Batch(u)
           /\ \A u \in Turns :
                 u # t => Accepted(u)' = Accepted(u) /\ pendingInput'[u] = pendingInput[u]
           /\ Batch(t) = <<>> /\ Accepted(t) = <<>>
           /\ Accepted(t)' = pendingInput[t] /\ pendingInput'[t] = <<>>
<1>1. /\ taskPC[t] = "finish" /\ taskPC'[t] = "finish_record"
      /\ \A u \in Turns : u # t => taskPC'[u] = taskPC[u]
      /\ activeTurn' = NoTurn /\ handleAborted' = handleAborted \cup {t}
      /\ UNCHANGED history
  BY DEF FinishRemove, Step, TypeOK
<1>2. Batch(t) = <<>> /\ Accepted(t) = <<>>
  BY <1>1 DEF HeldWhileInspecting
<1>3. /\ \A u \in Turns : Batch(u)' = Batch(u)
      /\ \A u \in Turns :
            u # t => Accepted(u)' = Accepted(u) /\ pendingInput'[u] = pendingInput[u]
      /\ Accepted(t)' = pendingInput[t] /\ pendingInput'[t] = <<>>
  <2>1. /\ heldInput' = [heldInput EXCEPT ![t].accepted = pendingInput[t]]
        /\ pendingInput' = [pendingInput EXCEPT ![t] = <<>>]
    BY DEF FinishRemove
  <2> QED
    BY <2>1 DEF TypeOK, Accepted, Batch
<1> QED
  BY <1>1, <1>2, <1>3

\* The pending input becomes what is recorded as leftover.
LEMMA FinishRemovePlace ==
    ASSUME TypeOK, IInv, PlaceInv, NEW t \in Turns, FinishRemove(t), activeTurn = t,
           UNCHANGED <<arrivals, taskInput, loopPC, victim>>
    PROVE  PlaceInv'
<1> USE DEF PlaceInv
<1>1. /\ taskPC[t] = "finish" /\ taskPC'[t] = "finish_record"
      /\ \A u \in Turns : u # t => taskPC'[u] = taskPC[u]
      /\ activeTurn' = NoTurn /\ handleAborted' = handleAborted \cup {t}
      /\ UNCHANGED history
      /\ \A u \in Turns : Batch(u)' = Batch(u)
      /\ \A u \in Turns :
            u # t => Accepted(u)' = Accepted(u) /\ pendingInput'[u] = pendingInput[u]
      /\ Batch(t) = <<>> /\ Accepted(t) = <<>>
      /\ Accepted(t)' = pendingInput[t] /\ pendingInput'[t] = <<>>
  BY FinishRemoveEffect
<1>2. /\ \A u \in Turns : \A x : x \in Range(Accepted(u)') =>
            \/ u # t /\ x \in Range(Accepted(u))
            \/ u = t /\ x \in Range(pendingInput[t])
      /\ \A u \in Turns : \A x : x \in Range(pendingInput'[u]) => u # t /\ x \in Range(pendingInput[u])
  BY <1>1, EmptyOrder
<1>3. HistoryIsFromInput' /\ HistoryHasNoDuplicates' /\ HeldWhileInspecting'
  BY <1>1 DEF HistoryIsFromInput, HistoryHasNoDuplicates, Arrived, HeldWhileInspecting
<1>4. PlacesAreDisjoint'
  <2>1. NoDuplicates(<<>>)
    BY EmptyOrder DEF NoDuplicates
  <2>2. \A u \in Turns : /\ NoDuplicates(Accepted(u)') /\ NoDuplicates(Batch(u)')
                         /\ NoDuplicates(pendingInput'[u])
    BY <1>1, <2>1 DEF PlacesAreDisjoint
  <2>3. \A u, v \in Turns : \A x \in Range(Accepted(u)') :
            /\ x \in Range(Accepted(v)') => u = v
            /\ x \notin Range(Batch(v)')
            /\ x \notin Range(pendingInput'[v])
    BY <1>1, <1>2 DEF PlacesAreDisjoint
  <2>4. \A u, v \in Turns : \A x \in Range(Batch(u)') :
            /\ x \in Range(Batch(v)') => u = v
            /\ x \notin Range(pendingInput'[v])
    BY <1>1, <1>2 DEF PlacesAreDisjoint
  <2>5. \A u, v \in Turns : \A x \in Range(pendingInput'[u]) :
            x \in Range(pendingInput'[v]) => u = v
    BY <1>2 DEF PlacesAreDisjoint
  <2> QED
    BY <2>2, <2>3, <2>4, <2>5 DEF PlacesAreDisjoint, NoDuplicates, Accepted, Batch
<1>5. HeldIsUnrecorded'
  BY <1>1, <1>2 DEF HeldIsUnrecorded, Held, Arrived
<1>6. UnregisteredTurnsAreEmpty' /\ ActiveTurnIsNotAborted' /\ GraceIsForATask'
  BY <1>1, RunningTaskFacts, TurnsPlace, ConstantsAssumption DEF Running, Suspended
<1> QED
  BY <1>3, <1>4, <1>5, <1>6

\* No step puts an input in two places.
LEMMA PlaceStep ==
    ASSUME TypeOK, IInv, SourceInv, PlaceInv, [Next]_vars PROVE PlaceInv'
<1>1. ASSUME NEW t \in Turns, TaskStep(t) \/ DropTask(t) PROVE PlaceInv'
  <2>1. UNCHANGED <<arrivals, taskInput, loopPC, victim>>
    BY <1>1, TaskKeepsSources
  <2>2. \/ TaskMoves(t) \/ RecordOwnInput(t) \/ GetPendingInput(t) \/ InspectAccept(t)
        \/ HookBlocks(t) \/ InspectBlock(t) \/ RecordsFirst(t)
        \/ FinishRemove(t) /\ activeTurn = t
    BY <1>1, TaskInputSteps DEF PlaceInv
  <2> QED
    BY <2>1, <2>2, MovesPlace, OwnInputPlace, GetPendingInputPlace, InspectAcceptPlace,
       HookBlocksPlace, InspectBlockPlace, RecordsFirstPlace, FinishRemovePlace
<1>2. CASE UNCHANGED vars
  BY <1>2, PlaceFrame DEF vars, turnVars, taskVars, loopVars, abortVars, PlaceInv, GraceIsForATask
<1> QED
  BY <1>1, <1>2, ClientPlace, LoopPlace DEF Next, Quiescent

InputInv == SourceInv /\ PlaceInv

\* The three invariants hold together; none is inductive alone.
LEMMA InputInvariant == Spec => [](TypeOK /\ IInv /\ InputInv)
<1>1. Init => InputInv
  <2> SUFFICES ASSUME Init PROVE InputInv
    OBVIOUS
  <2> USE EmptyOrder DEF Init, NothingHeld, QueuedInputTask
  <2>1. SourceInv
    BY DEF SourceInv, InputIsSent, AcceptedOnce, OwnInputIsOwn, NoDuplicates
  <2>2. HistoryIsFromInput /\ HistoryHasNoDuplicates
    BY DEF HistoryIsFromInput, HistoryHasNoDuplicates
  <2>3. HeldWhileInspecting /\ PlacesAreDisjoint /\ HeldIsUnrecorded
    BY DEF HeldWhileInspecting, PlacesAreDisjoint, HeldIsUnrecorded, Held, Batch, Accepted,
           NoDuplicates
  <2>4. UnregisteredTurnsAreEmpty /\ GraceIsForATask /\ ActiveTurnIsNotAborted
    BY DEF UnregisteredTurnsAreEmpty, GraceIsForATask, ActiveTurnIsNotAborted
  <2> QED
    BY <2>1, <2>2, <2>3, <2>4 DEF InputInv, PlaceInv
<1>2. TypeOK /\ IInv /\ InputInv /\ [Next]_vars => InputInv'
  BY SourceStep, PlaceStep DEF InputInv
<1> QED
  BY <1>1, <1>2, TypeCorrect, Inductive, PTL DEF Spec

\* No input is recorded twice.
THEOREM InputsAreRecordedOnce == Spec => []RecordedOnce
<1>1. TypeOK /\ InputInv => RecordedOnce
  <2> SUFFICES ASSUME TypeOK, InputInv,
                      NEW i \in DOMAIN history, NEW j \in DOMAIN history,
                      history[i].item = history[j].item, history[i].item \in Inputs
               PROVE  i = j
    BY DEF RecordedOnce
  <2>1. history \in Seq([item : Inputs \cup {Marker}, turn : Turns])
    BY DEF TypeOK
  <2>2. /\ history[i] \in [item : Inputs \cup {Marker}, turn : Turns]
        /\ history[j] \in [item : Inputs \cup {Marker}, turn : Turns]
        /\ i \in Nat /\ j \in Nat
    <3>1. i \in 1..Len(history) /\ j \in 1..Len(history) /\ Len(history) \in Nat
      BY <2>1, LenProperties
    <3>2. history[i] \in [item : Inputs \cup {Marker}, turn : Turns]
      BY <2>1, <3>1, ElementOfSeq, Zenon
    <3>3. history[j] \in [item : Inputs \cup {Marker}, turn : Turns]
      BY <2>1, <3>1, ElementOfSeq, Zenon
    <3> QED
      BY <3>1, <3>2, <3>3
  <2>3. /\ history[i] = Entry(history[i].item, history[i].turn)
        /\ history[j] = Entry(history[i].item, history[j].turn)
        /\ history[i].turn \in Turns /\ history[j].turn \in Turns
    BY <2>2 DEF Entry
  <2>4. ~(i < j) /\ ~(j < i)
    BY <2>3 DEF InputInv, PlaceInv, HistoryHasNoDuplicates, Before
  <2> QED
    BY <2>2, <2>4
<1> QED
  BY <1>1, InputInvariant, PTL

-----------------------------------------------------------------------------
(* The order of what a turn accepts *)

\* A step that takes input away and puts none anywhere keeps strays together.
LEMMA StraysShrink ==
    ASSUME StraysAreTogether, UNCHANGED arrivals,
           activeTurn' \in {activeTurn, NoTurn},
           activeTurn \in Turns \cup {NoTurn},
           \A u \in Turns : /\ Range(pendingInput'[u]) \subseteq Range(pendingInput[u])
                            /\ Range(Batch(u)') \subseteq Range(Batch(u))
                            /\ MayReturn(u)' => MayReturn(u)
    PROVE  StraysAreTogether'
<1>1. \A m : InPending(m)' => InPending(m) /\ activeTurn' = activeTurn
  BY DEF InPending
<1> QED
  BY <1>1 DEF StraysAreTogether

\* And it keeps the order.
LEMMA OrderShrink ==
    ASSUME InOrder, UNCHANGED arrivals,
           activeTurn' \in {activeTurn, NoTurn},
           activeTurn \in Turns \cup {NoTurn},
           \A u \in Turns :
              /\ Range(pendingInput'[u]) \subseteq Range(pendingInput[u])
              /\ Range(Batch(u)') \subseteq Range(Batch(u))
              /\ Range(Accepted(u)') \subseteq Range(Accepted(u))
              /\ \A m, n : /\ Before(pendingInput'[u], m, n) => Before(pendingInput[u], m, n)
                           /\ Before(Batch(u)', m, n) => Before(Batch(u), m, n)
                           /\ Before(Accepted(u)', m, n) => Before(Accepted(u), m, n)
              /\ MayReturn(u)' => MayReturn(u),
           \A t \in Turns : \A m, n \in Range(arrivals[t]) :
              /\ Entry(m, t) \in Range(history') => Entry(m, t) \in Range(history)
              /\ Before(history', Entry(m, t), Entry(n, t)) =>
                    Before(history, Entry(m, t), Entry(n, t))
    PROVE  InOrder'
<1>1. \A m : InPending(m)' => InPending(m)
  BY DEF InPending
<1> SUFFICES ASSUME NEW t \in Turns, NEW m \in Range(arrivals[t]), NEW n \in Range(arrivals[t]),
                    Before(arrivals[t], m, n)
             PROVE  NotAhead(t, n, m)'
  BY DEF InOrder
<1>2. NotAhead(t, n, m)
  BY DEF InOrder
<1>3. activeTurn' # NoTurn => ~Before(pendingInput'[activeTurn'], n, m)
  BY <1>2 DEF NotAhead
<1> QED
  BY <1>1, <1>2, <1>3 DEF NotAhead

\* What the active turn accepts goes behind all it has not recorded.
LEMMA AcceptOrder ==
    ASSUME TypeOK, SourceInv, PlaceInv, OrderInv, NEW m \in Inputs \ sent, NEW t \in Turns,
           activeTurn = t, Push(t, <<m>>),
           UNCHANGED <<activeTurn, history, taskPC, heldInput, handleAborted>>
    PROVE  OrderInv'
<1>1. /\ \A u \in Turns : /\ u # t => pendingInput'[u] = pendingInput[u]
                          /\ u # t => arrivals'[u] = arrivals[u]
      /\ Range(pendingInput'[t]) = Range(pendingInput[t]) \cup {m}
      /\ Range(arrivals'[t]) = Range(arrivals[t]) \cup {m}
      /\ \A x, y : Before(pendingInput'[t], x, y) <=>
            Before(pendingInput[t], x, y) \/ (x \in Range(pendingInput[t]) /\ y = m)
      /\ \A x, y : Before(arrivals'[t], x, y) <=>
            Before(arrivals[t], x, y) \/ (x \in Range(arrivals[t]) /\ y = m)
  BY PushOne
<1>2. \A u \in Turns : /\ m \notin Range(arrivals[u])
                       /\ m \notin Range(Accepted(u))
                       /\ m \notin Range(Batch(u))
                       /\ m \notin Range(pendingInput[u])
                       /\ Entry(m, u) \notin Range(history)
  BY NewInputIsNowhere DEF SourceInv, InputIsSent
<1>3. /\ \A u \in Turns : /\ Accepted(u)' = Accepted(u) /\ Batch(u)' = Batch(u)
                          /\ MayReturn(u)' <=> MayReturn(u)
      /\ \A x : InPending(x)' <=> InPending(x) \/ x = m
      /\ MayReturn(t)
      /\ activeTurn # NoTurn
  BY <1>1, ConstantsAssumption
  DEF Accepted, Batch, MayReturn, InPending, PlaceInv, ActiveTurnIsNotAborted
<1>4. \A u \in Turns : \A x : x \in Range(arrivals'[u]) <=>
          x \in Range(arrivals[u]) \/ (u = t /\ x = m)
  BY <1>1
<1>5. StraysAreTogether'
  BY <1>2, <1>3, <1>4 DEF OrderInv, StraysAreTogether
<1>6. InOrder'
  <2> SUFFICES ASSUME NEW u \in Turns, NEW x, NEW y, Before(arrivals'[u], x, y)
               PROVE  NotAhead(u, y, x)'
    BY DEF InOrder
  <2>1. CASE Before(arrivals[u], x, y)
    <3>1. x \in Range(arrivals[u]) /\ y \in Range(arrivals[u]) /\ x # m /\ y # m
      BY <1>2, <2>1, OrderInRange
    <3>2. NotAhead(u, y, x)
      BY <2>1, <3>1 DEF OrderInv, InOrder
    <3> QED
      BY <1>1, <1>3, <3>1, <3>2 DEF NotAhead
  <2>2. CASE u = t /\ x \in Range(arrivals[t]) /\ y = m
    <3>1. /\ \A z : ~Before(history, Entry(m, t), Entry(z, t))
          /\ \A v \in Turns : ~Before(Accepted(v), m, x) /\ ~Before(Batch(v), m, x)
          /\ ~Before(pendingInput'[t], m, x)
          /\ x # m
      BY <1>1, <1>2, <2>2, OrderInRange
    <3> QED
      BY <1>2, <1>3, <2>2, <3>1 DEF NotAhead
  <2> QED
    BY <1>1, <2>1, <2>2
<1> QED
  BY <1>5, <1>6 DEF OrderInv

\* The first input of a turn is as it was queued.
LEMMA RegisterOrder ==
    ASSUME TypeOK, IInv, SourceInv, PlaceInv, OrderInv, RegisterNewActiveTask PROVE OrderInv'
<1> USE DEF taskVars
<1> DEFINE t == victim
<1>1. /\ t \in Turns /\ activeTurn = NoTurn /\ t # NoTurn
      /\ idlePendingInput \in Seq(Inputs)
      /\ Push(t, idlePendingInput)
      /\ activeTurn' = t /\ handleAborted' = handleAborted
      /\ loopPC = "register"
      /\ UNCHANGED <<history, taskPC, heldInput>>
  BY ConstantsAssumption
  DEF RegisterNewActiveTask, IInv, VictimIsHeld, SlotEmptyWhileLoopWorks, TypeOK
<1>2. pendingInput[t] = <<>> /\ arrivals[t] = <<>> /\ t \notin handleAborted
  BY <1>1 DEF PlaceInv, UnregisteredTurnsAreEmpty
<1>3. /\ \A u \in Turns : u # t => pendingInput'[u] = pendingInput[u] /\ arrivals'[u] = arrivals[u]
      /\ Range(pendingInput'[t]) = Range(idlePendingInput)
      /\ Range(arrivals'[t]) = Range(idlePendingInput)
      /\ \A x, y : Before(pendingInput'[t], x, y) <=> Before(idlePendingInput, x, y)
      /\ \A x, y : Before(arrivals'[t], x, y) <=> Before(idlePendingInput, x, y)
  <2>1. /\ \A u \in Turns :
              u # t => pendingInput'[u] = pendingInput[u] /\ arrivals'[u] = arrivals[u]
        /\ Range(pendingInput'[t]) = Range(pendingInput[t]) \cup Range(idlePendingInput)
        /\ Range(arrivals'[t]) = Range(arrivals[t]) \cup Range(idlePendingInput)
        /\ \A x, y : Before(pendingInput'[t], x, y) <=>
              \/ Before(pendingInput[t], x, y)
              \/ Before(idlePendingInput, x, y)
              \/ x \in Range(pendingInput[t]) /\ y \in Range(idlePendingInput)
        /\ \A x, y : Before(arrivals'[t], x, y) <=>
              \/ Before(arrivals[t], x, y)
              \/ Before(idlePendingInput, x, y)
              \/ x \in Range(arrivals[t]) /\ y \in Range(idlePendingInput)
    BY <1>1, PushOrder
  <2>2. /\ Range(pendingInput[t]) = {} /\ Range(arrivals[t]) = {}
        /\ \A x, y : ~Before(pendingInput[t], x, y) /\ ~Before(arrivals[t], x, y)
    BY <1>2, EmptyOrder
  <2> QED
    BY <2>1, <2>2
<1>4. \A m \in Range(idlePendingInput) : \A u \in Turns :
          /\ m \notin Range(arrivals[u])
          /\ m \notin Range(Accepted(u))
          /\ m \notin Range(Batch(u))
          /\ Entry(m, u) \notin Range(history)
  <2>1. ASSUME NEW m \in Range(idlePendingInput)
        PROVE  m \in Inputs /\ \A u \in Turns : m \notin Range(arrivals[u])
                                             /\ m \notin Range(taskInput[u])
    BY ConstantsAssumption DEF SourceInv, InputIsSent, AcceptedOnce, TypeOK, Inputs
  <2> QED
    BY <2>1, NewInputIsNowhere
<1>5. /\ \A u \in Turns : /\ Accepted(u)' = Accepted(u) /\ Batch(u)' = Batch(u)
                          /\ MayReturn(u)' <=> MayReturn(u)
      /\ \A x : ~InPending(x)
      /\ \A x : InPending(x)' <=> x \in Range(idlePendingInput)
  BY <1>1, <1>3 DEF Accepted, Batch, MayReturn, InPending
<1>6. \A u \in Turns : \A x : x \in Range(arrivals'[u]) <=>
          (u # t /\ x \in Range(arrivals[u])) \/ (u = t /\ x \in Range(idlePendingInput))
  BY <1>1, <1>3
<1>7. StraysAreTogether'
  BY <1>1, <1>4, <1>5, <1>6 DEF OrderInv, StraysAreTogether
<1>8. InOrder'
  <2> SUFFICES ASSUME NEW u \in Turns, NEW x, NEW y, Before(arrivals'[u], x, y)
               PROVE  NotAhead(u, y, x)'
    BY DEF InOrder
  <2>1. CASE u # t
    <3>1. Before(arrivals[u], x, y)
      BY <1>3, <2>1
    <3>2. /\ x \in Range(arrivals[u]) /\ y \in Range(arrivals[u])
          /\ x \notin Range(idlePendingInput) /\ y \notin Range(idlePendingInput)
      BY <1>4, <3>1, OrderInRange
    <3>3. NotAhead(u, y, x)
      BY <3>1, <3>2 DEF OrderInv, InOrder
    <3>4. ~Before(pendingInput'[t], y, x)
      BY <1>3, <3>2, OrderInRange
    <3> QED
      BY <1>1, <1>5, <3>2, <3>3, <3>4 DEF NotAhead
  <2>2. CASE u = t
    <3>1. Before(idlePendingInput, x, y)
      BY <1>3, <2>2
    <3>2. x \in Range(idlePendingInput) /\ y \in Range(idlePendingInput)
      BY <3>1, OrderInRange
    <3>3. ~Before(idlePendingInput, y, x)
      BY <1>1, <3>1, OrderIsAntisymmetric DEF SourceInv, AcceptedOnce
    <3>4. /\ ~Before(history, Entry(y, t), Entry(x, t))
          /\ \A v \in Turns : ~Before(Accepted(v), y, x) /\ ~Before(Batch(v), y, x)
      BY <1>1, <1>4, <3>2, OrderInRange
    <3>5. ~Before(pendingInput'[t], y, x)
      BY <1>3, <3>3
    <3> QED
      BY <1>1, <1>4, <1>5, <2>2, <3>2, <3>4, <3>5 DEF NotAhead
  <2> QED
    BY <2>1, <2>2
<1> QED
  BY <1>7, <1>8 DEF OrderInv

\* A step that passes no input on keeps the order.
LEMMA OrderFrame ==
    ASSUME TypeOK, OrderInv, UNCHANGED <<arrivals, pendingInput, heldInput, history>>,
           activeTurn' \in {activeTurn, NoTurn},
           \A u \in Turns : MayReturn(u)' => MayReturn(u)
    PROVE  OrderInv'
<1>1. \A u \in Turns : Accepted(u)' = Accepted(u) /\ Batch(u)' = Batch(u)
  BY DEF Accepted, Batch
<1>2. activeTurn \in Turns \cup {NoTurn}
  BY DEF TypeOK
<1>3. StraysAreTogether'
  BY <1>1, <1>2, StraysShrink DEF OrderInv
<1>4. InOrder'
  BY <1>1, <1>2, OrderShrink DEF OrderInv
<1> QED
  BY <1>3, <1>4 DEF OrderInv

\* So does one that adds to the history what no turn has accepted.
LEMMA OwnRecordOrder ==
    ASSUME TypeOK, OrderInv, NEW t \in Turns, NEW items \in Seq(Inputs \cup {Marker}),
           history' = history \o Recorded(items, t),
           \A m \in Range(items) : m \notin Range(arrivals[t]),
           UNCHANGED <<arrivals, pendingInput, heldInput, activeTurn>>,
           \A u \in Turns : MayReturn(u)' => MayReturn(u)
    PROVE  OrderInv'
<1>1. \A u \in Turns : Accepted(u)' = Accepted(u) /\ Batch(u)' = Batch(u)
  BY DEF Accepted, Batch
<1>2. activeTurn \in Turns \cup {NoTurn} /\ history \in History
  BY DEF TypeOK, History
<1>3. /\ \A m, u : Entry(m, u) \in Range(history') <=>
            Entry(m, u) \in Range(history) \/ (u = t /\ m \in Range(items))
      /\ \A m, n, u, v : Before(history', Entry(m, u), Entry(n, v)) <=>
            \/ Before(history, Entry(m, u), Entry(n, v))
            \/ Entry(m, u) \in Range(history) /\ v = t /\ n \in Range(items)
            \/ u = t /\ v = t /\ Before(items, m, n)
  BY <1>2, RecordedOrder
<1>4. \A u \in Turns : \A m, n \in Range(arrivals[u]) :
          /\ Entry(m, u) \in Range(history') => Entry(m, u) \in Range(history)
          /\ Before(history', Entry(m, u), Entry(n, u)) =>
                Before(history, Entry(m, u), Entry(n, u))
  BY <1>3, OrderInRange
<1>5. StraysAreTogether'
  BY <1>1, <1>2, StraysShrink DEF OrderInv
<1>6. InOrder'
  BY <1>1, <1>2, <1>4, OrderShrink DEF OrderInv
<1> QED
  BY <1>5, <1>6 DEF OrderInv

\* And one that clears the pending input of a turn.
LEMMA ClearOrder ==
    ASSUME TypeOK, OrderInv, NEW t \in Turns, pendingInput' = [pendingInput EXCEPT ![t] = <<>>],
           UNCHANGED <<activeTurn, history, taskPC, heldInput, arrivals, handleAborted>>
    PROVE  OrderInv'
<1>1. /\ \A u \in Turns : Accepted(u)' = Accepted(u) /\ Batch(u)' = Batch(u)
      /\ \A u \in Turns : MayReturn(u)' => MayReturn(u)
  BY DEF Accepted, Batch, MayReturn
<1>2. activeTurn \in Turns \cup {NoTurn}
  BY DEF TypeOK
<1>3. \A u \in Turns : pendingInput'[u] = <<>> \/ pendingInput'[u] = pendingInput[u]
  BY DEF TypeOK
<1>4. \A u \in Turns : /\ Range(pendingInput'[u]) \subseteq Range(pendingInput[u])
                       /\ \A m, n : Before(pendingInput'[u], m, n) => Before(pendingInput[u], m, n)
  BY <1>3, EmptyOrder
<1>5. StraysAreTogether'
  BY <1>1, <1>2, <1>4, StraysShrink DEF OrderInv
<1>6. InOrder'
  BY <1>1, <1>2, <1>4, OrderShrink DEF OrderInv
<1> QED
  BY <1>5, <1>6 DEF OrderInv

\* The clients' steps keep the order.
LEMMA ClientOrder ==
    ASSUME TypeOK, SourceInv, PlaceInv, OrderInv, ClientStep PROVE OrderInv'
<1> USE DEF taskVars, loopVars, clientVars, turnVars, abortVars
<1>1. ASSUME NEW m \in Inputs \ sent, activeTurn # NoTurn, Push(activeTurn, <<m>>),
             UNCHANGED <<activeTurn, history, taskVars, abortVars>>
      PROVE  OrderInv'
  <2>1. activeTurn \in Turns
    BY <1>1 DEF TypeOK
  <2> QED
    BY <1>1, <2>1, AcceptOrder
<1>2. ASSUME UNCHANGED <<activeTurn, pendingInput, history, taskPC, heldInput, arrivals, abortVars>>
      PROVE  OrderInv'
  <2>1. \A u \in Turns : MayReturn(u)' => MayReturn(u)
    BY <1>2 DEF MayReturn
  <2> QED
    BY <1>2, <2>1, OrderFrame
<1>3. ASSUME NEW m \in UserInputs, UserInput(m) PROVE OrderInv'
  <2>1. m \in Inputs \ sent
    BY <1>3 DEF UserInput, Inputs
  <2> QED
    BY <1>1, <1>2, <1>3, <2>1 DEF UserInput, Spawn
<1>4. ASSUME NEW m \in UserInputs, NEW t \in Turns, SteerInput(m, t) PROVE OrderInv'
  BY <1>1, <1>4, ConstantsAssumption DEF SteerInput, Inputs
<1>5. ASSUME NEW m \in AgentInputs, InterAgentCommunication(m) PROVE OrderInv'
  <2>1. m \in Inputs \ sent
    BY <1>5 DEF InterAgentCommunication, Inputs
  <2> QED
    BY <1>1, <1>2, <1>5, <2>1 DEF InterAgentCommunication, Spawn
<1>6. ASSUME NEW kind, SpawnOther(kind) PROVE OrderInv'
  BY <1>2, <1>6 DEF SpawnOther, Spawn
<1>7. CASE Interrupt \/ Shutdown
  BY <1>2, <1>7 DEF Interrupt, Shutdown
<1>8. ASSUME NEW t, NotifyApproval(t) PROVE OrderInv'
  BY <1>2, <1>8 DEF NotifyApproval
<1> QED
  BY <1>3, <1>4, <1>5, <1>6, <1>7, <1>8 DEF ClientStep

\* So do the loop's.
LEMMA LoopOrder ==
    ASSUME TypeOK, IInv, SourceInv, PlaceInv, OrderInv, LoopStep PROVE OrderInv'
<1> USE DEF taskVars, clientVars, turnVars, abortVars
<1>1. CASE TakeActiveTurn \/ CancelTask \/ GraceOver \/ EmitTurnAborted
  <2>1. /\ UNCHANGED <<arrivals, pendingInput, heldInput, history>>
        /\ activeTurn' \in {activeTurn, NoTurn}
        /\ UNCHANGED taskPC
        /\ handleAborted \subseteq handleAborted'
    BY <1>1 DEF TakeActiveTurn, CancelTask, GraceOver, EmitTurnAborted
  <2>2. \A u \in Turns : MayReturn(u)' => MayReturn(u)
    BY <2>1 DEF MayReturn
  <2> QED
    BY <2>1, <2>2, OrderFrame
<1>2. CASE RecordMarker
  <2> DEFINE items == <<Marker>>
  <2>1. /\ items \in Seq(Inputs \cup {Marker}) /\ Range(items) = {Marker} /\ Marker \notin Inputs
    BY SingletonOrder, ConstantsAssumption DEF Inputs
  <2>2. /\ victim \in Turns
        /\ history' = history \o Recorded(items, victim)
        /\ UNCHANGED <<arrivals, pendingInput, heldInput, activeTurn, taskPC, handleAborted>>
    BY <1>2 DEF RecordMarker, IInv, VictimIsHeld
  <2> HIDE DEF items
  <2>3. \A m \in Range(items) : m \notin Range(arrivals[victim])
    <3>1. arrivals[victim] \in Seq(Inputs)
      BY <2>2 DEF TypeOK
    <3> QED
      BY <2>1, <3>1, RangeOfSeq
  <2>4. \A u \in Turns : MayReturn(u)' => MayReturn(u)
    BY <2>2 DEF MayReturn
  <2> QED
    BY <2>1, <2>2, <2>3, <2>4, OwnRecordOrder
<1>3. CASE ClearPending
  BY <1>3, ClearOrder DEF ClearPending, IInv, VictimIsHeld
<1>4. CASE SpawnTokioTask
  <2>1. PICK t \in FreshTurns : taskPC' = [taskPC EXCEPT ![t] = "spawned"]
    BY <1>4 DEF SpawnTokioTask
  <2>2. \A u \in Turns : MayReturn(u)' => MayReturn(u)
    BY <1>4, <2>1 DEF SpawnTokioTask, MayReturn, TypeOK
  <2> QED
    BY <1>4, <2>2, OrderFrame DEF SpawnTokioTask
<1> QED
  BY <1>1, <1>2, <1>3, <1>4, RegisterOrder DEF LoopStep, AbortAllTasks

-----------------------------------------------------------------------------
(* The tasks' steps keep the order *)

\* A step of a task that does not wait for a blocked item's hook next makes
\* nobody return input who would not before.
LEMMA TaskReturns ==
    ASSUME NEW t \in Turns, taskPC'[t] # "blocked", handleAborted \subseteq handleAborted',
           \A u \in Turns : u # t => taskPC'[u] = taskPC[u]
    PROVE  \A u \in Turns : MayReturn(u)' => MayReturn(u)
  BY DEF MayReturn

\* A step that moves no input changes no order.
LEMMA MovesOrder ==
    ASSUME TypeOK, OrderInv, NEW t \in Turns, TaskMoves(t), UNCHANGED arrivals PROVE OrderInv'
<1>1. \A u \in Turns : MayReturn(u)' => MayReturn(u)
  BY TaskReturns DEF TaskMoves
<1> QED
  BY <1>1, OrderFrame DEF TaskMoves

\* The own input of a turn was accepted by none, so it is in no order.
LEMMA OwnInputOrder ==
    ASSUME TypeOK, SourceInv, OrderInv, NEW t \in Turns, RecordOwnInput(t) PROVE OrderInv'
<1>1. /\ taskPC'[t] # "blocked"
      /\ \A u \in Turns : u # t => taskPC'[u] = taskPC[u]
      /\ history' = history \o Recorded(taskInput[t], t)
      /\ UNCHANGED <<arrivals, pendingInput, heldInput, activeTurn, handleAborted>>
      /\ taskInput[t] \in Seq(Inputs \cup {Marker})
  BY InputsAreItems DEF RecordOwnInput, Step, TypeOK, turnVars, abortVars
<1>2. \A m \in Range(taskInput[t]) : m \notin Range(arrivals[t])
  BY DEF SourceInv, OwnInputIsOwn
<1>3. \A u \in Turns : MayReturn(u)' => MayReturn(u)
  BY <1>1, TaskReturns
<1> QED
  BY <1>1, <1>2, <1>3, OwnRecordOrder

\* The batch keeps the order of what was pending.  A task that was aborted
\* takes what it will not return; one that was not takes from its own turn.
LEMMA GetPendingInputOrder ==
    ASSUME TypeOK, IInv, PlaceInv, OrderInv, NEW t \in Turns, GetPendingInput(t),
           UNCHANGED arrivals
    PROVE  OrderInv'
<1>1. /\ taskPC[t] = "head" /\ taskPC'[t] = "inspect"
      /\ \A u \in Turns : u # t => taskPC'[u] = taskPC[u]
      /\ UNCHANGED <<activeTurn, handleAborted, history>>
      /\ Batch(t) = <<>>
      /\ \A u \in Turns : Accepted(u)' = Accepted(u)
      /\ \A u \in Turns : u # t => Batch(u)' = Batch(u)
      /\ \A u \in Turns : u # activeTurn => pendingInput'[u] = pendingInput[u]
      /\ activeTurn = NoTurn => Batch(t)' = <<>>
      /\ activeTurn # NoTurn => /\ activeTurn \in Turns
                                /\ Batch(t)' = pendingInput[activeTurn]
                                /\ pendingInput'[activeTurn] = <<>>
  BY GetPendingInputEffect DEF PlaceInv
<1>2. /\ \A u \in Turns : MayReturn(u)' => MayReturn(u)
      /\ MayReturn(t)' /\ activeTurn # NoTurn => t = activeTurn
  <2>1. t \notin handleAborted /\ activeTurn # NoTurn => t = activeTurn
    BY <1>1, RunningTaskFacts DEF Running, Suspended
  <2>2. MayReturn(t)' => t \notin handleAborted
    BY <1>1 DEF MayReturn
  <2> QED
    BY <1>1, <2>1, <2>2, TaskReturns
<1>3. /\ \A m : ~InPending(m)'
      /\ activeTurn' # NoTurn => \A m, n : ~Before(pendingInput'[activeTurn'], m, n)
  BY <1>1, EmptyOrder DEF InPending
<1>4. /\ \A m : m \in Range(Batch(t)') => InPending(m)
      /\ \A m, n : Before(Batch(t)', m, n) =>
            activeTurn # NoTurn /\ Before(pendingInput[activeTurn], m, n)
  BY <1>1, EmptyOrder DEF InPending
<1>5. StraysAreTogether'
  <2> SUFFICES ASSUME NEW u \in Turns, NEW s \in Turns, NEW m \in Range(arrivals[u])
               PROVE  /\ MayReturn(u)' /\ MayReturn(s)' /\ s # u => m \notin Range(Batch(s)')
                      /\ MayReturn(s)' /\ s # u /\ m \in Range(Batch(s)') =>
                            \A n \in Range(arrivals[u]) :
                               /\ n \notin Range(Batch(u)')
                               /\ \A r \in Turns :
                                     MayReturn(r)' /\ n \in Range(Batch(r)') => r = s
    BY <1>3 DEF StraysAreTogether
  <2> USE DEF OrderInv
  <2>1. ASSUME MayReturn(u)', MayReturn(s)', s # u PROVE m \notin Range(Batch(s)')
    <3>1. CASE s = t
      <4>1. InPending(m) => activeTurn # u
        BY <1>2, <2>1, <3>1 DEF InPending
      <4> QED
        BY <1>2, <1>4, <2>1, <3>1, <4>1 DEF StraysAreTogether
    <3>2. CASE s # t
      BY <1>1, <1>2, <2>1, <3>2 DEF StraysAreTogether
    <3> QED
      BY <3>1, <3>2
  <2>2. ASSUME MayReturn(s)', s # u, m \in Range(Batch(s)'), NEW n \in Range(arrivals[u])
        PROVE  /\ n \notin Range(Batch(u)')
               /\ \A r \in Turns : MayReturn(r)' /\ n \in Range(Batch(r)') => r = s
    <3>1. CASE s = t
      <4>1. InPending(m) /\ activeTurn # u
        BY <1>2, <1>4, <2>2, <3>1 DEF InPending
      <4>2. n \notin Range(Batch(u)) /\ Batch(u)' = Batch(u)
        BY <1>1, <2>2, <3>1, <4>1 DEF StraysAreTogether
      <4>3. ASSUME NEW r \in Turns, MayReturn(r), n \in Range(Batch(r)), r # t PROVE FALSE
        <5>1. r # u
          BY <4>2, <4>3
        <5> QED
          BY <4>1, <4>3, <5>1 DEF StraysAreTogether
      <4> QED
        BY <1>1, <1>2, <3>1, <4>2, <4>3
    <3>2. CASE s # t
      <4>1. /\ ~InPending(n) /\ n \notin Range(Batch(u))
            /\ \A r \in Turns : MayReturn(r) /\ n \in Range(Batch(r)) => r = s
        BY <1>1, <1>2, <2>2, <3>2 DEF StraysAreTogether
      <4> QED
        BY <1>1, <1>2, <1>4, <4>1
    <3> QED
      BY <3>1, <3>2
  <2> QED
    BY <2>1, <2>2
<1>6. InOrder'
  <2> SUFFICES ASSUME NEW u \in Turns, NEW m \in Range(arrivals[u]), NEW n \in Range(arrivals[u]),
                      Before(arrivals[u], m, n)
               PROVE  NotAhead(u, n, m)'
    BY DEF InOrder
  <2>1. NotAhead(u, n, m)
    BY DEF OrderInv, InOrder
  <2>2. \A s \in Turns : s = u \/ MayReturn(s)' => ~Before(Batch(s)', n, m)
    BY <1>1, <1>2, <1>4, <2>1 DEF NotAhead
  <2>3. Entry(n, u) \in Range(history) \/ n \in Range(Accepted(u)) =>
            \A s \in Turns : s = u \/ MayReturn(s)' => m \notin Range(Batch(s)')
    BY <1>1, <1>2, <1>4, <2>1 DEF NotAhead
  <2> QED
    BY <1>1, <1>3, <2>1, <2>2, <2>3 DEF NotAhead
<1> QED
  BY <1>5, <1>6 DEF OrderInv

\* The first of the batch goes behind all the task has accepted.
LEMMA InspectAcceptOrder ==
    ASSUME TypeOK, OrderInv, NEW t \in Turns, InspectAccept(t), UNCHANGED arrivals
    PROVE  OrderInv'
<1>1. PICK x \in Inputs :
          /\ taskPC[t] = "inspect" /\ taskPC' = taskPC
          /\ UNCHANGED <<activeTurn, handleAborted, pendingInput, history>>
          /\ \A u \in Turns : u # t => Batch(u)' = Batch(u) /\ Accepted(u)' = Accepted(u)
          /\ Range(Batch(t)) = {x} \cup Range(Batch(t)')
          /\ \A m, n : Before(Batch(t), m, n) <=>
                Before(Batch(t)', m, n) \/ (m = x /\ n \in Range(Batch(t)'))
          /\ Range(Accepted(t)') = Range(Accepted(t)) \cup {x}
          /\ \A m, n : Before(Accepted(t)', m, n) <=>
                Before(Accepted(t), m, n) \/ (m \in Range(Accepted(t)) /\ n = x)
  BY InspectAcceptEffect
<1>2. /\ \A u \in Turns : MayReturn(u)' <=> MayReturn(u)
      /\ \A m : InPending(m)' <=> InPending(m)
      /\ \A u \in Turns : /\ Range(Batch(u)') \subseteq Range(Batch(u))
                          /\ \A m, n : Before(Batch(u)', m, n) => Before(Batch(u), m, n)
      /\ activeTurn \in Turns \cup {NoTurn}
      /\ x \in Range(Batch(t))
  BY <1>1 DEF MayReturn, InPending, TypeOK
<1>3. StraysAreTogether'
  BY <1>1, <1>2, StraysShrink DEF OrderInv
<1>4. InOrder'
  <2> SUFFICES ASSUME NEW u \in Turns, NEW m \in Range(arrivals[u]), NEW n \in Range(arrivals[u]),
                      Before(arrivals[u], m, n)
               PROVE  NotAhead(u, n, m)'
    BY DEF InOrder
  <2>1. NotAhead(u, n, m)
    BY DEF OrderInv, InOrder
  <2>2. CASE u # t
    BY <1>1, <1>2, <2>1, <2>2 DEF NotAhead
  <2>3. CASE u = t
    <3>1. ASSUME n = x
          PROVE  /\ ~InPending(m)
                 /\ \A s \in Turns : s = t \/ MayReturn(s) => m \notin Range(Batch(s)')
      <4>1. ~InPending(m)
        BY <1>2, <2>1, <2>3, <3>1 DEF NotAhead
      <4>2. m \notin Range(Batch(t)')
        BY <1>1, <2>1, <2>3, <3>1 DEF NotAhead
      <4>3. \A s \in Turns : s # t /\ MayReturn(s) => m \notin Range(Batch(s)')
        BY <1>1, <1>2, <2>3, <3>1 DEF OrderInv, StraysAreTogether
      <4> QED
        BY <4>1, <4>2, <4>3
    <3>2. Entry(n, t) \in Range(history) \/ n \in Range(Accepted(t)) => m # x
      BY <1>2, <2>1, <2>3 DEF NotAhead
    <3>3. ~Before(Accepted(t)', n, m)
      BY <1>1, <2>1, <2>3, <3>2 DEF NotAhead
    <3>4. Entry(n, t) \in Range(history) => m \notin Range(Accepted(t)')
      BY <1>1, <2>1, <2>3, <3>2 DEF NotAhead
    <3>5. Entry(n, t) \in Range(history) \/ n \in Range(Accepted(t)') =>
              /\ ~InPending(m)
              /\ \A s \in Turns : s = t \/ MayReturn(s) => m \notin Range(Batch(s)')
      BY <1>1, <1>2, <2>1, <2>3, <3>1 DEF NotAhead
    <3> QED
      BY <1>1, <1>2, <2>1, <2>3, <3>3, <3>4, <3>5 DEF NotAhead
  <2> QED
    BY <2>2, <2>3
<1> QED
  BY <1>3, <1>4 DEF OrderInv

\* The rest of the batch of a task that is not aborted stays its own.
LEMMA HookBlocksOrder ==
    ASSUME TypeOK, OrderInv, NEW t \in Turns, HookBlocks(t), UNCHANGED arrivals PROVE OrderInv'
<1>1. /\ t \notin handleAborted
      /\ \A u \in Turns : u # t => taskPC'[u] = taskPC[u]
      /\ UNCHANGED <<activeTurn, handleAborted, pendingInput, history>>
      /\ \A u \in Turns : u # t => Batch(u)' = Batch(u)
      /\ \A u \in Turns : Accepted(u)' = Accepted(u)
      /\ \A x : x \in Range(Batch(t)') => x \in Range(Batch(t))
      /\ \A x, y : Before(Batch(t)', x, y) => Before(Batch(t), x, y)
  BY HookBlocksEffect
<1>2. /\ \A u \in Turns : MayReturn(u)' => MayReturn(u)
      /\ activeTurn \in Turns \cup {NoTurn}
      /\ \A u \in Turns : /\ Range(Batch(u)') \subseteq Range(Batch(u))
                          /\ \A m, n : Before(Batch(u)', m, n) => Before(Batch(u), m, n)
  BY <1>1 DEF MayReturn, TypeOK
<1>3. StraysAreTogether'
  BY <1>1, <1>2, StraysShrink DEF OrderInv
<1>4. InOrder'
  BY <1>1, <1>2, OrderShrink DEF OrderInv
<1> QED
  BY <1>3, <1>4 DEF OrderInv

\* What was behind the blocked item goes in front of what came later, and back
\* to the turn that it came from if that turn is active.
LEMMA InspectBlockOrder ==
    ASSUME TypeOK, IInv, PlaceInv, OrderInv, NEW t \in Turns, InspectBlock(t),
           UNCHANGED arrivals
    PROVE  OrderInv'
<1> USE DEF OrderInv
<1>1. /\ taskPC[t] = "blocked" /\ taskPC'[t] # "blocked"
      /\ \A u \in Turns : u # t => taskPC'[u] = taskPC[u]
      /\ UNCHANGED <<activeTurn, handleAborted, history>>
      /\ \A u \in Turns : u # t => Batch(u)' = Batch(u)
      /\ Batch(t)' = <<>>
      /\ \A u \in Turns : Accepted(u)' = Accepted(u)
      /\ \A u \in Turns : u # activeTurn => pendingInput'[u] = pendingInput[u]
      /\ activeTurn # NoTurn =>
            /\ activeTurn \in Turns
            /\ Range(pendingInput'[activeTurn]) =
                  Range(Batch(t)) \cup Range(pendingInput[activeTurn])
            /\ \A x, y : Before(pendingInput'[activeTurn], x, y) <=>
                  \/ Before(Batch(t), x, y)
                  \/ Before(pendingInput[activeTurn], x, y)
                  \/ x \in Range(Batch(t)) /\ y \in Range(pendingInput[activeTurn])
  BY InspectBlockEffect DEF PlaceInv
<1>2. /\ MayReturn(t)
      /\ \A u \in Turns : MayReturn(u)' => MayReturn(u)
      /\ MayReturn(t)' /\ activeTurn # NoTurn => t = activeTurn
  <2>1. t \notin handleAborted /\ activeTurn # NoTurn => t = activeTurn
    BY <1>1, RunningTaskFacts DEF Running, Suspended
  <2> QED
    BY <1>1, <2>1, TaskReturns DEF MayReturn
<1>3. \A m : InPending(m)' <=> InPending(m) \/ (activeTurn # NoTurn /\ m \in Range(Batch(t)))
  BY <1>1 DEF InPending
<1>4. /\ \A u \in Turns : \A m : m \in Range(Batch(u)') => u # t /\ m \in Range(Batch(u))
      /\ \A u \in Turns : \A m, n : Before(Batch(u)', m, n) => Before(Batch(u), m, n)
  BY <1>1, EmptyOrder
<1>5. StraysAreTogether'
  <2> SUFFICES ASSUME NEW u \in Turns, NEW s \in Turns, NEW m \in Range(arrivals[u])
               PROVE  /\ MayReturn(u)' /\ activeTurn # u => ~InPending(m)'
                      /\ MayReturn(u)' /\ MayReturn(s)' /\ s # u => m \notin Range(Batch(s)')
                      /\ activeTurn # u /\ InPending(m)' =>
                            \A n \in Range(arrivals[u]) : n \notin Range(Batch(u)')
                      /\ MayReturn(s)' /\ s # u /\ m \in Range(Batch(s)') =>
                            \A n \in Range(arrivals[u]) :
                               /\ ~InPending(n)'
                               /\ n \notin Range(Batch(u)')
                               /\ \A r \in Turns :
                                     MayReturn(r)' /\ n \in Range(Batch(r)') => r = s
    BY <1>1 DEF StraysAreTogether
  <2>1. ASSUME MayReturn(u)', activeTurn # u PROVE ~InPending(m)'
    <3>1. u # t \/ activeTurn = NoTurn
      BY <1>2, <2>1
    <3> QED
      BY <1>2, <1>3, <2>1, <3>1 DEF StraysAreTogether
  <2>2. MayReturn(u)' /\ MayReturn(s)' /\ s # u => m \notin Range(Batch(s)')
    BY <1>2, <1>4 DEF StraysAreTogether
  <2>3. ASSUME activeTurn # u, InPending(m)', NEW n \in Range(arrivals[u])
        PROVE  n \notin Range(Batch(u)')
    BY <1>2, <1>3, <1>4, <2>3 DEF StraysAreTogether
  <2>4. ASSUME MayReturn(s)', s # u, m \in Range(Batch(s)'), NEW n \in Range(arrivals[u])
        PROVE  /\ ~InPending(n)'
               /\ n \notin Range(Batch(u)')
               /\ \A r \in Turns : MayReturn(r)' /\ n \in Range(Batch(r)') => r = s
    <3>1. /\ MayReturn(s) /\ s # t /\ ~InPending(n) /\ n \notin Range(Batch(u))
          /\ \A r \in Turns : MayReturn(r) /\ n \in Range(Batch(r)) => r = s
      BY <1>2, <1>4, <2>4 DEF StraysAreTogether
    <3> QED
      BY <1>2, <1>3, <1>4, <3>1
  <2> QED
    BY <2>1, <2>2, <2>3, <2>4
<1>6. InOrder'
  <2> SUFFICES ASSUME NEW u \in Turns, NEW m \in Range(arrivals[u]), NEW n \in Range(arrivals[u]),
                      Before(arrivals[u], m, n)
               PROVE  NotAhead(u, n, m)'
    BY DEF InOrder
  <2>1. NotAhead(u, n, m)
    BY DEF InOrder
  <2>2. Entry(n, u) \in Range(history) \/ n \in Range(Accepted(u)) =>
            /\ ~InPending(m)'
            /\ \A s \in Turns : s = u \/ MayReturn(s)' => m \notin Range(Batch(s)')
    BY <1>2, <1>3, <1>4, <2>1 DEF NotAhead
  <2>3. n \in Range(Batch(u)') => ~InPending(m)'
    <3>1. n \in Range(Batch(u)') => u # t /\ n \in Range(Batch(u)) /\ ~InPending(m)
      BY <1>4, <2>1 DEF NotAhead
    <3> QED
      BY <1>2, <1>3, <3>1 DEF StraysAreTogether
  <2>4. \A s \in Turns : s = u \/ MayReturn(s)' => ~Before(Batch(s)', n, m)
    BY <1>2, <1>4, <2>1 DEF NotAhead
  <2>5. ASSUME activeTurn # NoTurn PROVE ~Before(pendingInput'[activeTurn], n, m)
    <3>1. ~Before(Batch(t), n, m) /\ ~Before(pendingInput[activeTurn], n, m)
      BY <1>2, <2>1, <2>5 DEF NotAhead
    <3>2. n \in Range(Batch(t)) => ~InPending(m)
      BY <1>2, <2>1 DEF NotAhead, StraysAreTogether
    <3> QED
      BY <1>1, <2>5, <3>1, <3>2 DEF InPending
  <2> QED
    BY <1>1, <2>1, <2>2, <2>3, <2>4, <2>5 DEF NotAhead
<1> QED
  BY <1>5, <1>6

\* What is recorded next was accepted first.
LEMMA RecordsFirstOrder ==
    ASSUME TypeOK, PlaceInv, OrderInv, NEW t \in Turns, RecordsFirst(t), UNCHANGED arrivals
    PROVE  OrderInv'
<1>1. PICK x \in Inputs :
          /\ x \in Range(Accepted(t))
          /\ Range(Accepted(t)) = {x} \cup Range(Accepted(t)')
          /\ \A m, n : Before(Accepted(t), m, n) <=>
                Before(Accepted(t)', m, n) \/ (m = x /\ n \in Range(Accepted(t)'))
          /\ \A m, u : Entry(m, u) \in Range(history') <=>
                Entry(m, u) \in Range(history) \/ (u = t /\ m = x)
          /\ \A m, n, u, v : Before(history', Entry(m, u), Entry(n, v)) <=>
                \/ Before(history, Entry(m, u), Entry(n, v))
                \/ Entry(m, u) \in Range(history) /\ v = t /\ n = x
          /\ \A u \in Turns : u # t => Accepted(u)' = Accepted(u)
          /\ \A u \in Turns : Batch(u)' = Batch(u)
  BY RecordsFirstEffect DEF PlaceInv
<1>2. /\ UNCHANGED <<activeTurn, handleAborted, pendingInput>>
      /\ \A u \in Turns : MayReturn(u)' => MayReturn(u)
      /\ \A m : InPending(m)' <=> InPending(m)
      /\ activeTurn \in Turns \cup {NoTurn}
  BY TaskReturns DEF RecordsFirst, InPending, TypeOK
<1>3. StraysAreTogether'
  BY <1>1, <1>2, StraysShrink DEF OrderInv
<1>4. InOrder'
  <2> SUFFICES ASSUME NEW u \in Turns, NEW m \in Range(arrivals[u]), NEW n \in Range(arrivals[u]),
                      Before(arrivals[u], m, n)
               PROVE  NotAhead(u, n, m)'
    BY DEF InOrder
  <2>1. NotAhead(u, n, m)
    BY DEF OrderInv, InOrder
  <2>2. CASE u # t
    BY <1>1, <1>2, <2>1, <2>2 DEF NotAhead
  <2>3. CASE u = t
    <3>1. ~Before(history', Entry(n, t), Entry(m, t))
      BY <1>1, <2>1, <2>3 DEF NotAhead
    <3>2. Entry(n, t) \in Range(history') => m \notin Range(Accepted(t)')
      BY <1>1, <2>1, <2>3 DEF NotAhead
    <3>3. Entry(n, t) \in Range(history') \/ n \in Range(Accepted(t)') =>
              Entry(n, t) \in Range(history) \/ n \in Range(Accepted(t))
      BY <1>1
    <3> QED
      BY <1>1, <1>2, <2>1, <2>3, <3>1, <3>2, <3>3 DEF NotAhead
  <2> QED
    BY <2>2, <2>3
<1> QED
  BY <1>3, <1>4 DEF OrderInv

\* The leftover is all that the turn has accepted and not recorded.
LEMMA FinishRemoveOrder ==
    ASSUME TypeOK, PlaceInv, OrderInv, NEW t \in Turns, FinishRemove(t), activeTurn = t,
           UNCHANGED arrivals
    PROVE  OrderInv'
<1>1. /\ taskPC'[t] = "finish_record"
      /\ \A u \in Turns : u # t => taskPC'[u] = taskPC[u]
      /\ activeTurn' = NoTurn /\ handleAborted' = handleAborted \cup {t}
      /\ UNCHANGED history
      /\ \A u \in Turns : Batch(u)' = Batch(u)
      /\ \A u \in Turns :
            u # t => Accepted(u)' = Accepted(u) /\ pendingInput'[u] = pendingInput[u]
      /\ Batch(t) = <<>>
      /\ Accepted(t)' = pendingInput[t] /\ pendingInput'[t] = <<>>
  BY FinishRemoveEffect DEF PlaceInv
<1>2. /\ \A u \in Turns : MayReturn(u)' => MayReturn(u)
      /\ ~MayReturn(t)' /\ MayReturn(t)
      /\ \A m : ~InPending(m)'
      /\ \A m : InPending(m) <=> m \in Range(pendingInput[t])
      /\ \A m : m \notin Range(Batch(t))
      /\ activeTurn # NoTurn
  BY <1>1, TaskReturns, EmptyOrder, ConstantsAssumption
  DEF MayReturn, InPending, PlaceInv, ActiveTurnIsNotAborted
<1>3. StraysAreTogether'
  BY <1>1, <1>2, EmptyOrder, StraysShrink DEF OrderInv
<1>4. InOrder'
  <2> SUFFICES ASSUME NEW u \in Turns, NEW m \in Range(arrivals[u]), NEW n \in Range(arrivals[u]),
                      Before(arrivals[u], m, n)
               PROVE  NotAhead(u, n, m)'
    BY DEF InOrder
  <2>1. NotAhead(u, n, m)
    BY DEF OrderInv, InOrder
  <2>2. CASE u # t
    BY <1>1, <1>2, <2>1, <2>2 DEF NotAhead
  <2>3. CASE u = t
    <3>1. \A s \in Turns : s = t \/ MayReturn(s)' => m \notin Range(Batch(s))
      BY <1>2, <2>3 DEF OrderInv, StraysAreTogether
    <3>2. Entry(n, t) \in Range(history) => m \notin Range(Accepted(t)')
      BY <1>1, <1>2, <2>1, <2>3 DEF NotAhead
    <3>3. ~Before(Accepted(t)', n, m)
      BY <1>1, <1>2, <2>1, <2>3 DEF NotAhead
    <3> QED
      BY <1>1, <1>2, <2>1, <2>3, <3>1, <3>2, <3>3 DEF NotAhead
  <2> QED
    BY <2>2, <2>3
<1> QED
  BY <1>3, <1>4 DEF OrderInv

\* No step breaks the order.
LEMMA OrderStep ==
    ASSUME TypeOK, IInv, SourceInv, PlaceInv, OrderInv, [Next]_vars PROVE OrderInv'
<1>1. ASSUME NEW t \in Turns, TaskStep(t) \/ DropTask(t) PROVE OrderInv'
  <2>1. UNCHANGED arrivals
    BY <1>1, TaskKeepsSources
  <2>2. \/ TaskMoves(t) \/ RecordOwnInput(t) \/ GetPendingInput(t) \/ InspectAccept(t)
        \/ HookBlocks(t) \/ InspectBlock(t) \/ RecordsFirst(t)
        \/ FinishRemove(t) /\ activeTurn = t
    BY <1>1, TaskInputSteps DEF PlaceInv
  <2> QED
    BY <2>1, <2>2, MovesOrder, OwnInputOrder, GetPendingInputOrder, InspectAcceptOrder,
       HookBlocksOrder, InspectBlockOrder, RecordsFirstOrder, FinishRemoveOrder
<1>2. CASE UNCHANGED vars
  <2>1. UNCHANGED <<arrivals, pendingInput, heldInput, history, activeTurn, taskPC, handleAborted>>
    BY <1>2 DEF vars, turnVars, taskVars, abortVars
  <2> QED
    BY <2>1, OrderFrame DEF MayReturn
<1> QED
  BY <1>1, <1>2, ClientOrder, LoopOrder DEF Next, Quiescent

\* The inputs a turn accepts are in its history in the order it accepted them,
\* however often hooks send the rest of a batch back.
THEOREM SteeredInputsStayInOrder == Spec => []SteeredInputInOrder
<1>1. Init => OrderInv
  <2> SUFFICES ASSUME Init PROVE OrderInv
    OBVIOUS
  <2>1. \A t \in Turns : Range(arrivals[t]) = {}
    BY EmptyOrder DEF Init
  <2> QED
    BY <2>1 DEF OrderInv, StraysAreTogether, InOrder
<1>2. TypeOK /\ IInv /\ InputInv /\ OrderInv /\ [Next]_vars => OrderInv'
  BY OrderStep DEF InputInv
<1>3. TypeOK /\ InputInv /\ OrderInv => SteeredInputInOrder
  <2> SUFFICES ASSUME TypeOK, InputInv, OrderInv, NEW t \in Turns,
                      NEW i \in DOMAIN arrivals[t], NEW j \in DOMAIN arrivals[t],
                      NEW p \in DOMAIN history, NEW q \in DOMAIN history,
                      i < j,
                      history[p] = Entry(arrivals[t][i], t),
                      history[q] = Entry(arrivals[t][j], t)
               PROVE  p < q
    BY DEF SteeredInputInOrder, Entry
  <2> DEFINE m == arrivals[t][i]
             n == arrivals[t][j]
  <2>1. Before(arrivals[t], m, n) /\ m \in Range(arrivals[t]) /\ n \in Range(arrivals[t])
    BY DEF Before, Range
  <2>2. m # n
    BY <2>1 DEF InputInv, SourceInv, AcceptedOnce, NoDuplicates
  <2>3. ~Before(history, Entry(n, t), Entry(m, t))
    BY <2>1 DEF OrderInv, InOrder, NotAhead
  <2>4. p # q
    BY <2>2 DEF Entry
  <2>5. ~(q < p)
    BY <2>3 DEF Before
  <2>6. p \in Nat /\ q \in Nat
    <3>1. history \in Seq([item : Inputs \cup {Marker}, turn : Turns])
      BY DEF TypeOK
    <3> QED
      BY <3>1, LenProperties
  <2> QED
    BY <2>4, <2>5, <2>6
<1> QED
  BY <1>1, <1>2, <1>3, InputInvariant, PTL DEF Spec
=============================================================================
