--------------------------- MODULE UnifiedExecProofs ---------------------------
(***************************************************************************)
(* Proofs about UnifiedExec, for any number of calls, writers and ids.     *)
(*                                                                         *)
(* The inductive invariant says who answers for what at each stage of a    *)
(* call: for its number (Ids), for the entries taken out of the store      *)
(* (Takes), and for the end of its process (Ends).                         *)
(***************************************************************************)
EXTENDS UnifiedExec, FiniteSetTheorems, TLAPS

USE ExecAssumption

\* The stages at which the process of a call may be in the store.
AfterStore == {"prune", "warn", "collect", "unregister", "done", "dropped"}

Ids ==
    /\ \A i \in ProcessIds : processes[i] # NoCall =>
          /\ processId[processes[i]] = i
          /\ stage[processes[i]] \in AfterStore
    /\ \A c \in Calls : stage[c] # "off" => processId[c] \in ProcessIds
    /\ \A c \in Calls : UsesReservation(c) => processId[c] \in reserved \cup reissuable
    /\ \A i \in ProcessIds : processes[i] # NoCall => i \in reserved \cup reissuable

Takes ==
    /\ \A c \in Calls : taken[c] # NoCall => stage[c] \in {"prune", "unregister", "finish"}
    /\ \A w \in Writers : taken[w] # NoCall => writing[w] = NoId
    /\ \A c \in Calls : stage[c] = "prune" => taken[c] # NoCall
    /\ \A x \in Calls \cup Writers : taken[x] # NoCall => stage[taken[x]] \in AfterStore
    /\ \A x \in Calls \cup Writers :
          taken[x] # NoCall /\ (x \in Calls => stage[x] # "prune") =>
              process[taken[x]] # "running" \/ processId[taken[x]] \in reissuable

\* What is known of the process of a call at each stage, and of its end.
Ends ==
    \A c \in Calls :
        /\ stage[c] \in {"off", "open", "failed"} => process[c] = "none"
        /\ stage[c] \in {"short", "release", "finish"} => process[c] # "running"
        /\ c \in netApprovals => process[c] # "none"
        /\ watcher[c] # "off" => stage[c] \in {"collect", "unregister", "done", "dropped"}
        /\ watcher[c] \in {"token", "drained"} => ends[c] = 0
        /\ stage[c] \in {"off", "open", "failed", "begin", "store", "prune", "warn", "short"} =>
              ends[c] = 0
        /\ ends[c] \in {0, 1}
        /\ stage[c] \in {"store", "prune", "warn"} \/ watcher[c] \in {"token", "drained"} =>
              streaming[c] = "on" \/ c \in drained
        /\ process[c] # "none" =>
              \/ ends[c] = 1
              \/ stage[c] \in {"begin", "store", "prune", "warn", "short"}
              \/ watcher[c] \in {"token", "drained"}
              \/ stage[c] = "dropped" /\ watcher[c] = "off"

IInv == ExecTypeOK /\ Ids /\ OneProcessPerId /\ Takes /\ Ends /\ NothingLeftBehind /\ StoreWithinLimit

-----------------------------------------------------------------------------
(* Termination *)

\* Terminating processes only kills running ones, and those it is told to.
LEMMA TerminateKills ==
    ASSUME ExecTypeOK, NEW killed, Terminate(killed)
    PROVE  /\ process' \in [Calls -> {"none", "running", "exited", "killed"}]
           /\ exitToken' \subseteq Calls
           /\ \A c \in Calls :
                 /\ process'[c] = process[c] \/ (process[c] = "running" /\ process'[c] = "killed")
                 /\ c \in killed => process'[c] # "running"
  <1> DEFINE over == {c \in Calls : process[c] # "none" /\ (c \in killed \/ ~Referenced(c)')}
  <1>1. /\ process' = [c \in Calls |-> IF c \in over /\ process[c] = "running" THEN "killed"
                                       ELSE process[c]]
        /\ exitToken' = exitToken \cup over
    BY DEF Terminate
  <1>2. \A c \in Calls : c \in killed /\ process[c] = "running" => c \in over
    OBVIOUS
  <1>3. over \subseteq Calls
    OBVIOUS
  <1> HIDE DEF over
  <1> QED
    BY <1>1, <1>2, <1>3 DEF ExecTypeOK

-----------------------------------------------------------------------------
(* Type correctness *)

LEMMA WatchTypes ==
    ASSUME ExecTypeOK, NEW c \in Calls, NEW warned \in BOOLEAN, Watch(c, warned)
    PROVE  /\ stage' \in [Calls -> Stages]
           /\ watcher' \in [Calls -> {"off", "token", "drained", "done"}]
           /\ UNCHANGED <<streaming, drained, ends>>
  BY DEF ExecTypeOK, Watch, Stages

LEMMA RemoveTypes ==
    ASSUME ExecTypeOK, NEW x \in Calls \cup Writers, NEW i \in ProcessIds, Remove(x, i)
    PROVE  /\ taken' \in [Calls \cup Writers -> Calls \cup {NoCall}]
           /\ processes' \in [ProcessIds -> Calls \cup {NoCall}]
           /\ reserved' \subseteq ProcessIds
  BY DEF ExecTypeOK, Remove

LEMMA RefreshTypes ==
    ASSUME ExecTypeOK, NEW x \in Calls \cup Writers, NEW i \in ProcessIds,
           RefreshProcessState(x, i)
    PROVE  /\ taken' \in [Calls \cup Writers -> Calls \cup {NoCall}]
           /\ processes' \in [ProcessIds -> Calls \cup {NoCall}]
           /\ reserved' \subseteq ProcessIds
  BY RemoveTypes DEF ExecTypeOK, RefreshProcessState

LEMMA TypeStep ==
    ASSUME IInv, [ExecNext]_execVars
    PROVE  ExecTypeOK'
  <1> USE DEF ExecTypeOK, Stages
  <1>1. ASSUME NEW c \in Calls, AllocateProcessId(c) PROVE ExecTypeOK'
    BY <1>1 DEF IInv, AllocateProcessId, Go, callVars, storeVars, endVars, cleanupVars
  <1>2. ASSUME NEW c \in Calls, RefuseCommand(c) PROVE ExecTypeOK'
    BY <1>2 DEF IInv, RefuseCommand, Go, callVars, storeVars, endVars, cleanupVars
  <1>3. ASSUME NEW c \in Calls, OpenSession(c) PROVE ExecTypeOK'
    BY <1>3 DEF IInv, OpenSession, Go, callVars, storeVars, endVars, cleanupVars
  <1>4. ASSUME NEW c \in Calls, FailToOpen(c) PROVE ExecTypeOK'
    BY <1>4 DEF IInv, FailToOpen, Go, callVars, storeVars, endVars, cleanupVars
  <1>5. ASSUME NEW c \in Calls, EmitBegin(c) PROVE ExecTypeOK'
    BY <1>5 DEF IInv, EmitBegin, Go, Use, callVars, storeVars, endVars, cleanupVars
  <1>6. ASSUME NEW c \in Calls, StoreWithRoom(c) PROVE ExecTypeOK'
    <2>1. Terminate({})
      BY <1>6 DEF StoreWithRoom
    <2>2. process' \in [Calls -> {"none", "running", "exited", "killed"}] /\ exitToken' \subseteq Calls
      BY <2>1, TerminateKills DEF IInv
    <2>3. PICK warned \in BOOLEAN : Watch(c, warned)
      BY <1>6 DEF StoreWithRoom
    <2>4. /\ stage' \in [Calls -> Stages]
          /\ watcher' \in [Calls -> {"off", "token", "drained", "done"}]
          /\ UNCHANGED <<streaming, drained, ends>>
      BY <2>3, WatchTypes DEF IInv
    <2>5. processes' \in [ProcessIds -> Calls \cup {NoCall}]
      BY <1>6 DEF IInv, StoreWithRoom
    <2> QED
      BY <1>6, <2>2, <2>4, <2>5 DEF IInv, StoreWithRoom, cleanupVars
  <1>7. ASSUME NEW c \in Calls, StoreAndPrune(c) PROVE ExecTypeOK'
    <2>1. Terminate({})
      BY <1>7 DEF StoreAndPrune
    <2>2. process' \in [Calls -> {"none", "running", "exited", "killed"}] /\ exitToken' \subseteq Calls
      BY <2>1, TerminateKills DEF IInv
    <2>3. PICK pruned \in StoredCalls :
              /\ processes' = [i \in ProcessIds |->
                     IF i = processId[c] THEN c
                     ELSE IF processes[i] = pruned THEN NoCall ELSE processes[i]]
              /\ reserved' = reserved \ {processId[pruned]}
              /\ taken' = [taken EXCEPT ![c] = pruned]
      BY <1>7 DEF StoreAndPrune
    <2>4. /\ processes' \in [ProcessIds -> Calls \cup {NoCall}]
          /\ reserved' \subseteq ProcessIds
          /\ taken' \in [Calls \cup Writers -> Calls \cup {NoCall}]
      BY <2>3 DEF IInv, StoredCalls
    <2> QED
      BY <1>7, <2>2, <2>4 DEF IInv, StoreAndPrune, Go, endVars, cleanupVars
  <1>8. ASSUME NEW c \in Calls, TerminatePruned(c) PROVE ExecTypeOK'
    <2>1. Terminate({taken[c]})
      BY <1>8 DEF TerminatePruned
    <2>2. process' \in [Calls -> {"none", "running", "exited", "killed"}] /\ exitToken' \subseteq Calls
      BY <2>1, TerminateKills DEF IInv
    <2>3. PICK warned \in BOOLEAN : Watch(c, warned)
      BY <1>8 DEF TerminatePruned
    <2>4. /\ stage' \in [Calls -> Stages]
          /\ watcher' \in [Calls -> {"off", "token", "drained", "done"}]
          /\ UNCHANGED <<streaming, drained, ends>>
      BY <2>3, WatchTypes DEF IInv
    <2>5. /\ taken' \in [Calls \cup Writers -> Calls \cup {NoCall}]
          /\ netApprovals' \subseteq Calls
      BY <1>8 DEF IInv, TerminatePruned
    <2> QED
      BY <1>8, <2>2, <2>4, <2>5 DEF IInv, TerminatePruned, storeVars, cleanupVars
  <1>9. ASSUME NEW c \in Calls, WarnModel(c) PROVE ExecTypeOK'
    BY <1>9 DEF IInv, WarnModel, Watch, callVars, storeVars, endVars, cleanupVars
  <1>10. ASSUME NEW c \in Calls, RefreshCall(c) PROVE ExecTypeOK'
    <2>1. Terminate({})
      BY <1>10 DEF RefreshCall
    <2>2. process' \in [Calls -> {"none", "running", "exited", "killed"}] /\ exitToken' \subseteq Calls
      BY <2>1, TerminateKills DEF IInv
    <2>3. /\ taken' \in [Calls \cup Writers -> Calls \cup {NoCall}]
          /\ processes' \in [ProcessIds -> Calls \cup {NoCall}]
          /\ reserved' \subseteq ProcessIds
      BY <1>10, RefreshTypes DEF IInv, Ids, RefreshCall
    <2> QED
      BY <1>10, <2>2, <2>3 DEF IInv, RefreshCall, endVars, cleanupVars
  <1>11. ASSUME NEW c \in Calls, EmitEnd(c) PROVE ExecTypeOK'
    BY <1>11 DEF IInv, EmitEnd, Go, callVars, storeVars, endVars, cleanupVars
  <1>12. ASSUME NEW c \in Calls, ReleaseProcessId(c) PROVE ExecTypeOK'
    <2>1. /\ taken' \in [Calls \cup Writers -> Calls \cup {NoCall}]
          /\ processes' \in [ProcessIds -> Calls \cup {NoCall}]
          /\ reserved' \subseteq ProcessIds
      BY <1>12, RemoveTypes DEF IInv, Ids, ReleaseProcessId, Go
    <2> QED
      BY <1>12, <2>1 DEF IInv, ReleaseProcessId, Go, endVars, cleanupVars
  <1>13. ASSUME NEW c \in Calls, UnregisterTaken(c) PROVE ExecTypeOK'
    <2>1. Terminate({})
      BY <1>13 DEF UnregisterTaken
    <2>2. process' \in [Calls -> {"none", "running", "exited", "killed"}] /\ exitToken' \subseteq Calls
      BY <2>1, TerminateKills DEF IInv
    <2> QED
      BY <1>13, <2>2 DEF IInv, UnregisterTaken, callVars, storeVars, endVars, cleanupVars
  <1>14. ASSUME NEW c \in Calls, Return(c) PROVE ExecTypeOK'
    <2>1. Terminate({})
      BY <1>14 DEF Return
    <2>2. process' \in [Calls -> {"none", "running", "exited", "killed"}] /\ exitToken' \subseteq Calls
      BY <2>1, TerminateKills DEF IInv
    <2> QED
      BY <1>14, <2>2 DEF IInv, Return, callVars, storeVars, endVars, cleanupVars
  <1>15. ASSUME NEW c \in Calls, DropCall(c) PROVE ExecTypeOK'
    <2>1. Terminate({})
      BY <1>15 DEF DropCall
    <2>2. process' \in [Calls -> {"none", "running", "exited", "killed"}] /\ exitToken' \subseteq Calls
      BY <2>1, TerminateKills DEF IInv
    <2>3. abandoned' \subseteq Calls
      BY <1>15 DEF IInv, DropCall
    <2>4. /\ stage' \in [Calls -> Stages]
          /\ taken' \in [Calls \cup Writers -> Calls \cup {NoCall}]
      BY <1>15 DEF IInv, DropCall
    <2> QED
      BY <1>15, <2>2, <2>3, <2>4 DEF IInv, DropCall, storeVars, endVars, cleanupVars
  <1>16. ASSUME NEW c \in Calls, Exit(c) PROVE ExecTypeOK'
    BY <1>16 DEF IInv, Exit, callVars, storeVars, endVars, cleanupVars
  <1>17. ASSUME NEW c \in Calls, CancelToken(c) PROVE ExecTypeOK'
    BY <1>17 DEF IInv, CancelToken, callVars, storeVars, endVars, cleanupVars
  <1>18. ASSUME NEW c \in Calls, StopStreaming(c) PROVE ExecTypeOK'
    BY <1>18 DEF IInv, StopStreaming, callVars, storeVars, endVars, cleanupVars
  <1>19. ASSUME NEW c \in Calls, WatchExit(c) PROVE ExecTypeOK'
    BY <1>19 DEF IInv, WatchExit, callVars, storeVars, endVars, cleanupVars
  <1>20. ASSUME NEW c \in Calls, ReportEnd(c) PROVE ExecTypeOK'
    <2>1. Terminate({})
      BY <1>20 DEF ReportEnd
    <2>2. process' \in [Calls -> {"none", "running", "exited", "killed"}] /\ exitToken' \subseteq Calls
      BY <2>1, TerminateKills DEF IInv
    <2>3. ends' \in [Calls -> Nat] /\ watcher' \in [Calls -> {"off", "token", "drained", "done"}]
      BY <1>20 DEF IInv, ReportEnd
    <2> QED
      BY <1>20, <2>2, <2>3 DEF IInv, ReportEnd, callVars, storeVars, cleanupVars
  <1>21. ASSUME NEW c \in Calls, TerminateDrained(c) PROVE ExecTypeOK'
    <2>1. Terminate({c})
      BY <1>21 DEF TerminateDrained
    <2>2. process' \in [Calls -> {"none", "running", "exited", "killed"}] /\ exitToken' \subseteq Calls
      BY <2>1, TerminateKills DEF IInv
    <2> QED
      BY <1>21, <2>2 DEF IInv, TerminateDrained, callVars, storeVars, endVars, cleanupVars
  <1>22. ASSUME NEW w \in Writers, NEW i \in ProcessIds, PrepareWrite(w, i) PROVE ExecTypeOK'
    BY <1>22 DEF IInv, PrepareWrite, Use, callVars, storeVars, endVars, cleanupVars
  <1>23. ASSUME NEW w \in Writers, RefreshWrite(w) PROVE ExecTypeOK'
    <2>1. Terminate({})
      BY <1>23 DEF RefreshWrite
    <2>2. process' \in [Calls -> {"none", "running", "exited", "killed"}] /\ exitToken' \subseteq Calls
      BY <2>1, TerminateKills DEF IInv
    <2> QED
      BY <1>23, <2>2
         DEF IInv, RefreshWrite, RefreshProcessState, Remove, callVars, storeVars, endVars,
         cleanupVars
  <1>24. ASSUME NEW w \in Writers, UnregisterWritten(w) PROVE ExecTypeOK'
    <2>1. Terminate({})
      BY <1>24 DEF UnregisterWritten
    <2>2. process' \in [Calls -> {"none", "running", "exited", "killed"}] /\ exitToken' \subseteq Calls
      BY <2>1, TerminateKills DEF IInv
    <2> QED
      BY <1>24, <2>2 DEF IInv, UnregisterWritten, callVars, storeVars, endVars, cleanupVars
  <1>25. ASSUME NEW w \in Writers, DropWriter(w) PROVE ExecTypeOK'
    <2>1. Terminate({})
      BY <1>25 DEF DropWriter
    <2>2. process' \in [Calls -> {"none", "running", "exited", "killed"}] /\ exitToken' \subseteq Calls
      BY <2>1, TerminateKills DEF IInv
    <2> QED
      BY <1>25, <2>2 DEF IInv, DropWriter, callVars, storeVars, endVars, cleanupVars
  <1>26. CASE DrainStore
    <2>1. Terminate({})
      BY <1>26 DEF DrainStore
    <2>2. process' \in [Calls -> {"none", "running", "exited", "killed"}] /\ exitToken' \subseteq Calls
      BY <2>1, TerminateKills DEF IInv
    <2>3. cleanups' \in 0..MaxCleanups /\ reissuable' \subseteq ProcessIds
      BY <1>26 DEF IInv, Ids, DrainStore
    <2> QED
      BY <1>26, <2>2, <2>3 DEF IInv, DrainStore, StoredCalls, callVars, endVars
  <1>27. CASE UNCHANGED execVars
    BY <1>27 DEF IInv, execVars, callVars, storeVars, endVars, cleanupVars
  <1> QED
    BY <1>1, <1>2, <1>3, <1>4, <1>5, <1>6, <1>7, <1>8, <1>9, <1>10, <1>11, <1>12, <1>13,
       <1>14, <1>15, <1>16, <1>17, <1>18, <1>19, <1>20, <1>21, <1>22, <1>23, <1>24, <1>25,
       <1>26, <1>27
       DEF ExecNext, CallStep, CloseOutput, EndStep, EndStream, WriterStep, Quiet

-----------------------------------------------------------------------------
(* Numbers *)

\* Taking an entry out of the store frees no number that anybody else uses,
\* unless it may be given out again anyway.
LEMMA RemoveIds ==
    ASSUME IInv, NEW x \in Calls \cup Writers, NEW i \in ProcessIds,
           processes[i] # NoCall, Remove(x, i), UNCHANGED <<processId, reissuable>>,
           \A d \in Calls :
              /\ UsesReservation(d)' => UsesReservation(d)
              /\ stage[d] \in AfterStore => stage'[d] \in AfterStore
              /\ stage'[d] # "off" => stage[d] # "off"
    PROVE  Ids'
  <1> USE DEF IInv, Ids
  <1>1. processes[i] \in Calls /\ Stored(processes[i]) /\ processId[processes[i]] = i
        /\ ~UsesReservation(processes[i])
    BY DEF ExecTypeOK, Stored, AfterStore, UsesReservation
  <1>2. \A d \in Calls : UsesReservation(d) /\ processId[d] = i => i \in reissuable
    BY <1>1 DEF OneProcessPerId, Uses
  <1>3. /\ reserved' = reserved \ {i}
        /\ \A j \in ProcessIds : processes'[j] = IF j = i THEN NoCall ELSE processes[j]
    BY DEF Remove, ExecTypeOK
  <1>4. \A j \in ProcessIds : processes'[j] # NoCall =>
            /\ processId'[processes'[j]] = j
            /\ stage'[processes'[j]] \in AfterStore
            /\ j \in reserved' \cup reissuable'
    <2> TAKE j \in ProcessIds
    <2> HAVE processes'[j] # NoCall
    <2>1. j # i /\ processes'[j] = processes[j] /\ processes[j] \in Calls
      BY <1>3 DEF ExecTypeOK
    <2> QED
      BY <2>1, <1>3
  <1>5. \A d \in Calls : UsesReservation(d)' => processId'[d] \in reserved' \cup reissuable'
    BY <1>2, <1>3
  <1>6. \A d \in Calls : stage'[d] # "off" => processId'[d] \in ProcessIds
    OBVIOUS
  <1> QED
    BY <1>4, <1>5, <1>6

LEMMA IdsStep ==
    ASSUME IInv, ExecTypeOK', [ExecNext]_execVars
    PROVE  Ids'
  <1> USE DEF IInv, ExecTypeOK, Ids, AfterStore, UsesReservation, Uses, OneProcessPerId, Stored
  <1>1. CASE \/ \E c \in Calls : \/ UnregisterTaken(c) \/ Exit(c) \/ CancelToken(c)
                                 \/ StopStreaming(c) \/ WatchExit(c) \/ ReportEnd(c)
                                 \/ TerminateDrained(c)
             \/ \E w \in Writers : UnregisterWritten(w) \/ DropWriter(w)
             \/ \E w \in Writers, i \in ProcessIds : PrepareWrite(w, i)
             \/ UNCHANGED execVars
    BY <1>1
       DEF UnregisterTaken, Exit, CancelToken, StopStreaming, WatchExit, ReportEnd,
       TerminateDrained, UnregisterWritten, DropWriter, PrepareWrite, execVars, callVars,
       storeVars, cleanupVars
  <1>2. ASSUME NEW c \in Calls, AllocateProcessId(c) PROVE Ids'
    BY <1>2 DEF AllocateProcessId, Go, storeVars, cleanupVars
  <1>3. ASSUME NEW c \in Calls, RefuseCommand(c) PROVE Ids'
    BY <1>3 DEF RefuseCommand, Go, storeVars, cleanupVars
  <1>4. ASSUME NEW c \in Calls, OpenSession(c) PROVE Ids'
    BY <1>4 DEF OpenSession, Go, storeVars, cleanupVars
  <1>5. ASSUME NEW c \in Calls, FailToOpen(c) PROVE Ids'
    BY <1>5 DEF FailToOpen, Go, storeVars, cleanupVars
  <1>6. ASSUME NEW c \in Calls, EmitBegin(c) PROVE Ids'
    BY <1>6 DEF EmitBegin, Go, storeVars, cleanupVars
  <1>7. ASSUME NEW c \in Calls, StoreWithRoom(c) PROVE Ids'
    BY <1>7 DEF StoreWithRoom, Watch, storeVars, cleanupVars
  <1>8. ASSUME NEW c \in Calls, StoreAndPrune(c) PROVE Ids'
    <2>1. PICK pruned \in StoredCalls :
              /\ processes' = [i \in ProcessIds |->
                     IF i = processId[c] THEN c
                     ELSE IF processes[i] = pruned THEN NoCall ELSE processes[i]]
              /\ reserved' = reserved \ {processId[pruned]}
      BY <1>8 DEF StoreAndPrune
    <2>2. pruned \in Calls /\ Stored(pruned) /\ ~UsesReservation(pruned)
          /\ processes[processId[pruned]] = pruned
      <3>1. pruned \in Calls /\ \E i \in ProcessIds : processes[i] = pruned
        BY <2>1 DEF StoredCalls
      <3>2. PICK i \in ProcessIds : processes[i] = pruned
        BY <3>1
      <3>3. processes[i] # NoCall
        BY <3>1, <3>2, ExecAssumption
      <3>4. processId[pruned] = i /\ stage[pruned] \in AfterStore
        BY <3>2, <3>3
      <3> QED
        BY <3>1, <3>2, <3>4
    <2>3. \A d \in Calls : UsesReservation(d) /\ processId[d] = processId[pruned] =>
              processId[pruned] \in reissuable
      BY <2>2
    <2>4. /\ stage[c] = "store" /\ stage' = [stage EXCEPT ![c] = "prune"]
          /\ UNCHANGED <<processId, reissuable>>
      BY <1>8 DEF StoreAndPrune, Go, cleanupVars
    <2>5. \A d \in Calls : UsesReservation(d)' => UsesReservation(d)
      BY <2>4
    <2>6. \A d \in Calls : stage'[d] # "off" => processId'[d] \in ProcessIds
      BY <2>4
    <2>7. \A d \in Calls : UsesReservation(d)' => processId'[d] \in reserved' \cup reissuable'
      BY <2>1, <2>3, <2>4, <2>5
    <2>8. ASSUME NEW i \in ProcessIds, processes'[i] # NoCall
          PROVE  /\ processId'[processes'[i]] = i
                 /\ stage'[processes'[i]] \in AfterStore
                 /\ i \in reserved' \cup reissuable'
      <3>1. CASE i = processId[c]
        <4>1. processes'[i] = c
          BY <3>1, <2>1
        <4>2. UsesReservation(c)
          BY <2>4
        <4> QED
          BY <4>1, <4>2, <3>1, <2>1, <2>3, <2>4
      <3>2. CASE i # processId[c]
        <4>1. processes'[i] = processes[i] /\ processes[i] # pruned /\ processes[i] \in Calls
          BY <3>2, <2>1, <2>8
        <4>2. i # processId[pruned]
          BY <4>1, <2>2
        <4>3. /\ processId[processes[i]] = i
              /\ stage[processes[i]] \in AfterStore
              /\ i \in reserved \cup reissuable
          BY <4>1, <2>8
        <4> QED
          BY <4>1, <4>2, <4>3, <2>1, <2>4
      <3> QED
        BY <3>1, <3>2
    <2> QED
      BY <2>6, <2>7, <2>8
  <1>9. ASSUME NEW c \in Calls, TerminatePruned(c) PROVE Ids'
    BY <1>9 DEF TerminatePruned, Watch, storeVars, cleanupVars
  <1>10. ASSUME NEW c \in Calls, WarnModel(c) PROVE Ids'
    BY <1>10 DEF WarnModel, Watch, storeVars, cleanupVars
  <1>11. ASSUME NEW c \in Calls, RefreshCall(c) PROVE Ids'
    <2>1. /\ stage[c] = "collect" /\ processId[c] \in ProcessIds
          /\ stage' = [stage EXCEPT ![c] = IF taken' = taken THEN "done" ELSE "unregister"]
          /\ UNCHANGED <<processId, reissuable>>
          /\ RefreshProcessState(c, processId[c])
      BY <1>11 DEF RefreshCall, cleanupVars
    <2>2. \A d \in Calls :
              /\ UsesReservation(d)' => UsesReservation(d)
              /\ stage[d] \in AfterStore => stage'[d] \in AfterStore
              /\ stage'[d] # "off" => stage[d] # "off"
      BY <2>1
    <2>3. CASE processes[processId[c]] # NoCall /\ Remove(c, processId[c])
      BY <2>1, <2>2, <2>3, RemoveIds
    <2>4. CASE UNCHANGED <<processes, reserved, taken>>
      BY <2>1, <2>2, <2>4
    <2> QED
      BY <2>1, <2>3, <2>4 DEF RefreshProcessState
  <1>12. ASSUME NEW c \in Calls, EmitEnd(c) PROVE Ids'
    BY <1>12 DEF EmitEnd, Go, storeVars, cleanupVars
  <1>13. ASSUME NEW c \in Calls, ReleaseProcessId(c) PROVE Ids'
    <2>1. /\ stage[c] \in {"failed", "release"}
          /\ stage' = [stage EXCEPT ![c] = IF stage[c] = "failed" THEN "unregister" ELSE "finish"]
          /\ Remove(c, processId[c])
          /\ UNCHANGED <<processId, reissuable>>
      BY <1>13 DEF ReleaseProcessId, Go, cleanupVars
    <2>2. \A d \in Calls :
              /\ UsesReservation(d)' => UsesReservation(d)
              /\ stage[d] \in AfterStore => stage'[d] \in AfterStore
              /\ stage'[d] # "off" => stage[d] # "off"
      BY <2>1
    <2>3. processId[c] \in ProcessIds
      BY <2>1
    <2>4. CASE processes[processId[c]] # NoCall
      BY <2>1, <2>2, <2>3, <2>4, RemoveIds
    <2>5. CASE processes[processId[c]] = NoCall
      <3>1. /\ \A i \in ProcessIds : processes'[i] = processes[i]
            /\ reserved' = reserved \ {processId[c]}
        BY <2>1, <2>3, <2>5 DEF Remove
      <3>2. \A d \in Calls : UsesReservation(d)' => d # c
        BY <2>1
      <3>3. \A d \in Calls : UsesReservation(d)' => processId[d] \in reserved' \cup reissuable
        BY <2>1, <2>2, <3>1, <3>2
      <3>4. \A i \in ProcessIds : processes'[i] # NoCall =>
               /\ processId'[processes'[i]] = i
               /\ stage'[processes'[i]] \in AfterStore
               /\ i \in reserved' \cup reissuable'
        BY <2>1, <2>2, <2>5, <3>1
      <3> QED
        BY <2>1, <2>2, <3>3, <3>4
    <2> QED
      BY <2>4, <2>5
  <1>14. ASSUME NEW c \in Calls, Return(c) PROVE Ids'
    BY <1>14 DEF Return, storeVars, cleanupVars
  <1>15. ASSUME NEW c \in Calls, DropCall(c) PROVE Ids'
    BY <1>15 DEF DropCall, storeVars, cleanupVars
  <1>16. ASSUME NEW w \in Writers, RefreshWrite(w) PROVE Ids'
    <2>1. /\ writing[w] \in ProcessIds
          /\ UNCHANGED <<stage, processId, reissuable>>
          /\ RefreshProcessState(w, writing[w])
      BY <1>16 DEF RefreshWrite, cleanupVars
    <2>2. \A d \in Calls : UsesReservation(d)' => UsesReservation(d)
      BY <2>1
    <2>3. CASE processes[writing[w]] # NoCall /\ Remove(w, writing[w])
      BY <2>1, <2>2, <2>3, RemoveIds
    <2>4. CASE UNCHANGED <<processes, reserved, taken>>
      BY <2>1, <2>2, <2>4
    <2> QED
      BY <2>1, <2>3, <2>4 DEF RefreshProcessState
  <1>17. CASE DrainStore
    <2>1. /\ \A i \in ProcessIds : processes'[i] = NoCall
          /\ UNCHANGED <<stage, processId>>
          /\ reissuable' = reissuable \cup {processId[d] : d \in {e \in Calls : UsesReservation(e)}}
      BY <1>17 DEF DrainStore, callVars
    <2>2. \A d \in Calls : UsesReservation(d)' => processId'[d] \in reissuable'
      BY <2>1
    <2> QED
      BY <2>1, <2>2
  <1> QED
    BY <1>1, <1>2, <1>3, <1>4, <1>5, <1>6, <1>7, <1>8, <1>9, <1>10, <1>11, <1>12, <1>13,
       <1>14, <1>15, <1>16, <1>17
       DEF ExecNext, CallStep, CloseOutput, EndStep, EndStream, WriterStep, Quiet

\* A step that puts no number to use keeps them apart.
LEMMA FewerUses ==
    ASSUME OneProcessPerId, \A d \in Calls : Uses(d)' => Uses(d),
           UNCHANGED processId, reissuable \subseteq reissuable'
    PROVE  OneProcessPerId'
  BY DEF OneProcessPerId

LEMMA UsesStep ==
    ASSUME IInv, ExecTypeOK', [ExecNext]_execVars
    PROVE  OneProcessPerId'
  <1> USE DEF IInv, ExecTypeOK, UsesReservation, Uses, Stored
  <1>1. CASE \/ \E c \in Calls : \/ UnregisterTaken(c) \/ Exit(c) \/ CancelToken(c)
                                 \/ StopStreaming(c) \/ WatchExit(c) \/ ReportEnd(c)
                                 \/ TerminateDrained(c)
             \/ \E w \in Writers : UnregisterWritten(w) \/ DropWriter(w)
             \/ \E w \in Writers, i \in ProcessIds : PrepareWrite(w, i)
             \/ UNCHANGED execVars
    <2>1. UNCHANGED <<stage, processId, processes, reissuable>>
      BY <1>1
         DEF UnregisterTaken, Exit, CancelToken, StopStreaming, WatchExit, ReportEnd,
         TerminateDrained, UnregisterWritten, DropWriter, PrepareWrite, execVars, callVars,
         storeVars, cleanupVars
    <2> QED
      BY <2>1, FewerUses
  <1>2. ASSUME NEW c \in Calls, AllocateProcessId(c) PROVE OneProcessPerId'
    <2>1. PICK i \in ProcessIds \ reserved : processId' = [processId EXCEPT ![c] = i]
      BY <1>2 DEF AllocateProcessId
    <2>2. stage' = [stage EXCEPT ![c] = "open"] /\ UNCHANGED <<processes, reissuable>>
      BY <1>2 DEF AllocateProcessId, Go, cleanupVars
    <2>3. \A d \in Calls \ {c} : Uses(d)' => Uses(d) /\ processId'[d] = processId[d]
      BY <2>1, <2>2
    <2>4. \A d \in Calls : Uses(d) => processId[d] \in reserved \cup reissuable
      <3> TAKE d \in Calls
      <3>1. CASE UsesReservation(d)
        BY <3>1 DEF Ids
      <3>2. CASE Stored(d)
        <4>1. PICK j \in ProcessIds : processes[j] = d
          BY <3>2
        <4>2. processes[j] # NoCall
          BY <4>1, ExecAssumption
        <4> QED
          BY <4>1, <4>2 DEF Ids
      <3> QED
        BY <3>1, <3>2
    <2>5. processId'[c] = i
      BY <2>1
    <2>6. ASSUME NEW d \in Calls, NEW e \in Calls, Uses(d)', Uses(e)', processId'[d] = processId'[e]
          PROVE  d = e \/ processId'[d] \in reissuable'
      <3>1. CASE d # c /\ e # c
        BY <2>2, <2>3, <2>6, <3>1 DEF OneProcessPerId
      <3>2. CASE d = c /\ e # c
        BY <2>1, <2>2, <2>3, <2>4, <2>5, <2>6, <3>2
      <3>3. CASE d # c /\ e = c
        BY <2>1, <2>2, <2>3, <2>4, <2>5, <2>6, <3>3
      <3> QED
        BY <3>1, <3>2, <3>3
    <2> QED
      BY <2>6 DEF OneProcessPerId
  <1>3. ASSUME NEW c \in Calls, RefuseCommand(c) PROVE OneProcessPerId'
    BY <1>3, FewerUses DEF RefuseCommand, Go, storeVars, cleanupVars
  <1>4. ASSUME NEW c \in Calls, OpenSession(c) PROVE OneProcessPerId'
    BY <1>4, FewerUses DEF OpenSession, Go, storeVars, cleanupVars
  <1>5. ASSUME NEW c \in Calls, FailToOpen(c) PROVE OneProcessPerId'
    BY <1>5, FewerUses DEF FailToOpen, Go, storeVars, cleanupVars
  <1>6. ASSUME NEW c \in Calls, EmitBegin(c) PROVE OneProcessPerId'
    BY <1>6, FewerUses DEF EmitBegin, Go, storeVars, cleanupVars
  <1>7. ASSUME NEW c \in Calls, StoreWithRoom(c) PROVE OneProcessPerId'
    <2>1. UNCHANGED <<processId, reissuable>>
      BY <1>7 DEF StoreWithRoom, cleanupVars
    <2>2. \A i \in ProcessIds : processes'[i] \in {processes[i], c}
      BY <1>7 DEF StoreWithRoom
    <2>3. UsesReservation(c) /\ \A d \in Calls : Stored(d)' => Stored(d) \/ d = c
      BY <1>7, <2>2 DEF StoreWithRoom
    <2>4. \A d \in Calls : UsesReservation(d)' => UsesReservation(d)
      BY <1>7 DEF StoreWithRoom, Watch
    <2> QED
      BY <2>1, <2>3, <2>4, FewerUses
  <1>8. ASSUME NEW c \in Calls, StoreAndPrune(c) PROVE OneProcessPerId'
    <2>1. UNCHANGED <<processId, reissuable>>
      BY <1>8 DEF StoreAndPrune, cleanupVars
    <2>2. \A i \in ProcessIds : processes'[i] \in {processes[i], c, NoCall}
      BY <1>8 DEF StoreAndPrune
    <2>3. \A d \in Calls : Stored(d)' => Stored(d) \/ d = c
      BY <2>2, ExecAssumption
    <2>4. stage[c] = "store" /\ stage' = [stage EXCEPT ![c] = "prune"]
      BY <1>8 DEF StoreAndPrune, Go
    <2>5. \A d \in Calls : UsesReservation(d)' => UsesReservation(d)
      BY <2>4
    <2>6. \A d \in Calls : Uses(d)' => Uses(d)
      BY <2>3, <2>4, <2>5
    <2> QED
      BY <2>1, <2>6, FewerUses
  <1>9. ASSUME NEW c \in Calls, TerminatePruned(c) PROVE OneProcessPerId'
    BY <1>9, FewerUses DEF TerminatePruned, Watch, storeVars, cleanupVars
  <1>10. ASSUME NEW c \in Calls, WarnModel(c) PROVE OneProcessPerId'
    BY <1>10, FewerUses DEF WarnModel, Watch, storeVars, cleanupVars
  <1>11. ASSUME NEW c \in Calls, RefreshCall(c) PROVE OneProcessPerId'
    <2>1. UNCHANGED <<processId, reissuable>>
      BY <1>11 DEF RefreshCall, callVars, cleanupVars
    <2>2. \A i \in ProcessIds : processes'[i] \in {processes[i], NoCall}
      BY <1>11 DEF RefreshCall, RefreshProcessState, Remove
    <2>3. \A d \in Calls : Stored(d)' => Stored(d)
      BY <2>2, ExecAssumption
    <2>4. \A d \in Calls : UsesReservation(d)' => UsesReservation(d)
      BY <1>11 DEF RefreshCall, callVars
    <2> QED
      BY <2>1, <2>3, <2>4, FewerUses
  <1>12. ASSUME NEW c \in Calls, EmitEnd(c) PROVE OneProcessPerId'
    BY <1>12, FewerUses DEF EmitEnd, Go, storeVars, cleanupVars
  <1>13. ASSUME NEW c \in Calls, ReleaseProcessId(c) PROVE OneProcessPerId'
    <2>1. UNCHANGED <<processId, reissuable>>
      BY <1>13 DEF ReleaseProcessId, Go, callVars, cleanupVars
    <2>2. \A i \in ProcessIds : processes'[i] \in {processes[i], NoCall}
      BY <1>13 DEF ReleaseProcessId, Go, RefreshProcessState, Remove
    <2>3. \A d \in Calls : Stored(d)' => Stored(d)
      BY <2>2, ExecAssumption
    <2>4. \A d \in Calls : UsesReservation(d)' => UsesReservation(d)
      BY <1>13 DEF ReleaseProcessId, Go, callVars
    <2> QED
      BY <2>1, <2>3, <2>4, FewerUses
  <1>14. ASSUME NEW c \in Calls, Return(c) PROVE OneProcessPerId'
    BY <1>14, FewerUses DEF Return, Go, storeVars, cleanupVars
  <1>15. ASSUME NEW c \in Calls, DropCall(c) PROVE OneProcessPerId'
    BY <1>15, FewerUses DEF DropCall, Go, storeVars, cleanupVars
  <1>16. ASSUME NEW w \in Writers, RefreshWrite(w) PROVE OneProcessPerId'
    <2>1. UNCHANGED <<processId, reissuable>>
      BY <1>16 DEF RefreshWrite, callVars, cleanupVars
    <2>2. \A i \in ProcessIds : processes'[i] \in {processes[i], NoCall}
      BY <1>16 DEF RefreshWrite, RefreshProcessState, Remove
    <2>3. \A d \in Calls : Stored(d)' => Stored(d)
      BY <2>2, ExecAssumption
    <2>4. \A d \in Calls : UsesReservation(d)' => UsesReservation(d)
      BY <1>16 DEF RefreshWrite, callVars
    <2> QED
      BY <2>1, <2>3, <2>4, FewerUses
  <1>17. CASE DrainStore
    <2>1. UNCHANGED processId /\ reissuable \subseteq reissuable'
      BY <1>17 DEF DrainStore, callVars
    <2>2. \A d \in Calls : ~Stored(d)' /\ (UsesReservation(d)' => UsesReservation(d))
      BY <1>17, ExecAssumption DEF DrainStore, callVars
    <2> QED
      BY <2>1, <2>2, FewerUses
  <1> QED
    BY <1>1, <1>2, <1>3, <1>4, <1>5, <1>6, <1>7, <1>8, <1>9, <1>10, <1>11, <1>12, <1>13,
       <1>14, <1>15, <1>16, <1>17
       DEF ExecNext, CallStep, CloseOutput, EndStep, EndStream, WriterStep, Quiet

-----------------------------------------------------------------------------
(* The entries taken out of the store *)

\* What a step may do to the entries that calls and writers have taken: keep one,
\* be done with it, or take one of a process that is over or gets pruned.
MayTake(x) ==
    \/ taken'[x] = NoCall /\ (x \in Calls => stage'[x] # "prune")
    \/ /\ taken'[x] = taken[x]
       /\ x \in Calls => stage'[x] = stage[x]
       /\ x \in Writers /\ taken[x] # NoCall => writing'[x] = writing[x]
    \/ /\ taken'[x] \in Calls /\ stage[taken'[x]] \in AfterStore
       /\ x \in Calls => stage'[x] \in {"prune", "unregister", "finish"}
       /\ x \in Writers => writing'[x] = NoId
       /\ \/ x \in Calls /\ stage'[x] = "prune"
          \/ process[taken'[x]] # "running"
          \/ processId[taken'[x]] \in reissuable

\* A process that may be in the store has its number, and is not started again.
Settled ==
    /\ \A d \in Calls : stage[d] \in AfterStore =>
          /\ stage'[d] \in AfterStore
          /\ processId'[d] = processId[d]
          /\ process'[d] = process[d] \/ process'[d] # "running"
    /\ reissuable \subseteq reissuable'

LEMMA TakesKept ==
    ASSUME IInv, ExecTypeOK', Settled, \A x \in Calls \cup Writers : MayTake(x)
    PROVE  Takes'
  <1> USE DEF IInv, ExecTypeOK, Takes, MayTake
  <1>1. ASSUME NEW c \in Calls, taken'[c] # NoCall
        PROVE  stage'[c] \in {"prune", "unregister", "finish"}
    BY <1>1
  <1>2. ASSUME NEW w \in Writers, taken'[w] # NoCall PROVE writing'[w] = NoId
    BY <1>2, ExecAssumption
  <1>3. ASSUME NEW c \in Calls, stage'[c] = "prune" PROVE taken'[c] # NoCall
    BY <1>3, ExecAssumption
  <1>4. ASSUME NEW x \in Calls \cup Writers, taken'[x] # NoCall
        PROVE  /\ stage'[taken'[x]] \in AfterStore
               /\ (x \in Calls => stage'[x] # "prune") =>
                     process'[taken'[x]] # "running" \/ processId'[taken'[x]] \in reissuable'
    <2>1. MayTake(x) /\ taken'[x] \in Calls
      BY <1>4
    <2>2. /\ stage[taken'[x]] \in AfterStore
          /\ (x \in Calls => stage'[x] # "prune") =>
                process[taken'[x]] # "running" \/ processId[taken'[x]] \in reissuable
      BY <1>4, <2>1
    <2> QED
      BY <2>1, <2>2 DEF Settled
  <1> QED
    BY <1>1, <1>2, <1>3, <1>4

LEMMA TakesStep ==
    ASSUME IInv, ExecTypeOK', [ExecNext]_execVars
    PROVE  Takes'
  <1> USE DEF IInv, ExecTypeOK, AfterStore
  <1>1. CASE \/ UNCHANGED execVars
    BY <1>1 DEF execVars, callVars, storeVars, cleanupVars, Takes
  <1>2. ASSUME NEW c \in Calls, AllocateProcessId(c) PROVE Takes'
    <2>1. \A d \in Calls : \/ stage[d] \in AfterStore => process'[d] = process[d]
                           \/ process'[d] # "running"
      BY <1>2 DEF AllocateProcessId, Go, storeVars, callVars
    <2>2. Settled
      BY <1>2, <2>1 DEF Settled, AllocateProcessId, Go, callVars, cleanupVars
    <2>3. \A x \in Calls \cup Writers : MayTake(x)
      BY <1>2, ExecAssumption DEF Takes, MayTake, AllocateProcessId, Go, callVars
    <2> QED
      BY <2>2, <2>3, TakesKept
  <1>3. ASSUME NEW c \in Calls, RefuseCommand(c) PROVE Takes'
    <2>1. \A d \in Calls : \/ stage[d] \in AfterStore => process'[d] = process[d]
                           \/ process'[d] # "running"
      BY <1>3 DEF RefuseCommand, Go, storeVars, callVars
    <2>2. Settled
      BY <1>3, <2>1 DEF Settled, RefuseCommand, Go, callVars, cleanupVars
    <2>3. \A x \in Calls \cup Writers : MayTake(x)
      BY <1>3, ExecAssumption DEF Takes, MayTake, RefuseCommand, Go, callVars
    <2> QED
      BY <2>2, <2>3, TakesKept
  <1>4. ASSUME NEW c \in Calls, OpenSession(c) PROVE Takes'
    <2>1. \A d \in Calls : \/ stage[d] \in AfterStore => process'[d] = process[d]
                           \/ process'[d] # "running"
      BY <1>4 DEF OpenSession, Go, storeVars, callVars
    <2>2. Settled
      BY <1>4, <2>1 DEF Settled, OpenSession, Go, callVars, cleanupVars
    <2>3. \A x \in Calls \cup Writers : MayTake(x)
      BY <1>4, ExecAssumption DEF Takes, MayTake, OpenSession, Go, callVars
    <2> QED
      BY <2>2, <2>3, TakesKept
  <1>5. ASSUME NEW c \in Calls, FailToOpen(c) PROVE Takes'
    <2>1. \A d \in Calls : \/ stage[d] \in AfterStore => process'[d] = process[d]
                           \/ process'[d] # "running"
      BY <1>5 DEF FailToOpen, Go, storeVars, callVars
    <2>2. Settled
      BY <1>5, <2>1 DEF Settled, FailToOpen, Go, callVars, cleanupVars
    <2>3. \A x \in Calls \cup Writers : MayTake(x)
      BY <1>5, ExecAssumption DEF Takes, MayTake, FailToOpen, Go, callVars
    <2> QED
      BY <2>2, <2>3, TakesKept
  <1>6. ASSUME NEW c \in Calls, EmitBegin(c) PROVE Takes'
    <2>1. \A d \in Calls : \/ stage[d] \in AfterStore => process'[d] = process[d]
                           \/ process'[d] # "running"
      BY <1>6 DEF EmitBegin, Go, storeVars, callVars
    <2>2. Settled
      BY <1>6, <2>1 DEF Settled, EmitBegin, Go, callVars, cleanupVars
    <2>3. \A x \in Calls \cup Writers : MayTake(x)
      BY <1>6, ExecAssumption DEF Takes, MayTake, EmitBegin, Go, callVars
    <2> QED
      BY <2>2, <2>3, TakesKept
  <1>7. ASSUME NEW c \in Calls, StoreWithRoom(c) PROVE Takes'
    <2>1. Terminate({})
      BY <1>7 DEF StoreWithRoom, Watch
    <2>2. \A d \in Calls : process'[d] = process[d] \/ process'[d] # "running"
      BY <2>1, TerminateKills
    <2>3. Settled
      BY <1>7, <2>2 DEF Settled, StoreWithRoom, Watch, callVars, cleanupVars
    <2>4. \A x \in Calls \cup Writers : MayTake(x)
      BY <1>7, ExecAssumption DEF Takes, MayTake, StoreWithRoom, Watch, callVars
    <2> QED
      BY <2>3, <2>4, TakesKept
  <1>8. ASSUME NEW c \in Calls, StoreAndPrune(c) PROVE Takes'
    <2>1. Terminate({}) /\ Go(c, "store", "prune") /\ UNCHANGED <<processId, writing, reissuable>>
      BY <1>8 DEF StoreAndPrune, cleanupVars
    <2>2. \A d \in Calls : process'[d] = process[d] \/ process'[d] # "running"
      BY <2>1, TerminateKills
    <2>3. Settled
      BY <2>1, <2>2 DEF Settled, Go
    <2>4. PICK pruned \in StoredCalls : taken' = [taken EXCEPT ![c] = pruned]
      BY <1>8 DEF StoreAndPrune
    <2>5. pruned \in Calls /\ stage[pruned] \in AfterStore
      BY <2>4, ExecAssumption DEF StoredCalls, Stored, Ids
    <2>6. \A x \in Calls \cup Writers : MayTake(x)
      BY <2>1, <2>4, <2>5 DEF MayTake, Go
    <2> QED
      BY <2>3, <2>6, TakesKept
  <1>9. ASSUME NEW c \in Calls, TerminatePruned(c) PROVE Takes'
    <2>1. Terminate({taken[c]})
      BY <1>9 DEF TerminatePruned, Watch
    <2>2. \A d \in Calls : process'[d] = process[d] \/ process'[d] # "running"
      BY <2>1, TerminateKills
    <2>3. Settled
      BY <1>9, <2>2 DEF Settled, TerminatePruned, Watch, callVars, cleanupVars
    <2>4. \A x \in Calls \cup Writers : MayTake(x)
      BY <1>9, ExecAssumption DEF Takes, MayTake, TerminatePruned, Watch, callVars
    <2> QED
      BY <2>3, <2>4, TakesKept
  <1>10. ASSUME NEW c \in Calls, WarnModel(c) PROVE Takes'
    <2>1. \A d \in Calls : \/ stage[d] \in AfterStore => process'[d] = process[d]
                           \/ process'[d] # "running"
      BY <1>10 DEF WarnModel, Watch, storeVars, callVars
    <2>2. Settled
      BY <1>10, <2>1 DEF Settled, WarnModel, Watch, callVars, cleanupVars
    <2>3. \A x \in Calls \cup Writers : MayTake(x)
      BY <1>10, ExecAssumption DEF Takes, MayTake, WarnModel, Watch, callVars
    <2> QED
      BY <2>2, <2>3, TakesKept
  <1>11. ASSUME NEW c \in Calls, RefreshCall(c) PROVE Takes'
    <2>1. /\ Terminate({}) /\ UNCHANGED <<processId, reissuable>>
          /\ processId[c] \in ProcessIds
          /\ RefreshProcessState(c, processId[c])
          /\ stage[c] = "collect" /\ UNCHANGED writing
          /\ stage' = [stage EXCEPT ![c] = IF taken' = taken THEN "done" ELSE "unregister"]
      BY <1>11 DEF RefreshCall, Ids, cleanupVars
    <2>2. \A d \in Calls : process'[d] = process[d] \/ process'[d] # "running"
      BY <2>1, TerminateKills
    <2>3. Settled
      BY <2>1, <2>2 DEF Settled
    <2>4. CASE taken' = taken
      <3>1. \A y \in Calls \cup Writers : MayTake(y)
        BY <2>1, <2>4, ExecAssumption DEF MayTake, Takes
      <3> QED
        BY <2>3, <3>1, TakesKept
    <2>5. CASE taken' # taken
      <3> DEFINE e == processes[processId[c]]
      <3>1. e \in Calls /\ process[e] = "exited" /\ taken' = [taken EXCEPT ![c] = e]
        BY <2>1, <2>5 DEF RefreshProcessState, Remove
      <3>2. stage[e] \in AfterStore
        BY <2>1, <3>1, ExecAssumption DEF Ids
      <3>3. \A y \in Calls \cup Writers : MayTake(y)
        BY <2>1, <2>5, <3>1, <3>2, ExecAssumption DEF MayTake
      <3> QED
        BY <2>3, <3>3, TakesKept
    <2> QED
      BY <2>4, <2>5
  <1>12. ASSUME NEW c \in Calls, EmitEnd(c) PROVE Takes'
    <2>1. \A d \in Calls : \/ stage[d] \in AfterStore => process'[d] = process[d]
                           \/ process'[d] # "running"
      BY <1>12 DEF EmitEnd, Go, storeVars, callVars
    <2>2. Settled
      BY <1>12, <2>1 DEF Settled, EmitEnd, Go, callVars, cleanupVars
    <2>3. \A x \in Calls \cup Writers : MayTake(x)
      BY <1>12, ExecAssumption DEF Takes, MayTake, EmitEnd, Go, callVars
    <2> QED
      BY <2>2, <2>3, TakesKept
  <1>13. ASSUME NEW c \in Calls, ReleaseProcessId(c) PROVE Takes'
    <2>1. /\ stage[c] \in {"failed", "release"}
          /\ stage' = [stage EXCEPT ![c] = IF stage[c] = "failed" THEN "unregister" ELSE "finish"]
          /\ Remove(c, processId[c])
          /\ UNCHANGED <<processId, writing, process, reissuable>>
      BY <1>13 DEF ReleaseProcessId, Go, cleanupVars
    <2>2. Settled
      BY <2>1 DEF Settled
    <2>3. processId[c] \in ProcessIds /\ taken' = [taken EXCEPT ![c] = processes[processId[c]]]
      BY <2>1 DEF Ids, Remove
    <2>4. CASE processes[processId[c]] = NoCall
      BY <2>1, <2>2, <2>3, <2>4, TakesKept DEF MayTake
    <2>5. CASE processes[processId[c]] # NoCall
      <3> DEFINE e == processes[processId[c]]
      <3>1. e \in Calls /\ stage[e] \in AfterStore /\ processId[e] = processId[c]
        BY <2>3, <2>5 DEF Ids
      <3>2. processId[e] \in reissuable
        BY <2>1, <2>3, <3>1 DEF OneProcessPerId, Uses, UsesReservation, Stored
      <3>3. \A x \in Calls \cup Writers : MayTake(x)
        BY <2>1, <2>3, <3>1, <3>2, ExecAssumption DEF MayTake
      <3> QED
        BY <2>2, <3>3, TakesKept
    <2> QED
      BY <2>4, <2>5
  <1>14. ASSUME NEW c \in Calls, UnregisterTaken(c) PROVE Takes'
    <2>1. Terminate({})
      BY <1>14 DEF UnregisterTaken
    <2>2. \A d \in Calls : process'[d] = process[d] \/ process'[d] # "running"
      BY <2>1, TerminateKills
    <2>3. Settled
      BY <1>14, <2>2 DEF Settled, UnregisterTaken, callVars, cleanupVars
    <2>4. \A x \in Calls \cup Writers : MayTake(x)
      BY <1>14, ExecAssumption DEF Takes, MayTake, UnregisterTaken, callVars
    <2> QED
      BY <2>3, <2>4, TakesKept
  <1>15. ASSUME NEW c \in Calls, Return(c) PROVE Takes'
    <2>1. Terminate({})
      BY <1>15 DEF Return
    <2>2. \A d \in Calls : process'[d] = process[d] \/ process'[d] # "running"
      BY <2>1, TerminateKills
    <2>3. Settled
      BY <1>15, <2>2 DEF Settled, Return, callVars, cleanupVars
    <2>4. \A x \in Calls \cup Writers : MayTake(x)
      BY <1>15, ExecAssumption DEF Takes, MayTake, Return, callVars
    <2> QED
      BY <2>3, <2>4, TakesKept
  <1>16. ASSUME NEW c \in Calls, DropCall(c) PROVE Takes'
    <2>1. Terminate({})
      BY <1>16 DEF DropCall
    <2>2. \A d \in Calls : process'[d] = process[d] \/ process'[d] # "running"
      BY <2>1, TerminateKills
    <2>3. Settled
      BY <1>16, <2>2 DEF Settled, DropCall, callVars, cleanupVars
    <2>4. \A x \in Calls \cup Writers : MayTake(x)
      BY <1>16, ExecAssumption DEF Takes, MayTake, DropCall, callVars
    <2> QED
      BY <2>3, <2>4, TakesKept
  <1>17. ASSUME NEW c \in Calls, Exit(c) PROVE Takes'
    <2>1. \A d \in Calls : \/ stage[d] \in AfterStore => process'[d] = process[d]
                           \/ process'[d] # "running"
      BY <1>17 DEF Exit, storeVars, callVars
    <2>2. Settled
      BY <1>17, <2>1 DEF Settled, Exit, callVars, cleanupVars
    <2>3. \A x \in Calls \cup Writers : MayTake(x)
      BY <1>17, ExecAssumption DEF Takes, MayTake, Exit, callVars
    <2> QED
      BY <2>2, <2>3, TakesKept
  <1>18. ASSUME NEW c \in Calls, CancelToken(c) PROVE Takes'
    <2>1. \A d \in Calls : \/ stage[d] \in AfterStore => process'[d] = process[d]
                           \/ process'[d] # "running"
      BY <1>18 DEF CancelToken, storeVars, callVars
    <2>2. Settled
      BY <1>18, <2>1 DEF Settled, CancelToken, callVars, cleanupVars
    <2>3. \A x \in Calls \cup Writers : MayTake(x)
      BY <1>18, ExecAssumption DEF Takes, MayTake, CancelToken, callVars
    <2> QED
      BY <2>2, <2>3, TakesKept
  <1>19. ASSUME NEW c \in Calls, StopStreaming(c) PROVE Takes'
    <2>1. \A d \in Calls : \/ stage[d] \in AfterStore => process'[d] = process[d]
                           \/ process'[d] # "running"
      BY <1>19 DEF StopStreaming, storeVars, callVars
    <2>2. Settled
      BY <1>19, <2>1 DEF Settled, StopStreaming, callVars, cleanupVars
    <2>3. \A x \in Calls \cup Writers : MayTake(x)
      BY <1>19, ExecAssumption DEF Takes, MayTake, StopStreaming, callVars
    <2> QED
      BY <2>2, <2>3, TakesKept
  <1>20. ASSUME NEW c \in Calls, WatchExit(c) PROVE Takes'
    <2>1. \A d \in Calls : \/ stage[d] \in AfterStore => process'[d] = process[d]
                           \/ process'[d] # "running"
      BY <1>20 DEF WatchExit, storeVars, callVars
    <2>2. Settled
      BY <1>20, <2>1 DEF Settled, WatchExit, callVars, cleanupVars
    <2>3. \A x \in Calls \cup Writers : MayTake(x)
      BY <1>20, ExecAssumption DEF Takes, MayTake, WatchExit, callVars
    <2> QED
      BY <2>2, <2>3, TakesKept
  <1>21. ASSUME NEW c \in Calls, ReportEnd(c) PROVE Takes'
    <2>1. Terminate({})
      BY <1>21 DEF ReportEnd
    <2>2. \A d \in Calls : process'[d] = process[d] \/ process'[d] # "running"
      BY <2>1, TerminateKills
    <2>3. Settled
      BY <1>21, <2>2 DEF Settled, ReportEnd, callVars, cleanupVars
    <2>4. \A x \in Calls \cup Writers : MayTake(x)
      BY <1>21, ExecAssumption DEF Takes, MayTake, ReportEnd, callVars
    <2> QED
      BY <2>3, <2>4, TakesKept
  <1>22. ASSUME NEW c \in Calls, TerminateDrained(c) PROVE Takes'
    <2>1. Terminate({c})
      BY <1>22 DEF TerminateDrained
    <2>2. \A d \in Calls : process'[d] = process[d] \/ process'[d] # "running"
      BY <2>1, TerminateKills
    <2>3. Settled
      BY <1>22, <2>2 DEF Settled, TerminateDrained, callVars, cleanupVars
    <2>4. \A x \in Calls \cup Writers : MayTake(x)
      BY <1>22, ExecAssumption DEF Takes, MayTake, TerminateDrained, callVars
    <2> QED
      BY <2>3, <2>4, TakesKept
  <1>23. ASSUME NEW w \in Writers, NEW i \in ProcessIds, PrepareWrite(w, i) PROVE Takes'
    <2>1. \A d \in Calls : \/ stage[d] \in AfterStore => process'[d] = process[d]
                           \/ process'[d] # "running"
      BY <1>23 DEF PrepareWrite, storeVars, callVars
    <2>2. Settled
      BY <1>23, <2>1 DEF Settled, PrepareWrite, callVars, cleanupVars
    <2>3. \A x \in Calls \cup Writers : MayTake(x)
      BY <1>23, ExecAssumption DEF Takes, MayTake, PrepareWrite, callVars
    <2> QED
      BY <2>2, <2>3, TakesKept
  <1>24. ASSUME NEW w \in Writers, RefreshWrite(w) PROVE Takes'
    <2>1. /\ Terminate({}) /\ UNCHANGED <<processId, reissuable>>
          /\ writing[w] \in ProcessIds
          /\ RefreshProcessState(w, writing[w])
          /\ writing[w] \in ProcessIds /\ UNCHANGED stage
          /\ writing' = [writing EXCEPT ![w] = NoId]
      BY <1>24 DEF RefreshWrite, Ids, cleanupVars
    <2>2. \A d \in Calls : process'[d] = process[d] \/ process'[d] # "running"
      BY <2>1, TerminateKills
    <2>3. Settled
      BY <2>1, <2>2 DEF Settled
    <2>4. CASE taken' = taken
      <3>1. \A y \in Calls \cup Writers : MayTake(y)
        BY <2>1, <2>4, ExecAssumption DEF MayTake, Takes
      <3> QED
        BY <2>3, <3>1, TakesKept
    <2>5. CASE taken' # taken
      <3> DEFINE e == processes[writing[w]]
      <3>1. e \in Calls /\ process[e] = "exited" /\ taken' = [taken EXCEPT ![w] = e]
        BY <2>1, <2>5 DEF RefreshProcessState, Remove
      <3>2. stage[e] \in AfterStore
        BY <2>1, <3>1, ExecAssumption DEF Ids
      <3>3. \A y \in Calls \cup Writers : MayTake(y)
        BY <2>1, <2>5, <3>1, <3>2, ExecAssumption DEF MayTake
      <3> QED
        BY <2>3, <3>3, TakesKept
    <2> QED
      BY <2>4, <2>5
  <1>25. ASSUME NEW w \in Writers, UnregisterWritten(w) PROVE Takes'
    <2>1. Terminate({})
      BY <1>25 DEF UnregisterWritten
    <2>2. \A d \in Calls : process'[d] = process[d] \/ process'[d] # "running"
      BY <2>1, TerminateKills
    <2>3. Settled
      BY <1>25, <2>2 DEF Settled, UnregisterWritten, callVars, cleanupVars
    <2>4. \A x \in Calls \cup Writers : MayTake(x)
      BY <1>25, ExecAssumption DEF Takes, MayTake, UnregisterWritten, callVars
    <2> QED
      BY <2>3, <2>4, TakesKept
  <1>26. ASSUME NEW w \in Writers, DropWriter(w) PROVE Takes'
    <2>1. Terminate({})
      BY <1>26 DEF DropWriter
    <2>2. \A d \in Calls : process'[d] = process[d] \/ process'[d] # "running"
      BY <2>1, TerminateKills
    <2>3. Settled
      BY <1>26, <2>2 DEF Settled, DropWriter, callVars, cleanupVars
    <2>4. \A x \in Calls \cup Writers : MayTake(x)
      BY <1>26, ExecAssumption DEF Takes, MayTake, DropWriter, callVars
    <2> QED
      BY <2>3, <2>4, TakesKept
  <1>27. CASE DrainStore
    <2>1. Terminate({})
      BY <1>27 DEF DrainStore
    <2>2. \A d \in Calls : process'[d] = process[d] \/ process'[d] # "running"
      BY <2>1, TerminateKills
    <2>3. Settled
      BY <1>27, <2>2 DEF Settled, DrainStore, callVars, cleanupVars
    <2>4. \A x \in Calls \cup Writers : MayTake(x)
      BY <1>27, ExecAssumption DEF Takes, MayTake, DrainStore, callVars
    <2> QED
      BY <2>3, <2>4, TakesKept
  <1> QED
    BY <1>1, <1>2, <1>3, <1>4, <1>5, <1>6, <1>7, <1>8, <1>9, <1>10, <1>11, <1>12, <1>13,
       <1>14, <1>15, <1>16, <1>17, <1>18, <1>19, <1>20, <1>21, <1>22, <1>23, <1>24, <1>25,
       <1>26, <1>27
       DEF ExecNext, CallStep, CloseOutput, EndStep, EndStream, WriterStep, Quiet

-----------------------------------------------------------------------------
(* The end of a process *)

LEMMA EndsStep ==
    ASSUME IInv, ExecTypeOK', [ExecNext]_execVars
    PROVE  Ends'
  <1> USE DEF IInv, ExecTypeOK, Ends
  <1>1. CASE \/ UNCHANGED execVars
    BY <1>1 DEF execVars, callVars, storeVars, endVars, cleanupVars
  <1>2. ASSUME NEW c \in Calls, AllocateProcessId(c) PROVE Ends'
    BY <1>2 DEF AllocateProcessId, Go, callVars, storeVars, endVars, cleanupVars
  <1>3. ASSUME NEW c \in Calls, RefuseCommand(c) PROVE Ends'
    BY <1>3 DEF RefuseCommand, Go, callVars, storeVars, endVars, cleanupVars
  <1>4. ASSUME NEW c \in Calls, OpenSession(c) PROVE Ends'
    BY <1>4 DEF OpenSession, Go, callVars, storeVars, endVars, cleanupVars
  <1>5. ASSUME NEW c \in Calls, FailToOpen(c) PROVE Ends'
    BY <1>5 DEF FailToOpen, Go, callVars, storeVars, endVars, cleanupVars
  <1>6. ASSUME NEW c \in Calls, EmitBegin(c) PROVE Ends'
    BY <1>6 DEF EmitBegin, Go, callVars, storeVars, endVars, cleanupVars
  <1>7. ASSUME NEW c \in Calls, StoreWithRoom(c) PROVE Ends'
    <2>1. Terminate({})
      BY <1>7 DEF StoreWithRoom
    <2>2. \A d \in Calls : \/ process'[d] = process[d]
                           \/ (process[d] = "running" /\ process'[d] = "killed")
      BY <2>1, TerminateKills DEF IInv
    <2> QED
      BY <1>7, <2>2 DEF StoreWithRoom, Watch, callVars, storeVars, endVars, cleanupVars
  <1>8. ASSUME NEW c \in Calls, StoreAndPrune(c) PROVE Ends'
    <2>1. Terminate({})
      BY <1>8 DEF StoreAndPrune
    <2>2. \A d \in Calls : \/ process'[d] = process[d]
                           \/ (process[d] = "running" /\ process'[d] = "killed")
      BY <2>1, TerminateKills DEF IInv
    <2> QED
      BY <1>8, <2>2 DEF StoreAndPrune, Go, callVars, storeVars, endVars, cleanupVars
  <1>9. ASSUME NEW c \in Calls, TerminatePruned(c) PROVE Ends'
    <2>1. Terminate({taken[c]})
      BY <1>9 DEF TerminatePruned
    <2>2. \A d \in Calls : \/ process'[d] = process[d]
                           \/ (process[d] = "running" /\ process'[d] = "killed")
      BY <2>1, TerminateKills DEF IInv
    <2> QED
      BY <1>9, <2>2 DEF TerminatePruned, Watch, callVars, storeVars, endVars, cleanupVars
  <1>10. ASSUME NEW c \in Calls, WarnModel(c) PROVE Ends'
    BY <1>10 DEF WarnModel, Watch, callVars, storeVars, endVars, cleanupVars
  <1>11. ASSUME NEW c \in Calls, RefreshCall(c) PROVE Ends'
    <2>1. Terminate({})
      BY <1>11 DEF RefreshCall
    <2>2. \A d \in Calls : \/ process'[d] = process[d]
                           \/ (process[d] = "running" /\ process'[d] = "killed")
      BY <2>1, TerminateKills DEF IInv
    <2> QED
      BY <1>11, <2>2 DEF RefreshCall, callVars, storeVars, endVars, cleanupVars
  <1>12. ASSUME NEW c \in Calls, EmitEnd(c) PROVE Ends'
    BY <1>12 DEF EmitEnd, Go, callVars, storeVars, endVars, cleanupVars
  <1>13. ASSUME NEW c \in Calls, ReleaseProcessId(c) PROVE Ends'
    BY <1>13 DEF ReleaseProcessId, Go, callVars, storeVars, endVars, cleanupVars
  <1>14. ASSUME NEW c \in Calls, UnregisterTaken(c) PROVE Ends'
    <2>1. Terminate({})
      BY <1>14 DEF UnregisterTaken
    <2>2. \A d \in Calls : \/ process'[d] = process[d]
                           \/ (process[d] = "running" /\ process'[d] = "killed")
      BY <2>1, TerminateKills DEF IInv
    <2> QED
      BY <1>14, <2>2 DEF UnregisterTaken, callVars, storeVars, endVars, cleanupVars
  <1>15. ASSUME NEW c \in Calls, Return(c) PROVE Ends'
    <2>1. Terminate({})
      BY <1>15 DEF Return
    <2>2. \A d \in Calls : \/ process'[d] = process[d]
                           \/ (process[d] = "running" /\ process'[d] = "killed")
      BY <2>1, TerminateKills DEF IInv
    <2> QED
      BY <1>15, <2>2 DEF Return, callVars, storeVars, endVars, cleanupVars
  <1>16. ASSUME NEW c \in Calls, DropCall(c) PROVE Ends'
    <2>1. Terminate({})
      BY <1>16 DEF DropCall
    <2>2. \A d \in Calls : \/ process'[d] = process[d]
                           \/ (process[d] = "running" /\ process'[d] = "killed")
      BY <2>1, TerminateKills DEF IInv
    <2> QED
      BY <1>16, <2>2 DEF DropCall, callVars, storeVars, endVars, cleanupVars
  <1>17. ASSUME NEW c \in Calls, Exit(c) PROVE Ends'
    BY <1>17 DEF Exit, callVars, storeVars, endVars, cleanupVars
  <1>18. ASSUME NEW c \in Calls, CancelToken(c) PROVE Ends'
    BY <1>18 DEF CancelToken, callVars, storeVars, endVars, cleanupVars
  <1>19. ASSUME NEW c \in Calls, StopStreaming(c) PROVE Ends'
    BY <1>19 DEF StopStreaming, callVars, storeVars, endVars, cleanupVars
  <1>20. ASSUME NEW c \in Calls, WatchExit(c) PROVE Ends'
    BY <1>20 DEF WatchExit, callVars, storeVars, endVars, cleanupVars
  <1>21. ASSUME NEW c \in Calls, ReportEnd(c) PROVE Ends'
    <2>1. Terminate({})
      BY <1>21 DEF ReportEnd
    <2>2. \A d \in Calls : \/ process'[d] = process[d]
                           \/ (process[d] = "running" /\ process'[d] = "killed")
      BY <2>1, TerminateKills DEF IInv
    <2> QED
      BY <1>21, <2>2 DEF ReportEnd, callVars, storeVars, endVars, cleanupVars
  <1>22. ASSUME NEW c \in Calls, TerminateDrained(c) PROVE Ends'
    <2>1. Terminate({c})
      BY <1>22 DEF TerminateDrained
    <2>2. \A d \in Calls : \/ process'[d] = process[d]
                           \/ (process[d] = "running" /\ process'[d] = "killed")
      BY <2>1, TerminateKills DEF IInv
    <2> QED
      BY <1>22, <2>2 DEF TerminateDrained, callVars, storeVars, endVars, cleanupVars
  <1>23. ASSUME NEW w \in Writers, NEW i \in ProcessIds, PrepareWrite(w, i) PROVE Ends'
    BY <1>23 DEF PrepareWrite, callVars, storeVars, endVars, cleanupVars
  <1>24. ASSUME NEW w \in Writers, RefreshWrite(w) PROVE Ends'
    <2>1. Terminate({})
      BY <1>24 DEF RefreshWrite
    <2>2. \A d \in Calls : \/ process'[d] = process[d]
                           \/ (process[d] = "running" /\ process'[d] = "killed")
      BY <2>1, TerminateKills DEF IInv
    <2> QED
      BY <1>24, <2>2 DEF RefreshWrite, callVars, storeVars, endVars, cleanupVars
  <1>25. ASSUME NEW w \in Writers, UnregisterWritten(w) PROVE Ends'
    <2>1. Terminate({})
      BY <1>25 DEF UnregisterWritten
    <2>2. \A d \in Calls : \/ process'[d] = process[d]
                           \/ (process[d] = "running" /\ process'[d] = "killed")
      BY <2>1, TerminateKills DEF IInv
    <2> QED
      BY <1>25, <2>2 DEF UnregisterWritten, callVars, storeVars, endVars, cleanupVars
  <1>26. ASSUME NEW w \in Writers, DropWriter(w) PROVE Ends'
    <2>1. Terminate({})
      BY <1>26 DEF DropWriter
    <2>2. \A d \in Calls : \/ process'[d] = process[d]
                           \/ (process[d] = "running" /\ process'[d] = "killed")
      BY <2>1, TerminateKills DEF IInv
    <2> QED
      BY <1>26, <2>2 DEF DropWriter, callVars, storeVars, endVars, cleanupVars
  <1>27. CASE DrainStore
    <2>1. Terminate({})
      BY <1>27 DEF DrainStore
    <2>2. \A d \in Calls : \/ process'[d] = process[d]
                           \/ (process[d] = "running" /\ process'[d] = "killed")
      BY <2>1, TerminateKills DEF IInv
    <2> QED
      BY <1>27, <2>2 DEF DrainStore, callVars, storeVars, endVars, cleanupVars
  <1> QED
    BY <1>1, <1>2, <1>3, <1>4, <1>5, <1>6, <1>7, <1>8, <1>9, <1>10, <1>11, <1>12, <1>13,
       <1>14, <1>15, <1>16, <1>17, <1>18, <1>19, <1>20, <1>21, <1>22, <1>23, <1>24, <1>25,
       <1>26, <1>27
       DEF ExecNext, CallStep, CloseOutput, EndStep, EndStream, WriterStep, Quiet

-----------------------------------------------------------------------------
(* Nothing is left behind *)

\* Each process that somebody cares for goes on to be cared for, or has no more
\* need of it.
Handed ==
    \A d \in Calls : CaredFor(d) =>
        \/ CaredFor(d)'
        \/ d \in abandoned' \/ processId[d] \in reissuable'
        \/ process'[d] # "running" /\ d \notin netApprovals'

LEMMA CareKept ==
    ASSUME IInv, Handed, abandoned \subseteq abandoned', reissuable \subseteq reissuable',
           \A d \in Calls :
              /\ process'[d] = "running" => process[d] = "running"
              /\ d \in netApprovals' => d \in netApprovals
              /\ stage[d] # "off" => processId'[d] = processId[d]
    PROVE  NothingLeftBehind'
  <1> SUFFICES ASSUME NEW d \in Calls, process'[d] = "running" \/ d \in netApprovals'
               PROVE  CaredFor(d)' \/ d \in abandoned' \/ processId'[d] \in reissuable'
    BY DEF NothingLeftBehind
  <1>1. process[d] = "running" \/ d \in netApprovals
    OBVIOUS
  <1>2. processId'[d] = processId[d]
    BY <1>1 DEF IInv, Ends
  <1> QED
    BY <1>1, <1>2 DEF IInv, NothingLeftBehind, Handed

\* An entry that is taken out of the store is in the hands of who took it.
LEMMA RemoveHands ==
    ASSUME IInv, NEW x \in Calls \cup Writers, NEW i \in ProcessIds, Remove(x, i),
           taken[x] = NoCall, NEW d \in Calls,
           Stored(d) \/ \E y \in Calls \cup Writers : taken[y] = d
    PROVE  Stored(d)' \/ \E y \in Calls \cup Writers : taken'[y] = d
  <1> USE DEF IInv, ExecTypeOK, Stored
  <1>1. /\ \A j \in ProcessIds \ {i} : processes'[j] = processes[j]
        /\ taken'[x] = processes[i]
        /\ \A y \in (Calls \cup Writers) \ {x} : taken'[y] = taken[y]
    BY DEF Remove
  <1>2. CASE Stored(d)
    BY <1>1, <1>2
  <1>3. CASE \E y \in Calls \cup Writers : taken[y] = d
    <2>1. PICK y \in Calls \cup Writers : taken[y] = d
      BY <1>3
    <2>2. y # x
      BY <2>1, ExecAssumption
    <2> QED
      BY <1>1, <2>1, <2>2
  <1> QED
    BY <1>2, <1>3

\* A process that is stored only displaces one whose number may be reissued.
LEMMA StoreDisplaces ==
    ASSUME IInv, NEW c \in Calls, stage[c] = "store", NEW i \in ProcessIds,
           processes[i] \in Calls, i = processId[c]
    PROVE  i \in reissuable
  <1>1. processes[i] # NoCall
    BY ExecAssumption
  <1>2. processId[processes[i]] = i /\ stage[processes[i]] # "store" /\ Stored(processes[i])
    BY <1>1 DEF IInv, Ids, AfterStore, Stored
  <1> QED
    BY <1>2 DEF IInv, OneProcessPerId, Uses, UsesReservation

LEMMA LeftStep ==
    ASSUME IInv, ExecTypeOK', [ExecNext]_execVars
    PROVE  NothingLeftBehind'
  <1> USE DEF IInv, ExecTypeOK
  <1>1. CASE \/ UNCHANGED execVars
    BY <1>1 DEF execVars, callVars, storeVars, cleanupVars, NothingLeftBehind, CaredFor, Stored
  <1>2. ASSUME NEW c \in Calls, AllocateProcessId(c) PROVE NothingLeftBehind'
    <2>1. \A d \in Calls : process'[d] = "running" => process[d] = "running"
      BY <1>2 DEF AllocateProcessId, Go, storeVars, callVars
    <2>2. /\ abandoned \subseteq abandoned' /\ reissuable \subseteq reissuable'
          /\ \A d \in Calls :
                /\ d \in netApprovals' => d \in netApprovals
                /\ stage[d] # "off" => processId'[d] = processId[d]
      BY <1>2 DEF AllocateProcessId, Go, callVars, storeVars, cleanupVars
    <2>3. Handed
      BY <1>2 DEF Handed, CaredFor, Stored, AllocateProcessId, Go, callVars, storeVars, cleanupVars
    <2> QED
      BY <2>1, <2>2, <2>3, CareKept
  <1>3. ASSUME NEW c \in Calls, RefuseCommand(c) PROVE NothingLeftBehind'
    <2>1. \A d \in Calls : process'[d] = "running" => process[d] = "running"
      BY <1>3 DEF RefuseCommand, Go, storeVars, callVars
    <2>2. /\ abandoned \subseteq abandoned' /\ reissuable \subseteq reissuable'
          /\ \A d \in Calls :
                /\ d \in netApprovals' => d \in netApprovals
                /\ stage[d] # "off" => processId'[d] = processId[d]
      BY <1>3 DEF RefuseCommand, Go, callVars, storeVars, cleanupVars
    <2>3. Handed
      BY <1>3 DEF Handed, CaredFor, Stored, RefuseCommand, Go, callVars, storeVars, cleanupVars
    <2> QED
      BY <2>1, <2>2, <2>3, CareKept
  <1>4. ASSUME NEW c \in Calls, OpenSession(c) PROVE NothingLeftBehind'
    <2>1. /\ stage[c] = "open" /\ stage' = [stage EXCEPT ![c] = "begin"]
          /\ netApprovals' = netApprovals \cup {c}
          /\ \A d \in Calls \ {c} : process'[d] = process[d]
          /\ UNCHANGED <<processId, taken, processes, terminating, abandoned, reissuable>>
      BY <1>4 DEF OpenSession, Go, storeVars, cleanupVars
    <2>2. CaredFor(c)'
      BY <2>1 DEF CaredFor
    <2>3. \A d \in Calls \ {c} : CaredFor(d) => CaredFor(d)'
      BY <2>1 DEF CaredFor, Stored
    <2> QED
      BY <2>1, <2>2, <2>3 DEF NothingLeftBehind
  <1>5. ASSUME NEW c \in Calls, FailToOpen(c) PROVE NothingLeftBehind'
    <2>1. \A d \in Calls : process'[d] = "running" => process[d] = "running"
      BY <1>5 DEF FailToOpen, Go, storeVars, callVars
    <2>2. /\ abandoned \subseteq abandoned' /\ reissuable \subseteq reissuable'
          /\ \A d \in Calls :
                /\ d \in netApprovals' => d \in netApprovals
                /\ stage[d] # "off" => processId'[d] = processId[d]
      BY <1>5 DEF FailToOpen, Go, callVars, storeVars, cleanupVars
    <2>3. Handed
      BY <1>5 DEF Handed, CaredFor, Stored, FailToOpen, Go, callVars, storeVars, cleanupVars
    <2> QED
      BY <2>1, <2>2, <2>3, CareKept
  <1>6. ASSUME NEW c \in Calls, EmitBegin(c) PROVE NothingLeftBehind'
    <2>1. \A d \in Calls : process'[d] = "running" => process[d] = "running"
      BY <1>6 DEF EmitBegin, Go, storeVars, callVars
    <2>2. /\ abandoned \subseteq abandoned' /\ reissuable \subseteq reissuable'
          /\ \A d \in Calls :
                /\ d \in netApprovals' => d \in netApprovals
                /\ stage[d] # "off" => processId'[d] = processId[d]
      BY <1>6 DEF EmitBegin, Go, callVars, storeVars, cleanupVars
    <2>3. Handed
      BY <1>6 DEF Handed, CaredFor, Stored, EmitBegin, Go, callVars, storeVars, cleanupVars
    <2> QED
      BY <2>1, <2>2, <2>3, CareKept
  <1>7. ASSUME NEW c \in Calls, StoreWithRoom(c) PROVE NothingLeftBehind'
    <2>1. Terminate({})
      BY <1>7 DEF StoreWithRoom
    <2>2. \A d \in Calls : process'[d] = "running" => process[d] = "running"
      BY <2>1, TerminateKills
    <2>3. /\ abandoned \subseteq abandoned' /\ reissuable \subseteq reissuable'
          /\ \A d \in Calls :
                /\ d \in netApprovals' => d \in netApprovals
                /\ stage[d] # "off" => processId'[d] = processId[d]
      BY <1>7 DEF StoreWithRoom, callVars, storeVars, cleanupVars
    <2>4. stage[c] = "store" /\ processId[c] \in ProcessIds
      BY <1>7 DEF StoreWithRoom, Ids, Go
    <2>5. processes'[processId[c]] = c
      BY <1>7, <2>4 DEF StoreWithRoom
    <2>6. Stored(c)'
      BY <2>4, <2>5 DEF Stored
    <2>7. ASSUME NEW d \in Calls, d # c, CaredFor(d)
          PROVE  CaredFor(d)' \/ processId[d] \in reissuable'
      <3>1. CASE Stored(d)
        <4>1. PICK i \in ProcessIds : processes[i] = d
          BY <3>1 DEF Stored
        <4>2. CASE i = processId[c]
          <5>1. i \in reissuable
            BY <2>4, <4>1, <4>2, StoreDisplaces
          <5>2. processId[d] = i
            BY <4>1, ExecAssumption DEF Ids
          <5> QED
            BY <2>3, <5>1, <5>2
        <4>3. CASE i # processId[c]
          <5>1. processes'[i] = d
            BY <1>7, <4>1, <4>3 DEF StoreWithRoom
          <5> QED
            BY <5>1 DEF CaredFor, Stored
        <4> QED
          BY <4>2, <4>3
      <3>2. CASE ~Stored(d)
        BY <1>7, <2>7, <3>2 DEF CaredFor, StoreWithRoom, Watch, cleanupVars
      <3> QED
        BY <3>1, <3>2
    <2>8. Handed
      BY <2>6, <2>7 DEF Handed, CaredFor
    <2> QED
      BY <2>2, <2>3, <2>8, CareKept
  <1>8. ASSUME NEW c \in Calls, StoreAndPrune(c) PROVE NothingLeftBehind'
    <2>1. Terminate({})
      BY <1>8 DEF StoreAndPrune
    <2>2. \A d \in Calls : process'[d] = "running" => process[d] = "running"
      BY <2>1, TerminateKills
    <2>3. /\ abandoned \subseteq abandoned' /\ reissuable \subseteq reissuable'
          /\ \A d \in Calls :
                /\ d \in netApprovals' => d \in netApprovals
                /\ stage[d] # "off" => processId'[d] = processId[d]
      BY <1>8 DEF StoreAndPrune, callVars, storeVars, cleanupVars
    <2>4. stage[c] = "store" /\ processId[c] \in ProcessIds
      BY <1>8 DEF StoreAndPrune, Ids, Go
    <2>5. processes'[processId[c]] = c
      BY <1>8, <2>4 DEF StoreAndPrune
    <2>6. Stored(c)'
      BY <2>4, <2>5 DEF Stored
    <2>7. PICK pruned \in StoredCalls :
              /\ processes' = [i \in ProcessIds |->
                     IF i = processId[c] THEN c
                     ELSE IF processes[i] = pruned THEN NoCall ELSE processes[i]]
              /\ taken' = [taken EXCEPT ![c] = pruned]
      BY <1>8 DEF StoreAndPrune
    <2>8. taken[c] = NoCall /\ taken'[c] = pruned
          /\ \A y \in (Calls \cup Writers) \ {c} : taken'[y] = taken[y]
      BY <2>4, <2>7 DEF Takes
    <2>9. stage' = [stage EXCEPT ![c] = "prune"] /\ UNCHANGED terminating
      BY <1>8 DEF StoreAndPrune, Go, cleanupVars
    <2>10. ASSUME NEW d \in Calls, d # c, CaredFor(d)
           PROVE  CaredFor(d)' \/ processId[d] \in reissuable'
      <3>1. CASE d = pruned
        BY <2>8, <3>1 DEF CaredFor
      <3>2. CASE d # pruned /\ Stored(d)
        <4>1. PICK i \in ProcessIds : processes[i] = d
          BY <3>2 DEF Stored
        <4>2. CASE i = processId[c]
          <5>1. i \in reissuable
            BY <2>4, <4>1, <4>2, StoreDisplaces
          <5>2. processId[d] = i
            BY <4>1, ExecAssumption DEF Ids
          <5> QED
            BY <2>3, <5>1, <5>2
        <4>3. CASE i # processId[c]
          <5>1. processes'[i] = d
            BY <2>7, <3>2, <4>1, <4>3
          <5> QED
            BY <5>1 DEF CaredFor, Stored
        <4> QED
          BY <4>2, <4>3
      <3>3. CASE \E y \in Calls \cup Writers : taken[y] = d
        <4>1. PICK y \in Calls \cup Writers : taken[y] = d
          BY <3>3
        <4>2. y # c
          BY <2>8, <4>1, ExecAssumption
        <4> QED
          BY <2>8, <4>1, <4>2 DEF CaredFor
      <3>4. CASE d \in terminating
        BY <2>9, <3>4 DEF CaredFor
      <3>5. CASE stage[d] \in {"begin", "store", "short", "release", "finish"}
        BY <2>9, <2>10, <3>5 DEF CaredFor
      <3> QED
        BY <2>10, <3>1, <3>2, <3>3, <3>4, <3>5 DEF CaredFor
    <2>11. Handed
      BY <2>6, <2>10 DEF Handed, CaredFor
    <2> QED
      BY <2>2, <2>3, <2>11, CareKept
  <1>9. ASSUME NEW c \in Calls, TerminatePruned(c) PROVE NothingLeftBehind'
    <2>1. Terminate({taken[c]})
      BY <1>9 DEF TerminatePruned
    <2>2. \A d \in Calls : process'[d] = "running" => process[d] = "running"
      BY <2>1, TerminateKills
    <2>3. /\ abandoned \subseteq abandoned' /\ reissuable \subseteq reissuable'
          /\ \A d \in Calls :
                /\ d \in netApprovals' => d \in netApprovals
                /\ stage[d] # "off" => processId'[d] = processId[d]
      BY <1>9 DEF TerminatePruned, callVars, storeVars, cleanupVars
    <2>4. /\ stage[c] = "prune" /\ netApprovals' = netApprovals \ {taken[c]}
          /\ taken' = [taken EXCEPT ![c] = NoCall]
          /\ \A d \in Calls : d # c => stage'[d] = stage[d]
          /\ UNCHANGED <<processId, processes, terminating, reissuable>>
      BY <1>9 DEF TerminatePruned, Watch, storeVars, cleanupVars
    <2>5. \A d \in Calls : d = taken[c] => process'[d] # "running"
      BY <2>1, TerminateKills
    <2>6. ASSUME NEW d \in Calls, d = taken[c]
          PROVE  process'[d] # "running" /\ d \notin netApprovals'
      BY <2>4, <2>5, <2>6
    <2>7. ASSUME NEW d \in Calls, d # taken[c], CaredFor(d) PROVE CaredFor(d)'
      BY <2>4, <2>7 DEF CaredFor, Stored
    <2>8. Handed
      BY <2>6, <2>7 DEF Handed
    <2> QED
      BY <2>2, <2>3, <2>8, CareKept
  <1>10. ASSUME NEW c \in Calls, WarnModel(c) PROVE NothingLeftBehind'
    <2>1. \A d \in Calls : process'[d] = "running" => process[d] = "running"
      BY <1>10 DEF WarnModel, Watch, storeVars, callVars
    <2>2. /\ abandoned \subseteq abandoned' /\ reissuable \subseteq reissuable'
          /\ \A d \in Calls :
                /\ d \in netApprovals' => d \in netApprovals
                /\ stage[d] # "off" => processId'[d] = processId[d]
      BY <1>10 DEF WarnModel, Watch, callVars, storeVars, cleanupVars
    <2>3. Handed
      BY <1>10 DEF Handed, CaredFor, Stored, WarnModel, Watch, callVars, storeVars, cleanupVars
    <2> QED
      BY <2>1, <2>2, <2>3, CareKept
  <1>11. ASSUME NEW c \in Calls, RefreshCall(c) PROVE NothingLeftBehind'
    <2>1. Terminate({})
      BY <1>11 DEF RefreshCall
    <2>2. \A d \in Calls : process'[d] = "running" => process[d] = "running"
      BY <2>1, TerminateKills
    <2>3. /\ abandoned \subseteq abandoned' /\ reissuable \subseteq reissuable'
          /\ \A d \in Calls :
                /\ d \in netApprovals' => d \in netApprovals
                /\ stage[d] # "off" => processId'[d] = processId[d]
      BY <1>11 DEF RefreshCall, callVars, storeVars, cleanupVars
    <2>4. /\ processId[c] \in ProcessIds /\ taken[c] = NoCall /\ UNCHANGED terminating
          /\ RefreshProcessState(c, processId[c])
          /\ \A d \in Calls : stage[d] \in {"begin", "store", "short", "release", "finish"} =>
                stage'[d] = stage[d]
      BY <1>11, ExecAssumption DEF RefreshCall, Ids, Takes, cleanupVars
    <2>5. CASE Remove(c, processId[c])
      <3>1. \A d \in Calls : CaredFor(d) => CaredFor(d)'
        BY <2>4, <2>5, RemoveHands DEF CaredFor
      <3> QED
        BY <2>2, <2>3, <3>1, CareKept DEF Handed
    <2>6. CASE UNCHANGED <<processes, reserved, taken>>
      <3>1. \A d \in Calls : CaredFor(d) => CaredFor(d)'
        BY <2>4, <2>6 DEF CaredFor, Stored
      <3> QED
        BY <2>2, <2>3, <3>1, CareKept DEF Handed
    <2> QED
      BY <2>4, <2>5, <2>6 DEF RefreshProcessState
  <1>12. ASSUME NEW c \in Calls, EmitEnd(c) PROVE NothingLeftBehind'
    <2>1. \A d \in Calls : process'[d] = "running" => process[d] = "running"
      BY <1>12 DEF EmitEnd, Go, storeVars, callVars
    <2>2. /\ abandoned \subseteq abandoned' /\ reissuable \subseteq reissuable'
          /\ \A d \in Calls :
                /\ d \in netApprovals' => d \in netApprovals
                /\ stage[d] # "off" => processId'[d] = processId[d]
      BY <1>12 DEF EmitEnd, Go, callVars, storeVars, cleanupVars
    <2>3. Handed
      BY <1>12 DEF Handed, CaredFor, Stored, EmitEnd, Go, callVars, storeVars, cleanupVars
    <2> QED
      BY <2>1, <2>2, <2>3, CareKept
  <1>13. ASSUME NEW c \in Calls, ReleaseProcessId(c) PROVE NothingLeftBehind'
    <2>1. \A d \in Calls : process'[d] = "running" => process[d] = "running"
      BY <1>13 DEF ReleaseProcessId, Go, storeVars, callVars
    <2>2. /\ abandoned \subseteq abandoned' /\ reissuable \subseteq reissuable'
          /\ \A d \in Calls :
                /\ d \in netApprovals' => d \in netApprovals
                /\ stage[d] # "off" => processId'[d] = processId[d]
      BY <1>13 DEF ReleaseProcessId, Go, callVars, storeVars, cleanupVars
    <2>3. /\ processId[c] \in ProcessIds /\ taken[c] = NoCall /\ UNCHANGED <<terminating, process>>
          /\ Remove(c, processId[c])
          /\ stage' = [stage EXCEPT ![c] = IF stage[c] = "failed" THEN "unregister" ELSE "finish"]
          /\ stage[c] \in {"failed", "release"}
      BY <1>13 DEF ReleaseProcessId, Go, Ids, Takes, cleanupVars
    <2>4. ASSUME NEW d \in Calls, CaredFor(d) PROVE CaredFor(d)'
      <3>1. CASE stage[d] \in {"begin", "store", "short", "release", "finish"}
        BY <2>3, <3>1 DEF CaredFor
      <3>2. CASE d \in terminating
        BY <2>3, <3>2 DEF CaredFor
      <3> QED
        BY <2>3, <2>4, <3>1, <3>2, RemoveHands DEF CaredFor
    <2>5. Handed
      BY <2>4 DEF Handed
    <2> QED
      BY <2>1, <2>2, <2>5, CareKept
  <1>14. ASSUME NEW c \in Calls, UnregisterTaken(c) PROVE NothingLeftBehind'
    <2>1. Terminate({})
      BY <1>14 DEF UnregisterTaken
    <2>2. \A d \in Calls : process'[d] = "running" => process[d] = "running"
      BY <2>1, TerminateKills
    <2>3. /\ abandoned \subseteq abandoned' /\ reissuable \subseteq reissuable'
          /\ \A d \in Calls :
                /\ d \in netApprovals' => d \in netApprovals
                /\ stage[d] # "off" => processId'[d] = processId[d]
      BY <1>14 DEF UnregisterTaken, callVars, storeVars, cleanupVars
    <2>4. /\ taken[c] # NoCall /\ netApprovals' = netApprovals \ {taken[c]}
          /\ taken' = [taken EXCEPT ![c] = NoCall]
          /\ UNCHANGED <<stage, processId, processes, terminating, reissuable>>
      BY <1>14 DEF UnregisterTaken, storeVars, cleanupVars
    <2>5. process[taken[c]] # "running" \/ processId[taken[c]] \in reissuable
      BY <1>14, <2>4, ExecAssumption DEF Takes, UnregisterTaken
    <2>6. ASSUME NEW d \in Calls, d = taken[c]
          PROVE  processId[d] \in reissuable' \/ (process'[d] # "running" /\ d \notin netApprovals')
      BY <2>2, <2>4, <2>5, <2>6
    <2>7. ASSUME NEW d \in Calls, d # taken[c], CaredFor(d) PROVE CaredFor(d)'
      BY <2>4, <2>7 DEF CaredFor, Stored
    <2>8. Handed
      BY <2>6, <2>7 DEF Handed
    <2> QED
      BY <2>2, <2>3, <2>8, CareKept
  <1>15. ASSUME NEW c \in Calls, Return(c) PROVE NothingLeftBehind'
    <2>1. Terminate({})
      BY <1>15 DEF Return
    <2>2. \A d \in Calls : process'[d] = "running" => process[d] = "running"
      BY <2>1, TerminateKills
    <2>3. /\ abandoned \subseteq abandoned' /\ reissuable \subseteq reissuable'
          /\ \A d \in Calls :
                /\ d \in netApprovals' => d \in netApprovals
                /\ stage[d] # "off" => processId'[d] = processId[d]
      BY <1>15 DEF Return, callVars, storeVars, cleanupVars
    <2>4. /\ stage[c] \in {"unregister", "finish"}
          /\ stage' = [stage EXCEPT ![c] = "done"]
          /\ stage[c] = "finish" => c \notin netApprovals'
          /\ UNCHANGED <<processId, taken, processes, terminating>>
      BY <1>15 DEF Return, storeVars, cleanupVars
    <2>5. stage[c] = "finish" => process'[c] # "running"
      BY <2>2 DEF Ends
    <2>6. \A d \in Calls : d # c /\ CaredFor(d) => CaredFor(d)'
      BY <2>4 DEF CaredFor, Stored
    <2>7. CaredFor(c) => CaredFor(c)' \/ stage[c] = "finish"
      BY <2>4 DEF CaredFor, Stored
    <2>8. Handed
      BY <2>4, <2>5, <2>6, <2>7 DEF Handed
    <2> QED
      BY <2>2, <2>3, <2>8, CareKept
  <1>16. ASSUME NEW c \in Calls, DropCall(c) PROVE NothingLeftBehind'
    <2>1. Terminate({})
      BY <1>16 DEF DropCall
    <2>2. \A d \in Calls : process'[d] = "running" => process[d] = "running"
      BY <2>1, TerminateKills
    <2>3. /\ abandoned \subseteq abandoned' /\ reissuable \subseteq reissuable'
          /\ \A d \in Calls :
                /\ d \in netApprovals' => d \in netApprovals
                /\ stage[d] # "off" => processId'[d] = processId[d]
      BY <1>16 DEF DropCall, callVars, storeVars, cleanupVars
    <2>4. /\ stage' = [stage EXCEPT ![c] = "dropped"]
          /\ taken' = [taken EXCEPT ![c] = NoCall]
          /\ \A d \in Calls : d = taken[c] => d \in abandoned'
          /\ stage[c] \in {"begin", "store", "short", "release", "finish"} => c \in abandoned'
          /\ UNCHANGED <<processes, terminating>>
      BY <1>16, ExecAssumption DEF DropCall, storeVars, cleanupVars
    <2>5. ASSUME NEW d \in Calls, CaredFor(d), d \notin abandoned' PROVE CaredFor(d)'
      BY <2>4, <2>5 DEF CaredFor, Stored
    <2>6. Handed
      BY <2>5 DEF Handed
    <2> QED
      BY <2>2, <2>3, <2>6, CareKept
  <1>17. ASSUME NEW c \in Calls, Exit(c) PROVE NothingLeftBehind'
    <2>1. \A d \in Calls : process'[d] = "running" => process[d] = "running"
      BY <1>17 DEF Exit, storeVars, callVars
    <2>2. /\ abandoned \subseteq abandoned' /\ reissuable \subseteq reissuable'
          /\ \A d \in Calls :
                /\ d \in netApprovals' => d \in netApprovals
                /\ stage[d] # "off" => processId'[d] = processId[d]
      BY <1>17 DEF Exit, callVars, storeVars, cleanupVars
    <2>3. Handed
      BY <1>17 DEF Handed, CaredFor, Stored, Exit, callVars, storeVars, cleanupVars
    <2> QED
      BY <2>1, <2>2, <2>3, CareKept
  <1>18. ASSUME NEW c \in Calls, CancelToken(c) PROVE NothingLeftBehind'
    <2>1. \A d \in Calls : process'[d] = "running" => process[d] = "running"
      BY <1>18 DEF CancelToken, storeVars, callVars
    <2>2. /\ abandoned \subseteq abandoned' /\ reissuable \subseteq reissuable'
          /\ \A d \in Calls :
                /\ d \in netApprovals' => d \in netApprovals
                /\ stage[d] # "off" => processId'[d] = processId[d]
      BY <1>18 DEF CancelToken, callVars, storeVars, cleanupVars
    <2>3. Handed
      BY <1>18 DEF Handed, CaredFor, Stored, CancelToken, callVars, storeVars, cleanupVars
    <2> QED
      BY <2>1, <2>2, <2>3, CareKept
  <1>19. ASSUME NEW c \in Calls, StopStreaming(c) PROVE NothingLeftBehind'
    <2>1. \A d \in Calls : process'[d] = "running" => process[d] = "running"
      BY <1>19 DEF StopStreaming, storeVars, callVars
    <2>2. /\ abandoned \subseteq abandoned' /\ reissuable \subseteq reissuable'
          /\ \A d \in Calls :
                /\ d \in netApprovals' => d \in netApprovals
                /\ stage[d] # "off" => processId'[d] = processId[d]
      BY <1>19 DEF StopStreaming, callVars, storeVars, cleanupVars
    <2>3. Handed
      BY <1>19 DEF Handed, CaredFor, Stored, StopStreaming, callVars, storeVars, cleanupVars
    <2> QED
      BY <2>1, <2>2, <2>3, CareKept
  <1>20. ASSUME NEW c \in Calls, WatchExit(c) PROVE NothingLeftBehind'
    <2>1. \A d \in Calls : process'[d] = "running" => process[d] = "running"
      BY <1>20 DEF WatchExit, storeVars, callVars
    <2>2. /\ abandoned \subseteq abandoned' /\ reissuable \subseteq reissuable'
          /\ \A d \in Calls :
                /\ d \in netApprovals' => d \in netApprovals
                /\ stage[d] # "off" => processId'[d] = processId[d]
      BY <1>20 DEF WatchExit, callVars, storeVars, cleanupVars
    <2>3. Handed
      BY <1>20 DEF Handed, CaredFor, Stored, WatchExit, callVars, storeVars, cleanupVars
    <2> QED
      BY <2>1, <2>2, <2>3, CareKept
  <1>21. ASSUME NEW c \in Calls, ReportEnd(c) PROVE NothingLeftBehind'
    <2>1. Terminate({})
      BY <1>21 DEF ReportEnd
    <2>2. \A d \in Calls : process'[d] = "running" => process[d] = "running"
      BY <2>1, TerminateKills
    <2>3. /\ abandoned \subseteq abandoned' /\ reissuable \subseteq reissuable'
          /\ \A d \in Calls :
                /\ d \in netApprovals' => d \in netApprovals
                /\ stage[d] # "off" => processId'[d] = processId[d]
      BY <1>21 DEF ReportEnd, callVars, storeVars, cleanupVars
    <2>4. Handed
      BY <1>21 DEF Handed, CaredFor, Stored, ReportEnd, callVars, storeVars, cleanupVars
    <2> QED
      BY <2>2, <2>3, <2>4, CareKept
  <1>22. ASSUME NEW c \in Calls, TerminateDrained(c) PROVE NothingLeftBehind'
    <2>1. Terminate({c})
      BY <1>22 DEF TerminateDrained
    <2>2. \A d \in Calls : process'[d] = "running" => process[d] = "running"
      BY <2>1, TerminateKills
    <2>3. /\ abandoned \subseteq abandoned' /\ reissuable \subseteq reissuable'
          /\ \A d \in Calls :
                /\ d \in netApprovals' => d \in netApprovals
                /\ stage[d] # "off" => processId'[d] = processId[d]
      BY <1>22 DEF TerminateDrained, callVars, storeVars, cleanupVars
    <2>4. /\ netApprovals' = netApprovals \ {c} /\ terminating' = terminating \ {c}
          /\ UNCHANGED <<stage, taken, processes>>
      BY <1>22 DEF TerminateDrained, callVars, storeVars
    <2>5. process'[c] # "running"
      BY <2>1, TerminateKills
    <2>6. \A d \in Calls : d # c /\ CaredFor(d) => CaredFor(d)'
      BY <2>4 DEF CaredFor, Stored
    <2>7. Handed
      BY <2>4, <2>5, <2>6 DEF Handed
    <2> QED
      BY <2>2, <2>3, <2>7, CareKept
  <1>23. ASSUME NEW w \in Writers, NEW i \in ProcessIds, PrepareWrite(w, i) PROVE NothingLeftBehind'
    <2>1. \A d \in Calls : process'[d] = "running" => process[d] = "running"
      BY <1>23 DEF PrepareWrite, Use, storeVars, callVars
    <2>2. /\ abandoned \subseteq abandoned' /\ reissuable \subseteq reissuable'
          /\ \A d \in Calls :
                /\ d \in netApprovals' => d \in netApprovals
                /\ stage[d] # "off" => processId'[d] = processId[d]
      BY <1>23 DEF PrepareWrite, Use, callVars, storeVars, cleanupVars
    <2>3. Handed
      BY <1>23 DEF Handed, CaredFor, Stored, PrepareWrite, Use, callVars, storeVars, cleanupVars
    <2> QED
      BY <2>1, <2>2, <2>3, CareKept
  <1>24. ASSUME NEW w \in Writers, RefreshWrite(w) PROVE NothingLeftBehind'
    <2>1. Terminate({})
      BY <1>24 DEF RefreshWrite
    <2>2. \A d \in Calls : process'[d] = "running" => process[d] = "running"
      BY <2>1, TerminateKills
    <2>3. /\ abandoned \subseteq abandoned' /\ reissuable \subseteq reissuable'
          /\ \A d \in Calls :
                /\ d \in netApprovals' => d \in netApprovals
                /\ stage[d] # "off" => processId'[d] = processId[d]
      BY <1>24 DEF RefreshWrite, callVars, storeVars, cleanupVars
    <2>4. /\ writing[w] \in ProcessIds /\ taken[w] = NoCall /\ UNCHANGED terminating
          /\ RefreshProcessState(w, writing[w])
          /\ \A d \in Calls : stage[d] \in {"begin", "store", "short", "release", "finish"} =>
                stage'[d] = stage[d]
      BY <1>24, ExecAssumption DEF RefreshWrite, Ids, Takes, cleanupVars
    <2>5. CASE Remove(w, writing[w])
      <3>1. \A d \in Calls : CaredFor(d) => CaredFor(d)'
        BY <2>4, <2>5, RemoveHands DEF CaredFor
      <3> QED
        BY <2>2, <2>3, <3>1, CareKept DEF Handed
    <2>6. CASE UNCHANGED <<processes, reserved, taken>>
      <3>1. \A d \in Calls : CaredFor(d) => CaredFor(d)'
        BY <2>4, <2>6 DEF CaredFor, Stored
      <3> QED
        BY <2>2, <2>3, <3>1, CareKept DEF Handed
    <2> QED
      BY <2>4, <2>5, <2>6 DEF RefreshProcessState
  <1>25. ASSUME NEW w \in Writers, UnregisterWritten(w) PROVE NothingLeftBehind'
    <2>1. Terminate({})
      BY <1>25 DEF UnregisterWritten
    <2>2. \A d \in Calls : process'[d] = "running" => process[d] = "running"
      BY <2>1, TerminateKills
    <2>3. /\ abandoned \subseteq abandoned' /\ reissuable \subseteq reissuable'
          /\ \A d \in Calls :
                /\ d \in netApprovals' => d \in netApprovals
                /\ stage[d] # "off" => processId'[d] = processId[d]
      BY <1>25 DEF UnregisterWritten, callVars, storeVars, cleanupVars
    <2>4. /\ taken[w] # NoCall /\ netApprovals' = netApprovals \ {taken[w]}
          /\ taken' = [taken EXCEPT ![w] = NoCall]
          /\ UNCHANGED <<stage, processId, processes, terminating, reissuable>>
      BY <1>25 DEF UnregisterWritten, storeVars, cleanupVars
    <2>5. process[taken[w]] # "running" \/ processId[taken[w]] \in reissuable
      BY <1>25, <2>4, ExecAssumption DEF Takes, UnregisterWritten
    <2>6. ASSUME NEW d \in Calls, d = taken[w]
          PROVE  processId[d] \in reissuable' \/ (process'[d] # "running" /\ d \notin netApprovals')
      BY <2>2, <2>4, <2>5, <2>6
    <2>7. ASSUME NEW d \in Calls, d # taken[w], CaredFor(d) PROVE CaredFor(d)'
      BY <2>4, <2>7 DEF CaredFor, Stored
    <2>8. Handed
      BY <2>6, <2>7 DEF Handed
    <2> QED
      BY <2>2, <2>3, <2>8, CareKept
  <1>26. ASSUME NEW w \in Writers, DropWriter(w) PROVE NothingLeftBehind'
    <2>1. Terminate({})
      BY <1>26 DEF DropWriter
    <2>2. \A d \in Calls : process'[d] = "running" => process[d] = "running"
      BY <2>1, TerminateKills
    <2>3. /\ abandoned \subseteq abandoned' /\ reissuable \subseteq reissuable'
          /\ \A d \in Calls :
                /\ d \in netApprovals' => d \in netApprovals
                /\ stage[d] # "off" => processId'[d] = processId[d]
      BY <1>26 DEF DropWriter, callVars, storeVars, cleanupVars
    <2>4. /\ taken' = [taken EXCEPT ![w] = NoCall]
          /\ \A d \in Calls : d = taken[w] => d \in abandoned'
          /\ UNCHANGED <<stage, processes, terminating>>
      BY <1>26, ExecAssumption DEF DropWriter, storeVars, cleanupVars
    <2>5. ASSUME NEW d \in Calls, CaredFor(d), d \notin abandoned' PROVE CaredFor(d)'
      BY <2>4, <2>5 DEF CaredFor, Stored
    <2>6. Handed
      BY <2>5 DEF Handed
    <2> QED
      BY <2>2, <2>3, <2>6, CareKept
  <1>27. CASE DrainStore
    <2>1. Terminate({})
      BY <1>27 DEF DrainStore
    <2>2. \A d \in Calls : process'[d] = "running" => process[d] = "running"
      BY <2>1, TerminateKills
    <2>3. /\ abandoned \subseteq abandoned' /\ reissuable \subseteq reissuable'
          /\ \A d \in Calls :
                /\ d \in netApprovals' => d \in netApprovals
                /\ stage[d] # "off" => processId'[d] = processId[d]
      BY <1>27 DEF DrainStore, callVars, storeVars, cleanupVars
    <2>4. /\ terminating = {} /\ terminating' = StoredCalls
          /\ UNCHANGED <<stage, taken>>
      BY <1>27 DEF DrainStore, callVars
    <2>5. ASSUME NEW d \in Calls, CaredFor(d) PROVE CaredFor(d)'
      BY <2>4, <2>5 DEF CaredFor, StoredCalls
    <2>6. Handed
      BY <2>5 DEF Handed
    <2> QED
      BY <2>2, <2>3, <2>6, CareKept
  <1> QED
    BY <1>1, <1>2, <1>3, <1>4, <1>5, <1>6, <1>7, <1>8, <1>9, <1>10, <1>11, <1>12, <1>13,
       <1>14, <1>15, <1>16, <1>17, <1>18, <1>19, <1>20, <1>21, <1>22, <1>23, <1>24, <1>25,
       <1>26, <1>27
       DEF ExecNext, CallStep, CloseOutput, EndStep, EndStream, WriterStep, Quiet

-----------------------------------------------------------------------------
(* The limit of the store *)

LEMMA FewerStored ==
    ASSUME StoreWithinLimit, StoredCalls' \subseteq StoredCalls
    PROVE  StoreWithinLimit'
  <1>1. IsFiniteSet(StoredCalls)
    BY FS_Subset, ExecAssumption DEF StoredCalls
  <1>2. IsFiniteSet(StoredCalls') /\ Cardinality(StoredCalls') <= Cardinality(StoredCalls)
    BY <1>1, FS_Subset
  <1>3. Cardinality(StoredCalls) \in Nat /\ Cardinality(StoredCalls') \in Nat
    BY <1>1, <1>2, FS_CardinalityType
  <1> QED
    BY <1>2, <1>3, ExecAssumption DEF StoreWithinLimit

LEMMA OneMoreStored ==
    ASSUME NEW S, S \subseteq StoredCalls, Cardinality(S) < MaxProcesses,
           NEW c \in Calls, StoredCalls' \subseteq S \cup {c}
    PROVE  StoreWithinLimit'
  <1>1. IsFiniteSet(S)
    BY FS_Subset, ExecAssumption DEF StoredCalls
  <1>2. /\ IsFiniteSet(S \cup {c})
        /\ Cardinality(S \cup {c}) = IF c \in S THEN Cardinality(S) ELSE Cardinality(S) + 1
    BY <1>1, FS_AddElement
  <1>3. IsFiniteSet(StoredCalls') /\ Cardinality(StoredCalls') <= Cardinality(S \cup {c})
    BY <1>2, FS_Subset
  <1>4. Cardinality(S) \in Nat /\ Cardinality(StoredCalls') \in Nat
    BY <1>1, <1>3, FS_CardinalityType
  <1> QED
    BY <1>2, <1>3, <1>4, ExecAssumption DEF StoreWithinLimit

LEMMA LimitStep ==
    ASSUME IInv, ExecTypeOK', [ExecNext]_execVars
    PROVE  StoreWithinLimit'
  <1> USE DEF IInv, ExecTypeOK
  <1>1. CASE \/ \E c \in Calls : \/ AllocateProcessId(c) \/ RefuseCommand(c)
                                 \/ OpenSession(c) \/ FailToOpen(c) \/ EmitBegin(c)
                                 \/ TerminatePruned(c) \/ WarnModel(c) \/ EmitEnd(c)
                                 \/ UnregisterTaken(c) \/ Return(c) \/ DropCall(c)
                                 \/ Exit(c) \/ CancelToken(c) \/ StopStreaming(c)
                                 \/ WatchExit(c) \/ ReportEnd(c) \/ TerminateDrained(c)
             \/ \E w \in Writers : UnregisterWritten(w) \/ DropWriter(w)
             \/ \E w \in Writers, i \in ProcessIds : PrepareWrite(w, i)
             \/ UNCHANGED execVars
    <2>1. ASSUME NEW c \in Calls, \/ AllocateProcessId(c) \/ RefuseCommand(c)
                                  \/ OpenSession(c) \/ FailToOpen(c) \/ EmitBegin(c)
                                  \/ TerminatePruned(c) \/ WarnModel(c) \/ EmitEnd(c)
                                  \/ UnregisterTaken(c)
          PROVE  UNCHANGED processes
      BY <2>1
         DEF AllocateProcessId, RefuseCommand, OpenSession, FailToOpen, EmitBegin,
         TerminatePruned, WarnModel, EmitEnd, UnregisterTaken, storeVars
    <2>2. ASSUME NEW c \in Calls, \/ Return(c) \/ DropCall(c) \/ Exit(c) \/ CancelToken(c)
                                  \/ StopStreaming(c) \/ WatchExit(c) \/ ReportEnd(c)
                                  \/ TerminateDrained(c)
          PROVE  UNCHANGED processes
      BY <2>2
         DEF Return, DropCall, Exit, CancelToken, StopStreaming, WatchExit, ReportEnd,
         TerminateDrained, callVars, storeVars
    <2>3. ASSUME NEW w \in Writers,
                 \/ UnregisterWritten(w) \/ DropWriter(w)
                 \/ \E i \in ProcessIds : PrepareWrite(w, i)
          PROVE  UNCHANGED processes
      BY <2>3 DEF UnregisterWritten, DropWriter, PrepareWrite, storeVars
    <2>4. UNCHANGED processes
      BY <1>1, <2>1, <2>2, <2>3 DEF execVars, storeVars
    <2> QED
      BY <2>4, FewerStored DEF StoredCalls, Stored
  <1>2. ASSUME NEW c \in Calls, StoreWithRoom(c) PROVE StoreWithinLimit'
    <2>1. Cardinality(StoredCalls) < MaxProcesses
      BY <1>2 DEF StoreWithRoom
    <2>2. \A i \in ProcessIds : processes'[i] \in {processes[i], c}
      BY <1>2 DEF StoreWithRoom
    <2>3. StoredCalls' \subseteq StoredCalls \cup {c}
      BY <2>2 DEF StoredCalls, Stored
    <2> QED
      BY <2>1, <2>3, OneMoreStored
  <1>3. ASSUME NEW c \in Calls, StoreAndPrune(c) PROVE StoreWithinLimit'
    <2>1. PICK pruned \in StoredCalls :
              processes' = [i \in ProcessIds |->
                  IF i = processId[c] THEN c
                  ELSE IF processes[i] = pruned THEN NoCall ELSE processes[i]]
      BY <1>3 DEF StoreAndPrune
    <2> DEFINE S == StoredCalls \ {pruned}
    <2>2. \A i \in ProcessIds : processes'[i] \in {c, NoCall} \/
              (processes'[i] = processes[i] /\ processes[i] # pruned)
      BY <2>1
    <2>3. StoredCalls' \subseteq S \cup {c}
      BY <2>2, ExecAssumption DEF StoredCalls, Stored
    <2>4. IsFiniteSet(StoredCalls)
      BY FS_Subset, ExecAssumption DEF StoredCalls
    <2>5. Cardinality(S) = Cardinality(StoredCalls) - 1
      BY <2>1, <2>4, FS_RemoveElement
    <2>6. Cardinality(StoredCalls) \in Nat
      BY <2>4, FS_CardinalityType
    <2>7. Cardinality(S) < MaxProcesses
      BY <2>5, <2>6, ExecAssumption DEF StoreWithinLimit
    <2> QED
      BY <2>3, <2>7, OneMoreStored
  <1>4. ASSUME NEW c \in Calls, RefreshCall(c) PROVE StoreWithinLimit'
    <2>1. \A i \in ProcessIds : processes'[i] \in {processes[i], NoCall}
      BY <1>4 DEF RefreshCall, RefreshProcessState, Remove
    <2>2. StoredCalls' \subseteq StoredCalls
      BY <2>1, ExecAssumption DEF StoredCalls, Stored
    <2> QED
      BY <2>2, FewerStored
  <1>5. ASSUME NEW c \in Calls, ReleaseProcessId(c) PROVE StoreWithinLimit'
    <2>1. \A i \in ProcessIds : processes'[i] \in {processes[i], NoCall}
      BY <1>5 DEF ReleaseProcessId, Remove
    <2>2. StoredCalls' \subseteq StoredCalls
      BY <2>1, ExecAssumption DEF StoredCalls, Stored
    <2> QED
      BY <2>2, FewerStored
  <1>6. ASSUME NEW w \in Writers, RefreshWrite(w) PROVE StoreWithinLimit'
    <2>1. \A i \in ProcessIds : processes'[i] \in {processes[i], NoCall}
      BY <1>6 DEF RefreshWrite, RefreshProcessState, Remove
    <2>2. StoredCalls' \subseteq StoredCalls
      BY <2>1, ExecAssumption DEF StoredCalls, Stored
    <2> QED
      BY <2>2, FewerStored
  <1>7. CASE DrainStore
    <2>1. \A i \in ProcessIds : processes'[i] \in {processes[i], NoCall}
      BY <1>7 DEF DrainStore
    <2>2. StoredCalls' \subseteq StoredCalls
      BY <2>1, ExecAssumption DEF StoredCalls, Stored
    <2> QED
      BY <2>2, FewerStored
  <1> QED
    BY <1>1, <1>2, <1>3, <1>4, <1>5, <1>6, <1>7
       DEF ExecNext, CallStep, CloseOutput, EndStep, EndStream, WriterStep, Quiet

-----------------------------------------------------------------------------
(* Theorems *)

LEMMA Invariance ==
    ExecSpec => []IInv
  <1>1. ExecInit => IInv
    <2> SUFFICES ASSUME ExecInit PROVE IInv
      OBVIOUS
    <2> USE DEF ExecInit
    <2>1. ExecTypeOK
      BY ExecAssumption DEF ExecTypeOK, Stages
    <2>2. \A c \in Calls : ~Stored(c) /\ ~Uses(c)
      BY ExecAssumption DEF Stored, Uses, UsesReservation
    <2>3. Ids /\ OneProcessPerId /\ Takes /\ NothingLeftBehind
      BY <2>2 DEF Ids, UsesReservation, OneProcessPerId, Takes, NothingLeftBehind
    <2>4. Ends
      BY DEF Ends
    <2>5. StoreWithinLimit
      <3>1. StoredCalls = {}
        BY <2>2 DEF StoredCalls
      <3> QED
        BY <3>1, FS_EmptySet, ExecAssumption DEF StoreWithinLimit
    <2> QED
      BY <2>1, <2>3, <2>4, <2>5 DEF IInv
  <1>2. IInv /\ [ExecNext]_execVars => IInv'
    BY TypeStep, IdsStep, UsesStep, TakesStep, EndsStep, LeftStep, LimitStep DEF IInv
  <1> QED
    BY <1>1, <1>2, PTL DEF ExecSpec

\* Every variable keeps its type.
THEOREM TypeCorrect == ExecSpec => []ExecTypeOK
  BY Invariance, PTL DEF IInv

\* However many calls store their processes at once, the store holds no more than
\* it may.
THEOREM StoreIsBounded == ExecSpec => []StoreWithinLimit
  BY Invariance, PTL DEF IInv

\* No two processes are known by one number, but for the numbers that
\* terminate_all_processes gave free too early.
THEOREM NumbersAreUnique == ExecSpec => []OneProcessPerId
  BY Invariance, PTL DEF IInv

\* However the exit of a process and the end of its output fall between the looks
\* of its call and its watcher, its end is reported at most once.
THEOREM EndIsReportedOnce == ExecSpec => []EndReportedOnce
  <1>1. IInv => EndReportedOnce
    BY DEF IInv, Ends, EndReportedOnce
  <1> QED
    BY <1>1, Invariance, PTL

\* The end of a process that is over is reported or on its way, also when its
\* output had ended while it still ran.
THEOREM EndIsNeverLost == ExecSpec => []EndIsComing
  <1>1. IInv => EndIsComing
    <2> SUFFICES ASSUME IInv, NEW c \in Calls, process[c] \in {"exited", "killed"}
                 PROVE  \/ ends[c] = 1
                        \/ stage[c] \in {"begin", "store", "prune", "warn", "short"}
                        \/ watcher[c] \in {"token", "drained"} /\ (streaming[c] = "on" \/ c \in drained)
                        \/ stage[c] = "dropped" /\ watcher[c] = "off"
      BY DEF EndIsComing
    <2> QED
      BY DEF IInv, Ends
  <1> QED
    BY <1>1, Invariance, PTL

\* No process goes on running and registered without anybody who has it, but
\* where a dropped call or terminate_all_processes cut its care short.
THEOREM NothingIsLeftBehind == ExecSpec => []NothingLeftBehind
  BY Invariance, PTL DEF IInv
=============================================================================
