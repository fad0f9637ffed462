--------------------------- MODULE ReadinessProofs ---------------------------
(***************************************************************************)
(* The safety of the readiness flag, for any number of subscribers and     *)
(* waiters.  The invariant behind it is that the flag and the token set    *)
(* exclude each other: whoever turns the flag does so with the set empty,  *)
(* or empties it in the same critical section, and nobody inserts a token  *)
(* afterwards.                                                             *)
(***************************************************************************)
EXTENDS Readiness, TLAPS

\* The points at which a subscriber has a token it has not presented yet.
HoldingPC == {"holds", "mark_lock", "mark_locked"}

ReadyLeavesNoToken == ready => tokens = {}

AuthorisedIsReady == authorised # {} => ready

\* Until somebody is authorised a token stays in the set until presented.
HeldTokenIsValid ==
    authorised = {} => \A s \in Subscribers : pc[s] \in HoldingPC => s \in tokens

IInv ==
    /\ TypeOK
    /\ ReadyLeavesNoToken
    /\ AuthorisedIsReady
    /\ HeldTokenIsValid
    /\ OneAuthorisation

-----------------------------------------------------------------------------

\* The parts of the state that only lock, broadcast and queue steps touch do
\* not matter to the invariant: a step that leaves ready, tokens and
\* authorised alone keeps it if it sends nobody into HoldingPC from outside.
LEMMA QuietStep ==
    ASSUME IInv, TypeOK', UNCHANGED <<ready, tokens, authorised>>,
           \A s \in Subscribers : pc'[s] \in HoldingPC => pc[s] \in HoldingPC
    PROVE  IInv'
  BY DEF IInv, ReadyLeavesNoToken, AuthorisedIsReady, HeldTokenIsValid, OneAuthorisation

\* Every step keeps the types, so that the other facts need not.
LEMMA TypeOKStep == ASSUME TypeOK, [Next]_vars PROVE TypeOK'
<1> USE ActorsAssumption DEF TypeOK, SubscriberPC, WaiterPC, Goto
<1>1. ASSUME NEW s \in Subscribers, Subscribe(s) PROVE TypeOK'
  BY <1>1 DEF Subscribe, SubscribeCheck, SubscribeLock, SubscribeInsert, Acquire
<1>2. ASSUME NEW s \in Subscribers, MarkReady(s) PROVE TypeOK'
  BY <1>2 DEF MarkReady, MarkCheck, MarkLock, MarkStore, MarkSend, Acquire, WatchSend
<1>3. ASSUME NEW s \in Subscribers, LockTimeout(s) PROVE TypeOK'
  BY <1>3 DEF LockTimeout
<1>4. ASSUME NEW w \in Waiters, IsReady(w) PROVE TypeOK'
  <2>1. CASE IsReadyLoad(w)
    BY <2>1 DEF IsReadyLoad
  <2>2. CASE IsReadyTryLock(w)
    BY <2>2 DEF IsReadyTryLock, Acquire
  <2>3. CASE IsReadyLocked(w)
    BY <2>3 DEF IsReadyLocked
  <2>4. CASE IsReadySend(w)
    BY <2>4 DEF IsReadySend, WatchSend
  <2>5. CASE IsReadyReload(w)
    BY <2>5 DEF IsReadyReload
  <2> QED
    BY <1>4, <2>1, <2>2, <2>3, <2>4, <2>5 DEF IsReady
<1>5. ASSUME NEW w \in Waiters, WaitReceive(w) \/ WaitBorrow(w) \/ WaitChanged(w) \/ WaitDropped(w)
      PROVE  TypeOK'
  BY <1>5 DEF WaitReceive, WaitBorrow, WaitChanged, WaitDropped
<1>6. ASSUME Done \/ UNCHANGED vars PROVE TypeOK'
  BY <1>6 DEF Done, vars
<1> QED
  BY <1>1, <1>2, <1>3, <1>4, <1>5, <1>6 DEF Next, SubscriberStep, WaitReady

\* A subscriber's steps keep the invariant.
LEMMA SubscriberSafe ==
    ASSUME IInv, TypeOK', NEW s \in Subscribers, SubscriberStep(s) \/ LockTimeout(s)
    PROVE  IInv'
<1> USE ActorsAssumption DEF TypeOK, HoldingPC, Goto
<1>1. CASE SubscribeCheck(s) \/ MarkCheck(s) \/ MarkSend(s) \/ LockTimeout(s)
  BY <1>1, QuietStep DEF IInv, SubscribeCheck, MarkCheck, MarkSend, LockTimeout
<1>2. CASE SubscribeLock(s) \/ MarkLock(s)
  BY <1>2, QuietStep DEF IInv, SubscribeLock, MarkLock, Acquire
<1>3. CASE SubscribeInsert(s)
  \* The token goes in only while the flag is down, in the same section.
  BY <1>3 DEF IInv, SubscribeInsert, ReadyLeavesNoToken, AuthorisedIsReady, HeldTokenIsValid,
              OneAuthorisation
<1>4. CASE MarkStore(s)
  <2>1. CASE s \in tokens
    \* The set was not empty, so the flag was down and nobody authorised.
    <3>1. authorised = {}
      BY <2>1 DEF IInv, ReadyLeavesNoToken, AuthorisedIsReady
    <3> QED
      BY <1>4, <2>1, <3>1 DEF IInv, MarkStore, ReadyLeavesNoToken, AuthorisedIsReady,
                              HeldTokenIsValid, OneAuthorisation
  <2>2. CASE s \notin tokens
    BY <1>4, <2>2, QuietStep DEF IInv, MarkStore
  <2> QED
    BY <2>1, <2>2
<1> QED
  BY <1>1, <1>2, <1>3, <1>4 DEF SubscriberStep, Subscribe, MarkReady

\* A waiter's steps keep the invariant.
LEMMA WaiterSafe ==
    ASSUME IInv, TypeOK', NEW w \in Waiters, WaitReady(w) \/ WaitDropped(w)
    PROVE  IInv'
<1> USE ActorsAssumption DEF TypeOK, HoldingPC, Goto
<1>1. CASE IsReadyLoad(w) \/ IsReadySend(w) \/ IsReadyReload(w)
  BY <1>1, QuietStep DEF IInv, IsReadyLoad, IsReadySend, IsReadyReload
<1>2. CASE IsReadyTryLock(w)
  BY <1>2, QuietStep DEF IInv, IsReadyTryLock, Acquire
<1>3. CASE IsReadyLocked(w)
  \* The observer turns the flag only when it finds the set empty.
  BY <1>3 DEF IInv, IsReadyLocked, ReadyLeavesNoToken, AuthorisedIsReady, HeldTokenIsValid,
              OneAuthorisation
<1>4. CASE WaitReceive(w) \/ WaitBorrow(w) \/ WaitChanged(w) \/ WaitDropped(w)
  BY <1>4, QuietStep DEF IInv, WaitReceive, WaitBorrow, WaitChanged, WaitDropped
<1> QED
  BY <1>1, <1>2, <1>3, <1>4 DEF WaitReady, IsReady

\* The inductive invariant holds in every reachable state.
LEMMA Inductive == Spec => []IInv
<1>1. Init => IInv
  BY ActorsAssumption DEF Init, IInv, TypeOK, SubscriberPC, WaiterPC, HoldingPC,
     ReadyLeavesNoToken, AuthorisedIsReady, HeldTokenIsValid, OneAuthorisation
<1>2. IInv /\ [Next]_vars => IInv'
  <2> SUFFICES ASSUME IInv, [Next]_vars PROVE IInv'
    OBVIOUS
  <2>1. TypeOK'
    BY TypeOKStep DEF IInv
  <2>2. CASE Done \/ UNCHANGED vars
    BY <2>1, <2>2, QuietStep DEF Done, vars
  <2> QED
    BY <2>1, <2>2, SubscriberSafe, WaiterSafe DEF Next
<1> QED
  BY <1>1, <1>2, PTL DEF Spec

\* Type correctness of the flag, its channel and the tasks around it.
THEOREM TypeCorrect == Spec => []TypeOK
<1>1. IInv => TypeOK
  BY DEF IInv
<1> QED
  BY <1>1, Inductive, PTL

\* mark_ready returns true to at most one token holder, however many race.
THEOREM AtMostOneAuthorisation == Spec => []OneAuthorisation
<1>1. IInv => OneAuthorisation
  BY DEF IInv
<1> QED
  BY <1>1, Inductive, PTL

\* No waiter is let past a token that is still owed its mark.
THEOREM GateIsSafe == Spec => []GateOpensOnlyByMark
<1>1. IInv => GateOpensOnlyByMark
  BY DEF IInv, GateOpensOnlyByMark, ReadyLeavesNoToken, HeldTokenIsValid, HoldingPC
<1> QED
  BY <1>1, Inductive, PTL
=============================================================================
