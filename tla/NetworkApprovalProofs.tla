----------------------- MODULE NetworkApprovalProofs -----------------------
(***************************************************************************)
(* The safety of network approvals, for any number of requests, hosts and  *)
(* calls.                                                                  *)
(*                                                                         *)
(* The entry of a host in pending_host_approvals is a lock: whoever made   *)
(* it is alone between making it and removing it, and so alone with the    *)
(* session caches of that host.  An answer is given once, and what is      *)
(* later read from a decision or a cache goes back to it.                  *)
(***************************************************************************)
EXTENDS NetworkApproval, FiniteSetTheorems, TLAPS

\* Where a request can be once it has an answer of its own.
AnsweredPCs ==
    {"blame", "cache", "cache_insert", "decide", "notify", "remove", "refused", "refused_record",
     "denied", "denied_record"} \cup FinalPCs

OwnerHoldsHost == \A r \in Requests : pc[r] \in OwnerPCs => pending[host[r]] = r

PendingIsOfItsHost == \A h \in Hosts : pending[h] # NoRequest => host[pending[h]] = h

WaiterJoinedItsHost ==
    \A r \in Requests : pc[r] \in WaiterPCs =>
        joined[r] \in Requests /\ host[joined[r]] = host[r]

AnswerIsFinal == \A r \in Requests : answer[r] # "none" => pc[r] \in AnsweredPCs

AnswerIsGiven ==
    \A r \in Requests :
        pc[r] \in {"blame", "cache", "cache_insert", "decide", "notify", "remove"} => answer[r] # "none"

DecisionIsAnswer == \A r \in Requests : decision[r] \in Allowing => answer[r] = decision[r]

\* Between its two locks an owner has the host out of the cache it leaves.
OtherCacheLeft ==
    \A r \in Requests : pc[r] = "cache_insert" =>
        IF answer[r] = "allow_session" THEN host[r] \notin denied ELSE host[r] \notin approved

\* What AllowedByAnswer asks for a request that goes through.
Covered(r) ==
    \E q \in Requests :
        /\ host[q] = host[r]
        /\ \/ answer[q] = "allow_session"
           \/ answer[q] = "allow_once" /\ q \in {r, joined[r]}

ApprovedByAnswer ==
    \A h \in approved : \E q \in Requests : host[q] = h /\ answer[q] = "allow_session"

IInv ==
    /\ NetworkTypeOK
    /\ OwnerHoldsHost
    /\ PendingIsOfItsHost
    /\ WaiterJoinedItsHost
    /\ AnswerIsFinal
    /\ AnswerIsGiven
    /\ DecisionIsAnswer
    /\ OtherCacheLeft
    /\ ApprovedByAnswer
    /\ CachesDisagreeNowhere
    /\ AllowedByAnswer

\* A running call that the user denied something still has that outcome, and
\* nobody has a result before it asked for it.
DenialIsKept ==
    /\ \A c \in userDenied :
          /\ callPC[c] # "idle"
          /\ callPC[c] = "running" => callOutcomes[c] = "user"
          /\ result[c] \in {"none", "user"}
    /\ \A c \in Attempts : callPC[c] \in {"idle", "running"} => result[c] = "none"

-----------------------------------------------------------------------------
(* Type correctness *)

LEMMA SingleActiveCallType == ASSUME NetworkTypeOK PROVE SingleActiveCall \in Attempts \cup {NoAttempt}
<1>1. CASE Cardinality(activeCalls) = 1
  <2>1. IsFiniteSet(activeCalls)
    BY NetworkAssumption, FS_Subset DEF NetworkTypeOK
  <2>2. PICK c : activeCalls = {c}
    BY <1>1, <2>1, FS_Singleton
  <2> QED
    BY <1>1, <2>2 DEF NetworkTypeOK, SingleActiveCall
<1>2. CASE Cardinality(activeCalls) # 1
  BY <1>2 DEF SingleActiveCall
<1> QED
  BY <1>1, <1>2

LEMMA RecordKeepsType ==
    ASSUME NetworkTypeOK, NEW c \in Attempts \cup {NoAttempt}, NEW o \in {"user", "policy"},
           RecordCallOutcome(c, o)
    PROVE  callOutcomes' \in [Attempts -> {"none", "user", "policy"}]
  BY DEF NetworkTypeOK, RecordCallOutcome

\* Where an owner goes when it has removed its entry.
LEMMA RemovePendingTo ==
    ASSUME NetworkTypeOK, AnswerIsGiven, NEW r \in Requests, RemovePending(r)
    PROVE  /\ pc[r] = "remove"
           /\ pc' = [pc EXCEPT ![r] = pc'[r]]
           /\ pc'[r] \in {"allowed", "refused", "denied"}
           /\ pc'[r] = "allowed" => answer[r] \in Allowing
<1>1. answer[r] \in {"allow_once", "allow_session", "deny", "deny_session", "refuse"}
  BY DEF RemovePending, GoOn, AnswerIsGiven, Answers, NetworkTypeOK
<1> QED
  BY <1>1 DEF RemovePending, GoOn, Allowing, NetworkTypeOK

LEMMA RequestTypeStep ==
    ASSUME IInv, NEW r \in Requests, StartRequest(r) \/ RequestStep(r) \/ HangUp(r)
    PROVE  NetworkTypeOK'
<1> NetworkTypeOK
  BY DEF IInv
<1> USE DEF NetworkTypeOK, GoOn, RequestPCs, OwnerPCs, WaiterPCs, FinalPCs, serviceVars, waitVars, attemptVars
<1>1. CASE StartRequest(r) \/ CheckDenied(r) \/ CheckApproved(r)
  BY <1>1 DEF StartRequest, CheckDenied, CheckApproved
<1>2. CASE GetOrCreatePendingApproval(r)
  BY <1>2 DEF GetOrCreatePendingApproval
<1>3. CASE Listen(r)
  BY <1>3 DEF Listen
<1>4. CASE LookForDecision(r)
  <2>1. pc' = [pc EXCEPT ![r] = pc'[r]] /\ pc'[r] \in {"wait", "allowed", "denied"}
    <3>1. decision[joined[r]] \in {"none", "allow_once", "allow_session", "deny"}
      BY <1>4 DEF LookForDecision, IInv, WaiterJoinedItsHost
    <3> QED
      BY <1>4, <3>1 DEF LookForDecision, Allowing
  <2> QED
    BY <1>4, <2>1 DEF LookForDecision
<1>5. CASE WakeUp(r)
  BY <1>5 DEF WakeUp
<1>6. CASE Refuse(r)
  BY <1>6 DEF Refuse
<1>7. CASE Prompt(r)
  BY <1>7, SingleActiveCallType DEF Prompt
<1>8. ASSUME NEW a \in Answers, Answer(r, a) PROVE NetworkTypeOK'
  BY <1>8 DEF Answer, Answers
<1>9. CASE Blame(r)
  BY <1>9, RecordKeepsType DEF Blame
<1>10. CASE CacheRemove(r)
  BY <1>10 DEF CacheRemove
<1>11. CASE CacheInsert(r)
  BY <1>11 DEF CacheInsert
<1>12. CASE SetDecision(r)
  BY <1>12 DEF SetDecision, Allowing
<1>13. CASE NotifyWaiters(r)
  BY <1>13 DEF NotifyWaiters
<1>14. CASE RemovePending(r)
  BY <1>14, RemovePendingTo DEF RemovePending, IInv
<1>15. CASE ResolveCall(r)
  BY <1>15, SingleActiveCallType DEF ResolveCall
<1>16. CASE RecordDenial(r)
  BY <1>16, RecordKeepsType DEF RecordDenial
<1>17. CASE HangUp(r)
  BY <1>17 DEF HangUp
<1> QED
  BY <1>1, <1>2, <1>3, <1>4, <1>5, <1>6, <1>7, <1>8, <1>9, <1>10, <1>11, <1>12, <1>13, <1>14,
     <1>15, <1>16, <1>17 DEF RequestStep

LEMMA CallTypeStep == ASSUME NetworkTypeOK, NEW c \in Attempts, AttemptStep(c) PROVE NetworkTypeOK'
<1> USE DEF NetworkTypeOK, serviceVars, waitVars, requestVars, attemptVars
<1>1. CASE BeginCall(c)
  BY <1>1 DEF BeginCall
<1>2. CASE TakeCallOutcome(c)
  BY <1>2 DEF TakeCallOutcome
<1>3. CASE UnregisterCall(c)
  BY <1>3 DEF UnregisterCall
<1>4. CASE DropAttempt(c)
  BY <1>4 DEF DropAttempt
<1> QED
  BY <1>1, <1>2, <1>3, <1>4 DEF AttemptStep

LEMMA TypeStep == ASSUME IInv, [NetworkNext]_networkVars PROVE NetworkTypeOK'
<1>1. CASE UNCHANGED networkVars
  BY <1>1 DEF IInv, NetworkTypeOK, networkVars, serviceVars, waitVars, requestVars, attemptVars
<1> QED
  BY <1>1, RequestTypeStep, CallTypeStep DEF IInv, NetworkNext, Quiescent

-----------------------------------------------------------------------------
(* The approvals *)

\* The steps that change no approval, no cache and no answer.
LEMMA MovingStep ==
    ASSUME IInv, NetworkTypeOK', NEW r \in Requests, NEW to \in RequestPCs,
           pc' = [pc EXCEPT ![r] = to],
           UNCHANGED <<pending, approved, denied, decision, host, joined, answer>>,
           to \in OwnerPCs => pc[r] \in OwnerPCs,
           to \in WaiterPCs => pc[r] \in WaiterPCs,
           pc[r] \in AnsweredPCs => to \in AnsweredPCs,
           to \in {"blame", "cache", "cache_insert", "decide", "notify", "remove"} =>
               answer[r] # "none",
           to # "cache_insert",
           to = "allowed" => Covered(r)
    PROVE  IInv'
<1> USE DEF IInv, NetworkTypeOK
<1>1. OwnerHoldsHost' /\ PendingIsOfItsHost' /\ WaiterJoinedItsHost'
  BY DEF OwnerHoldsHost, PendingIsOfItsHost, WaiterJoinedItsHost
<1>2. AnswerIsFinal' /\ AnswerIsGiven' /\ DecisionIsAnswer'
  BY DEF AnswerIsFinal, AnswerIsGiven, DecisionIsAnswer
<1>3. OtherCacheLeft' /\ ApprovedByAnswer' /\ CachesDisagreeNowhere'
  BY DEF OtherCacheLeft, ApprovedByAnswer, CachesDisagreeNowhere
<1>4. AllowedByAnswer'
  BY DEF AllowedByAnswer, Covered
<1> QED
  BY <1>1, <1>2, <1>3, <1>4

\* An owner that gets its answer had none, so none that was relied on changes.
LEMMA AnsweringStep ==
    ASSUME IInv, NetworkTypeOK', NEW r \in Requests, NEW to \in {"decide", "cache", "blame"},
           NEW a \in Answers \cup {"refuse"}, pc[r] \in {"owner", "prompt"},
           pc' = [pc EXCEPT ![r] = to],
           answer' = [answer EXCEPT ![r] = a],
           UNCHANGED <<pending, approved, denied, decision, host, joined>>
    PROVE  IInv'
<1> USE DEF IInv, NetworkTypeOK, OwnerPCs, WaiterPCs, FinalPCs, AnsweredPCs
<1>1. answer[r] = "none"
  BY DEF AnswerIsFinal
<1>2. \A q \in Requests : answer[q] # "none" => answer'[q] = answer[q]
  BY <1>1
<1>3. OwnerHoldsHost' /\ PendingIsOfItsHost' /\ WaiterJoinedItsHost'
  BY DEF OwnerHoldsHost, PendingIsOfItsHost, WaiterJoinedItsHost
<1>4. AnswerIsFinal' /\ AnswerIsGiven'
  BY DEF AnswerIsFinal, AnswerIsGiven, Answers
<1>5. DecisionIsAnswer'
  BY <1>1, <1>2 DEF DecisionIsAnswer, Allowing
<1>6. OtherCacheLeft' /\ CachesDisagreeNowhere'
  BY DEF OtherCacheLeft, CachesDisagreeNowhere
<1>7. ApprovedByAnswer'
  BY <1>2 DEF ApprovedByAnswer
<1>8. AllowedByAnswer'
  BY <1>2 DEF AllowedByAnswer
<1> QED
  BY <1>3, <1>4, <1>5, <1>6, <1>7, <1>8

LEMMA ApprovalStep ==
    ASSUME IInv, NetworkTypeOK', NEW r \in Requests, StartRequest(r) \/ RequestStep(r) \/ HangUp(r)
    PROVE  IInv'
<1> NetworkTypeOK
  BY DEF IInv
<1> USE DEF GoOn, RequestPCs, OwnerPCs, WaiterPCs, FinalPCs, AnsweredPCs
<1>1. CASE StartRequest(r) \/ CheckDenied(r) \/ Listen(r) \/ WakeUp(r) \/ Prompt(r)
  BY <1>1, MovingStep
     DEF StartRequest, CheckDenied, Listen, WakeUp, Prompt, serviceVars, NetworkTypeOK, IInv, AnswerIsFinal
<1>2. CASE CheckApproved(r)
  <2>1. host[r] \in approved => Covered(r)
    BY DEF IInv, ApprovedByAnswer, Covered
  <2> QED
    BY <1>2, <2>1, MovingStep DEF CheckApproved, serviceVars
<1>3. CASE LookForDecision(r)
  <2>1. joined[r] \in Requests /\ host[joined[r]] = host[r]
    BY <1>3 DEF LookForDecision, IInv, WaiterJoinedItsHost
  <2>2. decision[joined[r]] \in Allowing => Covered(r)
    BY <2>1 DEF IInv, DecisionIsAnswer, Covered, Allowing
  <2>3. decision[joined[r]] \in {"none", "allow_once", "allow_session", "deny"}
    BY <2>1 DEF NetworkTypeOK
  <2> QED
    BY <1>3, <2>2, <2>3, MovingStep DEF LookForDecision, serviceVars, Allowing
<1>4. CASE Blame(r)
  BY <1>4, MovingStep DEF Blame, IInv, AnswerIsGiven
<1>5. CASE NotifyWaiters(r) \/ ResolveCall(r) \/ RecordDenial(r) \/ HangUp(r)
  BY <1>5, MovingStep
     DEF NotifyWaiters, ResolveCall, RecordDenial, HangUp, serviceVars, IInv, AnswerIsGiven
<1>6. CASE Refuse(r)
  BY <1>6, AnsweringStep DEF Refuse, serviceVars
<1>7. CASE \E a \in Answers : Answer(r, a)
  BY <1>7, AnsweringStep DEF Answer, Answers, serviceVars
<1> USE DEF IInv, NetworkTypeOK
<1>8. CASE GetOrCreatePendingApproval(r)
  <2> USE <1>8, NetworkAssumption DEF GetOrCreatePendingApproval
  <2>1. OwnerHoldsHost'
    BY DEF OwnerHoldsHost
  <2>2. PendingIsOfItsHost' /\ WaiterJoinedItsHost'
    BY DEF PendingIsOfItsHost, WaiterJoinedItsHost
  <2>3. AnswerIsFinal' /\ AnswerIsGiven' /\ DecisionIsAnswer'
    <3>1. pc[r] = "get_or_create" /\ answer[r] = "none"
      BY DEF AnswerIsFinal
    <3>2. /\ \A q \in Requests \ {r} : pc'[q] = pc[q]
          /\ pc'[r] \in {"owner", "listen"}
          /\ UNCHANGED <<answer, decision>>
      BY <3>1
    <3> QED
      BY <3>1, <3>2 DEF AnswerIsFinal, AnswerIsGiven, DecisionIsAnswer
  <2>4. OtherCacheLeft' /\ ApprovedByAnswer' /\ CachesDisagreeNowhere'
    BY DEF OtherCacheLeft, ApprovedByAnswer, CachesDisagreeNowhere, OwnerHoldsHost
  <2>5. AllowedByAnswer'
    BY DEF AllowedByAnswer
  <2> QED
    BY <2>1, <2>2, <2>3, <2>4, <2>5
<1>9. CASE CacheRemove(r)
  <2> USE <1>9 DEF CacheRemove
  <2>1. OwnerHoldsHost' /\ PendingIsOfItsHost' /\ WaiterJoinedItsHost'
    BY DEF OwnerHoldsHost, PendingIsOfItsHost, WaiterJoinedItsHost
  <2>2. AnswerIsFinal' /\ AnswerIsGiven' /\ DecisionIsAnswer'
    BY DEF AnswerIsFinal, AnswerIsGiven, DecisionIsAnswer
  <2>3. OtherCacheLeft'
    BY DEF OtherCacheLeft, OwnerHoldsHost
  <2>4. ApprovedByAnswer' /\ CachesDisagreeNowhere'
    BY DEF ApprovedByAnswer, CachesDisagreeNowhere, OtherCacheLeft
  <2>5. AllowedByAnswer'
    BY DEF AllowedByAnswer
  <2> QED
    BY <2>1, <2>2, <2>3, <2>4, <2>5
<1>10. CASE CacheInsert(r)
  <2> USE <1>10 DEF CacheInsert
  <2>1. OwnerHoldsHost' /\ PendingIsOfItsHost' /\ WaiterJoinedItsHost'
    BY DEF OwnerHoldsHost, PendingIsOfItsHost, WaiterJoinedItsHost
  <2>2. AnswerIsFinal' /\ AnswerIsGiven' /\ DecisionIsAnswer'
    BY DEF AnswerIsFinal, AnswerIsGiven, DecisionIsAnswer
  <2>3. OtherCacheLeft'
    BY DEF OtherCacheLeft, OwnerHoldsHost
  <2>4. ApprovedByAnswer' /\ CachesDisagreeNowhere'
    BY DEF ApprovedByAnswer, CachesDisagreeNowhere, OtherCacheLeft
  <2>5. AllowedByAnswer'
    BY DEF AllowedByAnswer
  <2> QED
    BY <2>1, <2>2, <2>3, <2>4, <2>5
<1>11. CASE SetDecision(r)
  <2> USE <1>11 DEF SetDecision
  <2>1. OwnerHoldsHost' /\ PendingIsOfItsHost' /\ WaiterJoinedItsHost'
    BY DEF OwnerHoldsHost, PendingIsOfItsHost, WaiterJoinedItsHost
  <2>2. AnswerIsFinal' /\ AnswerIsGiven' /\ DecisionIsAnswer'
    BY DEF AnswerIsFinal, AnswerIsGiven, DecisionIsAnswer, Allowing
  <2>3. OtherCacheLeft'
    BY DEF OtherCacheLeft, OwnerHoldsHost
  <2>4. ApprovedByAnswer' /\ CachesDisagreeNowhere'
    BY DEF ApprovedByAnswer, CachesDisagreeNowhere, OtherCacheLeft
  <2>5. AllowedByAnswer'
    BY DEF AllowedByAnswer
  <2> QED
    BY <2>1, <2>2, <2>3, <2>4, <2>5
<1>12. CASE RemovePending(r)
  <2> DEFINE to == pc'[r]
  <2>2. /\ pc[r] = "remove"
        /\ pc' = [pc EXCEPT ![r] = to]
        /\ to \in {"allowed", "refused", "denied"}
        /\ to = "allowed" => answer[r] \in Allowing
        /\ pending' = [pending EXCEPT ![host[r]] = NoRequest]
        /\ UNCHANGED <<approved, denied, decision, host, joined, answer>>
    BY <1>12, RemovePendingTo DEF RemovePending
  <2> HIDE DEF to
  <2>3. OwnerHoldsHost'
    <3>1. \A q \in Requests : q # r /\ pc[q] \in OwnerPCs => host[q] # host[r]
      BY <2>2 DEF OwnerHoldsHost
    <3> QED
      BY <2>2, <3>1 DEF OwnerHoldsHost
  <2>4. PendingIsOfItsHost' /\ WaiterJoinedItsHost'
    BY <2>2 DEF PendingIsOfItsHost, WaiterJoinedItsHost
  <2>5. AnswerIsFinal' /\ AnswerIsGiven' /\ DecisionIsAnswer'
    BY <2>2 DEF AnswerIsFinal, AnswerIsGiven, DecisionIsAnswer
  <2>6. OtherCacheLeft' /\ ApprovedByAnswer' /\ CachesDisagreeNowhere'
    BY <2>2 DEF OtherCacheLeft, ApprovedByAnswer, CachesDisagreeNowhere
  <2>7. AllowedByAnswer'
    BY <2>2 DEF AllowedByAnswer, Allowing
  <2> QED
    BY <2>3, <2>4, <2>5, <2>6, <2>7
<1> HIDE DEF IInv, NetworkTypeOK
<1> QED
  BY <1>1, <1>2, <1>3, <1>4, <1>5, <1>6, <1>7, <1>8, <1>9, <1>10, <1>11, <1>12 DEF RequestStep

LEMMA ApprovalsKept == ASSUME IInv, [NetworkNext]_networkVars PROVE IInv'
<1> NetworkTypeOK'
  BY TypeStep
<1>1. CASE UNCHANGED <<serviceVars, waitVars, requestVars>>
  <2> USE <1>1 DEF IInv, serviceVars, requestVars
  <2>1. OwnerHoldsHost' /\ PendingIsOfItsHost' /\ WaiterJoinedItsHost'
    BY DEF OwnerHoldsHost, PendingIsOfItsHost, WaiterJoinedItsHost
  <2>2. AnswerIsFinal' /\ AnswerIsGiven' /\ DecisionIsAnswer'
    BY DEF AnswerIsFinal, AnswerIsGiven, DecisionIsAnswer
  <2>3. OtherCacheLeft' /\ ApprovedByAnswer' /\ CachesDisagreeNowhere' /\ AllowedByAnswer'
    BY DEF OtherCacheLeft, ApprovedByAnswer, CachesDisagreeNowhere, AllowedByAnswer
  <2> QED
    BY <2>1, <2>2, <2>3
<1>2. ASSUME NEW c \in Attempts, AttemptStep(c) PROVE IInv'
  <2>1. UNCHANGED <<pending, approved, denied, decision, requestVars>>
    BY <1>2 DEF AttemptStep, BeginCall, TakeCallOutcome, UnregisterCall, DropAttempt, serviceVars
  <2> USE <2>1 DEF IInv, requestVars
  <2>2. OwnerHoldsHost' /\ PendingIsOfItsHost' /\ WaiterJoinedItsHost'
    BY DEF OwnerHoldsHost, PendingIsOfItsHost, WaiterJoinedItsHost
  <2>3. AnswerIsFinal' /\ AnswerIsGiven' /\ DecisionIsAnswer'
    BY DEF AnswerIsFinal, AnswerIsGiven, DecisionIsAnswer
  <2>4. OtherCacheLeft' /\ ApprovedByAnswer' /\ CachesDisagreeNowhere' /\ AllowedByAnswer'
    BY DEF OtherCacheLeft, ApprovedByAnswer, CachesDisagreeNowhere, AllowedByAnswer
  <2> QED
    BY <2>2, <2>3, <2>4
<1> QED
  BY <1>1, <1>2, ApprovalStep DEF NetworkNext, Quiescent, networkVars

LEMMA Inductive == NetworkSpec => []IInv
<1>1. NetworkInit => IInv
  BY DEF NetworkInit, IInv, NetworkTypeOK, RequestPCs, OwnerPCs, WaiterPCs, OwnerHoldsHost, PendingIsOfItsHost,
         WaiterJoinedItsHost, AnswerIsFinal, AnswerIsGiven, DecisionIsAnswer, Allowing,
         OtherCacheLeft, ApprovedByAnswer, CachesDisagreeNowhere, AllowedByAnswer
<1> QED
  BY <1>1, ApprovalsKept, PTL DEF NetworkSpec

\* Each variable of the service keeps its type.
THEOREM TypeCorrect == NetworkSpec => []NetworkTypeOK
<1>1. IInv => NetworkTypeOK
  BY DEF IInv
<1> QED
  BY <1>1, Inductive, PTL

\* One destination is never asked about by two requests at a time: both would
\* have made the entry of the host.
THEOREM OneOwnerPerHost == NetworkSpec => []OnePromptPerHost
<1>1. IInv => OnePromptPerHost
  BY DEF IInv, OwnerHoldsHost, OnePromptPerHost
<1> QED
  BY <1>1, Inductive, PTL

\* The session caches are updated under two locks, but by one owner at a time.
THEOREM CachesAgree == NetworkSpec => []CachesDisagreeNowhere
<1>1. IInv => CachesDisagreeNowhere
  BY DEF IInv
<1> QED
  BY <1>1, Inductive, PTL

\* What goes through was allowed, through the caches or a shared decision.
THEOREM OnlyAllowedPass == NetworkSpec => []AllowedByAnswer
<1>1. IInv => AllowedByAnswer
  BY DEF IInv
<1> QED
  BY <1>1, Inductive, PTL

-----------------------------------------------------------------------------
(* The outcome of a call *)

LEMMA DenialStep == ASSUME NetworkTypeOK, DenialIsKept, [NetworkNext]_networkVars PROVE DenialIsKept'
<1> USE DEF NetworkTypeOK, DenialIsKept
<1>1. CASE UNCHANGED <<callOutcomes, attemptVars>>
  BY <1>1 DEF attemptVars
<1>2. ASSUME NEW r \in Requests, Blame(r) PROVE DenialIsKept'
  BY <1>2, NetworkAssumption DEF Blame, RecordCallOutcome
<1>3. ASSUME NEW r \in Requests, RecordDenial(r) PROVE DenialIsKept'
  BY <1>3 DEF RecordDenial, RecordCallOutcome, attemptVars
<1>4. ASSUME NEW c \in Attempts, AttemptStep(c) PROVE DenialIsKept'
  BY <1>4 DEF AttemptStep, BeginCall, TakeCallOutcome, UnregisterCall, DropAttempt, serviceVars
<1>5. ASSUME NEW r \in Requests, StartRequest(r) \/ RequestStep(r) \/ HangUp(r),
             ~Blame(r), ~RecordDenial(r)
      PROVE  UNCHANGED <<callOutcomes, attemptVars>>
  BY <1>5 DEF StartRequest, RequestStep, CheckDenied, CheckApproved, GetOrCreatePendingApproval,
     Listen, LookForDecision, WakeUp, Refuse, Prompt, Answer, CacheRemove, CacheInsert, SetDecision,
     NotifyWaiters, RemovePending, ResolveCall, HangUp, serviceVars
<1> HIDE DEF NetworkTypeOK, DenialIsKept
<1> QED
  BY <1>1, <1>2, <1>3, <1>4, <1>5 DEF NetworkNext, Quiescent, networkVars, serviceVars

\* A denial by the user reaches the call it was recorded for: no later policy
\* denial replaces it, and no other call takes it.
THEOREM UserDenialReachesCall == NetworkSpec => []DenialReachesCall
<1>1. NetworkInit => DenialIsKept
  BY DEF NetworkInit, DenialIsKept
<1>2. DenialIsKept => DenialReachesCall
  BY DEF DenialIsKept, DenialReachesCall
<1> QED
  BY <1>1, <1>2, DenialStep, TypeCorrect, PTL DEF NetworkSpec
=============================================================================
