--------------------------- MODULE NetworkApproval ---------------------------
(***************************************************************************)
(* The NetworkApprovalService of a session: connections of sandboxed       *)
(* commands that miss the proxy's allowlist wait here for the user, one    *)
(* prompt per destination, and the tool call that ran the command learns   *)
(* that it was denied.                                                     *)
(*                                                                         *)
(* A request is one connection in the proxy, a call one attempt of a tool. *)
(* Nothing ties the two together: a denial is laid at the door of the only *)
(* call registered, if there is exactly one.  Each lock is held for one    *)
(* step, and requests and calls interleave between them.                   *)
(***************************************************************************)
EXTENDS Naturals, FiniteSets

CONSTANTS
    Requests,   \* connections, each made once
    Impatient,  \* the requests whose client may hang up
    Hosts,      \* HostApprovalKey: host, protocol and port
    Attempts,      \* registration ids: one per attempt
    NoRequest, NoAttempt

ASSUME NetworkAssumption ==
    /\ Impatient \subseteq Requests
    /\ NoRequest \notin Requests
    /\ NoAttempt \notin Attempts
    /\ Hosts # {}
    /\ IsFiniteSet(Attempts)

VARIABLES
    activeCalls,  \* active_calls
    callOutcomes, \* call_outcomes
    pending,      \* pending_host_approvals: each named by the request that made it
    approved,     \* session_approved_hosts
    denied,       \* session_denied_hosts
    decision,     \* PendingHostApproval.decision
    listening,    \* the requests that hold a Notified of the approval they joined
    notified,     \* those of them that were notified
    pc,           \* where each request is
    host,         \* its destination
    joined,       \* the request whose approval it waits for
    answer,       \* the review decision it got as owner
    blames,       \* the call that resolve_single_active_call found for it
    callPC,       \* where each call is
    result,       \* what finish_immediate_network_approval told it
    userDenied    \* history: the calls a user denial was recorded for as they ran

serviceVars == <<activeCalls, callOutcomes, pending, approved, denied, decision>>
waitVars == <<listening, notified>>
requestVars == <<pc, host, joined, answer, blames>>
attemptVars == <<callPC, result, userDenied>>
networkVars == <<serviceVars, waitVars, requestVars, attemptVars>>

Answers == {"allow_once", "allow_session", "deny", "deny_session"}
Allowing == {"allow_once", "allow_session"}

OwnerPCs == {"owner", "prompt", "blame", "cache", "cache_insert", "decide", "notify", "remove"}
WaiterPCs == {"listen", "look", "wait"}
FinalPCs == {"allowed", "blocked", "gone"}
RequestPCs == OwnerPCs \cup WaiterPCs \cup FinalPCs \cup
              {"idle", "check_denied", "check_approved", "get_or_create",
               "refused", "refused_record", "denied", "denied_record"}

NetworkTypeOK ==
    /\ activeCalls \subseteq Attempts
    /\ callOutcomes \in [Attempts -> {"none", "user", "policy"}]
    /\ pending \in [Hosts -> Requests \cup {NoRequest}]
    /\ approved \subseteq Hosts
    /\ denied \subseteq Hosts
    /\ decision \in [Requests -> {"none", "allow_once", "allow_session", "deny"}]
    /\ listening \subseteq Requests
    /\ notified \subseteq Requests
    /\ pc \in [Requests -> RequestPCs]
    /\ host \in [Requests -> Hosts]
    /\ joined \in [Requests -> Requests \cup {NoRequest}]
    /\ answer \in [Requests -> Answers \cup {"none", "refuse"}]
    /\ blames \in [Requests -> Attempts \cup {NoAttempt}]
    /\ callPC \in [Attempts -> {"idle", "running", "taken", "done", "dropped"}]
    /\ result \in [Attempts -> {"none", "ok", "user", "policy"}]
    /\ userDenied \subseteq Attempts

NetworkInit ==
    /\ activeCalls = {}
    /\ callOutcomes = [c \in Attempts |-> "none"]
    /\ pending = [h \in Hosts |-> NoRequest]
    /\ approved = {}
    /\ denied = {}
    /\ decision = [r \in Requests |-> "none"]
    /\ listening = {}
    /\ notified = {}
    /\ pc = [r \in Requests |-> "idle"]
    /\ host \in [Requests -> Hosts]
    /\ joined = [r \in Requests |-> NoRequest]
    /\ answer = [r \in Requests |-> "none"]
    /\ blames = [r \in Requests |-> NoAttempt]
    /\ callPC = [c \in Attempts |-> "idle"]
    /\ result = [c \in Attempts |-> "none"]
    /\ userDenied = {}

GoOn(r, from, to) == pc[r] = from /\ pc' = [pc EXCEPT ![r] = to]

-----------------------------------------------------------------------------
(* Attempts: begin_network_approval to finish_*_network_approval *)

BeginCall(c) ==
    /\ callPC[c] = "idle"
    /\ callPC' = [callPC EXCEPT ![c] = "running"]
    /\ activeCalls' = activeCalls \cup {c}
    /\ UNCHANGED <<callOutcomes, pending, approved, denied, decision, waitVars, requestVars,
                   result, userDenied>>

\* finish_immediate_network_approval: take_call_outcome, then unregister_call.
TakeCallOutcome(c) ==
    /\ callPC[c] = "running"
    /\ callPC' = [callPC EXCEPT ![c] = "taken"]
    /\ result' = [result EXCEPT ![c] = IF callOutcomes[c] = "none" THEN "ok" ELSE callOutcomes[c]]
    /\ callOutcomes' = [callOutcomes EXCEPT ![c] = "none"]
    /\ UNCHANGED <<activeCalls, pending, approved, denied, decision, waitVars, requestVars,
                   userDenied>>

\* A deferred call, whose process lives on in unified exec, is unregistered
\* when the process is gone and learns nothing.
UnregisterCall(c) ==
    /\ callPC[c] \in {"running", "taken"}
    /\ callPC' = [callPC EXCEPT ![c] = "done"]
    /\ activeCalls' = activeCalls \ {c}
    /\ callOutcomes' = [callOutcomes EXCEPT ![c] = "none"]
    /\ UNCHANGED <<pending, approved, denied, decision, waitVars, requestVars, result, userDenied>>

\* The tool call is cancelled: run_attempt is dropped at an await.
DropAttempt(c) ==
    /\ callPC[c] \in {"running", "taken"}
    /\ callPC' = [callPC EXCEPT ![c] = "dropped"]
    /\ UNCHANGED <<serviceVars, waitVars, requestVars, result, userDenied>>

\* resolve_single_active_call
SingleActiveCall ==
    IF Cardinality(activeCalls) = 1 THEN CHOOSE c \in Attempts : c \in activeCalls ELSE NoAttempt

\* Mutant: the last outcome wins.
OverwriteCallOutcome(c, o) ==
    callOutcomes' = IF c = NoAttempt THEN callOutcomes ELSE [callOutcomes EXCEPT ![c] = o]

\* record_call_outcome: a denial by the user is not overwritten.
RecordCallOutcome(c, o) ==
    callOutcomes' = IF c = NoAttempt \/ callOutcomes[c] = "user" THEN callOutcomes
                                                       ELSE [callOutcomes EXCEPT ![c] = o]

-----------------------------------------------------------------------------
(* handle_inline_policy_request *)

StartRequest(r) ==
    /\ GoOn(r, "idle", "check_denied")
    /\ UNCHANGED <<serviceVars, waitVars, host, joined, answer, blames, attemptVars>>

CheckDenied(r) ==
    /\ GoOn(r, "check_denied", IF host[r] \in denied THEN "denied" ELSE "check_approved")
    /\ UNCHANGED <<serviceVars, waitVars, host, joined, answer, blames, attemptVars>>

CheckApproved(r) ==
    /\ GoOn(r, "check_approved", IF host[r] \in approved THEN "allowed" ELSE "get_or_create")
    /\ UNCHANGED <<serviceVars, waitVars, host, joined, answer, blames, attemptVars>>

\* An owner that refuses keeps the lock on pending_host_approvals until it has
\* recorded the denial.
PendingLocked == \E r \in Requests : pc[r] \in {"refused", "refused_record"}

\* Mutant: every request asks the user for itself.
AlwaysCreatePendingApproval(r) ==
    /\ ~PendingLocked
    /\ GoOn(r, "get_or_create", "owner")
    /\ pending' = [pending EXCEPT ![host[r]] = r]
    /\ UNCHANGED <<activeCalls, callOutcomes, approved, denied, decision, waitVars, host, joined,
                   answer, blames, attemptVars>>

\* Mutant: a request joins an approval that another destination waits for.
JoinAnyPendingApproval(r) ==
    /\ ~PendingLocked
    /\ \/ /\ \A h \in Hosts : pending[h] = NoRequest
          /\ GoOn(r, "get_or_create", "owner")
          /\ pending' = [pending EXCEPT ![host[r]] = r]
          /\ UNCHANGED joined
       \/ \E h \in Hosts :
             /\ pending[h] # NoRequest
             /\ GoOn(r, "get_or_create", "listen")
             /\ joined' = [joined EXCEPT ![r] = pending[h]]
             /\ UNCHANGED pending
    /\ UNCHANGED <<activeCalls, callOutcomes, approved, denied, decision, waitVars, host, answer,
                   blames, attemptVars>>

GetOrCreatePendingApproval(r) ==
    /\ ~PendingLocked
    /\ \/ /\ pending[host[r]] = NoRequest
          /\ GoOn(r, "get_or_create", "owner")
          /\ pending' = [pending EXCEPT ![host[r]] = r]
          /\ UNCHANGED joined
       \/ /\ pending[host[r]] # NoRequest
          /\ GoOn(r, "get_or_create", "listen")
          /\ joined' = [joined EXCEPT ![r] = pending[host[r]]]
          /\ UNCHANGED pending
    /\ UNCHANGED <<activeCalls, callOutcomes, approved, denied, decision, waitVars, host, answer,
                   blames, attemptVars>>

\* Mutant: the Notified is only created after the look at the decision.
ListenTooLate(r) ==
    /\ GoOn(r, "listen", "look")
    /\ UNCHANGED <<serviceVars, waitVars, host, joined, answer, blames, attemptVars>>

\* wait_for_decision: a Notified hears of a decision from its creation on.
Listen(r) ==
    /\ GoOn(r, "listen", "look")
    /\ listening' = listening \cup {r}
    /\ UNCHANGED <<serviceVars, notified, host, joined, answer, blames, attemptVars>>

LookForDecision(r) ==
    /\ GoOn(r, "look", CASE decision[joined[r]] = "none"     -> "wait"
                         [] decision[joined[r]] \in Allowing -> "allowed"
                         [] decision[joined[r]] = "deny"     -> "denied")
    /\ UNCHANGED <<serviceVars, waitVars, host, joined, answer, blames, attemptVars>>

WakeUp(r) ==
    /\ r \in notified
    /\ GoOn(r, "wait", "listen")
    /\ listening' = listening \ {r}
    /\ notified' = notified \ {r}
    /\ UNCHANGED <<serviceVars, host, joined, answer, blames, attemptVars>>

\* With no active turn, or approval policy Never, the owner refuses by itself.
Refuse(r) ==
    /\ GoOn(r, "owner", "decide")
    /\ answer' = [answer EXCEPT ![r] = "refuse"]
    /\ UNCHANGED <<serviceVars, waitVars, host, joined, blames, attemptVars>>

Prompt(r) ==
    /\ GoOn(r, "owner", "prompt")
    /\ blames' = [blames EXCEPT ![r] = SingleActiveCall]
    /\ UNCHANGED <<serviceVars, waitVars, host, joined, answer, attemptVars>>

\* The client or the guardian answers.  "deny_session" is a network policy
\* amendment that denies; one that allows is "allow_session".
Answer(r, a) ==
    /\ GoOn(r, "prompt", CASE a = "allow_once" -> "decide"
                           [] a = "allow_session" -> "cache"
                           [] a \in {"deny", "deny_session"} -> "blame")
    /\ answer' = [answer EXCEPT ![r] = a]
    /\ UNCHANGED <<serviceVars, waitVars, host, joined, blames, attemptVars>>

\* A denial by the guardian counts as policy, an amendment always as the user's.
Blame(r) ==
    /\ GoOn(r, "blame", IF answer[r] = "deny_session" THEN "cache" ELSE "decide")
    /\ \E o \in {"user", "policy"} :
          /\ o = "policy" => answer[r] = "deny"
          /\ RecordCallOutcome(blames[r], o)
          /\ userDenied' = IF o = "user" /\ blames[r] # NoAttempt /\ callPC[blames[r]] = "running"
                           THEN userDenied \cup {blames[r]} ELSE userDenied
    /\ UNCHANGED <<activeCalls, pending, approved, denied, decision, waitVars, host, joined,
                   answer, blames, callPC, result>>

\* Mutant: the host stays in the cache that says the opposite.
CacheRemoveNothing(r) ==
    /\ GoOn(r, "cache", "cache_insert")
    /\ UNCHANGED <<serviceVars, waitVars, host, joined, answer, blames, attemptVars>>

\* The host leaves one session cache, then enters the other.
CacheRemove(r) ==
    /\ GoOn(r, "cache", "cache_insert")
    /\ IF answer[r] = "allow_session"
       THEN denied' = denied \ {host[r]} /\ UNCHANGED approved
       ELSE approved' = approved \ {host[r]} /\ UNCHANGED denied
    /\ UNCHANGED <<activeCalls, callOutcomes, pending, decision, waitVars, host, joined, answer,
                   blames, attemptVars>>

CacheInsert(r) ==
    /\ GoOn(r, "cache_insert", "decide")
    /\ IF answer[r] = "allow_session"
       THEN approved' = approved \cup {host[r]} /\ UNCHANGED denied
       ELSE denied' = denied \cup {host[r]} /\ UNCHANGED approved
    /\ UNCHANGED <<activeCalls, callOutcomes, pending, decision, waitVars, host, joined, answer,
                   blames, attemptVars>>

\* set_decision stores the decision, then notifies those who listen.
SetDecision(r) ==
    /\ GoOn(r, "decide", "notify")
    /\ decision' = [decision EXCEPT ![r] = IF answer[r] \in Allowing THEN answer[r] ELSE "deny"]
    /\ UNCHANGED <<activeCalls, callOutcomes, pending, approved, denied, waitVars, host, joined,
                   answer, blames, attemptVars>>

NotifyWaiters(r) ==
    /\ GoOn(r, "notify", "remove")
    /\ notified' = notified \cup {w \in listening : joined[w] = r}
    /\ UNCHANGED <<serviceVars, listening, host, joined, answer, blames, attemptVars>>

RemovePending(r) ==
    /\ ~PendingLocked
    /\ GoOn(r, "remove", CASE answer[r] \in Allowing               -> "allowed"
                           [] answer[r] = "refuse"                 -> "refused"
                           [] answer[r] \in {"deny", "deny_session"} -> "denied")
    /\ pending' = [pending EXCEPT ![host[r]] = NoRequest]
    /\ UNCHANGED <<activeCalls, callOutcomes, approved, denied, decision, waitVars, host, joined,
                   answer, blames, attemptVars>>

-----------------------------------------------------------------------------
(* record_outcome_for_single_active_call: by an owner that refused, then by  *)
(* the proxy's observer for every request that was denied.                   *)

ResolveCall(r) ==
    /\ \/ GoOn(r, "refused", "refused_record")
       \/ GoOn(r, "denied", "denied_record")
    /\ blames' = [blames EXCEPT ![r] = SingleActiveCall]
    /\ UNCHANGED <<serviceVars, waitVars, host, joined, answer, attemptVars>>

RecordDenial(r) ==
    /\ \/ GoOn(r, "refused_record", "denied")
       \/ GoOn(r, "denied_record", "blocked")
    /\ RecordCallOutcome(blames[r], "policy")
    /\ UNCHANGED <<activeCalls, pending, approved, denied, decision, waitVars, host, joined,
                   answer, blames, attemptVars>>

\* The proxy drops what it does for a client that hangs up, at any await.
HangUp(r) ==
    /\ r \in Impatient
    /\ pc[r] \notin FinalPCs \cup {"idle", "notify"}
    /\ pc' = [pc EXCEPT ![r] = "gone"]
    /\ listening' = listening \ {r}
    /\ notified' = notified \ {r}
    /\ UNCHANGED <<serviceVars, host, joined, answer, blames, attemptVars>>

-----------------------------------------------------------------------------

RequestStep(r) ==
    \/ CheckDenied(r) \/ CheckApproved(r) \/ GetOrCreatePendingApproval(r)
    \/ Listen(r) \/ LookForDecision(r) \/ WakeUp(r)
    \/ Refuse(r) \/ Prompt(r) \/ (\E a \in Answers : Answer(r, a)) \/ Blame(r)
    \/ CacheRemove(r) \/ CacheInsert(r) \/ SetDecision(r) \/ NotifyWaiters(r) \/ RemovePending(r)
    \/ ResolveCall(r) \/ RecordDenial(r)

AttemptStep(c) == BeginCall(c) \/ TakeCallOutcome(c) \/ UnregisterCall(c) \/ DropAttempt(c)

\* Every connection is made and every call has begun, and all are over.
Quiescent ==
    /\ \A r \in Requests : pc[r] \in FinalPCs \cup {"wait"}
    /\ \A c \in Attempts : callPC[c] \in {"done", "dropped"}
    /\ UNCHANGED networkVars

NetworkNext ==
    \/ \E r \in Requests : StartRequest(r) \/ RequestStep(r) \/ HangUp(r)
    \/ \E c \in Attempts : AttemptStep(c)
    \/ Quiescent

NetworkSpec == NetworkInit /\ [][NetworkNext]_networkVars

\* The proxy polls its connections.  A prompt is answered, if only with the
\* Abort that a dropped sender stands for.
NetworkFairSpec == NetworkSpec /\ \A r \in Requests : WF_networkVars(RequestStep(r))

-----------------------------------------------------------------------------
(* Safety *)

\* The user is never asked about one destination twice at a time, also while
\* an owner stores its answer and others come and go.
OnePromptPerHost ==
    \A r, q \in Requests :
        pc[r] \in OwnerPCs /\ pc[q] \in OwnerPCs /\ host[r] = host[q] => r = q

\* The session caches never contradict each other, although each update takes
\* two locks one after the other.
CachesDisagreeNowhere == approved \cap denied = {}

\* A connection goes through only on an answer that covers it: its own, that
\* of the approval it joined, or one given for the session.
AllowedByAnswer ==
    \A r \in Requests : pc[r] = "allowed" =>
        \E q \in Requests :
            /\ host[q] = host[r]
            /\ \/ answer[q] = "allow_session"
               \/ answer[q] = "allow_once" /\ q \in {r, joined[r]}

\* A call that the user denied something while it ran is told so when it asks,
\* whatever policy denials are recorded for it before and after.
DenialReachesCall ==
    \A c \in userDenied : result[c] \in {"none", "user"}

-----------------------------------------------------------------------------
(* Liveness, under NetworkFairSpec *)

\* If no client hangs up every connection is decided: no waiter misses the
\* decision it waits for, and none joins an approval nobody decides.
RequestDecided ==
    \A r \in Requests : pc[r] = "check_denied" ~> pc[r] \in FinalPCs

-----------------------------------------------------------------------------
(* What the documentation says and the code does not do *)

\* network_approval_tests.rs:158, pending_waiters_receive_owner_decision:
\* "waiter should complete".  It fails when the client of the owner hangs up:
\* its pending approval stays, and all later requests for the host join it.
WaiterCompletes ==
    \A r \in Requests : pc[r] = "wait" ~> pc[r] # "wait"
=============================================================================
