------------------------------ MODULE Readiness ------------------------------
(***************************************************************************)
(* The ReadinessFlag of utils/readiness: a flag that turns true when one   *)
(* token holder marks it, or when it is looked at while nobody holds a     *)
(* token, and on which tasks wait (every mutating tool waits on the turn's *)
(* tool_call_gate).                                                        *)
(*                                                                         *)
(* A token is named by the subscriber that got it: numbers are unique      *)
(* until 2^32 - 1 tokens are held at once.  A step is what one task does   *)
(* between two points where another may run: an atomic access to `ready`,  *)
(* the closure run under the `tokens` lock, or a call on the watch channel.*)
(***************************************************************************)

CONSTANTS Subscribers,  \* the tasks that subscribe, then mark the flag
          Waiters,      \* the tasks in wait_ready
          NoTask        \* the value of a free lock

ASSUME ActorsAssumption ==
    /\ Subscribers \cap Waiters = {}
    /\ NoTask \notin Subscribers \cup Waiters

VARIABLES
    ready,      \* ReadinessFlag.ready
    tokens,     \* ReadinessFlag.tokens: the tokens that may still mark
    lock,       \* the task inside the tokens mutex, or NoTask
    sent,       \* the value stored in the watch channel
    receivers,  \* the waiters with a live watch receiver
    authorised, \* history: the subscribers whose mark_ready returned true
    pc          \* the point each task has reached

vars == <<ready, tokens, lock, sent, receivers, authorised, pc>>

SubscriberPC == {"subscribe", "subscribe_lock", "subscribe_locked", "holds",
                 "mark_lock", "mark_locked", "mark_send", "marked", "refused", "lock_failed"}
WaiterPC == {"wait", "try_lock", "try_locked", "ready_send", "reload", "receive",
             "borrow", "changed", "released", "dropped"}

TypeOK ==
    /\ ready \in BOOLEAN
    /\ tokens \subseteq Subscribers
    /\ lock \in Subscribers \cup Waiters \cup {NoTask}
    /\ sent \in BOOLEAN
    /\ receivers \subseteq Waiters
    /\ authorised \subseteq Subscribers
    /\ pc \in [Subscribers \cup Waiters -> SubscriberPC \cup WaiterPC]
    /\ \A s \in Subscribers : pc[s] \in SubscriberPC
    /\ \A w \in Waiters : pc[w] \in WaiterPC

Init ==
    /\ ready = FALSE
    /\ tokens = {}
    /\ lock = NoTask
    /\ sent = FALSE
    /\ receivers = {}
    /\ authorised = {}
    /\ pc = [t \in Subscribers \cup Waiters |-> IF t \in Waiters THEN "wait" ELSE "subscribe"]

Goto(t, from, to) == pc[t] = from /\ pc' = [pc EXCEPT ![t] = to]

\* watch::Sender::send stores the value only when some receiver is alive.
WatchSend == sent' = (sent \/ receivers # {})

-----------------------------------------------------------------------------
(* with_tokens: a lock wait of at most LOCK_TIMEOUT, then the closure.     *)

Acquire(t, from, to) ==
    /\ lock = NoTask
    /\ Goto(t, from, to)
    /\ lock' = t
    /\ UNCHANGED <<ready, tokens, sent, receivers, authorised>>

LockTimeout(t) ==
    /\ lock # NoTask
    /\ \/ Goto(t, "subscribe_lock", "lock_failed")
       \/ Goto(t, "mark_lock", "lock_failed")
    /\ UNCHANGED <<ready, tokens, lock, sent, receivers, authorised>>

-----------------------------------------------------------------------------
(* subscribe *)

SubscribeCheck(s) ==
    /\ Goto(s, "subscribe", IF ready THEN "refused" ELSE "subscribe_lock")
    /\ UNCHANGED <<ready, tokens, lock, sent, receivers, authorised>>

SubscribeLock(s) == Acquire(s, "subscribe_lock", "subscribe_locked")

\* Mutant: no second look at `ready` under the lock.
SubscribeInsertUnchecked(s) ==
    /\ Goto(s, "subscribe_locked", "holds")
    /\ tokens' = tokens \cup {s}
    /\ lock' = NoTask
    /\ UNCHANGED <<ready, sent, receivers, authorised>>

\* The closure looks at `ready` again before it inserts the token.
SubscribeInsert(s) ==
    /\ Goto(s, "subscribe_locked", IF ready THEN "refused" ELSE "holds")
    /\ tokens' = IF ready THEN tokens ELSE tokens \cup {s}
    /\ lock' = NoTask
    /\ UNCHANGED <<ready, sent, receivers, authorised>>

Subscribe(s) == SubscribeCheck(s) \/ SubscribeLock(s) \/ SubscribeInsert(s)

-----------------------------------------------------------------------------
(* mark_ready *)

MarkCheck(s) ==
    /\ Goto(s, "holds", IF ready THEN "refused" ELSE "mark_lock")
    /\ UNCHANGED <<ready, tokens, lock, sent, receivers, authorised>>

MarkLock(s) == Acquire(s, "mark_lock", "mark_locked")

\* The closure: only a token still in the set turns the flag, and takes
\* every other token with it.
MarkStore(s) ==
    /\ Goto(s, "mark_locked", IF s \in tokens THEN "mark_send" ELSE "refused")
    /\ ready' = (ready \/ s \in tokens)
    /\ tokens' = IF s \in tokens THEN {} ELSE tokens
    /\ authorised' = IF s \in tokens THEN authorised \cup {s} ELSE authorised
    /\ lock' = NoTask
    /\ UNCHANGED <<sent, receivers>>

\* Mutant: the broadcast is left out.
MarkSendSilent(s) ==
    /\ Goto(s, "mark_send", "marked")
    /\ UNCHANGED <<ready, tokens, lock, sent, receivers, authorised>>

\* The broadcast happens after the lock is released.
MarkSend(s) ==
    /\ Goto(s, "mark_send", "marked")
    /\ WatchSend
    /\ UNCHANGED <<ready, tokens, lock, receivers, authorised>>

MarkReady(s) == MarkCheck(s) \/ MarkLock(s) \/ MarkStore(s) \/ MarkSend(s)

-----------------------------------------------------------------------------
(* is_ready, as wait_ready calls it *)

IsReadyLoad(w) ==
    /\ Goto(w, "wait", IF ready THEN "released" ELSE "try_lock")
    /\ UNCHANGED <<ready, tokens, lock, sent, receivers, authorised>>

IsReadyTryLock(w) ==
    \/ Acquire(w, "try_lock", "try_locked")
    \/ /\ lock # NoTask
       /\ Goto(w, "try_lock", "reload")
       /\ UNCHANGED <<ready, tokens, lock, sent, receivers, authorised>>

\* With no token left the observer itself turns the flag.
IsReadyLocked(w) ==
    /\ Goto(w, "try_locked", CASE tokens # {}           -> "reload"
                               [] tokens = {} /\ ready  -> "released"
                               [] tokens = {} /\ ~ready -> "ready_send")
    /\ ready' = (ready \/ tokens = {})
    /\ lock' = NoTask
    /\ UNCHANGED <<tokens, sent, receivers, authorised>>

IsReadySend(w) ==
    /\ Goto(w, "ready_send", "released")
    /\ WatchSend
    /\ UNCHANGED <<ready, tokens, lock, receivers, authorised>>

IsReadyReload(w) ==
    /\ Goto(w, "reload", IF ready THEN "released" ELSE "receive")
    /\ UNCHANGED <<ready, tokens, lock, sent, receivers, authorised>>

IsReady(w) == IsReadyLoad(w) \/ IsReadyTryLock(w) \/ IsReadyLocked(w)
              \/ IsReadySend(w) \/ IsReadyReload(w)

-----------------------------------------------------------------------------
(* The rest of wait_ready *)

\* tx.subscribe(): from here on sends are stored.
WaitReceive(w) ==
    /\ Goto(w, "receive", "borrow")
    /\ receivers' = receivers \cup {w}
    /\ UNCHANGED <<ready, tokens, lock, sent, authorised>>

WaitBorrow(w) ==
    /\ Goto(w, "borrow", IF sent THEN "released" ELSE "changed")
    /\ receivers' = IF sent THEN receivers \ {w} ELSE receivers
    /\ UNCHANGED <<ready, tokens, lock, sent, authorised>>

\* changed() completes once a value was sent, and true is the only one.
WaitChanged(w) ==
    /\ sent
    /\ Goto(w, "changed", "released")
    /\ receivers' = receivers \ {w}
    /\ UNCHANGED <<ready, tokens, lock, sent, authorised>>

\* The tool call that waits may be cancelled, which drops its receiver.
WaitDropped(w) ==
    /\ Goto(w, "changed", "dropped")
    /\ receivers' = receivers \ {w}
    /\ UNCHANGED <<ready, tokens, lock, sent, authorised>>

WaitReady(w) == IsReady(w) \/ WaitReceive(w) \/ WaitBorrow(w) \/ WaitChanged(w)

Done ==
    /\ \A s \in Subscribers : pc[s] \in {"marked", "refused", "lock_failed"}
    /\ \A w \in Waiters : pc[w] \in {"released", "dropped"}
    /\ UNCHANGED vars

SubscriberStep(s) == Subscribe(s) \/ MarkReady(s)

Next ==
    \/ \E s \in Subscribers : SubscriberStep(s) \/ LockTimeout(s)
    \/ \E w \in Waiters : WaitReady(w) \/ WaitDropped(w)
    \/ Done

\* The runtime polls every runnable task, and the ghost snapshot task marks
\* its token on every path out of its run.
Fairness ==
    /\ \A s \in Subscribers : WF_vars(SubscriberStep(s))
    /\ \A w \in Waiters : WF_vars(WaitReady(w))

Spec == Init /\ [][Next]_vars

FairSpec == Spec /\ Fairness

-----------------------------------------------------------------------------
(* Properties *)

\* No mutating tool passes the gate while a snapshot still owes its mark:
\* if the flag is ready and somebody was ever given a token, then some
\* holder's mark_ready was authorised.  It needs the second look at `ready`
\* under the lock in subscribe and the lock around is_ready's emptiness test.
GateOpensOnlyByMark ==
    (ready /\ \E s \in Subscribers : pc[s] \in {"holds", "mark_lock", "mark_locked"})
        => authorised # {}

\* Of the holders that race into mark_ready, exactly one is told that it
\* turned the flag ("the flag was not already ready", readiness trait doc).
OneAuthorisation == \A s, t \in authorised : s = t

\* A waiter whose receiver exists before the flag turns is released, unless
\* it is dropped or some task lost its turn at the tokens lock (LOCK_TIMEOUT).
EarlyReceiverReleased ==
    \A w \in Waiters :
        (w \in receivers /\ ~ready) ~>
            (\/ pc[w] \in {"released", "dropped"}
             \/ \E s \in Subscribers : pc[s] = "lock_failed")

\* Trait doc of wait_ready: "Asynchronously wait until the flag becomes
\* ready."  Once the flag is up every waiter should leave wait_ready.  It
\* does not hold: a broadcast that falls between is_ready and tx.subscribe()
\* is dropped, and the waiter then waits for a change that never comes.
ReadyReleasesWaiters ==
    \A w \in Waiters : ready ~> pc[w] \in {"released", "dropped"}
=============================================================================
