------------------------ MODULE ClientRequestsProofs ------------------------
(***************************************************************************)
(* Proofs about ClientRequests, for any number of connections and          *)
(* requests.                                                               *)
(*                                                                         *)
(* The inductive invariant ties the stage of a request to what the         *)
(* listener has in its hands (Hands), and says who may show a request and  *)
(* who is yet to be told of it (Views, Prompts, Heard).                    *)
(***************************************************************************)
EXTENDS ClientRequests, FiniteSetTheorems, TLAPS

USE NoOneAssumption, RequestsAssumption

\* What the listener works on, and that nobody else has it in the same stage.
Hands ==
    /\ at \in {"note", "insert", "send", "resolve"} => request \in Requests
    /\ at \in {"compose", "list", "replay"} <=> connection \in Connections
    /\ at = "note" => stage[request] = "unsent"
    /\ \A q \in Requests :
          /\ stage[q] = "noted" <=> (at = "insert" /\ request = q)
          /\ stage[q] = "sending" <=> (at = "send" /\ request = q)
          /\ stage[q] = "resolving" <=> (at = "resolve" /\ request = q)
    /\ backlog # {} => at = "replay"
    /\ at = "gone" => cleared

\* Whoever waits for an answer has sent the request or is sending it.
Waits == \A q \in pending : stage[q] \in {"sending", "waiting"}

\* A client that does not follow the thread shows nothing of it.
Views == \A c \in Connections \ Following : shown[c] = {}

\* What is shown, or will be shown by a replay, has its resolution to come.
Prompts ==
    ~cleared =>
        /\ \A q \in backlog : stage[q] \in {"waiting", "asking"}
        /\ \A c \in Following : \A q \in shown[c] :
              \/ stage[q] \in {"sending", "waiting", "asking"}
              \/ stage[q] = "resolving" /\ c \in targets

\* A request that is about to be sent goes to everybody who is up to date,
\* and one that waits goes to the connection about to be.
Heard ==
    /\ at \in {"note", "insert"} => upToDate \subseteq targets
    /\ at = "replay" => \A q \in pending : q \in backlog \/ q \in shown[connection]

IInv == ClientTypeOK /\ Hands /\ Waits /\ Views /\ Prompts /\ Heard /\ PendingIsHeard /\ FlagIsHonest

-----------------------------------------------------------------------------
(* Type correctness *)

\* Every action keeps the types.
LEMMA TypeStep ==
    ASSUME IInv, [ClientNext]_clientVars
    PROVE  ClientTypeOK'
  <1> USE DEF IInv, ClientTypeOK, Stages
  <1>1. ASSUME NEW q \in Requests, TakeRequest(q) PROVE ClientTypeOK'
    BY <1>1 DEF TakeRequest, threadVars
  <1>2. ASSUME NotePermission PROVE ClientTypeOK'
    BY <1>2 DEF Hands, NotePermission, threadVars
  <1>3. ASSUME InsertCallback PROVE ClientTypeOK'
    BY <1>3 DEF Hands, InsertCallback, threadVars
  <1>4. ASSUME NEW c \in Connections, SendRequest(c) PROVE ClientTypeOK'
    BY <1>4 DEF Hands, SendRequest, Show, threadVars
  <1>5. ASSUME SpawnWaiter PROVE ClientTypeOK'
    BY <1>5 DEF SpawnWaiter, threadVars
  <1>6. ASSUME TakeTransition PROVE ClientTypeOK'
    BY <1>6 DEF TakeTransition, threadVars
  <1>7. ASSUME AbortPending PROVE ClientTypeOK'
    BY <1>7 DEF AbortPending, threadVars
  <1>8. ASSUME ClearActiveState PROVE ClientTypeOK'
    BY <1>8 DEF ClearActiveState, threadVars
  <1>9. ASSUME NEW q \in Requests, TakeResolve(q) PROVE ClientTypeOK'
    BY <1>9 DEF TakeResolve, threadVars
  <1>10. ASSUME NEW c \in Connections, SendResolved(c) PROVE ClientTypeOK'
    BY <1>10 DEF SendResolved, threadVars
  <1>11. ASSUME CompleteResolve PROVE ClientTypeOK'
    BY <1>11 DEF CompleteResolve, threadVars
  <1>12. ASSUME NEW c \in Connections, TakeResume(c) PROVE ClientTypeOK'
    BY <1>12 DEF TakeResume, threadVars
  <1>13. ASSUME FailResume PROVE ClientTypeOK'
    BY <1>13 DEF FailResume, threadVars
  <1>14. ASSUME SendResumeResponse PROVE ClientTypeOK'
    BY <1>14 DEF SendResumeResponse, threadVars
  <1>15. ASSUME ListPending PROVE ClientTypeOK'
    BY <1>15 DEF ListPending, threadVars
  <1>16. ASSUME NEW q \in Requests, ReplayRequest(q) PROVE ClientTypeOK'
    BY <1>16 DEF ReplayRequest, Show, threadVars
  <1>17. ASSUME AttachResumed PROVE ClientTypeOK'
    BY <1>17 DEF AttachResumed, CloseViews
  <1>18. ASSUME StopListener PROVE ClientTypeOK'
    BY <1>18 DEF StopListener, threadVars
  <1>19. ASSUME NEW q \in Requests, AskResolve(q) PROVE ClientTypeOK'
    BY <1>19 DEF AskResolve, threadVars, listenerVars
  <1>20. ASSUME NEW q \in Requests, GiveUp(q) PROVE ClientTypeOK'
    BY <1>20 DEF GiveUp, threadVars, listenerVars
  <1>21. ASSUME NEW q \in Requests, ReleaseGuard(q) PROVE ClientTypeOK'
    BY <1>21 DEF ReleaseGuard, threadVars, listenerVars
  <1>22. ASSUME NEW c \in Connections, NEW q \in Requests, Answer(c, q) PROVE ClientTypeOK'
    BY <1>22 DEF Answer, threadVars, listenerVars
  <1>23. ASSUME NEW c \in Connections, Resume(c) PROVE ClientTypeOK'
    BY <1>23 DEF Resume, threadVars, listenerVars
  <1>24. ASSUME NEW c \in Connections, AttachClient(c) PROVE ClientTypeOK'
    BY <1>24 DEF AttachClient, listenerVars
  <1>25. ASSUME NEW c \in Connections, CloseConnection(c) PROVE ClientTypeOK'
    BY <1>25 DEF CloseConnection, CloseViews, listenerVars
  <1>26. ASSUME NEW c \in Connections, Unsubscribe(c) PROVE ClientTypeOK'
    BY <1>26 DEF Unsubscribe, CloseViews, listenerVars
  <1>27. ASSUME HasSubscribers PROVE ClientTypeOK'
    BY <1>27 DEF HasSubscribers, threadVars, listenerVars
  <1>28. ASSUME Archive PROVE ClientTypeOK'
    BY <1>28 DEF Archive, threadVars, listenerVars
  <1>29. ASSUME CancelRequests PROVE ClientTypeOK'
    BY <1>29 DEF CancelRequests, threadVars, listenerVars
  <1>30. ASSUME RemoveThreadState PROVE ClientTypeOK'
    BY <1>30 DEF RemoveThreadState, CloseViews, listenerVars
  <1>31. ASSUME ClearListener PROVE ClientTypeOK'
    BY <1>31 DEF ClearListener, threadVars, listenerVars
  <1>32. CASE UNCHANGED clientVars
    BY <1>32 DEF clientVars, threadVars, listenerVars
  <1> QED
    BY <1>1, <1>2, <1>3, <1>4, <1>5, <1>6, <1>7, <1>8, <1>9, <1>10, <1>11, <1>12, <1>13, <1>14,
       <1>15, <1>16, <1>17, <1>18, <1>19, <1>20, <1>21, <1>22, <1>23, <1>24, <1>25, <1>26,
       <1>27, <1>28, <1>29, <1>30, <1>31, <1>32 DEF ClientNext, ListenerGoesOn, WaiterStep, Teardown,
       Client, Quiescent

-----------------------------------------------------------------------------
(* Who has a request in hand *)

\* The listener leaves a stage as it leaves the request, and the waiter takes
\* over only where the listener has let go.
LEMMA HandsStep ==
    ASSUME IInv, [ClientNext]_clientVars
    PROVE  Hands'
  <1> USE DEF IInv, ClientTypeOK, Stages, Hands, Waits
  <1>1. ASSUME NEW q \in Requests, TakeRequest(q) PROVE Hands'
    BY <1>1 DEF TakeRequest, threadVars
  <1>2. ASSUME NotePermission PROVE Hands'
    BY <1>2 DEF NotePermission, threadVars
  <1>3. ASSUME InsertCallback PROVE Hands'
    BY <1>3 DEF InsertCallback, threadVars
  <1>4. ASSUME NEW c \in Connections, SendRequest(c) PROVE Hands'
    BY <1>4 DEF SendRequest, Show, threadVars
  <1>5. ASSUME SpawnWaiter PROVE Hands'
    BY <1>5 DEF SpawnWaiter, threadVars
  <1>6. ASSUME TakeTransition PROVE Hands'
    BY <1>6 DEF TakeTransition, threadVars
  <1>7. ASSUME AbortPending PROVE Hands'
    BY <1>7 DEF AbortPending, threadVars
  <1>8. ASSUME ClearActiveState PROVE Hands'
    BY <1>8 DEF ClearActiveState, threadVars
  <1>9. ASSUME NEW q \in Requests, TakeResolve(q) PROVE Hands'
    BY <1>9 DEF TakeResolve, threadVars
  <1>10. ASSUME NEW c \in Connections, SendResolved(c) PROVE Hands'
    BY <1>10 DEF SendResolved, threadVars
  <1>11. ASSUME CompleteResolve PROVE Hands'
    BY <1>11 DEF CompleteResolve, threadVars
  <1>12. ASSUME NEW c \in Connections, TakeResume(c) PROVE Hands'
    BY <1>12 DEF TakeResume, threadVars
  <1>13. ASSUME FailResume PROVE Hands'
    BY <1>13 DEF FailResume, threadVars
  <1>14. ASSUME SendResumeResponse PROVE Hands'
    BY <1>14 DEF SendResumeResponse, threadVars
  <1>15. ASSUME ListPending PROVE Hands'
    BY <1>15 DEF ListPending, threadVars
  <1>16. ASSUME NEW q \in Requests, ReplayRequest(q) PROVE Hands'
    BY <1>16 DEF ReplayRequest, Show, threadVars
  <1>17. ASSUME AttachResumed PROVE Hands'
    BY <1>17 DEF AttachResumed, CloseViews
  <1>18. ASSUME StopListener PROVE Hands'
    BY <1>18 DEF StopListener, threadVars
  <1>19. ASSUME NEW q \in Requests, AskResolve(q) PROVE Hands'
    BY <1>19 DEF AskResolve, threadVars, listenerVars
  <1>20. ASSUME NEW q \in Requests, GiveUp(q) PROVE Hands'
    BY <1>20 DEF GiveUp, threadVars, listenerVars
  <1>21. ASSUME NEW q \in Requests, ReleaseGuard(q) PROVE Hands'
    BY <1>21 DEF ReleaseGuard, threadVars, listenerVars
  <1>22. ASSUME NEW c \in Connections, NEW q \in Requests, Answer(c, q) PROVE Hands'
    BY <1>22 DEF Answer, threadVars, listenerVars
  <1>23. ASSUME NEW c \in Connections, Resume(c) PROVE Hands'
    BY <1>23 DEF Resume, threadVars, listenerVars
  <1>24. ASSUME NEW c \in Connections, AttachClient(c) PROVE Hands'
    BY <1>24 DEF AttachClient, listenerVars
  <1>25. ASSUME NEW c \in Connections, CloseConnection(c) PROVE Hands'
    BY <1>25 DEF CloseConnection, CloseViews, listenerVars
  <1>26. ASSUME NEW c \in Connections, Unsubscribe(c) PROVE Hands'
    BY <1>26 DEF Unsubscribe, CloseViews, listenerVars
  <1>27. ASSUME HasSubscribers PROVE Hands'
    BY <1>27 DEF HasSubscribers, threadVars, listenerVars
  <1>28. ASSUME Archive PROVE Hands'
    BY <1>28 DEF Archive, threadVars, listenerVars
  <1>29. ASSUME CancelRequests PROVE Hands'
    BY <1>29 DEF CancelRequests, threadVars, listenerVars
  <1>30. ASSUME RemoveThreadState PROVE Hands'
    BY <1>30 DEF RemoveThreadState, CloseViews, listenerVars
  <1>31. ASSUME ClearListener PROVE Hands'
    BY <1>31 DEF ClearListener, threadVars, listenerVars
  <1>32. CASE UNCHANGED clientVars
    BY <1>32 DEF clientVars, threadVars, listenerVars
  <1> QED
    BY <1>1, <1>2, <1>3, <1>4, <1>5, <1>6, <1>7, <1>8, <1>9, <1>10, <1>11, <1>12, <1>13, <1>14,
       <1>15, <1>16, <1>17, <1>18, <1>19, <1>20, <1>21, <1>22, <1>23, <1>24, <1>25, <1>26,
       <1>27, <1>28, <1>29, <1>30, <1>31, <1>32 DEF ClientNext, ListenerGoesOn, WaiterStep, Teardown,
       Client, Quiescent

\* A waiter goes on only when its request has left the table.
LEMMA WaitsStep ==
    ASSUME IInv, [ClientNext]_clientVars
    PROVE  Waits'
  <1> USE DEF IInv, ClientTypeOK, Stages, Hands, Waits
  <1>1. ASSUME NEW q \in Requests, TakeRequest(q) PROVE Waits'
    BY <1>1 DEF TakeRequest, threadVars
  <1>2. ASSUME NotePermission PROVE Waits'
    BY <1>2 DEF NotePermission, threadVars
  <1>3. ASSUME InsertCallback PROVE Waits'
    BY <1>3 DEF InsertCallback, threadVars
  <1>4. ASSUME NEW c \in Connections, SendRequest(c) PROVE Waits'
    BY <1>4 DEF SendRequest, Show, threadVars
  <1>5. ASSUME SpawnWaiter PROVE Waits'
    BY <1>5 DEF SpawnWaiter, threadVars
  <1>6. ASSUME TakeTransition PROVE Waits'
    BY <1>6 DEF TakeTransition, threadVars
  <1>7. ASSUME AbortPending PROVE Waits'
    BY <1>7 DEF AbortPending, threadVars
  <1>8. ASSUME ClearActiveState PROVE Waits'
    BY <1>8 DEF ClearActiveState, threadVars
  <1>9. ASSUME NEW q \in Requests, TakeResolve(q) PROVE Waits'
    BY <1>9 DEF TakeResolve, threadVars
  <1>10. ASSUME NEW c \in Connections, SendResolved(c) PROVE Waits'
    BY <1>10 DEF SendResolved, threadVars
  <1>11. ASSUME CompleteResolve PROVE Waits'
    BY <1>11 DEF CompleteResolve, threadVars
  <1>12. ASSUME NEW c \in Connections, TakeResume(c) PROVE Waits'
    BY <1>12 DEF TakeResume, threadVars
  <1>13. ASSUME FailResume PROVE Waits'
    BY <1>13 DEF FailResume, threadVars
  <1>14. ASSUME SendResumeResponse PROVE Waits'
    BY <1>14 DEF SendResumeResponse, threadVars
  <1>15. ASSUME ListPending PROVE Waits'
    BY <1>15 DEF ListPending, threadVars
  <1>16. ASSUME NEW q \in Requests, ReplayRequest(q) PROVE Waits'
    BY <1>16 DEF ReplayRequest, Show, threadVars
  <1>17. ASSUME AttachResumed PROVE Waits'
    BY <1>17 DEF AttachResumed, CloseViews
  <1>18. ASSUME StopListener PROVE Waits'
    BY <1>18 DEF StopListener, threadVars
  <1>19. ASSUME NEW q \in Requests, AskResolve(q) PROVE Waits'
    BY <1>19 DEF AskResolve, threadVars, listenerVars
  <1>20. ASSUME NEW q \in Requests, GiveUp(q) PROVE Waits'
    BY <1>20 DEF GiveUp, threadVars, listenerVars
  <1>21. ASSUME NEW q \in Requests, ReleaseGuard(q) PROVE Waits'
    BY <1>21 DEF ReleaseGuard, threadVars, listenerVars
  <1>22. ASSUME NEW c \in Connections, NEW q \in Requests, Answer(c, q) PROVE Waits'
    BY <1>22 DEF Answer, threadVars, listenerVars
  <1>23. ASSUME NEW c \in Connections, Resume(c) PROVE Waits'
    BY <1>23 DEF Resume, threadVars, listenerVars
  <1>24. ASSUME NEW c \in Connections, AttachClient(c) PROVE Waits'
    BY <1>24 DEF AttachClient, listenerVars
  <1>25. ASSUME NEW c \in Connections, CloseConnection(c) PROVE Waits'
    BY <1>25 DEF CloseConnection, CloseViews, listenerVars
  <1>26. ASSUME NEW c \in Connections, Unsubscribe(c) PROVE Waits'
    BY <1>26 DEF Unsubscribe, CloseViews, listenerVars
  <1>27. ASSUME HasSubscribers PROVE Waits'
    BY <1>27 DEF HasSubscribers, threadVars, listenerVars
  <1>28. ASSUME Archive PROVE Waits'
    BY <1>28 DEF Archive, threadVars, listenerVars
  <1>29. ASSUME CancelRequests PROVE Waits'
    BY <1>29 DEF CancelRequests, threadVars, listenerVars
  <1>30. ASSUME RemoveThreadState PROVE Waits'
    BY <1>30 DEF RemoveThreadState, CloseViews, listenerVars
  <1>31. ASSUME ClearListener PROVE Waits'
    BY <1>31 DEF ClearListener, threadVars, listenerVars
  <1>32. CASE UNCHANGED clientVars
    BY <1>32 DEF clientVars, threadVars, listenerVars
  <1> QED
    BY <1>1, <1>2, <1>3, <1>4, <1>5, <1>6, <1>7, <1>8, <1>9, <1>10, <1>11, <1>12, <1>13, <1>14,
       <1>15, <1>16, <1>17, <1>18, <1>19, <1>20, <1>21, <1>22, <1>23, <1>24, <1>25, <1>26,
       <1>27, <1>28, <1>29, <1>30, <1>31, <1>32 DEF ClientNext, ListenerGoesOn, WaiterStep, Teardown,
       Client, Quiescent

-----------------------------------------------------------------------------
(* What clients show *)

\* A client that leaves closes its view.
LEMMA ViewsStep ==
    ASSUME IInv, [ClientNext]_clientVars
    PROVE  Views'
  <1> USE DEF IInv, ClientTypeOK, Hands, Views, Following
  <1>1. ASSUME NEW q \in Requests, TakeRequest(q) PROVE Views'
    BY <1>1 DEF TakeRequest, threadVars
  <1>2. ASSUME NotePermission PROVE Views'
    BY <1>2 DEF NotePermission, threadVars
  <1>3. ASSUME InsertCallback PROVE Views'
    BY <1>3 DEF InsertCallback, threadVars
  <1>4. ASSUME NEW c \in Connections, SendRequest(c) PROVE Views'
    BY <1>4 DEF SendRequest, Show, threadVars
  <1>5. ASSUME SpawnWaiter PROVE Views'
    BY <1>5 DEF SpawnWaiter, threadVars
  <1>6. ASSUME TakeTransition PROVE Views'
    BY <1>6 DEF TakeTransition, threadVars
  <1>7. ASSUME AbortPending PROVE Views'
    BY <1>7 DEF AbortPending, threadVars
  <1>8. ASSUME ClearActiveState PROVE Views'
    BY <1>8 DEF ClearActiveState, threadVars
  <1>9. ASSUME NEW q \in Requests, TakeResolve(q) PROVE Views'
    BY <1>9 DEF TakeResolve, threadVars
  <1>10. ASSUME NEW c \in Connections, SendResolved(c) PROVE Views'
    BY <1>10 DEF SendResolved, threadVars
  <1>11. ASSUME CompleteResolve PROVE Views'
    BY <1>11 DEF CompleteResolve, threadVars
  <1>12. ASSUME NEW c \in Connections, TakeResume(c) PROVE Views'
    BY <1>12 DEF TakeResume, threadVars
  <1>13. ASSUME FailResume PROVE Views'
    BY <1>13 DEF FailResume, threadVars
  <1>14. ASSUME SendResumeResponse PROVE Views'
    BY <1>14 DEF SendResumeResponse, threadVars
  <1>15. ASSUME ListPending PROVE Views'
    BY <1>15 DEF ListPending, threadVars
  <1>16. ASSUME NEW q \in Requests, ReplayRequest(q) PROVE Views'
    BY <1>16 DEF ReplayRequest, Show, threadVars
  <1>17. ASSUME AttachResumed PROVE Views'
    BY <1>17 DEF AttachResumed, CloseViews
  <1>18. ASSUME StopListener PROVE Views'
    BY <1>18 DEF StopListener, threadVars
  <1>19. ASSUME NEW q \in Requests, AskResolve(q) PROVE Views'
    BY <1>19 DEF AskResolve, threadVars, listenerVars
  <1>20. ASSUME NEW q \in Requests, GiveUp(q) PROVE Views'
    BY <1>20 DEF GiveUp, threadVars, listenerVars
  <1>21. ASSUME NEW q \in Requests, ReleaseGuard(q) PROVE Views'
    BY <1>21 DEF ReleaseGuard, threadVars, listenerVars
  <1>22. ASSUME NEW c \in Connections, NEW q \in Requests, Answer(c, q) PROVE Views'
    BY <1>22 DEF Answer, threadVars, listenerVars
  <1>23. ASSUME NEW c \in Connections, Resume(c) PROVE Views'
    BY <1>23 DEF Resume, threadVars, listenerVars
  <1>24. ASSUME NEW c \in Connections, AttachClient(c) PROVE Views'
    BY <1>24 DEF AttachClient, listenerVars
  <1>25. ASSUME NEW c \in Connections, CloseConnection(c) PROVE Views'
    BY <1>25 DEF CloseConnection, CloseViews, listenerVars
  <1>26. ASSUME NEW c \in Connections, Unsubscribe(c) PROVE Views'
    BY <1>26 DEF Unsubscribe, CloseViews, listenerVars
  <1>27. ASSUME HasSubscribers PROVE Views'
    BY <1>27 DEF HasSubscribers, threadVars, listenerVars
  <1>28. ASSUME Archive PROVE Views'
    BY <1>28 DEF Archive, threadVars, listenerVars
  <1>29. ASSUME CancelRequests PROVE Views'
    BY <1>29 DEF CancelRequests, threadVars, listenerVars
  <1>30. ASSUME RemoveThreadState PROVE Views'
    BY <1>30 DEF RemoveThreadState, CloseViews, listenerVars
  <1>31. ASSUME ClearListener PROVE Views'
    BY <1>31 DEF ClearListener, threadVars, listenerVars
  <1>32. CASE UNCHANGED clientVars
    BY <1>32 DEF clientVars, threadVars, listenerVars
  <1> QED
    BY <1>1, <1>2, <1>3, <1>4, <1>5, <1>6, <1>7, <1>8, <1>9, <1>10, <1>11, <1>12, <1>13, <1>14,
       <1>15, <1>16, <1>17, <1>18, <1>19, <1>20, <1>21, <1>22, <1>23, <1>24, <1>25, <1>26,
       <1>27, <1>28, <1>29, <1>30, <1>31, <1>32 DEF ClientNext, ListenerGoesOn, WaiterStep, Teardown,
       Client, Quiescent

\* A replay sends nothing that the listener resolves later on its own round:
\* both are the listener's, one after the other.
LEMMA PromptsStep ==
    ASSUME IInv, [ClientNext]_clientVars
    PROVE  Prompts'
  <1> USE DEF IInv, ClientTypeOK, Stages, Hands, Waits, Views, Prompts, Following
  <1>1. ASSUME NEW q \in Requests, TakeRequest(q) PROVE Prompts'
    BY <1>1 DEF TakeRequest, threadVars
  <1>2. ASSUME NotePermission PROVE Prompts'
    BY <1>2 DEF NotePermission, threadVars
  <1>3. ASSUME InsertCallback PROVE Prompts'
    BY <1>3 DEF InsertCallback, threadVars
  <1>4. ASSUME NEW c \in Connections, SendRequest(c) PROVE Prompts'
    BY <1>4 DEF SendRequest, Show, threadVars
  <1>5. ASSUME SpawnWaiter PROVE Prompts'
    BY <1>5 DEF SpawnWaiter, threadVars
  <1>6. ASSUME TakeTransition PROVE Prompts'
    BY <1>6 DEF TakeTransition, threadVars
  <1>7. ASSUME AbortPending PROVE Prompts'
    BY <1>7 DEF AbortPending, threadVars
  <1>8. ASSUME ClearActiveState PROVE Prompts'
    BY <1>8 DEF ClearActiveState, threadVars
  <1>9. ASSUME NEW q \in Requests, TakeResolve(q) PROVE Prompts'
    BY <1>9 DEF TakeResolve, threadVars
  <1>10. ASSUME NEW c \in Connections, SendResolved(c) PROVE Prompts'
    BY <1>10 DEF SendResolved, threadVars
  <1>11. ASSUME CompleteResolve PROVE Prompts'
    BY <1>11 DEF CompleteResolve, threadVars
  <1>12. ASSUME NEW c \in Connections, TakeResume(c) PROVE Prompts'
    BY <1>12 DEF TakeResume, threadVars
  <1>13. ASSUME FailResume PROVE Prompts'
    BY <1>13 DEF FailResume, threadVars
  <1>14. ASSUME SendResumeResponse PROVE Prompts'
    BY <1>14 DEF SendResumeResponse, threadVars
  <1>15. ASSUME ListPending PROVE Prompts'
    BY <1>15 DEF ListPending, threadVars
  <1>16. ASSUME NEW q \in Requests, ReplayRequest(q) PROVE Prompts'
    BY <1>16 DEF ReplayRequest, Show, threadVars
  <1>17. ASSUME AttachResumed PROVE Prompts'
    BY <1>17 DEF AttachResumed, CloseViews
  <1>18. ASSUME StopListener PROVE Prompts'
    BY <1>18 DEF StopListener, threadVars
  <1>19. ASSUME NEW q \in Requests, AskResolve(q) PROVE Prompts'
    BY <1>19 DEF AskResolve, threadVars, listenerVars
  <1>20. ASSUME NEW q \in Requests, GiveUp(q) PROVE Prompts'
    BY <1>20 DEF GiveUp, threadVars, listenerVars
  <1>21. ASSUME NEW q \in Requests, ReleaseGuard(q) PROVE Prompts'
    BY <1>21 DEF ReleaseGuard, threadVars, listenerVars
  <1>22. ASSUME NEW c \in Connections, NEW q \in Requests, Answer(c, q) PROVE Prompts'
    BY <1>22 DEF Answer, threadVars, listenerVars
  <1>23. ASSUME NEW c \in Connections, Resume(c) PROVE Prompts'
    BY <1>23 DEF Resume, threadVars, listenerVars
  <1>24. ASSUME NEW c \in Connections, AttachClient(c) PROVE Prompts'
    BY <1>24 DEF AttachClient, listenerVars
  <1>25. ASSUME NEW c \in Connections, CloseConnection(c) PROVE Prompts'
    BY <1>25 DEF CloseConnection, CloseViews, listenerVars
  <1>26. ASSUME NEW c \in Connections, Unsubscribe(c) PROVE Prompts'
    BY <1>26 DEF Unsubscribe, CloseViews, listenerVars
  <1>27. ASSUME HasSubscribers PROVE Prompts'
    BY <1>27 DEF HasSubscribers, threadVars, listenerVars
  <1>28. ASSUME Archive PROVE Prompts'
    BY <1>28 DEF Archive, threadVars, listenerVars
  <1>29. ASSUME CancelRequests PROVE Prompts'
    BY <1>29 DEF CancelRequests, threadVars, listenerVars
  <1>30. ASSUME RemoveThreadState PROVE Prompts'
    BY <1>30 DEF RemoveThreadState, CloseViews, listenerVars
  <1>31. ASSUME ClearListener PROVE Prompts'
    BY <1>31 DEF ClearListener, threadVars, listenerVars
  <1>32. CASE UNCHANGED clientVars
    BY <1>32 DEF clientVars, threadVars, listenerVars
  <1> QED
    BY <1>1, <1>2, <1>3, <1>4, <1>5, <1>6, <1>7, <1>8, <1>9, <1>10, <1>11, <1>12, <1>13, <1>14,
       <1>15, <1>16, <1>17, <1>18, <1>19, <1>20, <1>21, <1>22, <1>23, <1>24, <1>25, <1>26,
       <1>27, <1>28, <1>29, <1>30, <1>31, <1>32 DEF ClientNext, ListenerGoesOn, WaiterStep, Teardown,
       Client, Quiescent

-----------------------------------------------------------------------------
(* What connections have heard *)

\* No connection becomes up to date while a request is on its way, and none
\* enters the table during a replay.
LEMMA HeardStep ==
    ASSUME IInv, [ClientNext]_clientVars
    PROVE  Heard'
  <1> USE DEF IInv, ClientTypeOK, Hands, Heard, PendingIsHeard, Following
  <1>1. ASSUME NEW q \in Requests, TakeRequest(q) PROVE Heard'
    BY <1>1 DEF TakeRequest, threadVars
  <1>2. ASSUME NotePermission PROVE Heard'
    BY <1>2 DEF NotePermission, threadVars
  <1>3. ASSUME InsertCallback PROVE Heard'
    BY <1>3 DEF InsertCallback, threadVars
  <1>4. ASSUME NEW c \in Connections, SendRequest(c) PROVE Heard'
    BY <1>4 DEF SendRequest, Show, threadVars
  <1>5. ASSUME SpawnWaiter PROVE Heard'
    BY <1>5 DEF SpawnWaiter, threadVars
  <1>6. ASSUME TakeTransition PROVE Heard'
    BY <1>6 DEF TakeTransition, threadVars
  <1>7. ASSUME AbortPending PROVE Heard'
    BY <1>7 DEF AbortPending, threadVars
  <1>8. ASSUME ClearActiveState PROVE Heard'
    BY <1>8 DEF ClearActiveState, threadVars
  <1>9. ASSUME NEW q \in Requests, TakeResolve(q) PROVE Heard'
    BY <1>9 DEF TakeResolve, threadVars
  <1>10. ASSUME NEW c \in Connections, SendResolved(c) PROVE Heard'
    BY <1>10 DEF SendResolved, threadVars
  <1>11. ASSUME CompleteResolve PROVE Heard'
    BY <1>11 DEF CompleteResolve, threadVars
  <1>12. ASSUME NEW c \in Connections, TakeResume(c) PROVE Heard'
    BY <1>12 DEF TakeResume, threadVars
  <1>13. ASSUME FailResume PROVE Heard'
    BY <1>13 DEF FailResume, threadVars
  <1>14. ASSUME SendResumeResponse PROVE Heard'
    BY <1>14 DEF SendResumeResponse, threadVars
  <1>15. ASSUME ListPending PROVE Heard'
    BY <1>15 DEF ListPending, threadVars
  <1>16. ASSUME NEW q \in Requests, ReplayRequest(q) PROVE Heard'
    BY <1>16 DEF ReplayRequest, Show, threadVars
  <1>17. ASSUME AttachResumed PROVE Heard'
    BY <1>17 DEF AttachResumed, CloseViews
  <1>18. ASSUME StopListener PROVE Heard'
    BY <1>18 DEF StopListener, threadVars
  <1>19. ASSUME NEW q \in Requests, AskResolve(q) PROVE Heard'
    BY <1>19 DEF AskResolve, threadVars, listenerVars
  <1>20. ASSUME NEW q \in Requests, GiveUp(q) PROVE Heard'
    BY <1>20 DEF GiveUp, threadVars, listenerVars
  <1>21. ASSUME NEW q \in Requests, ReleaseGuard(q) PROVE Heard'
    BY <1>21 DEF ReleaseGuard, threadVars, listenerVars
  <1>22. ASSUME NEW c \in Connections, NEW q \in Requests, Answer(c, q) PROVE Heard'
    BY <1>22 DEF Answer, threadVars, listenerVars
  <1>23. ASSUME NEW c \in Connections, Resume(c) PROVE Heard'
    BY <1>23 DEF Resume, threadVars, listenerVars
  <1>24. ASSUME NEW c \in Connections, AttachClient(c) PROVE Heard'
    BY <1>24 DEF AttachClient, listenerVars
  <1>25. ASSUME NEW c \in Connections, CloseConnection(c) PROVE Heard'
    BY <1>25 DEF CloseConnection, CloseViews, listenerVars
  <1>26. ASSUME NEW c \in Connections, Unsubscribe(c) PROVE Heard'
    BY <1>26 DEF Unsubscribe, CloseViews, listenerVars
  <1>27. ASSUME HasSubscribers PROVE Heard'
    BY <1>27 DEF HasSubscribers, threadVars, listenerVars
  <1>28. ASSUME Archive PROVE Heard'
    BY <1>28 DEF Archive, threadVars, listenerVars
  <1>29. ASSUME CancelRequests PROVE Heard'
    BY <1>29 DEF CancelRequests, threadVars, listenerVars
  <1>30. ASSUME RemoveThreadState PROVE Heard'
    BY <1>30 DEF RemoveThreadState, CloseViews, listenerVars
  <1>31. ASSUME ClearListener PROVE Heard'
    BY <1>31 DEF ClearListener, threadVars, listenerVars
  <1>32. CASE UNCHANGED clientVars
    BY <1>32 DEF clientVars, threadVars, listenerVars
  <1> QED
    BY <1>1, <1>2, <1>3, <1>4, <1>5, <1>6, <1>7, <1>8, <1>9, <1>10, <1>11, <1>12, <1>13, <1>14,
       <1>15, <1>16, <1>17, <1>18, <1>19, <1>20, <1>21, <1>22, <1>23, <1>24, <1>25, <1>26,
       <1>27, <1>28, <1>29, <1>30, <1>31, <1>32 DEF ClientNext, ListenerGoesOn, WaiterStep, Teardown,
       Client, Quiescent

\* A request enters the table with its round of sends before it.
LEMMA PendingStep ==
    ASSUME IInv, [ClientNext]_clientVars
    PROVE  PendingIsHeard'
  <1> USE DEF IInv, ClientTypeOK, Hands, Waits, Heard, PendingIsHeard, Following
  <1>1. ASSUME NEW q \in Requests, TakeRequest(q) PROVE PendingIsHeard'
    BY <1>1 DEF TakeRequest, threadVars
  <1>2. ASSUME NotePermission PROVE PendingIsHeard'
    BY <1>2 DEF NotePermission, threadVars
  <1>3. ASSUME InsertCallback PROVE PendingIsHeard'
    BY <1>3 DEF InsertCallback, threadVars
  <1>4. ASSUME NEW c \in Connections, SendRequest(c) PROVE PendingIsHeard'
    BY <1>4 DEF SendRequest, Show, threadVars
  <1>5. ASSUME SpawnWaiter PROVE PendingIsHeard'
    BY <1>5 DEF SpawnWaiter, threadVars
  <1>6. ASSUME TakeTransition PROVE PendingIsHeard'
    BY <1>6 DEF TakeTransition, threadVars
  <1>7. ASSUME AbortPending PROVE PendingIsHeard'
    BY <1>7 DEF AbortPending, threadVars
  <1>8. ASSUME ClearActiveState PROVE PendingIsHeard'
    BY <1>8 DEF ClearActiveState, threadVars
  <1>9. ASSUME NEW q \in Requests, TakeResolve(q) PROVE PendingIsHeard'
    BY <1>9 DEF TakeResolve, threadVars
  <1>10. ASSUME NEW c \in Connections, SendResolved(c) PROVE PendingIsHeard'
    BY <1>10 DEF SendResolved, threadVars
  <1>11. ASSUME CompleteResolve PROVE PendingIsHeard'
    BY <1>11 DEF CompleteResolve, threadVars
  <1>12. ASSUME NEW c \in Connections, TakeResume(c) PROVE PendingIsHeard'
    BY <1>12 DEF TakeResume, threadVars
  <1>13. ASSUME FailResume PROVE PendingIsHeard'
    BY <1>13 DEF FailResume, threadVars
  <1>14. ASSUME SendResumeResponse PROVE PendingIsHeard'
    BY <1>14 DEF SendResumeResponse, threadVars
  <1>15. ASSUME ListPending PROVE PendingIsHeard'
    BY <1>15 DEF ListPending, threadVars
  <1>16. ASSUME NEW q \in Requests, ReplayRequest(q) PROVE PendingIsHeard'
    BY <1>16 DEF ReplayRequest, Show, threadVars
  <1>17. ASSUME AttachResumed PROVE PendingIsHeard'
    BY <1>17 DEF AttachResumed, CloseViews
  <1>18. ASSUME StopListener PROVE PendingIsHeard'
    BY <1>18 DEF StopListener, threadVars
  <1>19. ASSUME NEW q \in Requests, AskResolve(q) PROVE PendingIsHeard'
    BY <1>19 DEF AskResolve, threadVars, listenerVars
  <1>20. ASSUME NEW q \in Requests, GiveUp(q) PROVE PendingIsHeard'
    BY <1>20 DEF GiveUp, threadVars, listenerVars
  <1>21. ASSUME NEW q \in Requests, ReleaseGuard(q) PROVE PendingIsHeard'
    BY <1>21 DEF ReleaseGuard, threadVars, listenerVars
  <1>22. ASSUME NEW c \in Connections, NEW q \in Requests, Answer(c, q) PROVE PendingIsHeard'
    BY <1>22 DEF Answer, threadVars, listenerVars
  <1>23. ASSUME NEW c \in Connections, Resume(c) PROVE PendingIsHeard'
    BY <1>23 DEF Resume, threadVars, listenerVars
  <1>24. ASSUME NEW c \in Connections, AttachClient(c) PROVE PendingIsHeard'
    BY <1>24 DEF AttachClient, listenerVars
  <1>25. ASSUME NEW c \in Connections, CloseConnection(c) PROVE PendingIsHeard'
    BY <1>25 DEF CloseConnection, CloseViews, listenerVars
  <1>26. ASSUME NEW c \in Connections, Unsubscribe(c) PROVE PendingIsHeard'
    BY <1>26 DEF Unsubscribe, CloseViews, listenerVars
  <1>27. ASSUME HasSubscribers PROVE PendingIsHeard'
    BY <1>27 DEF HasSubscribers, threadVars, listenerVars
  <1>28. ASSUME Archive PROVE PendingIsHeard'
    BY <1>28 DEF Archive, threadVars, listenerVars
  <1>29. ASSUME CancelRequests PROVE PendingIsHeard'
    BY <1>29 DEF CancelRequests, threadVars, listenerVars
  <1>30. ASSUME RemoveThreadState PROVE PendingIsHeard'
    BY <1>30 DEF RemoveThreadState, CloseViews, listenerVars
  <1>31. ASSUME ClearListener PROVE PendingIsHeard'
    BY <1>31 DEF ClearListener, threadVars, listenerVars
  <1>32. CASE UNCHANGED clientVars
    BY <1>32 DEF clientVars, threadVars, listenerVars
  <1> QED
    BY <1>1, <1>2, <1>3, <1>4, <1>5, <1>6, <1>7, <1>8, <1>9, <1>10, <1>11, <1>12, <1>13, <1>14,
       <1>15, <1>16, <1>17, <1>18, <1>19, <1>20, <1>21, <1>22, <1>23, <1>24, <1>25, <1>26,
       <1>27, <1>28, <1>29, <1>30, <1>31, <1>32 DEF ClientNext, ListenerGoesOn, WaiterStep, Teardown,
       Client, Quiescent

-----------------------------------------------------------------------------
(* The count of guards *)

\* What the type invariant leaves open: the guards can be counted.
LEMMA GuardedIsFinite == IsFiniteSet(Guarded) /\ Cardinality(Guarded) \in Nat
  BY FS_Subset, FS_CardinalityType DEF Guarded

\* The counters go up with a guard, down with one, or to zero.
LEMMA FlagStep ==
    ASSUME IInv, [ClientNext]_clientVars
    PROVE  FlagIsHonest'
  <1> USE DEF IInv, ClientTypeOK, Stages, Hands, FlagIsHonest
  <1>1. ASSUME NEW q \in Requests, TakeRequest(q) PROVE FlagIsHonest'
    BY <1>1 DEF TakeRequest, threadVars, Guarded
  <1>2. ASSUME NotePermission PROVE FlagIsHonest'
    <2>1. request \notin Guarded /\ Guarded' = Guarded \cup {request}
      BY <1>2 DEF NotePermission, Guarded
    <2>2. Cardinality(Guarded') = Cardinality(Guarded) + 1
      BY <2>1, GuardedIsFinite, FS_AddElement
    <2> QED
      BY <1>2, <2>2, GuardedIsFinite DEF NotePermission
  <1>3. ASSUME InsertCallback PROVE FlagIsHonest'
    BY <1>3 DEF InsertCallback, threadVars, Guarded
  <1>4. ASSUME NEW c \in Connections, SendRequest(c) PROVE FlagIsHonest'
    BY <1>4 DEF SendRequest, Show, threadVars, Guarded
  <1>5. ASSUME SpawnWaiter PROVE FlagIsHonest'
    BY <1>5 DEF SpawnWaiter, threadVars, Guarded
  <1>6. ASSUME TakeTransition PROVE FlagIsHonest'
    BY <1>6 DEF TakeTransition, threadVars, Guarded
  <1>7. ASSUME AbortPending PROVE FlagIsHonest'
    BY <1>7 DEF AbortPending, threadVars, Guarded
  <1>8. ASSUME ClearActiveState PROVE FlagIsHonest'
    <2>1. Guarded' = Guarded
      BY <1>8 DEF ClearActiveState, Guarded
    <2> QED
      BY <1>8, <2>1, GuardedIsFinite DEF ClearActiveState
  <1>9. ASSUME NEW q \in Requests, TakeResolve(q) PROVE FlagIsHonest'
    BY <1>9 DEF TakeResolve, threadVars, Guarded
  <1>10. ASSUME NEW c \in Connections, SendResolved(c) PROVE FlagIsHonest'
    BY <1>10 DEF SendResolved, threadVars, Guarded
  <1>11. ASSUME CompleteResolve PROVE FlagIsHonest'
    BY <1>11 DEF CompleteResolve, threadVars, Guarded
  <1>12. ASSUME NEW c \in Connections, TakeResume(c) PROVE FlagIsHonest'
    BY <1>12 DEF TakeResume, threadVars, Guarded
  <1>13. ASSUME FailResume PROVE FlagIsHonest'
    BY <1>13 DEF FailResume, threadVars, Guarded
  <1>14. ASSUME SendResumeResponse PROVE FlagIsHonest'
    BY <1>14 DEF SendResumeResponse, threadVars, Guarded
  <1>15. ASSUME ListPending PROVE FlagIsHonest'
    BY <1>15 DEF ListPending, threadVars, Guarded
  <1>16. ASSUME NEW q \in Requests, ReplayRequest(q) PROVE FlagIsHonest'
    BY <1>16 DEF ReplayRequest, Show, threadVars, Guarded
  <1>17. ASSUME AttachResumed PROVE FlagIsHonest'
    BY <1>17 DEF AttachResumed, CloseViews, Guarded
  <1>18. ASSUME StopListener PROVE FlagIsHonest'
    BY <1>18 DEF StopListener, threadVars, Guarded
  <1>19. ASSUME NEW q \in Requests, AskResolve(q) PROVE FlagIsHonest'
    BY <1>19 DEF AskResolve, threadVars, listenerVars, Guarded
  <1>20. ASSUME NEW q \in Requests, GiveUp(q) PROVE FlagIsHonest'
    BY <1>20 DEF GiveUp, threadVars, listenerVars, Guarded
  <1>21. ASSUME NEW q \in Requests, ReleaseGuard(q) PROVE FlagIsHonest'
    <2>1. q \in Guarded /\ Guarded' = Guarded \ {q}
      BY <1>21 DEF ReleaseGuard, Guarded
    <2>2. Cardinality(Guarded') = Cardinality(Guarded) - 1 /\ Cardinality(Guarded') \in Nat
      BY <2>1, GuardedIsFinite, FS_RemoveElement, FS_CardinalityType
    <2> QED
      BY <1>21, <2>2, GuardedIsFinite DEF ReleaseGuard
  <1>22. ASSUME NEW c \in Connections, NEW q \in Requests, Answer(c, q) PROVE FlagIsHonest'
    BY <1>22 DEF Answer, threadVars, listenerVars, Guarded
  <1>23. ASSUME NEW c \in Connections, Resume(c) PROVE FlagIsHonest'
    BY <1>23 DEF Resume, threadVars, listenerVars, Guarded
  <1>24. ASSUME NEW c \in Connections, AttachClient(c) PROVE FlagIsHonest'
    BY <1>24 DEF AttachClient, listenerVars, Guarded
  <1>25. ASSUME NEW c \in Connections, CloseConnection(c) PROVE FlagIsHonest'
    BY <1>25 DEF CloseConnection, CloseViews, listenerVars, Guarded
  <1>26. ASSUME NEW c \in Connections, Unsubscribe(c) PROVE FlagIsHonest'
    BY <1>26 DEF Unsubscribe, CloseViews, listenerVars, Guarded
  <1>27. ASSUME HasSubscribers PROVE FlagIsHonest'
    BY <1>27 DEF HasSubscribers, threadVars, listenerVars, Guarded
  <1>28. ASSUME Archive PROVE FlagIsHonest'
    BY <1>28 DEF Archive, threadVars, listenerVars, Guarded
  <1>29. ASSUME CancelRequests PROVE FlagIsHonest'
    BY <1>29 DEF CancelRequests, threadVars, listenerVars, Guarded
  <1>30. ASSUME RemoveThreadState PROVE FlagIsHonest'
    BY <1>30 DEF RemoveThreadState, CloseViews, listenerVars, Guarded
  <1>31. ASSUME ClearListener PROVE FlagIsHonest'
    BY <1>31 DEF ClearListener, threadVars, listenerVars, Guarded
  <1>32. CASE UNCHANGED clientVars
    BY <1>32 DEF clientVars, threadVars, listenerVars, Guarded
  <1> QED
    BY <1>1, <1>2, <1>3, <1>4, <1>5, <1>6, <1>7, <1>8, <1>9, <1>10, <1>11, <1>12, <1>13, <1>14,
       <1>15, <1>16, <1>17, <1>18, <1>19, <1>20, <1>21, <1>22, <1>23, <1>24, <1>25, <1>26,
       <1>27, <1>28, <1>29, <1>30, <1>31, <1>32 DEF ClientNext, ListenerGoesOn, WaiterStep, Teardown,
       Client, Quiescent

-----------------------------------------------------------------------------
(* The theorems *)

LEMMA InitEstablishes == ASSUME ClientInit PROVE IInv
  <1> USE DEF ClientInit
  <1>1. ClientTypeOK
    BY DEF ClientTypeOK, Stages
  <1>2. Hands /\ Waits /\ Views /\ Prompts /\ Heard /\ PendingIsHeard
    BY DEF Hands, Waits, Views, Prompts, Heard, PendingIsHeard, Following
  <1>3. FlagIsHonest
    BY GuardedIsFinite DEF FlagIsHonest
  <1> QED
    BY <1>1, <1>2, <1>3 DEF IInv

THEOREM Invariance == ClientSpec => []IInv
  <1>1. ClientInit => IInv
    BY InitEstablishes
  <1>2. IInv /\ [ClientNext]_clientVars => IInv'
    BY TypeStep, HandsStep, WaitsStep, ViewsStep, PromptsStep, HeardStep, PendingStep, FlagStep
       DEF IInv
  <1> QED
    BY <1>1, <1>2, PTL DEF ClientSpec

\* Type correctness of the requests to clients.
THEOREM TypeCorrect == ClientSpec => []ClientTypeOK
  BY Invariance, PTL DEF IInv

\* However subscriptions, resumes, answers and cancellations interleave with
\* the listener, a connection that resumed has every request that waits for an
\* answer, or gets it before the listener does anything else.
THEOREM PendingRequestsAreHeard == ClientSpec => []PendingIsHeard
  BY Invariance, PTL DEF IInv

\* As long as the listener has not been told to stop, what a client of the
\* thread shows has its resolution to come: a replay does not bring back what
\* was said to be resolved.
THEOREM PromptsWillClose == ClientSpec => []PromptWillClose
  <1>1. IInv => PromptWillClose
    BY DEF IInv, Prompts, PromptWillClose
  <1> QED
    BY <1>1, Invariance, PTL

\* The status of a thread counts no more waiting requests than have a guard,
\* although turns reset the counters under guards that lower them later.
THEOREM StatusIsHonest == ClientSpec => []FlagIsHonest
  BY Invariance, PTL DEF IInv
=============================================================================
