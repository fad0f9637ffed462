---------------------------- MODULE AgentRegistry ----------------------------
(***************************************************************************)
(* The sub-agents of a user session: the AgentRegistry that all its agents *)
(* share, the reservations that spawn and resume calls hold on it, and the *)
(* thread map of the ThreadManager, which the calls change separately.     *)
(*                                                                         *)
(* Calls run concurrently, several per agent and in several agents.  One   *)
(* section under the active_agents mutex, one atomic access to total_count *)
(* and one access to the thread map is a step each.                        *)
(***************************************************************************)
EXTENDS Naturals, FiniteSets

CONSTANTS
    Calls,        \* the spawn, resume and close calls that run at a time
    SubAgents,    \* thread ids of sub-agents, each spawned at most once
    RootThread,   \* the user's own thread
    Paths,        \* agent paths below the root
    RootPath,
    Names,        \* the nickname pool
    Vacant,       \* no entry at a key
    Reserved,     \* an entry without agent_id
    NoPath, NoName, NoThread,
    MaxThreads,   \* config.agent_max_threads
    MaxResets     \* bound: resets of the nickname pool

Threads == SubAgents \cup {RootThread}

\* "thread:<id>" is the key of a thread without a path; it is written as the id.
Keys == Paths \cup {RootPath} \cup SubAgents

ASSUME ConstantsAssumption ==
    /\ RootThread \notin SubAgents
    /\ Paths \cap SubAgents = {}
    /\ RootPath \notin Paths \cup SubAgents
    /\ NoPath \notin Keys
    /\ NoThread \notin Threads
    /\ {Vacant, Reserved} \cap Threads = {} /\ Vacant # Reserved
    /\ NoName \notin Names \X Nat
    /\ IsFiniteSet(Calls) /\ IsFiniteSet(Names) /\ Names # {}
    /\ IsFiniteSet(SubAgents) /\ IsFiniteSet(Paths)
    /\ MaxThreads \in Nat
    /\ MaxResets \in Nat

VARIABLES
    agentTree,     \* ActiveAgents.agent_tree: the agent_id at each key
    usedNicknames, \* ActiveAgents.used_agent_nicknames
    resetCount,    \* ActiveAgents.nickname_reset_count
    totalCount,    \* AgentRegistry.total_count
    threads,       \* the thread ids in the ThreadManager's map
    rollouts,      \* the threads with a rollout on disk: each of them can be resumed
    nickname,      \* the nickname stored for each thread
    borrowed,      \* history: the threads whose nickname another session stored
    call           \* each call: where it is and what it holds

vars ==
    <<agentTree, usedNicknames, resetCount, totalCount, threads, rollouts, nickname, borrowed, call>>

threadVars == <<rollouts, nickname, borrowed>>

\* A nickname as format_agent_nickname makes it: a name and the resets so far.
Nicknames == Names \X Nat

CallPCs == {"idle", "reserve", "prepare", "path", "nickname", "create", "commit",
            "drop", "drop_count", "remove", "release", "release_count"}

NoCall == [pc |-> "idle", thread |-> NoThread, path |-> NoPath, name |-> NoName]

TypeOK ==
    /\ agentTree \in [Keys -> Threads \cup {Vacant, Reserved}]
    /\ usedNicknames \subseteq Nicknames
    /\ resetCount \in Nat
    /\ totalCount \in Nat
    /\ threads \subseteq Threads
    /\ rollouts \subseteq SubAgents
    /\ nickname \in [SubAgents -> Nicknames \cup {NoName}]
    /\ borrowed \subseteq rollouts
    /\ call \in [Calls -> [pc : CallPCs, thread : Threads \cup {NoThread},
                           path : Paths \cup {NoPath}, name : Nicknames \cup {NoName}]]

\* Earlier runs and other sessions have left threads, some of them with the
\* nickname that the registry of their session gave them.
Init ==
    /\ rollouts \in SUBSET SubAgents
    /\ nickname \in [SubAgents -> (Names \X (0..MaxResets)) \cup {NoName}]
    /\ borrowed = {t \in SubAgents : nickname[t] # NoName}
    /\ borrowed \subseteq rollouts
    /\ agentTree = [k \in Keys |-> Vacant]
    /\ usedNicknames = {}
    /\ resetCount = 0
    /\ totalCount = 0
    /\ threads = {RootThread}
    /\ call = [c \in Calls |-> NoCall]

-----------------------------------------------------------------------------

At(c, pc) == call[c].pc = pc

Goto(c, pc) == call' = [call EXCEPT ![c].pc = pc]

Finish(c) == call' = [call EXCEPT ![c] = NoCall]

\* Bound: a call starts only while the pool, with the resets left, has a name
\* for every call that may still take one.
PoolLasts ==
    LET taken == {call[c].name : c \in Calls}
                 \cup (IF resetCount < MaxResets THEN {} ELSE usedNicknames)
    IN  Cardinality({c \in Calls : call[c].pc \in {"reserve", "prepare", "path", "nickname"}})
            < Cardinality({n \in Names : <<n, MaxResets>> \notin taken})

\* spawn_agent, for a thread-spawn source with or without a task name.
StartSpawn(c, path) ==
    /\ At(c, "idle")
    /\ PoolLasts
    /\ call' = [call EXCEPT ![c].pc = "reserve", ![c].path = path]
    /\ UNCHANGED <<agentTree, usedNicknames, resetCount, totalCount, threads, threadVars>>

\* resume_agent and the walk over its descendants: any thread with a rollout that
\* is not in the map, also one of an earlier run or of another session.
StartResume(c, t) ==
    /\ At(c, "idle")
    /\ PoolLasts
    /\ t \in rollouts \ threads
    /\ call' = [call EXCEPT ![c].pc = "reserve", ![c].thread = t]
    /\ UNCHANGED <<agentTree, usedNicknames, resetCount, totalCount, threads, threadVars>>

\* shutdown_live_agent, for a thread named by its id or found as a descendant
\* some time ago, and handle_thread_request_result for one that turns out dead
\* when input is sent to it, as a spawn does after its commit.
StartClose(c, t) ==
    /\ At(c, "idle")
    /\ t \in rollouts \cup {RootThread}
    /\ call' = [call EXCEPT ![c].pc = "remove", ![c].thread = t]
    /\ UNCHANGED <<agentTree, usedNicknames, resetCount, totalCount, threads, threadVars>>

\* register_root_thread keeps what is there.
WithRootThread == [agentTree EXCEPT ![RootPath] = IF @ = Vacant THEN RootThread ELSE @]

\* register_session_root, whenever a tool of the root names an agent.
RegisterSessionRoot ==
    /\ agentTree[RootPath] = Vacant
    /\ agentTree' = WithRootThread
    /\ UNCHANGED <<usedNicknames, resetCount, totalCount, threads, threadVars, call>>

-----------------------------------------------------------------------------
(* spawn_agent_internal and resume_single_agent_from_rollout *)

\* Mutant: an off-by-one in the limit.
ReserveSpawnSlotOverLimit(c) ==
    /\ At(c, "reserve")
    /\ totalCount <= MaxThreads
    /\ totalCount' = totalCount + 1
    /\ Goto(c, "prepare")
    /\ UNCHANGED <<agentTree, usedNicknames, resetCount, threads, threadVars>>

ReserveSpawnSlot(c) ==
    /\ At(c, "reserve")
    /\ \/ /\ totalCount < MaxThreads
          /\ totalCount' = totalCount + 1
          /\ Goto(c, "prepare")
       \/ /\ totalCount >= MaxThreads
          /\ Finish(c)
          /\ UNCHANGED totalCount
    /\ UNCHANGED <<agentTree, usedNicknames, resetCount, threads, threadVars>>

\* prepare_thread_spawn starts with it for a child of the root.
RegisterRootThread(c) ==
    /\ At(c, "prepare")
    /\ agentTree' \in {agentTree, WithRootThread}
    /\ Goto(c, IF call[c].path = NoPath THEN "nickname" ELSE "path")
    /\ UNCHANGED <<usedNicknames, resetCount, totalCount, threads, threadVars>>

\* Mutant: the placeholder is inserted whether or not the path is taken.
ReserveAgentPathAnyway(c) ==
    /\ At(c, "path")
    /\ agentTree' = [agentTree EXCEPT ![call[c].path] = Reserved]
    /\ Goto(c, "nickname")
    /\ UNCHANGED <<usedNicknames, resetCount, totalCount, threads, threadVars>>

\* reserve_agent_path: a path that is taken, if only by a placeholder, fails
\* the call.
ReserveAgentPath(c) ==
    /\ At(c, "path")
    /\ \/ /\ agentTree[call[c].path] = Vacant
          /\ agentTree' = [agentTree EXCEPT ![call[c].path] = Reserved]
          /\ Goto(c, "nickname")
       \/ /\ agentTree[call[c].path] # Vacant
          /\ Goto(c, "drop_count")
          /\ UNCHANGED agentTree
    /\ UNCHANGED <<usedNicknames, resetCount, totalCount, threads, threadVars>>

\* The nickname of a resumed thread, from the state database if there is one.
PreferredNicknames(c) ==
    IF call[c].thread = NoThread THEN {NoName} ELSE {NoName, nickname[call[c].thread]}

\* Mutant: the pool is reset and the count is not.
ChooseNicknameAgain(preferred, name) ==
    /\ IF preferred # NoName THEN name = preferred ELSE \E n \in Names : name = <<n, resetCount>>
    /\ usedNicknames' = IF name \in usedNicknames THEN {name} ELSE usedNicknames \cup {name}
    /\ UNCHANGED resetCount

\* The preferred nickname, used or not; an unused one; or any after a reset,
\* which every later name shows.
ChooseNickname(preferred, name) ==
    LET available == {n \in Names : <<n, resetCount>> \notin usedNicknames}
    IN \/ /\ preferred # NoName
          /\ name = preferred
          /\ usedNicknames' = usedNicknames \cup {name}
          /\ UNCHANGED resetCount
       \/ /\ preferred = NoName
          /\ \E n \in available : name = <<n, resetCount>>
          /\ usedNicknames' = usedNicknames \cup {name}
          /\ UNCHANGED resetCount
       \/ /\ preferred = NoName
          /\ available = {}
          /\ resetCount < MaxResets
          /\ resetCount' = resetCount + 1
          /\ \E n \in Names : name = <<n, resetCount + 1>>
          /\ usedNicknames' = {name}

ReserveAgentNickname(c) ==
    /\ At(c, "nickname")
    /\ \E preferred \in PreferredNicknames(c), name \in Names \X (0..MaxResets) :
          /\ ChooseNickname(preferred, name)
          /\ call' = [call EXCEPT ![c].pc = "create", ![c].name = name]
    /\ UNCHANGED <<agentTree, totalCount, threads, threadVars>>

\* The thread manager inserts the thread: a new one, or the one resumed,
\* whether or not it is there again.
CreateThread(c) ==
    /\ At(c, "create")
    /\ \E t \in IF call[c].thread = NoThread THEN SubAgents \ rollouts ELSE {call[c].thread} :
          /\ threads' = threads \cup {t}
          /\ rollouts' = rollouts \cup {t}
          /\ nickname' = [nickname EXCEPT ![t] = call[c].name]
          /\ call' = [call EXCEPT ![c].pc = "commit", ![c].thread = t]
    /\ UNCHANGED <<agentTree, usedNicknames, resetCount, totalCount, borrowed>>

\* Mutant: a reservation notes its path before it has reserved it.
FailCallWithPath(c) ==
    /\ \E pc \in {"prepare", "create"} : At(c, pc)
    /\ Goto(c, IF call[c].path = NoPath THEN "drop_count" ELSE "drop")
    /\ UNCHANGED <<agentTree, usedNicknames, resetCount, totalCount, threads, threadVars>>

\* The thread cannot be created, or the call is cancelled at an await.
FailCall(c) ==
    /\ \/ At(c, "prepare") /\ Goto(c, "drop_count")
       \/ At(c, "create") /\ Goto(c, IF call[c].path = NoPath THEN "drop_count" ELSE "drop")
    /\ UNCHANGED <<agentTree, usedNicknames, resetCount, totalCount, threads, threadVars>>

\* SpawnReservation::commit inserts, whatever is at the key.
Commit(c) ==
    /\ At(c, "commit")
    /\ LET key == IF call[c].path = NoPath THEN call[c].thread ELSE call[c].path
       IN agentTree' = [agentTree EXCEPT ![key] = call[c].thread]
    /\ usedNicknames' = usedNicknames \cup {call[c].name}
    /\ Finish(c)
    /\ UNCHANGED <<resetCount, totalCount, threads, threadVars>>

\* Drop of an active reservation: its path, if still without agent_id, then
\* the slot.
DropReservation(c) ==
    /\ At(c, "drop")
    /\ LET path == call[c].path
       IN agentTree' = [agentTree EXCEPT ![path] = IF @ = Reserved THEN Vacant ELSE @]
    /\ Goto(c, "drop_count")
    /\ UNCHANGED <<usedNicknames, resetCount, totalCount, threads, threadVars>>

\* fetch_sub: the count is a usize.
ReleaseCount(c) ==
    /\ At(c, "drop_count") \/ At(c, "release_count")
    /\ totalCount' = totalCount - 1
    /\ Finish(c)
    /\ UNCHANGED <<agentTree, usedNicknames, resetCount, threads, threadVars>>

-----------------------------------------------------------------------------
(* shutdown_live_agent *)

RemoveThread(c) ==
    /\ At(c, "remove")
    /\ threads' = threads \ {call[c].thread}
    /\ Goto(c, "release")
    /\ UNCHANGED <<agentTree, usedNicknames, resetCount, totalCount, threadVars>>

\* release_spawned_thread removes one entry of the thread, whichever the hash
\* map shows first, and only the root's is not counted.
ReleaseSpawnedThread(c) ==
    /\ At(c, "release")
    /\ LET keys == {k \in Keys : agentTree[k] = call[c].thread}
       IN \/ /\ keys = {}
             /\ Finish(c)
             /\ UNCHANGED agentTree
          \/ \E key \in keys :
                /\ agentTree' = [agentTree EXCEPT ![key] = Vacant]
                /\ IF key = RootPath THEN Finish(c) ELSE Goto(c, "release_count")
    /\ UNCHANGED <<usedNicknames, resetCount, totalCount, threads, threadVars>>

-----------------------------------------------------------------------------

CallStep(c) ==
    \/ ReserveSpawnSlot(c) \/ RegisterRootThread(c) \/ ReserveAgentPath(c)
    \/ ReserveAgentNickname(c) \/ CreateThread(c) \/ FailCall(c)
    \/ Commit(c) \/ DropReservation(c) \/ ReleaseCount(c)
    \/ RemoveThread(c) \/ ReleaseSpawnedThread(c)

Next ==
    \/ RegisterSessionRoot
    \/ \E c \in Calls :
        \/ \E path \in Paths \cup {NoPath} : StartSpawn(c, path)
        \/ \E t \in SubAgents : StartResume(c, t)
        \/ \E t \in Threads : StartClose(c, t)
        \/ CallStep(c)

Spec == Init /\ [][Next]_vars

-----------------------------------------------------------------------------
(* Safety *)

\* The calls that hold a slot for an entry not yet, or no longer, in the tree.
SlotHolders ==
    {c \in Calls : call[c].pc \notin {"idle", "reserve", "remove", "release"}}

CountedKeys == {k \in Keys \ {RootPath} : agentTree[k] \in Threads}

\* Every reservation and every registered sub-agent is paid for, so that the
\* registry never holds more than agent_max_threads of them and the usize
\* never wraps below zero, in whatever order calls fail, commit and release.
CountCoversSlots ==
    /\ totalCount <= MaxThreads
    /\ Cardinality(SlotHolders) + Cardinality(CountedKeys) <= totalCount

Holders(path) ==
    {c \in Calls : call[c].path = path /\ call[c].pc \in {"nickname", "create", "commit", "drop"}}

\* A placeholder in the tree belongs to exactly one call, and a call that
\* reserved a path still finds its placeholder there: it was neither released
\* for it nor taken by another agent.
ReservedPathHasOneHolder ==
    \A path \in Paths : Cardinality(Holders(path)) = IF agentTree[path] = Reserved THEN 1 ELSE 0

\* The pool never gives two agents the same nickname, across pool resets and
\* resumes: a reset empties the set of used names but every later name shows its
\* count.  A thread of another session brings the nickname that is stored for it,
\* and may share it.
NicknamesAreDistinct ==
    \A t, u \in rollouts \ borrowed :
        nickname[t] = nickname[u] /\ nickname[t] # NoName => t = u

\* An agent registered under a path keeps it until it is released: nobody
\* else commits to the path meanwhile.
PathIsKept ==
    [][\A path \in Paths : agentTree[path] \in SubAgents =>
           agentTree'[path] \in {agentTree[path], Vacant}]_agentTree

-----------------------------------------------------------------------------
(* What the documentation says and the code does not do *)

\* control_tests.rs:787, spawn_agent_releases_slot_after_shutdown: with every
\* sub-agent shut down and no call running, no slot is taken.  It fails when a
\* thread is closed between its creation and the commit of its reservation, and
\* when two calls resume the same thread.
SlotsAreReturned ==
    (threads \subseteq {RootThread} /\ \A c \in Calls : At(c, "idle")) => totalCount = 0
=============================================================================
