------------------------ MODULE AgentRegistryProofs ------------------------
(***************************************************************************)
(* The safety of the agent registry, for any number of calls, agents,      *)
(* paths and names.                                                        *)
(*                                                                         *)
(* What the registry knows of a call is only a count and a placeholder, so *)
(* the invariant says for each call what it stands for: a slot, a path, a  *)
(* nickname, and from its creation on a thread.                            *)
(***************************************************************************)
EXTENDS AgentRegistry, FiniteSetTheorems, TLAPS

CallType ==
    [pc : CallPCs, thread : Threads \cup {NoThread},
     path : Paths \cup {NoPath}, name : Nicknames \cup {NoName}]

\* What a call has in hand at each place.
CallHasWhatItNeeds ==
    \A c \in Calls :
        /\ call[c].pc = "idle" => call[c] = NoCall
        /\ call[c].pc \in {"reserve", "prepare", "path", "nickname", "create"} =>
               call[c].thread \in SubAgents \cup {NoThread}
        /\ call[c].pc \in {"path", "drop"} => call[c].path \in Paths
        /\ call[c].pc \in {"create", "commit"} => call[c].name \in Nicknames
        /\ call[c].pc = "commit" => call[c].thread \in SubAgents
        /\ call[c].pc \in {"remove", "release"} => call[c].thread \in Threads

CallThreadIsRecorded ==
    \A c \in Calls : call[c].thread \in SubAgents => call[c].thread \in rollouts

HoldsPath(c, path) ==
    call[c].path = path /\ call[c].pc \in {"nickname", "create", "commit", "drop"}

\* ReservedPathHasOneHolder without counting.
PlaceholderIsHeld ==
    \A path \in Paths :
        /\ \A c \in Calls : HoldsPath(c, path) => agentTree[path] = Reserved
        /\ \A c, d \in Calls : HoldsPath(c, path) /\ HoldsPath(d, path) => c = d
        /\ agentTree[path] = Reserved => \E c \in Calls : HoldsPath(c, path)

\* A nickname that the pool ever gave shows in it until the next reset, and in its
\* number after it.
GivenBefore(name) ==
    /\ name[2] <= resetCount
    /\ name[2] = resetCount => name \in usedNicknames

\* The threads that have their nickname from the pool, and the calls that do not
\* resume one of the others.
PoolThreads == {t \in rollouts \ borrowed : nickname[t] # NoName}

PoolCalls == {c \in Calls : call[c].thread \notin borrowed /\ call[c].name # NoName}

GivenNamesAreUsed ==
    /\ \A t \in PoolThreads : GivenBefore(nickname[t])
    /\ \A c \in PoolCalls : GivenBefore(call[c].name)

\* A nickname of the pool is for one thread, or for one call that has none yet.
NicknameIsForOneThread ==
    /\ \A c \in PoolCalls, t \in PoolThreads : call[c].name = nickname[t] => call[c].thread = t
    /\ \A c, d \in PoolCalls :
           c # d /\ call[c].name = call[d].name =>
               call[c].thread = call[d].thread /\ call[c].thread # NoThread

IInv ==
    /\ TypeOK
    /\ CallHasWhatItNeeds
    /\ CallThreadIsRecorded
    /\ CountCoversSlots
    /\ PlaceholderIsHeld
    /\ GivenNamesAreUsed
    /\ NicknameIsForOneThread
    /\ NicknamesAreDistinct

-----------------------------------------------------------------------------
(* Slots *)

LEMMA KeysAreFinite == IsFiniteSet(Keys)
<1>1. IsFiniteSet(Paths \cup {RootPath})
  BY ConstantsAssumption, FS_AddElement
<1> QED
  BY <1>1, ConstantsAssumption, FS_Union DEF Keys

LEMMA SlotsAreFinite ==
    /\ IsFiniteSet(SlotHolders) /\ Cardinality(SlotHolders) \in Nat
    /\ IsFiniteSet(CountedKeys) /\ Cardinality(CountedKeys) \in Nat
<1>1. IsFiniteSet(SlotHolders)
  BY ConstantsAssumption, FS_Subset DEF SlotHolders
<1>2. IsFiniteSet(CountedKeys)
  BY KeysAreFinite, FS_Subset DEF CountedKeys
<1> QED
  BY <1>1, <1>2, FS_CardinalityType

\* A step that leaves the slots of calls and keys as they were.
LEMMA SlotsUnchanged ==
    ASSUME CountCoversSlots, SlotHolders' = SlotHolders, CountedKeys' = CountedKeys,
           UNCHANGED totalCount
    PROVE  CountCoversSlots'
  BY DEF CountCoversSlots

\* A slot goes from the count to a call, from a call to a key, and back.
LEMMA CountStep ==
    ASSUME IInv, NEW c \in Calls, CallStep(c)
    PROVE  CountCoversSlots' /\ totalCount' \in Nat
<1> USE DEF IInv, TypeOK, Goto, Finish, NoCall, At, threadVars
<1> DEFINE n == Cardinality(SlotHolders)
           k == Cardinality(CountedKeys)
<1>0. n \in Nat /\ k \in Nat /\ IsFiniteSet(SlotHolders) /\ IsFiniteSet(CountedKeys)
  BY SlotsAreFinite
<1>1. CASE ReserveSpawnSlot(c)
  <2>1. CountedKeys' = CountedKeys
    BY <1>1 DEF ReserveSpawnSlot, CountedKeys
  <2>2. CASE totalCount < MaxThreads
    <3>1. SlotHolders' = SlotHolders \cup {c} /\ c \notin SlotHolders /\ totalCount' = totalCount + 1
      BY <1>1, <2>2, ConstantsAssumption DEF ReserveSpawnSlot, SlotHolders
    <3>2. Cardinality(SlotHolders') = n + 1
      BY <1>0, <3>1, FS_AddElement
    <3> QED
      BY <1>0, <2>1, <2>2, <3>1, <3>2, ConstantsAssumption DEF CountCoversSlots
  <2>3. CASE ~(totalCount < MaxThreads)
    <3>1. SlotHolders' = SlotHolders /\ totalCount' = totalCount
      BY <1>1, <2>3, ConstantsAssumption DEF ReserveSpawnSlot, SlotHolders
    <3> QED
      BY <2>1, <3>1, SlotsUnchanged
  <2> QED
    BY <2>2, <2>3
<1>2. CASE RegisterRootThread(c)
  <2>1. CountedKeys' = CountedKeys
    BY <1>2 DEF RegisterRootThread, WithRootThread, CountedKeys
  <2>2. SlotHolders' = SlotHolders /\ totalCount' = totalCount
    BY <1>2 DEF RegisterRootThread, SlotHolders
  <2> QED
    BY <2>1, <2>2, SlotsUnchanged
<1>3. CASE ReserveAgentPath(c) \/ DropReservation(c)
  <2>1. CountedKeys' = CountedKeys
    BY <1>3, ConstantsAssumption DEF ReserveAgentPath, DropReservation, CountedKeys, CallHasWhatItNeeds
  <2>2. SlotHolders' = SlotHolders /\ totalCount' = totalCount
    BY <1>3 DEF ReserveAgentPath, DropReservation, SlotHolders
  <2> QED
    BY <2>1, <2>2, SlotsUnchanged
<1>4. CASE ReserveAgentNickname(c) \/ CreateThread(c) \/ FailCall(c) \/ RemoveThread(c)
  <2>1. CountedKeys' = CountedKeys
    BY <1>4 DEF ReserveAgentNickname, CreateThread, FailCall, RemoveThread, CountedKeys
  <2>2. SlotHolders' = SlotHolders /\ totalCount' = totalCount
    BY <1>4 DEF ReserveAgentNickname, CreateThread, FailCall, RemoveThread, SlotHolders
  <2> QED
    BY <2>1, <2>2, SlotsUnchanged
<1>5. CASE Commit(c)
  <2> DEFINE key == IF call[c].path = NoPath THEN call[c].thread ELSE call[c].path
  <2>1. CountedKeys' = CountedKeys \cup {key}
    BY <1>5, ConstantsAssumption DEF Commit, CountedKeys, CallHasWhatItNeeds, Keys, Threads
  <2> HIDE DEF key
  <2>2. Cardinality(CountedKeys') <= k + 1 /\ Cardinality(CountedKeys') \in Nat
    <3>1. CASE key \in CountedKeys
      <4>1. CountedKeys' = CountedKeys
        BY <2>1, <3>1
      <4> QED
        BY <1>0, <4>1
    <3>2. CASE key \notin CountedKeys
      <4>1. Cardinality(CountedKeys \cup {key}) = k + 1
        BY <1>0, <3>2, FS_AddElement
      <4> QED
        BY <1>0, <2>1, <4>1
    <3> QED
      BY <3>1, <3>2
  <2>3. SlotHolders' = SlotHolders \ {c} /\ c \in SlotHolders /\ totalCount' = totalCount
    BY <1>5 DEF Commit, SlotHolders
  <2>4. Cardinality(SlotHolders') = n - 1
    BY <1>0, <2>3, FS_RemoveElement
  <2> QED
    BY <1>0, <2>2, <2>3, <2>4, ConstantsAssumption DEF CountCoversSlots
<1>6. CASE ReleaseCount(c)
  <2>1. CountedKeys' = CountedKeys
    BY <1>6 DEF ReleaseCount, CountedKeys
  <2>2. SlotHolders' = SlotHolders \ {c} /\ c \in SlotHolders /\ totalCount' = totalCount - 1
    BY <1>6 DEF ReleaseCount, SlotHolders
  <2>3. Cardinality(SlotHolders') = n - 1 /\ n # 0
    BY <1>0, <2>2, FS_RemoveElement, FS_EmptySet
  <2> QED
    BY <1>0, <2>1, <2>2, <2>3, ConstantsAssumption DEF CountCoversSlots
<1>7. CASE ReleaseSpawnedThread(c)
  <2>0. totalCount' = totalCount
    BY <1>7 DEF ReleaseSpawnedThread
  <2>1. CASE ~\E key \in Keys : agentTree[key] = call[c].thread
    <3>1. CountedKeys' = CountedKeys /\ SlotHolders' = SlotHolders
      BY <1>7, <2>1 DEF ReleaseSpawnedThread, CountedKeys, SlotHolders
    <3> QED
      BY <2>0, <3>1, SlotsUnchanged
  <2>2. ASSUME NEW key \in Keys, agentTree[key] = call[c].thread,
               agentTree' = [agentTree EXCEPT ![key] = Vacant],
               IF key = RootPath THEN Finish(c) ELSE Goto(c, "release_count")
        PROVE  CountCoversSlots'
    <3>1. At(c, "release") /\ agentTree[key] \in Threads
      BY <1>7, <2>2 DEF ReleaseSpawnedThread, CallHasWhatItNeeds
    <3>2. CASE key = RootPath
      <4>1. CountedKeys' = CountedKeys /\ SlotHolders' = SlotHolders
        BY <2>2, <3>1, <3>2 DEF CountedKeys, SlotHolders
      <4> QED
        BY <2>0, <4>1, SlotsUnchanged
    <3>3. CASE key # RootPath
      <4>1. CountedKeys' = CountedKeys \ {key} /\ key \in CountedKeys
        BY <2>2, <3>1, <3>3, ConstantsAssumption DEF CountedKeys
      <4>2. SlotHolders' = SlotHolders \cup {c} /\ c \notin SlotHolders
        BY <2>2, <3>1, <3>3 DEF SlotHolders
      <4>3. Cardinality(CountedKeys') = k - 1 /\ Cardinality(SlotHolders') = n + 1
        BY <1>0, <4>1, <4>2, FS_AddElement, FS_RemoveElement
      <4> QED
        BY <1>0, <2>0, <4>3, ConstantsAssumption DEF CountCoversSlots
    <3> QED
      BY <3>2, <3>3
  <2> QED
    BY <1>7, <2>0, <2>1, <2>2 DEF ReleaseSpawnedThread
<1> QED
  BY <1>1, <1>2, <1>3, <1>4, <1>5, <1>6, <1>7 DEF CallStep

-----------------------------------------------------------------------------
(* Types and what calls have in hand *)

\* The nickname that ReserveAgentNickname chooses.
LEMMA ChosenNickname ==
    ASSUME IInv, NEW c \in Calls, At(c, "nickname"), NEW preferred \in PreferredNicknames(c),
           NEW name, ChooseNickname(preferred, name)
    PROVE  /\ name \in Nicknames
           /\ resetCount' \in Nat /\ resetCount' >= resetCount
           /\ usedNicknames' \in SUBSET Nicknames
<1> USE DEF IInv, TypeOK, Nicknames
<1>1. CASE preferred # NoName
  <2>1. preferred \in Nicknames
    BY <1>1 DEF PreferredNicknames, At, CallHasWhatItNeeds
  <2>2. name = preferred /\ usedNicknames' = usedNicknames \cup {name} /\ resetCount' = resetCount
    BY <1>1 DEF ChooseNickname
  <2> QED
    BY <2>1, <2>2
<1>2. CASE preferred = NoName
  <2>1. PICK n \in Names :
            \/ /\ name = <<n, resetCount>>
               /\ usedNicknames' = usedNicknames \cup {name}
               /\ resetCount' = resetCount
            \/ /\ name = <<n, resetCount + 1>>
               /\ usedNicknames' = {name}
               /\ resetCount' = resetCount + 1
    BY <1>2 DEF ChooseNickname
  <2> QED
    BY <2>1
<1> QED
  BY <1>1, <1>2

\* A call goes on only with what its next step needs.
LEMMA TypeStep ==
    ASSUME IInv, NEW c \in Calls, CallStep(c)
    PROVE  TypeOK' /\ CallHasWhatItNeeds'
<1> USE DEF IInv, TypeOK, CallHasWhatItNeeds, Goto, Finish, NoCall, At, CallPCs, threadVars
<1>1. CASE ReserveSpawnSlot(c) \/ FailCall(c)
  BY <1>1, CountStep DEF ReserveSpawnSlot, FailCall
<1>2. CASE RegisterRootThread(c)
  <2>1. agentTree' \in [Keys -> Threads \cup {Vacant, Reserved}]
    BY <1>2 DEF RegisterRootThread, WithRootThread, Threads
  <2>2. call' = [call EXCEPT ![c].pc = call'[c].pc] /\ call'[c].pc \in {"nickname", "path"}
    BY <1>2 DEF RegisterRootThread
  <2>3. call'[c].pc = "path" => call[c].path \in Paths
    BY <1>2 DEF RegisterRootThread
  <2>4. UNCHANGED <<usedNicknames, resetCount, totalCount, threads, threadVars>>
    BY <1>2 DEF RegisterRootThread
  <2>5. TypeOK'
    BY <2>1, <2>2, <2>4
  <2>6. CallHasWhatItNeeds'
    BY <1>2, <2>2, <2>3 DEF RegisterRootThread
  <2> QED
    BY <2>5, <2>6
<1>3. CASE ReserveAgentPath(c)
  <2>1. agentTree' \in [Keys -> Threads \cup {Vacant, Reserved}]
    BY <1>3 DEF ReserveAgentPath
  <2>2. call' = [call EXCEPT ![c].pc = call'[c].pc] /\ call'[c].pc \in {"nickname", "drop_count"}
    BY <1>3 DEF ReserveAgentPath
  <2>3. UNCHANGED <<usedNicknames, resetCount, totalCount, threads, threadVars>>
    BY <1>3 DEF ReserveAgentPath
  <2>4. TypeOK'
    BY <2>1, <2>2, <2>3
  <2>5. CallHasWhatItNeeds'
    BY <1>3, <2>2 DEF ReserveAgentPath
  <2> QED
    BY <2>4, <2>5
<1>9. CASE DropReservation(c)
  <2>1. agentTree' \in [Keys -> Threads \cup {Vacant, Reserved}]
    BY <1>9 DEF DropReservation
  <2>2. call' = [call EXCEPT ![c].pc = "drop_count"]
        /\ UNCHANGED <<usedNicknames, resetCount, totalCount, threads, threadVars>>
    BY <1>9 DEF DropReservation
  <2>3. TypeOK'
    BY <2>1, <2>2
  <2>4. CallHasWhatItNeeds'
    BY <2>2
  <2> QED
    BY <2>3, <2>4
<1>4. CASE ReserveAgentNickname(c)
  <2>1. PICK preferred \in PreferredNicknames(c), name \in Names \X (0..MaxResets) :
            /\ ChooseNickname(preferred, name)
            /\ call' = [call EXCEPT ![c].pc = "create", ![c].name = name]
    BY <1>4 DEF ReserveAgentNickname
  <2>2. name \in Nicknames /\ resetCount' \in Nat /\ usedNicknames' \in SUBSET Nicknames
    BY <1>4, <2>1, ChosenNickname DEF ReserveAgentNickname
  <2>3. UNCHANGED <<agentTree, totalCount, threads, threadVars>>
    BY <1>4 DEF ReserveAgentNickname
  <2>4. TypeOK'
    <3>1. call' \in [Calls -> CallType]
      <4>1. [call[c] EXCEPT !.pc = "create", !.name = name] \in CallType
        <5>1. call[c] \in CallType
          BY DEF CallType
        <5> QED
          BY <2>2, <5>1 DEF CallType
      <4> QED
        BY <2>1, <4>1 DEF CallType
    <3> QED
      BY <2>2, <2>3, <3>1 DEF CallType
  <2>5. CallHasWhatItNeeds'
    BY <1>4, <2>1, <2>2 DEF ReserveAgentNickname
  <2> QED
    BY <2>4, <2>5
<1>5. CASE CreateThread(c)
  <2>1. PICK t \in SubAgents :
            /\ threads' = threads \cup {t}
            /\ rollouts' = rollouts \cup {t}
            /\ nickname' = [nickname EXCEPT ![t] = call[c].name]
            /\ call' = [call EXCEPT ![c].pc = "commit", ![c].thread = t]
    BY <1>5 DEF CreateThread
  <2>2. /\ UNCHANGED <<agentTree, usedNicknames, resetCount, totalCount, borrowed>>
        /\ call[c].name \in Nicknames
    BY <1>5 DEF CreateThread
  <2>3. TypeOK'
    <3>1. call' \in [Calls -> CallType]
      <4>1. [call[c] EXCEPT !.pc = "commit", !.thread = t] \in CallType
        BY <2>1 DEF CallType, Threads
      <4> QED
        BY <2>1, <4>1 DEF CallType
    <3>2. threads' \subseteq Threads /\ nickname' \in [SubAgents -> Nicknames \cup {NoName}]
      BY <2>1, <2>2 DEF Threads
    <3>3. rollouts' \subseteq SubAgents /\ borrowed' \subseteq rollouts'
      BY <2>1, <2>2
    <3> QED
      BY <2>2, <3>1, <3>2, <3>3 DEF CallType
  <2>4. CallHasWhatItNeeds'
    BY <2>1, <2>2
  <2> QED
    BY <2>3, <2>4
<1>6. CASE Commit(c)
  <2>1. /\ call' = [call EXCEPT ![c] = NoCall]
        /\ UNCHANGED <<resetCount, totalCount, threads, threadVars>>
    BY <1>6 DEF Commit
  <2>2. agentTree' \in [Keys -> Threads \cup {Vacant, Reserved}]
    BY <1>6 DEF Commit, Threads
  <2>3. usedNicknames' \subseteq Nicknames
    BY <1>6 DEF Commit
  <2>4. CallHasWhatItNeeds'
    BY <2>1
  <2> QED
    BY <2>1, <2>2, <2>3, <2>4
<1>7. CASE ReleaseCount(c)
  BY <1>7, CountStep DEF ReleaseCount
<1>8. CASE RemoveThread(c) \/ ReleaseSpawnedThread(c)
  BY <1>8 DEF RemoveThread, ReleaseSpawnedThread
<1> QED
  BY <1>1, <1>2, <1>3, <1>4, <1>5, <1>6, <1>7, <1>8, <1>9 DEF CallStep

\* A thread, once created, can be resumed from then on.
LEMMA RecordedStays ==
    ASSUME IInv, NEW c \in Calls, CallStep(c)
    PROVE  rollouts \subseteq rollouts' /\ borrowed' = borrowed /\ CallThreadIsRecorded'
<1> USE DEF IInv, TypeOK, CallHasWhatItNeeds, CallThreadIsRecorded, Goto, Finish, NoCall, At, threadVars
<1>1. CASE CreateThread(c)
  BY <1>1, ConstantsAssumption DEF CreateThread, Nicknames
<1>2. CASE ~CreateThread(c)
  BY <1>2, ConstantsAssumption DEF CallStep, Threads, ReserveSpawnSlot, RegisterRootThread, ReserveAgentPath,
     ReserveAgentNickname, FailCall, Commit, DropReservation, ReleaseCount, RemoveThread,
     ReleaseSpawnedThread
<1> QED
  BY <1>1, <1>2

-----------------------------------------------------------------------------
(* Paths *)

\* A step of one call that leaves the paths, and who holds them, as they were.
LEMMA PathsUnchanged ==
    ASSUME PlaceholderIsHeld, UNCHANGED agentTree,
           \A d \in Calls, path \in Paths : HoldsPath(d, path)' <=> HoldsPath(d, path)
    PROVE  PlaceholderIsHeld'
  BY DEF PlaceholderIsHeld

\* A placeholder appears with its call and goes with it; a step of a call touches
\* a registered path only to release it.
LEMMA PathStep ==
    ASSUME IInv, NEW c \in Calls, CallStep(c)
    PROVE  /\ PlaceholderIsHeld'
           /\ \A path \in Paths : agentTree[path] \in SubAgents =>
                  agentTree'[path] \in {agentTree[path], Vacant}
<1> USE DEF IInv, TypeOK, CallHasWhatItNeeds, Goto, Finish, NoCall, At, HoldsPath
<1>1. CASE ReserveSpawnSlot(c) \/ ReserveAgentNickname(c) \/ CreateThread(c) \/ FailCall(c)
           \/ ReleaseCount(c) \/ RemoveThread(c)
  <2>1. \A d \in Calls, path \in Paths : HoldsPath(d, path)' <=> HoldsPath(d, path)
    BY <1>1, ConstantsAssumption DEF ReserveSpawnSlot, ReserveAgentNickname, CreateThread, FailCall,
       ReleaseCount, RemoveThread, Keys
  <2>2. UNCHANGED agentTree
    BY <1>1 DEF ReserveSpawnSlot, ReserveAgentNickname, CreateThread, FailCall, ReleaseCount, RemoveThread
  <2> QED
    BY <2>1, <2>2, PathsUnchanged
<1>2. CASE RegisterRootThread(c)
  BY <1>2, ConstantsAssumption DEF RegisterRootThread, WithRootThread, PlaceholderIsHeld, Keys
<1>3. CASE ReserveAgentPath(c)
  <2>1. CASE agentTree[call[c].path] = Vacant
    <3>1. /\ call[c].path \in Paths
          /\ agentTree' = [agentTree EXCEPT ![call[c].path] = Reserved]
          /\ call' = [call EXCEPT ![c].pc = "nickname"]
      BY <1>3, <2>1 DEF ReserveAgentPath
    <3>2. \A d \in Calls, path \in Paths :
              HoldsPath(d, path)' <=> HoldsPath(d, path) \/ (d = c /\ path = call[c].path)
      BY <1>3, <3>1 DEF ReserveAgentPath
    <3>3. \A d \in Calls : ~HoldsPath(d, call[c].path)
      BY <2>1, <3>1, ConstantsAssumption DEF PlaceholderIsHeld
    <3>4. \A path \in Paths : path # call[c].path => agentTree'[path] = agentTree[path]
      BY <3>1 DEF Keys
    <3>5. agentTree'[call[c].path] = Reserved
      BY <3>1 DEF Keys
    <3> HIDE DEF HoldsPath
    <3>6. PlaceholderIsHeld'
      BY <3>1, <3>2, <3>3, <3>4, <3>5 DEF PlaceholderIsHeld
    <3> QED
      BY <2>1, <3>4, <3>6, ConstantsAssumption DEF Threads
  <2>2. CASE agentTree[call[c].path] # Vacant
    <3>1. UNCHANGED agentTree /\ call' = [call EXCEPT ![c].pc = "drop_count"] /\ call[c].pc = "path"
      BY <1>3, <2>2 DEF ReserveAgentPath
    <3>2. \A d \in Calls, path \in Paths : HoldsPath(d, path)' <=> HoldsPath(d, path)
      BY <3>1
    <3> QED
      BY <3>1, <3>2, PathsUnchanged
  <2> QED
    BY <2>1, <2>2
<1>4. CASE Commit(c)
  BY <1>4, ConstantsAssumption DEF Commit, PlaceholderIsHeld, Keys, Threads
<1>5. CASE DropReservation(c)
  BY <1>5, ConstantsAssumption DEF DropReservation, PlaceholderIsHeld, Keys, Threads
<1>6. CASE ReleaseSpawnedThread(c)
  BY <1>6, ConstantsAssumption DEF ReleaseSpawnedThread, PlaceholderIsHeld, Keys, Threads
<1> QED
  BY <1>1, <1>2, <1>3, <1>4, <1>5, <1>6 DEF CallStep

-----------------------------------------------------------------------------
(* Nicknames *)

\* Whoever gets a nickname in ReserveAgentNickname gets a new one, or resumes
\* the thread that has it, unless the thread brought it along.
LEMMA NewNicknameIsNew ==
    ASSUME IInv, NEW c \in Calls, At(c, "nickname"), NEW preferred \in PreferredNicknames(c),
           NEW name \in Nicknames, ChooseNickname(preferred, name)
    PROVE  /\ \A old \in Nicknames : GivenBefore(old) => GivenBefore(old)'
           /\ call[c].thread \notin borrowed =>
                 /\ GivenBefore(name)'
                 /\ \/ ~GivenBefore(name)
                    \/ call[c].thread \in PoolThreads /\ name = nickname[call[c].thread]
<1> USE DEF IInv, TypeOK, CallHasWhatItNeeds, CallThreadIsRecorded, At, GivenBefore, PoolThreads,
    Nicknames
<1>1. CASE preferred # NoName
  <2>1. /\ name = nickname[call[c].thread] /\ call[c].thread \in rollouts
        /\ call[c].thread \notin borrowed => call[c].thread \in PoolThreads
    BY <1>1 DEF ChooseNickname, PreferredNicknames
  <2>2. usedNicknames' = usedNicknames \cup {name} /\ resetCount' = resetCount
    BY <1>1 DEF ChooseNickname
  <2> QED
    BY <2>1, <2>2 DEF GivenNamesAreUsed
<1>2. CASE preferred = NoName
  <2>1. CASE resetCount' = resetCount
    <3>0. resetCount' # resetCount + 1
      BY <2>1
    <3>1. PICK n \in Names : name = <<n, resetCount>> /\ name \notin usedNicknames
      BY <1>2, <3>0 DEF ChooseNickname
    <3>2. usedNicknames' = usedNicknames \cup {name}
      BY <1>2, <2>1 DEF ChooseNickname
    <3> QED
      BY <2>1, <3>1, <3>2
  <2>2. CASE resetCount' # resetCount
    <3>1. PICK n \in Names : name = <<n, resetCount + 1>> /\ resetCount' = resetCount + 1
      BY <1>2, <2>2 DEF ChooseNickname
    <3>2. usedNicknames' = {name}
      BY <1>2, <2>2 DEF ChooseNickname
    <3>3. ~GivenBefore(name) /\ GivenBefore(name)'
      BY <3>1, <3>2
    <3>4. \A old \in Nicknames : GivenBefore(old) => GivenBefore(old)'
      BY <3>1
    <3> QED
      BY <3>3, <3>4
  <2> QED
    BY <2>1, <2>2
<1> QED
  BY <1>1, <1>2

\* A step that gives no nickname and no thread.
LEMMA NicknamesUnchanged ==
    ASSUME IInv, UNCHANGED <<usedNicknames, resetCount, threadVars>>,
           \A d \in Calls : call'[d].name = call[d].name /\ call'[d].thread = call[d].thread
    PROVE  GivenNamesAreUsed' /\ NicknameIsForOneThread' /\ NicknamesAreDistinct'
  BY DEF IInv, GivenNamesAreUsed, GivenBefore, NicknameIsForOneThread, NicknamesAreDistinct,
     PoolThreads, PoolCalls, threadVars

\* Nicknames are given in one place and handed to a thread in another.
LEMMA NicknameStep ==
    ASSUME IInv, NEW c \in Calls, CallStep(c)
    PROVE  GivenNamesAreUsed' /\ NicknameIsForOneThread' /\ NicknamesAreDistinct'
<1> USE DEF IInv, TypeOK, CallHasWhatItNeeds, Goto, Finish, NoCall, At
<1>1. CASE ReserveAgentNickname(c)
  <2>1. PICK preferred \in PreferredNicknames(c), name \in Names \X (0..MaxResets) :
            /\ ChooseNickname(preferred, name)
            /\ call' = [call EXCEPT ![c].pc = "create", ![c].name = name]
    BY <1>1 DEF ReserveAgentNickname
  <2>2. name \in Nicknames
    BY <1>1, <2>1, ChosenNickname DEF ReserveAgentNickname
  <2>3. /\ \A old \in Nicknames : GivenBefore(old) => GivenBefore(old)'
        /\ call[c].thread \notin borrowed =>
              /\ GivenBefore(name)'
              /\ \/ ~GivenBefore(name)
                 \/ call[c].thread \in PoolThreads /\ name = nickname[call[c].thread]
    BY <1>1, <2>1, <2>2, NewNicknameIsNew DEF ReserveAgentNickname
  <2>4. PoolThreads' = PoolThreads /\ UNCHANGED <<rollouts, nickname, borrowed>>
    BY <1>1 DEF ReserveAgentNickname, PoolThreads, threadVars
  <2>5. GivenNamesAreUsed'
    BY <2>1, <2>2, <2>3, <2>4 DEF GivenNamesAreUsed, PoolThreads, PoolCalls, Nicknames
  <2>6. NicknameIsForOneThread' /\ NicknamesAreDistinct'
    BY <2>1, <2>2, <2>3, <2>4, ConstantsAssumption
       DEF GivenNamesAreUsed, NicknameIsForOneThread, NicknamesAreDistinct, PoolThreads, PoolCalls,
       Threads, Nicknames
  <2> QED
    BY <2>5, <2>6
<1>2. CASE CreateThread(c)
  <2>1. PICK t \in SubAgents :
            /\ IF call[c].thread = NoThread THEN t \notin rollouts ELSE t = call[c].thread
            /\ nickname' = [nickname EXCEPT ![t] = call[c].name]
            /\ call' = [call EXCEPT ![c].pc = "commit", ![c].thread = t]
            /\ rollouts' = rollouts \cup {t}
            /\ UNCHANGED <<usedNicknames, resetCount, borrowed>>
    BY <1>2 DEF CreateThread
  <2>2. /\ call[c].name \in Nicknames /\ call[c].name # NoName
        /\ t \in borrowed <=> call[c].thread \in borrowed
        /\ PoolThreads' = PoolThreads \cup ({t} \ borrowed)
        /\ PoolCalls' = PoolCalls
        /\ c \in PoolCalls <=> t \notin borrowed
    BY <1>2, <2>1, ConstantsAssumption DEF CreateThread, PoolThreads, PoolCalls, Nicknames, Threads
  <2>3. GivenNamesAreUsed'
    BY <2>1, <2>2 DEF GivenNamesAreUsed, GivenBefore, PoolThreads, PoolCalls
  <2>4. NicknamesAreDistinct'
    BY <2>1, <2>2, ConstantsAssumption
       DEF NicknamesAreDistinct, NicknameIsForOneThread, Threads, PoolThreads
  <2>5. NicknameIsForOneThread'
    BY <2>1, <2>2, ConstantsAssumption
       DEF NicknameIsForOneThread, CallThreadIsRecorded, Threads, PoolThreads, PoolCalls
  <2> QED
    BY <2>3, <2>4, <2>5
<1>3. CASE Commit(c)
  BY <1>3, ConstantsAssumption DEF Commit, GivenNamesAreUsed, GivenBefore, NicknameIsForOneThread,
     NicknamesAreDistinct, PoolThreads, PoolCalls, threadVars
<1>4. CASE ReserveSpawnSlot(c) \/ ReleaseCount(c) \/ ReleaseSpawnedThread(c)
  BY <1>4, ConstantsAssumption DEF ReserveSpawnSlot, ReleaseCount, ReleaseSpawnedThread, GivenNamesAreUsed,
     GivenBefore, NicknameIsForOneThread, NicknamesAreDistinct, PoolThreads, PoolCalls, threadVars
<1>5. CASE RegisterRootThread(c) \/ ReserveAgentPath(c) \/ FailCall(c) \/ DropReservation(c)
           \/ RemoveThread(c)
  <2>1. /\ UNCHANGED <<usedNicknames, resetCount, threadVars>>
        /\ call' = [call EXCEPT ![c].pc = call'[c].pc]
    BY <1>5 DEF RegisterRootThread, ReserveAgentPath, FailCall, DropReservation, RemoveThread
  <2>2. \A d \in Calls : call'[d].name = call[d].name /\ call'[d].thread = call[d].thread
    BY <2>1
  <2> QED
    BY <2>1, <2>2, NicknamesUnchanged
<1> QED
  BY <1>1, <1>2, <1>3, <1>4, <1>5 DEF CallStep

-----------------------------------------------------------------------------
(* The invariant *)

\* A call that starts holds nothing yet.
LEMMA StartStep ==
    ASSUME IInv, NEW c \in Calls, At(c, "idle"),
           UNCHANGED <<agentTree, usedNicknames, resetCount, totalCount, threads, threadVars>>,
           NEW k \in CallType, call' = [call EXCEPT ![c] = k],
           \/ k.pc = "reserve" /\ k.thread \in rollouts \cup {NoThread}
           \/ k.pc = "remove" /\ k.thread \in rollouts \cup {RootThread},
           k.name = NoName
    PROVE  IInv'
<1> USE DEF IInv, TypeOK, CallHasWhatItNeeds, At, threadVars
<1>1. TypeOK'
  BY DEF CallType
<1>2. CallHasWhatItNeeds' /\ CallThreadIsRecorded'
  BY ConstantsAssumption DEF CallThreadIsRecorded, Threads, NoCall, threadVars
<1>3. CountCoversSlots'
  <2>1. SlotHolders' = SlotHolders
    BY DEF SlotHolders
  <2>2. CountedKeys' = CountedKeys
    BY DEF CountedKeys
  <2> QED
    BY <2>1, <2>2, SlotsUnchanged
<1>4. PlaceholderIsHeld'
  <2>1. \A d \in Calls, p \in Paths : HoldsPath(d, p)' <=> HoldsPath(d, p)
    BY DEF HoldsPath
  <2> QED
    BY <2>1, PathsUnchanged
<1>5. GivenNamesAreUsed' /\ NicknameIsForOneThread' /\ NicknamesAreDistinct'
  BY DEF GivenNamesAreUsed, GivenBefore, NicknameIsForOneThread, NicknamesAreDistinct,
     PoolThreads, PoolCalls, threadVars
<1> QED
  BY <1>1, <1>2, <1>3, <1>4, <1>5

LEMMA RootStep == ASSUME IInv, RegisterSessionRoot PROVE IInv'
<1> USE DEF IInv, TypeOK, RegisterSessionRoot, WithRootThread, threadVars
<1>1. TypeOK' /\ CallHasWhatItNeeds' /\ CallThreadIsRecorded'
  BY DEF CallHasWhatItNeeds, CallThreadIsRecorded, Threads, threadVars
<1>2. CountCoversSlots'
  <2>1. SlotHolders' = SlotHolders
    BY DEF SlotHolders
  <2>2. CountedKeys' = CountedKeys
    BY DEF CountedKeys
  <2> QED
    BY <2>1, <2>2, SlotsUnchanged
<1>3. PlaceholderIsHeld'
  BY ConstantsAssumption DEF PlaceholderIsHeld, HoldsPath, Keys
<1>4. GivenNamesAreUsed' /\ NicknameIsForOneThread' /\ NicknamesAreDistinct'
  BY DEF GivenNamesAreUsed, GivenBefore, NicknameIsForOneThread, NicknamesAreDistinct,
     PoolThreads, PoolCalls, threadVars
<1> QED
  BY <1>1, <1>2, <1>3, <1>4

\* A call to spawn, resume or close begins.
LEMMA StartIsStartStep ==
    ASSUME IInv, NEW c \in Calls,
           \/ \E path \in Paths \cup {NoPath} : StartSpawn(c, path)
           \/ \E t \in SubAgents : StartResume(c, t)
           \/ \E t \in Threads : StartClose(c, t)
    PROVE  IInv'
<1> DEFINE k == call'[c]
<1>0. At(c, "idle") /\ call[c] = NoCall /\ call[c] \in CallType
  BY DEF IInv, TypeOK, CallType, CallHasWhatItNeeds, StartSpawn, StartResume, StartClose, At
<1>1. ASSUME NEW path \in Paths \cup {NoPath}, StartSpawn(c, path) PROVE IInv'
  <2>1. k = [call[c] EXCEPT !.pc = "reserve", !.path = path] /\ call' = [call EXCEPT ![c] = k]
    BY <1>1 DEF StartSpawn, IInv, TypeOK
  <2> HIDE DEF k
  <2>2. k \in CallType
    BY <1>0, <2>1 DEF CallType, CallPCs, Threads
  <2>3. k.pc = "reserve" /\ k.thread = NoThread /\ k.name = NoName
    BY <1>0, <2>1 DEF CallType, NoCall
  <2> QED
    BY <1>0, <1>1, <2>1, <2>2, <2>3, StartStep DEF StartSpawn
<1>2. ASSUME NEW t \in SubAgents, StartResume(c, t) PROVE IInv'
  <2>1. k = [call[c] EXCEPT !.pc = "reserve", !.thread = t] /\ call' = [call EXCEPT ![c] = k]
    BY <1>2 DEF StartResume, IInv, TypeOK
  <2> HIDE DEF k
  <2>2. k \in CallType
    BY <1>0, <2>1 DEF CallType, CallPCs, Threads
  <2>3. k.pc = "reserve" /\ k.thread = t /\ k.name = NoName
    BY <1>0, <2>1 DEF CallType, NoCall
  <2> QED
    BY <1>0, <1>2, <2>1, <2>2, <2>3, StartStep DEF StartResume
<1>3. ASSUME NEW t \in Threads, StartClose(c, t) PROVE IInv'
  <2>1. k = [call[c] EXCEPT !.pc = "remove", !.thread = t] /\ call' = [call EXCEPT ![c] = k]
    BY <1>3 DEF StartClose, IInv, TypeOK
  <2> HIDE DEF k
  <2>2. k \in CallType
    BY <1>0, <2>1 DEF CallType, CallPCs, Threads
  <2>3. k.pc = "remove" /\ k.thread = t /\ k.name = NoName
    BY <1>0, <2>1 DEF CallType, NoCall
  <2>4. k.thread \in rollouts \cup {RootThread}
    BY <1>3, <2>3 DEF StartClose
  <2>5. UNCHANGED <<agentTree, usedNicknames, resetCount, totalCount, threads, threadVars>>
    BY <1>3 DEF StartClose
  <2> QED
    BY <1>0, <2>1, <2>2, <2>3, <2>4, <2>5, StartStep
<1> QED
  BY <1>1, <1>2, <1>3

\* Initially no call holds anything and no key is taken.
LEMMA InitHolds == Init => IInv
<1> SUFFICES ASSUME Init PROVE IInv
  OBVIOUS
<1> USE DEF Init, NoCall
<1>1. TypeOK
  <2>1. (Names \X (0..MaxResets)) \cup {NoName} \subseteq Nicknames \cup {NoName}
    BY ConstantsAssumption DEF Nicknames
  <2>2. nickname \in [SubAgents -> Nicknames \cup {NoName}]
    BY <2>1
  <2> HIDE DEF NoCall
  <2>3. NoCall \in CallType
    BY DEF NoCall, CallType, CallPCs, Threads
  <2> QED
    BY <2>2, <2>3, ConstantsAssumption DEF TypeOK, CallType, Threads
<1>2. CallHasWhatItNeeds /\ CallThreadIsRecorded
  BY ConstantsAssumption DEF CallHasWhatItNeeds, CallThreadIsRecorded, Threads
<1>3. CountCoversSlots
  <2>1. SlotHolders = {}
    BY DEF SlotHolders
  <2>2. CountedKeys = {}
    BY ConstantsAssumption DEF CountedKeys
  <2> QED
    BY <2>1, <2>2, FS_EmptySet, ConstantsAssumption DEF CountCoversSlots
<1>4. PlaceholderIsHeld
  BY ConstantsAssumption DEF PlaceholderIsHeld, HoldsPath, Keys
<1>5. GivenNamesAreUsed /\ NicknameIsForOneThread /\ NicknamesAreDistinct
  BY ConstantsAssumption
     DEF GivenNamesAreUsed, NicknameIsForOneThread, NicknamesAreDistinct, PoolThreads, PoolCalls
<1> QED
  BY <1>1, <1>2, <1>3, <1>4, <1>5 DEF IInv

LEMMA StepHolds == IInv /\ [Next]_vars => IInv'
<1> SUFFICES ASSUME IInv, [Next]_vars PROVE IInv'
  OBVIOUS
<1>1. CASE RegisterSessionRoot
  BY <1>1, RootStep
<1>2. ASSUME NEW c \in Calls,
             \/ \E path \in Paths \cup {NoPath} : StartSpawn(c, path)
             \/ \E t \in SubAgents : StartResume(c, t)
             \/ \E t \in Threads : StartClose(c, t)
      PROVE  IInv'
  BY <1>2, StartIsStartStep
<1>3. ASSUME NEW c \in Calls, CallStep(c) PROVE IInv'
  BY <1>3, TypeStep, CountStep, RecordedStays, PathStep, NicknameStep DEF IInv
<1>4. CASE UNCHANGED vars
  BY <1>4 DEF vars, IInv, TypeOK, CallHasWhatItNeeds, CallThreadIsRecorded, CountCoversSlots,
     SlotHolders, CountedKeys, PlaceholderIsHeld, HoldsPath, GivenNamesAreUsed, GivenBefore,
     NicknameIsForOneThread, NicknamesAreDistinct, PoolThreads, PoolCalls, threadVars
<1> QED
  BY <1>1, <1>2, <1>3, <1>4 DEF Next

LEMMA InvariantHolds == Spec => []IInv
  BY InitHolds, StepHolds, PTL DEF Spec

-----------------------------------------------------------------------------
(* Results *)

\* Every variable keeps its type; in particular total_count never wraps below
\* zero.
THEOREM TypeCorrect == Spec => []TypeOK
<1>1. IInv => TypeOK
  BY DEF IInv
<1> QED
  BY <1>1, InvariantHolds, PTL

\* However calls fail, commit and release, total_count covers every reservation
\* and every registered sub-agent, and stays within agent_max_threads.
THEOREM EverySlotIsCounted == Spec => []CountCoversSlots
<1>1. IInv => CountCoversSlots
  BY DEF IInv
<1> QED
  BY <1>1, InvariantHolds, PTL

\* A placeholder in the agent tree is that of exactly one reservation, and a
\* reservation finds its placeholder until it commits or is dropped.
THEOREM OneHolderPerReservedPath == Spec => []ReservedPathHasOneHolder
<1>1. IInv => ReservedPathHasOneHolder
  <2> SUFFICES ASSUME IInv, NEW path \in Paths
               PROVE  Cardinality(Holders(path)) = IF agentTree[path] = Reserved THEN 1 ELSE 0
    BY DEF ReservedPathHasOneHolder
  <2>1. Holders(path) = {c \in Calls : HoldsPath(c, path)}
    BY DEF Holders, HoldsPath
  <2>2. CASE agentTree[path] = Reserved
    <3>1. PICK c \in Calls : Holders(path) = {c}
      BY <2>1, <2>2 DEF IInv, PlaceholderIsHeld
    <3> QED
      BY <2>2, <3>1, FS_Singleton
  <2>3. CASE agentTree[path] # Reserved
    <3>1. Holders(path) = {}
      BY <2>1, <2>3 DEF IInv, PlaceholderIsHeld
    <3> QED
      BY <2>3, <3>1, FS_EmptySet
  <2> QED
    BY <2>2, <2>3
<1> QED
  BY <1>1, InvariantHolds, PTL

\* The pool gives no nickname to two sub-agents, whatever resumes and pool resets;
\* only a thread of another session may bring one that another agent has.
THEOREM PoolGivesNoNicknameTwice == Spec => []NicknamesAreDistinct
<1>1. IInv => NicknamesAreDistinct
  BY DEF IInv
<1> QED
  BY <1>1, InvariantHolds, PTL

\* A registered path changes hands only by being released first.
THEOREM RegisteredPathIsKept == Spec => PathIsKept
<1> DEFINE Kept == \A path \in Paths : agentTree[path] \in SubAgents =>
                       agentTree'[path] \in {agentTree[path], Vacant}
<1>1. IInv /\ [Next]_vars => [Kept]_agentTree
  <2> SUFFICES ASSUME IInv, [Next]_vars, agentTree' # agentTree PROVE Kept
    OBVIOUS
  <2>1. CASE RegisterSessionRoot
    BY <2>1, ConstantsAssumption DEF RegisterSessionRoot, WithRootThread, IInv, TypeOK, Keys
  <2>2. ASSUME NEW c \in Calls, CallStep(c) PROVE Kept
    BY <2>2, PathStep
  <2> QED
    BY <2>1, <2>2 DEF Next, vars, StartSpawn, StartResume, StartClose
<1> QED
  BY <1>1, InvariantHolds, PTL DEF Spec, PathIsKept
=============================================================================
