--------------------------- MODULE ToolCallsProofs ---------------------------
(* The safety of a turn's tool calls, for any calls, whatever their tools,  *)
(* and any number of turns, requests and attempts.                          *)
(*                                                                          *)
(* The tools waited for are those of the attempt at hand, in the order of   *)
(* their calls, and every call whose tool was heard precedes them.  So what  *)
(* is drained comes in order, and a tool still waited for shares its lock   *)
(* with every other one.                                                    *)
EXTENDS ToolCalls, SequenceTheorems, FiniteSetTheorems, TLAPS

Ids == Calls \cup {NoCall}

Items ==
    {UserMessage} \cup {OutputItem("function", NoCall)} \cup {ServerOutput(id) : id \in Ids}
        \cup {CallItem(Kind(c), c) : c \in Calls} \cup {CallItem(Kind(c), NoCall) : c \in Calls}
        \cup {OutputItem(Kind(c), c) : c \in Calls}

IsCallOf(item, c) == IsCall(item) /\ item.id = c

\* A call that is recorded and not started is the last item, by its id if it has one.
Spawning ==
    /\ at = "spawn" => calling \in Calls
    /\ calling \in Calls =>
          /\ at = "spawn" /\ tool[calling] = "none"
          /\ \A i \in DOMAIN history : IsCall(history[i]) =>
                (history[i].id = calling <=> i = Len(history))

\* A tool of this system is started for the call, or was.
IsOurs(c) == tool[c] \notin {"none", "server"}

\* The tools waited for are started, each once, by the request at hand.
Current ==
    /\ at \in {"build", "backoff", "over"} => inFlight = <<>>
    /\ \A m \in DOMAIN inFlight :
          /\ IsOurs(inFlight[m])
          /\ origin[inFlight[m]].turn = now.turn /\ origin[inFlight[m]].request = now.request
    /\ \A m, n \in DOMAIN inFlight : m # n => inFlight[m] # inFlight[n]
    /\ \A c \in dropped : IsOurs(c)

\* A call is recorded once.
OneItemPerCall ==
    \A i, j \in DOMAIN history :
        IsCall(history[i]) /\ IsCall(history[j]) /\ history[i].id = history[j].id => i = j

\* What has an output was begun and is not waited for.
AnsweredIsDone ==
    \A k \in DOMAIN history : IsOutput(history[k]) /\ history[k].id \in Calls =>
        /\ tool[history[k].id] # "none"
        /\ \A m \in DOMAIN inFlight : inFlight[m] # history[k].id

\* The tools waited for are in the order of their calls ...
WaitsInOrder ==
    \A m, n \in DOMAIN inFlight : m < n =>
        \A i, j \in DOMAIN history :
            IsCallOf(history[i], inFlight[m]) /\ IsCallOf(history[j], inFlight[n]) => i < j

\* ... which follow all calls that have the output of their tool.
AnsweredBefore ==
    \A k, i, j \in DOMAIN history, m \in DOMAIN inFlight :
        IsToolOutput(history[k]) /\ IsCallOf(history[i], history[k].id)
            /\ IsCallOf(history[j], inFlight[m]) => i < j

\* OutputsInCallOrder, of the ids alone.
InOrder ==
    \A k, l, i, j \in DOMAIN history :
        k < l /\ IsToolOutput(history[k]) /\ IsToolOutput(history[l])
            /\ IsCallOf(history[i], history[k].id) /\ IsCallOf(history[j], history[l].id) => i < j

HistoryInv ==
    /\ history \in Seq(Items)
    /\ OneItemPerCall /\ AnsweredIsDone /\ WaitsInOrder /\ AnsweredBefore /\ InOrder

IInv ==
    /\ ToolTypeOK /\ Spawning /\ Current /\ HistoryInv
    /\ NoToolLeftBehind /\ ExclusiveRunsAlone

-----------------------------------------------------------------------------
(* Items and sequences *)

\* What an item of the history is.
LEMMA ItemFacts ==
    /\ \A item \in Items :
          /\ IsCall(item) => item.id \in Calls /\ ~IsOutput(item)
          /\ IsOutput(item) => item.id \in Ids
          /\ ~IsCallOf(item, NoCall)
    /\ \A c \in Calls : \A id \in {c, NoCall} : LET item == CallItem(Kind(c), id) IN
          /\ item \in Items /\ ~IsOutput(item)
          /\ IsCall(item) => item.id = id /\ id \in Calls
          /\ id \in Calls => IsCallOf(item, id)
    /\ \A c \in Calls : LET item == OutputItem(Kind(c), c) IN
          item \in Items /\ IsToolOutput(item) /\ IsOutput(item) /\ ~IsCall(item) /\ item.id = c
    /\ \A id \in Ids : LET item == ServerOutput(id) IN
          item \in Items /\ ~IsToolOutput(item) /\ IsOutput(item) /\ ~IsCall(item) /\ item.id = id
    /\ LET item == OutputItem("function", NoCall) IN
          item \in Items /\ IsOutput(item) /\ ~IsCall(item) /\ item.id = NoCall
    /\ UserMessage \in Items /\ ~IsCall(UserMessage) /\ ~IsOutput(UserMessage)
<1> USE CallsAssumption DEF IsCall, IsOutput, IsToolOutput, IsCallOf, CallItem, OutputItem,
        ServerOutput, UserMessage, Ids
<1>1. ASSUME NEW item \in Items
      PROVE  /\ IsCall(item) => item.id \in Calls /\ ~IsOutput(item)
             /\ IsOutput(item) => item.id \in Ids
             /\ ~IsCallOf(item, NoCall)
  BY DEF Items
<1>2. \A c \in Calls : \A id \in {c, NoCall} : CallItem(Kind(c), id) \in Items
  BY DEF Items
<1>3. \A c \in Calls : OutputItem(Kind(c), c) \in Items
  BY DEF Items
<1>4. \A id \in Ids : ServerOutput(id) \in Items
  BY DEF Items
<1>5. OutputItem("function", NoCall) \in Items /\ UserMessage \in Items
  BY DEF Items
<1> QED
  BY <1>1, <1>2, <1>3, <1>4, <1>5

\* An append leaves what was there and puts the item behind it.
LEMMA AppendFacts ==
    ASSUME NEW S, NEW seq \in Seq(S), NEW item \in S
    PROVE  LET new == Append(seq, item) IN
           /\ new \in Seq(S) /\ new # <<>> /\ Len(new) = Len(seq) + 1 /\ Len(seq) \in Nat
           /\ DOMAIN seq = 1..Len(seq) /\ DOMAIN new = 1..(Len(seq) + 1)
           /\ \A i \in DOMAIN seq : new[i] = seq[i]
           /\ new[Len(seq) + 1] = item
BY AppendProperties

\* The tail is what was there but for its head.
LEMMA TailFacts ==
    ASSUME NEW S, NEW seq \in Seq(S), seq # <<>>
    PROVE  LET rest == Tail(seq) IN
           /\ rest \in Seq(S) /\ Head(seq) \in S /\ Head(seq) = seq[1] /\ 1 \in DOMAIN seq
           /\ DOMAIN seq \subseteq Nat /\ DOMAIN rest \subseteq Nat
           /\ \A m \in DOMAIN rest : m >= 1 /\ m + 1 \in DOMAIN seq /\ rest[m] = seq[m + 1]
           /\ \A m \in DOMAIN seq : m = 1 \/ (m - 1 \in DOMAIN rest /\ rest[m - 1] = seq[m])
BY HeadTailProperties

\* A rollback leaves a prefix of the history.
LEMMA RollbackLeavesPrefix ==
    ASSUME NEW S, NEW items \in Seq(S), NEW n
    PROVE  LET left == DropLastNUserTurns(items, n) IN
           /\ left \in Seq(S) /\ DOMAIN left \subseteq DOMAIN items
           /\ \A i \in DOMAIN left : left[i] = items[i]
<1> DEFINE users == {i \in DOMAIN items : items[i].type = "user"}
           Stays(i) == (\A u \in users : i < u) \/ Cardinality({u \in users : i < u}) >= n
           kept == {i \in DOMAIN items : Stays(i)}
<1>1. DOMAIN items = 1..Len(items) /\ Len(items) \in Nat
  OBVIOUS
<1>2. IsFiniteSet(1..Len(items)) /\ Cardinality(1..Len(items)) = Len(items)
  BY <1>1, FS_Interval
<1>3. kept \subseteq 1..Len(items)
  BY <1>1
<1>4. Cardinality(kept) \in 0..Len(items)
  <2>1. IsFiniteSet(kept) /\ Cardinality(kept) <= Cardinality(1..Len(items))
    BY <1>2, <1>3, FS_Subset
  <2> QED
    BY <2>1, <1>2, FS_CardinalityType
<1>5. DropLastNUserTurns(items, n) = SubSeq(items, 1, Cardinality(kept))
  BY DEF DropLastNUserTurns
<1> HIDE DEF kept
<1> QED
  BY <1>1, <1>4, <1>5, SubSeqProperties

-----------------------------------------------------------------------------
(* The steps *)

\* Those of the turn's task, and of those around it, that leave the items and
\* the tools alone.
QuietStep ==
    \/ BuildPrompt \/ StopBuilding \/ Retry \/ GiveUp
    \/ StreamEnds \/ StreamCancelled \/ Drained
    \/ OpenGate \/ Interrupt

\* The next request, attempt and turn of an attempt are attempts.
LEMMA NextAttempts ==
    ASSUME NEW n \in Attempts
    PROVE  /\ n.request < MaxRequests =>
                 [turn |-> n.turn, request |-> n.request + 1, retry |-> 0] \in Attempts
           /\ n.retry < MaxRetries => [n EXCEPT !.retry = @ + 1] \in Attempts
           /\ n.turn < MaxTurns =>
                 [turn |-> n.turn + 1, request |-> n.request, retry |-> 0] \in Attempts
<1>1. /\ MaxTurns \in Nat /\ MaxRequests \in Nat /\ MaxRetries \in Nat
      /\ n.turn \in 0..MaxTurns /\ n.request \in 0..MaxRequests /\ n.retry \in 0..MaxRetries
  BY BoundsAssumption DEF Attempts
<1>2. [n EXCEPT !.retry = @ + 1] = [turn |-> n.turn, request |-> n.request, retry |-> n.retry + 1]
  BY DEF Attempts
<1> QED
  BY <1>1, <1>2 DEF Attempts

\* What such a step may do to the state of the turn.
LEMMA QuietSteps ==
    ASSUME IInv, QuietStep
    PROVE  /\ ToolTypeOK'
           /\ UNCHANGED <<history, calling, inFlight, tool, origin, dropped>>
           /\ at' = "spawn" <=> at = "spawn"
           /\ inFlight = <<>> \/ (now' = now /\ at' \notin {"build", "backoff", "over"})
<1> USE DEF ToolTypeOK, turnVars, gateVars, itemVars, toolVars
<1>0. /\ ToolTypeOK
      /\ at \in {"build", "backoff", "over"} => inFlight = <<>>
      /\ MaxRequests \in Nat /\ MaxRetries \in Nat
  BY BoundsAssumption DEF IInv, Current
<1>1. CASE BuildPrompt
  <2>1. now' \in Attempts
    BY <1>0, <1>1, NextAttempts DEF BuildPrompt
  <2> QED
    BY <1>0, <1>1, <2>1 DEF BuildPrompt
<1>2. CASE StopBuilding \/ GiveUp
  BY <1>0, <1>2 DEF StopBuilding, GiveUp
<1>3. CASE Retry
  <2>1. now' \in Attempts
    BY <1>0, <1>3, NextAttempts DEF Retry
  <2> QED
    BY <1>0, <1>3, <2>1 DEF Retry
<1>4. CASE StreamEnds \/ StreamCancelled
  BY <1>0, <1>4 DEF StreamEnds, StreamCancelled, EndStream
<1>5. CASE Drained
  BY <1>0, <1>5 DEF Drained
<1>6. CASE OpenGate \/ Interrupt
  BY <1>0, <1>6 DEF OpenGate, Interrupt, Current, IInv
<1> QED
  BY QuietStep, <1>1, <1>2, <1>3, <1>4, <1>5, <1>6 DEF QuietStep

\* They keep the invariant.
LEMMA QuietStepKeepsInv ==
    ASSUME IInv, QuietStep
    PROVE  IInv'
<1>1. /\ ToolTypeOK'
      /\ UNCHANGED <<history, calling, inFlight, tool, origin, dropped>>
      /\ at' = "spawn" <=> at = "spawn"
      /\ inFlight = <<>> \/ (now' = now /\ at' \notin {"build", "backoff", "over"})
  BY QuietSteps
<1>2. Spawning' /\ HistoryInv'
  BY <1>1 DEF IInv, Spawning, HistoryInv, OneItemPerCall, AnsweredIsDone, WaitsInOrder,
     AnsweredBefore, InOrder
<1>3. Current'
  BY <1>1 DEF IInv, Current, IsOurs
<1>4. NoToolLeftBehind' /\ ExclusiveRunsAlone'
  BY <1>1 DEF IInv, NoToolLeftBehind, ExclusiveRunsAlone, Busy, Started, SameRequest
<1> QED
  BY <1>1, <1>2, <1>3, <1>4 DEF IInv

\* A step of a tool leaves it started, and waited for unless it ends or is gone;
\* one that takes the lock finds no other that excludes it.
LEMMA ToolSteps ==
    ASSUME IInv, NEW c \in Calls, ToolGoesOn(c)
    PROVE  /\ ToolTypeOK'
           /\ UNCHANGED <<at, now, history, calling, inFlight, origin>>
           /\ dropped' \subseteq dropped
           /\ IsOurs(c) /\ IsOurs(c)'
           /\ \A d \in Calls : d # c => tool'[d] = tool[d] /\ (d \in dropped' <=> d \in dropped)
           /\ c \in Busy' => c \in Busy /\ (c \in dropped' <=> c \in dropped)
           /\ c \in Started' =>
                 c \notin dropped /\ (c \in Started \/
                    \A d \in Started : SameRequest(c, d) => {c, d} \subseteq Parallel)
<1> USE DEF ToolTypeOK, turnVars, gateVars, itemVars, Busy, Started, IsOurs
<1>0. ToolTypeOK /\ \A d \in dropped : IsOurs(d)
  BY DEF IInv, Current
<1>1. CASE Acquire(c)
  BY <1>0, <1>1 DEF Acquire, Lock, SameRequest
<1>2. CASE Listen(c) \/ PassGate(c)
  BY <1>0, <1>2 DEF Listen, PassGate
<1>3. CASE Finish(c)
  BY <1>0, <1>3 DEF Finish
<1>4. CASE CancelTool(c)
  BY <1>0, <1>4 DEF CancelTool
<1>5. CASE Reap(c)
  BY <1>0, <1>5 DEF Reap
<1> QED
  BY ToolGoesOn(c), <1>1, <1>2, <1>3, <1>4, <1>5 DEF ToolGoesOn

\* So do the steps of a tool.
LEMMA ToolStepKeepsInv ==
    ASSUME IInv, NEW c \in Calls, ToolGoesOn(c)
    PROVE  IInv'
<1>1. /\ ToolTypeOK'
      /\ UNCHANGED <<at, now, history, calling, inFlight, origin>>
      /\ dropped' \subseteq dropped
      /\ IsOurs(c) /\ IsOurs(c)'
      /\ \A d \in Calls : d # c => tool'[d] = tool[d] /\ (d \in dropped' <=> d \in dropped)
      /\ c \in Busy' => c \in Busy /\ (c \in dropped' <=> c \in dropped)
      /\ c \in Started' =>
            c \notin dropped /\ (c \in Started \/
               \A d \in Started : SameRequest(c, d) => {c, d} \subseteq Parallel)
  BY ToolSteps
<1>2. ToolTypeOK /\ \A d \in Calls : /\ tool[d] # "none" <=> tool'[d] # "none"
                                     /\ IsOurs(d) <=> IsOurs(d)'
  BY <1>1 DEF IInv, IsOurs
<1>3. Spawning'
  BY <1>1, <1>2 DEF IInv, Spawning
<1>4. Current'
  BY <1>1, <1>2 DEF IInv, Current, ToolTypeOK
<1>5. HistoryInv'
  BY <1>1, <1>2 DEF IInv, HistoryInv, OneItemPerCall, AnsweredIsDone, WaitsInOrder,
     AnsweredBefore, InOrder
<1>6. NoToolLeftBehind'
  BY <1>1 DEF IInv, NoToolLeftBehind, Busy
<1>7. ExclusiveRunsAlone'
  <2> SUFFICES ASSUME NEW d \in Started', NEW e \in Started', d # e,
                      SameRequest(d, e)' \/ {d, e} \cap dropped' = {}
               PROVE  {d, e} \subseteq Parallel
    BY DEF ExclusiveRunsAlone
  <2>1. d \in Calls /\ e \in Calls /\ (SameRequest(d, e)' <=> SameRequest(d, e))
    BY <1>1 DEF Started, SameRequest
  <2>2. CASE c \notin {d, e}
    <3>1. d \in Started /\ e \in Started /\ ({d, e} \cap dropped' = {} <=> {d, e} \cap dropped = {})
      BY <1>1, <2>1, <2>2 DEF Started
    <3> QED
      BY <2>1, <3>1 DEF IInv, ExclusiveRunsAlone
  <2>3. ASSUME NEW o \in Started', o # c, c \in Started',
               SameRequest(c, o) \/ {c, o} \cap dropped' = {}
        PROVE  {c, o} \subseteq Parallel
    <3>1. o \in Calls /\ o \in Started /\ (o \in dropped' <=> o \in dropped)
      BY <1>1, <2>3 DEF Started
    <3>2. CASE c \in Started
      BY <1>1, <2>3, <3>1, <3>2 DEF IInv, ExclusiveRunsAlone
    <3>3. CASE SameRequest(c, o)
      BY <1>1, <2>3, <3>1, <3>2, <3>3
    <3>4. CASE o \notin dropped
      <4>1. c \in Busy \ dropped /\ o \in Busy \ dropped
        BY <1>1, <2>3, <3>1, <3>4 DEF Started, Busy
      <4>2. c \in ToSet(inFlight) /\ o \in ToSet(inFlight)
        BY <4>1 DEF IInv, NoToolLeftBehind
      <4>3. SameRequest(c, o)
        BY <4>2 DEF IInv, Current, ToSet, SameRequest
      <4> QED
        BY <3>3, <4>3
    <3> QED
      BY <2>3, <3>1, <3>3, <3>4
  <2>4. CASE c = d
    BY <2>1, <2>3, <2>4
  <2>5. CASE c = e
    BY <2>1, <2>3, <2>5 DEF SameRequest
  <2> QED
    BY <2>2, <2>4, <2>5
<1> QED
  BY <1>1, <1>3, <1>4, <1>5, <1>6, <1>7 DEF IInv

\* Dropped tools are no longer waited for, and no others are started.
LEMMA DropKeepsInv ==
    ASSUME IInv, DropInFlight, UNCHANGED <<history, tool, origin>>, ToolTypeOK',
           at' \in {"backoff", "over"}, calling' = NoCall
    PROVE  IInv'
<1>1. inFlight' = <<>> /\ dropped' = dropped \cup (ToSet(inFlight) \cap Busy)
  BY DEF DropInFlight
<1>2. Spawning'
  BY CallsAssumption DEF Spawning
<1>3. Current'
  BY <1>1 DEF IInv, Current, IsOurs, Busy
<1>4. HistoryInv'
  BY <1>1 DEF IInv, HistoryInv, OneItemPerCall, AnsweredIsDone, WaitsInOrder,
     AnsweredBefore, InOrder
<1>5. NoToolLeftBehind'
  BY <1>1 DEF IInv, NoToolLeftBehind, Busy
<1>6. ExclusiveRunsAlone'
  BY <1>1 DEF IInv, ExclusiveRunsAlone, Started, SameRequest
<1> QED
  BY <1>2, <1>3, <1>4, <1>5, <1>6 DEF IInv

\* A broken stream drops its tools ...
LEMMA StreamFailsKeepsInv ==
    ASSUME IInv, StreamFails
    PROVE  IInv'
<1>1. DropInFlight /\ UNCHANGED <<history, tool, origin>> /\ at' \in {"backoff", "over"}
  BY DEF StreamFails, itemVars
<1>2. calling' = NoCall
  BY DEF StreamFails, IInv, Spawning, ToolTypeOK
<1>3. ToolTypeOK'
  BY DEF StreamFails, IInv, ToolTypeOK, DropInFlight, gateVars, itemVars, Busy
<1> QED
  BY <1>1, <1>2, <1>3, DropKeepsInv

\* ... as an abort does, wherever the task is.
LEMMA AbortTaskKeepsInv ==
    ASSUME IInv, AbortTask
    PROVE  IInv'
<1>1. /\ DropInFlight /\ UNCHANGED <<history, tool, origin>> /\ at' = "over" /\ calling' = NoCall
  BY DEF AbortTask, itemVars
<1>2. ToolTypeOK'
  BY DEF AbortTask, IInv, ToolTypeOK, DropInFlight, gateVars, itemVars, Busy
<1> QED
  BY <1>1, <1>2, DropKeepsInv

\* A new call has no output yet, and is behind all others.
LEMMA AppendCallKeepsItems ==
    ASSUME IInv, NEW c \in Calls, NEW item \in Items, MayCall(c), history' = Append(history, item),
           ~IsOutput(item), IsCall(item) => item.id = c, UNCHANGED inFlight,
           \A d \in Calls : tool[d] # "none" => tool'[d] # "none"
    PROVE  /\ HistoryInv'
           /\ \A i \in DOMAIN history' : IsCall(history'[i]) =>
                 (history'[i].id = c <=> i = Len(history'))
<1>1. /\ tool[c] = "none"
      /\ \A i \in DOMAIN history : IsCall(history[i]) => history[i].id # c
  BY DEF MayCall
<1>2. history \in Seq(Items) /\ \A i \in DOMAIN history : history[i] \in Items
  BY DEF IInv, HistoryInv
<1>3. /\ history' \in Seq(Items) /\ Len(history') = Len(history) + 1
      /\ Len(history) \in Nat
      /\ DOMAIN history = 1..Len(history) /\ DOMAIN history' = 1..(Len(history) + 1)
      /\ \A i \in DOMAIN history : history'[i] = history[i]
      /\ history'[Len(history) + 1] = item
  BY <1>2, AppendFacts
<1>4. OneItemPerCall'
  BY <1>1, <1>3 DEF IInv, HistoryInv, OneItemPerCall
<1>5. AnsweredIsDone'
  BY <1>3 DEF IInv, HistoryInv, AnsweredIsDone
<1>6. \A m \in DOMAIN inFlight : inFlight[m] # c
  BY <1>1 DEF IInv, Current, IsOurs
<1>7. WaitsInOrder'
  BY <1>1, <1>3, <1>6 DEF IInv, HistoryInv, WaitsInOrder, IsCallOf
<1>8. \A k \in DOMAIN history : IsOutput(history[k]) => history[k].id # c
  BY <1>1 DEF IInv, HistoryInv, AnsweredIsDone
<1>9. AnsweredBefore'
  BY <1>3, <1>6, <1>8 DEF IInv, HistoryInv, AnsweredBefore, IsCallOf, IsToolOutput
<1>10. InOrder'
  BY <1>3, <1>8 DEF IInv, HistoryInv, InOrder, IsCallOf, IsToolOutput
<1>11. \A i \in DOMAIN history' : IsCall(history'[i]) =>
          (history'[i].id = c <=> i = Len(history'))
  BY <1>1, <1>3
<1> QED
  BY <1>3, <1>4, <1>5, <1>7, <1>9, <1>10, <1>11 DEF HistoryInv

\* The recorded call is the last item, if it has an id.
LEMMA RecordCallKeepsInv ==
    ASSUME IInv, NEW c \in Calls, RecordCall(c)
    PROVE  IInv'
<1>1. PICK id \in {c, NoCall} : history' = Append(history, CallItem(Kind(c), id))
  BY DEF RecordCall
<1> DEFINE item == CallItem(Kind(c), id)
<1>2. /\ MayCall(c) /\ calling' = c /\ at' = "spawn" /\ at = "stream" /\ tool[c] = "none"
      /\ UNCHANGED <<now, inFlight, tool, origin, dropped>>
  BY DEF RecordCall, MayCall, toolVars
<1>3. ToolTypeOK'
  <2>1. UNCHANGED <<outcome, cancelled, gateOpen, gateHeard>>
    BY DEF RecordCall, gateVars
  <2> QED
    BY <1>2, <2>1 DEF IInv, ToolTypeOK
<1>4. item \in Items /\ ~IsOutput(item) /\ (IsCall(item) => item.id = c)
  BY <1>1, ItemFacts, CallsAssumption DEF Ids
<1>5. history' = Append(history, item)
  BY <1>1
<1> HIDE DEF item
<1>6. /\ HistoryInv'
      /\ \A i \in DOMAIN history' : IsCall(history'[i]) =>
            (history'[i].id = c <=> i = Len(history'))
  BY <1>2, <1>4, <1>5, AppendCallKeepsItems
<1>7. Spawning'
  BY <1>2, <1>6 DEF Spawning
<1>8. Current'
  BY <1>2 DEF IInv, Current, IsOurs
<1>9. NoToolLeftBehind' /\ ExclusiveRunsAlone'
  BY <1>2 DEF IInv, NoToolLeftBehind, ExclusiveRunsAlone, Busy, Started, SameRequest
<1> QED
  BY <1>3, <1>6, <1>7, <1>8, <1>9 DEF IInv

\* A search that is not done here has no tool either.
LEMMA RecordSearchKeepsInv ==
    ASSUME IInv, NEW c \in Calls, RecordSearch(c)
    PROVE  IInv'
<1>1. PICK id \in {c, NoCall} : history' = Append(history, CallItem("search", id))
  BY DEF RecordSearch
<1> DEFINE item == CallItem("search", id)
<1>2. /\ MayCall(c) /\ at = "stream" /\ tool[c] = "none" /\ Kind(c) = "search"
      /\ UNCHANGED <<at, now, calling, inFlight, dropped>>
      /\ tool' = [tool EXCEPT ![c] = "server"] /\ origin' = [origin EXCEPT ![c] = now]
  BY CallsAssumption DEF RecordSearch, MayCall, Kind, turnVars
<1>3. ToolTypeOK
  BY DEF IInv
<1>4. ToolTypeOK'
  <2>1. UNCHANGED <<outcome, cancelled, gateOpen, gateHeard>>
    BY DEF RecordSearch, turnVars, gateVars
  <2> QED
    BY <1>2, <1>3, <2>1 DEF ToolTypeOK
<1>5. /\ tool'[c] = "server"
      /\ \A d \in Calls : d # c => tool'[d] = tool[d] /\ origin'[d] = origin[d]
  BY <1>2, <1>3 DEF ToolTypeOK
<1>6. item \in Items /\ ~IsOutput(item) /\ (IsCall(item) => item.id = c)
  BY <1>1, <1>2, ItemFacts, CallsAssumption DEF Ids
<1>7. history' = Append(history, item)
  BY <1>1
<1> HIDE DEF item
<1>8. HistoryInv'
  BY <1>2, <1>5, <1>6, <1>7, AppendCallKeepsItems
<1>9. calling = NoCall
  BY <1>2 DEF IInv, Spawning, ToolTypeOK
<1>10. Spawning'
  BY <1>2, <1>9, CallsAssumption DEF Spawning
<1>11. \A d \in Calls : IsOurs(d) => d # c /\ IsOurs(d)'
  BY <1>2, <1>5 DEF IsOurs
<1>12. Current'
  BY <1>2, <1>3, <1>5, <1>11 DEF IInv, Current, ToolTypeOK
<1>13. NoToolLeftBehind'
  BY <1>2, <1>5 DEF IInv, NoToolLeftBehind, Busy
<1>14. ExclusiveRunsAlone'
  BY <1>2, <1>5 DEF IInv, ExclusiveRunsAlone, Started, SameRequest
<1> QED
  BY <1>4, <1>8, <1>10, <1>12, <1>13, <1>14 DEF IInv

\* The tool that is started belongs to the last item, so it is waited for last.
LEMMA SpawnToolKeepsInv ==
    ASSUME IInv, SpawnTool
    PROVE  IInv'
<1>1. /\ at = "spawn" /\ at' = "stream" /\ calling' = NoCall /\ inFlight' = Append(inFlight, calling)
      /\ tool' = [tool EXCEPT ![calling] = "queued"] /\ origin' = [origin EXCEPT ![calling] = now]
      /\ UNCHANGED <<now, history, dropped>>
  BY DEF SpawnTool, itemVars
<1>2. /\ calling \in Calls /\ tool[calling] = "none" /\ calling \notin dropped
      /\ \A i \in DOMAIN history : IsCall(history[i]) =>
            (history[i].id = calling <=> i = Len(history))
      /\ history \in Seq(Items) /\ inFlight \in Seq(Calls) /\ ToolTypeOK
  BY <1>1 DEF IInv, Spawning, Current, HistoryInv, ToolTypeOK, IsOurs
<1>3. ToolTypeOK'
  BY <1>1, <1>2 DEF SpawnTool, ToolTypeOK, gateVars, itemVars
<1>4. /\ inFlight' \in Seq(Calls) /\ Len(inFlight) \in Nat
      /\ DOMAIN inFlight = 1..Len(inFlight) /\ DOMAIN inFlight' = 1..(Len(inFlight) + 1)
      /\ \A m \in DOMAIN inFlight : inFlight'[m] = inFlight[m]
      /\ inFlight'[Len(inFlight) + 1] = calling
  BY <1>1, <1>2, AppendFacts
<1>5. /\ tool'[calling] = "queued" /\ origin'[calling] = now
      /\ \A d \in Calls : d # calling => tool'[d] = tool[d] /\ origin'[d] = origin[d]
  BY <1>1, <1>2 DEF ToolTypeOK
<1>6. \A m \in DOMAIN inFlight : inFlight[m] \in Calls /\ inFlight[m] # calling
  BY <1>2 DEF IInv, Current, IsOurs
<1>7. Spawning'
  BY <1>1, CallsAssumption DEF Spawning
<1>8. Current'
  BY <1>1, <1>2, <1>4, <1>5, <1>6 DEF IInv, Current, ToolTypeOK, IsOurs
<1>9. OneItemPerCall' /\ InOrder'
  BY <1>1 DEF IInv, HistoryInv, OneItemPerCall, InOrder
<1>10. AnsweredIsDone'
  BY <1>1, <1>2, <1>4, <1>5 DEF IInv, HistoryInv, AnsweredIsDone
<1>11. DOMAIN history = 1..Len(history) /\ Len(history) \in Nat
  BY <1>2
<1>12. \A j \in DOMAIN history : IsCallOf(history[j], calling) => j = Len(history)
  BY <1>2 DEF IsCallOf
<1>13. \A i \in DOMAIN history, d \in Calls : IsCallOf(history[i], d) /\ d # calling => i < Len(history)
  BY <1>2, <1>11 DEF IsCallOf
<1>14. WaitsInOrder'
  BY <1>1, <1>4, <1>6, <1>11, <1>12, <1>13 DEF IInv, HistoryInv, WaitsInOrder
<1>15. \A k, i \in DOMAIN history :
          IsToolOutput(history[k]) /\ IsCallOf(history[i], history[k].id) => i < Len(history)
  <2> SUFFICES ASSUME NEW k \in DOMAIN history, NEW i \in DOMAIN history,
                      IsToolOutput(history[k]), IsCallOf(history[i], history[k].id)
               PROVE  i < Len(history)
    OBVIOUS
  <2>1. history[k].id \in Calls
    BY <1>2, ItemFacts DEF IsCallOf
  <2> QED
    BY <1>2, <1>13, <2>1 DEF IInv, HistoryInv, AnsweredIsDone, IsToolOutput
<1>16. AnsweredBefore'
  BY <1>1, <1>4, <1>12, <1>15 DEF IInv, HistoryInv, AnsweredBefore
<1>17. NoToolLeftBehind'
  BY <1>1, <1>4, <1>5 DEF IInv, NoToolLeftBehind, Busy, ToSet
<1>18. ExclusiveRunsAlone'
  BY <1>1, <1>2, <1>5 DEF IInv, ExclusiveRunsAlone, Started, SameRequest
<1> QED
  BY <1>1, <1>2, <1>3, <1>7, <1>8, <1>9, <1>10, <1>14, <1>16, <1>17, <1>18 DEF IInv, HistoryInv

\* An item that is neither a call nor what a tool put out for one changes nothing.
LEMMA AppendOtherKeepsItems ==
    ASSUME IInv, NEW item \in Items, history' = Append(history, item), ~IsCall(item),
           IsToolOutput(item) => item.id = NoCall,
           IsOutput(item) /\ item.id \in Calls =>
              tool'[item.id] # "none" /\ \A m \in DOMAIN inFlight : inFlight[m] # item.id,
           UNCHANGED inFlight,
           \A c \in Calls : tool[c] # "none" => tool'[c] # "none"
    PROVE  HistoryInv'
<1>1. history \in Seq(Items)
  BY DEF IInv, HistoryInv
<1>2. /\ history' \in Seq(Items) /\ Len(history) \in Nat
      /\ DOMAIN history = 1..Len(history) /\ DOMAIN history' = 1..(Len(history) + 1)
      /\ \A i \in DOMAIN history : history'[i] = history[i]
      /\ history'[Len(history) + 1] = item
  BY <1>1, AppendFacts
<1>3. \A i \in DOMAIN history : ~IsCallOf(history[i], NoCall)
  BY <1>1, ItemFacts
<1>4. OneItemPerCall'
  BY <1>2 DEF IInv, HistoryInv, OneItemPerCall
<1>5. AnsweredIsDone'
  BY <1>2 DEF IInv, HistoryInv, AnsweredIsDone
<1>6. WaitsInOrder'
  BY <1>2 DEF IInv, HistoryInv, WaitsInOrder, IsCallOf
<1>7. AnsweredBefore'
  BY <1>2, <1>3 DEF IInv, HistoryInv, AnsweredBefore, IsCallOf
<1>8. InOrder'
  BY <1>2, <1>3 DEF IInv, HistoryInv, InOrder, IsCallOf
<1> QED
  BY <1>2, <1>4, <1>5, <1>6, <1>7, <1>8 DEF HistoryInv

\* A call that is answered directly has no tool.
LEMMA AnswerDirectlyKeepsInv ==
    ASSUME IInv, AnswerDirectly
    PROVE  IInv'
<1> DEFINE item == OutputItem("function", NoCall)
<1>1. /\ at = "spawn" /\ at' = "stream" /\ calling' = NoCall /\ history' = Append(history, item)
      /\ tool' = [tool EXCEPT ![calling] = "gone"]
      /\ UNCHANGED <<now, inFlight, origin, dropped>>
  BY DEF AnswerDirectly
<1>2. calling \in Calls /\ ToolTypeOK
  BY <1>1 DEF IInv, Spawning
<1>3. ToolTypeOK'
  BY <1>1, <1>2 DEF AnswerDirectly, ToolTypeOK, gateVars
<1>4. tool'[calling] = "gone" /\ \A d \in Calls : d # calling => tool'[d] = tool[d]
  BY <1>1, <1>2 DEF ToolTypeOK
<1>5. item \in Items /\ ~IsCall(item) /\ item.id = NoCall
  BY ItemFacts
<1> HIDE DEF item
<1>6. HistoryInv'
  BY <1>1, <1>4, <1>5, CallsAssumption, AppendOtherKeepsItems
<1>7. Spawning'
  BY <1>1, CallsAssumption DEF Spawning
<1>8. Current'
  BY <1>1, <1>2, <1>4 DEF IInv, Current, ToolTypeOK, IsOurs
<1>9. NoToolLeftBehind'
  BY <1>1, <1>4 DEF IInv, NoToolLeftBehind, Busy
<1>10. ExclusiveRunsAlone'
  BY <1>1, <1>4 DEF IInv, ExclusiveRunsAlone, Started, SameRequest
<1> QED
  BY <1>3, <1>6, <1>7, <1>8, <1>9, <1>10 DEF IInv

\* What the server puts out is for a call that no tool of ours is started for.
LEMMA RecordServerOutputKeepsInv ==
    ASSUME IInv, NEW c \in Calls, RecordServerOutput(c)
    PROVE  IInv'
<1>1. PICK id \in {c, NoCall} : history' = Append(history, ServerOutput(id))
  BY DEF RecordServerOutput
<1> DEFINE item == ServerOutput(id)
<1>2. /\ at = "stream" /\ tool[c] = "server" /\ tool' = [tool EXCEPT ![c] = "gone"]
      /\ UNCHANGED <<at, now, calling, inFlight, origin, dropped>>
  BY DEF RecordServerOutput, turnVars
<1>3. ToolTypeOK
  BY DEF IInv
<1>4. ToolTypeOK'
  <2>1. UNCHANGED <<outcome, cancelled, gateOpen, gateHeard>>
    BY DEF RecordServerOutput, turnVars, gateVars
  <2> QED
    BY <1>2, <1>3, <2>1 DEF ToolTypeOK
<1>5. tool'[c] = "gone" /\ \A d \in Calls : d # c => tool'[d] = tool[d]
  BY <1>2, <1>3 DEF ToolTypeOK
<1>6. item \in Items /\ ~IsToolOutput(item) /\ ~IsCall(item) /\ item.id = id
  BY <1>1, ItemFacts DEF Ids
<1>7. history' = Append(history, item)
  BY <1>1
<1> HIDE DEF item
<1>8. \A m \in DOMAIN inFlight : inFlight[m] # c
  BY <1>2 DEF IInv, Current, IsOurs
<1>9. HistoryInv'
  BY <1>2, <1>5, <1>6, <1>7, <1>8, CallsAssumption, AppendOtherKeepsItems
<1>10. calling = NoCall
  BY <1>2 DEF IInv, Spawning, ToolTypeOK
<1>11. Spawning'
  BY <1>2, <1>10, CallsAssumption DEF Spawning
<1>12. Current'
  BY <1>2, <1>3, <1>5 DEF IInv, Current, ToolTypeOK, IsOurs
<1>13. NoToolLeftBehind'
  BY <1>2, <1>5 DEF IInv, NoToolLeftBehind, Busy
<1>14. ExclusiveRunsAlone'
  BY <1>2, <1>5 DEF IInv, ExclusiveRunsAlone, Started, SameRequest
<1> QED
  BY <1>4, <1>9, <1>11, <1>12, <1>13, <1>14 DEF IInv

\* A turn starts with a message.
LEMMA StartTurnKeepsInv ==
    ASSUME IInv, StartTurn
    PROVE  IInv'
<1>1. /\ at = "over" /\ at' = "build" /\ history' = Append(history, UserMessage)
      /\ UNCHANGED <<calling, inFlight, tool, origin, dropped>>
  BY DEF StartTurn, toolVars
<1>2. inFlight = <<>>
  BY <1>1 DEF IInv, Current
<1>3. now' \in Attempts
  BY NextAttempts DEF StartTurn, IInv, ToolTypeOK
<1>4. ToolTypeOK'
  BY <1>3 DEF StartTurn, IInv, ToolTypeOK, toolVars
<1>5. HistoryInv'
  BY <1>1, ItemFacts, AppendOtherKeepsItems DEF IsToolOutput
<1>6. Spawning'
  BY <1>1 DEF IInv, Spawning
<1>7. Current'
  BY <1>1, <1>2 DEF IInv, Current, IsOurs
<1>8. NoToolLeftBehind' /\ ExclusiveRunsAlone'
  BY <1>1 DEF IInv, NoToolLeftBehind, ExclusiveRunsAlone, Busy, Started, SameRequest
<1> QED
  BY <1>4, <1>5, <1>6, <1>7, <1>8 DEF IInv

\* A prefix of the history has what the whole had, and no tool is waited for.
LEMMA RollbackKeepsInv ==
    ASSUME IInv, NEW n, Rollback(n)
    PROVE  IInv'
<1>1. /\ at = "over" /\ history' = DropLastNUserTurns(history, n)
      /\ UNCHANGED <<at, now, calling, inFlight, tool, origin, dropped>>
  BY DEF Rollback, turnVars, toolVars
<1>2. /\ history' \in Seq(Items) /\ DOMAIN history' \subseteq DOMAIN history
      /\ \A i \in DOMAIN history' : history'[i] = history[i]
  BY <1>1, RollbackLeavesPrefix DEF IInv, HistoryInv
<1>3. ToolTypeOK'
  BY DEF Rollback, IInv, ToolTypeOK, turnVars, gateVars, toolVars
<1>4. Spawning'
  BY <1>1 DEF IInv, Spawning
<1>5. OneItemPerCall' /\ AnsweredIsDone'
  BY <1>1, <1>2 DEF IInv, HistoryInv, OneItemPerCall, AnsweredIsDone
<1>6. WaitsInOrder' /\ AnsweredBefore'
  BY <1>1 DEF IInv, Current, WaitsInOrder, AnsweredBefore
<1>7. InOrder'
  BY <1>2 DEF IInv, HistoryInv, InOrder
<1>8. Current' /\ NoToolLeftBehind' /\ ExclusiveRunsAlone'
  BY <1>1 DEF IInv, Current, IsOurs, NoToolLeftBehind, ExclusiveRunsAlone, Busy, Started, SameRequest
<1> QED
  BY <1>2, <1>3, <1>4, <1>5, <1>6, <1>7, <1>8 DEF IInv, HistoryInv

\* What is drained has its call behind those of all outputs and before those of
\* all that is still waited for.
LEMMA DrainNextKeepsInv ==
    ASSUME IInv, DrainNext
    PROVE  IInv'
<1> DEFINE c == Head(inFlight)
           item == OutputItem(Kind(c), c)
<1>1. /\ at = "drain" /\ inFlight # <<>> /\ tool[c] \in {"result", "fatal"}
      /\ history' = history \/ history' = Append(history, item)
      /\ inFlight' = Tail(inFlight)
      /\ UNCHANGED <<at, now, calling, tool, origin, dropped>>
  BY DEF DrainNext, turnVars, toolVars
<1>2. history \in Seq(Items) /\ inFlight \in Seq(Calls)
  BY DEF IInv, HistoryInv, ToolTypeOK
<1>3. /\ inFlight' \in Seq(Calls) /\ c \in Calls /\ c = inFlight[1] /\ 1 \in DOMAIN inFlight
      /\ DOMAIN inFlight \subseteq Nat /\ DOMAIN inFlight' \subseteq Nat
      /\ \A m \in DOMAIN inFlight' :
            m >= 1 /\ m + 1 \in DOMAIN inFlight /\ inFlight'[m] = inFlight[m + 1]
      /\ \A m \in DOMAIN inFlight :
            m = 1 \/ (m - 1 \in DOMAIN inFlight' /\ inFlight'[m - 1] = inFlight[m])
  BY <1>1, <1>2, TailFacts
<1>4. item \in Items /\ IsOutput(item) /\ ~IsCall(item) /\ item.id = c
  BY <1>3, ItemFacts
<1> HIDE DEF c, item
<1>5. ToolTypeOK'
  BY <1>3 DEF DrainNext, IInv, ToolTypeOK, turnVars, gateVars, toolVars
<1>6. Spawning'
  BY <1>1 DEF IInv, Spawning
<1>7. Current'
  BY <1>1, <1>3 DEF IInv, Current, IsOurs
<1>8. \A m \in DOMAIN inFlight' : inFlight'[m] # c
  BY <1>3 DEF IInv, Current
<1>9. NoToolLeftBehind'
  <2> SUFFICES ASSUME NEW d \in Busy, d \notin dropped
               PROVE  d \in ToSet(inFlight')
    BY <1>1 DEF NoToolLeftBehind, Busy
  <2>1. PICK m \in DOMAIN inFlight : inFlight[m] = d
    BY DEF IInv, NoToolLeftBehind, ToSet
  <2>2. m # 1
    BY <1>1, <1>3, <2>1 DEF Busy
  <2> QED
    BY <1>3, <2>1, <2>2 DEF ToSet
<1>10. ExclusiveRunsAlone'
  BY <1>1 DEF IInv, ExclusiveRunsAlone, Started, SameRequest
<1>11. \A m, n \in DOMAIN inFlight' : m < n =>
          \A i, j \in DOMAIN history :
              IsCallOf(history[i], inFlight'[m]) /\ IsCallOf(history[j], inFlight'[n]) => i < j
  <2> SUFFICES ASSUME NEW m \in DOMAIN inFlight', NEW n \in DOMAIN inFlight', m < n
               PROVE  \A i, j \in DOMAIN history :
                 IsCallOf(history[i], inFlight'[m]) /\ IsCallOf(history[j], inFlight'[n]) => i < j
    OBVIOUS
  <2>1. /\ m + 1 \in DOMAIN inFlight /\ inFlight'[m] = inFlight[m + 1]
        /\ n + 1 \in DOMAIN inFlight /\ inFlight'[n] = inFlight[n + 1]
        /\ m + 1 < n + 1
    BY <1>3
  <2> QED
    BY <2>1 DEF IInv, HistoryInv, WaitsInOrder
<1>12. CASE history' = history
  <2>1. OneItemPerCall' /\ InOrder'
    BY <1>12 DEF IInv, HistoryInv, OneItemPerCall, InOrder
  <2>2. AnsweredIsDone'
    BY <1>1, <1>3, <1>12 DEF IInv, HistoryInv, AnsweredIsDone
  <2>3. WaitsInOrder'
    BY <1>12, <1>11 DEF WaitsInOrder
  <2>4. AnsweredBefore'
    BY <1>3, <1>12 DEF IInv, HistoryInv, AnsweredBefore
  <2> QED
    BY <1>2, <1>5, <1>6, <1>7, <1>9, <1>10, <1>12, <2>1, <2>2, <2>3, <2>4
    DEF IInv, HistoryInv
<1>13. CASE history' = Append(history, item)
  <2>1. /\ history' \in Seq(Items) /\ Len(history) \in Nat
        /\ DOMAIN history = 1..Len(history) /\ DOMAIN history' = 1..(Len(history) + 1)
        /\ \A i \in DOMAIN history : history'[i] = history[i]
        /\ history'[Len(history) + 1] = item
    BY <1>2, <1>4, <1>13, AppendFacts
  <2>2. OneItemPerCall'
    BY <1>4, <2>1 DEF IInv, HistoryInv, OneItemPerCall
  <2>3. AnsweredIsDone'
    BY <1>1, <1>3, <1>4, <1>8, <2>1 DEF IInv, HistoryInv, AnsweredIsDone
  <2>4. \A i \in DOMAIN history' : \A d : IsCallOf(history'[i], d) =>
            i \in DOMAIN history /\ IsCallOf(history[i], d)
    BY <1>4, <2>1 DEF IsCallOf
  <2>5. WaitsInOrder'
    BY <1>11, <2>4 DEF WaitsInOrder
  <2>6. AnsweredBefore'
    <3> SUFFICES ASSUME NEW k \in DOMAIN history', NEW i \in DOMAIN history',
                        NEW j \in DOMAIN history', NEW m \in DOMAIN inFlight',
                        IsToolOutput(history'[k]), IsCallOf(history'[i], history'[k].id),
                        IsCallOf(history'[j], inFlight'[m])
                 PROVE  i < j
      BY DEF AnsweredBefore
    <3>1. /\ m + 1 \in DOMAIN inFlight /\ 1 < m + 1
          /\ i \in DOMAIN history /\ IsCallOf(history[i], history'[k].id)
          /\ j \in DOMAIN history /\ IsCallOf(history[j], inFlight[m + 1])
      BY <1>3, <2>4
    <3>2. CASE k \in DOMAIN history
      BY <2>1, <3>1, <3>2 DEF IInv, HistoryInv, AnsweredBefore
    <3>3. CASE k = Len(history) + 1
      BY <1>3, <1>4, <2>1, <3>1, <3>3 DEF IInv, HistoryInv, WaitsInOrder
    <3> QED
      BY <2>1, <3>2, <3>3
  <2>7. InOrder'
    <3> SUFFICES ASSUME NEW k \in DOMAIN history', NEW l \in DOMAIN history',
                        NEW i \in DOMAIN history', NEW j \in DOMAIN history', k < l,
                        IsToolOutput(history'[k]), IsToolOutput(history'[l]),
                        IsCallOf(history'[i], history'[k].id), IsCallOf(history'[j], history'[l].id)
                 PROVE  i < j
      BY DEF InOrder
    <3>1. /\ k \in DOMAIN history /\ history'[k] = history[k]
          /\ i \in DOMAIN history /\ IsCallOf(history[i], history[k].id)
          /\ j \in DOMAIN history /\ IsCallOf(history[j], history'[l].id)
      BY <2>1, <2>4
    <3>2. CASE l \in DOMAIN history
      BY <2>1, <3>1, <3>2 DEF IInv, HistoryInv, InOrder
    <3>3. CASE l = Len(history) + 1
      BY <1>3, <1>4, <2>1, <3>1, <3>3 DEF IInv, HistoryInv, AnsweredBefore
    <3> QED
      BY <2>1, <3>2, <3>3
  <2> QED
    BY <1>5, <1>6, <1>7, <1>9, <1>10, <2>1, <2>2, <2>3, <2>5, <2>6, <2>7 DEF IInv, HistoryInv
<1> QED
  BY <1>1, <1>12, <1>13

\* So do stutterings.
LEMMA StutterKeepsInv ==
    ASSUME IInv, UNCHANGED vars
    PROVE  IInv'
<1>1. UNCHANGED <<at, now, outcome, cancelled, gateOpen, gateHeard, history, calling, inFlight,
                  tool, origin, dropped>>
  BY DEF vars, turnVars, gateVars, itemVars, toolVars
<1>2. ToolTypeOK' /\ Spawning' /\ Current'
  BY <1>1 DEF IInv, ToolTypeOK, Spawning, Current, IsOurs
<1>3. HistoryInv'
  BY <1>1 DEF IInv, HistoryInv, OneItemPerCall, AnsweredIsDone, WaitsInOrder,
     AnsweredBefore, InOrder
<1>4. NoToolLeftBehind' /\ ExclusiveRunsAlone'
  BY <1>1 DEF IInv, NoToolLeftBehind, ExclusiveRunsAlone, Busy, Started, SameRequest
<1> QED
  BY <1>2, <1>3, <1>4 DEF IInv

\* Every step keeps the invariant.
LEMMA NextKeepsInv ==
    ASSUME IInv, [Next]_vars
    PROVE  IInv'
<1>1. CASE QuietStep
  BY <1>1, QuietStepKeepsInv
<1>2. CASE SpawnTool \/ AnswerDirectly \/ DrainNext
  BY <1>2, SpawnToolKeepsInv, AnswerDirectlyKeepsInv, DrainNextKeepsInv
<1>3. CASE StreamFails \/ AbortTask \/ StartTurn
  BY <1>3, StreamFailsKeepsInv, AbortTaskKeepsInv, StartTurnKeepsInv
<1>4. CASE \E c \in Calls : RecordCall(c) \/ RecordSearch(c) \/ RecordServerOutput(c)
  BY <1>4, RecordCallKeepsInv, RecordSearchKeepsInv, RecordServerOutputKeepsInv
<1>5. CASE \E c \in Calls : ToolGoesOn(c)
  BY <1>5, ToolStepKeepsInv
<1>6. CASE \E n \in 1..MaxTurns : Rollback(n)
  BY <1>6, RollbackKeepsInv
<1>7. CASE UNCHANGED vars
  BY <1>7, StutterKeepsInv
<1> QED
  BY <1>1, <1>2, <1>3, <1>4, <1>5, <1>6, <1>7 DEF Next, TurnGoesOn, QuietStep

\* A new or resumed thread has it: at most one call, and no output of a call.
LEMMA InitHasInv == Init => IInv
<1> SUFFICES ASSUME Init PROVE IInv
  OBVIOUS
<1>1. /\ calling = NoCall /\ inFlight = <<>> /\ dropped = {} /\ tool = [c \in Calls |-> "none"]
      /\ at = "build"
  BY DEF Init
<1>2. now \in Attempts
  BY BoundsAssumption DEF Init, Attempts
<1>3. ToolTypeOK
  <2>1. origin \in [Calls -> Attempts]
    BY <1>2 DEF Init
  <2>2. outcome = "completed" /\ cancelled = FALSE /\ gateOpen = FALSE /\ gateHeard = FALSE
    BY DEF Init
  <2>3. inFlight \in Seq(Calls) /\ dropped \subseteq Calls
    BY <1>1
  <2>4. tool \in [Calls ->
          {"none", "server", "queued", "gate", "listening", "running", "result", "fatal", "gone"}]
    BY <1>1
  <2> QED
    BY <1>1, <1>2, <2>1, <2>2, <2>3, <2>4 DEF ToolTypeOK
<1>4. Spawning /\ Current /\ NoToolLeftBehind /\ ExclusiveRunsAlone
  BY <1>1, CallsAssumption DEF Spawning, Current, NoToolLeftBehind, ExclusiveRunsAlone, Busy, Started
<1>5. /\ history \in Seq(Items)
      /\ \A k \in DOMAIN history : IsOutput(history[k]) => history[k].id = NoCall
      /\ \A i, j \in DOMAIN history : IsCall(history[i]) /\ IsCall(history[j]) => i = j
  <2>1. CASE history = <<UserMessage>>
    BY <2>1, ItemFacts
  <2>2. ASSUME NEW c \in Calls,
               history = <<UserMessage, ServerOutput(NoCall), CallItem(Kind(c), c), UserMessage>>
        PROVE  <1>5!1 /\ <1>5!2 /\ <1>5!3
    <3> DEFINE call == CallItem(Kind(c), c)
               output == ServerOutput(NoCall)
    <3>1. call \in Items /\ ~IsOutput(call)
      BY ItemFacts DEF Ids
    <3>2. output \in Items /\ ~IsCall(output) /\ output.id = NoCall
      BY ItemFacts DEF Ids
    <3> HIDE DEF call, output
    <3>3. /\ history \in Seq(Items) /\ DOMAIN history = 1..4
          /\ history[1] = UserMessage /\ history[2] = output
          /\ history[3] = call /\ history[4] = UserMessage
      BY <2>2, <3>1, <3>2, ItemFacts DEF call, output
    <3> QED
      BY <3>1, <3>2, <3>3, ItemFacts
  <2> QED
    BY <2>1, <2>2 DEF Init
<1>6. HistoryInv
  <2>1. \A i \in DOMAIN history : ~IsCallOf(history[i], NoCall)
    BY <1>5, ItemFacts
  <2>2. OneItemPerCall /\ AnsweredIsDone /\ WaitsInOrder /\ AnsweredBefore
    BY <1>1, <1>5, CallsAssumption DEF OneItemPerCall, AnsweredIsDone, WaitsInOrder, AnsweredBefore
  <2>3. InOrder
    BY <1>5, <2>1 DEF InOrder, IsToolOutput
  <2> QED
    BY <1>5, <2>2, <2>3 DEF HistoryInv
<1> QED
  BY <1>3, <1>4, <1>6 DEF IInv

\* The invariant, of which the properties below are parts.
THEOREM InvariantHolds == Spec => []IInv
<1>1. IInv /\ [Next]_vars => IInv'
  BY NextKeepsInv
<1> QED
  BY InitHasInv, <1>1, PTL DEF Spec

-----------------------------------------------------------------------------
(* What follows *)

\* The variables keep their types, and the attempts their bounds.
THEOREM TypeCorrect == Spec => []ToolTypeOK
<1>1. IInv => ToolTypeOK
  BY DEF IInv
<1> QED
  BY <1>1, InvariantHolds, PTL

\* drain_in_flight: what tools put out is recorded in the order of their calls, however
\* many run side by side, end early, fail or are given up.
THEOREM OutputsComeInCallOrder == Spec => []OutputsInCallOrder
<1>1. IInv => OutputsInCallOrder
  <2>1. \A o, c : Answers(o, c) => IsOutput(o) /\ IsCallOf(c, o.id)
    BY DEF Answers, IsCallOf
  <2> QED
    BY <2>1 DEF IInv, HistoryInv, InOrder, OutputsInCallOrder
<1> QED
  BY <1>1, InvariantHolds, PTL

\* parallel_execution: a tool that is not parallel works alone, also beside the
\* dropped tools of a broken stream.
THEOREM ExclusiveToolsRunAlone == Spec => []ExclusiveRunsAlone
<1>1. IInv => ExclusiveRunsAlone
  BY DEF IInv
<1> QED
  BY <1>1, InvariantHolds, PTL

\* AbortOnDropHandle: no tool works on that nobody waits for and nobody dropped.
THEOREM NoToolIsForgotten == Spec => []NoToolLeftBehind
<1>1. IInv => NoToolLeftBehind
  BY DEF IInv
<1> QED
  BY <1>1, InvariantHolds, PTL

-----------------------------------------------------------------------------
(* Recursion and induction on numbers, as facts about sets: the induction   *)
(* theorems of the library take an operator, and no prover here finds it.   *)

\* A set that has 0 and, with a number below n, the next has all up to n: it has
\* no smallest number missing.
LEMMA SetInduction ==
    ASSUME NEW n \in Nat, NEW T, 0 \in T, \A m \in 0..(n - 1) : m \in T => m + 1 \in T
    PROVE  \A m \in 0..n : m \in T
<1> DEFINE missing == {m \in 0..n : m \notin T}
           less == OpToRel(<, Nat)
<1> SUFFICES ASSUME missing # {} PROVE FALSE
  OBVIOUS
<1>1. \A a, b \in Nat : <<a, b>> \in less <=> a < b
  BY DEF OpToRel
<1>2. missing \subseteq Nat
  OBVIOUS
<1>3. IsWellFoundedOn(less, Nat)
  BY NatLessThanWellFounded
<1> HIDE DEF less
<1>4. PICK a \in missing : \A b \in missing : <<b, a>> \notin less
  <2> HIDE DEF missing
  <2> QED
    BY <1>2, <1>3, WFMin
<1>5. a \in Nat /\ a # 0 /\ a <= n /\ a \notin T
  OBVIOUS
<1>6. a - 1 \in Nat /\ a - 1 \in 0..(n - 1) /\ a - 1 < a
  BY <1>5
<1>7. a - 1 \notin missing
  BY <1>1, <1>4, <1>5, <1>6
<1>8. a - 1 \in T
  BY <1>6, <1>7
<1>9. (a - 1) + 1 \in T
  BY <1>6, <1>8
<1> QED
  BY <1>5, <1>9

\* f begins with base and goes on by Step.
IsRecursion(n, base, Step, f) == f[0] = base /\ \A m \in 1..n : f[m] = Step[m][f[m - 1]]

\* There is such a function.
LEMMA RecursionExists ==
    ASSUME NEW n \in Nat, NEW R, NEW base \in R, NEW Step \in [1..n -> [R -> R]]
    PROVE  \E f \in [0..n -> R] : IsRecursion(n, base, Step, f)
<1> DEFINE Upto(m, f) == f[0] = base /\ \A k \in 1..m : f[k] = Step[k][f[k - 1]]
           T == {m \in 0..n : \E f \in [0..m -> R] : Upto(m, f)}
<1>1. 0 \in T
  <2> DEFINE f == [k \in 0..0 |-> base]
  <2>1. f \in [0..0 -> R] /\ f[0] = base /\ 1..0 = {}
    OBVIOUS
  <2> HIDE DEF f
  <2>2. Upto(0, f)
    BY <2>1
  <2> QED
    BY <2>1, <2>2
<1>2. ASSUME NEW m \in 0..(n - 1), m \in T
      PROVE  m + 1 \in T
  <2>1. PICK f \in [0..m -> R] : Upto(m, f)
    BY <1>2
  <2> DEFINE g == [k \in 0..(m + 1) |-> IF k <= m THEN f[k] ELSE Step[k][f[k - 1]]]
  <2>2. m + 1 \in 1..n /\ m \in Nat /\ m + 1 \in 0..n
    OBVIOUS
  <2>3. Step[m + 1] \in [R -> R] /\ f[m] \in R
    BY <2>2
  <2>4. \A k \in 0..(m + 1) : g[k] = IF k <= m THEN f[k] ELSE Step[k][f[k - 1]]
    OBVIOUS
  <2>5. g \in [0..(m + 1) -> R]
    <3> SUFFICES ASSUME NEW k \in 0..(m + 1)
                 PROVE  (IF k <= m THEN f[k] ELSE Step[k][f[k - 1]]) \in R
      OBVIOUS
    <3>1. CASE k <= m
      BY <3>1
    <3>2. CASE k = m + 1
      <4>1. k - 1 = m /\ ~(k <= m)
        BY <2>2, <3>2
      <4>2. Step[k][f[k - 1]] \in R
        BY <2>3, <3>2, <4>1
      <4> QED
        BY <4>1, <4>2
    <3> QED
      BY <2>2, <3>1, <3>2
  <2> HIDE DEF g
  <2>6. g[0] = base
    BY <2>1, <2>2, <2>4
  <2>7. ASSUME NEW k \in 1..(m + 1)
        PROVE  g[k] = Step[k][g[k - 1]]
    <3>1. g[k - 1] = f[k - 1]
      BY <2>2, <2>4
    <3>2. CASE k <= m
      BY <2>1, <2>4, <3>1, <3>2
    <3>3. CASE k = m + 1
      BY <2>2, <2>4, <3>1, <3>3
    <3> QED
      BY <2>2, <3>2, <3>3
  <2> QED
    BY <2>2, <2>5, <2>6, <2>7
<1>3. n \in T
  <2> HIDE DEF T
  <2>1. \A m \in 0..n : m \in T
    BY <1>1, <1>2, SetInduction
  <2> QED
    BY <2>1
<1> QED
  BY <1>3 DEF IsRecursion

-----------------------------------------------------------------------------
(* What for_prompt makes of a history *)

\* new is seq with item put before its place i.
Inserts(new, seq, i, item) ==
    /\ Len(new) = Len(seq) + 1
    /\ \A j \in 1..(i - 1) : new[j] = seq[j]
    /\ new[i] = item
    /\ \A j \in i..Len(seq) : new[j + 1] = seq[j]

\* An insertion leaves what precedes it and shifts the rest by one.
LEMMA InsertAtFacts ==
    ASSUME NEW S, NEW seq \in Seq(S), NEW i \in 1..(Len(seq) + 1), NEW item \in S
    PROVE  InsertAt(seq, i, item) \in Seq(S) /\ Inserts(InsertAt(seq, i, item), seq, i, item)
<1> DEFINE front == SubSeq(seq, 1, i - 1)
           back == SubSeq(seq, i, Len(seq))
           one == <<item>>
           mid == front \o one
<1>1. Len(seq) \in Nat /\ i \in Nat /\ i >= 1 /\ i <= Len(seq) + 1 /\ \A j \in 1..Len(seq) : seq[j] \in S
  OBVIOUS
<1>2. /\ front \in Seq(S) /\ Len(front) = i - 1
      /\ \A j \in 1..(i - 1) : front[j] = seq[j]
  <2>1. \A j \in 1..(i - 1) : seq[j] \in S
    BY <1>1
  <2> QED
    BY <1>1, <2>1, SubSeqProperties
<1>3. /\ back \in Seq(S) /\ Len(back) = Len(seq) - i + 1
      /\ \A j \in 1..(Len(seq) - i + 1) : back[j] = seq[i + j - 1]
  <2>1. \A j \in i..Len(seq) : seq[j] \in S
    BY <1>1
  <2> QED
    BY <1>1, <2>1, SubSeqProperties
<1>4. one \in Seq(S) /\ Len(one) = 1 /\ one[1] = item
  OBVIOUS
<1>5. InsertAt(seq, i, item) = mid \o back
  BY DEF InsertAt
<1> HIDE DEF front, back, one
<1>6. /\ mid \in Seq(S) /\ Len(mid) = i
      /\ \A j \in 1..(i - 1) : mid[j] = front[j]
      /\ mid[i] = item
  <2>1. /\ mid \in Seq(S) /\ Len(mid) = Len(front) + Len(one)
        /\ \A j \in 1..(Len(front) + Len(one)) :
              mid[j] = IF j <= Len(front) THEN front[j] ELSE one[j - Len(front)]
    BY <1>2, <1>4, ConcatProperties
  <2> HIDE DEF mid
  <2> QED
    BY <1>1, <1>2, <1>4, <2>1
<1> HIDE DEF mid
<1>7. /\ mid \o back \in Seq(S) /\ Len(mid \o back) = Len(seq) + 1
      /\ \A j \in 1..i : (mid \o back)[j] = mid[j]
      /\ \A j \in (i + 1)..(Len(seq) + 1) : (mid \o back)[j] = back[j - i]
  BY <1>1, <1>3, <1>6, ConcatProperties
<1>8. ASSUME NEW j \in i..Len(seq)
      PROVE  (mid \o back)[j + 1] = seq[j]
  <2>1. j + 1 \in (i + 1)..(Len(seq) + 1) /\ (j + 1) - i \in 1..(Len(seq) - i + 1)
    BY <1>1
  <2>2. (mid \o back)[j + 1] = back[(j + 1) - i]
    BY <1>7, <2>1
  <2>3. back[(j + 1) - i] = seq[i + ((j + 1) - i) - 1]
    BY <1>3, <2>1
  <2>4. i + ((j + 1) - i) - 1 = j
    BY <1>1
  <2> QED
    BY <2>2, <2>3, <2>4
<1> QED
  BY <1>1, <1>2, <1>5, <1>6, <1>7, <1>8 DEF Inserts

OutputOf(call) == OutputItem(call.kind, call.id)

\* The output of a call answers it, and is no call.
LEMMA OutputOfFacts ==
    /\ \A call : IsCall(call) =>
          Answers(OutputOf(call), call) /\ IsOutput(OutputOf(call)) /\ ~IsCall(OutputOf(call))
    /\ \A item : ~(IsCall(item) /\ IsOutput(item))
    /\ \A output, call : Answers(output, call) => IsOutput(output) /\ IsCall(call)
BY DEF OutputOf, OutputItem, Answers, IsCall, IsOutput

\* The items that a history with outputs for all of its calls is made of.
Closed(S) == \A item \in S : IsCall(item) => OutputOf(item) \in S

\* What InsertOutputs comes to, step by step, when the walk goes back to front.
Inserted(items, f) ==
    /\ f[0] = items
    /\ \A n \in 1..Len(items) :
          LET i == Len(items) + 1 - n IN
          f[n] = IF i \in CallsWithoutOutput(items)
                 THEN InsertAt(f[n - 1], i + 1, OutputOf(items[i])) ELSE f[n - 1]

\* The recursive function that EnsureCallOutputsPresent chooses exists.
LEMMA InsertOutputsSteps ==
    ASSUME NEW S, Closed(S), NEW items \in Seq(S)
    PROVE  \E f : /\ \A n \in 0..Len(items) : f[n] \in Seq(S) /\ Len(f[n]) >= Len(items)
                  /\ Inserted(items, f)
                  /\ EnsureCallOutputsPresent(items) = f[Len(items)]
<1> DEFINE n == Len(items)
           walk == [m \in DOMAIN items |-> Len(items) + 1 - m]
           missing == CallsWithoutOutput(items)
           R == {seq \in Seq(S) : Len(seq) >= n}
           Put(m, seq) == IF walk[m] \notin missing THEN seq
                          ELSE InsertAt(seq, walk[m] + 1,
                                        OutputItem(items[walk[m]].kind, items[walk[m]].id))
           Step == [m \in 1..n |-> [seq \in R |-> Put(m, seq)]]
           Is(f) == f = [m \in 0..n |-> IF m = 0 THEN items
                         ELSE IF walk[m] \notin missing THEN f[m - 1]
                         ELSE InsertAt(f[m - 1], walk[m] + 1,
                                       OutputItem(items[walk[m]].kind, items[walk[m]].id))]
           chosen == CHOOSE f : Is(f)
<1>1. n \in Nat /\ DOMAIN items = 1..n /\ items \in R
  OBVIOUS
<1>2. \A m \in 1..n : walk[m] = n + 1 - m /\ walk[m] \in 1..n
  BY <1>1
<1>3. ASSUME NEW m \in 1..n, NEW seq \in R
      PROVE  /\ Put(m, seq) \in R
             /\ Put(m, seq) = IF n + 1 - m \in missing
                              THEN InsertAt(seq, (n + 1 - m) + 1, OutputOf(items[n + 1 - m]))
                              ELSE seq
  <2>1. CASE walk[m] \notin missing
    BY <1>2, <2>1
  <2>2. CASE walk[m] \in missing
    <3>1. IsCall(items[walk[m]]) /\ items[walk[m]] \in S
      BY <1>1, <1>2, <2>2 DEF CallsWithoutOutput
    <3>2. OutputOf(items[walk[m]]) \in S
      BY <3>1 DEF Closed
    <3>3. walk[m] + 1 \in 1..(Len(seq) + 1) /\ Len(seq) \in Nat /\ seq \in Seq(S) /\ Len(seq) >= n
      BY <1>1, <1>2
    <3>4. Put(m, seq) = InsertAt(seq, walk[m] + 1, OutputOf(items[walk[m]]))
      BY <2>2 DEF OutputOf
    <3> HIDE DEF Put, walk
    <3>5. Put(m, seq) \in Seq(S) /\ Len(Put(m, seq)) = Len(seq) + 1
      BY <3>2, <3>3, <3>4, InsertAtFacts DEF Inserts
    <3> QED
      BY <1>1, <1>2, <2>2, <3>3, <3>4, <3>5
  <2> QED
    BY <2>1, <2>2
<1> HIDE DEF Put
<1>4. Step \in [1..n -> [R -> R]] /\ \A m \in 1..n : \A seq \in R : Step[m][seq] = Put(m, seq)
  BY <1>3
<1>5. PICK g \in [0..n -> R] : IsRecursion(n, items, Step, g)
  <2>1. n \in Nat
    BY <1>1
  <2>2. items \in R
    BY <1>1
  <2>3. Step \in [1..n -> [R -> R]]
    BY <1>4
  <2> HIDE DEF Step, R, n
  <2> QED
    BY <2>1, <2>2, <2>3, RecursionExists
<1>6. \A m \in 1..n : g[m - 1] \in R /\ g[m] = Put(m, g[m - 1])
  <2> SUFFICES ASSUME NEW m \in 1..n
               PROVE  g[m - 1] \in R /\ g[m] = Put(m, g[m - 1])
    OBVIOUS
  <2> HIDE DEF R, Step
  <2>1. m - 1 \in 0..n
    BY <1>1
  <2>2. g[m - 1] \in R
    BY <1>5, <2>1
  <2> QED
    BY <1>4, <1>5, <2>2 DEF IsRecursion
<1>7. Is(g)
  <2>1. \A m \in 0..n : g[m] = IF m = 0 THEN items
                         ELSE IF walk[m] \notin missing THEN g[m - 1]
                         ELSE InsertAt(g[m - 1], walk[m] + 1,
                                       OutputItem(items[walk[m]].kind, items[walk[m]].id))
    <3> SUFFICES ASSUME NEW m \in 0..n, m # 0
                 PROVE  g[m] = Put(m, g[m - 1])
      BY <1>5 DEF Put, IsRecursion
    <3> QED
      BY <1>1, <1>6
  <2> HIDE DEF R
  <2> QED
    BY <1>5, <2>1
<1>8. Is(chosen)
  <2> HIDE DEF Is
  <2> QED
    BY <1>7
<1>9. EnsureCallOutputsPresent(items) = chosen[n]
  BY DEF EnsureCallOutputsPresent, InsertOutputs
<1>10. /\ chosen[0] = items
       /\ \A m \in 1..n : chosen[m] = Put(m, chosen[m - 1])
  <2> HIDE DEF chosen
  <2>1. chosen[0] = items
    BY <1>1, <1>8
  <2>2. ASSUME NEW m \in 1..n PROVE chosen[m] = Put(m, chosen[m - 1])
    <3>1. m \in 0..n /\ m # 0
      BY <1>1
    <3>2. chosen[m] = IF m = 0 THEN items
                      ELSE IF walk[m] \notin missing THEN chosen[m - 1]
                      ELSE InsertAt(chosen[m - 1], walk[m] + 1,
                                    OutputItem(items[walk[m]].kind, items[walk[m]].id))
      <4> HIDE DEF walk, missing
      <4> QED
        BY <1>8, <3>1
    <3> QED
      BY <3>1, <3>2 DEF Put
  <2> QED
    BY <2>1, <2>2
<1> HIDE DEF chosen
<1>11. \A m \in 0..n : chosen[m] \in R
  <2> DEFINE T == {m \in 0..n : chosen[m] \in R}
  <2>1. 0 \in T
    BY <1>1, <1>10
  <2>2. ASSUME NEW m \in 0..(n - 1), m \in T PROVE m + 1 \in T
    <3>1. m + 1 \in 1..n /\ m + 1 \in 0..n /\ (m + 1) - 1 = m
      BY <1>1
    <3>2. Put(m + 1, chosen[m]) \in R
      BY <1>3, <2>2, <3>1
    <3> QED
      BY <1>10, <3>1, <3>2
  <2> HIDE DEF T
  <2>3. \A m \in 0..n : m \in T
    BY <1>1, <2>1, <2>2, SetInduction
  <2> QED
    BY <2>3 DEF T
<1>12. Inserted(items, chosen)
  <2> SUFFICES ASSUME NEW m \in 1..n
               PROVE  chosen[m] = IF n + 1 - m \in missing
                 THEN InsertAt(chosen[m - 1], (n + 1 - m) + 1, OutputOf(items[n + 1 - m]))
                 ELSE chosen[m - 1]
    BY <1>10 DEF Inserted
  <2>1. chosen[m - 1] \in R
    BY <1>1, <1>11
  <2> QED
    BY <1>3, <1>10, <2>1
<1> QED
  BY <1>9, <1>11, <1>12

\* Outputs come after their calls.
OutputsFollow(items) ==
    \A i, j \in DOMAIN items : Answers(items[j], items[i]) => i < j

\* The item at i has its output behind it.
AnsweredLater(seq, i) == \E j \in DOMAIN seq : i < j /\ Answers(seq[j], seq[i])

\* An output has its call before it, or no call at all.
AfterItsCall(seq, j) ==
    \/ \E i \in DOMAIN seq : i < j /\ Answers(seq[j], seq[i])
    \/ \A i \in DOMAIN seq : ~Answers(seq[j], seq[i])

\* new is seq with the output of the call at i behind it; what was answered or had
\* its call before it stays so.
PutBehind(seq, i, new) ==
    /\ \A j \in 1..i : new[j] = seq[j]
    /\ AnsweredLater(new, i)
    /\ \A j \in DOMAIN seq : AnsweredLater(seq, j) =>
          AnsweredLater(new, IF j <= i THEN j ELSE j + 1)
    /\ \A j \in DOMAIN new : IsCall(new[j]) =>
          \E k \in DOMAIN seq : new[j] = seq[k] /\ j = IF k <= i THEN k ELSE k + 1
    /\ \A j \in DOMAIN new : IsOutput(new[j]) => AfterItsCall(new, j)
    /\ \A j \in DOMAIN new : new[j] = OutputOf(seq[i]) \/ \E k \in DOMAIN seq : new[j] = seq[k]
    /\ \A k \in DOMAIN seq : \E j \in DOMAIN new : new[j] = seq[k]

\* What is inserted is the output of the call before it; order is kept.
LEMMA InsertOneOutput ==
    ASSUME NEW S, NEW seq \in Seq(S), NEW i \in DOMAIN seq, IsCall(seq[i]),
           OutputOf(seq[i]) \in S,
           \A j \in DOMAIN seq : IsOutput(seq[j]) => AfterItsCall(seq, j)
    PROVE  LET new == InsertAt(seq, i + 1, OutputOf(seq[i])) IN
           PutBehind(seq, i, new) /\ new \in Seq(S) /\ Len(new) = Len(seq) + 1
<1> DEFINE item == OutputOf(seq[i])
           new == InsertAt(seq, i + 1, item)
           At(j) == IF j <= i THEN j ELSE j + 1
<1>1. Len(seq) \in Nat /\ DOMAIN seq = 1..Len(seq) /\ i \in 1..Len(seq)
  OBVIOUS
<1>2. /\ new \in Seq(S) /\ Len(new) = Len(seq) + 1
      /\ \A j \in 1..i : new[j] = seq[j]
      /\ new[i + 1] = item
      /\ \A j \in (i + 1)..Len(seq) : new[j + 1] = seq[j]
  <2> DEFINE k == i + 1
  <2>1. k \in 1..(Len(seq) + 1) /\ item \in S /\ \A j \in 1..i : j \in 1..(k - 1)
    BY <1>1
  <2> HIDE DEF item, k
  <2>2. InsertAt(seq, k, item) \in Seq(S) /\ Inserts(InsertAt(seq, k, item), seq, k, item)
    BY <2>1, InsertAtFacts
  <2> QED
    BY <1>1, <2>1, <2>2 DEF k, Inserts
<1>3. Answers(item, seq[i]) /\ IsOutput(item) /\ ~IsCall(item)
  BY OutputOfFacts
<1> HIDE DEF item, new
<1>4. /\ DOMAIN new = 1..(Len(seq) + 1)
      /\ \A j \in 1..i : new[j] = seq[j]
  BY <1>1, <1>2
<1>5. \A j \in DOMAIN seq : At(j) \in DOMAIN new /\ new[At(j)] = seq[j] /\ At(j) # i + 1
  BY <1>1, <1>2, <1>4
<1>6. \A j, k \in DOMAIN seq : j < k => At(j) < At(k)
  BY <1>1
<1>7. \A j \in DOMAIN new : j = i + 1 \/ \E k \in DOMAIN seq : j = At(k) /\ new[j] = seq[k]
  <2> SUFFICES ASSUME NEW j \in DOMAIN new, j # i + 1
               PROVE  \E k \in DOMAIN seq : j = At(k)
    BY <1>5
  <2>1. CASE j <= i
    BY <1>1, <1>4, <2>1
  <2>2. CASE j > i + 1
    <3>1. j - 1 \in DOMAIN seq /\ ~(j - 1 <= i) /\ (j - 1) + 1 = j
      BY <1>1, <1>4, <2>2
    <3> QED
      BY <3>1
  <2> QED
    BY <1>1, <1>4, <2>1, <2>2
<1>8. At(i) = i
  BY <1>1
<1>9. AnsweredLater(new, i)
  <2>1. i + 1 \in DOMAIN new /\ i < i + 1 /\ new[i] = seq[i]
    BY <1>1, <1>4
  <2> QED
    BY <1>2, <1>3, <2>1 DEF AnsweredLater
<1> HIDE DEF At
<1>10. ASSUME NEW j \in DOMAIN seq, AnsweredLater(seq, j)
       PROVE  AnsweredLater(new, At(j))
  BY <1>5, <1>6, <1>10 DEF AnsweredLater
<1>11. ASSUME NEW j \in DOMAIN new, IsCall(new[j])
       PROVE  \E k \in DOMAIN seq : new[j] = seq[k] /\ j = At(k)
  BY <1>2, <1>3, <1>7, <1>11
<1>12. ASSUME NEW j \in DOMAIN new, IsOutput(new[j])
       PROVE  AfterItsCall(new, j)
  <2>1. CASE j = i + 1
    <3>1. i \in DOMAIN new /\ i < i + 1 /\ new[i] = seq[i]
      BY <1>1, <1>4
    <3> QED
      BY <1>2, <1>3, <2>1, <3>1 DEF AfterItsCall
  <2>2. CASE j # i + 1
    <3>1. PICK k \in DOMAIN seq : j = At(k) /\ new[j] = seq[k]
      BY <1>7, <2>2
    <3>2. AfterItsCall(seq, k)
      BY <1>12, <3>1
    <3>3. CASE \E m \in DOMAIN seq : m < k /\ Answers(seq[k], seq[m])
      BY <1>5, <1>6, <3>1, <3>3 DEF AfterItsCall
    <3>4. CASE \A m \in DOMAIN seq : ~Answers(seq[k], seq[m])
      <4>1. \A m \in DOMAIN new : ~Answers(new[j], new[m])
        BY <1>11, <3>1, <3>4, OutputOfFacts
      <4> QED
        BY <4>1 DEF AfterItsCall
    <3> QED
      BY <3>2, <3>3, <3>4 DEF AfterItsCall
  <2> QED
    BY <2>1, <2>2
<1>13. \A j \in DOMAIN new : new[j] = item \/ \E k \in DOMAIN seq : new[j] = seq[k]
  BY <1>2, <1>7
<1>14. \A k \in DOMAIN seq : \E j \in DOMAIN new : new[j] = seq[k]
  BY <1>5
<1> QED
  BY <1>2, <1>4, <1>9, <1>10, <1>11, <1>12, <1>13, <1>14
  DEF PutBehind, new, item, At

\* Every call has its output behind it, and every output its call before it or
\* none: this much is put right by the insertion.
OutputsPresent(seq) ==
    /\ \A i \in DOMAIN seq : IsCall(seq[i]) => AnsweredLater(seq, i)
    /\ \A j \in DOMAIN seq : IsOutput(seq[j]) => AfterItsCall(seq, j)

\* seq has the items, and else outputs of their calls.
HasItems(seq, items) ==
    /\ \A k \in DOMAIN items : \E j \in DOMAIN seq : seq[j] = items[k]
    /\ \A j \in DOMAIN seq : \E k \in DOMAIN items :
          seq[j] = items[k] \/ (IsCall(items[k]) /\ seq[j] = OutputOf(items[k]))

\* The walk puts right one call after the other, from the last to the first.
LEMMA EnsurePutsRight ==
    ASSUME NEW S, Closed(S), NEW items \in Seq(S), OutputsFollow(items)
    PROVE  LET all == EnsureCallOutputsPresent(items) IN
           all \in Seq(S) /\ OutputsPresent(all) /\ HasItems(all, items)
<1> DEFINE n == Len(items)
           missing == CallsWithoutOutput(items)
           Right(seq, m) ==
              /\ \A j \in 1..(n - m) : seq[j] = items[j]
              /\ \A j \in DOMAIN seq : IsCall(seq[j]) =>
                    AnsweredLater(seq, j) \/ (j <= n - m /\ j \in missing)
              /\ \A j \in DOMAIN seq : IsOutput(seq[j]) => AfterItsCall(seq, j)
              /\ HasItems(seq, items)
<1>1. n \in Nat /\ DOMAIN items = 1..n /\ \A j \in 1..n : items[j] \in S
  OBVIOUS
<1>2. PICK f : /\ \A m \in 0..n : f[m] \in Seq(S) /\ Len(f[m]) >= n
               /\ Inserted(items, f)
               /\ EnsureCallOutputsPresent(items) = f[n]
  BY InsertOutputsSteps
<1> DEFINE T == {m \in 0..n : Right(f[m], m)}
<1>3. f[0] = items
  BY <1>2 DEF Inserted
<1>4. 0 \in T
  <2>1. \A j \in DOMAIN items : IsCall(items[j]) => AnsweredLater(items, j) \/ j \in missing
    BY DEF OutputsFollow, AnsweredLater, CallsWithoutOutput
  <2>2. \A j \in DOMAIN items : AfterItsCall(items, j)
    BY DEF OutputsFollow, AfterItsCall
  <2>3. HasItems(items, items)
    BY DEF HasItems
  <2> HIDE DEF missing
  <2> QED
    BY <1>1, <1>3, <2>1, <2>2, <2>3
<1>5. ASSUME NEW m \in 0..(n - 1), m \in T
      PROVE  m + 1 \in T
  <2> DEFINE i == n - m
             seq == f[m]
             new == f[m + 1]
  <2>1. /\ i \in 1..n /\ m + 1 \in 1..n /\ m + 1 \in 0..n /\ m \in 0..n
        /\ n + 1 - (m + 1) = i /\ (m + 1) - 1 = m /\ n - (m + 1) = i - 1
    <3>1. n \in Nat /\ m \in 0..(n - 1)
      BY <1>1
    <3> HIDE DEF n
    <3> QED
      BY <3>1
  <2>2. Right(seq, m)
    BY <1>5
  <2>3. seq \in Seq(S) /\ Len(seq) >= n
    BY <1>2, <2>1
  <2>4. new = IF i \in missing THEN InsertAt(seq, i + 1, OutputOf(items[i])) ELSE seq
    BY <1>2, <2>1 DEF Inserted
  <2>5. DOMAIN seq = 1..Len(seq) /\ Len(seq) \in Nat /\ i \in DOMAIN seq /\ seq[i] = items[i]
    <3>1. \A j \in 1..i : seq[j] = items[j]
      BY <2>2
    <3> HIDE DEF i, seq, Right
    <3>2. DOMAIN seq = 1..Len(seq) /\ Len(seq) \in Nat
      BY <2>3
    <3>3. i \in 1..Len(seq)
      BY <1>1, <2>1, <2>3, <3>2
    <3> QED
      BY <3>1, <3>2, <3>3
  <2> HIDE DEF i, seq, new
  <2>6. CASE i \notin missing
    <3>1. \A j \in 1..(n - (m + 1)) : j \in 1..(n - m)
      BY <1>1, <2>1
    <3>2. \A j : j <= n - m /\ j \in missing => j <= n - (m + 1)
      BY <1>1, <2>1, <2>6 DEF CallsWithoutOutput, i
    <3>3. Right(seq, m + 1)
      <4> HIDE DEF missing
      <4> QED
        BY <2>2, <3>1, <3>2
    <3> QED
      BY <2>1, <2>4, <2>6, <3>3 DEF new
  <2>7. CASE i \in missing
    <3>1. IsCall(seq[i]) /\ OutputOf(seq[i]) \in S
      BY <1>1, <2>1, <2>5, <2>7 DEF CallsWithoutOutput, Closed
    <3>2. \A j \in DOMAIN seq : IsOutput(seq[j]) => AfterItsCall(seq, j)
      BY <2>2
    <3>3. new = InsertAt(seq, i + 1, OutputOf(seq[i]))
      BY <2>4, <2>5, <2>7
    <3>4. PutBehind(seq, i, new)
      BY <2>3, <2>5, <3>1, <3>2, <3>3, InsertOneOutput
    <3>5. \A j \in 1..(n - (m + 1)) : new[j] = items[j]
      <4> SUFFICES ASSUME NEW j \in 1..(n - (m + 1)) PROVE new[j] = items[j]
        OBVIOUS
      <4>1. j \in 1..i /\ j \in 1..(n - m)
        BY <1>1, <2>1 DEF i
      <4> QED
        BY <2>2, <3>4, <4>1 DEF PutBehind
    <3>6. ASSUME NEW j \in DOMAIN new, IsCall(new[j]), ~AnsweredLater(new, j)
          PROVE  j <= n - (m + 1) /\ j \in missing
      <4>1. PICK k \in DOMAIN seq : new[j] = seq[k] /\ j = IF k <= i THEN k ELSE k + 1
        BY <3>4, <3>6 DEF PutBehind
      <4>2. ~AnsweredLater(seq, k)
        BY <3>4, <3>6, <4>1 DEF PutBehind
      <4>3. k <= n - m /\ k \in missing
        BY <2>2, <3>6, <4>1, <4>2
      <4>4. k <= i /\ j = k
        BY <2>1, <2>5, <4>1, <4>3 DEF i
      <4>5. k # i
        BY <3>4, <3>6, <4>4 DEF PutBehind
      <4> QED
        BY <1>1, <2>1, <2>5, <4>3, <4>4, <4>5 DEF i
    <3>7. HasItems(new, items)
      <4>1. \A k \in DOMAIN items : \E j \in DOMAIN new : new[j] = items[k]
        BY <2>2, <3>4 DEF HasItems, PutBehind
      <4>2. ASSUME NEW j \in DOMAIN new
            PROVE  \E k \in DOMAIN items :
                     new[j] = items[k] \/ (IsCall(items[k]) /\ new[j] = OutputOf(items[k]))
        <5>1. i \in DOMAIN items /\ IsCall(items[i]) /\ OutputOf(items[i]) = OutputOf(seq[i])
          BY <1>1, <2>1, <2>5, <3>1
        <5>2. CASE new[j] = OutputOf(seq[i])
          BY <5>1, <5>2
        <5>3. CASE \E k \in DOMAIN seq : new[j] = seq[k]
          BY <2>2, <5>3 DEF HasItems
        <5> QED
          BY <3>4, <5>2, <5>3 DEF PutBehind
      <4> QED
        BY <4>1, <4>2 DEF HasItems
    <3>8. Right(new, m + 1)
      <4> HIDE DEF missing
      <4> QED
        BY <3>4, <3>5, <3>6, <3>7 DEF PutBehind
    <3> QED
      BY <2>1, <3>8 DEF new
  <2> QED
    BY <2>6, <2>7
<1>6. Right(f[n], n)
  <2> HIDE DEF T, Right
  <2>1. \A m \in 0..n : m \in T
    BY <1>1, <1>4, <1>5, SetInduction
  <2>2. n \in 0..n
    BY <1>1
  <2> QED
    BY <2>1, <2>2 DEF T
<1>7. \A j \in DOMAIN f[n] : ~(j <= n - n /\ j \in missing)
  BY <1>1 DEF CallsWithoutOutput
<1>8. f[n] \in Seq(S)
  BY <1>1, <1>2
<1>9. OutputsPresent(f[n]) /\ HasItems(f[n], items)
  <2> HIDE DEF missing
  <2> QED
    BY <1>6, <1>7 DEF OutputsPresent
<1> QED
  BY <1>2, <1>8, <1>9

\* What RemoveOrphanOutputs comes to, step by step.
Sieved(items, f) ==
    /\ f[0] = <<>>
    /\ \A n \in 1..Len(items) :
          f[n] = IF IsOrphan(items[n], items) THEN f[n - 1] ELSE Append(f[n - 1], items[n])

\* The function it chooses exists.
LEMMA RemoveOrphansSteps ==
    ASSUME NEW S, NEW items \in Seq(S)
    PROVE  \E f : /\ \A n \in 0..Len(items) : f[n] \in Seq(S)
                  /\ Sieved(items, f)
                  /\ RemoveOrphanOutputs(items) = f[Len(items)]
<1> DEFINE n == Len(items)
           Put(m, seq) == IF IsOrphan(items[m], items) THEN seq ELSE Append(seq, items[m])
           Step == [m \in 1..n |-> [seq \in Seq(S) |-> Put(m, seq)]]
           Is(f) == f = [m \in 0..n |-> IF m = 0 THEN <<>>
                         ELSE IF IsOrphan(items[m], items) THEN f[m - 1]
                         ELSE Append(f[m - 1], items[m])]
           chosen == CHOOSE f : Is(f)
<1>1. n \in Nat /\ DOMAIN items = 1..n /\ \A m \in 1..n : items[m] \in S
  OBVIOUS
<1>2. \A m \in 1..n : \A seq \in Seq(S) : Put(m, seq) \in Seq(S)
  BY <1>1
<1>3. <<>> \in Seq(S)
  OBVIOUS
<1>4. Step \in [1..n -> [Seq(S) -> Seq(S)]] /\ \A m \in 1..n : \A seq \in Seq(S) : Step[m][seq] = Put(m, seq)
  <2> HIDE DEF Put
  <2> QED
    BY <1>2
<1>5. PICK g \in [0..n -> Seq(S)] : IsRecursion(n, <<>>, Step, g)
  <2>1. n \in Nat
    BY <1>1
  <2>2. Step \in [1..n -> [Seq(S) -> Seq(S)]]
    BY <1>4
  <2> HIDE DEF Step, n
  <2> QED
    BY <1>3, <2>1, <2>2, RecursionExists
<1>6. ASSUME NEW m \in 1..n
      PROVE  g[m - 1] \in Seq(S) /\ g[m] = Put(m, g[m - 1])
  <2> HIDE DEF Step, Put
  <2>1. m - 1 \in 0..n
    BY <1>1
  <2>2. g[m - 1] \in Seq(S)
    BY <1>5, <2>1
  <2> QED
    BY <1>4, <1>5, <2>2 DEF IsRecursion
<1>7. Is(g)
  <2>1. \A m \in 0..n : g[m] = IF m = 0 THEN <<>>
                         ELSE IF IsOrphan(items[m], items) THEN g[m - 1]
                         ELSE Append(g[m - 1], items[m])
    <3> SUFFICES ASSUME NEW m \in 0..n, m # 0
                 PROVE  g[m] = Put(m, g[m - 1])
      BY <1>5 DEF Put, IsRecursion
    <3>1. m \in 1..n
      BY <1>1
    <3> HIDE DEF Put
    <3> QED
      BY <1>6, <3>1
  <2> QED
    BY <1>5, <2>1
<1>8. Is(chosen)
  <2> HIDE DEF Is
  <2> QED
    BY <1>7
<1>9. RemoveOrphanOutputs(items) = chosen[n]
  BY DEF RemoveOrphanOutputs
<1> HIDE DEF chosen
<1>10. Sieved(items, chosen)
  <2>1. chosen[0] = <<>>
    BY <1>1, <1>8
  <2>2. ASSUME NEW m \in 1..n
        PROVE  chosen[m] = IF IsOrphan(items[m], items) THEN chosen[m - 1]
                           ELSE Append(chosen[m - 1], items[m])
    <3>1. m \in 0..n /\ m # 0
      BY <1>1
    <3> QED
      BY <1>8, <3>1
  <2> QED
    BY <2>1, <2>2 DEF Sieved
<1>11. \A m \in 0..n : chosen[m] \in Seq(S)
  <2> DEFINE T == {m \in 0..n : chosen[m] \in Seq(S)}
  <2>1. 0 \in T
    <3>1. chosen[0] = <<>> /\ 0 \in 0..n
      BY <1>1, <1>10 DEF Sieved
    <3> QED
      BY <1>3, <3>1
  <2>2. ASSUME NEW m \in 0..(n - 1), m \in T PROVE m + 1 \in T
    <3>1. m + 1 \in 1..n /\ m + 1 \in 0..n /\ (m + 1) - 1 = m
      BY <1>1
    <3>2. Put(m + 1, chosen[m]) \in Seq(S)
      BY <1>2, <2>2, <3>1
    <3>3. chosen[m + 1] = Put(m + 1, chosen[m])
      BY <1>10, <3>1 DEF Sieved
    <3> QED
      BY <3>1, <3>2, <3>3
  <2> HIDE DEF T
  <2>3. \A m \in 0..n : m \in T
    BY <1>1, <2>1, <2>2, SetInduction
  <2> QED
    BY <2>3 DEF T
<1> QED
  BY <1>9, <1>10, <1>11

\* What is left when the orphans are gone is paired.
LEMMA SievePairs ==
    ASSUME NEW S, NEW items \in Seq(S), OutputsPresent(items)
    PROVE  IsPaired(RemoveOrphanOutputs(items))
<1> DEFINE n == Len(items)
           Good(seq, m) ==
              /\ \A i \in 1..m : IsOrphan(items[i], items) \/ \E x \in DOMAIN seq : seq[x] = items[i]
              /\ \A x \in DOMAIN seq : \E i \in 1..m : items[i] = seq[x] /\ ~IsOrphan(items[i], items)
              /\ \A x \in DOMAIN seq : IsOutput(seq[x]) /\ ~StandsAlone(seq[x]) =>
                    \E y \in DOMAIN seq : y < x /\ Answers(seq[x], seq[y])
              /\ \A x \in DOMAIN seq : IsCall(seq[x]) =>
                    AnsweredLater(seq, x) \/ \E j \in (m + 1)..n : Answers(items[j], seq[x])
<1>1. n \in Nat /\ DOMAIN items = 1..n /\ \A m \in 1..n : items[m] \in S
  OBVIOUS
<1>2. PICK f : /\ \A m \in 0..n : f[m] \in Seq(S)
               /\ Sieved(items, f)
               /\ RemoveOrphanOutputs(items) = f[n]
  BY RemoveOrphansSteps
<1> DEFINE T == {m \in 0..n : Good(f[m], m)}
<1>3. 0 \in T
  <2>1. f[0] = <<>>
    BY <1>2 DEF Sieved
  <2> QED
    BY <1>1, <2>1
<1>4. ASSUME NEW m \in 0..(n - 1), m \in T
      PROVE  m + 1 \in T
  <2> DEFINE seq == f[m]
             item == items[m + 1]
             new == f[m + 1]
  <2>1. m + 1 \in 1..n /\ m + 1 \in 0..n /\ m \in 0..n /\ (m + 1) - 1 = m /\ m \in Nat
    BY <1>1
  <2>2. Good(seq, m)
    BY <1>4
  <2>3. new = IF IsOrphan(item, items) THEN seq ELSE Append(seq, item)
    BY <1>2, <2>1 DEF Sieved
  <2>4. seq \in Seq(S) /\ item \in S /\ m + 1 \in DOMAIN items
    BY <1>1, <1>2, <2>1
  <2>5. \A i \in 1..(m + 1) : i \in 1..m \/ i = m + 1
    BY <2>1
  <2>6. \A j \in (m + 1)..n : j \in (m + 1 + 1)..n \/ j = m + 1
    BY <1>1, <2>1
  <2> SUFFICES Good(new, m + 1)
    BY <2>1
  <2> HIDE DEF seq, new
  <2>7. CASE IsOrphan(item, items)
    <3>1. new = seq
      BY <2>3, <2>7
    <3>2. \A i \in 1..(m + 1) : IsOrphan(items[i], items) \/ \E x \in DOMAIN new : new[x] = items[i]
      BY <2>2, <2>5, <2>7, <3>1
    <3>3. \A x \in DOMAIN new : \E i \in 1..(m + 1) : items[i] = new[x] /\ ~IsOrphan(items[i], items)
      <4>1. \A i \in 1..m : i \in 1..(m + 1)
        BY <2>1
      <4> QED
        BY <2>2, <3>1, <4>1
    <3>4. ASSUME NEW x \in DOMAIN new, IsCall(new[x]), ~AnsweredLater(new, x)
          PROVE  \E j \in (m + 1 + 1)..n : Answers(items[j], new[x])
      <4>1. PICK j \in (m + 1)..n : Answers(items[j], seq[x])
        BY <2>2, <3>1, <3>4
      <4>2. PICK i \in 1..m : items[i] = seq[x]
        BY <2>2, <3>1
      <4>3. i \in DOMAIN items
        BY <1>1, <2>1
      <4>4. j # m + 1
        BY <2>7, <4>1, <4>2, <4>3 DEF IsOrphan
      <4> QED
        BY <2>6, <3>1, <4>1, <4>4
    <3> QED
      BY <2>2, <3>1, <3>2, <3>3, <3>4
  <2>8. CASE ~IsOrphan(item, items)
    <3>1. new = Append(seq, item)
      BY <2>3, <2>8
    <3>2. /\ new \in Seq(S) /\ Len(new) = Len(seq) + 1 /\ Len(seq) \in Nat
          /\ DOMAIN seq = 1..Len(seq) /\ DOMAIN new = 1..(Len(seq) + 1)
          /\ \A x \in DOMAIN seq : new[x] = seq[x]
          /\ new[Len(seq) + 1] = item
      BY <2>4, <3>1, AppendProperties
    <3>3. /\ \A x \in DOMAIN seq : x \in DOMAIN new /\ x < Len(seq) + 1
          /\ \A x \in DOMAIN new : x \in DOMAIN seq \/ x = Len(seq) + 1
          /\ Len(seq) + 1 \in DOMAIN new
      BY <3>2
    <3>4. \A i \in 1..(m + 1) : IsOrphan(items[i], items) \/ \E x \in DOMAIN new : new[x] = items[i]
      BY <2>2, <2>5, <3>2, <3>3
    <3>5. \A x \in DOMAIN new : \E i \in 1..(m + 1) : items[i] = new[x] /\ ~IsOrphan(items[i], items)
      <4>1. m + 1 \in 1..(m + 1) /\ \A i \in 1..m : i \in 1..(m + 1)
        BY <2>1
      <4>2. ASSUME NEW x \in DOMAIN seq
            PROVE  \E i \in 1..(m + 1) : items[i] = new[x] /\ ~IsOrphan(items[i], items)
        BY <2>2, <3>2, <4>1
      <4>3. items[m + 1] = new[Len(seq) + 1] /\ ~IsOrphan(items[m + 1], items)
        BY <2>8, <3>2
      <4> QED
        BY <3>3, <4>1, <4>2, <4>3
    <3>6. ASSUME NEW x \in DOMAIN new, IsOutput(new[x]), ~StandsAlone(new[x])
          PROVE  \E y \in DOMAIN new : y < x /\ Answers(new[x], new[y])
      <4>1. CASE x \in DOMAIN seq
        <5>1. PICK y \in DOMAIN seq : y < x /\ Answers(seq[x], seq[y])
          BY <2>2, <3>2, <3>6, <4>1
        <5> QED
          BY <3>2, <3>3, <4>1, <5>1
      <4>2. CASE x = Len(seq) + 1
        <5>1. IsOutput(item) /\ ~StandsAlone(item)
          BY <3>2, <3>6, <4>2
        <5>2. \E i \in DOMAIN items : Answers(item, items[i])
          BY <2>8, <5>1 DEF IsOrphan
        <5>3. PICK i \in DOMAIN items : i < m + 1 /\ Answers(item, items[i])
          BY <2>4, <5>1, <5>2 DEF OutputsPresent, AfterItsCall
        <5>4. i \in 1..m
          BY <1>1, <2>1, <5>3
        <5>5. ~IsOrphan(items[i], items)
          BY <5>3, OutputOfFacts DEF IsOrphan
        <5>6. PICK y \in DOMAIN seq : seq[y] = items[i]
          BY <2>2, <5>4, <5>5
        <5> QED
          BY <3>2, <3>3, <4>2, <5>3, <5>6
      <4> QED
        BY <3>3, <4>1, <4>2
    <3>7. ASSUME NEW x \in DOMAIN new, IsCall(new[x])
          PROVE  AnsweredLater(new, x) \/ \E j \in (m + 1 + 1)..n : Answers(items[j], new[x])
      <4>1. CASE x \in DOMAIN seq /\ AnsweredLater(seq, x)
        BY <3>2, <3>3, <4>1 DEF AnsweredLater
      <4>2. CASE x \in DOMAIN seq /\ \E j \in (m + 1)..n : Answers(items[j], seq[x])
        <5>1. PICK j \in (m + 1)..n : Answers(items[j], seq[x])
          BY <4>2
        <5>2. CASE j = m + 1
          BY <3>2, <3>3, <4>2, <5>1, <5>2 DEF AnsweredLater
        <5>3. CASE j \in (m + 1 + 1)..n
          BY <3>2, <4>2, <5>1, <5>3
        <5> QED
          BY <2>6, <5>2, <5>3
      <4>3. CASE x = Len(seq) + 1
        <5>1. AnsweredLater(items, m + 1)
          BY <2>4, <3>2, <3>7, <4>3 DEF OutputsPresent
        <5>2. PICK j \in DOMAIN items : m + 1 < j /\ Answers(items[j], items[m + 1])
          BY <5>1 DEF AnsweredLater
        <5>3. j \in (m + 1 + 1)..n
          BY <1>1, <2>1, <5>2
        <5> QED
          BY <3>2, <4>3, <5>2, <5>3
      <4> QED
        BY <2>2, <3>2, <3>3, <3>7, <4>1, <4>2, <4>3
    <3> QED
      BY <3>4, <3>5, <3>6, <3>7
  <2> QED
    BY <2>7, <2>8
<1>5. Good(f[n], n)
  <2> HIDE DEF T, Good
  <2>1. \A m \in 0..n : m \in T
    BY <1>1, <1>3, <1>4, SetInduction
  <2>2. n \in 0..n
    BY <1>1
  <2> QED
    BY <2>1, <2>2 DEF T
<1>6. (n + 1)..n = {}
  BY <1>1
<1> QED
  BY <1>2, <1>5, <1>6 DEF IsPaired, AnsweredLater

\* A prompt is paired.
LEMMA ForPromptIsPaired ==
    ASSUME NEW S, Closed(S), NEW items \in Seq(S), OutputsFollow(items)
    PROVE  ForPrompt(items) \in Seq(S) /\ IsPaired(ForPrompt(items))
<1> DEFINE all == EnsureCallOutputsPresent(items)
<1>1. all \in Seq(S) /\ OutputsPresent(all)
  BY EnsurePutsRight
<1> HIDE DEF all
<1>2. RemoveOrphanOutputs(all) \in Seq(S)
  <2>1. Len(all) \in 0..Len(all)
    BY <1>1
  <2> QED
    BY <1>1, <2>1, RemoveOrphansSteps
<1>3. IsPaired(RemoveOrphanOutputs(all))
  BY <1>1, SievePairs
<1> QED
  BY <1>2, <1>3 DEF ForPrompt, all

\* new begins with old.
Begins(old, new) == Len(old) <= Len(new) /\ \A i \in 1..Len(old) : old[i] = new[i]

\* IsPrefix says so of sequences.
LEMMA BeginsIsPrefix ==
    ASSUME NEW S, NEW old \in Seq(S), NEW new \in Seq(S), Begins(old, new)
    PROVE  IsPrefix(old, new)
<1>1. /\ Len(old) \in Nat /\ Len(new) \in Nat /\ Len(old) <= Len(new)
      /\ \A i \in 1..Len(old) : old[i] \in S /\ old[i] = new[i]
  BY DEF Begins
<1>2. \A i \in 1..Len(old) : new[i] \in S
  BY <1>1
<1>3. /\ SubSeq(new, 1, Len(old)) \in Seq(S) /\ Len(SubSeq(new, 1, Len(old))) = Len(old)
      /\ \A i \in 1..Len(old) : SubSeq(new, 1, Len(old))[i] = new[i]
  BY <1>1, <1>2, SubSeqProperties
<1>4. SubSeq(new, 1, Len(old)) = old
  BY <1>1, <1>3, SeqEqual
<1>5. SubSeq(old, 1, Len(old)) = old
  BY SubSeqFull
<1> QED
  BY <1>1, <1>4, <1>5 DEF IsPrefix

\* Insertions at the same place keep a beginning, and so do those behind it.
LEMMA InsertKeepsBeginning ==
    ASSUME NEW S, NEW old \in Seq(S), NEW new \in Seq(S), Begins(old, new), NEW item \in S
    PROVE  /\ \A i \in 1..(Len(old) + 1) : Begins(InsertAt(old, i, item), InsertAt(new, i, item))
           /\ \A i \in (Len(old) + 1)..(Len(new) + 1) : Begins(old, InsertAt(new, i, item))
<1>1. /\ Len(old) \in Nat /\ Len(new) \in Nat /\ Len(old) <= Len(new)
      /\ \A j \in 1..Len(old) : old[j] = new[j]
  BY DEF Begins
<1>2. ASSUME NEW i \in 1..(Len(old) + 1)
      PROVE  Begins(InsertAt(old, i, item), InsertAt(new, i, item))
  <2> DEFINE a == InsertAt(old, i, item)
             b == InsertAt(new, i, item)
  <2>1. /\ Len(a) = Len(old) + 1 /\ a[i] = item
        /\ \A j \in 1..(i - 1) : a[j] = old[j]
        /\ \A j \in i..Len(old) : a[j + 1] = old[j]
    BY InsertAtFacts DEF Inserts
  <2>2. i \in 1..(Len(new) + 1)
    BY <1>1
  <2>3. /\ Len(b) = Len(new) + 1 /\ b[i] = item
        /\ \A j \in 1..(i - 1) : b[j] = new[j]
        /\ \A j \in i..Len(new) : b[j + 1] = new[j]
    BY <2>2, InsertAtFacts DEF Inserts
  <2> HIDE DEF a, b
  <2>4. ASSUME NEW j \in 1..(Len(old) + 1)
        PROVE  a[j] = b[j]
    <3>1. CASE j < i
      <4>1. j \in 1..(i - 1) /\ j \in 1..Len(old)
        BY <1>1, <3>1
      <4> QED
        BY <1>1, <2>1, <2>3, <4>1
    <3>2. CASE j = i
      BY <2>1, <2>3, <3>2
    <3>3. CASE j > i
      <4>1. j - 1 \in i..Len(old) /\ j - 1 \in i..Len(new) /\ j - 1 \in 1..Len(old) /\ (j - 1) + 1 = j
        BY <1>1, <3>3
      <4>2. a[(j - 1) + 1] = old[j - 1] /\ b[(j - 1) + 1] = new[j - 1]
        BY <2>1, <2>3, <4>1
      <4> QED
        BY <1>1, <4>1, <4>2
    <3> QED
      BY <1>1, <3>1, <3>2, <3>3
  <2>5. Begins(a, b)
    BY <1>1, <2>1, <2>3, <2>4 DEF Begins
  <2> QED
    BY <2>5 DEF a, b
<1>3. ASSUME NEW i \in (Len(old) + 1)..(Len(new) + 1)
      PROVE  Begins(old, InsertAt(new, i, item))
  <2> DEFINE b == InsertAt(new, i, item)
  <2>1. i \in 1..(Len(new) + 1)
    BY <1>1
  <2>2. Len(b) = Len(new) + 1 /\ \A j \in 1..(i - 1) : b[j] = new[j]
    BY <2>1, InsertAtFacts DEF Inserts
  <2> HIDE DEF b
  <2>3. \A j \in 1..Len(old) : j \in 1..(i - 1)
    BY <1>1
  <2>4. Begins(old, b)
    BY <1>1, <2>2, <2>3 DEF Begins
  <2> QED
    BY <2>4 DEF b
<1> QED
  BY <1>2, <1>3

\* Outputs that are missing now and later are put at the same places.
LEMMA EnsureKeepsBeginning ==
    ASSUME NEW S, Closed(S), NEW old \in Seq(S), NEW new \in Seq(S), Begins(old, new),
           \A i \in DOMAIN old : i \in CallsWithoutOutput(old) <=> i \in CallsWithoutOutput(new)
    PROVE  Begins(EnsureCallOutputsPresent(old), EnsureCallOutputsPresent(new))
<1> DEFINE n == Len(old)
           l == Len(new)
           more == l - n
           At(m) == IF m <= more THEN 0 ELSE m - more
<1>1. /\ n \in Nat /\ l \in Nat /\ n <= l /\ DOMAIN old = 1..n /\ DOMAIN new = 1..l
      /\ \A j \in 1..n : old[j] = new[j]
      /\ \A j \in 1..l : new[j] \in S
  BY DEF Begins
<1>2. PICK f : /\ \A m \in 0..n : f[m] \in Seq(S) /\ Len(f[m]) >= n
               /\ Inserted(old, f)
               /\ EnsureCallOutputsPresent(old) = f[n]
  BY InsertOutputsSteps
<1>3. PICK g : /\ \A m \in 0..l : g[m] \in Seq(S) /\ Len(g[m]) >= l
               /\ Inserted(new, g)
               /\ EnsureCallOutputsPresent(new) = g[l]
  BY InsertOutputsSteps
<1> DEFINE T == {m \in 0..l : Begins(f[At(m)], g[m])}
<1> HIDE DEF n, l
<1>4. more \in 0..l /\ \A m \in 0..l : At(m) \in 0..n
  BY <1>1
<1>5. 0 \in T
  <2>1. f[0] = old /\ g[0] = new /\ At(0) = 0 /\ 0 \in 0..l
    BY <1>1, <1>2, <1>3 DEF Inserted
  <2> QED
    BY <2>1
<1>6. ASSUME NEW m \in 0..(l - 1), m \in T
      PROVE  m + 1 \in T
  <2> DEFINE i == l - m
             a == f[At(m)]
             b == g[m]
  <2>1. /\ m + 1 \in 1..l /\ m + 1 \in 0..l /\ m \in 0..l /\ (m + 1) - 1 = m /\ m \in Nat
        /\ l + 1 - (m + 1) = i /\ i \in 1..l
    BY <1>1
  <2>2. Begins(a, b)
    BY <1>6
  <2>3. a \in Seq(S) /\ Len(a) >= n /\ b \in Seq(S) /\ Len(b) >= l
    BY <1>2, <1>3, <1>4, <2>1
  <2>4. g[m + 1] = IF i \in CallsWithoutOutput(new)
                   THEN InsertAt(b, i + 1, OutputOf(new[i])) ELSE b
    BY <1>3, <2>1 DEF Inserted, l
  <2>5. i \in CallsWithoutOutput(new) => OutputOf(new[i]) \in S
    BY <1>1, <2>1 DEF CallsWithoutOutput, Closed
  <2>6. CASE m + 1 <= more
    <3>1. At(m + 1) = 0 /\ At(m) = 0 /\ f[0] = old /\ i > n
      BY <1>1, <1>2, <2>1, <2>6 DEF Inserted
    <3>2. a = old
      BY <3>1
    <3>3. i + 1 \in (Len(old) + 1)..(Len(b) + 1)
      BY <1>1, <2>1, <2>3, <3>1 DEF n
    <3> HIDE DEF a, b, i, At
    <3>4. Begins(old, g[m + 1])
      <4>1. CASE i \in CallsWithoutOutput(new)
        <5>1. Begins(old, InsertAt(b, i + 1, OutputOf(new[i])))
          BY <2>2, <2>3, <2>5, <3>2, <3>3, <4>1, InsertKeepsBeginning
        <5> QED
          BY <2>4, <4>1, <5>1
      <4> QED
        BY <2>2, <2>4, <3>2, <4>1
    <3> QED
      BY <2>1, <3>1, <3>4
  <2>7. CASE m + 1 > more
    <3> DEFINE k == m + 1 - more
    <3>1. k \in 1..n /\ At(m + 1) = k /\ At(m) = k - 1 /\ n + 1 - k = i /\ i \in 1..n
      BY <1>1, <2>1, <2>7
    <3>2. f[k] = IF i \in CallsWithoutOutput(old)
                 THEN InsertAt(a, i + 1, OutputOf(old[i])) ELSE a
      BY <1>2, <3>1 DEF Inserted, n
    <3>3. old[i] = new[i] /\ (i \in CallsWithoutOutput(old) <=> i \in CallsWithoutOutput(new))
      BY <1>1, <3>1
    <3>4. i + 1 \in 1..(Len(a) + 1)
      BY <1>1, <2>3, <3>1
    <3> HIDE DEF a, b, i, k, At
    <3>5. Begins(f[k], g[m + 1])
      <4>1. CASE i \in CallsWithoutOutput(new)
        <5>1. Begins(InsertAt(a, i + 1, OutputOf(new[i])), InsertAt(b, i + 1, OutputOf(new[i])))
          BY <2>2, <2>3, <2>5, <3>4, <4>1, InsertKeepsBeginning
        <5> QED
          BY <2>4, <3>2, <3>3, <4>1, <5>1
      <4> QED
        BY <2>2, <2>4, <3>2, <3>3, <4>1
    <3> QED
      BY <2>1, <3>1, <3>5
  <2> QED
    BY <1>1, <2>1, <2>6, <2>7
<1>7. \A m \in 0..l : m \in T
  <2> HIDE DEF T
  <2> QED
    BY <1>1, <1>5, <1>6, SetInduction
<1>8. Begins(f[At(l)], g[l])
  BY <1>1, <1>7
<1>9. At(l) = n
  BY <1>1
<1> QED
  BY <1>2, <1>3, <1>8, <1>9

\* What is sieved of a beginning is the beginning of what is sieved.
LEMMA RemoveKeepsBeginning ==
    ASSUME NEW S, NEW old \in Seq(S), NEW new \in Seq(S), Begins(old, new),
           \A i \in DOMAIN old : IsOrphan(old[i], old) <=> IsOrphan(old[i], new)
    PROVE  Begins(RemoveOrphanOutputs(old), RemoveOrphanOutputs(new))
<1> DEFINE n == Len(old)
           l == Len(new)
           At(m) == IF m <= n THEN m ELSE n
<1>1. /\ n \in Nat /\ l \in Nat /\ n <= l /\ DOMAIN old = 1..n /\ DOMAIN new = 1..l
      /\ \A j \in 1..n : old[j] = new[j]
      /\ \A j \in 1..l : new[j] \in S
  BY DEF Begins
<1>2. PICK f : /\ \A m \in 0..n : f[m] \in Seq(S)
               /\ Sieved(old, f)
               /\ RemoveOrphanOutputs(old) = f[n]
  BY RemoveOrphansSteps
<1>3. PICK g : /\ \A m \in 0..l : g[m] \in Seq(S)
               /\ Sieved(new, g)
               /\ RemoveOrphanOutputs(new) = g[l]
  BY RemoveOrphansSteps
<1> DEFINE T == {m \in 0..l : (m <= n => f[m] = g[m]) /\ Begins(f[At(m)], g[m])}
<1>4. \A seq \in Seq(S) : Begins(seq, seq)
  BY DEF Begins
<1> HIDE DEF n, l
<1>5. 0 \in T
  <2>1. f[0] = <<>> /\ g[0] = <<>> /\ At(0) = 0 /\ 0 \in 0..l /\ <<>> \in Seq(S)
    BY <1>1, <1>2, <1>3 DEF Sieved
  <2> QED
    BY <1>4, <2>1
<1>6. ASSUME NEW m \in 0..(l - 1), m \in T
      PROVE  m + 1 \in T
  <2>1. m + 1 \in 1..l /\ m + 1 \in 0..l /\ m \in 0..l /\ (m + 1) - 1 = m /\ m \in Nat
    BY <1>1
  <2>2. g[m + 1] = IF IsOrphan(new[m + 1], new) THEN g[m] ELSE Append(g[m], new[m + 1])
    BY <1>3, <2>1 DEF Sieved, l
  <2>3. g[m] \in Seq(S) /\ g[m + 1] \in Seq(S) /\ new[m + 1] \in S
    BY <1>1, <1>3, <2>1
  <2>4. CASE m + 1 <= n
    <3>1. m + 1 \in 1..n /\ m <= n /\ At(m + 1) = m + 1
      BY <1>1, <2>1, <2>4
    <3>2. f[m + 1] = IF IsOrphan(old[m + 1], old) THEN f[m] ELSE Append(f[m], old[m + 1])
      BY <1>2, <2>1, <3>1 DEF Sieved, n
    <3>3. f[m] = g[m]
      BY <1>6, <3>1
    <3>4. f[m + 1] = g[m + 1]
      BY <1>1, <2>2, <3>1, <3>2, <3>3
    <3> QED
      BY <1>4, <2>1, <2>3, <3>1, <3>4
  <2>5. CASE m + 1 > n
    <3>1. At(m) = n /\ At(m + 1) = n /\ ~(m + 1 <= n) /\ n \in 0..n
      BY <1>1, <2>1, <2>5
    <3>2. Begins(f[n], g[m]) /\ f[n] \in Seq(S)
      BY <1>2, <1>6, <3>1
    <3>3. Begins(f[n], Append(g[m], new[m + 1]))
      BY <2>3, <3>2, AppendProperties DEF Begins
    <3>4. Begins(f[n], g[m + 1])
      BY <2>2, <3>2, <3>3
    <3> QED
      BY <2>1, <3>1, <3>4
  <2> QED
    BY <1>1, <2>1, <2>4, <2>5
<1>7. \A m \in 0..l : m \in T
  <2> HIDE DEF T
  <2> QED
    BY <1>1, <1>5, <1>6, SetInduction
<1>8. Begins(f[At(l)], g[l])
  BY <1>1, <1>7
<1>9. At(l) = n
  BY <1>1
<1> QED
  BY <1>2, <1>3, <1>8, <1>9

\* A later prompt begins with an earlier one, when the calls without an output get
\* none after all.
LEMMA ForPromptGrows ==
    ASSUME NEW S, Closed(S), NEW old \in Seq(S), NEW new \in Seq(S), Begins(old, new),
           OutputsFollow(new),
           \A i \in DOMAIN old : i \in CallsWithoutOutput(old) => i \in CallsWithoutOutput(new)
    PROVE  IsPrefix(ForPrompt(old), ForPrompt(new))
<1> DEFINE a == EnsureCallOutputsPresent(old)
           b == EnsureCallOutputsPresent(new)
<1>1. /\ Len(old) \in Nat /\ Len(new) \in Nat /\ Len(old) <= Len(new)
      /\ DOMAIN old = 1..Len(old) /\ DOMAIN new = 1..Len(new) /\ DOMAIN old \subseteq DOMAIN new
      /\ \A i \in DOMAIN old : old[i] = new[i]
  BY DEF Begins
<1>2. OutputsFollow(old)
  BY <1>1 DEF OutputsFollow
<1>3. \A i \in DOMAIN old : i \in CallsWithoutOutput(old) <=> i \in CallsWithoutOutput(new)
  BY <1>1 DEF CallsWithoutOutput
<1>4. Begins(a, b)
  BY <1>3, EnsureKeepsBeginning
<1>5. /\ a \in Seq(S) /\ OutputsPresent(a) /\ HasItems(a, old)
      /\ b \in Seq(S) /\ OutputsPresent(b) /\ HasItems(b, new)
  BY <1>2, EnsurePutsRight
<1> HIDE DEF a, b
<1>6. \A i \in DOMAIN a : i \in DOMAIN b /\ a[i] = b[i]
  BY <1>4, <1>5 DEF Begins
<1>7. ASSUME NEW i \in DOMAIN a, IsOrphan(a[i], a)
      PROVE  IsOrphan(a[i], b)
  <2> SUFFICES ASSUME NEW j \in DOMAIN b, Answers(a[i], b[j]) PROVE FALSE
    BY <1>7 DEF IsOrphan
  <2>1. PICK k \in DOMAIN new : b[j] = new[k] \/ (IsCall(new[k]) /\ b[j] = OutputOf(new[k]))
    BY <1>5 DEF HasItems
  <2>2. b[j] = new[k] /\ Answers(a[i], new[k])
    BY <2>1, OutputOfFacts
  <2>3. PICK p \in DOMAIN old : a[i] = old[p] \/ (IsCall(old[p]) /\ a[i] = OutputOf(old[p]))
    BY <1>5 DEF HasItems
  <2>4. ASSUME NEW q \in DOMAIN old, Answers(a[i], old[q]) PROVE FALSE
    <3>1. PICK x \in DOMAIN a : a[x] = old[q]
      BY <1>5 DEF HasItems
    <3> QED
      BY <1>7, <2>4, <3>1 DEF IsOrphan
  <2>5. a[i] = old[p]
    BY <2>3, <2>4, OutputOfFacts
  <2>6. k < p
    BY <1>1, <2>2, <2>5 DEF OutputsFollow
  <2>7. k \in DOMAIN old /\ old[k] = new[k]
    BY <1>1, <2>6
  <2> QED
    BY <2>2, <2>4, <2>7
<1>8. \A i \in DOMAIN a : IsOrphan(a[i], b) => IsOrphan(a[i], a)
  BY <1>6 DEF IsOrphan
<1>9. Begins(RemoveOrphanOutputs(a), RemoveOrphanOutputs(b))
  BY <1>4, <1>5, <1>7, <1>8, RemoveKeepsBeginning
<1>10. ForPrompt(old) \in Seq(S) /\ ForPrompt(new) \in Seq(S)
  BY <1>2, ForPromptIsPaired
<1> QED
  BY <1>9, <1>10, BeginsIsPrefix DEF ForPrompt, a, b

-----------------------------------------------------------------------------
(* The prompts of a turn *)

\* No call was started by an attempt that is yet to come.
OriginsArePast ==
    \A c \in Calls :
        /\ origin[c].turn <= now.turn /\ origin[c].request <= now.request
        /\ origin[c].turn = now.turn /\ origin[c].request = now.request => origin[c].retry <= now.retry

\* The server may yet put it out.
IsServed(c) == tool[c] = "server" /\ origin[c] = now /\ at \in {"stream", "spawn"}

\* The output of c may yet come.
Awaited(c) == c = calling \/ IsServed(c) \/ \E m \in DOMAIN inFlight : inFlight[m] = c

\* The calls that had no output when the history had n items get none.
GivenUp(n) ==
    \A i \in CallsWithoutOutput(SubSeq(history, 1, n)) :
        i \in CallsWithoutOutput(history) /\ ~Awaited(history[i].id)

\* The prompt is that of a beginning of the history.
PromptIsOld ==
    prompt = <<>> \/ \E n \in 0..Len(history) :
                        prompt = ForPrompt(SubSeq(history, 1, n)) /\ GivenUp(n)

PromptInv == OutputsFollow(history) /\ PromptIsPaired /\ PromptIsOld

\* The history is made of items, and so are the outputs of its calls.
LEMMA HistoryFacts ==
    ASSUME IInv
    PROVE  /\ history \in Seq(Items) /\ Closed(Items)
           /\ Len(history) \in Nat /\ DOMAIN history = 1..Len(history)
           /\ \A i \in DOMAIN history : IsCall(history[i]) => history[i].id \in Calls
<1>1. history \in Seq(Items)
  BY DEF IInv, HistoryInv
<1>2. Closed(Items)
  <2> SUFFICES ASSUME NEW item \in Items, IsCall(item) PROVE OutputOf(item) \in Items
    BY DEF Closed
  <2>1. PICK c \in Calls : item = CallItem(Kind(c), c)
    BY DEF Items, IsCall, UserMessage, OutputItem, ServerOutput, CallItem
  <2>2. OutputOf(item) = OutputItem(Kind(c), c)
    BY <2>1 DEF OutputOf, CallItem
  <2> QED
    BY <2>2, ItemFacts
<1> QED
  BY <1>1, <1>2, ItemFacts

\* The beginnings of a history are those of what it becomes.
LEMMA BeginningFacts ==
    ASSUME NEW S, NEW items \in Seq(S), NEW n \in 0..Len(items)
    PROVE  LET beginning == SubSeq(items, 1, n) IN
           /\ beginning \in Seq(S) /\ Len(beginning) = n /\ DOMAIN beginning = 1..n
           /\ \A i \in 1..n : beginning[i] = items[i]
           /\ Begins(beginning, items)
<1> DEFINE beginning == SubSeq(items, 1, n)
<1>1. \A i \in 1..n : items[i] \in S
  OBVIOUS
<1>2. beginning \in Seq(S) /\ Len(beginning) = n /\ \A i \in 1..n : beginning[i] = items[i]
  BY <1>1, SubSeqProperties
<1> HIDE DEF beginning
<1>3. DOMAIN beginning = 1..n /\ Begins(beginning, items)
  BY <1>2 DEF Begins
<1> QED
  BY <1>2, <1>3 DEF beginning

\* Attempts follow each other, and a call is started by the one at hand.
LEMMA NextKeepsOrigins ==
    ASSUME IInv, OriginsArePast, [Next]_vars
    PROVE  OriginsArePast'
<1>1. ToolTypeOK /\ ToolTypeOK'
  BY NextKeepsInv DEF IInv
<1>2. /\ now.turn \in Nat /\ now.request \in Nat /\ now.retry \in Nat
      /\ \A c \in Calls : /\ origin[c].turn \in Nat /\ origin[c].request \in Nat
                          /\ origin[c].retry \in Nat
  <2>1. now \in Attempts /\ \A c \in Calls : origin[c] \in Attempts
    BY <1>1 DEF ToolTypeOK
  <2>2. \A n \in Attempts : n.turn \in Nat /\ n.request \in Nat /\ n.retry \in Nat
    BY BoundsAssumption DEF Attempts
  <2> QED
    BY <2>1, <2>2
<1>3. CASE now' = now /\ (origin' = origin \/ \E c \in Calls : origin' = [origin EXCEPT ![c] = now])
  <2>1. \A d \in Calls : origin'[d] = origin[d] \/ origin'[d] = now
    BY <1>1, <1>3 DEF ToolTypeOK
  <2> QED
    BY <1>2, <1>3, <2>1 DEF OriginsArePast
<1>4. CASE origin' = origin /\ now' = [turn |-> now.turn, request |-> now.request + 1, retry |-> 0]
  BY <1>2, <1>4 DEF OriginsArePast
<1>5. CASE origin' = origin /\ now' = [now EXCEPT !.retry = @ + 1]
  <2>1. now'.turn = now.turn /\ now'.request = now.request /\ now'.retry = now.retry + 1
    BY <1>1, <1>5 DEF ToolTypeOK, Attempts
  <2> QED
    BY <1>2, <1>5, <2>1 DEF OriginsArePast
<1>6. CASE origin' = origin /\ now' = [turn |-> now.turn + 1, request |-> now.request, retry |-> 0]
  BY <1>2, <1>6 DEF OriginsArePast
<1>7. CASE BuildPrompt \/ Retry \/ StartTurn
  BY <1>4, <1>5, <1>6, <1>7 DEF BuildPrompt, Retry, StartTurn, toolVars
<1>8. CASE QuietStep /\ ~BuildPrompt /\ ~Retry
  BY <1>3, <1>8 DEF QuietStep, StopBuilding, GiveUp, StreamEnds, StreamCancelled, EndStream,
     Drained, OpenGate, Interrupt, toolVars
<1>9. CASE SpawnTool
  <2>1. calling \in Calls
    BY <1>9 DEF SpawnTool, IInv, Spawning
  <2> QED
    BY <1>3, <1>9, <2>1 DEF SpawnTool
<1>10. CASE AnswerDirectly \/ DrainNext \/ StreamFails \/ AbortTask
  BY <1>3, <1>10 DEF AnswerDirectly, DrainNext, StreamFails, AbortTask, turnVars, toolVars
<1>11. CASE \E c \in Calls : RecordCall(c) \/ RecordSearch(c) \/ RecordServerOutput(c)
  BY <1>3, <1>11 DEF RecordCall, RecordSearch, RecordServerOutput, turnVars, toolVars
<1>12. CASE \E c \in Calls : ToolGoesOn(c)
  BY <1>3, <1>12, ToolSteps
<1>13. CASE \E n \in 1..MaxTurns : Rollback(n)
  BY <1>3, <1>13 DEF Rollback, turnVars, toolVars
<1>14. CASE UNCHANGED vars
  BY <1>3, <1>14 DEF vars, turnVars, toolVars
<1> QED
  BY <1>7, <1>8, <1>9, <1>10, <1>11, <1>12, <1>13, <1>14 DEF Next, TurnGoesOn, QuietStep

\* The attempts of the calls are none that is yet to come.
THEOREM OriginsStayPast == Spec => []OriginsArePast
<1>1. Init => OriginsArePast
  <2> SUFFICES ASSUME Init PROVE OriginsArePast
    OBVIOUS
  <2>1. now \in [turn : Nat, request : Nat, retry : Nat] /\ \A c \in Calls : origin[c] = now
    BY DEF Init
  <2> QED
    BY <2>1 DEF OriginsArePast
<1>2. IInv /\ OriginsArePast /\ [Next]_vars => OriginsArePast'
  BY NextKeepsOrigins
<1> QED
  BY InvariantHolds, <1>1, <1>2, PTL DEF Spec

\* A step of the turn's task that goes on to another attempt gives up the searches
\* that the server has not put out.
LEMMA QuietStepServesNoMore ==
    ASSUME IInv, OriginsArePast, QuietStep, NEW c \in Calls, IsServed(c)'
    PROVE  IsServed(c)
<1>1. UNCHANGED <<tool, origin>> /\ (at' = "spawn" <=> at = "spawn")
  BY QuietSteps
<1>2. /\ now \in Attempts /\ origin[c] \in Attempts /\ MaxRequests \in Nat /\ MaxRetries \in Nat
      /\ MaxTurns \in Nat
  BY BoundsAssumption DEF IInv, ToolTypeOK
<1>3. /\ origin[c].request <= now.request
      /\ origin[c].turn = now.turn /\ origin[c].request = now.request =>
            origin[c].retry <= now.retry
  BY DEF OriginsArePast
<1>4. origin[c] = now' /\ at' \in {"stream", "spawn"} /\ tool[c] = "server"
  BY <1>1 DEF IsServed
<1>5. ~BuildPrompt
  BY <1>2, <1>3, <1>4 DEF BuildPrompt, Attempts
<1>6. ~Retry
  <2> SUFFICES ASSUME Retry PROVE FALSE
    OBVIOUS
  <2>1. now'.turn = now.turn /\ now'.request = now.request /\ now'.retry = now.retry + 1
    BY <1>2 DEF Retry, Attempts
  <2> QED
    BY <1>2, <1>3, <1>4, <2>1 DEF Attempts
<1>7. now' = now /\ at \in {"stream", "spawn"}
  BY <1>4, <1>5, <1>6 DEF QuietStep, StopBuilding, GiveUp, StreamEnds, StreamCancelled, EndStream,
     Drained, OpenGate, Interrupt
<1> QED
  BY <1>4, <1>7 DEF IsServed

\* Steps that leave the items and await no other tool.
LEMMA SameItemsKeepPrompt ==
    ASSUME IInv, PromptInv, UNCHANGED <<history, prompt>>,
           \A c \in Calls : Awaited(c)' => Awaited(c)
    PROVE  PromptInv'
<1>1. ASSUME NEW n \in 0..Len(history), GivenUp(n) PROVE GivenUp(n)'
  BY <1>1, HistoryFacts DEF GivenUp, CallsWithoutOutput
<1>2. PromptIsOld'
  BY <1>1 DEF PromptInv, PromptIsOld
<1> QED
  BY <1>2 DEF PromptInv, PromptIsPaired

\* An item may be recorded that has no output yet, and is the output of no call
\* but those awaited.
LEMMA AppendKeepsPrompt ==
    ASSUME IInv, PromptInv, NEW item \in Items, history' = Append(history, item), prompt' = prompt,
           \A i \in DOMAIN history : /\ ~Answers(history[i], item)
                                     /\ Answers(item, history[i]) => Awaited(history[i].id),
           \A i \in DOMAIN history :
              IsCall(history[i]) /\ Awaited(history[i].id)' => Awaited(history[i].id)
    PROVE  PromptInv'
<1>1. history \in Seq(Items) /\ Len(history) \in Nat /\ DOMAIN history = 1..Len(history)
  BY HistoryFacts
<1>2. /\ history' \in Seq(Items) /\ Len(history') = Len(history) + 1
      /\ DOMAIN history' = 1..(Len(history) + 1)
      /\ \A i \in DOMAIN history : history'[i] = history[i]
      /\ history'[Len(history) + 1] = item
  BY <1>1, AppendFacts
<1>3. ~Answers(item, item)
  BY OutputOfFacts
<1>4. OutputsFollow(history')
  BY <1>1, <1>2, <1>3 DEF PromptInv, OutputsFollow
<1>5. ASSUME NEW n \in 0..Len(history)
      PROVE  SubSeq(history', 1, n) = SubSeq(history, 1, n) /\ n \in 0..Len(history')
  <2> DEFINE a == SubSeq(history, 1, n)
             b == SubSeq(history', 1, n)
  <2>1. n \in 0..Len(history')
    BY <1>1, <1>2
  <2>2. a \in Seq(Items) /\ Len(a) = n /\ \A i \in 1..n : a[i] = history[i]
    BY <1>1, BeginningFacts
  <2>3. b \in Seq(Items) /\ Len(b) = n /\ \A i \in 1..n : b[i] = history'[i]
    BY <1>2, <2>1, BeginningFacts
  <2> HIDE DEF a, b
  <2>4. \A i \in 1..n : a[i] = b[i]
    BY <1>1, <1>2, <2>2, <2>3
  <2>5. a = b
    BY <2>2, <2>3, <2>4, SeqEqual
  <2> QED
    BY <2>1, <2>5 DEF a, b
<1>6. ASSUME NEW n \in 0..Len(history), GivenUp(n)
      PROVE  GivenUp(n)'
  <2> SUFFICES ASSUME NEW i \in CallsWithoutOutput(SubSeq(history, 1, n))
               PROVE  i \in CallsWithoutOutput(history') /\ ~(Awaited(history[i].id)') /\ history'[i] = history[i]
    BY <1>5 DEF GivenUp, Awaited
  <2>1. i \in CallsWithoutOutput(history) /\ ~Awaited(history[i].id)
    BY <1>6 DEF GivenUp
  <2>2. i \in DOMAIN history /\ IsCall(history[i])
    BY <2>1 DEF CallsWithoutOutput
  <2>3. i \in CallsWithoutOutput(history')
    BY <1>1, <1>2, <2>1, <2>2 DEF CallsWithoutOutput
  <2> QED
    BY <1>2, <2>1, <2>2, <2>3
<1>7. PromptIsOld'
  <2>1. CASE prompt = <<>>
    BY <2>1 DEF PromptIsOld
  <2>2. ASSUME NEW n \in 0..Len(history), prompt = ForPrompt(SubSeq(history, 1, n)), GivenUp(n)
        PROVE  PromptIsOld'
    <3>1. prompt' = ForPrompt(SubSeq(history', 1, n)) /\ GivenUp(n)' /\ n \in 0..Len(history')
      BY <1>5, <1>6, <2>2
    <3> QED
      BY <3>1 DEF PromptIsOld
  <2> QED
    BY <2>1, <2>2 DEF PromptInv, PromptIsOld
<1> QED
  BY <1>4, <1>7 DEF PromptInv, PromptIsPaired

\* No tool is awaited between the requests, so that the calls without an output
\* are given up: the new prompt is paired and begins with the old one.
LEMMA BuildPromptFacts ==
    ASSUME IInv, PromptInv, OriginsArePast, BuildPrompt
    PROVE  PromptInv' /\ IsPrefix(prompt, prompt')
<1>1. at = "build" /\ prompt' = ForPrompt(history) /\ UNCHANGED <<history, calling, inFlight>>
  BY DEF BuildPrompt, ForPrompt
<1>2. /\ history \in Seq(Items) /\ Closed(Items)
      /\ Len(history) \in Nat /\ DOMAIN history = 1..Len(history)
      /\ \A i \in DOMAIN history : IsCall(history[i]) => history[i].id \in Calls
      /\ OutputsFollow(history)
  BY HistoryFacts DEF PromptInv
<1>3. \A c \in Calls : ~Awaited(c) /\ ~Awaited(c)'
  <2>1. \A c \in Calls : ~Awaited(c)
    BY <1>1 DEF IInv, Spawning, Current, Awaited, IsServed
  <2>2. \A c \in Calls : ~(IsServed(c)')
    BY <2>1, QuietStepServesNoMore DEF QuietStep, Awaited
  <2> QED
    BY <1>1, <2>1, <2>2 DEF Awaited
<1>4. prompt' \in Seq(Items) /\ IsPaired(prompt')
  BY <1>1, <1>2, ForPromptIsPaired
<1>5. PromptIsOld'
  <2>1. SubSeq(history, 1, Len(history)) = history /\ Len(history) \in 0..Len(history)
    BY <1>2, SubSeqFull
  <2>2. GivenUp(Len(history))
    BY <1>2, <1>3, <2>1 DEF GivenUp, CallsWithoutOutput
  <2>3. GivenUp(Len(history))'
    BY <1>1, <1>2, <1>3, <2>2 DEF GivenUp, CallsWithoutOutput
  <2> QED
    BY <1>1, <2>1, <2>3 DEF PromptIsOld
<1>6. PromptInv'
  BY <1>1, <1>2, <1>4, <1>5 DEF PromptInv, PromptIsPaired
<1>7. CASE prompt = <<>>
  <2>1. prompt \in Seq(Items) /\ Begins(prompt, prompt')
    BY <1>4, <1>7 DEF Begins
  <2> QED
    BY <1>4, <1>6, <2>1, BeginsIsPrefix
<1>8. ASSUME NEW n \in 0..Len(history), prompt = ForPrompt(SubSeq(history, 1, n)), GivenUp(n)
      PROVE  IsPrefix(prompt, prompt')
  <2> DEFINE old == SubSeq(history, 1, n)
  <2>1. old \in Seq(Items) /\ Begins(old, history)
    BY <1>2, BeginningFacts
  <2>2. \A i \in CallsWithoutOutput(old) : i \in CallsWithoutOutput(history)
    BY <1>8 DEF GivenUp
  <2>3. prompt = ForPrompt(old)
    BY <1>8
  <2> HIDE DEF old
  <2>4. IsPrefix(ForPrompt(old), ForPrompt(history))
    BY <1>2, <2>1, <2>2, ForPromptGrows
  <2> QED
    BY <1>1, <2>3, <2>4
<1> QED
  BY <1>6, <1>7, <1>8 DEF PromptInv, PromptIsOld

\* A rollback leaves a prefix of the history and forgets the prompt.
LEMMA RollbackKeepsPrompt ==
    ASSUME IInv, PromptInv, NEW n, Rollback(n)
    PROVE  PromptInv' /\ prompt' = <<>>
<1>1. history' = DropLastNUserTurns(history, n) /\ prompt' = <<>>
  BY DEF Rollback
<1>2. DOMAIN history' \subseteq DOMAIN history /\ \A i \in DOMAIN history' : history'[i] = history[i]
  BY <1>1, HistoryFacts, RollbackLeavesPrefix
<1>3. OutputsFollow(history')
  BY <1>2 DEF PromptInv, OutputsFollow
<1> QED
  BY <1>1, <1>3 DEF PromptInv, PromptIsPaired, IsPaired, PromptIsOld

\* A recorded call is new, and no output of it is there.
LEMMA AppendCallKeepsPrompt ==
    ASSUME IInv, PromptInv, NEW c \in Calls, MayCall(c), NEW item \in Items,
           history' = Append(history, item), prompt' = prompt,
           ~IsOutput(item), IsCall(item) => item.id = c,
           \A d \in Calls : d # c /\ Awaited(d)' => Awaited(d)
    PROVE  PromptInv'
<1>1. tool[c] = "none" /\ \A i \in DOMAIN history : IsCall(history[i]) => history[i].id # c
  BY DEF MayCall
<1>2. \A i \in DOMAIN history : ~Answers(history[i], item) /\ ~Answers(item, history[i])
  BY <1>1 DEF IInv, HistoryInv, AnsweredIsDone, Answers
<1>3. \A i \in DOMAIN history :
          IsCall(history[i]) /\ Awaited(history[i].id)' => Awaited(history[i].id)
  BY <1>1, HistoryFacts
<1> QED
  BY <1>2, <1>3, AppendKeepsPrompt

\* That of a call whose tool is started ...
LEMMA RecordCallKeepsPrompt ==
    ASSUME IInv, PromptInv, NEW c \in Calls, RecordCall(c)
    PROVE  PromptInv' /\ prompt' = prompt
<1>1. PICK id \in {c, NoCall} : history' = Append(history, CallItem(Kind(c), id))
  BY DEF RecordCall
<1> DEFINE item == CallItem(Kind(c), id)
<1>2. /\ MayCall(c) /\ at = "stream" /\ calling' = c
      /\ UNCHANGED <<now, prompt, inFlight, tool, origin>>
  BY DEF RecordCall, MayCall, toolVars
<1>3. item \in Items /\ ~IsOutput(item) /\ (IsCall(item) => item.id = c)
  BY <1>1, ItemFacts, CallsAssumption DEF Ids
<1>4. history' = Append(history, item)
  BY <1>1
<1> HIDE DEF item
<1>5. \A d \in Calls : d # c /\ Awaited(d)' => Awaited(d)
  BY <1>2 DEF Awaited, IsServed
<1> QED
  BY <1>2, <1>3, <1>4, <1>5, AppendCallKeepsPrompt

\* ... or of a search that is not done here.
LEMMA RecordSearchKeepsPrompt ==
    ASSUME IInv, PromptInv, NEW c \in Calls, RecordSearch(c)
    PROVE  PromptInv' /\ prompt' = prompt
<1>1. PICK id \in {c, NoCall} : history' = Append(history, CallItem("search", id))
  BY DEF RecordSearch
<1> DEFINE item == CallItem("search", id)
<1>2. /\ MayCall(c) /\ Kind(c) = "search"
      /\ UNCHANGED <<at, now, prompt, calling, inFlight>>
      /\ tool' = [tool EXCEPT ![c] = "server"] /\ origin' = [origin EXCEPT ![c] = now]
  BY CallsAssumption DEF RecordSearch, Kind, turnVars
<1>3. item \in Items /\ ~IsOutput(item) /\ (IsCall(item) => item.id = c)
  BY <1>1, <1>2, ItemFacts, CallsAssumption DEF Ids
<1>4. history' = Append(history, item)
  BY <1>1
<1> HIDE DEF item
<1>5. \A d \in Calls : d # c => tool'[d] = tool[d] /\ origin'[d] = origin[d]
  BY <1>2 DEF IInv, ToolTypeOK
<1>6. \A d \in Calls : d # c /\ Awaited(d)' => Awaited(d)
  BY <1>2, <1>5 DEF Awaited, IsServed
<1> QED
  BY <1>2, <1>3, <1>4, <1>6, AppendCallKeepsPrompt

\* What the server puts out was awaited.
LEMMA RecordServerOutputKeepsPrompt ==
    ASSUME IInv, PromptInv, NEW c \in Calls, RecordServerOutput(c)
    PROVE  PromptInv' /\ prompt' = prompt
<1>1. PICK id \in {c, NoCall} : history' = Append(history, ServerOutput(id))
  BY DEF RecordServerOutput
<1> DEFINE item == ServerOutput(id)
<1>2. /\ at = "stream" /\ tool[c] = "server" /\ origin[c] = now
      /\ tool' = [tool EXCEPT ![c] = "gone"]
      /\ UNCHANGED <<at, now, prompt, calling, inFlight, origin>>
  BY DEF RecordServerOutput, turnVars
<1>3. item \in Items /\ ~IsCall(item) /\ item.id = id
  BY <1>1, ItemFacts DEF Ids
<1>4. history' = Append(history, item)
  BY <1>1
<1> HIDE DEF item
<1>5. Awaited(c)
  BY <1>2 DEF Awaited, IsServed
<1>6. \A d \in Calls : Awaited(d)' => Awaited(d)
  BY <1>2 DEF IInv, ToolTypeOK, Awaited, IsServed
<1>7. \A i \in DOMAIN history : /\ ~Answers(history[i], item)
                                /\ Answers(item, history[i]) => Awaited(history[i].id)
  BY <1>3, <1>5 DEF Answers, IsCall
<1>8. \A i \in DOMAIN history :
          IsCall(history[i]) /\ Awaited(history[i].id)' => Awaited(history[i].id)
  <2>1. \A i \in DOMAIN history : history'[i] = history[i]
    BY <1>3, <1>4, HistoryFacts, AppendFacts
  <2> QED
    BY <1>6, <2>1, HistoryFacts
<1> QED
  BY <1>2, <1>3, <1>4, <1>7, <1>8, AppendKeepsPrompt

\* An item that answers no call may always be recorded.
LEMMA AppendOtherKeepsPrompt ==
    ASSUME IInv, PromptInv, NEW item \in Items, history' = Append(history, item), prompt' = prompt,
           ~IsCall(item), IsOutput(item) => item.id = NoCall,
           \A c \in Calls : Awaited(c)' => Awaited(c)
    PROVE  PromptInv'
<1>1. \A i \in DOMAIN history : ~Answers(history[i], item) /\ ~Answers(item, history[i])
  BY HistoryFacts, CallsAssumption DEF Answers
<1>2. \A i \in DOMAIN history :
          IsCall(history[i]) /\ Awaited(history[i].id)' => Awaited(history[i].id)
  BY HistoryFacts
<1> QED
  BY <1>1, <1>2, AppendKeepsPrompt

\* What is drained was awaited.
LEMMA DrainNextKeepsPrompt ==
    ASSUME IInv, PromptInv, DrainNext
    PROVE  PromptInv' /\ prompt' = prompt
<1> DEFINE c == Head(inFlight)
           item == OutputItem(Kind(c), c)
<1>1. /\ inFlight # <<>> /\ inFlight' = Tail(inFlight)
      /\ UNCHANGED <<calling, prompt, at, now, tool, origin>>
      /\ history' = history \/ history' = Append(history, item)
  BY DEF DrainNext, turnVars, toolVars
<1>2. inFlight \in Seq(Calls)
  BY DEF IInv, ToolTypeOK
<1>3. /\ c \in Calls /\ c = inFlight[1] /\ 1 \in DOMAIN inFlight
      /\ \A m \in DOMAIN inFlight' : m + 1 \in DOMAIN inFlight /\ inFlight'[m] = inFlight[m + 1]
  BY <1>1, <1>2, TailFacts
<1>4. item \in Items /\ IsOutput(item) /\ ~IsCall(item) /\ item.id = c
  BY <1>3, ItemFacts
<1> HIDE DEF c, item
<1>5. \A d : Awaited(d)' => Awaited(d)
  BY <1>1, <1>3 DEF Awaited, IsServed
<1>6. CASE history' = history
  BY <1>1, <1>5, <1>6, SameItemsKeepPrompt
<1>7. CASE history' = Append(history, item)
  <2>1. \A i \in DOMAIN history : /\ ~Answers(history[i], item)
                                  /\ Answers(item, history[i]) => Awaited(history[i].id)
    BY <1>3, <1>4 DEF Answers, Awaited
  <2> QED
    BY <1>1, <1>4, <1>5, <1>7, <2>1, AppendKeepsPrompt
<1> QED
  BY <1>1, <1>6, <1>7

\* Every step keeps the prompt paired, and extends it, leaves it or forgets it.
LEMMA NextKeepsPrompt ==
    ASSUME IInv, PromptInv, OriginsArePast, [Next]_vars
    PROVE  PromptInv' /\ (prompt' = prompt \/ prompt' = <<>> \/ IsPrefix(prompt, prompt'))
<1> USE DEF itemVars
<1>1. CASE BuildPrompt
  BY <1>1, BuildPromptFacts
<1>2. CASE QuietStep /\ ~BuildPrompt
  <2>1. UNCHANGED <<history, calling, inFlight>>
    BY <1>2, QuietSteps
  <2>2. prompt' = prompt
    BY <1>2 DEF QuietStep, StopBuilding, Retry, GiveUp, StreamEnds, StreamCancelled, EndStream,
       Drained, OpenGate, Interrupt
  <2>3. \A c \in Calls : Awaited(c)' => Awaited(c)
    BY <1>2, <2>1, QuietStepServesNoMore DEF Awaited
  <2> QED
    BY <2>1, <2>2, <2>3, SameItemsKeepPrompt
<1>3. CASE SpawnTool
  <2>1. /\ UNCHANGED <<history, prompt, now>> /\ calling' = NoCall /\ at = "spawn"
        /\ inFlight' = Append(inFlight, calling)
        /\ tool' = [tool EXCEPT ![calling] = "queued"] /\ origin' = [origin EXCEPT ![calling] = now]
    BY <1>3 DEF SpawnTool
  <2>2. calling \in Calls /\ inFlight \in Seq(Calls)
    BY <1>3 DEF SpawnTool, IInv, Spawning, ToolTypeOK
  <2>3. /\ DOMAIN inFlight = 1..Len(inFlight) /\ DOMAIN inFlight' = 1..(Len(inFlight) + 1)
        /\ \A m \in DOMAIN inFlight : inFlight'[m] = inFlight[m]
        /\ inFlight'[Len(inFlight) + 1] = calling /\ Len(inFlight) \in Nat
    BY <2>1, <2>2, AppendFacts
  <2>4. \A c \in Calls : IsServed(c)' => IsServed(c)
    BY <2>1, <2>2 DEF IInv, ToolTypeOK, IsServed
  <2>5. \A c \in Calls : Awaited(c)' => Awaited(c)
    BY <2>1, <2>3, <2>4, CallsAssumption DEF Awaited
  <2> QED
    BY <2>1, <2>5, SameItemsKeepPrompt
<1>4. CASE DrainNext
  BY <1>4, DrainNextKeepsPrompt
<1>5. CASE StreamFails \/ AbortTask
  <2>1. /\ UNCHANGED <<history, prompt>> /\ inFlight' = <<>> /\ calling' \in {calling, NoCall}
        /\ at' \in {"backoff", "over"}
    BY <1>5 DEF StreamFails, AbortTask, DropInFlight
  <2>2. \A c \in Calls : Awaited(c)' => Awaited(c)
    BY <2>1, CallsAssumption DEF Awaited, IsServed
  <2> QED
    BY <2>1, <2>2, SameItemsKeepPrompt
<1>6. CASE AnswerDirectly \/ StartTurn
  <2>1. /\ history' = Append(history, OutputItem("function", NoCall)) \/ history' = Append(history, UserMessage)
        /\ UNCHANGED <<prompt, inFlight>> /\ calling' \in {calling, NoCall}
    BY <1>6 DEF AnswerDirectly, StartTurn
  <2>2. ASSUME NEW c \in Calls, IsServed(c)' PROVE IsServed(c)
    <3>1. AnswerDirectly
      BY <1>6, <2>2 DEF StartTurn, IsServed
    <3> QED
      BY <2>2, <3>1 DEF AnswerDirectly, IInv, ToolTypeOK, IsServed
  <2>3. \A c \in Calls : Awaited(c)' => Awaited(c)
    BY <2>1, <2>2, CallsAssumption DEF Awaited
  <2> QED
    BY <2>1, <2>3, ItemFacts, AppendOtherKeepsPrompt
<1>7. CASE \E c \in Calls : RecordCall(c) \/ RecordSearch(c) \/ RecordServerOutput(c)
  BY <1>7, RecordCallKeepsPrompt, RecordSearchKeepsPrompt, RecordServerOutputKeepsPrompt
<1>8. CASE \E c \in Calls : ToolGoesOn(c)
  <2>1. UNCHANGED <<at, now, history, calling, inFlight, origin>>
    BY <1>8, ToolSteps
  <2>2. prompt' = prompt
    BY <1>8 DEF ToolGoesOn, Acquire, Listen, PassGate, Finish, CancelTool, Reap
  <2>3. \A c \in Calls : tool'[c] = "server" => tool[c] = "server"
    BY <1>8, ToolSteps DEF IsOurs
  <2> QED
    BY <2>1, <2>2, <2>3, SameItemsKeepPrompt DEF Awaited, IsServed
<1>9. CASE \E n \in 1..MaxTurns : Rollback(n)
  BY <1>9, RollbackKeepsPrompt
<1>10. CASE UNCHANGED vars
  <2>1. UNCHANGED <<history, prompt, calling, inFlight, at, now, tool, origin>>
    BY <1>10 DEF vars, turnVars, itemVars, toolVars
  <2> QED
    BY <2>1, SameItemsKeepPrompt DEF Awaited, IsServed
<1> QED
  BY <1>1, <1>2, <1>3, <1>4, <1>5, <1>6, <1>7, <1>8, <1>9, <1>10 DEF Next, TurnGoesOn, QuietStep

\* At first there is neither a prompt nor the output of a call.
LEMMA InitHasPromptInv == Init => PromptInv
<1> SUFFICES ASSUME Init PROVE PromptInv
  OBVIOUS
<1>1. prompt = <<>>
  BY DEF Init
<1>2. \A i, j \in DOMAIN history : ~Answers(history[j], history[i])
  BY CallsAssumption DEF Init, UserMessage, CallItem, ServerOutput, IsOutput, IsCall, Answers
<1> QED
  BY <1>1, <1>2 DEF PromptInv, PromptIsPaired, IsPaired, PromptIsOld, OutputsFollow

\* Outputs follow their calls, and a prompt is paired and of a beginning of the history.
THEOREM PromptInvariantHolds == Spec => []PromptInv
<1>1. IInv /\ PromptInv /\ OriginsArePast /\ [Next]_vars => PromptInv'
  BY NextKeepsPrompt
<1> QED
  BY InvariantHolds, OriginsStayPast, InitHasPromptInv, <1>1, PTL DEF Spec

\* normalize_history: whatever tools were dropped, failed, cancelled or rolled
\* back, a prompt has an output behind each of its calls that has an id, and no
\* output alone but for those of searches by the server or without an id.
THEOREM PromptsArePaired == Spec => []PromptIsPaired
<1>1. PromptInv => PromptIsPaired
  BY DEF PromptInv
<1> QED
  BY <1>1, PromptInvariantHolds, PTL

\* But for rollbacks a prompt begins with the one before: the output put behind a
\* call that had none never meets a real one.
THEOREM PromptsAreExtended == Spec => PromptsOnlyGrow
<1>1. IInv /\ PromptInv /\ OriginsArePast /\ [Next]_vars =>
        [prompt' = <<>> \/ IsPrefix(prompt, prompt')]_prompt
  BY NextKeepsPrompt
<1> QED
  BY InvariantHolds, OriginsStayPast, PromptInvariantHolds, <1>1, PTL DEF Spec, PromptsOnlyGrow
=============================================================================
