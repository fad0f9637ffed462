--------------------------- MODULE ContextHistory ---------------------------
(* What ContextManager does to the items of a thread's history before they *)
(* are sent to the model, and when turns are rolled back.  An item is a    *)
(* message of the user, a call of a tool or the output of one; calls and   *)
(* outputs belong together by their kind and call id.  Some have no id: a  *)
(* local shell call may come without one, and a tool search too, which the *)
(* server may execute itself and send the output of.                       *)
EXTENDS Integers, Sequences, FiniteSets, SequencesExt

CONSTANT NoCall     \* the call id of an item that has none

UserMessage == [type |-> "user"]
CallItem(kind, id) == [type |-> "call", kind |-> kind, id |-> id]
OutputItem(kind, id) == [type |-> "output", kind |-> kind, id |-> id, execution |-> "client"]
ServerOutput(id) == [type |-> "output", kind |-> "search", id |-> id, execution |-> "server"]

\* One without an id can have no output.
IsCall(item) == item.type = "call" /\ item.id # NoCall
IsOutput(item) == item.type = "output"

\* An output of a search that needs no call.
StandsAlone(item) == item.execution = "server" \/ (item.kind = "search" /\ item.id = NoCall)

\* output is that of call.
Answers(output, call) ==
    IsOutput(output) /\ IsCall(call) /\ output.kind = call.kind /\ output.id = call.id

----------------------------------------------------------------------------
(* for_prompt                                                              *)

CallsWithoutOutput(items) ==
    {i \in DOMAIN items :
        IsCall(items[i]) /\ \A j \in DOMAIN items : ~Answers(items[j], items[i])}

\* Goes through the positions in the order of walk and puts an output behind
\* each call that has none.
InsertOutputs(items, walk) ==
    LET missing == CallsWithoutOutput(items)
        inserted[n \in 0..Len(items)] ==
            IF n = 0 THEN items
            ELSE IF walk[n] \notin missing THEN inserted[n - 1]
            ELSE InsertAt(inserted[n - 1], walk[n] + 1,
                          OutputItem(items[walk[n]].kind, items[walk[n]].id))
    IN inserted[Len(items)]

\* Mutant: the outputs are inserted from the front.
EnsureOutputsInOrder(items) == InsertOutputs(items, [n \in DOMAIN items |-> n])

\* Mutant: they are added at the end.
AppendMissingOutputs(items) ==
    FoldLeft(LAMBDA acc, i : Append(acc, OutputItem(items[i].kind, items[i].id)),
             items, SetToSortSeq(CallsWithoutOutput(items), <))

\* In reverse, so that a position still holds when its turn comes.
EnsureCallOutputsPresent(items) ==
    InsertOutputs(items, [n \in DOMAIN items |-> Len(items) + 1 - n])

IsOrphan(item, items) ==
    /\ IsOutput(item) /\ ~StandsAlone(item)
    /\ \A i \in DOMAIN items : ~Answers(item, items[i])

RemoveOrphanOutputs(items) ==
    LET kept[n \in 0..Len(items)] ==
            IF n = 0 THEN <<>>
            ELSE IF IsOrphan(items[n], items) THEN kept[n - 1]
            ELSE Append(kept[n - 1], items[n])
    IN kept[Len(items)]

ForPrompt(items) == RemoveOrphanOutputs(EnsureCallOutputsPresent(items))

\* What the model is sent has an output for every call with an id, and after it,
\* and no output without its call, but for those of searches that stand alone.
IsPaired(items) ==
    /\ \A i \in DOMAIN items : IsCall(items[i]) =>
          \E j \in DOMAIN items : i < j /\ Answers(items[j], items[i])
    /\ \A j \in DOMAIN items : IsOutput(items[j]) /\ ~StandsAlone(items[j]) =>
          \E i \in DOMAIN items : i < j /\ Answers(items[j], items[i])

----------------------------------------------------------------------------
(* drop_last_n_user_turns                                                  *)

\* What precedes the first message of the user stays, and what has n or more of
\* them behind it.
DropLastNUserTurns(items, n) ==
    LET users == {i \in DOMAIN items : items[i].type = "user"}
        Stays(i) == (\A u \in users : i < u) \/ Cardinality({u \in users : i < u}) >= n
    IN SubSeq(items, 1, Cardinality({i \in DOMAIN items : Stays(i)}))
=============================================================================
