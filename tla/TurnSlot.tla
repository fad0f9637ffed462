------------------------------ MODULE TurnSlot ------------------------------
(***************************************************************************)
(* What a session promises about turns, whatever its tasks and operations  *)
(* do: there is one slot; a turn enters it only when it is empty, enters   *)
(* once, and is over for good when it has left.                            *)
(***************************************************************************)
CONSTANTS Turns, NoTurn

VARIABLES slot,  \* the active turn, or NoTurn
          over   \* the turns that have left the slot

Init == slot = NoTurn /\ over = {}

Enter(t) ==
    /\ slot = NoTurn
    /\ t \notin over
    /\ slot' = t
    /\ UNCHANGED over

Leave ==
    /\ slot # NoTurn
    /\ slot' = NoTurn
    /\ over' = over \cup {slot}

Next == Leave \/ \E t \in Turns : Enter(t)

Spec == Init /\ [][Next]_<<slot, over>>
=============================================================================
