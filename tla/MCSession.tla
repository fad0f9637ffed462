------------------------------ MODULE MCSession ------------------------------
(* What a session keeps while its calls come and go: the active turn, and  *)
(* the processes that outlive the turn they were started in.  A behaviour  *)
(* is one of one of them, as `keeps` says from the start; the same names   *)
(* stand for the turns of the one and the calls of the other.              *)
EXTENDS MCTurnLifecycle, UnifiedExec

CONSTANT w1

OneWriter == {w1}

VARIABLE keeps

SessionInit ==
    keeps \in {"turns", "processes", "processes to empty"} /\ Init /\ ExecInit

\* Either processes are written to, or calls are interrupted and the store is
\* emptied: all of it in one behaviour is left to the instance of one call.
UndisturbedNext == ExecNext /\ UNCHANGED cleanups /\ \A c \in Calls : stage'[c] # "dropped"

SessionNext ==
    \/ keeps = "turns" /\ Next /\ UNCHANGED <<keeps, execVars>>
    \/ keeps = "processes" /\ UndisturbedNext /\ UNCHANGED <<keeps, vars>>
    \/ keeps = "processes to empty" /\ ExecNext /\ UNCHANGED <<keeps, writing, vars>>

SessionSpec == SessionInit /\ [][SessionNext]_<<keeps, vars, execVars>>
=============================================================================
