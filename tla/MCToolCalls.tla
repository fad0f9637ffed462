----------------------------- MODULE MCToolCalls -----------------------------
(* The tool calls of a turn, and the work of a long one among them, a job  *)
(* over the rows of a CSV.  A behaviour is one of one of them, as `runs`   *)
(* says from the start.                                                    *)
EXTENDS ToolCalls, AgentJobs, TLC

CONSTANTS c1, c2, i1, i2, i3

\* A local shell that mutates and works alone (as where the turn has another shell
\* tool), and a search beside others.
TwoCalls == {c1, c2}
First == {c1}
Second == {c2}

None == {}

ThreeItems == {i1, i2, i3}

VARIABLE runs

\* The calls the system does not answer itself, or not under their id.
ShellWithoutId == CallItem("function", NoCall) \in ToSet(history)
SearchElsewhere ==
    \/ tool[c2] = "server"
    \/ {CallItem("search", NoCall), ServerOutput(c2)} \cap ToSet(history) # {}
Unusual == ShellWithoutId \/ SearchElsewhere

\* Bound: there is one of them at most, recorded by the first attempt of the first
\* turn, and while the history has it there is no other turn.
FewUnusual ==
    Unusual' =>
        /\ ~(ShellWithoutId' /\ SearchElsewhere')
        /\ now'.turn = 1
        /\ Unusual \/ (now'.request = 1 /\ now'.retry = 0)

RunsInit ==
    /\ runs \in {"calls", "job"}
    /\ Init /\ JobInit
    /\ runs = "job" => history = <<UserMessage>>

RunsNext ==
    \/ runs = "calls" /\ Next /\ FewUnusual /\ UNCHANGED <<runs, jobVars>>
    \/ runs = "job" /\ JobNext /\ UNCHANGED <<runs, vars>>

RunsSpec ==
    /\ RunsInit /\ [][RunsNext]_<<runs, vars, jobVars>>
    /\ WF_vars(runs = "calls" /\ TurnGoesOn)
    /\ WF_vars(runs = "calls" /\ OpenGate)
    /\ \A c \in Calls : WF_vars(runs = "calls" /\ ToolGoesOn(c))
    /\ WF_jobVars(runs = "job" /\ RunnerStep)
    /\ \A i \in Items : WF_jobVars(runs = "job" /\ TimeIsUp(i))
=============================================================================
