------------------------------ MODULE MCServices ------------------------------
(* The services that the calls of a session share and what they hand out:  *)
(* slots, paths and nicknames of agents, and the approvals of hosts.  A    *)
(* behaviour is one of one of them, as `serves` says from the start; the   *)
(* same names stand for the actors of both.                                *)
EXTENDS AgentRegistry, NetworkApproval, TLC

CONSTANTS c1, c2, a1, a2, p1, n1, n2, idle

TwoCalls == {c1, c2}    \* agent calls, or attempts of tool calls
TwoAgents == {a1, a2}   \* agents, or connections
TwoNames == {n1, n2}    \* names, or hosts
OnePath == {p1}
TwoHosts == TwoNames \cup {idle}   \* and one to which nothing connects

ActorSymmetry == Permutations(TwoCalls) \cup Permutations(TwoAgents) \cup Permutations(TwoNames)

VARIABLE serves

\* At most one agent of an earlier run, with a nickname that the pool gives too.
OneEarlierAgent ==
    /\ Cardinality(rollouts) <= 1
    /\ \A t \in rollouts : nickname[t] \in Names \X {0}

\* What one kind of behaviour does not use is the same in all of them, and it is
\* the same under every permutation of the names.
ServicesInit ==
    /\ Init /\ NetworkInit /\ OneEarlierAgent
    /\ \/ serves = "agents" /\ \A r \in Requests : host[r] = idle
       \/ serves = "hosts" /\ rollouts = {} /\ \A r \in Requests : host[r] # idle

\* Bound: beside an agent of an earlier run, which resumes without a path, no call
\* asks for one.
PathsApart == borrowed # {} => \A c \in Calls : call'[c].path = NoPath

ServicesNext ==
    \/ serves = "agents" /\ Next /\ PathsApart /\ UNCHANGED <<serves, networkVars>>
    \/ serves = "hosts" /\ NetworkNext /\ UNCHANGED <<serves, vars>>

ServicesSpec == ServicesInit /\ [][ServicesNext]_<<serves, vars, networkVars>>
=============================================================================
