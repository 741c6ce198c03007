----------------------------- MODULE Reachability -----------------------------
(* What agent_would_cycle means by one agent reaching another: membership in *)
(* the least set that holds the first agent and is closed under the arcs.    *)
CONSTANT AgentIds   \* agent ids a task or a pipe can name, known or not

Closed(S, arcs) == \A x, y \in AgentIds : <<x, y>> \in arcs /\ x \in S => y \in S

Reach(arcs, a) ==
    {b \in AgentIds : \A S \in SUBSET AgentIds : a \in S /\ Closed(S, arcs) => b \in S}
===============================================================================
