----------------------------- MODULE MCAgentPool -----------------------------
(* Two agents, three runs, two concurrent stops and one dashboard terminal, *)
(* with room for one Busy agent and two sessions.                           *)
EXTENDS AgentPool, TLC

CONSTANTS a1, a2, t1, t2, t3, p1, p2, s1

MCSymmetry ==
    Permutations({a1, a2}) \cup Permutations({t1, t2, t3}) \cup Permutations({p1, p2})
==============================================================================
