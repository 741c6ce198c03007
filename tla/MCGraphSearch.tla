---------------------------- MODULE MCGraphSearch ----------------------------
(* Four agents, three tasks and at most MaxEdges pipes: enough for cycles   *)
(* of two and three, and for an agent that the search meets twice. Agents   *)
(* and tasks are alike, so that they can be numbered in the order in which  *)
(* nodes name them (Named). Follow-ups, which the search does not read, are *)
(* recorded in graphs of one pipe, and those are not searched again.        *)
EXTENDS GraphSearch

CONSTANTS a1, a2, a3, a4, t1, t2, t3, MaxEdges

Named ==
    /\ nodeAgent'[t1] \in {NoAgent, a1}
    /\ nodeAgent'[t2] = NoAgent \/ (nodeAgent'[t1] = a1 /\ nodeAgent'[t2] \in {a1, a2})
    /\ nodeAgent'[t3] = NoAgent \/ (nodeAgent'[t2] # NoAgent /\ nodeAgent'[t3] \in {a1, nodeAgent'[t2], a3})

NoneGenerated == \A i \in DOMAIN edges : edges[i].generated = NoTask

MCSearchNext ==
    \/ /\ Len(edges) < MaxEdges /\ NoneGenerated
       /\ \E t \in TaskIds, b \in AgentIds : Propose(t, b)
    \/ SearchStep
    \/ OtherOperation /\ Named /\ (Len(edges) = 1 \/ NoneGenerated')

MCSearchSpec == SearchInit /\ [][MCSearchNext]_allVars /\ WF_allVars(SearchStep)
==============================================================================
