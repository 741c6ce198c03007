------------------------------- MODULE TaskGraph -------------------------------
(***************************************************************************)
(* orchestrator/task_graph.rs: the graph of tasks and of the pipes between *)
(* them.  A node is a task with the agent it was first inserted for; an    *)
(* edge is a pipe from a task to an agent.  Nodes and edges are never      *)
(* removed.  add_edge keeps the agent-level graph free of cycles, so that  *)
(* a pipeline of follow-up tasks cannot feed itself for ever.              *)
(***************************************************************************)
EXTENDS Naturals, Sequences, Reachability

CONSTANTS
    TaskIds,    \* task ids
    Statuses,   \* TaskStatus values: the graph stores them and reads none
    NoTask,     \* generated_task_id = None
    NoAgent     \* a task that is not in the graph

ASSUME GraphAssumption ==
    NoAgent \notin AgentIds /\ NoTask \notin TaskIds /\ "absent" \notin Statuses

VARIABLES
    nodeStatus,   \* TaskNode.status, "absent" when there is no node
    nodeAgent,    \* TaskNode.agent_id
    edges         \* the TaskEdges, in insertion order

graphVars == <<nodeStatus, nodeAgent, edges>>

EdgeRecord == [source : TaskIds, target : AgentIds, generated : TaskIds \cup {NoTask}]

GraphTypeOK ==
    /\ nodeStatus \in [TaskIds -> Statuses \cup {"absent"}]
    /\ nodeAgent \in [TaskIds -> AgentIds \cup {NoAgent}]
    /\ edges \in Seq(EdgeRecord)

GraphInit ==
    /\ nodeStatus = [t \in TaskIds |-> "absent"]
    /\ nodeAgent = [t \in TaskIds |-> NoAgent]
    /\ edges = <<>>

(***************************************************************************)
(* agent_would_cycle.  The search from the target over the agent graph,    *)
(* the proposed arc included, finds the source if it is in its reach:      *)
(* GraphSearch.tla shows that of the loop in the code.                     *)
(***************************************************************************)

(* The agent-level graph: edges whose source is not a node are skipped.    *)
AgentArcs ==
    {<<nodeAgent[edges[i].source], edges[i].target>> :
        i \in {j \in DOMAIN edges : nodeStatus[edges[j].source] # "absent"}}

AgentWouldCycle(source, target) ==
    \/ source = target
    \/ source \in Reach(AgentArcs \cup {<<source, target>>}, target)

(* Mutation of UpsertNode: the agent is overwritten as the status is.      *)
UpsertBoth(t, a, st) ==
    /\ nodeAgent' = [nodeAgent EXCEPT ![t] = a]
    /\ nodeStatus' = [nodeStatus EXCEPT ![t] = st]

(***************************************************************************)
(* upsert_node: the agent of a node is the one of its first insertion.     *)
(***************************************************************************)
UpsertNode(t, a, st) ==
    /\ nodeAgent' = [nodeAgent EXCEPT ![t] = IF nodeStatus[t] = "absent" THEN a ELSE @]
    /\ nodeStatus' = [nodeStatus EXCEPT ![t] = st]

(***************************************************************************)
(* add_edge: refuses an unknown source and an edge that closes a cycle.    *)
(***************************************************************************)
CanAddEdge(t, b) ==
    /\ nodeStatus[t] # "absent"
    /\ nodeAgent[t] # b
    /\ ~AgentWouldCycle(nodeAgent[t], b)

NewEdge(t, b) == [source |-> t, target |-> b, generated |-> NoTask]

AddEdge(t, b) ==
    /\ CanAddEdge(t, b)
    /\ edges' = Append(edges, NewEdge(t, b))

(***************************************************************************)
(* set_generated_task: every edge between the two is updated.              *)
(***************************************************************************)
WithGenerated(es, t, b, n) ==
    [i \in DOMAIN es |->
        IF es[i].source = t /\ es[i].target = b
        THEN [source |-> t, target |-> b, generated |-> n]
        ELSE es[i]]

SetGenerated(t, b, n) == edges' = WithGenerated(edges, t, b, n)

(* The elements of a set of numbers in increasing order, at most max.      *)
InOrder(S, max) ==
    CHOOSE f \in UNION {[1..n -> S] : n \in 0..max} :
        /\ \A i, j \in DOMAIN f : i < j => f[i] < f[j]
        /\ \A x \in S : \E i \in DOMAIN f : f[i] = x

(* outgoing_for: the targets of a task's edges, in insertion order.        *)
OutgoingFor(t) ==
    LET nth == InOrder({i \in DOMAIN edges : edges[i].source = t}, Len(edges))
    IN  [k \in DOMAIN nth |-> edges[nth[k]].target]

GraphNext ==
    \/ \E t \in TaskIds, a \in AgentIds, st \in Statuses :
        UpsertNode(t, a, st) /\ UNCHANGED edges
    \/ \E t \in TaskIds, b \in AgentIds :
        AddEdge(t, b) /\ UNCHANGED <<nodeStatus, nodeAgent>>
    \/ \E t, n \in TaskIds, b \in AgentIds :
        SetGenerated(t, b, n) /\ UNCHANGED <<nodeStatus, nodeAgent>>

GraphSpec == GraphInit /\ [][GraphNext]_graphVars

--------------------------------------------------------------------------------
(***************************************************************************)
(* Properties.                                                             *)
(***************************************************************************)

(* "Cycle detection uses reachability analysis on the agent-level          *)
(* dependency graph": no agent can reach itself through the pipes, however *)
(* nodes and pipes were added.                                             *)
NoCycle(arcs) == \A x, y \in AgentIds : <<x, y>> \in arcs => x \notin Reach(arcs, y)

AgentAcyclic == NoCycle(AgentArcs)

(* Every edge hangs on a node, so the search never skips one, and its      *)
(* source agent is a real agent id.                                        *)
EdgesGrounded ==
    /\ \A i \in DOMAIN edges : nodeStatus[edges[i].source] # "absent"
    /\ \A t \in TaskIds : nodeStatus[t] # "absent" => nodeAgent[t] \in AgentIds

(* Upserts for another agent, pipes and follow-ups never rewire the agent  *)
(* graph: an arc that was checked once stays as it was checked.            *)
ArcsOnlyGrow == [][AgentArcs \subseteq AgentArcs' /\ Len(edges) <= Len(edges')]_graphVars
================================================================================
