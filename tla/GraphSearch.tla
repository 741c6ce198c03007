------------------------------ MODULE GraphSearch ------------------------------
(***************************************************************************)
(* TaskGraph::add_edge with the loop of agent_would_cycle in it: a         *)
(* depth-first search with an explicit stack and a seen set, from the      *)
(* target of the proposed pipe to the agent of its source.  TaskGraph says *)
(* by reachability what the search decides; here it is the loop.  The      *)
(* caller has the lock of the graph from the first step to the last.       *)
(***************************************************************************)
EXTENDS TaskGraph, FiniteSets

VARIABLES
    task, target,   \* the proposed edge: its source task and its target agent
    stack, seen,    \* the search
    verdict         \* "none": no call; "searching"; "cycle" or "free": what it found

searchVars == <<task, target, stack, seen, verdict>>
allVars == <<graphVars, searchVars>>

SearchTypeOK ==
    /\ task \in TaskIds \cup {NoTask} /\ target \in AgentIds \cup {NoAgent}
    /\ stack \in Seq(AgentIds)
    /\ seen \subseteq AgentIds
    /\ verdict \in {"none", "searching", "cycle", "free"}

SearchInit ==
    /\ GraphInit
    /\ task = NoTask /\ target = NoAgent
    /\ stack = <<>> /\ seen = {} /\ verdict = "none"

(* add_edge up to the loop: the source is known and is not the target.     *)
Propose(t, b) ==
    /\ verdict = "none"
    /\ nodeStatus[t] # "absent" /\ nodeAgent[t] # b
    /\ task' = t /\ target' = b
    /\ stack' = <<b>> /\ seen' = {} /\ verdict' = "searching"
    /\ UNCHANGED graphVars

(* The map that is searched has the proposed arc in it.                    *)
SearchArcs == AgentArcs \cup {<<nodeAgent[task], target>>}

Successors(node) == {n \in AgentIds : <<node, n>> \in SearchArcs}

(* The elements of a set, each once, in some order.                        *)
Orders(S) == {s \in [1..Cardinality(S) -> S] : \A x \in S : \E i \in DOMAIN s : s[i] = x}

(* Mutation of Rest: the top of the stack is read and not popped.          *)
Unpopped == stack

Top == stack[Len(stack)]
Rest == SubSeq(stack, 1, Len(stack) - 1)

(* Mutation of Push: the successors replace the stack.                     *)
PushForgetful(next) == stack' = next
Push(next) == stack' = Rest \o next

(* The agent was seen before.                                              *)
Skip ==
    /\ verdict = "searching" /\ stack # <<>>
    /\ Top \in seen
    /\ stack' = Rest
    /\ UNCHANGED <<graphVars, task, target, seen, verdict>>

(* The agent of the proposed edge's source.                                *)
Found ==
    /\ verdict = "searching" /\ stack # <<>>
    /\ Top \notin seen /\ Top = nodeAgent[task]
    /\ stack' = Rest /\ seen' = seen \cup {Top} /\ verdict' = "cycle"
    /\ UNCHANGED <<graphVars, task, target>>

(* Any other one: its successors are pushed.                               *)
Expand ==
    /\ verdict = "searching" /\ stack # <<>>
    /\ Top \notin seen /\ Top # nodeAgent[task]
    /\ \E next \in Orders(Successors(Top)) : Push(next)
    /\ seen' = seen \cup {Top}
    /\ UNCHANGED <<graphVars, task, target, verdict>>

Exhausted ==
    /\ verdict = "searching" /\ stack = <<>>
    /\ verdict' = "free"
    /\ UNCHANGED <<graphVars, task, target, stack, seen>>

(* Mutation of Conclude: what was found is not asked.                      *)
ConcludeAnyway ==
    /\ verdict \in {"cycle", "free"} /\ edges' = Append(edges, NewEdge(task, target))
    /\ verdict' = "none"
    /\ task' = NoTask /\ target' = NoAgent /\ stack' = <<>> /\ seen' = {}
    /\ UNCHANGED <<nodeStatus, nodeAgent>>

(* The rest of add_edge.                                                   *)
Conclude ==
    /\ \/ verdict = "free" /\ edges' = Append(edges, NewEdge(task, target))
       \/ verdict = "cycle" /\ UNCHANGED edges
    /\ verdict' = "none"
    /\ task' = NoTask /\ target' = NoAgent /\ stack' = <<>> /\ seen' = {}
    /\ UNCHANGED <<nodeStatus, nodeAgent>>

SearchStep == Skip \/ Found \/ Expand \/ Exhausted \/ Conclude

OtherOperation ==
    /\ verdict = "none"
    /\ \/ \E t \in TaskIds, a \in AgentIds, st \in Statuses : UpsertNode(t, a, st) /\ UNCHANGED edges
       \/ \E t, n \in TaskIds, b \in AgentIds :
             SetGenerated(t, b, n) /\ UNCHANGED <<nodeStatus, nodeAgent>>
    /\ UNCHANGED searchVars

SearchNext ==
    \/ \E t \in TaskIds, b \in AgentIds : Propose(t, b)
    \/ SearchStep
    \/ OtherOperation

(* A call that has begun goes on: add_edge never waits.                    *)
SearchSpec == SearchInit /\ [][SearchNext]_allVars /\ WF_allVars(SearchStep)

--------------------------------------------------------------------------------
(* The loop answers what AgentWouldCycle says by reachability, in every    *)
(* order of the successors (task_graph.rs:168-204).                        *)
SearchDecides ==
    verdict \in {"cycle", "free"} => (verdict = "cycle" <=> AgentWouldCycle(nodeAgent[task], target))

(* add_edge with its loop adds exactly the edges that TaskGraph's AddEdge  *)
(* may add.                                                                *)
SearchImplementsGraph == GraphSpec

(* The search ends, although the graph it walks has shared parts and, with *)
(* the proposed arc, may have a cycle.                                     *)
SearchEnds == verdict = "searching" ~> verdict = "none"
================================================================================
