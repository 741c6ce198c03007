---------------------------- MODULE TaskGraphProofs ----------------------------
(***************************************************************************)
(* TLAPS proofs about TaskGraph and GraphSearch, for any number of agents, *)
(* tasks and pipes.                                                        *)
(***************************************************************************)
EXTENDS GraphSearch, FiniteSetTheorems, SequenceTheorems, TLAPS

(* An agent outside the reach of another is kept out of it by a closed set.*)
LEMMA SeparatingSet ==
    ASSUME NEW arcs, NEW x \in AgentIds, NEW y \in AgentIds, x \notin Reach(arcs, y)
    PROVE  \E S \in SUBSET AgentIds : y \in S /\ Closed(S, arcs) /\ x \notin S
  BY DEF Reach

(* Adding an arc from s to t keeps an acyclic graph acyclic when s is not  *)
(* reachable from t: what add_edge checks is enough.  A cycle through an   *)
(* old arc <<x, y>> is excluded by cutting the closed set that separates x *)
(* from y down to the closed set that separates s from t.                  *)
LEMMA ArcKeepsAcyclic ==
    ASSUME NEW arcs, NEW s \in AgentIds, NEW t \in AgentIds,
           NoCycle(arcs),
           s \notin Reach(arcs \cup {<<s, t>>}, t)
    PROVE  NoCycle(arcs \cup {<<s, t>>})
<1> DEFINE more == arcs \cup {<<s, t>>}
<1> SUFFICES ASSUME NEW x \in AgentIds, NEW y \in AgentIds, <<x, y>> \in more,
                    x \in Reach(more, y)
             PROVE  FALSE
    BY DEF NoCycle
<1>1. CASE <<x, y>> = <<s, t>>
  BY <1>1
<1>2. CASE <<x, y>> \in arcs
  <2>1. PICK S \in SUBSET AgentIds : y \in S /\ Closed(S, arcs) /\ x \notin S
    BY <1>2, SeparatingSet DEF NoCycle
  <2>2. PICK R \in SUBSET AgentIds : t \in R /\ Closed(R, more) /\ s \notin R
    BY SeparatingSet
  <2>3. Closed(S \cup R, more)
    BY <2>1, <2>2 DEF Closed
  <2>4. x \in R
    <3>1. x \in S \cup R
      BY <2>1, <2>2, <2>3 DEF Reach
    <3> QED BY <2>1, <3>1
  <2>5. y \in R
    BY <1>2, <2>2, <2>4 DEF Closed
  <2>6. Closed(S \cap R, more)
    BY <2>1, <2>2 DEF Closed
  <2>7. x \in S \cap R
    BY <2>1, <2>5, <2>6 DEF Reach
  <2> QED BY <2>1, <2>7
<1> QED BY <1>1, <1>2

(***************************************************************************)
(* The inductive invariant.  AgentArcs reads the nodes, so acyclicity is   *)
(* preserved only together with the fact that an edge hangs on a node.     *)
(***************************************************************************)
GraphInv == GraphTypeOK /\ EdgesGrounded /\ AgentAcyclic

(* Once every edge hangs on a node, the agent-level graph is the image of  *)
(* all edges.                                                              *)
LEMMA ArcsOfAllEdges ==
    ASSUME EdgesGrounded
    PROVE  AgentArcs = {<<nodeAgent[edges[i].source], edges[i].target>> : i \in DOMAIN edges}
  BY DEF EdgesGrounded, AgentArcs

(* upsert_node changes no arc: a node keeps its agent.                     *)
LEMMA UpsertKeepsGraph ==
    ASSUME GraphInv, NEW t \in TaskIds, NEW a \in AgentIds, NEW st \in Statuses,
           UpsertNode(t, a, st), UNCHANGED edges
    PROVE  GraphInv' /\ AgentArcs' = AgentArcs
<1> USE GraphAssumption
<1>1. GraphTypeOK'
  BY DEF GraphInv, GraphTypeOK, UpsertNode
<1>2. \A i \in DOMAIN edges : edges[i].source \in TaskIds
  <2>1. \A i \in DOMAIN edges : edges[i] \in EdgeRecord
    BY DEF GraphInv, GraphTypeOK
  <2> QED BY <2>1 DEF EdgeRecord
<1>3. EdgesGrounded'
  BY <1>2 DEF GraphInv, GraphTypeOK, EdgesGrounded, UpsertNode
<1>4. \A i \in DOMAIN edges : nodeAgent'[edges[i].source] = nodeAgent[edges[i].source]
  BY <1>2 DEF GraphInv, GraphTypeOK, EdgesGrounded, UpsertNode
<1>5. AgentArcs = {<<nodeAgent[edges[i].source], edges[i].target>> : i \in DOMAIN edges}
  BY ArcsOfAllEdges DEF GraphInv
<1>6. AgentArcs' = {<<nodeAgent'[edges'[i].source], edges'[i].target>> : i \in DOMAIN edges'}
  BY <1>3 DEF EdgesGrounded, AgentArcs
<1>7. AgentArcs' = AgentArcs
  BY <1>4, <1>5, <1>6
<1>8. AgentAcyclic'
  BY <1>7 DEF GraphInv, AgentAcyclic, NoCycle, Reach, Closed
<1> QED BY <1>1, <1>3, <1>7, <1>8 DEF GraphInv

(* add_edge adds exactly the arc it has checked.                           *)
LEMMA AddEdgeKeepsGraph ==
    ASSUME GraphInv, NEW t \in TaskIds, NEW b \in AgentIds,
           AddEdge(t, b), UNCHANGED <<nodeStatus, nodeAgent>>
    PROVE  /\ GraphInv'
           /\ AgentArcs' = AgentArcs \cup {<<nodeAgent[t], b>>}
           /\ Len(edges') = Len(edges) + 1
<1> USE GraphAssumption
<1> DEFINE e == NewEdge(t, b)
<1>1. e \in EdgeRecord /\ e.source = t /\ e.target = b
  BY DEF NewEdge, EdgeRecord
<1>2. edges \in Seq(EdgeRecord) /\ edges' = Append(edges, e)
  BY DEF GraphInv, GraphTypeOK, AddEdge
<1> HIDE DEF e
<1>3. /\ edges' \in Seq(EdgeRecord)
      /\ Len(edges') = Len(edges) + 1
      /\ Len(edges) \in Nat
      /\ DOMAIN edges = 1 .. Len(edges)
      /\ DOMAIN edges' = 1 .. Len(edges')
      /\ \A i \in DOMAIN edges : edges'[i] = edges[i]
      /\ edges'[Len(edges) + 1] = e
  BY <1>1, <1>2
<1>4. GraphTypeOK'
  BY <1>3 DEF GraphInv, GraphTypeOK
<1>5. DOMAIN edges' = DOMAIN edges \cup {Len(edges) + 1}
  BY <1>3
<1>6. EdgesGrounded'
  BY <1>1, <1>3, <1>5 DEF GraphInv, EdgesGrounded, AddEdge, CanAddEdge
<1>7. AgentArcs' = AgentArcs \cup {<<nodeAgent[t], b>>}
  <2>1. AgentArcs = {<<nodeAgent[edges[i].source], edges[i].target>> : i \in DOMAIN edges}
    BY ArcsOfAllEdges DEF GraphInv
  <2>2. AgentArcs' = {<<nodeAgent[edges'[i].source], edges'[i].target>> : i \in DOMAIN edges'}
    BY <1>6 DEF EdgesGrounded, AgentArcs
  <2> QED BY <1>1, <1>3, <1>5, <2>1, <2>2
<1>8. AgentAcyclic'
  <2>1. nodeAgent[t] \in AgentIds
    BY DEF GraphInv, EdgesGrounded, AddEdge, CanAddEdge
  <2>2. nodeAgent[t] \notin Reach(AgentArcs \cup {<<nodeAgent[t], b>>}, b)
    BY DEF AddEdge, CanAddEdge, AgentWouldCycle
  <2>3. NoCycle(AgentArcs \cup {<<nodeAgent[t], b>>})
    BY <2>1, <2>2, ArcKeepsAcyclic DEF GraphInv, AgentAcyclic
  <2> QED BY <1>7, <2>3 DEF AgentAcyclic, NoCycle, Reach, Closed
<1> QED BY <1>3, <1>4, <1>6, <1>7, <1>8 DEF GraphInv

(* set_generated_task changes no source and no target.                     *)
LEMMA SetGeneratedKeepsGraph ==
    ASSUME GraphInv, NEW t \in TaskIds, NEW n \in TaskIds, NEW b \in AgentIds,
           SetGenerated(t, b, n), UNCHANGED <<nodeStatus, nodeAgent>>
    PROVE  GraphInv' /\ AgentArcs' = AgentArcs /\ Len(edges') = Len(edges)
<1>1. /\ edges \in Seq(EdgeRecord)
      /\ DOMAIN edges = 1 .. Len(edges)
      /\ Len(edges) \in Nat
      /\ \A i \in DOMAIN edges : edges[i] \in EdgeRecord
  BY DEF GraphInv, GraphTypeOK
<1>2. edges' = WithGenerated(edges, t, b, n)
  BY DEF SetGenerated
<1>3. DOMAIN edges' = DOMAIN edges
  BY <1>2 DEF WithGenerated
<1>4. \A i \in DOMAIN edges : /\ edges'[i] \in EdgeRecord
                              /\ edges'[i].source = edges[i].source
                              /\ edges'[i].target = edges[i].target
  BY <1>1, <1>2 DEF WithGenerated, EdgeRecord
<1>5. edges' \in Seq(EdgeRecord) /\ Len(edges') = Len(edges)
  BY <1>1, <1>2, <1>3, <1>4 DEF WithGenerated
<1>6. GraphTypeOK'
  BY <1>5 DEF GraphInv, GraphTypeOK
<1>7. EdgesGrounded'
  BY <1>3, <1>4 DEF GraphInv, EdgesGrounded
<1>8. AgentArcs' = AgentArcs
  <2>1. AgentArcs = {<<nodeAgent[edges[i].source], edges[i].target>> : i \in DOMAIN edges}
    BY ArcsOfAllEdges DEF GraphInv
  <2>2. AgentArcs' = {<<nodeAgent[edges'[i].source], edges'[i].target>> : i \in DOMAIN edges'}
    BY <1>7 DEF EdgesGrounded, AgentArcs
  <2> QED BY <1>3, <1>4, <2>1, <2>2
<1>9. AgentAcyclic'
  BY <1>8 DEF GraphInv, AgentAcyclic, NoCycle, Reach, Closed
<1> QED BY <1>5, <1>6, <1>7, <1>8, <1>9 DEF GraphInv

(* The empty graph satisfies the invariant.                                *)
LEMMA GraphInitInv == GraphInit => GraphInv
<1> SUFFICES ASSUME GraphInit PROVE GraphInv
    OBVIOUS
<1>1. DOMAIN edges = {} /\ edges \in Seq(EdgeRecord)
  BY DEF GraphInit
<1>2. GraphTypeOK /\ EdgesGrounded
  BY <1>1 DEF GraphInit, GraphTypeOK, EdgesGrounded
<1>3. AgentArcs = {}
  BY <1>1 DEF AgentArcs
<1> QED BY <1>2, <1>3 DEF GraphInv, AgentAcyclic, NoCycle

(* Every operation of the graph preserves the invariant.                   *)
LEMMA GraphStepInv == GraphInv /\ [GraphNext]_graphVars => GraphInv'
<1> SUFFICES ASSUME GraphInv, [GraphNext]_graphVars PROVE GraphInv'
    OBVIOUS
<1>1. CASE UNCHANGED graphVars
  BY <1>1 DEF graphVars, GraphInv, GraphTypeOK, EdgesGrounded, AgentAcyclic, AgentArcs,
              NoCycle, Reach, Closed
<1> QED
  BY <1>1, UpsertKeepsGraph, AddEdgeKeepsGraph, SetGeneratedKeepsGraph DEF GraphNext

(* However tasks are upserted and pipes requested, the agent-level graph   *)
(* of the pipes is acyclic, for any number of agents, tasks and pipes.     *)
THEOREM GraphAcyclic == GraphSpec => []AgentAcyclic
<1>1. GraphInit => GraphInv
  BY GraphInitInv
<1>2. GraphInv /\ [GraphNext]_graphVars => GraphInv'
  BY GraphStepInv
<1>3. GraphInv => AgentAcyclic
  BY DEF GraphInv
<1> QED BY <1>1, <1>2, <1>3, PTL DEF GraphSpec

(* Every edge hangs on a node with a real agent, in every behaviour.       *)
THEOREM GraphGrounded == GraphSpec => [](GraphTypeOK /\ EdgesGrounded)
<1>1. GraphInit => GraphInv
  BY GraphInitInv
<1>2. GraphInv /\ [GraphNext]_graphVars => GraphInv'
  BY GraphStepInv
<1>3. GraphInv => GraphTypeOK /\ EdgesGrounded
  BY DEF GraphInv
<1> QED BY <1>1, <1>2, <1>3, PTL DEF GraphSpec

(* No operation removes an arc or an edge: an arc stays as it was checked. *)
THEOREM GraphOnlyGrows == GraphSpec => ArcsOnlyGrow
<1>1. GraphInit => GraphInv
  BY GraphInitInv
<1>2. GraphInv /\ [GraphNext]_graphVars => GraphInv'
  BY GraphStepInv
<1>3. GraphInv /\ [GraphNext]_graphVars =>
        [AgentArcs \subseteq AgentArcs' /\ Len(edges) <= Len(edges')]_graphVars
  <2> SUFFICES ASSUME GraphInv, GraphNext
               PROVE  AgentArcs \subseteq AgentArcs' /\ Len(edges) <= Len(edges')
    OBVIOUS
  <2>1. Len(edges) \in Nat
    BY DEF GraphInv, GraphTypeOK
  <2>2. CASE \E t \in TaskIds, a \in AgentIds, st \in Statuses :
                UpsertNode(t, a, st) /\ UNCHANGED edges
    BY <2>1, <2>2, UpsertKeepsGraph
  <2>3. CASE \E t \in TaskIds, b \in AgentIds :
                AddEdge(t, b) /\ UNCHANGED <<nodeStatus, nodeAgent>>
    BY <2>1, <2>3, AddEdgeKeepsGraph
  <2>4. CASE \E t, n \in TaskIds, b \in AgentIds :
                SetGenerated(t, b, n) /\ UNCHANGED <<nodeStatus, nodeAgent>>
    BY <2>1, <2>4, SetGeneratedKeepsGraph
  <2> QED BY <2>2, <2>3, <2>4 DEF GraphNext
<1> QED BY <1>1, <1>2, <1>3, PTL DEF GraphSpec, ArcsOnlyGrow

--------------------------------------------------------------------------------
(***************************************************************************)
(* The search.  What is on the stack or was seen is in reach of the target *)
(* of the proposed pipe; the successors of what was seen are there too; so *)
(* that what was seen, once the stack is empty, is a closed set without    *)
(* the agent that was looked for.                                          *)
(***************************************************************************)
Pending == seen \cup Range(stack)

Searching ==
    /\ target \in Pending
    /\ Pending \subseteq Reach(SearchArcs, target)
    /\ nodeAgent[task] \notin seen
    /\ \A x \in seen, y \in AgentIds : <<x, y>> \in SearchArcs => y \in Pending

SearchInv ==
    /\ GraphInv
    /\ SearchTypeOK
    /\ verdict # "none" =>
          task \in TaskIds /\ target \in AgentIds /\ nodeStatus[task] # "absent" /\ nodeAgent[task] # target
    /\ verdict = "searching" => Searching
    /\ SearchDecides

(* The reach of an agent holds the agent and is closed under the arcs.     *)
LEMMA ReachClosed ==
    ASSUME NEW arcs, NEW a \in AgentIds
    PROVE  a \in Reach(arcs, a) /\ Closed(Reach(arcs, a), arcs)
  BY DEF Reach, Closed

(* An agent has finitely many successors: there are finitely many edges.   *)
LEMMA FewSuccessors ==
    ASSUME GraphTypeOK, NEW node
    PROVE  IsFiniteSet(Successors(node))
<1> DEFINE targets == {edges[i].target : i \in DOMAIN edges}
<1>1. IsFiniteSet(DOMAIN edges)
  <2>1. DOMAIN edges = 1..Len(edges) /\ Len(edges) \in Nat
    BY DEF GraphTypeOK
  <2> QED BY <2>1, FS_Interval
<1>2. IsFiniteSet(targets)
  <2> DEFINE f == [i \in DOMAIN edges |-> edges[i].target]
  <2>1. f \in Surjection(DOMAIN edges, targets)
    BY DEF Surjection
  <2> QED BY <1>1, <2>1, FS_Surjection
<1>3. IsFiniteSet(targets \cup {target})
  BY <1>2, FS_AddElement
<1>4. Successors(node) \subseteq targets \cup {target}
  BY DEF Successors, SearchArcs, AgentArcs
<1> QED BY <1>3, <1>4, FS_Subset

(* An order of a finite set is a sequence of its elements.                 *)
LEMMA OrderIsSequence ==
    ASSUME NEW S \in SUBSET AgentIds, IsFiniteSet(S), NEW next \in Orders(S)
    PROVE  next \in Seq(AgentIds) /\ S = Range(next)
<1>1. Cardinality(S) \in Nat
  BY FS_CardinalityType
<1>2. next \in [1..Cardinality(S) -> S]
  BY DEF Orders
<1>3. next \in Seq(AgentIds)
  BY <1>1, <1>2
<1> QED BY <1>2, <1>3 DEF Orders, Range

(* Popping takes the top off and leaves the rest.                          *)
LEMMA PoppedStack ==
    ASSUME stack \in Seq(AgentIds), stack # <<>>
    PROVE  /\ Top \in AgentIds /\ Rest \in Seq(AgentIds)
           /\ Range(stack) = Range(Rest) \cup {Top}
<1>1. Len(stack) \in Nat /\ Len(stack) > 0 /\ DOMAIN stack = 1..Len(stack)
  OBVIOUS
<1>2. Top \in AgentIds /\ Rest \in Seq(AgentIds) /\ Len(Rest) = Len(stack) - 1
  BY <1>1 DEF Top, Rest
<1>3. DOMAIN Rest = 1..(Len(stack) - 1) /\ \A i \in DOMAIN Rest : Rest[i] = stack[i]
  BY <1>1, <1>2 DEF Rest
<1> QED BY <1>1, <1>2, <1>3 DEF Top, Range

(* The search reads only the graph and the proposed edge.                  *)
LEMMA SameSearch ==
    ASSUME UNCHANGED <<graphVars, task, target>>
    PROVE  /\ AgentArcs' = AgentArcs /\ SearchArcs' = SearchArcs
           /\ Reach(SearchArcs, target)' = Reach(SearchArcs, target)
           /\ AgentWouldCycle(nodeAgent[task], target)' = AgentWouldCycle(nodeAgent[task], target)
           /\ GraphInv => GraphInv'
  BY DEF graphVars, AgentArcs, SearchArcs, Reach, Closed, AgentWouldCycle, GraphInv, GraphTypeOK, EdgesGrounded,
     AgentAcyclic, NoCycle

(* What the search is about.                                               *)
LEMMA SearchFacts ==
    ASSUME SearchInv, verdict # "none"
    PROVE  /\ nodeAgent[task] \in AgentIds /\ target \in AgentIds /\ nodeAgent[task] # target
           /\ AgentWouldCycle(nodeAgent[task], target) <=> nodeAgent[task] \in Reach(SearchArcs, target)
  BY DEF SearchInv, GraphInv, EdgesGrounded, AgentWouldCycle, SearchArcs

(* The search begins with the target, which is in its own reach.           *)
LEMMA ProposeKeeps ==
    ASSUME SearchInv, NEW t \in TaskIds, NEW b \in AgentIds, Propose(t, b)
    PROVE  SearchInv'
<1>1. /\ UNCHANGED graphVars /\ task' = t /\ target' = b /\ seen' = {} /\ stack' = <<b>>
      /\ nodeStatus'[t] # "absent" /\ nodeAgent'[t] # b /\ verdict' = "searching"
  BY DEF Propose, graphVars
<1>2. GraphInv'
  BY <1>1 DEF SearchInv, GraphInv, graphVars, GraphTypeOK, EdgesGrounded, AgentAcyclic,
     AgentArcs, NoCycle, Reach, Closed
<1>3. SearchTypeOK'
  BY <1>1 DEF SearchTypeOK
<1>4. Pending' = {b}
  BY <1>1 DEF Pending, Range
<1>5. b \in Reach(SearchArcs', b)
  BY ReachClosed
<1>6. Searching'
  <2>1. Reach(SearchArcs, target)' = Reach(SearchArcs', b)
    BY <1>1 DEF Reach, Closed
  <2> QED BY <1>1, <1>4, <1>5, <2>1 DEF Searching
<1> QED BY <1>1, <1>2, <1>3, <1>6 DEF SearchInv, SearchDecides

(* An agent seen before leaves the stack, and what is pending is the same. *)
LEMMA SkipKeeps ==
    ASSUME SearchInv, Skip
    PROVE  SearchInv'
<1> USE DEF SearchInv, Skip
<1>1. /\ UNCHANGED <<graphVars, task, target>> /\ seen' = seen /\ verdict' = verdict
      /\ Top \in seen /\ stack' = Rest /\ stack # <<>> /\ verdict = "searching"
  OBVIOUS
<1>2. Rest \in Seq(AgentIds) /\ Pending' = Pending
  <2>1. stack \in Seq(AgentIds)
    BY DEF SearchTypeOK
  <2> QED BY <1>1, <2>1, PoppedStack DEF Pending
<1>3. SearchTypeOK'
  BY <1>1, <1>2 DEF SearchTypeOK
<1>4. Searching'
  BY <1>1, <1>2, SameSearch DEF Searching, graphVars
<1> QED BY <1>1, <1>3, <1>4, SameSearch DEF SearchDecides, graphVars

(* The agent looked for was on the stack, hence in reach.                  *)
LEMMA FoundKeeps ==
    ASSUME SearchInv, Found
    PROVE  SearchInv'
<1> USE DEF SearchInv, Found
<1>1. /\ UNCHANGED <<graphVars, task, target>> /\ verdict' = "cycle" /\ verdict = "searching"
      /\ stack' = Rest /\ seen' = seen \cup {Top} /\ Top = nodeAgent[task]
  OBVIOUS
<1>2. /\ Top \in AgentIds /\ Rest \in Seq(AgentIds) /\ Top \in Pending
  <2>1. stack \in Seq(AgentIds)
    BY DEF SearchTypeOK
  <2> QED BY <2>1, PoppedStack DEF Pending
<1>3. SearchTypeOK'
  BY <1>1, <1>2 DEF SearchTypeOK
<1>4. AgentWouldCycle(nodeAgent[task], target)
  BY <1>1, <1>2, SearchFacts DEF Searching
<1> QED BY <1>1, <1>3, <1>4, SameSearch DEF SearchDecides, graphVars

(* The successors of an agent in reach are in reach.                       *)
LEMMA ExpandKeeps ==
    ASSUME SearchInv, Expand
    PROVE  SearchInv'
<1> USE DEF SearchInv
<1>1. PICK next \in Orders(Successors(Top)) : stack' = Rest \o next
  BY DEF Expand, Push
<1>2. /\ UNCHANGED <<graphVars, task, target>> /\ verdict' = verdict /\ verdict = "searching"
      /\ seen' = seen \cup {Top} /\ stack # <<>> /\ Top # nodeAgent[task]
  BY DEF Expand
<1>3. /\ Top \in AgentIds /\ Rest \in Seq(AgentIds)
      /\ Range(stack) = Range(Rest) \cup {Top}
  <2>1. stack \in Seq(AgentIds)
    BY DEF SearchTypeOK
  <2> QED BY <1>2, <2>1, PoppedStack
<1>4. next \in Seq(AgentIds) /\ Successors(Top) = Range(next)
  <2>1. IsFiniteSet(Successors(Top)) /\ Successors(Top) \subseteq AgentIds
    BY FewSuccessors DEF GraphInv, Successors
  <2> QED BY <2>1, OrderIsSequence
<1>5. stack' \in Seq(AgentIds) /\ Range(stack') = Range(Rest) \cup Range(next)
  BY <1>1, <1>3, <1>4, RangeConcatenation
<1>6. Pending' = Pending \cup Successors(Top)
  BY <1>2, <1>3, <1>4, <1>5 DEF Pending
<1>7. SearchTypeOK'
  BY <1>2, <1>3, <1>5 DEF SearchTypeOK
<1>8. Searching'
  <2>1. Top \in Reach(SearchArcs, target) /\ target \in AgentIds
    BY <1>2, <1>3 DEF Searching, Pending
  <2>2. Successors(Top) \subseteq Reach(SearchArcs, target)
    BY <1>3, <2>1, ReachClosed DEF Closed, Successors
  <2>3. \A x \in seen', y \in AgentIds : <<x, y>> \in SearchArcs => y \in Pending'
    BY <1>2, <1>6 DEF Searching, Successors
  <2> QED BY <1>2, <1>6, <2>2, <2>3, SameSearch DEF Searching, graphVars
<1> QED BY <1>2, <1>7, <1>8, SameSearch DEF SearchDecides, graphVars

(* Nothing is pending but what was seen, which is closed: the agent looked *)
(* for is out of reach.                                                    *)
LEMMA ExhaustedKeeps ==
    ASSUME SearchInv, Exhausted
    PROVE  SearchInv'
<1> USE DEF SearchInv, Exhausted
<1>1. /\ UNCHANGED <<graphVars, task, target>> /\ verdict' = "free" /\ verdict = "searching"
      /\ stack = <<>> /\ stack' = stack /\ seen' = seen
  OBVIOUS
<1>2. Pending = seen
  BY <1>1 DEF Pending, Range
<1>3. target \in seen /\ Closed(seen, SearchArcs) /\ nodeAgent[task] \notin seen /\ seen \subseteq AgentIds
  BY <1>1, <1>2 DEF Searching, Closed, SearchTypeOK
<1>4. nodeAgent[task] \notin Reach(SearchArcs, target)
  BY <1>3 DEF Reach
<1>5. ~AgentWouldCycle(nodeAgent[task], target)
  BY <1>1, <1>4, SearchFacts
<1>6. SearchTypeOK'
  BY <1>1 DEF SearchTypeOK
<1> QED BY <1>1, <1>5, <1>6, SameSearch DEF SearchDecides, graphVars

(* add_edge adds the pipe only when TaskGraph's AddEdge may.               *)
LEMMA ConcludeIsAddEdge ==
    ASSUME SearchInv, Conclude
    PROVE  UNCHANGED graphVars \/ (AddEdge(task, target) /\ UNCHANGED <<nodeStatus, nodeAgent>>)
<1>1. CASE verdict = "cycle"
  BY <1>1 DEF Conclude, graphVars
<1>2. CASE verdict = "free"
  <2>1. CanAddEdge(task, target)
    BY <1>2 DEF SearchInv, SearchDecides, CanAddEdge
  <2> QED BY <1>2, <2>1 DEF Conclude, AddEdge
<1> QED BY <1>1, <1>2 DEF Conclude

(* The pipe that is added, if any, keeps the graph acyclic.                *)
LEMMA ConcludeKeeps ==
    ASSUME SearchInv, Conclude
    PROVE  SearchInv'
<1>1. verdict' = "none" /\ SearchTypeOK'
  BY DEF Conclude, SearchTypeOK
<1>2. GraphInv'
  <2>1. task \in TaskIds /\ target \in AgentIds /\ GraphInv
    BY DEF SearchInv, Conclude
  <2>2. CASE UNCHANGED graphVars
    BY <2>1, <2>2, GraphStepInv
  <2>3. CASE AddEdge(task, target) /\ UNCHANGED <<nodeStatus, nodeAgent>>
    BY <2>1, <2>3, AddEdgeKeepsGraph
  <2> QED BY <2>2, <2>3, ConcludeIsAddEdge
<1> QED BY <1>1, <1>2 DEF SearchInv, SearchDecides

(* The other operations find no search under way.                          *)
LEMMA OtherKeeps ==
    ASSUME SearchInv, OtherOperation
    PROVE  SearchInv'
<1>1. GraphNext /\ UNCHANGED searchVars /\ verdict = "none"
  BY DEF OtherOperation, GraphNext
<1>2. GraphInv'
  BY <1>1, GraphStepInv DEF SearchInv
<1> QED BY <1>1, <1>2 DEF SearchInv, SearchTypeOK, SearchDecides, searchVars

(* Every step of the search, and every operation between two of them.      *)
LEMMA SearchKeepsInv == SearchInv /\ [SearchNext]_allVars => SearchInv'
<1> SUFFICES ASSUME SearchInv, [SearchNext]_allVars PROVE SearchInv'
  OBVIOUS
<1>1. CASE UNCHANGED allVars
  <2>1. UNCHANGED <<graphVars, task, target>> /\ stack' = stack /\ seen' = seen /\ verdict' = verdict
    BY <1>1 DEF allVars, searchVars
  <2>2. Pending' = Pending
    BY <2>1 DEF Pending
  <2> QED BY <2>1, <2>2, SameSearch DEF SearchInv, SearchTypeOK, Searching, SearchDecides, graphVars
<1> QED BY <1>1, ProposeKeeps, SkipKeeps, FoundKeeps, ExpandKeeps, ExhaustedKeeps, ConcludeKeeps, OtherKeeps
        DEF SearchNext, SearchStep

(* The search of agent_would_cycle decides reachability, on every graph    *)
(* that upserts and pipes can build and in every order of the successors.  *)
THEOREM SearchCorrect == SearchSpec => []SearchDecides
<1>1. SearchInit => SearchInv
  BY GraphInitInv DEF SearchInit, SearchInv, SearchTypeOK, SearchDecides
<1>2. SearchInv => SearchDecides
  BY DEF SearchInv
<1> QED BY <1>1, <1>2, SearchKeepsInv, PTL DEF SearchSpec

(* add_edge with its loop is the AddEdge of TaskGraph, which asks for      *)
(* reachability: what is proved of the graph holds of the code's search.   *)
THEOREM SearchImplements == SearchSpec => SearchImplementsGraph
<1>1. SearchInit => SearchInv /\ GraphInit
  BY GraphInitInv DEF SearchInit, SearchInv, SearchTypeOK, SearchDecides
<1>2. SearchInv /\ [SearchNext]_allVars => [GraphNext]_graphVars
  <2> SUFFICES ASSUME SearchInv, [SearchNext]_allVars PROVE GraphNext \/ UNCHANGED graphVars
    OBVIOUS
  <2>1. CASE Conclude
    <3>1. task \in TaskIds /\ target \in AgentIds
      BY <2>1 DEF SearchInv, Conclude
    <3> QED BY <2>1, <3>1, ConcludeIsAddEdge DEF GraphNext
  <2>2. CASE OtherOperation
    BY <2>2 DEF OtherOperation, GraphNext
  <2>3. CASE \E t \in TaskIds, b \in AgentIds : Propose(t, b)
    BY <2>3 DEF Propose
  <2>4. CASE Skip \/ Found \/ Expand \/ Exhausted \/ UNCHANGED allVars
    BY <2>4 DEF Skip, Found, Expand, Exhausted, allVars
  <2> QED BY <2>1, <2>2, <2>3, <2>4 DEF SearchNext, SearchStep
<1> QED BY <1>1, <1>2, SearchKeepsInv, PTL DEF SearchSpec, SearchImplementsGraph, GraphSpec
================================================================================
