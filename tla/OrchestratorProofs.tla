-------------------------- MODULE OrchestratorProofs --------------------------
(***************************************************************************)
(* The orchestrator for any number of agents, tasks, stops and pipes.      *)
(***************************************************************************)
EXTENDS Orchestrator, AgentPoolProofs, SequenceTheorems, WellFoundedInduction

--------------------------------------------------------------------------------
(***************************************************************************)
(* Runs and the follow-ups nested in them.  What a step does to run, kind, *)
(* root and waits is one of six things.                                    *)
(***************************************************************************)
Waiting(t) == run[t] \in {"label", "nested"}

Advances(t) ==
    /\ Active(t) /\ ~Waiting(t)
    /\ \E pc \in RunPc \ {"none", "label", "nested"} : Goto(t, pc)
    /\ UNCHANGED <<kind, root, waits>>

StartsRoot(t) ==
    /\ run[t] = "none"
    /\ \E pc \in {"sleep", "begin", "remote"} : Goto(t, pc)
    /\ \E k \in {"request", "spawned", "scheduled"} : kind' = [kind EXCEPT ![t] = k]
    /\ root' = [root EXCEPT ![t] = t]
    /\ UNCHANGED waits

Forks(t, n) ==
    /\ run[t] = "next" /\ run[n] = "none" /\ n # t
    /\ run' = [run EXCEPT ![t] = "label", ![n] = "begin"]
    /\ kind' = [kind EXCEPT ![n] = "followup"]
    /\ root' = [root EXCEPT ![n] = root[t]]
    /\ waits' = [waits EXCEPT ![t] = n]

Labels(t) == run[t] = "label" /\ Goto(t, "nested") /\ UNCHANGED <<kind, root, waits>>

Joins(t) ==
    /\ run[t] = "nested" /\ run[waits[t]] = "over"
    /\ Goto(t, "next")
    /\ waits' = [waits EXCEPT ![t] = NoTask]
    /\ UNCHANGED <<kind, root>>

Drops(r) ==
    /\ run' = [t \in Tasks |-> IF root[t] = r /\ Active(t) THEN "dropped" ELSE run[t]]
    /\ UNCHANGED <<kind, root, waits>>

ChainNext ==
    \/ \E t \in Tasks : Advances(t) \/ StartsRoot(t) \/ Labels(t) \/ Joins(t) \/ Drops(t)
    \/ \E t, n \in Tasks : Forks(t, n)
    \/ UNCHANGED <<run, kind, root, waits>>

ChainTypeOK ==
    /\ run \in [Tasks -> RunPc]
    /\ kind \in [Tasks -> {"none", "request", "spawned", "scheduled", "followup"}]
    /\ root \in [Tasks -> Tasks \cup {NoTask}]
    /\ waits \in [Tasks -> Tasks \cup {NoTask}]

(* A task that was not created has no record of its own; a run's root was  *)
(* created, and so was the follow-up it waits for, in the same chain.      *)
Linked ==
    /\ \A t \in Tasks : run[t] = "none" => root[t] = NoTask /\ waits[t] = NoTask /\ kind[t] = "none"
    /\ \A t \in Tasks : run[t] # "none" => root[t] \in Tasks /\ run[root[t]] # "none"
    /\ \A t \in Tasks : Waiting(t) => waits[t] # NoTask
    /\ \A t \in Tasks : waits[t] # NoTask =>
          /\ run[t] \in {"label", "nested", "dropped"}
          /\ run[waits[t]] # "none"
          /\ root[waits[t]] = root[t]

(* The depth of a run in its chain: no two active runs of a chain are at   *)
(* the same depth, and all but the deepest one wait for the next.          *)
Depths(d) ==
    /\ \A t, u \in Tasks : Active(t) /\ Active(u) /\ root[t] = root[u] =>
          /\ d[t] = d[u] => t = u
          /\ d[t] < d[u] => Waiting(t) /\ Active(waits[t])
    /\ \A t \in Tasks : Waiting(t) => d[waits[t]] = d[t] + 1

ChainInv ==
    /\ ChainTypeOK
    /\ Linked
    /\ FollowupsOwned
    /\ \E d \in [Tasks -> Nat] : Depths(d)

USE DEF Active, Waiting, Goto

(* Nothing runs in the first state.                                        *)
LEMMA ChainInit == Init => ChainInv
<1> SUFFICES ASSUME Init PROVE ChainInv
  OBVIOUS
<1>1. ChainTypeOK /\ Linked /\ FollowupsOwned
  BY PoolAssumption DEF Init, ChainTypeOK, Linked, FollowupsOwned, RunPc
<1>2. Depths([t \in Tasks |-> 0])
  BY DEF Init, Depths
<1>3. [t \in Tasks |-> 0] \in [Tasks -> Nat]
  OBVIOUS
<1> QED BY <1>1, <1>2, <1>3 DEF ChainInv

(* A run takes a step of its own.                                          *)
LEMMA ChainAdvances ==
    ASSUME ChainInv, NEW t \in Tasks, Advances(t)
    PROVE  ChainInv'
<1> USE PoolAssumption
<1>1. PICK d \in [Tasks -> Nat] : Depths(d)
  BY DEF ChainInv
<1>2. PICK pc \in RunPc \ {"none", "label", "nested"} : run' = [run EXCEPT ![t] = pc]
  BY DEF Advances
<1>3. ChainTypeOK' /\ Linked'
  BY <1>2 DEF ChainInv, ChainTypeOK, Linked, Advances
<1>4. FollowupsOwned'
  BY <1>2 DEF ChainInv, ChainTypeOK, FollowupsOwned, Advances
<1>5. Depths(d)'
  <2>1. SUFFICES ASSUME NEW v \in Tasks, NEW u \in Tasks, Active(v)', Active(u)', root[v] = root[u]
                 PROVE  /\ d[v] = d[u] => v = u
                        /\ d[v] < d[u] => Waiting(v)' /\ Active(waits[v])'
    <3>1. \A v \in Tasks : Waiting(v)' => d[waits[v]] = d[v] + 1
      BY <1>1, <1>2 DEF Depths, ChainInv, ChainTypeOK
    <3> QED BY <3>1 DEF Depths, Advances
  <2>2. Active(v) /\ Active(u)
    BY <1>2, <2>1 DEF Advances, ChainInv, ChainTypeOK
  <2>3. d[v] = d[u] => v = u
    BY <1>1, <2>1, <2>2 DEF Depths
  <2>4. ASSUME d[v] < d[u] PROVE Waiting(v)' /\ Active(waits[v])'
    <3>1. Waiting(v) /\ Active(waits[v]) /\ v # t /\ d[waits[v]] = d[v] + 1
      BY <1>1, <2>1, <2>2, <2>4 DEF Depths, Advances
    <3>2. waits[v] \in Tasks /\ root[waits[v]] = root[v]
      BY <3>1 DEF ChainInv, ChainTypeOK, Linked
    <3>3. Waiting(v)'
      BY <1>2, <3>1 DEF ChainInv, ChainTypeOK
    <3>4. CASE waits[v] # t
      BY <1>2, <3>1, <3>2, <3>3, <3>4 DEF ChainInv, ChainTypeOK, Advances
    <3>5. CASE waits[v] = t
      <4>1. ~(d[t] < d[u])
        BY <1>1, <2>1, <2>2, <3>1, <3>2, <3>5 DEF Depths, Advances
      <4>2. d[t] = d[u]
        BY <2>4, <3>1, <3>5, <4>1
      <4>3. t = u
        BY <1>1, <2>1, <2>2, <3>1, <3>2, <3>5, <4>2 DEF Depths
      <4> QED BY <2>1, <3>3, <3>5, <4>3 DEF Advances
    <3> QED BY <3>4, <3>5
  <2> QED BY <2>3, <2>4
<1> QED BY <1>1, <1>3, <1>4, <1>5 DEF ChainInv

(* send_task, schedule_task and pipe start a chain of its own: nobody names *)
(* a task that was not created.                                            *)
LEMMA ChainStarts ==
    ASSUME ChainInv, NEW t \in Tasks, StartsRoot(t)
    PROVE  ChainInv'
<1> USE PoolAssumption
<1>1. PICK d \in [Tasks -> Nat] : Depths(d)
  BY DEF ChainInv
<1>2. PICK pc \in {"sleep", "begin", "remote"} : run' = [run EXCEPT ![t] = pc]
  BY DEF StartsRoot
<1>3. ChainTypeOK' /\ Linked'
  BY <1>2 DEF ChainInv, ChainTypeOK, Linked, StartsRoot, RunPc
<1>4. FollowupsOwned'
  BY <1>2 DEF ChainInv, ChainTypeOK, FollowupsOwned, StartsRoot
<1>5. Depths(d)'
  <2>1. \A u \in Tasks : root[u] # t /\ waits[u] # t
    BY DEF ChainInv, ChainTypeOK, Linked, StartsRoot
  <2>2. \A u \in Tasks : Active(u)' => u = t \/ (Active(u) /\ root'[u] = root[u])
    BY <1>2 DEF ChainInv, ChainTypeOK, StartsRoot
  <2>3. \A u \in Tasks : Waiting(u)' <=> Waiting(u)
    BY <1>2 DEF ChainInv, ChainTypeOK, StartsRoot
  <2>4. root'[t] = t /\ waits' = waits
    BY DEF ChainInv, ChainTypeOK, StartsRoot
  <2>5. \A u \in Tasks : Active(u) => Active(u)'
    BY <1>2 DEF ChainInv, ChainTypeOK, StartsRoot
  <2>6. \A u \in Tasks : Waiting(u) => waits[u] \in Tasks
    BY DEF ChainInv, ChainTypeOK, Linked
  <2> QED BY <1>1, <2>1, <2>2, <2>3, <2>4, <2>5, <2>6 DEF Depths
<1> QED BY <1>1, <1>3, <1>4, <1>5 DEF ChainInv

(* A run that has no follow-up in progress starts one, one level deeper.   *)
LEMMA ChainForks ==
    ASSUME ChainInv, NEW t \in Tasks, NEW n \in Tasks, Forks(t, n)
    PROVE  ChainInv'
<1> USE PoolAssumption
<1>1. PICK d \in [Tasks -> Nat] : Depths(d)
  BY DEF ChainInv
<1> DEFINE e == [d EXCEPT ![n] = d[t] + 1]
<1>2. e \in [Tasks -> Nat] /\ e[n] = d[t] + 1 /\ \A u \in Tasks \ {n} : e[u] = d[u]
  OBVIOUS
<1>3. ChainTypeOK' /\ Linked'
  BY DEF ChainInv, ChainTypeOK, Linked, Forks, RunPc
<1>4. FollowupsOwned'
  BY DEF ChainInv, ChainTypeOK, FollowupsOwned, Forks
<1>5. /\ run'[t] = "label" /\ run'[n] = "begin" /\ n # t
      /\ waits'[t] = n /\ root'[n] = root[t] /\ Active(t) /\ ~Waiting(t)
      /\ \A u \in Tasks \ {t, n} : run'[u] = run[u]
      /\ \A u \in Tasks \ {n} : root'[u] = root[u]
      /\ \A u \in Tasks \ {t} : waits'[u] = waits[u]
  BY DEF ChainInv, ChainTypeOK, Forks
<1>6. \A u \in Tasks : Waiting(u) => waits[u] \in Tasks \ {n}
  BY DEF ChainInv, ChainTypeOK, Linked, Forks
<1>7. \A v \in Tasks : Active(v) /\ root[v] = root[t] => v = t \/ d[v] < d[t]
  <2> SUFFICES ASSUME NEW v \in Tasks, Active(v), root[v] = root[t], v # t PROVE d[v] < d[t]
    OBVIOUS
  <2>1. d[v] # d[t] /\ ~(d[t] < d[v])
    BY <1>1, <1>5 DEF Depths
  <2>2. d[v] \in Nat /\ d[t] \in Nat
    OBVIOUS
  <2> QED BY <2>1, <2>2
<1> HIDE DEF e
<1>8. ASSUME NEW v \in Tasks, NEW u \in Tasks, Active(v)', Active(u)', root'[v] = root'[u]
      PROVE  /\ e[v] = e[u] => v = u
             /\ e[v] < e[u] => Waiting(v)' /\ Active(waits[v])'
  <2>1. CASE v = n
    <3>1. u # n => Active(u) /\ root[u] = root[t]
      BY <1>5, <1>8, <2>1
    <3>2. u # n => e[u] < e[n]
      <4>1. ASSUME u # n PROVE d[u] \in Nat /\ d[t] \in Nat /\ e[u] = d[u] /\ (u = t \/ d[u] < d[t])
        BY <1>2, <1>7, <3>1, <4>1
      <4> QED BY <1>2, <4>1
    <3>3. e[u] \in Nat /\ e[n] \in Nat
      BY <1>2
    <3> QED BY <2>1, <3>2, <3>3
  <2>2. CASE v # n /\ u = n
    <3>1. Active(v) /\ root[v] = root[t] /\ e[v] = d[v]
      BY <1>2, <1>5, <1>8, <2>2
    <3>2. CASE v = t
      BY <1>2, <1>5, <2>2, <3>2
    <3>3. CASE v # t
      <4>1. d[v] < d[t]
        BY <1>7, <3>1, <3>3
      <4>2. Waiting(v) /\ Active(waits[v])
        BY <1>1, <1>5, <3>1, <4>1 DEF Depths
      <4>3. Waiting(v)' /\ Active(waits[v])'
        BY <1>5, <1>6, <2>2, <3>3, <4>2
      <4>4. e[v] # e[n]
        <5>1. d[v] \in Nat /\ d[t] \in Nat
          OBVIOUS
        <5> QED BY <1>2, <3>1, <4>1, <5>1
      <4> QED BY <2>2, <4>3, <4>4
    <3> QED BY <3>2, <3>3
  <2>3. CASE v # n /\ u # n
    <3>1. Active(v) /\ Active(u) /\ root[v] = root[u] /\ e[v] = d[v] /\ e[u] = d[u]
      BY <1>2, <1>5, <1>8, <2>3
    <3>2. e[v] = e[u] => v = u
      BY <1>1, <3>1 DEF Depths
    <3>3. ASSUME e[v] < e[u] PROVE Waiting(v)' /\ Active(waits[v])'
      <4>1. Waiting(v) /\ Active(waits[v])
        BY <1>1, <3>1, <3>3 DEF Depths
      <4> QED BY <1>5, <1>6, <2>3, <4>1
    <3> QED BY <3>2, <3>3
  <2> QED BY <2>1, <2>2, <2>3
<1>9. ASSUME NEW v \in Tasks, Waiting(v)' PROVE e[waits'[v]] = e[v] + 1
  <2>1. CASE v = t
    BY <1>2, <1>5, <2>1
  <2>2. CASE v # t
    <3>1. Waiting(v) /\ v # n /\ waits'[v] = waits[v]
      BY <1>5, <1>9, <2>2
    <3> QED BY <1>1, <1>2, <1>6, <3>1 DEF Depths
  <2> QED BY <2>1, <2>2
<1>10. Depths(e)'
  BY <1>8, <1>9 DEF Depths, e
<1> QED BY <1>2, <1>3, <1>4, <1>10 DEF ChainInv

(* The edge is labelled, and the run goes on waiting.                      *)
LEMMA ChainLabels ==
    ASSUME ChainInv, NEW t \in Tasks, Labels(t)
    PROVE  ChainInv'
<1> USE PoolAssumption
<1>1. PICK d \in [Tasks -> Nat] : Depths(d)
  BY DEF ChainInv
<1>2. ChainTypeOK' /\ Linked'
  BY DEF ChainInv, ChainTypeOK, Linked, Labels, RunPc
<1>3. \A u \in Tasks : (Active(u)' <=> Active(u)) /\ (Waiting(u)' <=> Waiting(u))
  BY DEF ChainInv, ChainTypeOK, Labels
<1>4. \A u \in Tasks : Waiting(u) => waits[u] \in Tasks
  BY DEF ChainInv, ChainTypeOK, Linked
<1>5. FollowupsOwned'
  BY DEF ChainInv, ChainTypeOK, FollowupsOwned, Labels
<1>6. Depths(d)'
  BY <1>1, <1>3, <1>4 DEF Depths, Labels
<1> QED BY <1>1, <1>2, <1>5, <1>6 DEF ChainInv

(* A follow-up has returned: no run of the chain is deeper than the one    *)
(* that awaited it, which therefore may go on.                             *)
LEMMA ChainJoins ==
    ASSUME ChainInv, NEW t \in Tasks, Joins(t)
    PROVE  ChainInv'
<1> USE PoolAssumption
<1>1. PICK d \in [Tasks -> Nat] : Depths(d)
  BY DEF ChainInv
<1>2. ChainTypeOK' /\ Linked'
  BY DEF ChainInv, ChainTypeOK, Linked, Joins, RunPc
<1>3. /\ \A u \in Tasks : Active(u)' <=> Active(u)
      /\ \A u \in Tasks : Waiting(u)' <=> Waiting(u) /\ u # t
      /\ \A u \in Tasks \ {t} : waits'[u] = waits[u]
  BY DEF ChainInv, ChainTypeOK, Joins
<1>4. \A u \in Tasks : Waiting(u) => waits[u] \in Tasks
  BY DEF ChainInv, ChainTypeOK, Linked
<1>5. FollowupsOwned'
  <2> SUFFICES ASSUME NEW n \in Tasks, kind[n] = "followup", Active(n)
               PROVE  \E w \in Tasks : waits'[w] = n /\ Waiting(w)'
    BY <1>3 DEF FollowupsOwned, Joins
  <2>1. PICK w \in Tasks : waits[w] = n /\ Waiting(w)
    BY DEF ChainInv, FollowupsOwned
  <2>2. w # t
    BY <2>1 DEF Joins
  <2> QED BY <1>3, <2>1, <2>2
<1>6. ~Active(waits[t]) /\ root' = root
  BY DEF Joins
<1>7. Depths(d)'
  BY <1>1, <1>3, <1>4, <1>6 DEF Depths
<1> QED BY <1>1, <1>2, <1>5, <1>7 DEF ChainInv

(* A dropped chain takes all its runs with it and leaves the others alone. *)
LEMMA ChainDrops ==
    ASSUME ChainInv, NEW r \in Tasks, Drops(r)
    PROVE  ChainInv'
<1> USE PoolAssumption
<1>1. PICK d \in [Tasks -> Nat] : Depths(d)
  BY DEF ChainInv
<1>2. ChainTypeOK' /\ Linked'
  BY DEF ChainInv, ChainTypeOK, Linked, Drops, RunPc
<1>3. \A u \in Tasks : /\ Active(u)' <=> Active(u) /\ root[u] # r
                       /\ Waiting(u)' <=> Waiting(u) /\ root[u] # r
  BY DEF ChainInv, ChainTypeOK, Drops
<1>4. \A u \in Tasks : Waiting(u) => waits[u] \in Tasks /\ root[waits[u]] = root[u]
  BY DEF ChainInv, ChainTypeOK, Linked
<1>5. FollowupsOwned'
  BY <1>3, <1>4 DEF ChainInv, FollowupsOwned, Drops
<1>6. Depths(d)'
  BY <1>1, <1>3, <1>4 DEF Depths, Drops
<1> QED BY <1>1, <1>2, <1>5, <1>6 DEF ChainInv

(* Every step of the chains keeps them in order.                           *)
LEMMA ChainStep == ChainInv /\ ChainNext => ChainInv'
<1> SUFFICES ASSUME ChainInv, ChainNext PROVE ChainInv'
  OBVIOUS
<1>1. CASE UNCHANGED <<run, kind, root, waits>>
  <2>1. ChainTypeOK' /\ Linked' /\ FollowupsOwned'
    BY <1>1 DEF ChainInv, ChainTypeOK, Linked, FollowupsOwned
  <2>2. PICK d \in [Tasks -> Nat] : Depths(d)
    BY DEF ChainInv
  <2>3. Depths(d)'
    BY <1>1, <2>2 DEF Depths
  <2> QED BY <2>1, <2>3 DEF ChainInv
<1> QED
  BY <1>1, ChainAdvances, ChainStarts, ChainForks, ChainLabels, ChainJoins, ChainDrops
  DEF ChainNext

(***************************************************************************)
(* Every action of the orchestrator is such a step of the chains.          *)
(***************************************************************************)
LEMMA NextIsChainNext ==
    ASSUME ChainTypeOK, [Next]_vars
    PROVE  ChainNext
<1> USE OrchestratorAssumption DEF RunPc, runVars
<1>1. ASSUME NEW t \in Roots, NEW a, SendTask(t, a) \/ ScheduleTask(t, a) \/ SendRemote(t, a)
      PROVE  ChainNext
  <2>1. StartsRoot(t)
    BY <1>1 DEF SendTask, ScheduleTask, SendRemote, Create, StartsRoot
  <2> QED BY <2>1 DEF ChainNext
<1>2. ASSUME NEW t \in Tasks, RunStep(t)
      PROVE  ChainNext
  <2> SUFFICES ASSUME ~Advances(t) PROVE ChainNext
    BY DEF ChainNext
  <2>1. ~WakeUp(t) /\ ~Begin(t) /\ ~MarkRunning(t) /\ ~Route(t)
    BY DEF WakeUp, Begin, MarkRunning, Route, Advances
  <2>2. ~StartOnPool(t) /\ ~LookUpSession(t) /\ ~CollectOutput(t) /\ ~DestroyOwnSession(t)
    BY DEF StartOnPool, LookUpSession, CollectOutput, DestroyOwnSession, Advances
  <2>3. ~ReleaseAgent(t) /\ ~ContainerSession(t) /\ ~CountPoolBusy(t) /\ ~ClaimContainer(t)
    BY DEF ReleaseAgent, AfterRelease, ContainerSession, CountPoolBusy, ClaimContainer, Advances
  <2>4. ~PromptContainer(t) /\ ~ReleaseContainer(t) /\ ~RemoteCall(t) /\ ~CollectFollowups(t)
    BY DEF PromptContainer, ReleaseContainer, AfterRelease, RemoteCall, CollectFollowups, Advances
  <2>5. ~FollowupsDone(t) /\ ~ClearBackgroundRun(t) /\ ~PruneAndReturn(t)
    BY DEF FollowupsDone, ClearBackgroundRun, PruneAndReturn, Advances
  <2>6. ASSUME NEW n \in Tasks, CreateFollowup(t, n)
        PROVE  ChainNext
    BY <2>6 DEF CreateFollowup, Forks, ChainNext
  <2>7. LabelEdge(t) => ChainNext
    BY DEF LabelEdge, Labels, ChainNext
  <2>8. FollowupReturned(t) => ChainNext
    BY DEF FollowupReturned, Joins, ChainNext
  <2> QED
    BY <1>2, <2>1, <2>2, <2>3, <2>4, <2>5, <2>6, <2>7, <2>8 DEF RunStep
<1>3. ASSUME NEW t \in Tasks, AbortTakesEffect(t) \/ Disconnect(t)
      PROVE  ChainNext
  <2>1. Drops(t)
    BY <1>3 DEF AbortTakesEffect, Disconnect, DropChain, Drops
  <2> QED BY <2>1 DEF ChainNext
<1>4. ASSUME NEW q \in Pipers, NEW n \in Tasks, PipeSpawn(q, n)
      PROVE  ChainNext
  <2>1. StartsRoot(n)
    BY <1>4 DEF PipeSpawn, Create, StartsRoot
  <2> QED BY <2>1 DEF ChainNext
<1>5. ASSUME NEW q \in Pipers, PipeLink(q) \/ PipeRecord(q) \/ LeavePipe(q)
      PROVE  ChainNext
  BY <1>5 DEF PipeLink, PipeRecord, LeavePipe, ChainNext
<1>6. ASSUME NEW p \in Stoppers, StopStep(p)
      PROVE  ChainNext
  BY <1>6 DEF StopStep, StopCollect, StopAbort, StopFail, StopPool, StopContainer,
             DropOrder, LateCall, ChainNext
<1>7. ASSUME NEW t \in Tasks, RegisterHandle(t) \/ PromptEnds(t)
      PROVE  ChainNext
  BY <1>7 DEF RegisterHandle, PromptEnds, ChainNext
<1>8. ASSUME NEW c \in CtrAgents, LaunchContainer(c)
      PROVE  ChainNext
  BY <1>8 DEF LaunchContainer, ChainNext
<1>9. ASSUME NEW a \in Agents, LaunchPty(a)
      PROVE  ChainNext
  BY <1>9 DEF LaunchPty, ChainNext
<1>10. ASSUME NEW p \in Stoppers, NEW a, NEW m, StopBegin(p, a, m)
      PROVE  ChainNext
  BY <1>10 DEF StopBegin, ChainNext
<1>11. ASSUME NEW q \in Pipers, NEW t \in Tasks, NEW b, PipeRead(q, t, b)
      PROVE  ChainNext
  BY <1>11 DEF PipeRead, ChainNext
<1>12. CASE ListTasks \/ DayPasses \/ OtherClients
  BY <1>12 DEF ListTasks, DayPasses, OtherClients, ChainNext
<1>13. CASE UNCHANGED vars
  BY <1>13 DEF vars, ChainNext
<1> QED
  BY <1>1, <1>2, <1>3, <1>4, <1>5, <1>6, <1>7, <1>8, <1>9, <1>10, <1>11, <1>12, <1>13
  DEF Next, Request, PipeStep

(* Whatever is sent, stopped or dropped, a follow-up is only ever active   *)
(* inside the run that awaits it.                                          *)
THEOREM FollowupsStayOwned == Spec => []FollowupsOwned
<1>1. Init => ChainInv
  BY ChainInit
<1>2. ChainInv /\ [Next]_vars => ChainInv'
  BY ChainStep, NextIsChainNext DEF ChainInv
<1>3. ChainInv => FollowupsOwned
  BY DEF ChainInv
<1> QED BY <1>1, <1>2, <1>3, PTL DEF Spec

--------------------------------------------------------------------------------
(***************************************************************************)
(* What holds of a run at each of its steps.                               *)
(***************************************************************************)

(* A run has an execution on a pool agent exactly in the steps between     *)
(* start_task and complete_task, and none before.                          *)
RunPhase ==
    \A t \in Tasks :
        /\ phase[t] \in Live <=> run[t] \in {"exec", "free", "release"}
        /\ run[t] = "exec" => phase[t] \in {"started", "collecting"}
        /\ run[t] = "free" => phase[t] = "collecting"
        /\ run[t] = "release" => phase[t] = "freed"
        /\ run[t] \in {"none", "sleep", "begin", "mark", "remark"} => phase[t] = "new"

(* The graph has a node for exactly the tasks that were created; a run in  *)
(* run_container_task is for a container agent, and a run that serves      *)
(* follow-ups has completed.                                               *)
RunNode ==
    \A t \in Tasks :
        /\ run[t] = "none" <=> nodeStatus[t] = "absent"
        /\ run[t] # "none" => nodeAgent[t] \in AllAgents
        /\ run[t] \in {"session", "count", "claim", "prompt", "settle"} => nodeAgent[t] \in CtrAgents
        /\ run[t] \in {"followups", "next"} \/ waits[t] # NoTask => nodeStatus[t] = "complete"

(* A pipe names only tasks that exist, and for its own target; so do the   *)
(* run that is about to write the name and the pipe request that will.     *)
Generated ==
    /\ \A i \in DOMAIN edges : edges[i].generated # NoTask =>
          /\ run[edges[i].generated] # "none"
          /\ nodeAgent[edges[i].generated] = edges[i].target
    /\ \A t \in Tasks : run[t] = "label" =>
          todo[t] # <<>> /\ nodeAgent[waits[t]] = Head(todo[t])
    /\ \A q \in Pipers : pipes[q].pc # "new" =>
          pipes[q].source \in Tasks /\ pipes[q].target \in AllAgents
    /\ \A q \in Pipers : pipes[q].pc = "await" =>
          /\ pipes[q].task \in Tasks
          /\ run[pipes[q].task] # "none"
          /\ nodeAgent[pipes[q].task] = pipes[q].target

(* From the moment its output was collected a task has a final status.     *)
Settled ==
    \A t \in Tasks :
        run[t] = "free" \/ phase[t] = "freed" \/ (phase[t] = "over" /\ on[t] # NoAgent) =>
            tasks[t] \in Terminal \cup {"absent"}

(* A stop request of a container agent names one.                          *)
OrdersOK ==
    \A p \in Stoppers :
        /\ orders[p].container => orders[p].agent \in CtrAgents
        /\ orders[p].pc \in {"session", "deinit", "destroy", "unmap", "forget", "settle", "mark"} =>
              orders[p].container

(* A container has been given a prompt only by a run that awaits it, was   *)
(* dropped, or gave it up.                                                 *)
GivenUp(t) == nodeStatus[t] \in {"timeout", "failed"}

PromptsKnown ==
    \A t \in Tasks : t \in prompts =>
        /\ nodeAgent[t] \in CtrAgents
        /\ \/ run[t] \in {"prompt", "dropped"}
           \/ run[t] \in {"settle", "clear", "prune", "over"} /\ GivenUp(t)

(* A run has a claim on its container until it gives it back; a run that   *)
(* was dropped under its prompt has one for good.                          *)
Prompting(t) == run[t] \in {"prompt", "settle"}

Orphan(t) == run[t] = "dropped" /\ t \in prompts /\ ~GivenUp(t)

Claims(t) == Prompting(t) \/ Orphan(t)

(* A container agent with a claim on it is not Idle, and it is not in the  *)
(* map before its launch has registered it; nobody else has a claim on it; *)
(* a Busy one has a prompt out or was left so by a dropped run.            *)
HeldNotIdle ==
    \A t \in Tasks : Claims(t) =>
        ctr[nodeAgent[t]] # "idle" /\ launching[nodeAgent[t]].pc \in {"attach", "over"}

UnknownBefore == \A c \in CtrAgents : launching[c].pc \notin {"attach", "over"} => ctr[c] = "absent"

OneClaim == \A t, u \in Tasks : Claims(t) /\ Claims(u) /\ nodeAgent[t] = nodeAgent[u] => t = u

BusyHasPrompt ==
    \A c \in CtrAgents : ctr[c] = "busy" =>
        \E t \in Tasks : nodeAgent[t] = c /\ run[t] \in {"prompt", "settle", "dropped"}

ContainersHeld == HeldNotIdle /\ UnknownBefore /\ OneClaim /\ BusyHasPrompt

(* Only the deepest active run of a chain does not wait for another.       *)
LEMMA OneRunner ==
    ASSUME ChainInv, NEW t \in Tasks, NEW u \in Tasks, root[t] = root[u],
           Active(t), Active(u), ~Waiting(t), ~Waiting(u)
    PROVE  t = u
<1>1. PICK d \in [Tasks -> Nat] : Depths(d)
  BY DEF ChainInv
<1>2. ~(d[t] < d[u]) /\ ~(d[u] < d[t])
  BY <1>1 DEF Depths
<1>3. d[t] = d[u]
  BY <1>2
<1> QED BY <1>1, <1>3 DEF Depths

(* An agent is held only by a run that is active and does not wait.        *)
LEMMA HoldersAreRunners == ChainInv /\ RunPhase => OneAgentPerChain
  BY OneRunner DEF RunPhase, OneAgentPerChain

(* A dropped chain drops at most one execution.                            *)
LEMMA DropIsPoolStep ==
    ASSUME PoolTypeOK, ChainInv, RunPhase, NEW r \in Tasks, DropChain(r)
    PROVE  [PoolNext]_poolVars
<1>1. CASE \E t \in Tasks : root[t] = r /\ Active(t) /\ phase[t] \in Live
  <2>1. PICK t \in Tasks : root[t] = r /\ Active(t) /\ phase[t] \in Live
    BY <1>1
  <2>2. \A u \in Tasks : root[u] = r /\ Active(u) /\ phase[u] \in Live => u = t
    BY <2>1, HoldersAreRunners DEF OneAgentPerChain
  <2>3. phase' = [phase EXCEPT ![t] = "lost"]
    BY <2>1, <2>2 DEF DropChain, PoolTypeOK
  <2>4. DropRun(t)
    BY <2>1, <2>3 DEF DropChain, DropRun
  <2> QED BY <2>4 DEF PoolNext
<1>2. CASE ~ \E t \in Tasks : root[t] = r /\ Active(t) /\ phase[t] \in Live
  <2>1. phase' = phase
    BY <1>2 DEF DropChain, PoolTypeOK
  <2> QED BY <2>1 DEF DropChain, poolVars
<1> QED BY <1>1, <1>2

(* Every step of the orchestrator is a step of the pool or leaves it alone. *)
LEMMA NextIsPoolNext ==
    ASSUME PoolTypeOK, ChainInv, RunPhase, [Next]_vars
    PROVE  [PoolNext]_poolVars
<1> USE OrchestratorAssumption
<1>1. ASSUME NEW t \in Roots, NEW a, SendTask(t, a) \/ ScheduleTask(t, a) \/ SendRemote(t, a)
      PROVE  UNCHANGED poolVars
  BY <1>1 DEF SendTask, ScheduleTask, SendRemote
<1>2. ASSUME NEW t \in Tasks, RunStep(t)
      PROVE  [PoolNext]_poolVars
  <2> SUFFICES ASSUME poolVars' # poolVars PROVE PoolNext
    OBVIOUS
  <2>1. ~WakeUp(t) /\ ~Begin(t) /\ ~MarkRunning(t) /\ ~Route(t)
    BY DEF WakeUp, Begin, MarkRunning, Route
  <2>2. ~CollectOutput(t) /\ ~ContainerSession(t) /\ ~CountPoolBusy(t) /\ ~ClaimContainer(t)
    BY DEF CollectOutput, ContainerSession, CountPoolBusy, ClaimContainer
  <2>3. ~PromptContainer(t) /\ ~ReleaseContainer(t) /\ ~RemoteCall(t) /\ ~CollectFollowups(t)
    BY DEF PromptContainer, ReleaseContainer, RemoteCall, CollectFollowups
  <2>4. /\ ~FollowupsDone(t) /\ ~ClearBackgroundRun(t) /\ ~PruneAndReturn(t)
        /\ ~LabelEdge(t) /\ ~FollowupReturned(t) /\ \A n \in Tasks : ~CreateFollowup(t, n)
    BY DEF FollowupsDone, ClearBackgroundRun, PruneAndReturn, LabelEdge, FollowupReturned,
           CreateFollowup
  <2>5. StartOnPool(t) => PoolNext
    BY DEF StartOnPool, PoolNext
  <2>6. LookUpSession(t) \/ DestroyOwnSession(t) \/ ReleaseAgent(t) => PoolNext
    BY DEF LookUpSession, DestroyOwnSession, ReleaseAgent, PoolNext
  <2> QED BY <1>2, <2>1, <2>2, <2>3, <2>4, <2>5, <2>6 DEF RunStep
<1>3. ASSUME NEW t \in Tasks, AbortTakesEffect(t) \/ Disconnect(t)
      PROVE  [PoolNext]_poolVars
  BY <1>3, DropIsPoolStep DEF AbortTakesEffect, Disconnect
<1>4. ASSUME NEW q \in Pipers, PipeStep(q)
      PROVE  UNCHANGED poolVars
  BY <1>4 DEF PipeStep, PipeLink, PipeSpawn, PipeRecord, LeavePipe
<1>5. ASSUME NEW p \in Stoppers, StopStep(p)
      PROVE  [PoolNext]_poolVars
  <2>1. StopPool(p) => [PoolNext]_poolVars
    BY DEF StopPool, Managed, PoolNext
  <2>2. DropOrder(p) => [PoolNext]_poolVars
    BY DEF DropOrder, PoolNext
  <2> QED BY <1>5, <2>1, <2>2 DEF StopStep, StopCollect, StopAbort, StopFail, StopContainer, LateCall
<1>6. ASSUME NEW t \in Tasks, RegisterHandle(t) \/ PromptEnds(t)
      PROVE  UNCHANGED poolVars
  BY <1>6 DEF RegisterHandle, PromptEnds
<1>7. ASSUME NEW c \in CtrAgents, LaunchContainer(c)
      PROVE  UNCHANGED poolVars
  BY <1>7 DEF LaunchContainer
<1>8. ASSUME NEW a \in Agents, LaunchPty(a)
      PROVE  PoolNext
  BY <1>8 DEF LaunchPty, PoolNext
<1>9. ASSUME NEW p \in Stoppers, NEW a, NEW m, StopBegin(p, a, m)
      PROVE  UNCHANGED poolVars
  BY <1>9 DEF StopBegin
<1>10. ASSUME NEW q \in Pipers, NEW t \in Tasks, NEW b, PipeRead(q, t, b)
       PROVE  UNCHANGED poolVars
  BY <1>10 DEF PipeRead
<1>11. CASE ListTasks \/ DayPasses
  BY <1>11 DEF ListTasks, DayPasses
<1>12. CASE OtherClients
  BY <1>12 DEF OtherClients, PoolNext, SessionIds
<1>13. CASE UNCHANGED vars
  BY <1>13 DEF vars
<1> QED
  BY <1>1, <1>2, <1>3, <1>4, <1>5, <1>6, <1>7, <1>8, <1>9, <1>10, <1>11, <1>12, <1>13
  DEF Next, Request

(* A run that takes no step of the pool moves between steps that hold no   *)
(* execution, and only forward from those before start_task.               *)
LEMMA PhaseKept ==
    ASSUME ChainTypeOK, PoolTypeOK, RunPhase, NEW t \in Tasks, NEW pc, phase' = phase, Goto(t, pc),
           \/ pc = run[t]
           \/ /\ run[t] \in {"none", "sleep", "begin", "mark", "remark"}
              /\ pc \in {"sleep", "begin", "mark", "remark"}
           \/ /\ run[t] \notin {"exec", "free", "release"}
              /\ pc \notin {"exec", "free", "release", "none", "sleep", "begin", "mark", "remark"}
    PROVE  RunPhase'
  BY DEF ChainTypeOK, PoolTypeOK, RunPhase

LEMMA PhaseStep ==
    ASSUME ChainTypeOK, PoolTypeOK, RunPhase, [Next]_vars
    PROVE  RunPhase'
<1> USE OrchestratorAssumption DEF poolVars, runVars
<1> DEFINE Same == phase' = phase /\ run' = run
<1>0. Same => RunPhase'
  BY DEF RunPhase
<1>1. ASSUME NEW t \in Roots, NEW a, SendTask(t, a) \/ ScheduleTask(t, a) \/ SendRemote(t, a)
      PROVE  RunPhase'
  <2>1. phase' = phase /\ \E pc \in {"sleep", "begin", "remote"} : Goto(t, pc)
    BY <1>1 DEF SendTask, ScheduleTask, SendRemote, Create
  <2>2. run[t] = "none"
    BY <1>1 DEF SendTask, ScheduleTask, SendRemote
  <2> QED BY <2>1, <2>2, PhaseKept
<1>2. ASSUME NEW t \in Tasks, RunStep(t)
      PROVE  RunPhase'
  <2>1. WakeUp(t) => RunPhase'
    BY PhaseKept DEF WakeUp
  <2>2. Begin(t) => RunPhase'
    BY DEF Begin, RunPhase, ChainTypeOK, PoolTypeOK, Live
  <2>3. MarkRunning(t) \/ Route(t) => RunPhase'
    BY PhaseKept DEF MarkRunning, Route
  <2>4. StartOnPool(t) => RunPhase'
    BY DEF StartOnPool, StartTask, StartRefused, StartUnknown, RunPhase, ChainTypeOK, PoolTypeOK, Live
  <2>5. LookUpSession(t) => RunPhase'
    BY DEF LookUpSession, FindSession, RunPhase, ChainTypeOK, PoolTypeOK, Live
  <2>6. CollectOutput(t) => RunPhase'
    BY DEF CollectOutput, RunPhase, ChainTypeOK, PoolTypeOK, Live
  <2>7. DestroyOwnSession(t) => RunPhase'
    BY DEF DestroyOwnSession, FreeSession, RunPhase, ChainTypeOK, PoolTypeOK, Live
  <2>8. ReleaseAgent(t) => RunPhase'
    BY DEF ReleaseAgent, AfterRelease, CompleteTask, RunPhase, ChainTypeOK, PoolTypeOK, Live
  <2>9. ContainerSession(t) \/ CountPoolBusy(t) \/ ClaimContainer(t) => RunPhase'
    BY PhaseKept DEF ContainerSession, CountPoolBusy, ClaimContainer
  <2>10. PromptContainer(t) \/ ReleaseContainer(t) \/ RemoteCall(t) => RunPhase'
    BY PhaseKept DEF PromptContainer, ReleaseContainer, AfterRelease, RemoteCall
  <2>11. CollectFollowups(t) \/ LabelEdge(t) \/ FollowupReturned(t) \/ FollowupsDone(t) => RunPhase'
    BY PhaseKept DEF CollectFollowups, LabelEdge, FollowupReturned, FollowupsDone
  <2>12. ClearBackgroundRun(t) \/ PruneAndReturn(t) => RunPhase'
    BY PhaseKept DEF ClearBackgroundRun, PruneAndReturn
  <2>13. ASSUME NEW n \in Tasks, CreateFollowup(t, n) PROVE RunPhase'
    BY <2>13 DEF CreateFollowup, RunPhase, ChainTypeOK, PoolTypeOK
  <2> QED
    BY <1>2, <2>1, <2>2, <2>3, <2>4, <2>5, <2>6, <2>7, <2>8, <2>9, <2>10, <2>11, <2>12, <2>13
    DEF RunStep
<1>3. ASSUME NEW t \in Tasks, AbortTakesEffect(t) \/ Disconnect(t)
      PROVE  RunPhase'
  <2>1. DropChain(t)
    BY <1>3 DEF AbortTakesEffect, Disconnect
  <2> QED BY <2>1 DEF DropChain, RunPhase, ChainTypeOK, PoolTypeOK, Live
<1>4. ASSUME NEW q \in Pipers, NEW n \in Tasks, PipeSpawn(q, n)
      PROVE  RunPhase'
  BY <1>4, PhaseKept DEF PipeSpawn, Create
<1>5. ASSUME NEW q \in Pipers, PipeLink(q) \/ PipeRecord(q) \/ LeavePipe(q)
      PROVE  Same
  BY <1>5 DEF PipeLink, PipeRecord, LeavePipe
<1>6. ASSUME NEW p \in Stoppers, StopStep(p)
      PROVE  Same
  BY <1>6 DEF StopStep, StopCollect, StopAbort, StopFail, StopPool, StopRead, StopKill, StopMark,
              StopContainer, DropOrder, DropStop, LateCall
<1>7. ASSUME NEW t \in Tasks, RegisterHandle(t) \/ PromptEnds(t)
      PROVE  Same
  BY <1>7 DEF RegisterHandle, PromptEnds
<1>8. ASSUME NEW c \in CtrAgents, LaunchContainer(c)
      PROVE  Same
  BY <1>8 DEF LaunchContainer
<1>9. ASSUME NEW a \in Agents, LaunchPty(a)
      PROVE  Same
  BY <1>9 DEF LaunchPty, Launch
<1>10. ASSUME NEW p \in Stoppers, NEW a, NEW m, StopBegin(p, a, m)
      PROVE  Same
  BY <1>10 DEF StopBegin
<1>11. ASSUME NEW q \in Pipers, NEW t \in Tasks, NEW b, PipeRead(q, t, b)
      PROVE  Same
  BY <1>11 DEF PipeRead
<1>12. CASE ListTasks \/ DayPasses \/ OtherClients
  <2>1. Same
    BY <1>12 DEF ListTasks, DayPasses, OtherClients, OpenTerminal, DestroySession
  <2> QED BY <2>1, <1>0
<1>13. CASE UNCHANGED vars
  BY <1>0, <1>13 DEF vars
<1> QED
  BY <1>0, <1>1, <1>2, <1>3, <1>4, <1>5, <1>6, <1>7, <1>8, <1>9, <1>10, <1>11, <1>12, <1>13
  DEF Next, Request, PipeStep

PoolAndRuns == PoolInv /\ ChainInv /\ RunPhase

LEMMA PoolAndRunsInit == Init => PoolAndRuns
  BY PoolInitInv, ChainInit DEF Init, PoolInit, PoolAndRuns, RunPhase, Live

LEMMA PoolAndRunsStep ==
    PoolAndRuns /\ [Next]_vars => PoolAndRuns' /\ [PoolNext]_poolVars
<1> SUFFICES ASSUME PoolAndRuns, [Next]_vars PROVE PoolAndRuns' /\ [PoolNext]_poolVars
  OBVIOUS
<1>1. PoolTypeOK /\ ChainTypeOK
  BY DEF PoolAndRuns, PoolInv, ChainInv
<1>2. [PoolNext]_poolVars
  BY <1>1, NextIsPoolNext DEF PoolAndRuns
<1>3. PoolInv'
  BY <1>2, PoolStepInv DEF PoolAndRuns
<1>4. ChainInv' /\ RunPhase'
  BY <1>1, NextIsChainNext, ChainStep, PhaseStep DEF PoolAndRuns
<1> QED BY <1>2, <1>3, <1>4 DEF PoolAndRuns

(* The orchestrator uses the pool as PoolSpec says: no interleaving of     *)
(* runs, follow-ups, aborts, disconnections and stops does anything to it  *)
(* that one of the pool's own operations does not.                         *)
THEOREM OrchestratorImplementsPool == Spec => ImplementsPool
<1>1. Init => PoolAndRuns /\ PoolInit
  BY PoolAndRunsInit DEF Init
<1>2. PoolAndRuns /\ [Next]_vars => PoolAndRuns' /\ [PoolNext]_poolVars
  BY PoolAndRunsStep
<1> QED BY <1>1, <1>2, PTL DEF Spec, ImplementsPool, PoolSpec

(* A chain of follow-ups holds at most one agent at any time, whatever the *)
(* length of the chain and however many chains there are.                  *)
THEOREM ChainsHoldOneAgent == Spec => []OneAgentPerChain
<1>1. Init => PoolAndRuns
  BY PoolAndRunsInit
<1>2. PoolAndRuns /\ [Next]_vars => PoolAndRuns'
  BY PoolAndRunsStep
<1>3. PoolAndRuns => OneAgentPerChain
  BY HoldersAreRunners DEF PoolAndRuns
<1> QED BY <1>1, <1>2, <1>3, PTL DEF Spec

--------------------------------------------------------------------------------
(***************************************************************************)
(* outgoing_for lists the targets of a task's edges.                       *)
(***************************************************************************)

Lists(f, S) ==
    /\ \A i, j \in DOMAIN f : i < j => f[i] < f[j]
    /\ \A x \in S : \E i \in DOMAIN f : f[i] = x

(* A bounded set of numbers can be enumerated in increasing order.         *)
LEMMA Enumerable ==
    ASSUME NEW m \in Nat, NEW S \in SUBSET (1..m)
    PROVE  \E f \in UNION {[1..l -> S] : l \in 0..m} : Lists(f, S)
<1> DEFINE Listed(T, n) == \E l \in 0..n : \E f \in [1..l -> T] : Lists(f, T)
           Bad == {n \in Nat : \E T \in SUBSET (1..n) : ~Listed(T, n)}
<1>1. Bad = {}
  <2> SUFFICES ASSUME Bad # {} PROVE FALSE
    OBVIOUS
  <2>1. \E R : IsWellFoundedOn(R, Nat) /\ \A x, y \in Nat : x < y => <<x, y>> \in R
    <3>1. \A x, y \in Nat : x < y => <<x, y>> \in OpToRel(<, Nat)
      BY Zenon DEF OpToRel
    <3> QED BY <3>1, NatLessThanWellFounded, Zenon
  <2>2. PICK R : IsWellFoundedOn(R, Nat) /\ \A x, y \in Nat : x < y => <<x, y>> \in R
    BY <2>1
  <2>3. PICK n \in Bad : \A k \in Bad : ~(<<k, n>> \in R)
    <3>1. Bad \subseteq Nat
      OBVIOUS
    <3>2. IsWellFoundedOn(R, Nat)
      BY <2>2
    <3> HIDE DEF Bad
    <3> QED BY <3>1, <3>2, WFMin, Zenon
  <2>4. n \in Nat
    OBVIOUS
  <2>5. \A k \in Nat : k < n => k \notin Bad
    BY <2>2, <2>3, <2>4
  <2>6. PICK T \in SUBSET (1..n) : ~Listed(T, n)
    OBVIOUS
  <2>7. n # 0
    <3> SUFFICES ASSUME n = 0 PROVE Listed(T, n)
      BY <2>6
    <3>1. T = {}
      BY <2>6
    <3>2. [i \in 1..0 |-> i] \in [1..0 -> T] /\ Lists([i \in 1..0 |-> i], T)
      BY <3>1 DEF Lists
    <3>3. 0 \in 0..n
      OBVIOUS
    <3>4. \E f \in [1..0 -> T] : Lists(f, T)
      BY <3>2
    <3> QED BY <3>3, <3>4
  <2>8. n - 1 \in Nat /\ n - 1 < n
    BY <2>4, <2>7
  <2>9. n - 1 \notin Bad
    BY <2>5, <2>8
  <2>10. ASSUME NEW U \in SUBSET (1..(n - 1)) PROVE Listed(U, n - 1)
    BY <2>8, <2>9
  <2>11. n \in T
    <3> SUFFICES ASSUME n \notin T PROVE FALSE
      OBVIOUS
    <3>1. T \in SUBSET (1..(n - 1))
      BY <2>4, <2>8
    <3>2. PICK l \in 0..(n - 1) : \E f \in [1..l -> T] : Lists(f, T)
      BY <2>10, <3>1
    <3>3. l \in 0..n
      BY <2>4, <3>2
    <3> QED BY <2>6, <3>2, <3>3
  <2>12. (T \ {n}) \in SUBSET (1..(n - 1))
    BY <2>4, <2>8
  <2>13. PICK k \in 0..(n - 1) : \E f \in [1..k -> T \ {n}] : Lists(f, T \ {n})
    BY <2>10, <2>12
  <2>14. PICK f \in [1..k -> T \ {n}] : Lists(f, T \ {n})
    BY <2>13
  <2> DEFINE g == [i \in 1..(k + 1) |-> IF i = k + 1 THEN n ELSE f[i]]
  <2> HIDE DEF Bad, Listed
  <2>15. k \in Nat /\ k + 1 \in 0..n
    BY <2>4, <2>8
  <2>16. g \in [1..(k + 1) -> T]
    <3> SUFFICES ASSUME NEW i \in 1..(k + 1), i # k + 1 PROVE f[i] \in T
      BY <2>11
    <3>1. i \in 1..k
      BY <2>15
    <3> QED BY <2>14, <3>1
  <2>17. \A i \in 1..k : f[i] \in Nat /\ f[i] < n
    <3> SUFFICES ASSUME NEW i \in 1..k PROVE f[i] \in Nat /\ f[i] < n
      OBVIOUS
    <3>1. f[i] \in 1..n /\ f[i] # n
      BY <2>14
    <3> QED BY <2>4, <3>1
  <2>18. ASSUME NEW i \in 1..(k + 1), NEW j \in 1..(k + 1), i < j PROVE g[i] < g[j]
    <3>1. i \in 1..k /\ g[i] = f[i]
      BY <2>15, <2>18
    <3>2. CASE j = k + 1
      BY <2>17, <3>1, <3>2
    <3>3. CASE j # k + 1
      <4>1. j \in 1..k /\ g[j] = f[j]
        BY <2>15, <3>3
      <4>2. i \in DOMAIN f /\ j \in DOMAIN f
        BY <2>14, <3>1, <4>1
      <4> QED BY <2>14, <2>18, <3>1, <4>1, <4>2 DEF Lists
    <3> QED BY <3>2, <3>3
  <2>19. ASSUME NEW x \in T PROVE \E i \in 1..(k + 1) : g[i] = x
    <3>1. CASE x = n
      BY <2>15, <3>1
    <3>2. CASE x # n
      <4>1. PICK i \in DOMAIN f : f[i] = x
        BY <2>14, <3>2 DEF Lists
      <4>2. i \in 1..k
        BY <2>14, <4>1
      <4>3. i \in 1..(k + 1) /\ i # k + 1
        BY <2>15, <4>2
      <4> QED BY <4>1, <4>3
    <3> QED BY <3>1, <3>2
  <2>20. DOMAIN g = 1..(k + 1)
    OBVIOUS
  <2> HIDE DEF g
  <2>21. Lists(g, T)
    BY <2>18, <2>19, <2>20 DEF Lists
  <2> QED BY <2>6, <2>15, <2>16, <2>21 DEF Listed
<1>2. Listed(S, m)
  BY <1>1
<1> QED BY <1>2

(* So outgoing_for is a list of agents, with an edge of its own for each   *)
(* of its elements.                                                        *)
LEMMA OutgoingIsList ==
    ASSUME NEW t, edges \in Seq(Graph!EdgeRecord)
    PROVE  /\ Graph!OutgoingFor(t) \in Seq(AllAgents)
           /\ Len(Graph!OutgoingFor(t)) \in Nat
           /\ \E g \in [Nat -> Nat] :
                 /\ \A j, k \in 1..Len(Graph!OutgoingFor(t)) : g[j] = g[k] => j = k
                 /\ \A k \in 1..Len(Graph!OutgoingFor(t)) :
                       g[k] \in DOMAIN edges /\ edges[g[k]].source = t
<1> DEFINE mine == {i \in DOMAIN edges : edges[i].source = t}
           nth == Graph!InOrder(mine, Len(edges))
<1>1. DOMAIN edges = 1..Len(edges) /\ Len(edges) \in Nat
  OBVIOUS
<1>2. mine \in SUBSET (1..Len(edges))
  BY <1>1
<1>3. \E f \in UNION {[1..l -> mine] : l \in 0..Len(edges)} : Lists(f, mine)
  BY <1>1, <1>2, Enumerable
<1>4. nth \in UNION {[1..l -> mine] : l \in 0..Len(edges)} /\ Lists(nth, mine)
  <2> HIDE DEF mine
  <2> QED BY <1>3 DEF Lists, Graph!InOrder
<1>5. PICK l \in 0..Len(edges) : nth \in [1..l -> mine]
  BY <1>4
<1>6. l \in Nat
  BY <1>1
<1>7. ASSUME NEW k \in 1..l PROVE edges[nth[k]].target \in AllAgents
  <2>1. nth[k] \in DOMAIN edges
    BY <1>5
  <2>2. edges[nth[k]] \in Graph!EdgeRecord
    BY <2>1
  <2> QED BY <2>2 DEF Graph!EdgeRecord
<1>8. Graph!OutgoingFor(t) = [k \in 1..l |-> edges[nth[k]].target]
  BY <1>5 DEF Graph!OutgoingFor
<1>9. \A k \in 1..l : nth[k] \in DOMAIN edges /\ nth[k] \in Nat /\ edges[nth[k]].source = t
  BY <1>1, <1>5
<1>10. ASSUME NEW j \in 1..l, NEW k \in 1..l, nth[j] = nth[k] PROVE j = k
  <2>1. j \in DOMAIN nth /\ k \in DOMAIN nth /\ nth[j] \in Nat
    BY <1>1, <1>5
  <2>2. ~(j < k) /\ ~(k < j)
    BY <1>4, <1>10, <2>1 DEF Lists
  <2> QED BY <1>6, <2>2
<1> HIDE DEF mine, nth
<1>11. Graph!OutgoingFor(t) \in Seq(AllAgents) /\ Len(Graph!OutgoingFor(t)) = l
  BY <1>6, <1>7, <1>8
<1> DEFINE g == [k \in Nat |-> IF k \in 1..l THEN nth[k] ELSE 0]
<1>12. g \in [Nat -> Nat]
  BY <1>9
<1>13. \A k \in 1..l : g[k] = nth[k]
  BY <1>6
<1> HIDE DEF g
<1>14. /\ \A j, k \in 1..l : g[j] = g[k] => j = k
       /\ \A k \in 1..l : g[k] \in DOMAIN edges /\ edges[g[k]].source = t
  BY <1>9, <1>10, <1>13
<1> QED BY <1>6, <1>11, <1>12, <1>14

--------------------------------------------------------------------------------
(***************************************************************************)
(* The task graph.                                                         *)
(***************************************************************************)

(* Replacing one field of some edges leaves a list of edges.               *)
LEMMA RelabelledType ==
    ASSUME NEW t \in Tasks, NEW n \in Tasks, NEW b \in AllAgents,
           edges \in Seq(Graph!EdgeRecord)
    PROVE  Graph!WithGenerated(edges, t, b, n) \in Seq(Graph!EdgeRecord)
<1> DEFINE es == Graph!WithGenerated(edges, t, b, n)
<1>1. /\ DOMAIN edges = 1..Len(edges) /\ Len(edges) \in Nat
      /\ \A i \in DOMAIN edges : edges[i] \in Graph!EdgeRecord
  OBVIOUS
<1>2. DOMAIN es = 1..Len(edges) /\ \A i \in DOMAIN es : es[i] \in Graph!EdgeRecord
  BY <1>1 DEF Graph!WithGenerated, Graph!EdgeRecord
<1>3. es = [i \in 1..Len(edges) |-> es[i]]
  BY <1>1 DEF Graph!WithGenerated
<1> HIDE DEF es
<1>4. es \in Seq(Graph!EdgeRecord)
  BY <1>1, <1>2, <1>3
<1> QED BY <1>4 DEF es

(* Every operation of the graph keeps its type.                            *)
LEMMA GraphTypeStep ==
    ASSUME Graph!GraphTypeOK, [Graph!GraphNext]_(Graph!graphVars)
    PROVE  Graph!GraphTypeOK'
<1>1. ASSUME NEW t \in Tasks, NEW a \in AllAgents, NEW st \in TaskStatus,
             Graph!UpsertNode(t, a, st), UNCHANGED edges
      PROVE  Graph!GraphTypeOK'
  BY <1>1 DEF Graph!GraphTypeOK, Graph!UpsertNode
<1>2. ASSUME NEW t \in Tasks, NEW b \in AllAgents,
             Graph!AddEdge(t, b), UNCHANGED <<nodeStatus, nodeAgent>>
      PROVE  Graph!GraphTypeOK'
  <2>1. Graph!NewEdge(t, b) \in Graph!EdgeRecord
    BY DEF Graph!NewEdge, Graph!EdgeRecord
  <2> QED BY <1>2, <2>1 DEF Graph!GraphTypeOK, Graph!AddEdge
<1>3. ASSUME NEW t \in Tasks, NEW n \in Tasks, NEW b \in AllAgents,
             Graph!SetGenerated(t, b, n), UNCHANGED <<nodeStatus, nodeAgent>>
      PROVE  Graph!GraphTypeOK'
  BY <1>3, RelabelledType DEF Graph!GraphTypeOK, Graph!SetGenerated
<1>4. CASE UNCHANGED Graph!graphVars
  BY <1>4 DEF Graph!graphVars, Graph!GraphTypeOK
<1> QED BY <1>1, <1>2, <1>3, <1>4 DEF Graph!GraphNext

NodesInv ==
    /\ Graph!GraphTypeOK
    /\ ChainInv
    /\ RunNode
    /\ Generated
    /\ todo \in [Tasks -> Seq(AllAgents)]
    /\ pipes \in [Pipers -> Pipe]

(* Every step of the orchestrator is a step of the graph or leaves it      *)
(* alone.                                                                  *)
LEMMA NextIsGraphNext ==
    ASSUME NodesInv, [Next]_vars
    PROVE  [Graph!GraphNext]_(Graph!graphVars)
<1> USE OrchestratorAssumption DEF graphVars
<1> DEFINE Upserts == \E t \in Tasks, a \in AllAgents, st \in TaskStatus :
                          Graph!UpsertNode(t, a, st) /\ UNCHANGED edges
           Labelled == \E t, n \in Tasks, b \in AllAgents :
                          Graph!SetGenerated(t, b, n) /\ UNCHANGED <<nodeStatus, nodeAgent>>
           Linking == \E t \in Tasks, b \in AllAgents :
                          Graph!AddEdge(t, b) /\ UNCHANGED <<nodeStatus, nodeAgent>>
           Same == UNCHANGED <<nodeStatus, nodeAgent, edges>>
<1>0. Upserts \/ Labelled \/ Linking \/ Same => [Graph!GraphNext]_(Graph!graphVars)
  BY DEF Graph!GraphNext, Graph!graphVars
<1> HIDE DEF Upserts, Labelled, Linking, Same
<1>1. ASSUME NEW t \in Roots, NEW a \in AllAgents,
             SendTask(t, a) \/ ScheduleTask(t, a) \/ SendRemote(t, a)
      PROVE  Upserts
  BY <1>1 DEF SendTask, ScheduleTask, SendRemote, Create, Upserts, TaskStatus
<1>2. ASSUME NEW t \in Tasks, NEW st \in Terminal, run[t] # "none", Finish(t, st), UNCHANGED edges
      PROVE  Upserts
  BY <1>2 DEF Finish, Upserts, TaskStatus, Terminal, NodesInv, RunNode
<1>3. ASSUME NEW t \in Tasks, RunStep(t)
      PROVE  Upserts \/ Labelled \/ Same
  <2>1. WakeUp(t) \/ Begin(t) \/ Route(t) \/ StartOnPool(t) => Same
    BY DEF WakeUp, Begin, Route, StartOnPool, Same
  <2>2. MarkRunning(t) => Upserts
    BY DEF MarkRunning, Upserts, TaskStatus, NodesInv, RunNode
  <2>3. LookUpSession(t) \/ DestroyOwnSession(t) \/ ReleaseAgent(t) => Same
    BY DEF LookUpSession, DestroyOwnSession, ReleaseAgent, Same
  <2>4. CollectOutput(t) \/ PromptContainer(t) => Upserts
    BY <1>2 DEF CollectOutput, PromptContainer
  <2>5. RemoteCall(t) => Upserts \/ Same
    BY <1>2 DEF RemoteCall, Same
  <2>6. ContainerSession(t) \/ CountPoolBusy(t) \/ ClaimContainer(t) \/ ReleaseContainer(t) => Same
    BY DEF ContainerSession, CountPoolBusy, ClaimContainer, ReleaseContainer, Same
  <2>7. CollectFollowups(t) \/ FollowupReturned(t) \/ FollowupsDone(t) => Same
    BY DEF CollectFollowups, FollowupReturned, FollowupsDone, Same
  <2>8. ClearBackgroundRun(t) \/ PruneAndReturn(t) => Same
    BY DEF ClearBackgroundRun, PruneAndReturn, Same
  <2>9. ASSUME NEW n \in Tasks, CreateFollowup(t, n) PROVE Upserts
    <3>1. Head(todo[t]) \in AllAgents
      BY <2>9 DEF CreateFollowup, NodesInv
    <3> QED BY <2>9, <3>1 DEF CreateFollowup, Upserts, TaskStatus
  <2>10. ASSUME LabelEdge(t) PROVE Labelled
    <3>1. todo[t] # <<>> /\ todo[t] \in Seq(AllAgents) /\ waits[t] \in Tasks
      BY <2>10 DEF LabelEdge, NodesInv, Generated, ChainInv, ChainTypeOK, Linked
    <3>2. Head(todo[t]) \in AllAgents
      BY <3>1
    <3> QED BY <2>10, <3>1, <3>2 DEF LabelEdge, Labelled
  <2> QED
    BY <1>3, <2>1, <2>2, <2>3, <2>4, <2>5, <2>6, <2>7, <2>8, <2>9, <2>10 DEF RunStep
<1>4. ASSUME NEW t \in Tasks, AbortTakesEffect(t) \/ Disconnect(t) \/ RegisterHandle(t) \/ PromptEnds(t)
      PROVE  Same
  BY <1>4 DEF AbortTakesEffect, Disconnect, RegisterHandle, PromptEnds, Same
<1>5. ASSUME NEW q \in Pipers, PipeStep(q)
      PROVE  Upserts \/ Linking \/ Labelled \/ Same
  <2>1. pipes[q].pc # "new" => pipes[q].source \in Tasks /\ pipes[q].target \in AllAgents
    BY DEF NodesInv, Generated
  <2>2. PipeLink(q) => Linking \/ Same
    BY <2>1 DEF PipeLink, Linking, Same
  <2>3. ASSUME NEW n \in Tasks, PipeSpawn(q, n) PROVE Upserts
    BY <2>1, <2>3 DEF PipeSpawn, Create, Upserts, TaskStatus
  <2>4. PipeRecord(q) => Labelled
    BY <2>1 DEF PipeRecord, Labelled, NodesInv, Generated
  <2>5. LeavePipe(q) => Same
    BY DEF LeavePipe, Same
  <2> QED BY <1>5, <2>2, <2>3, <2>4, <2>5 DEF PipeStep
<1>6. ASSUME NEW p \in Stoppers, StopStep(p)
      PROVE  Same
  BY <1>6 DEF StopStep, StopCollect, StopAbort, StopFail, StopPool, StopContainer,
             DropOrder, LateCall, Same
<1>7. ASSUME NEW c \in CtrAgents, LaunchContainer(c)
      PROVE  Same
  BY <1>7 DEF LaunchContainer, Same
<1>8. ASSUME NEW a \in Agents, LaunchPty(a)
      PROVE  Same
  BY <1>8 DEF LaunchPty, Same
<1>9. ASSUME NEW p \in Stoppers, NEW a, NEW m, StopBegin(p, a, m)
      PROVE  Same
  BY <1>9 DEF StopBegin, Same
<1>10. ASSUME NEW q \in Pipers, NEW t \in Tasks, NEW b, PipeRead(q, t, b)
      PROVE  Same
  BY <1>10 DEF PipeRead, Same
<1>11. CASE ListTasks \/ DayPasses \/ OtherClients
  <2>1. Same
    BY <1>11 DEF ListTasks, DayPasses, OtherClients, Same
  <2> QED BY <1>0, <2>1
<1>12. CASE UNCHANGED vars
  BY <1>0, <1>12 DEF vars, Same
<1> QED
  BY <1>0, <1>1, <1>3, <1>4, <1>5, <1>6, <1>7, <1>8, <1>9, <1>10, <1>11, <1>12
  DEF Next, Request, AllAgents

(* A created task stays created, for the agent it was created for.         *)
LEMMA NodesKept ==
    ASSUME NodesInv, [Next]_vars
    PROVE  \A t \in Tasks : run[t] # "none" => run'[t] # "none" /\ nodeAgent'[t] = nodeAgent[t]
<1> USE PoolAssumption
<1>1. ChainNext /\ ChainInv /\ ChainTypeOK
  BY NextIsChainNext DEF NodesInv, ChainInv
<1>2. ASSUME NEW t \in Tasks, run[t] # "none" PROVE run'[t] # "none"
  BY <1>1, <1>2 DEF ChainNext, Advances, StartsRoot, Forks, Labels, Joins, Drops, ChainTypeOK, RunPc
<1>3. ASSUME NEW t \in Tasks, run[t] # "none" PROVE nodeAgent'[t] = nodeAgent[t]
  <2>1. nodeStatus[t] # "absent"
    BY <1>3 DEF NodesInv, RunNode
  <2> QED
    BY <2>1, NextIsGraphNext
    DEF NodesInv, Graph!GraphTypeOK, Graph!GraphNext, Graph!graphVars, Graph!UpsertNode
<1> QED BY <1>2, <1>3

CtrPc == {"session", "count", "claim", "prompt", "settle"}

(* A run goes on without a change to the graph.                            *)
LEMMA NodeMoves ==
    ASSUME ChainInv, RunNode, NEW t \in Tasks, NEW pc, Goto(t, pc), run[t] # "none", pc # "none",
           UNCHANGED <<nodeStatus, nodeAgent, waits>>,
           pc \in CtrPc => nodeAgent[t] \in CtrAgents,
           pc \in {"followups", "next"} => nodeStatus[t] = "complete"
    PROVE  RunNode'
  BY DEF ChainInv, ChainTypeOK, RunNode, CtrPc

(* A run records the outcome of its task.                                  *)
LEMMA NodeFinishes ==
    ASSUME Graph!GraphTypeOK, ChainInv, RunNode, NEW t \in Tasks, NEW pc, NEW st \in TaskStatus,
           Graph!UpsertNode(t, nodeAgent[t], st),
           Goto(t, pc), Active(t), ~Waiting(t), pc \notin {"none", "followups", "next"}, waits' = waits,
           pc \in CtrPc => nodeAgent[t] \in CtrAgents
    PROVE  RunNode'
  BY DEF ChainInv, ChainTypeOK, Linked, RunNode, CtrPc, Graph!GraphTypeOK, Graph!UpsertNode, TaskStatus

(* A task is created.                                                      *)
LEMMA NodeStarts ==
    ASSUME Graph!GraphTypeOK, ChainInv, RunNode, NEW t \in Tasks, NEW a \in AllAgents,
           NEW st \in TaskStatus, NEW pc \in {"sleep", "begin", "remote"},
           run[t] = "none", Graph!UpsertNode(t, a, st), Goto(t, pc), waits' = waits
    PROVE  RunNode'
<1> USE PoolAssumption
<1> QED BY DEF ChainInv, ChainTypeOK, Linked, RunNode, Graph!GraphTypeOK, Graph!UpsertNode, TaskStatus

LEMMA RunNodeStep ==
    ASSUME NodesInv, [Next]_vars
    PROVE  RunNode'
<1> USE OrchestratorAssumption, PoolAssumption DEF graphVars, runVars, NodesInv, CtrPc
<1> DEFINE Same == UNCHANGED <<run, waits, nodeStatus, nodeAgent>>
<1>0. Same => RunNode'
  BY DEF RunNode
<1>1. ASSUME NEW t \in Roots, NEW a \in AllAgents,
             SendTask(t, a) \/ ScheduleTask(t, a) \/ SendRemote(t, a)
      PROVE  RunNode'
  BY <1>1, NodeStarts DEF SendTask, ScheduleTask, SendRemote, Create, TaskStatus
<1>2. ASSUME NEW t \in Tasks, RunStep(t)
      PROVE  RunNode'
  <2>1. WakeUp(t) => RunNode'
    BY NodeMoves DEF WakeUp
  <2>2. Begin(t) => RunNode'
    BY NodeMoves DEF Begin
  <2>3. Route(t) => RunNode'
    BY NodeMoves DEF Route, CtrManaged
  <2>4. StartOnPool(t) \/ LookUpSession(t) \/ DestroyOwnSession(t) => RunNode'
    BY NodeMoves DEF StartOnPool, LookUpSession, DestroyOwnSession
  <2>5. ReleaseAgent(t) \/ ReleaseContainer(t) => RunNode'
    BY NodeMoves DEF ReleaseAgent, ReleaseContainer, AfterRelease
  <2>6. ContainerSession(t) \/ CountPoolBusy(t) \/ ClaimContainer(t) => RunNode'
    <3>1. run[t] \in {"session", "count", "claim"} => nodeAgent[t] \in CtrAgents
      BY DEF RunNode
    <3> QED BY <3>1, NodeMoves DEF ContainerSession, CountPoolBusy, ClaimContainer
  <2>7. MarkRunning(t) => RunNode'
    BY NodeFinishes DEF MarkRunning, TaskStatus
  <2>8. ASSUME NEW st \in Terminal, NEW pc \in {"free", "settle", "prune"}, Finish(t, st), Goto(t, pc),
               Active(t), ~Waiting(t), waits' = waits, pc = "settle" => nodeAgent[t] \in CtrAgents
        PROVE  RunNode'
    <3>1. st \in TaskStatus /\ Graph!UpsertNode(t, nodeAgent[t], st)
      BY <2>8 DEF Finish, Terminal, TaskStatus
    <3> QED BY <2>8, <3>1, NodeFinishes
  <2>9. CollectOutput(t) \/ PromptContainer(t) => RunNode'
    <3>1. run[t] = "prompt" => nodeAgent[t] \in CtrAgents
      BY DEF RunNode
    <3> QED BY <2>8, <3>1 DEF CollectOutput, PromptContainer
  <2>10. RemoteCall(t) => RunNode'
    <3>1. Goto(t, "over") /\ UNCHANGED <<nodeStatus, nodeAgent, waits>> /\ run[t] = "remote" => RunNode'
      BY NodeMoves
    <3> QED BY <2>8, <3>1 DEF RemoteCall
  <2>11. CollectFollowups(t) => RunNode'
    <3>1. run[t] = "followups" => nodeStatus[t] = "complete"
      BY DEF RunNode
    <3> QED BY <3>1, NodeMoves DEF CollectFollowups
  <2>12. LabelEdge(t) => RunNode'
    BY NodeMoves DEF LabelEdge
  <2>13. FollowupReturned(t) => RunNode'
    <3>1. run[t] = "nested" => nodeStatus[t] = "complete"
      BY DEF RunNode, ChainInv, Linked
    <3> QED BY <3>1 DEF FollowupReturned, RunNode, ChainInv, ChainTypeOK
  <2>14. FollowupsDone(t) \/ ClearBackgroundRun(t) \/ PruneAndReturn(t) => RunNode'
    BY NodeMoves DEF FollowupsDone, ClearBackgroundRun, PruneAndReturn
  <2>15. ASSUME NEW n \in Tasks, CreateFollowup(t, n) PROVE RunNode'
    <3>1. Head(todo[t]) \in AllAgents /\ nodeStatus[t] = "complete"
      BY <2>15 DEF CreateFollowup, RunNode
    <3> QED
      BY <2>15, <3>1
      DEF CreateFollowup, RunNode, ChainInv, ChainTypeOK, Linked, Graph!GraphTypeOK, Graph!UpsertNode
  <2> QED
    BY <1>2, <2>1, <2>2, <2>3, <2>4, <2>5, <2>6, <2>7, <2>8, <2>9, <2>10, <2>11, <2>12, <2>13,
       <2>14, <2>15 DEF RunStep
<1>3. ASSUME NEW t \in Tasks, AbortTakesEffect(t) \/ Disconnect(t)
      PROVE  RunNode'
  <2>1. DropChain(t) /\ UNCHANGED <<waits, nodeStatus, nodeAgent>>
    BY <1>3 DEF AbortTakesEffect, Disconnect
  <2> QED BY <2>1 DEF DropChain, RunNode, ChainInv, ChainTypeOK
<1>4. ASSUME NEW q \in Pipers, NEW n \in Tasks, PipeSpawn(q, n)
      PROVE  RunNode'
  <2>1. pipes[q].target \in AllAgents
    BY <1>4 DEF PipeSpawn, Generated
  <2> QED BY <1>4, <2>1, NodeStarts DEF PipeSpawn, Create, TaskStatus
<1>5. ASSUME NEW q \in Pipers, PipeLink(q) \/ PipeRecord(q) \/ LeavePipe(q)
      PROVE  Same
  BY <1>5 DEF PipeLink, PipeRecord, LeavePipe
<1>6. ASSUME NEW p \in Stoppers, StopStep(p)
      PROVE  Same
  BY <1>6 DEF StopStep, StopCollect, StopAbort, StopFail, StopPool, StopContainer,
             DropOrder, LateCall
<1>7. ASSUME NEW t \in Tasks, RegisterHandle(t) \/ PromptEnds(t)
      PROVE  Same
  BY <1>7 DEF RegisterHandle, PromptEnds
<1>8. ASSUME NEW c \in CtrAgents, LaunchContainer(c)
      PROVE  Same
  BY <1>8 DEF LaunchContainer
<1>9. ASSUME NEW a \in Agents, LaunchPty(a)
      PROVE  Same
  BY <1>9 DEF LaunchPty
<1>10. ASSUME NEW p \in Stoppers, NEW a, NEW m, StopBegin(p, a, m)
      PROVE  Same
  BY <1>10 DEF StopBegin
<1>11. ASSUME NEW q \in Pipers, NEW t \in Tasks, NEW b, PipeRead(q, t, b)
      PROVE  Same
  BY <1>11 DEF PipeRead
<1>12. CASE ListTasks \/ DayPasses \/ OtherClients
  <2>1. Same
    BY <1>12 DEF ListTasks, DayPasses, OtherClients
  <2> QED BY <2>1, <1>0
<1>13. CASE UNCHANGED vars
  BY <1>0, <1>13 DEF vars
<1> QED
  BY <1>0, <1>1, <1>2, <1>3, <1>4, <1>5, <1>6, <1>7, <1>8, <1>9, <1>10, <1>11, <1>12, <1>13
  DEF Next, Request, PipeStep, AllAgents

(* The steps that write to edges, to a list of follow-ups or to a pipe     *)
(* request; no other step starts or ends the labelling of an edge.         *)
Quiet == /\ UNCHANGED <<edges, todo, pipes, waits>>
         /\ \A t \in Tasks : run'[t] = "label" => run[t] = "label"

ListStep ==
    \/ \E t \in Tasks : LabelEdge(t) \/ CollectFollowups(t) \/ FollowupReturned(t) \/ Disconnect(t)
    \/ \E t, n \in Tasks : CreateFollowup(t, n)
    \/ \E q \in Pipers : PipeLink(q) \/ PipeRecord(q) \/ LeavePipe(q) \/ \E n \in Tasks : PipeSpawn(q, n)
    \/ \E q \in Pipers, t \in Tasks, b \in AllAgents : PipeRead(q, t, b)

LEMMA ListSteps ==
    ASSUME ChainTypeOK, [Next]_vars
    PROVE  ListStep \/ Quiet
<1> USE OrchestratorAssumption DEF graphVars, runVars
<1>1. ASSUME NEW t \in Roots, NEW a, SendTask(t, a) \/ ScheduleTask(t, a) \/ SendRemote(t, a)
      PROVE  Quiet
  BY <1>1 DEF SendTask, ScheduleTask, SendRemote, Create, Quiet, ChainTypeOK
<1>2. ASSUME NEW t \in Tasks, RunStep(t)
      PROVE  ListStep \/ Quiet
  <2>1. WakeUp(t) \/ Begin(t) \/ MarkRunning(t) \/ Route(t) => Quiet
    BY DEF WakeUp, Begin, MarkRunning, Route, Quiet, ChainTypeOK
  <2>2. StartOnPool(t) \/ LookUpSession(t) \/ CollectOutput(t) => Quiet
    BY DEF StartOnPool, LookUpSession, CollectOutput, Quiet, ChainTypeOK
  <2>3. DestroyOwnSession(t) \/ ReleaseAgent(t) \/ ReleaseContainer(t) => Quiet
    BY DEF DestroyOwnSession, ReleaseAgent, ReleaseContainer, AfterRelease, Quiet, ChainTypeOK
  <2>4. ContainerSession(t) \/ CountPoolBusy(t) \/ ClaimContainer(t) \/ PromptContainer(t) => Quiet
    BY DEF ContainerSession, CountPoolBusy, ClaimContainer, PromptContainer, Quiet, ChainTypeOK
  <2>5. RemoteCall(t) \/ FollowupsDone(t) \/ ClearBackgroundRun(t) \/ PruneAndReturn(t) => Quiet
    BY DEF RemoteCall, FollowupsDone, ClearBackgroundRun, PruneAndReturn, Quiet, ChainTypeOK
  <2> QED BY <1>2, <2>1, <2>2, <2>3, <2>4, <2>5 DEF RunStep, ListStep
<1>3. ASSUME NEW t \in Tasks, AbortTakesEffect(t)
      PROVE  Quiet
  BY <1>3 DEF AbortTakesEffect, DropChain, Quiet, ChainTypeOK
<1>4. ASSUME NEW p \in Stoppers, StopStep(p)
      PROVE  Quiet
  BY <1>4 DEF StopStep, StopCollect, StopAbort, StopFail, StopPool, StopContainer,
             DropOrder, LateCall, Quiet
<1>5. ASSUME NEW t \in Tasks, RegisterHandle(t) \/ PromptEnds(t)
      PROVE  Quiet
  BY <1>5 DEF RegisterHandle, PromptEnds, Quiet
<1>6. ASSUME NEW c \in CtrAgents, LaunchContainer(c)
      PROVE  Quiet
  BY <1>6 DEF LaunchContainer, Quiet
<1>7. ASSUME NEW a \in Agents, LaunchPty(a)
      PROVE  Quiet
  BY <1>7 DEF LaunchPty, Quiet
<1>8. ASSUME NEW p \in Stoppers, NEW a, NEW m, StopBegin(p, a, m)
      PROVE  Quiet
  BY <1>8 DEF StopBegin, Quiet
<1>9. CASE ListTasks \/ DayPasses \/ OtherClients
  BY <1>9 DEF ListTasks, DayPasses, OtherClients, Quiet
<1>10. CASE UNCHANGED vars
  BY <1>10 DEF vars, Quiet
<1> QED
  BY <1>1, <1>2, <1>3, <1>4, <1>5, <1>6, <1>7, <1>8, <1>9, <1>10
  DEF Next, Request, PipeStep, ListStep

(* An edge is only given the name of a task created for its target.        *)
LEMMA RelabelKeepsMatch ==
    ASSUME NodesInv, \A t \in Tasks : run[t] # "none" => run'[t] # "none" /\ nodeAgent'[t] = nodeAgent[t],
           NEW t \in Tasks, NEW n \in Tasks, NEW b \in AllAgents,
           run[n] # "none", nodeAgent[n] = b, Graph!SetGenerated(t, b, n)
    PROVE  \A i \in DOMAIN edges' : edges'[i].generated # NoTask =>
              /\ run'[edges'[i].generated] # "none"
              /\ nodeAgent'[edges'[i].generated] = edges'[i].target
<1>1. edges' = Graph!WithGenerated(edges, t, b, n)
  BY DEF Graph!SetGenerated
<1>2. \A i \in DOMAIN edges : edges[i] \in Graph!EdgeRecord
  BY DEF NodesInv, Graph!GraphTypeOK
<1>3. DOMAIN edges' = DOMAIN edges
  BY <1>1 DEF Graph!WithGenerated
<1> SUFFICES ASSUME NEW i \in DOMAIN edges, edges'[i].generated # NoTask
             PROVE  /\ run'[edges'[i].generated] # "none"
                    /\ nodeAgent'[edges'[i].generated] = edges'[i].target
  BY <1>3
<1>4. CASE edges[i].source = t /\ edges[i].target = b
  <2>1. edges'[i] = [source |-> t, target |-> b, generated |-> n]
    BY <1>1, <1>4 DEF Graph!WithGenerated
  <2>2. edges'[i].generated = n /\ edges'[i].target = b
    BY <2>1
  <2> QED BY <2>2
<1>5. CASE ~(edges[i].source = t /\ edges[i].target = b)
  <2>1. edges'[i] = edges[i]
    BY <1>1, <1>5 DEF Graph!WithGenerated
  <2>2. edges[i].generated \in Tasks
    BY <1>2, <2>1 DEF Graph!EdgeRecord
  <2> QED BY <2>1, <2>2 DEF NodesInv, Generated
<1> QED BY <1>4, <1>5

(* A pipe request goes on.                                                 *)
LEMMA PipeMoved ==
    ASSUME pipes \in [Pipers -> Pipe], NEW q \in Pipers,
           NEW pc \in {"new", "link", "spawn", "await", "over"},
           pipes' = [pipes EXCEPT ![q].pc = pc]
    PROVE  /\ pipes' \in [Pipers -> Pipe]
           /\ pipes'[q].pc = pc /\ pipes'[q].task = pipes[q].task
           /\ pipes'[q].source = pipes[q].source /\ pipes'[q].target = pipes[q].target
           /\ \A x \in Pipers \ {q} : pipes'[x] = pipes[x]
  BY DEF Pipe

(* The lists of follow-ups and the pipe requests keep their types.         *)
LEMMA ListTypes ==
    ASSUME NodesInv, [Next]_vars
    PROVE  todo' \in [Tasks -> Seq(AllAgents)] /\ pipes' \in [Pipers -> Pipe]
<1> USE DEF graphVars, runVars
<1>1. todo \in [Tasks -> Seq(AllAgents)] /\ pipes \in [Pipers -> Pipe]
  BY DEF NodesInv
<1>2. ASSUME NEW t \in Tasks, LabelEdge(t)
      PROVE  todo' \in [Tasks -> Seq(AllAgents)] /\ pipes' = pipes
  <2>1. todo[t] \in Seq(AllAgents) /\ todo[t] # <<>>
    BY <1>2 DEF LabelEdge, NodesInv, Generated
  <2>2. Tail(todo[t]) \in Seq(AllAgents)
    BY <2>1
  <2> QED BY <1>1, <1>2, <2>2 DEF LabelEdge
<1>3. ASSUME NEW t \in Tasks, CollectFollowups(t)
      PROVE  todo' \in [Tasks -> Seq(AllAgents)] /\ pipes' = pipes
  <2>1. Graph!OutgoingFor(t) \in Seq(AllAgents)
    BY OutgoingIsList DEF NodesInv, Graph!GraphTypeOK
  <2> QED BY <1>1, <1>3, <2>1 DEF CollectFollowups
<1>4. ASSUME NEW t \in Tasks, FollowupReturned(t) \/ \E n \in Tasks : CreateFollowup(t, n)
      PROVE  UNCHANGED <<todo, pipes>>
  BY <1>4 DEF FollowupReturned, CreateFollowup
<1>5. ASSUME NEW t \in Tasks, Disconnect(t)
      PROVE  pipes' \in [Pipers -> Pipe] /\ todo' = todo
  BY <1>1, <1>5 DEF Disconnect, Pipe
<1>6. ASSUME NEW q \in Pipers, PipeLink(q) \/ PipeRecord(q) \/ LeavePipe(q) \/ \E n \in Tasks : PipeSpawn(q, n)
      PROVE  pipes' \in [Pipers -> Pipe] /\ todo' = todo
  <2>1. PipeLink(q) \/ PipeRecord(q) \/ LeavePipe(q) => pipes' \in [Pipers -> Pipe] /\ todo' = todo
    BY <1>1, PipeMoved DEF PipeLink, PipeRecord, LeavePipe
  <2>2. ASSUME NEW n \in Tasks, PipeSpawn(q, n) PROVE pipes' \in [Pipers -> Pipe] /\ todo' = todo
    BY <1>1, <2>2 DEF PipeSpawn, Pipe
  <2> QED BY <1>6, <2>1, <2>2
<1>7. ASSUME NEW q \in Pipers, NEW t \in Tasks, NEW b \in AllAgents, PipeRead(q, t, b)
      PROVE  pipes' \in [Pipers -> Pipe] /\ todo' = todo
  BY <1>1, <1>7 DEF PipeRead, Pipe
<1>8. CASE Quiet
  BY <1>1, <1>8 DEF Quiet
<1>9. ListStep \/ Quiet
  BY ListSteps DEF NodesInv, ChainInv
<1> QED BY <1>1, <1>2, <1>3, <1>4, <1>5, <1>6, <1>7, <1>8, <1>9 DEF ListStep

LEMMA GeneratedStep ==
    ASSUME NodesInv, [Next]_vars
    PROVE  Generated'
<1> USE PoolAssumption DEF graphVars, runVars
<1> DEFINE G1 == \A i \in DOMAIN edges : edges[i].generated # NoTask =>
                    /\ run[edges[i].generated] # "none"
                    /\ nodeAgent[edges[i].generated] = edges[i].target
           G2 == \A t \in Tasks : run[t] = "label" =>
                    todo[t] # <<>> /\ nodeAgent[waits[t]] = Head(todo[t])
           G3 == \A q \in Pipers : pipes[q].pc # "new" =>
                    pipes[q].source \in Tasks /\ pipes[q].target \in AllAgents
           G4 == \A q \in Pipers : pipes[q].pc = "await" =>
                    /\ pipes[q].task \in Tasks
                    /\ run[pipes[q].task] # "none"
                    /\ nodeAgent[pipes[q].task] = pipes[q].target
<1>1. \A t \in Tasks : run[t] # "none" => run'[t] # "none" /\ nodeAgent'[t] = nodeAgent[t]
  BY NodesKept
<1>2. G1 /\ G2 /\ G3 /\ G4
  BY DEF NodesInv, Generated
<1>3. \A i \in DOMAIN edges : edges[i].generated \in Tasks \cup {NoTask}
  <2>1. \A i \in DOMAIN edges : edges[i] \in Graph!EdgeRecord
    BY DEF NodesInv, Graph!GraphTypeOK
  <2> QED BY <2>1 DEF Graph!EdgeRecord
<1>4. \A t \in Tasks : run[t] = "label" => waits[t] \in Tasks /\ run[waits[t]] # "none"
  BY DEF NodesInv, ChainInv, ChainTypeOK, Linked
<1>5. edges' = edges => G1'
  BY <1>1, <1>2, <1>3
<1>6. todo' = todo /\ waits' = waits /\ (\A t \in Tasks : run'[t] = "label" => run[t] = "label") => G2'
  BY <1>1, <1>2, <1>4
<1>7. pipes' = pipes => G3' /\ G4'
  BY <1>1, <1>2
<1>8. /\ run \in [Tasks -> RunPc] /\ todo \in [Tasks -> Seq(AllAgents)]
      /\ pipes \in [Pipers -> Pipe] /\ waits \in [Tasks -> Tasks \cup {NoTask}]
  BY DEF NodesInv, ChainInv, ChainTypeOK
<1>9. ASSUME NEW t \in Tasks, LabelEdge(t)
      PROVE  G1' /\ G2' /\ G3' /\ G4'
  <2>1. G1'
    <3>1. /\ todo[t] # <<>> /\ todo[t] \in Seq(AllAgents)
          /\ nodeAgent[waits[t]] = Head(todo[t])
          /\ waits[t] \in Tasks /\ run[waits[t]] # "none"
      BY <1>2, <1>4, <1>8, <1>9 DEF LabelEdge
    <3>2. Head(todo[t]) \in AllAgents
      BY <3>1
    <3>3. Graph!SetGenerated(t, Head(todo[t]), waits[t])
      BY <1>9 DEF LabelEdge
    <3> HIDE DEF G2, G3, G4
    <3> QED BY <1>1, <3>1, <3>2, <3>3, RelabelKeepsMatch
  <2>2. G2'
    <3>1. \A u \in Tasks : run'[u] = "label" => run[u] = "label" /\ u # t /\ todo'[u] = todo[u]
      BY <1>8, <1>9 DEF LabelEdge
    <3>2. waits' = waits
      BY <1>9 DEF LabelEdge
    <3> QED BY <1>1, <1>2, <1>4, <3>1, <3>2
  <2> QED BY <1>7, <1>9, <2>1, <2>2 DEF LabelEdge
<1>10. ASSUME NEW t \in Tasks, CollectFollowups(t)
       PROVE  G1' /\ G2' /\ G3' /\ G4'
  <2>1. G2'
    <3>1. \A u \in Tasks : run'[u] = "label" => run[u] = "label" /\ u # t /\ todo'[u] = todo[u]
      BY <1>8, <1>10 DEF CollectFollowups
    <3>2. waits' = waits
      BY <1>10 DEF CollectFollowups
    <3> QED BY <1>1, <1>2, <1>4, <3>1, <3>2
  <2> QED BY <1>5, <1>7, <1>10, <2>1 DEF CollectFollowups
<1>11. ASSUME NEW t \in Tasks, FollowupReturned(t)
       PROVE  G1' /\ G2' /\ G3' /\ G4'
  <2>1. G2'
    <3>1. \A u \in Tasks : run'[u] = "label" => run[u] = "label" /\ waits'[u] = waits[u]
      BY <1>8, <1>11 DEF FollowupReturned
    <3> QED BY <1>1, <1>2, <1>4, <1>11, <3>1 DEF FollowupReturned
  <2> QED BY <1>5, <1>7, <1>11, <2>1 DEF FollowupReturned
<1>12. ASSUME NEW t \in Tasks, NEW n \in Tasks, CreateFollowup(t, n)
       PROVE  G1' /\ G2' /\ G3' /\ G4'
  <2>1. G2'
    <3>1. todo' = todo /\ todo[t] # <<>> /\ waits'[t] = n /\ run[n] = "none"
      BY <1>8, <1>12 DEF CreateFollowup
    <3>2. nodeAgent'[n] = Head(todo[t])
      BY <1>12 DEF CreateFollowup, Graph!UpsertNode, NodesInv, RunNode, Graph!GraphTypeOK
    <3>3. \A u \in Tasks \ {t} : run'[u] = "label" => run[u] = "label" /\ waits'[u] = waits[u]
      BY <1>8, <1>12 DEF CreateFollowup
    <3> QED BY <1>1, <1>2, <1>4, <3>1, <3>2, <3>3
  <2> QED BY <1>5, <1>7, <1>12, <2>1 DEF CreateFollowup
<1>13. ASSUME NEW t \in Tasks, Disconnect(t)
       PROVE  G1' /\ G2' /\ G3' /\ G4'
  <2>1. \A u \in Tasks : run'[u] = "label" => run[u] = "label"
    BY <1>8, <1>13 DEF Disconnect, DropChain
  <2>2. \A q \in Pipers : pipes'[q] = pipes[q] \/ (pipes[q].pc = "await" /\ pipes'[q] = [pipes[q] EXCEPT !.pc = "over"])
    BY <1>13 DEF Disconnect
  <2>3. \A q \in Pipers :
           \/ pipes'[q] = pipes[q]
           \/ /\ pipes[q].pc = "await" /\ pipes'[q].pc = "over"
              /\ pipes'[q].source = pipes[q].source /\ pipes'[q].target = pipes[q].target
    <3> SUFFICES ASSUME NEW q \in Pipers, pipes[q].pc = "await",
                        pipes'[q] = [pipes[q] EXCEPT !.pc = "over"]
                 PROVE  /\ pipes'[q].pc = "over"
                        /\ pipes'[q].source = pipes[q].source /\ pipes'[q].target = pipes[q].target
      BY <2>2
    <3>1. pipes[q] \in Pipe
      BY <1>8
    <3> QED BY <3>1 DEF Pipe
  <2>4. G3' /\ G4'
    BY <1>1, <1>2, <2>3
  <2> QED BY <1>5, <1>6, <1>13, <2>1, <2>4 DEF Disconnect
<1>14. ASSUME NEW q \in Pipers, PipeLink(q)
       PROVE  G1' /\ G2' /\ G3' /\ G4'
  <2>1. G1'
    <3>1. CASE edges' = edges
      BY <1>5, <3>1
    <3>2. CASE Graph!AddEdge(pipes[q].source, pipes[q].target)
      <4> DEFINE e == Graph!NewEdge(pipes[q].source, pipes[q].target)
      <4>1. e.generated = NoTask
        BY DEF Graph!NewEdge
      <4>2. e \in Graph!EdgeRecord
        BY <1>2, <1>14 DEF Graph!NewEdge, Graph!EdgeRecord, PipeLink
      <4>3. edges \in Seq(Graph!EdgeRecord) /\ edges' = Append(edges, e)
        BY <3>2 DEF NodesInv, Graph!GraphTypeOK, Graph!AddEdge
      <4> HIDE DEF e
      <4>4. \A i \in DOMAIN edges' : (i \in DOMAIN edges /\ edges'[i] = edges[i]) \/ edges'[i] = e
        BY <4>2, <4>3
      <4> QED BY <1>1, <1>2, <1>3, <4>1, <4>4
    <3> QED BY <1>14, <3>1, <3>2 DEF PipeLink
  <2>2. G2'
    BY <1>6, <1>14 DEF PipeLink
  <2>3. G3' /\ G4'
    <3>1. PICK pc \in {"spawn", "over"} : pipes' = [pipes EXCEPT ![q].pc = pc]
      BY <1>14 DEF PipeLink
    <3>2. /\ pipes'[q].pc = pc /\ \A x \in Pipers \ {q} : pipes'[x] = pipes[x]
          /\ pipes'[q].source = pipes[q].source /\ pipes'[q].target = pipes[q].target
      BY <1>8, <3>1, PipeMoved
    <3>3. pipes[q].pc # "new"
      BY <1>14 DEF PipeLink
    <3> QED BY <1>1, <1>2, <3>1, <3>2, <3>3
  <2> QED BY <2>1, <2>2, <2>3
<1>15. ASSUME NEW q \in Pipers, PipeRecord(q)
       PROVE  G1' /\ G2' /\ G3' /\ G4'
  <2>1. G1'
    <3>1. /\ pipes[q].source \in Tasks /\ pipes[q].target \in AllAgents /\ pipes[q].task \in Tasks
          /\ run[pipes[q].task] # "none" /\ nodeAgent[pipes[q].task] = pipes[q].target
          /\ Graph!SetGenerated(pipes[q].source, pipes[q].target, pipes[q].task)
      BY <1>2, <1>15 DEF PipeRecord
    <3> HIDE DEF G2, G3, G4
    <3> QED BY <1>1, <3>1, RelabelKeepsMatch
  <2>2. G2'
    BY <1>6, <1>15 DEF PipeRecord
  <2>3. G3' /\ G4'
    <3>1. pipes' = [pipes EXCEPT ![q].pc = "over"] /\ pipes[q].pc # "new"
      BY <1>15 DEF PipeRecord
    <3>2. /\ pipes'[q].pc = "over" /\ \A x \in Pipers \ {q} : pipes'[x] = pipes[x]
          /\ pipes'[q].source = pipes[q].source /\ pipes'[q].target = pipes[q].target
      BY <1>8, <3>1, PipeMoved
    <3> QED BY <1>1, <1>2, <3>1, <3>2
  <2> QED BY <2>1, <2>2, <2>3
<1>16. ASSUME NEW q \in Pipers, NEW n \in Tasks, PipeSpawn(q, n)
       PROVE  G1' /\ G2' /\ G3' /\ G4'
  <2>1. G1'
    BY <1>5, <1>16 DEF PipeSpawn
  <2>2. G2'
    <3>1. \A u \in Tasks : run'[u] = "label" => run[u] = "label"
      BY <1>8, <1>16 DEF PipeSpawn, Create
    <3> QED BY <1>6, <1>16, <3>1 DEF PipeSpawn
  <2>3. nodeAgent'[n] = pipes[q].target /\ run'[n] = "begin"
    BY <1>8, <1>16 DEF PipeSpawn, Create, Graph!UpsertNode, NodesInv, RunNode, Graph!GraphTypeOK
  <2>4. /\ pipes'[q].pc = "await" /\ pipes'[q].task = n
        /\ pipes'[q].source = pipes[q].source /\ pipes'[q].target = pipes[q].target
        /\ \A x \in Pipers \ {q} : pipes'[x] = pipes[x]
    BY <1>8, <1>16 DEF PipeSpawn, Pipe
  <2>5. G3'
    BY <1>2, <1>16, <2>4 DEF PipeSpawn
  <2>6. G4'
    BY <1>1, <1>2, <2>3, <2>4
  <2> QED BY <2>1, <2>2, <2>5, <2>6
<1>17. ASSUME NEW q \in Pipers, NEW t \in Tasks, NEW b \in AllAgents, PipeRead(q, t, b)
       PROVE  G1' /\ G2' /\ G3' /\ G4'
  <2>1. G3' /\ G4'
    BY <1>1, <1>2, <1>8, <1>17 DEF PipeRead, Pipe
  <2> QED BY <1>5, <1>6, <1>17, <2>1 DEF PipeRead
<1>18. ASSUME Quiet
       PROVE  G1' /\ G2' /\ G3' /\ G4'
  BY <1>5, <1>6, <1>7, <1>18 DEF Quiet
<1>19. ListStep \/ Quiet
  BY ListSteps DEF NodesInv, ChainInv
<1>20. ASSUME NEW q \in Pipers, LeavePipe(q)
       PROVE  G1' /\ G2' /\ G3' /\ G4'
  <2>1. pipes' = [pipes EXCEPT ![q].pc = "over"] /\ pipes[q].pc # "new"
    BY <1>20 DEF LeavePipe
  <2>2. /\ pipes'[q].pc = "over" /\ \A x \in Pipers \ {q} : pipes'[x] = pipes[x]
        /\ pipes'[q].source = pipes[q].source /\ pipes'[q].target = pipes[q].target
    BY <1>8, <2>1, PipeMoved
  <2>3. G3' /\ G4'
    BY <1>1, <1>2, <2>1, <2>2
  <2> QED BY <1>5, <1>6, <1>20, <2>3 DEF LeavePipe
<1>21. G1' /\ G2' /\ G3' /\ G4'
  <2> HIDE DEF G1, G2, G3, G4
  <2> QED
    BY <1>20, <1>9, <1>10, <1>11, <1>12, <1>13, <1>14, <1>15, <1>16, <1>17, <1>18, <1>19 DEF ListStep
<1> QED BY <1>21 DEF Generated

LEMMA NodesInit == Init => NodesInv
<1> SUFFICES ASSUME Init PROVE NodesInv
  OBVIOUS
<1>1. ChainInv
  BY ChainInit
<1>2. Graph!GraphTypeOK
  BY DEF Init, Graph!GraphInit, Graph!GraphTypeOK
<1>3. RunNode /\ Generated
  BY DEF Init, Graph!GraphInit, RunNode, Generated
<1>4. todo \in [Tasks -> Seq(AllAgents)]
  BY DEF Init
<1>5. pipes \in [Pipers -> Pipe]
  BY DEF Init, Pipe
<1> QED BY <1>1, <1>2, <1>3, <1>4, <1>5 DEF NodesInv

LEMMA NodesStep ==
    NodesInv /\ [Next]_vars => NodesInv' /\ [Graph!GraphNext]_(Graph!graphVars)
<1> SUFFICES ASSUME NodesInv, [Next]_vars
             PROVE  NodesInv' /\ [Graph!GraphNext]_(Graph!graphVars)
  OBVIOUS
<1>1. [Graph!GraphNext]_(Graph!graphVars)
  BY NextIsGraphNext
<1>2. Graph!GraphTypeOK'
  BY <1>1, GraphTypeStep DEF NodesInv
<1>3. ChainInv'
  BY NextIsChainNext, ChainStep DEF NodesInv, ChainInv
<1>4. RunNode' /\ Generated' /\ todo' \in [Tasks -> Seq(AllAgents)] /\ pipes' \in [Pipers -> Pipe]
  BY RunNodeStep, GeneratedStep, ListTypes
<1> QED BY <1>1, <1>2, <1>3, <1>4 DEF NodesInv

(* Runs and pipe requests use the task graph as GraphSpec says, so its     *)
(* agent-level graph stays acyclic whatever they do.                       *)
THEOREM OrchestratorImplementsGraph == Spec => ImplementsGraph
<1>1. Init => NodesInv /\ Graph!GraphInit
  BY NodesInit DEF Init
<1>2. NodesInv /\ [Next]_vars => NodesInv' /\ [Graph!GraphNext]_(Graph!graphVars)
  BY NodesStep
<1> QED BY <1>1, <1>2, PTL DEF Spec, ImplementsGraph, Graph!GraphSpec

(* Whichever run or request writes it, the task a pipe names was created   *)
(* for the pipe's target; and only completed tasks have follow-ups.        *)
THEOREM FollowupsAlwaysMatch == Spec => []FollowupsMatch
<1>1. Init => NodesInv
  BY NodesInit
<1>2. NodesInv /\ [Next]_vars => NodesInv'
  BY NodesStep
<1>3. NodesInv => FollowupsMatch
  BY DEF NodesInv, ChainInv, Linked, RunNode, Generated, FollowupsMatch
<1> QED BY <1>1, <1>2, <1>3, PTL DEF Spec

--------------------------------------------------------------------------------
(***************************************************************************)
(* The status of a task whose run had an agent.                            *)
(***************************************************************************)
HandedBack(t) ==
    run[t] = "free" \/ phase[t] = "freed" \/ (phase[t] = "over" /\ on[t] # NoAgent)

(* No step makes a task served without a final status; a served task is    *)
(* never marked Running again.                                             *)
LEMMA SettledStep ==
    ASSUME TypeOK, PoolInv, RunPhase, Settled, [Next]_vars
    PROVE  Settled'
<1> USE OrchestratorAssumption DEF poolVars, runVars, taskVars
<1> DEFINE Final(x) == x \in Terminal \cup {"absent"}
           Kept == /\ UNCHANGED <<phase, on>>
                   /\ \A t \in Tasks : run'[t] = "free" => run[t] = "free"
           Written == \A t \in Tasks :
                        \/ tasks'[t] = tasks[t]
                        \/ Final(tasks'[t])
                        \/ run[t] \in {"none", "mark", "remark"} /\ run'[t] # "free"
<1>1. Settled <=> \A t \in Tasks : HandedBack(t) => Final(tasks[t])
  BY DEF Settled, HandedBack
<1>2. Settled' <=> \A t \in Tasks : HandedBack(t)' => Final(tasks'[t])
  BY DEF Settled, HandedBack
<1>3. \A t \in Tasks : run[t] \in {"none", "mark", "remark"} => phase[t] = "new"
  BY DEF RunPhase
<1>4. \A t \in Tasks : phase[t] = "new" => on[t] = NoAgent
  BY DEF PoolInv, InProgress
<1>5. Kept /\ Written => Settled'
  BY <1>1, <1>2, <1>3 DEF HandedBack
<1>6. /\ run \in [Tasks -> RunPc] /\ tasks \in [Tasks -> TaskStatus \cup {"absent"}]
      /\ phase \in [Tasks -> Phase] /\ on \in [Tasks -> Agents \cup {NoAgent}]
  BY DEF TypeOK, PoolTypeOK
<1>7. Prune => \A t \in Tasks : tasks'[t] = tasks[t] \/ Final(tasks'[t])
  BY DEF Prune
<1>8. ASSUME NEW t \in Roots, NEW a, SendTask(t, a) \/ ScheduleTask(t, a) \/ SendRemote(t, a)
      PROVE  Kept /\ Written
  BY <1>6, <1>8 DEF SendTask, ScheduleTask, SendRemote, Create
<1>9. ASSUME NEW t \in Tasks, RunStep(t)
      PROVE  Settled'
  <2>1. WakeUp(t) \/ Begin(t) \/ MarkRunning(t) \/ Route(t) => Kept /\ Written
    BY <1>6 DEF WakeUp, Begin, MarkRunning, Route
  <2>2. StartOnPool(t) => Settled'
    <3>1. ASSUME StartOnPool(t)
          PROVE  /\ tasks' = tasks /\ run'[t] # "free" /\ phase'[t] \in {"started", "over"}
                 /\ phase'[t] = "over" => on'[t] = on[t] /\ phase[t] = "new"
                 /\ \A u \in Tasks \ {t} : phase'[u] = phase[u] /\ on'[u] = on[u] /\ run'[u] = run[u]
      BY <1>6, <3>1 DEF StartOnPool, StartTask, StartRefused, StartUnknown
    <3> QED BY <1>1, <1>2, <1>4, <3>1 DEF HandedBack
  <2>3. LookUpSession(t) => Settled'
    BY <1>1, <1>2, <1>6 DEF LookUpSession, FindSession, HandedBack
  <2>4. CollectOutput(t) => Settled'
    <3>1. ASSUME CollectOutput(t)
          PROVE  /\ UNCHANGED <<phase, on>> /\ tasks'[t] \in Terminal
                 /\ \A u \in Tasks \ {t} : run'[u] = run[u] /\ tasks'[u] = tasks[u]
      BY <1>6, <3>1 DEF CollectOutput, Finish
    <3> QED BY <1>1, <1>2, <3>1 DEF HandedBack
  <2>5. DestroyOwnSession(t) => Settled'
    BY <1>1, <1>2, <1>6 DEF DestroyOwnSession, FreeSession, HandedBack
  <2>6. ReleaseAgent(t) => Settled'
    BY <1>1, <1>2, <1>6 DEF ReleaseAgent, AfterRelease, CompleteTask, HandedBack
  <2>7. ContainerSession(t) \/ CountPoolBusy(t) \/ ClaimContainer(t) => Kept /\ Written
    BY <1>6 DEF ContainerSession, CountPoolBusy, ClaimContainer
  <2>8. PromptContainer(t) \/ RemoteCall(t) => Kept /\ Written
    BY <1>6 DEF PromptContainer, RemoteCall, Finish
  <2>9. ReleaseContainer(t) \/ CollectFollowups(t) \/ LabelEdge(t) => Kept /\ Written
    BY <1>6 DEF ReleaseContainer, AfterRelease, CollectFollowups, LabelEdge
  <2>10. FollowupReturned(t) \/ FollowupsDone(t) \/ ClearBackgroundRun(t) => Kept /\ Written
    BY <1>6 DEF FollowupReturned, FollowupsDone, ClearBackgroundRun
  <2>11. PruneAndReturn(t) => Kept /\ Written
    BY <1>6, <1>7 DEF PruneAndReturn
  <2>12. ASSUME NEW n \in Tasks, CreateFollowup(t, n) PROVE Kept /\ Written
    BY <1>6, <2>12 DEF CreateFollowup
  <2> HIDE DEF Kept, Written
  <2> QED
    BY <1>5, <1>9, <2>1, <2>2, <2>3, <2>4, <2>5, <2>6, <2>7, <2>8, <2>9, <2>10, <2>11, <2>12
    DEF RunStep
<1>10. ASSUME NEW t \in Tasks, AbortTakesEffect(t) \/ Disconnect(t)
       PROVE  Settled'
  <2>1. DropChain(t) /\ tasks' = tasks
    BY <1>10 DEF AbortTakesEffect, Disconnect
  <2> QED BY <1>1, <1>2, <1>6, <2>1 DEF DropChain, HandedBack
<1>11. ASSUME NEW q \in Pipers, PipeStep(q)
       PROVE  Kept /\ Written
  BY <1>6, <1>11 DEF PipeStep, PipeLink, PipeSpawn, Create, PipeRecord, LeavePipe
<1>12. ASSUME NEW p \in Stoppers, StopStep(p)
       PROVE  Kept /\ Written
  <2>1. StopFail(p) => Kept /\ Written
    BY DEF StopFail, Terminal
  <2>2. StopCollect(p) \/ StopAbort(p) \/ StopPool(p) \/ StopContainer(p) => Kept /\ Written
    BY DEF StopCollect, StopAbort, StopPool, StopRead, StopKill, StopMark, StopContainer
  <2>3. DropOrder(p) \/ LateCall(p) => Kept /\ Written
    BY DEF DropOrder, DropStop, LateCall
  <2> QED BY <1>12, <2>1, <2>2, <2>3 DEF StopStep
<1>13. ASSUME NEW t \in Tasks, RegisterHandle(t) \/ PromptEnds(t)
       PROVE  Kept /\ Written
  BY <1>13 DEF RegisterHandle, PromptEnds
<1>14. ASSUME NEW c \in CtrAgents, LaunchContainer(c)
       PROVE  Kept /\ Written
  BY <1>14 DEF LaunchContainer
<1>15. ASSUME NEW a \in Agents, LaunchPty(a)
       PROVE  Kept /\ Written
  BY <1>15 DEF LaunchPty, Launch
<1>16. ASSUME NEW p \in Stoppers, NEW a, NEW m, StopBegin(p, a, m)
       PROVE  Kept /\ Written
  BY <1>16 DEF StopBegin
<1>17. ASSUME NEW q \in Pipers, NEW t \in Tasks, NEW b, PipeRead(q, t, b)
       PROVE  Kept /\ Written
  BY <1>17 DEF PipeRead
<1>18. CASE ListTasks
  BY <1>5, <1>7, <1>18 DEF ListTasks
<1>19. CASE DayPasses \/ OtherClients
  BY <1>5, <1>19 DEF DayPasses, OtherClients, OpenTerminal, DestroySession
<1>20. CASE UNCHANGED vars
  BY <1>5, <1>20 DEF vars
<1> HIDE DEF Kept, Written
<1> QED
  BY <1>5, <1>8, <1>9, <1>10, <1>11, <1>12, <1>13, <1>14, <1>15, <1>16, <1>17, <1>18, <1>19, <1>20
  DEF Next, Request

--------------------------------------------------------------------------------
(***************************************************************************)
(* Container agents.                                                       *)
(***************************************************************************)
CtrTypeOK ==
    /\ ctr \in [CtrAgents -> AgentStatus]
    /\ launching \in [CtrAgents -> [pc : LaunchPc, seen : Nat]]

(* No run comes to prompt a container, none that has one stops, and no     *)
(* container changes.                                                      *)
NoPrompting ==
    /\ UNCHANGED <<ctr, launching>>
    /\ \A t \in Tasks : Prompting(t)' => Prompting(t)
    /\ \A t \in Tasks : run[t] \in {"prompt", "settle", "dropped"} => run'[t] \in {"prompt", "settle", "dropped"}

(* No run is dropped, and none that may have a prompt out goes on.         *)
Calm ==
    /\ prompts' \subseteq prompts
    /\ \A t \in Tasks : run'[t] = "dropped" => run[t] = "dropped"
    /\ \A t \in Tasks : run[t] \in {"prompt", "settle", "clear", "prune", "over", "dropped"} =>
          run'[t] = run[t] /\ nodeStatus'[t] = nodeStatus[t]

(* Every claim after a step that was left by a dropped run is one that the *)
(* run had before.                                                         *)
OrphansKept == \A t \in Tasks : Orphan(t)' => Claims(t)

LEMMA PromptsStep ==
    ASSUME NodesInv, PromptsKnown, [Next]_vars
    PROVE  PromptsKnown' /\ OrphansKept
<1> USE OrchestratorAssumption DEF graphVars, runVars, ctrVars
<1>1. /\ \A t \in Tasks : run[t] # "none" => nodeAgent'[t] = nodeAgent[t]
      /\ run \in [Tasks -> RunPc]
      /\ nodeStatus \in [Tasks -> TaskStatus \cup {"absent"}]
      /\ \A t \in Tasks : run[t] = "claim" => nodeAgent[t] \in CtrAgents
  BY NodesKept DEF NodesInv, ChainInv, ChainTypeOK, RunNode, Graph!GraphTypeOK
<1> DEFINE Done == PromptsKnown' /\ OrphansKept
<1>2. Calm => Done
  BY <1>1 DEF Calm, PromptsKnown, OrphansKept, Orphan, Claims, Prompting, GivenUp
<1>3. ASSUME NEW t \in Roots, NEW a, SendTask(t, a) \/ ScheduleTask(t, a) \/ SendRemote(t, a)
      PROVE  Calm
  BY <1>1, <1>3 DEF SendTask, ScheduleTask, SendRemote, Create, Graph!UpsertNode, Calm
<1>4. ASSUME NEW t \in Tasks, RunStep(t)
      PROVE  Done
  <2> USE <1>1 DEF Graph!UpsertNode
  <2>1. WakeUp(t) \/ Begin(t) \/ MarkRunning(t) \/ Route(t) => Calm
    BY DEF WakeUp, Begin, MarkRunning, Route, Calm
  <2>2. StartOnPool(t) \/ LookUpSession(t) \/ CollectOutput(t) \/ DestroyOwnSession(t) => Calm
    BY DEF StartOnPool, LookUpSession, CollectOutput, Finish, DestroyOwnSession, Calm
  <2>3. ReleaseAgent(t) \/ ContainerSession(t) \/ CountPoolBusy(t) => Calm
    BY DEF ReleaseAgent, AfterRelease, ContainerSession, CountPoolBusy, Calm
  <2>4. RemoteCall(t) \/ CollectFollowups(t) => Calm
    BY DEF RemoteCall, Finish, CollectFollowups, Calm
  <2>5. LabelEdge(t) \/ FollowupReturned(t) \/ FollowupsDone(t) => Calm
    BY DEF LabelEdge, FollowupReturned, FollowupsDone, Calm
  <2>6. ASSUME NEW n \in Tasks, CreateFollowup(t, n) PROVE Calm
    BY <2>6 DEF CreateFollowup, Calm
  <2>7. ClaimContainer(t) => Done
    BY DEF ClaimContainer, PromptsKnown, OrphansKept, Orphan, Claims, Prompting, GivenUp
  <2>8. PromptContainer(t) => Done
    BY DEF PromptContainer, Finish, Terminal, PromptsKnown, OrphansKept, Orphan, Claims, Prompting, GivenUp
  <2>9. ReleaseContainer(t) => Done
    BY DEF ReleaseContainer, AfterRelease, PromptsKnown, OrphansKept, Orphan, Claims, Prompting, GivenUp
  <2>10. ClearBackgroundRun(t) \/ PruneAndReturn(t) => Done
    BY DEF ClearBackgroundRun, PruneAndReturn, PromptsKnown, OrphansKept, Orphan, Claims, Prompting, GivenUp
  <2> HIDE DEF Done
  <2> QED
    BY <1>2, <1>4, <2>1, <2>2, <2>3, <2>4, <2>5, <2>6, <2>7, <2>8, <2>9, <2>10 DEF RunStep
<1>5. ASSUME NEW t \in Tasks, AbortTakesEffect(t) \/ Disconnect(t)
      PROVE  Done
  BY <1>1, <1>5
  DEF AbortTakesEffect, Disconnect, DropChain, PromptsKnown, OrphansKept, Orphan, Claims, Prompting, GivenUp
<1>6. ASSUME NEW q \in Pipers, PipeStep(q)
      PROVE  Calm
  BY <1>1, <1>6
  DEF PipeStep, PipeLink, PipeSpawn, Create, PipeRecord, LeavePipe, Graph!UpsertNode, Calm
<1>7. ASSUME NEW p \in Stoppers, StopStep(p)
      PROVE  Calm
  BY <1>7 DEF StopStep, StopCollect, StopAbort, StopFail, StopPool, StopContainer,
              DropOrder, LateCall, Calm
<1>8. ASSUME NEW t \in Tasks, RegisterHandle(t) \/ PromptEnds(t)
      PROVE  Calm
  BY <1>8 DEF RegisterHandle, PromptEnds, Calm
<1>9. ASSUME NEW c \in CtrAgents, LaunchContainer(c)
      PROVE  Calm
  BY <1>9 DEF LaunchContainer, Calm
<1>10. ASSUME NEW a \in Agents, LaunchPty(a)
       PROVE  Calm
  BY <1>10 DEF LaunchPty, Calm
<1>11. ASSUME NEW p \in Stoppers, NEW a, NEW m, StopBegin(p, a, m)
       PROVE  Calm
  BY <1>11 DEF StopBegin, Calm
<1>12. ASSUME NEW q \in Pipers, NEW t \in Tasks, NEW b, PipeRead(q, t, b)
       PROVE  Calm
  BY <1>12 DEF PipeRead, Calm
<1>13. ASSUME ListTasks \/ DayPasses \/ OtherClients
       PROVE  Calm
  BY <1>13 DEF ListTasks, DayPasses, OtherClients, Calm
<1>14. ASSUME UNCHANGED vars
       PROVE  Calm
  BY <1>14 DEF vars, Calm
<1> HIDE DEF Done
<1>15. Done
  BY <1>2, <1>3, <1>4, <1>5, <1>6, <1>7, <1>8, <1>9, <1>10, <1>11, <1>12, <1>13, <1>14
  DEF Next, Request
<1> QED BY <1>15 DEF Done

LEMMA NoPromptingKeeps ==
    ASSUME ContainersHeld, NoPrompting, OrphansKept, ChainTypeOK,
           \A t \in Tasks : run[t] # "none" => nodeAgent'[t] = nodeAgent[t]
    PROVE  ContainersHeld'
<1>1. \A t \in Tasks : Claims(t)' => Claims(t) /\ nodeAgent'[t] = nodeAgent[t]
  BY DEF NoPrompting, OrphansKept, Claims, Prompting, Orphan
<1>2. HeldNotIdle' /\ UnknownBefore' /\ OneClaim'
  BY <1>1 DEF ContainersHeld, NoPrompting, HeldNotIdle, UnknownBefore, OneClaim
<1>3. BusyHasPrompt'
  BY DEF ContainersHeld, NoPrompting, BusyHasPrompt
<1> QED BY <1>2, <1>3 DEF ContainersHeld

(* A claim is for a container agent.                                       *)
LEMMA ClaimsContainers ==
    ASSUME RunNode, PromptsKnown, NEW t \in Tasks, Claims(t)
    PROVE  nodeAgent[t] \in CtrAgents
  BY DEF RunNode, PromptsKnown, Claims, Prompting, Orphan

(* A run claims an Idle container: nobody holds it.                        *)
LEMMA ClaimStep ==
    ASSUME ContainersHeld, OrphansKept, CtrTypeOK, ChainTypeOK, RunNode, NEW t \in Tasks,
           ClaimContainer(t)
    PROVE  ContainersHeld'
<1> USE DEF graphVars, ctrVars
<1>1. CASE UNCHANGED ctr
  <2>1. Goto(t, "clear") \/ ctr' # ctr
    <3>1. nodeAgent[t] \in CtrAgents
      BY DEF ClaimContainer, RunNode
    <3> QED BY <3>1 DEF ClaimContainer, CtrTypeOK
  <2>2. NoPrompting
    BY <1>1, <2>1 DEF ClaimContainer, NoPrompting, Prompting, ChainTypeOK
  <2> QED BY <2>2, NoPromptingKeeps DEF ClaimContainer
<1>2. CASE /\ ctr[nodeAgent[t]] = "idle"
           /\ ctr' = [ctr EXCEPT ![nodeAgent[t]] = "busy"]
           /\ Goto(t, "prompt")
  <2> DEFINE c == nodeAgent[t]
  <2>1. /\ c \in CtrAgents /\ ctr'[c] = "busy" /\ \A x \in CtrAgents \ {c} : ctr'[x] = ctr[x]
        /\ run[t] = "claim" /\ run'[t] = "prompt" /\ \A u \in Tasks \ {t} : run'[u] = run[u]
        /\ nodeAgent' = nodeAgent /\ launching' = launching
    BY <1>2 DEF ClaimContainer, RunNode, CtrTypeOK, ChainTypeOK
  <2>2. \A u \in Tasks : Claims(u) => nodeAgent[u] # c
    BY <1>2 DEF ContainersHeld, HeldNotIdle
  <2>3. launching[c].pc \in {"attach", "over"}
    BY <1>2, <2>1 DEF ContainersHeld, UnknownBefore
  <2>4. \A u \in Tasks \ {t} : Claims(u)' => Claims(u) /\ ctr'[nodeAgent[u]] = ctr[nodeAgent[u]]
    <3>1. \A u \in Tasks \ {t} : Claims(u)' => Claims(u)
      BY <2>1 DEF OrphansKept, Claims, Prompting
    <3>2. \A u \in Tasks \ {t} : Claims(u) => ctr'[nodeAgent[u]] = ctr[nodeAgent[u]]
      BY <1>2, <2>2 DEF CtrTypeOK
    <3> QED BY <3>1, <3>2
  <2>5. HeldNotIdle'
    BY <2>1, <2>3, <2>4 DEF ContainersHeld, HeldNotIdle
  <2>6. UnknownBefore'
    BY <2>1, <2>3 DEF ContainersHeld, UnknownBefore
  <2>7. OneClaim'
    BY <2>1, <2>2, <2>4 DEF ContainersHeld, OneClaim
  <2>8. BusyHasPrompt'
    BY <2>1 DEF ContainersHeld, BusyHasPrompt
  <2> QED BY <2>5, <2>6, <2>7, <2>8 DEF ContainersHeld
<1> QED BY <1>1, <1>2 DEF ClaimContainer

(* The run that holds a container gives it back.                           *)
LEMMA ReleaseStep ==
    ASSUME ContainersHeld, OrphansKept, CtrTypeOK, ChainTypeOK, RunNode, PromptsKnown,
           NEW t \in Tasks, ReleaseContainer(t)
    PROVE  ContainersHeld'
<1> USE DEF graphVars, ctrVars
<1> DEFINE c == nodeAgent[t]
<1>1. /\ c \in CtrAgents /\ ctr'[c] \in {"absent", "idle"} /\ (ctr[c] = "absent" => ctr'[c] = "absent")
      /\ \A x \in CtrAgents \ {c} : ctr'[x] = ctr[x]
      /\ run[t] = "settle" /\ run'[t] \in {"followups", "clear"}
      /\ \A u \in Tasks \ {t} : run'[u] = run[u]
      /\ nodeAgent' = nodeAgent /\ launching' = launching
  BY DEF ReleaseContainer, AfterRelease, RunNode, CtrTypeOK, ChainTypeOK
<1>2. \A u \in Tasks : Claims(u)' => u # t /\ Claims(u)
  BY <1>1 DEF OrphansKept, Claims, Prompting, Orphan
<1>3. Claims(t)
  BY <1>1 DEF Claims, Prompting
<1>4. \A u \in Tasks : Claims(u)' => Claims(u) /\ nodeAgent[u] # c /\ nodeAgent[u] \in CtrAgents
  BY <1>2, <1>3, ClaimsContainers DEF ContainersHeld, OneClaim
<1>5. HeldNotIdle' /\ UnknownBefore' /\ OneClaim'
  BY <1>1, <1>4 DEF ContainersHeld, HeldNotIdle, UnknownBefore, OneClaim
<1>6. BusyHasPrompt'
  BY <1>1 DEF ContainersHeld, BusyHasPrompt
<1> QED BY <1>5, <1>6 DEF ContainersHeld

(* A launch makes a container Idle that nobody can have claimed before.    *)
LEMMA LaunchStep ==
    ASSUME ContainersHeld, OrphansKept, CtrTypeOK, ChainTypeOK, RunNode, PromptsKnown,
           NEW c \in CtrAgents, LaunchContainer(c)
    PROVE  ContainersHeld'
<1> USE DEF graphVars, runVars
<1>1. run' = run /\ nodeAgent' = nodeAgent
  BY DEF LaunchContainer
<1>2. \A x \in CtrAgents \ {c} : ctr'[x] = ctr[x] /\ launching'[x] = launching[x]
  BY DEF LaunchContainer, CtrTypeOK
<1>3. \/ ctr' = ctr /\ (launching[c].pc \in {"attach", "over"} => launching'[c].pc = "over")
      \/ launching[c].pc = "register" /\ ctr'[c] = "idle" /\ launching'[c].pc = "attach"
  BY DEF LaunchContainer, CtrTypeOK, LaunchPc
<1>4. \A t \in Tasks : Claims(t)' => Claims(t) /\ nodeAgent[t] \in CtrAgents
  BY <1>1, ClaimsContainers DEF OrphansKept, Claims, Prompting
<1>5. launching[c].pc = "register" => \A t \in Tasks : Claims(t) => nodeAgent[t] # c
  BY DEF ContainersHeld, HeldNotIdle
<1>6. HeldNotIdle'
  BY <1>1, <1>2, <1>3, <1>4, <1>5 DEF ContainersHeld, HeldNotIdle
<1>7. UnknownBefore'
  BY <1>2, <1>3 DEF ContainersHeld, UnknownBefore
<1>8. OneClaim'
  BY <1>1, <1>4 DEF ContainersHeld, OneClaim
<1>9. BusyHasPrompt'
  BY <1>1, <1>2, <1>3 DEF ContainersHeld, BusyHasPrompt
<1> QED BY <1>6, <1>7, <1>8, <1>9 DEF ContainersHeld

(* A stop forgets a container or marks it Stopped, under a prompt too.     *)
LEMMA StopContainerStep ==
    ASSUME ContainersHeld, OrphansKept, CtrTypeOK, ChainTypeOK, RunNode, PromptsKnown,
           NEW p \in Stoppers, StopContainer(p)
    PROVE  ContainersHeld'
<1> USE DEF graphVars, runVars
<1>1. run' = run /\ nodeAgent' = nodeAgent /\ launching' = launching
  BY DEF StopContainer
<1>2. \A x \in CtrAgents : \/ ctr'[x] = ctr[x]
                           \/ ctr'[x] = "absent"
                           \/ ctr'[x] = "stopped" /\ ctr[x] # "absent"
  BY DEF StopContainer, CtrTypeOK
<1>3. \A t \in Tasks : Claims(t)' => Claims(t) /\ nodeAgent[t] \in CtrAgents
  BY <1>1, ClaimsContainers DEF OrphansKept, Claims, Prompting
<1>4. HeldNotIdle' /\ UnknownBefore'
  BY <1>1, <1>2, <1>3 DEF ContainersHeld, HeldNotIdle, UnknownBefore
<1>5. OneClaim' /\ BusyHasPrompt'
  BY <1>1, <1>2, <1>3 DEF ContainersHeld, OneClaim, BusyHasPrompt
<1> QED BY <1>4, <1>5 DEF ContainersHeld

LEMMA ContainersStep ==
    ASSUME NodesInv, CtrTypeOK, PromptsKnown, ContainersHeld, [Next]_vars
    PROVE  ContainersHeld'
<1> USE OrchestratorAssumption DEF graphVars, runVars, ctrVars
<1>1. ChainTypeOK /\ RunNode /\ OrphansKept
  BY PromptsStep DEF NodesInv, ChainInv
<1>2. NoPrompting => ContainersHeld'
  BY <1>1, NodesKept, NoPromptingKeeps
<1> USE <1>1 DEF ChainTypeOK
<1>3. ASSUME NEW t \in Roots, NEW a, SendTask(t, a) \/ ScheduleTask(t, a) \/ SendRemote(t, a)
      PROVE  NoPrompting
  BY <1>3 DEF SendTask, ScheduleTask, SendRemote, Create, NoPrompting, Prompting
<1>4. ASSUME NEW t \in Tasks, RunStep(t)
      PROVE  ContainersHeld'
  <2> USE DEF NoPrompting, Prompting
  <2>1. WakeUp(t) \/ Begin(t) \/ MarkRunning(t) \/ Route(t) => NoPrompting
    BY DEF WakeUp, Begin, MarkRunning, Route
  <2>2. StartOnPool(t) \/ LookUpSession(t) \/ CollectOutput(t) \/ DestroyOwnSession(t) => NoPrompting
    BY DEF StartOnPool, LookUpSession, CollectOutput, DestroyOwnSession
  <2>3. ReleaseAgent(t) \/ ContainerSession(t) \/ CountPoolBusy(t) => NoPrompting
    BY DEF ReleaseAgent, AfterRelease, ContainerSession, CountPoolBusy
  <2>4. PromptContainer(t) \/ RemoteCall(t) \/ CollectFollowups(t) => NoPrompting
    BY DEF PromptContainer, RemoteCall, CollectFollowups
  <2>5. LabelEdge(t) \/ FollowupReturned(t) \/ FollowupsDone(t) => NoPrompting
    BY DEF LabelEdge, FollowupReturned, FollowupsDone
  <2>6. ClearBackgroundRun(t) \/ PruneAndReturn(t) => NoPrompting
    BY DEF ClearBackgroundRun, PruneAndReturn
  <2>7. ASSUME NEW n \in Tasks, CreateFollowup(t, n) PROVE NoPrompting
    BY <2>7 DEF CreateFollowup
  <2>8. ClaimContainer(t) \/ ReleaseContainer(t) => ContainersHeld'
    BY ClaimStep, ReleaseStep
  <2> QED BY <1>2, <1>4, <2>1, <2>2, <2>3, <2>4, <2>5, <2>6, <2>7, <2>8 DEF RunStep
<1>5. ASSUME NEW t \in Tasks, AbortTakesEffect(t) \/ Disconnect(t)
      PROVE  NoPrompting
  BY <1>5 DEF AbortTakesEffect, Disconnect, DropChain, NoPrompting, Prompting
<1>6. ASSUME NEW q \in Pipers, PipeStep(q)
      PROVE  NoPrompting
  BY <1>6 DEF PipeStep, PipeLink, PipeSpawn, Create, PipeRecord, LeavePipe, NoPrompting, Prompting
<1>7. ASSUME NEW p \in Stoppers, StopStep(p)
      PROVE  ContainersHeld'
  <2>1. StopCollect(p) \/ StopAbort(p) \/ StopFail(p) \/ StopPool(p) => NoPrompting
    BY DEF StopCollect, StopAbort, StopFail, StopPool, NoPrompting, Prompting
  <2>2. DropOrder(p) \/ LateCall(p) => NoPrompting
    BY DEF DropOrder, LateCall, NoPrompting, Prompting
  <2> QED BY <1>2, <1>7, <2>1, <2>2, StopContainerStep DEF StopStep
<1>8. ASSUME NEW t \in Tasks, RegisterHandle(t) \/ PromptEnds(t)
      PROVE  NoPrompting
  BY <1>8 DEF RegisterHandle, PromptEnds, NoPrompting, Prompting
<1>9. ASSUME NEW c \in CtrAgents, LaunchContainer(c)
      PROVE  ContainersHeld'
  BY <1>9, LaunchStep
<1>10. ASSUME NEW a \in Agents, LaunchPty(a)
       PROVE  NoPrompting
  BY <1>10 DEF LaunchPty, NoPrompting, Prompting
<1>11. ASSUME NEW p \in Stoppers, NEW a, NEW m, StopBegin(p, a, m)
       PROVE  NoPrompting
  BY <1>11 DEF StopBegin, NoPrompting, Prompting
<1>12. ASSUME NEW q \in Pipers, NEW t \in Tasks, NEW b, PipeRead(q, t, b)
       PROVE  NoPrompting
  BY <1>12 DEF PipeRead, NoPrompting, Prompting
<1>13. CASE ListTasks \/ DayPasses \/ OtherClients
  <2>1. NoPrompting
    BY <1>13 DEF ListTasks, DayPasses, OtherClients, NoPrompting, Prompting
  <2> QED BY <1>2, <2>1
<1>14. CASE UNCHANGED vars
  BY <1>2, <1>14 DEF vars, NoPrompting, Prompting
<1> QED
  BY <1>2, <1>3, <1>4, <1>5, <1>6, <1>7, <1>8, <1>9, <1>10, <1>11, <1>12, <1>13, <1>14
  DEF Next, Request

--------------------------------------------------------------------------------
(***************************************************************************)
(* Types of the remaining variables.                                       *)
(***************************************************************************)
RestTypeOK ==
    /\ tasks \in [Tasks -> TaskStatus \cup {"absent"}]
    /\ doneAt \in [Tasks -> {"unset", "today", "earlier"}]
    /\ seen \in [Tasks -> Nat]
    /\ bg \subseteq Tasks /\ unreg \subseteq Tasks /\ aborting \subseteq Tasks
    /\ CtrTypeOK
    /\ ctrSession \in [CtrAgents -> {"none", "locked", "empty"}]
    /\ box \in [CtrAgents -> {"none", "empty", "locked", "destroyed"}]
    /\ prompts \subseteq Tasks
    /\ orders \in [Stoppers -> Order]

(* What a stop request does to its own record.                             *)
LEMMA OrderMoved ==
    ASSUME orders \in [Stoppers -> Order], OrdersOK, NEW p \in Stoppers,
           NEW pc \in {"abort", "fail", "pool", "stopping", "over", "gone", "deinitLate", "destroyLate"}
                      \cup {"session", "deinit", "destroy", "unmap", "forget", "settle", "mark"},
           pc \notin {"session", "deinit", "destroy", "unmap", "forget", "settle", "mark"}
              \/ orders[p].container,
           orders' = [orders EXCEPT ![p].pc = pc]
    PROVE  orders' \in [Stoppers -> Order] /\ OrdersOK'
<1>1. orders' \in [Stoppers -> Order]
  BY DEF Order
<1>2. /\ orders'[p].pc = pc /\ orders'[p].container = orders[p].container
      /\ orders'[p].agent = orders[p].agent
      /\ \A x \in Stoppers \ {p} : orders'[x] = orders[x]
  BY DEF Order
<1>3. OrdersOK'
  BY <1>2 DEF OrdersOK
<1> QED BY <1>1, <1>3

LEMMA RestStep ==
    ASSUME RestTypeOK, OrdersOK, [Next]_vars
    PROVE  RestTypeOK' /\ OrdersOK'
<1> USE OrchestratorAssumption, PoolAssumption DEF taskVars, handleVars, ctrVars, runVars
<1> DEFINE T == /\ tasks' \in [Tasks -> TaskStatus \cup {"absent"}]
                /\ doneAt' \in [Tasks -> {"unset", "today", "earlier"}]
           H == bg' \subseteq Tasks /\ unreg' \subseteq Tasks /\ aborting' \subseteq Tasks
           S == seen' \in [Tasks -> Nat]
           C == /\ CtrTypeOK'
                /\ ctrSession' \in [CtrAgents -> {"none", "locked", "empty"}]
                /\ box' \in [CtrAgents -> {"none", "empty", "locked", "destroyed"}]
                /\ prompts' \subseteq Tasks
           O == orders' \in [Stoppers -> Order] /\ OrdersOK'
<1>1. T /\ H /\ S /\ C /\ O => RestTypeOK' /\ OrdersOK'
  BY DEF RestTypeOK
<1>2. /\ UNCHANGED taskVars => T
      /\ UNCHANGED handleVars => H
      /\ UNCHANGED seen => S
      /\ UNCHANGED ctrVars => C
      /\ UNCHANGED orders => O
  BY DEF RestTypeOK, CtrTypeOK, OrdersOK
<1>3. \A B \in SUBSET Agents : Cardinality(B) \in Nat
  BY FS_Subset, FS_CardinalityType
<1>4. /\ tasks \in [Tasks -> TaskStatus \cup {"absent"}]
      /\ doneAt \in [Tasks -> {"unset", "today", "earlier"}]
      /\ orders \in [Stoppers -> Order]
  BY DEF RestTypeOK
<1>5. Prune => T
  BY <1>4 DEF Prune
<1>6. ASSUME NEW t \in Roots, NEW a, SendTask(t, a) \/ ScheduleTask(t, a) \/ SendRemote(t, a)
      PROVE  T /\ H /\ S /\ C /\ O
  <2>1. T
    BY <1>4, <1>6 DEF SendTask, ScheduleTask, SendRemote, Create, TaskStatus
  <2>2. H
    BY <1>6 DEF SendTask, ScheduleTask, SendRemote, RestTypeOK
  <2> HIDE DEF T, H, S, C, O
  <2> QED BY <1>2, <1>6, <2>1, <2>2 DEF SendTask, ScheduleTask, SendRemote
<1>7. ASSUME NEW t \in Tasks, RunStep(t)
      PROVE  T /\ H /\ S /\ C /\ O
  <2>1. ASSUME NEW st \in Terminal, Finish(t, st) PROVE T
    BY <1>4, <2>1 DEF Finish, Terminal, TaskStatus
  <2>2. MarkRunning(t) => T
    BY <1>4 DEF MarkRunning, TaskStatus
  <2>3. CountPoolBusy(t) => S
    BY <1>3 DEF CountPoolBusy, Busy, RestTypeOK
  <2>4. ClaimContainer(t) \/ ReleaseContainer(t) \/ PromptContainer(t) => C
    BY DEF ClaimContainer, ReleaseContainer, PromptContainer, RestTypeOK, CtrTypeOK, AgentStatus
  <2>5. ClearBackgroundRun(t) => H
    BY DEF ClearBackgroundRun, RestTypeOK
  <2>6. ASSUME NEW n \in Tasks, CreateFollowup(t, n) PROVE T
    BY <1>4, <2>6 DEF CreateFollowup, TaskStatus
  <2> HIDE DEF T, H, S, C, O
  <2>7. WakeUp(t) \/ Begin(t) \/ MarkRunning(t) \/ Route(t) => T /\ H /\ S /\ C /\ O
    BY <1>2, <2>2 DEF WakeUp, Begin, MarkRunning, Route
  <2>8. StartOnPool(t) \/ LookUpSession(t) \/ CollectOutput(t) => T /\ H /\ S /\ C /\ O
    BY <1>2, <2>1 DEF StartOnPool, LookUpSession, CollectOutput
  <2>9. DestroyOwnSession(t) \/ ReleaseAgent(t) \/ ContainerSession(t) => T /\ H /\ S /\ C /\ O
    BY <1>2 DEF DestroyOwnSession, ReleaseAgent, ContainerSession
  <2>10. CountPoolBusy(t) => T /\ H /\ S /\ C /\ O
    BY <1>2, <2>3 DEF CountPoolBusy
  <2>11. ClaimContainer(t) \/ ReleaseContainer(t) => T /\ H /\ S /\ C /\ O
    BY <1>2, <2>4 DEF ClaimContainer, ReleaseContainer
  <2>12. PromptContainer(t) \/ RemoteCall(t) => T /\ H /\ S /\ C /\ O
    BY <1>2, <2>1, <2>4 DEF PromptContainer, RemoteCall
  <2>13. CollectFollowups(t) \/ LabelEdge(t) \/ FollowupReturned(t) => T /\ H /\ S /\ C /\ O
    BY <1>2 DEF CollectFollowups, LabelEdge, FollowupReturned
  <2>14. FollowupsDone(t) \/ ClearBackgroundRun(t) \/ PruneAndReturn(t) => T /\ H /\ S /\ C /\ O
    BY <1>2, <1>5, <2>5 DEF FollowupsDone, ClearBackgroundRun, PruneAndReturn
  <2>15. ASSUME NEW n \in Tasks, CreateFollowup(t, n) PROVE T /\ H /\ S /\ C /\ O
    BY <1>2, <2>6, <2>15 DEF CreateFollowup
  <2> QED BY <1>7, <2>7, <2>8, <2>9, <2>10, <2>11, <2>12, <2>13, <2>14, <2>15 DEF RunStep
<1>8. ASSUME NEW t \in Tasks, AbortTakesEffect(t) \/ Disconnect(t) \/ RegisterHandle(t) \/ PromptEnds(t)
      PROVE  T /\ H /\ S /\ C /\ O
  <2>1. H
    BY <1>8 DEF AbortTakesEffect, Disconnect, RegisterHandle, PromptEnds, RestTypeOK
  <2>2. PromptEnds(t) => C
    BY DEF PromptEnds, RestTypeOK, CtrTypeOK
  <2> HIDE DEF T, H, S, C, O
  <2> QED BY <1>2, <1>8, <2>1, <2>2 DEF AbortTakesEffect, Disconnect, RegisterHandle, PromptEnds
<1>9. ASSUME NEW q \in Pipers, PipeStep(q)
      PROVE  T /\ H /\ S /\ C /\ O
  <2>1. T
    BY <1>4, <1>9 DEF PipeStep, PipeLink, PipeSpawn, Create, PipeRecord, LeavePipe, TaskStatus
  <2> HIDE DEF T, H, S, C, O
  <2> QED BY <1>2, <1>9, <2>1 DEF PipeStep, PipeLink, PipeSpawn, PipeRecord, LeavePipe
<1>10. ASSUME NEW p \in Stoppers, StopStep(p)
       PROVE  T /\ H /\ S /\ C /\ O
  <2>1. AfterCancel(p) = IF orders[p].container THEN "session" ELSE "pool"
    BY DEF AfterCancel
  <2>2. orders[p] \in Order /\ orders[p].container \in BOOLEAN
    BY <1>4 DEF Order
  <2>3. StopCollect(p) => O
    <3> SUFFICES ASSUME StopCollect(p) PROVE O
      OBVIOUS
    <3>1. PICK ids \in SUBSET Tasks, pc \in {"abort", "session", "pool"} :
             /\ orders' = [orders EXCEPT ![p].ids = ids, ![p].pc = pc]
             /\ pc = "session" => orders[p].container
      <4> DEFINE ids == {t \in Tasks : /\ tasks[t] \in {"running", "pending"}
                                       /\ nodeAgent[t] = orders[p].agent}
                 pc == IF ids = {} THEN AfterCancel(p) ELSE "abort"
      <4>1. ids \in SUBSET Tasks /\ pc \in {"abort", "session", "pool"}
        BY <2>1
      <4>2. pc = "session" => orders[p].container
        BY <2>1
      <4>3. orders' = [orders EXCEPT ![p].ids = ids, ![p].pc = pc]
        BY DEF StopCollect
      <4> HIDE DEF ids, pc
      <4> QED BY <4>1, <4>2, <4>3
    <3>2. orders' \in [Stoppers -> Order]
      <4>1. orders' = [orders EXCEPT ![p] = [orders[p] EXCEPT !.ids = ids, !.pc = pc]]
        BY <1>4, <3>1
      <4>2. [orders[p] EXCEPT !.ids = ids, !.pc = pc] \in Order
        BY <2>2, <3>1 DEF Order
      <4> QED BY <1>4, <4>1, <4>2
    <3>3. /\ orders'[p].pc = pc /\ orders'[p].container = orders[p].container
          /\ orders'[p].agent = orders[p].agent
          /\ \A x \in Stoppers \ {p} : orders'[x] = orders[x]
      BY <1>4, <3>1 DEF Order
    <3>4. OrdersOK'
      BY <3>1, <3>3 DEF OrdersOK
    <3> QED BY <3>2, <3>4
  <2>4. StopAbort(p) => O /\ H
    BY <1>4, OrderMoved DEF StopAbort, RestTypeOK
  <2>5. StopFail(p) => O /\ T
    <3>1. StopFail(p) => T
      BY <1>4 DEF StopFail, TaskStatus
    <3>2. StopFail(p) => O
      BY <1>4, <2>1, OrderMoved DEF StopFail
    <3> QED BY <3>1, <3>2
  <2>6. StopPool(p) => O
    <3>1. ASSUME NEW pc \in {"stopping", "over"}, orders' = [orders EXCEPT ![p].pc = pc] PROVE O
      BY <1>4, <3>1, OrderMoved
    <3> QED BY <1>2, <3>1 DEF StopPool
  <2>7. ASSUME StopContainer(p) PROVE O /\ C
    <3>1. orders[p].container /\ orders[p].agent \in CtrAgents
      BY <2>7 DEF StopContainer, OrdersOK
    <3>2. ctrSession[orders[p].agent] \in {"none", "locked", "empty"}
      BY <3>1 DEF RestTypeOK
    <3>3. \E pc \in {"over", "deinit", "destroy", "unmap", "forget", "settle", "mark"} :
             orders' = [orders EXCEPT ![p].pc = pc]
      BY <2>7, <3>2 DEF StopContainer
    <3>4. O
      BY <1>4, <3>1, <3>3, OrderMoved
    <3>5. ctr' \in [CtrAgents -> AgentStatus] /\ launching' = launching
      BY <2>7 DEF StopContainer, RestTypeOK, CtrTypeOK, AgentStatus
    <3>6. CtrTypeOK'
      BY <3>5 DEF RestTypeOK, CtrTypeOK
    <3>7. ctrSession' \in [CtrAgents -> {"none", "locked", "empty"}]
      BY <2>7 DEF StopContainer, RestTypeOK
    <3>8. box' \in [CtrAgents -> {"none", "empty", "locked", "destroyed"}]
      BY <2>7 DEF StopContainer, RestTypeOK
    <3>9. prompts' \subseteq Tasks
      BY <2>7 DEF StopContainer, RestTypeOK
    <3> QED BY <3>4, <3>6, <3>7, <3>8, <3>9
  <2>8. DropOrder(p) => O
    <3>1. DropOrder(p) => \E pc \in {"gone", "deinitLate", "destroyLate"} :
                            orders' = [orders EXCEPT ![p].pc = pc]
      BY DEF DropOrder
    <3> QED BY <1>4, <3>1, OrderMoved
  <2>9. LateCall(p) => O /\ C
    <3>1. LateCall(p) => O
      BY <1>4, OrderMoved DEF LateCall
    <3>2. LateCall(p) => C
      BY DEF LateCall, RestTypeOK, CtrTypeOK
    <3> QED BY <3>1, <3>2
  <2> HIDE DEF T, H, S, C, O
  <2> QED
    BY <1>2, <1>10, <2>3, <2>4, <2>5, <2>6, <2>7, <2>8, <2>9
    DEF StopStep, StopCollect, StopAbort, StopFail, StopPool, StopContainer,
             DropOrder, LateCall
<1>11. ASSUME NEW c \in CtrAgents, LaunchContainer(c)
       PROVE  T /\ H /\ S /\ C /\ O
  <2>1. Cardinality(Managed) \in Nat
    BY <1>3 DEF Managed
  <2>2. CtrTypeOK'
    <3>1. /\ ctr \in [CtrAgents -> AgentStatus]
          /\ launching \in [CtrAgents -> [pc : LaunchPc, seen : Nat]]
      BY DEF RestTypeOK, CtrTypeOK
    <3>2. ctr' \in [CtrAgents -> AgentStatus]
      BY <1>11, <3>1 DEF LaunchContainer, AgentStatus
    <3>3. \/ launching' = [launching EXCEPT ![c] = [pc |-> "counted", seen |-> Cardinality(Managed)]]
          \/ \E pc \in LaunchPc : launching' = [launching EXCEPT ![c].pc = pc]
      BY <1>11 DEF LaunchContainer, LaunchPc
    <3>4. [pc |-> "counted", seen |-> Cardinality(Managed)] \in [pc : LaunchPc, seen : Nat]
      BY <2>1 DEF LaunchPc
    <3>5. launching' \in [CtrAgents -> [pc : LaunchPc, seen : Nat]]
      BY <3>1, <3>3, <3>4
    <3> QED BY <3>2, <3>5 DEF CtrTypeOK
  <2>3. C
    BY <1>11, <2>2 DEF LaunchContainer, RestTypeOK
  <2> HIDE DEF T, H, S, C, O
  <2> QED BY <1>2, <1>11, <2>3 DEF LaunchContainer
<1>12. ASSUME NEW a \in Agents, LaunchPty(a)
       PROVE  T /\ H /\ S /\ C /\ O
  <2> HIDE DEF T, H, S, C, O
  <2> QED BY <1>2, <1>12 DEF LaunchPty
<1>13. ASSUME NEW p \in Stoppers, NEW a \in AllAgents, NEW m, StopBegin(p, a, m)
       PROVE  T /\ H /\ S /\ C /\ O
  <2>1. O
    <3> DEFINE o == [pc |-> "collect", agent |-> a, mode |-> m,
                     container |-> a \in CtrManaged, ids |-> {}]
    <3>1. orders' = [orders EXCEPT ![p] = o] /\ m \in {"keep", "force", "purge"}
      BY <1>13 DEF StopBegin
    <3>2. o \in Order
      BY <3>1 DEF Order
    <3>3. o.container => o.agent \in CtrAgents
      BY DEF CtrManaged
    <3>4. o.pc = "collect"
      OBVIOUS
    <3> HIDE DEF o
    <3> QED BY <1>4, <3>1, <3>2, <3>3, <3>4 DEF OrdersOK
  <2> HIDE DEF T, H, S, C, O
  <2> QED BY <1>2, <1>13, <2>1 DEF StopBegin
<1>14. ASSUME NEW q \in Pipers, NEW t \in Tasks, NEW b, PipeRead(q, t, b)
       PROVE  T /\ H /\ S /\ C /\ O
  <2> HIDE DEF T, H, S, C, O
  <2> QED BY <1>2, <1>14 DEF PipeRead
<1>15. ASSUME ListTasks \/ DayPasses \/ OtherClients
       PROVE  T /\ H /\ S /\ C /\ O
  <2>1. DayPasses => T
    BY <1>4 DEF DayPasses
  <2> HIDE DEF T, H, S, C, O
  <2> QED BY <1>2, <1>5, <1>15, <2>1 DEF ListTasks, DayPasses, OtherClients
<1>16. ASSUME UNCHANGED vars
       PROVE  T /\ H /\ S /\ C /\ O
  <2> HIDE DEF T, H, S, C, O
  <2> QED BY <1>2, <1>16 DEF vars
<1> HIDE DEF T, H, S, C, O
<1> QED
  BY <1>1, <1>6, <1>7, <1>8, <1>9, <1>10, <1>11, <1>12, <1>13, <1>14, <1>15, <1>16
  DEF Next, Request, AllAgents

--------------------------------------------------------------------------------
(***************************************************************************)
(* The inductive invariant of the orchestrator.                            *)
(***************************************************************************)
OrchInv ==
    /\ PoolAndRuns
    /\ NodesInv
    /\ RestTypeOK /\ OrdersOK
    /\ Settled
    /\ PromptsKnown /\ ContainersHeld

LEMMA OrchTypes == OrchInv => TypeOK
  BY DEF OrchInv, PoolAndRuns, PoolInv, NodesInv, ChainInv, ChainTypeOK, RestTypeOK, CtrTypeOK, TypeOK

LEMMA OrchInit == Init => OrchInv
<1> SUFFICES ASSUME Init PROVE OrchInv
  OBVIOUS
<1>1. PoolAndRuns /\ NodesInv
  BY PoolAndRunsInit, NodesInit
<1>2. orders \in [Stoppers -> Order] /\ OrdersOK
  BY DEF Init, Order, OrdersOK
<1>3. RestTypeOK
  BY <1>2 DEF Init, RestTypeOK, CtrTypeOK, AgentStatus, LaunchPc
<1>4. Settled
  BY DEF Init, PoolInit, Settled
<1>5. PromptsKnown /\ ContainersHeld
  BY DEF Init, PromptsKnown, ContainersHeld, HeldNotIdle, UnknownBefore, OneClaim, BusyHasPrompt,
         Claims, Prompting, Orphan
<1> QED BY <1>1, <1>2, <1>3, <1>4, <1>5 DEF OrchInv

LEMMA OrchStep == OrchInv /\ [Next]_vars => OrchInv'
<1> SUFFICES ASSUME OrchInv, [Next]_vars PROVE OrchInv'
  OBVIOUS
<1>1. PoolAndRuns' /\ NodesInv'
  BY PoolAndRunsStep, NodesStep DEF OrchInv
<1>2. RestTypeOK' /\ OrdersOK'
  BY RestStep DEF OrchInv
<1>3. Settled'
  BY OrchTypes, SettledStep DEF OrchInv, PoolAndRuns
<1>4. PromptsKnown' /\ ContainersHeld'
  BY PromptsStep, ContainersStep DEF OrchInv, RestTypeOK
<1> QED BY <1>1, <1>2, <1>3, <1>4 DEF OrchInv

LEMMA OrchInvariant == Spec => []OrchInv
  BY OrchInit, OrchStep, PTL DEF Spec

(* Every variable keeps its type.                                          *)
THEOREM OrchestratorTypes == Spec => []TypeOK
  BY OrchInvariant, OrchTypes, PTL

(* An agent, PTY or container, is Busy only while some run is about to     *)
(* release it, or was dropped or lost its session before it could.         *)
THEOREM BusyAgentsHaveRuns == Spec => []BusyHasRun
<1>1. OrchInv => BusyHasRun
  <2> SUFFICES ASSUME OrchInv PROVE BusyHasRun
    OBVIOUS
  <2>1. ASSUME NEW a \in Busy
        PROVE  run[current[a]] \in {"exec", "free", "release"} \/ phase[current[a]] = "lost"
    <3>1. current[a] \in Tasks /\ phase[current[a]] \in Live \cup {"lost"}
      BY <2>1 DEF OrchInv, PoolAndRuns, PoolInv, PoolTypeOK, RecordsAgree, Busy
    <3> QED BY <3>1 DEF OrchInv, PoolAndRuns, RunPhase
  <2>2. \A c \in CtrBusy : \E t \in Tasks : nodeAgent[t] = c /\ run[t] \in {"prompt", "settle", "dropped"}
    BY DEF OrchInv, ContainersHeld, BusyHasPrompt, CtrBusy
  <2> QED BY <2>1, <2>2 DEF BusyHasRun
<1> QED BY <1>1, OrchInvariant, PTL

(* A task whose run gave its agent back has a final status or is no longer *)
(* retained, whatever stops, aborts and prunings happened meanwhile.       *)
THEOREM ServedTasksAreSettled == Spec => []ServedTasksSettle
<1>1. OrchInv => ServedTasksSettle
  BY DEF OrchInv, Settled, ServedTasksSettle
<1> QED BY <1>1, OrchInvariant, PTL

(* A container works on two prompts only while the orchestrator has given  *)
(* one of them up on a timeout or an error.                                *)
THEOREM ContainersServeOnePrompt == Spec => []PromptsOverlapGivenUp
<1>1. OrchInv => PromptsOverlapGivenUp
  <2> SUFFICES ASSUME OrchInv, NEW t \in prompts, NEW u \in prompts, nodeAgent[t] = nodeAgent[u],
                      ~GivenUp(t), ~GivenUp(u)
               PROVE  t = u
    BY DEF PromptsOverlapGivenUp, GivenUp
  <2>1. t \in Tasks /\ u \in Tasks
    BY DEF OrchInv, RestTypeOK
  <2>2. Claims(t) /\ Claims(u)
    BY <2>1 DEF OrchInv, PromptsKnown, Claims, Prompting, Orphan
  <2> QED BY <2>1, <2>2 DEF OrchInv, ContainersHeld, OneClaim
<1> QED BY <1>1, OrchInvariant, PTL

--------------------------------------------------------------------------------
(***************************************************************************)
(* A pipe starts at most two follow-ups.  Every follow-up n has a slot of  *)
(* its own: an edge e[n] and who created it, w[n], a pipe request or the   *)
(* run of the edge's source.  A request q that is about to create one has  *)
(* the slot of r[q] reserved, and so has every entry k of the list of a    *)
(* run t, in g[t][k]; a run that has not read its edges has used none.     *)
(***************************************************************************)
Followups == {n \in Tasks \ Roots : run[n] # "none"}

Spawning == {q \in Pipers : pipes[q].pc = "spawn"}

Serving(t) == run[t] \in {"next", "label", "nested"}

Unread(t) == run[t] \notin {"next", "label", "nested", "clear", "prune", "over", "dropped"}

Owed(t) == {k \in 1..Len(todo[t]) : run[t] = "label" => k # 1}

SlotsDiffer(e, w) ==
    /\ \A n \in Followups : e[n] \in DOMAIN edges
    /\ \A m, n \in Followups : e[m] = e[n] /\ w[m] = w[n] => m = n

PipesReserve(e, w, r) ==
    /\ \A q \in Spawning : r[q] \in DOMAIN edges
    /\ \A p, q \in Spawning : r[p] = r[q] => p = q
    /\ \A q \in Spawning, n \in Followups : w[n] = "pipe" => e[n] # r[q]

UnreadUnused(e, w) ==
    \A t \in Tasks, n \in Followups : Unread(t) /\ w[n] = "run" => edges[e[n]].source # t

RunsReserve(e, w, g) ==
    \A t \in Tasks : Serving(t) =>
        /\ \A k \in Owed(t) : g[t][k] \in DOMAIN edges /\ edges[g[t][k]].source = t
        /\ \A j, k \in Owed(t) : g[t][j] = g[t][k] => j = k
        /\ \A k \in Owed(t), n \in Followups : w[n] = "run" => e[n] # g[t][k]

Slotted(e, w, r, g) ==
    SlotsDiffer(e, w) /\ PipesReserve(e, w, r) /\ UnreadUnused(e, w) /\ RunsReserve(e, w, g)

SlotInv ==
    \E e \in [Tasks -> Nat], w \in [Tasks -> {"pipe", "run"}], r \in [Pipers -> Nat],
       g \in [Tasks -> [Nat -> Nat]] :
        Slotted(e, w, r, g)

(* What all but five kinds of steps leave as it is.                        *)
RunsStill ==
    /\ \A t \in Tasks \ Roots : run'[t] = "none" <=> run[t] = "none"
    /\ \A t \in Tasks : Unread(t)' => Unread(t)
    /\ \A t \in Tasks : Serving(t)' =>
          Serving(t) /\ todo'[t] = todo[t] /\ (run'[t] = "label" <=> run[t] = "label")

EdgesStill ==
    /\ DOMAIN edges' = DOMAIN edges
    /\ \A i \in DOMAIN edges : edges'[i].source = edges[i].source
    /\ \A q \in Pipers : pipes'[q].pc = "spawn" => pipes[q].pc = "spawn"

SlotStep ==
    \/ \E t \in Tasks : CollectFollowups(t) \/ LabelEdge(t) \/ \E n \in Tasks \ Roots : CreateFollowup(t, n)
    \/ \E q \in Pipers : PipeLink(q) \/ \E n \in Tasks \ Roots : PipeSpawn(q, n)

LEMMA RelabelStill ==
    ASSUME NEW t, NEW b, NEW n, Graph!SetGenerated(t, b, n), edges \in Seq(Graph!EdgeRecord)
    PROVE  /\ DOMAIN edges' = DOMAIN edges
           /\ \A i \in DOMAIN edges : edges'[i].source = edges[i].source
  BY DEF Graph!SetGenerated, Graph!WithGenerated

LEMMA SlotSteps ==
    ASSUME NodesInv, [Next]_vars
    PROVE  SlotStep \/ (RunsStill /\ EdgesStill)
<1> USE OrchestratorAssumption DEF graphVars, runVars, Unread, Serving
<1> DEFINE Same == UNCHANGED <<run, todo>>
           Kept == UNCHANGED <<edges, pipes>>
<1>0. ChainTypeOK /\ pipes \in [Pipers -> Pipe] /\ edges \in Seq(Graph!EdgeRecord)
  BY DEF NodesInv, ChainInv, Graph!GraphTypeOK
<1>a. Same => RunsStill
  BY DEF RunsStill
<1>b. Kept => EdgesStill
  BY DEF EdgesStill
<1>1. ASSUME NEW t \in Roots, NEW a, SendTask(t, a) \/ ScheduleTask(t, a) \/ SendRemote(t, a)
      PROVE  RunsStill /\ Kept
  BY <1>0, <1>1 DEF SendTask, ScheduleTask, SendRemote, Create, RunsStill, ChainTypeOK
<1>2. ASSUME NEW t \in Tasks, RunStep(t)
      PROVE  SlotStep \/ (RunsStill /\ Kept)
  <2> USE <1>0
  <2>1. WakeUp(t) \/ Begin(t) \/ MarkRunning(t) \/ Route(t) => RunsStill /\ Kept
    BY DEF WakeUp, Begin, MarkRunning, Route, RunsStill, ChainTypeOK
  <2>2. StartOnPool(t) \/ LookUpSession(t) \/ CollectOutput(t) => RunsStill /\ Kept
    BY DEF StartOnPool, LookUpSession, CollectOutput, RunsStill, ChainTypeOK
  <2>3. DestroyOwnSession(t) \/ ReleaseAgent(t) \/ ReleaseContainer(t) => RunsStill /\ Kept
    BY DEF DestroyOwnSession, ReleaseAgent, ReleaseContainer, AfterRelease, RunsStill, ChainTypeOK
  <2>4. ContainerSession(t) \/ CountPoolBusy(t) \/ ClaimContainer(t) \/ PromptContainer(t)
           => RunsStill /\ Kept
    BY DEF ContainerSession, CountPoolBusy, ClaimContainer, PromptContainer, RunsStill, ChainTypeOK
  <2>5. RemoteCall(t) \/ FollowupsDone(t) \/ ClearBackgroundRun(t) \/ PruneAndReturn(t)
           => RunsStill /\ Kept
    BY DEF RemoteCall, FollowupsDone, ClearBackgroundRun, PruneAndReturn, RunsStill, ChainTypeOK
  <2>6. FollowupReturned(t) => RunsStill /\ Kept
    BY DEF FollowupReturned, RunsStill, ChainTypeOK
  <2> QED BY <1>2, <2>1, <2>2, <2>3, <2>4, <2>5, <2>6 DEF RunStep, SlotStep
<1>3. ASSUME NEW t \in Tasks, AbortTakesEffect(t) \/ Disconnect(t)
      PROVE  RunsStill /\ EdgesStill
  <2>1. RunsStill
    BY <1>0, <1>3 DEF AbortTakesEffect, Disconnect, DropChain, RunsStill, ChainTypeOK
  <2>2. EdgesStill
    BY <1>0, <1>3 DEF AbortTakesEffect, Disconnect, EdgesStill, Pipe
  <2> QED BY <2>1, <2>2
<1>4. ASSUME NEW p \in Stoppers, StopStep(p)
      PROVE  Same /\ Kept
  BY <1>4 DEF StopStep, StopCollect, StopAbort, StopFail, StopPool, StopContainer,
             DropOrder, LateCall
<1>5. ASSUME NEW t \in Tasks, RegisterHandle(t) \/ PromptEnds(t)
      PROVE  Same /\ Kept
  BY <1>5 DEF RegisterHandle, PromptEnds
<1>6. ASSUME NEW c \in CtrAgents, LaunchContainer(c)
      PROVE  Same /\ Kept
  BY <1>6 DEF LaunchContainer
<1>7. ASSUME NEW a \in Agents, LaunchPty(a)
      PROVE  Same /\ Kept
  BY <1>7 DEF LaunchPty
<1>8. ASSUME NEW p \in Stoppers, NEW a, NEW m, StopBegin(p, a, m)
      PROVE  Same /\ Kept
  BY <1>8 DEF StopBegin
<1>9. ASSUME NEW q \in Pipers, PipeRecord(q)
      PROVE  Same /\ EdgesStill
  <2>1. /\ DOMAIN edges' = DOMAIN edges
        /\ \A i \in DOMAIN edges : edges'[i].source = edges[i].source
    BY <1>0, <1>9, RelabelStill DEF PipeRecord
  <2> QED BY <1>0, <1>9, <2>1, PipeMoved DEF PipeRecord, EdgesStill
<1>10. ASSUME NEW q \in Pipers, NEW t \in Tasks, NEW b, PipeRead(q, t, b)
      PROVE  Same /\ EdgesStill
  BY <1>0, <1>10 DEF PipeRead, EdgesStill
<1>11. CASE ListTasks \/ DayPasses \/ OtherClients
  <2>1. Same /\ Kept
    BY <1>11 DEF ListTasks, DayPasses, OtherClients
  <2> QED BY <1>a, <1>b, <2>1
<1>12. CASE UNCHANGED vars
  BY <1>a, <1>b, <1>12 DEF vars
<1>13. ASSUME NEW q \in Pipers, LeavePipe(q)
      PROVE  Same /\ EdgesStill
  BY <1>0, <1>13, PipeMoved DEF LeavePipe, EdgesStill
<1> QED
  BY <1>a, <1>b, <1>1, <1>2, <1>3, <1>4, <1>5, <1>6, <1>7, <1>8, <1>9, <1>10, <1>11, <1>12,
     <1>13 DEF Next, Request, PipeStep, SlotStep

LEMMA EdgeIndices ==
    ASSUME NodesInv
    PROVE  /\ edges \in Seq(Graph!EdgeRecord)
           /\ DOMAIN edges = 1..Len(edges) /\ Len(edges) \in Nat
           /\ DOMAIN edges \subseteq Nat
<1>1. edges \in Seq(Graph!EdgeRecord)
  BY DEF NodesInv, Graph!GraphTypeOK
<1>2. DOMAIN edges = 1..Len(edges) /\ Len(edges) \in Nat
  BY <1>1
<1> QED BY <1>1, <1>2

(* Nothing is created, read or reserved: the slots stay as they are.       *)
LEMMA SlotsStill ==
    ASSUME NodesInv, RunsStill, EdgesStill, NEW e, NEW w, NEW r, NEW g, Slotted(e, w, r, g)
    PROVE  Slotted(e, w, r, g)'
<1>1. Followups' = Followups /\ Spawning' \subseteq Spawning
  BY DEF RunsStill, EdgesStill, Followups, Spawning
<1>2. \A t \in Tasks : Serving(t)' => Serving(t) /\ Owed(t)' = Owed(t)
  BY DEF RunsStill, Owed
<1>3. SlotsDiffer(e, w)'
  BY <1>1 DEF Slotted, SlotsDiffer, EdgesStill
<1>4. PipesReserve(e, w, r)'
  BY <1>1 DEF Slotted, PipesReserve, EdgesStill
<1>5. UnreadUnused(e, w)'
  BY <1>1 DEF Slotted, SlotsDiffer, UnreadUnused, EdgesStill, RunsStill
<1>6. RunsReserve(e, w, g)'
  BY <1>1, <1>2 DEF Slotted, RunsReserve, EdgesStill
<1> QED BY <1>3, <1>4, <1>5, <1>6 DEF Slotted

(* A run reads its edges: their slots are free, and become reserved.       *)
LEMMA CollectSlots ==
    ASSUME NodesInv, SlotInv, NEW t \in Tasks, CollectFollowups(t)
    PROVE  SlotInv'
<1> USE DEF runVars, graphVars
<1>1. PICK e \in [Tasks -> Nat], w \in [Tasks -> {"pipe", "run"}], r \in [Pipers -> Nat],
           g \in [Tasks -> [Nat -> Nat]] : Slotted(e, w, r, g)
  BY DEF SlotInv
<1>2. edges \in Seq(Graph!EdgeRecord) /\ ChainTypeOK /\ todo \in [Tasks -> Seq(AllAgents)]
  BY DEF NodesInv, ChainInv, Graph!GraphTypeOK
<1>3. UNCHANGED <<edges, pipes>>
  BY DEF CollectFollowups
<1>4. PICK L \in Nat : L = Len(Graph!OutgoingFor(t))
  BY <1>2, OutgoingIsList
<1>5. PICK h \in [Nat -> Nat] :
          /\ \A j, k \in 1..L : h[j] = h[k] => j = k
          /\ \A k \in 1..L : h[k] \in DOMAIN edges /\ edges[h[k]].source = t
  BY <1>2, <1>4, OutgoingIsList
<1>6. run[t] = "followups" /\ run' = [run EXCEPT ![t] = "next"] /\ todo'[t] = Graph!OutgoingFor(t)
  BY <1>2 DEF CollectFollowups
<1>7. \A u \in Tasks \ {t} : run'[u] = run[u] /\ todo'[u] = todo[u]
  BY <1>2 DEF CollectFollowups
<1>8. Owed(t)' = 1..L /\ run'[t] = "next"
  BY <1>2, <1>4, <1>6 DEF Owed, ChainTypeOK
<1>9. \A u \in Tasks \ {t} : Owed(u)' = Owed(u)
  BY <1>7 DEF Owed
<1>10. Followups' = Followups /\ Spawning' = Spawning
  BY <1>3, <1>6, <1>7, <1>8 DEF Followups, Spawning
<1> DEFINE g2 == [g EXCEPT ![t] = h]
<1>13. /\ g2 \in [Tasks -> [Nat -> Nat]] /\ g2[t] = h
       /\ \A u \in Tasks \ {t} : g2[u] = g[u]
  OBVIOUS
<1> HIDE DEF g2
<1>14. SlotsDiffer(e, w)' /\ PipesReserve(e, w, r)'
  BY <1>1, <1>3, <1>10 DEF Slotted, SlotsDiffer, PipesReserve
<1>15. UnreadUnused(e, w)'
  BY <1>1, <1>3, <1>7, <1>8, <1>10 DEF Slotted, UnreadUnused, Unread
<1>16. \A n \in Followups : w[n] = "run" => edges[e[n]].source # t
  BY <1>1, <1>6 DEF Slotted, UnreadUnused, Unread
<1>17. RunsReserve(e, w, g2)'
  <2> SUFFICES ASSUME NEW u \in Tasks, Serving(u)'
               PROVE  /\ \A k \in Owed(u)' : g2[u][k] \in DOMAIN edges /\ edges[g2[u][k]].source = u
                      /\ \A j, k \in Owed(u)' : g2[u][j] = g2[u][k] => j = k
                      /\ \A k \in Owed(u)', n \in Followups : w[n] = "run" => e[n] # g2[u][k]
    BY <1>3, <1>10 DEF RunsReserve
  <2>1. CASE u = t
    <3>1. /\ \A k \in 1..L : h[k] \in DOMAIN edges /\ edges[h[k]].source = t
          /\ \A j, k \in 1..L : h[j] = h[k] => j = k
          /\ \A k \in 1..L, n \in Followups : w[n] = "run" => e[n] # h[k]
      BY <1>5, <1>16
    <3>2. g2[u] = h /\ Owed(u)' = 1..L
      BY <1>8, <1>13, <2>1
    <3> QED BY <2>1, <3>1, <3>2
  <2>2. CASE u # t
    <3>1. Serving(u) /\ Owed(u)' = Owed(u) /\ g2[u] = g[u]
      BY <1>7, <1>9, <1>13, <2>2 DEF Serving
    <3> QED BY <1>1, <3>1 DEF Slotted, RunsReserve
  <2> QED BY <2>1, <2>2
<1> QED BY <1>13, <1>14, <1>15, <1>17 DEF SlotInv, Slotted

(* A run creates the follow-up of the first entry, in the slot reserved    *)
(* for it.                                                                 *)
LEMMA CreateSlots ==
    ASSUME NodesInv, SlotInv, NEW t \in Tasks, NEW n \in Tasks \ Roots, CreateFollowup(t, n)
    PROVE  SlotInv'
<1>1. PICK e \in [Tasks -> Nat], w \in [Tasks -> {"pipe", "run"}], r \in [Pipers -> Nat],
           g \in [Tasks -> [Nat -> Nat]] : Slotted(e, w, r, g)
  BY DEF SlotInv
<1>2. edges \in Seq(Graph!EdgeRecord) /\ ChainTypeOK /\ todo \in [Tasks -> Seq(AllAgents)]
  BY DEF NodesInv, ChainInv, Graph!GraphTypeOK
<1>3. UNCHANGED <<edges, pipes, todo>>
  BY DEF CreateFollowup
<1>4. /\ run[t] = "next" /\ run'[t] = "label" /\ run[n] = "none" /\ run'[n] = "begin" /\ n # t
      /\ \A u \in Tasks \ {t, n} : run'[u] = run[u]
  BY <1>2 DEF CreateFollowup, ChainTypeOK
<1>5. todo[t] # <<>> /\ todo[t] \in Seq(AllAgents)
  BY <1>2 DEF CreateFollowup
<1>6. PICK l \in Nat \ {0} : Len(todo[t]) = l
  BY <1>5, EmptySeq
<1>7. 1 \in Owed(t) /\ Owed(t)' = Owed(t) \ {1} /\ Owed(t) \subseteq Nat
  <2>1. Owed(t) = 1..l /\ Owed(t)' = {k \in 1..l : k # 1}
    BY <1>3, <1>4, <1>6 DEF Owed
  <2>2. 1 \in 1..l /\ 1..l \subseteq Nat
    OBVIOUS
  <2> QED BY <2>1, <2>2
<1>8. \A u \in Tasks \ {t, n} : Owed(u)' = Owed(u)
  BY <1>3, <1>4 DEF Owed
<1>9. Followups' = Followups \cup {n} /\ n \notin Followups /\ Spawning' = Spawning
  BY <1>3, <1>4 DEF Followups, Spawning
<1> DEFINE i == g[t][1]
           e2 == [e EXCEPT ![n] = i]
           w2 == [w EXCEPT ![n] = "run"]
<1>10. /\ i \in DOMAIN edges /\ edges[i].source = t
       /\ \A m \in Followups : w[m] = "run" => e[m] # i
       /\ \A k \in Owed(t) : g[t][k] = i => k = 1
  BY <1>1, <1>4, <1>7 DEF Slotted, RunsReserve, Serving
<1> HIDE DEF i
<1>11. i \in Nat
  BY <1>10, EdgeIndices
<1>12. /\ e2 \in [Tasks -> Nat] /\ w2 \in [Tasks -> {"pipe", "run"}]
       /\ e2[n] = i /\ w2[n] = "run"
       /\ \A m \in Followups : e2[m] = e[m] /\ w2[m] = w[m]
  BY <1>1, <1>9, <1>11 DEF Followups
<1> HIDE DEF e2, w2
<1>13. SlotsDiffer(e2, w2)'
  BY <1>1, <1>3, <1>9, <1>10, <1>12 DEF Slotted, SlotsDiffer
<1>14. PipesReserve(e2, w2, r)'
  BY <1>1, <1>3, <1>9, <1>12 DEF Slotted, PipesReserve
<1>15. UnreadUnused(e2, w2)'
  <2> SUFFICES ASSUME NEW u \in Tasks, NEW m \in Followups \cup {n}, Unread(u)', w2[m] = "run"
               PROVE  edges[e2[m]].source # u
    BY <1>3, <1>9 DEF UnreadUnused
  <2>1. Unread(u) /\ u # t
    BY <1>4 DEF Unread
  <2> QED BY <1>1, <1>10, <1>12, <2>1 DEF Slotted, UnreadUnused
<1>16. RunsReserve(e2, w2, g)'
  <2> SUFFICES ASSUME NEW u \in Tasks, Serving(u)'
               PROVE  /\ \A k \in Owed(u)' : g[u][k] \in DOMAIN edges /\ edges[g[u][k]].source = u
                      /\ \A j, k \in Owed(u)' : g[u][j] = g[u][k] => j = k
                      /\ \A k \in Owed(u)', m \in Followups \cup {n} : w2[m] = "run" => e2[m] # g[u][k]
    BY <1>3, <1>9 DEF RunsReserve
  <2>1. Serving(u) /\ Owed(u)' \subseteq Owed(u) /\ (u = t => 1 \notin Owed(u)')
    BY <1>4, <1>7, <1>8 DEF Serving
  <2>2. /\ \A k \in Owed(u) : g[u][k] \in DOMAIN edges /\ edges[g[u][k]].source = u
        /\ \A j, k \in Owed(u) : g[u][j] = g[u][k] => j = k
        /\ \A k \in Owed(u), m \in Followups : w[m] = "run" => e[m] # g[u][k]
    BY <1>1, <2>1 DEF Slotted, RunsReserve
  <2>3. \A k \in Owed(u)' : i # g[u][k]
    BY <1>10, <2>1, <2>2
  <2> QED BY <1>12, <2>1, <2>2, <2>3
<1> QED BY <1>1, <1>12, <1>13, <1>14, <1>15, <1>16 DEF SlotInv, Slotted

(* Once the edge is labelled the entry is dropped: the reserved slots move *)
(* up by one.                                                              *)
LEMMA LabelSlots ==
    ASSUME NodesInv, SlotInv, NEW t \in Tasks, LabelEdge(t)
    PROVE  SlotInv'
<1>1. PICK e \in [Tasks -> Nat], w \in [Tasks -> {"pipe", "run"}], r \in [Pipers -> Nat],
           g \in [Tasks -> [Nat -> Nat]] : Slotted(e, w, r, g)
  BY DEF SlotInv
<1>2. edges \in Seq(Graph!EdgeRecord) /\ ChainTypeOK /\ todo \in [Tasks -> Seq(AllAgents)]
  BY DEF NodesInv, ChainInv, Graph!GraphTypeOK
<1>3. DOMAIN edges' = DOMAIN edges /\ \A i \in DOMAIN edges : edges'[i].source = edges[i].source
  BY <1>2, RelabelStill DEF LabelEdge
<1>4. /\ run[t] = "label" /\ run'[t] = "nested" /\ pipes' = pipes
      /\ \A u \in Tasks \ {t} : run'[u] = run[u] /\ todo'[u] = todo[u]
      /\ todo'[t] = Tail(todo[t])
  BY <1>2 DEF LabelEdge, ChainTypeOK
<1>5. todo[t] # <<>> /\ todo[t] \in Seq(AllAgents)
  BY <1>2, <1>4 DEF NodesInv, Generated
<1>6. PICK l \in Nat \ {0} : Len(todo[t]) = l
  BY <1>5, EmptySeq
<1>7. Owed(t) = {k \in 1..l : k # 1} /\ Owed(t)' = 1..(l - 1)
  <2>1. Len(Tail(todo[t])) = l - 1
    BY <1>5, <1>6, HeadTailProperties
  <2>2. Owed(t)' = 1..Len(Tail(todo[t]))
    BY <1>4 DEF Owed
  <2> QED BY <1>4, <1>6, <2>1, <2>2 DEF Owed
<1>8. \A u \in Tasks \ {t} : Owed(u)' = Owed(u)
  BY <1>4 DEF Owed
<1>9. Followups' = Followups /\ Spawning' = Spawning
  BY <1>4 DEF Followups, Spawning
<1> DEFINE up == [k \in Nat |-> g[t][k + 1]]
           g2 == [g EXCEPT ![t] = up]
<1>10. up \in [Nat -> Nat] /\ \A k \in 1..(l - 1) : up[k] = g[t][k + 1] /\ k + 1 \in Owed(t)
  <2>1. \A k \in Nat : g[t][k + 1] \in Nat
    BY <1>1
  <2>2. \A k \in 1..(l - 1) : k \in Nat /\ k + 1 \in 1..l /\ k + 1 # 1
    OBVIOUS
  <2> QED BY <1>7, <2>1, <2>2
<1> HIDE DEF up
<1>11. /\ g2 \in [Tasks -> [Nat -> Nat]] /\ g2[t] = up
       /\ \A u \in Tasks \ {t} : g2[u] = g[u]
  BY <1>10
<1> HIDE DEF g2
<1>12. SlotsDiffer(e, w)' /\ PipesReserve(e, w, r)'
  BY <1>1, <1>3, <1>9 DEF Slotted, SlotsDiffer, PipesReserve
<1>13. UnreadUnused(e, w)'
  <2> SUFFICES ASSUME NEW u \in Tasks, NEW n \in Followups, Unread(u)', w[n] = "run"
               PROVE  edges'[e[n]].source # u
    BY <1>9 DEF UnreadUnused
  <2>1. Unread(u)
    BY <1>4 DEF Unread
  <2>2. e[n] \in DOMAIN edges /\ edges[e[n]].source # u
    BY <1>1, <2>1 DEF Slotted, SlotsDiffer, UnreadUnused
  <2> QED BY <1>3, <2>2
<1>14. RunsReserve(e, w, g2)'
  <2> SUFFICES ASSUME NEW u \in Tasks, Serving(u)'
               PROVE  /\ \A k \in Owed(u)' : g2[u][k] \in DOMAIN edges /\ edges[g2[u][k]].source = u
                      /\ \A j, k \in Owed(u)' : g2[u][j] = g2[u][k] => j = k
                      /\ \A k \in Owed(u)', n \in Followups : w[n] = "run" => e[n] # g2[u][k]
    BY <1>3, <1>9 DEF RunsReserve
  <2>1. Serving(u)
    BY <1>4 DEF Serving
  <2>2. /\ \A k \in Owed(u) : g[u][k] \in DOMAIN edges /\ edges[g[u][k]].source = u
        /\ \A j, k \in Owed(u) : g[u][j] = g[u][k] => j = k
        /\ \A k \in Owed(u), n \in Followups : w[n] = "run" => e[n] # g[u][k]
    BY <1>1, <2>1 DEF Slotted, RunsReserve
  <2>3. CASE u = t
    <3>1. \A k \in 1..(l - 1) : up[k] = g[u][k + 1] /\ k + 1 \in Owed(u)
      BY <1>10, <2>3
    <3>2. ASSUME NEW k \in 1..(l - 1)
          PROVE  /\ up[k] \in DOMAIN edges /\ edges[up[k]].source = u
                 /\ \A n \in Followups : w[n] = "run" => e[n] # up[k]
      <4>1. up[k] = g[u][k + 1] /\ k + 1 \in Owed(u)
        BY <3>1
      <4> QED BY <2>2, <4>1
    <3>3. ASSUME NEW j \in 1..(l - 1), NEW k \in 1..(l - 1), up[j] = up[k] PROVE j = k
      <4>1. j + 1 = k + 1
        BY <2>2, <3>1, <3>3
      <4> QED BY <4>1
    <3> QED BY <1>7, <1>11, <2>3, <3>2, <3>3
  <2>4. CASE u # t
    <3>1. Owed(u)' = Owed(u) /\ g2[u] = g[u]
      BY <1>8, <1>11, <2>4
    <3> QED BY <2>2, <3>1
  <2> QED BY <2>3, <2>4
<1> QED BY <1>1, <1>11, <1>12, <1>13, <1>14 DEF SlotInv, Slotted

(* A pipe request adds an edge, whose slots are free.                      *)
LEMMA LinkSlots ==
    ASSUME NodesInv, SlotInv, NEW q \in Pipers, PipeLink(q)
    PROVE  SlotInv'
<1> USE DEF runVars
<1>1. PICK e \in [Tasks -> Nat], w \in [Tasks -> {"pipe", "run"}], r \in [Pipers -> Nat],
           g \in [Tasks -> [Nat -> Nat]] : Slotted(e, w, r, g)
  BY DEF SlotInv
<1>2. RunsStill
  BY DEF PipeLink, RunsStill, Unread, Serving
<1>3. CASE edges' = edges /\ pipes' = [pipes EXCEPT ![q].pc = "over"]
  <2>1. EdgesStill
    BY <1>3, PipeMoved DEF EdgesStill, NodesInv
  <2>2. Slotted(e, w, r, g)'
    BY <1>1, <1>2, <2>1, SlotsStill
  <2> QED BY <1>1, <2>2 DEF SlotInv
<1>4. CASE Graph!AddEdge(pipes[q].source, pipes[q].target)
  <2>1. PICK x \in Graph!EdgeRecord : edges' = Append(edges, x)
    BY <1>4 DEF Graph!AddEdge, Graph!NewEdge, Graph!EdgeRecord, PipeLink, NodesInv, Generated
  <2>2. PICK l \in Nat : l = Len(edges) /\ DOMAIN edges = 1..l
    BY EdgeIndices
  <2>3. DOMAIN edges' = 1..(l + 1) /\ \A i \in DOMAIN edges : edges'[i] = edges[i]
    <3>1. /\ edges' \in Seq(Graph!EdgeRecord) /\ Len(edges') = Len(edges) + 1
          /\ \A i \in 1..Len(edges) : edges'[i] = edges[i]
      BY <2>1, EdgeIndices, AppendProperties
    <3>2. DOMAIN edges' = 1..Len(edges')
      BY <3>1
    <3> QED BY <2>2, <3>1, <3>2
  <2>4. l + 1 \in DOMAIN edges' /\ l + 1 \notin DOMAIN edges /\ DOMAIN edges \subseteq DOMAIN edges'
    BY <2>2, <2>3
  <2>5. Followups' = Followups
    BY <1>2 DEF RunsStill, Followups
  <2>6. Spawning' \subseteq Spawning \cup {q} /\ q \notin Spawning
    <3>1. \A p \in Pipers \ {q} : pipes'[p] = pipes[p]
      BY PipeMoved DEF PipeLink, NodesInv
    <3>2. pipes[q].pc = "link"
      BY DEF PipeLink
    <3> QED BY <3>1, <3>2 DEF Spawning
  <2> DEFINE r2 == [r EXCEPT ![q] = l + 1]
  <2>7. r2 \in [Pipers -> Nat] /\ r2[q] = l + 1 /\ \A p \in Spawning : r2[p] = r[p]
    BY <2>6 DEF Spawning
  <2> HIDE DEF r2
  <2>8. SlotsDiffer(e, w)'
    BY <1>1, <2>4, <2>5 DEF Slotted, SlotsDiffer
  <2>9. PipesReserve(e, w, r2)'
    <3>1. \A p \in Spawning : r[p] \in DOMAIN edges /\ r[p] # l + 1
      BY <1>1, <2>4 DEF Slotted, PipesReserve
    <3>2. \A n \in Followups : e[n] # l + 1
      BY <1>1, <2>4 DEF Slotted, SlotsDiffer
    <3>3. \A p \in Spawning' : r2[p] \in DOMAIN edges'
      BY <2>4, <2>6, <2>7, <3>1
    <3>4. \A p, o \in Spawning' : r2[p] = r2[o] => p = o
      BY <1>1, <2>6, <2>7, <3>1 DEF Slotted, PipesReserve
    <3>5. \A p \in Spawning', n \in Followups : w[n] = "pipe" => e[n] # r2[p]
      BY <1>1, <2>6, <2>7, <3>2 DEF Slotted, PipesReserve
    <3> QED BY <2>5, <3>3, <3>4, <3>5 DEF PipesReserve
  <2>10. UnreadUnused(e, w)'
    <3> SUFFICES ASSUME NEW u \in Tasks, NEW n \in Followups, Unread(u)', w[n] = "run"
                 PROVE  edges'[e[n]].source # u
      BY <2>5 DEF UnreadUnused
    <3>1. e[n] \in DOMAIN edges /\ edges[e[n]].source # u
      BY <1>1, <1>2 DEF Slotted, SlotsDiffer, UnreadUnused, RunsStill
    <3> QED BY <2>3, <3>1
  <2>11. RunsReserve(e, w, g)'
    <3>1. \A t \in Tasks : Serving(t)' => Serving(t) /\ Owed(t)' = Owed(t)
      BY <1>2 DEF RunsStill, Owed
    <3> SUFFICES ASSUME NEW u \in Tasks, Serving(u)'
                 PROVE  /\ \A k \in Owed(u)' : g[u][k] \in DOMAIN edges' /\ edges'[g[u][k]].source = u
                        /\ \A j, k \in Owed(u)' : g[u][j] = g[u][k] => j = k
                        /\ \A k \in Owed(u)', n \in Followups : w[n] = "run" => e[n] # g[u][k]
      BY <2>5 DEF RunsReserve
    <3>2. /\ \A k \in Owed(u) : g[u][k] \in DOMAIN edges /\ edges[g[u][k]].source = u
          /\ \A j, k \in Owed(u) : g[u][j] = g[u][k] => j = k
          /\ \A k \in Owed(u), n \in Followups : w[n] = "run" => e[n] # g[u][k]
      BY <1>1, <3>1 DEF Slotted, RunsReserve
    <3> QED BY <2>3, <2>4, <3>1, <3>2
  <2> QED BY <2>7, <2>8, <2>9, <2>10, <2>11 DEF SlotInv, Slotted
<1> QED BY <1>3, <1>4 DEF PipeLink

(* A pipe request creates the follow-up it has the slot of.                *)
LEMMA SpawnSlots ==
    ASSUME NodesInv, SlotInv, NEW q \in Pipers, NEW n \in Tasks \ Roots, PipeSpawn(q, n)
    PROVE  SlotInv'
<1>1. PICK e \in [Tasks -> Nat], w \in [Tasks -> {"pipe", "run"}], r \in [Pipers -> Nat],
           g \in [Tasks -> [Nat -> Nat]] : Slotted(e, w, r, g)
  BY DEF SlotInv
<1>2. ChainTypeOK /\ pipes \in [Pipers -> Pipe]
  BY DEF NodesInv, ChainInv
<1>3. /\ UNCHANGED <<edges, todo>>
      /\ run[n] = "none" /\ run'[n] = "begin" /\ \A u \in Tasks \ {n} : run'[u] = run[u]
  BY <1>2 DEF PipeSpawn, Create, ChainTypeOK
<1>4. /\ pipes[q].pc = "spawn" /\ pipes'[q].pc = "await"
      /\ \A p \in Pipers \ {q} : pipes'[p] = pipes[p]
  BY <1>2 DEF PipeSpawn, Pipe
<1>5. Followups' = Followups \cup {n} /\ n \notin Followups
  BY <1>3 DEF Followups
<1>6. Spawning' = Spawning \ {q} /\ q \in Spawning
  BY <1>4 DEF Spawning
<1>7. r[q] \in DOMAIN edges
  BY <1>1, <1>6 DEF Slotted, PipesReserve
<1> DEFINE e2 == [e EXCEPT ![n] = r[q]]
           w2 == [w EXCEPT ![n] = "pipe"]
<1>8. /\ e2 \in [Tasks -> Nat] /\ w2 \in [Tasks -> {"pipe", "run"}]
      /\ e2[n] = r[q] /\ w2[n] = "pipe"
      /\ \A m \in Followups : e2[m] = e[m] /\ w2[m] = w[m]
  BY <1>5 DEF Followups
<1> HIDE DEF e2, w2
<1>9. SlotsDiffer(e2, w2)'
  BY <1>1, <1>3, <1>5, <1>6, <1>7, <1>8 DEF Slotted, SlotsDiffer, PipesReserve
<1>10. PipesReserve(e2, w2, r)'
  BY <1>1, <1>3, <1>5, <1>6, <1>8 DEF Slotted, PipesReserve
<1>11. UnreadUnused(e2, w2)'
  <2> SUFFICES ASSUME NEW u \in Tasks, NEW m \in Followups, Unread(u)', w[m] = "run"
               PROVE  edges[e[m]].source # u
    BY <1>3, <1>5, <1>8 DEF UnreadUnused
  <2>1. Unread(u)
    BY <1>3 DEF Unread
  <2> QED BY <1>1, <2>1 DEF Slotted, UnreadUnused
<1>12. RunsReserve(e2, w2, g)'
  <2>1. \A u \in Tasks : Serving(u)' => Serving(u) /\ Owed(u)' = Owed(u)
    BY <1>3 DEF Serving, Owed
  <2> QED BY <1>1, <1>3, <1>5, <1>8, <2>1 DEF Slotted, RunsReserve
<1> QED BY <1>8, <1>9, <1>10, <1>11, <1>12 DEF SlotInv, Slotted

LEMMA SlotInit == Init => SlotInv
<1> SUFFICES ASSUME Init PROVE SlotInv
  OBVIOUS
<1> DEFINE e == [n \in Tasks |-> 0]
           w == [n \in Tasks |-> "run"]
           r == [q \in Pipers |-> 0]
           g == [t \in Tasks |-> [k \in Nat |-> 0]]
<1>1. /\ e \in [Tasks -> Nat] /\ w \in [Tasks -> {"pipe", "run"}] /\ r \in [Pipers -> Nat]
      /\ g \in [Tasks -> [Nat -> Nat]]
  OBVIOUS
<1>2. Followups = {} /\ Spawning = {} /\ \A t \in Tasks : ~Serving(t)
  BY DEF Init, Followups, Spawning, Serving
<1> HIDE DEF e, w, r, g
<1>3. Slotted(e, w, r, g)
  BY <1>2 DEF Slotted, SlotsDiffer, PipesReserve, UnreadUnused, RunsReserve
<1> QED BY <1>1, <1>3 DEF SlotInv

LEMMA SlotInvStep == NodesInv /\ SlotInv /\ [Next]_vars => SlotInv'
<1> SUFFICES ASSUME NodesInv, SlotInv, [Next]_vars PROVE SlotInv'
  OBVIOUS
<1>1. CASE RunsStill /\ EdgesStill
  BY <1>1, SlotsStill DEF SlotInv
<1> QED
  BY <1>1, SlotSteps, CollectSlots, CreateSlots, LabelSlots, LinkSlots, SpawnSlots DEF SlotStep

(* Two follow-ups never share a slot, and an edge has two.                 *)
LEMMA SlotsBound == NodesInv /\ SlotInv => FollowupsBounded
<1> SUFFICES ASSUME NodesInv, SlotInv PROVE FollowupsBounded
  OBVIOUS
<1>1. PICK e \in [Tasks -> Nat], w \in [Tasks -> {"pipe", "run"}] : SlotsDiffer(e, w)
  BY DEF SlotInv, Slotted
<1>2. {n \in Tasks \ Roots : nodeStatus[n] # "absent"} = Followups
  BY DEF NodesInv, RunNode, Followups
<1>3. PICK l \in Nat : l = Len(edges) /\ DOMAIN edges = 1..l
  BY EdgeIndices
<1> DEFINE S == 1..(2 * l)
           f == [n \in Followups |-> IF w[n] = "run" THEN 2 * e[n] ELSE 2 * e[n] - 1]
<1>4. \A n \in Followups : e[n] \in 1..l /\ e[n] \in Nat /\ w[n] \in {"pipe", "run"}
  BY <1>1, <1>3 DEF SlotsDiffer, Followups
<1>5. f \in [Followups -> S]
  BY <1>4
<1>6. ASSUME NEW m \in Followups, NEW n \in Followups, f[m] = f[n] PROVE m = n
  <2>1. f[m] = (IF w[m] = "run" THEN 2 * e[m] ELSE 2 * e[m] - 1)
    OBVIOUS
  <2>2. f[n] = (IF w[n] = "run" THEN 2 * e[n] ELSE 2 * e[n] - 1)
    OBVIOUS
  <2> HIDE DEF f
  <2>3. PICK x \in Nat, y \in Nat : x = e[m] /\ y = e[n]
    BY <1>4
  <2>4. 2 * x # 2 * y - 1 /\ 2 * x - 1 # 2 * y /\ (2 * x = 2 * y \/ 2 * x - 1 = 2 * y - 1 => x = y)
    OBVIOUS
  <2>5. w[m] \in {"pipe", "run"} /\ w[n] \in {"pipe", "run"}
    BY <1>4
  <2>6. e[m] = e[n] /\ w[m] = w[n]
    BY <1>6, <2>1, <2>2, <2>3, <2>4, <2>5
  <2> QED BY <1>1, <2>6 DEF SlotsDiffer
<1> HIDE DEF f
<1>7. f \in Injection(Followups, S)
  BY <1>5, <1>6 DEF Injection, IsInjective
<1>8. IsFiniteSet(S) /\ Cardinality(S) = 2 * l
  BY FS_Interval
<1> HIDE DEF S
<1>9. Cardinality(Followups) <= 2 * l
  BY <1>7, <1>8, FS_Injection
<1> QED BY <1>2, <1>3, <1>9 DEF FollowupsBounded

(* However pipe requests, runs, aborts and lost clients interleave, the    *)
(* tasks that pipes have started are at most two for each pipe.            *)
THEOREM PipesStartTwoAtMost == Spec => []FollowupsBounded
<1>1. Init => NodesInv /\ SlotInv
  BY NodesInit, SlotInit
<1>2. NodesInv /\ SlotInv /\ [Next]_vars => (NodesInv /\ SlotInv)'
  BY NodesStep, SlotInvStep
<1> QED BY <1>1, <1>2, SlotsBound, PTL DEF Spec
================================================================================
