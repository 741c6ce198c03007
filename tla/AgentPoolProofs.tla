---------------------------- MODULE AgentPoolProofs ----------------------------
(***************************************************************************)
(* TLAPS proofs about AgentPool, for every set of agents, runs and stop    *)
(* requests and every budget.                                              *)
(***************************************************************************)
EXTENDS AgentPool, FiniteSetTheorems, TLAPS

(* The initial pool satisfies the inductive invariant.                     *)
LEMMA PoolInitInv == PoolInit => PoolInv
  BY PoolAssumption
  DEF PoolInit, PoolInv, PoolTypeOK, RecordsAgree, HeldOrStopped, OneRunPerAgent,
      SessionsOwned, InProgress, AgentStatus, Phase, Live, SessionIds, StopState, Resting

(* Every critical section of launch, start_task, complete_task and stop,   *)
(* every dropped future and every other client of the PtyManager preserves *)
(* the inductive invariant.                                                *)
LEMMA PoolStepInv == PoolInv /\ [PoolNext]_poolVars => PoolInv'
<1> SUFFICES ASSUME PoolInv, [PoolNext]_poolVars PROVE PoolInv'
    OBVIOUS
<1> USE PoolAssumption
<1> USE DEF PoolInv, PoolTypeOK, RecordsAgree, HeldOrStopped, OneRunPerAgent,
            SessionsOwned, InProgress, AgentStatus, Phase, Live, SessionIds
<1>1. CASE \E a \in Agents : Launch(a)
  BY <1>1 DEF Launch
<1>2. ASSUME NEW t \in Tasks, NEW a \in Agents, StartTask(t, a)
      PROVE  PoolInv'
  <2>1. PoolTypeOK'
    BY <1>2 DEF StartTask, Reapable
  <2>2. RecordsAgree'
    BY <1>2 DEF StartTask, CanStart
  <2>3. \A u \in Tasks : phase[u] \in Live => on[u] # a
    BY <1>2 DEF StartTask, CanStart
  <2>4. HeldOrStopped' /\ OneRunPerAgent'
    BY <1>2, <2>3 DEF StartTask, CanStart
  <2>5. SessionsOwned'
    BY <1>2 DEF StartTask
  <2>6. InProgress'
    BY <1>2 DEF StartTask
  <2> QED BY <2>1, <2>2, <2>4, <2>5, <2>6
<1>3. ASSUME NEW t \in Tasks, NEW a \in Agents, StartRefused(t, a)
      PROVE  PoolInv'
  BY <1>3 DEF StartRefused
<1>4. ASSUME NEW t \in Tasks, FindSession(t)
      PROVE  PoolInv'
  BY <1>4 DEF FindSession
<1>5. ASSUME NEW t \in Tasks, FreeSession(t)
      PROVE  PoolInv'
  BY <1>5 DEF FreeSession
<1>6. ASSUME NEW t \in Tasks, CompleteTask(t)
      PROVE  PoolInv'
  <2>1. on[t] \in Agents /\ t \notin ptys
    BY <1>6 DEF CompleteTask
  <2>2. PoolTypeOK'
    BY <1>6, <2>1 DEF CompleteTask
  <2>3. RecordsAgree'
    BY <1>6, <2>1 DEF CompleteTask
  <2>4. HeldOrStopped' /\ OneRunPerAgent'
    BY <1>6, <2>1 DEF CompleteTask
  <2>5. SessionsOwned' /\ InProgress'
    BY <1>6, <2>1 DEF CompleteTask
  <2> QED BY <2>2, <2>3, <2>4, <2>5
<1>7. ASSUME NEW t \in Tasks, DropRun(t)
      PROVE  PoolInv'
  BY <1>7 DEF DropRun
<1>8. ASSUME NEW p \in Stoppers, NEW a \in Agents, StopRead(p, a)
      PROVE  PoolInv'
  <2>1. stops' \in [Stoppers -> StopState]
    BY <1>8 DEF StopRead, StopState
  <2> QED BY <1>8, <2>1 DEF StopRead
<1>9. ASSUME NEW p \in Stoppers, StopKill(p)
      PROVE  PoolInv'
  <2>1. stops' \in [Stoppers -> StopState]
    BY <1>9 DEF StopKill, StopState
  <2>2. InProgress'
    BY <1>9 DEF StopKill, StopState
  <2> QED BY <1>9, <2>1, <2>2 DEF StopKill
<1>10. ASSUME NEW p \in Stoppers, StopMark(p)
       PROVE  PoolInv'
  <2>1. stops[p].agent \in Agents
    BY <1>10 DEF StopMark
  <2>2. stops' \in [Stoppers -> StopState]
    BY <1>10 DEF StopMark, StopState, Resting
  <2>3. PoolTypeOK'
    BY <1>10, <2>1, <2>2 DEF StopMark
  <2>4. RecordsAgree' /\ HeldOrStopped' /\ OneRunPerAgent' /\ SessionsOwned'
    BY <1>10, <2>1 DEF StopMark
  <2>5. InProgress'
    BY <1>10, <2>1 DEF StopMark, Resting
  <2> QED BY <2>3, <2>4, <2>5
<1>11. ASSUME NEW p \in Stoppers, DropStop(p)
       PROVE  PoolInv'
  <2>1. stops' \in [Stoppers -> StopState]
    BY <1>11 DEF DropStop, StopState, Resting
  <2> QED BY <1>11, <2>1 DEF DropStop, Resting
<1>12. ASSUME NEW s \in Terminals, OpenTerminal(s)
       PROVE  PoolInv'
  BY <1>12 DEF OpenTerminal, Reapable
<1>13. ASSUME NEW s \in SessionIds, DestroySession(s)
       PROVE  PoolInv'
  BY <1>13 DEF DestroySession
<1>14. ASSUME NEW t \in Tasks, StartUnknown(t)
       PROVE  PoolInv'
  BY <1>14 DEF StartUnknown
<1>15. CASE UNCHANGED poolVars
  BY <1>15 DEF poolVars
<1> QED
  BY <1>1, <1>2, <1>3, <1>4, <1>5, <1>6, <1>7, <1>8, <1>9, <1>10, <1>11, <1>12,
     <1>13, <1>14, <1>15 DEF PoolNext

(* In every behaviour of the pool, whatever the budget and however many    *)
(* runs and stops interleave, the records of an agent agree, a run holds   *)
(* its agent until the agent is stopped, two runs never share one, and a   *)
(* session outlives its run only if the run was dropped.                   *)
THEOREM PoolInvariant == PoolSpec => []PoolInv
<1>1. PoolInit => PoolInv
  BY PoolInitInv
<1>2. PoolInv /\ [PoolNext]_poolVars => PoolInv'
  BY PoolStepInv
<1> QED BY <1>1, <1>2, PTL DEF PoolSpec

(***************************************************************************)
(* The budget.  PoolInv says nothing of sizes: that the number of Busy     *)
(* agents grows by at most one, and only below the limit, is a fact about  *)
(* cardinalities.                                                          *)
(***************************************************************************)
BudgetInv == PoolTypeOK /\ IsFiniteSet(ptys) /\ WithinBudget

(* Taking sessions away from a finite map and then adding one session      *)
(* below the limit keeps the map within the limit.                         *)
LEMMA SessionLimit ==
    ASSUME NEW S, NEW Q, NEW s, IsFiniteSet(S), MaxSessions \in Nat,
           Cardinality(S \ Q) < MaxSessions
    PROVE  /\ IsFiniteSet((S \ Q) \cup {s})
           /\ Cardinality((S \ Q) \cup {s}) <= MaxSessions
<1>1. IsFiniteSet(S \ Q)
  BY FS_Subset
<1>2. Cardinality(S \ Q) \in Nat
  BY <1>1, FS_CardinalityType
<1>3. /\ IsFiniteSet((S \ Q) \cup {s})
      /\ \/ Cardinality((S \ Q) \cup {s}) = Cardinality(S \ Q)
         \/ Cardinality((S \ Q) \cup {s}) = Cardinality(S \ Q) + 1
  BY <1>1, FS_AddElement
<1> QED BY <1>2, <1>3

(* Removing sessions from the map never takes it over the limit.           *)
LEMMA SessionsRemoved ==
    ASSUME NEW S, NEW R, IsFiniteSet(S), R \subseteq S, MaxSessions \in Nat,
           Cardinality(S) <= MaxSessions
    PROVE  IsFiniteSet(R) /\ Cardinality(R) <= MaxSessions
<1>1. IsFiniteSet(R) /\ Cardinality(R) <= Cardinality(S)
  BY FS_Subset
<1>2. Cardinality(R) \in Nat /\ Cardinality(S) \in Nat
  BY <1>1, FS_CardinalityType
<1> QED BY <1>1, <1>2

(* A step of the pool that does not start a task makes no agent Busy.      *)
LEMMA BusyShrinks ==
    ASSUME PoolTypeOK, MaxBusy \in Nat, Busy' \subseteq Busy, Cardinality(Busy) <= MaxBusy
    PROVE  Cardinality(Busy)' <= MaxBusy
<1>1. IsFiniteSet(Busy)
  BY PoolAssumption, FS_Subset DEF Busy
<1>2. IsFiniteSet(Busy') /\ Cardinality(Busy') <= Cardinality(Busy)
  BY <1>1, FS_Subset
<1>3. Cardinality(Busy) \in Nat /\ Cardinality(Busy') \in Nat
  BY <1>1, <1>2, FS_CardinalityType
<1> QED BY <1>2, <1>3

(* max_concurrent_busy and max_sessions hold in every behaviour, although  *)
(* the map of sessions is shared with clients that know nothing of agents. *)
THEOREM BudgetHolds == PoolSpec => []WithinBudget
<1> USE PoolAssumption
<1>1. PoolInit => BudgetInv
  <2> SUFFICES ASSUME PoolInit PROVE BudgetInv
    OBVIOUS
  <2>1. PoolTypeOK
    BY PoolInitInv DEF PoolInv
  <2>2. Busy = {} /\ ptys = {}
    BY DEF PoolInit, Busy
  <2>3. Cardinality({}) = 0 /\ IsFiniteSet({})
    BY FS_EmptySet
  <2> QED BY <2>1, <2>2, <2>3 DEF BudgetInv, WithinBudget
<1>2. PoolInv /\ BudgetInv /\ [PoolNext]_poolVars => BudgetInv'
  <2> SUFFICES ASSUME PoolInv, BudgetInv, [PoolNext]_poolVars PROVE BudgetInv'
    OBVIOUS
  <2>0. PoolTypeOK'
    BY PoolStepInv DEF PoolInv
  <2>1. ASSUME NEW t \in Tasks, NEW a \in Agents, StartTask(t, a)
        PROVE  BudgetInv'
    <3>0. PICK quiet \in Reapable : /\ Cardinality(ptys \ quiet) < MaxSessions
                                    /\ ptys' = (ptys \ quiet) \cup {t}
      BY <2>1 DEF StartTask
    <3>1. IsFiniteSet(ptys') /\ Cardinality(ptys') <= MaxSessions
      BY <3>0, SessionLimit DEF BudgetInv
    <3>2. Busy' = Busy \cup {a}
      BY <2>1 DEF StartTask, Busy, BudgetInv, PoolTypeOK
    <3>3. IsFiniteSet(Busy)
      BY FS_Subset DEF Busy
    <3>4. Cardinality(Busy) \in Nat
      BY <3>3, FS_CardinalityType
    <3>5. \/ Cardinality(Busy') = Cardinality(Busy)
          \/ Cardinality(Busy') = Cardinality(Busy) + 1
      BY <3>2, <3>3, FS_AddElement
    <3>6. Cardinality(Busy') <= MaxBusy
      BY <2>1, <3>4, <3>5 DEF StartTask, CanStart
    <3> QED BY <2>0, <3>1, <3>6 DEF BudgetInv, WithinBudget
  <2>2. ASSUME NEW s \in Terminals, OpenTerminal(s)
        PROVE  BudgetInv'
    <3>0. PICK quiet \in Reapable : /\ Cardinality(ptys \ quiet) < MaxSessions
                                    /\ ptys' = (ptys \ quiet) \cup {s}
      BY <2>2 DEF OpenTerminal
    <3>1. IsFiniteSet(ptys') /\ Cardinality(ptys') <= MaxSessions
      BY <3>0, SessionLimit DEF BudgetInv
    <3>2. Busy' = Busy
      BY <2>2 DEF OpenTerminal, Busy
    <3> QED BY <2>0, <3>1, <3>2 DEF BudgetInv, WithinBudget
  <2>3. ASSUME Busy' \subseteq Busy, ptys' \subseteq ptys
        PROVE  BudgetInv'
    <3>1. Cardinality(Busy)' <= MaxBusy
      BY <2>3, BusyShrinks DEF BudgetInv, WithinBudget
    <3>2. IsFiniteSet(ptys') /\ Cardinality(ptys') <= MaxSessions
      BY <2>3, SessionsRemoved DEF BudgetInv, WithinBudget
    <3> QED BY <2>0, <3>1, <3>2 DEF BudgetInv, WithinBudget
  <2>4. CASE \E a \in Agents : Launch(a)
    BY <2>3, <2>4 DEF Launch, Busy, BudgetInv, PoolTypeOK
  <2>5. CASE \E t \in Tasks, a \in Agents : StartRefused(t, a)
    BY <2>3, <2>5 DEF StartRefused, Reapable, Busy
  <2>6. CASE \E t \in Tasks : StartUnknown(t) \/ FindSession(t) \/ FreeSession(t) \/ DropRun(t)
    BY <2>3, <2>6 DEF StartUnknown, FindSession, FreeSession, DropRun, Busy
  <2>7. CASE \E t \in Tasks : CompleteTask(t)
    BY <2>3, <2>7 DEF CompleteTask, Busy, BudgetInv, PoolTypeOK
  <2>8. CASE \E p \in Stoppers, a \in Agents : StopRead(p, a)
    BY <2>3, <2>8 DEF StopRead, Busy
  <2>9. CASE \E p \in Stoppers : StopKill(p) \/ DropStop(p)
    BY <2>3, <2>9 DEF StopKill, DropStop, Busy
  <2>10. CASE \E p \in Stoppers : StopMark(p)
    BY <2>3, <2>10 DEF StopMark, Busy, BudgetInv, PoolTypeOK
  <2>11. CASE \E s \in SessionIds : DestroySession(s)
    BY <2>3, <2>11 DEF DestroySession, Busy
  <2>12. CASE UNCHANGED poolVars
    BY <2>3, <2>12 DEF poolVars, Busy
  <2> QED
    BY <2>1, <2>2, <2>4, <2>5, <2>6, <2>7, <2>8, <2>9, <2>10, <2>11, <2>12 DEF PoolNext
<1>3. BudgetInv => WithinBudget
  BY DEF BudgetInv
<1> QED BY <1>1, <1>2, <1>3, PoolInvariant, PTL DEF PoolSpec

(***************************************************************************)
(* Steps that can never happen.                                            *)
(***************************************************************************)

(* No critical section takes a stopped agent out of Stopped.               *)
THEOREM StoppedStays == PoolSpec => StoppedForGood
<1>1. PoolInv /\ [PoolNext]_poolVars =>
        [\A a \in Agents : status[a] = "stopped" => status'[a] = "stopped"]_poolVars
  <2> SUFFICES ASSUME PoolInv, PoolNext, NEW a \in Agents, status[a] = "stopped"
               PROVE  status'[a] = "stopped"
    BY DEF poolVars
  <2> USE DEF PoolInv, PoolTypeOK
  <2>1. CASE \E b \in Agents : Launch(b)
    BY <2>1 DEF Launch
  <2>2. CASE \E t \in Tasks, b \in Agents : StartTask(t, b) \/ StartRefused(t, b)
    BY <2>2 DEF StartTask, StartRefused, CanStart
  <2>3. CASE \E t \in Tasks : \/ StartUnknown(t) \/ FindSession(t) \/ FreeSession(t)
                              \/ CompleteTask(t) \/ DropRun(t)
    BY <2>3 DEF StartUnknown, FindSession, FreeSession, CompleteTask, DropRun
  <2>4. CASE \E p \in Stoppers, b \in Agents : StopRead(p, b)
    BY <2>4 DEF StopRead
  <2>5. CASE \E p \in Stoppers : StopKill(p) \/ StopMark(p) \/ DropStop(p)
    BY <2>5 DEF StopKill, StopMark, DropStop
  <2>6. CASE \/ \E s \in Terminals : OpenTerminal(s)
             \/ \E s \in SessionIds : DestroySession(s)
    BY <2>6 DEF OpenTerminal, DestroySession
  <2> QED BY <2>1, <2>2, <2>3, <2>4, <2>5, <2>6 DEF PoolNext
<1> QED BY <1>1, PoolInvariant, PTL DEF PoolSpec, StoppedForGood

(* Only the run an agent is Busy with makes it Idle, in its complete_task. *)
THEOREM IdleOnlyByOwnRun == PoolSpec => IdleByOwnRun
<1>1. PoolInv /\ [PoolNext]_poolVars =>
        [\A a \in Agents : status[a] = "busy" /\ status'[a] = "idle" =>
            phase[current[a]] = "freed" /\ phase'[current[a]] = "over"]_poolVars
  <2> SUFFICES ASSUME PoolInv, PoolNext, NEW a \in Agents,
                      status[a] = "busy", status'[a] = "idle"
               PROVE  phase[current[a]] = "freed" /\ phase'[current[a]] = "over"
    BY DEF poolVars
  <2>1. ASSUME NEW t \in Tasks, CompleteTask(t)
        PROVE  phase[current[a]] = "freed" /\ phase'[current[a]] = "over"
    <3>1. on[t] = a
      BY <2>1 DEF CompleteTask, PoolInv, PoolTypeOK
    <3>2. current[a] = t
      BY <2>1, <3>1 DEF CompleteTask, PoolInv, HeldOrStopped, Live
    <3> QED BY <2>1, <3>2 DEF CompleteTask, PoolInv, PoolTypeOK
  <2> USE DEF PoolInv, PoolTypeOK
  <2>2. CASE \E b \in Agents : Launch(b)
    BY <2>2 DEF Launch
  <2>3. CASE \E t \in Tasks, b \in Agents : StartTask(t, b) \/ StartRefused(t, b)
    BY <2>3 DEF StartTask, StartRefused, CanStart
  <2>4. CASE \E t \in Tasks : StartUnknown(t) \/ FindSession(t) \/ FreeSession(t) \/ DropRun(t)
    BY <2>4 DEF StartUnknown, FindSession, FreeSession, DropRun
  <2>5. CASE \E p \in Stoppers, b \in Agents : StopRead(p, b)
    BY <2>5 DEF StopRead
  <2>6. CASE \E p \in Stoppers : StopKill(p) \/ StopMark(p) \/ DropStop(p)
    BY <2>6 DEF StopKill, StopMark, DropStop
  <2>7. CASE \/ \E s \in Terminals : OpenTerminal(s)
             \/ \E s \in SessionIds : DestroySession(s)
    BY <2>7 DEF OpenTerminal, DestroySession
  <2> QED BY <2>1, <2>2, <2>3, <2>4, <2>5, <2>6, <2>7 DEF PoolNext
<1> QED BY <1>1, PoolInvariant, PTL DEF PoolSpec, IdleByOwnRun

(***************************************************************************)
(* The pool implements AgentLifecycle.                                     *)
(***************************************************************************)
Served == {t \in Tasks : on[t] # NoAgent}

(* Every step of the pool is a step of the abstract agent state machine,   *)
(* or leaves the abstract state alone.                                     *)
LEMMA StepSimulation ==
    PoolInv /\ [PoolNext]_poolVars =>
        [Lifecycle!LifecycleNext]_(Lifecycle!lifecycleVars)
<1> SUFFICES ASSUME PoolInv, [PoolNext]_poolVars
             PROVE  Lifecycle!LifecycleNext \/ UNCHANGED <<status, current, Served>>
    BY DEF Lifecycle!lifecycleVars, Served
<1> USE PoolAssumption DEF PoolInv, PoolTypeOK
<1>0. ASSUME UNCHANGED <<status, current, on>>
      PROVE  UNCHANGED <<status, current, Served>>
  BY <1>0 DEF Served
<1>1. ASSUME NEW a \in Agents, Launch(a)
      PROVE  Lifecycle!Launched(a)
  BY <1>1 DEF Launch, Lifecycle!Launched
<1>2. ASSUME NEW t \in Tasks, NEW a \in Agents, StartTask(t, a)
      PROVE  Lifecycle!Begins(a, t)
  <2>1. Served' = Served \cup {t} /\ t \notin Served
    BY <1>2 DEF StartTask, InProgress, Served
  <2>2. Lifecycle!BusyAgents = Busy
    BY DEF Lifecycle!BusyAgents, Busy
  <2>3. Lifecycle!Cardinality(Busy) = Cardinality(Busy)
    BY DEF Lifecycle!Cardinality, Cardinality
  <2> QED BY <1>2, <2>1, <2>2, <2>3 DEF StartTask, CanStart, Lifecycle!Begins, Served
<1>3. ASSUME NEW t \in Tasks, CompleteTask(t)
      PROVE  \/ on[t] \in Agents /\ Lifecycle!Finishes(on[t])
             \/ UNCHANGED <<status, current, Served>>
  <2>1. on[t] \in Agents /\ UNCHANGED Served
    BY <1>3 DEF CompleteTask, HeldOrStopped, Live, Served
  <2>2. CASE status[on[t]] = "stopped"
    <3>1. current[on[t]] = NoTask
      BY <2>1, <2>2 DEF RecordsAgree
    <3> QED BY <1>3, <2>1, <2>2, <3>1 DEF CompleteTask
  <2>3. CASE status[on[t]] # "stopped"
    <3>1. status[on[t]] = "busy"
      BY <1>3, <2>1, <2>3 DEF CompleteTask, HeldOrStopped, RecordsAgree, Live
    <3> QED BY <1>3, <2>1, <3>1 DEF CompleteTask, Lifecycle!Finishes, Served
  <2> QED BY <2>2, <2>3
<1>4. ASSUME NEW p \in Stoppers, StopMark(p)
      PROVE  Lifecycle!Stopped(stops[p].agent) /\ stops[p].agent \in Agents
  BY <1>4 DEF StopMark, InProgress, Lifecycle!Stopped, Served
<1>5. CASE \E t \in Tasks, a \in Agents : StartRefused(t, a)
  BY <1>0, <1>5 DEF StartRefused
<1>6. CASE \E t \in Tasks : StartUnknown(t) \/ FindSession(t) \/ FreeSession(t) \/ DropRun(t)
  BY <1>0, <1>6 DEF StartUnknown, FindSession, FreeSession, DropRun
<1>7. CASE \E p \in Stoppers, a \in Agents : StopRead(p, a)
  BY <1>0, <1>7 DEF StopRead
<1>8. CASE \E p \in Stoppers : StopKill(p) \/ DropStop(p)
  BY <1>0, <1>8 DEF StopKill, DropStop
<1>9. CASE \/ \E s \in Terminals : OpenTerminal(s)
           \/ \E s \in SessionIds : DestroySession(s)
  BY <1>0, <1>9 DEF OpenTerminal, DestroySession
<1>10. CASE UNCHANGED poolVars
  BY <1>0, <1>10 DEF poolVars
<1> QED
  BY <1>1, <1>2, <1>3, <1>4, <1>5, <1>6, <1>7, <1>8, <1>9, <1>10, Zenon
  DEF PoolNext, Lifecycle!LifecycleNext

(* The pool, with its sessions, its split stop and its dropped futures,    *)
(* implements the documented agent state machine.                          *)
THEOREM PoolImplementsLifecycle == PoolSpec => ImplementsLifecycle
<1>1. PoolInit => Lifecycle!LifecycleInit
  BY DEF PoolInit, Lifecycle!LifecycleInit
<1>2. PoolInv /\ [PoolNext]_poolVars => [Lifecycle!LifecycleNext]_(Lifecycle!lifecycleVars)
  BY StepSimulation
<1> QED
  BY <1>1, <1>2, PoolInvariant, PTL DEF PoolSpec, ImplementsLifecycle, Lifecycle!LifecycleSpec
================================================================================
