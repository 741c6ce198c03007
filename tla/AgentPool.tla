------------------------------- MODULE AgentPool -------------------------------
(***************************************************************************)
(* orchestrator/agent_pool.rs: the PTY agents of one orchestrator.  Every  *)
(* operation that holds the agents mutex throughout is one action; stop    *)
(* takes the mutex twice and kills the session in between, so it is three. *)
(*                                                                         *)
(* A task run calls start_task, looks its session up, collects the output, *)
(* destroys the session and calls complete_task.  Its future may be        *)
(* dropped at any await (JoinHandle::abort, or the HTTP request that       *)
(* awaits it goes away): the run then simply stops, wherever it is.        *)
(*                                                                         *)
(* The PtyManager is shared with the dashboard, whose terminals take up    *)
(* slots and whose DELETE handler destroys any session.  The PTY session a *)
(* task creates is named after the task.                                   *)
(***************************************************************************)
EXTENDS Naturals, FiniteSets

CONSTANTS
    Agents,       \* agent ids launch can hand out
    Tasks,        \* task ids of the runs
    Stoppers,     \* concurrent stop requests
    Terminals,    \* PTY sessions of other clients of the PtyManager
    MaxAgents,    \* min(budget.max_agents, MAX_MANAGED_AGENTS)
    MaxBusy,      \* budget.max_concurrent_busy
    MaxSessions,  \* PtyManager.max_sessions
    NoTask,
    NoAgent

ASSUME PoolAssumption ==
    /\ IsFiniteSet(Agents)
    /\ MaxAgents \in Nat /\ MaxBusy \in Nat /\ MaxSessions \in Nat
    /\ NoTask \notin Tasks
    /\ NoAgent \notin Agents
    /\ Tasks \cap Terminals = {}

VARIABLES
    status,     \* ManagedAgent.status, "absent" when the id is not in the map
    current,    \* the task_id inside AgentStatus::Busy
    session,    \* ManagedAgent.pty_session_id
    ptys,       \* keys of PtyManager.sessions
    phase,      \* how far a run has come with its TaskExecution
    on,         \* TaskExecution.agent_id
    stops       \* the stop requests in progress

poolVars == <<status, current, session, ptys, phase, on, stops>>

AgentStatus == {"absent", "idle", "busy", "stopped"}

(* "new" has no execution yet, "started" holds one whose session has not   *)
(* been looked up, "collecting" reads output, "freed" has destroyed its    *)
(* session; "over" ended (completed or refused), "lost" was dropped.       *)
Phase == {"new", "started", "collecting", "freed", "over", "lost"}

Live == {"started", "collecting", "freed"}

SessionIds == Tasks \cup Terminals

StopState == [pc : {"idle", "kill", "mark"}, agent : Agents \cup {NoAgent},
              sid : Tasks \cup {NoTask}]

Resting == [pc |-> "idle", agent |-> NoAgent, sid |-> NoTask]

PoolTypeOK ==
    /\ status \in [Agents -> AgentStatus]
    /\ current \in [Agents -> Tasks \cup {NoTask}]
    /\ session \in [Agents -> Tasks \cup {NoTask}]
    /\ ptys \subseteq SessionIds
    /\ phase \in [Tasks -> Phase]
    /\ on \in [Tasks -> Agents \cup {NoAgent}]
    /\ stops \in [Stoppers -> StopState]

PoolInit ==
    /\ status = [a \in Agents |-> "absent"]
    /\ current = [a \in Agents |-> NoTask]
    /\ session = [a \in Agents |-> NoTask]
    /\ ptys = {}
    /\ phase = [t \in Tasks |-> "new"]
    /\ on = [t \in Tasks |-> NoAgent]
    /\ stops = [p \in Stoppers |-> Resting]

Managed == {a \in Agents : status[a] # "absent"}
Busy == {a \in Agents : status[a] = "busy"}

(***************************************************************************)
(* AgentPool::launch.                                                      *)
(***************************************************************************)
Launch(a) ==
    /\ status[a] = "absent"
    /\ Cardinality(Managed) < MaxAgents
    /\ status' = [status EXCEPT ![a] = "idle"]
    /\ UNCHANGED <<current, session, ptys, phase, on, stops>>

(***************************************************************************)
(* PtyManager::reap_idle_sessions_if_needed: sessions left untouched for   *)
(* longer than the governor's timeout go: the ones that have ended, and    *)
(* the Active ones too when the map is full.  Which sessions are quiet and *)
(* which have ended is the environment's choice here, so any set may go.   *)
(***************************************************************************)
Reapable == SUBSET ptys

(* Mutation of CanStart: the busy limit is not tested.                     *)
CanStartUnlimited(a) == status[a] = "idle"

(***************************************************************************)
(* AgentPool::start_task, under the agents mutex throughout.               *)
(***************************************************************************)
CanStart(a) ==
    /\ status[a] = "idle"
    /\ Cardinality(Busy) < MaxBusy

StartTask(t, a) ==
    /\ phase[t] = "new"
    /\ CanStart(a)
    /\ \E quiet \in Reapable :
        /\ Cardinality(ptys \ quiet) < MaxSessions
        /\ ptys' = (ptys \ quiet) \cup {t}
    /\ status' = [status EXCEPT ![a] = "busy"]
    /\ current' = [current EXCEPT ![a] = t]
    /\ session' = [session EXCEPT ![a] = t]
    /\ phase' = [phase EXCEPT ![t] = "started"]
    /\ on' = [on EXCEPT ![t] = a]
    /\ UNCHANGED stops

(* start_task returns an error: the agent is unknown, stopped or busy, the *)
(* busy limit is reached, or the PTY could not be opened or spawned (the   *)
(* reaper has run by then).                                                *)
StartRefused(t, a) ==
    /\ phase[t] = "new"
    /\ \/ ~CanStart(a) /\ UNCHANGED ptys
       \/ CanStart(a) /\ \E quiet \in Reapable : ptys' = ptys \ quiet
    /\ phase' = [phase EXCEPT ![t] = "over"]
    /\ UNCHANGED <<status, current, session, on, stops>>

(* start_task for an id that is not in the map.                            *)
StartUnknown(t) ==
    /\ phase[t] = "new"
    /\ phase' = [phase EXCEPT ![t] = "over"]
    /\ UNCHANGED <<status, current, session, ptys, on, stops>>

(***************************************************************************)
(* run_task: pty_session_by_id.  A session that is gone already makes the  *)
(* run return, without complete_task.                                      *)
(***************************************************************************)
FindSession(t) ==
    /\ phase[t] = "started"
    /\ phase' = [phase EXCEPT ![t] = IF t \in ptys THEN "collecting" ELSE "lost"]
    /\ UNCHANGED <<status, current, session, ptys, on, stops>>

(* Mutation of FreeSession: the agent is made Idle with its session, ahead *)
(* of complete_task.                                                       *)
FreeAndRelease(t) ==
    /\ phase[t] = "collecting"
    /\ ptys' = ptys \ {t}
    /\ status' = [status EXCEPT ![on[t]] = IF @ = "stopped" THEN @ ELSE "idle"]
    /\ phase' = [phase EXCEPT ![t] = "freed"]
    /\ UNCHANGED <<current, session, on, stops>>

(* run_task: destroy_pty_session, once the output has been collected.      *)
FreeSession(t) ==
    /\ phase[t] = "collecting"
    /\ ptys' = ptys \ {t}
    /\ phase' = [phase EXCEPT ![t] = "freed"]
    /\ UNCHANGED <<status, current, session, on, stops>>

(* Mutation of CompleteTask: Stopped is overwritten.                       *)
CompleteAlwaysIdle(t) ==
    /\ phase[t] = "freed"
    /\ status' = [status EXCEPT ![on[t]] = "idle"]
    /\ current' = [current EXCEPT ![on[t]] = NoTask]
    /\ session' = [session EXCEPT ![on[t]] = NoTask]
    /\ phase' = [phase EXCEPT ![t] = "over"]
    /\ UNCHANGED <<ptys, on, stops>>

(***************************************************************************)
(* AgentPool::complete_task.                                               *)
(***************************************************************************)
CompleteTask(t) ==
    /\ phase[t] = "freed"
    /\ LET a == on[t] IN
        /\ status' = [status EXCEPT ![a] = IF @ = "stopped" THEN @ ELSE "idle"]
        /\ current' = [current EXCEPT ![a] = NoTask]
        /\ session' = [session EXCEPT ![a] = NoTask]
    /\ phase' = [phase EXCEPT ![t] = "over"]
    /\ UNCHANGED <<ptys, on, stops>>

(* The run's future is dropped at an await.                                *)
DropRun(t) ==
    /\ phase[t] \in Live
    /\ phase' = [phase EXCEPT ![t] = "lost"]
    /\ UNCHANGED <<status, current, session, ptys, on, stops>>

(***************************************************************************)
(* AgentPool::stop: read the session id and release the mutex; interrupt,  *)
(* wait for up to a second, terminate and destroy that session; take the   *)
(* mutex again and mark the agent.                                         *)
(***************************************************************************)
StopRead(p, a) ==
    /\ stops[p].pc = "idle"
    /\ status[a] # "absent"
    /\ stops' = [stops EXCEPT ![p] =
                    [pc |-> IF session[a] = NoTask THEN "mark" ELSE "kill",
                     agent |-> a, sid |-> session[a]]]
    /\ UNCHANGED <<status, current, session, ptys, phase, on>>

StopKill(p) ==
    /\ stops[p].pc = "kill"
    /\ ptys' = ptys \ {stops[p].sid}
    /\ stops' = [stops EXCEPT ![p].pc = "mark"]
    /\ UNCHANGED <<status, current, session, phase, on>>

(* Mutation of StopMark: the agent is left Idle, for its next task.        *)
StopLeavesIdle(p) ==
    /\ stops[p].pc = "mark"
    /\ status' = [status EXCEPT ![stops[p].agent] = "idle"]
    /\ current' = [current EXCEPT ![stops[p].agent] = NoTask]
    /\ session' = [session EXCEPT ![stops[p].agent] = NoTask]
    /\ stops' = [stops EXCEPT ![p] = Resting]
    /\ UNCHANGED <<ptys, phase, on>>

StopMark(p) ==
    /\ stops[p].pc = "mark"
    /\ LET a == stops[p].agent IN
        /\ status' = [status EXCEPT ![a] = "stopped"]
        /\ current' = [current EXCEPT ![a] = NoTask]
        /\ session' = [session EXCEPT ![a] = NoTask]
    /\ stops' = [stops EXCEPT ![p] = Resting]
    /\ UNCHANGED <<ptys, phase, on>>

(* The request that awaits stop goes away between two of its steps.        *)
DropStop(p) ==
    /\ stops[p].pc # "idle"
    /\ stops' = [stops EXCEPT ![p] = Resting]
    /\ UNCHANGED <<status, current, session, ptys, phase, on>>

(***************************************************************************)
(* Other clients of the PtyManager: the dashboard opens terminals and      *)
(* destroys sessions, its own or an agent's.                               *)
(***************************************************************************)
OpenTerminal(s) ==
    /\ s \notin ptys
    /\ \E quiet \in Reapable :
        /\ Cardinality(ptys \ quiet) < MaxSessions
        /\ ptys' = (ptys \ quiet) \cup {s}
    /\ UNCHANGED <<status, current, session, phase, on, stops>>

DestroySession(s) ==
    /\ s \in ptys
    /\ ptys' = ptys \ {s}
    /\ UNCHANGED <<status, current, session, phase, on, stops>>

PoolNext ==
    \/ \E a \in Agents : Launch(a)
    \/ \E t \in Tasks, a \in Agents : StartTask(t, a) \/ StartRefused(t, a)
    \/ \E t \in Tasks : StartUnknown(t)
    \/ \E t \in Tasks : FindSession(t) \/ FreeSession(t) \/ CompleteTask(t) \/ DropRun(t)
    \/ \E p \in Stoppers, a \in Agents : StopRead(p, a)
    \/ \E p \in Stoppers : StopKill(p) \/ StopMark(p) \/ DropStop(p)
    \/ \E s \in Terminals : OpenTerminal(s)
    \/ \E s \in SessionIds : DestroySession(s)

PoolSpec == PoolInit /\ [][PoolNext]_poolVars

--------------------------------------------------------------------------------
(***************************************************************************)
(* Properties.                                                             *)
(***************************************************************************)

(* The runs of pool tasks never keep more than max_concurrent_busy agents  *)
(* Busy, and the shared PtyManager never holds more than max_sessions.     *)
WithinBudget ==
    /\ Cardinality(Busy) <= MaxBusy
    /\ Cardinality(ptys) <= MaxSessions

(* Two runs never hold an execution on the same agent, not even when the   *)
(* agent was stopped, or its session killed, under the first one.          *)
OneRunPerAgent ==
    \A t, u \in Tasks :
        /\ phase[t] \in Live
        /\ phase[u] \in Live
        /\ on[t] = on[u]
        => t = u

(* The three fields that say what an agent does agree between any two      *)
(* critical sections: an agent records a session exactly while it is Busy, *)
(* and it is the session of the task it is Busy with; that task's run      *)
(* is the one that was started on this agent, and it is still going unless *)
(* it was dropped.                                                         *)
RecordsAgree ==
    \A a \in Agents :
        /\ session[a] = current[a]
        /\ (status[a] = "busy") <=> (current[a] # NoTask)
        /\ current[a] # NoTask =>
            /\ on[current[a]] = a
            /\ phase[current[a]] \in Live \cup {"lost"}

(* A run that holds an execution finds its agent Busy with it until the    *)
(* agent is stopped: nobody else's complete_task releases it.              *)
HeldOrStopped ==
    \A t \in Tasks :
        phase[t] \in Live =>
            /\ on[t] \in Agents
            /\ current[on[t]] = t \/ status[on[t]] = "stopped"

(* A PTY session an agent's task opened is gone once its run is over: only *)
(* a dropped run leaves its session behind.                                *)
SessionsOwned ==
    \A t \in Tasks : t \in ptys => phase[t] \in {"started", "collecting", "lost"}

(* What the invariants above need of the requests and runs in progress: a  *)
(* run without execution has no agent, a run with one has, and a stop      *)
(* request names a launched agent.                                         *)
InProgress ==
    /\ \A t \in Tasks : phase[t] = "new" => on[t] = NoAgent
    /\ \A p \in Stoppers : stops[p].pc # "idle" =>
        stops[p].agent \in Agents /\ status[stops[p].agent] # "absent"

(* The conjunction that every critical section of the pool preserves.      *)
PoolInv ==
    /\ PoolTypeOK
    /\ RecordsAgree
    /\ HeldOrStopped
    /\ OneRunPerAgent
    /\ SessionsOwned
    /\ InProgress

(* stop is final: neither complete_task of the interrupted run nor a       *)
(* start_task waiting for the mutex makes a stopped agent Idle or Busy.    *)
StoppedForGood ==
    [][\A a \in Agents : status[a] = "stopped" => status'[a] = "stopped"]_poolVars

(* An agent becomes Idle again only in the step in which the run it was    *)
(* Busy with returns its execution.                                        *)
IdleByOwnRun ==
    [][\A a \in Agents :
         status[a] = "busy" /\ status'[a] = "idle" =>
            phase[current[a]] = "freed" /\ phase'[current[a]] = "over"]_poolVars

(* The abstract view of the pool: tasks that ever got an execution.        *)
Lifecycle == INSTANCE AgentLifecycle WITH served <- {t \in Tasks : on[t] # NoAgent}

(* The pool implements the agent state machine: every critical section is  *)
(* a launch, a begin, a finish or a stop of the abstract agent, or changes *)
(* nothing that the abstract agent has.                                    *)
ImplementsLifecycle == Lifecycle!LifecycleSpec
================================================================================
