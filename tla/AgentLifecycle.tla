---------------------------- MODULE AgentLifecycle ----------------------------
(***************************************************************************)
(* What the orchestrator promises of its managed agents, without sessions, *)
(* locks or stop requests: an agent is launched once, serves one task at a *)
(* time, is stopped for good, and never more than MaxBusy agents serve at  *)
(* the same moment.  A task is served at most once.                        *)
(***************************************************************************)
EXTENDS Naturals, FiniteSets

CONSTANTS
    Agents,     \* identities an agent can be launched under
    Tasks,      \* identities a task can be created under
    MaxBusy,    \* ContainerBudget.max_concurrent_busy
    NoTask      \* an agent that serves nothing

VARIABLES
    status,     \* Agents -> AgentStatus ("absent": not launched)
    current,    \* Agents -> the task_id of Busy, or NoTask
    served      \* the tasks some agent has begun

lifecycleVars == <<status, current, served>>

AgentStatus == {"absent", "idle", "busy", "stopped"}

BusyAgents == {a \in Agents : status[a] = "busy"}

LifecycleInit ==
    /\ status = [a \in Agents |-> "absent"]
    /\ current = [a \in Agents |-> NoTask]
    /\ served = {}

Launched(a) ==
    /\ status[a] = "absent"
    /\ status' = [status EXCEPT ![a] = "idle"]
    /\ UNCHANGED <<current, served>>

Begins(a, t) ==
    /\ status[a] = "idle"
    /\ t \notin served
    /\ Cardinality(BusyAgents) < MaxBusy
    /\ status' = [status EXCEPT ![a] = "busy"]
    /\ current' = [current EXCEPT ![a] = t]
    /\ served' = served \cup {t}

Finishes(a) ==
    /\ status[a] = "busy"
    /\ status' = [status EXCEPT ![a] = "idle"]
    /\ current' = [current EXCEPT ![a] = NoTask]
    /\ UNCHANGED served

Stopped(a) ==
    /\ status[a] # "absent"
    /\ status' = [status EXCEPT ![a] = "stopped"]
    /\ current' = [current EXCEPT ![a] = NoTask]
    /\ UNCHANGED served

LifecycleNext ==
    \E a \in Agents :
        \/ Launched(a)
        \/ \E t \in Tasks : Begins(a, t)
        \/ Finishes(a)
        \/ Stopped(a)

LifecycleSpec == LifecycleInit /\ [][LifecycleNext]_lifecycleVars
===============================================================================
