------------------------------ MODULE Orchestrator ------------------------------
(***************************************************************************)
(* orchestrator/mod.rs: tasks run on PTY agents (AgentPool), on container  *)
(* agents and on remote peers, pipes start follow-up tasks (TaskGraph),    *)
(* and stop requests cancel what is in flight.                             *)
(*                                                                         *)
(* The shared maps (tasks, graph, background_runs, container_agents,       *)
(* container_sessions, the pool) have a mutex each and no operation holds  *)
(* two of them, so a step of this model is one critical section; a write   *)
(* to tasks and the graph upsert that follows it at once are one step (the *)
(* node of a task is written by the task's own run and its status is read  *)
(* by nobody).  Memory turns and the trace are not modelled here.          *)
(*                                                                         *)
(* A run is identified with its task.  A run started by send_task without  *)
(* wait, or by schedule_task, is a tokio task of its own; one that a       *)
(* request awaits lives in the request's future; the run of a follow-up    *)
(* task lives in the future of the run that created it.  root names the    *)
(* outermost run: dropping its future drops the whole chain.               *)
(***************************************************************************)
EXTENDS AgentPool, Sequences

CONSTANTS
    CtrAgents,     \* ids of container agents
    Peers,         \* remote agent references "peer:<id>/<agent>"
    Roots,         \* task ids for send_task and schedule_task
    Pipers,        \* concurrent pipe requests
    SendModes,     \* the kinds of send requests: "wait", "spawn", "schedule"
    StopModes,     \* the kinds of stop requests: "keep", "force", "purge"
    Disconnects,   \* may a client go away while a request of it is awaited?
    Days,          \* may a day pass?
    MaxRetained    \* MAX_TASKS_RETAINED

ASSUME OrchestratorAssumption ==
    /\ Roots \subseteq Tasks
    /\ NoAgent \notin CtrAgents \cup Peers
    /\ SendModes \subseteq {"wait", "spawn", "schedule"}
    /\ StopModes \subseteq {"keep", "force", "purge"}
    /\ Disconnects \in BOOLEAN /\ Days \in BOOLEAN
    /\ MaxRetained \in Nat

VARIABLES
    nodeStatus, nodeAgent, edges,   \* OrchestratorInner.graph (TaskGraph)
    tasks,         \* OrchestratorInner.tasks: the status, "absent" if there is no entry
    doneAt,        \* Task.completed_at: unset, within the last day, or older
    run,           \* where each run is
    kind,          \* who holds the run's future
    root,          \* the outermost run of the chain
    waits,         \* the follow-up a run is creating or awaiting
    todo,          \* the follow-up targets a run has not served yet
    seen,          \* pty_busy_count as run_container_task read it
    bg,            \* keys of background_runs
    unreg,         \* spawned runs whose JoinHandle is not in background_runs yet
    aborting,      \* runs whose handle was aborted and that have not stopped yet
    ctr,           \* container_agents: the status, "absent" if there is no entry
    ctrSession,    \* container_sessions: lock_state, "none" if there is no entry
    box,           \* the container itself, behind ContainerDispatch
    launching,     \* the launch request of each container agent
    prompts,       \* prompts a container was given and has not ended, awaited or not
    orders,        \* stop_agent requests
    pipes          \* pipe requests

graphVars == <<nodeStatus, nodeAgent, edges>>
runVars == <<run, kind, root, waits, todo, seen>>
handleVars == <<bg, unreg, aborting>>
taskVars == <<tasks, doneAt>>
ctrVars == <<ctr, ctrSession, box, launching, prompts>>

vars == <<poolVars, graphVars, runVars, handleVars, taskVars, ctrVars, orders, pipes>>

AllAgents == Agents \cup CtrAgents \cup Peers

TaskStatus == {"pending", "running", "complete", "failed", "timeout"}
Terminal == {"complete", "failed", "timeout"}

Graph == INSTANCE TaskGraph WITH AgentIds <- AllAgents, TaskIds <- Tasks,
                                 Statuses <- TaskStatus

RunPc ==
    {"none", "sleep", "begin", "mark", "remark", "route",           \* run_task
     "start", "exec", "free", "release",                            \* on a PTY agent
     "session", "count", "claim", "prompt", "settle",               \* run_container_task
     "remote",                                                      \* send_remote_peer_task
     "followups", "next", "label", "nested",                        \* pipes out of the task
     "clear", "prune", "over", "dropped"}

Active(t) == run[t] \notin {"none", "over", "dropped"}

CtrBusy == {c \in CtrAgents : ctr[c] = "busy"}
CtrManaged == {c \in CtrAgents : ctr[c] # "absent"}

Order == [pc : {"new", "collect", "abort", "fail", "pool", "stopping", "session", "deinit",
                "destroy", "unmap", "forget", "settle", "mark", "over",
                "deinitLate", "destroyLate", "gone"},
          agent : AllAgents \cup {NoAgent}, mode : {"keep", "force", "purge"},
          container : BOOLEAN, ids : SUBSET Tasks]

Pipe == [pc : {"new", "link", "spawn", "await", "over"}, source : Tasks \cup {NoTask},
         target : AllAgents \cup {NoAgent}, ready : BOOLEAN, task : Tasks \cup {NoTask}]

LaunchPc == {"new", "counted", "provision", "initialize", "register", "attach", "over"}

TypeOK ==
    /\ PoolTypeOK
    /\ Graph!GraphTypeOK
    /\ tasks \in [Tasks -> TaskStatus \cup {"absent"}]
    /\ doneAt \in [Tasks -> {"unset", "today", "earlier"}]
    /\ run \in [Tasks -> RunPc]
    /\ kind \in [Tasks -> {"none", "request", "spawned", "scheduled", "followup"}]
    /\ root \in [Tasks -> Tasks \cup {NoTask}]
    /\ waits \in [Tasks -> Tasks \cup {NoTask}]
    /\ todo \in [Tasks -> Seq(AllAgents)]
    /\ seen \in [Tasks -> Nat]
    /\ bg \subseteq Tasks /\ unreg \subseteq Tasks /\ aborting \subseteq Tasks
    /\ ctr \in [CtrAgents -> AgentStatus]
    /\ ctrSession \in [CtrAgents -> {"none", "locked", "empty"}]
    /\ box \in [CtrAgents -> {"none", "empty", "locked", "destroyed"}]
    /\ launching \in [CtrAgents -> [pc : LaunchPc, seen : Nat]]
    /\ prompts \subseteq Tasks
    /\ orders \in [Stoppers -> Order]
    /\ pipes \in [Pipers -> Pipe]

Init ==
    /\ PoolInit
    /\ Graph!GraphInit
    /\ tasks = [t \in Tasks |-> "absent"]
    /\ doneAt = [t \in Tasks |-> "unset"]
    /\ run = [t \in Tasks |-> "none"]
    /\ kind = [t \in Tasks |-> "none"]
    /\ root = [t \in Tasks |-> NoTask]
    /\ waits = [t \in Tasks |-> NoTask]
    /\ todo = [t \in Tasks |-> <<>>]
    /\ seen = [t \in Tasks |-> 0]
    /\ bg = {} /\ unreg = {} /\ aborting = {}
    /\ ctr = [c \in CtrAgents |-> "absent"]
    /\ ctrSession = [c \in CtrAgents |-> "none"]
    /\ box = [c \in CtrAgents |-> "none"]
    /\ launching = [c \in CtrAgents |-> [pc |-> "new", seen |-> 0]]
    /\ prompts = {}
    /\ orders = [p \in Stoppers |-> [pc |-> "new", agent |-> NoAgent, mode |-> "keep",
                                     container |-> FALSE, ids |-> {}]]
    /\ pipes = [q \in Pipers |-> [pc |-> "new", source |-> NoTask, target |-> NoAgent,
                                  ready |-> FALSE, task |-> NoTask]]

(***************************************************************************)
(* Steps shared by several operations.                                     *)
(***************************************************************************)

Goto(t, pc) == run' = [run EXCEPT ![t] = pc]

(* create_task and create_scheduled_task, with the run that is to follow.  *)
Create(t, a, st, k, r, pc) ==
    /\ tasks' = [tasks EXCEPT ![t] = st]
    /\ Graph!UpsertNode(t, a, st)
    /\ run' = [run EXCEPT ![t] = pc]
    /\ kind' = [kind EXCEPT ![t] = k]
    /\ root' = [root EXCEPT ![t] = r]

(* mark_complete, mark_failed or mark_timeout on the run's own copy of the *)
(* task, which then replaces whatever tasks holds by now.                  *)
Finish(t, st) ==
    /\ tasks' = [tasks EXCEPT ![t] = st]
    /\ doneAt' = [doneAt EXCEPT ![t] = "today"]
    /\ Graph!UpsertNode(t, nodeAgent[t], st)

(* Mutation of AfterRelease: the follow-ups of any finished task are run.  *)
AlwaysFollowups(t) == "followups"

(* The status of the run's own copy is the one it last put in the graph.   *)
AfterRelease(t) == IF nodeStatus[t] = "complete" THEN "followups" ELSE "clear"

(***************************************************************************)
(* prune_tasks: entries completed more than a day ago go; above the limit  *)
(* the ones with the smallest timestamp go, first of all those that have   *)
(* none because they have not started.  Which of the others is older is    *)
(* left open.                                                              *)
(***************************************************************************)
Evictions(S) ==
    LET excess == IF Cardinality(S) <= MaxRetained THEN 0 ELSE Cardinality(S) - MaxRetained
        undated == {t \in S : tasks[t] = "pending" /\ doneAt[t] = "unset"}
    IN  {E \in SUBSET S : Cardinality(E) = excess /\ (E \subseteq undated \/ undated \subseteq E)}

Prune ==
    LET kept == {t \in Tasks : tasks[t] # "absent" /\ doneAt[t] # "earlier"}
    IN  \E E \in Evictions(kept) :
            /\ tasks' = [t \in Tasks |-> IF t \in kept \ E THEN tasks[t] ELSE "absent"]
            /\ doneAt' = [t \in Tasks |-> IF t \in kept \ E THEN doneAt[t] ELSE "unset"]

(***************************************************************************)
(* send_task and schedule_task.                                            *)
(***************************************************************************)
SendTask(t, a) ==
    /\ run[t] = "none"
    /\ \/ /\ "wait" \in SendModes
          /\ Create(t, a, "running", "request", t, "begin")
          /\ UNCHANGED unreg
       \/ /\ "spawn" \in SendModes
          /\ Create(t, a, "running", "spawned", t, "begin")
          /\ unreg' = unreg \cup {t}
    /\ UNCHANGED <<poolVars, edges, waits, todo, seen, bg, aborting, doneAt, ctrVars, orders, pipes>>

ScheduleTask(t, a) ==
    /\ run[t] = "none"
    /\ "schedule" \in SendModes
    /\ Create(t, a, "pending", "scheduled", t, "sleep")
    /\ unreg' = unreg \cup {t}
    /\ UNCHANGED <<poolVars, edges, waits, todo, seen, bg, aborting, doneAt, ctrVars, orders, pipes>>

(* The caller puts the JoinHandle into background_runs; send_task takes it *)
(* out again if the run has finished meanwhile, schedule_task does not.  A *)
(* client that goes away before that takes the handle with it: the run is  *)
(* detached, goes on, and cannot be aborted.                               *)
RegisterHandle(t) ==
    /\ t \in unreg
    /\ unreg' = unreg \ {t}
    /\ \/ bg' = IF Active(t) \/ kind[t] = "scheduled" THEN bg \cup {t} ELSE bg
       \/ Disconnects /\ UNCHANGED bg
    /\ UNCHANGED <<poolVars, graphVars, runVars, aborting, taskVars, ctrVars, orders, pipes>>

(***************************************************************************)
(* send_remote_peer_task: an error before the call leaves the task as it   *)
(* was created.                                                            *)
(***************************************************************************)
SendRemote(t, a) ==
    /\ run[t] = "none"
    /\ Create(t, a, "running", "request", t, "remote")
    /\ UNCHANGED <<poolVars, edges, waits, todo, seen, handleVars, doneAt, ctrVars, orders, pipes>>

RemoteCall(t) ==
    /\ run[t] = "remote"
    /\ \/ \E st \in Terminal : Finish(t, st) /\ Goto(t, "prune")
       \/ Goto(t, "over") /\ UNCHANGED <<taskVars, nodeStatus, nodeAgent>>
    /\ UNCHANGED <<poolVars, edges, kind, root, waits, todo, seen, handleVars, ctrVars, orders, pipes>>

(***************************************************************************)
(* run_task up to the choice of the agent's kind.  get_task takes a copy;  *)
(* mark_task_running_if_needed writes the copy back, as Running, unless    *)
(* the copy says so already.  "mark" holds a copy that was pending,        *)
(* "remark" one that had a terminal status and its completed_at.           *)
(***************************************************************************)
WakeUp(t) ==
    /\ run[t] = "sleep"
    /\ t \notin aborting
    /\ Goto(t, "begin")
    /\ UNCHANGED <<poolVars, graphVars, kind, root, waits, todo, seen, handleVars, taskVars, ctrVars,
                   orders, pipes>>

Begin(t) ==
    /\ run[t] = "begin"
    /\ Goto(t, CASE tasks[t] = "absent"  -> "over"
                 [] tasks[t] = "running" -> "route"
                 [] tasks[t] = "pending" -> "mark"
                 [] OTHER                -> "remark")
    /\ UNCHANGED <<poolVars, graphVars, kind, root, waits, todo, seen, handleVars, taskVars, ctrVars,
                   orders, pipes>>

MarkRunning(t) ==
    /\ run[t] \in {"mark", "remark"}
    /\ tasks' = [tasks EXCEPT ![t] = "running"]
    /\ doneAt' = [doneAt EXCEPT ![t] = IF run[t] = "mark" THEN "unset"
                                       ELSE IF @ = "unset" THEN "today" ELSE @]
    /\ Graph!UpsertNode(t, nodeAgent[t], "running")
    /\ Goto(t, "route")
    /\ UNCHANGED <<poolVars, edges, kind, root, waits, todo, seen, handleVars, ctrVars, orders, pipes>>

Route(t) ==
    /\ run[t] = "route"
    /\ Goto(t, IF nodeAgent[t] \in CtrManaged THEN "session" ELSE "start")
    /\ UNCHANGED <<poolVars, graphVars, kind, root, waits, todo, seen, handleVars, taskVars, ctrVars,
                   orders, pipes>>

(***************************************************************************)
(* run_task on a PTY agent.  An error of start_task or of the session      *)
(* lookup ends the run at once: the task stays Running, its handle stays   *)
(* in background_runs.                                                     *)
(***************************************************************************)
StartOnPool(t) ==
    /\ run[t] = "start"
    /\ \/ /\ nodeAgent[t] \in Agents
          /\ StartTask(t, nodeAgent[t])
          /\ Goto(t, "exec")
       \/ /\ nodeAgent[t] \in Agents
          /\ StartRefused(t, nodeAgent[t])
          /\ Goto(t, "over")
       \/ /\ nodeAgent[t] \notin Agents
          /\ StartUnknown(t)
          /\ Goto(t, "over")
    /\ UNCHANGED <<graphVars, kind, root, waits, todo, seen, handleVars, taskVars, ctrVars, orders, pipes>>

LookUpSession(t) ==
    /\ run[t] = "exec"
    /\ FindSession(t)
    /\ Goto(t, IF t \in ptys THEN "exec" ELSE "over")
    /\ UNCHANGED <<graphVars, kind, root, waits, todo, seen, handleVars, taskVars, ctrVars, orders, pipes>>

(* Mutation of CollectOutput: an error returns at once, as the errors of   *)
(* start_task and of the lookup do.                                        *)
CollectOrReturn(t) ==
    /\ run[t] = "exec"
    /\ phase[t] = "collecting"
    /\ \E st \in Terminal : Finish(t, st) /\ Goto(t, IF st = "timeout" THEN "clear" ELSE "free")
    /\ UNCHANGED <<poolVars, edges, kind, root, waits, todo, seen, handleVars, ctrVars, orders, pipes>>

(* Mutation of CollectOutput: the status of a timed out task is kept.      *)
CollectUnrecorded(t) ==
    /\ run[t] = "exec"
    /\ phase[t] = "collecting"
    /\ \/ \E st \in Terminal \ {"timeout"} : Finish(t, st)
       \/ UNCHANGED <<taskVars, nodeStatus, nodeAgent>>
    /\ Goto(t, "free")
    /\ UNCHANGED <<poolVars, edges, kind, root, waits, todo, seen, handleVars, ctrVars, orders, pipes>>

(* collect_task_output returns: exit code zero, another exit code, an      *)
(* error or a timeout.  A session destroyed under the run reads as Done    *)
(* with exit code 0 or as killed, so any outcome is possible then as well. *)
CollectOutput(t) ==
    /\ run[t] = "exec"
    /\ phase[t] = "collecting"
    /\ \E st \in Terminal : Finish(t, st)
    /\ Goto(t, "free")
    /\ UNCHANGED <<poolVars, edges, kind, root, waits, todo, seen, handleVars, ctrVars, orders, pipes>>

(* Mutation of DestroyOwnSession: follow-ups start before complete_task.   *)
FollowupsBeforeRelease(t) ==
    /\ run[t] = "free"
    /\ FreeSession(t)
    /\ Goto(t, AfterRelease(t))
    /\ UNCHANGED <<graphVars, kind, root, waits, todo, seen, handleVars, taskVars, ctrVars, orders, pipes>>

DestroyOwnSession(t) ==
    /\ run[t] = "free"
    /\ FreeSession(t)
    /\ Goto(t, "release")
    /\ UNCHANGED <<graphVars, kind, root, waits, todo, seen, handleVars, taskVars, ctrVars, orders, pipes>>

ReleaseAgent(t) ==
    /\ run[t] = "release"
    /\ CompleteTask(t)
    /\ Goto(t, AfterRelease(t))
    /\ UNCHANGED <<graphVars, kind, root, waits, todo, seen, handleVars, taskVars, ctrVars, orders, pipes>>

(***************************************************************************)
(* run_container_task.  The pool's busy count is read before the lock on   *)
(* container_agents is taken; errors leave the task Running.               *)
(***************************************************************************)
ContainerSession(t) ==
    /\ run[t] = "session"
    /\ Goto(t, IF ctrSession[nodeAgent[t]] = "none" THEN "clear" ELSE "count")
    /\ UNCHANGED <<poolVars, graphVars, kind, root, waits, todo, seen, handleVars, taskVars, ctrVars,
                   orders, pipes>>

CountPoolBusy(t) ==
    /\ run[t] = "count"
    /\ seen' = [seen EXCEPT ![t] = Cardinality(Busy)]
    /\ Goto(t, "claim")
    /\ UNCHANGED <<poolVars, graphVars, kind, root, waits, todo, handleVars, taskVars, ctrVars, orders,
                   pipes>>

(* Mutation of ClaimContainer: only a stopped agent is refused.            *)
ClaimUnlessStopped(t) ==
    /\ run[t] = "claim"
    /\ LET free == ctr[nodeAgent[t]] \in {"idle", "busy"} IN
        /\ ctr' = [ctr EXCEPT ![nodeAgent[t]] = IF free THEN "busy" ELSE @]
        /\ Goto(t, IF free THEN "prompt" ELSE "clear")
        /\ prompts' = IF free THEN prompts \cup {t} ELSE prompts
    /\ UNCHANGED <<poolVars, graphVars, kind, root, waits, todo, seen, handleVars, taskVars, ctrSession,
                   box, launching, orders, pipes>>

(* A prompt counts as out from the claim on: send_prompt follows it.       *)
ClaimContainer(t) ==
    /\ run[t] = "claim"
    /\ LET c == nodeAgent[t] IN
        \/ /\ seen[t] + Cardinality(CtrBusy) < MaxBusy
           /\ ctr[c] = "idle"
           /\ ctr' = [ctr EXCEPT ![c] = "busy"]
           /\ Goto(t, "prompt")
           /\ prompts' = prompts \cup {t}
        \/ /\ seen[t] + Cardinality(CtrBusy) >= MaxBusy \/ ctr[c] # "idle"
           /\ Goto(t, "clear")
           /\ UNCHANGED <<ctr, prompts>>
    /\ UNCHANGED <<poolVars, graphVars, kind, root, waits, todo, seen, handleVars, taskVars, ctrSession,
                   box, launching, orders, pipes>>

(* Mutation of PromptContainer: a failed prompt returns at once.           *)
PromptOrReturn(t) ==
    /\ run[t] = "prompt"
    /\ \E st \in Terminal :
        /\ Finish(t, st)
        /\ Goto(t, IF st = "failed" THEN "clear" ELSE "settle")
        /\ prompts' = IF st = "complete" THEN prompts \ {t} ELSE prompts
    /\ UNCHANGED <<poolVars, edges, kind, root, waits, todo, seen, handleVars, ctr, ctrSession, box,
                   launching, orders, pipes>>

(* The await of send_prompt returns.  The prompt has ended if it was       *)
(* answered.  A timeout only drops the await: the blocking call goes on,   *)
(* and so does the prompt inside the container; an error may be that of    *)
(* the call (its own timeout, a broken connection) and says as little.     *)
PromptContainer(t) ==
    /\ run[t] = "prompt"
    /\ \E st \in Terminal :
        /\ Finish(t, st)
        /\ prompts' = IF st = "complete" THEN prompts \ {t} ELSE prompts
    /\ Goto(t, "settle")
    /\ UNCHANGED <<poolVars, edges, kind, root, waits, todo, seen, handleVars, ctr, ctrSession, box,
                   launching, orders, pipes>>

(* A prompt that nobody awaits any more comes to its end.                  *)
PromptEnds(t) ==
    /\ t \in prompts
    /\ run[t] # "prompt"
    /\ prompts' = prompts \ {t}
    /\ UNCHANGED <<poolVars, graphVars, runVars, handleVars, taskVars, ctr, ctrSession, box, launching,
                   orders, pipes>>

(* The agent becomes Idle, whatever its status is by now.                  *)
ReleaseContainer(t) ==
    /\ run[t] = "settle"
    /\ LET c == nodeAgent[t] IN
        ctr' = [ctr EXCEPT ![c] = IF @ = "absent" THEN @ ELSE "idle"]
    /\ Goto(t, AfterRelease(t))
    /\ UNCHANGED <<poolVars, graphVars, kind, root, waits, todo, seen, handleVars, taskVars, ctrSession,
                   box, launching, prompts, orders, pipes>>

(***************************************************************************)
(* The follow-ups of a completed task, created and run one after the other *)
(* inside its own run, and the end of the run.                             *)
(***************************************************************************)
CollectFollowups(t) ==
    /\ run[t] = "followups"
    /\ todo' = [todo EXCEPT ![t] = Graph!OutgoingFor(t)]
    /\ Goto(t, "next")
    /\ UNCHANGED <<poolVars, graphVars, kind, root, waits, seen, handleVars, taskVars, ctrVars, orders,
                   pipes>>

CreateFollowup(t, n) ==
    /\ run[t] = "next" /\ run[n] = "none" /\ n # t
    /\ todo[t] # <<>>
    /\ tasks' = [tasks EXCEPT ![n] = "running"]
    /\ Graph!UpsertNode(n, Head(todo[t]), "running")
    /\ run' = [run EXCEPT ![t] = "label", ![n] = "begin"]
    /\ kind' = [kind EXCEPT ![n] = "followup"]
    /\ root' = [root EXCEPT ![n] = root[t]]
    /\ waits' = [waits EXCEPT ![t] = n]
    /\ UNCHANGED <<poolVars, edges, todo, seen, handleVars, doneAt, ctrVars, orders, pipes>>

LabelEdge(t) ==
    /\ run[t] = "label"
    /\ Graph!SetGenerated(t, Head(todo[t]), waits[t])
    /\ todo' = [todo EXCEPT ![t] = Tail(@)]
    /\ Goto(t, "nested")
    /\ UNCHANGED <<poolVars, nodeStatus, nodeAgent, kind, root, waits, seen, handleVars, taskVars,
                   ctrVars, orders, pipes>>

(* Mutation of FollowupReturned: a follow-up is awaited until it succeeds. *)
FollowupSucceeded(t) ==
    /\ run[t] = "nested"
    /\ run[waits[t]] = "over"
    /\ nodeStatus[waits[t]] = "complete"
    /\ Goto(t, "next")
    /\ waits' = [waits EXCEPT ![t] = NoTask]
    /\ UNCHANGED <<poolVars, graphVars, kind, root, todo, seen, handleVars, taskVars, ctrVars, orders,
                   pipes>>

(* Mutation of FollowupReturned: the edges are read again after each one.  *)
FollowupReread(t) ==
    /\ run[t] = "nested"
    /\ run[waits[t]] = "over"
    /\ Goto(t, "followups")
    /\ waits' = [waits EXCEPT ![t] = NoTask]
    /\ UNCHANGED <<poolVars, graphVars, kind, root, todo, seen, handleVars, taskVars, ctrVars, orders,
                   pipes>>

FollowupReturned(t) ==
    /\ run[t] = "nested"
    /\ run[waits[t]] = "over"
    /\ Goto(t, "next")
    /\ waits' = [waits EXCEPT ![t] = NoTask]
    /\ UNCHANGED <<poolVars, graphVars, kind, root, todo, seen, handleVars, taskVars, ctrVars, orders,
                   pipes>>

FollowupsDone(t) ==
    /\ run[t] = "next"
    /\ todo[t] = <<>>
    /\ Goto(t, "clear")
    /\ UNCHANGED <<poolVars, graphVars, kind, root, waits, todo, seen, handleVars, taskVars, ctrVars,
                   orders, pipes>>

ClearBackgroundRun(t) ==
    /\ run[t] = "clear"
    /\ bg' = bg \ {t}
    /\ Goto(t, "prune")
    /\ UNCHANGED <<poolVars, graphVars, kind, root, waits, todo, seen, unreg, aborting, taskVars,
                   ctrVars, orders, pipes>>

PruneAndReturn(t) ==
    /\ run[t] = "prune"
    /\ Prune
    /\ Goto(t, "over")
    /\ UNCHANGED <<poolVars, graphVars, kind, root, waits, todo, seen, handleVars, ctrVars, orders, pipes>>

(* list_tasks prunes as well.                                              *)
ListTasks ==
    /\ Prune
    /\ UNCHANGED <<poolVars, graphVars, runVars, handleVars, ctrVars, orders, pipes>>

DayPasses ==
    /\ Days
    /\ doneAt' = [t \in Tasks |-> IF doneAt[t] = "today" THEN "earlier" ELSE doneAt[t]]
    /\ UNCHANGED <<poolVars, graphVars, runVars, handleVars, tasks, ctrVars, orders, pipes>>

(* Mutation of DropChain: a drop guard makes the agent Idle.               *)
DropReleases(r) ==
    LET gone == {t \in Tasks : root[t] = r /\ Active(t)}
        left == {on[t] : t \in {u \in gone : phase[u] \in Live}}
    IN
    /\ run' = [t \in Tasks |-> IF t \in gone THEN "dropped" ELSE run[t]]
    /\ phase' = [t \in Tasks |-> IF t \in gone /\ phase[t] \in Live THEN "lost" ELSE phase[t]]
    /\ status' = [a \in Agents |-> IF a \in left THEN "idle" ELSE status[a]]
    /\ UNCHANGED <<current, session, ptys, on, stops>>

(* Mutation of DropChain: follow-ups are tasks of their own and go on.     *)
DropRootOnly(r) ==
    /\ run' = [run EXCEPT ![r] = "dropped"]
    /\ phase' = [phase EXCEPT ![r] = IF @ \in Live THEN "lost" ELSE @]
    /\ UNCHANGED <<status, current, session, ptys, on, stops>>

(***************************************************************************)
(* The future of a root run is dropped, and with it the follow-up it       *)
(* awaits: by an abort, which takes effect when the run next yields, or by *)
(* a client that goes away.  A sleeping run has yielded; which of the      *)
(* other awaits yield and which are ready at once is left open.            *)
(***************************************************************************)
DropChain(r) ==
    LET gone == {t \in Tasks : root[t] = r /\ Active(t)} IN
    /\ run' = [t \in Tasks |-> IF t \in gone THEN "dropped" ELSE run[t]]
    /\ phase' = [t \in Tasks |-> IF t \in gone /\ phase[t] \in Live THEN "lost" ELSE phase[t]]
    /\ UNCHANGED <<status, current, session, ptys, on, stops>>

AbortTakesEffect(r) ==
    /\ r \in aborting
    /\ DropChain(r)
    /\ aborting' = aborting \ {r}
    /\ UNCHANGED <<graphVars, kind, root, waits, todo, seen, bg, unreg, taskVars, ctrVars, orders, pipes>>

Disconnect(r) ==
    /\ Disconnects
    /\ kind[r] = "request" /\ Active(r)
    /\ DropChain(r)
    /\ pipes' = [q \in Pipers |-> IF pipes[q].pc = "await" /\ pipes[q].task = r
                                   THEN [pipes[q] EXCEPT !.pc = "over"] ELSE pipes[q]]
    /\ UNCHANGED <<graphVars, kind, root, waits, todo, seen, handleVars, taskVars, ctrVars, orders>>

(***************************************************************************)
(* stop_agent: choose the kind of agent, then cancel_inflight_for_agent in *)
(* three critical sections.  The ids are collected once; what the later    *)
(* sections find under them may have moved on.                             *)
(***************************************************************************)
StopBegin(p, a, m) ==
    /\ orders[p].pc = "new"
    /\ m \in StopModes
    /\ orders' = [orders EXCEPT ![p] = [pc |-> "collect", agent |-> a, mode |-> m,
                                        container |-> a \in CtrManaged, ids |-> {}]]
    /\ UNCHANGED <<poolVars, graphVars, runVars, handleVars, taskVars, ctrVars, pipes>>

AfterCancel(p) == IF orders[p].container THEN "session" ELSE "pool"

StopCollect(p) ==
    /\ orders[p].pc = "collect"
    /\ LET inflight == {t \in Tasks : /\ tasks[t] \in {"running", "pending"}
                                      /\ nodeAgent[t] = orders[p].agent}
       IN  orders' = [orders EXCEPT ![p].ids = inflight,
                                    ![p].pc = IF inflight = {} THEN AfterCancel(p) ELSE "abort"]
    /\ UNCHANGED <<poolVars, graphVars, runVars, handleVars, taskVars, ctrVars, pipes>>

StopAbort(p) ==
    /\ orders[p].pc = "abort"
    /\ bg' = bg \ orders[p].ids
    /\ aborting' = aborting \cup {t \in bg \cap orders[p].ids : Active(t)}
    /\ orders' = [orders EXCEPT ![p].pc = "fail"]
    /\ UNCHANGED <<poolVars, graphVars, runVars, unreg, taskVars, ctrVars, pipes>>

(* Mutation of StopFail: the request returns as soon as a task it was to   *)
(* fail has gone from the list or has ended.                               *)
FailOrReturn(p) ==
    /\ orders[p].pc = "fail"
    /\ orders' = [orders EXCEPT ![p].pc =
                    IF \A t \in orders[p].ids : tasks[t] = "running" THEN AfterCancel(p) ELSE "over"]
    /\ UNCHANGED <<poolVars, graphVars, runVars, handleVars, taskVars, ctrVars, pipes>>

StopFail(p) ==
    /\ orders[p].pc = "fail"
    /\ LET found == {t \in orders[p].ids : tasks[t] # "absent"} IN
        /\ tasks' = [t \in Tasks |-> IF t \in found THEN "failed" ELSE tasks[t]]
        /\ doneAt' = [t \in Tasks |-> IF t \in found THEN "today" ELSE doneAt[t]]
    /\ orders' = [orders EXCEPT ![p].pc = AfterCancel(p)]
    /\ UNCHANGED <<poolVars, graphVars, runVars, handleVars, ctrVars, pipes>>

(* The rest of stop_agent for a PTY agent: AgentPool::stop.                *)
StopPool(p) ==
    LET a == orders[p].agent IN
    /\ \/ /\ orders[p].pc = "pool"
          /\ a \in Managed
          /\ StopRead(p, a)
          /\ orders' = [orders EXCEPT ![p].pc = "stopping"]
       \/ /\ orders[p].pc = "pool"
          /\ a \notin Managed
          /\ orders' = [orders EXCEPT ![p].pc = "over"]
          /\ UNCHANGED poolVars
       \/ /\ orders[p].pc = "stopping"
          /\ StopKill(p)
          /\ UNCHANGED orders
       \/ /\ orders[p].pc = "stopping"
          /\ StopMark(p)
          /\ orders' = [orders EXCEPT ![p].pc = "over"]
    /\ UNCHANGED <<graphVars, runVars, handleVars, taskVars, ctrVars, pipes>>

(* The rest of stop_agent for a container agent: deinitialize if it was    *)
(* locked, destroy if asked to, then drop or update the records.  Both     *)
(* calls can fail, and do when another stop has done it already.  An agent *)
(* keeps one session for its whole life, so the check that the metadata    *)
(* has not changed meanwhile always succeeds.                              *)
StopContainer(p) ==
    LET c == orders[p].agent
        Then(pc) == orders' = [orders EXCEPT ![p].pc = pc]
        AfterDeinit == IF orders[p].mode = "keep" THEN "settle" ELSE "destroy"
    IN
    /\ \/ /\ orders[p].pc = "session"
          /\ Then(CASE ctrSession[c] = "none"   -> "over"
                    [] ctrSession[c] = "locked" -> "deinit"
                    [] ctrSession[c] = "empty"  -> AfterDeinit)
          /\ UNCHANGED <<ctr, ctrSession, box>>
       \/ /\ orders[p].pc = "deinit"
          /\ box[c] = "locked"
          /\ box' = [box EXCEPT ![c] = "empty"]
          /\ Then(AfterDeinit)
          /\ UNCHANGED <<ctr, ctrSession>>
       \/ /\ orders[p].pc = "destroy"
          /\ box[c] # "destroyed"
          /\ box' = [box EXCEPT ![c] = "destroyed"]
          /\ Then(IF orders[p].mode = "purge" THEN "unmap" ELSE "settle")
          /\ UNCHANGED <<ctr, ctrSession>>
       \/ /\ orders[p].pc \in {"deinit", "destroy"}
          /\ Then("over")
          /\ UNCHANGED <<ctr, ctrSession, box>>
       \/ /\ orders[p].pc = "unmap"
          /\ ctrSession' = [ctrSession EXCEPT ![c] = "none"]
          /\ Then("forget")
          /\ UNCHANGED <<ctr, box>>
       \/ /\ orders[p].pc = "forget"
          /\ ctr' = [ctr EXCEPT ![c] = "absent"]
          /\ Then("over")
          /\ UNCHANGED <<ctrSession, box>>
       \/ /\ orders[p].pc = "settle"
          /\ ctrSession' = [ctrSession EXCEPT ![c] = IF @ = "none" THEN @ ELSE "empty"]
          /\ Then("mark")
          /\ UNCHANGED <<ctr, box>>
       \/ /\ orders[p].pc = "mark"
          /\ ctr' = [ctr EXCEPT ![c] = IF @ = "absent" THEN @ ELSE "stopped"]
          /\ Then("over")
          /\ UNCHANGED <<ctrSession, box>>
    /\ UNCHANGED <<poolVars, graphVars, runVars, handleVars, taskVars, launching, prompts, pipes>>

(***************************************************************************)
(* The client of a stop request goes away, and the request's future is     *)
(* dropped at the await it has come to.  What it has done stays done; a    *)
(* call to the container that has been made runs on a blocking thread and  *)
(* goes on, with nobody to act on its answer.                              *)
(***************************************************************************)
DropOrder(p) ==
    LET pc == orders[p].pc IN
    /\ Disconnects
    /\ pc \notin {"new", "over", "gone", "deinitLate", "destroyLate"}
    /\ IF pc = "stopping" THEN DropStop(p) ELSE UNCHANGED poolVars
    /\ orders' = [orders EXCEPT ![p].pc = CASE pc = "deinit"  -> "deinitLate"
                                             [] pc = "destroy" -> "destroyLate"
                                             [] OTHER          -> "gone"]
    /\ UNCHANGED <<graphVars, runVars, handleVars, taskVars, ctrVars, pipes>>

LateCall(p) ==
    LET c == orders[p].agent IN
    /\ orders[p].pc \in {"deinitLate", "destroyLate"}
    /\ \/ orders[p].pc = "deinitLate" /\ box[c] = "locked" /\ box' = [box EXCEPT ![c] = "empty"]
       \/ orders[p].pc = "destroyLate" /\ box' = [box EXCEPT ![c] = "destroyed"]
       \/ UNCHANGED box
    /\ orders' = [orders EXCEPT ![p].pc = "gone"]
    /\ UNCHANGED <<poolVars, graphVars, runVars, handleVars, taskVars, ctr, ctrSession, launching,
                   prompts, pipes>>

(***************************************************************************)
(* launch_agent.  launch_container_agent counts the pool, then the         *)
(* containers, provisions, initializes, and only then inserts the agent    *)
(* and, under another lock, its session.                                   *)
(***************************************************************************)
LaunchPty(a) ==
    /\ Launch(a)
    /\ UNCHANGED <<graphVars, runVars, handleVars, taskVars, ctrVars, orders, pipes>>

LaunchContainer(c) ==
    LET Then(pc) == launching' = [launching EXCEPT ![c].pc = pc] IN
    /\ \/ /\ launching[c].pc = "new"
          /\ launching' = [launching EXCEPT ![c] = [pc |-> "counted", seen |-> Cardinality(Managed)]]
          /\ UNCHANGED <<ctr, ctrSession, box>>
       \/ /\ launching[c].pc = "counted"
          /\ Then(IF launching[c].seen + Cardinality(CtrManaged) >= MaxAgents
                  THEN "over" ELSE "provision")
          /\ UNCHANGED <<ctr, ctrSession, box>>
       \/ /\ launching[c].pc = "provision"
          /\ box' = [box EXCEPT ![c] = "empty"]
          /\ Then("initialize")
          /\ UNCHANGED <<ctr, ctrSession>>
       \/ /\ launching[c].pc = "initialize"
          /\ box' = [box EXCEPT ![c] = "locked"]
          /\ Then("register")
          /\ UNCHANGED <<ctr, ctrSession>>
       \/ /\ launching[c].pc \in {"provision", "initialize"}
          /\ Then("over")
          /\ UNCHANGED <<ctr, ctrSession, box>>
       \/ /\ launching[c].pc = "register"
          /\ ctr' = [ctr EXCEPT ![c] = "idle"]
          /\ Then("attach")
          /\ UNCHANGED <<ctrSession, box>>
       \/ /\ launching[c].pc = "attach"
          /\ ctrSession' = [ctrSession EXCEPT ![c] = "locked"]
          /\ Then("over")
          /\ UNCHANGED <<ctr, box>>
    /\ UNCHANGED <<poolVars, graphVars, runVars, handleVars, taskVars, prompts, orders, pipes>>

(***************************************************************************)
(* pipe: a copy of the source task, the edge, and, if the copy says        *)
(* Complete, a follow-up that the request itself runs.                     *)
(***************************************************************************)
PipeRead(q, t, b) ==
    /\ pipes[q].pc = "new"
    /\ tasks[t] # "absent"
    /\ pipes' = [pipes EXCEPT ![q] = [pc |-> "link", source |-> t, target |-> b,
                                      ready |-> tasks[t] = "complete", task |-> NoTask]]
    /\ UNCHANGED <<poolVars, graphVars, runVars, handleVars, taskVars, ctrVars, orders>>

(* Mutation of PipeLink: the edge is pushed without add_edge's checks.     *)
PushEdge(q) ==
    /\ pipes[q].pc = "link"
    /\ edges' = Append(edges, Graph!NewEdge(pipes[q].source, pipes[q].target))
    /\ pipes' = [pipes EXCEPT ![q].pc = IF pipes[q].ready THEN "spawn" ELSE "over"]
    /\ UNCHANGED <<poolVars, nodeStatus, nodeAgent, runVars, handleVars, taskVars, ctrVars, orders>>

PipeLink(q) ==
    /\ pipes[q].pc = "link"
    /\ \/ /\ Graph!AddEdge(pipes[q].source, pipes[q].target)
          /\ pipes' = [pipes EXCEPT ![q].pc = IF pipes[q].ready THEN "spawn" ELSE "over"]
       \/ /\ ~Graph!CanAddEdge(pipes[q].source, pipes[q].target)
          /\ pipes' = [pipes EXCEPT ![q].pc = "over"]
          /\ UNCHANGED edges
    /\ UNCHANGED <<poolVars, nodeStatus, nodeAgent, runVars, handleVars, taskVars, ctrVars, orders>>

PipeSpawn(q, n) ==
    /\ pipes[q].pc = "spawn"
    /\ run[n] = "none"
    /\ Create(n, pipes[q].target, "running", "request", n, "begin")
    /\ pipes' = [pipes EXCEPT ![q].pc = "await", ![q].task = n]
    /\ UNCHANGED <<poolVars, edges, waits, todo, seen, handleVars, doneAt, ctrVars, orders>>

PipeRecord(q) ==
    /\ pipes[q].pc = "await"
    /\ run[pipes[q].task] = "over"
    /\ Graph!SetGenerated(pipes[q].source, pipes[q].target, pipes[q].task)
    /\ pipes' = [pipes EXCEPT ![q].pc = "over"]
    /\ UNCHANGED <<poolVars, nodeStatus, nodeAgent, runVars, handleVars, taskVars, ctrVars, orders>>

(* The client of a pipe request goes away while no run lives in it (while  *)
(* one does, that is Disconnect).                                          *)
LeavePipe(q) ==
    /\ Disconnects
    /\ pipes[q].pc \in {"link", "spawn"} \/ (pipes[q].pc = "await" /\ run[pipes[q].task] = "over")
    /\ pipes' = [pipes EXCEPT ![q].pc = "over"]
    /\ UNCHANGED <<poolVars, graphVars, runVars, handleVars, taskVars, ctrVars, orders>>

(* Other clients of the PtyManager.                                        *)
OtherClients ==
    /\ \/ \E s \in Terminals : OpenTerminal(s)
       \/ \E s \in Terminals : DestroySession(s)
       \/ Terminals # {} /\ \E t \in Tasks : DestroySession(t)
    /\ UNCHANGED <<graphVars, runVars, handleVars, taskVars, ctrVars, orders, pipes>>

(***************************************************************************)
(* The specification.  Every run, request and abort that can take a step   *)
(* eventually takes one or is dropped: tokio polls every woken task,       *)
(* collect_task_output and the container prompt have timeouts, and a mutex *)
(* is never held across a wait for another.  Sends, launches, pipes, stops,*)
(* clients that go away, the end of a prompt that nobody awaits and the    *)
(* passing of days are not assumed to happen.                              *)
(***************************************************************************)
RunStep(t) ==
    \/ WakeUp(t) \/ Begin(t) \/ MarkRunning(t) \/ Route(t) \/ StartOnPool(t)
    \/ LookUpSession(t) \/ CollectOutput(t) \/ DestroyOwnSession(t) \/ ReleaseAgent(t)
    \/ ContainerSession(t) \/ CountPoolBusy(t) \/ ClaimContainer(t) \/ PromptContainer(t)
    \/ ReleaseContainer(t) \/ RemoteCall(t) \/ CollectFollowups(t)
    \/ (\E n \in Tasks \ Roots : CreateFollowup(t, n))
    \/ LabelEdge(t) \/ FollowupReturned(t) \/ FollowupsDone(t)
    \/ ClearBackgroundRun(t) \/ PruneAndReturn(t)

StopStep(p) ==
    \/ StopCollect(p) \/ StopAbort(p) \/ StopFail(p) \/ StopPool(p) \/ StopContainer(p)
    \/ DropOrder(p) \/ LateCall(p)

PipeStep(q) ==
    PipeLink(q) \/ (\E n \in Tasks \ Roots : PipeSpawn(q, n)) \/ PipeRecord(q) \/ LeavePipe(q)

Request ==
    \/ \E t \in Roots, a \in Agents \cup CtrAgents : SendTask(t, a) \/ ScheduleTask(t, a)
    \/ \E t \in Roots, a \in Peers : SendRemote(t, a)
    \/ \E a \in Agents : LaunchPty(a)
    \/ \E p \in Stoppers, a \in AllAgents, m \in StopModes : StopBegin(p, a, m)
    \/ \E q \in Pipers, t \in Tasks, b \in AllAgents : PipeRead(q, t, b)
    \/ ListTasks

Next ==
    \/ Request
    \/ \E t \in Tasks : RunStep(t) \/ RegisterHandle(t) \/ AbortTakesEffect(t) \/ Disconnect(t)
                        \/ PromptEnds(t)
    \/ \E p \in Stoppers : StopStep(p)
    \/ \E q \in Pipers : PipeStep(q)
    \/ \E c \in CtrAgents : LaunchContainer(c)
    \/ DayPasses
    \/ OtherClients

Fairness ==
    /\ \A t \in Tasks : /\ WF_vars(RunStep(t))
                         /\ WF_vars(RegisterHandle(t))
                         /\ WF_vars(AbortTakesEffect(t))
    /\ \A p \in Stoppers : WF_vars(StopStep(p))
    /\ \A q \in Pipers : WF_vars(PipeStep(q))

Spec == Init /\ [][Next]_vars /\ Fairness

---------------------------------------------------------------------------------
(***************************************************************************)
(* Properties.                                                             *)
(***************************************************************************)

(* The runs, their follow-ups, the aborts and the stop requests use the    *)
(* pool as AgentPool says it is used; what is proved of PoolSpec holds of  *)
(* the orchestrator's PTY agents.                                          *)
ImplementsPool == PoolSpec

(* The same for the task graph: what is proved of it, acyclicity above     *)
(* all, holds while runs and pipe requests interleave.                     *)
ImplementsGraph == Graph!GraphSpec

(* A run and the follow-ups nested in it never hold two agents: a run gives*)
(* its agent back before it starts a follow-up.  So a follow-up is never   *)
(* refused, as busy or for the busy limit, because of its own chain.       *)
OneAgentPerChain ==
    LET Holding(t) == phase[t] \in Live \/ run[t] \in {"prompt", "settle"} IN
    \A t, u \in Tasks : Holding(t) /\ Holding(u) /\ root[t] = root[u] => t = u

(* A container works on a second prompt only while the orchestrator has    *)
(* given up the other one, on a timeout or an error: then the agent is     *)
(* made Idle with the prompt still going.  A stop under a prompt, an agent *)
(* made Idle again by a late answer, an abort and a client that goes away  *)
(* never send two.                                                         *)
PromptsOverlapGivenUp ==
    LET GivenUp(t) == nodeStatus[t] \in {"timeout", "failed"} IN
    \A t, u \in prompts : nodeAgent[t] = nodeAgent[u] /\ t # u => GivenUp(t) \/ GivenUp(u)

(* An agent is Busy only while a run is about to give it back, whichever   *)
(* way the task ends: every path through run_task and run_container_task   *)
(* reaches its release, except for a run that was dropped and one whose    *)
(* session had vanished before it was looked up.                           *)
BusyHasRun ==
    /\ \A a \in Busy : \/ run[current[a]] \in {"exec", "free", "release"}
                       \/ phase[current[a]] = "lost"
    /\ \A c \in CtrBusy : \E t \in Tasks :
            nodeAgent[t] = c /\ run[t] \in {"prompt", "settle", "dropped"}

(* A follow-up runs only inside the run that awaits it: when that run is   *)
(* aborted or its client goes away, no follow-up of it goes on.            *)
FollowupsOwned ==
    \A n \in Tasks : kind[n] = "followup" /\ Active(n) =>
        \E t \in Tasks : waits[t] = n /\ run[t] \in {"label", "nested"}

(* A pipe only ever names a generated task that was created for its target *)
(* agent, and only a completed task starts follow-ups.                     *)
FollowupsMatch ==
    /\ \A i \in DOMAIN edges :
        edges[i].generated # NoTask => nodeAgent[edges[i].generated] = edges[i].target
    /\ \A t \in Tasks : waits[t] # NoTask => nodeStatus[t] = "complete" /\ root[waits[t]] = root[t]

(* However pipe requests and runs interleave, the follow-ups started in    *)
(* all are at most two for each pipe in the graph: for a pipe, one by the  *)
(* request that found the source complete and one by the source's run,     *)
(* which reads its outgoing edges once.                                    *)
FollowupsBounded ==
    Cardinality({n \in Tasks \ Roots : nodeStatus[n] # "absent"}) <= 2 * Len(edges)

(* A task whose run had an agent and gave it back has a final status, or   *)
(* is no longer retained: no stop, abort or late write leaves it Running.  *)
ServedTasksSettle ==
    \A t \in Tasks :
        run[t] = "over" /\ phase[t] = "over" /\ on[t] # NoAgent =>
            tasks[t] \in Terminal \cup {"absent"}

(* Every run comes to an end, the whole chain of its follow-ups included,  *)
(* whatever is stopped, aborted or refused meanwhile.                      *)
RunsEnd == \A t \in Tasks : Active(t) ~> ~Active(t)

(* Every stop request comes to an end: it returns, and one for a PTY agent *)
(* has then left the agent Stopped, unless its client went away first.     *)
StopsEnd ==
    \A p \in Stoppers :
        orders[p].pc = "collect" ~>
            \/ orders[p].pc = "gone"
            \/ /\ orders[p].pc = "over"
               /\ orders[p].agent \in Managed => status[orders[p].agent] = "stopped"
=================================================================================
