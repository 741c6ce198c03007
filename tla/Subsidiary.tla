------------------------------ MODULE Subsidiary ------------------------------
(***************************************************************************)
(* An operator and its subsidiary containers: the nucleusdb_subsidiary_*   *)
(* tools (mcp/tools.rs) over the subsidiary registry                       *)
(* (orchestrator/subsidiary_registry.rs), and inside each container the    *)
(* nucleusdb_container_* tools over its agent lock file                    *)
(* (container/agent_lock.rs, agent_hookup.rs).                             *)
(*                                                                         *)
(* A request takes the registry lock, loads the registry, calls the        *)
(* container while it holds the lock, updates its copy and saves it.  The  *)
(* lock is a PidLock; here it is the mutex that PidLock implements while   *)
(* no process is late, and the lock of a dead operator is free.  A call    *)
(* whose caller has given up goes on in the container, or is dropped at an *)
(* await.  The agent of an initialization is named after its request.      *)
(***************************************************************************)
EXTENDS Naturals

CONSTANTS
    Requests,    \* concurrent requests to the operator's tools
    Sessions,    \* containers that can be provisioned
    NoRequest,   \* nobody
    MaxTasks     \* bound on recorded tasks

ASSUME SubsidiaryAssumption == NoRequest \notin Requests /\ MaxTasks \in Nat

VARIABLES
    registry,    \* the registry file: agent_lock_state of each record, and the tasks
    holder,      \* the request that has the registry lock
    op, on, pc,  \* each request: its tool, its session, where it is
    copy,        \* the registry it has loaded
    call,        \* its call in the container
    box,         \* each container: its process
    file,        \* its agent lock file: ContainerAgentState
    active,      \* its container_runtime.active: the agent of the hookup
    ledger,      \* every update that was saved, applied in order
    doubt,       \* sessions whose last initialize or deinitialize has no sure outcome
    clean        \* requests that met no abandoned call on their session

opVars == <<registry, holder, op, on, pc, copy, ledger>>
ctrVars == <<box, file, active>>
vars == <<opVars, call, ctrVars, doubt, clean>>

Tools == {"provision", "initialize", "send_task", "deinitialize", "destroy"}
Registries == [subs : [Sessions -> {"none", "empty", "locked"}], tasks : 0..MaxTasks]
Files == [state : {"empty", "locked", "deinitializing"}, agent : Requests \cup {NoRequest}]
InCall == {"sent", "launch", "activate", "publish", "stop", "begin", "end", "prompt"}

SubsidiaryTypeOK ==
    /\ registry \in Registries /\ ledger \in Registries
    /\ holder \in Requests \cup {NoRequest}
    /\ op \in [Requests -> Tools]
    /\ on \in [Requests -> Sessions]
    /\ pc \in [Requests -> {"idle", "launch", "acquire", "wait", "destroy", "save", "drop"}]
    /\ copy \in [Requests -> Registries]
    /\ call \in [Requests -> InCall \cup {"none", "ok", "err"}]
    /\ box \in [Sessions -> {"absent", "running", "gone"}]
    /\ file \in [Sessions -> Files]
    /\ active \in [Sessions -> Requests \cup {NoRequest}]
    /\ doubt \subseteq Sessions /\ clean \subseteq Requests

NoRecords == [subs |-> [s \in Sessions |-> "none"], tasks |-> 0]
EmptyFile == [state |-> "empty", agent |-> NoRequest]

Init ==
    /\ registry = NoRecords /\ ledger = NoRecords
    /\ holder = NoRequest
    /\ op = [r \in Requests |-> "provision"]
    /\ on \in {[r \in Requests |-> s] : s \in Sessions}
    /\ pc = [r \in Requests |-> "idle"]
    /\ copy = [r \in Requests |-> NoRecords]
    /\ call = [r \in Requests |-> "none"]
    /\ box = [s \in Sessions |-> "absent"]
    /\ file = [s \in Sessions |-> EmptyFile]
    /\ active = [s \in Sessions |-> NoRequest]
    /\ doubt = {} /\ clean = {}

Go(r, there) == pc' = [pc EXCEPT ![r] = there]
Step(r, there) == call' = [call EXCEPT ![r] = there]

(* A call that is in progress though nobody waits for it, and the ones of  *)
(* them that change the container.                                         *)
Abandoned(r) == call[r] \in InCall /\ pc[r] # "wait"
Disturbed(s) == \E r \in Requests : Abandoned(r) /\ on[r] = s /\ op[r] # "send_task"

--------------------------------------------------------------------------------
(* The container: nucleusdb_container_initialize, _agent_prompt and        *)
(* _deinitialize.  s is the container of the call.                         *)

(* Mutation of CtrLoadLock: can_initialize is not asked.                   *)
CtrLoadAnyway(r) ==
    /\ call[r] = "sent" /\ op[r] = "initialize"
    /\ Step(r, "launch")
    /\ UNCHANGED <<opVars, ctrVars, doubt, clean>>

(* The agent lock is loaded, and start refuses unless it is Empty.         *)
CtrLoadLock(r) ==
    /\ call[r] = "sent" /\ op[r] = "initialize"
    /\ \/ file[on[r]].state = "empty" /\ Step(r, "launch")
       \/ file[on[r]].state # "empty" /\ Step(r, "err")
    /\ UNCHANGED <<opVars, ctrVars, doubt, clean>>

(* The hookup launches its agent or its backend: the future awaits here.   *)
CtrLaunch(r) ==
    /\ call[r] = "launch"
    /\ Step(r, "activate") \/ Step(r, "err")
    /\ UNCHANGED <<opVars, ctrVars, doubt, clean>>

(* HookupTrace::activate: the lock loaded before is initialized and saved. *)
(* A trace error comes before the save or after it.                        *)
CtrActivate(r) ==
    LET s == on[r]
        locked == [file EXCEPT ![s] = [state |-> "locked", agent |-> r]]
    IN
    /\ call[r] = "activate"
    /\ \/ Step(r, "publish") /\ file' = locked /\ UNCHANGED doubt
       \/ Step(r, "err") /\ UNCHANGED <<file, doubt>>
       \/ Step(r, "err") /\ file' = locked /\ doubt' = doubt \cup {s}
    /\ UNCHANGED <<opVars, box, active, clean>>

(* Mutation of CtrPublish: the hookup is not stored.                       *)
CtrForgetHookup(r) ==
    /\ call[r] = "publish"
    /\ Step(r, "ok")
    /\ UNCHANGED <<opVars, ctrVars, doubt, clean>>

CtrPublish(r) ==
    /\ call[r] = "publish"
    /\ active' = [active EXCEPT ![on[r]] = r]
    /\ Step(r, "ok")
    /\ UNCHANGED <<opVars, box, file, doubt, clean>>

(* The prompt goes to the hookup that is active now.                       *)
CtrPrompt(r) ==
    /\ call[r] = "sent" /\ op[r] = "send_task"
    /\ \/ active[on[r]] # NoRequest /\ Step(r, "prompt")
       \/ active[on[r]] = NoRequest /\ Step(r, "err")
    /\ UNCHANGED <<opVars, ctrVars, doubt, clean>>

CtrRespond(r) ==
    /\ call[r] = "prompt"
    /\ Step(r, "ok") \/ Step(r, "err")
    /\ UNCHANGED <<opVars, ctrVars, doubt, clean>>

(* container_runtime.active.take()                                         *)
CtrTake(r) ==
    /\ call[r] = "sent" /\ op[r] = "deinitialize"
    /\ \/ active[on[r]] # NoRequest /\ Step(r, "stop")
       \/ active[on[r]] = NoRequest /\ Step(r, "err")
    /\ active' = [active EXCEPT ![on[r]] = NoRequest]
    /\ UNCHANGED <<opVars, box, file, doubt, clean>>

(* The hookup stops its agent: the future awaits here.                     *)
CtrStop(r) ==
    /\ call[r] = "stop"
    /\ Step(r, "begin")
    /\ UNCHANGED <<opVars, ctrVars, doubt, clean>>

(* HookupTrace::deactivate: begin_deinitialize needs a locked file, which  *)
(* it cannot always write.                                                 *)
CtrBegin(r) ==
    LET s == on[r] IN
    /\ call[r] = "begin"
    /\ \/ /\ file[s].state = "locked"
          /\ file' = [file EXCEPT ![s].state = "deinitializing"]
          /\ Step(r, "end")
          /\ UNCHANGED doubt
       \/ /\ file[s].state # "locked"
          /\ Step(r, "err")
          /\ UNCHANGED <<file, doubt>>
       \/ /\ Step(r, "err")
          /\ doubt' = doubt \cup {s}
          /\ UNCHANGED file
    /\ UNCHANGED <<opVars, box, active, clean>>

(* The trace session ends, and the lock begun before is completed and      *)
(* saved; a trace error leaves the file as it is.  The handler reads the   *)
(* file once more for its answer, and errs when it cannot.                 *)
CtrEnd(r) ==
    LET s == on[r] IN
    /\ call[r] = "end"
    /\ \/ Step(r, "ok") /\ file' = [file EXCEPT ![s] = EmptyFile] /\ UNCHANGED doubt
       \/ /\ Step(r, "err")
          /\ doubt' = doubt \cup {s}
          /\ \/ UNCHANGED file
             \/ file' = [file EXCEPT ![s] = EmptyFile]
    /\ UNCHANGED <<opVars, box, active, clean>>

(* The connection is closed: a call nobody waits for ends at an await.     *)
CtrDropped(r) ==
    /\ Abandoned(r)
    /\ call[r] \in {"sent", "launch", "publish", "stop", "prompt"}
    /\ Step(r, "none")
    /\ UNCHANGED <<opVars, ctrVars, doubt, clean>>

(* The answer to a caller that has given up.                               *)
CtrUnheard(r) ==
    /\ call[r] \in {"ok", "err"} /\ pc[r] # "wait"
    /\ Step(r, "none")
    /\ UNCHANGED <<opVars, ctrVars, doubt, clean>>

CtrStep(r) ==
    \/ CtrLoadLock(r) \/ CtrLaunch(r) \/ CtrActivate(r) \/ CtrPublish(r)
    \/ CtrPrompt(r) \/ CtrRespond(r)
    \/ CtrTake(r) \/ CtrStop(r) \/ CtrBegin(r) \/ CtrEnd(r)
    \/ CtrDropped(r) \/ CtrUnheard(r)

--------------------------------------------------------------------------------
(* The operator.                                                           *)

Request(r, tool, s) ==
    /\ pc[r] = "idle" /\ call[r] = "none"
    /\ op' = [op EXCEPT ![r] = tool]
    /\ on' = [on EXCEPT ![r] = s]
    /\ \/ tool = "provision" /\ box[s] = "absent" /\ Go(r, "launch")
       \/ tool # "provision" /\ box[s] # "absent" /\ Go(r, "acquire")
    /\ UNCHANGED <<registry, holder, copy, ledger, call, ctrVars, doubt, clean>>

(* container_provision: the container runs before there is a record of it. *)
Provision(r) ==
    /\ pc[r] = "launch"
    /\ \/ /\ box[on[r]] = "absent"
          /\ box' = [box EXCEPT ![on[r]] = "running"]
          /\ Go(r, "acquire")
       \/ Go(r, "idle") /\ UNCHANGED box
    /\ UNCHANGED <<registry, holder, op, on, copy, ledger, call, file, active, doubt, clean>>

(* Mutation of LoadRegistry: the registry is loaded without the lock.      *)
LoadUnlocked(r) ==
    /\ pc[r] = "acquire"
    /\ holder' = r
    /\ copy' = [copy EXCEPT ![r] = registry]
    /\ \/ op[r] = "provision" /\ Go(r, "save") /\ UNCHANGED call
       \/ op[r] = "destroy" /\ registry.subs[on[r]] # "none" /\ Go(r, "destroy") /\ UNCHANGED call
       \/ op[r] \notin {"provision", "destroy"} /\ registry.subs[on[r]] # "none"
          /\ Go(r, "wait") /\ Step(r, "sent")
    /\ clean' = IF Disturbed(on[r]) THEN clean \ {r} ELSE clean \cup {r}
    /\ UNCHANGED <<registry, op, on, ledger, ctrVars, doubt>>

(* load_or_create_locked, and then assert_owned.  The request is over when *)
(* the registry cannot be read, has no record of the session, or the peer  *)
(* of an owned session is not found, or not healthy, in time.              *)
LoadRegistry(r) ==
    /\ pc[r] = "acquire"
    /\ holder = NoRequest
    /\ holder' = r
    /\ copy' = [copy EXCEPT ![r] = registry]
    /\ \/ /\ op[r] = "provision"
          /\ Go(r, "save") /\ UNCHANGED call
       \/ /\ op[r] = "destroy" /\ registry.subs[on[r]] # "none"
          /\ Go(r, "destroy") /\ UNCHANGED call
       \/ /\ op[r] \notin {"provision", "destroy"} /\ registry.subs[on[r]] # "none"
          /\ box[on[r]] = "running"
          /\ Go(r, "wait") /\ Step(r, "sent")
       \/ Go(r, "drop") /\ UNCHANGED call
    /\ clean' = IF Disturbed(on[r]) THEN clean \ {r} ELSE clean \cup {r}
    /\ UNCHANGED <<registry, op, on, ledger, ctrVars, doubt>>

(* The registry lock was not free in time.                                 *)
NoLock(r) ==
    /\ pc[r] = "acquire"
    /\ holder # NoRequest
    /\ Go(r, "idle")
    /\ UNCHANGED <<registry, holder, op, on, copy, ledger, call, ctrVars, doubt, clean>>

(* A failed prompt is recorded; other failures are not.                    *)
Answered(r) ==
    /\ pc[r] = "wait"
    /\ call[r] \in {"ok", "err"}
    /\ \/ (call[r] = "ok" \/ op[r] = "send_task") /\ Go(r, "save")
       \/ call[r] = "err" /\ op[r] # "send_task" /\ Go(r, "drop")
    /\ Step(r, "none")
    /\ UNCHANGED <<registry, holder, op, on, copy, ledger, ctrVars, doubt, clean>>

(* Mutation of TimedOut: the request waits for its answer.                 *)
NeverTimedOut(r) == FALSE /\ UNCHANGED vars

(* call_remote_tool_with_timeout gives up.                                 *)
TimedOut(r) ==
    /\ pc[r] = "wait"
    /\ call[r] \in InCall
    /\ \/ op[r] = "send_task" /\ Go(r, "save") /\ UNCHANGED doubt
       \/ op[r] # "send_task" /\ Go(r, "drop") /\ doubt' = doubt \cup {on[r]}
    /\ UNCHANGED <<registry, holder, op, on, copy, ledger, call, ctrVars, clean>>

(* destroy_container: the process is killed, with the calls in it; the     *)
(* session directory may resist.                                           *)
Destroy(r) ==
    /\ pc[r] = "destroy"
    /\ box' = [box EXCEPT ![on[r]] = "gone"]
    /\ call' = [q \in Requests |-> IF on[q] = on[r] THEN "none" ELSE call[q]]
    /\ Go(r, "save") \/ Go(r, "drop")
    /\ UNCHANGED <<registry, holder, op, on, copy, ledger, file, active, doubt, clean>>

(* register_provision, register_initialize, register_deinitialize,         *)
(* remove_subsidiary and record_task                                       *)
Updated(reg, r) ==
    LET state == [provision |-> "empty", initialize |-> "locked",
                  deinitialize |-> "empty", destroy |-> "none"]
    IN  IF op[r] = "send_task"
        THEN [reg EXCEPT !.tasks = IF @ < MaxTasks THEN @ + 1 ELSE @]
        ELSE [reg EXCEPT !.subs[on[r]] = state[op[r]]]

(* Mutation of Save: the copy is written as it was loaded.                 *)
SaveUnchanged(r) ==
    /\ pc[r] = "save"
    /\ ledger' = Updated(ledger, r)
    /\ registry' = copy[r]
    /\ doubt' = doubt \ {on[r]}
    /\ Go(r, "drop")
    /\ UNCHANGED <<holder, op, on, copy, call, ctrVars, clean>>

(* The updated copy replaces the file, or it cannot be written.  A sure    *)
(* initialize or deinitialize ends the doubt: only the request that has    *)
(* the lock calls a container, so an abandoned call that disturbs it was   *)
(* already there when the lock was taken.                                  *)
Save(r) ==
    LET s == on[r]
        sure == op[r] \in {"initialize", "deinitialize"} /\ r \in clean
    IN
    /\ pc[r] = "save"
    /\ \/ /\ registry' = Updated(copy[r], r)
          /\ ledger' = Updated(ledger, r)
          /\ doubt' = IF sure THEN doubt \ {s} ELSE doubt
       \/ /\ doubt' = IF op[r] = "send_task" THEN doubt ELSE doubt \cup {s}
          /\ UNCHANGED <<registry, ledger>>
    /\ Go(r, "drop")
    /\ UNCHANGED <<holder, op, on, copy, call, ctrVars, clean>>

DropLock(r) ==
    /\ pc[r] = "drop"
    /\ Go(r, "idle")
    /\ holder' = NoRequest
    /\ copy' = [copy EXCEPT ![r] = NoRecords]
    /\ clean' = clean \ {r}
    /\ UNCHANGED <<registry, op, on, ledger, call, ctrVars, doubt>>

(* The operator's process dies; its lock is stale from then on.            *)
OperatorCrash ==
    /\ \E r \in Requests : pc[r] # "idle"
    /\ pc' = [r \in Requests |-> "idle"]
    /\ holder' = NoRequest
    /\ copy' = [r \in Requests |-> NoRecords]
    /\ doubt' = doubt \cup {on[r] : r \in {q \in Requests : /\ pc[q] \in {"wait", "save"}
                                                           /\ op[q] # "send_task"}}
    /\ clean' = {}
    /\ UNCHANGED <<registry, op, on, ledger, call, ctrVars>>

OpStep(r) ==
    \/ Provision(r) \/ LoadRegistry(r) \/ NoLock(r) \/ Answered(r) \/ TimedOut(r)
    \/ Destroy(r) \/ Save(r) \/ DropLock(r)

Next ==
    \/ \E r \in Requests : \/ \E tool \in Tools, s \in Sessions : Request(r, tool, s)
                           \/ OpStep(r)
                           \/ CtrStep(r)
    \/ OperatorCrash

(* The operator's tasks go on and its timeouts fire; nothing is assumed of *)
(* the containers.                                                         *)
Spec == Init /\ [][Next]_vars /\ \A r \in Requests : WF_vars(OpStep(r))

--------------------------------------------------------------------------------
(* Nothing the operator does is under way for the session.                 *)
Quiet(s) ==
    \A r \in Requests : on[r] = s => pc[r] \notin {"wait", "save"} /\ ~Abandoned(r)

(* Unless the last initialize or deinitialize of a session had no sure     *)
(* outcome, the operator's record, the container's lock file and its       *)
(* hookup agree, whatever timed out, failed or crashed before              *)
(* (tools.rs:3758-3818, 3998-4042, 4361-4470).                             *)
Agreement ==
    \A s \in Sessions \ doubt :
        Quiet(s) /\ box[s] = "running" /\ registry.subs[s] # "none" =>
            /\ registry.subs[s] = file[s].state
            /\ (file[s].state = "locked") <=> (active[s] # NoRequest)
            /\ file[s].agent = active[s]

(* The registry is the sum of the updates that were saved: a request that  *)
(* waits for a container does not overwrite what another one recorded      *)
(* (subsidiary_registry.rs:100-107).                                       *)
NoLostUpdate == registry = ledger

(* Why: the lock has one owner at most, from the load to the release, and  *)
(* what the owner has loaded is still the registry when it saves.          *)
SubsidiaryInv ==
    /\ SubsidiaryTypeOK
    /\ NoLostUpdate
    /\ \A r \in Requests :
          /\ pc[r] \in {"wait", "destroy", "save", "drop"} => holder = r
          /\ pc[r] \in {"wait", "destroy", "save"} => copy[r] = registry

(* Every request returns, whatever the containers do: nobody keeps the     *)
(* registry lock (tools.rs:3701-4089).                                     *)
RequestsEnd == \A r \in Requests : pc[r] # "idle" ~> pc[r] = "idle"

(* Unless the outcome of an earlier call is in doubt, the lock file goes   *)
(* round Empty, Locked, Deinitializing, Empty and keeps its agent from the *)
(* initialize to the end of the deinitialize (agent_lock.rs:109-157).      *)
FileLifecycle ==
    [][\A s \in Sessions \ doubt : file'[s] # file[s] =>
          \/ file[s].state = "empty" /\ file'[s].state = "locked"
          \/ /\ file[s].state = "locked" /\ file'[s].state = "deinitializing"
             /\ file'[s].agent = file[s].agent
          \/ file[s].state = "deinitializing" /\ file'[s] = EmptyFile]_vars
================================================================================
