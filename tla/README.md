# AgentHALO: a TLA+ verification project

AgentHALO (this repository, a Rust workspace) runs AI agents in managed
terminals and containers, records what they do in a tamper-evident database
(NucleusDB) and connects them over a peer-to-peer mesh. This directory holds
TLA+ models of its core logic, TLC configurations that check them on small
instances, and TLAPS proofs for every instance. Paths below are relative to the
repository root (`src/...` in `PROJECT.json`).

It covers the parts of the program where several actors change the same state:

- the **orchestrator**: agents, tasks, pipes, stop requests, and the terminal
  sessions in which tasks run;
- what **processes on one host share** below the mesh directory: lock files, the
  peer registry and the auth token;
- an **operator and its subsidiary containers**: the operator's registry, and the
  agent lock file inside each container;
- a **tenant's database and its files**: commits, write-ahead log, checkpoint,
  crash and recovery;
- the **database file** that the dashboard, trace writers, the orchestrator's
  memory turns and an MCP service use at the same time.

## 1. Inventory

### 1.1 Orchestrator and terminals (modelled)

| component | state | operations | interacts with |
|---|---|---|---|
| Agent pool, `src/orchestrator/agent_pool.rs` | a map of managed agents (status Idle/Busy/Stopped, `pty_session_id`) behind one mutex; a budget | `launch`, `start_task`, `complete_task`, `stop` (which takes the mutex twice), session lookup and destruction | PtyManager (creates, finds, destroys sessions) |
| PtyManager, `src/cockpit/pty_manager.rs` | a map of sessions with a limit; per session a process, captured output, a broadcast channel, a status | create (with a reaper), destroy, poll exit, a reader thread per session | the dashboard opens terminals in it and may destroy any session |
| Output collection, `src/orchestrator/trace_bridge.rs` | the output put together so far, a deadline | `collect_task_output` | one session |
| Task graph, `src/orchestrator/task_graph.rs` | nodes (a task, its agent, its status) and edges (a pipe from a task to an agent, the task it generated) | `upsert_node`, `add_edge` (with a cycle check), `set_generated_task`, `outgoing_for`, `PipeTransform` | orchestrator |
| Orchestrator, `src/orchestrator/mod.rs`, `task.rs` | tasks, the graph, handles of background runs, container agents and their sessions, each behind its own mutex | `launch_agent`, `send_task`, `schedule_task`, `run_task`, `run_container_task`, `send_remote_peer_task`, `pipe`, `stop_agent`, `list_tasks`, pruning | everything above, container dispatch, remote peers |

What is hard here: no operation holds two mutexes, so every operation is a
sequence of critical sections that others interleave with; a run's future can be
dropped at any await (an abort by `stop_agent`, or an HTTP client that goes
away), and nothing in it is cleaned up then; a run works on its own copy of its
task and writes the copy back; limits are checked in one critical section and
used in another; a reader thread, a collector and a killer share one session;
follow-ups run inside the run that started them.

What makes it correct: an agent serves one task at a time, within the budget,
and is Busy only while somebody will release it; a stopped agent stays stopped;
the records of an agent agree; pipelines cannot feed themselves, and a chain
never stands in the way of its own follow-ups; every run, stop and collection
ends; a pipe runs its follow-up once; output is complete; a stop fails what was
in flight.

### 1.2 Coordination, containers and storage (modelled)

| component | state | operations | interacts with |
|---|---|---|---|
| Lock files, `src/container/coordination.rs` | a file at a path, with its creator's process id and an mtime | `acquire_pid_lock` (create, write the pid, or judge the file found and remove it), drop | used for the peer registry, the token and the subsidiary registry |
| Mesh registry and token, `src/container/mesh.rs`, `mesh_init.rs`, `coordination.rs` | the registry file, the token file | register, deregister, `local_mesh_auth_token` | every server process on the host |
| Operator's registry, `src/orchestrator/subsidiary_registry.rs`, `src/mcp/tools.rs` | a file of provisioned containers and tasks, under a lock file | the five `nucleusdb_subsidiary_*` tools: provision, initialize, send_task, deinitialize, destroy | calls the container while it holds the lock |
| Container agent, `src/container/agent_lock.rs`, `agent_hookup.rs` | a lock file that is Empty, Locked or Deinitializing; the active hookup | initialize, agent prompt, deinitialize | called by operators, with timeouts on their side |
| Tenant, `src/multitenant.rs`, `persistence.rs`, `protocol.rs` | a state vector and its entries in memory behind an RwLock; a snapshot; a log of keyed records | commit and append, checkpoint, ensure, register anew or from the log | several client threads; crashes |
| Shared database, `src/dashboard/api.rs`, `src/halo/trace.rs`, `src/orchestrator/mod.rs`, `src/mcp/tools.rs` | one snapshot file and its log; `db_lock`; a memory cache with a file fingerprint | handlers that load, change and save; skill tasks; TraceWriters; memory turns; MCP service and `create_database` | everybody through the file |

What is hard here: a lock is a file that others may judge abandoned; a call
whose caller has given up goes on; several files are written one after the
other and the program may die between any two; a key is computed from a count
that recovery recomputes in another way; a lock serializes only those who take
it, and only while their future lives.

What makes it correct: one holder per lock and no lost registration; a registry
that is the sum of what was saved; registry, lock file and hookup of a container
agree; no acknowledged commit is lost and no log record replaced; nobody's
update to the shared file is overwritten; everybody who waits for a lock gets an
answer.

### 1.3 The rest (not modelled)

| component | sources | state and operations | why not |
|---|---|---|---|
| SQL | `src/sql/` | parser and executor over one database | sequential; what it changes is an update in SharedDb |
| Identity, attestation | `src/halo/identity_ledger.rs`, ... | hash-chained ledger | appends are reads and rewrites of one file as in SharedDb; the content is hashes |
| Governor | `src/halo/governor.rs` | floating-point controller | no real numbers in TLC |
| P2P mesh, DIDComm | `src/halo/p2p_node.rs`, `p2p_discovery.rs`, `src/comms/` | a libp2p event loop, message envelopes | the protocol is libp2p's; left is bookkeeping of gossip (next in the plan) |
| Swarm | `src/swarm/` | chunk exchange with credits | next in the plan |
| Pod access control | `src/pod/` | capability tokens and policies | pure decisions on one request |
| Discord recorder | `src/discord/` | message log with recovery | next in the plan |
| Rest of dashboard, MCP tools and command line | `src/dashboard/`, `src/mcp/`, `src/bin/` | request surfaces: parse, call, format | seen through what they call |
| Cryptography, ZK, PUF, payment channels, verifier, contracts | `src/halo/circuit.rs`, `src/puf/`, `src/pcn/`, `contracts/` | | numeric and cryptographic; the EVM and the hardware are not under `src/` |

`PROJECT.json` lists every component with its status, and under `hazards` what a
test of this code would hardly reach, each at its line.

## 2. Modules

```
AgentLifecycle  <--refines--  AgentPool  <--refines--  Orchestrator
Reachability  <-- TaskGraph  <--refines--  Orchestrator        PtySession
                  TaskGraph  <--refines--  GraphSearch
PidLock  <-- MeshState        Subsidiary        TenantStore        SharedDb
*Proofs: theorems of the module they extend     MC*: symmetry, bounds, model values
```

**AgentLifecycle** is the abstract promise: an agent is launched once, serves
one task at a time, is stopped for good; at most `MaxBusy` are Busy.

**AgentPool** models `agent_pool.rs`. One action is one critical section of the
agents mutex. `start_task` holds it throughout; `stop` reads the session id
(`StopRead`), kills that session without the mutex (`StopKill`) and marks the
agent (`StopMark`). A run's part in it is `phase`: it gets an execution, looks
its session up, collects, destroys its session, completes; `DropRun` is its
future being dropped. The PtyManager appears as the set of its sessions with its
limit. Its reaper removes sessions that have been quiet for too long; which ones
are quiet is up to the environment, so it may remove any (`Reapable`).

**TaskGraph** models `TaskGraph`, with `agent_would_cycle` as membership in
`Reach` (the least closed set). **GraphSearch** is `add_edge` with the loop that
computes it, one action per turn (`Skip`, `Found`, `Expand`, `Exhausted`), with
its explicit stack and its seen set; the successors of an agent are pushed in any
order, since the code's order is that of the names. It implements TaskGraph.
`PipeTransform`, a function of texts, is not modelled.

**PtySession** models one session: process, reader thread (which captures a
chunk under a lock and sends it afterwards), broadcast channel with its
capacity, status, `destroy_session`, and the loop of `collect_task_output`
(subscribe, snapshot, then status, exit and channel in turn until a deadline).

**Orchestrator** extends AgentPool and instantiates TaskGraph. `run[t]` is where
the run of task `t` stands; one action is one critical section of `run_task`,
`run_container_task`, `cancel_inflight_for_agent`, `stop_agent`, `pipe` or
`launch_container_agent`. `kind` and `root` say who holds a run's future, so
that dropping a root drops its chain (`DropChain`). Container dispatch is
modelled by how it is called and what it can return; `prompts` are the prompts
that containers work on, whether or not a run still awaits them: a timeout or an
error ends the await and not the prompt (`PromptContainer`, `PromptEnds`). Every
request is an axum future that goes with its client: a waited run with its chain
(`Disconnect`), a stop at whichever await it has come to (`DropOrder`; a call it
has made to the container goes on, `LateCall`), a pipe (`LeavePipe`), and a send
or schedule before its handle is registered (`RegisterHandle`), whose run goes on
and can no longer be aborted.

**PidLock** models `acquire_pid_lock`. Each file operation is a step: create the
file, write the pid, read the file found, judge it (dead pid, or no pid and an
old mtime), remove it, wait. `faults` counts what the exclusion depends on: a
crash, a step that comes later than four retries after `create_new`, an open or a
write of the pid that fails, an owner that fails to remove its file (and in
MeshState a registry that cannot be loaded). That a stale lock cannot be removed
is no fault: it may happen any number of times, and the code tries again at once
(`RemoveStale`).
A process that died is another incarnation from then on.

**MeshState** composes it with the two things it protects. The registry is
replaced by a rename; the token file is truncated and then filled, by a caller
that looked again under the lock. The lock of the token is never removed by its
owner (the guard is a `File`), the one of the registry is.

**Subsidiary** has a request of an operator on one side (`OpStep`: lock, load,
call, update, save, release, with timeouts and failing saves) and the container
on the other (`CtrStep`: load the lock file, launch, activate, publish, prompt,
stop, begin, end, with an error at each place where the code may return one). A
call that was given up goes on or is dropped. The registry's lock is the mutex
that PidLock gives without faults; a dead operator's lock is free. `doubt` names
the sessions whose last initialize or deinitialize has no sure outcome, `clean`
the requests that met no abandoned call; `ledger` is the sum of what was saved.

**TenantStore** has a step for every file operation of a commit and of a
checkpoint, the retry of the rename (which removes the old log first) included,
a crash between any two, recovery from the log and registration anew. A commit
writes its number into a cell, so that "lost" is a comparison of numbers.
`acked` is what clients were told; `astray` says that the tenant was opened on a
log whose keys do not fit the number of entries in memory.

**SharedDb** has the database as the set of updates it holds. Requests take
`db_lock`; an orphan is the blocking task of a skill handler whose client is
gone; outsiders take no lock. `intruded` says that somebody without the lock
saved amid another's work, `torn` that a save ended between the snapshot and the
log.

The ghosts `faults`, `doubt`, `astray`, `intruded` and `torn` say where a
property stops claiming anything. They are set by the steps that do the harm and
by nothing else, and every such step is in the model and taken in the runs.

Abstractions that matter when comparing with the code:

- a write to `tasks` and the graph upsert that follows it are one step: the node
  of a task is written by its own run, and nobody reads its status;
- an aborted run stops when it next yields. A sleeping run has yielded; which of
  the other awaits really yield is left open, so an aborted run may take any
  number of steps before it stops;
- prompts, results, costs, model names, memory turns and the trace are left out of
  Orchestrator (memory turns are in SharedDb); a result is the status it leads to;
- a redb transaction is one step, and so is a rename; a file written in place is
  truncated in one step and filled in another;
- a fingerprint is "still the file's" or not: every save changes it;
- a stop with `force` stands for a single-use container too, which `stop_agent`
  treats alike (mod.rs:1273);
- time: `completed_at` is unset, within the last day, or older; a timeout is a
  possible outcome of a collection or a prompt.

## 3. Runs

Passing runs:

| run | instance | shows |
|---|---|---|
| pool | 2 agents, 3 tasks, 2 stops, 1 terminal, MaxBusy 1, 2 session slots | the pool's records agree, a run holds its agent until it is stopped, budgets hold, stop is final, and the pool implements AgentLifecycle |
| graph | 4 agents, 3 tasks, at most 4 edges | the agent graph stays acyclic and its arcs are never rewired; the search of `agent_would_cycle` ends and decides reachability on every graph that `add_edge` lets be built, and `add_edge` adds the pipes TaskGraph lets it add |
| session | 4 chunks, channel of 4, capture of 3 | nothing is missing in the middle of the output, failures are real, the collector returns |
| stop | 1 PTY agent, 2 tasks sent in any mode, 1 stop, 1 dashboard terminal | Busy only while a run will release the agent; a served task gets a final status; the pool is used as AgentPool says |
| ends | 1 PTY agent, 1 remote agent, 1 root task, 2 follow-up ids, 1 pipe, 1 stop, clients that go away | every run, the chain of its follow-ups included, and every stop ends; a stop of a PTY agent leaves it Stopped unless its client went away |
| pipes | 2 agents, 1 root task, 3 follow-up ids, 2 pipe requests, clients that go away | follow-ups match their pipes, never outlive the run that awaits them, and are in all at most twice as many as the pipes; a chain holds one agent at a time; the graph is used as TaskGraph says |
| containers | 1 container agent, 2 tasks, a stop in each mode, retention limit 1, days, clients that go away | two prompts in one container only when one of them was given up, on a timeout or an error; Busy only while a run will release the agent |
| mesh | 2 callers in 2 processes, 1 fault of any kind | without a fault a lock has one holder, no registration is lost, one token; faults or not, every acquisition ends, unless it comes upon a stale lock over and over |
| subsidiary | 2 requests, 1 container, 1 task | the registry loses no update; unless in doubt, registry, lock file and hookup agree and the lock file keeps its life cycle; every request ends |
| tenant | 2 clients, 2 cells, 4 commits, every kind of fault | no acknowledged commit is lost and no log record replaced, as long as logs fit |
| shared_db | 2 requests, 1 outsider, 2 updates | requests under the lock lose nothing, cache included; the log fits the snapshot unless a save was interrupted |

The bounds are the smallest in which the cases happen: two tasks compete for one
agent, two agents for one slot of the budget, a third task follows on an agent
that was released; two pipes are what it takes for two edges out of one task, or
for a chain of two; three agents for a cycle that is not a direct one, and four
for a search that meets an agent twice without finding the one it looks for; four
chunks overflow the capture, and four chunks with the end overflow the channel.
Two callers and one fault are enough for a creator that comes late and one that
judges its file; two requests for one that finds the other's abandoned call; four
commits for a checkpoint, a restart and a commit on either side of each; two
updates for one that overwrites the other. `MaxChunks`, `MaxEdges`, `MaxFaults`,
`MaxTasks`, `MaxCommits`, `MaxUpdates` and the sets of identities are the only
artificial bounds; capacities and limits are the code's own constants made small.
Symmetry is used in runs without liveness only; `graph`, which has a liveness
property, numbers agents and tasks in the order in which nodes name them instead
(`Named`), and records follow-ups, which the search does not read, in graphs of
one pipe only. Deadlock checking is switched
off where the modelled piece of code simply returns (a session); in the
Orchestrator runs a listing of tasks is always possible, so what rules out
waiting for ever there is `RunsEnd` and `StopsEnd`, not the deadlock check. The
number of follow-up ids is a bound too: in `pipes` a run may find none left,
which is why the liveness run has one pipe and enough ids for it.

Fairness. `Orchestrator`: weak fairness of the steps of every run, stop, pipe,
abort and handle registration: tokio polls every woken task, no mutex is held
across a wait, and the waits themselves are bounded (`collect_task_output` and
the calls to containers have timeouts). A request goes on or is dropped; clients
are not assumed to stay, nor to leave, and a prompt that nobody awaits is not
assumed to end. `PtySession`:
weak fairness of the collector, and strong fairness of `TimeUp`, because a
deadline that has passed is seen at every later turn of the loop. Nothing is
assumed of the process, the reader thread or the killer. `MeshState`: weak
fairness of each caller's own steps and of its deadline: the loop sleeps and
looks at the clock. Nothing is assumed of other callers, who may die or never
release, nor of a removal, which may fail each time. `Subsidiary`: weak fairness of the operator's steps, its timeouts
included (the calls have one); nothing is assumed of the containers.
`GraphSearch`: weak fairness of a search that has begun: it holds the lock and
waits for nothing. No fairness of callers.
`TenantStore` and `SharedDb` are checked for safety only.

One run shows a disagreement of the code with its tests:

| run | what happens |
|---|---|
| tenant_restart (1 client, no I/O fault, 3 commits) | commit, checkpoint, commit, restart from the log, commit. Recovery counts the records of the log, the checkpoint had emptied it while the entries went on; so the last commit takes the key of the one before the restart and its record is replaced. An acknowledged commit is gone at the next restart. `tests/end_to_end.rs:868` expects recovery after a checkpoint to keep the acknowledged values, and stops before the commit that loses one |

Other places where the code does less than a reader or its documentation might
expect. The models have each of them as a behaviour; no run is devoted to them,
and the properties say what does hold:

- `stop` reads an agent without a session, `start_task` opens one, `stop` marks
  the agent and forgets the session id: the agent is Stopped, its process goes on
  (`PoolInv` says which sessions are owned);
- the collector sees that the process has exited and returns before the last
  output was read, and a chunk around the subscription is taken twice (`NoGap`
  says that there is no hole);
- a pipe that reads the source before its end and links after it is never
  served;
- a run that could not be aborted writes its own result over the Failed that a
  stop recorded (`ServedTasksSettle`);
- container and PTY runs count each other's Busy agents too early or not at all,
  so the two kinds together can exceed `max_concurrent_busy`; likewise container
  launches count before they insert, and PTY launches do not count containers
  (`ClaimContainer`, `LaunchContainer`);
- a follow-up whose agent is absent, busy or stopped stays Running
  (`StartOnPool`); `ServedTasksSettle` says what does hold;
- a pipe that finds the source complete before its run has collected its
  follow-ups is served twice; `FollowupsBounded` says what does hold;
- the answer to a prompt makes a container agent that was stopped meanwhile Idle
  again (`ReleaseContainer`);
- a prompt that timed out goes on in its container, the agent is Idle at once and
  the next task's prompt goes out to a container that is at work
  (`PromptContainer`); `PromptsOverlapGivenUp` says that nothing else leads there;
- a client that awaits a task goes away and the agent stays Busy (`Disconnect`);
  `BusyHasRun` names this as one of the two exceptions;
- a client that asked for a stop goes away and the stop stays where it is: tasks
  were failed and aborted, the agent is not Stopped, and a container that was
  deinitialized or destroyed by the call still under way is not recorded as such
  (`DropOrder`, `LateCall`); `StopsEnd` says that a stop of a PTY agent has no
  other way to end without it;
- a client that leaves between the spawn of its run and the registration of the
  handle leaves a run that no stop can abort (`RegisterHandle`);
- a stale lock can be removed twice, the second time after somebody else has
  created it anew; a creator later than four retries loses its lock; and one that
  cannot be removed keeps its caller in the loop, without a sleep and past its
  deadline (`RemoveStale`, `AcquireEnds`);
- the lock file of the token stays as long as its process lives, so that whoever
  finds the token file empty then waits in vain;
- a peer registry that cannot be read is taken for an empty one and saved;
- a container without a record is left when the operator dies, or does not get
  the lock, after the launch; a trace error in `deactivate` leaves the lock file
  in Deinitializing for good;
- `init_wal` accepts a log that begins with the right state and has records
  already (`astray`);
- memory turns of the orchestrator save without `db_lock`; skill tasks go on
  without it when the client goes away, although `src/dashboard/mod.rs:29-32`
  says that the lock serializes access; `create_database` overwrites the snapshot
  before `init_wal` can refuse (`intruded`);
- a save that stops between snapshot and log keeps every TraceWriter from opening
  until somebody saves again (`torn`).

## 4. Theorems

Proved by TLAPS for all values of the constants. Assumptions: `PoolAssumption`
(finitely many agent ids, limits are naturals, the null values are none of the
ids, terminals and tasks have distinct session ids), `GraphAssumption`,
`OrchestratorAssumption`, `SessionAssumption`, `PidLockAssumption`,
`MeshAssumption`, `SubsidiaryAssumption`, `TenantAssumption` and
`SharedAssumption` (null values are none of the ids or values, bounds are
naturals and capacities are not zero, the modes are those of the code, every
caller has a process, the locks are the two of the mesh, requests and outsiders
are disjoint).

- `PoolInvariant`: `PoolSpec => []PoolInv`. Neither "two runs never share an
  agent" nor "the records agree" is inductive alone: a run that completes resets
  whatever agent it was started on, so one must know that the agent is still its
  own or stopped (`HeldOrStopped`), which needs the converse direction
  (`RecordsAgree`), which needs to know that runs without an execution have no
  agent and that a stop names a launched one (`InProgress`). `PoolInv` is that
  conjunction.
- `BudgetHolds`: at most `MaxBusy` pool agents are Busy and at most
  `MaxSessions` sessions exist; by cardinality lemmas on sets that shrink or
  grow by one under a guard.
- `StoppedStays`, `IdleOnlyByOwnRun`: action properties, from `PoolInv`.
- `PoolImplementsLifecycle`: the refinement, step by step (`StepSimulation`),
  with the tasks that ever got an execution as the abstract `served`.
- `GraphAcyclic`, `GraphGrounded`, `GraphOnlyGrows`: the agent graph. The
  argument for `ArcKeepsAcyclic` avoids paths, which would need induction: if x
  is not reachable from y there is a closed set with y and without x
  (`SeparatingSet`), and from the separating sets of the old graph and of the
  new arc one builds a separating set for every arc of the new graph.
- `SearchCorrect`, `SearchImplements`: the loop of `agent_would_cycle`. What is
  on the stack or was seen is in reach of the target; the successors of what was
  seen are on the stack or were seen (`Searching`). So the agent that is found is
  in reach, and when the stack is empty the seen set is closed and separates the
  target from the agent that was not found. With it every step of `add_edge` is a
  step of TaskGraph or none, and `GraphAcyclic` holds of the code's search.
- `OrchestratorImplementsPool`, `OrchestratorImplementsGraph`: the two step
  simulations. That the pool is used as `PoolSpec` says rests on the pool's own
  invariant, on where a run stands when it has an execution (`RunPhase`), and on
  the order of the runs of a chain (`ChainInv`): each has a depth, no two active
  ones have the same, and all but the deepest wait; so dropping a chain drops one
  execution at most, which is what `DropRun` of the pool may do. Through them
  what is proved of the pool and of the graph holds in the orchestrator.
- `FollowupsStayOwned`, `ChainsHoldOneAgent`: from `ChainInv`, which the proof
  keeps by sorting every action into six kinds of steps of the chains
  (`ChainNext`), without induction over the length of a chain.
- `FollowupsAlwaysMatch`, `BusyAgentsHaveRuns`, `ServedTasksAreSettled`,
  `ContainersServeOnePrompt`, `OrchestratorTypes`: from `OrchInv`, whose parts say
  what holds at each place of a run. The graph has a node for exactly the tasks
  that were created (`RunNode`); whoever is about to name a follow-up names one
  of the pipe's target (`Generated`); a task has a final status from the moment
  its output was collected (`Settled`). For containers the invariant follows who
  may still be at work in one: a prompt belongs to a run that awaits it or gave it
  up, or that was dropped (`PromptsKnown`); runs that await, and prompts whose run
  was dropped, claim their container, and there is one claim at most (`OneClaim`),
  because a container that is claimed is not Idle (`ContainersHeld`), also when a
  stop and a launch come between. So of two prompts one was given up.
- `PipesStartTwoAtMost`: by an injection. Every follow-up has a slot of its own,
  an edge and who created it, the pipe request or the source's run (`SlotInv`); a
  request about to spawn and a run that has read its edges have theirs reserved.
  `outgoing_for` gives a list with a different edge behind each entry.
- `OutputHasNoGap`, `FailuresAreReal`, `SessionTypes`: one session with any
  number of chunks, any capacity and limit. The channel holds the chunks that were
  sent in order, the last one read perhaps not yet (`ChannelInOrder`); the capture
  holds all that were read until it is cut (`CaptureWhole`); and what the
  collector has passed in the channel is in its buffer (`NothingSkipped`), which
  holds at the snapshot because it subscribed before.
- `LockExcludes`, `RegistrationsKept`, `OneToken`: up to the first fault, for any
  callers and processes. Exclusion is not inductive: one needs that nobody has
  died, that no file is old, that nobody is about to remove one, and that whoever
  is past `create_new` finds its own file at the path (`LockInv`). With it, the
  copy of a holder is the registry (`PeersInv`), and while a token is being
  generated nobody has one (`TokenInv`).
- `RegistryInvariant`, `UpdatesKept`: `registry = ledger` needs that the copy of
  the request that holds the lock is still the registry, from the load to the
  save, across the remote call.
- `RecordsAgree`, `FilesGoRound`: the agreement of record, lock file and hookup
  is not inductive. `AgreementInv` adds that calls fit their requests
  (`CallsFit`), that only provision meets a container without a record
  (`RecordsFit`), that an abandoned call has put its container in doubt and that
  a request is clean until it meets one (`DoubtCovers`), what a clean request has
  done at each step (`Progress`), and that what a call has checked of the lock
  file still holds when it writes it (`ChecksHold`), although the code does not
  look again.
- `TenantInvariant`, `CommitsDurable`, `RecordsKept`: whatever combination of
  failing appends, snapshots and renames and of crashes. Durability needs three
  layers: who is about to write has the lock and what it writes is memory's
  (`LockInv`), the keys of the log are bounded (`FilesInv`), and, on logs that
  fit, the next key is above every key in use (`MemoryInv`), so that an append
  never replaces a record and `Replay` of the longer log is the state.
  `LastWriteIsLast` and `ReplayAppended` are the facts about `Replay`.
- `SharedInvariant`, `UpdatesNotLost`, `LogsFit`: the lock has the one request at
  work (`HolderInv`), a cache that passes for fresh is the file (`CacheInv`), and
  the holder's copy has everything the file has (`CopiesInv`); the last two until
  an intrusion. From them no step of the holder removes an update.

Each inductive invariant was first checked by TLC on the instance of its run.

Only model-checked: all liveness (`RunsEnd`, `StopsEnd`, `CollectorReturns`,
`AcquireEnds`, `RequestsEnd`, `SearchEnds`), which is out of the prover's reach;
and `RestartPreserves`, which does not hold. Every invariant, action property and
refinement that a passing run checks is a theorem.
`GraphGrounded`, `SessionTypes` and `OrchestratorTypes` are proved and have no run:
what they say is part of the invariants from which the others follow.

## 5. Plan

Done: AgentLifecycle, AgentPool, TaskGraph, GraphSearch, PtySession,
Orchestrator; PidLock, MeshState, Subsidiary, TenantStore, SharedDb; the proofs
of all safety properties that their runs check.

Left, in this order:

1. PidLock shown to implement the mutex that Subsidiary assumes, up to the first
   fault.
2. Subsidiary's container in place of the one of Orchestrator.
3. The Discord recorder's recovery, bitswap credits of `swarm/`, the session
   table of `comms/`.

### Not modelled

The repository has some 125,000 lines of Rust, and most of them keep no state
that two steps could disagree about: request surfaces and the command line
(parse, call, format), wire formats, cryptography and proof systems, and user
interfaces. They are listed in `PROJECT.json` with their reasons. In short:

- cryptography, ZK circuits, PUF, verifier, VC: functions of bytes, with
  correctness that rests on hardness assumptions;
- governor, sheaf and other numeric code: floating point;
- hardware measurements, container runtime, libp2p, EVM: outside of the
  repository; they appear only as what the code that calls them can observe;
- dashboard, MCP and command-line handlers that only read, or make one call:
  modelled through what they call;
- pod policies, capability checks, SQL: decisions on one request, which the unit
  tests enumerate as well as a model would.
