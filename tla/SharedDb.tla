------------------------------- MODULE SharedDb -------------------------------
(***************************************************************************)
(* One NucleusDB snapshot file and its log with many users.  Each of them  *)
(* loads the whole snapshot, changes its copy, saves the copy as the new   *)
(* snapshot and then begins a new log (persist_snapshot_and_sync_wal).     *)
(*                                                                         *)
(* Requests are the dashboard's handlers, which do this under db_lock, the *)
(* memory ones through a cache that a file fingerprint keeps fresh.  The   *)
(* skill handlers hold the lock while a blocking task does the work: when  *)
(* the client goes away the lock is free and the task, an orphan, goes on. *)
(* Outsiders use the same file without that lock: TraceWriters of          *)
(* `agenthalo run`, memory turns of the orchestrator, an MCP service with  *)
(* a copy of its own.                                                      *)
(*                                                                         *)
(* A database is the set of updates it holds.  Every save gives the file   *)
(* another fingerprint, so that of a fingerprint it only matters whether   *)
(* it is still the file's.                                                 *)
(***************************************************************************)
EXTENDS Naturals

CONSTANTS
    Requests,     \* dashboard requests
    Outsiders,    \* users without db_lock
    MaxUpdates,   \* bound on updates
    NoUser,       \* db_lock is free
    NoFile        \* a file that does not exist, a cache that is empty

Users == Requests \cup Outsiders
Updates == Nat \ {0}

ASSUME SharedAssumption ==
    /\ Requests \cap Outsiders = {}
    /\ NoUser \notin Users
    /\ NoFile \notin SUBSET Updates

VARIABLES
    lock,      \* who has db_lock
    pc,        \* where each user is
    job,       \* what it is doing
    copy,      \* its copy of the database
    seen,      \* is the fingerprint it has read still the file's
    snap,      \* the snapshot file; one that does not exist loads as empty
    base,      \* the state the log begins with
    cached,    \* memory_db_cache.db
    fresh,     \* is memory_db_cache.file_fingerprint the file's
    made,      \* updates so far
    intruded,  \* did somebody without the lock save amid somebody else's work
    torn       \* did a persist end between the snapshot and the log

vars == <<lock, pc, job, copy, seen, snap, base, cached, fresh, made, intruded, torn>>
files == <<snap, base>>
cache == <<cached, fresh>>
ghosts == <<intruded, torn>>

(* How a user gets its copy: with load_snapshot, through the cache, or     *)
(* with a check of the log, once or for as long as the service lives.      *)
RequestJobs == {"plain", "memory", "trace", "skill"}
OutsideJobs == {"plain", "trace", "service"}
Jobs == RequestJobs \cup OutsideJobs \cup {"none", "orphan"}
Places == {"idle", "load", "fetch", "initwal", "work", "save", "truncate", "stamp", "open",
           "created"}

SharedTypeOK ==
    /\ lock \in Requests \cup {NoUser}
    /\ pc \in [Users -> Places]
    /\ job \in [Users -> Jobs]
    /\ copy \in [Users -> SUBSET Updates]
    /\ seen \in [Users -> BOOLEAN]
    /\ snap \in SUBSET Updates
    /\ base \in (SUBSET Updates) \cup {NoFile}
    /\ cached \in (SUBSET Updates) \cup {NoFile}
    /\ fresh \in BOOLEAN /\ intruded \in BOOLEAN /\ torn \in BOOLEAN
    /\ made \in Nat

SharedInit ==
    /\ lock = NoUser
    /\ pc = [u \in Users |-> "idle"]
    /\ job = [u \in Users |-> "none"]
    /\ copy = [u \in Users |-> {}]
    /\ seen = [u \in Users |-> FALSE]
    /\ snap = {} /\ base = NoFile
    /\ cached = NoFile /\ fresh = FALSE
    /\ made = 0
    /\ intruded = FALSE /\ torn = FALSE

Go(u, there) == pc' = [pc EXCEPT ![u] = there]

(* The handler returns; its copy is dropped and so is its guard.           *)
Return(u) ==
    /\ Go(u, "idle")
    /\ copy' = [copy EXCEPT ![u] = {}]
    /\ job' = [job EXCEPT ![u] = "none"]
    /\ lock' = IF lock = u THEN NoUser ELSE lock

(* A service keeps its copy.                                               *)
Leave(u) ==
    IF job[u] = "service" THEN Go(u, "open") /\ UNCHANGED <<copy, job, lock>> ELSE Return(u)

ThroughCache(u) == job[u] = "memory"
ChecksWal(u) == job[u] \in {"trace", "service"}

--------------------------------------------------------------------------------
(* Mutation of Acquire: nobody waits.                                      *)
AcquireAnyway(u, j) ==
    /\ pc[u] = "idle"
    /\ lock' = u
    /\ job' = [job EXCEPT ![u] = j]
    /\ Go(u, "load")
    /\ UNCHANGED <<copy, seen, files, cache, made, ghosts>>

(* A request gets db_lock.                                                *)
Acquire(u, j) ==
    /\ pc[u] = "idle" /\ lock = NoUser
    /\ lock' = u
    /\ job' = [job EXCEPT ![u] = j]
    /\ Go(u, "load")
    /\ UNCHANGED <<copy, seen, files, cache, made, ghosts>>

(* The client of a skill request goes away: the handler is dropped, and    *)
(* with it the lock.                                                       *)
ClientGone(u) ==
    /\ job[u] = "skill"
    /\ job' = [job EXCEPT ![u] = "orphan"]
    /\ lock' = NoUser
    /\ UNCHANGED <<pc, copy, seen, files, cache, made, ghosts>>

(* An outsider just begins.                                                *)
Begin(u, j) ==
    /\ pc[u] = "idle"
    /\ job' = [job EXCEPT ![u] = j]
    /\ Go(u, "load")
    /\ UNCHANGED <<lock, copy, seen, files, cache, made, ghosts>>

(* load_halo_db and its like.                                              *)
Load(u) ==
    /\ pc[u] = "load" /\ ~ThroughCache(u)
    /\ copy' = [copy EXCEPT ![u] = snap]
    /\ Go(u, IF ChecksWal(u) THEN "initwal" ELSE "work")
    /\ UNCHANGED <<lock, job, seen, files, cache, made, ghosts>>

(* Mutation of Refresh: what is cached is used.                            *)
RefreshOnce(u) ==
    /\ pc[u] = "load" /\ ThroughCache(u)
    /\ \/ cached # NoFile /\ copy' = [copy EXCEPT ![u] = cached] /\ Go(u, "work")
          /\ UNCHANGED seen
       \/ cached = NoFile /\ seen' = [seen EXCEPT ![u] = TRUE] /\ Go(u, "fetch")
          /\ UNCHANGED copy
    /\ UNCHANGED <<lock, job, files, cache, made, ghosts>>

(* refresh_memory_db_cache_locked reads the file's fingerprint; if the     *)
(* cache has the same one, it is used ...                                  *)
Refresh(u) ==
    /\ pc[u] = "load" /\ ThroughCache(u)
    /\ \/ /\ cached # NoFile /\ fresh
          /\ copy' = [copy EXCEPT ![u] = cached]
          /\ Go(u, "work")
          /\ UNCHANGED seen
       \/ /\ cached = NoFile \/ ~fresh
          /\ seen' = [seen EXCEPT ![u] = TRUE]
          /\ Go(u, "fetch")
          /\ UNCHANGED copy
    /\ UNCHANGED <<lock, job, files, cache, made, ghosts>>

(* ... and else the file is loaded, which may have changed since.          *)
Fetch(u) ==
    /\ pc[u] = "fetch"
    /\ cached' = snap
    /\ fresh' = seen[u]
    /\ seen' = [seen EXCEPT ![u] = FALSE]
    /\ copy' = [copy EXCEPT ![u] = snap]
    /\ Go(u, "work")
    /\ UNCHANGED <<lock, job, files, made, ghosts>>

(* The file cannot be opened, because somebody else has it open, or be     *)
(* read or written.  A service keeps the update in memory.                 *)
Fails(u) ==
    /\ pc[u] \in {"load", "fetch", "save"}
    /\ IF pc[u] = "load" THEN Return(u) ELSE Leave(u)
    /\ UNCHANGED <<seen, files, cache, made, ghosts>>

(* TraceWriter::new and the service's load_state call init_wal: a log that *)
(* is not there is written, and one that begins with another state is an   *)
(* error.                                                                  *)
InitWal(u) ==
    /\ pc[u] = "initwal"
    /\ \/ /\ base \in {NoFile, copy[u]}
          /\ base' = copy[u]
          /\ Go(u, IF job[u] = "service" THEN "open" ELSE "work")
          /\ UNCHANGED <<lock, job, copy>>
       \/ /\ base \notin {NoFile, copy[u]}
          /\ Return(u)
          /\ UNCHANGED base
    /\ UNCHANGED <<seen, snap, cache, made, ghosts>>

--------------------------------------------------------------------------------
(* The copy gets an update and is to be saved.                             *)
Change(u) ==
    /\ made < MaxUpdates
    /\ made' = made + 1
    /\ copy' = [copy EXCEPT ![u] = @ \cup {made + 1}]
    /\ Go(u, "save")
    /\ UNCHANGED <<lock, job>>

(* The request is refused, or commits nothing.                             *)
Refuse(u) == Return(u) /\ UNCHANGED made

Working(u, j) ==
    /\ pc[u] = "work" /\ job[u] = j
    /\ UNCHANGED <<seen, files, cache, ghosts>>

Search(u) == Go(u, "save") /\ UNCHANGED <<lock, job, copy, made>>

EditKey(u) == Working(u, "plain") /\ (Change(u) \/ Refuse(u))
RunSql(u) == Working(u, "plain") /\ (Change(u) \/ Refuse(u))
StoreMemory(u) == Working(u, "memory") /\ (Change(u) \/ Refuse(u))

(* Searches count accesses in the vector index and save the database.  The *)
(* cached copy is counted in place, before the save; a save that fails     *)
(* leaves the counts in it, which are no updates.                          *)
VectorSearch(u) == Working(u, "plain") /\ Search(u)
RecallMemory(u) == Working(u, "memory") /\ Search(u)

(* Resetting gov-memory saves the database with its governor reset.        *)
ResetGovernor(u) == Working(u, "plain") /\ Search(u)

(* A session's events are committed to the writer's copy only; end_session *)
(* or record_paid_operation saves it.  A writer may be dropped before.     *)
WriteTrace(u) == Working(u, "trace") /\ (Change(u) \/ Refuse(u))

(* persist_memory_turn.                                                    *)
MemoryTurn(u) == Working(u, "plain") /\ (Change(u) \/ Refuse(u))

(* upsert_skill, and delete_skill, which writes a tombstone, if there is   *)
(* anything to delete.                                                     *)
SaveSkill(u) == \E j \in {"skill", "orphan"} : Working(u, j) /\ (Change(u) \/ Refuse(u))

(* A tool of the MCP service works on the service's own copy.              *)
ServiceTool(u) ==
    /\ pc[u] = "open"
    /\ Change(u)
    /\ UNCHANGED <<seen, files, cache, ghosts>>

(* nucleusdb_checkpoint saves the service's copy as it is.                 *)
ServiceCheckpoint(u) ==
    /\ pc[u] = "open"
    /\ Search(u)
    /\ UNCHANGED <<seen, files, cache, ghosts>>

--------------------------------------------------------------------------------
(* Does r have a copy that it is going to save, or has just saved?         *)
Holding(r) == pc[r] \in {"initwal", "work", "save", "truncate", "stamp"}

Unlocked(u) == u \in Outsiders \/ job[u] = "orphan"

(* A save without the lock that takes place beside the request that has    *)
(* it, or that does not know of an update in the file.                     *)
Intrudes(u, db) ==
    /\ Unlocked(u)
    /\ (\E r \in Requests : lock = r /\ Holding(r)) \/ ~(snap \subseteq db)

(* Mutation of SaveSnapshot: the log is left as it is.                     *)
SaveWithoutLog(u) ==
    /\ pc[u] = "save"
    /\ snap' = copy[u]
    /\ fresh' = FALSE
    /\ seen' = [v \in Users |-> FALSE]
    /\ intruded' = (intruded \/ Intrudes(u, copy[u]))
    /\ Leave(u)
    /\ UNCHANGED <<base, cached, made, torn>>

(* persist_snapshot_and_sync_wal: first the snapshot ...                   *)
SaveSnapshot(u) ==
    /\ pc[u] = "save"
    /\ snap' = copy[u]
    /\ fresh' = FALSE
    /\ seen' = [v \in Users |-> FALSE]
    /\ intruded' = (intruded \/ Intrudes(u, copy[u]))
    /\ Go(u, "truncate")
    /\ UNCHANGED <<lock, job, copy, base, cached, made, torn>>

(* ... then the log.                                                       *)
TruncateWal(u) ==
    /\ pc[u] = "truncate"
    /\ base' = copy[u]
    /\ torn' = (torn /\ copy[u] # snap)
    /\ intruded' = (intruded \/ (Unlocked(u) /\ copy[u] # snap))
    /\ IF ThroughCache(u) THEN Go(u, "stamp") /\ UNCHANGED <<lock, job, copy>> ELSE Leave(u)
    /\ UNCHANGED <<seen, snap, cache, made>>

TruncateFails(u) ==
    /\ pc[u] = "truncate"
    /\ torn' = TRUE
    /\ Leave(u)
    /\ UNCHANGED <<seen, files, cache, made, intruded>>

(* The cache gets the copy, and the fingerprint the file has now.          *)
StampCache(u) ==
    /\ pc[u] = "stamp"
    /\ cached' = copy[u]
    /\ fresh' = TRUE
    /\ Leave(u)
    /\ UNCHANGED <<seen, files, made, ghosts>>

(* nucleusdb_create_database for the file in use: an empty snapshot takes  *)
(* its place, and only then does init_wal look at the log.  If that fails  *)
(* the service goes on with the database it had.                           *)
CreateDatabase(u) ==
    /\ pc[u] = "open"
    /\ snap' = {}
    /\ fresh' = FALSE
    /\ seen' = [v \in Users |-> FALSE]
    /\ intruded' = (intruded \/ Intrudes(u, {}))
    /\ Go(u, "created")
    /\ UNCHANGED <<lock, job, copy, base, cached, made, torn>>

InitCreatedWal(u) ==
    /\ pc[u] = "created"
    /\ Go(u, "open")
    /\ \/ /\ base \in {NoFile, {}}
          /\ base' = {}
          /\ copy' = [copy EXCEPT ![u] = {}]
       \/ base \notin {NoFile, {}} /\ UNCHANGED <<base, copy>>
    /\ UNCHANGED <<lock, job, seen, snap, cache, made, ghosts>>

(* The dashboard's process, or an outsider's, dies.                        *)
Die(gone) ==
    /\ pc' = [u \in Users |-> IF u \in gone THEN "idle" ELSE pc[u]]
    /\ copy' = [u \in Users |-> IF u \in gone THEN {} ELSE copy[u]]
    /\ job' = [u \in Users |-> IF u \in gone THEN "none" ELSE job[u]]
    /\ seen' = [u \in Users |-> IF u \in gone THEN FALSE ELSE seen[u]]
    /\ torn' = (torn \/ \E u \in gone : pc[u] = "truncate")
    /\ UNCHANGED <<files, made, intruded>>

DashboardDies ==
    /\ Die(Requests)
    /\ lock' = NoUser
    /\ cached' = NoFile /\ fresh' = FALSE

OutsiderDies(u) == pc[u] # "idle" /\ Die({u}) /\ UNCHANGED <<lock, cache>>

Persist(u) == SaveSnapshot(u) \/ TruncateWal(u) \/ TruncateFails(u) \/ StampCache(u)

RequestStep(u) ==
    \/ Load(u) \/ Refresh(u) \/ Fetch(u) \/ InitWal(u)
    \/ EditKey(u) \/ RunSql(u) \/ StoreMemory(u) \/ VectorSearch(u) \/ RecallMemory(u)
    \/ WriteTrace(u) \/ SaveSkill(u) \/ ResetGovernor(u) \/ ClientGone(u)
    \/ Persist(u) \/ Fails(u)

OutsiderStep(u) ==
    \/ \E j \in OutsideJobs : Begin(u, j)
    \/ Load(u) \/ InitWal(u)
    \/ MemoryTurn(u) \/ WriteTrace(u)
    \/ ServiceTool(u) \/ ServiceCheckpoint(u) \/ CreateDatabase(u) \/ InitCreatedWal(u)
    \/ SaveSnapshot(u) \/ TruncateWal(u) \/ TruncateFails(u) \/ Fails(u)
    \/ OutsiderDies(u)

SharedNext ==
    \/ \E u \in Requests : \/ \E j \in RequestJobs : Acquire(u, j)
                           \/ RequestStep(u)
    \/ \E u \in Outsiders : OutsiderStep(u)
    \/ DashboardDies

SharedSpec == SharedInit /\ [][SharedNext]_vars

--------------------------------------------------------------------------------
(* An update in the file stays in the file, whatever fails or dies, as     *)
(* long as nobody without the lock saves amid somebody else's work: no     *)
(* request with the lock overwrites another's update, not even one that    *)
(* starts from the cache (dashboard/api.rs:10498-10520, 10859-10874).      *)
NothingLost == [][intruded' \/ snap \subseteq snap']_vars

(* A TraceWriter can be opened: the log begins with the snapshot, unless   *)
(* a persist was interrupted and nobody has saved since                    *)
(* (halo/trace.rs:66, persistence.rs:132-140, 205-226).                    *)
NobodyTruncates == \A u \in Users : pc[u] # "truncate"
Openable == ~intruded /\ ~torn /\ NobodyTruncates => base \in {NoFile, snap}

(* The lock is held by the one request at work, orphans apart; a cache     *)
(* whose fingerprint is the file's holds the file; that request's copy has *)
(* everything the file has; and a log that does not exist is that of an    *)
(* empty database.                                                         *)
HolderInv == \A r \in Requests : lock = r <=> pc[r] # "idle" /\ job[r] # "orphan"
PlacesInv ==
    /\ \A r \in Requests :
          /\ pc[r] \notin {"open", "created"}
          /\ job[r] \in RequestJobs \cup {"none", "orphan"}
          /\ pc[r] = "idle" <=> job[r] = "none"
          /\ pc[r] \in {"fetch", "stamp"} => ThroughCache(r)
          /\ pc[r] = "initwal" => ChecksWal(r)
    /\ \A u \in Outsiders : pc[u] \notin {"fetch", "stamp"}
                            /\ job[u] \in OutsideJobs \cup {"none"}
CacheInv == fresh => cached = snap
CopiesInv ==
    /\ \A r \in Requests :
          /\ lock = r /\ pc[r] \in {"initwal", "work", "truncate", "stamp"} => copy[r] = snap
          /\ lock = r /\ pc[r] = "save" => snap \subseteq copy[r]
    /\ \A u \in Outsiders : pc[u] = "initwal" => copy[u] \subseteq snap
LogInv == ~torn /\ NobodyTruncates /\ base = NoFile => snap = {}

SharedInv ==
    /\ SharedTypeOK /\ HolderInv /\ PlacesInv
    /\ ~intruded => CacheInv /\ CopiesInv /\ LogInv /\ Openable
===============================================================================
