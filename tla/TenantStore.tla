------------------------------ MODULE TenantStore ------------------------------
(***************************************************************************)
(* One tenant of MultiTenantNucleusDb and its files: commits go to memory  *)
(* and then to the write-ahead log, a checkpoint saves a snapshot and      *)
(* begins a new log, and after a crash the tenant is registered again,     *)
(* from its log or anew (multitenant.rs, persistence.rs, protocol.rs).     *)
(*                                                                         *)
(* The database is a vector of cells, a commit writes its own number into  *)
(* one cell, and zero stands for a cell without a value.  Of the entries   *)
(* and the CT leaves, which grow together, their number matters: it is the *)
(* height of the last commit and the key of its log record.  Commits that  *)
(* are refused change nothing and are left out; the witness keys are those *)
(* of the configuration, so that signing never fails for some commits.     *)
(***************************************************************************)
EXTENDS Naturals, FiniteSets

CONSTANTS
    Clients,      \* threads of the API server
    Cells,        \* the state vector's indices
    Faults,       \* what may go wrong: a subset of FaultKinds
    MaxCommits,   \* bound on commits
    NoFile        \* a file that does not exist

FaultKinds == {"append", "snapshot", "rename", "reregister"}

ASSUME TenantAssumption ==
    /\ Faults \subseteq FaultKinds
    /\ MaxCommits \in Nat
    /\ NoFile \notin [Cells -> Nat]

VARIABLES
    open,     \* is the tenant registered
    state,    \* db.state
    count,    \* the number of db.entries
    base,     \* the log's initial_state, or NoFile
    events,   \* the log's records: a function from sequence numbers to deltas
    snap,     \* the snapshot file
    pc,       \* what each client does, and so the lock it has on the database
    delta,    \* the commit it is about to log
    tmp,      \* the new log it has written beside the old one
    commits,  \* commits so far
    acked,    \* the last acknowledged commit of each cell
    astray    \* was the tenant ever opened on a log that does not fit it

vars == <<open, state, count, base, events, snap, pc, delta, tmp, commits, acked, astray>>

States == [Cells -> Nat]
Deltas == [cell : Cells, id : Nat]
Blank == [c \in Cells |-> 0]
NoDelta == [id |-> 0]
NoEvents == [k \in {} |-> NoDelta]

TenantTypeOK ==
    /\ open \in BOOLEAN /\ astray \in BOOLEAN
    /\ state \in States /\ acked \in States
    /\ count \in Nat /\ commits \in Nat
    /\ base \in States \cup {NoFile} /\ snap \in States \cup {NoFile}
    /\ DOMAIN events \subseteq Nat
    /\ events \in [DOMAIN events -> Deltas]
    /\ pc \in [Clients -> {"idle", "append", "snapshot", "write", "rename", "removed"}]
    /\ delta \in [Clients -> Deltas \cup {NoDelta}]
    /\ tmp \in [Clients -> States \cup {NoFile}]

TenantInit ==
    /\ open = FALSE /\ state = Blank /\ count = 0
    /\ base = NoFile /\ events = NoEvents /\ snap = NoFile
    /\ pc = [c \in Clients |-> "idle"]
    /\ delta = [c \in Clients |-> NoDelta]
    /\ tmp = [c \in Clients |-> NoFile]
    /\ commits = 0 /\ acked = Blank /\ astray = FALSE

Go(c, there) == pc' = [pc EXCEPT ![c] = there]

(* The RwLock on the database: a commit has it for itself, checkpoints     *)
(* share it.                                                               *)
NoWriter == \A c \in Clients : pc[c] # "append"
NoReader == \A c \in Clients : pc[c] \in {"idle", "append"}

--------------------------------------------------------------------------------
(* What load_wal computes: the records applied to initial_state in the     *)
(* order of their keys.                                                    *)
Writes(log, cell) == {k \in DOMAIN log : log[k].cell = cell}
LastWrite(log, cell) == CHOOSE k \in Writes(log, cell) : \A l \in Writes(log, cell) : l <= k
Replay(from, log) ==
    [cell \in Cells |->
        IF Writes(log, cell) = {} THEN from[cell] ELSE log[LastWrite(log, cell)].id]

(* Mutation of CommitAs: the lock is taken for reading.                    *)
CommitShared(c, cell) ==
    /\ open /\ pc[c] = "idle" /\ NoWriter
    /\ commits < MaxCommits
    /\ commits' = commits + 1
    /\ state' = [state EXCEPT ![cell] = commits + 1]
    /\ count' = count + 1
    /\ delta' = [delta EXCEPT ![c] = [cell |-> cell, id |-> commits + 1]]
    /\ Go(c, "append")
    /\ UNCHANGED <<open, base, events, snap, tmp, acked, astray>>

(* commit_as takes the write lock and commits in memory.                   *)
CommitAs(c, cell) ==
    /\ open /\ pc[c] = "idle"
    /\ NoWriter /\ NoReader
    /\ commits < MaxCommits
    /\ commits' = commits + 1
    /\ state' = [state EXCEPT ![cell] = commits + 1]
    /\ count' = count + 1
    /\ delta' = [delta EXCEPT ![c] = [cell |-> cell, id |-> commits + 1]]
    /\ Go(c, "append")
    /\ UNCHANGED <<open, base, events, snap, tmp, acked, astray>>

LogWith(log, key, record) ==
    [k \in DOMAIN log \cup {key} |-> IF k = key THEN record ELSE log[k]]

(* Mutation of AppendWalEvent: the key is the commit's index.              *)
AppendAtIndex(c) ==
    /\ pc[c] = "append" /\ base # NoFile
    /\ events' = LogWith(events, IF count = 1 THEN 1 ELSE count - 1, delta[c])
    /\ acked' = [acked EXCEPT ![delta[c].cell] = delta[c].id]
    /\ Go(c, "idle")
    /\ delta' = [delta EXCEPT ![c] = NoDelta]
    /\ UNCHANGED <<open, state, count, base, snap, tmp, commits, astray>>

(* append_wal_event, still under the lock; the client gets its answer.     *)
AppendWalEvent(c) ==
    /\ pc[c] = "append" /\ base # NoFile
    /\ events' = LogWith(events, count, delta[c])
    /\ acked' = [acked EXCEPT ![delta[c].cell] = delta[c].id]
    /\ Go(c, "idle")
    /\ delta' = [delta EXCEPT ![c] = NoDelta]
    /\ UNCHANGED <<open, state, count, base, snap, tmp, commits, astray>>

(* The record cannot be written, or the log has no metadata: the client    *)
(* gets an error, and the commit stays in memory.                          *)
AppendFails(c) ==
    /\ pc[c] = "append"
    /\ base = NoFile \/ "append" \in Faults
    /\ Go(c, "idle")
    /\ delta' = [delta EXCEPT ![c] = NoDelta]
    /\ UNCHANGED <<open, state, count, base, events, snap, tmp, commits, acked, astray>>

--------------------------------------------------------------------------------
(* checkpoint_tenant and save_tenant_snapshot_as take the read lock.       *)
Checkpoint(c) ==
    /\ open /\ pc[c] = "idle" /\ NoWriter
    /\ Go(c, "snapshot")
    /\ UNCHANGED <<open, state, count, base, events, snap, delta, tmp, commits, acked, astray>>

(* save_snapshot is one transaction; a plain snapshot ends here.           *)
SaveSnapshot(c) ==
    /\ pc[c] = "snapshot"
    /\ \/ snap' = state /\ (Go(c, "write") \/ Go(c, "idle"))
       \/ "snapshot" \in Faults /\ Go(c, "idle") /\ UNCHANGED snap
    /\ UNCHANGED <<open, state, count, base, events, delta, tmp, commits, acked, astray>>

(* truncate_wal writes a new log beside the old one ...                    *)
WriteNewWal(c) ==
    /\ pc[c] = "write"
    /\ \/ tmp' = [tmp EXCEPT ![c] = state] /\ Go(c, "rename")
       \/ "snapshot" \in Faults /\ Go(c, "idle") /\ UNCHANGED tmp
    /\ UNCHANGED <<open, state, count, base, events, snap, delta, commits, acked, astray>>

Renamed(c) ==
    /\ base' = tmp[c] /\ events' = NoEvents
    /\ tmp' = [tmp EXCEPT ![c] = NoFile]
    /\ Go(c, "idle")
    /\ UNCHANGED <<open, state, count, snap, delta, commits, acked, astray>>

(* ... and renames it over the old one.                                    *)
RenameWal(c) == pc[c] = "rename" /\ Renamed(c)

(* The rename fails: the old log is removed first, if there is one.        *)
RenameFails(c) ==
    /\ pc[c] = "rename" /\ "rename" \in Faults
    /\ \/ /\ base # NoFile
          /\ base' = NoFile /\ events' = NoEvents
          /\ Go(c, "removed")
          /\ UNCHANGED tmp
       \/ /\ base = NoFile
          /\ tmp' = [tmp EXCEPT ![c] = NoFile]
          /\ Go(c, "idle")
          /\ UNCHANGED <<base, events>>
    /\ UNCHANGED <<open, state, count, snap, delta, commits, acked, astray>>

RenameAgain(c) ==
    /\ pc[c] = "removed"
    /\ \/ Renamed(c)
       \/ /\ tmp' = [tmp EXCEPT ![c] = NoFile]
          /\ Go(c, "idle")
          /\ UNCHANGED <<open, state, count, base, events, snap, delta, commits, acked, astray>>

(* ensure_wal_initialized: only a log that does not exist is written.      *)
EnsureWalInitialized(c) ==
    /\ open /\ pc[c] = "idle" /\ NoWriter
    /\ base = NoFile
    /\ base' = state /\ events' = NoEvents
    /\ UNCHANGED <<open, state, count, snap, pc, delta, tmp, commits, acked, astray>>

--------------------------------------------------------------------------------
(* The server dies; the new logs not yet renamed are of no use to anybody. *)
Crash ==
    /\ open
    /\ open' = FALSE
    /\ state' = Blank /\ count' = 0
    /\ pc' = [c \in Clients |-> "idle"]
    /\ delta' = [c \in Clients |-> NoDelta]
    /\ tmp' = [c \in Clients |-> NoFile]
    /\ UNCHANGED <<base, events, snap, commits, acked, astray>>

(* The next commit's key is one more than the number of entries: the log   *)
(* fits if its records have the numbers up to there.                       *)
Fits(n) == DOMAIN events = 1..n

(* register_tenant_from_wal: load_wal asks that keys, sequence numbers and *)
(* heights agree, which they do, and not that there is no gap.             *)
RegisterFromWal ==
    /\ ~open /\ base # NoFile
    /\ open' = TRUE
    /\ state' = Replay(base, events)
    /\ count' = Cardinality(DOMAIN events)
    /\ astray' = (astray \/ ~Fits(Cardinality(DOMAIN events)))
    /\ UNCHANGED <<base, events, snap, pc, delta, tmp, commits, acked>>

(* register_tenant_with_wal_path for a blank database: init_wal writes the *)
(* log, or accepts one that began with the same state, records and all.    *)
(* Only then is it found out whether the tenant is registered already.     *)
Register ==
    /\ base = NoFile \/ base = Blank
    /\ (snap = NoFile /\ events = NoEvents) \/ "reregister" \in Faults
    /\ base' = Blank
    /\ \/ ~open /\ open' = TRUE /\ state' = Blank /\ count' = 0
       \/ open /\ base = NoFile /\ UNCHANGED <<open, state, count>>
    /\ astray' = (astray \/ ~Fits(0) \/ snap # NoFile)
    /\ UNCHANGED <<events, snap, pc, delta, tmp, commits, acked>>

ClientStep(c) ==
    \/ \E cell \in Cells : CommitAs(c, cell)
    \/ AppendWalEvent(c) \/ AppendFails(c)
    \/ Checkpoint(c) \/ SaveSnapshot(c) \/ WriteNewWal(c)
    \/ RenameWal(c) \/ RenameFails(c) \/ RenameAgain(c)
    \/ EnsureWalInitialized(c)

TenantNext ==
    \/ \E c \in Clients : ClientStep(c)
    \/ Crash \/ RegisterFromWal \/ Register

TenantSpec == TenantInit /\ [][TenantNext]_vars

--------------------------------------------------------------------------------
(* What the files hold: the log, or the snapshot where there is no log.    *)
Stored == IF base # NoFile THEN Replay(base, events)
          ELSE IF snap # NoFile THEN snap ELSE Blank

(* As long as the tenant was only opened on logs that fit it, no           *)
(* acknowledged commit is missing from its files, at any moment a crash    *)
(* may come: each cell holds the last commit that was acknowledged for it, *)
(* or a later one (multitenant.rs:337-361, 540-561; persistence.rs:354-376).*)
Durable == ~astray => \A cell \in Cells : acked[cell] <= Stored[cell]

(* No record of the log is ever replaced by another commit's; the log      *)
(* loses its records only all at once (persistence.rs:252-272).            *)
EventsKept ==
    [][\/ astray
       \/ events' = NoEvents
       \/ \A k \in DOMAIN events : k \in DOMAIN events' /\ events'[k] = events[k]]_vars

(* What holds in any case: every client that is about to write has what it *)
(* writes from the database as it is, since nobody else has the lock.      *)
LockInv ==
    /\ \A c \in Clients : pc[c] # "idle" => open
    /\ \A c, d \in Clients : pc[c] = "append" /\ d # c => pc[d] = "idle"
    /\ \A c \in Clients : pc[c] \in {"rename", "removed"} => tmp[c] = state
    /\ \A c \in Clients : pc[c] \in {"write", "rename", "removed"} => snap = state
    /\ \A c \in Clients : pc[c] = "append" =>
          /\ delta[c] \in Deltas
          /\ delta[c].id = commits /\ state[delta[c].cell] = commits
          /\ count >= 1

FilesInv ==
    /\ count <= commits
    /\ DOMAIN events \subseteq 1..commits
    /\ base = NoFile => events = NoEvents
    /\ \A cell \in Cells : acked[cell] <= commits

(* What a log that fits gives: the next key is above every key in use.     *)
MemoryInv ==
    open =>
        /\ DOMAIN events \subseteq 1..count
        /\ \A cell \in Cells : acked[cell] <= state[cell]
        /\ (\E c \in Clients : pc[c] = "append") => count \notin DOMAIN events

TenantInv ==
    /\ TenantTypeOK
    /\ LockInv
    /\ FilesInv
    /\ ~astray => MemoryInv /\ Durable

(* What the tests of recovery expect (tests/end_to_end.rs:868): after a    *)
(* checkpoint and a restart from the log, the tenant has the acknowledged  *)
(* values.                                                                 *)
RestartPreserves == \A cell \in Cells : acked[cell] <= Stored[cell]
================================================================================
