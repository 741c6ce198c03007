-------------------------- MODULE TenantStoreProofs --------------------------
(***************************************************************************)
(* Acknowledged commits survive crashes, for any number of clients, cells  *)
(* and commits and whatever combination of faults, as long as the tenant   *)
(* is opened on logs that fit it.                                          *)
(***************************************************************************)
EXTENDS TenantStore, Integers, FiniteSetTheorems, WellFoundedInduction, TLAPS

(* The order of the natural numbers as a relation.                         *)
LEMMA NatOrder ==
    \E R : IsWellFoundedOn(R, Nat) /\ \A x, y \in Nat : x < y => <<x, y>> \in R
<1>1. \A x, y \in Nat : x < y => <<x, y>> \in OpToRel(<, Nat)
  BY Zenon DEF OpToRel
<1> QED BY <1>1, NatLessThanWellFounded, Zenon

(* A bounded set of numbers has a greatest element.                        *)
LEMMA MaxExists ==
    ASSUME NEW n \in Nat, NEW T, T \subseteq 1..n, T # {}
    PROVE  \E m \in T : \A k \in T : k <= m
<1>1. PICK R : IsWellFoundedOn(R, Nat) /\ \A x, y \in Nat : x < y => <<x, y>> \in R
  BY NatOrder
<1> DEFINE S == {n - k : k \in T}
<1>2. S \subseteq Nat
  <2> SUFFICES ASSUME NEW k \in T PROVE n - k \in Nat
    OBVIOUS
  <2>1. k \in 1..n
    OBVIOUS
  <2> QED BY <2>1
<1>3. S # {}
  <2>1. PICK k : k \in T
    OBVIOUS
  <2>2. n - k \in S
    BY <2>1
  <2> QED BY <2>2
<1>4. PICK x \in S : \A y \in S : ~(<<y, x>> \in R)
  <2> HIDE DEF S
  <2>1. IsWellFoundedOn(R, Nat)
    BY <1>1
  <2> QED BY <1>2, <1>3, <2>1, WFMin, Zenon
<1>5. PICK m \in T : x = n - m
  OBVIOUS
<1>6. ASSUME NEW k \in T PROVE k <= m
  <2>1. k \in 1..n /\ m \in 1..n
    OBVIOUS
  <2>2. n - k \in S
    OBVIOUS
  <2>3. ~(<<n - k, n - m>> \in R)
    BY <1>4, <1>5, <2>2
  <2>4. ~(n - k < n - m)
    BY <1>1, <2>1, <2>3
  <2> QED BY <2>1, <2>4
<1> QED BY <1>6

(* The record that decides a cell is the one with the greatest key.        *)
LEMMA LastWriteIsLast ==
    ASSUME NEW n \in Nat, NEW log, DOMAIN log \subseteq 1..n, NEW cell,
           Writes(log, cell) # {}
    PROVE  /\ LastWrite(log, cell) \in Writes(log, cell)
           /\ \A l \in Writes(log, cell) : l <= LastWrite(log, cell)
<1>1. Writes(log, cell) \subseteq 1..n
  BY DEF Writes
<1>2. \E k \in Writes(log, cell) : \A l \in Writes(log, cell) : l <= k
  BY <1>1, MaxExists
<1> QED BY <1>2 DEF LastWrite

(* Replaying a log gives a state.                                          *)
LEMMA ReplayType ==
    ASSUME NEW n \in Nat, NEW log, DOMAIN log \subseteq 1..n, log \in [DOMAIN log -> Deltas],
           NEW from \in States
    PROVE  Replay(from, log) \in States
<1> SUFFICES ASSUME NEW cell \in Cells
             PROVE  (IF Writes(log, cell) = {} THEN from[cell]
                     ELSE log[LastWrite(log, cell)].id) \in Nat
  BY DEF Replay, States
<1>1. CASE Writes(log, cell) = {}
  BY <1>1 DEF States
<1>2. CASE Writes(log, cell) # {}
  <2>1. LastWrite(log, cell) \in DOMAIN log
    BY <1>2, LastWriteIsLast DEF Writes
  <2> QED BY <1>2, <2>1 DEF Deltas
<1> QED BY <1>1, <1>2

(* A record above all others decides its own cell and no other.            *)
LEMMA ReplayAppended ==
    ASSUME NEW n \in Nat, NEW log, DOMAIN log \subseteq 1..n, NEW key \in 1..n,
           key \notin DOMAIN log, \A k \in DOMAIN log : k < key,
           NEW record \in Deltas, NEW from, NEW cell \in Cells
    PROVE  Replay(from, LogWith(log, key, record))[cell]
               = IF cell = record.cell THEN record.id ELSE Replay(from, log)[cell]
<1> DEFINE new == LogWith(log, key, record)
<1>1. DOMAIN new = DOMAIN log \cup {key} /\ new[key] = record
      /\ \A k \in DOMAIN log : new[k] = log[k]
  BY DEF LogWith
<1>2. DOMAIN new \subseteq 1..n
  BY <1>1
<1> HIDE DEF new
<1>3. CASE cell = record.cell
  <2>1. key \in Writes(new, cell)
    BY <1>1, <1>3 DEF Writes
  <2>2. /\ LastWrite(new, cell) \in Writes(new, cell)
        /\ \A l \in Writes(new, cell) : l <= LastWrite(new, cell)
    BY <1>2, <2>1, LastWriteIsLast
  <2>3. LastWrite(new, cell) \in DOMAIN log \cup {key}
    BY <1>1, <2>2 DEF Writes
  <2>4. LastWrite(new, cell) = key
    BY <2>1, <2>2, <2>3
  <2> QED BY <1>1, <1>3, <2>1, <2>4 DEF Replay, new
<1>4. CASE cell # record.cell
  <2>1. Writes(new, cell) = Writes(log, cell)
    BY <1>1, <1>4 DEF Writes
  <2>2. LastWrite(new, cell) = LastWrite(log, cell)
    BY <2>1 DEF LastWrite
  <2>3. CASE Writes(log, cell) = {}
    BY <1>4, <2>1, <2>3 DEF Replay, new
  <2>4. CASE Writes(log, cell) # {}
    <3>1. LastWrite(log, cell) \in DOMAIN log
      BY <2>4, LastWriteIsLast DEF Writes
    <3> QED BY <1>1, <1>4, <2>1, <2>2, <2>4, <3>1 DEF Replay, new
  <2> QED BY <2>3, <2>4
<1> QED BY <1>3, <1>4

(* An empty log changes nothing.                                           *)
LEMMA ReplayEmpty ==
    ASSUME NEW log, DOMAIN log = {}, NEW from, NEW cell \in Cells
    PROVE  Replay(from, log)[cell] = from[cell]
  BY DEF Replay, Writes

--------------------------------------------------------------------------------
(* The first state has no tenant and no files.                             *)
LEMMA TenantInitInv == TenantInit => TenantInv
<1> SUFFICES ASSUME TenantInit PROVE TenantInv
  OBVIOUS
<1>1. TenantTypeOK
  BY DEF TenantInit, TenantTypeOK, NoEvents, Blank, States
<1>2. LockInv
  BY DEF TenantInit, LockInv
<1>3. FilesInv
  BY DEF TenantInit, FilesInv, NoEvents, Blank
<1>4. MemoryInv /\ Durable
  BY DEF TenantInit, MemoryInv, Durable, Stored, Blank
<1> QED BY <1>1, <1>2, <1>3, <1>4 DEF TenantInv

(* A commit in memory: the lock keeps everybody else out, and its number   *)
(* is above everything acknowledged.                                       *)
LEMMA CommitStep ==
    ASSUME TenantInv, NEW c \in Clients, NEW cell \in Cells, CommitAs(c, cell)
    PROVE  TenantInv'
<1> USE DEF TenantInv
<1>1. TenantTypeOK'
  BY DEF TenantTypeOK, CommitAs, Go, States, Deltas
<1>2. LockInv'
  BY DEF TenantTypeOK, LockInv, CommitAs, Go, NoWriter, NoReader, States, Deltas
<1>3. FilesInv'
  BY DEF TenantTypeOK, FilesInv, CommitAs, States
<1>4. ASSUME ~astray PROVE MemoryInv' /\ Durable'
  <2>1. MemoryInv'
    BY <1>4 DEF TenantTypeOK, MemoryInv, FilesInv, CommitAs, States
  <2>2. Stored' = Stored
    BY DEF CommitAs, Stored
  <2> QED BY <1>4, <2>1, <2>2 DEF Durable, CommitAs
<1> QED BY <1>1, <1>2, <1>3, <1>4 DEF CommitAs

(* The record of a commit goes above all others and holds what memory has. *)
LEMMA AppendStep ==
    ASSUME TenantInv, NEW c \in Clients, AppendWalEvent(c)
    PROVE  TenantInv'
<1> USE DEF TenantInv
<1>0. /\ delta[c] \in Deltas /\ delta[c].id = commits /\ delta[c].cell \in Cells
      /\ state[delta[c].cell] = commits /\ count \in 1..commits /\ open
      /\ count \in Nat /\ commits \in Nat
  BY DEF AppendWalEvent, LockInv, FilesInv, TenantTypeOK, Deltas
<1>1. TenantTypeOK'
  <2>1. DOMAIN events' = DOMAIN events \cup {count}
    BY DEF AppendWalEvent, LogWith
  <2>2. events' \in [DOMAIN events' -> Deltas]
    BY <1>0, <2>1 DEF AppendWalEvent, LogWith, TenantTypeOK
  <2>3. acked' \in States
    BY <1>0 DEF AppendWalEvent, TenantTypeOK, States
  <2>4. pc' \in [Clients -> {"idle", "append", "snapshot", "write", "rename", "removed"}]
        /\ delta' \in [Clients -> Deltas \cup {NoDelta}]
    BY DEF AppendWalEvent, Go, TenantTypeOK
  <2> QED BY <1>0, <2>1, <2>2, <2>3, <2>4 DEF AppendWalEvent, TenantTypeOK
<1>2. LockInv'
  BY DEF TenantTypeOK, LockInv, AppendWalEvent, Go
<1>3. FilesInv'
  BY <1>0 DEF TenantTypeOK, FilesInv, AppendWalEvent, LogWith, States
<1>4. ASSUME ~astray PROVE MemoryInv' /\ Durable'
  <2>1. count \notin DOMAIN events /\ DOMAIN events \subseteq 1..count
        /\ \A k \in DOMAIN events : k < count
    BY <1>0, <1>4 DEF AppendWalEvent, MemoryInv
  <2>2. MemoryInv'
    <3>1. DOMAIN events' \subseteq 1..count
      BY <1>0, <2>1 DEF AppendWalEvent, LogWith
    <3>2. \A d \in Clients : pc'[d] # "append"
      BY DEF TenantTypeOK, LockInv, AppendWalEvent, Go
    <3>3. \A cell \in Cells : acked'[cell] <= state[cell]
      BY <1>0, <1>4 DEF TenantTypeOK, States, AppendWalEvent, MemoryInv
    <3> QED BY <3>1, <3>2, <3>3 DEF MemoryInv, AppendWalEvent
  <2>3. ASSUME NEW cell \in Cells
        PROVE  Stored'[cell] = IF cell = delta[c].cell THEN commits ELSE Stored[cell]
    BY <1>0, <2>1, ReplayAppended DEF Stored, AppendWalEvent
  <2>4. \A cell \in Cells : acked'[cell] = IF cell = delta[c].cell THEN commits ELSE acked[cell]
    BY <1>0 DEF AppendWalEvent, TenantTypeOK, States
  <2> QED BY <1>0, <1>4, <2>2, <2>3, <2>4 DEF Durable
<1> QED BY <1>1, <1>2, <1>3, <1>4 DEF AppendWalEvent

(* Steps that touch neither memory nor the files.                          *)
LEMMA QuietStep ==
    ASSUME TenantInv, NEW c \in Clients, AppendFails(c) \/ Checkpoint(c) \/ WriteNewWal(c)
    PROVE  TenantInv'
<1> USE DEF TenantInv
<1>1. TenantTypeOK'
  BY DEF TenantTypeOK, AppendFails, Checkpoint, WriteNewWal, Go
<1>2. LockInv'
  BY DEF TenantTypeOK, LockInv, AppendFails, Checkpoint, WriteNewWal, Go, NoWriter
<1>3. FilesInv'
  BY DEF FilesInv, AppendFails, Checkpoint, WriteNewWal
<1>4. ASSUME ~astray PROVE MemoryInv' /\ Durable'
  <2>1. Stored' = Stored
    BY DEF Stored, AppendFails, Checkpoint, WriteNewWal
  <2>2. Durable'
    BY <1>4, <2>1 DEF Durable, AppendFails, Checkpoint, WriteNewWal
  <2>3. MemoryInv'
    BY <1>4 DEF TenantTypeOK, MemoryInv, AppendFails, Checkpoint, WriteNewWal, Go
  <2> QED BY <2>2, <2>3
<1> QED BY <1>1, <1>2, <1>3, <1>4 DEF AppendFails, Checkpoint, WriteNewWal

(* A snapshot holds what memory has, which is no less than what the files  *)
(* held.                                                                   *)
LEMMA SnapshotStep ==
    ASSUME TenantInv, NEW c \in Clients, SaveSnapshot(c)
    PROVE  TenantInv'
<1> USE DEF TenantInv
<1>0. open
  BY DEF SaveSnapshot, LockInv
<1>1. TenantTypeOK'
  BY DEF TenantTypeOK, SaveSnapshot, Go
<1>2. LockInv'
  BY DEF TenantTypeOK, LockInv, SaveSnapshot, Go
<1>3. FilesInv'
  BY DEF FilesInv, SaveSnapshot
<1>4. ASSUME ~astray PROVE MemoryInv' /\ Durable'
  <2>1. MemoryInv'
    BY <1>4 DEF TenantTypeOK, MemoryInv, SaveSnapshot, Go
  <2>2. CASE base # NoFile
    <3>1. Stored' = Stored
      BY <2>2 DEF Stored, SaveSnapshot
    <3> QED BY <1>4, <2>1, <3>1 DEF Durable, SaveSnapshot
  <2>3. CASE base = NoFile
    <3>1. Stored' = Stored \/ Stored' = state
      BY <2>3, TenantAssumption DEF Stored, SaveSnapshot, TenantTypeOK, States
    <3>2. \A cell \in Cells : acked[cell] <= state[cell]
      BY <1>0, <1>4 DEF MemoryInv
    <3> QED BY <1>4, <2>1, <3>1, <3>2 DEF Durable, SaveSnapshot
  <2> QED BY <2>2, <2>3
<1> QED BY <1>1, <1>2, <1>3, <1>4 DEF SaveSnapshot

(* The new log takes the place of the old one.                             *)
LEMMA RenamedStep ==
    ASSUME TenantInv, NEW c \in Clients, pc[c] \in {"rename", "removed"}, Renamed(c)
    PROVE  TenantInv'
<1> USE DEF TenantInv
<1>0. open /\ tmp[c] = state /\ state \in States /\ DOMAIN NoEvents = {}
  BY DEF LockInv, TenantTypeOK, NoEvents
<1>1. TenantTypeOK'
  BY <1>0 DEF TenantTypeOK, Renamed, Go, NoEvents
<1>2. LockInv'
  BY DEF TenantTypeOK, LockInv, Renamed, Go
<1>3. FilesInv'
  BY <1>0, TenantAssumption DEF FilesInv, Renamed, States
<1>4. ASSUME ~astray PROVE MemoryInv' /\ Durable'
  <2>1. MemoryInv'
    BY <1>0, <1>4 DEF TenantTypeOK, MemoryInv, Renamed, Go
  <2>2. \A cell \in Cells : Stored'[cell] = state[cell]
    BY <1>0, ReplayEmpty, TenantAssumption DEF Stored, Renamed, States
  <2>3. \A cell \in Cells : acked[cell] <= state[cell]
    BY <1>0, <1>4 DEF MemoryInv
  <2> QED BY <1>4, <2>1, <2>2, <2>3 DEF Durable, Renamed
<1> QED BY <1>1, <1>2, <1>3, <1>4 DEF Renamed

(* Without the old log the snapshot has everything.                        *)
LEMMA RenameFailsStep ==
    ASSUME TenantInv, NEW c \in Clients, RenameFails(c)
    PROVE  TenantInv'
<1> USE DEF TenantInv
<1>0. open /\ snap = state /\ state \in States /\ DOMAIN NoEvents = {}
  BY DEF LockInv, TenantTypeOK, NoEvents, RenameFails
<1>1. TenantTypeOK'
  BY <1>0 DEF TenantTypeOK, RenameFails, Go, NoEvents
<1>2. LockInv'
  BY DEF TenantTypeOK, LockInv, RenameFails, Go
<1>3. FilesInv'
  BY <1>0 DEF FilesInv, RenameFails
<1>4. ASSUME ~astray PROVE MemoryInv' /\ Durable'
  <2>1. MemoryInv'
    BY <1>0, <1>4 DEF TenantTypeOK, MemoryInv, RenameFails, Go
  <2>2. Stored' = snap
    BY <1>0, TenantAssumption DEF Stored, RenameFails, States
  <2>3. \A cell \in Cells : acked[cell] <= state[cell]
    BY <1>0, <1>4 DEF MemoryInv
  <2> QED BY <1>0, <1>4, <2>1, <2>2, <2>3 DEF Durable, RenameFails
<1> QED BY <1>1, <1>2, <1>3, <1>4 DEF RenameFails

(* The second rename succeeds, or fails and leaves the snapshot.           *)
LEMMA RenameAgainStep ==
    ASSUME TenantInv, NEW c \in Clients, RenameAgain(c)
    PROVE  TenantInv'
<1> USE DEF TenantInv
<1>1. CASE Renamed(c)
  BY <1>1, RenamedStep DEF RenameAgain
<1>2. CASE UNCHANGED <<open, state, count, base, events, snap, delta, commits, acked, astray>>
           /\ tmp' = [tmp EXCEPT ![c] = NoFile] /\ Go(c, "idle")
  <2>1. TenantTypeOK'
    BY <1>2 DEF TenantTypeOK, Go
  <2>2. LockInv'
    BY <1>2 DEF TenantTypeOK, LockInv, Go
  <2>3. FilesInv'
    BY <1>2 DEF FilesInv
  <2>4. MemoryInv => MemoryInv'
    BY <1>2 DEF TenantTypeOK, MemoryInv, Go
  <2>5. Durable => Durable'
    BY <1>2 DEF Durable, Stored
  <2> QED BY <1>2, <2>1, <2>2, <2>3, <2>4, <2>5
<1> QED BY <1>1, <1>2 DEF RenameAgain

(* A log for a tenant that has none begins with what memory has.           *)
LEMMA EnsureStep ==
    ASSUME TenantInv, NEW c \in Clients, EnsureWalInitialized(c)
    PROVE  TenantInv'
<1> USE DEF TenantInv
<1>0. open /\ state \in States /\ DOMAIN NoEvents = {}
  BY DEF EnsureWalInitialized, TenantTypeOK, NoEvents
<1>1. TenantTypeOK'
  BY <1>0 DEF TenantTypeOK, EnsureWalInitialized, NoEvents
<1>2. LockInv'
  BY DEF LockInv, EnsureWalInitialized
<1>3. FilesInv'
  BY <1>0, TenantAssumption DEF FilesInv, EnsureWalInitialized, States
<1>4. ASSUME ~astray PROVE MemoryInv' /\ Durable'
  <2>1. MemoryInv'
    BY <1>0, <1>4 DEF MemoryInv, EnsureWalInitialized, TenantTypeOK
  <2>2. \A cell \in Cells : Stored'[cell] = state[cell]
    BY <1>0, ReplayEmpty, TenantAssumption DEF Stored, EnsureWalInitialized, States
  <2>3. \A cell \in Cells : acked[cell] <= state[cell]
    BY <1>0, <1>4 DEF MemoryInv
  <2> QED BY <1>4, <2>1, <2>2, <2>3 DEF Durable, EnsureWalInitialized
<1> QED BY <1>1, <1>2, <1>3, <1>4 DEF EnsureWalInitialized

(* A crash leaves the files.                                               *)
LEMMA CrashStep ==
    ASSUME TenantInv, Crash
    PROVE  TenantInv'
<1> USE DEF TenantInv
<1>1. TenantTypeOK'
  BY DEF TenantTypeOK, Crash, Blank, States
<1>2. LockInv'
  BY DEF LockInv, Crash
<1>3. FilesInv'
  BY DEF FilesInv, Crash, TenantTypeOK
<1>4. MemoryInv'
  BY DEF MemoryInv, Crash
<1>5. Durable => Durable'
  BY DEF Durable, Stored, Crash
<1> QED BY <1>1, <1>2, <1>3, <1>4, <1>5 DEF Crash

(* Recovery from the log: memory is what the files hold, and the log fits  *)
(* or the tenant has gone astray.                                          *)
LEMMA RecoverStep ==
    ASSUME TenantInv, RegisterFromWal
    PROVE  TenantInv'
<1> USE DEF TenantInv
<1> DEFINE n == Cardinality(DOMAIN events)
<1>0. commits \in Nat /\ DOMAIN events \subseteq 1..commits /\ base \in States
      /\ events \in [DOMAIN events -> Deltas] /\ ~open
  BY DEF RegisterFromWal, TenantTypeOK, FilesInv
<1>1. n \in Nat /\ n <= commits
  <2>1. IsFiniteSet(1..commits) /\ Cardinality(1..commits) = commits
    <3>1. 1 \in Int /\ commits \in Int
      BY <1>0
    <3>2. /\ IsFiniteSet(1..commits)
          /\ Cardinality(1..commits) = IF 1 > commits THEN 0 ELSE commits - 1 + 1
      BY <3>1, FS_Interval
    <3> QED BY <1>0, <3>2
  <2>2. n <= Cardinality(1..commits) /\ IsFiniteSet(DOMAIN events)
    BY <1>0, <2>1, FS_Subset
  <2>3. n \in Nat
    BY <2>2, FS_CardinalityType
  <2> QED BY <2>1, <2>2, <2>3
<1>2. state' \in States
  BY <1>0, ReplayType DEF RegisterFromWal
<1>3. TenantTypeOK'
  BY <1>1, <1>2 DEF TenantTypeOK, RegisterFromWal
<1>4. LockInv'
  BY <1>0 DEF LockInv, RegisterFromWal, TenantTypeOK
<1>5. FilesInv'
  BY <1>1 DEF FilesInv, RegisterFromWal
<1>6. ASSUME ~astray' PROVE MemoryInv' /\ Durable'
  <2>1. ~astray /\ DOMAIN events = 1..n
    BY <1>6 DEF RegisterFromWal, Fits
  <2>2. Stored' = Stored /\ state' = Stored
    BY DEF Stored, RegisterFromWal
  <2>3. \A c \in Clients : pc'[c] # "append"
    BY <1>0 DEF LockInv, RegisterFromWal
  <2>4. MemoryInv'
    BY <1>0, <2>1, <2>2, <2>3 DEF MemoryInv, Durable, RegisterFromWal
  <2>5. Durable'
    BY <2>1, <2>2 DEF Durable, RegisterFromWal
  <2> QED BY <2>4, <2>5
<1> QED BY <1>3, <1>4, <1>5, <1>6

(* Registration of a blank tenant: it is the first one, or it has gone     *)
(* astray, or the log of a running tenant is begun anew while it has none. *)
LEMMA RegisterStep ==
    ASSUME TenantInv, Register
    PROVE  TenantInv'
<1> USE DEF TenantInv
<1>0. Blank \in States
  BY DEF Blank, States
<1>1. TenantTypeOK'
  <2>1. astray' \in BOOLEAN
    BY Zenon DEF Register
  <2>2. open' \in BOOLEAN
    BY Zenon DEF Register, TenantTypeOK
  <2>3. state' \in States /\ count' \in Nat /\ base' \in States \cup {NoFile}
    BY <1>0 DEF Register, TenantTypeOK
  <2>4. UNCHANGED <<events, snap, pc, delta, tmp, commits, acked>>
    BY DEF Register
  <2> QED BY <2>1, <2>2, <2>3, <2>4 DEF TenantTypeOK
<1>2. LockInv'
  BY DEF LockInv, Register, TenantTypeOK
<1>3. FilesInv'
  BY <1>0, TenantAssumption DEF FilesInv, Register, TenantTypeOK, States
<1>4. ASSUME ~astray' PROVE MemoryInv' /\ Durable'
  <2>1. ~astray /\ DOMAIN events = {} /\ snap = NoFile
    <3>1. ~astray /\ Fits(0) /\ snap = NoFile
      BY <1>4, Zenon DEF Register
    <3> QED BY <3>1 DEF Fits
  <2>2. \A cell \in Cells : Stored[cell] = 0 /\ Stored'[cell] = 0
    <3>1. \A cell \in Cells : Replay(Blank, events)[cell] = 0
      BY <2>1, ReplayEmpty DEF Blank
    <3> QED BY <1>0, <2>1, <3>1, TenantAssumption DEF Stored, Register, States, Blank
  <2>3. ASSUME NEW cell \in Cells PROVE acked[cell] = 0
    <3>1. acked[cell] \in Nat /\ acked[cell] <= Stored[cell]
      BY <2>1 DEF Durable, TenantTypeOK, States
    <3> QED BY <2>2, <3>1
  <2>4. Durable'
    BY <2>2, <2>3 DEF Durable, Register
  <2>5. ASSUME NEW cell \in Cells PROVE acked'[cell] <= state'[cell]
    BY <1>0, <2>3 DEF Register, TenantTypeOK, States
  <2>6. DOMAIN events' = {}
    BY <2>1 DEF Register
  <2>7. MemoryInv'
    BY <2>5, <2>6 DEF MemoryInv
  <2> QED BY <2>4, <2>7
<1> QED BY <1>1, <1>2, <1>3, <1>4
--------------------------------------------------------------------------------
(* Every step keeps the invariant.                                         *)
LEMMA TenantStep == TenantInv /\ [TenantNext]_vars => TenantInv'
<1> SUFFICES ASSUME TenantInv, [TenantNext]_vars PROVE TenantInv'
  OBVIOUS
<1>1. CASE UNCHANGED vars
  BY <1>1 DEF vars, TenantInv, TenantTypeOK, LockInv, FilesInv, MemoryInv, Durable, Stored
<1>2. ASSUME NEW c \in Clients, ClientStep(c) PROVE TenantInv'
  BY <1>2, CommitStep, AppendStep, QuietStep, SnapshotStep, RenamedStep, RenameFailsStep,
     RenameAgainStep, EnsureStep DEF ClientStep, RenameWal
<1>3. CASE Crash \/ RegisterFromWal \/ Register
  BY <1>3, CrashStep, RecoverStep, RegisterStep
<1> QED BY <1>1, <1>2, <1>3 DEF TenantNext

(* The invariant of a tenant and its files holds for any number of clients,*)
(* cells and commits and any of the faults.                                *)
THEOREM TenantInvariant == TenantSpec => []TenantInv
  BY TenantInitInv, TenantStep, PTL DEF TenantSpec

(* No acknowledged commit is missing from the files of a tenant that was   *)
(* only opened on logs that fit it, whenever a crash may come              *)
(* (multitenant.rs:328-361, 540-561).                                      *)
THEOREM CommitsDurable == TenantSpec => []Durable
<1>1. TenantInv => Durable
  BY DEF TenantInv, Durable
<1> QED BY <1>1, TenantInvariant, PTL

(* No log record is replaced by another commit's (persistence.rs:240-285). *)
THEOREM RecordsKept == TenantSpec => EventsKept
<1> DEFINE Kept == \/ astray
                   \/ events' = NoEvents
                   \/ \A k \in DOMAIN events : k \in DOMAIN events' /\ events'[k] = events[k]
<1>1. TenantInv /\ [TenantNext]_vars => [Kept]_vars
  <2> SUFFICES ASSUME TenantInv, TenantNext PROVE Kept
    OBVIOUS
  <2>1. CASE events' = events
    BY <2>1
  <2>2. ASSUME NEW c \in Clients, AppendWalEvent(c), ~astray PROVE Kept
    <3>1. count \notin DOMAIN events
      BY <2>2 DEF TenantInv, LockInv, MemoryInv, AppendWalEvent
    <3> QED BY <2>2, <3>1 DEF AppendWalEvent, LogWith
  <2>3. CASE events' = NoEvents
    BY <2>3
  <2> HIDE DEF Kept
  <2>4. CASE astray
    BY <2>4 DEF Kept
  <2>5. ASSUME NEW c \in Clients, ClientStep(c) PROVE Kept
    <3>1. AppendWalEvent(c) \/ events' = events \/ events' = NoEvents
      BY <2>5 DEF ClientStep, CommitAs, AppendFails, Checkpoint, SaveSnapshot, WriteNewWal,
         RenameWal, Renamed, RenameFails, RenameAgain, EnsureWalInitialized
    <3> QED BY <2>1, <2>2, <2>3, <2>4, <3>1
  <2>6. CASE Crash \/ RegisterFromWal \/ Register
    BY <2>1, <2>6 DEF Crash, RegisterFromWal, Register
  <2> QED BY <2>5, <2>6 DEF TenantNext
<1> QED BY <1>1, TenantInvariant, PTL DEF TenantSpec, EventsKept
==============================================================================
