---------------------------- MODULE SharedDbProofs ----------------------------
(***************************************************************************)
(* The shared database for any number of requests, outsiders and updates.  *)
(***************************************************************************)
EXTENDS SharedDb, TLAPS

USE DEF ThroughCache, ChecksWal, RequestJobs, OutsideJobs

(* The first state.                                                        *)
LEMMA SharedInitInv == SharedInit => SharedInv
<1> SUFFICES ASSUME SharedInit PROVE SharedInv
  OBVIOUS
<1>1. SharedTypeOK
  <2>1. /\ pc \in [Users -> Places]
        /\ job \in [Users -> Jobs]
        /\ copy \in [Users -> SUBSET Updates]
    BY DEF SharedInit, Places, Jobs
  <2>2. seen \in [Users -> BOOLEAN]
    BY Zenon DEF SharedInit
  <2> QED BY <2>1, <2>2 DEF SharedInit, SharedTypeOK
<1>2. HolderInv /\ PlacesInv
  BY SharedAssumption DEF SharedInit, HolderInv, PlacesInv, Users
<1>3. CacheInv /\ CopiesInv /\ LogInv /\ Openable
  BY DEF SharedInit, CacheInv, CopiesInv, LogInv, Openable, Users
<1> QED BY <1>1, <1>2, <1>3 DEF SharedInv

(* A user with the lock, and a request that is at work with it.            *)
LEMMA LockHolder ==
    ASSUME SharedInv, NEW u \in Users, pc[u] # "idle", ~Unlocked(u)
    PROVE  lock = u
BY DEF SharedInv, HolderInv, Unlocked, Users

(* A user begins: a request has the lock alone, an outsider has no copy.   *)
LEMMA BeginStep ==
    ASSUME SharedInv, NEW u \in Users,
           \/ u \in Requests /\ \E j \in RequestJobs : Acquire(u, j)
           \/ u \in Outsiders /\ \E j \in OutsideJobs : Begin(u, j)
    PROVE  SharedInv'
<1> USE DEF SharedInv
<1>1. SharedTypeOK'
  BY DEF SharedTypeOK, Acquire, Begin, Go, Places, Jobs, files, cache, ghosts
<1>2. HolderInv' /\ PlacesInv'
  BY SharedAssumption
  DEF SharedTypeOK, HolderInv, PlacesInv, Acquire, Begin, Go, Users, files, cache, ghosts
<1>3. ASSUME ~intruded PROVE CacheInv' /\ CopiesInv' /\ LogInv' /\ Openable'
  BY <1>3 DEF SharedTypeOK, CacheInv, CopiesInv, LogInv, Openable, NobodyTruncates,
     Acquire, Begin, Go, Users, files, cache, ghosts
<1> QED BY <1>1, <1>2, <1>3 DEF Acquire, Begin, ghosts

(* A user gets its copy, from the file or from a cache that is fresh.      *)
LEMMA LoadStep ==
    ASSUME SharedInv, NEW u \in Users, Load(u) \/ Refresh(u) \/ Fetch(u)
    PROVE  SharedInv'
<1> USE DEF SharedInv
<1>1. SharedTypeOK'
  <2>1. fresh' \in BOOLEAN
    BY Zenon DEF SharedTypeOK, Load, Refresh, Fetch, cache
  <2>2. seen' \in [Users -> BOOLEAN]
    BY DEF SharedTypeOK, Load, Refresh, Fetch
  <2>3. copy' \in [Users -> SUBSET Updates] /\ cached' \in (SUBSET Updates) \cup {NoFile}
    BY DEF SharedTypeOK, Load, Refresh, Fetch, cache
  <2>4. pc' \in [Users -> Places]
    BY DEF SharedTypeOK, Load, Refresh, Fetch, Go, Places
  <2> QED BY <2>1, <2>2, <2>3, <2>4
          DEF SharedTypeOK, Load, Refresh, Fetch, files, cache, ghosts
<1>2. HolderInv' /\ PlacesInv'
  BY SharedAssumption
  DEF SharedTypeOK, HolderInv, PlacesInv, Load, Refresh, Fetch, Go, Users, files, cache, ghosts
<1>3. ASSUME ~intruded PROVE CacheInv' /\ CopiesInv' /\ LogInv' /\ Openable'
  BY <1>3 DEF SharedTypeOK, CacheInv, CopiesInv, LogInv, Openable, NobodyTruncates,
     Load, Refresh, Fetch, Go, Users, files, cache, ghosts
<1> QED BY <1>1, <1>2, <1>3 DEF Load, Refresh, Fetch, ghosts

(* The client of a skill request goes away: one request less has the lock. *)
LEMMA ClientGoneStep ==
    ASSUME SharedInv, NEW u \in Requests, ClientGone(u)
    PROVE  SharedInv'
<1> USE DEF SharedInv
<1>0. u \in Users
  BY DEF Users
<1>1. SharedTypeOK'
  BY <1>0 DEF SharedTypeOK, ClientGone, Jobs, files, cache, ghosts
<1>2. HolderInv' /\ PlacesInv'
  BY <1>0, SharedAssumption
  DEF SharedTypeOK, HolderInv, PlacesInv, ClientGone, Users
<1>3. ASSUME ~intruded PROVE CacheInv' /\ CopiesInv' /\ LogInv' /\ Openable'
  BY <1>0, <1>3, SharedAssumption
  DEF SharedTypeOK, CacheInv, CopiesInv, LogInv, Openable, NobodyTruncates, ClientGone, Users,
      files, cache, ghosts
<1> QED BY <1>1, <1>2, <1>3 DEF ClientGone, ghosts

(* A user changes its copy or looks at it.                                 *)
LEMMA WorkStep ==
    ASSUME SharedInv, NEW u \in Users, pc[u] \in {"work", "open"},
           Change(u) \/ Search(u) \/ (pc[u] = "work" /\ Refuse(u)),
           UNCHANGED <<seen, files, cache, ghosts>>
    PROVE  SharedInv'
<1> USE DEF SharedInv
<1>1. SharedTypeOK'
  BY DEF SharedTypeOK, Change, Search, Refuse, Return, Go, Places, Jobs, Updates, files, cache, ghosts
<1>2. HolderInv' /\ PlacesInv'
  BY SharedAssumption
  DEF SharedTypeOK, HolderInv, PlacesInv, Change, Search, Refuse, Return, Go, Users
<1>3. ASSUME ~intruded PROVE CacheInv' /\ CopiesInv' /\ LogInv' /\ Openable'
  <2>1. CopiesInv'
    BY <1>3, SharedAssumption
    DEF SharedTypeOK, HolderInv, PlacesInv, CopiesInv, Change, Search, Refuse, Return, Go, Users,
        files
  <2>2. NobodyTruncates' => NobodyTruncates
    BY DEF SharedTypeOK, NobodyTruncates, Change, Search, Refuse, Return, Go
  <2> QED BY <1>3, <2>1, <2>2 DEF CacheInv, LogInv, Openable, files, cache, ghosts
<1> QED BY <1>1, <1>2, <1>3 DEF ghosts

(* A TraceWriter or a service looks at the log: if there is none, the      *)
(* database is empty and so is the copy.                                   *)
LEMMA InitWalStep ==
    ASSUME SharedInv, NEW u \in Users, InitWal(u)
    PROVE  SharedInv'
<1> USE DEF SharedInv
<1>1. SharedTypeOK'
  BY DEF SharedTypeOK, InitWal, Return, Go, Places, Jobs, cache, ghosts
<1>2. HolderInv' /\ PlacesInv'
  BY SharedAssumption
  DEF SharedTypeOK, HolderInv, PlacesInv, InitWal, Return, Go, Users
<1>3. ASSUME ~intruded PROVE CacheInv' /\ CopiesInv' /\ LogInv' /\ Openable'
  <2>1. CacheInv' /\ CopiesInv'
    BY <1>3, SharedAssumption
    DEF SharedTypeOK, HolderInv, CacheInv, CopiesInv, InitWal, Return, Go, Users, cache
  <2>2. NobodyTruncates' => NobodyTruncates
    BY DEF SharedTypeOK, NobodyTruncates, InitWal, Return, Go
  <2>3. LogInv'
    BY <1>3, <2>2, SharedAssumption DEF SharedTypeOK, LogInv, InitWal, ghosts
  <2>4. copy[u] \subseteq snap
    BY <1>3 DEF HolderInv, PlacesInv, CopiesInv, InitWal, Users
  <2>5. Openable'
    BY <1>3, <2>2, <2>4 DEF LogInv, Openable, InitWal, ghosts
  <2> QED BY <2>1, <2>3, <2>5
<1> QED BY <1>1, <1>2, <1>3 DEF InitWal, ghosts

(* The file cannot be used: nothing but the user's own place changes.      *)
LEMMA FailsStep ==
    ASSUME SharedInv, NEW u \in Users, Fails(u)
    PROVE  SharedInv'
<1> USE DEF SharedInv
<1>1. SharedTypeOK'
  BY DEF SharedTypeOK, Fails, Leave, Return, Go, Places, Jobs, files, cache, ghosts
<1>2. HolderInv' /\ PlacesInv'
  BY SharedAssumption
  DEF SharedTypeOK, HolderInv, PlacesInv, Fails, Leave, Return, Go, Users
<1>3. ASSUME ~intruded PROVE CacheInv' /\ CopiesInv' /\ LogInv' /\ Openable'
  BY <1>3, SharedAssumption
  DEF SharedTypeOK, HolderInv, CacheInv, CopiesInv, LogInv, Openable, NobodyTruncates,
      Fails, Leave, Return, Go, Users, files, cache, ghosts
<1> QED BY <1>1, <1>2, <1>3 DEF Fails, ghosts

(* The snapshot is written: by a request whose copy has all that the file  *)
(* had, and no other request has a copy; or by an outsider that does not   *)
(* intrude.                                                                *)
LEMMA SaveStep ==
    ASSUME SharedInv, NEW u \in Users, SaveSnapshot(u)
    PROVE  SharedInv' /\ (intruded' \/ snap \subseteq snap')
<1> USE DEF SharedInv
<1>1. SharedTypeOK'
  <2>1. intruded' \in BOOLEAN /\ seen' \in [Users -> BOOLEAN]
    BY Zenon DEF SaveSnapshot
  <2>2. pc' \in [Users -> Places] /\ snap' \in SUBSET Updates /\ fresh' \in BOOLEAN
    BY DEF SharedTypeOK, SaveSnapshot, Go, Places
  <2> QED BY <2>1, <2>2 DEF SharedTypeOK, SaveSnapshot
<1>2. HolderInv' /\ PlacesInv'
  BY SharedAssumption
  DEF SharedTypeOK, HolderInv, PlacesInv, SaveSnapshot, Go, Users
<1>3. ASSUME ~intruded'
      PROVE  CacheInv' /\ CopiesInv' /\ LogInv' /\ Openable' /\ snap \subseteq snap'
  <2>1. ~intruded /\ ~Intrudes(u, copy[u])
    BY <1>3, Zenon DEF SaveSnapshot
  <2>2. snap \subseteq copy[u] /\ snap' = copy[u]
    BY <2>1, LockHolder DEF CopiesInv, Intrudes, Unlocked, SaveSnapshot, Users
  <2>3. CacheInv'
    BY DEF CacheInv, SaveSnapshot
  <2>4. ~NobodyTruncates'
    BY DEF SharedTypeOK, NobodyTruncates, SaveSnapshot, Go
  <2>5. ASSUME NEW r \in Requests, r # u, lock = r PROVE ~Holding(r)
    <3>1. Unlocked(u)
      BY <2>5, LockHolder DEF SaveSnapshot
    <3> QED BY <2>1, <2>5, <3>1 DEF Intrudes
  <2>6. CopiesInv'
    BY <2>1, <2>2, <2>5 DEF SharedTypeOK, CopiesInv, Holding, SaveSnapshot, Go, Users
  <2> QED BY <2>2, <2>3, <2>4, <2>6 DEF LogInv, Openable
<1> QED BY <1>1, <1>2, <1>3

(* A new database takes the place of the old one, which was empty unless   *)
(* the service intrudes.                                                   *)
LEMMA CreateStep ==
    ASSUME SharedInv, NEW u \in Outsiders, CreateDatabase(u)
    PROVE  SharedInv' /\ (intruded' \/ snap \subseteq snap')
<1> USE DEF SharedInv
<1>0. u \in Users
  BY DEF Users
<1>1. SharedTypeOK'
  <2>1. intruded' \in BOOLEAN /\ seen' \in [Users -> BOOLEAN]
    BY Zenon DEF CreateDatabase
  <2>2. pc' \in [Users -> Places] /\ snap' \in SUBSET Updates /\ fresh' \in BOOLEAN
    BY <1>0 DEF SharedTypeOK, CreateDatabase, Go, Places
  <2> QED BY <2>1, <2>2 DEF SharedTypeOK, CreateDatabase
<1>2. HolderInv' /\ PlacesInv'
  BY <1>0, SharedAssumption DEF SharedTypeOK, HolderInv, PlacesInv, CreateDatabase, Go, Users
<1>3. ASSUME ~intruded'
      PROVE  CacheInv' /\ CopiesInv' /\ LogInv' /\ Openable' /\ snap \subseteq snap'
  <2>1. ~intruded /\ ~Intrudes(u, {})
    BY <1>3, Zenon DEF CreateDatabase
  <2>2. snap = {} /\ snap' = {}
    BY <2>1 DEF Intrudes, Unlocked, CreateDatabase
  <2>3. CacheInv'
    BY DEF CacheInv, CreateDatabase
  <2>4. CopiesInv'
    BY <1>0, <2>1, <2>2 DEF SharedTypeOK, CopiesInv, CreateDatabase, Go, Users
  <2>5. NobodyTruncates' => NobodyTruncates
    BY <1>0 DEF SharedTypeOK, NobodyTruncates, CreateDatabase, Go
  <2> QED BY <2>1, <2>2, <2>3, <2>4, <2>5 DEF LogInv, Openable, CreateDatabase
<1> QED BY <1>1, <1>2, <1>3

(* The log of the new database, if there was none or an empty one.         *)
LEMMA InitCreatedStep ==
    ASSUME SharedInv, NEW u \in Outsiders, InitCreatedWal(u)
    PROVE  SharedInv'
<1> USE DEF SharedInv
<1>0. u \in Users
  BY DEF Users
<1>1. SharedTypeOK'
  BY <1>0 DEF SharedTypeOK, InitCreatedWal, Go, Places, Jobs, cache, ghosts
<1>2. HolderInv' /\ PlacesInv'
  BY <1>0, SharedAssumption DEF SharedTypeOK, HolderInv, PlacesInv, InitCreatedWal, Go, Users
<1>3. ASSUME ~intruded PROVE CacheInv' /\ CopiesInv' /\ LogInv' /\ Openable'
  <2>1. CacheInv' /\ CopiesInv'
    BY <1>0, <1>3, SharedAssumption
    DEF SharedTypeOK, CacheInv, CopiesInv, InitCreatedWal, Go, Users, cache
  <2>2. NobodyTruncates' => NobodyTruncates
    BY <1>0 DEF SharedTypeOK, NobodyTruncates, InitCreatedWal, Go
  <2>3. LogInv' /\ Openable'
    BY <1>3, <2>2, SharedAssumption DEF LogInv, Openable, InitCreatedWal, ghosts
  <2> QED BY <2>1, <2>3
<1> QED BY <1>1, <1>2, <1>3 DEF InitCreatedWal, ghosts

(* The log is written: it begins with the file's contents, unless an       *)
(* outsider is late.                                                       *)
LEMMA TruncateStep ==
    ASSUME SharedInv, NEW u \in Users, TruncateWal(u)
    PROVE  SharedInv'
<1> USE DEF SharedInv
<1>1. SharedTypeOK'
  <2>1. intruded' \in BOOLEAN /\ torn' \in BOOLEAN
    BY Zenon DEF TruncateWal
  <2>2. lock' \in Requests \cup {NoUser} /\ pc' \in [Users -> Places]
        /\ job' \in [Users -> Jobs]
        /\ copy' \in [Users -> SUBSET Updates] /\ base' \in (SUBSET Updates) \cup {NoFile}
    BY DEF SharedTypeOK, TruncateWal, Leave, Return, Go, Places, Jobs
  <2> QED BY <2>1, <2>2 DEF SharedTypeOK, TruncateWal, cache
<1>2. HolderInv' /\ PlacesInv'
  BY SharedAssumption
  DEF SharedTypeOK, HolderInv, PlacesInv, TruncateWal, Leave, Return, Go, Users
<1>3. ASSUME ~intruded'
      PROVE  CacheInv' /\ CopiesInv' /\ LogInv' /\ Openable'
  <2>1. ~intruded /\ ~(Unlocked(u) /\ copy[u] # snap)
    BY <1>3, Zenon DEF TruncateWal
  <2>2. copy[u] = snap /\ base' = snap /\ snap' = snap
    BY <2>1, LockHolder DEF CopiesInv, Unlocked, TruncateWal, Users
  <2>3. CacheInv' /\ CopiesInv'
    BY <2>1, <2>2, SharedAssumption
    DEF SharedTypeOK, HolderInv, CacheInv, CopiesInv, TruncateWal, Leave, Return, Go, Users, cache
  <2>4. base' # NoFile
    BY <2>2, SharedAssumption DEF SharedTypeOK
  <2> QED BY <2>2, <2>3, <2>4 DEF LogInv, Openable
<1> QED BY <1>1, <1>2, <1>3

(* The persist is given up halfway.                                        *)
LEMMA TruncateFailsStep ==
    ASSUME SharedInv, NEW u \in Users, TruncateFails(u)
    PROVE  SharedInv'
<1> USE DEF SharedInv
<1>1. SharedTypeOK'
  BY DEF SharedTypeOK, TruncateFails, Leave, Return, Go, Places, Jobs, files, cache
<1>2. HolderInv' /\ PlacesInv'
  BY SharedAssumption
  DEF SharedTypeOK, HolderInv, PlacesInv, TruncateFails, Leave, Return, Go, Users
<1>3. ASSUME ~intruded PROVE CacheInv' /\ CopiesInv' /\ LogInv' /\ Openable'
  BY <1>3, SharedAssumption
  DEF SharedTypeOK, HolderInv, CacheInv, CopiesInv, LogInv, Openable,
      TruncateFails, Leave, Return, Go, Users, files, cache
<1> QED BY <1>1, <1>2, <1>3 DEF TruncateFails

(* The cache gets what the file has.                                       *)
LEMMA StampStep ==
    ASSUME SharedInv, NEW u \in Requests, StampCache(u)
    PROVE  SharedInv'
<1> USE DEF SharedInv
<1>0. u \in Users
  BY DEF Users
<1>1. SharedTypeOK'
  BY <1>0 DEF SharedTypeOK, StampCache, Leave, Return, Go, Places, Jobs, files, ghosts
<1>2. HolderInv' /\ PlacesInv'
  BY <1>0, SharedAssumption
  DEF SharedTypeOK, HolderInv, PlacesInv, StampCache, Leave, Return, Go, Users
<1>3. ASSUME ~intruded PROVE CacheInv' /\ CopiesInv' /\ LogInv' /\ Openable'
  BY <1>0, <1>3, SharedAssumption
  DEF SharedTypeOK, HolderInv, PlacesInv, CacheInv, CopiesInv, LogInv, Openable, NobodyTruncates,
      StampCache, Leave, Return, Go, Users, files, ghosts
<1> QED BY <1>1, <1>2, <1>3 DEF StampCache, ghosts

(* A process dies; if it was about to write the log, the log is torn.      *)
LEMMA DieStep ==
    ASSUME SharedInv, DashboardDies \/ \E u \in Outsiders : OutsiderDies(u)
    PROVE  SharedInv'
<1> USE DEF SharedInv
<1>1. PICK gone : /\ Die(gone)
                  /\ \/ gone = Requests /\ lock' = NoUser /\ cached' = NoFile /\ fresh' = FALSE
                     \/ (\E u \in Outsiders : gone = {u}) /\ UNCHANGED <<lock, cache>>
  BY DEF DashboardDies, OutsiderDies
<1>2. SharedTypeOK'
  <2>1. torn' \in BOOLEAN
    BY <1>1, Zenon DEF Die
  <2>2. seen' \in [Users -> BOOLEAN]
    BY <1>1 DEF Die, SharedTypeOK
  <2>3. /\ pc' \in [Users -> Places] /\ copy' \in [Users -> SUBSET Updates]
        /\ job' \in [Users -> Jobs]
    BY <1>1 DEF Die, SharedTypeOK, Places, Jobs
  <2> QED BY <1>1, <2>1, <2>2, <2>3 DEF Die, SharedTypeOK, files, cache
<1>3. HolderInv' /\ PlacesInv'
  BY <1>1, SharedAssumption DEF SharedTypeOK, HolderInv, PlacesInv, Die, Users
<1>4. ASSUME ~intruded PROVE CacheInv' /\ CopiesInv' /\ LogInv' /\ Openable'
  <2>1. CacheInv'
    BY <1>1, <1>4 DEF CacheInv, Die, cache, files
  <2>2. CopiesInv'
    BY <1>1, <1>4 DEF CopiesInv, Die, files, Users
  <2>3. ~torn' /\ NobodyTruncates' => ~torn /\ NobodyTruncates
    <3> SUFFICES ASSUME ~torn', NobodyTruncates' PROVE ~torn /\ NobodyTruncates
      OBVIOUS
    <3>1. ~torn /\ ~\E u \in gone : pc[u] = "truncate"
      BY <1>1, Zenon DEF Die
    <3> QED BY <1>1, <3>1 DEF NobodyTruncates, Die
  <2> QED BY <1>1, <1>4, <2>1, <2>2, <2>3 DEF LogInv, Openable, Die, files
<1> QED BY <1>1, <1>2, <1>3, <1>4 DEF Die

--------------------------------------------------------------------------------
(* Every step keeps the invariant, and loses nothing unless an outsider    *)
(* intrudes.                                                               *)
LEMMA SharedStep ==
    SharedInv /\ [SharedNext]_vars => SharedInv' /\ (intruded' \/ snap \subseteq snap')
<1> SUFFICES ASSUME SharedInv, [SharedNext]_vars
             PROVE  SharedInv' /\ (intruded' \/ snap \subseteq snap')
  OBVIOUS
<1>1. CASE UNCHANGED vars
  BY <1>1 DEF vars, SharedInv, SharedTypeOK, HolderInv, PlacesInv, CacheInv, CopiesInv, LogInv,
     Openable, NobodyTruncates
<1>2. ASSUME NEW u \in Users, SaveSnapshot(u)
      PROVE  SharedInv' /\ (intruded' \/ snap \subseteq snap')
  BY <1>2, SaveStep
<1>3. ASSUME NEW u \in Users,
             \/ EditKey(u) \/ RunSql(u) \/ StoreMemory(u) \/ VectorSearch(u)
             \/ RecallMemory(u) \/ WriteTrace(u) \/ MemoryTurn(u)
             \/ SaveSkill(u) \/ ResetGovernor(u)
             \/ ServiceTool(u) \/ ServiceCheckpoint(u)
      PROVE  SharedInv' /\ snap' = snap
  <2>1. /\ pc[u] \in {"work", "open"}
        /\ Change(u) \/ Search(u) \/ (pc[u] = "work" /\ Refuse(u))
        /\ UNCHANGED <<seen, files, cache, ghosts>>
    <3>1. CASE ServiceTool(u) \/ ServiceCheckpoint(u)
      BY <3>1 DEF ServiceTool, ServiceCheckpoint
    <3>2. CASE VectorSearch(u) \/ RecallMemory(u) \/ ResetGovernor(u)
      BY <3>2 DEF VectorSearch, RecallMemory, ResetGovernor, Working
    <3>3. CASE EditKey(u) \/ RunSql(u) \/ StoreMemory(u) \/ WriteTrace(u) \/ MemoryTurn(u)
               \/ SaveSkill(u)
      BY <3>3 DEF EditKey, RunSql, StoreMemory, WriteTrace, MemoryTurn, SaveSkill, Working
    <3> QED BY <1>3, <3>1, <3>2, <3>3
  <2> QED BY <2>1, WorkStep DEF files
<1>4. ASSUME NEW u \in Users,
             \/ Load(u) \/ Refresh(u) \/ Fetch(u) \/ InitWal(u)
             \/ TruncateWal(u) \/ TruncateFails(u) \/ Fails(u)
             \/ u \in Requests /\ (StampCache(u) \/ ClientGone(u))
      PROVE  SharedInv' /\ snap' = snap
  <2>1. SharedInv'
    BY <1>4, LoadStep, InitWalStep, TruncateStep, TruncateFailsStep, FailsStep, StampStep,
       ClientGoneStep
  <2>2. snap' = snap
    BY <1>4 DEF Load, Refresh, Fetch, InitWal, TruncateWal, TruncateFails, Fails, StampCache,
       ClientGone, files
  <2> QED BY <2>1, <2>2
<1>5. ASSUME NEW u \in Users,
             \/ u \in Requests /\ \E j \in RequestJobs : Acquire(u, j)
             \/ u \in Outsiders /\ \E j \in OutsideJobs : Begin(u, j)
      PROVE  SharedInv' /\ snap' = snap
  BY <1>5, BeginStep DEF Acquire, Begin, files
<1>6. CASE DashboardDies \/ \E u \in Outsiders : OutsiderDies(u)
  BY <1>6, DieStep DEF DashboardDies, OutsiderDies, Die, files
<1>7. ASSUME NEW u \in Requests, RequestStep(u)
      PROVE  SharedInv' /\ (intruded' \/ snap \subseteq snap')
  BY <1>2, <1>3, <1>4, <1>7 DEF RequestStep, Persist, Users
<1>8. ASSUME NEW u \in Outsiders, OutsiderStep(u)
      PROVE  SharedInv' /\ (intruded' \/ snap \subseteq snap')
  <2>1. CASE CreateDatabase(u) \/ InitCreatedWal(u)
    BY <2>1, CreateStep, InitCreatedStep DEF InitCreatedWal
  <2> QED BY <1>2, <1>3, <1>4, <1>5, <1>6, <1>8, <2>1 DEF OutsiderStep, Users
<1> QED BY <1>1, <1>5, <1>6, <1>7, <1>8 DEF SharedNext, Users

(* The lock, the cache, the copies and the log of a shared database agree  *)
(* as SharedInv says (dashboard/api.rs:10808-10877, persistence.rs:132).   *)
THEOREM SharedInvariant == SharedSpec => []SharedInv
  BY SharedInitInv, SharedStep, PTL DEF SharedSpec

(* No request overwrites another's update, whatever fails or dies          *)
(* (dashboard/api.rs:10498-10520, 10859-10874).                            *)
THEOREM UpdatesNotLost == SharedSpec => NothingLost
<1>1. SharedInv /\ [SharedNext]_vars => [intruded' \/ snap \subseteq snap']_vars
  BY SharedStep
<1> QED BY <1>1, SharedInvariant, PTL DEF SharedSpec, NothingLost

(* A TraceWriter finds a log that fits the snapshot (halo/trace.rs:66).    *)
THEOREM LogsFit == SharedSpec => []Openable
<1>1. SharedInv => Openable
  BY DEF SharedInv, Openable
<1> QED BY <1>1, SharedInvariant, PTL
===============================================================================
