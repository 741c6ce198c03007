--------------------------- MODULE MeshStateProofs ---------------------------
(* What holds of the shared mesh files for any set of processes and callers:  *)
(* with no fault the lock excludes, no registration is lost, and every caller *)
(* has the same token.                                                        *)
EXTENDS MeshState, TLAPS

(* A caller has a lock exactly while it is in a call that uses one.           *)
PhaseInv ==
    \A c \in Callers :
        /\ (phase[c] = "idle") <=> (step[c] = "none")
        /\ (phase[c] = "idle") <=> (wants[c] = NoLock)
        /\ phase[c] \in {"join", "joinSave", "joinDrop", "leave", "leaveSave", "leaveDrop"}
               => wants[c] = "peers"
        /\ phase[c] \in {"token", "mint", "fill"} => wants[c] = "token"
        /\ phase[c] \notin {"idle", "join", "leave", "token"} => step[c] = "held"

(* Without a fault nobody has died, no file is old, and whoever is past       *)
(* create_new finds its own file at the path.                                 *)
LockInv ==
    faults = 0 =>
        /\ \A p \in Procs : inc[p] = 0
        /\ \A l \in Locks : lockfile[l] # NoFile => lockfile[l].inc = 0 /\ ~lockfile[l].old
        /\ \A c \in Callers :
               /\ step[c] # "remove"
               /\ saw[c] # NoFile => saw[c].inc = 0
               /\ step[c] \in {"created", "held"} =>
                      lockfile[wants[c]] # NoFile /\ lockfile[wants[c]].by = c

(* The copy a holder has loaded is still what is in the file.                 *)
PeersInv ==
    faults = 0 =>
        /\ \A p \in Procs : member[p] = "up" => p \in peers
        /\ \A c \in Callers : phase[c] \in {"joinSave", "leaveSave"} => copy[c] = peers

(* Nobody has a token while one is being generated.                           *)
TokenInv ==
    faults = 0 =>
        /\ \A c \in Callers : got[c] # NoToken => got[c] = token
        /\ \A c \in Callers : phase[c] \in {"mint", "fill"} => token = NoToken

MeshInv == MeshTypeOK /\ PhaseInv /\ LockInv /\ PeersInv /\ TokenInv

(* The first state.                                                           *)
LEMMA MeshInitInv == MeshInit => MeshInv
  BY PidLockAssumption, MeshAssumption
  DEF MeshInit, LockInit, MeshInv, MeshTypeOK, LockTypeOK, PhaseInv, LockInv, PeersInv,
      TokenInv, Steps, Phases

(* Every file operation of every call, every passing of time and every crash  *)
(* preserves the inductive invariant.                                         *)
LEMMA MeshStepInv == MeshInv /\ [MeshNext]_vars => MeshInv'
<1> SUFFICES ASSUME MeshInv, [MeshNext]_vars PROVE MeshInv'
    OBVIOUS
<1> USE PidLockAssumption, MeshAssumption
<1> USE DEF MeshInv, MeshTypeOK, LockTypeOK, LockFile, Steps, Phases, At, Go, In, To, Member
<1>0. \A c \in Callers : step[c] # "none" => wants[c] \in Locks
  BY DEF PhaseInv
<1>1. ASSUME NEW c \in Callers, OpenNew(c), UNCHANGED meshVars
      PROVE  MeshInv'
  <2> DEFINE new == [by |-> c, inc |-> inc[ProcOf[c]], pid |-> FALSE, old |-> FALSE]
  <2>a. wants[c] \in Locks /\ new \in LockFile /\ new # NoFile
    <3>1. wants[c] \in Locks
      BY <1>0, <1>1 DEF OpenNew
    <3>2. new \in LockFile
      OBVIOUS
    <3> QED BY <3>1, <3>2
  <2>b. ASSUME lockfile[wants[c]] = NoFile PROVE MeshTypeOK' /\ LockInv'
    <3>1. lockfile' = [lockfile EXCEPT ![wants[c]] = new] /\ step' = [step EXCEPT ![c] = "created"]
      BY <1>1, <2>b DEF OpenNew
    <3>2. UNCHANGED <<inc, wants, saw, late, faults>>
      BY <1>1 DEF OpenNew
    <3> HIDE DEF new
    <3>3. MeshTypeOK'
      BY <1>1, <2>a, <3>1, <3>2 DEF meshVars
    <3>4. faults = 0 => new.by = c /\ new.inc = 0 /\ ~new.old
      BY DEF LockInv, new
    <3>5. LockInv'
      BY <2>a, <2>b, <3>1, <3>2, <3>4 DEF LockInv
    <3> QED BY <3>3, <3>5
  <2>c. ASSUME lockfile[wants[c]] # NoFile PROVE MeshTypeOK' /\ LockInv'
    BY <1>1, <2>c DEF OpenNew, LockInv, meshVars
  <2>1. MeshTypeOK'
    BY <2>b, <2>c
  <2>2. PhaseInv'
    BY <1>0, <1>1 DEF OpenNew, meshVars, PhaseInv
  <2>3. LockInv'
    BY <2>b, <2>c
  <2>4. PeersInv'
    BY <1>0, <1>1 DEF OpenNew, meshVars, PhaseInv, LockInv, PeersInv
  <2>5. TokenInv'
    BY <1>0, <1>1 DEF OpenNew, meshVars, PhaseInv, LockInv, TokenInv
  <2> QED BY <2>1, <2>2, <2>3, <2>4, <2>5
<1>2. ASSUME NEW c \in Callers, WritePid(c), UNCHANGED meshVars
      PROVE  MeshInv'
  <2>a. \A l \in Locks :
          \/ lockfile'[l] = lockfile[l]
          \/ /\ lockfile[l] # NoFile
             /\ lockfile'[l] = [lockfile[l] EXCEPT !.pid = TRUE, !.old = FALSE]
    BY <1>2 DEF WritePid
  <2>b. \A file \in LockFile :
          LET written == [file EXCEPT !.pid = TRUE, !.old = FALSE]
          IN  /\ written \in LockFile /\ written.by = file.by
              /\ written.inc = file.inc /\ ~written.old
    OBVIOUS
  <2>c. lockfile' \in [Locks -> LockFile \cup {NoFile}]
    <3>1. \A l \in Locks : lockfile'[l] \in LockFile \cup {NoFile}
      <4> SUFFICES ASSUME NEW l \in Locks PROVE lockfile'[l] \in LockFile \cup {NoFile}
          OBVIOUS
      <4>1. CASE lockfile'[l] = lockfile[l]
        BY <4>1
      <4>2. CASE /\ lockfile[l] # NoFile
                 /\ lockfile'[l] = [lockfile[l] EXCEPT !.pid = TRUE, !.old = FALSE]
        BY <4>2, <2>b
      <4> QED BY <2>a, <4>1, <4>2
    <3>2. \/ lockfile' = lockfile
          \/ lockfile' = [l \in Locks |-> lockfile'[l]]
      BY <1>2 DEF WritePid
    <3> QED BY <3>1, <3>2
  <2>d. faults' \in 0..MaxFaults /\ (faults' = 0 => faults = 0)
    BY <1>2 DEF WritePid
  <2>e. step' = [step EXCEPT ![c] = "held"] /\ UNCHANGED <<inc, wants, saw>> /\ step[c] = "created"
    BY <1>2 DEF WritePid
  <2>f. late' \in [Callers -> BOOLEAN]
    BY <1>2 DEF WritePid
  <2>1. MeshTypeOK'
    BY <1>2, <2>c, <2>d, <2>e, <2>f DEF meshVars
  <2>2. PhaseInv'
    BY <1>0, <1>2 DEF WritePid, meshVars, PhaseInv
  <2>3. LockInv'
    <3>1. \A l \in Locks : lockfile[l] # NoFile =>
               /\ lockfile'[l] # NoFile /\ lockfile'[l].by = lockfile[l].by
               /\ lockfile'[l].inc = lockfile[l].inc /\ (lockfile'[l].old => lockfile[l].old)
      <4> SUFFICES ASSUME NEW l \in Locks, lockfile[l] # NoFile
                   PROVE  /\ lockfile'[l] # NoFile /\ lockfile'[l].by = lockfile[l].by
                          /\ lockfile'[l].inc = lockfile[l].inc
                          /\ (lockfile'[l].old => lockfile[l].old)
          OBVIOUS
      <4>1. lockfile[l] \in LockFile
        OBVIOUS
      <4>2. CASE lockfile'[l] = lockfile[l]
        BY <4>2
      <4>3. CASE lockfile'[l] = [lockfile[l] EXCEPT !.pid = TRUE, !.old = FALSE]
        <5>1. lockfile'[l] \in LockFile
          BY <2>b, <4>1, <4>3
        <5> QED BY <2>b, <4>1, <4>3, <5>1
      <4> QED BY <2>a, <4>2, <4>3
    <3>2. \A l \in Locks : lockfile[l] = NoFile => lockfile'[l] = NoFile
      BY <2>a
    <3>3. \A d \in Callers : step[d] \in {"created", "held"} => wants[d] \in Locks
      BY <1>0
    <3> QED BY <2>d, <2>e, <3>1, <3>2, <3>3 DEF LockInv
  <2>4. PeersInv'
    BY <1>0, <1>2 DEF WritePid, meshVars, PhaseInv, LockInv, PeersInv
  <2>5. TokenInv'
    BY <1>0, <1>2 DEF WritePid, meshVars, PhaseInv, LockInv, TokenInv
  <2> QED BY <2>1, <2>2, <2>3, <2>4, <2>5
<1>3. ASSUME NEW c \in Callers, ReadLock(c), UNCHANGED meshVars
      PROVE  MeshInv'
  <2>1. MeshTypeOK'
    BY <1>0, <1>3 DEF ReadLock, meshVars
  <2>2. PhaseInv'
    BY <1>3 DEF ReadLock, meshVars, PhaseInv
  <2>3. LockInv'
    BY <1>3 DEF ReadLock, meshVars, PhaseInv, LockInv
  <2>4. PeersInv'
    BY <1>3 DEF ReadLock, meshVars, PhaseInv, LockInv, PeersInv
  <2>5. TokenInv'
    BY <1>3 DEF ReadLock, meshVars, PhaseInv, LockInv, TokenInv
  <2> QED BY <2>1, <2>2, <2>3, <2>4, <2>5
<1>4. ASSUME NEW c \in Callers, JudgeLock(c), UNCHANGED meshVars
      PROVE  MeshInv'
  <2>1. MeshTypeOK'
    BY <1>4 DEF JudgeLock, Stale, HasPid, Alive, meshVars
  <2>2. PhaseInv'
    BY <1>4 DEF JudgeLock, Stale, HasPid, Alive, meshVars, PhaseInv
  <2>3. LockInv'
    BY <1>4 DEF JudgeLock, Stale, HasPid, Alive, meshVars, PhaseInv, LockInv
  <2>4. PeersInv'
    BY <1>4 DEF JudgeLock, Stale, HasPid, Alive, meshVars, PhaseInv, LockInv, PeersInv
  <2>5. TokenInv'
    BY <1>4 DEF JudgeLock, Stale, HasPid, Alive, meshVars, PhaseInv, LockInv, TokenInv
  <2> QED BY <2>1, <2>2, <2>3, <2>4, <2>5
<1>5. ASSUME NEW c \in Callers, RemoveStale(c), UNCHANGED meshVars
      PROVE  MeshInv'
  <2>1. MeshTypeOK'
    BY <1>5 DEF RemoveStale, meshVars
  <2>2. PhaseInv'
    BY <1>5 DEF RemoveStale, meshVars, PhaseInv
  <2>3. LockInv'
    BY <1>5 DEF RemoveStale, meshVars, PhaseInv, LockInv
  <2>4. PeersInv'
    BY <1>5 DEF RemoveStale, meshVars, PhaseInv, LockInv, PeersInv
  <2>5. TokenInv'
    BY <1>5 DEF RemoveStale, meshVars, PhaseInv, LockInv, TokenInv
  <2> QED BY <2>1, <2>2, <2>3, <2>4, <2>5
<1>6. ASSUME NEW c \in Callers, RetryOrTimeout(c), UNCHANGED meshVars
      PROVE  MeshInv'
  <2>1. MeshTypeOK'
    BY <1>6 DEF RetryOrTimeout, meshVars
  <2>2. PhaseInv'
    BY <1>6 DEF RetryOrTimeout, meshVars, PhaseInv
  <2>3. LockInv'
    BY <1>6 DEF RetryOrTimeout, meshVars, PhaseInv, LockInv
  <2>4. PeersInv'
    BY <1>6 DEF RetryOrTimeout, meshVars, PhaseInv, LockInv, PeersInv
  <2>5. TokenInv'
    BY <1>6 DEF RetryOrTimeout, meshVars, PhaseInv, LockInv, TokenInv
  <2> QED BY <2>1, <2>2, <2>3, <2>4, <2>5
<1>7. ASSUME NEW c \in Callers, DeadlinePasses(c), UNCHANGED meshVars
      PROVE  MeshInv'
  <2>1. MeshTypeOK'
    BY <1>7 DEF DeadlinePasses, meshVars
  <2>2. PhaseInv'
    BY <1>7 DEF DeadlinePasses, meshVars, PhaseInv
  <2>3. LockInv'
    BY <1>7 DEF DeadlinePasses, meshVars, PhaseInv, LockInv
  <2>4. PeersInv'
    BY <1>7 DEF DeadlinePasses, meshVars, PhaseInv, LockInv, PeersInv
  <2>5. TokenInv'
    BY <1>7 DEF DeadlinePasses, meshVars, PhaseInv, LockInv, TokenInv
  <2> QED BY <2>1, <2>2, <2>3, <2>4, <2>5
<1>8. ASSUME NEW l \in Locks, GrowOld(l), UNCHANGED meshVars
      PROVE  MeshInv'
  <2>a. [lockfile[l] EXCEPT !.old = TRUE] \in LockFile
    <3>1. lockfile[l] \in LockFile
      BY <1>8 DEF GrowOld
    <3> QED BY <3>1
  <2>b. lockfile' = [lockfile EXCEPT ![l] = [lockfile[l] EXCEPT !.old = TRUE]]
    BY <1>8 DEF GrowOld
  <2>c. faults' \in 0..MaxFaults /\ UNCHANGED <<inc, step, wants, saw, late>>
    BY <1>8 DEF GrowOld
  <2>1. MeshTypeOK'
    BY <1>8, <2>a, <2>b, <2>c DEF meshVars
  <2>2. PhaseInv'
    BY <1>8 DEF GrowOld, Alive, meshVars, PhaseInv
  <2>3. LockInv'
    BY <1>8 DEF GrowOld, Alive, meshVars, PhaseInv, LockInv
  <2>4. PeersInv'
    BY <1>8 DEF GrowOld, Alive, meshVars, PhaseInv, LockInv, PeersInv
  <2>5. TokenInv'
    BY <1>8 DEF GrowOld, Alive, meshVars, PhaseInv, LockInv, TokenInv
  <2> QED BY <2>1, <2>2, <2>3, <2>4, <2>5
<1>9. ASSUME NEW c \in Callers, RegisterSelf(c)
      PROVE  MeshInv'
  <2>1. MeshTypeOK'
    BY <1>9 DEF RegisterSelf, Acquire, lockVars
  <2>2. PhaseInv'
    BY <1>9 DEF RegisterSelf, Acquire, lockVars, PhaseInv
  <2>3. LockInv'
    BY <1>9 DEF RegisterSelf, Acquire, lockVars, PhaseInv, LockInv
  <2>4. PeersInv'
    BY <1>9 DEF RegisterSelf, Acquire, lockVars, PhaseInv, LockInv, PeersInv
  <2>5. TokenInv'
    BY <1>9 DEF RegisterSelf, Acquire, lockVars, PhaseInv, LockInv, TokenInv
  <2> QED BY <2>1, <2>2, <2>3, <2>4, <2>5
<1>10. ASSUME NEW c \in Callers, DeregisterSelf(c)
      PROVE  MeshInv'
  <2>1. MeshTypeOK'
    BY <1>10 DEF DeregisterSelf, Acquire, lockVars
  <2>2. PhaseInv'
    BY <1>10 DEF DeregisterSelf, Acquire, lockVars, PhaseInv
  <2>3. LockInv'
    BY <1>10 DEF DeregisterSelf, Acquire, lockVars, PhaseInv, LockInv
  <2>4. PeersInv'
    BY <1>10 DEF DeregisterSelf, Acquire, lockVars, PhaseInv, LockInv, PeersInv
  <2>5. TokenInv'
    BY <1>10 DEF DeregisterSelf, Acquire, lockVars, PhaseInv, LockInv, TokenInv
  <2> QED BY <2>1, <2>2, <2>3, <2>4, <2>5
<1>11. ASSUME NEW c \in Callers, AskToken(c)
      PROVE  MeshInv'
  <2>a. LockTypeOK'
    BY <1>11 DEF AskToken, Acquire, lockVars
  <2>1. MeshTypeOK'
    BY <1>11, <2>a DEF AskToken, Give
  <2>2. PhaseInv'
    BY <1>11 DEF AskToken, Acquire, Give, KeepLock, Leave, lockVars, PhaseInv
  <2>3. LockInv'
    BY <1>11 DEF AskToken, Acquire, Give, KeepLock, Leave, lockVars, PhaseInv, LockInv
  <2>4. PeersInv'
    BY <1>11 DEF AskToken, Acquire, Give, KeepLock, Leave, lockVars, PhaseInv, LockInv, PeersInv
  <2>5. TokenInv'
    BY <1>11 DEF AskToken, Acquire, Give, KeepLock, Leave, lockVars, PhaseInv, LockInv, TokenInv
  <2> QED BY <2>1, <2>2, <2>3, <2>4, <2>5
<1>12. ASSUME NEW c \in Callers, LoadPeers(c)
      PROVE  MeshInv'
  <2>1. MeshTypeOK'
    BY <1>12 DEF LoadPeers, lockVars
  <2>2. PhaseInv'
    BY <1>12 DEF LoadPeers, lockVars, PhaseInv
  <2>3. LockInv'
    BY <1>12 DEF LoadPeers, lockVars, PhaseInv, LockInv
  <2>4. PeersInv'
    BY <1>12 DEF LoadPeers, lockVars, PhaseInv, LockInv, PeersInv
  <2>5. TokenInv'
    BY <1>12 DEF LoadPeers, lockVars, PhaseInv, LockInv, TokenInv
  <2> QED BY <2>1, <2>2, <2>3, <2>4, <2>5
<1>13. ASSUME NEW c \in Callers, SavePeers(c)
      PROVE  MeshInv'
  <2>1. MeshTypeOK'
    BY <1>13 DEF SavePeers, lockVars
  <2>2. PhaseInv'
    BY <1>13 DEF SavePeers, lockVars, PhaseInv
  <2>3. LockInv'
    BY <1>13 DEF SavePeers, lockVars, PhaseInv, LockInv
  <2>4. PeersInv'
    BY <1>13 DEF SavePeers, lockVars, PhaseInv, LockInv, PeersInv
  <2>5. TokenInv'
    BY <1>13 DEF SavePeers, lockVars, PhaseInv, LockInv, TokenInv
  <2> QED BY <2>1, <2>2, <2>3, <2>4, <2>5
<1>14. ASSUME NEW c \in Callers, ReleasePeers(c)
      PROVE  MeshInv'
  <2>1. MeshTypeOK'
    BY <1>14 DEF ReleasePeers, DropLock, Leave, lockVars
  <2>2. PhaseInv'
    BY <1>14 DEF ReleasePeers, DropLock, Leave, lockVars, PhaseInv
  <2>3. LockInv'
    BY <1>14 DEF ReleasePeers, DropLock, Leave, lockVars, PhaseInv, LockInv
  <2>4. PeersInv'
    BY <1>14 DEF ReleasePeers, DropLock, Leave, lockVars, PhaseInv, LockInv, PeersInv
  <2>5. TokenInv'
    BY <1>14 DEF ReleasePeers, DropLock, Leave, lockVars, PhaseInv, LockInv, TokenInv
  <2> QED BY <2>1, <2>2, <2>3, <2>4, <2>5
<1>15. ASSUME NEW c \in Callers, NoPeersLock(c)
      PROVE  MeshInv'
  <2>1. MeshTypeOK'
    BY <1>15 DEF NoPeersLock, KeepLock, Leave, lockVars
  <2>2. PhaseInv'
    BY <1>15 DEF NoPeersLock, KeepLock, Leave, lockVars, PhaseInv
  <2>3. LockInv'
    BY <1>15 DEF NoPeersLock, KeepLock, Leave, lockVars, PhaseInv, LockInv
  <2>4. PeersInv'
    BY <1>15 DEF NoPeersLock, KeepLock, Leave, lockVars, PhaseInv, LockInv, PeersInv
  <2>5. TokenInv'
    BY <1>15 DEF NoPeersLock, KeepLock, Leave, lockVars, PhaseInv, LockInv, TokenInv
  <2> QED BY <2>1, <2>2, <2>3, <2>4, <2>5
<1>16. ASSUME NEW c \in Callers, RecheckToken(c)
      PROVE  MeshInv'
  <2>a. LockTypeOK'
    BY <1>16 DEF RecheckToken, KeepLock, Leave, lockVars
  <2>1. MeshTypeOK'
    BY <1>16, <2>a DEF RecheckToken, Give
  <2>2. PhaseInv'
    BY <1>16 DEF RecheckToken, Give, KeepLock, Leave, lockVars, PhaseInv
  <2>3. LockInv'
    BY <1>16 DEF RecheckToken, Give, KeepLock, Leave, lockVars, PhaseInv, LockInv
  <2>4. PeersInv'
    BY <1>16 DEF RecheckToken, Give, KeepLock, Leave, lockVars, PhaseInv, LockInv, PeersInv
  <2>5. TokenInv'
    BY <1>16 DEF RecheckToken, Give, KeepLock, Leave, lockVars, PhaseInv, LockInv, TokenInv
  <2> QED BY <2>1, <2>2, <2>3, <2>4, <2>5
<1>17. ASSUME NEW c \in Callers, TruncateToken(c)
      PROVE  MeshInv'
  <2>1. MeshTypeOK'
    BY <1>17 DEF TruncateToken, KeepLock, Leave, lockVars
  <2>2. PhaseInv'
    BY <1>17 DEF TruncateToken, KeepLock, Leave, lockVars, PhaseInv
  <2>3. LockInv'
    BY <1>17 DEF TruncateToken, KeepLock, Leave, lockVars, PhaseInv, LockInv
  <2>4. PeersInv'
    BY <1>17 DEF TruncateToken, KeepLock, Leave, lockVars, PhaseInv, LockInv, PeersInv
  <2>5. TokenInv'
    BY <1>17 DEF TruncateToken, KeepLock, Leave, lockVars, PhaseInv, LockInv, TokenInv
  <2> QED BY <2>1, <2>2, <2>3, <2>4, <2>5
<1>18. ASSUME NEW c \in Callers, WriteToken(c)
      PROVE  MeshInv'
  <2>1. MeshTypeOK'
    BY <1>18 DEF WriteToken, KeepLock, Leave, lockVars
  <2>2. PhaseInv'
    BY <1>18 DEF WriteToken, KeepLock, Leave, lockVars, PhaseInv
  <2>3. LockInv'
    BY <1>18 DEF WriteToken, KeepLock, Leave, lockVars, PhaseInv, LockInv
  <2>4. PeersInv'
    BY <1>18 DEF WriteToken, KeepLock, Leave, lockVars, PhaseInv, LockInv, PeersInv
  <2>5. TokenInv'
    BY <1>18 DEF WriteToken, KeepLock, Leave, lockVars, PhaseInv, LockInv, TokenInv
  <2> QED BY <2>1, <2>2, <2>3, <2>4, <2>5
<1>19. ASSUME NEW c \in Callers, NoTokenLock(c)
      PROVE  MeshInv'
  <2>1. MeshTypeOK'
    BY <1>19 DEF NoTokenLock, KeepLock, Leave, lockVars
  <2>2. PhaseInv'
    BY <1>19 DEF NoTokenLock, KeepLock, Leave, lockVars, PhaseInv
  <2>3. LockInv'
    BY <1>19 DEF NoTokenLock, KeepLock, Leave, lockVars, PhaseInv, LockInv
  <2>4. PeersInv'
    BY <1>19 DEF NoTokenLock, KeepLock, Leave, lockVars, PhaseInv, LockInv, PeersInv
  <2>5. TokenInv'
    BY <1>19 DEF NoTokenLock, KeepLock, Leave, lockVars, PhaseInv, LockInv, TokenInv
  <2> QED BY <2>1, <2>2, <2>3, <2>4, <2>5
<1>20. ASSUME NEW p \in Procs, MeshCrash(p)
      PROVE  MeshInv'
  <2>a. inc' \in [Procs -> Nat] /\ faults' \in 0..MaxFaults
    BY <1>20 DEF MeshCrash, Crash
  <2>b. LockTypeOK'
    BY <1>20, <2>a DEF MeshCrash, Crash
  <2>1. MeshTypeOK'
    BY <1>20, <2>b DEF MeshCrash
  <2>2. PhaseInv'
    BY <1>20 DEF MeshCrash, Crash, PhaseInv
  <2>3. LockInv'
    BY <1>20 DEF MeshCrash, Crash, PhaseInv, LockInv
  <2>4. PeersInv'
    BY <1>20 DEF MeshCrash, Crash, PhaseInv, LockInv, PeersInv
  <2>5. TokenInv'
    BY <1>20 DEF MeshCrash, Crash, PhaseInv, LockInv, TokenInv
  <2> QED BY <2>1, <2>2, <2>3, <2>4, <2>5
<1>22. ASSUME NEW c \in Callers, OpenFails(c), UNCHANGED meshVars
      PROVE  MeshInv'
  <2>1. MeshTypeOK'
    BY <1>22 DEF OpenFails, meshVars
  <2>2. PhaseInv'
    BY <1>22 DEF OpenFails, meshVars, PhaseInv
  <2>3. LockInv'
    BY <1>22 DEF OpenFails, meshVars, PhaseInv, LockInv
  <2>4. PeersInv'
    BY <1>22 DEF OpenFails, meshVars, PhaseInv, LockInv, PeersInv
  <2>5. TokenInv'
    BY <1>22 DEF OpenFails, meshVars, PhaseInv, LockInv, TokenInv
  <2> QED BY <2>1, <2>2, <2>3, <2>4, <2>5
<1>23. ASSUME NEW c \in Callers, LoadFails(c)
      PROVE  MeshInv'
  <2>1. MeshTypeOK'
    BY <1>23 DEF LoadFails
  <2>2. PhaseInv'
    BY <1>23 DEF LoadFails, PhaseInv
  <2>3. LockInv'
    BY <1>23 DEF LoadFails, PhaseInv, LockInv
  <2>4. PeersInv'
    BY <1>23 DEF LoadFails, PhaseInv, LockInv, PeersInv
  <2>5. TokenInv'
    BY <1>23 DEF LoadFails, PhaseInv, LockInv, TokenInv
  <2> QED BY <2>1, <2>2, <2>3, <2>4, <2>5
<1>21. CASE UNCHANGED vars
  BY <1>21 DEF vars, lockVars, meshVars, PhaseInv, LockInv, PeersInv, TokenInv
<1> QED
  BY <1>1, <1>2, <1>3, <1>4, <1>5, <1>6, <1>7, <1>8, <1>9, <1>10, <1>11, <1>12, <1>13, <1>14, <1>15, <1>16, <1>17, <1>18, <1>19, <1>20, <1>21, <1>22, <1>23
  DEF MeshNext, Internal, LockStep

(* The invariant of the lock, the registry and the token.                     *)
LEMMA MeshInvariant == MeshSpec => []MeshInv
  BY MeshInitInv, MeshStepInv, PTL DEF MeshSpec

(* Type correctness of the lock files, the registry and the token.            *)
THEOREM MeshTypeCorrect == MeshSpec => []MeshTypeOK
<1>1. MeshInv => MeshTypeOK
  BY DEF MeshInv
<1> QED BY <1>1, MeshInvariant, PTL

(* Without a fault a lock file excludes, for any number of processes and      *)
(* callers: whoever is past create_new finds its own file at the path.        *)
THEOREM LockExcludes == MeshSpec => []Exclusive
<1>1. MeshInv => Exclusive
  BY DEF MeshInv, LockInv, Exclusive, Holders
<1> QED BY <1>1, MeshInvariant, PTL

(* Without a fault no registration is lost: what a holder has loaded is still *)
(* in the file when it saves.                                                 *)
THEOREM RegistrationsKept == MeshSpec => []NoLostPeer
<1>1. MeshInv => NoLostPeer
  BY DEF MeshInv, PeersInv, NoLostPeer
<1> QED BY <1>1, MeshInvariant, PTL

(* Without a fault all callers have the same token: nobody has one while one  *)
(* is being generated, and one caller generates.                              *)
THEOREM OneToken == MeshSpec => []TokenAgreed
<1>1. MeshInv => TokenAgreed
  BY DEF MeshInv, TokenInv, TokenAgreed
<1> QED BY <1>1, MeshInvariant, PTL
================================================================================
