------------------------------ MODULE MeshState ------------------------------
(***************************************************************************)
(* What the processes on one host share below the mesh directory: the peer *)
(* registry (container/mesh.rs, mesh_init.rs), in which a process is       *)
(* registered from its start to its shutdown, and the auth token           *)
(* (coordination.rs), which the first caller generates.  Both are read and *)
(* written under a PidLock.  The registry is replaced by a rename, the     *)
(* token is written in place: truncated, then filled.                      *)
(***************************************************************************)
EXTENDS PidLock

CONSTANTS
    NoToken     \* the token file is missing or empty

ASSUME MeshAssumption ==
    /\ Locks = {"peers", "token"}
    /\ NoToken \notin Callers

VARIABLES
    peers,      \* the registry file: processes in it
    copy,       \* the registry a caller has loaded
    member,     \* each process: registered, and on the way in or out
    token,      \* the token file; a token is named after its author
    got,        \* the token a caller was given last
    phase       \* where each caller is

meshVars == <<peers, copy, member, token, got, phase>>
vars == <<lockVars, meshVars>>

Phases == {"idle", "join", "joinSave", "joinDrop", "leave", "leaveSave", "leaveDrop",
           "token", "mint", "fill"}

MeshTypeOK ==
    /\ LockTypeOK
    /\ peers \subseteq Procs
    /\ copy \in [Callers -> SUBSET Procs]
    /\ member \in [Procs -> {"down", "joining", "up", "leaving"}]
    /\ token \in Callers \cup {NoToken}
    /\ got \in [Callers -> Callers \cup {NoToken}]
    /\ phase \in [Callers -> Phases]

MeshInit ==
    /\ LockInit
    /\ peers = {}
    /\ copy = [c \in Callers |-> {}]
    /\ member = [p \in Procs |-> "down"]
    /\ token = NoToken
    /\ got = [c \in Callers |-> NoToken]
    /\ phase = [c \in Callers |-> "idle"]

In(c, here) == phase[c] = here

To(c, there) == phase' = [phase EXCEPT ![c] = there]

Member(c, status) == member' = [member EXCEPT ![ProcOf[c]] = status]

(* register_self_in_mesh, at the start of a server                         *)
RegisterSelf(c) ==
    /\ In(c, "idle")
    /\ member[ProcOf[c]] = "down"
    /\ Member(c, "joining")
    /\ To(c, "join")
    /\ Acquire(c, "peers")
    /\ UNCHANGED <<peers, copy, token, got>>

(* deregister_self_from_mesh, at its shutdown                              *)
DeregisterSelf(c) ==
    /\ In(c, "idle")
    /\ member[ProcOf[c]] = "up"
    /\ Member(c, "leaving")
    /\ To(c, "leave")
    /\ Acquire(c, "peers")
    /\ UNCHANGED <<peers, copy, token, got>>

(* Mutation of LoadPeers: the registry is loaded before the lock is taken. *)
LoadPeersEarly(c) ==
    /\ \/ In(c, "join") /\ To(c, "joinSave")
       \/ In(c, "leave") /\ To(c, "leaveSave")
    /\ copy' = [copy EXCEPT ![c] = peers]
    /\ UNCHANGED <<lockVars, peers, member, token, got>>

LoadPeers(c) ==
    /\ At(c, "held")
    /\ \/ In(c, "join") /\ To(c, "joinSave")
       \/ In(c, "leave") /\ To(c, "leaveSave")
    /\ copy' = [copy EXCEPT ![c] = peers]
    /\ UNCHANGED <<lockVars, peers, member, token, got>>

(* The registry cannot be read: a server that registers takes it for empty *)
(* and one that deregisters leaves it as it is.                            *)
LoadFails(c) ==
    /\ At(c, "held")
    /\ \/ In(c, "join") /\ To(c, "joinSave") /\ UNCHANGED member
       \/ In(c, "leave") /\ To(c, "leaveDrop") /\ Member(c, "down")
    /\ faults < MaxFaults
    /\ faults' = faults + 1
    /\ copy' = [copy EXCEPT ![c] = {}]
    /\ UNCHANGED <<lockfile, inc, step, wants, saw, late, peers, token, got>>

(* PeerRegistry::save, or its error                                        *)
SavePeers(c) ==
    /\ At(c, "held")
    /\ \/ /\ In(c, "joinSave")
          /\ \/ peers' = copy[c] \cup {ProcOf[c]} /\ Member(c, "up")
             \/ UNCHANGED peers /\ Member(c, "down")
          /\ To(c, "joinDrop")
       \/ /\ In(c, "leaveSave")
          /\ peers' \in {copy[c] \ {ProcOf[c]}, peers}
          /\ Member(c, "down")
          /\ To(c, "leaveDrop")
    /\ copy' = [copy EXCEPT ![c] = {}]
    /\ UNCHANGED <<lockVars, token, got>>

ReleasePeers(c) ==
    /\ phase[c] \in {"joinDrop", "leaveDrop"}
    /\ To(c, "idle")
    /\ DropLock(c)
    /\ UNCHANGED <<peers, copy, member, token, got>>

(* The lock was not to be had: both calls give up.                         *)
NoPeersLock(c) ==
    /\ At(c, "failed")
    /\ phase[c] \in {"join", "leave"}
    /\ Member(c, "down")
    /\ To(c, "idle")
    /\ KeepLock(c)
    /\ UNCHANGED <<peers, copy, token, got>>

Give(c) == token # NoToken /\ got' = [got EXCEPT ![c] = token]

(* local_mesh_auth_token                                                   *)
AskToken(c) ==
    /\ In(c, "idle")
    /\ \/ /\ Give(c)
          /\ UNCHANGED <<lockVars, phase>>
       \/ /\ token = NoToken
          /\ To(c, "token")
          /\ Acquire(c, "token")
          /\ UNCHANGED got
    /\ UNCHANGED <<peers, copy, member, token>>

(* Under the lock the file is read again: whoever had the lock before may  *)
(* have died after it wrote a token.                                       *)
RecheckToken(c) ==
    /\ At(c, "held")
    /\ In(c, "token")
    /\ \/ /\ Give(c)
          /\ To(c, "idle")
          /\ KeepLock(c)
       \/ /\ token = NoToken
          /\ To(c, "mint")
          /\ UNCHANGED <<lockVars, got>>
    /\ UNCHANGED <<peers, copy, member, token>>

(* write_private_file truncates the file, or fails.                        *)
TruncateToken(c) ==
    /\ In(c, "mint")
    /\ \/ /\ To(c, "fill")
          /\ token' = NoToken
          /\ UNCHANGED lockVars
       \/ /\ To(c, "idle")
          /\ KeepLock(c)
          /\ UNCHANGED token
    /\ UNCHANGED <<peers, copy, member, got>>

WriteToken(c) ==
    /\ In(c, "fill")
    /\ token' = c
    /\ got' = [got EXCEPT ![c] = c]
    /\ To(c, "idle")
    /\ KeepLock(c)
    /\ UNCHANGED <<peers, copy, member>>

NoTokenLock(c) ==
    /\ At(c, "failed")
    /\ In(c, "token")
    /\ To(c, "idle")
    /\ KeepLock(c)
    /\ UNCHANGED <<peers, copy, member, token, got>>

MeshCrash(p) ==
    /\ Crash(p)
    /\ member' = [member EXCEPT ![p] = "down"]
    /\ phase' = [c \in Callers |-> IF ProcOf[c] = p THEN "idle" ELSE phase[c]]
    /\ copy' = [c \in Callers |-> IF ProcOf[c] = p THEN {} ELSE copy[c]]
    /\ got' = [c \in Callers |-> IF ProcOf[c] = p THEN NoToken ELSE got[c]]
    /\ UNCHANGED <<peers, token>>

Internal(c) ==
    \/ LockStep(c) /\ UNCHANGED meshVars
    \/ LoadPeers(c) \/ LoadFails(c) \/ SavePeers(c) \/ ReleasePeers(c) \/ NoPeersLock(c)
    \/ RecheckToken(c) \/ TruncateToken(c) \/ WriteToken(c) \/ NoTokenLock(c)

MeshNext ==
    \/ \E c \in Callers : \/ RegisterSelf(c) \/ DeregisterSelf(c) \/ AskToken(c)
                          \/ Internal(c)
                          \/ DeadlinePasses(c) /\ UNCHANGED meshVars
    \/ \E l \in Locks : GrowOld(l) /\ UNCHANGED meshVars
    \/ \E p \in Procs : MeshCrash(p)

MeshSpec == MeshInit /\ [][MeshNext]_vars

(* Threads that are not stuck go on, and time passes.                      *)
FairMeshSpec ==
    /\ MeshSpec
    /\ \A c \in Callers : WF_vars(Internal(c)) /\ WF_vars(DeadlinePasses(c) /\ UNCHANGED meshVars)

--------------------------------------------------------------------------------
(* Without a fault, a process that was told it is registered is in the     *)
(* registry: the read-modify-write of another process does not drop it     *)
(* (mesh_init.rs:48-52, 75-83).                                            *)
NoLostPeer == faults = 0 => \A p \in Procs : member[p] = "up" => p \in peers

(* Without a fault, all callers that were given a token have the one in    *)
(* the file: two first callers do not generate one each                    *)
(* (coordination.rs:54-78, and the test that expects a stable token).      *)
TokenAgreed == faults = 0 => \A c \in Callers : got[c] # NoToken => got[c] = token
================================================================================
