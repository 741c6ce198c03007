------------------------------- MODULE PidLock -------------------------------
(***************************************************************************)
(* container/coordination.rs: acquire_pid_lock, a lock file that several   *)
(* processes create, inspect and remove.  A lock is a path; it is free     *)
(* while there is no file.  The creator writes its process id after it has *)
(* created the file, and a caller that finds the file removes it when the  *)
(* process in it is dead, or when there is no process id in it and the     *)
(* file is older than four retry intervals.                                *)
(*                                                                         *)
(* Every file operation is a step.  A step that is late, and a crash, are  *)
(* counted in faults: they are what the mutual exclusion depends on.       *)
(***************************************************************************)
EXTENDS Naturals

CONSTANTS
    Callers,     \* threads and async tasks that acquire locks
    Procs,       \* processes
    ProcOf,      \* the process of a caller
    Locks,       \* paths of lock files
    NoFile,      \* there is no file at the path
    NoLock,      \* a caller that acquires no lock
    MaxFaults    \* bound on faults

ASSUME PidLockAssumption ==
    /\ ProcOf \in [Callers -> Procs]
    /\ NoFile \notin [by : Callers, inc : Nat, pid : BOOLEAN, old : BOOLEAN]
    /\ NoLock \notin Locks
    /\ MaxFaults \in Nat

VARIABLES
    lockfile,    \* the file at each path: who created it, in which incarnation of
                 \* its process, whether it holds the process id and whether its
                 \* mtime is more than four retries ago
    inc,         \* the incarnation of each process: a dead one never returns
    step,        \* where each caller is in acquire_pid_lock
    wants,       \* the path it acquires
    saw,         \* the file as stale_lock_path read it
    late,        \* its deadline has passed
    faults       \* crashes and late steps so far

lockVars == <<lockfile, inc, step, wants, saw, late, faults>>

LockFile == [by : Callers, inc : Nat, pid : BOOLEAN, old : BOOLEAN]

Steps == {"none", "open", "created", "read", "judge", "remove", "wait", "held", "failed"}

LockTypeOK ==
    /\ lockfile \in [Locks -> LockFile \cup {NoFile}]
    /\ inc \in [Procs -> Nat]
    /\ step \in [Callers -> Steps]
    /\ wants \in [Callers -> Locks \cup {NoLock}]
    /\ saw \in [Callers -> LockFile \cup {NoFile}]
    /\ late \in [Callers -> BOOLEAN]
    /\ faults \in 0..MaxFaults

LockInit ==
    /\ lockfile = [l \in Locks |-> NoFile]
    /\ inc = [p \in Procs |-> 0]
    /\ step = [c \in Callers |-> "none"]
    /\ wants = [c \in Callers |-> NoLock]
    /\ saw = [c \in Callers |-> NoFile]
    /\ late = [c \in Callers |-> FALSE]
    /\ faults = 0

(* pid_is_alive, for the process that created the file                     *)
Alive(file) == file.inc = inc[ProcOf[file.by]]

HasPid(file) == file # NoFile /\ file.pid

At(c, here) == step[c] = here

Go(c, there) == step' = [step EXCEPT ![c] = there]

(* A call of acquire_pid_lock for path l.                                  *)
Acquire(c, l) ==
    /\ Go(c, "open")
    /\ wants' = [wants EXCEPT ![c] = l]
    /\ late' = [late EXCEPT ![c] = FALSE]
    /\ UNCHANGED <<lockfile, inc, saw, faults>>

(* Mutation of OpenNew: create, which opens a file that exists as well.    *)
OpenExisting(c) ==
    /\ At(c, "open")
    /\ lockfile' = [lockfile EXCEPT ![wants[c]] =
                        [by |-> c, inc |-> inc[ProcOf[c]], pid |-> FALSE, old |-> FALSE]]
    /\ Go(c, "created")
    /\ UNCHANGED <<inc, wants, saw, late, faults>>

(* OpenOptions::create_new                                                 *)
OpenNew(c) ==
    /\ At(c, "open")
    /\ \/ /\ lockfile[wants[c]] = NoFile
          /\ lockfile' = [lockfile EXCEPT ![wants[c]] =
                              [by |-> c, inc |-> inc[ProcOf[c]], pid |-> FALSE, old |-> FALSE]]
          /\ Go(c, "created")
       \/ /\ lockfile[wants[c]] # NoFile
          /\ Go(c, "read")
          /\ UNCHANGED lockfile
    /\ UNCHANGED <<inc, wants, saw, late, faults>>

(* The path cannot be opened for another reason, which counts as a fault.  *)
OpenFails(c) ==
    /\ At(c, "open")
    /\ Go(c, "failed")
    /\ faults < MaxFaults
    /\ faults' = faults + 1
    /\ UNCHANGED <<lockfile, inc, wants, saw, late>>

(* The pid goes to the file the caller created, which is at the path only  *)
(* as long as nobody removed it.  An error of the write is ignored.        *)
WritePid(c) ==
    /\ At(c, "created")
    /\ Go(c, "held")
    /\ late' = [late EXCEPT ![c] = FALSE]
    /\ \/ /\ lockfile' = [l \in Locks |->
                 IF l = wants[c] /\ lockfile[l] # NoFile /\ lockfile[l].by = c
                 THEN [lockfile[l] EXCEPT !.pid = TRUE, !.old = FALSE] ELSE lockfile[l]]
          /\ UNCHANGED faults
       \/ /\ faults < MaxFaults
          /\ faults' = faults + 1
          /\ UNCHANGED lockfile
    /\ UNCHANGED <<inc, wants, saw>>

(* stale_lock_path reads the file; there may be none by now.               *)
ReadLock(c) ==
    /\ At(c, "read")
    /\ saw' = [saw EXCEPT ![c] = lockfile[wants[c]]]
    /\ Go(c, "judge")
    /\ UNCHANGED <<lockfile, inc, wants, late, faults>>

(* Mutation of Stale: a file without a process id is stale at any age.     *)
StaleWithoutPid(c) == HasPid(saw[c]) => ~Alive(saw[c])

(* The verdict: by the process id that was read or, without one, by the    *)
(* mtime of whatever is at the path now (stale_unparseable_lock).          *)
Stale(c) ==
    IF HasPid(saw[c])
    THEN ~Alive(saw[c])
    ELSE lockfile[wants[c]] # NoFile /\ lockfile[wants[c]].old

JudgeLock(c) ==
    /\ At(c, "judge")
    /\ \/ Stale(c) /\ Go(c, "remove")
       \/ ~Stale(c) /\ Go(c, "wait")
    /\ saw' = [saw EXCEPT ![c] = NoFile]
    /\ UNCHANGED <<lockfile, inc, wants, late, faults>>

(* remove_file removes what is at the path now, or fails.  An error is     *)
(* ignored, and the loop goes on without a look at the deadline.           *)
RemoveStale(c) ==
    /\ At(c, "remove")
    /\ \/ lockfile' = [lockfile EXCEPT ![wants[c]] = NoFile]
       \/ UNCHANGED lockfile
    /\ Go(c, "open")
    /\ UNCHANGED <<inc, wants, saw, late, faults>>

(* Mutation of RetryOrTimeout: the deadline is not looked at.              *)
RetryForever(c) ==
    /\ At(c, "wait")
    /\ Go(c, "open")
    /\ UNCHANGED <<lockfile, inc, wants, saw, late, faults>>

RetryOrTimeout(c) ==
    /\ At(c, "wait")
    /\ \/ late[c] /\ Go(c, "failed")
       \/ ~late[c] /\ Go(c, "open")
    /\ UNCHANGED <<lockfile, inc, wants, saw, late, faults>>

(* Drop of the guards that remove the file, whoever created it (an error   *)
(* is ignored and leaves the file: a fault); the guard of the auth token   *)
(* only closes its handle.                                                 *)
Leave(c) ==
    /\ Go(c, "none")
    /\ wants' = [wants EXCEPT ![c] = NoLock]
    /\ late' = [late EXCEPT ![c] = FALSE]
    /\ UNCHANGED <<inc, saw>>

DropLock(c) ==
    /\ \/ lockfile' = [lockfile EXCEPT ![wants[c]] = NoFile] /\ UNCHANGED faults
       \/ faults < MaxFaults /\ faults' = faults + 1 /\ UNCHANGED lockfile
    /\ Leave(c)

KeepLock(c) ==
    /\ Leave(c)
    /\ UNCHANGED <<lockfile, faults>>

(* Time.  A file grows old; it matters while it has no pid in it, or a     *)
(* caller that read no pid has still to look at the mtime.  It is a fault  *)
(* when the creator is alive: one of the two took four retries.            *)
GrowOld(l) ==
    LET file == lockfile[l] IN
    /\ file # NoFile /\ ~file.old
    /\ \/ ~file.pid
       \/ \E c \in Callers : At(c, "judge") /\ wants[c] = l /\ ~HasPid(saw[c])
    /\ lockfile' = [lockfile EXCEPT ![l].old = TRUE]
    /\ \/ ~Alive(file) /\ UNCHANGED faults
       \/ Alive(file) /\ faults < MaxFaults /\ faults' = faults + 1
    /\ UNCHANGED <<inc, step, wants, saw, late>>

DeadlinePasses(c) ==
    /\ step[c] \notin {"none", "held", "failed"}
    /\ ~late[c]
    /\ late' = [late EXCEPT ![c] = TRUE]
    /\ UNCHANGED <<lockfile, inc, step, wants, saw, faults>>

(* A process dies, and a new one takes its place.                          *)
Crash(p) ==
    /\ faults < MaxFaults
    /\ faults' = faults + 1
    /\ inc' = [inc EXCEPT ![p] = @ + 1]
    /\ step' = [c \in Callers |-> IF ProcOf[c] = p THEN "none" ELSE step[c]]
    /\ saw' = [c \in Callers |-> IF ProcOf[c] = p THEN NoFile ELSE saw[c]]
    /\ late' = [c \in Callers |-> IF ProcOf[c] = p THEN FALSE ELSE late[c]]
    /\ wants' = [c \in Callers |-> IF ProcOf[c] = p THEN NoLock ELSE wants[c]]
    /\ UNCHANGED lockfile

LockStep(c) ==
    \/ OpenNew(c) \/ OpenFails(c) \/ WritePid(c) \/ ReadLock(c) \/ JudgeLock(c)
    \/ RemoveStale(c) \/ RetryOrTimeout(c)

--------------------------------------------------------------------------------
(* Who has acquired l and not given it back.                               *)
Holders(l) == {c \in Callers : step[c] \in {"created", "held"} /\ wants[c] = l}

(* As long as no process has died and no step was late, two callers never  *)
(* have the same lock: the file of a live caller is not taken for stale.   *)
(* (coordination.rs:119-200)                                               *)
Exclusive == faults = 0 => \A l \in Locks : \A c, d \in Holders(l) : c = d

(* Every call of acquire_pid_lock returns, with the lock or at its         *)
(* deadline, except where it comes upon a stale lock over and over: only   *)
(* the branch that removes one skips the deadline (coordination.rs:142),   *)
(* and it does not end when the file cannot be removed.                    *)
AcquireEnds ==
    \A c \in Callers :
        \/ step[c] = "open" ~> step[c] \in {"created", "held", "failed", "none"}
        \/ []<>(step[c] = "remove")
================================================================================
