------------------------------- MODULE PtySession -------------------------------
(***************************************************************************)
(* One PTY session while a task runs in it: the agent's process, the       *)
(* reader thread of cockpit/pty_manager.rs, and collect_task_output of     *)
(* orchestrator/trace_bridge.rs, which puts the task's output together     *)
(* from a snapshot of what was captured and from a broadcast channel.      *)
(* Somebody else may destroy the session meanwhile.                        *)
(*                                                                         *)
(* A chunk is what one read of the terminal returned, named by its number; *)
(* exit codes are zero or not.  A process's terminal is closed before the  *)
(* process can be waited for.                                              *)
(***************************************************************************)
EXTENDS Naturals, Sequences

CONSTANTS
    MaxChunks,      \* bound: how many chunks the process may write
    Capacity,       \* slots of the broadcast channel, 1024 in the code
    CaptureLimit    \* MAX_CAPTURED_OUTPUT_BYTES, in chunks

ASSUME SessionAssumption ==
    MaxChunks \in Nat /\ Capacity \in Nat \ {0} /\ CaptureLimit \in Nat \ {0}

VARIABLES
    proc,        \* the process: "running", "closed" its terminal, "exited"
    code,        \* its exit code, known to the parent once it has exited
    written,     \* chunks written to the terminal
    taken,       \* chunks read by the reader thread
    reader,      \* the reader thread
    captured,    \* captured_output
    chan,        \* every event sent to output_tx, oldest first
    status,      \* PtySession.status
    killer,      \* destroy_session, called by somebody else
    collector,   \* collect_task_output
    next,        \* the collector's place in the channel
    got,         \* bridge.output_buf
    result       \* what collect_task_output returns: an exit code, "error" or "timeout"

processVars == <<proc, code, written>>
readerVars == <<taken, reader, captured>>
collectorVars == <<collector, next, got, result>>
sessionVars == <<processVars, readerVars, chan, status, killer, collectorVars>>

Codes == {"zero", "nonzero"}
Status == [state : {"active", "done", "error"}, code : Codes]
Event == [kind : {"output", "done", "error"}, chunk : 0..MaxChunks, code : Codes]
Chunks == 1..MaxChunks

SessionTypeOK ==
    /\ proc \in {"running", "closed", "exited"}
    /\ code \in Codes
    /\ written \in 0..MaxChunks /\ taken \in 0..written
    /\ reader \in {"read", "send", "gone"}
    /\ captured \in Seq(Chunks)
    /\ chan \in Seq(Event)
    /\ status \in Status
    /\ killer \in {"new", "mark", "gone"}
    /\ collector \in {"subscribe", "snapshot", "status", "poll", "receive", "over"}
    /\ next \in Nat
    /\ got \in Seq(Chunks)
    /\ result \in Codes \cup {"none", "error", "timeout"}

Active == [state |-> "active", code |-> "zero"]

SessionInit ==
    /\ proc = "running" /\ code = "zero" /\ written = 0
    /\ taken = 0 /\ reader = "read" /\ captured = <<>>
    /\ chan = <<>> /\ status = Active /\ killer = "new"
    /\ collector = "subscribe" /\ next = 0 /\ got = <<>> /\ result = "none"

(***************************************************************************)
(* The process.                                                            *)
(***************************************************************************)
ProcessWrites ==
    /\ proc = "running" /\ written < MaxChunks
    /\ written' = written + 1
    /\ UNCHANGED <<proc, code, readerVars, chan, status, killer, collectorVars>>

ProcessCloses ==
    /\ proc = "running"
    /\ proc' = "closed"
    /\ code' \in Codes
    /\ UNCHANGED <<written, readerVars, chan, status, killer, collectorVars>>

ProcessExits ==
    /\ proc = "closed"
    /\ proc' = "exited"
    /\ UNCHANGED <<code, written, readerVars, chan, status, killer, collectorVars>>

(* terminate: hang up, then kill.  A process that handles the hang-up may  *)
(* choose its exit code.                                                   *)
Terminate ==
    IF proc = "running" THEN proc' = "closed" /\ code' \in Codes
                        ELSE UNCHANGED <<proc, code>>

(* poll_exit_status.                                                       *)
ExitKnown == proc = "exited"

(***************************************************************************)
(* set_status and the reader thread.  publish_output appends to            *)
(* captured_output under its lock and sends to the channel afterwards.     *)
(***************************************************************************)
SetStatus(state, c) ==
    /\ status' = [state |-> state, code |-> c]
    /\ chan' = Append(chan, [kind |-> state, chunk |-> 0, code |-> c])

Capture(n) ==
    LET all == Append(captured, n)
        cut == IF Len(all) > CaptureLimit THEN Len(all) - CaptureLimit ELSE 0
    IN  SubSeq(all, cut + 1, Len(all))

ReadChunk ==
    /\ reader = "read" /\ taken < written
    /\ taken' = taken + 1
    /\ captured' = Capture(taken + 1)
    /\ reader' = "send"
    /\ UNCHANGED <<processVars, chan, status, killer, collectorVars>>

SendChunk ==
    /\ reader = "send"
    /\ chan' = Append(chan, [kind |-> "output", chunk |-> taken, code |-> "zero"])
    /\ reader' = "read"
    /\ UNCHANGED <<processVars, taken, captured, status, killer, collectorVars>>

(* The end of the terminal: the exit code, or zero when it is not known.   *)
ReadEnd ==
    /\ reader = "read" /\ taken = written
    /\ proc # "running"
    /\ SetStatus("done", IF ExitKnown THEN code ELSE "zero")
    /\ reader' = "gone"
    /\ UNCHANGED <<processVars, taken, captured, killer, collectorVars>>

ReadFails ==
    /\ reader = "read"
    /\ SetStatus("error", "zero")
    /\ reader' = "gone"
    /\ UNCHANGED <<processVars, taken, captured, killer, collectorVars>>

(* destroy_session by a stop, by the dashboard or by the reaper.           *)
Destroy ==
    \/ /\ killer = "new"
       /\ Terminate
       /\ killer' = "mark"
       /\ UNCHANGED <<written, readerVars, chan, status, collectorVars>>
    \/ /\ killer = "mark"
       /\ SetStatus("done", "zero")
       /\ killer' = "gone"
       /\ UNCHANGED <<processVars, readerVars, collectorVars>>

(***************************************************************************)
(* collect_task_output.                                                    *)
(***************************************************************************)

(* Mutation of Subscribe: the snapshot is taken before the subscription.   *)
SnapshotFirst ==
    \/ /\ collector = "subscribe"
       /\ got' = captured
       /\ collector' = "snapshot"
       /\ UNCHANGED <<processVars, readerVars, chan, status, killer, next, result>>
    \/ /\ collector = "snapshot"
       /\ next' = Len(chan) + 1
       /\ collector' = "status"
       /\ UNCHANGED <<processVars, readerVars, chan, status, killer, got, result>>

Subscribe ==
    \/ /\ collector = "subscribe"
       /\ next' = Len(chan) + 1
       /\ collector' = "snapshot"
       /\ UNCHANGED <<processVars, readerVars, chan, status, killer, got, result>>
    \/ /\ collector = "snapshot"
       /\ got' = captured
       /\ collector' = "status"
       /\ UNCHANGED <<processVars, readerVars, chan, status, killer, next, result>>

Return(r) == result' = r /\ collector' = "over"

CheckStatus ==
    /\ collector = "status"
    /\ CASE status.state = "done"   -> Return(status.code)
         [] status.state = "error"  -> Return("error")
         [] status.state = "active" -> collector' = "poll" /\ UNCHANGED result
    /\ UNCHANGED <<processVars, readerVars, chan, status, killer, next, got>>

(* Mutation of PollExit: the code is that of a process not yet waited for. *)
PollEarly ==
    /\ collector = "poll"
    /\ IF proc # "running" THEN Return("nonzero") ELSE collector' = "receive" /\ UNCHANGED result
    /\ UNCHANGED <<processVars, readerVars, chan, status, killer, next, got>>

PollExit ==
    /\ collector = "poll"
    /\ IF ExitKnown THEN Return(code) ELSE collector' = "receive" /\ UNCHANGED result
    /\ UNCHANGED <<processVars, readerVars, chan, status, killer, next, got>>

(* One recv of at most 100 ms: the receiver was overtaken by the senders   *)
(* and moves on to the oldest event there is, an event, or nothing.        *)
Receive ==
    LET oldest == IF Len(chan) > Capacity THEN Len(chan) - Capacity + 1 ELSE 1
        Overtaken == next < oldest /\ next' = oldest /\ collector' = "status"
                     /\ UNCHANGED <<got, result>>
        Output == /\ next >= oldest /\ next <= Len(chan) /\ chan[next].kind = "output"
                  /\ got' = Append(got, chan[next].chunk)
                  /\ next' = next + 1 /\ collector' = "status"
                  /\ UNCHANGED result
        Ended == /\ next >= oldest /\ next <= Len(chan) /\ chan[next].kind # "output"
                 /\ Return(IF chan[next].kind = "error" THEN "error" ELSE chan[next].code)
                 /\ next' = next + 1
                 /\ UNCHANGED got
        Nothing == next > Len(chan) /\ collector' = "status" /\ UNCHANGED <<next, got, result>>
    IN
    /\ collector = "receive"
    /\ Overtaken \/ Output \/ Ended \/ Nothing
    /\ UNCHANGED <<processVars, readerVars, chan, status, killer>>

(* Mutation of TimeUp: the deadline moves on with every turn of the loop.  *)
NeverUp == FALSE

(* The deadline is looked at between the poll and the recv.                *)
TimeUp ==
    /\ collector = "receive"
    /\ Terminate
    /\ Return("timeout")
    /\ UNCHANGED <<written, readerVars, chan, status, killer, next, got>>

CollectorStep == Subscribe \/ CheckStatus \/ PollExit \/ Receive
ReaderStep == ReadChunk \/ SendChunk \/ ReadEnd

SessionNext ==
    \/ ProcessWrites \/ ProcessCloses \/ ProcessExits
    \/ ReaderStep \/ ReadFails
    \/ Destroy
    \/ CollectorStep \/ TimeUp

(* The collector is polled whenever it is ready, and once its deadline has *)
(* passed every later turn of the loop finds it passed.  Nothing is        *)
(* assumed of the process, the reader thread and the killer.               *)
SessionSpec ==
    /\ SessionInit /\ [][SessionNext]_sessionVars
    /\ WF_sessionVars(CollectorStep) /\ SF_sessionVars(TimeUp)

---------------------------------------------------------------------------------
(* Nothing is missing in the middle: subscribing before the snapshot means *)
(* that every chunk before a collected one is collected too, unless the    *)
(* channel has overflowed or the capture was cut.                          *)
NoGap ==
    Len(chan) <= Capacity /\ taken <= CaptureLimit =>
        \A i \in DOMAIN got : \A n \in 1..got[i] : \E j \in DOMAIN got : got[j] = n

(* A failure that is reported is real: the process has exited, and with a  *)
(* code other than zero.                                                   *)
FailuresReal == result = "nonzero" => ExitKnown /\ code = "nonzero"

(* The collector returns, whatever the process, the reader and those who   *)
(* destroy the session do or do not do.                                    *)
CollectorReturns == <>(result # "none")
=================================================================================
