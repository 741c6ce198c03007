---------------------------- MODULE PtySessionProofs ----------------------------
(***************************************************************************)
(* One PTY session, for any number of chunks, any channel capacity and any *)
(* capture limit.                                                          *)
(***************************************************************************)
EXTENDS PtySession, SequenceTheorems, TLAPS

(* Whoever has seen an exit code other than zero has seen the process's.   *)
CodesReal ==
    LET Known(c) == c = "nonzero" => ExitKnown /\ code = "nonzero" IN
    /\ Known(status.code)
    /\ \A i \in DOMAIN chan : Known(chan[i].code)
    /\ Known(result)

(* How many chunks have been sent: the last one that was read may be in    *)
(* captured_output and not in the channel yet.                             *)
Sent == IF reader = "send" THEN taken - 1 ELSE taken

IsOutput(i) == i \in DOMAIN chan /\ chan[i].kind = "output"

(* The channel holds the chunks that were sent, all of them and in order.  *)
ChannelInOrder ==
    /\ reader = "send" => taken > 0
    /\ \A i \in DOMAIN chan : IsOutput(i) => chan[i].chunk \in 1..Sent
    /\ \A n \in 1..Sent : \E i \in DOMAIN chan : IsOutput(i) /\ chan[i].chunk = n
    /\ \A i, j \in DOMAIN chan : IsOutput(i) /\ IsOutput(j) /\ i < j => chan[i].chunk < chan[j].chunk

(* Until the capture is cut it holds every chunk that was read.            *)
CaptureWhole == taken <= CaptureLimit => captured = [i \in 1..taken |-> i]

Subscribed == collector # "subscribe"
Collecting == collector \notin {"subscribe", "snapshot"}

Has(buf, n) == \E i \in DOMAIN buf : buf[i] = n

(* Unless the channel has overflowed or the capture was cut, what the      *)
(* collector has passed in the channel is in its buffer, from the snapshot *)
(* or because it received it.                                              *)
NothingSkipped ==
    /\ ~Collecting => got = <<>>
    /\ Subscribed => next \in 1..(Len(chan) + 1)
    /\ Len(chan) <= Capacity /\ taken <= CaptureLimit =>
          \A i \in DOMAIN chan : Collecting /\ IsOutput(i) /\ i < next => Has(got, chan[i].chunk)

SessionInv ==
    /\ SessionTypeOK
    /\ CodesReal
    /\ ChannelInOrder
    /\ CaptureWhole
    /\ NothingSkipped
    /\ NoGap

LEMMA SessionInitInv == SessionInit => SessionInv
<1> SUFFICES ASSUME SessionInit PROVE SessionInv
  OBVIOUS
<1> USE SessionAssumption DEF SessionInit, Active
<1>1. SessionTypeOK
  BY DEF SessionTypeOK, Codes, Status
<1>2. CodesReal
  BY DEF CodesReal
<1>3. ChannelInOrder
  BY DEF ChannelInOrder, Sent
<1>4. CaptureWhole
  BY DEF CaptureWhole
<1>5. NothingSkipped /\ NoGap
  BY DEF NothingSkipped, NoGap, Collecting, Subscribed
<1> QED BY <1>1, <1>2, <1>3, <1>4, <1>5 DEF SessionInv

(* What an event appended to the channel leaves as it was.                 *)
LEMMA Appended ==
    ASSUME NEW x \in Event, chan \in Seq(Event), chan' = Append(chan, x)
    PROVE  /\ chan' \in Seq(Event) /\ Len(chan) \in Nat /\ Len(chan') = Len(chan) + 1
           /\ DOMAIN chan = 1..Len(chan) /\ DOMAIN chan' = 1..(Len(chan) + 1)
           /\ \A i \in DOMAIN chan : i \in DOMAIN chan' /\ chan'[i] = chan[i]
           /\ Len(chan) + 1 \in DOMAIN chan' /\ chan'[Len(chan) + 1] = x
<1>1. /\ chan' \in Seq(Event) /\ Len(chan') = Len(chan) + 1
      /\ \A i \in 1..Len(chan) : chan'[i] = chan[i]
      /\ chan'[Len(chan) + 1] = x
  BY AppendProperties
<1>2. Len(chan) \in Nat /\ DOMAIN chan = 1..Len(chan) /\ DOMAIN chan' = 1..Len(chan')
  BY <1>1
<1> QED BY <1>1, <1>2

(***************************************************************************)
(* What a step does to the channel and to captured_output: nothing, a      *)
(* chunk is read, it is sent, or an event of another kind is sent.         *)
(***************************************************************************)
Reads ==
    /\ reader = "read" /\ reader' = "send" /\ taken' = taken + 1 /\ taken < written
    /\ captured' = Capture(taken + 1) /\ UNCHANGED <<chan, status>>

Sends ==
    /\ reader = "send" /\ reader' = "read" /\ UNCHANGED <<taken, captured, status>>
    /\ chan' = Append(chan, [kind |-> "output", chunk |-> taken, code |-> "zero"])

Announces(st, c) ==
    /\ UNCHANGED <<taken, captured>> /\ (reader' = reader \/ (reader = "read" /\ reader' = "gone"))
    /\ status' = [state |-> st, code |-> c]
    /\ chan' = Append(chan, [kind |-> st, chunk |-> 0, code |-> c])
    /\ c = "nonzero" => ExitKnown /\ code = "nonzero"

Silent == UNCHANGED <<taken, captured, chan, reader, status>>

LEMMA ChannelSteps ==
    ASSUME SessionTypeOK, [SessionNext]_sessionVars
    PROVE  \/ (Reads \/ Sends \/ \E st \in {"done", "error"}, c \in Codes : Announces(st, c))
              /\ UNCHANGED <<collectorVars, written>>
           \/ Silent
<1> USE DEF processVars, readerVars, collectorVars, SessionTypeOK, Codes
<1> DEFINE Told == \E st \in {"done", "error"}, c \in Codes : Announces(st, c)
           Rest == UNCHANGED <<collectorVars, written>>
<1>1. ProcessWrites \/ ProcessCloses \/ ProcessExits \/ TimeUp => Silent
  BY DEF ProcessWrites, ProcessCloses, ProcessExits, TimeUp, Silent
<1>2. ReadChunk => Reads /\ Rest
  BY DEF ReadChunk, Reads
<1>3. SendChunk => Sends /\ Rest
  BY DEF SendChunk, Sends
<1>4. ReadEnd => Told /\ Rest
  BY DEF ReadEnd, SetStatus, Announces, ExitKnown
<1>5. ReadFails => Told /\ Rest
  BY DEF ReadFails, SetStatus, Announces
<1>6. Destroy => Silent \/ (Told /\ Rest)
  <2>1. killer = "mark" /\ Destroy => Announces("done", "zero") /\ Rest
    BY DEF Destroy, SetStatus, Announces
  <2>2. killer # "mark" /\ Destroy => Silent
    BY DEF Destroy, Silent
  <2> QED BY <2>1, <2>2
<1>7. CollectorStep => Silent
  BY DEF CollectorStep, Subscribe, CheckStatus, PollExit, Receive, Silent
<1>8. UNCHANGED sessionVars => Silent
  BY DEF sessionVars, Silent
<1> HIDE DEF Told, Rest
<1>9. (Reads /\ Rest) \/ (Sends /\ Rest) \/ (Told /\ Rest) \/ Silent
  BY <1>1, <1>2, <1>3, <1>4, <1>5, <1>6, <1>7, <1>8 DEF SessionNext, ReaderStep
<1> QED BY <1>9 DEF Told, Rest

(***************************************************************************)
(* The outcomes of a recv, with the collector's place within the channel.  *)
(***************************************************************************)
Skips ==
    /\ Len(chan) > Capacity
    /\ next' = Len(chan) - Capacity + 1
    /\ collector' = "status"
    /\ UNCHANGED <<got, result>>

Receives ==
    /\ next \in DOMAIN chan /\ chan[next].kind = "output"
    /\ got' = Append(got, chan[next].chunk) /\ next' = next + 1 /\ collector' = "status"
    /\ UNCHANGED result

Ends ==
    /\ next \in DOMAIN chan /\ chan[next].kind # "output"
    /\ result' = IF chan[next].kind = "error" THEN "error" ELSE chan[next].code
    /\ next' = next + 1 /\ collector' = "over" /\ UNCHANGED got

Waits == collector' = "status" /\ UNCHANGED <<next, got, result>>

LEMMA ReceiveCases ==
    ASSUME SessionTypeOK, NothingSkipped, Receive
    PROVE  /\ collector = "receive" /\ UNCHANGED <<processVars, readerVars, chan, status, killer>>
           /\ Skips \/ Receives \/ Ends \/ Waits
<1> USE SessionAssumption
<1>1. collector = "receive" /\ UNCHANGED <<processVars, readerVars, chan, status, killer>>
  BY DEF Receive
<1>2. Len(chan) \in Nat /\ DOMAIN chan = 1..Len(chan)
  BY DEF SessionTypeOK
<1>3. next \in 1..(Len(chan) + 1)
  BY <1>1 DEF NothingSkipped, Subscribed
<1>4. next <= Len(chan) => next \in DOMAIN chan
  BY <1>2, <1>3
<1>5. ~Skips => Receives \/ Ends \/ Waits
  <2> SUFFICES ASSUME ~Skips PROVE Receives \/ Ends \/ Waits
    OBVIOUS
  <2>1. CASE Len(chan) > Capacity
    BY <1>2, <1>3, <1>4, <2>1 DEF Receive, Skips, Receives, Ends, Waits, Return
  <2>2. CASE ~(Len(chan) > Capacity)
    BY <1>2, <1>3, <1>4, <2>2 DEF Receive, Skips, Receives, Ends, Waits, Return
  <2> QED BY <2>1, <2>2
<1> QED BY <1>1, <1>5

(* captured_output never grows past the limit and holds chunks only.       *)
LEMMA CaptureStep ==
    ASSUME SessionTypeOK, CaptureWhole, taken < written
    PROVE  /\ Capture(taken + 1) \in Seq(Chunks)
           /\ taken + 1 <= CaptureLimit => Capture(taken + 1) = [i \in 1..(taken + 1) |-> i]
<1> USE SessionAssumption
<1> DEFINE all == Append(captured, taken + 1)
<1>1. taken \in Nat /\ taken + 1 \in Chunks
  BY DEF SessionTypeOK, Chunks
<1>2. all \in Seq(Chunks) /\ captured \in Seq(Chunks) /\ Len(all) = Len(captured) + 1 /\ Len(captured) \in Nat
  BY <1>1, AppendProperties DEF SessionTypeOK
<1> DEFINE cut == IF Len(all) > CaptureLimit THEN Len(all) - CaptureLimit ELSE 0
<1>3. Capture(taken + 1) = SubSeq(all, cut + 1, Len(all))
  BY DEF Capture
<1>4. cut \in Nat /\ cut + 1 \in 1..Len(all)
  BY <1>2
<1>5. SubSeq(all, cut + 1, Len(all)) \in Seq(Chunks)
  BY <1>2, <1>4, SubSeqProperties
<1>6. ASSUME taken + 1 <= CaptureLimit
      PROVE  Capture(taken + 1) = [i \in 1..(taken + 1) |-> i]
  <2>1. captured = [i \in 1..taken |-> i]
    BY <1>1, <1>6 DEF CaptureWhole
  <2>2. Len(captured) = taken
    BY <1>1, <2>1
  <2>3. Len(all) = taken + 1 /\ cut = 0
    BY <1>1, <1>2, <1>6, <2>2
  <2>4. all[taken + 1] = taken + 1 /\ \A i \in 1..taken : all[i] = i
    BY <1>1, <1>2, <2>1, <2>2, AppendProperties
  <2>5. DOMAIN all = 1..(taken + 1)
    BY <1>2, <2>3
  <2>6. \A i \in 1..(taken + 1) : all[i] = i
    BY <1>1, <2>4
  <2> HIDE DEF all, cut
  <2>7. SubSeq(all, 1, Len(all)) = [i \in 1..(taken + 1) |-> i]
    <3>1. SubSeq(all, 1, taken + 1) = [i \in 1..(taken + 1) |-> all[i]]
      BY <1>1
    <3> QED BY <2>3, <2>6, <3>1
  <2> QED BY <1>3, <2>3, <2>7
<1> QED BY <1>3, <1>5, <1>6

LEMMA TypeStep ==
    ASSUME SessionTypeOK, CaptureWhole, NothingSkipped, ChannelInOrder, [SessionNext]_sessionVars
    PROVE  SessionTypeOK'
<1> USE SessionAssumption DEF processVars, readerVars, collectorVars, Codes
<1> DEFINE
      ChannelOK ==
        /\ captured' \in Seq(Chunks) /\ chan' \in Seq(Event) /\ status' \in Status
        /\ reader' \in {"read", "send", "gone"}
      ProcessOK ==
        /\ proc' \in {"running", "closed", "exited"} /\ code' \in Codes
        /\ written' \in 0..MaxChunks /\ taken' \in 0..written'
        /\ killer' \in {"new", "mark", "gone"}
      CollectorOK ==
        /\ collector' \in {"subscribe", "snapshot", "status", "poll", "receive", "over"}
        /\ next' \in Nat /\ got' \in Seq(Chunks)
        /\ result' \in Codes \cup {"none", "error", "timeout"}
<1>1. ChannelOK
  <2>0. taken \in 0..MaxChunks
    BY DEF SessionTypeOK
  <2>1. CASE Reads
    BY <2>1, CaptureStep DEF Reads, SessionTypeOK
  <2>2. CASE Sends
    <3>1. [kind |-> "output", chunk |-> taken, code |-> "zero"] \in Event
      BY <2>0 DEF Event
    <3> QED BY <2>2, <3>1, Appended DEF Sends, SessionTypeOK
  <2>3. ASSUME NEW st \in {"done", "error"}, NEW c \in Codes, Announces(st, c)
        PROVE  ChannelOK
    <3>1. [kind |-> st, chunk |-> 0, code |-> c] \in Event
      BY DEF Event
    <3> QED BY <2>3, <3>1, Appended DEF Announces, SessionTypeOK, Status
  <2>4. CASE Silent
    BY <2>4 DEF Silent, SessionTypeOK
  <2> HIDE DEF ChannelOK
  <2> QED BY <2>1, <2>2, <2>3, <2>4, ChannelSteps
<1>2. ProcessOK
  <2> USE DEF SessionTypeOK
  <2>1. ProcessWrites \/ ProcessCloses \/ ProcessExits => ProcessOK
    BY DEF ProcessWrites, ProcessCloses, ProcessExits
  <2>2. TimeUp \/ Destroy => ProcessOK
    BY DEF TimeUp, Destroy, Terminate
  <2>3. ReaderStep \/ ReadFails => ProcessOK
    BY DEF ReaderStep, ReadChunk, SendChunk, ReadEnd, ReadFails
  <2>4. CollectorStep => ProcessOK
    BY DEF CollectorStep, Subscribe, CheckStatus, PollExit, Receive
  <2>5. UNCHANGED sessionVars => ProcessOK
    BY DEF sessionVars
  <2> HIDE DEF ProcessOK
  <2> QED BY <2>1, <2>2, <2>3, <2>4, <2>5 DEF SessionNext
<1>3. CollectorOK
  <2> USE DEF SessionTypeOK, Return
  <2>0. Len(chan) \in Nat
    OBVIOUS
  <2>1. Subscribe => CollectorOK
    BY <2>0 DEF Subscribe
  <2>2. CheckStatus => CollectorOK
    BY DEF CheckStatus, Status
  <2>3. PollExit \/ TimeUp => CollectorOK
    BY DEF PollExit, TimeUp
  <2>4. ASSUME Receive PROVE CollectorOK
    <3>1. Skips \/ Receives \/ Ends \/ Waits
      BY <2>4, ReceiveCases
    <3>2. next \in DOMAIN chan => chan[next] \in Event
      OBVIOUS
    <3>3. CASE Skips
      BY <2>0, <3>3 DEF Skips
    <3>4. CASE Receives
      <4>1. chan[next].chunk \in Chunks
        BY <3>4 DEF Receives, ChannelInOrder, IsOutput, Sent, Chunks
      <4> QED BY <3>4, <4>1 DEF Receives
    <3>5. CASE Ends
      BY <3>2, <3>5 DEF Ends, Event
    <3>6. CASE Waits
      BY <3>6 DEF Waits
    <3> QED BY <3>1, <3>3, <3>4, <3>5, <3>6
  <2>5. ProcessWrites \/ ProcessCloses \/ ProcessExits \/ ReaderStep \/ ReadFails \/ Destroy => CollectorOK
    BY DEF ProcessWrites, ProcessCloses, ProcessExits, ReaderStep, ReadChunk, SendChunk, ReadEnd, ReadFails,
           Destroy
  <2>6. UNCHANGED sessionVars => CollectorOK
    BY DEF sessionVars
  <2> HIDE DEF CollectorOK
  <2> QED BY <2>1, <2>2, <2>3, <2>4, <2>5, <2>6 DEF SessionNext, CollectorStep
<1> QED BY <1>1, <1>2, <1>3 DEF SessionTypeOK

(* A code other than zero is only announced, and only returned, when the   *)
(* process has exited with it; what was known stays known.                 *)
LEMMA CodesStep ==
    ASSUME SessionTypeOK, NothingSkipped, CodesReal, [SessionNext]_sessionVars
    PROVE  CodesReal'
<1> USE DEF processVars, readerVars, collectorVars
<1> DEFINE Real == ExitKnown /\ code = "nonzero"
<1>1. Real => Real'
  <2> USE DEF ExitKnown
  <2>1. ProcessWrites \/ ProcessCloses \/ ProcessExits => (Real => Real')
    BY DEF ProcessWrites, ProcessCloses, ProcessExits
  <2>2. TimeUp \/ Destroy => (Real => Real')
    BY DEF TimeUp, Destroy, Terminate
  <2>3. ReaderStep \/ ReadFails \/ CollectorStep => (Real => Real')
    BY DEF ReaderStep, ReadChunk, SendChunk, ReadEnd, ReadFails, CollectorStep, Subscribe, CheckStatus, PollExit,
           Receive
  <2>4. UNCHANGED sessionVars => (Real => Real')
    BY DEF sessionVars
  <2> QED BY <2>1, <2>2, <2>3, <2>4 DEF SessionNext
<1>2. /\ status.code = "nonzero" => Real
      /\ \A i \in DOMAIN chan : chan[i].code = "nonzero" => Real
      /\ result = "nonzero" => Real
  BY DEF CodesReal
<1> HIDE DEF Real
<1>3. /\ status'.code = "nonzero" => Real'
      /\ \A i \in DOMAIN chan' : chan'[i].code = "nonzero" => Real'
  <2>0. chan \in Seq(Event) /\ taken \in 0..MaxChunks
    BY SessionAssumption DEF SessionTypeOK
  <2>1. CASE Reads \/ Silent
    BY <1>1, <1>2, <2>1 DEF Reads, Silent
  <2>2. ASSUME NEW x \in Event, chan' = Append(chan, x), x.code = "nonzero" => Real
        PROVE  \A i \in DOMAIN chan' : chan'[i].code = "nonzero" => Real'
    <3> SUFFICES ASSUME NEW i \in DOMAIN chan', chan'[i].code = "nonzero" PROVE Real'
      OBVIOUS
    <3>1. CASE i \in DOMAIN chan
      BY <1>1, <1>2, <2>0, <2>2, <3>1, Appended
    <3>2. CASE i = Len(chan) + 1
      BY <1>1, <2>0, <2>2, <3>2, Appended
    <3>3. i \in DOMAIN chan \/ i = Len(chan) + 1
      BY <2>0, <2>2, Appended
    <3> QED BY <3>1, <3>2, <3>3
  <2>3. CASE Sends
    <3> DEFINE x == [kind |-> "output", chunk |-> taken, code |-> "zero"]
    <3>1. x \in Event /\ x.code # "nonzero"
      BY <2>0 DEF Event, Codes
    <3>2. chan' = Append(chan, x) /\ status' = status
      BY <2>3 DEF Sends
    <3> HIDE DEF x
    <3> QED BY <1>1, <1>2, <2>2, <3>1, <3>2
  <2>4. ASSUME NEW st \in {"done", "error"}, NEW c \in Codes, Announces(st, c)
        PROVE  /\ status'.code = "nonzero" => Real'
               /\ \A i \in DOMAIN chan' : chan'[i].code = "nonzero" => Real'
    <3> DEFINE x == [kind |-> st, chunk |-> 0, code |-> c]
    <3>1. x \in Event /\ x.code = c
      BY SessionAssumption DEF Event
    <3>2. chan' = Append(chan, x) /\ status'.code = c /\ (c = "nonzero" => Real)
      BY <2>4 DEF Announces, Real
    <3> HIDE DEF x
    <3> QED BY <1>1, <2>2, <3>1, <3>2
  <2> QED BY <2>1, <2>3, <2>4, ChannelSteps
<1>4. result' = "nonzero" => Real'
  <2>1. ASSUME Receive, result' = "nonzero" PROVE Real
    <3>1. Skips \/ Receives \/ Ends \/ Waits
      BY <2>1, ReceiveCases
    <3> QED BY <1>2, <2>1, <3>1 DEF Skips, Receives, Ends, Waits
  <2>2. ASSUME CheckStatus, result' = "nonzero" PROVE Real
    BY <1>2, <2>2 DEF CheckStatus, Return, SessionTypeOK, Status
  <2>3. ASSUME PollExit, result' = "nonzero" PROVE Real
    BY <1>2, <2>3 DEF PollExit, Return, Real
  <2>4. TimeUp => result' # "nonzero"
    BY DEF TimeUp, Return
  <2>5. Subscribe \/ ProcessWrites \/ ProcessCloses \/ ProcessExits => result' = result
    BY DEF Subscribe, ProcessWrites, ProcessCloses, ProcessExits
  <2>6. ReaderStep \/ ReadFails \/ Destroy => result' = result
    BY DEF ReaderStep, ReadChunk, SendChunk, ReadEnd, ReadFails, Destroy
  <2>7. UNCHANGED sessionVars => result' = result
    BY DEF sessionVars
  <2> QED
    BY <1>1, <1>2, <2>1, <2>2, <2>3, <2>4, <2>5, <2>6, <2>7 DEF SessionNext, CollectorStep
<1> QED BY <1>3, <1>4 DEF CodesReal, Real

(* The reader sends what it has read, in order.                            *)
LEMMA ChannelStep ==
    ASSUME SessionTypeOK, ChannelInOrder, [SessionNext]_sessionVars
    PROVE  ChannelInOrder'
<1> USE SessionAssumption
<1>0. chan \in Seq(Event) /\ taken \in Nat /\ taken \in 0..MaxChunks
  BY DEF SessionTypeOK
<1>1. CASE Silent
  BY <1>1 DEF Silent, ChannelInOrder, IsOutput, Sent
<1>2. CASE Reads
  <2>1. Sent' = Sent /\ chan' = chan /\ taken' > 0
    BY <1>0, <1>2 DEF Reads, Sent
  <2> QED BY <2>1 DEF ChannelInOrder, IsOutput
<1>3. CASE Sends
  <2> DEFINE x == [kind |-> "output", chunk |-> taken, code |-> "zero"]
  <2>0. PICK l \in Nat : l = Len(chan) + 1
    BY <1>0
  <2>1. x \in Event /\ x.kind = "output" /\ x.chunk = taken /\ chan' = Append(chan, x)
    BY <1>0, <1>3 DEF Event, Codes, Sends
  <2> HIDE DEF x
  <2>2. /\ Len(chan) \in Nat /\ DOMAIN chan = 1..Len(chan) /\ DOMAIN chan' = 1..l
        /\ \A i \in DOMAIN chan : chan'[i] = chan[i] /\ i \in DOMAIN chan'
        /\ chan'[l] = x /\ l \in DOMAIN chan'
    BY <1>0, <2>0, <2>1, Appended
  <2>3. /\ \A i \in DOMAIN chan' : i \in DOMAIN chan \/ i = l
        /\ \A i, j \in DOMAIN chan' : i < j => i \in DOMAIN chan
    <3>1. DOMAIN chan = 1..(l - 1) /\ DOMAIN chan' = 1..l
      BY <2>0, <2>2
    <3> QED BY <3>1
  <2>4. Sent = taken - 1 /\ Sent' = taken /\ taken > 0 /\ reader' = "read"
    BY <1>0, <1>3 DEF Sends, Sent, ChannelInOrder
  <2>5. \A i \in DOMAIN chan : IsOutput(i)' <=> IsOutput(i)
    BY <2>2 DEF IsOutput
  <2>6. IsOutput(l)' /\ chan'[l].chunk = taken
    BY <2>1, <2>2 DEF IsOutput
  <2>7. ASSUME NEW i \in DOMAIN chan', IsOutput(i)' PROVE chan'[i].chunk \in 1..taken
    <3>1. CASE i \in DOMAIN chan
      <4>1. chan[i].chunk \in 1..(taken - 1)
        BY <2>4, <2>5, <2>7, <3>1 DEF ChannelInOrder
      <4> QED BY <1>0, <2>2, <3>1, <4>1
    <3>2. CASE i = l
      BY <1>0, <2>4, <2>6, <3>2
    <3> QED BY <2>7, <2>3, <3>1, <3>2
  <2>8. ASSUME NEW n \in 1..taken PROVE \E i \in DOMAIN chan' : IsOutput(i)' /\ chan'[i].chunk = n
    <3>1. CASE n = taken
      BY <2>2, <2>6, <3>1
    <3>2. CASE n # taken
      <4>1. n \in 1..Sent
        BY <1>0, <2>4, <3>2
      <4> QED BY <2>2, <2>5, <4>1 DEF ChannelInOrder
    <3> QED BY <3>1, <3>2
  <2>9. ASSUME NEW i \in DOMAIN chan', NEW j \in DOMAIN chan', IsOutput(i)', IsOutput(j)', i < j
        PROVE  chan'[i].chunk < chan'[j].chunk
    <3>1. i \in DOMAIN chan
      BY <2>9, <2>3
    <3>2. CASE j = l
      <4>1. chan[i].chunk \in 1..(taken - 1)
        BY <2>4, <2>5, <2>9, <3>1 DEF ChannelInOrder
      <4>2. chan[i].chunk < taken
        BY <1>0, <4>1
      <4> QED BY <2>2, <2>6, <3>1, <3>2, <4>2
    <3>3. CASE j \in DOMAIN chan
      BY <2>2, <2>5, <2>9, <3>1, <3>3 DEF ChannelInOrder
    <3> QED BY <2>9, <2>3, <3>2, <3>3
  <2> QED BY <2>4, <2>7, <2>8, <2>9 DEF ChannelInOrder
<1>4. ASSUME NEW st \in {"done", "error"}, NEW c \in Codes, Announces(st, c)
      PROVE  ChannelInOrder'
  <2> DEFINE x == [kind |-> st, chunk |-> 0, code |-> c]
             l == Len(chan) + 1
  <2>1. x \in Event /\ x.kind # "output" /\ chan' = Append(chan, x)
    BY <1>4 DEF Event, Announces
  <2> HIDE DEF x
  <2>2. /\ Len(chan) \in Nat /\ DOMAIN chan = 1..Len(chan) /\ DOMAIN chan' = 1..l
        /\ \A i \in DOMAIN chan : chan'[i] = chan[i] /\ i \in DOMAIN chan'
        /\ chan'[l] = x
    BY <1>0, <2>1, Appended
  <2>3. \A i : IsOutput(i)' <=> IsOutput(i)
    BY <2>1, <2>2 DEF IsOutput
  <2>4. Sent' = Sent /\ (reader' = "send" => taken' > 0)
    BY <1>4 DEF Announces, Sent, ChannelInOrder
  <2>5. \A i \in DOMAIN chan' : IsOutput(i)' => i \in DOMAIN chan /\ chan'[i] = chan[i] /\ IsOutput(i)
    BY <2>2, <2>3 DEF IsOutput
  <2> QED BY <2>2, <2>3, <2>4, <2>5 DEF ChannelInOrder
<1> QED BY <1>1, <1>2, <1>3, <1>4, ChannelSteps

LEMMA CaptureWholeStep ==
    ASSUME SessionTypeOK, CaptureWhole, [SessionNext]_sessionVars
    PROVE  CaptureWhole'
<1>1. CASE Reads
  BY <1>1, CaptureStep DEF Reads, CaptureWhole
<1>2. CASE Silent \/ Sends
  BY <1>2 DEF Silent, Sends, CaptureWhole
<1>3. ASSUME NEW st, NEW c, Announces(st, c) PROVE CaptureWhole'
  BY <1>3 DEF Announces, CaptureWhole
<1> QED BY <1>1, <1>2, <1>3, ChannelSteps

(* Neither the channel nor the number of chunks read ever shrinks, so the  *)
(* conditions of NoGap, once broken, stay so.                              *)
LEMMA ChannelGrows ==
    ASSUME SessionTypeOK, ChannelInOrder, [SessionNext]_sessionVars
    PROVE  /\ Len(chan) \in Nat /\ taken \in Nat /\ Len(chan') \in Nat /\ taken' \in Nat
           /\ Len(chan) <= Len(chan') /\ taken <= taken'
           /\ DOMAIN chan = 1..Len(chan) /\ \A i \in DOMAIN chan : chan'[i] = chan[i]
           /\ \A i \in DOMAIN chan' : i \in DOMAIN chan \/ i > Len(chan)
<1> USE SessionAssumption
<1>0. /\ chan \in Seq(Event) /\ taken \in Nat /\ taken \in 0..MaxChunks
      /\ Len(chan) \in Nat /\ DOMAIN chan = 1..Len(chan)
  BY DEF SessionTypeOK
<1>1. CASE Silent \/ Reads
  BY <1>0, <1>1 DEF Silent, Reads
<1>2. ASSUME NEW x \in Event, chan' = Append(chan, x), taken' = taken
      PROVE  /\ Len(chan') \in Nat /\ taken' \in Nat
             /\ Len(chan) <= Len(chan') /\ taken <= taken'
             /\ \A i \in DOMAIN chan : chan'[i] = chan[i]
             /\ \A i \in DOMAIN chan' : i \in DOMAIN chan \/ i > Len(chan)
  BY <1>0, <1>2, Appended
<1>3. CASE Sends
  <2>1. [kind |-> "output", chunk |-> taken, code |-> "zero"] \in Event
    BY <1>0 DEF Event, Codes
  <2> QED BY <1>0, <1>2, <1>3, <2>1 DEF Sends
<1>4. ASSUME NEW st \in {"done", "error"}, NEW c \in Codes, Announces(st, c)
      PROVE  /\ Len(chan') \in Nat /\ taken' \in Nat
             /\ Len(chan) <= Len(chan') /\ taken <= taken'
             /\ \A i \in DOMAIN chan : chan'[i] = chan[i]
             /\ \A i \in DOMAIN chan' : i \in DOMAIN chan \/ i > Len(chan)
  <2>1. [kind |-> st, chunk |-> 0, code |-> c] \in Event
    BY DEF Event
  <2> QED BY <1>2, <1>4, <2>1 DEF Announces
<1> QED BY <1>0, <1>1, <1>3, <1>4, ChannelSteps

Roomy == Len(chan) <= Capacity /\ taken <= CaptureLimit

(* The collector's buffer and its place in the channel stay as they are.   *)
LEMMA PlaceKept ==
    ASSUME SessionInv, [SessionNext]_sessionVars, UNCHANGED <<got, next>>,
           Collecting' <=> Collecting, Subscribed' <=> Subscribed
    PROVE  NothingSkipped' /\ NoGap'
<1>0. SessionTypeOK /\ ChannelInOrder /\ NothingSkipped /\ NoGap
  BY DEF SessionInv
<1>1. /\ Len(chan) \in Nat /\ Len(chan') \in Nat /\ taken \in Nat /\ taken' \in Nat
      /\ Len(chan) <= Len(chan') /\ taken <= taken'
      /\ DOMAIN chan = 1..Len(chan) /\ \A i \in DOMAIN chan : chan'[i] = chan[i]
      /\ \A i \in DOMAIN chan' : i \in DOMAIN chan \/ i > Len(chan)
  BY <1>0, ChannelGrows
<1>2. Roomy' => Roomy
  BY <1>1, SessionAssumption DEF Roomy
<1>3. NoGap'
  BY <1>0, <1>2 DEF NoGap, Roomy
<1>4. Subscribed' => next' \in 1..(Len(chan') + 1)
  BY <1>0, <1>1 DEF NothingSkipped
<1>5. ASSUME Roomy', NEW i \in DOMAIN chan', Collecting', IsOutput(i)', i < next'
      PROVE  Has(got', chan'[i].chunk)
  <2>1. next \in 1..(Len(chan) + 1) /\ next' = next /\ Collecting
    BY <1>0, <1>5 DEF NothingSkipped, Subscribed, Collecting
  <2>2. i \in DOMAIN chan /\ chan'[i] = chan[i]
    BY <1>1, <1>5, <2>1
  <2>3. IsOutput(i)
    BY <1>5, <2>2 DEF IsOutput
  <2>4. Has(got, chan[i].chunk)
    BY <1>0, <1>2, <1>5, <2>1, <2>2, <2>3 DEF NothingSkipped, Roomy
  <2> QED BY <2>2, <2>4 DEF Has
<1>6. ~Collecting' => got' = <<>>
  BY <1>0 DEF NothingSkipped
<1> QED BY <1>3, <1>4, <1>5, <1>6 DEF NothingSkipped, Roomy

(* The snapshot holds every chunk the channel had before it was taken.     *)
LEMMA SnapshotTaken ==
    ASSUME SessionInv, Subscribe
    PROVE  NothingSkipped' /\ NoGap'
<1> USE SessionAssumption DEF readerVars
<1>0. SessionTypeOK /\ ChannelInOrder /\ NothingSkipped /\ CaptureWhole
  BY DEF SessionInv
<1>1. UNCHANGED <<chan, taken>> /\ Len(chan) \in Nat /\ taken \in Nat
  BY <1>0 DEF Subscribe, SessionTypeOK
<1>2. CASE collector = "subscribe"
  <2>1. got' = <<>> /\ ~Collecting' /\ next' \in 1..(Len(chan') + 1)
    BY <1>0, <1>1, <1>2 DEF Subscribe, Collecting, NothingSkipped
  <2> QED BY <2>1 DEF NothingSkipped, NoGap
<1>3. CASE collector = "snapshot"
  <2>1. got' = captured /\ Collecting' /\ next' = next
    BY <1>3 DEF Subscribe, Collecting
  <2>2. next' \in 1..(Len(chan') + 1)
    BY <1>0, <1>1, <1>3, <2>1 DEF NothingSkipped, Subscribed
  <2>3. ASSUME Roomy'
        PROVE  /\ \A i \in DOMAIN chan' : IsOutput(i)' => Has(got', chan'[i].chunk)
               /\ \A i \in DOMAIN got' : \A n \in 1..got'[i] : \E j \in DOMAIN got' : got'[j] = n
    <3>1. DOMAIN got' = 1..taken /\ \A i \in 1..taken : got'[i] = i
      BY <1>0, <1>1, <2>1, <2>3 DEF Roomy, CaptureWhole
    <3>2. ASSUME NEW i \in DOMAIN chan', IsOutput(i)' PROVE Has(got', chan'[i].chunk)
      <4>1. chan[i].chunk \in 1..Sent /\ chan' = chan
        BY <1>0, <1>1, <3>2 DEF IsOutput, ChannelInOrder
      <4>2. chan[i].chunk \in 1..taken
        BY <1>1, <4>1 DEF Sent
      <4> QED BY <3>1, <4>1, <4>2 DEF Has
    <3>3. ASSUME NEW i \in 1..taken, NEW n \in 1..i PROVE n \in 1..taken
      BY <1>1
    <3> QED BY <3>1, <3>2, <3>3
  <2> QED BY <2>1, <2>2, <2>3 DEF NothingSkipped, NoGap, Roomy
<1> QED BY <1>2, <1>3 DEF Subscribe

(* A chunk that is received comes after all smaller ones, and the          *)
(* collector has passed those.                                             *)
LEMMA ChunkReceived ==
    ASSUME SessionInv, Receive
    PROVE  NothingSkipped' /\ NoGap'
<1> USE SessionAssumption DEF readerVars
<1>0. SessionTypeOK /\ ChannelInOrder /\ NothingSkipped /\ NoGap
  BY DEF SessionInv
<1>1. /\ collector = "receive" /\ UNCHANGED <<chan, taken>>
      /\ Skips \/ Receives \/ Ends \/ Waits
  BY <1>0, ReceiveCases
<1>2. /\ Len(chan) \in Nat /\ taken \in Nat /\ DOMAIN chan = 1..Len(chan)
      /\ next \in 1..(Len(chan) + 1) /\ got \in Seq(Chunks)
  BY <1>0, <1>1 DEF SessionTypeOK, NothingSkipped, Subscribed
<1>3. Collecting' /\ Subscribed'
  BY <1>1 DEF Skips, Receives, Ends, Waits, Collecting, Subscribed
<1>4. next' \in 1..(Len(chan') + 1)
  BY <1>1, <1>2 DEF Skips, Receives, Ends, Waits
<1> SUFFICES ASSUME Roomy, ~Skips
             PROVE  /\ \A i \in DOMAIN chan : IsOutput(i) /\ i < next' => Has(got', chan[i].chunk)
                    /\ \A i \in DOMAIN got' : \A n \in 1..got'[i] : \E j \in DOMAIN got' : got'[j] = n
  <2>1. Skips => ~Roomy
    BY <1>2 DEF Skips, Roomy
  <2>2. Roomy' <=> Roomy
    BY <1>1 DEF Roomy
  <2>3. \A i : IsOutput(i)' <=> IsOutput(i)
    BY <1>1 DEF IsOutput
  <2> QED BY <1>1, <1>3, <1>4, <2>1, <2>2, <2>3 DEF NothingSkipped, NoGap, Roomy
<1>5. /\ \A i \in DOMAIN chan : IsOutput(i) /\ i < next => Has(got, chan[i].chunk)
      /\ \A i \in DOMAIN got : \A n \in 1..got[i] : Has(got, n)
  BY <1>0, <1>1 DEF NothingSkipped, NoGap, Roomy, Collecting, Has
<1>6. CASE Waits
  BY <1>5, <1>6 DEF Waits, Has
<1>7. CASE Ends
  <2>1. got' = got /\ ~IsOutput(next) /\ next' = next + 1
    BY <1>7 DEF Ends, IsOutput
  <2>2. \A i \in DOMAIN chan : IsOutput(i) /\ i < next' => i < next
    BY <1>2, <2>1
  <2> QED BY <1>5, <2>1, <2>2 DEF Has
<1>8. CASE Receives
  <2>1. PICK c : /\ IsOutput(next) /\ next \in DOMAIN chan /\ next' = next + 1
                 /\ chan[next].chunk = c /\ got' = Append(got, c)
    BY <1>8 DEF Receives, IsOutput
  <2>2. PICK k \in Nat : k = taken /\ c \in 1..Sent /\ c \in 1..k /\ c \in Chunks
    <3>1. c \in 1..Sent
      BY <1>0, <2>1 DEF ChannelInOrder
    <3>2. Sent <= taken /\ Sent \in Int /\ taken \in 0..MaxChunks
      BY <1>0, <1>2 DEF Sent, SessionTypeOK
    <3>3. c \in 1..taken /\ c \in 1..MaxChunks
      BY <3>1, <3>2
    <3> QED BY <1>2, <3>1, <3>3 DEF Chunks
  <2>3. PICK l \in Nat : /\ DOMAIN got = 1..l /\ DOMAIN got' = 1..(l + 1)
                         /\ \A i \in 1..l : got'[i] = got[i]
                         /\ got'[l + 1] = c
    <3>1. /\ Append(got, c) \in Seq(Chunks) /\ Len(Append(got, c)) = Len(got) + 1
          /\ \A i \in 1..Len(got) : Append(got, c)[i] = got[i]
          /\ Append(got, c)[Len(got) + 1] = c
      BY <1>2, <2>2, AppendProperties
    <3>2. DOMAIN Append(got, c) = 1..(Len(got) + 1) /\ DOMAIN got = 1..Len(got) /\ Len(got) \in Nat
      BY <1>2, <3>1
    <3> QED BY <2>1, <3>1, <3>2
  <2>4. \A n : Has(got, n) => Has(got', n)
    BY <2>3 DEF Has
  <2>5. Has(got', c)
    BY <2>3 DEF Has
  <2>6. ASSUME NEW n \in 1..c, n # c PROVE Has(got, n)
    <3>1. n \in 1..Sent /\ n < c
      BY <2>2, <2>6 DEF Sent
    <3>2. PICK i \in DOMAIN chan : IsOutput(i) /\ chan[i].chunk = n
      BY <1>0, <3>1 DEF ChannelInOrder
    <3>3. ~(next < i) /\ i # next
      BY <1>0, <2>1, <2>2, <3>1, <3>2 DEF ChannelInOrder
    <3>4. i < next
      BY <1>2, <2>1, <3>3
    <3> QED BY <1>5, <3>2, <3>4
  <2>7. ASSUME NEW i \in DOMAIN chan, IsOutput(i), i < next' PROVE Has(got', chan[i].chunk)
    <3>1. i < next \/ i = next
      BY <1>2, <2>1, <2>7
    <3> QED BY <1>5, <2>4, <2>5, <2>1, <2>7, <3>1
  <2>8. ASSUME NEW i \in DOMAIN got', NEW n \in 1..got'[i] PROVE Has(got', n)
    <3>1. CASE i \in 1..l
      BY <1>5, <2>3, <2>4, <2>8, <3>1
    <3>2. CASE i = l + 1
      BY <2>3, <2>4, <2>5, <2>6, <2>8, <3>2
    <3> QED BY <2>3, <3>1, <3>2
  <2> QED BY <2>7, <2>8 DEF Has
<1> QED BY <1>1, <1>6, <1>7, <1>8

LEMMA CollectStep ==
    ASSUME SessionInv, [SessionNext]_sessionVars
    PROVE  NothingSkipped' /\ NoGap'
<1> USE DEF processVars, readerVars, collectorVars
<1> DEFINE Same == UNCHANGED <<got, next>> /\ (Collecting' <=> Collecting) /\ (Subscribed' <=> Subscribed)
<1>1. ProcessWrites \/ ProcessCloses \/ ProcessExits \/ ReaderStep \/ ReadFails \/ Destroy => Same
  BY DEF ProcessWrites, ProcessCloses, ProcessExits, ReaderStep, ReadChunk, SendChunk, ReadEnd, ReadFails,
         Destroy, Collecting, Subscribed
<1>2. CheckStatus \/ PollExit \/ TimeUp => Same
  BY DEF CheckStatus, PollExit, TimeUp, Return, Collecting, Subscribed, SessionInv, SessionTypeOK, Status
<1>3. UNCHANGED sessionVars => Same
  BY DEF sessionVars, Collecting, Subscribed
<1> HIDE DEF Same
<1>4. Subscribe \/ Receive \/ Same
  BY <1>1, <1>2, <1>3 DEF SessionNext, CollectorStep
<1> QED BY <1>4, PlaceKept, SnapshotTaken, ChunkReceived DEF Same

LEMMA SessionStep == SessionInv /\ [SessionNext]_sessionVars => SessionInv'
  BY TypeStep, CodesStep, ChannelStep, CaptureWholeStep, CollectStep DEF SessionInv

LEMMA SessionInvariant == SessionSpec => []SessionInv
  BY SessionInitInv, SessionStep, PTL DEF SessionSpec

(* Every variable keeps its type: captured_output, the channel and the     *)
(* collector's buffer hold chunks that were written, whatever is cut.      *)
THEOREM SessionTypes == SessionSpec => []SessionTypeOK
<1>1. SessionInv => SessionTypeOK
  BY DEF SessionInv
<1> QED BY <1>1, SessionInvariant, PTL

(* A reported failure is the process's own, however the reader, the        *)
(* collector, a timeout and those who destroy the session interleave.      *)
THEOREM FailuresAreReal == SessionSpec => []FailuresReal
<1>1. SessionInv => FailuresReal
  BY DEF SessionInv, CodesReal, FailuresReal
<1> QED BY <1>1, SessionInvariant, PTL

(* Subscribing before the snapshot leaves no gap in the collected output,  *)
(* for a channel and a capture that were large enough.                     *)
THEOREM OutputHasNoGap == SessionSpec => []NoGap
<1>1. SessionInv => NoGap
  BY DEF SessionInv
<1> QED BY <1>1, SessionInvariant, PTL
=================================================================================
