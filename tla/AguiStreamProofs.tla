-------------------------- MODULE AguiStreamProofs --------------------------
(***************************************************************************)
(* Proofs about AguiStream, for every number of events, progress events    *)
(* and wakes to a heartbeat: types, the bound on silence, that the stream  *)
(* keeps the protocol of its client, and the order of the agent's events;  *)
(* and about Catalog, the skills a stream is asked of: how old an answer   *)
(* may be, and what a seed leaves.                                         *)
(***************************************************************************)
EXTENDS AguiStream, Catalog, SequenceTheorems, TLAPS

-----------------------------------------------------------------------------
(* Sequences of frames *)

\* What a concatenation has, one of its parts has.
LEMMA HasConcat ==
  ASSUME NEW F, NEW s \in Seq(F), NEW t \in Seq(F), NEW kinds
  PROVE  Has(s \o t, kinds) <=> Has(s, kinds) \/ Has(t, kinds)
<1>1. /\ Len(s \o t) = Len(s) + Len(t)
      /\ \A i \in 1..Len(s) : (s \o t)[i] = s[i]
      /\ \A i \in 1..Len(t) : (s \o t)[Len(s) + i] = t[i]
  BY ConcatProperties
<1>2. Len(s) \in Nat /\ Len(t) \in Nat /\ s \o t \in Seq(F)
  OBVIOUS
<1>3. ASSUME Has(s \o t, kinds) PROVE Has(s, kinds) \/ Has(t, kinds)
  <2>1. PICK i \in 1..(Len(s) + Len(t)) : (s \o t)[i] \in kinds
    BY <1>1, <1>2, <1>3 DEF Has
  <2>2. CASE i <= Len(s)
    BY <2>1, <2>2, <1>1, <1>2 DEF Has
  <2>3. CASE i > Len(s)
    <3>1. i - Len(s) \in 1..Len(t) /\ i = Len(s) + (i - Len(s))
      BY <2>3, <1>2
    <3>2. t[i - Len(s)] = (s \o t)[i]
      BY <3>1, <1>1
    <3>3. QED
      BY <3>1, <3>2, <2>1, <1>2 DEF Has
  <2>4. QED
    BY <2>2, <2>3, <1>2
<1>4. ASSUME Has(s, kinds) PROVE Has(s \o t, kinds)
  <2>1. PICK i \in 1..Len(s) : s[i] \in kinds
    BY <1>2, <1>4 DEF Has
  <2>2. i \in 1..Len(s \o t) /\ (s \o t)[i] \in kinds
    BY <2>1, <1>1, <1>2
  <2>3. QED
    BY <2>2, <1>2 DEF Has
<1>5. ASSUME Has(t, kinds) PROVE Has(s \o t, kinds)
  <2>1. PICK i \in 1..Len(t) : t[i] \in kinds
    BY <1>2, <1>5 DEF Has
  <2>2. Len(s) + i \in 1..Len(s \o t) /\ (s \o t)[Len(s) + i] \in kinds
    BY <2>1, <1>1, <1>2
  <2>3. QED
    BY <2>2, <1>2 DEF Has
<1>6. QED
  BY <1>3, <1>4, <1>5

\* One more frame.
LEMMA HasAppend ==
  ASSUME NEW F, NEW s \in Seq(F), NEW e \in F, NEW kinds
  PROVE  /\ Append(s, e) \in Seq(F) /\ Len(Append(s, e)) = Len(s) + 1
         /\ Append(s, e) # <<>>
         /\ s # <<>> => Append(s, e)[1] = s[1]
         /\ s = <<>> => Append(s, e)[1] = e
         /\ Has(Append(s, e), kinds) <=> Has(s, kinds) \/ e \in kinds
<1>1. /\ Append(s, e) \in Seq(F) /\ Len(Append(s, e)) = Len(s) + 1
      /\ \A i \in 1..Len(s) : Append(s, e)[i] = s[i]
      /\ Append(s, e)[Len(s) + 1] = e
  BY AppendProperties
<1>2. Len(s) \in Nat /\ (s # <<>> => 1 \in 1..Len(s)) /\ (s = <<>> => Len(s) = 0)
  OBVIOUS
<1>3. Has(Append(s, e), kinds) <=> Has(s, kinds) \/ e \in kinds
  BY <1>1, <1>2 DEF Has
<1>4. QED
  BY <1>1, <1>2, <1>3

\* A row of equal frames.
LEMMA RepeatType ==
  ASSUME NEW F, NEW e \in F, NEW n \in Nat
  PROVE  Repeat(e, n) \in Seq(F) /\ Len(Repeat(e, n)) = n
<1>1. Repeat(e, n) \in [1..n -> F]
  BY DEF Repeat
<1>2. QED
  BY <1>1

LEMMA RepeatHas ==
  ASSUME NEW e, NEW n \in Nat, NEW kinds, e \notin kinds
  PROVE  ~Has(Repeat(e, n), kinds)
  BY DEF Has, Repeat

\* What a longer row keeps of a shorter one.
LEMMA ConcatKeeps ==
  ASSUME NEW F, NEW s \in Seq(F), NEW t \in Seq(F)
  PROVE  /\ s \o t \in Seq(F) /\ Len(s \o t) = Len(s) + Len(t)
         /\ s # <<>> => s \o t # <<>> /\ (s \o t)[1] = s[1]
         /\ t # <<>> => s \o t # <<>>
         /\ s = <<>> => s \o t = t
<1>1. /\ s \o t \in Seq(F) /\ Len(s \o t) = Len(s) + Len(t)
      /\ \A i \in 1..Len(s) : (s \o t)[i] = s[i]
  BY ConcatProperties
<1>2. /\ Len(s) \in Nat /\ Len(t) \in Nat
      /\ s # <<>> => Len(s) > 0
      /\ t # <<>> => Len(t) > 0
  OBVIOUS
<1>3. s # <<>> => s \o t # <<>> /\ (s \o t)[1] = s[1]
  BY <1>1, <1>2
<1>4. s = <<>> => s \o t = t
  BY ConcatEmptySeq
<1>5. t # <<>> => s \o t # <<>>
  BY <1>1, <1>2
<1>6. QED
  BY <1>1, <1>3, <1>4, <1>5

-----------------------------------------------------------------------------
(* Types *)

LEMMA InitType == Init => TypeOK
<1> SUFFICES ASSUME Init PROVE TypeOK
  OBVIOUS
<1>1. 0 \in 0..WakesPerBeat
  BY StreamAssumption
<1>2. reader \in Reader
  BY <1>1 DEF Init, Reader
<1>3. QED
  BY <1>2, StreamAssumption DEF Init, TypeOK, Ends

\* What the wire has with the announcement that is due, if one is.
LEMMA AnnouncedType ==
  ASSUME NEW s \in Seq(Frames)
  PROVE  /\ Announced(s) \in Seq(Frames)
         /\ s # <<>> => Announced(s) = s
         /\ s = <<>> => Announced(s) = IF foundExisting THEN <<"SESSION_META">> ELSE <<>>
<1>1. "SESSION_META" \in Frames
  BY DEF Frames
<1>2. <<"SESSION_META">> \in Seq(Frames)
  BY <1>1
<1>3. QED
  BY <1>2 DEF Announced

\* One frame more is a row of one put behind.
LEMMA FrameAppended ==
  ASSUME NEW s \in Seq(Frames), NEW t \in Seq(Frames), NEW e \in Frames
  PROVE  /\ <<e>> \in Seq(Frames) /\ Append(s, e) = s \o <<e>>
         /\ Append(s \o t, e) = s \o Append(t, e)
<1>1. <<e>> \in Seq(Frames) /\ s \o t \in Seq(Frames)
  OBVIOUS
<1>2. /\ Append(s, e) = s \o <<e>> /\ Append(t, e) = t \o <<e>>
      /\ Append(s \o t, e) = (s \o t) \o <<e>>
  BY <1>1, AppendIsConcat
<1>3. (s \o t) \o <<e>> = s \o (t \o <<e>>)
  BY <1>1, ConcatAssociative
<1>4. QED
  BY <1>1, <1>2, <1>3

\* What a frame of the agent makes of the wire, and of the reader.
LEMMA HandledType ==
  ASSUME TypeOK, NEW e \in Events, Handled(e)
  PROVE  /\ reader' \in Reader /\ reader'.first /\ reader'.since = reader.since
         /\ wire' \in Seq(Frames) /\ stages' \in 0..marked /\ silent' \in {0, silent}
<1> DEFINE seen == [reader EXCEPT !.first = TRUE, !.produced = @ \/ Shows(e)]
<1>1. seen \in Reader /\ seen.first /\ seen.since = reader.since
  BY DEF TypeOK, Reader, Shows
<1>2. CASE reader.terminal
  BY <1>1, <1>2 DEF Handled, TypeOK
<1>3. CASE ~reader.terminal /\ e \in Terminal
  <2>1. reader' = [seen EXCEPT !.terminal = TRUE] /\ stages' = stages /\ silent' = 0
        /\ wire' = Append(Announced(wire), IF seen.produced THEN e ELSE "RUN_ERROR")
    BY <1>3 DEF Handled
  <2>2. reader' \in Reader /\ reader'.first /\ reader'.since = reader.since
    BY <2>1, <1>1 DEF Reader
  <2>3. (IF seen.produced THEN e ELSE "RUN_ERROR") \in Frames
    BY DEF Frames, Events, Terminal
  <2>4. wire' \in Seq(Frames)
    BY <2>1, <2>3, AnnouncedType, AppendProperties DEF TypeOK
  <2>5. QED
    BY <2>1, <2>2, <2>4 DEF TypeOK
<1>4. CASE ~reader.terminal /\ e \notin Terminal
  <2>1. reader' = [seen EXCEPT !.buffered = 0] /\ stages' = 0 /\ silent' = 0
        /\ wire' = Announced(wire) \o WithProgress(e)
    BY <1>4 DEF Handled
  <2>2. reader' \in Reader /\ reader'.first /\ reader'.since = reader.since
    <3>1. 0 \in 0..MaxStages
      BY StreamAssumption
    <3>2. QED
      BY <2>1, <1>1, <3>1 DEF Reader
  <2>3. reader.buffered + stages \in Nat
    BY StreamAssumption DEF TypeOK, Reader
  <2>4. Repeat("STAGE", reader.buffered + stages) \in Seq(Frames)
    <3>1. "STAGE" \in Frames
      BY DEF Frames
    <3>2. QED
      BY <2>3, <3>1, RepeatType
  <2>5. <<e>> \in Seq(Frames)
    BY DEF Frames
  <2>6. WithProgress(e) \in Seq(Frames)
    BY <2>4, <2>5, ConcatProperties DEF WithProgress
  <2>7. wire' \in Seq(Frames)
    BY <2>1, <2>6, AnnouncedType, ConcatProperties DEF TypeOK
  <2>8. 0 \in 0..marked
    BY StreamAssumption DEF TypeOK
  <2>9. QED
    BY <2>1, <2>2, <2>7, <2>8
<1>5. QED
  BY <1>2, <1>3, <1>4

\* What a wake adds to the wire: waiting progress events, perhaps a heartbeat.
LEMMA IdleType ==
  ASSUME TypeOK, Idle
  PROVE  /\ reader' \in Reader /\ reader'.since < WakesPerBeat
         /\ reader'.first = reader.first /\ reader'.terminal = reader.terminal
         /\ reader'.produced = reader.produced
         /\ wire' \in Seq(Frames) /\ stages' = 0 /\ silent' \in Nat
<1> DEFINE since == reader.since + 1
           flushed == wire \o Repeat("STAGE", stages)
<1>1. since \in Nat /\ stages \in Nat /\ WakesPerBeat \in Nat \ {0}
  BY StreamAssumption DEF TypeOK, Reader
<1>2. /\ reader' = [reader EXCEPT !.since = IF BeatDue(since) THEN 0 ELSE since]
      /\ wire' = IF BeatDue(since) THEN Beat(flushed) ELSE flushed
      /\ silent' = IF BeatDue(since) \/ stages > 0 THEN 0 ELSE silent + 1
      /\ stages' = 0
  BY DEF Idle
<1>3. (IF BeatDue(since) THEN 0 ELSE since) \in 0..WakesPerBeat
      /\ (IF BeatDue(since) THEN 0 ELSE since) < WakesPerBeat
  BY <1>1 DEF BeatDue
<1>4. /\ reader' \in Reader /\ reader'.since < WakesPerBeat
      /\ reader'.first = reader.first /\ reader'.terminal = reader.terminal
      /\ reader'.produced = reader.produced
  BY <1>2, <1>3 DEF TypeOK, Reader
<1>5. Repeat("STAGE", stages) \in Seq(Frames)
  <2>1. "STAGE" \in Frames
    BY DEF Frames
  <2>2. QED
    BY <1>1, <2>1, RepeatType
<1>6. flushed \in Seq(Frames)
  BY <1>5, ConcatProperties DEF TypeOK
<1>7. Append(flushed, "HEARTBEAT") \in Seq(Frames)
  BY <1>6, AppendProperties DEF Frames
<1>8. Beat(flushed) \in Seq(Frames)
  BY <1>6, <1>7 DEF Beat
<1>9. wire' \in Seq(Frames)
  BY <1>2, <1>6, <1>8
<1>10. QED
  BY <1>2, <1>4, <1>9 DEF TypeOK

LEMMA StepType == TypeOK /\ [Next]_vars => TypeOK'
<1> SUFFICES ASSUME TypeOK, [Next]_vars PROVE TypeOK'
  OBVIOUS
<1> USE DEF TypeOK
<1>1. ASSUME NEW e \in Events, SourceYield(e) PROVE TypeOK'
  <2>1. Append(yielded, e) \in Seq(Events)
    BY AppendProperties
  <2>2. QED
    BY <1>1, <2>1 DEF SourceYield
<1>2. CASE SourceReturn
  BY <1>2 DEF SourceReturn, Ended, Ends
<1>3. CASE SourceRaise
  BY <1>3 DEF SourceRaise, Ended, Ends
<1>4. CASE Mark
  BY <1>4, StreamAssumption DEF Mark
<1>5. CASE Put
  <2>1. queue' \in Seq(Events \cup Ends) /\ Len(queue') <= 1
    BY <1>5 DEF Put, PutWaiting
  <2>2. QED
    BY <1>5, <2>1 DEF Put
<1>6. CASE DeliverEvent
  <2>1. Head(queue) \in Events /\ Handled(Head(queue))
    BY <1>6 DEF DeliverEvent
  <2>2. reader' \in Reader /\ wire' \in Seq(Frames) /\ stages' \in 0..marked
        /\ silent' \in {0, silent}
    BY <2>1, HandledType
  <2>3. QED
    BY <1>6, <2>2 DEF DeliverEvent
<1>7. CASE DeliverEnd
  BY <1>7 DEF DeliverEnd
<1>8. CASE DeliverFail
  <2>1. Append(Announced(wire), "RUN_ERROR") \in Seq(Frames)
    BY AnnouncedType, AppendProperties DEF Frames, Events, Terminal
  <2>2. wire' \in Seq(Frames) /\ request' \in {"ended", "broken"}
    BY <1>8, <2>1 DEF DeliverFail
  <2>3. /\ queue' = <<>>
        /\ UNCHANGED <<foundExisting, marked, source, yielded, producer, reader, stages, silent>>
    BY <1>8 DEF DeliverFail
  <2>4. QED
    BY <2>2, <2>3
<1>9. CASE Idle
  <2>1. reader' \in Reader /\ wire' \in Seq(Frames) /\ stages' = 0 /\ silent' \in Nat
    BY <1>9, IdleType
  <2>2. QED
    BY <1>9, <2>1, StreamAssumption DEF Idle
<1>10. CASE Report
  <2>1. Append(wire, "LATENCY_REPORT") \in Seq(Frames)
    BY AppendProperties DEF Frames
  <2>2. QED
    BY <1>10, <2>1 DEF Report
<1>11. CASE Disconnect
  BY <1>11 DEF Disconnect
<1>12. CASE Close
  BY <1>12 DEF Close
<1>13. CASE UNCHANGED vars
  BY <1>13 DEF vars
<1>14. QED
  BY <1>1, <1>2, <1>3, <1>4, <1>5, <1>6, <1>7, <1>8, <1>9, <1>10, <1>11, <1>12, <1>13 DEF Next

\* The state keeps its types.
THEOREM TypeCorrect == Spec => []TypeOK
<1>1. Init => TypeOK
  BY InitType
<1>2. TypeOK /\ [Next]_vars => TypeOK'
  BY StepType
<1>3. QED
  BY <1>1, <1>2, PTL DEF Spec

-----------------------------------------------------------------------------
(* The bound on silence *)

\* The wakes since the last frame are among those since the last heartbeat.
Counting == silent <= reader.since /\ reader.since < WakesPerBeat

LEMMA StepCounts == TypeOK /\ Counting /\ [Next]_vars => Counting'
<1> SUFFICES ASSUME TypeOK, Counting, [Next]_vars PROVE Counting'
  OBVIOUS
<1> USE DEF Counting
<1>0. silent \in Nat /\ reader.since \in Nat /\ WakesPerBeat \in Nat
  BY StreamAssumption DEF TypeOK, Reader
<1>1. CASE DeliverEvent
  <2>1. reader'.since = reader.since /\ silent' \in {0, silent}
    BY <1>1, HandledType DEF DeliverEvent
  <2>2. QED
    BY <2>1, <1>0
<1>2. CASE Idle
  <2>1. reader'.since < WakesPerBeat /\ reader' \in Reader
    BY <1>2, IdleType
  <2>2. reader'.since = IF BeatDue(reader.since + 1) THEN 0 ELSE reader.since + 1
    BY <1>2 DEF Idle, TypeOK, Reader
  <2>3. silent' = IF BeatDue(reader.since + 1) \/ stages > 0 THEN 0 ELSE silent + 1
    BY <1>2 DEF Idle
  <2>4. silent' <= reader'.since
    BY <2>2, <2>3, <1>0
  <2>5. QED
    BY <2>1, <2>4
<1>3. CASE ~DeliverEvent /\ ~Idle
  <2>1. UNCHANGED <<reader, silent>>
    BY <1>3 DEF Next, vars, SourceYield, SourceReturn, SourceRaise, Mark, Put, DeliverEnd,
       DeliverFail, Report, Disconnect, Close
  <2>2. QED
    BY <2>1
<1>4. QED
  BY <1>1, <1>2, <1>3

\* While a run is open its wire is silent for less than a heartbeat's interval.
THEOREM SilenceIsBounded == Spec => []BoundedSilence
<1>1. Init => TypeOK /\ Counting
  <2>1. Init => silent = 0 /\ reader.since = 0
    BY DEF Init
  <2>2. QED
    BY <2>1, InitType, StreamAssumption DEF Counting
<1>2. TypeOK /\ Counting /\ [Next]_vars => (TypeOK /\ Counting)'
  BY StepType, StepCounts
<1>3. TypeOK /\ Counting => BoundedSilence
  BY StreamAssumption DEF TypeOK, Reader, Counting, BoundedSilence
<1>4. QED
  BY <1>1, <1>2, <1>3, PTL DEF Spec
-----------------------------------------------------------------------------
(* The protocol of the client *)

\* A resumed session's stream opens with the frame that says so.
Headed == foundExisting /\ wire # <<>> => wire[1] = "SESSION_META"

\* What the run's frames are so far is what the reader remembers of them.
WireSoFar ==
  /\ Headed
  /\ Run # <<>> => Run[1] \in {"RUN_STARTED", "RUN_ERROR"}
  /\ reader.first => Run # <<>> /\ Run[1] = "RUN_STARTED"
  /\ request = "streaming" /\ ~reader.first => wire = <<>>
  /\ reader.terminal => HasTerminal(Run)
  /\ request = "streaming" /\ HasTerminal(Run) => reader.terminal
  /\ request \in {"ended", "done"} => HasTerminal(Run)
  /\ reader.produced /\ ~reader.terminal => Answered

\* The run's first item, in the slot or on its way there, opens it or fails.
OpenFirst ==
  request = "streaming" /\ ~reader.first =>
    /\ queue # <<>> => queue[1] \in {"RUN_STARTED", "FAIL"}
    /\ queue = <<>> /\ producer.pc = "put" => producer.hand \in {"RUN_STARTED", "FAIL"}
    /\ queue = <<>> /\ producer.pc = "pull" => yielded = <<>>

\* An item is on its way: in the slot, or in the producer's hand.
Pending(kinds) ==
  \/ queue # <<>> /\ queue[1] \in kinds
  \/ producer.pc = "put" /\ producer.hand \in kinds

\* The exception comes instead of a terminal event, the end behind one, and a
\* terminal event is on its way until the reader has it.
EndInPlace ==
  /\ Pending({"FAIL"}) => ~HasTerminal(yielded) /\ source # "running"
  /\ Pending(Terminal \cup {"END"}) => HasTerminal(yielded)
  /\ request = "streaming" /\ reader.terminal => HasTerminal(yielded)
  /\ request = "streaming" /\ HasTerminal(yielded) /\ ~reader.terminal => Pending(Terminal)
  /\ queue # <<>> /\ queue[1] \in Ends => producer.pc = "done"

ProtocolInv == WireSoFar /\ OpenFirst /\ EndInPlace

\* Frames put behind the announcement that is due are put behind the run's.
LEMMA RunGrows ==
  ASSUME wire \in Seq(Frames), foundExisting \in BOOLEAN, foundExisting' = foundExisting,
         Headed, NEW more \in Seq(Frames), wire' = Announced(wire) \o more
  PROVE  Run \in Seq(Frames) /\ Run' = Run \o more /\ Headed'
<1>1. CASE ~foundExisting
  BY <1>1 DEF Run, Announced, Headed
<1>2. CASE foundExisting /\ wire = <<>>
  <2>1. wire' = <<"SESSION_META">> \o more /\ "SESSION_META" \in Frames
    BY <1>2 DEF Announced, Frames
  <2>2. wire' # <<>> /\ Tail(wire') = more /\ wire'[1] = "SESSION_META"
    BY <2>1
  <2>3. <<>> \o more = more
    OBVIOUS
  <2>4. Run = <<>> /\ Run' = more
    BY <1>2, <2>2 DEF Run
  <2>5. QED
    BY <1>2, <2>2, <2>3, <2>4 DEF Headed
<1>3. CASE foundExisting /\ wire # <<>>
  <2>1. wire' = wire \o more /\ wire[1] = "SESSION_META"
    BY <1>3 DEF Announced, Headed
  <2>2. wire' # <<>> /\ Tail(wire') = Tail(wire) \o more /\ wire'[1] = wire[1]
        /\ Tail(wire) \in Seq(Frames)
    BY <1>3, <2>1
  <2>3. QED
    BY <1>3, <2>1, <2>2 DEF Run, Headed
<1>4. QED
  BY <1>1, <1>2, <1>3

LEMMA RunType == wire \in Seq(Frames) => Run \in Seq(Frames)
  BY DEF Run

\* What the client makes of a stream that is headed as it should be.
LEMMA PhaseOfRun ==
  ASSUME Headed
  PROVE  Phase = IF Run = <<>> THEN "idle"
                 ELSE IF Run[1] \notin {"RUN_STARTED", "RUN_ERROR"} THEN "rejected"
                 ELSE IF ~HasTerminal(Run) THEN "running"
                 ELSE IF Has(Run, {"RUN_FINISHED"}) THEN "finished" ELSE "failed"
  BY DEF Phase, Headed, Run

LEMMA HeadedPhase ==
  ASSUME Headed'
  PROVE  Phase' = IF Run' = <<>> THEN "idle"
                  ELSE IF Run'[1] \notin {"RUN_STARTED", "RUN_ERROR"} THEN "rejected"
                  ELSE IF ~HasTerminal(Run') THEN "running"
                  ELSE IF Has(Run', {"RUN_FINISHED"}) THEN "finished" ELSE "failed"
  BY DEF Phase, Headed, Run, HasTerminal

\* The items of the run are in place after every step that leaves the reader.
LEMMA SourceKeepsPlace ==
  ASSUME TypeOK, ProtocolInv,
         (\E e \in Events : SourceYield(e)) \/ SourceReturn \/ SourceRaise \/ Put
  PROVE  ProtocolInv'
<1>0. UNCHANGED <<foundExisting, reader, wire, request>>
  BY DEF SourceYield, SourceReturn, SourceRaise, Put
<1>1. WireSoFar'
  BY <1>0 DEF ProtocolInv, WireSoFar, HasTerminal, Has, Answered, Run, Headed
<1>2. ASSUME NEW e \in Events, SourceYield(e) PROVE OpenFirst' /\ EndInPlace'
  <2>1. /\ producer.pc = "pull" /\ source = "running" /\ MayYield(e)
        /\ yielded' = Append(yielded, e) /\ producer'.pc = "put" /\ producer'.hand = e
        /\ queue' = queue /\ source' = source
    BY <1>2 DEF SourceYield
  <2>2. /\ HasTerminal(yielded') <=> HasTerminal(yielded) \/ e \in Terminal
        /\ yielded = <<>> => e = "RUN_STARTED"
    <3>1. yielded \in Seq(Events)
      BY DEF TypeOK
    <3>2. Has(Append(yielded, e), Terminal) <=> Has(yielded, Terminal) \/ e \in Terminal
      BY <3>1, HasAppend
    <3>3. QED
      BY <3>2, <2>1 DEF HasTerminal, MayYield
  <2>3. OpenFirst'
    BY <2>1, <2>2, <1>0 DEF ProtocolInv, OpenFirst
  <2>4. e \notin Ends
    BY DEF Events, Terminal, Body, Output, Ends
  <2>5. EndInPlace'
    BY <2>1, <2>2, <2>4, <1>0 DEF ProtocolInv, EndInPlace, Pending, Ends, Terminal
  <2>6. QED
    BY <2>3, <2>5
<1>3. CASE SourceReturn
  <2>1. /\ producer.pc = "pull" /\ HasTerminal(yielded) /\ yielded' = yielded
        /\ producer'.pc = "put" /\ producer'.hand = "END" /\ queue' = queue
        /\ source' = "returned"
    BY <1>3 DEF SourceReturn, Ended
  <2>2. HasTerminal(yielded') = HasTerminal(yielded) /\ yielded # <<>>
    BY <2>1 DEF HasTerminal, Has
  <2>3. OpenFirst' /\ EndInPlace'
    BY <2>1, <2>2, <1>0 DEF ProtocolInv, OpenFirst, EndInPlace, Pending, Ends, Terminal
  <2>4. QED
    BY <1>1, <2>3 DEF ProtocolInv
<1>4. CASE SourceRaise
  <2>1. /\ producer.pc = "pull" /\ ~HasTerminal(yielded) /\ yielded' = yielded
        /\ producer'.pc = "put" /\ producer'.hand = "FAIL" /\ queue' = queue
        /\ source' = "raised"
    BY <1>4 DEF SourceRaise, Ended
  <2>2. HasTerminal(yielded') = HasTerminal(yielded)
    BY <2>1 DEF HasTerminal, Has
  <2>3. OpenFirst' /\ EndInPlace'
    BY <2>1, <2>2, <1>0 DEF ProtocolInv, OpenFirst, EndInPlace, Pending, Ends, Terminal
  <2>4. QED
    BY <1>1, <2>3 DEF ProtocolInv
<1>5. CASE Put
  <2>1. /\ producer.pc = "put" /\ queue = <<>> /\ queue' = <<producer.hand>>
        /\ producer'.pc = (IF producer.hand \in Ends THEN "done" ELSE "pull")
        /\ yielded' = yielded /\ source' = source
    BY <1>5 DEF Put, PutWaiting, TypeOK
  <2>2. HasTerminal(yielded') = HasTerminal(yielded)
    BY <2>1 DEF HasTerminal, Has
  <2>3. queue' # <<>> /\ queue'[1] = producer.hand
    BY <2>1
  <2>4. OpenFirst' /\ EndInPlace'
    BY <2>1, <2>2, <2>3, <1>0 DEF ProtocolInv, OpenFirst, EndInPlace, Pending, Ends, Terminal
  <2>5. QED
    BY <1>1, <2>4 DEF ProtocolInv
<1>6. QED
  BY <1>1, <1>2, <1>3, <1>4, <1>5 DEF ProtocolInv

\* What the reader takes from the slot leaves nothing out of place.
LEMMA TakenKeepsPlace ==
  ASSUME ProtocolInv, queue # <<>>, queue' = <<>>, UNCHANGED <<producer, yielded, source>>,
         \/ request' # "streaming"
         \/ /\ request' = request /\ reader'.first
            /\ reader'.terminal <=> reader.terminal \/ queue[1] \in Terminal
  PROVE  OpenFirst' /\ EndInPlace'
<1>1. HasTerminal(yielded') = HasTerminal(yielded)
  BY DEF HasTerminal, Has
<1>2. OpenFirst'
  BY DEF ProtocolInv, OpenFirst
<1>3. \A kinds : Pending(kinds)' => Pending(kinds)
  BY DEF Pending
<1>4. (Pending({"FAIL"}) => ~HasTerminal(yielded) /\ source # "running")'
      /\ (Pending(Terminal \cup {"END"}) => HasTerminal(yielded))'
  BY <1>1 DEF ProtocolInv, EndInPlace, Pending
<1>5. (request = "streaming" /\ reader.terminal => HasTerminal(yielded))'
  BY <1>1 DEF ProtocolInv, EndInPlace, Pending
<1>6. (request = "streaming" /\ HasTerminal(yielded) /\ ~reader.terminal => Pending(Terminal))'
  BY <1>1 DEF ProtocolInv, EndInPlace, Pending
<1>7. QED
  BY <1>2, <1>4, <1>5, <1>6 DEF EndInPlace

\* An event of the agent is dropped, or shown as the protocol has it.
LEMMA EventKeepsProtocol ==
  ASSUME TypeOK, ProtocolInv, DeliverEvent
  PROVE  ProtocolInv' /\ [Client!Next]_(Client!vars)
<1> DEFINE e == Head(queue)
<1>1. /\ queue # <<>> /\ queue[1] = e /\ e \in Events /\ Handled(e)
      /\ request = "streaming" /\ request' = request /\ queue' = <<>>
      /\ UNCHANGED <<foundExisting, producer, yielded, source>>
  BY DEF DeliverEvent
<1>2. /\ wire \in Seq(Frames) /\ foundExisting \in BOOLEAN /\ e \in Frames
      /\ reader.first \in BOOLEAN /\ reader.produced \in BOOLEAN /\ reader.terminal \in BOOLEAN
      /\ DOMAIN reader = {"first", "produced", "terminal", "since", "buffered"}
  BY <1>1 DEF TypeOK, Reader, Frames
<1>3. Response' = Response /\ Response = "open"
  BY <1>1 DEF Response
<1>8. Headed /\ Run \in Seq(Frames)
  BY <1>2, RunType DEF ProtocolInv, WireSoFar
<1>0. /\ \A s, t \in Seq(Frames) : \A kinds : Has(s \o t, kinds) <=> Has(s, kinds) \/ Has(t, kinds)
      /\ Answered \in BOOLEAN /\ Answered' \in BOOLEAN
  BY HasConcat DEF Answered, Has
<1>4. CASE reader.terminal
  <2>1. /\ wire' = wire /\ Run' = Run /\ Headed' = Headed /\ Phase' = Phase
        /\ reader'.first /\ reader'.terminal
    <3>1. wire' = wire /\ reader'.first /\ reader'.terminal
      BY <1>1, <1>2, <1>4, HandledType DEF Handled, TypeOK, Reader
    <3>2. Run' = Run /\ Headed' = Headed
      BY <3>1, <1>1 DEF Run, Headed
    <3>3. Phase' = Phase
      BY <3>1, <3>2, <1>1 DEF Phase, HasTerminal, Has
    <3>4. QED
      BY <3>1, <3>2, <3>3
  <2>2. reader.first
    <3>1. Run # <<>>
      BY <1>4 DEF ProtocolInv, WireSoFar, HasTerminal, Has
    <3>2. wire # <<>>
      BY <3>1 DEF Run
    <3>3. QED
      BY <3>2, <1>1, <1>2 DEF ProtocolInv, WireSoFar
  <2>3. WireSoFar'
    BY <2>1, <2>2, <1>1, <1>4 DEF ProtocolInv, WireSoFar, HasTerminal, Has
  <2>4. OpenFirst' /\ EndInPlace'
    BY <2>1, <1>1, <1>4, TakenKeepsPlace
  <2>5. UNCHANGED Client!vars
    BY <2>1, <1>3 DEF Client!vars, Answered, Has
  <2>6. QED
    BY <2>3, <2>4, <2>5 DEF ProtocolInv
<1>5. CASE ~reader.terminal /\ e \in Terminal
  <2>1. reader.first
    BY <1>1, <1>2, <1>5 DEF ProtocolInv, OpenFirst, Terminal
  <2>2. ~HasTerminal(Run) /\ Run # <<>> /\ Run[1] = "RUN_STARTED"
    BY <2>1, <1>1, <1>5 DEF ProtocolInv, WireSoFar
  <2>3. PICK t \in Terminal :
          /\ Run' = Append(Run, t) /\ Headed'
          /\ t = "RUN_FINISHED" => reader.produced
    <3>1. ~Shows(e)
      BY <1>5 DEF Shows, Output, Terminal
    <3>2. wire' = Append(Announced(wire), IF reader.produced THEN e ELSE "RUN_ERROR")
      BY <1>1, <1>2, <1>5, <3>1 DEF Handled
    <3>3. PICK t \in Terminal : wire' = Append(Announced(wire), t)
                               /\ (t = "RUN_FINISHED" => reader.produced)
      BY <3>2, <1>5 DEF Terminal
    <3>4. <<t>> \in Seq(Frames) /\ t \in Frames
      BY DEF Frames, Events
    <3>5. Append(Announced(wire), t) = Announced(wire) \o <<t>>
      BY <3>4, <1>2, AnnouncedType
    <3>6. Run' = Run \o <<t>> /\ Headed'
      BY <3>3, <3>4, <3>5, <1>1, <1>2, <1>8, RunGrows
    <3>7. Run \o <<t>> = Append(Run, t)
      BY <3>4, <1>8
    <3>8. QED
      BY <3>3, <3>6, <3>7
  <2>4. reader'.first /\ reader'.terminal
    <3>1. reader'.terminal
      BY <1>1, <1>2, <1>5 DEF Handled
    <3>2. QED
      BY <3>1, <1>1, HandledType
  <2>5. t \in Frames
    BY DEF Frames, Events
  <2>6. /\ Len(Run') = Len(Run) + 1 /\ Run' # <<>> /\ Run'[1] = Run[1]
        /\ \A kinds : Has(Run', kinds) <=> Has(Run, kinds) \/ t \in kinds
    BY <2>2, <2>3, <2>5, <1>8, HasAppend
  <2>7. WireSoFar'
    BY <2>2, <2>3, <2>4, <2>6, <1>1 DEF WireSoFar, HasTerminal
  <2>8. OpenFirst' /\ EndInPlace'
    BY <2>4, <1>1, <1>5, TakenKeepsPlace
  <2>9. Phase = "running" /\ Answered' = Answered
    <3>1. t \notin Output
      BY DEF Output, Terminal
    <3>2. Answered' <=> Answered
      BY <2>6, <3>1 DEF Answered
    <3>3. QED
      BY <2>2, <3>2, <1>0, <1>8, PhaseOfRun
  <2>10. CASE t = "RUN_FINISHED"
    <3>1. Phase' = "finished"
      BY <2>2, <2>3, <2>6, <2>10, HeadedPhase DEF HasTerminal
    <3>2. Answered
      BY <2>3, <2>10, <1>5 DEF ProtocolInv, WireSoFar
    <3>3. Client!Finish
      BY <3>1, <3>2, <2>6, <2>9, <1>3 DEF Client!Finish
    <3>4. QED
      BY <3>3, <2>7, <2>8 DEF ProtocolInv, Client!Next
  <2>11. CASE t = "RUN_ERROR"
    <3>1. ~Has(Run, {"RUN_FINISHED"})
      BY <2>2 DEF HasTerminal, Has, Terminal
    <3>2. Phase' = "failed"
      BY <3>1, <2>2, <2>3, <2>6, <2>11, HeadedPhase DEF HasTerminal
    <3>3. Client!Fail
      BY <3>2, <2>6, <2>9, <1>3 DEF Client!Fail
    <3>4. QED
      BY <3>3, <2>7, <2>8 DEF ProtocolInv, Client!Next
  <2>12. QED
    BY <2>10, <2>11 DEF Terminal
<1>6. CASE ~reader.terminal /\ e \notin Terminal
  <2> DEFINE n == reader.buffered + stages
             more == <<e>> \o Repeat("STAGE", n)
  <2>1. wire' = Announced(wire) \o more
    BY <1>1, <1>6 DEF Handled, WithProgress
  <2>2. n \in Nat
    BY StreamAssumption DEF TypeOK, Reader
  <2>3. "STAGE" \in Frames /\ "STAGE" \notin Terminal /\ "STAGE" \notin Output
    BY DEF Frames, Terminal, Output
  <2>4. <<e>> \in Seq(Frames) /\ <<e>> # <<>> /\ Len(<<e>>) = 1 /\ <<e>>[1] = e
    BY <1>2
  <2>5. Repeat("STAGE", n) \in Seq(Frames) /\ Len(Repeat("STAGE", n)) = n
    BY <2>2, <2>3, RepeatType
  <2>6. more \in Seq(Frames) /\ more # <<>> /\ more[1] = e /\ Len(more) = 1 + n
    BY <2>4, <2>5, ConcatKeeps
  <2>25. Run' = Run \o more /\ Headed'
    <3> HIDE DEF more
    <3>1. QED
      BY <2>1, <2>6, <1>1, <1>2, <1>8, RunGrows
  <2>7. ~Has(Repeat("STAGE", n), Terminal) /\ ~Has(Repeat("STAGE", n), Output)
    BY <2>2, <2>3, RepeatHas
  <2>8. Has(<<e>>, Terminal) <=> e \in Terminal
    BY DEF Has
  <2>9. Has(<<e>>, Output) <=> e \in Output
    BY DEF Has
  <2>10. Has(more, Terminal) <=> e \in Terminal
    BY <2>4, <2>5, <2>7, <2>8, <1>0
  <2>11. Has(more, Output) <=> e \in Output
    BY <2>4, <2>5, <2>7, <2>9, <1>0
  <2>12. /\ Run' \in Seq(Frames) /\ Len(Run') = Len(Run) + Len(more) /\ Run' # <<>>
         /\ Run # <<>> => Run'[1] = Run[1]
         /\ Run = <<>> => Run' = more
    BY <2>25, <2>6, <1>8, ConcatKeeps
  <2>13. HasTerminal(Run') <=> HasTerminal(Run)
    BY <2>25, <2>6, <2>10, <1>8, <1>6, <1>0 DEF HasTerminal
  <2>14. Answered' <=> Answered \/ e \in Output
    BY <2>25, <2>6, <2>11, <1>8, <1>0 DEF Answered
  <2>15. ~HasTerminal(Run)
    BY <1>1, <1>6 DEF ProtocolInv, WireSoFar
  <2>16. reader'.first /\ ~reader'.terminal /\ (reader'.produced => reader.produced \/ e \in Output)
    <3>1. reader' = [[reader EXCEPT !.first = TRUE, !.produced = @ \/ Shows(e)] EXCEPT !.buffered = 0]
      BY <1>1, <1>6 DEF Handled
    <3>2. QED
      BY <3>1, <1>2, <1>6 DEF Shows
  <2>17. Run'[1] = "RUN_STARTED"
    <3>1. CASE reader.first
      BY <3>1, <2>12 DEF ProtocolInv, WireSoFar
    <3>2. CASE ~reader.first
      <4>1. Run = <<>> /\ e \in {"RUN_STARTED", "FAIL"}
        BY <3>2, <1>1 DEF ProtocolInv, WireSoFar, OpenFirst, Run
      <4>2. e # "FAIL"
        BY <1>1 DEF Events, Terminal, Body, Output
      <4>3. QED
        BY <4>1, <4>2, <2>6, <2>12
    <3>3. QED
      BY <3>1, <3>2, <1>2
  <2>18. WireSoFar'
    BY <2>12, <2>13, <2>14, <2>15, <2>16, <2>17, <2>25, <1>1, <1>6 DEF ProtocolInv, WireSoFar
  <2>19. OpenFirst' /\ EndInPlace'
    BY <2>16, <1>1, <1>6, TakenKeepsPlace
  <2>20. Phase' = "running"
    BY <2>12, <2>13, <2>15, <2>17, <2>25, HeadedPhase
  <2>21. Len(Run) \in Nat /\ Len(Run') > Len(Run)
    BY <2>2, <2>6, <2>12, <1>8
  <2>22. CASE reader.first
    <3>1. Phase = "running"
      BY <2>15, <2>22, <1>8, PhaseOfRun DEF ProtocolInv, WireSoFar
    <3>2. Answered' \in {Answered, TRUE}
        BY <2>14, <1>0
    <3>3. Client!Show
      BY <3>1, <3>2, <2>20, <2>21, <1>3 DEF Client!Show
    <3>4. QED
      BY <3>3, <2>18, <2>19 DEF ProtocolInv, Client!Next
  <2>23. CASE ~reader.first
    <3>1. Run = <<>> /\ e \in {"RUN_STARTED", "FAIL"}
      BY <2>23, <1>1 DEF ProtocolInv, WireSoFar, OpenFirst, Run
    <3>2. Phase = "idle" /\ e \notin Output
      BY <3>1, <1>8, PhaseOfRun DEF Output
    <3>3. Answered' = Answered
      BY <3>2, <2>14, <1>0
    <3>4. Client!Start
      BY <3>2, <3>3, <2>20, <2>21, <1>3 DEF Client!Start
    <3>5. QED
      BY <3>4, <2>18, <2>19 DEF ProtocolInv, Client!Next
  <2>24. QED
    BY <2>22, <2>23, <1>2
<1>7. QED
  BY <1>4, <1>5, <1>6, <1>2

\* A wake shows nothing, or adds progress events and a heartbeat to an open run.
LEMMA WakeKeepsProtocol ==
  ASSUME TypeOK, ProtocolInv, Idle
  PROVE  ProtocolInv' /\ [Client!Next]_(Client!vars)
<1> DEFINE row == Repeat("STAGE", stages)
           flushed == Run \o row
           sent == wire \o row
<1>1. /\ request = "streaming" /\ request' = request /\ queue = <<>> /\ queue' = queue
      /\ ~reader.terminal /\ reader.first
      /\ UNCHANGED <<foundExisting, producer, yielded, source>>
      /\ wire' \in {sent, Append(sent, "HEARTBEAT")}
  BY DEF Idle, Quiet, Beat
<1>2. /\ reader'.first = reader.first /\ reader'.terminal = reader.terminal
      /\ reader'.produced = reader.produced
  BY IdleType
<1>3. /\ "STAGE" \in Frames \ (Terminal \cup Output) /\ "HEARTBEAT" \in Frames
      /\ "HEARTBEAT" \notin Terminal /\ "HEARTBEAT" \notin Output
  BY DEF Frames, Terminal, Output
<1>4. /\ stages \in Nat /\ wire \in Seq(Frames) /\ foundExisting \in BOOLEAN
      /\ Run \in Seq(Frames) /\ Headed
  BY StreamAssumption, RunType DEF TypeOK, ProtocolInv, WireSoFar
<1>5. row \in Seq(Frames) /\ Len(row) = stages
  BY <1>3, <1>4, RepeatType
<1>6. ~Has(row, Terminal) /\ ~Has(row, Output)
  BY <1>3, <1>4, RepeatHas
<1>7. Run # <<>> /\ Run[1] = "RUN_STARTED" /\ ~HasTerminal(Run)
  BY <1>1 DEF ProtocolInv, WireSoFar
<1>19. Headed' /\ Run' \in {flushed, Append(flushed, "HEARTBEAT")}
  <2>1. wire # <<>> /\ Announced(wire) = wire
    BY <1>4, <1>7, AnnouncedType DEF Run
  <2>2. CASE wire' = sent
    <3>1. Headed' /\ Run' = Run \o row
      <4> HIDE DEF row
      <4>1. wire' = Announced(wire) \o row
        BY <2>1, <2>2
      <4>2. QED
        BY <4>1, <1>1, <1>4, <1>5, RunGrows
    <3>2. QED
      BY <3>1
  <2>3. CASE wire' = Append(sent, "HEARTBEAT")
    <3> DEFINE more == Append(row, "HEARTBEAT")
    <3>1. more \in Seq(Frames)
      BY <1>3, <1>5, AppendProperties
    <3>0. PICK rest \in Seq(Frames) : rest = row
      BY <1>5
    <3>2. ASSUME NEW s \in Seq(Frames)
          PROVE  Append(s \o rest, "HEARTBEAT") = s \o Append(rest, "HEARTBEAT")
      BY <1>3, FrameAppended
    <3>3. \A s \in Seq(Frames) : Append(s \o row, "HEARTBEAT") = s \o more
      BY <3>0, <3>2
    <3>4. Headed' /\ Run' = Run \o more
      <4>1. wire' = Announced(wire) \o more
        BY <1>4, <2>1, <2>3, <3>3
      <4> HIDE DEF more
      <4>2. QED
        BY <4>1, <3>1, <1>1, <1>4, RunGrows
    <3>5. QED
      BY <1>4, <3>3, <3>4
  <2>4. QED
    BY <2>2, <2>3, <1>1
<1>8. /\ flushed \in Seq(Frames) /\ flushed # <<>> /\ flushed[1] = Run[1]
      /\ Len(flushed) = Len(Run) + stages
  BY <1>4, <1>5, <1>7, ConcatKeeps
<1>9. /\ Has(flushed, Terminal) <=> Has(Run, Terminal)
      /\ Has(flushed, Output) <=> Has(Run, Output)
  BY <1>4, <1>5, <1>6, HasConcat
<1>10. /\ Run' # <<>> /\ Run'[1] = "RUN_STARTED"
       /\ Len(Run) \in Nat /\ Len(Run') \in Nat /\ Len(Run') >= Len(Run)
       /\ Has(Run', Terminal) <=> Has(Run, Terminal)
       /\ Has(Run', Output) <=> Has(Run, Output)
  <2>1. CASE Run' = flushed
    BY <2>1, <1>4, <1>7, <1>8, <1>9
  <2>2. CASE Run' = Append(flushed, "HEARTBEAT")
    <3>1. \A s \in Seq(Frames) : s # <<>> =>
            /\ Append(s, "HEARTBEAT") # <<>> /\ Append(s, "HEARTBEAT")[1] = s[1]
            /\ Len(Append(s, "HEARTBEAT")) = Len(s) + 1
            /\ Has(Append(s, "HEARTBEAT"), Terminal) <=> Has(s, Terminal)
            /\ Has(Append(s, "HEARTBEAT"), Output) <=> Has(s, Output)
      BY <1>3, HasAppend
    <3>2. /\ Run' # <<>> /\ Run'[1] = flushed[1] /\ Len(Run') = Len(flushed) + 1
          /\ Has(Run', Terminal) <=> Has(flushed, Terminal)
          /\ Has(Run', Output) <=> Has(flushed, Output)
      <4> HIDE DEF flushed
      <4>1. QED
        BY <2>2, <3>1, <1>8
    <3>3. Len(Run) \in Nat /\ Len(Run') \in Nat /\ Len(Run') >= Len(Run)
      BY <3>2, <1>4, <1>8
    <3>4. QED
      BY <3>2, <3>3, <1>7, <1>8, <1>9
  <2>3. QED
    BY <2>1, <2>2, <1>19
<1>11. WireSoFar'
  BY <1>1, <1>2, <1>7, <1>10, <1>19 DEF ProtocolInv, WireSoFar, HasTerminal, Answered
<1>12. HasTerminal(yielded') = HasTerminal(yielded)
  BY <1>1 DEF HasTerminal, Has
<1>13. OpenFirst' /\ EndInPlace'
  BY <1>1, <1>2, <1>12 DEF ProtocolInv, OpenFirst, EndInPlace, Pending
<1>14. Phase = "running" /\ Phase' = "running" /\ Response = "open" /\ Response' = "open"
  BY <1>1, <1>4, <1>7, <1>10, <1>19, PhaseOfRun, HeadedPhase DEF Response, HasTerminal
<1>15. Answered' = Answered
  <2>1. Answered \in BOOLEAN /\ Answered' \in BOOLEAN /\ (Answered' <=> Answered)
    BY <1>10 DEF Answered, Has
  <2>2. QED
    BY <2>1
<1>16. CASE Len(Run') = Len(Run)
  <2>1. UNCHANGED Client!vars
    BY <1>14, <1>15, <1>16 DEF Client!vars
  <2>2. QED
    BY <2>1, <1>11, <1>13 DEF ProtocolInv
<1>17. CASE Len(Run') > Len(Run)
  <2>1. Client!Show
    BY <1>14, <1>15, <1>17 DEF Client!Show
  <2>2. QED
    BY <2>1, <1>11, <1>13 DEF ProtocolInv, Client!Next
<1>18. QED
  BY <1>10, <1>16, <1>17

\* The generator's end is delivered behind its terminal event, its exception
\* instead of one, and the response ends after either.
LEMMA EndKeepsProtocol ==
  ASSUME TypeOK, ProtocolInv, DeliverEnd \/ DeliverFail
  PROVE  ProtocolInv' /\ [Client!Next]_(Client!vars)
<1>1. /\ request = "streaming" /\ request' # "streaming" /\ queue # <<>> /\ queue' = <<>>
      /\ UNCHANGED <<foundExisting, producer, yielded, source, reader>>
  BY DEF DeliverEnd, DeliverFail
<1>2. OpenFirst' /\ EndInPlace'
  BY <1>1, TakenKeepsPlace
<1>3. CASE DeliverEnd
  <2>1. queue[1] = "END" /\ wire' = wire /\ request' = "ended"
    BY <1>3 DEF DeliverEnd
  <2>2. HasTerminal(Run)
    BY <2>1, <1>1 DEF ProtocolInv, EndInPlace, WireSoFar, Pending, Ends, Terminal
  <2>3. /\ Run' = Run /\ Headed' = Headed /\ HasTerminal(Run') = HasTerminal(Run)
        /\ Answered' = Answered /\ Phase' = Phase
    BY <2>1, <1>1 DEF HasTerminal, Has, Answered, Phase, Run, Headed
  <2>4. WireSoFar'
    BY <2>1, <2>2, <2>3, <1>1 DEF ProtocolInv, WireSoFar
  <2>5. UNCHANGED Client!vars
    BY <2>1, <2>3, <1>1 DEF Client!vars, Response
  <2>6. QED
    BY <1>2, <2>4, <2>5 DEF ProtocolInv
<1>4. CASE DeliverFail
  <2>1. queue[1] = "FAIL"
    BY <1>4 DEF DeliverFail
  <2>2. ~reader.terminal /\ ~HasTerminal(Run)
    BY <2>1, <1>1 DEF ProtocolInv, EndInPlace, WireSoFar, Pending
  <2>3. CASE wire' = wire /\ request' = "broken"
    <3>1. /\ Run' = Run /\ Headed' = Headed /\ HasTerminal(Run') = HasTerminal(Run)
          /\ Answered' = Answered /\ Phase' = Phase
      BY <2>3, <1>1 DEF HasTerminal, Has, Answered, Phase, Run, Headed
    <3>2. WireSoFar'
      BY <2>3, <3>1, <1>1 DEF ProtocolInv, WireSoFar
    <3>3. Client!Cut
      BY <2>3, <3>1, <1>1 DEF Client!Cut, Response
    <3>4. QED
      BY <1>2, <3>2, <3>3 DEF ProtocolInv, Client!Next
  <2>4. CASE wire' = Append(Announced(wire), "RUN_ERROR") /\ request' = "ended"
    <3>1. /\ wire \in Seq(Frames) /\ Run \in Seq(Frames) /\ Headed
          /\ "RUN_ERROR" \in Frames /\ "RUN_ERROR" \notin Output
          /\ "RUN_ERROR" \in Terminal /\ <<"RUN_ERROR">> \in Seq(Frames)
      BY RunType DEF TypeOK, Frames, Events, Terminal, Output, ProtocolInv, WireSoFar
    <3>10. Headed' /\ Run' = Append(Run, "RUN_ERROR")
      <4>1. wire' = Announced(wire) \o <<"RUN_ERROR">>
        BY <2>4, <3>1, AnnouncedType, FrameAppended
      <4>2. foundExisting \in BOOLEAN
        BY DEF TypeOK
      <4>3. Headed' /\ Run' = Run \o <<"RUN_ERROR">>
        BY <4>1, <4>2, <3>1, <1>1, RunGrows
      <4>4. QED
        BY <4>3, <3>1
    <3>2. /\ Len(Run') = Len(Run) + 1 /\ Run' # <<>>
          /\ Run # <<>> => Run'[1] = Run[1]
          /\ Run = <<>> => Run'[1] = "RUN_ERROR"
          /\ \A kinds : Has(Run', kinds) <=> Has(Run, kinds) \/ "RUN_ERROR" \in kinds
      BY <3>1, <3>10, HasAppend
    <3>3. HasTerminal(Run') /\ (Answered' <=> Answered)
      BY <3>1, <3>2 DEF HasTerminal, Answered
    <3>4. WireSoFar'
      BY <2>2, <2>4, <3>2, <3>3, <3>10, <1>1 DEF ProtocolInv, WireSoFar
    <3>5. ~Has(Run, {"RUN_FINISHED"})
      BY <2>2 DEF HasTerminal, Has, Terminal
    <3>6. Phase \in {"idle", "running"} /\ Phase' = "failed"
      BY <2>2, <3>1, <3>2, <3>3, <3>5, <3>10, PhaseOfRun, HeadedPhase DEF ProtocolInv, WireSoFar
    <3>7. Answered' = Answered
      <4>1. Answered \in BOOLEAN /\ Answered' \in BOOLEAN
        BY DEF Answered, Has
      <4>2. QED
        BY <4>1, <3>3
    <3>8. Client!Fail
      BY <2>4, <3>2, <3>6, <3>7, <1>1 DEF Client!Fail, Response
    <3>9. QED
      BY <1>2, <3>4, <3>8 DEF ProtocolInv, Client!Next
  <2>5. QED
    BY <1>4, <2>3, <2>4 DEF DeliverFail
<1>5. QED
  BY <1>3, <1>4

\* Without a latency report, the response adds nothing of its own.
LEMMA ResponseKeepsProtocol ==
  ASSUME TypeOK, ProtocolInv, ~Probe, Mark \/ Report \/ Disconnect \/ Close
  PROVE  ProtocolInv' /\ [Client!Next]_(Client!vars)
<1>1. /\ UNCHANGED <<foundExisting, reader, wire, queue, yielded>>
      /\ producer' = producer \/ (producer' = [producer EXCEPT !.pc = "done"] /\ request' = "gone")
      /\ source' = source \/ source' = "closed"
  BY DEF Mark, Report, Disconnect, Close
<1>2. /\ HasTerminal(Run') = HasTerminal(Run) /\ HasTerminal(yielded') = HasTerminal(yielded)
      /\ Answered' = Answered /\ Phase' = Phase /\ Run' = Run /\ Headed' = Headed
  BY <1>1 DEF HasTerminal, Has, Answered, Phase, Run, Headed
<1>3. \/ request' = request
      \/ request = "ended" /\ request' = "done"
      \/ request = "streaming" /\ request' = "closing"
      \/ request = "closing" /\ request' = "gone"
  BY DEF Mark, Report, Disconnect, Close
<1>4. WireSoFar'
  BY <1>1, <1>2, <1>3 DEF ProtocolInv, WireSoFar
<1>5. OpenFirst'
  BY <1>1, <1>3 DEF ProtocolInv, OpenFirst
<1>6. \A kinds : Pending(kinds)' => Pending(kinds)
  BY <1>1 DEF Pending, TypeOK
<1>7. request' = "streaming" => request = "streaming" /\ producer' = producer
  BY <1>1, <1>3
<1>8. EndInPlace'
  <2>1. queue' # <<>> /\ queue'[1] \in Ends => producer'.pc = "done"
    BY <1>1 DEF ProtocolInv, EndInPlace, TypeOK
  <2>2. (Pending({"FAIL"}) => ~HasTerminal(yielded) /\ source # "running")'
        /\ (Pending(Terminal \cup {"END"}) => HasTerminal(yielded))'
    BY <1>1, <1>2, <1>6 DEF ProtocolInv, EndInPlace, Terminal
  <2>3. (request = "streaming" /\ reader.terminal => HasTerminal(yielded))'
    BY <1>1, <1>2, <1>7 DEF ProtocolInv, EndInPlace
  <2>4. (request = "streaming" /\ HasTerminal(yielded) /\ ~reader.terminal => Pending(Terminal))'
    BY <1>1, <1>2, <1>7 DEF ProtocolInv, EndInPlace, Pending
  <2>5. QED
    BY <2>1, <2>2, <2>3, <2>4 DEF EndInPlace
<1>9. [Client!Next]_(Client!vars)
  <2>1. CASE Response' = Response
    BY <2>1, <1>1, <1>2 DEF Client!vars
  <2>2. CASE request = "ended" /\ request' = "done"
    <3>1. Phase \in {"finished", "failed"}
      BY <2>2, PhaseOfRun DEF ProtocolInv, WireSoFar, HasTerminal, Has
    <3>2. Client!Complete
      BY <2>2, <3>1, <1>1, <1>2 DEF Client!Complete, Response
    <3>3. QED
      BY <3>2 DEF Client!Next
  <2>3. CASE request = "closing" /\ request' = "gone"
    <3>1. Client!Cut
      BY <2>3, <1>1, <1>2 DEF Client!Cut, Response
    <3>2. QED
      BY <3>1 DEF Client!Next
  <2>4. QED
    BY <2>1, <2>2, <2>3, <1>3 DEF Response
<1>10. QED
  BY <1>4, <1>5, <1>8, <1>9 DEF ProtocolInv

LEMMA InitIsProtocols == Init => ProtocolInv /\ Client!Init
<1> SUFFICES ASSUME Init PROVE ProtocolInv /\ Client!Init
  OBVIOUS
<1>1. /\ wire = <<>> /\ Run = <<>> /\ Headed /\ queue = <<>> /\ yielded = <<>> /\ producer.pc = "pull"
      /\ request = "streaming" /\ ~reader.first /\ ~reader.terminal /\ ~reader.produced
  BY DEF Init, Run, Headed
<1>2. \A kinds : ~Has(<<>>, kinds)
  BY DEF Has
<1>3. ~HasTerminal(Run) /\ ~HasTerminal(yielded) /\ Answered = FALSE
  BY <1>1, <1>2 DEF HasTerminal, Answered, Has
<1>4. ProtocolInv
  BY <1>1, <1>3 DEF ProtocolInv, WireSoFar, OpenFirst, EndInPlace, Pending
<1>5. Client!Init
  BY <1>1, <1>3 DEF Client!Init, Phase, Response
<1>6. QED
  BY <1>4, <1>5

\* Every stream that was not asked for a latency report keeps the protocol of
\* its client, whatever its bounds: the reader's memory of the wire, and the
\* place of the terminal event in the hand-over, are the invariant it rests on.
THEOREM ImplementsProtocol == ~Probe => (Spec => KeepsProtocol)
<1> SUFFICES ASSUME ~Probe PROVE Spec => KeepsProtocol
  OBVIOUS
<1>1. Init => TypeOK /\ ProtocolInv /\ Client!Init
  BY InitType, InitIsProtocols
<1>2. TypeOK /\ ProtocolInv /\ [Next]_vars =>
        (TypeOK /\ ProtocolInv)' /\ [Client!Next]_(Client!vars)
  <2> SUFFICES ASSUME TypeOK, ProtocolInv, [Next]_vars
               PROVE  ProtocolInv' /\ [Client!Next]_(Client!vars)
    BY StepType
  <2>1. CASE (\E e \in Events : SourceYield(e)) \/ SourceReturn \/ SourceRaise \/ Put
    <3>1. ProtocolInv'
      BY <2>1, SourceKeepsPlace
    <3>2. UNCHANGED <<foundExisting, wire, request>>
      BY <2>1 DEF SourceYield, SourceReturn, SourceRaise, Put
    <3>3. UNCHANGED Client!vars
      BY <3>2 DEF Client!vars, Phase, Run, HasTerminal, Has, Answered, Response
    <3>4. QED
      BY <3>1, <3>3
  <2>2. CASE DeliverEvent
    BY <2>2, EventKeepsProtocol
  <2>3. CASE DeliverEnd \/ DeliverFail
    BY <2>3, EndKeepsProtocol
  <2>4. CASE Idle
    BY <2>4, WakeKeepsProtocol
  <2>5. CASE Mark \/ Report \/ Disconnect \/ Close
    BY <2>5, ResponseKeepsProtocol
  <2>6. CASE UNCHANGED vars
    <3>1. ProtocolInv'
      <4>1. Run' = Run /\ Headed' = Headed
        BY <2>6 DEF vars, Run, Headed
      <4>2. WireSoFar'
        BY <2>6, <4>1 DEF vars, ProtocolInv, WireSoFar, HasTerminal, Has, Answered
      <4>3. OpenFirst' /\ EndInPlace'
        BY <2>6 DEF vars, ProtocolInv, OpenFirst, EndInPlace, Pending, HasTerminal, Has
      <4>4. QED
        BY <4>2, <4>3 DEF ProtocolInv
    <3>2. UNCHANGED Client!vars
      BY <2>6 DEF vars, Client!vars, Phase, Run, HasTerminal, Has, Answered, Response
    <3>3. QED
      BY <3>1, <3>2
  <2>7. QED
    BY <2>1, <2>2, <2>3, <2>4, <2>5, <2>6 DEF Next
<1>3. QED
  BY <1>1, <1>2, PTL DEF Spec, KeepsProtocol, Client!Spec

-----------------------------------------------------------------------------
(* Events in their order *)

RelayedKinds == Body \cup {"RUN_STARTED"}

\* An event on its way: in the producer's hand, or in the slot.
InHand == producer.pc = "put" /\ producer.hand \in Events
InSlot == queue # <<>> /\ queue[1] \in Events

\* The relayed frames are those of the first n events yielded, in their order.
Told(n, origin) ==
  /\ n \in 0..Len(yielded)
  /\ origin \in [Relayed(wire) -> Relayed(yielded)]
  /\ \A i \in Relayed(wire) :
       /\ origin[i] <= n /\ wire[i] = yielded[origin[i]]
       /\ \A j \in Relayed(wire) : j < i => origin[j] < origin[i]
  /\ \A k \in Relayed(yielded) : k <= n => \E i \in Relayed(wire) : origin[i] = k

\* Nothing else is between the generator and the wire than the hand and the slot,
\* and what the reader drops follows a terminal event.
OnItsWay(n) ==
  /\ InSlot => n < Len(yielded) /\ queue[1] = yielded[n + 1]
  /\ InHand => producer.hand = yielded[Len(yielded)]
  /\ n + (IF InSlot THEN 1 ELSE 0) + (IF InHand THEN 1 ELSE 0) = Len(yielded)
  /\ reader.terminal => \E i \in 1..n : yielded[i] \in Terminal

OrderInv ==
  /\ \A i, j \in DOMAIN yielded : i < j /\ yielded[i] \in Terminal => yielded[j] \in Terminal
  /\ queue # <<>> /\ queue[1] \in Ends => producer.pc = "done"
  /\ \E n, origin :
       /\ Told(n, origin)
       /\ request = "streaming" => OnItsWay(n)
       /\ request \in {"ended", "done"} => producer.pc = "done" /\ n = Len(yielded)

\* Frames that are not relayed events leave those in place.
LEMMA RelayedConcat ==
  ASSUME NEW s \in Seq(Frames), NEW t \in Seq(Frames),
         \A i \in 1..Len(t) : t[i] \notin RelayedKinds
  PROVE  /\ s \o t \in Seq(Frames) /\ Relayed(s \o t) = Relayed(s)
         /\ \A i \in Relayed(s) : (s \o t)[i] = s[i]
<1>1. /\ Len(s \o t) = Len(s) + Len(t) /\ Len(s) \in Nat /\ Len(t) \in Nat /\ s \o t \in Seq(Frames)
      /\ \A i \in 1..Len(s) : (s \o t)[i] = s[i]
      /\ \A i \in (Len(s) + 1)..(Len(s) + Len(t)) : (s \o t)[i] = t[i - Len(s)]
  OBVIOUS
<1>2. PICK all, a, b : all = s \o t /\ a = Len(s) /\ b = Len(t)
  OBVIOUS
<1>3. /\ DOMAIN all = 1..(a + b) /\ DOMAIN s = 1..a /\ a \in Nat /\ b \in Nat
      /\ \A i \in 1..a : all[i] = s[i]
      /\ \A i \in (a + 1)..(a + b) : all[i] \notin RelayedKinds
  <2>1. ASSUME NEW i \in (a + 1)..(a + b) PROVE all[i] \notin RelayedKinds
    <3>1. i - a \in 1..b /\ all[i] = t[i - a]
      BY <1>1, <1>2
    <3> QED
      BY <1>2, <3>1
  <2> QED
    BY <1>1, <1>2, <2>1
<1>4. \A i \in 1..(a + b) : i \in 1..a \/ i \in (a + 1)..(a + b)
  BY <1>3
<1>5. 1..a \subseteq 1..(a + b)
  BY <1>3
<1>6. Relayed(all) = Relayed(s)
  BY <1>3, <1>4, <1>5 DEF Relayed, RelayedKinds
<1> QED
  BY <1>1, <1>2, <1>3, <1>6 DEF Relayed

\* One more relayed event.
LEMMA RelayedOneMore ==
  ASSUME NEW F, NEW s \in Seq(F), NEW e \in F
  PROVE  /\ Relayed(Append(s, e)) =
              IF e \in RelayedKinds THEN Relayed(s) \cup {Len(s) + 1} ELSE Relayed(s)
         /\ \A i \in Relayed(s) : Append(s, e)[i] = s[i] /\ i \in 1..Len(s)
         /\ Append(s, e)[Len(s) + 1] = e
<1>1. PICK all, a : all = Append(s, e) /\ a = Len(s)
  OBVIOUS
<1>2. /\ DOMAIN all = 1..(a + 1) /\ DOMAIN s = 1..a /\ a \in Nat
      /\ all[a + 1] = e /\ \A i \in 1..a : all[i] = s[i]
  BY <1>1
<1>3. \A i \in 1..(a + 1) : i \in 1..a \/ i = a + 1
  BY <1>2
<1>4. 1..a \subseteq 1..(a + 1) /\ a + 1 \in 1..(a + 1)
  BY <1>2
<1>5. Relayed(all) = IF e \in RelayedKinds THEN Relayed(s) \cup {a + 1} ELSE Relayed(s)
  BY <1>2, <1>3, <1>4 DEF Relayed, RelayedKinds
<1> QED
  BY <1>1, <1>2, <1>5 DEF Relayed

\* What is told stays told while relayed frames and events stand where they were.
LEMMA ToldKept ==
  ASSUME NEW n, NEW origin, Told(n, origin),
         Relayed(wire') = Relayed(wire), \A i \in Relayed(wire) : wire'[i] = wire[i],
         yielded' = yielded
  PROVE  Told(n, origin)'
  BY DEF Told, Relayed

LEMMA InitOrder == Init => OrderInv
<1> SUFFICES ASSUME Init PROVE OrderInv
  OBVIOUS
<1>1. /\ yielded = << >> /\ wire = << >> /\ queue = << >> /\ producer.pc = "pull"
      /\ request = "streaming" /\ ~reader.terminal
  BY DEF Init
<1>2. Len(yielded) = 0 /\ DOMAIN yielded = {} /\ DOMAIN wire = {}
  BY <1>1
<1>3. Relayed(wire) = {} /\ Relayed(yielded) = {}
  BY <1>2 DEF Relayed
<1>4. Told(0, [i \in {} |-> 0])
  BY <1>2, <1>3 DEF Told
<1>5. OnItsWay(0)
  BY <1>1, <1>2 DEF OnItsWay, InSlot, InHand
<1> QED
  BY <1>1, <1>2, <1>4, <1>5 DEF OrderInv

\* The generator yields one more event, which is in the producer's hand.
LEMMA YieldOrder ==
  ASSUME TypeOK, OrderInv, NEW e \in Events, SourceYield(e)
  PROVE  OrderInv'
<1>1. /\ producer.pc = "pull" /\ MayYield(e) /\ yielded' = Append(yielded, e)
      /\ producer' = [pc |-> "put", hand |-> e]
      /\ UNCHANGED <<queue, reader, wire, request>>
  BY DEF SourceYield
<1>2. PICK a : a = Len(yielded)
  OBVIOUS
<1>3. /\ yielded \in Seq(Events) /\ a \in Nat /\ DOMAIN yielded = 1..a
      /\ Len(yielded') = a + 1 /\ DOMAIN yielded' = 1..(a + 1)
      /\ yielded'[a + 1] = e /\ \A i \in 1..a : yielded'[i] = yielded[i]
  BY <1>1, <1>2 DEF TypeOK
<1>4. PICK n, origin :
        /\ Told(n, origin)
        /\ request = "streaming" => OnItsWay(n)
        /\ request \notin {"ended", "done"}
  BY <1>1 DEF OrderInv
<1>5. n \in 0..a
  BY <1>2, <1>4 DEF Told
<1>6. \A i, j \in DOMAIN yielded' :
        i < j /\ yielded'[i] \in Terminal => yielded'[j] \in Terminal
  <2> SUFFICES ASSUME NEW i \in 1..(a + 1), NEW j \in 1..(a + 1), i < j, yielded'[i] \in Terminal
               PROVE  yielded'[j] \in Terminal
    BY <1>3
  <2>1. i \in 1..a /\ yielded[i] \in Terminal
    BY <1>3
  <2>2. CASE j \in 1..a
    BY <1>3, <2>1, <2>2 DEF OrderInv
  <2>3. CASE j = a + 1
    <3>1. HasTerminal(yielded) /\ yielded # <<>>
      BY <1>3, <2>1 DEF HasTerminal, Has
    <3>2. e = "RUN_FINISHED"
      BY <1>1, <3>1 DEF MayYield
    <3> QED
      BY <1>3, <2>3, <3>2 DEF Terminal
  <2> QED
    BY <1>3, <2>2, <2>3
<1>7. Relayed(yielded) \subseteq Relayed(yielded') /\ Relayed(yielded) \subseteq 1..a
      /\ \A k \in Relayed(yielded') : k <= n => k \in Relayed(yielded)
  <2>1. 1..a \subseteq 1..(a + 1) /\ \A k \in 1..(a + 1) : k <= n => k \in 1..a
    BY <1>3, <1>5
  <2> QED
    BY <1>3, <2>1 DEF Relayed
<1>8. Told(n, origin)'
  <2>1. Relayed(wire') = Relayed(wire) /\ wire' = wire
    BY <1>1 DEF Relayed
  <2>2. n \in 0..Len(yielded')
    BY <1>3, <1>5
  <2>3. \A i \in Relayed(wire) : origin[i] \in Relayed(yielded) /\ yielded'[origin[i]] = yielded[origin[i]]
    BY <1>3, <1>4, <1>7 DEF Told
  <2>4. origin \in [Relayed(wire) -> Relayed(yielded')]
    BY <1>4, <1>7 DEF Told
  <2> QED
    BY <1>4, <1>7, <2>1, <2>2, <2>3, <2>4 DEF Told
<1>9. request = "streaming" => OnItsWay(n)'
  <2> SUFFICES ASSUME request = "streaming" PROVE OnItsWay(n)'
    OBVIOUS
  <2>1. OnItsWay(n)
    BY <1>4
  <2>2. InSlot' <=> InSlot
    BY <1>1 DEF InSlot
  <2>3. ~InHand /\ InHand'
    BY <1>1 DEF InHand
  <2>4. producer'.hand = yielded'[Len(yielded')]
    BY <1>1, <1>3
  <2>5. InSlot' => n < Len(yielded') /\ queue'[1] = yielded'[n + 1]
    BY <1>1, <1>2, <1>3, <1>5, <2>1, <2>2 DEF OnItsWay
  <2>6. n + (IF InSlot' THEN 1 ELSE 0) + (IF InHand' THEN 1 ELSE 0) = Len(yielded')
    BY <1>2, <1>3, <1>5, <2>1, <2>2, <2>3 DEF OnItsWay
  <2>7. reader'.terminal => \E i \in 1..n : yielded'[i] \in Terminal
    BY <1>1, <1>3, <1>5, <2>1 DEF OnItsWay
  <2> QED
    BY <2>4, <2>5, <2>6, <2>7 DEF OnItsWay
<1>10. queue' # <<>> /\ queue'[1] \in Ends => producer'.pc = "done"
  BY <1>1 DEF OrderInv
<1> QED
  BY <1>1, <1>4, <1>6, <1>8, <1>9, <1>10 DEF OrderInv

\* The end of the generator is noted, and an item gets into the free slot.
LEMMA PutOrder ==
  ASSUME TypeOK, OrderInv, SourceReturn \/ SourceRaise \/ Put
  PROVE  OrderInv'
<1>1. UNCHANGED <<yielded, reader, wire, request>>
  BY DEF SourceReturn, SourceRaise, Put
<1>2. PICK n, origin :
        /\ Told(n, origin)
        /\ request = "streaming" => OnItsWay(n)
        /\ request \in {"ended", "done"} => producer.pc = "done" /\ n = Len(yielded)
  BY DEF OrderInv
<1>3. Told(n, origin)'
  BY <1>1, <1>2, ToldKept
<1>4. \A i, j \in DOMAIN yielded' :
        i < j /\ yielded'[i] \in Terminal => yielded'[j] \in Terminal
  BY <1>1 DEF OrderInv
<1>5. n \in Nat /\ Len(yielded) \in Nat /\ Ends \cap Events = {} /\ producer.pc # "done"
  BY <1>2 DEF Told, TypeOK, Ends, Events, Body, Output, Terminal, SourceReturn, SourceRaise, Put
<1>6. CASE SourceReturn \/ SourceRaise
  <2>1. /\ producer.pc = "pull" /\ queue' = queue
        /\ producer'.pc = "put" /\ producer'.hand \in Ends
    BY <1>6 DEF SourceReturn, SourceRaise, Ended, Ends
  <2>2. (InSlot' <=> InSlot) /\ ~InHand /\ ~InHand'
    BY <1>5, <2>1 DEF InSlot, InHand
  <2>3. request = "streaming" => OnItsWay(n)'
    BY <1>1, <1>2, <2>1, <2>2 DEF OnItsWay
  <2>4. queue' # <<>> /\ queue'[1] \in Ends => producer'.pc = "done"
    BY <2>1 DEF OrderInv
  <2> QED
    BY <1>1, <1>2, <1>3, <1>4, <1>5, <2>3, <2>4 DEF OrderInv
<1>7. CASE Put
  <2>1. /\ producer.pc = "put" /\ queue = <<>> /\ queue' = <<producer.hand>>
        /\ producer'.pc = (IF producer.hand \in Ends THEN "done" ELSE "pull")
        /\ producer.hand \in Events \cup Ends
    BY <1>7 DEF Put, PutWaiting, TypeOK
  <2>2. queue' # <<>> /\ queue'[1] = producer.hand
    BY <2>1
  <2>3. (InSlot' <=> InHand) /\ ~InSlot /\ ~InHand'
    BY <1>5, <2>1, <2>2 DEF InSlot, InHand
  <2>4. ASSUME request = "streaming" PROVE OnItsWay(n)'
    <3>1. OnItsWay(n)
      BY <1>2, <2>4
    <3>2. InHand => n + 1 = Len(yielded)
      BY <1>5, <2>3, <3>1 DEF OnItsWay
    <3>3. InSlot' => n < Len(yielded) /\ queue'[1] = yielded[n + 1]
      BY <1>5, <2>2, <2>3, <3>1, <3>2 DEF OnItsWay
    <3> QED
      BY <1>1, <1>5, <2>3, <3>1, <3>3 DEF OnItsWay
  <2>5. queue'[1] \in Ends => producer'.pc = "done"
    BY <2>1, <2>2
  <2> QED
    BY <1>1, <1>2, <1>3, <1>4, <1>5, <2>4, <2>5 DEF OrderInv
<1> QED
  BY <1>6, <1>7

\* Steps that touch neither the events nor where they are.
Aside ==
  /\ UNCHANGED <<yielded, queue>>
  /\ Relayed(wire') = Relayed(wire) /\ \A i \in Relayed(wire) : wire'[i] = wire[i]
  /\ \/ /\ producer' = producer /\ (reader'.terminal => reader.terminal)
        /\ request' \in {request, "closing"} \/ (request = "ended" /\ request' = "done")
     \/ producer'.pc = "done" /\ request' = "gone"

LEMMA AsideOrder ==
  ASSUME OrderInv, Aside
  PROVE  OrderInv'
<1>1. PICK n, origin :
        /\ Told(n, origin)
        /\ request = "streaming" => OnItsWay(n)
        /\ request \in {"ended", "done"} => producer.pc = "done" /\ n = Len(yielded)
  BY DEF OrderInv
<1>2. Told(n, origin)'
  BY <1>1, ToldKept DEF Aside
<1>3. request' = "streaming" => OnItsWay(n)'
  BY <1>1 DEF Aside, OnItsWay, InSlot, InHand
<1>4. request' \in {"ended", "done"} => producer'.pc = "done" /\ n = Len(yielded)
  BY <1>1 DEF Aside
<1>5. queue' # <<>> /\ queue'[1] \in Ends => producer'.pc = "done"
  BY DEF Aside, OrderInv
<1>6. \A i, j \in DOMAIN yielded' :
        i < j /\ yielded'[i] \in Terminal => yielded'[j] \in Terminal
  BY DEF Aside, OrderInv
<1> QED
  BY <1>2, <1>3, <1>4, <1>5, <1>6 DEF Aside, OrderInv

\* The wire stands, or has one more frame that is not relayed.
LEMMA RelayedStand ==
  ASSUME NEW s \in Seq(Frames), NEW e \in Frames, e \notin RelayedKinds,
         NEW more \in {s, Append(s, e)}
  PROVE  Relayed(more) = Relayed(s) /\ \A i \in Relayed(s) : more[i] = s[i]
<1>1. CASE more = s
  BY <1>1
<1>2. CASE more = Append(s, e)
  BY <1>2, RelayedOneMore
<1> QED
  BY <1>1, <1>2

\* The announcement of a resumed session is not an event of the agent.
LEMMA AnnouncedOrder ==
  ASSUME NEW s \in Seq(Frames)
  PROVE  /\ Announced(s) \in Seq(Frames) /\ Relayed(Announced(s)) = Relayed(s)
         /\ \A i \in Relayed(s) : Announced(s)[i] = s[i]
<1>1. CASE s # <<>>
  BY <1>1, AnnouncedType
<1>2. CASE s = <<>>
  <2>1. DOMAIN s = {} /\ Relayed(s) = {}
    BY <1>2 DEF Relayed
  <2>2. Relayed(<<"SESSION_META">>) = {}
    BY DEF Relayed, Body, Output
  <2> QED
    BY <1>2, <2>1, <2>2, AnnouncedType
<1> QED
  BY <1>1, <1>2

\* The item in the slot is taken: a relayed event is told next, a terminal one and
\* what follows it are not relayed.
LEMMA EventOrder ==
  ASSUME TypeOK, OrderInv, DeliverEvent
  PROVE  OrderInv'
<1>1. PICK e : e = Head(queue)
  OBVIOUS
<1>2. /\ request = "streaming" /\ queue # << >> /\ e = queue[1] /\ e \in Events
      /\ Handled(e) /\ queue' = << >> /\ UNCHANGED <<yielded, producer, request>>
  BY <1>1 DEF DeliverEvent, TypeOK
<1>3. PICK n, origin : Told(n, origin) /\ OnItsWay(n)
  BY <1>2 DEF OrderInv
<1>4. PICK a : a = Len(yielded)
  OBVIOUS
<1>5. /\ InSlot /\ ~InSlot' /\ (InHand' <=> InHand) /\ n \in Nat /\ n < a /\ a \in Nat
      /\ e = yielded[n + 1] /\ n + 1 \in 1..a /\ DOMAIN yielded = 1..a
      /\ yielded \in Seq(Events)
  BY <1>2, <1>3, <1>4 DEF OnItsWay, InSlot, InHand, Told, TypeOK
<1>6. reader.terminal => e \in Terminal
  BY <1>3, <1>5 DEF OnItsWay, OrderInv
<1>7. OnItsWay(n + 1)'
  <2>1. InHand' => producer'.hand = yielded'[Len(yielded')]
    BY <1>2, <1>3, <1>5 DEF OnItsWay
  <2>2. n + 1 + (IF InSlot' THEN 1 ELSE 0) + (IF InHand' THEN 1 ELSE 0) = Len(yielded')
    BY <1>2, <1>3, <1>4, <1>5 DEF OnItsWay
  <2>3. ASSUME reader'.terminal PROVE \E i \in 1..(n + 1) : yielded[i] \in Terminal
    <3>1. CASE reader.terminal
      BY <1>3, <1>5, <3>1 DEF OnItsWay
    <3>2. CASE ~reader.terminal
      <4>1. e \in Terminal
        BY <1>2, <2>3, <3>2 DEF Handled, TypeOK, Reader
      <4> QED
        BY <1>5, <4>1
    <3> QED
      BY <3>1, <3>2
  <2> QED
    BY <1>2, <1>5, <2>1, <2>2, <2>3 DEF OnItsWay
<1>8. \A i \in Relayed(yielded) : i \in 1..a /\ (i <= n + 1 => i <= n \/ i = n + 1)
  BY <1>5 DEF Relayed
<1>9. n + 1 \in Relayed(yielded) <=> e \in RelayedKinds
  BY <1>5 DEF Relayed, RelayedKinds
<1>10. RelayedKinds \cap Terminal = {} /\ Events = RelayedKinds \cup Terminal
  BY DEF RelayedKinds, Terminal, Body, Output, Events
<1>11. wire \in Seq(Frames) /\ Events \subseteq Frames /\ stages \in Nat /\ reader.buffered \in Nat
  BY StreamAssumption DEF TypeOK, Frames, Reader
<1>16. PICK base : base = Announced(wire)
  OBVIOUS
<1>17. /\ base \in Seq(Frames) /\ Relayed(base) = Relayed(wire)
       /\ \A i \in Relayed(wire) : base[i] = wire[i]
  BY <1>11, <1>16, AnnouncedOrder
<1>12. ASSUME e \in Terminal
       PROVE  \E org : Told(n + 1, org)'
  <2>1. Relayed(wire') = Relayed(wire) /\ \A i \in Relayed(wire) : wire'[i] = wire[i]
    <3>1. CASE wire' = wire
      BY <3>1
    <3>2. CASE wire' # wire
      <4>1. PICK f \in Terminal : wire' = Append(base, f)
        BY <1>2, <1>12, <1>16, <3>2 DEF Handled, Terminal
      <4>2. f \notin RelayedKinds /\ f \in Frames
        BY <1>10, <1>11, <4>1
      <4> QED
        BY <1>17, <4>1, <4>2, RelayedOneMore
    <3> QED
      BY <3>1, <3>2
  <2>2. Told(n, origin)'
    BY <1>2, <1>3, <2>1, ToldKept
  <2>3. \A k \in Relayed(yielded) : k <= n + 1 => k <= n
    BY <1>8, <1>9, <1>10, <1>12
  <2>4. \A i \in Relayed(wire) : origin[i] <= n + 1
    <3>1. \A i \in Relayed(wire) : origin[i] \in 1..a /\ origin[i] <= n
      BY <1>3, <1>8 DEF Told
    <3> QED
      BY <1>5, <3>1
  <2>5. n + 1 \in 0..a
    BY <1>5
  <2>6. Told(n + 1, origin)'
    BY <1>2, <1>4, <2>1, <2>2, <2>3, <2>4, <2>5 DEF Told
  <2> QED
    BY <2>6
<1>13. ASSUME e \notin Terminal
       PROVE  \E org : Told(n + 1, org)'
  <2>1. PICK b : b = Len(base)
    OBVIOUS
  <2>2. wire' = base \o WithProgress(e) /\ e \in RelayedKinds /\ e \in Frames
    BY <1>2, <1>6, <1>10, <1>11, <1>13, <1>16 DEF Handled
  <2>3. PICK mid, tail : /\ mid = Append(base, e) /\ wire' = mid \o tail
                         /\ mid \in Seq(Frames) /\ tail \in Seq(Frames)
                         /\ \A i \in 1..Len(tail) : tail[i] = "STAGE"
    <3>1. PICK tail : tail = Repeat("STAGE", reader.buffered + stages)
      OBVIOUS
    <3>2. tail \in Seq(Frames) /\ Len(tail) = reader.buffered + stages
          /\ \A i \in 1..Len(tail) : tail[i] = "STAGE"
      <4>1. reader.buffered + stages \in Nat /\ "STAGE" \in Frames
        BY <1>11 DEF Frames
      <4>2. tail \in Seq(Frames) /\ Len(tail) = reader.buffered + stages
        BY <3>1, <4>1, RepeatType
      <4> QED
        BY <3>1, <4>1, <4>2 DEF Repeat
    <3>3. base \o (<<e>> \o tail) = Append(base, e) \o tail
      BY <1>17, <2>2, <3>2
    <3>4. Append(base, e) \in Seq(Frames)
      BY <1>17, <2>2
    <3> QED
      BY <2>2, <3>1, <3>2, <3>3, <3>4 DEF WithProgress
  <2>4. "STAGE" \notin RelayedKinds
    BY DEF RelayedKinds, Body, Output
  <2>5. /\ Relayed(mid) = Relayed(wire) \cup {b + 1}
        /\ \A i \in Relayed(wire) : mid[i] = wire[i] /\ i \in 1..b
        /\ mid[b + 1] = e
    BY <1>17, <2>1, <2>2, <2>3, RelayedOneMore
  <2>6. Relayed(wire') = Relayed(mid) /\ \A i \in Relayed(mid) : wire'[i] = mid[i]
    BY <2>3, <2>4, RelayedConcat
  <2>7. /\ Relayed(wire') = Relayed(wire) \cup {b + 1} /\ b \in Nat
        /\ \A i \in Relayed(wire) : wire'[i] = wire[i] /\ i \in 1..b /\ i # b + 1
        /\ wire'[b + 1] = e
    <3>1. b \in Nat
      BY <1>17, <2>1
    <3> QED
      BY <2>5, <2>6, <3>1
  <2>0. PICK org :
          org = [i \in Relayed(wire) \cup {b + 1} |-> IF i = b + 1 THEN n + 1 ELSE origin[i]]
    OBVIOUS
  <2>8. \A i \in Relayed(wire) : /\ org[i] = origin[i] /\ org[i] \in Relayed(yielded) /\ org[i] \in 1..a
                                 /\ org[i] <= n /\ wire'[i] = yielded[org[i]]
    BY <1>3, <1>8, <2>0, <2>7 DEF Told
  <2>9. org[b + 1] = n + 1 /\ n + 1 \in Relayed(yielded)
    BY <1>9, <2>0, <2>2
  <2>10. org \in [Relayed(wire') -> Relayed(yielded)]
    BY <2>0, <2>7, <2>8, <2>9
  <2>11. ASSUME NEW i \in Relayed(wire')
         PROVE  /\ org[i] <= n + 1 /\ wire'[i] = yielded[org[i]]
                /\ \A j \in Relayed(wire') : j < i => org[j] < org[i]
    <3>1. CASE i = b + 1
      <4>1. ASSUME NEW j \in Relayed(wire'), j < i PROVE org[j] < org[i]
        <5>1. j \in Relayed(wire)
          BY <2>7, <3>1, <4>1
        <5> QED
          BY <1>5, <2>8, <2>9, <3>1, <5>1
      <4> QED
        BY <1>5, <2>7, <2>9, <3>1, <4>1
    <3>2. CASE i \in Relayed(wire)
      <4>1. ASSUME NEW j \in Relayed(wire'), j < i PROVE org[j] < org[i]
        <5>1. j \in Relayed(wire)
          BY <2>7, <3>2, <4>1
        <5> QED
          BY <1>3, <2>8, <3>2, <4>1, <5>1 DEF Told
      <4> QED
        BY <1>5, <2>8, <3>2, <4>1
    <3> QED
      BY <2>7, <3>1, <3>2
  <2>12. ASSUME NEW k \in Relayed(yielded), k <= n + 1
         PROVE  \E i \in Relayed(wire') : org[i] = k
    <3>1. CASE k = n + 1
      BY <2>7, <2>9, <3>1
    <3>2. CASE k <= n
      BY <1>3, <2>7, <2>8, <3>2 DEF Told
    <3> QED
      BY <1>8, <2>12, <3>1, <3>2
  <2>13. n + 1 \in 0..a
    BY <1>5
  <2>14. yielded' = yielded /\ Relayed(yielded') = Relayed(yielded)
    BY <1>2 DEF Relayed
  <2>15. Told(n + 1, org)'
    <3>1. PICK m : m = n + 1
      OBVIOUS
    <3>2. m \in 0..Len(yielded') /\ org \in [Relayed(wire') -> Relayed(yielded')]
      BY <1>4, <2>10, <2>13, <2>14, <3>1
    <3>3. \A i \in Relayed(wire') : org[i] <= m /\ wire'[i] = yielded'[org[i]]
      BY <2>11, <2>14, <3>1
    <3>4. \A i \in Relayed(wire') : \A j \in Relayed(wire') : j < i => org[j] < org[i]
      BY <2>11
    <3>5. \A k \in Relayed(yielded') : k <= m => \E i \in Relayed(wire') : org[i] = k
      BY <2>12, <2>14, <3>1
    <3>6. Told(m, org)'
      BY <3>2, <3>3, <3>4, <3>5 DEF Told
    <3> QED
      BY <3>1, <3>6
  <2> QED
    BY <2>15
<1>14. PICK org : Told(n + 1, org)'
  BY <1>12, <1>13
<1>15. \A i, j \in DOMAIN yielded' :
        i < j /\ yielded'[i] \in Terminal => yielded'[j] \in Terminal
  BY <1>2 DEF OrderInv
<1> QED
  BY <1>2, <1>7, <1>14, <1>15 DEF OrderInv

\* The end or the exception is taken behind every event.
LEMMA EndOrder ==
  ASSUME TypeOK, OrderInv, DeliverEnd \/ DeliverFail
  PROVE  OrderInv'
<1>1. /\ request = "streaming" /\ queue # << >> /\ queue[1] \in Ends /\ queue' = << >>
      /\ request' \in {"ended", "broken"} /\ UNCHANGED <<yielded, producer, reader>>
      /\ wire' \in {wire, Append(Announced(wire), "RUN_ERROR")}
  BY DEF DeliverEnd, DeliverFail, Ends
<1>2. PICK n, origin : Told(n, origin) /\ OnItsWay(n)
  BY <1>1 DEF OrderInv
<1>3. producer.pc = "done" /\ Ends \cap Events = {}
  BY <1>1 DEF OrderInv, Ends, Events, Body, Output, Terminal
<1>4. n \in Nat /\ n = Len(yielded)
  BY <1>1, <1>2, <1>3 DEF OnItsWay, InSlot, InHand, Told, TypeOK
<1>5. Relayed(wire') = Relayed(wire) /\ \A i \in Relayed(wire) : wire'[i] = wire[i]
  <2>1. wire \in Seq(Frames) /\ "RUN_ERROR" \in Frames /\ "RUN_ERROR" \notin RelayedKinds
    BY DEF TypeOK, Frames, Events, Terminal, RelayedKinds, Body, Output
  <2>2. PICK base : base = Announced(wire)
    OBVIOUS
  <2>3. /\ base \in Seq(Frames) /\ Relayed(base) = Relayed(wire)
        /\ \A i \in Relayed(wire) : base[i] = wire[i]
    BY <2>1, <2>2, AnnouncedOrder
  <2>4. CASE wire' = Append(base, "RUN_ERROR")
    <3>1. Relayed(wire') = Relayed(base) /\ \A i \in Relayed(base) : wire'[i] = base[i]
      BY <2>1, <2>3, <2>4, RelayedStand
    <3> QED
      BY <2>3, <3>1
  <2> QED
    BY <1>1, <2>2, <2>4
<1>6. Told(n, origin)'
  BY <1>1, <1>2, <1>5, ToldKept
<1> QED
  BY <1>1, <1>3, <1>4, <1>6 DEF OrderInv

\* A wake sends progress events and a heartbeat.
LEMMA WakeOrder ==
  ASSUME TypeOK, OrderInv, Idle
  PROVE  OrderInv'
<1>1. wire \in Seq(Frames) /\ stages \in Nat /\ reader \in Reader
  BY StreamAssumption DEF TypeOK
<1>2. PICK tail : tail = Repeat("STAGE", stages)
  OBVIOUS
<1>3. /\ tail \in Seq(Frames) /\ \A i \in 1..Len(tail) : tail[i] = "STAGE"
      /\ {"STAGE", "HEARTBEAT"} \subseteq Frames /\ "STAGE" \notin RelayedKinds
      /\ "HEARTBEAT" \notin RelayedKinds
  <2>1. tail \in Seq(Frames) /\ Len(tail) = stages
    BY <1>1, <1>2, RepeatType DEF Frames
  <2>2. \A i \in 1..Len(tail) : tail[i] = "STAGE"
    BY <1>2, <2>1 DEF Repeat
  <2> QED
    BY <2>1, <2>2 DEF Frames, RelayedKinds, Body, Output
<1>4. PICK flushed : flushed = wire \o tail
  OBVIOUS
<1>5. /\ flushed \in Seq(Frames) /\ Relayed(flushed) = Relayed(wire)
      /\ \A i \in Relayed(wire) : flushed[i] = wire[i]
  BY <1>1, <1>3, <1>4, RelayedConcat
<1>6. wire' \in {flushed, Append(flushed, "HEARTBEAT")}
  BY <1>2, <1>4 DEF Idle, Beat
<1>7. Relayed(wire') = Relayed(wire) /\ \A i \in Relayed(wire) : wire'[i] = wire[i]
  <2>1. Relayed(wire') = Relayed(flushed) /\ \A i \in Relayed(flushed) : wire'[i] = flushed[i]
    BY <1>3, <1>5, <1>6, RelayedStand
  <2> QED
    BY <1>5, <2>1
<1>8. UNCHANGED <<yielded, queue>> /\ producer' = producer /\ request' = request
      /\ reader'.terminal = reader.terminal
  BY <1>1 DEF Idle, Reader
<1> QED
  BY <1>7, <1>8, AsideOrder DEF Aside

LEMMA NextOrder == TypeOK /\ OrderInv /\ [Next]_vars => OrderInv'
<1> SUFFICES ASSUME TypeOK, OrderInv, [Next]_vars PROVE OrderInv'
  OBVIOUS
<1>1. CASE \E e \in Events : SourceYield(e)
  BY <1>1, YieldOrder
<1>2. CASE SourceReturn \/ SourceRaise \/ Put
  BY <1>2, PutOrder
<1>3. CASE DeliverEvent \/ DeliverEnd \/ DeliverFail \/ Idle
  BY <1>3, EventOrder, EndOrder, WakeOrder
<1>4. CASE Report
  <2>1. wire' \in {wire, Append(wire, "LATENCY_REPORT")}
    BY <1>4 DEF Report
  <2>2. wire \in Seq(Frames) /\ "LATENCY_REPORT" \in Frames /\ "LATENCY_REPORT" \notin RelayedKinds
    BY DEF TypeOK, Frames, RelayedKinds, Body, Output
  <2>3. Relayed(wire') = Relayed(wire) /\ \A i \in Relayed(wire) : wire'[i] = wire[i]
    BY <2>1, <2>2, RelayedStand
  <2> QED
    BY <1>4, <2>3, AsideOrder DEF Aside, Report
<1>5. CASE Mark \/ Disconnect \/ Close \/ UNCHANGED vars
  <2>1. wire' = wire /\ UNCHANGED <<yielded, queue>>
    BY <1>5 DEF Mark, Disconnect, Close, vars
  <2>2. \/ producer' = producer /\ reader' = reader /\ request' \in {request, "closing"}
        \/ producer'.pc = "done" /\ request' = "gone"
    <3>1. CASE Close
      BY <3>1 DEF Close, TypeOK
    <3> QED
      BY <1>5, <3>1 DEF Mark, Disconnect, vars
  <2>3. Relayed(wire') = Relayed(wire) /\ \A i \in Relayed(wire) : wire'[i] = wire[i]
    BY <2>1
  <2> QED
    BY <2>1, <2>2, <2>3, AsideOrder DEF Aside
<1> QED
  BY <1>1, <1>2, <1>3, <1>4, <1>5 DEF Next

\* The client sees the agent's events in the order and number in which they were
\* yielded, and all of them after a run that ended normally, for every number of
\* events, progress events and wakes, with a latency report and without one.
THEOREM EventsKeepOrder == Spec => []EventsInOrder
<1>1. Init => OrderInv
  BY InitOrder
<1>2. TypeOK /\ OrderInv /\ [Next]_vars => OrderInv'
  BY NextOrder
<1>3. TypeOK /\ OrderInv => EventsInOrder
  <2> SUFFICES ASSUME TypeOK, OrderInv PROVE EventsInOrder
    OBVIOUS
  <2>1. PICK n, origin :
          /\ Told(n, origin)
          /\ request \in {"ended", "done"} => n = Len(yielded)
    BY DEF OrderInv
  <2> DEFINE a == Len(yielded)
  <2>2. a \in Nat /\ n \in 0..a /\ DOMAIN yielded = 1..a
    BY <2>1 DEF TypeOK, Told
  <2> HIDE DEF a
  <2>3. Relayed(yielded) \subseteq 1..a
    BY <2>2 DEF Relayed
  <2>4. ASSUME NEW k \in Relayed(yielded) \ {origin[i] : i \in Relayed(wire)}
        PROVE  /\ \A i \in Relayed(wire) : origin[i] < k
               /\ ~(request = "done" /\ source = "returned")
    <3>1. k \in 1..a /\ ~(k <= n)
      BY <2>1, <2>3, <2>4 DEF Told
    <3>2. \A i \in Relayed(wire) : origin[i] \in 1..a /\ origin[i] <= n
      BY <2>1, <2>3 DEF Told
    <3>3. \A i \in Relayed(wire) : origin[i] < k
      BY <2>2, <3>1, <3>2
    <3>4. request # "done"
      <4>1. n # a
        BY <2>2, <3>1
      <4> QED
        BY <2>1, <4>1 DEF a
    <3> QED
      BY <3>3, <3>4
  <2> QED
    BY <2>1, <2>4 DEF EventsInOrder, Told
<1> QED
  BY <1>1, <1>2, <1>3, TypeCorrect, PTL DEF Spec

-----------------------------------------------------------------------------
(* The catalogue of skills, which shares none of the state of a stream.         *)

-----------------------------------------------------------------------------
(* The inductive invariant *)

\* A version that some cache, thread or document may hold: its id was given out; the
\* document of that id, if it is there still, has the owner and, unless a user's, the
\* slug of the version; and a platform skill whose template parses is there.
Genuine(s) ==
  /\ s \in Skill /\ s.id <= issued
  /\ skills[s.id] # None =>
       /\ skills[s.id].owner = s.owner
       /\ s.owner \notin Users => skills[s.id].slug = s.slug
  /\ s.owner = Platform /\ s.slug \in Parsed => skills[s.id] # None

\* It was in the store at that time or since.
Was(s, time) == Genuine(s) /\ till[s.no] >= time

StoreTypes ==
  /\ skills \in [Ids -> Skill \cup {None}]
  /\ issued \in 0..MaxSkills /\ writes \in 0..MaxWrites
  /\ till \in [Versions -> 0..MaxTime]
  /\ now \in 0..MaxTime

StoredInv ==
  \A i \in Ids : skills[i] # None =>
    skills[i] \in Skill /\ skills[i].id = i /\ i <= issued /\ till[skills[i].no] >= now

CachesInv ==
  /\ DOMAIN cache = Ids /\ DOMAIN lists = Queries
  /\ \A i \in Ids : cache[i] # None =>
       /\ cache[i].at \in 0..now /\ cache[i].skill.id = i
       /\ Was(cache[i].skill, cache[i].at)
  /\ \A k \in Queries : lists[k] # None =>
       /\ lists[k].at \in 0..now
       /\ \A s \in lists[k].skills : Was(s, lists[k].at)
  /\ lists["platform"] # None => \A s \in lists["platform"].skills : s.owner = Platform

\* A card was made in its bucket, of a list that was fresh then.
CardInv ==
  card # None =>
    /\ card.bucket \in 0..MaxTime /\ card.bucket * Ttl <= now
    /\ \A s \in card.skills : s \in Skill /\ till[s.no] >= card.bucket * Ttl - (Ttl - 1)

\* While a thread is busy the clock stands, so what it has read was there just now.
JustRead(o) ==
  /\ o \in Op
  /\ o.do \in {"fill", "reread"} => o.got.id = o.id /\ Was(o.got, now)
  /\ o.do \in {"list", "rebuild"} => \A s \in o.got : Was(s, now)

OpInv == DOMAIN op = Threads /\ \A t \in Threads : op[t] # None => JustRead(op[t])

\* Nothing with a template that parses is purged, and what exists of these or was
\* handled and has not failed is in the store.
SeedInv ==
  seed # None =>
    /\ seed \in Seed /\ seed.purge \cap Parsed = {}
    /\ \A name \in Parsed :
         name \in seed.existing \/ name \notin seed.todo \cup seed.failed
           => Named(Platform, name) # {}

CatalogInv == StoreTypes /\ StoredInv /\ CachesInv /\ CardInv /\ OpInv /\ SeedInv

LEMMA CatalogBounds ==
  /\ Parsed \subseteq Templates /\ Platform \notin Users /\ Legacy \notin Users
  /\ Platform # Legacy /\ None \notin Skill
  /\ MaxSkills \in Nat /\ MaxWrites \in Nat /\ MaxTime \in Nat /\ Ttl \in Nat /\ Ttl > 0
  BY CatalogAssumption, NoneAssumption

LEMMA NamedMeans ==
  ASSUME NEW owner, NEW slug
  PROVE  Named(owner, slug) # {} <=>
           \E i \in Ids : skills[i] # None /\ skills[i].owner = owner /\ skills[i].slug = slug
  BY DEF Named, Stored

LEMMA NamedMeansNext ==
  ASSUME NEW owner, NEW slug
  PROVE  Named(owner, slug)' # {} <=>
           \E i \in Ids : skills'[i] # None /\ skills'[i].owner = owner /\ skills'[i].slug = slug
  BY DEF Named, Stored

-----------------------------------------------------------------------------
(* What a write does to the store *)

\* What every write of the store leaves true of the versions that are held.
Follows ==
  /\ StoreTypes' /\ StoredInv' /\ now' = now
  /\ \A s : Genuine(s) => Genuine(s)'
  /\ \A v \in Versions, time \in Int : time <= now /\ till[v] >= time => till'[v] >= time
  /\ \A name \in Parsed : Named(Platform, name) # {} => Named(Platform, name)' # {}

\* A new version, or none, comes; the times of the others stay.
LEMMA TimesMove ==
  ASSUME StoreTypes, now' = now, NEW i \in Ids, NEW new,
         till' = Superseded(i, new)
  PROVE  /\ till' \in [Versions -> 0..MaxTime]
         /\ \A v \in Versions : till'[v] = now \/ till'[v] = till[v]
         /\ new \in Versions => till'[new] = now
         /\ \A v \in Versions, time \in Int : time <= now /\ till[v] >= time => till'[v] >= time
<1>1. till' \in [Versions -> 0..MaxTime]
  BY CatalogBounds DEF StoreTypes, Superseded
<1>2. \A v \in Versions : till'[v] = now \/ till'[v] = till[v]
  BY DEF Superseded
<1>3. new \in Versions => till'[new] = now
  BY DEF Superseded
<1>4. now \in Int /\ \A v \in Versions : till[v] \in Int
  BY CatalogBounds DEF StoreTypes
<1>5. \A v \in Versions, time \in Int : time <= now /\ till[v] >= time => till'[v] >= time
  BY <1>1, <1>2, <1>4
<1> QED
  BY <1>1, <1>2, <1>3, <1>5

LEMMA AddedFollows ==
  ASSUME StoreTypes, StoredInv, now' = now,
         NEW owner \in Owners, NEW slug \in Slugs \cup Templates, NEW public \in BOOLEAN,
         Added(owner, slug, public)
  PROVE  /\ Follows /\ issued' \in Ids
         /\ skills'[issued'] \in Skill /\ skills'[issued'].owner = owner
         /\ skills'[issued'].slug = slug
<1> DEFINE new == [id |-> issued', owner |-> owner, slug |-> slug, public |-> public, no |-> writes']
<1>1. /\ issued' = issued + 1 /\ issued' \in Ids /\ issued' \in 0..MaxSkills
      /\ writes' \in Versions /\ writes' \in 0..MaxWrites
  BY CatalogBounds DEF Added, StoreTypes, Ids, Versions
<1>2. new \in Skill /\ new # None
  BY <1>1, CatalogBounds DEF Skill
<1>3. skills' = [skills EXCEPT ![issued'] = new] /\ till' = Superseded(issued', writes')
  BY DEF Added
<1>f. new.owner = owner /\ new.slug = slug /\ new.id = issued' /\ new.no = writes'
  OBVIOUS
<1> HIDE DEF new
<1>4. /\ till' \in [Versions -> 0..MaxTime]
      /\ till'[writes'] = now
      /\ \A v \in Versions, time \in Int : time <= now /\ till[v] >= time => till'[v] >= time
  BY <1>1, <1>3, TimesMove
<1>5. /\ skills'[issued'] = new
      /\ \A i \in Ids : i # issued' => skills'[i] = skills[i]
      /\ skills' \in [Ids -> Skill \cup {None}]
  BY <1>1, <1>2, <1>3 DEF StoreTypes
<1>6. StoreTypes'
  BY <1>1, <1>4, <1>5 DEF StoreTypes
<1>7. StoredInv'
  <2> SUFFICES ASSUME NEW i \in Ids, skills'[i] # None
               PROVE  skills'[i] \in Skill /\ skills'[i].id = i /\ i <= issued' /\ till'[skills'[i].no] >= now'
    BY DEF StoredInv
  <2>0. now \in Int /\ issued \in Int
    BY CatalogBounds DEF StoreTypes
  <2>1. CASE i = issued'
    BY <2>0, <2>1, <1>1, <1>2, <1>4, <1>5, <1>f
  <2>2. CASE i # issued'
    <3>1. skills[i] \in Skill /\ skills[i].id = i /\ i <= issued /\ till[skills[i].no] >= now
      BY <2>2, <1>5 DEF StoredInv
    <3>2. skills[i].no \in Versions
      BY <3>1 DEF Skill
    <3>3. till'[skills[i].no] >= now
      BY <3>1, <3>2, <1>4, <2>0
    <3>4. i \in Int
      BY DEF Ids
    <3> QED
      BY <3>1, <3>3, <3>4, <2>0, <2>2, <1>1, <1>5
  <2> QED
    BY <2>1, <2>2
<1>8. \A s : Genuine(s) => Genuine(s)'
  <2> SUFFICES ASSUME NEW s, Genuine(s) PROVE Genuine(s)'
    OBVIOUS
  <2>1. s \in Skill /\ s.id \in Ids /\ s.id <= issued /\ issued \in Int /\ s.id \in Int
    BY CatalogBounds DEF Genuine, Skill, Ids, StoreTypes
  <2>2. s.id # issued' /\ s.id <= issued'
    BY <2>1, <1>1
  <2>3. skills'[s.id] = skills[s.id]
    BY <2>1, <2>2, <1>5
  <2> QED
    BY <2>1, <2>2, <2>3 DEF Genuine
<1>9. \A name \in Parsed : Named(Platform, name) # {} => Named(Platform, name)' # {}
  <2> SUFFICES ASSUME NEW name \in Parsed, Named(Platform, name) # {}
               PROVE  Named(Platform, name)' # {}
    OBVIOUS
  <2>1. PICK i \in Ids : skills[i] # None /\ skills[i].owner = Platform /\ skills[i].slug = name
    BY NamedMeans
  <2>2. i # issued'
    BY <2>1, <1>1, CatalogBounds DEF StoredInv, Ids, StoreTypes
  <2> QED
    BY <2>1, <2>2, <1>5, NamedMeansNext
<1> QED
  BY <1>1, <1>2, <1>4, <1>5, <1>f, <1>6, <1>7, <1>8, <1>9 DEF Follows

\* A change keeps owner and, unless it is a user's, slug.
LEMMA ChangedFollows ==
  ASSUME StoreTypes, StoredInv, now' = now,
         NEW i \in Ids, NEW slug \in Slugs \cup Templates, NEW public \in BOOLEAN,
         Changed(i, slug, public), skills[i].owner \in Users \/ skills[i].slug = slug
  PROVE  /\ Follows /\ skills'[i] \in Skill
         /\ skills'[i].owner = skills[i].owner /\ skills'[i].slug = slug
<1> DEFINE new == [skills[i] EXCEPT !.slug = slug, !.public = public, !.no = writes']
<1>1. /\ issued' = issued /\ writes' \in Versions /\ writes' \in 0..MaxWrites
  BY CatalogBounds DEF Changed, StoreTypes, Versions
<1>2. skills[i] # None /\ skills[i] \in Skill /\ skills[i].id = i /\ i <= issued
  BY DEF Changed, StoredInv
<1>3. new \in Skill
  BY <1>1, <1>2 DEF Skill
<1>4. new # None
  BY <1>3, CatalogBounds
<1>f. new.owner = skills[i].owner /\ new.slug = slug /\ new.id = i /\ new.no = writes'
  BY <1>2 DEF Skill
<1>5. skills' = [skills EXCEPT ![i] = new] /\ till' = Superseded(i, writes')
  <2>1. skills \in [Ids -> Skill \cup {None}]
    BY DEF StoreTypes
  <2> QED
    BY <2>1 DEF Changed
<1> HIDE DEF new
<1>6. /\ till' \in [Versions -> 0..MaxTime]
      /\ till'[writes'] = now
      /\ \A v \in Versions, time \in Int : time <= now /\ till[v] >= time => till'[v] >= time
  BY <1>1, <1>5, TimesMove
<1>7. /\ skills'[i] = new
      /\ \A j \in Ids : j # i => skills'[j] = skills[j]
      /\ skills' \in [Ids -> Skill \cup {None}]
  BY <1>3, <1>5 DEF StoreTypes
<1>8. StoreTypes'
  BY <1>1, <1>6, <1>7 DEF StoreTypes
<1>9. StoredInv'
  <2> SUFFICES ASSUME NEW j \in Ids, skills'[j] # None
               PROVE  skills'[j] \in Skill /\ skills'[j].id = j /\ j <= issued' /\ till'[skills'[j].no] >= now'
    BY DEF StoredInv
  <2>0. now \in Int
    BY CatalogBounds DEF StoreTypes
  <2>1. CASE j = i
    BY <2>0, <2>1, <1>1, <1>2, <1>3, <1>6, <1>7, <1>f
  <2>2. CASE j # i
    <3>1. skills[j] \in Skill /\ skills[j].id = j /\ j <= issued /\ till[skills[j].no] >= now
      BY <2>2, <1>7 DEF StoredInv
    <3>2. skills[j].no \in Versions
      BY <3>1 DEF Skill
    <3>3. till'[skills[j].no] >= now
      BY <3>1, <3>2, <1>6, <2>0
    <3> QED
      BY <3>1, <3>3, <2>2, <1>1, <1>7
  <2> QED
    BY <2>1, <2>2
<1>10. \A s : Genuine(s) => Genuine(s)'
  <2> SUFFICES ASSUME NEW s, Genuine(s) PROVE Genuine(s)'
    OBVIOUS
  <2>1. s \in Skill /\ s.id \in Ids
    BY DEF Genuine, Skill
  <2>2. CASE s.id # i
    BY <2>1, <2>2, <1>1, <1>7 DEF Genuine
  <2>3. CASE s.id = i
    <3>1. skills'[s.id] = new
      BY <2>3, <1>7
    <3>2. skills[i].owner = s.owner /\ (s.owner \notin Users => skills[i].slug = s.slug)
      BY <2>3, <1>2 DEF Genuine
    <3>3. new.owner = s.owner /\ (s.owner \notin Users => new.slug = s.slug)
      BY <3>2, <1>f
    <3> QED
      BY <2>1, <2>3, <3>1, <3>3, <1>1, <1>4 DEF Genuine
  <2> QED
    BY <2>2, <2>3
<1>11. \A name \in Parsed : Named(Platform, name) # {} => Named(Platform, name)' # {}
  <2> SUFFICES ASSUME NEW name \in Parsed, Named(Platform, name) # {}
               PROVE  Named(Platform, name)' # {}
    OBVIOUS
  <2>1. PICK j \in Ids : skills[j] # None /\ skills[j].owner = Platform /\ skills[j].slug = name
    BY NamedMeans
  <2>2. CASE j # i
    BY <2>1, <2>2, <1>7, NamedMeansNext
  <2>3. CASE j = i
    <3>1. new.owner = Platform /\ new.slug = name
      BY <2>1, <2>3, <1>f, CatalogBounds
    <3> QED
      BY <3>1, <1>4, <1>7, NamedMeansNext
  <2> QED
    BY <2>2, <2>3
<1> QED
  BY <1>3, <1>6, <1>7, <1>f, <1>8, <1>9, <1>10, <1>11 DEF Follows

\* A removal, of anything but a platform skill whose template parses.
LEMMA RemovedFollows ==
  ASSUME StoreTypes, StoredInv, now' = now, NEW i \in Ids, Removed(i),
         skills[i] # None => skills[i].owner # Platform \/ skills[i].slug \notin Parsed
  PROVE  Follows /\ skills'[i] = None
<1>1. /\ skills'[i] = None
      /\ \A j \in Ids : j # i => skills'[j] = skills[j]
      /\ skills' \in [Ids -> Skill \cup {None}] /\ issued' = issued /\ writes' = writes
  BY DEF Removed, StoreTypes
<1>2. /\ till' \in [Versions -> 0..MaxTime]
      /\ \A v \in Versions, time \in Int : time <= now /\ till[v] >= time => till'[v] >= time
  BY TimesMove DEF Removed
<1>3. StoreTypes'
  BY <1>1, <1>2 DEF StoreTypes
<1>4. StoredInv'
  <2> SUFFICES ASSUME NEW j \in Ids, skills'[j] # None
               PROVE  skills'[j] \in Skill /\ skills'[j].id = j /\ j <= issued' /\ till'[skills'[j].no] >= now'
    BY DEF StoredInv
  <2>0. now \in Int /\ now <= now
    BY CatalogBounds DEF StoreTypes
  <2>1. skills'[j] = skills[j]
    BY <1>1
  <2>2. skills[j] \in Skill /\ skills[j].id = j /\ j <= issued /\ till[skills[j].no] >= now
    BY <2>1 DEF StoredInv
  <2>3. skills[j].no \in Versions
    BY <2>2 DEF Skill
  <2>4. till'[skills[j].no] >= now
    BY <2>0, <2>2, <2>3, <1>2
  <2> QED
    BY <2>1, <2>2, <2>4, <1>1
<1>5. \A s : Genuine(s) => Genuine(s)'
  <2> SUFFICES ASSUME NEW s, Genuine(s) PROVE Genuine(s)'
    OBVIOUS
  <2>1. s \in Skill /\ s.id \in Ids
    BY DEF Genuine, Skill
  <2>2. CASE s.id # i
    BY <2>1, <2>2, <1>1 DEF Genuine
  <2>3. CASE s.id = i
    <3>1. ~(s.owner = Platform /\ s.slug \in Parsed)
      BY <2>3, CatalogBounds DEF Genuine
    <3> QED
      BY <2>1, <2>3, <3>1, <1>1 DEF Genuine
  <2> QED
    BY <2>2, <2>3
<1>6. \A name \in Parsed : Named(Platform, name) # {} => Named(Platform, name)' # {}
  BY <1>1, NamedMeans, NamedMeansNext
<1> QED
  BY <1>1, <1>2, <1>3, <1>4, <1>5, <1>6 DEF Follows

\* Where nothing is written, all stays.
LEMMA UnchangedFollows ==
  ASSUME StoreTypes, StoredInv, now' = now, UNCHANGED store
  PROVE  Follows
<1>1. skills' = skills /\ issued' = issued /\ writes' = writes /\ till' = till
  BY DEF store
<1>2. StoreTypes'
  BY <1>1 DEF StoreTypes
<1>3. StoredInv'
  BY <1>1 DEF StoredInv
<1>4. \A s : Genuine(s) => Genuine(s)'
  BY <1>1 DEF Genuine
<1>5. \A v \in Versions, time \in Int : time <= now /\ till[v] >= time => till'[v] >= time
  BY <1>1
<1>6. \A name \in Parsed : Named(Platform, name) # {} => Named(Platform, name)' # {}
  BY <1>1, NamedMeans, NamedMeansNext
<1> QED
  BY <1>2, <1>3, <1>4, <1>5, <1>6 DEF Follows

LEMMA WasStays ==
  ASSUME Follows
  PROVE  \A s, time : time \in Int /\ time <= now /\ Was(s, time) => Was(s, time)'
<1> SUFFICES ASSUME NEW s, NEW time \in Int, time <= now, Was(s, time) PROVE Was(s, time)'
  OBVIOUS
<1>1. s.no \in Versions /\ Genuine(s) /\ till[s.no] >= time
  BY DEF Was, Genuine, Skill
<1>2. Genuine(s)' /\ till'[s.no] >= time
  BY <1>1 DEF Follows
<1> QED
  BY <1>2 DEF Was

LEMMA NowWas ==
  ASSUME StoreTypes, Follows
  PROVE  \A s : Was(s, now) => Was(s, now)'
<1> SUFFICES ASSUME NEW s, Was(s, now) PROVE Was(s, now)'
  OBVIOUS
<1>1. now \in Int /\ now' = now
  BY CatalogBounds DEF StoreTypes, Follows
<1>2. PICK time : time = now
  OBVIOUS
<1>3. Was(s, time)'
  BY <1>1, <1>2, WasStays
<1> QED
  BY <1>1, <1>2, <1>3 DEF Was, Genuine

\* What the store has was there just now.
LEMMA StoredWas ==
  ASSUME StoredInv
  PROVE  \A s \in Stored : Was(s, now)
<1> SUFFICES ASSUME NEW i \in Ids, skills[i] # None PROVE Was(skills[i], now)
  BY DEF Stored
<1>1. skills[i] \in Skill /\ skills[i].id = i /\ i <= issued /\ till[skills[i].no] >= now
  BY DEF StoredInv
<1> QED
  BY <1>1 DEF Was, Genuine

LEMMA StoredWasNext ==
  ASSUME Follows
  PROVE  \A s, i : i \in Ids /\ s = skills'[i] /\ s # None => s.id = i /\ Was(s, now)'
<1> SUFFICES ASSUME NEW s, NEW i \in Ids, s = skills'[i], s # None PROVE s.id = i /\ Was(s, now)'
  OBVIOUS
<1>1. s \in Skill /\ s.id = i /\ i <= issued' /\ till'[s.no] >= now'
  BY DEF Follows, StoredInv
<1>2. Genuine(s)'
  BY <1>1 DEF Genuine
<1> QED
  BY <1>1, <1>2 DEF Was

LEMMA AnswersWere ==
  ASSUME StoredInv, NEW key \in Queries
  PROVE  \A s \in Answer(key) : Was(s, now) /\ (key = "platform" => s.owner = Platform)
  BY StoredWas DEF Answer, Queries

LEMMA PlatformListed ==
  ASSUME StoredInv, CachesInv
  PROVE  \A s \in PlatformList : Genuine(s) /\ s.owner = Platform
<1>1. CASE Fresh(lists["platform"])
  BY <1>1 DEF PlatformList, CachesInv, Fresh, Queries, Was
<1>2. CASE ~Fresh(lists["platform"])
  BY <1>2, AnswersWere DEF PlatformList, Queries, Was
<1> QED
  BY <1>1, <1>2

-----------------------------------------------------------------------------
(* What a step does to the caches *)

CacheFollows ==
  /\ DOMAIN cache' = Ids
  /\ \A i \in Ids : cache'[i] = cache[i] \/ cache'[i] = None
       \/ \E s : s.id = i /\ Was(s, now)' /\ cache'[i] = [skill |-> s, at |-> now]

ListsFollow ==
  /\ DOMAIN lists' = Queries
  /\ \A k \in Queries : lists'[k] = lists[k] \/ lists'[k] = None
       \/ \E found : /\ \A s \in found : Was(s, now)' /\ (k = "platform" => s.owner = Platform)
                     /\ lists'[k] = [skills |-> found, at |-> now]

CardFollows ==
  card' = card \/ card' = None
    \/ \E found : /\ \A s \in found : s \in Skill /\ till'[s.no] >= now - (Ttl - 1)
                  /\ card' = [skills |-> found, bucket |-> Bucket(now)]

OpFollows ==
  /\ DOMAIN op' = Threads
  /\ \A t \in Threads : op'[t] = op[t] \/ op'[t] = None \/ \E o : op'[t] = o /\ JustRead(o)'

LEMMA CachesKept ==
  ASSUME StoreTypes, Follows, CachesInv, CacheFollows, ListsFollow
  PROVE  CachesInv'
<1>0. now \in Nat /\ now' = now
  BY CatalogBounds DEF StoreTypes, Follows
<1>w. \A s, time : time \in Int /\ time <= now /\ Was(s, time) => Was(s, time)'
  BY WasStays
<1>1. ASSUME NEW i \in Ids, cache'[i] # None
      PROVE  cache'[i].at \in 0..now' /\ cache'[i].skill.id = i /\ Was(cache[i].skill, cache[i].at)'
  <2>1. CASE cache'[i] = cache[i]
    <3>1. PICK s, time : s = cache[i].skill /\ time = cache[i].at
      OBVIOUS
    <3>2. time \in 0..now /\ s.id = i /\ Was(s, time)
      BY <1>1, <2>1, <3>1 DEF CachesInv
    <3>3. Was(s, time)'
      BY <1>0, <1>w, <3>2
    <3> QED
      BY <1>0, <2>1, <3>1, <3>2, <3>3 DEF Was, Genuine
  <2>2. CASE \E s : s.id = i /\ Was(s, now)' /\ cache'[i] = [skill |-> s, at |-> now]
    <3>1. PICK s : s.id = i /\ Was(s, now)' /\ cache'[i] = [skill |-> s, at |-> now]
      BY <2>2
    <3>2. cache'[i].skill = s /\ cache'[i].at = now
      BY <3>1
    <3> QED
      BY <1>0, <3>1, <3>2 DEF Was, Genuine
  <2> QED
    BY <1>1, <2>1, <2>2 DEF CacheFollows
<1>2. ASSUME NEW k \in Queries, lists'[k] # None
      PROVE  /\ lists'[k].at \in 0..now'
             /\ \A s \in lists'[k].skills : Was(s, lists[k].at)' /\ (k = "platform" => s.owner = Platform)
  <2>1. CASE lists'[k] = lists[k]
    <3>1. PICK found, time : found = lists[k].skills /\ time = lists[k].at
      OBVIOUS
    <3>2. time \in 0..now /\ \A s \in found : Was(s, time) /\ (k = "platform" => s.owner = Platform)
      BY <1>2, <2>1, <3>1 DEF CachesInv
    <3>3. \A s \in found : Was(s, time)'
      BY <1>0, <1>w, <3>2
    <3> QED
      BY <1>0, <2>1, <3>1, <3>2, <3>3 DEF Was, Genuine
  <2>2. CASE \E found : /\ \A s \in found : Was(s, now)' /\ (k = "platform" => s.owner = Platform)
                        /\ lists'[k] = [skills |-> found, at |-> now]
    <3>1. PICK found : /\ \A s \in found : Was(s, now)' /\ (k = "platform" => s.owner = Platform)
                       /\ lists'[k] = [skills |-> found, at |-> now]
      BY <2>2
    <3>2. lists'[k].skills = found /\ lists'[k].at = now
      BY <3>1
    <3> QED
      BY <1>0, <3>1, <3>2 DEF Was, Genuine
  <2> QED
    BY <1>2, <2>1, <2>2 DEF ListsFollow
<1>3. DOMAIN cache' = Ids /\ DOMAIN lists' = Queries
  BY DEF CacheFollows, ListsFollow
<1>4. "platform" \in Queries
  BY DEF Queries
<1> QED
  BY <1>1, <1>2, <1>3, <1>4 DEF CachesInv

LEMMA OpsKept ==
  ASSUME StoreTypes, Follows, OpInv, OpFollows
  PROVE  OpInv'
<1>s. \A s : Was(s, now) => Was(s, now)'
  BY NowWas
<1>1. \A o : JustRead(o) => JustRead(o)'
  BY <1>s DEF JustRead
<1>2. ASSUME NEW t \in Threads, op'[t] # None
      PROVE  \E o : o = op'[t] /\ JustRead(o)'
  <2>1. CASE op'[t] = op[t]
    <3>1. PICK o : o = op[t]
      OBVIOUS
    <3>2. JustRead(o)
      BY <1>2, <2>1, <3>1 DEF OpInv
    <3> QED
      BY <2>1, <3>1, <3>2, <1>1
  <2> QED
    BY <1>2, <2>1 DEF OpFollows
<1>3. DOMAIN op' = Threads
  BY DEF OpFollows
<1>4. \A t \in Threads : op'[t] # None => JustRead(op[t])'
  <2> SUFFICES ASSUME NEW t \in Threads, op'[t] # None PROVE JustRead(op[t])'
    OBVIOUS
  <2>1. PICK o : o = op'[t] /\ JustRead(o)'
    BY <1>2
  <2> QED
    BY <2>1 DEF JustRead, Was, Genuine
<1> QED
  BY <1>3, <1>4 DEF OpInv

LEMMA BucketSpan ==
  ASSUME NEW time \in Nat
  PROVE  /\ Bucket(time) \in Nat /\ Bucket(time) <= time
         /\ Bucket(time) * Ttl \in Nat /\ Bucket(time) * Ttl <= time
         /\ time <= Bucket(time) * Ttl + (Ttl - 1)
<1>1. Ttl \in Nat /\ Ttl > 0
  BY CatalogBounds
<1>2. \A a, b \in Nat : b > 0 => /\ a \div b \in Nat /\ a \div b <= a
                                 /\ (a \div b) * b \in Nat /\ (a \div b) * b <= a
                                 /\ a <= (a \div b) * b + (b - 1)
  BY Z3
<1> QED
  BY <1>1, <1>2 DEF Bucket

LEMMA CardKept ==
  ASSUME StoreTypes, Follows, CardInv, CardFollows
  PROVE  CardInv'
<1>0. now \in Nat /\ now' = now /\ Ttl \in Nat /\ Ttl > 0 /\ now \in 0..MaxTime /\ MaxTime \in Nat
  BY CatalogBounds DEF StoreTypes, Follows
<1>1. CASE card' = card
  <2> SUFFICES ASSUME card # None PROVE CardInv'
    BY <1>1 DEF CardInv
  <2>1. PICK found, bucket : found = card.skills /\ bucket = card.bucket
    OBVIOUS
  <2>2. PICK span : span = bucket * Ttl
    OBVIOUS
  <2>3. /\ bucket \in 0..MaxTime /\ span <= now
        /\ \A s \in found : s \in Skill /\ till[s.no] >= span - (Ttl - 1)
    BY <2>1, <2>2 DEF CardInv
  <2>4. span \in Int
    BY <2>2, <2>3, <1>0
  <2>5. \A s \in found : till'[s.no] >= span - (Ttl - 1)
    <3> SUFFICES ASSUME NEW s \in found PROVE till'[s.no] >= span - (Ttl - 1)
      OBVIOUS
    <3>1. s.no \in Versions /\ till[s.no] >= span - (Ttl - 1)
      BY <2>3 DEF Skill
    <3>2. span - (Ttl - 1) \in Int /\ span - (Ttl - 1) <= now
      BY <2>3, <2>4, <1>0
    <3> QED
      BY <3>1, <3>2 DEF Follows
  <2> QED
    BY <1>0, <1>1, <2>1, <2>2, <2>3, <2>5 DEF CardInv
<1>2. CASE card' = None
  BY <1>2 DEF CardInv
<1>3. CASE \E found : /\ \A s \in found : s \in Skill /\ till'[s.no] >= now - (Ttl - 1)
                      /\ card' = [skills |-> found, bucket |-> Bucket(now)]
  <2>1. PICK found : /\ \A s \in found : s \in Skill /\ till'[s.no] >= now - (Ttl - 1)
                     /\ card' = [skills |-> found, bucket |-> Bucket(now)]
    BY <1>3
  <2>2. PICK bucket, span : bucket = Bucket(now) /\ span = bucket * Ttl
    OBVIOUS
  <2>3. bucket \in 0..MaxTime /\ span \in Int /\ span <= now
    BY <2>2, <1>0, BucketSpan
  <2>4. \A s \in found : till'[s.no] >= span - (Ttl - 1)
    <3> SUFFICES ASSUME NEW s \in found PROVE till'[s.no] >= span - (Ttl - 1)
      OBVIOUS
    <3>1. s.no \in Versions /\ till'[s.no] >= now - (Ttl - 1)
      BY <2>1 DEF Skill
    <3>2. till'[s.no] \in Int
      BY <3>1, CatalogBounds DEF Follows, StoreTypes
    <3> QED
      BY <3>1, <3>2, <2>3, <1>0
  <2>5. card'.skills = found /\ card'.bucket = bucket
    BY <2>1, <2>2
  <2> QED
    BY <1>0, <2>1, <2>2, <2>3, <2>4, <2>5 DEF CardInv
<1> QED
  BY <1>1, <1>2, <1>3 DEF CardFollows

LEMMA SeedKept ==
  ASSUME Follows, SeedInv, seed' = seed
  PROVE  SeedInv'
<1> SUFFICES ASSUME seed # None PROVE SeedInv'
  BY DEF SeedInv
<1>1. \A name \in Parsed : Named(Platform, name) # {} => Named(Platform, name)' # {}
  BY DEF Follows
<1> QED
  BY <1>1 DEF SeedInv

Moves == Follows /\ CacheFollows /\ ListsFollow /\ CardFollows /\ OpFollows /\ SeedInv'

LEMMA MovesKeep ==
  ASSUME CatalogInv, Moves
  PROVE  CatalogInv'
<1>1. StoreTypes' /\ StoredInv'
  BY DEF Moves, Follows
<1>2. CachesInv'
  BY CachesKept DEF CatalogInv, Moves
<1>3. CardInv'
  BY CardKept DEF CatalogInv, Moves
<1>4. OpInv'
  BY OpsKept DEF CatalogInv, Moves
<1> QED
  BY <1>1, <1>2, <1>3, <1>4 DEF CatalogInv, Moves

-----------------------------------------------------------------------------
(* The ways a cache is filled and emptied *)

LEMMA Unmoved ==
  ASSUME CachesInv, OpInv
  PROVE  /\ cache' = cache => CacheFollows
         /\ lists' = lists \/ lists' = NoLists => ListsFollow
         /\ card' = card \/ card' = None => CardFollows
         /\ op' = op => OpFollows
  BY DEF CachesInv, OpInv, CacheFollows, ListsFollow, CardFollows, OpFollows, NoLists

LEMMA WarmedFollows ==
  ASSUME CachesInv, NEW found, \A s \in found : Was(s, now)',
         NEW key \in Queries, key = "platform" => \A s \in found : s.owner = Platform
  PROVE  /\ cache' = Warmed(found) => CacheFollows
         /\ lists' = Listed(key, found) => ListsFollow
<1>1. ASSUME cache' = Warmed(found) PROVE CacheFollows
  <2>1. DOMAIN cache' = Ids
    BY <1>1 DEF Warmed
  <2>2. ASSUME NEW i \in Ids, cache'[i] # cache[i]
        PROVE  \E s : s.id = i /\ Was(s, now)' /\ cache'[i] = [skill |-> s, at |-> now]
    <3>1. \E s \in found : s.id = i
      BY <1>1, <2>2 DEF Warmed
    <3>2. PICK s : s = CHOOSE x \in found : x.id = i
      OBVIOUS
    <3>3. s \in found /\ s.id = i
      BY <3>1, <3>2
    <3>4. cache'[i] = [skill |-> s, at |-> now]
      BY <1>1, <3>1, <3>2 DEF Warmed, Cached
    <3> QED
      BY <3>3, <3>4
  <2> QED
    BY <2>1, <2>2 DEF CacheFollows
<1>2. ASSUME lists' = Listed(key, found) PROVE ListsFollow
  BY <1>2 DEF Listed, ListsFollow, CachesInv
<1> QED
  BY <1>1, <1>2

LEMMA FilledFollows ==
  ASSUME CachesInv, NEW i \in Ids, NEW s, s.id = i, Was(s, now)',
         cache' = [cache EXCEPT ![i] = Cached(s)]
  PROVE  CacheFollows
  BY DEF CachesInv, CacheFollows, Cached

LEMMA ClearedFollows ==
  ASSUME CachesInv, NEW i \in Ids, cache' = [cache EXCEPT ![i] = None]
  PROVE  CacheFollows
  BY DEF CachesInv, CacheFollows

LEMMA BeginFollows ==
  ASSUME OpInv, NEW t \in Threads, NEW o, o = None \/ JustRead(o)', op' = [op EXCEPT ![t] = o]
  PROVE  OpFollows
  BY DEF OpInv, OpFollows

-----------------------------------------------------------------------------
(* Reading and writing, action by action *)

LEMMA Unlisted ==
  ASSUME CatalogInv, now' = now, UNCHANGED store
  PROVE  Follows
  BY UnchangedFollows DEF CatalogInv

LEMMA GetMoves ==
  ASSUME CatalogInv, NEW t \in Threads, NEW i \in Ids, Get(t, i)
  PROVE  Moves
<1>1. Follows /\ CachesInv /\ OpInv /\ SeedInv'
  BY Unlisted, SeedKept DEF Get, CatalogInv
<1>2. CacheFollows /\ ListsFollow /\ CardFollows
  BY <1>1, Unmoved DEF Get, caches
<1>3. PICK s : s = skills[i]
  OBVIOUS
<1>4. Was(s, now) /\ s \in Skill /\ s.id = i
  <2>1. s \in Stored /\ StoredInv /\ s # None
    BY <1>3 DEF Stored, Get, CatalogInv
  <2> QED
    BY <2>1, <1>3, StoredWas DEF StoredInv
<1>5. Was(s, now)'
  BY <1>1, <1>4, NowWas DEF CatalogInv
<1>6. PICK o : o = [do |-> "fill", got |-> s, id |-> i]
  OBVIOUS
<1>7. JustRead(o)'
  BY <1>4, <1>5, <1>6 DEF JustRead, Op
<1>8. OpFollows
  BY <1>1, <1>3, <1>6, <1>7, BeginFollows DEF Get, Begin
<1> QED
  BY <1>1, <1>2, <1>8 DEF Moves

LEMMA FillMoves ==
  ASSUME CatalogInv, NEW t \in Threads, Fill(t)
  PROVE  Moves
<1>1. Follows /\ CachesInv /\ OpInv /\ SeedInv'
  BY Unlisted, SeedKept DEF Fill, CatalogInv
<1>2. ListsFollow /\ CardFollows
  BY <1>1, Unmoved DEF Fill
<1>3. PICK s, i : s = op[t].got /\ i = op[t].id
  OBVIOUS
<1>4. JustRead(op[t]) /\ op[t].do = "fill"
  BY <1>1 DEF Fill, AtRest, OpInv
<1>5. i \in Ids /\ s.id = i /\ Was(s, now)
  BY <1>3, <1>4 DEF JustRead, Op
<1>6. Was(s, now)'
  BY <1>1, <1>5, NowWas DEF CatalogInv
<1>7. CacheFollows
  BY <1>1, <1>3, <1>5, <1>6, FilledFollows DEF Fill
<1>8. OpFollows
  BY <1>1, BeginFollows DEF Fill, End
<1> QED
  BY <1>1, <1>2, <1>7, <1>8 DEF Moves

\* What a query answers may be held, and warm the caches.
LEMMA AnswerHeld ==
  ASSUME CatalogInv, Follows, NEW key \in Queries
  PROVE  \A s \in Answer(key) : s \in Skill /\ Was(s, now)' /\ (key = "platform" => s.owner = Platform)
<1>1. \A s \in Answer(key) : Was(s, now) /\ (key = "platform" => s.owner = Platform)
  BY AnswersWere DEF CatalogInv
<1> QED
  BY <1>1, NowWas DEF CatalogInv, Was, Genuine

LEMMA ListMoves ==
  ASSUME CatalogInv, NEW t \in Threads, List(t)
  PROVE  Moves
<1>1. Follows /\ CachesInv /\ OpInv /\ SeedInv'
  BY Unlisted, SeedKept DEF List, CatalogInv
<1>2. CacheFollows /\ ListsFollow /\ CardFollows
  BY <1>1, Unmoved DEF List, AfterHit
<1>3. CASE Fresh(lists["market"])
  BY <1>1, <1>2, <1>3, Unmoved DEF List, Moves
<1>4. CASE ~Fresh(lists["market"])
  <2>1. PICK found, o : found = Answer("market") /\ o = [do |-> "list", got |-> found]
    OBVIOUS
  <2>2. \A s \in found : s \in Skill /\ Was(s, now)'
    BY <1>1, <2>1, AnswerHeld DEF Queries
  <2>3. JustRead(o)'
    BY <2>1, <2>2 DEF JustRead, Op
  <2>4. OpFollows
    BY <1>1, <1>4, <2>1, <2>3, BeginFollows DEF List, Begin
  <2> QED
    BY <1>1, <1>2, <2>4 DEF Moves
<1> QED
  BY <1>3, <1>4

LEMMA FillListMoves ==
  ASSUME CatalogInv, NEW t \in Threads, FillList(t)
  PROVE  Moves
<1>1. Follows /\ CachesInv /\ OpInv /\ SeedInv'
  BY Unlisted, SeedKept DEF FillList, CatalogInv
<1>2. CardFollows
  BY <1>1, Unmoved DEF FillList
<1>3. PICK found : found = op[t].got
  OBVIOUS
<1>4. JustRead(op[t]) /\ op[t].do = "list"
  BY <1>1 DEF FillList, AtRest, OpInv
<1>5. \A s \in found : Was(s, now)'
  BY <1>1, <1>3, <1>4, NowWas DEF JustRead, CatalogInv
<1>6. CacheFollows /\ ListsFollow
  BY <1>1, <1>3, <1>5, WarmedFollows DEF FillList, Queries
<1>7. OpFollows
  BY <1>1, BeginFollows DEF FillList, End
<1> QED
  BY <1>1, <1>2, <1>6, <1>7 DEF Moves

LEMMA CardMoves ==
  ASSUME CatalogInv, Card
  PROVE  Moves
<1>1. Follows /\ CachesInv /\ OpInv /\ SeedInv'
  BY Unlisted, SeedKept DEF Card, CatalogInv
<1>2. OpFollows
  BY <1>1, Unmoved DEF Card
<1>0. now \in Nat /\ Ttl \in Nat /\ Ttl > 0 /\ now' = now
  BY CatalogBounds DEF CatalogInv, StoreTypes, Card
<1>3. CASE /\ Fresh(lists["market"])
           /\ card' = [skills |-> lists["market"].skills, bucket |-> Bucket(now)]
           /\ UNCHANGED <<cache, lists>>
  <2>1. PICK found, at : found = lists["market"].skills /\ at = lists["market"].at
    OBVIOUS
  <2>2. at \in 0..now /\ now - at < Ttl /\ \A s \in found : Was(s, at)
    BY <1>1, <1>3, <2>1 DEF CachesInv, Fresh, Queries
  <2>3. \A s \in found : s \in Skill /\ till'[s.no] >= now - (Ttl - 1)
    <3> SUFFICES ASSUME NEW s \in found PROVE s \in Skill /\ till'[s.no] >= now - (Ttl - 1)
      OBVIOUS
    <3>1. s \in Skill /\ s.no \in Versions /\ till[s.no] >= at
      BY <2>2 DEF Was, Genuine, Skill
    <3>2. till'[s.no] >= at /\ till'[s.no] \in Int
      BY <1>0, <1>1, <2>2, <3>1, CatalogBounds DEF Follows, StoreTypes
    <3> QED
      BY <1>0, <2>2, <3>1, <3>2
  <2>4. CardFollows
    BY <1>3, <2>1, <2>3 DEF CardFollows
  <2> QED
    BY <1>1, <1>2, <1>3, <2>4, Unmoved DEF Moves
<1>4. CASE /\ card' = [skills |-> Answer("market"), bucket |-> Bucket(now)]
           /\ cache' = Warmed(Answer("market")) /\ lists' = Listed("market", Answer("market"))
  <2>1. PICK found : found = Answer("market")
    OBVIOUS
  <2>2. \A s \in found : s \in Skill /\ Was(s, now)'
    BY <1>1, <2>1, AnswerHeld DEF Queries
  <2>3. CacheFollows /\ ListsFollow
    BY <1>1, <1>4, <2>1, <2>2, WarmedFollows DEF Queries
  <2>4. \A s \in found : s \in Skill /\ till'[s.no] >= now - (Ttl - 1)
    <3> SUFFICES ASSUME NEW s \in found PROVE s \in Skill /\ till'[s.no] >= now - (Ttl - 1)
      OBVIOUS
    <3>1. s \in Skill /\ s.no \in Versions /\ till'[s.no] >= now
      BY <1>0, <2>2 DEF Was, Genuine, Skill
    <3>2. till'[s.no] \in Int
      BY <1>1, <3>1, CatalogBounds DEF Follows, StoreTypes
    <3> QED
      BY <1>0, <3>1, <3>2
  <2>5. CardFollows
    BY <1>4, <2>1, <2>4 DEF CardFollows
  <2> QED
    BY <1>1, <1>2, <2>3, <2>5 DEF Moves
<1>5. CASE card' = [skills |-> {}, bucket |-> Bucket(now)] /\ UNCHANGED <<cache, lists>>
  <2>1. CardFollows
    BY <1>5 DEF CardFollows
  <2> QED
    BY <1>1, <1>2, <1>5, <2>1, Unmoved DEF Moves
<1> QED
  BY <1>3, <1>4, <1>5 DEF Card

LEMMA CreateMoves ==
  ASSUME CatalogInv, NEW t \in Threads, NEW u \in Users, NEW public \in BOOLEAN,
         Create(t, u, public)
  PROVE  Moves
<1>1. Follows /\ CachesInv /\ OpInv /\ SeedInv'
  BY Unlisted, SeedKept DEF Create, CatalogInv
<1>2. CacheFollows /\ ListsFollow /\ CardFollows
  BY <1>1, Unmoved DEF Create, caches
<1>3. PICK slug : slug = UniqueSlug(u, "slug")
  OBVIOUS
<1>4. slug \in Slugs
  BY <1>3 DEF UniqueSlug, Slugs
<1>5. PICK o : o = [do |-> "create", owner |-> u, slug |-> slug, public |-> public]
  OBVIOUS
<1>6. JustRead(o)'
  BY <1>4, <1>5 DEF JustRead, Op
<1>7. OpFollows
  BY <1>1, <1>3, <1>5, <1>6, BeginFollows DEF Create, Begin
<1> QED
  BY <1>1, <1>2, <1>7 DEF Moves

LEMMA CreateWriteMoves ==
  ASSUME CatalogInv, NEW t \in Threads, CreateWrite(t)
  PROVE  Moves
<1>0. CachesInv /\ OpInv /\ StoreTypes /\ StoredInv /\ SeedInv
  BY DEF CatalogInv
<1>1. PICK owner, slug, public : owner = op[t].owner /\ slug = op[t].slug /\ public = op[t].public
  OBVIOUS
<1>2. JustRead(op[t]) /\ op[t].do = "create"
  BY <1>0 DEF CreateWrite, AtRest, OpInv
<1>3. owner \in Users /\ slug \in Slugs /\ public \in BOOLEAN
  BY <1>1, <1>2 DEF JustRead, Op
<1>4. owner \in Owners /\ slug \in Slugs \cup Templates
  BY <1>3 DEF Owners
<1>5. Added(owner, slug, public) /\ now' = now
  BY <1>1 DEF CreateWrite
<1>6. Follows /\ issued' \in Ids /\ skills'[issued'] \in Skill
  BY <1>0, <1>3, <1>4, <1>5, AddedFollows
<1>7. PICK s, i : s = skills'[issued'] /\ i = issued'
  OBVIOUS
<1>8. s.id = i /\ Was(s, now)' /\ i \in Ids
  BY <1>6, <1>7, CatalogBounds, StoredWasNext
<1>9. CacheFollows
  BY <1>0, <1>7, <1>8, FilledFollows DEF CreateWrite
<1>10. ListsFollow /\ CardFollows
  BY <1>0, Unmoved DEF CreateWrite
<1>11. PICK o : o = [do |-> "written", id |-> i, reread |-> FALSE]
  OBVIOUS
<1>12. JustRead(o)'
  BY <1>8, <1>11 DEF JustRead, Op
<1>13. OpFollows
  BY <1>0, <1>7, <1>11, <1>12, BeginFollows DEF CreateWrite, Begin
<1>14. SeedInv'
  BY <1>0, <1>6, SeedKept DEF CreateWrite
<1> QED
  BY <1>6, <1>9, <1>10, <1>13, <1>14 DEF Moves

\* Who may write a skill owns the document of its id, if there is one.
LEMMA WritersOwn ==
  ASSUME CatalogInv, NEW u \in Users, NEW i \in Ids, MayWrite(u, i)
  PROVE  skills[i] # None => skills[i].owner = u
<1>1. cache[i] # None /\ cache[i].skill.owner = u
  BY DEF MayWrite, Served, Fresh
<1>2. cache[i].skill.id = i /\ Was(cache[i].skill, cache[i].at)
  BY <1>1 DEF CatalogInv, CachesInv
<1> QED
  BY <1>1, <1>2 DEF Was, Genuine

LEMMA UpdateMoves ==
  ASSUME CatalogInv, NEW t \in Threads, NEW u \in Users, NEW i \in Ids,
         NEW slug \in Slugs, NEW public \in BOOLEAN, Update(t, u, i, slug, public)
  PROVE  Moves
<1>0. CachesInv /\ OpInv /\ StoreTypes /\ StoredInv /\ SeedInv
  BY DEF CatalogInv
<1>1. Changed(i, slug, public) /\ now' = now /\ skills[i].owner \in Users
  BY WritersOwn DEF Update, Changed
<1>2. Follows
  BY <1>0, <1>1, ChangedFollows
<1>3. CacheFollows /\ ListsFollow /\ CardFollows
  BY <1>0, Unmoved DEF Update, caches
<1>4. PICK o : o = [do |-> "written", id |-> i, reread |-> TRUE]
  OBVIOUS
<1>5. JustRead(o)'
  BY <1>4 DEF JustRead, Op
<1>6. OpFollows
  BY <1>0, <1>4, <1>5, BeginFollows DEF Update, Begin
<1>7. SeedInv'
  BY <1>0, <1>2, SeedKept DEF Update
<1> QED
  BY <1>2, <1>3, <1>6, <1>7 DEF Moves

LEMMA DeleteMoves ==
  ASSUME CatalogInv, NEW t \in Threads, NEW u \in Users, NEW i \in Ids, Delete(t, u, i)
  PROVE  Moves
<1>0. CachesInv /\ OpInv /\ StoreTypes /\ StoredInv /\ SeedInv
  BY DEF CatalogInv
<1>1. Removed(i) /\ now' = now /\ (skills[i] # None => skills[i].owner # Platform)
  BY WritersOwn, CatalogBounds DEF Delete
<1>2. Follows
  BY <1>0, <1>1, RemovedFollows
<1>3. CacheFollows /\ ListsFollow /\ CardFollows
  BY <1>0, Unmoved DEF Delete, caches
<1>4. PICK o : o = [do |-> "written", id |-> i, reread |-> FALSE]
  OBVIOUS
<1>5. JustRead(o)'
  BY <1>4 DEF JustRead, Op
<1>6. OpFollows
  BY <1>0, <1>4, <1>5, BeginFollows DEF Delete, Begin
<1>7. SeedInv'
  BY <1>0, <1>2, SeedKept DEF Delete
<1> QED
  BY <1>2, <1>3, <1>6, <1>7 DEF Moves

LEMMA InvalidateMoves ==
  ASSUME CatalogInv, NEW t \in Threads, Invalidate(t)
  PROVE  Moves
<1>1. Follows /\ CachesInv /\ OpInv /\ SeedInv'
  BY Unlisted, SeedKept DEF Invalidate, CatalogInv
<1>2. ListsFollow /\ CardFollows
  BY <1>1, Unmoved DEF Invalidate
<1>3. PICK i, reread, found : i = op[t].id /\ reread = op[t].reread /\ found = Answer("market")
  OBVIOUS
<1>4. JustRead(op[t]) /\ op[t].do = "written"
  BY <1>1 DEF Invalidate, AtRest, OpInv
<1>5. i \in Ids /\ reread \in BOOLEAN
  BY <1>3, <1>4 DEF JustRead, Op
<1>6. CacheFollows
  BY <1>1, <1>3, <1>5, Unmoved, ClearedFollows DEF Invalidate
<1>7. \A s \in found : s \in Skill /\ Was(s, now)'
  BY <1>1, <1>3, AnswerHeld DEF Queries
<1>8. PICK o : o = [do |-> "rebuild", id |-> i, reread |-> reread, got |-> found]
  OBVIOUS
<1>9. JustRead(o)'
  BY <1>5, <1>7, <1>8 DEF JustRead, Op
<1>10. OpFollows
  BY <1>1, <1>3, <1>8, <1>9, BeginFollows DEF Invalidate, Begin
<1> QED
  BY <1>1, <1>2, <1>6, <1>10 DEF Moves

LEMMA RebuildMoves ==
  ASSUME CatalogInv, NEW t \in Threads, Rebuild(t)
  PROVE  Moves
<1>1. Follows /\ CachesInv /\ OpInv /\ SeedInv'
  BY Unlisted, SeedKept DEF Rebuild, CatalogInv
<1>2. CardFollows
  BY <1>1, Unmoved DEF Rebuild
<1>3. PICK i, found : i = op[t].id /\ found = op[t].got
  OBVIOUS
<1>4. JustRead(op[t]) /\ op[t].do = "rebuild"
  BY <1>1 DEF Rebuild, AtRest, OpInv
<1>5. i \in Ids /\ \A s \in found : Was(s, now)'
  BY <1>1, <1>3, <1>4, NowWas DEF JustRead, CatalogInv, Op
<1>6. CacheFollows /\ ListsFollow
  <2>1. CASE UNCHANGED <<cache, lists>>
    BY <1>1, <2>1, Unmoved
  <2>2. CASE cache' = Warmed(op[t].got) /\ lists' = Listed("market", op[t].got)
    BY <1>1, <1>3, <1>5, <2>2, WarmedFollows DEF Queries
  <2> QED
    BY <2>1, <2>2 DEF Rebuild
<1>7. OpFollows
  <2>1. CASE op[t].reread /\ skills[op[t].id] # None
    <3>1. PICK s : s = skills[i]
      OBVIOUS
    <3>2. Was(s, now) /\ s \in Skill /\ s.id = i
      <4>1. s \in Stored /\ StoredInv /\ s # None
        BY <1>3, <1>5, <2>1, <3>1 DEF Stored, CatalogInv
      <4> QED
        BY <4>1, <1>5, <3>1, StoredWas DEF StoredInv
    <3>3. Was(s, now)'
      BY <1>1, <3>2, NowWas DEF CatalogInv
    <3>4. PICK o : o = [do |-> "fill", got |-> s, id |-> i]
      OBVIOUS
    <3>5. JustRead(o)'
      BY <1>5, <3>2, <3>3, <3>4 DEF JustRead, Op
    <3> QED
      BY <1>1, <1>3, <2>1, <3>1, <3>4, <3>5, BeginFollows DEF Rebuild, Begin
  <2>2. CASE ~(op[t].reread /\ skills[op[t].id] # None)
    BY <1>1, <2>2, BeginFollows DEF Rebuild, End
  <2> QED
    BY <2>1, <2>2
<1> QED
  BY <1>1, <1>2, <1>6, <1>7 DEF Moves

LEMMA ElsewhereMoves ==
  ASSUME CatalogInv, Elsewhere
  PROVE  Moves
<1>0. CachesInv /\ OpInv /\ StoreTypes /\ StoredInv /\ SeedInv /\ now' = now
  BY DEF CatalogInv, Elsewhere
<1>1. CASE \E u \in Users : Added(u, UniqueSlug(u, "slug"), TRUE)
  <2>1. PICK u \in Users : Added(u, UniqueSlug(u, "slug"), TRUE)
    BY <1>1
  <2>2. PICK slug : slug = UniqueSlug(u, "slug")
    OBVIOUS
  <2>3. slug \in Slugs \cup Templates /\ u \in Owners /\ Added(u, slug, TRUE)
    BY <2>1, <2>2 DEF UniqueSlug, Slugs, Owners
  <2>4. Follows
    BY <1>0, <2>3, AddedFollows
  <2> QED
    BY <1>0, <2>4, Unmoved, SeedKept DEF Elsewhere, caches, Moves
<1>2. CASE \E i \in Ids, public \in BOOLEAN :
             /\ skills[i] # None /\ skills[i].owner \in Users
             /\ Changed(i, skills[i].slug, public) \/ Removed(i)
  <2>1. PICK i \in Ids, public \in BOOLEAN :
             /\ skills[i] # None /\ skills[i].owner \in Users
             /\ Changed(i, skills[i].slug, public) \/ Removed(i)
    BY <1>2
  <2>2. PICK slug : slug = skills[i].slug
    OBVIOUS
  <2>3. slug \in Slugs \cup Templates /\ skills[i].owner # Platform
    BY <1>0, <2>1, <2>2, CatalogBounds DEF StoredInv, Skill
  <2>4. CASE Removed(i)
    <3>1. Follows
      BY <1>0, <2>3, <2>4, RemovedFollows
    <3> QED
      BY <1>0, <3>1, Unmoved, SeedKept DEF Elsewhere, caches, Moves
  <2>5. CASE Changed(i, slug, public)
    <3>1. Follows
      BY <1>0, <2>2, <2>3, <2>5, ChangedFollows
    <3> QED
      BY <1>0, <3>1, Unmoved, SeedKept DEF Elsewhere, caches, Moves
  <2> QED
    BY <2>1, <2>2, <2>4, <2>5
<1>3. CASE \E name \in Parsed : Named(Platform, name) = {} /\ Added(Platform, name, TRUE)
  <2>1. PICK name \in Parsed : Added(Platform, name, TRUE)
    BY <1>3
  <2>2. name \in Slugs \cup Templates /\ Platform \in Owners
    BY CatalogBounds DEF Owners
  <2>3. Follows
    BY <1>0, <2>1, <2>2, AddedFollows
  <2> QED
    BY <1>0, <2>3, Unmoved, SeedKept DEF Elsewhere, caches, Moves
<1>4. CASE issued = 0 /\ \E name \in Templates, owner \in {Platform, Legacy} : Added(owner, name, TRUE)
  <2>1. PICK name \in Templates, owner \in {Platform, Legacy} : Added(owner, name, TRUE)
    BY <1>4
  <2>2. name \in Slugs \cup Templates /\ owner \in Owners
    BY DEF Owners
  <2>3. Follows
    BY <1>0, <2>1, <2>2, AddedFollows
  <2> QED
    BY <1>0, <2>3, Unmoved, SeedKept DEF Elsewhere, caches, Moves
<1> QED
  BY <1>1, <1>2, <1>3, <1>4 DEF Elsewhere

-----------------------------------------------------------------------------
(* The seed, the clock, and the invariant *)

LEMMA AskedFollow ==
  ASSUME CatalogInv, Follows, AskedCaches
  PROVE  CacheFollows /\ ListsFollow
<1>0. CachesInv /\ OpInv
  BY DEF CatalogInv
<1>1. CASE Fresh(lists["platform"])
  BY <1>0, <1>1, Unmoved DEF AskedCaches
<1>2. CASE ~Fresh(lists["platform"])
  <2>1. PICK found : found = Answer("platform")
    OBVIOUS
  <2>2. \A s \in found : Was(s, now)' /\ s.owner = Platform
    BY <2>1, AnswerHeld DEF Queries
  <2>3. cache' = Warmed(found) /\ lists' = Listed("platform", found)
    BY <1>2, <2>1 DEF AskedCaches, PlatformList
  <2> QED
    BY <1>0, <2>2, <2>3, WarmedFollows DEF Queries
<1> QED
  BY <1>1, <1>2

LEMMA WroteFollow ==
  ASSUME CatalogInv, Follows, NEW i \in Ids, WroteCaches(i)
  PROVE  CacheFollows /\ ListsFollow /\ CardFollows
<1>0. CachesInv /\ OpInv
  BY DEF CatalogInv
<1>1. \A s, j : j \in Ids /\ s = skills'[j] /\ s # None => s.id = j /\ Was(s, now)'
  BY StoredWasNext
<1>2. CacheFollows
  <2>1. DOMAIN cache' = Ids
    BY DEF WroteCaches
  <2>2. ASSUME NEW j \in Ids, skills'[j] # None, cache'[j] = Cached(skills'[j])
        PROVE  \E s : s.id = j /\ Was(s, now)' /\ cache'[j] = [skill |-> s, at |-> now]
    <3>1. PICK s : s = skills'[j]
      OBVIOUS
    <3>2. s.id = j /\ Was(s, now)'
      BY <1>1, <2>2, <3>1
    <3> QED
      BY <2>2, <3>1, <3>2 DEF Cached
  <2>3. \A j \in Ids : \/ skills'[j] # None /\ cache'[j] = Cached(skills'[j])
                       \/ cache'[j] = None \/ cache'[j] = cache[j]
    BY DEF WroteCaches
  <2> QED
    BY <2>1, <2>2, <2>3 DEF CacheFollows
<1>3. ListsFollow
  <2>1. PICK found : found = {s \in {skills'[j] : j \in Ids} \ {None} : s.public}
    OBVIOUS
  <2>2. \A s \in found : Was(s, now)'
    BY <1>1, <2>1
  <2>3. lists' = [k \in Queries |-> IF k = "market" THEN [skills |-> found, at |-> now] ELSE None]
    BY <2>1 DEF WroteCaches
  <2> QED
    BY <2>2, <2>3 DEF ListsFollow, Queries
<1>4. CardFollows
  BY DEF WroteCaches, CardFollows
<1> QED
  BY <1>2, <1>3, <1>4

LEMMA SeedStep ==
  ASSUME Follows, SeedInv, seed # None, seed' \in Seed,
         seed'.existing = seed.existing, seed'.purge \subseteq seed.purge,
         \A name \in Parsed : name \notin seed'.todo \cup seed'.failed =>
           name \notin seed.todo \cup seed.failed \/ Named(Platform, name)' # {}
  PROVE  SeedInv'
<1>1. \A name \in Parsed : Named(Platform, name) # {} => Named(Platform, name)' # {}
  BY DEF Follows
<1>2. seed'.purge \cap Parsed = {}
  BY DEF SeedInv
<1>3. \A name \in Parsed :
        name \in seed'.existing \/ name \notin seed'.todo \cup seed'.failed
          => Named(Platform, name)' # {}
  BY <1>1 DEF SeedInv
<1> QED
  BY <1>2, <1>3 DEF SeedInv

LEMMA SeedStartMoves ==
  ASSUME CatalogInv, NEW token \in SeedTokens, SeedStart(token)
  PROVE  Moves
<1>1. Follows /\ CachesInv /\ OpInv /\ StoredInv
  BY Unlisted DEF SeedStart, CatalogInv
<1>2. CacheFollows /\ ListsFollow
  BY <1>1, AskedFollow DEF SeedStart
<1>3. CardFollows /\ OpFollows
  BY <1>1, Unmoved DEF SeedStart
<1>4. PICK existing : existing = {s.slug : s \in PlatformList}
  OBVIOUS
<1>5. seed' = [existing |-> existing, purge |-> existing \ Parsed, todo |-> Templates, failed |-> {}]
  BY <1>4 DEF SeedStart, Stale
<1>6. \A s \in PlatformList : Genuine(s) /\ s.owner = Platform
  BY <1>1, PlatformListed
<1>7. existing \subseteq Slugs \cup Templates
  BY <1>4, <1>6 DEF Genuine, Skill
<1>8. \A name \in Parsed : name \in existing => Named(Platform, name)' # {}
  <2> SUFFICES ASSUME NEW name \in Parsed, name \in existing PROVE Named(Platform, name)' # {}
    OBVIOUS
  <2>1. PICK s \in PlatformList : s.slug = name
    BY <1>4
  <2>2. s.id \in Ids /\ skills[s.id] # None /\ skills[s.id].owner = Platform /\ skills[s.id].slug = name
    BY <2>1, <1>6, CatalogBounds DEF Genuine, Skill
  <2>3. Named(Platform, name) # {}
    BY <2>2, NamedMeans
  <2> QED
    BY <1>1, <2>3 DEF Follows
<1>9. seed' \in Seed
  BY <1>5, <1>7 DEF Seed
<1>10. /\ seed'.purge \cap Parsed = {}
       /\ \A name \in Parsed :
            name \in seed'.existing \/ name \notin seed'.todo \cup seed'.failed
              => Named(Platform, name)' # {}
  BY <1>5, <1>8, CatalogBounds
<1>11. SeedInv'
  BY <1>9, <1>10 DEF SeedInv
<1> QED
  BY <1>1, <1>2, <1>3, <1>11 DEF Moves

LEMMA SeedPurgeLegacyMoves ==
  ASSUME CatalogInv, NEW i \in Ids, SeedPurgeLegacy(i)
  PROVE  Moves
<1>0. CachesInv /\ OpInv /\ StoreTypes /\ StoredInv /\ SeedInv
  BY DEF CatalogInv
<1>1. Follows
  BY <1>0, RemovedFollows, CatalogBounds DEF SeedPurgeLegacy
<1>2. CacheFollows /\ ListsFollow /\ CardFollows
  BY <1>1, WroteFollow DEF SeedPurgeLegacy
<1>3. OpFollows /\ SeedInv'
  BY <1>0, <1>1, Unmoved, SeedKept DEF SeedPurgeLegacy
<1> QED
  BY <1>1, <1>2, <1>3 DEF Moves

LEMMA SeedPurgeMoves ==
  ASSUME CatalogInv, NEW name \in Slugs \cup Templates, SeedPurge(name)
  PROVE  Moves
<1>0. /\ CachesInv /\ OpInv /\ StoreTypes /\ StoredInv /\ SeedInv /\ now' = now
      /\ seed # None /\ seed \in Seed /\ name \notin Parsed
      /\ seed' = [seed EXCEPT !.purge = seed.purge \ {name}]
  BY DEF CatalogInv, SeedPurge, SeedInv
<1>1. OpFollows
  BY <1>0, Unmoved DEF SeedPurge
<1>2. /\ seed' \in Seed /\ seed'.existing = seed.existing /\ seed'.purge \subseteq seed.purge
      /\ seed'.todo = seed.todo /\ seed'.failed = seed.failed
  BY <1>0 DEF Seed
<1>3. Follows => SeedInv'
  BY <1>0, <1>2, SeedStep
<1>4. CASE AskedCaches /\ UNCHANGED <<store, card>>
  <2>1. Follows /\ CardFollows
    BY <1>0, <1>4, Unlisted, Unmoved
  <2>2. CacheFollows /\ ListsFollow
    BY <1>4, <2>1, AskedFollow
  <2> QED
    BY <1>1, <1>3, <2>1, <2>2 DEF Moves
<1>5. CASE \E s \in {x \in PlatformList : x.slug = name} : Removed(s.id) /\ WroteCaches(s.id)
  <2>1. PICK s \in PlatformList : s.slug = name /\ Removed(s.id) /\ WroteCaches(s.id)
    BY <1>5
  <2>2. PICK i : i = s.id
    OBVIOUS
  <2>3. Genuine(s) /\ s.owner = Platform
    BY <1>0, <2>1, PlatformListed
  <2>4. i \in Ids /\ Removed(i) /\ WroteCaches(i) /\ (skills[i] # None => skills[i].slug \notin Parsed)
    BY <1>0, <2>1, <2>2, <2>3, CatalogBounds DEF Genuine, Skill
  <2>5. Follows
    BY <1>0, <2>4, RemovedFollows
  <2>6. CacheFollows /\ ListsFollow /\ CardFollows
    BY <2>4, <2>5, WroteFollow
  <2> QED
    BY <1>1, <1>3, <2>5, <2>6 DEF Moves
<1> QED
  BY <1>4, <1>5 DEF SeedPurge

LEMMA SeedTemplateMoves ==
  ASSUME CatalogInv, NEW name \in Templates, SeedTemplate(name)
  PROVE  Moves
<1>0. /\ CachesInv /\ OpInv /\ StoreTypes /\ StoredInv /\ SeedInv /\ now' = now
      /\ seed # None /\ seed \in Seed
  BY DEF CatalogInv, SeedTemplate, SeedInv
<1>1. OpFollows
  BY <1>0, Unmoved DEF SeedTemplate
<1> DEFINE handled == seed' = [seed EXCEPT !.todo = seed.todo \ {name}]
           failing == seed' = [seed EXCEPT !.todo = seed.todo \ {name}, !.failed = seed.failed \cup {name}]
<1>2. handled => /\ seed' \in Seed /\ seed'.existing = seed.existing /\ seed'.purge = seed.purge
                 /\ seed'.todo = seed.todo \ {name} /\ seed'.failed = seed.failed
  BY <1>0 DEF Seed
<1>3. failing => /\ seed' \in Seed /\ seed'.existing = seed.existing /\ seed'.purge = seed.purge
                 /\ seed'.todo = seed.todo \ {name} /\ seed'.failed = seed.failed \cup {name}
  BY <1>0 DEF Seed
<1> HIDE DEF handled, failing
<1>4. ASSUME Follows, failing PROVE SeedInv'
  BY <1>0, <1>3, <1>4, SeedStep
<1>5. ASSUME Follows, handled, Named(Platform, name)' # {} PROVE SeedInv'
  BY <1>0, <1>2, <1>5, SeedStep
<1>6. ASSUME Follows, name \in Parsed \cap seed.existing PROVE Named(Platform, name)' # {}
  BY <1>0, <1>6 DEF SeedInv, Follows
<1>7. CASE name \notin Parsed /\ failing /\ UNCHANGED <<store, caches>>
  <2>1. Follows
    BY <1>0, <1>7, Unlisted
  <2> QED
    BY <1>0, <1>1, <1>4, <1>7, <2>1, Unmoved DEF caches, Moves
<1>8. CASE /\ name \in Parsed \cap seed.existing /\ (handled \/ failing)
           /\ AskedCaches /\ UNCHANGED <<store, card>>
  <2>1. Follows /\ CardFollows
    BY <1>0, <1>8, Unlisted, Unmoved
  <2>2. CacheFollows /\ ListsFollow
    BY <1>8, <2>1, AskedFollow
  <2> QED
    BY <1>1, <1>4, <1>5, <1>6, <1>8, <2>1, <2>2 DEF Moves
<1>9. CASE /\ name \in Parsed \cap seed.existing /\ handled
           /\ \E s \in {x \in PlatformList : x.slug = name} :
                skills[s.id] # None /\ Changed(s.id, name, skills[s.id].public) /\ WroteCaches(s.id)
  <2>1. PICK s \in PlatformList : s.slug = name /\ skills[s.id] # None
                /\ Changed(s.id, name, skills[s.id].public) /\ WroteCaches(s.id)
    BY <1>9
  <2>2. PICK i, public : i = s.id /\ public = skills[i].public
    OBVIOUS
  <2>3. Genuine(s) /\ s.owner = Platform
    BY <1>0, <2>1, PlatformListed
  <2>4. /\ i \in Ids /\ skills[i].slug = name /\ skills[i] \in Skill
        /\ Changed(i, name, public) /\ WroteCaches(i)
    BY <1>0, <2>1, <2>2, <2>3, CatalogBounds DEF Genuine, Skill, StoredInv
  <2>5. public \in BOOLEAN
    BY <2>2, <2>4 DEF Skill
  <2>6. Follows
    BY <1>0, <2>4, <2>5, ChangedFollows
  <2>7. CacheFollows /\ ListsFollow /\ CardFollows
    BY <2>4, <2>6, WroteFollow
  <2> QED
    BY <1>1, <1>5, <1>6, <1>9, <2>6, <2>7 DEF Moves
<1>10. CASE handled /\ Added(Platform, name, TRUE) /\ WroteCaches(issued')
  <2>1. Platform \in Owners
    BY DEF Owners
  <2>2. /\ Follows /\ issued' \in Ids /\ skills'[issued'] \in Skill
        /\ skills'[issued'].owner = Platform /\ skills'[issued'].slug = name
    BY <1>0, <1>10, <2>1, AddedFollows
  <2>3. Named(Platform, name)' # {}
    BY <2>2, CatalogBounds, NamedMeansNext
  <2>4. PICK i : i = issued'
    OBVIOUS
  <2>5. CacheFollows /\ ListsFollow /\ CardFollows
    BY <1>10, <2>2, <2>4, WroteFollow
  <2> QED
    BY <1>1, <1>5, <1>10, <2>2, <2>3, <2>5 DEF Moves
<1> QED
  BY <1>7, <1>8, <1>9, <1>10 DEF SeedTemplate, handled, failing

LEMMA SeedEndMoves ==
  ASSUME CatalogInv, SeedEnd
  PROVE  Moves
<1>1. Follows /\ CachesInv /\ OpInv
  BY Unlisted DEF SeedEnd, CatalogInv
<1>2. SeedInv'
  BY DEF SeedEnd, SeedInv
<1> QED
  BY <1>1, <1>2, Unmoved DEF SeedEnd, caches, Moves

\* The clock moves while nobody is busy; what is stored is then there a unit longer,
\* and what only a cache holds keeps its time.
LEMMA ClockKeeps ==
  ASSUME CatalogInv, Tick
  PROVE  CatalogInv'
<1>0. /\ now \in Nat /\ now' = now + 1 /\ now' \in 0..MaxTime /\ MaxTime \in Nat
      /\ skills' = skills /\ issued' = issued /\ writes' = writes /\ op' = op /\ seed' = seed
      /\ seed = None /\ \A t \in Threads : op[t] = None
  BY CatalogBounds DEF CatalogInv, StoreTypes, Tick, AtRest
<1>1. till' \in [Versions -> 0..MaxTime]
  BY <1>0, CatalogBounds DEF Tick, CatalogInv, StoreTypes
<1>2. \A s \in Stored : s.no \in Versions => till'[s.no] = now'
  BY DEF Tick
<1>3. \A v \in Versions, time \in Int : Held(v) /\ time <= now /\ till[v] >= time => till'[v] >= time
  <2> SUFFICES ASSUME NEW v \in Versions, NEW time \in Int, Held(v), time <= now, till[v] >= time
               PROVE  till'[v] >= time
    OBVIOUS
  <2>1. till'[v] = now' \/ till'[v] = till[v]
    BY DEF Tick
  <2> QED
    BY <1>0, <2>1
<1>4. StoreTypes'
  BY <1>0, <1>1 DEF CatalogInv, StoreTypes
<1>5. StoredInv'
  <2> SUFFICES ASSUME NEW i \in Ids, skills[i] # None
               PROVE  skills[i] \in Skill /\ skills[i].id = i /\ i <= issued /\ till'[skills[i].no] >= now'
    BY <1>0 DEF StoredInv
  <2>1. skills[i] \in Skill /\ skills[i].id = i /\ i <= issued /\ skills[i] \in Stored
    BY DEF CatalogInv, StoredInv, Stored
  <2>2. skills[i].no \in Versions
    BY <2>1 DEF Skill
  <2>3. till'[skills[i].no] = now'
    BY <1>2, <2>1, <2>2
  <2> QED
    BY <1>0, <2>1, <2>3
<1>g. \A s : Genuine(s) => Genuine(s)'
  BY <1>0 DEF Genuine
<1>w. \A s, time : time \in Int /\ time <= now /\ Was(s, time) /\ Held(s.no) => Was(s, time)'
  <2> SUFFICES ASSUME NEW s, NEW time \in Int, time <= now, Was(s, time), Held(s.no)
               PROVE  Was(s, time)'
    OBVIOUS
  <2>1. s.no \in Versions /\ Genuine(s) /\ till[s.no] >= time
    BY DEF Was, Genuine, Skill
  <2>2. Genuine(s)' /\ till'[s.no] >= time
    BY <1>g, <1>3, <2>1
  <2> QED
    BY <2>2 DEF Was
<1>6. CachesInv'
  <2>0. CachesInv /\ DOMAIN cache' = Ids /\ DOMAIN lists' = Queries /\ "platform" \in Queries
    BY DEF CatalogInv, Tick, Queries
  <2>1. ASSUME NEW i \in Ids, cache'[i] # None
        PROVE  cache'[i].at \in 0..now' /\ cache'[i].skill.id = i /\ Was(cache[i].skill, cache[i].at)'
    <3>0. cache'[i] = cache[i]
      BY <2>1 DEF Tick
    <3>1. PICK s, time : s = cache[i].skill /\ time = cache[i].at
      OBVIOUS
    <3>2. time \in 0..now /\ s.id = i /\ Was(s, time) /\ Held(s.no)
      BY <2>0, <2>1, <3>0, <3>1 DEF CachesInv, Held
    <3>3. Was(s, time)'
      BY <1>0, <1>w, <3>2
    <3> QED
      BY <1>0, <3>0, <3>1, <3>2, <3>3 DEF Was, Genuine
  <2>2. ASSUME NEW k \in Queries, lists'[k] # None
        PROVE  /\ lists'[k].at \in 0..now'
               /\ \A s \in lists'[k].skills : Was(s, lists[k].at)' /\ (k = "platform" => s.owner = Platform)
    <3>0. lists'[k] = lists[k]
      BY <2>2 DEF Tick
    <3>1. PICK found, time : found = lists[k].skills /\ time = lists[k].at
      OBVIOUS
    <3>2. time \in 0..now /\ \A s \in found : Was(s, time) /\ (k = "platform" => s.owner = Platform)
      BY <2>0, <2>2, <3>0, <3>1 DEF CachesInv
    <3>3. \A s \in found : Held(s.no)
      BY <2>2, <3>0, <3>1 DEF Held
    <3>4. \A s \in found : Was(s, time)'
      BY <1>0, <1>w, <3>2, <3>3
    <3> QED
      BY <1>0, <3>0, <3>1, <3>2, <3>4 DEF Was, Genuine
  <2> QED
    BY <2>0, <2>1, <2>2 DEF CachesInv
<1>7. CardInv'
  <2> SUFFICES ASSUME card' # None PROVE CardInv'
    BY DEF CardInv
  <2>0. card' = card /\ card # None
    BY DEF Tick
  <2>1. PICK found, bucket : found = card.skills /\ bucket = card.bucket
    OBVIOUS
  <2>2. PICK span : span = bucket * Ttl
    OBVIOUS
  <2>3. /\ bucket \in 0..MaxTime /\ span <= now
        /\ \A s \in found : s \in Skill /\ till[s.no] >= span - (Ttl - 1)
    BY <2>0, <2>1, <2>2 DEF CatalogInv, CardInv
  <2>4. Ttl \in Nat /\ Ttl > 0 /\ span \in Int
    BY <1>0, <2>2, <2>3, CatalogBounds
  <2>5. \A s \in found : till'[s.no] >= span - (Ttl - 1)
    <3> SUFFICES ASSUME NEW s \in found PROVE till'[s.no] >= span - (Ttl - 1)
      OBVIOUS
    <3>1. s.no \in Versions /\ till[s.no] >= span - (Ttl - 1) /\ Held(s.no)
      BY <2>0, <2>1, <2>3 DEF Skill, Held
    <3>2. span - (Ttl - 1) \in Int /\ span - (Ttl - 1) <= now
      BY <1>0, <2>3, <2>4
    <3> QED
      BY <1>3, <3>1, <3>2
  <2>6. span <= now'
    BY <1>0, <2>3, <2>4
  <2> QED
    BY <2>0, <2>1, <2>2, <2>3, <2>5, <2>6 DEF CardInv
<1>8. OpInv'
  BY <1>0 DEF CatalogInv, OpInv
<1>9. SeedInv'
  BY <1>0 DEF SeedInv
<1> QED
  BY <1>4, <1>5, <1>6, <1>7, <1>8, <1>9 DEF CatalogInv

LEMMA CatalogStarts ==
  ASSUME CatalogInit
  PROVE  CatalogInv
<1>1. StoreTypes
  BY CatalogBounds DEF CatalogInit, StoreTypes
<1>2. StoredInv /\ CachesInv /\ CardInv /\ OpInv /\ SeedInv
  BY DEF CatalogInit, StoredInv, CachesInv, CardInv, OpInv, SeedInv, Queries
<1> QED
  BY <1>1, <1>2 DEF CatalogInv

LEMMA CatalogStep ==
  ASSUME CatalogInv, [CatalogNext]_catalogVars
  PROVE  CatalogInv'
<1>1. ASSUME NEW t \in Threads, NEW i \in Ids, Get(t, i) PROVE CatalogInv'
  BY <1>1, GetMoves, MovesKeep
<1>2. ASSUME NEW t \in Threads, Fill(t) PROVE CatalogInv'
  BY <1>2, FillMoves, MovesKeep
<1>3. ASSUME NEW t \in Threads, List(t) PROVE CatalogInv'
  BY <1>3, ListMoves, MovesKeep
<1>4. ASSUME NEW t \in Threads, FillList(t) PROVE CatalogInv'
  BY <1>4, FillListMoves, MovesKeep
<1>5. ASSUME NEW t \in Threads, NEW u \in Users, NEW public \in BOOLEAN, Create(t, u, public)
      PROVE  CatalogInv'
  BY <1>5, CreateMoves, MovesKeep
<1>6. ASSUME NEW t \in Threads, NEW u \in Users, NEW i \in Ids, Fork(t, u, i) PROVE CatalogInv'
  BY <1>6, CreateMoves, MovesKeep DEF Fork
<1>7. ASSUME NEW t \in Threads, CreateWrite(t) PROVE CatalogInv'
  BY <1>7, CreateWriteMoves, MovesKeep
<1>8. ASSUME NEW t \in Threads, NEW u \in Users, NEW i \in Ids, NEW slug \in Slugs,
             NEW public \in BOOLEAN, Update(t, u, i, slug, public)
      PROVE  CatalogInv'
  BY <1>8, UpdateMoves, MovesKeep
<1>9. ASSUME NEW t \in Threads, NEW u \in Users, NEW i \in Ids, Delete(t, u, i) PROVE CatalogInv'
  BY <1>9, DeleteMoves, MovesKeep
<1>10. ASSUME NEW t \in Threads, Invalidate(t) PROVE CatalogInv'
  BY <1>10, InvalidateMoves, MovesKeep
<1>11. ASSUME NEW t \in Threads, Rebuild(t) PROVE CatalogInv'
  BY <1>11, RebuildMoves, MovesKeep
<1>12. ASSUME Card PROVE CatalogInv'
  BY <1>12, CardMoves, MovesKeep
<1>13. ASSUME Elsewhere PROVE CatalogInv'
  BY <1>13, ElsewhereMoves, MovesKeep
<1>14. ASSUME NEW token \in SeedTokens, SeedStart(token) PROVE CatalogInv'
  BY <1>14, SeedStartMoves, MovesKeep
<1>15. ASSUME NEW i \in Ids, SeedPurgeLegacy(i) PROVE CatalogInv'
  BY <1>15, SeedPurgeLegacyMoves, MovesKeep
<1>16. ASSUME NEW name \in Slugs \cup Templates, SeedPurge(name) PROVE CatalogInv'
  BY <1>16, SeedPurgeMoves, MovesKeep
<1>17. ASSUME NEW name \in Templates, SeedTemplate(name) PROVE CatalogInv'
  BY <1>17, SeedTemplateMoves, MovesKeep
<1>18. ASSUME SeedEnd PROVE CatalogInv'
  BY <1>18, SeedEndMoves, MovesKeep
<1>19. ASSUME Tick PROVE CatalogInv'
  BY <1>19, ClockKeeps
<1>20. ASSUME UNCHANGED catalogVars PROVE CatalogInv'
  <2>1. UNCHANGED store /\ now' = now /\ seed' = seed /\ UNCHANGED caches /\ op' = op
    BY <1>20 DEF catalogVars
  <2>2. Follows
    BY <2>1, Unlisted
  <2>3. CacheFollows /\ ListsFollow /\ CardFollows /\ OpFollows /\ SeedInv'
    BY <2>1, <2>2, Unmoved, SeedKept DEF CatalogInv, caches
  <2> QED
    BY <2>2, <2>3, MovesKeep DEF Moves
<1> QED
  BY <1>1, <1>2, <1>3, <1>4, <1>5, <1>6, <1>7, <1>8, <1>9, <1>10, <1>11, <1>12, <1>13, <1>14,
     <1>15, <1>16, <1>17, <1>18, <1>19, <1>20 DEF CatalogNext

-----------------------------------------------------------------------------
(* What follows of the invariant *)

LEMMA InvTypes ==
  ASSUME CatalogInv
  PROVE  CatalogTypeOK
<1>0. now \in 0..MaxTime /\ MaxTime \in Nat
  BY CatalogBounds DEF CatalogInv, StoreTypes
<1>1. \A i \in Ids : cache[i] = None \/ (cache[i].skill \in Skill /\ cache[i].at \in 0..MaxTime)
  BY <1>0 DEF CatalogInv, CachesInv, Was, Genuine
<1>2. \A k \in Queries : lists[k] = None \/ (lists[k].skills \subseteq Skill /\ lists[k].at \in 0..MaxTime)
  BY <1>0 DEF CatalogInv, CachesInv, Was, Genuine
<1>3. card = None \/ (card.skills \subseteq Skill /\ card.bucket \in 0..MaxTime)
  BY DEF CatalogInv, CardInv
<1>4. \A t \in Threads : op[t] # None => op[t] \in Op
  BY DEF CatalogInv, OpInv, JustRead
<1>5. seed = None \/ seed \in Seed
  BY DEF CatalogInv, SeedInv
<1> QED
  BY <1>1, <1>2, <1>3, <1>4, <1>5 DEF CatalogInv, StoreTypes, CatalogTypeOK

LEMMA InvServed ==
  ASSUME CatalogInv
  PROVE  ServedIsRecent
<1>0. /\ now \in Nat /\ Ttl \in Nat /\ Ttl > 0 /\ CachesInv
      /\ \A v \in Versions : till[v] \in Int
  BY CatalogBounds DEF CatalogInv, StoreTypes
<1>1. \A at, s : at \in 0..now /\ now - at < Ttl /\ Was(s, at) => till[s.no] >= now - (Ttl - 1)
  <2> SUFFICES ASSUME NEW at \in 0..now, NEW s, now - at < Ttl, Was(s, at)
               PROVE  till[s.no] >= now - (Ttl - 1)
    OBVIOUS
  <2>1. s.no \in Versions /\ till[s.no] >= at
    BY DEF Was, Genuine, Skill
  <2> QED
    BY <1>0, <2>1
<1>2. ASSUME NEW i \in Ids, Served(i) # None PROVE Since(Served(i).no, now - (Ttl - 1))
  <2>1. cache[i] # None /\ now - cache[i].at < Ttl /\ Served(i) = cache[i].skill
    BY <1>2 DEF Served, Fresh
  <2>2. cache[i].at \in 0..now /\ Was(cache[i].skill, cache[i].at)
    BY <1>0, <2>1 DEF CachesInv
  <2> QED
    BY <1>1, <2>1, <2>2 DEF Since
<1>3. ASSUME NEW k \in Queries, Fresh(lists[k]), NEW s \in lists[k].skills
      PROVE  Since(s.no, now - (Ttl - 1))
  <2>1. lists[k] # None /\ now - lists[k].at < Ttl
    BY <1>3 DEF Fresh
  <2>2. lists[k].at \in 0..now /\ Was(s, lists[k].at)
    BY <1>0, <1>3, <2>1 DEF CachesInv
  <2> QED
    BY <1>1, <2>1, <2>2 DEF Since
<1> QED
  BY <1>2, <1>3 DEF ServedIsRecent

LEMMA InvCard ==
  ASSUME CatalogInv
  PROVE  CardIsRecent
<1> SUFFICES ASSUME CardServed, NEW s \in card.skills
             PROVE  till[s.no] >= now - 2 * (Ttl - 1)
  BY DEF CardIsRecent, Since
<1>0. now \in Nat /\ Ttl \in Nat /\ Ttl > 0 /\ \A v \in Versions : till[v] \in Int
  BY CatalogBounds DEF CatalogInv, StoreTypes
<1>1. PICK span : span = card.bucket * Ttl
  OBVIOUS
<1>2. s.no \in Versions /\ till[s.no] >= span - (Ttl - 1)
  BY <1>1 DEF CatalogInv, CardInv, CardServed, Skill
<1>3. span \in Nat /\ now <= span + (Ttl - 1)
  BY <1>0, <1>1, BucketSpan DEF CardServed
<1> QED
  BY <1>0, <1>2, <1>3

LEMMA CatalogHolds == CatalogSpec => []CatalogInv
<1>1. CatalogInit => CatalogInv
  BY CatalogStarts
<1>2. CatalogInv /\ [CatalogNext]_catalogVars => CatalogInv'
  BY CatalogStep
<1> QED
  BY <1>1, <1>2, PTL DEF CatalogSpec

\* The state of the catalogue keeps its types.
THEOREM CatalogTypes == CatalogSpec => []CatalogTypeOK
<1>1. CatalogInv => CatalogTypeOK
  BY InvTypes
<1> QED
  BY <1>1, CatalogHolds, PTL

\* Whatever an instance answers from a cache was in the store less than a Ttl ago,
\* whoever wrote, and however its threads cross (skill_config.get_skill and the lists).
THEOREM ServedAreRecent == CatalogSpec => []ServedIsRecent
<1>1. CatalogInv => ServedIsRecent
  BY InvServed
<1> QED
  BY <1>1, CatalogHolds, PTL

\* What the card shows was in the store less than two Ttl ago: its own cache and the
\* list's add up and no further (_cached_card over list_marketplace).
THEOREM CardsAreRecent == CatalogSpec => []CardIsRecent
<1>1. CatalogInv => CardIsRecent
  BY InvCard
<1> QED
  BY <1>1, CatalogHolds, PTL

\* A seed leaves a skill for every template it does not report as failed, also when
\* the list it went by was a cached one (platform_seed.seed).
THEOREM SeedsLeaveTemplates == CatalogSpec => SeedLeavesTemplates
<1>1. ASSUME CatalogInv, SeedEnd, NEW name \in Parsed \ seed.failed
      PROVE  Named(Platform, name) # {}
  BY <1>1 DEF CatalogInv, SeedInv, SeedEnd
<1>2. CatalogInv /\ [CatalogNext]_catalogVars =>
        [SeedEnd => \A name \in Parsed \ seed.failed : Named(Platform, name) # {}]_catalogVars
  BY <1>1
<1> QED
  BY <1>2, CatalogHolds, PTL DEF CatalogSpec, SeedLeavesTemplates
=============================================================================
