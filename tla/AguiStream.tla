----------------------------- MODULE AguiStream -----------------------------
(***************************************************************************)
(* One streamed turn, from the agent's event generator to the wire.        *)
(*                                                                         *)
(* poll_stream runs the generator in a producer task and hands its items   *)
(* over a queue of one slot, so that stream_agui_events can wake between   *)
(* items, flush progress events and send heartbeats.  stream_agui_events   *)
(* keeps the protocol of the AG-UI client: RUN_STARTED first, one terminal *)
(* event, nothing after it, and no silent end.  process_skill_request      *)
(* turns an exception into a RUN_ERROR and stream_skill writes the SSE     *)
(* response, which opens with a session_meta frame when the request        *)
(* resumes a session, and which the client may leave.                      *)
(***************************************************************************)
EXTENDS Naturals, SequencesExt

CONSTANTS
  MaxBody,       \* bound on the events between RUN_STARTED and the terminal
  MaxStages,     \* bound on the progress events before, and during, the run
  WakesPerBeat,  \* wakes of the drain cadence per heartbeat
  Probe          \* the request asks for a latency report

ASSUME StreamAssumption ==
  /\ MaxBody \in Nat /\ MaxStages \in Nat
  /\ WakesPerBeat \in Nat \ {0} /\ Probe \in BOOLEAN

\* What the user can see: text, or a tool call or rendered surface.
Output == {"OUTPUT"}
Body == Output \cup {"THINK"}
Terminal == {"RUN_FINISHED", "RUN_ERROR"}
Events == {"RUN_STARTED"} \cup Body \cup Terminal
\* What the producer puts when the generator has ended or raised.
Ends == {"END", "FAIL"}
Frames == Events \cup {"SESSION_META", "STAGE", "HEARTBEAT", "LATENCY_REPORT"}

VARIABLES
  foundExisting,  \* the request's sessionId names a session (found_existing_session)
  source,    \* the agent's generator
  yielded,   \* the events it has yielded
  producer,  \* the task that pulls it, and the item it is putting
  queue,     \* asyncio.Queue(maxsize=1)
  reader,    \* the locals of stream_agui_events
  stages,    \* progress events queued on the LatencyTracker
  marked,    \* progress events the run has queued in all
  wire,      \* the frames sent; consecutive heartbeats count as one
  silent,    \* wakes since the last frame
  request    \* the HTTP response

vars == <<foundExisting, source, yielded, producer, queue, reader, stages, marked, wire,
          silent, request>>

Reader ==
  [first : BOOLEAN,              \* first_agui_event_seen
   produced : BOOLEAN,           \* produced_output
   terminal : BOOLEAN,           \* terminal_event_yielded
   since : 0..WakesPerBeat,      \* since_hb, in wakes
   buffered : 0..MaxStages]      \* buffered_pre_agent

\* The types of the state.
TypeOK ==
  /\ foundExisting \in BOOLEAN
  /\ source \in {"running", "returned", "raised", "closed"}
  /\ yielded \in Seq(Events)
  /\ producer \in [pc : {"pull", "put", "done"}, hand : Events \cup Ends]
  /\ queue \in Seq(Events \cup Ends) /\ Len(queue) <= 1
  /\ reader \in Reader
  /\ stages \in 0..marked /\ marked \in 0..MaxStages
  /\ wire \in Seq(Frames)
  /\ silent \in Nat
  /\ request \in {"streaming", "ended", "closing", "done", "broken", "gone"}

\* Progress events queued before the generator starts are drained into the
\* buffer at once.
Init ==
  /\ foundExisting \in BOOLEAN
  /\ source = "running"
  /\ yielded = <<>>
  /\ producer = [pc |-> "pull", hand |-> "END"]
  /\ queue = <<>>
  /\ \E n \in 0..MaxStages :
       reader = [first |-> FALSE, produced |-> FALSE, terminal |-> FALSE,
                 since |-> 0, buffered |-> n]
  /\ stages = 0
  /\ marked = 0
  /\ wire = <<>>
  /\ silent = 0
  /\ request = "streaming"

-----------------------------------------------------------------------------
(* The agent's generator, as the code around it assumes it to be.  It opens  *)
(* with RUN_STARTED, may follow a RUN_ERROR by a RUN_FINISHED, and raises    *)
(* only before its terminal event.                                           *)

Has(frames, kinds) == \E i \in DOMAIN frames : frames[i] \in kinds
HasTerminal(frames) == Has(frames, Terminal)

MayYield(e) ==
  \/ yielded = <<>> /\ e = "RUN_STARTED"
  \/ /\ yielded # <<>> /\ ~HasTerminal(yielded)
     /\ e \in Terminal \/ (e \in Body /\ Len(yielded) <= MaxBody)
  \/ yielded # <<>> /\ Last(yielded) = "RUN_ERROR" /\ e = "RUN_FINISHED"

SourceYield(e) ==
  /\ producer.pc = "pull" /\ source = "running"
  /\ MayYield(e)
  /\ yielded' = Append(yielded, e)
  /\ producer' = [pc |-> "put", hand |-> e]
  /\ UNCHANGED <<foundExisting, marked, source, queue, reader, stages, wire, silent, request>>

\* produce() notes the end of the generator, or its exception, as an item of
\* its own.
ErrorLost(end) ==
  producer' = IF end = "FAIL" THEN [producer EXCEPT !.pc = "done"]
                              ELSE [pc |-> "put", hand |-> end]
Ended(end) == producer' = [pc |-> "put", hand |-> end]

SourceReturn ==
  /\ producer.pc = "pull" /\ source = "running"
  /\ HasTerminal(yielded)
  /\ source' = "returned"
  /\ Ended("END")
  /\ UNCHANGED <<foundExisting, marked, yielded, queue, reader, stages, wire, silent, request>>

SourceRaise ==
  /\ producer.pc = "pull" /\ source = "running"
  /\ ~HasTerminal(yielded)
  /\ source' = "raised"
  /\ Ended("FAIL")
  /\ UNCHANGED <<foundExisting, marked, yielded, queue, reader, stages, wire, silent, request>>

\* A callback or tool of the running agent marks a stage with a label.
Mark ==
  /\ source = "running" /\ yielded # <<>>
  /\ marked < MaxStages
  /\ stages' = stages + 1 /\ marked' = marked + 1
  /\ UNCHANGED <<foundExisting, source, yielded, producer, queue, reader, wire,
                silent, request>>

-----------------------------------------------------------------------------
(* poll_stream *)

\* A put waits for the slot to be free.
PutOver == queue' = <<producer.hand>>
PutWaiting == queue = <<>> /\ queue' = <<producer.hand>>

Put ==
  /\ producer.pc = "put"
  /\ PutWaiting
  /\ producer' = [producer EXCEPT !.pc = IF producer.hand \in Ends THEN "done"
                                                                   ELSE "pull"]
  /\ UNCHANGED <<foundExisting, marked, source, yielded, reader, stages, wire, silent,
                request>>

-----------------------------------------------------------------------------
(* stream_agui_events *)

Repeat(frame, n) == [i \in 1..n |-> frame]

\* The response opens when its first event is there.  It opens with session_meta
\* for a request that named a session, and never for the threadId that the web
\* client sends with every fresh chat.
AlwaysAnnounced(frames) == IF frames = <<>> THEN <<"SESSION_META">> ELSE frames
Announced(frames) ==
  IF foundExisting /\ frames = <<>> THEN <<"SESSION_META">> ELSE frames

\* The run has shown something; thinking alone is no answer.
Shows(e) == e \in Output

\* The frames an agent event becomes, and the reader after it: dropped after a
\* terminal; an empty finish becomes an error; any other event is followed by
\* the buffered and the waiting progress events.
WithProgress(e) == <<e>> \o Repeat("STAGE", reader.buffered + stages)

Handled(e) ==
  LET seen == [reader EXCEPT !.first = TRUE, !.produced = @ \/ Shows(e)] IN
  IF reader.terminal THEN
    /\ reader' = seen
    /\ UNCHANGED <<wire, stages, silent>>
  ELSE IF e \in Terminal THEN
    /\ reader' = [seen EXCEPT !.terminal = TRUE]
    /\ wire' = Append(Announced(wire), IF seen.produced THEN e ELSE "RUN_ERROR")
    /\ silent' = 0
    /\ UNCHANGED stages
  ELSE
    /\ reader' = [seen EXCEPT !.buffered = 0]
    /\ wire' = Announced(wire) \o WithProgress(e)
    /\ stages' = 0
    /\ silent' = 0

DeliverEvent ==
  /\ request = "streaming"
  /\ queue # <<>> /\ Head(queue) \in Events
  /\ Handled(Head(queue))
  /\ queue' = <<>>
  /\ UNCHANGED <<foundExisting, marked, source, yielded, producer, request>>

DeliverEnd ==
  /\ request = "streaming"
  /\ queue = <<"END">>
  /\ queue' = <<>>
  /\ request' = "ended"
  /\ UNCHANGED <<foundExisting, marked, source, yielded, producer, reader, stages, wire,
                silent>>

\* The exception leaves stream_agui_events.  process_skill_request translates
\* a budget refusal or an API error; any other exception breaks the response.
DeliverFail ==
  /\ request = "streaming"
  /\ queue = <<"FAIL">>
  /\ queue' = <<>>
  /\ \/ wire' = Append(Announced(wire), "RUN_ERROR") /\ request' = "ended"
     \/ wire' = wire /\ request' = "broken"
  /\ UNCHANGED <<foundExisting, marked, source, yielded, producer, reader, stages, silent>>

\* A wake keeps quiet before the first event and after the terminal one.
Quiet == reader.terminal \/ ~reader.first

\* The heartbeat is due; the comparison allows for rounding of the sum.  A
\* heartbeat stands for itself and the "Thinking..." label that may go with it.
BeatDueLate(since) == since > WakesPerBeat
BeatDue(since) == since >= WakesPerBeat

Beat(frames) ==
  IF frames # <<>> /\ Last(frames) = "HEARTBEAT" THEN frames
  ELSE Append(frames, "HEARTBEAT")

\* The queue stayed empty for one drain interval: flush what is waiting, and
\* send the heartbeat when its turn has come.
Idle ==
  LET since == reader.since + 1
      flushed == wire \o Repeat("STAGE", stages)
  IN /\ request = "streaming"
     /\ queue = <<>>
     /\ ~Quiet
     /\ stages' = 0
     /\ reader' = [reader EXCEPT !.since = IF BeatDue(since) THEN 0 ELSE since]
     /\ wire' = IF BeatDue(since) THEN Beat(flushed) ELSE flushed
     /\ silent' = IF BeatDue(since) \/ stages > 0 THEN 0 ELSE silent + 1
     /\ UNCHANGED <<foundExisting, marked, source, yielded, producer, queue, request>>

-----------------------------------------------------------------------------
(* stream_skill *)

\* The event generators are exhausted: the optional report, then the end.
Report ==
  /\ request = "ended"
  /\ wire' = IF Probe THEN Append(wire, "LATENCY_REPORT") ELSE wire
  /\ request' = "done"
  /\ UNCHANGED <<foundExisting, marked, source, yielded, producer, queue, reader, stages,
                silent>>

\* The client goes away from an open response.
Disconnect ==
  /\ request = "streaming" /\ wire # <<>>
  /\ request' = "closing"
  /\ UNCHANGED <<foundExisting, marked, source, yielded, producer, queue, reader, stages,
                wire, silent>>

\* Closing the generators cancels the producer, wherever it waits, and closes
\* the agent's generator in the producer's own task.
Close ==
  /\ request = "closing"
  /\ producer' = [producer EXCEPT !.pc = "done"]
  /\ source' = IF source = "running" THEN "closed" ELSE source
  /\ request' = "gone"
  /\ UNCHANGED <<foundExisting, marked, yielded, queue, reader, stages, wire, silent>>

-----------------------------------------------------------------------------

Deliver == DeliverEvent \/ DeliverEnd \/ DeliverFail

Next ==
  \/ \E e \in Events : SourceYield(e)
  \/ SourceReturn
  \/ SourceRaise
  \/ Mark
  \/ Put
  \/ DeliverEvent
  \/ DeliverEnd
  \/ DeliverFail
  \/ Idle
  \/ Report
  \/ Disconnect
  \/ Close

\* The event loop runs every ready task; the agent itself may take for ever.
Fairness ==
  /\ WF_vars(Put) /\ WF_vars(Deliver) /\ WF_vars(Report) /\ WF_vars(Close)

Spec == Init /\ [][Next]_vars /\ Fairness

-----------------------------------------------------------------------------
(* Properties *)

\* Where a sequence has the events that are relayed as they are.
Relayed(frames) == {i \in DOMAIN frames : frames[i] \in Body \cup {"RUN_STARTED"}}

\* The client sees the agent's events as the agent yielded them, none lost or
\* overtaken between the producer, the slot and the wakes, and all of them when
\* the run has ended normally (stream_poll.py:14-63).
EventsInOrder ==
  LET seen == Relayed(wire)
      made == Relayed(yielded) IN
  \E origin \in [seen -> made] :
    /\ \A i \in seen :
         wire[i] = yielded[origin[i]] /\ \A j \in seen : j < i => origin[j] < origin[i]
    /\ \A k \in made \ {origin[i] : i \in seen} :
         /\ \A i \in seen : origin[i] < k
         /\ ~(request = "done" /\ source = "returned")

\* The frames of the run, behind the one that announces a resumed session.
Run == IF foundExisting /\ wire # <<>> THEN Tail(wire) ELSE wire

\* What the client makes of the frames: a first frame that is neither
\* RUN_STARTED nor the error of a refused run leaves it in no phase it knows,
\* and so does session_meta in a fresh chat, or its absence from a resumed one.
Phase ==
  IF Run = <<>> THEN "idle"
  ELSE IF foundExisting /\ wire[1] # "SESSION_META" THEN "rejected"
  ELSE IF Run[1] \notin {"RUN_STARTED", "RUN_ERROR"} THEN "rejected"
  ELSE IF ~HasTerminal(Run) THEN "running"
  ELSE IF Has(Run, {"RUN_FINISHED"}) THEN "finished" ELSE "failed"

Answered == Has(Run, Output)

Response ==
  IF request \in {"broken", "gone"} THEN "cut"
  ELSE IF request = "done" THEN "complete" ELSE "open"

Client == INSTANCE RunProtocol
  WITH phase <- Phase, frames <- Len(Run), answered <- Answered, response <- Response

\* The stream keeps the client's protocol: a fresh chat opens with RUN_STARTED
\* and nothing before it, a resumed session with session_meta and then
\* RUN_STARTED; neither a buffered progress event nor a heartbeat precedes it, no
\* second terminal, late progress event, heartbeat or report follows the terminal
\* one, a finish comes after something to see, and a response that completed said
\* how the run ended (agui.py:66-71, 316-345; fast_api_app.py:738-752, 806-817).
KeepsProtocol == Client!Spec

\* While the run is open the wire is never idle for a whole heartbeat interval,
\* however events, progress flushes and wakes mix (agui.py:60-65).
BoundedSilence == reader.first /\ ~reader.terminal => silent < WakesPerBeat

\* The end of the agent, its exception, or the loss of the client always ends
\* the response and the producer: no heartbeats for ever after an error, no
\* task left at a full slot (stream_poll.py:34-40, 60-63).
StreamSettles ==
  (source \in {"returned", "raised"} \/ request = "closing") ~>
    (request \in {"done", "broken", "gone"} /\ producer.pc = "done")
=============================================================================
