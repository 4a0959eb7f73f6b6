----------------------------- MODULE ApPipeline -----------------------------
(***************************************************************************)
(* The accounts-payable session: what one chat turn does to the ADK        *)
(* session state, the document artifacts and the chat_sessions index.      *)
(*                                                                         *)
(* A turn is one request.  The request handler makes sure the index row    *)
(* exists, then the ADK runner takes a snapshot of the session state and   *)
(* runs the orchestrator, which answers or transfers to the pipeline       *)
(* extractor -> validator -> poster behind the intake gate.  Every agent   *)
(* runs the same callbacks: session tracker and document loader before,    *)
(* response counter and structured extraction after.  The callbacks and    *)
(* the emit tools write the snapshot; the writes reach the stored state    *)
(* only when the runner appends the event that carries them (Publish).     *)
(***************************************************************************)
EXTENDS Naturals

CONSTANTS
  Sessions,       \* chat threads
  Docs,           \* parsed documents a request may attach
  Turns,          \* requests, each used once
  Backend,        \* "memory": InMemorySessionService, "vertex": Agent Engine
  ArtifactBucket, \* artifacts live in GCS and survive a restart
  FlakyDocs,      \* documents whose load or artifact probe may fail
  IndexFaults,    \* Firestore calls on chat_sessions may fail
  ReadsBlocks,    \* the extractor may ask for the document as blocks
  Concurrent,     \* a session may have several turns in flight
  MaxRestarts,    \* bound on process restarts
  Shared,         \* the one store that holds app: keys in memory
  None            \* absent key, absent payload

ASSUME PipelineAssumption ==
  /\ Backend \in {"memory", "vertex"}
  /\ ArtifactBucket \in BOOLEAN /\ IndexFaults \in BOOLEAN
  /\ ReadsBlocks \in BOOLEAN /\ Concurrent \in BOOLEAN
  /\ FlakyDocs \subseteq Docs
  /\ MaxRestarts \in Nat
  /\ Shared \notin Sessions

Specialists == {"extractor", "validator", "poster"}
Agents == Specialists \cup {"orchestrator"}

\* The agent that runs after a specialist: SequentialAgent walks its list, and
\* the transfer returns into the orchestrator's own run.
Successor ==
  [extractor |-> "validator", validator |-> "poster", poster |-> "orchestrator"]

\* A schema for whoever runs, the orchestrator included.
SchemaOfEveryAgent(agent) == agent

\* The extraction schema a skill declares; the orchestrator declares none.
SchemaOf(agent) == IF agent \in Specialists THEN agent ELSE None

-----------------------------------------------------------------------------
(* State kept under app: keys, and the values each key takes. *)

\* An emitted result, known by the turn that wrote it and the documents that
\* were loaded when it was written.
Payload == [by : Turns, docs : SUBSET Docs]

AppState ==
  [loaded      : SUBSET Docs,                    \* app:docs_loaded
   errors      : (SUBSET Docs) \cup {None},       \* app:doc_load_error
   emitted     : [Specialists -> Payload \cup {None}],
                                                 \* app:emitted:*
   initialized : BOOLEAN,                        \* app:chat_session_initialized
   turns       : Nat,                            \* app:chat_session_turn_count
   schema      : Specialists \cup {None}]        \* app:extraction_schema

EmptyApp ==
  [loaded |-> {}, errors |-> None, emitted |-> [a \in Specialists |-> None],
   initialized |-> FALSE, turns |-> 0, schema |-> None]

\* The keys a callback can have written since the last appended event; an
\* emitted result goes by the name of its specialist.
Keys ==
  Specialists \cup {"loaded", "errors", "initialized", "turns", "schema",
                    "titleSet"}

\* Keys without a prefix belong to one session on every backend.
OwnState == [document_ids : SUBSET Docs, titleSet : BOOLEAN]
EmptyOwn == [document_ids |-> {}, titleSet |-> FALSE]

\* A row of the chat_sessions collection; of its title only whether there is one.
Row ==
  [exists : BOOLEAN, docs : SUBSET Docs, turnCount : Nat, titled : BOOLEAN]
NoRow == [exists |-> FALSE, docs |-> {}, turnCount |-> 0, titled |-> FALSE]
NewRow(docs) ==
  [exists |-> TRUE, docs |-> docs, turnCount |-> 0, titled |-> FALSE]

Pcs == {"idle", "requested", "tracker", "loader", "model", "response",
        "extract", "publish", "done"}

TurnState ==
  [pc : Pcs, resume : Pcs, session : Sessions \cup {None},
   asked : SUBSET Docs, agent : Agents,
   view : AppState, own : OwnState, delta : SUBSET Keys,
   blocks : BOOLEAN,                       \* temp:document_blocks is set
   extracted : SUBSET (Agents \X Specialists),
                                           \* fallback runs: agent and schema
   newDocs : SUBSET Docs]                  \* what the turn's first load found

IdleTurn ==
  [pc |-> "idle", resume |-> "idle", session |-> None, asked |-> {},
   agent |-> "orchestrator", view |-> EmptyApp, own |-> EmptyOwn,
   delta |-> {}, blocks |-> FALSE, extracted |-> {}, newDocs |-> {}]

VARIABLES
  app,        \* the stored app: keys, per store
  sess,       \* the stored unprefixed keys, per session
  artifacts,  \* the documents whose artifact exists, per session
  index,      \* chat_sessions, per session
  turn,       \* the turns
  restarts

vars == <<app, sess, artifacts, index, turn, restarts>>

Stores == Sessions \cup {Shared}

\* InMemorySessionService keeps app: keys once per application; Agent Engine
\* keeps them with the session.
Home(s) == IF Backend = "memory" THEN Shared ELSE s

InFlight(t) == turn[t].pc \notin {"idle", "done"}
HasRun(t) == turn[t].pc \notin {"idle", "requested", "done"}

\* The document loader of the turn's first agent has returned.
Ready(t) ==
  /\ HasRun(t)
  /\ turn[t].agent = "orchestrator" => turn[t].pc \notin {"tracker", "loader"}

Finished(t) == [IdleTurn EXCEPT !.pc = "done", !.session = turn[t].session]

\* The outcomes of a Firestore call on chat_sessions.
Outcomes == IF IndexFaults THEN BOOLEAN ELSE {TRUE}

\* The types of the state, whatever the code writes there.
TypeOK ==
  /\ app \in [Stores -> AppState]
  /\ sess \in [Sessions -> OwnState]
  /\ artifacts \in [Sessions -> SUBSET Docs]
  /\ index \in [Sessions -> Row]
  /\ turn \in [Turns -> TurnState]
  /\ \A t \in Turns : turn[t].pc # "idle" => turn[t].session \in Sessions
  /\ restarts \in 0..MaxRestarts

Init ==
  /\ app = [h \in Stores |-> EmptyApp]
  /\ sess = [s \in Sessions |-> EmptyOwn]
  /\ artifacts = [s \in Sessions |-> {}]
  /\ index = [s \in Sessions |-> NoRow]
  /\ turn = [t \in Turns |-> IdleTurn]
  /\ restarts = 0

-----------------------------------------------------------------------------
(* The request. *)

\* A request whose documents replace those of the row.
EnsuredReplacing(s, docs) ==
  IF index[s].exists THEN [index[s] EXCEPT !.docs = docs] ELSE NewRow(docs)

\* _ensure_session_index: create the row with this turn's documents, or add
\* them to the row that is there.  A failed read gives up; a failed write is
\* swallowed.
Ensured(s, docs) ==
  IF index[s].exists THEN [index[s] EXCEPT !.docs = @ \cup docs]
                     ELSE NewRow(docs)

\* process_skill_request up to the agent run: the row is written before the
\* stream opens.
Request(t, s, docs) ==
  /\ turn[t].pc = "idle"
  /\ Concurrent \/ \A u \in Turns : turn[u].session = s => ~InFlight(u)
  /\ \E ok \in Outcomes :
       index' = IF ok THEN [index EXCEPT ![s] = Ensured(s, docs)] ELSE index
  /\ turn' = [turn EXCEPT ![t].pc = "requested", ![t].session = s,
                          ![t].asked = docs]
  /\ UNCHANGED <<app, sess, artifacts, restarts>>

\* ag_ui_adk stores the wire state (document_ids only when the request names
\* some), then the runner takes its snapshot of the session.
OpenRun(t) ==
  LET s == turn[t].session
      own == IF turn[t].asked = {}
             THEN sess[s]
             ELSE [sess[s] EXCEPT !.document_ids = turn[t].asked]
  IN /\ turn[t].pc = "requested"
     /\ sess' = [sess EXCEPT ![s] = own]
     /\ turn' = [turn EXCEPT ![t].pc = "tracker", ![t].own = own,
                             ![t].view = app[Home(s)]]
     /\ UNCHANGED <<app, artifacts, index, restarts>>

-----------------------------------------------------------------------------
(* Before an agent runs. *)

\* A tracker that starts every turn anew and does not look for the row.
TrackEveryTurn(t) ==
  /\ turn[t].pc = "tracker"
  /\ turn' = [turn EXCEPT
       ![t].pc = "loader", ![t].view.initialized = TRUE,
       ![t].view.turns = IF turn[t].agent = "orchestrator" THEN 0 ELSE @,
       ![t].delta = @ \cup {"initialized", "turns"}]
  /\ UNCHANGED <<app, sess, artifacts, index, restarts>>

\* make_session_tracker, once per session: an existing row is left alone, and
\* a read that fails is taken for a missing row.  Then
\* _set_extraction_schema_in_state writes this agent's schema.
TrackSession(t) ==
  LET s == turn[t].session
      view == [turn[t].view EXCEPT !.schema = SchemaOf(turn[t].agent)]
      step(v, keys) ==
        turn' = [turn EXCEPT ![t].pc = "loader", ![t].view = v,
                             ![t].delta = @ \cup keys \cup {"schema"}]
      initialised ==
        step([view EXCEPT !.initialized = TRUE, !.turns = 0],
             {"initialized", "turns"})
  IN /\ turn[t].pc = "tracker"
     /\ \/ /\ view.initialized
           /\ step(view, {}) /\ UNCHANGED index
        \/ /\ ~view.initialized
           /\ index[s].exists
           /\ initialised /\ UNCHANGED index
        \/ /\ ~view.initialized
           /\ ~index[s].exists \/ IndexFaults
           /\ \/ /\ initialised
                 /\ index' = [index EXCEPT ![s] =
                                NewRow(turn[t].own.document_ids)]
              \/ /\ IndexFaults
                 /\ step(view, {}) /\ UNCHANGED index
     /\ UNCHANGED <<app, sess, artifacts, restarts>>

\* The orphan probe: a loaded id keeps its place only if its artifact answers.
ProbedByListOnly(loaded, stored, unread) == loaded
Probed(loaded, stored, unread) == (loaded \cap stored) \ unread

\* What is left to load of the documents the session has open.
EveryOpenDocument(open, loaded) == open
ToLoad(open, loaded) == open \ loaded

\* The error map after a load: failures are added, a success clears its own.
ErrorsNeverCleared(errors, failed, saved) == errors \cup failed
ErrorsAfter(errors, failed, saved) == (errors \cup failed) \ saved

\* A new document makes room for its own results: all three keys go.
ClearedInvoiceOnly(emitted) == [emitted EXCEPT !["extractor"] = None]
Cleared(emitted) == [a \in Specialists |-> None]

\* The keys the clear touches: those present in the snapshot.
Present(emitted) == {a \in Specialists : emitted[a] # None}

\* The loader when nothing is left to load: the verified list is all it writes.
LoadNothing(t, loaded) ==
  /\ turn' = [turn EXCEPT
       ![t].pc = "publish", ![t].resume = "model",
       ![t].view.loaded = loaded,
       ![t].delta = @ \cup {"loaded"}]
  /\ UNCHANGED <<artifacts, index>>

\* The loader with documents to load: clear the emitted results, save what can
\* be loaded, note what cannot, tell the index row (best effort).
LoadSome(t, loaded, toLoad, failed, ok) ==
  LET s == turn[t].session
      view == turn[t].view
      saved == toLoad \ failed
      errors == ErrorsAfter(IF view.errors = None THEN {} ELSE view.errors,
                            failed, saved)
      noted == errors # {} \/ view.errors # None
      after == [view EXCEPT !.loaded = loaded \cup saved,
                            !.errors = IF noted THEN errors ELSE None,
                            !.emitted = Cleared(view.emitted)]
      written == {"loaded"} \cup Present(view.emitted)
                   \cup (IF noted THEN {"errors"} ELSE {})
  IN /\ artifacts' = [artifacts EXCEPT ![s] = @ \cup saved]
     /\ index' = IF ok /\ index[s].exists
                 THEN [index EXCEPT ![s].docs = @ \cup saved] ELSE index
     /\ turn' = [turn EXCEPT
          ![t].pc = "publish", ![t].resume = "model", ![t].view = after,
          ![t].delta = @ \cup written,
          ![t].newDocs = IF turn[t].agent = "orchestrator" THEN toLoad ELSE @]

\* make_document_loader, run before every agent of the turn.  A probe or a load
\* fails for flaky documents only.
LoadDocuments(t) ==
  LET view == turn[t].view IN
  /\ turn[t].pc = "loader"
  /\ \E unread \in SUBSET (view.loaded \cap FlakyDocs) :
       LET loaded == Probed(view.loaded, artifacts[turn[t].session], unread)
           toLoad == ToLoad(turn[t].own.document_ids, loaded)
       IN \/ toLoad = {} /\ LoadNothing(t, loaded)
          \/ /\ toLoad # {}
             /\ \E failed \in SUBSET (toLoad \cap FlakyDocs), ok \in Outcomes :
                  LoadSome(t, loaded, toLoad, failed, ok)
  /\ UNCHANGED <<app, sess, restarts>>

-----------------------------------------------------------------------------
(* The event that carries the writes of a callback or a tool. *)

\* The keys written since the last event replace the stored ones; the other
\* stored keys keep what other turns wrote there meanwhile.
Merged(stored, view, keys) ==
  [loaded      |-> IF "loaded" \in keys THEN view.loaded ELSE stored.loaded,
   errors      |-> IF "errors" \in keys THEN view.errors ELSE stored.errors,
   emitted     |-> [a \in Specialists |->
                      IF a \in keys THEN view.emitted[a]
                                    ELSE stored.emitted[a]],
   initialized |-> IF "initialized" \in keys
                   THEN view.initialized ELSE stored.initialized,
   turns       |-> IF "turns" \in keys THEN view.turns ELSE stored.turns,
   schema      |-> IF "schema" \in keys THEN view.schema ELSE stored.schema]

\* The runner appends the event: append_event stores its state delta.  The
\* turn goes on from its own snapshot, which it does not read again.
Publish(t) ==
  LET s == turn[t].session
      keys == turn[t].delta
  IN /\ turn[t].pc = "publish"
     /\ app' = [app EXCEPT ![Home(s)] = Merged(@, turn[t].view, keys)]
     /\ sess' = [sess EXCEPT ![s].titleSet =
                   IF "titleSet" \in keys THEN turn[t].own.titleSet ELSE @]
     /\ turn' = IF turn[t].resume = "done"
                THEN [turn EXCEPT ![t] = Finished(t)]
                ELSE [turn EXCEPT ![t].pc = turn[t].resume, ![t].delta = {}]
     /\ UNCHANGED <<artifacts, index, restarts>>

-----------------------------------------------------------------------------
(* While an agent's model runs. *)

\* get_document_content in blocks mode, a tool of the extractor: temp: keys
\* last for the rest of the turn and are never stored.
ReadBlocks(t) ==
  /\ ReadsBlocks
  /\ turn[t].pc = "model"
  /\ turn[t].agent = "extractor"
  /\ turn' = [turn EXCEPT ![t].blocks = TRUE]
  /\ UNCHANGED <<app, sess, artifacts, index, restarts>>

\* A specialist calls its emit tool.  With the key set already the tool
\* answers STOP and writes nothing.
Emit(t) ==
  LET a == turn[t].agent IN
  /\ turn[t].pc = "model"
  /\ a \in Specialists
  /\ turn[t].view.emitted[a] = None
  /\ turn' = [turn EXCEPT
       ![t].pc = "publish", ![t].resume = "model",
       ![t].view.emitted[a] = [by |-> t, docs |-> turn[t].view.loaded],
       ![t].delta = @ \cup {a}]
  /\ UNCHANGED <<app, sess, artifacts, index, restarts>>

\* The orchestrator transfers to the pipeline and the intake gate looks for a
\* loaded document: without one its reply ends the pipeline at once.
Transfer(t) ==
  /\ turn[t].pc = "model"
  /\ turn[t].agent = "orchestrator"
  /\ turn' = IF turn[t].view.loaded = {}
             THEN [turn EXCEPT ![t].pc = "response"]
             ELSE [turn EXCEPT ![t].pc = "tracker", ![t].agent = "extractor"]
  /\ UNCHANGED <<app, sess, artifacts, index, restarts>>

-----------------------------------------------------------------------------
(* After an agent has run. *)

FlushInterval == 5

NeedsTitle(count, titled) == count = 2 \/ (count >= 4 /\ ~titled)

\* _flush_session_index on an existing row: the fields (counter, title when one
\* was found) and the documents are two writes, each of which may fail.
Flushed(row, count, title, documents, fields, docs) ==
  [exists    |-> TRUE,
   docs      |-> IF docs THEN row.docs \cup documents ELSE row.docs,
   turnCount |-> IF fields THEN count ELSE row.turnCount,
   titled    |-> row.titled \/ (fields /\ title)]

\* What the counting callback writes, having found a title or not.
Counted(t, title) ==
  turn' = [turn EXCEPT
    ![t].pc = "extract",
    ![t].view.turns = @ + 1,
    ![t].own.titleSet = @ \/ title,
    ![t].delta = @ \cup {"turns"} \cup (IF title THEN {"titleSet"} ELSE {})]

\* _try_generate_title: the vendor of the emitted invoice, else what the LLM
\* answers; an invoice may have no vendor and the LLM no answer.
TitlesFound(needs) == IF needs THEN BOOLEAN ELSE {FALSE}

\* make_after_agent_response, once the agent's model has ended its turn (having
\* emitted or not) or the pipeline has returned to the orchestrator: count the
\* response; on a flush turn write the counter, the title if one was needed and
\* found, and the documents.
CountResponse(t) ==
  LET s == turn[t].session
      count == turn[t].view.turns + 1
      needs == NeedsTitle(count, turn[t].own.titleSet)
      flush == needs \/ count % FlushInterval = 0
  IN /\ turn[t].pc \in {"model", "response"}
     /\ \/ /\ ~turn[t].view.initialized
           /\ turn' = [turn EXCEPT ![t].pc = "extract"]
           /\ UNCHANGED index
        \/ /\ turn[t].view.initialized
           /\ ~(flush /\ index[s].exists)
           /\ \E title \in TitlesFound(needs) : Counted(t, title)
           /\ UNCHANGED index
        \/ /\ turn[t].view.initialized
           /\ flush /\ index[s].exists
           /\ \E title \in TitlesFound(needs),
                 fields \in Outcomes, docs \in Outcomes :
                /\ Counted(t, title)
                /\ index' = [index EXCEPT ![s] =
                     Flushed(@, count, title, turn[t].own.document_ids,
                             fields, docs)]
     /\ UNCHANGED <<app, sess, artifacts, restarts>>

\* structured_extraction_callback runs the second model pass when a schema is
\* set, nothing was emitted and the blocks are at hand.
FallbackRuns(t) ==
  /\ turn[t].view.schema # None
  /\ \A a \in Specialists : turn[t].view.emitted[a] = None
  /\ turn[t].blocks

\* The callback, then the event with the after-agent writes, then the next
\* agent: the next specialist, the end of the orchestrator, or the end.
StructuredExtraction(t) ==
  LET a == turn[t].agent
      next == IF a = "orchestrator" THEN "done"
              ELSE IF a = "poster" THEN "response" ELSE "tracker"
  IN /\ turn[t].pc = "extract"
     /\ turn' = [turn EXCEPT
          ![t].pc = "publish", ![t].resume = next,
          ![t].agent = IF a = "orchestrator" THEN a ELSE Successor[a],
          ![t].extracted = IF FallbackRuns(t)
                           THEN @ \cup {<<a, turn[t].view.schema>>} ELSE @]
     /\ UNCHANGED <<app, sess, artifacts, index, restarts>>

-----------------------------------------------------------------------------
(* What ends a turn early. *)

\* An exception in the run (budget, upstream API) ends the turn; what has not
\* been published is lost, what went to artifacts and index stays.
Abort(t) ==
  /\ HasRun(t)
  /\ turn' = [turn EXCEPT ![t] = Finished(t)]
  /\ UNCHANGED <<app, sess, artifacts, index, restarts>>

\* The process restarts: turns in flight die, in-memory services are empty
\* again, Firestore is not touched.
Restart ==
  /\ restarts < MaxRestarts
  /\ restarts' = restarts + 1
  /\ turn' = [t \in Turns |-> IF InFlight(t) THEN Finished(t) ELSE turn[t]]
  /\ IF Backend = "memory"
     THEN /\ app' = [h \in Stores |-> EmptyApp]
          /\ sess' = [s \in Sessions |-> EmptyOwn]
     ELSE UNCHANGED <<app, sess>>
  /\ artifacts' = IF ArtifactBucket THEN artifacts
                  ELSE [s \in Sessions |-> {}]
  /\ UNCHANGED index

-----------------------------------------------------------------------------

AgentStep(t) ==
  \/ OpenRun(t)
  \/ TrackSession(t)
  \/ LoadDocuments(t)
  \/ Publish(t)
  \/ ReadBlocks(t)
  \/ Emit(t)
  \/ Transfer(t)
  \/ CountResponse(t)
  \/ StructuredExtraction(t)
  \/ Abort(t)

Next ==
  \/ \E t \in Turns, s \in Sessions, docs \in SUBSET Docs : Request(t, s, docs)
  \/ \E t \in Turns : AgentStep(t)
  \/ Restart

Spec == Init /\ [][Next]_vars

-----------------------------------------------------------------------------
(* Properties *)

\* Every document a turn believes loaded has its artifact: the injector and
\* load_artifacts find what app:docs_loaded promises, also after a restart that
\* lost the artifacts but kept the list, and also when the list was written by
\* another session (the self-heal of callbacks.py:239-264).
LoadedHasArtifact ==
  \A t \in Turns :
    Ready(t) => turn[t].view.loaded \subseteq artifacts[turn[t].session]

\* After a turn has brought a new document, no specialist of that turn meets a
\* result emitted before the document arrived: "the workbench keeps showing the
\* first invoice" (callbacks.py:273-283) cannot come back.
FreshAfterNewDoc ==
  \A t \in Turns : Ready(t) /\ turn[t].newDocs # {} =>
    \A a \in Specialists :
      turn[t].view.emitted[a] # None => turn[t].view.emitted[a].by = t

\* The three stored results the audit view and the hero card put side by side
\* were each produced with every document now listed as loaded in reach: no
\* document joins the session under a result that never saw it.
EmittedCoversLoaded ==
  \A s \in Sessions, a \in Specialists :
    LET stored == app[Home(s)] IN
    stored.emitted[a] # None => stored.loaded \subseteq stored.emitted[a].docs

\* A loaded document carries no load error: a retry that succeeded has cleared
\* the error an earlier turn left (callbacks.py:338-345).
ErrorsMatchLoads ==
  \A s \in Sessions :
    LET stored == app[Home(s)] IN
    stored.errors # None => stored.errors \cap stored.loaded = {}

\* While a turn runs, the session's row exists and lists every document the
\* turn asked for, whatever other turns and the session tracker do to the row:
\* no session is stranded outside its documents' panels
\* (skill_processor.py:234-245).
AskedDocsIndexed ==
  \A t \in Turns : InFlight(t) =>
    LET row == index[turn[t].session] IN
    row.exists /\ turn[t].asked \subseteq row.docs

\* The flag that tells every later turn to leave the index alone is only stored
\* for a session that has a row, whatever calls failed and whenever the process
\* stopped: on Agent Engine, where the flag belongs to one session, no failure
\* leaves a session unlisted for good (callbacks.py:527-562).
InitializedHasRow ==
  \A s \in Sessions : app[Home(s)].initialized => index[s].exists

\* The turn counter of a row never goes back, although it is set from the
\* snapshot of a turn that may have been aborted before its events were stored
\* (callbacks.py:674-691).
CountNeverDrops ==
  [][\A s \in Sessions : index[s].turnCount <= index'[s].turnCount]_vars

\* A row is never re-created over its own history: what the index knows of a
\* session's documents, and that it has a title, stays known
\* (callbacks.py:539-544).
RowKeepsHistory ==
  [][\A s \in Sessions : index[s].exists =>
       /\ index'[s].exists
       /\ index[s].docs \subseteq index'[s].docs
       /\ index[s].titled => index'[s].titled]_vars

\* What a turn has emitted stays in its sight until the turn ends: the later
\* specialists read it, and only a new document may clear it
\* (callbacks.py:281-283).
EmissionSurvivesTurn ==
  [][\A t \in Turns, a \in Specialists :
       LET result == turn[t].view.emitted[a] IN
       (HasRun(t) /\ result # None /\ turn'[t].pc # "done") =>
         (result.by = t => turn'[t].view.emitted[a] = result)]_vars

\* The emitted payload "lives in session state" (ap_pipeline_emit.py:110-113):
\* a turn only meets results of its own session.
OwnResultsOnly ==
  \A t \in Turns : HasRun(t) =>
    \A a \in Specialists :
      LET result == turn[t].view.emitted[a] IN
      result # None => turn[result.by].session = turn[t].session

\* When a specialist ends its turn without its emit call, schema and blocks at
\* hand, the fallback runs (ap_pipeline_emit.py:32-36,
\* structured_extraction.py:77-78).
FallbackCoversForgottenEmit ==
  [][\A t \in Turns :
       LET a == turn[t].agent IN
       (/\ turn[t].pc = "extract" /\ turn'[t].pc = "publish"
        /\ a \in Specialists /\ turn[t].blocks
        /\ turn[t].view.emitted[a] = None)
       => \E sc \in Specialists : <<a, sc>> \in turn'[t].extracted]_vars

\* An agent's fallback extraction uses the schema of that agent: no specialist's
\* schema leaks into the orchestrator's response (agent.py:292-295).
SchemaIsOwn ==
  \A t \in Turns : \A run \in turn[t].extracted : run[1] = run[2]

=============================================================================
