-------------------------- MODULE ApPipelineProofs --------------------------
(***************************************************************************)
(* Proofs about ApPipeline, for every set of sessions, documents and       *)
(* turns, on both backends, with or without faults and concurrency; and    *)
(* about Budget, the gate before the model calls of a turn, for every set  *)
(* of invocations, identities and requests, any cap and any window.        *)
(***************************************************************************)
EXTENDS ApPipeline, Budget, FiniteSetTheorems, TLAPS

-----------------------------------------------------------------------------
(* Types *)

\* The initial state and the empty values have the types they are given.
LEMMA InitType == Init => TypeOK
<1> SUFFICES ASSUME Init PROVE TypeOK
  OBVIOUS
<1>1. EmptyApp \in AppState
  BY DEF EmptyApp, AppState
<1>2. EmptyOwn \in OwnState
  BY DEF EmptyOwn, OwnState
<1>3. NoRow \in Row
  BY DEF NoRow, Row
<1>4. IdleTurn \in TurnState
  BY <1>1, <1>2 DEF IdleTurn, TurnState, Pcs, Agents, Specialists, Keys
<1>5. restarts \in 0..MaxRestarts
  BY PipelineAssumption DEF Init
<1>6. QED
  BY <1>1, <1>2, <1>3, <1>4, <1>5 DEF Init, TypeOK, IdleTurn

\* A finished turn is a turn.
LEMMA FinishedType ==
  ASSUME TypeOK, NEW t \in Turns, turn[t].pc # "idle"
  PROVE  Finished(t) \in TurnState /\ Finished(t).pc = "done"
         /\ Finished(t).session = turn[t].session
         /\ Finished(t).agent = "orchestrator" /\ Finished(t).newDocs = {}
<1>1. EmptyApp \in AppState
  BY DEF EmptyApp, AppState
<1>2. EmptyOwn \in OwnState
  BY DEF EmptyOwn, OwnState
<1>3. IdleTurn \in TurnState
  BY <1>1, <1>2 DEF IdleTurn, TurnState, Pcs, Agents, Specialists, Keys
<1>4. QED
  BY <1>3 DEF TypeOK, Finished, IdleTurn, TurnState, Pcs

\* Replacing one turn by a turn of a session keeps the turns well typed.
LEMMA TurnsType ==
  ASSUME TypeOK, NEW t \in Turns, NEW r \in TurnState, r.session \in Sessions,
         turn' = [turn EXCEPT ![t] = r]
  PROVE  /\ turn' \in [Turns -> TurnState]
         /\ \A u \in Turns : turn'[u].pc # "idle" => turn'[u].session \in Sessions
BY DEF TypeOK

\* A request writes a row of the right type and no more than names a turn.
LEMMA RequestType ==
  ASSUME TypeOK, NEW t \in Turns, NEW s \in Sessions, NEW docs \in SUBSET Docs,
         Request(t, s, docs)
  PROVE  TypeOK'
<1> DEFINE r == [turn[t] EXCEPT !.pc = "requested", !.session = s,
                                !.asked = docs]
<1>1. Ensured(s, docs) \in Row
  BY DEF TypeOK, Ensured, NewRow, Row
<1>2. index' \in [Sessions -> Row]
  BY <1>1 DEF TypeOK, Request
<1>3. turn[t] \in TurnState
  BY DEF TypeOK
<1>4. r \in TurnState /\ r.session \in Sessions
  BY <1>3 DEF TurnState, Pcs
<1>5. turn' = [turn EXCEPT ![t] = r]
  BY DEF Request
<1> HIDE DEF r
<1>6. QED
  BY <1>2, <1>4, <1>5, TurnsType DEF TypeOK, Request

\* The snapshot a run takes has the type of what is stored.
LEMMA OpenRunType ==
  ASSUME TypeOK, NEW t \in Turns, OpenRun(t)
  PROVE  TypeOK'
<1> DEFINE s == turn[t].session
<1> DEFINE own == IF turn[t].asked = {} THEN sess[s]
                  ELSE [sess[s] EXCEPT !.document_ids = turn[t].asked]
<1> DEFINE r == [turn[t] EXCEPT !.pc = "tracker", !.own = own,
                                !.view = app[Home(s)]]
<1>1. turn[t] \in TurnState
  BY DEF TypeOK
<1>2. s \in Sessions /\ Home(s) \in Stores
  BY DEF TypeOK, OpenRun, Home, Stores
<1>3. sess[s] \in OwnState /\ turn[t].asked \in SUBSET Docs
  BY <1>1, <1>2 DEF TypeOK, TurnState
<1>4. own \in OwnState
  BY <1>3 DEF OwnState
<1>5. app[Home(s)] \in AppState
  BY <1>2 DEF TypeOK
<1>6. /\ turn' = [turn EXCEPT ![t] = r] /\ sess' = [sess EXCEPT ![s] = own]
      /\ UNCHANGED <<app, artifacts, index, restarts>>
  BY DEF OpenRun
<1> HIDE DEF own
<1>7. r \in TurnState /\ r.session \in Sessions
  BY <1>1, <1>2, <1>4, <1>5 DEF TurnState, Pcs
<1> HIDE DEF r, s
<1>8. QED
  BY <1>2, <1>4, <1>6, <1>7, TurnsType DEF TypeOK

\* The tracker keeps the types, whatever row it finds or creates.
LEMMA TrackSessionType ==
  ASSUME TypeOK, NEW t \in Turns, TrackSession(t)
  PROVE  TypeOK'
<1> DEFINE s == turn[t].session
<1> DEFINE view == [turn[t].view EXCEPT !.schema = SchemaOf(turn[t].agent)]
<1> DEFINE r(v, keys) == [turn[t] EXCEPT !.pc = "loader", !.view = v,
                              !.delta = @ \cup keys \cup {"schema"}]
<1> DEFINE started == [view EXCEPT !.initialized = TRUE, !.turns = 0]
<1>1. turn[t] \in TurnState /\ s \in Sessions
  BY DEF TypeOK, TrackSession
<1>2. turn[t].view \in AppState /\ turn[t].agent \in Agents
      /\ turn[t].own \in OwnState
  BY <1>1 DEF TurnState
<1>3. SchemaOf(turn[t].agent) \in Specialists \cup {None}
  BY <1>2 DEF SchemaOf
<1>4. view \in AppState
  BY <1>2, <1>3 DEF AppState
<1> HIDE DEF view
<1>5. started \in AppState
  BY <1>4 DEF AppState
<1> HIDE DEF started
<1>6. ASSUME NEW v \in AppState, NEW keys \in SUBSET Keys
      PROVE  r(v, keys) \in TurnState /\ r(v, keys).session \in Sessions
  BY <1>1 DEF TurnState, Pcs, Keys
<1>7. /\ \/ turn' = [turn EXCEPT ![t] = r(view, {})]
         \/ turn' = [turn EXCEPT ![t] = r(started, {"initialized", "turns"})]
      /\ \/ UNCHANGED index
         \/ index' = [index EXCEPT ![s] = NewRow(turn[t].own.document_ids)]
      /\ UNCHANGED <<app, sess, artifacts, restarts>>
  BY DEF TrackSession, view, started
<1>8. NewRow(turn[t].own.document_ids) \in Row
  BY <1>2 DEF OwnState, NewRow, Row
<1>9. {} \in SUBSET Keys /\ {"initialized", "turns"} \in SUBSET Keys
  BY DEF Keys
<1>10. index' \in [Sessions -> Row]
  BY <1>1, <1>7, <1>8 DEF TypeOK
<1> HIDE DEF r, s
<1>11. PICK q \in TurnState : q.session \in Sessions /\ turn' = [turn EXCEPT ![t] = q]
  BY <1>4, <1>5, <1>6, <1>7, <1>9
<1>12. QED
  BY <1>7, <1>10, <1>11, TurnsType DEF TypeOK

\* A load that finds nothing to load keeps the types.
LEMMA LoadNothingType ==
  ASSUME TypeOK, NEW t \in Turns, turn[t].pc = "loader",
         NEW loaded \in SUBSET Docs, LoadNothing(t, loaded),
         UNCHANGED <<app, sess, restarts>>
  PROVE  TypeOK'
<1> DEFINE r == [turn[t] EXCEPT !.pc = "publish", !.resume = "model",
                   !.view.loaded = loaded, !.delta = @ \cup {"loaded"}]
<1>1. turn[t] \in TurnState /\ turn[t].session \in Sessions
  BY DEF TypeOK
<1>2. [turn[t].view EXCEPT !.loaded = loaded] \in AppState
  BY <1>1 DEF TurnState, AppState
<1>3. r \in TurnState /\ r.session \in Sessions
  BY <1>1, <1>2 DEF TurnState, Pcs, Keys
<1>4. turn' = [turn EXCEPT ![t] = r] /\ UNCHANGED <<artifacts, index>>
  BY DEF LoadNothing
<1> HIDE DEF r
<1>5. QED
  BY <1>3, <1>4, TurnsType DEF TypeOK

\* A load keeps the types, whatever fails and whatever it clears.
LEMMA LoadSomeType ==
  ASSUME TypeOK, NEW t \in Turns, turn[t].pc = "loader",
         NEW loaded \in SUBSET Docs, NEW toLoad \in SUBSET Docs,
         NEW failed \in SUBSET toLoad, NEW ok \in BOOLEAN,
         LoadSome(t, loaded, toLoad, failed, ok),
         UNCHANGED <<app, sess, restarts>>
  PROVE  TypeOK'
<1> DEFINE s == turn[t].session
<1> DEFINE view == turn[t].view
<1> DEFINE saved == toLoad \ failed
<1> DEFINE errors == ErrorsAfter(IF view.errors = None THEN {} ELSE view.errors,
                                 failed, saved)
<1> DEFINE noted == errors # {} \/ view.errors # None
<1> DEFINE v == [view EXCEPT !.loaded = loaded \cup saved,
                             !.errors = IF noted THEN errors ELSE None,
                             !.emitted = Cleared(view.emitted)]
<1> DEFINE written == {"loaded"} \cup Present(view.emitted)
                        \cup (IF noted THEN {"errors"} ELSE {})
<1> DEFINE new == IF turn[t].agent = "orchestrator" THEN toLoad
                  ELSE turn[t].newDocs
<1> DEFINE r == [turn[t] EXCEPT !.pc = "publish", !.resume = "model", !.view = v,
                   !.delta = @ \cup written, !.newDocs = new]
<1>1. turn[t] \in TurnState /\ s \in Sessions
  BY DEF TypeOK
<1>2. view \in AppState /\ new \in SUBSET Docs /\ turn[t].delta \in SUBSET Keys
  BY <1>1 DEF TurnState
<1>3. turn' = [turn EXCEPT ![t] = r]
  BY DEF LoadSome
<1>saves. artifacts' = [artifacts EXCEPT ![s] = @ \cup saved]
  BY DEF LoadSome
<1>tells. index' = IF ok /\ index[s].exists
                   THEN [index EXCEPT ![s].docs = @ \cup saved] ELSE index
  BY DEF LoadSome
<1>4. written \in SUBSET Keys
  BY DEF Keys, Present
<1>5. errors \in SUBSET Docs /\ saved \in SUBSET Docs
  BY <1>2 DEF ErrorsAfter, AppState
<1>6. Cleared(view.emitted) \in [Specialists -> Payload \cup {None}]
  BY DEF Cleared
<1> HIDE DEF errors, noted, written, new, saved
<1>7. v \in AppState
  BY <1>2, <1>5, <1>6 DEF AppState
<1> HIDE DEF v
<1>8. r \in TurnState /\ r.session \in Sessions
  BY <1>1, <1>2, <1>4, <1>7 DEF TurnState, Pcs
<1>9. index[s] \in Row /\ artifacts[s] \in SUBSET Docs
  BY <1>1 DEF TypeOK
<1>10. [index[s] EXCEPT !.docs = @ \cup saved] \in Row
  BY <1>5, <1>9 DEF Row
<1> HIDE DEF r, s
<1>11. index' \in [Sessions -> Row]
  BY <1>1, <1>tells, <1>10 DEF TypeOK
<1>12. artifacts' \in [Sessions -> SUBSET Docs]
  BY <1>1, <1>saves, <1>5, <1>9 DEF TypeOK
<1>13. QED
  BY <1>3, <1>8, <1>11, <1>12, TurnsType DEF TypeOK

\* What the loader computes from the probe and the open documents.
LEMMA LoaderSets ==
  ASSUME TypeOK, NEW t \in Turns, turn[t].pc = "loader",
         NEW unread \in SUBSET (turn[t].view.loaded \cap FlakyDocs)
  PROVE  LET loaded == Probed(turn[t].view.loaded, artifacts[turn[t].session],
                              unread)
         IN /\ loaded \in SUBSET Docs
            /\ loaded \subseteq artifacts[turn[t].session]
            /\ ToLoad(turn[t].own.document_ids, loaded) \in SUBSET Docs
<1>1. turn[t] \in TurnState /\ turn[t].session \in Sessions
  BY DEF TypeOK
<1>2. turn[t].view.loaded \in SUBSET Docs /\ turn[t].own.document_ids \in SUBSET Docs
  BY <1>1 DEF TurnState, AppState, OwnState
<1>3. QED
  BY <1>2 DEF Probed, ToLoad

\* The loader keeps the types in both of its branches.
LEMMA LoadDocumentsType ==
  ASSUME TypeOK, NEW t \in Turns, LoadDocuments(t)
  PROVE  TypeOK'
<1>1. turn[t].pc = "loader" /\ UNCHANGED <<app, sess, restarts>>
  BY DEF LoadDocuments
<1>2. PICK unread \in SUBSET (turn[t].view.loaded \cap FlakyDocs) :
        LET loaded == Probed(turn[t].view.loaded, artifacts[turn[t].session],
                             unread)
            toLoad == ToLoad(turn[t].own.document_ids, loaded)
        IN \/ LoadNothing(t, loaded)
           \/ \E failed \in SUBSET (toLoad \cap FlakyDocs), ok \in Outcomes :
                LoadSome(t, loaded, toLoad, failed, ok)
  BY DEF LoadDocuments
<1> DEFINE loaded == Probed(turn[t].view.loaded, artifacts[turn[t].session],
                            unread)
<1> DEFINE toLoad == ToLoad(turn[t].own.document_ids, loaded)
<1>3. loaded \in SUBSET Docs /\ toLoad \in SUBSET Docs
  BY <1>1, LoaderSets
<1> HIDE DEF loaded
<1>4. CASE LoadNothing(t, loaded)
  BY <1>1, <1>3, <1>4, LoadNothingType
<1>5. CASE \E failed \in SUBSET (toLoad \cap FlakyDocs), ok \in Outcomes :
             LoadSome(t, loaded, toLoad, failed, ok)
  <2>1. PICK failed \in SUBSET (toLoad \cap FlakyDocs), ok \in Outcomes :
          LoadSome(t, loaded, toLoad, failed, ok)
    BY <1>5
  <2>2. failed \in SUBSET toLoad /\ ok \in BOOLEAN
    BY DEF Outcomes
  <2> HIDE DEF toLoad
  <2>3. QED
    BY <1>1, <1>3, <2>1, <2>2, LoadSomeType
<1>6. QED
  BY <1>2, <1>4, <1>5 DEF loaded

\* What an event stores is again an app: state.
LEMMA MergedType ==
  ASSUME NEW stored \in AppState, NEW view \in AppState, NEW keys \in SUBSET Keys
  PROVE  Merged(stored, view, keys) \in AppState
BY DEF Merged, AppState

\* An appended event keeps the types of the stored state.
LEMMA PublishType ==
  ASSUME TypeOK, NEW t \in Turns, Publish(t)
  PROVE  TypeOK'
<1> DEFINE s == turn[t].session
<1> DEFINE keys == turn[t].delta
<1> DEFINE m == Merged(app[Home(s)], turn[t].view, keys)
<1> DEFINE title == IF "titleSet" \in keys THEN turn[t].own.titleSet
                    ELSE sess[s].titleSet
<1> DEFINE r == IF turn[t].resume = "done" THEN Finished(t)
                ELSE [turn[t] EXCEPT !.pc = turn[t].resume, !.delta = {}]
<1>1. turn[t] \in TurnState /\ s \in Sessions /\ Home(s) \in Stores
      /\ turn[t].pc = "publish"
  BY DEF TypeOK, Publish, Home, Stores
<1>2. /\ turn[t].view \in AppState /\ keys \in SUBSET Keys
      /\ turn[t].own \in OwnState /\ turn[t].resume \in Pcs
  BY <1>1 DEF TurnState
<1>3. app[Home(s)] \in AppState /\ sess[s] \in OwnState
  BY <1>1 DEF TypeOK
<1>4. m \in AppState
  BY <1>2, <1>3, MergedType
<1>5. [sess[s] EXCEPT !.titleSet = title] \in OwnState
  BY <1>2, <1>3 DEF OwnState
<1>6. r \in TurnState /\ r.session \in Sessions
  <2>1. [turn[t] EXCEPT !.pc = turn[t].resume, !.delta = {}] \in TurnState
    BY <1>1, <1>2 DEF TurnState
  <2>2. Finished(t) \in TurnState /\ Finished(t).session = s
    BY <1>1, FinishedType
  <2>3. QED
    BY <1>1, <2>1, <2>2 DEF TurnState
<1>7. /\ app' = [app EXCEPT ![Home(s)] = m]
      /\ sess' = [sess EXCEPT ![s] = [sess[s] EXCEPT !.titleSet = title]]
      /\ turn' = [turn EXCEPT ![t] = r]
      /\ UNCHANGED <<artifacts, index, restarts>>
  BY DEF Publish
<1> HIDE DEF m, r, title, s
<1>8. QED
  BY <1>1, <1>3, <1>4, <1>5, <1>6, <1>7, TurnsType DEF TypeOK

\* Reading a document as blocks keeps the types.
LEMMA ReadBlocksType ==
  ASSUME TypeOK, NEW t \in Turns, ReadBlocks(t)
  PROVE  TypeOK'
<1> DEFINE r == [turn[t] EXCEPT !.blocks = TRUE]
<1>1. turn[t] \in TurnState /\ turn[t].session \in Sessions
  BY DEF TypeOK, ReadBlocks
<1>2. r \in TurnState /\ r.session \in Sessions
  BY <1>1 DEF TurnState
<1>3. turn' = [turn EXCEPT ![t] = r]
      /\ UNCHANGED <<app, sess, artifacts, index, restarts>>
  BY DEF ReadBlocks
<1> HIDE DEF r
<1>4. QED
  BY <1>2, <1>3, TurnsType DEF TypeOK

\* An emitted result is a payload of its turn.
LEMMA EmitType ==
  ASSUME TypeOK, NEW t \in Turns, Emit(t)
  PROVE  TypeOK'
<1> DEFINE a == turn[t].agent
<1> DEFINE p == [by |-> t, docs |-> turn[t].view.loaded]
<1> DEFINE e == [turn[t].view.emitted EXCEPT ![a] = p]
<1> DEFINE v == [turn[t].view EXCEPT !.emitted = e]
<1> DEFINE r == [turn[t] EXCEPT !.pc = "publish", !.resume = "model",
                   !.view = v, !.delta = @ \cup {a}]
<1>1. turn[t] \in TurnState /\ turn[t].session \in Sessions /\ a \in Specialists
  BY DEF TypeOK, Emit
<1>2. turn[t].view \in AppState
  BY <1>1 DEF TurnState
<1>3. p \in Payload
  BY <1>2 DEF AppState, Payload
<1>4. turn' = [turn EXCEPT ![t] = r]
      /\ UNCHANGED <<app, sess, artifacts, index, restarts>>
  BY DEF Emit
<1> HIDE DEF p
<1>5. e \in [Specialists -> Payload \cup {None}]
  BY <1>2, <1>3 DEF AppState
<1> HIDE DEF e
<1>6. v \in AppState
  BY <1>2, <1>5 DEF AppState
<1> HIDE DEF v, a
<1>7. a \in Keys
  BY <1>1 DEF Keys
<1>8. r \in TurnState /\ r.session \in Sessions
  BY <1>1, <1>6, <1>7 DEF TurnState, Pcs
<1> HIDE DEF r
<1>9. QED
  BY <1>4, <1>8, TurnsType DEF TypeOK

\* The transfer and the intake gate keep the types.
LEMMA TransferType ==
  ASSUME TypeOK, NEW t \in Turns, Transfer(t)
  PROVE  TypeOK'
<1> DEFINE r == IF turn[t].view.loaded = {} THEN [turn[t] EXCEPT !.pc = "response"]
                ELSE [turn[t] EXCEPT !.pc = "tracker", !.agent = "extractor"]
<1>1. turn[t] \in TurnState /\ turn[t].session \in Sessions
  BY DEF TypeOK, Transfer
<1>2. r \in TurnState /\ r.session \in Sessions
  BY <1>1 DEF TurnState, Pcs, Agents, Specialists
<1>3. turn' = [turn EXCEPT ![t] = r]
      /\ UNCHANGED <<app, sess, artifacts, index, restarts>>
  BY DEF Transfer
<1> HIDE DEF r
<1>4. QED
  BY <1>2, <1>3, TurnsType DEF TypeOK

\* The end of an agent keeps the types.
LEMMA StructuredExtractionType ==
  ASSUME TypeOK, NEW t \in Turns, StructuredExtraction(t)
  PROVE  TypeOK'
<1> DEFINE a == turn[t].agent
<1> DEFINE next == IF a = "orchestrator" THEN "done"
                   ELSE IF a = "poster" THEN "response" ELSE "tracker"
<1> DEFINE b == IF a = "orchestrator" THEN a ELSE Successor[a]
<1> DEFINE x == IF FallbackRuns(t)
                THEN turn[t].extracted \cup {<<a, turn[t].view.schema>>}
                ELSE turn[t].extracted
<1> DEFINE r == [turn[t] EXCEPT !.pc = "publish", !.resume = next, !.agent = b,
                   !.extracted = x]
<1>1. turn[t] \in TurnState /\ turn[t].session \in Sessions
  BY DEF TypeOK, StructuredExtraction
<1>2. /\ turn[t].view \in AppState /\ a \in Agents
      /\ turn[t].extracted \in SUBSET (Agents \X Specialists)
  BY <1>1 DEF TurnState
<1>3. b \in Agents
  BY <1>2 DEF Successor, Agents, Specialists
<1>4. x \in SUBSET (Agents \X Specialists)
  BY <1>2 DEF FallbackRuns, AppState
<1>5. next \in Pcs
  BY DEF Pcs
<1>6. turn' = [turn EXCEPT ![t] = r]
      /\ UNCHANGED <<app, sess, artifacts, index, restarts>>
  BY DEF StructuredExtraction
<1> HIDE DEF x, next, b
<1>7. r \in TurnState /\ r.session \in Sessions
  BY <1>1, <1>3, <1>4, <1>5 DEF TurnState, Pcs
<1> HIDE DEF r
<1>8. QED
  BY <1>6, <1>7, TurnsType DEF TypeOK

\* An aborted turn keeps the types.
LEMMA AbortType ==
  ASSUME TypeOK, NEW t \in Turns, Abort(t)
  PROVE  TypeOK'
<1>1. turn[t].pc # "idle" /\ turn[t].session \in Sessions
  BY DEF TypeOK, Abort, HasRun
<1>2. Finished(t) \in TurnState /\ Finished(t).session \in Sessions
  BY <1>1, FinishedType
<1>3. turn' = [turn EXCEPT ![t] = Finished(t)]
      /\ UNCHANGED <<app, sess, artifacts, index, restarts>>
  BY DEF Abort
<1>4. QED
  BY <1>2, <1>3, TurnsType DEF TypeOK

\* A restart keeps the types.
LEMMA RestartType ==
  ASSUME TypeOK, Restart
  PROVE  TypeOK'
<1>1. EmptyApp \in AppState /\ EmptyOwn \in OwnState
  BY DEF EmptyApp, AppState, EmptyOwn, OwnState
<1>2. app' \in [Stores -> AppState] /\ sess' \in [Sessions -> OwnState]
  BY <1>1 DEF TypeOK, Restart
<1>3. artifacts' \in [Sessions -> SUBSET Docs] /\ index' \in [Sessions -> Row]
  BY DEF TypeOK, Restart
<1>4. restarts' \in 0..MaxRestarts
  BY PipelineAssumption DEF TypeOK, Restart
<1>5. ASSUME NEW t \in Turns
      PROVE  /\ turn'[t] \in TurnState
             /\ turn'[t].pc # "idle" => turn'[t].session \in Sessions
  <2>1. turn'[t] = IF InFlight(t) THEN Finished(t) ELSE turn[t]
    BY DEF Restart
  <2>2. CASE InFlight(t)
    <3>1. turn[t].pc # "idle" /\ turn[t].session \in Sessions
      BY <2>2 DEF TypeOK, InFlight
    <3>2. QED
      BY <2>1, <2>2, <3>1, FinishedType
  <2>3. CASE ~InFlight(t)
    BY <2>1, <2>3 DEF TypeOK
  <2>4. QED
    BY <2>2, <2>3
<1>6. turn' = [t \in Turns |-> turn'[t]]
  BY DEF Restart
<1>7. QED
  BY <1>2, <1>3, <1>4, <1>5, <1>6 DEF TypeOK

\* A flushed row is a row.
LEMMA FlushedType ==
  ASSUME NEW row \in Row, NEW count \in Nat, NEW title \in BOOLEAN,
         NEW documents \in SUBSET Docs, NEW fields \in BOOLEAN, NEW docs \in BOOLEAN
  PROVE  Flushed(row, count, title, documents, fields, docs) \in Row
BY DEF Flushed, Row

\* A counted response leaves a well-typed turn.
LEMMA CountedType ==
  ASSUME TypeOK, NEW t \in Turns, turn[t].pc # "idle",
         NEW title \in BOOLEAN, Counted(t, title)
  PROVE  /\ turn' \in [Turns -> TurnState]
         /\ \A u \in Turns : turn'[u].pc # "idle" => turn'[u].session \in Sessions
<1> DEFINE v == [turn[t].view EXCEPT !.turns = @ + 1]
<1> DEFINE own == [turn[t].own EXCEPT !.titleSet = @ \/ title]
<1> DEFINE keys == turn[t].delta \cup {"turns"} \cup
                   (IF title THEN {"titleSet"} ELSE {})
<1> DEFINE r == [turn[t] EXCEPT !.pc = "extract", !.view = v, !.own = own,
                                !.delta = keys]
<1>1. turn[t] \in TurnState /\ turn[t].session \in Sessions
  BY DEF TypeOK
<1>2. /\ turn[t].view \in AppState /\ turn[t].own \in OwnState
      /\ turn[t].delta \in SUBSET Keys
  BY <1>1 DEF TurnState
<1>3. turn' = [turn EXCEPT ![t] = r]
  BY DEF Counted
<1>4. v \in AppState
  BY <1>2 DEF AppState
<1>5. own \in OwnState
  BY <1>2 DEF OwnState
<1>6. keys \in SUBSET Keys
  BY <1>2 DEF Keys
<1> HIDE DEF v, own, keys
<1>7. r \in TurnState /\ r.session \in Sessions
  BY <1>1, <1>4, <1>5, <1>6 DEF TurnState, Pcs
<1> HIDE DEF r
<1>8. QED
  BY <1>3, <1>7, TurnsType

\* The counting callback keeps the types, whichever of its writes fail.
LEMMA CountResponseType ==
  ASSUME TypeOK, NEW t \in Turns, CountResponse(t)
  PROVE  TypeOK'
<1> DEFINE s == turn[t].session
<1> DEFINE count == turn[t].view.turns + 1
<1> DEFINE needs == NeedsTitle(count, turn[t].own.titleSet)
<1> DEFINE flush == needs \/ count % FlushInterval = 0
<1> DEFINE documents == turn[t].own.document_ids
<1> USE DEF CountResponse
<1>1. /\ turn[t] \in TurnState /\ s \in Sessions
      /\ turn[t].pc \in {"model", "response"}
  BY DEF TypeOK
<1>2. turn[t].view \in AppState /\ turn[t].own \in OwnState /\ index[s] \in Row
  BY <1>1 DEF TypeOK, TurnState
<1>3. count \in Nat /\ documents \in SUBSET Docs
  BY <1>2 DEF AppState, OwnState
<1>4. needs \in BOOLEAN
  BY DEF NeedsTitle
<1>5. UNCHANGED <<app, sess, artifacts, restarts>>
  OBVIOUS
<1>6. CASE turn' = [turn EXCEPT ![t].pc = "extract"] /\ UNCHANGED index
  <2> DEFINE q == [turn[t] EXCEPT !.pc = "extract"]
  <2>1. q \in TurnState /\ q.session \in Sessions
    BY <1>1 DEF TurnState, Pcs
  <2>2. turn' = [turn EXCEPT ![t] = q]
    BY <1>6
  <2> HIDE DEF q
  <2>3. QED
    BY <1>5, <1>6, <2>1, <2>2, TurnsType DEF TypeOK
<1>7. CASE UNCHANGED index /\ \E title \in TitlesFound(needs) : Counted(t, title)
  BY <1>1, <1>4, <1>5, <1>7, CountedType DEF TypeOK, TitlesFound
<1>8. CASE \E title \in TitlesFound(needs), fields \in Outcomes,
             docs \in Outcomes :
             /\ Counted(t, title)
             /\ index' = [index EXCEPT ![s] =
                  Flushed(@, count, title, documents, fields, docs)]
  <2>1. PICK title \in TitlesFound(needs), fields \in Outcomes,
             docs \in Outcomes :
             /\ Counted(t, title)
             /\ index' = [index EXCEPT ![s] =
                  Flushed(@, count, title, documents, fields, docs)]
    BY <1>8
  <2>2. title \in BOOLEAN /\ fields \in BOOLEAN /\ docs \in BOOLEAN
    BY DEF TitlesFound, Outcomes
  <2>3. Flushed(index[s], count, title, documents, fields, docs) \in Row
    BY <1>2, <1>3, <2>2, FlushedType
  <2>4. index' \in [Sessions -> Row]
    BY <1>1, <2>1, <2>3 DEF TypeOK
  <2>5. QED
    BY <1>1, <1>5, <2>1, <2>2, <2>4, CountedType DEF TypeOK
<1>9. QED
  BY <1>6, <1>7, <1>8

\* Every step keeps the types.
LEMMA TypeStep == TypeOK /\ [Next]_vars => TypeOK'
<1> SUFFICES ASSUME TypeOK, [Next]_vars PROVE TypeOK'
  OBVIOUS
<1>1. ASSUME NEW t \in Turns, NEW s \in Sessions, NEW docs \in SUBSET Docs,
             Request(t, s, docs)
      PROVE  TypeOK'
  BY <1>1, RequestType
<1>2. ASSUME NEW t \in Turns, AgentStep(t) PROVE TypeOK'
  <2>1. CASE OpenRun(t)
    BY <2>1, OpenRunType
  <2>2. CASE TrackSession(t)
    BY <2>2, TrackSessionType
  <2>3. CASE LoadDocuments(t)
    BY <2>3, LoadDocumentsType
  <2>4. CASE Publish(t)
    BY <2>4, PublishType
  <2>5. CASE ReadBlocks(t)
    BY <2>5, ReadBlocksType
  <2>6. CASE Emit(t)
    BY <2>6, EmitType
  <2>7. CASE Transfer(t)
    BY <2>7, TransferType
  <2>8. CASE CountResponse(t)
    BY <2>8, CountResponseType
  <2>9. CASE StructuredExtraction(t)
    BY <2>9, StructuredExtractionType
  <2>10. CASE Abort(t)
    BY <2>10, AbortType
  <2>11. QED
    BY <1>2, <2>1, <2>2, <2>3, <2>4, <2>5, <2>6, <2>7, <2>8, <2>9, <2>10
    DEF AgentStep
<1>3. CASE Restart
  BY <1>3, RestartType
<1>4. CASE UNCHANGED vars
  BY <1>4 DEF vars, TypeOK
<1>5. QED
  BY <1>1, <1>2, <1>3, <1>4 DEF Next

\* The state of the pipeline keeps its types, whatever the backend, the faults
\* and the number of turns in flight.
THEOREM TypeCorrect == Spec => []TypeOK
<1>1. QED
  BY InitType, TypeStep, PTL DEF Spec

-----------------------------------------------------------------------------
(* What one step does to its turn *)

\* A turn that steps leaves the other turns where they are.
LEMMA OthersStay ==
  ASSUME TypeOK, NEW t \in Turns, AgentStep(t), NEW u \in Turns, u # t
  PROVE  turn'[u] = turn[u]
<1> USE DEF TypeOK
<1>1. CASE OpenRun(t)
  BY <1>1 DEF OpenRun
<1>2. CASE TrackSession(t)
  BY <1>2 DEF TrackSession
<1>3. CASE LoadDocuments(t)
  <2>1. ASSUME NEW loaded, LoadNothing(t, loaded) PROVE turn'[u] = turn[u]
    BY <2>1 DEF LoadNothing
  <2>2. ASSUME NEW loaded, NEW toLoad, NEW failed, NEW ok,
               LoadSome(t, loaded, toLoad, failed, ok)
        PROVE  turn'[u] = turn[u]
    BY <2>2 DEF LoadSome
  <2>3. QED
    BY <1>3, <2>1, <2>2 DEF LoadDocuments
<1>4. CASE Publish(t)
  BY <1>4 DEF Publish
<1>5. CASE ReadBlocks(t)
  BY <1>5 DEF ReadBlocks
<1>6. CASE Emit(t)
  BY <1>6 DEF Emit
<1>7. CASE Transfer(t)
  BY <1>7 DEF Transfer
<1>8. CASE CountResponse(t)
  <2>1. \/ turn' = [turn EXCEPT ![t].pc = "extract"]
        \/ \E title \in BOOLEAN : Counted(t, title)
    BY <1>8 DEF CountResponse, TitlesFound
  <2>2. ASSUME NEW title, Counted(t, title)
        PROVE  turn'[u] = turn[u]
    BY <2>2 DEF Counted
  <2>3. QED
    BY <2>1, <2>2
<1>9. CASE StructuredExtraction(t)
  BY <1>9 DEF StructuredExtraction
<1>10. CASE Abort(t)
  BY <1>10 DEF Abort
<1>11. QED
  BY <1>1, <1>2, <1>3, <1>4, <1>5, <1>6, <1>7, <1>8, <1>9, <1>10 DEF AgentStep

\* A run starts from the stored keys of its session.
LEMMA OpenRunEffect ==
  ASSUME TypeOK, NEW t \in Turns, OpenRun(t)
  PROVE  /\ turn[t].session \in Sessions /\ turn[t].pc = "requested"
         /\ turn'[t].pc = "tracker" /\ turn'[t].session = turn[t].session
         /\ turn'[t].agent = turn[t].agent /\ turn'[t].asked = turn[t].asked
         /\ turn'[t].view = app[Home(turn[t].session)]
         /\ turn'[t].delta = turn[t].delta
         /\ UNCHANGED <<app, artifacts, index>>
<1>1. turn[t] \in TurnState
  BY DEF TypeOK
<1>2. QED
  BY <1>1 DEF OpenRun, TypeOK, TurnState

\* The tracker takes up the session's row, creates it, or leaves both for later.
LEMMA TrackEffect ==
  ASSUME TypeOK, NEW t \in Turns, TrackSession(t)
  PROVE  LET s == turn[t].session
             v == turn[t].view
             w == turn'[t].view
         IN /\ s \in Sessions /\ turn[t].pc = "tracker"
            /\ turn'[t].pc = "loader" /\ turn'[t].session = s
            /\ turn'[t].agent = turn[t].agent /\ turn'[t].asked = turn[t].asked
            /\ turn'[t].own = turn[t].own
            /\ w.loaded = v.loaded /\ w.errors = v.errors
            /\ w.emitted = v.emitted
            /\ UNCHANGED <<app, artifacts>>
            /\ \/ /\ w.initialized = v.initialized /\ w.turns = v.turns
                  /\ turn'[t].delta = turn[t].delta \cup {"schema"}
                  /\ UNCHANGED index
               \/ /\ ~v.initialized /\ w.initialized /\ w.turns = 0
                  /\ turn'[t].delta =
                       turn[t].delta \cup {"initialized", "turns", "schema"}
                  /\ \/ index[s].exists /\ UNCHANGED index
                     \/ /\ ~index[s].exists \/ IndexFaults
                        /\ index' = [index EXCEPT ![s] =
                                       NewRow(turn[t].own.document_ids)]
<1> DEFINE s == turn[t].session
<1> DEFINE view == [turn[t].view EXCEPT !.schema = SchemaOf(turn[t].agent)]
<1> DEFINE started == [view EXCEPT !.initialized = TRUE, !.turns = 0]
<1> DEFINE d == turn[t].delta \cup {} \cup {"schema"}
<1> DEFINE e == turn[t].delta \cup {"initialized", "turns"} \cup {"schema"}
<1> DEFINE q == [turn[t] EXCEPT !.pc = "loader", !.view = view, !.delta = d]
<1> DEFINE r == [turn[t] EXCEPT !.pc = "loader", !.view = started, !.delta = e]
<1>1. turn[t] \in TurnState /\ turn[t].view \in AppState /\ s \in Sessions
      /\ turn[t].pc = "tracker"
  BY DEF TypeOK, TrackSession, TurnState
<1>2. /\ view.loaded = turn[t].view.loaded /\ view.errors = turn[t].view.errors
      /\ view.emitted = turn[t].view.emitted
      /\ view.initialized = turn[t].view.initialized
      /\ view.turns = turn[t].view.turns
      /\ started.loaded = turn[t].view.loaded
      /\ started.errors = turn[t].view.errors
      /\ started.emitted = turn[t].view.emitted
      /\ started.initialized = TRUE /\ started.turns = 0
  BY <1>1 DEF AppState
<1>3. /\ UNCHANGED <<app, artifacts>>
      /\ \/ turn' = [turn EXCEPT ![t] = q] /\ UNCHANGED index
         \/ /\ ~view.initialized
            /\ turn' = [turn EXCEPT ![t] = r]
            /\ \/ index[s].exists /\ UNCHANGED index
               \/ /\ ~index[s].exists \/ IndexFaults
                  /\ index' = [index EXCEPT ![s] =
                                 NewRow(turn[t].own.document_ids)]
  BY DEF TrackSession
<1>4. d = turn[t].delta \cup {"schema"}
      /\ e = turn[t].delta \cup {"initialized", "turns", "schema"}
  OBVIOUS
<1> HIDE DEF view, started, d, e
<1>5. /\ q.pc = "loader" /\ q.session = s /\ q.agent = turn[t].agent
      /\ q.asked = turn[t].asked /\ q.own = turn[t].own
      /\ q.view = view /\ q.delta = d
      /\ r.pc = "loader" /\ r.session = s /\ r.agent = turn[t].agent
      /\ r.asked = turn[t].asked /\ r.own = turn[t].own
      /\ r.view = started /\ r.delta = e
  BY <1>1 DEF TurnState
<1> HIDE DEF q, r
<1>6. CASE turn' = [turn EXCEPT ![t] = q] /\ UNCHANGED index
  BY <1>1, <1>2, <1>3, <1>4, <1>5, <1>6 DEF TypeOK
<1>7. CASE /\ ~view.initialized
           /\ turn' = [turn EXCEPT ![t] = r]
           /\ \/ index[s].exists /\ UNCHANGED index
              \/ /\ ~index[s].exists \/ IndexFaults
                 /\ index' = [index EXCEPT ![s] =
                                NewRow(turn[t].own.document_ids)]
  BY <1>1, <1>2, <1>3, <1>4, <1>5, <1>7 DEF TypeOK
<1>8. QED
  BY <1>3, <1>6, <1>7

\* What a load does to the turn and to the stores, given which probes and which
\* loads fail: the verified ids are kept, what is open and missing is saved.
LoadedNothing(t, kept) ==
  /\ turn'[t].view.loaded = kept
  /\ turn'[t].view.errors = turn[t].view.errors
  /\ turn'[t].view.emitted = turn[t].view.emitted
  /\ turn'[t].delta = turn[t].delta \cup {"loaded"}
  /\ UNCHANGED <<artifacts, index>>

LoadedSome(t, kept, missing, failed) ==
  LET s == turn[t].session
      v == turn[t].view
      saved == missing \ failed
      old == IF v.errors = None THEN {} ELSE v.errors
      errors == (old \cup failed) \ saved
      noted == errors # {} \/ v.errors # None
  IN /\ \A a \in Specialists : turn'[t].view.emitted[a] = None
     /\ turn'[t].view.loaded = kept \cup saved
     /\ turn'[t].view.errors = IF noted THEN errors ELSE None
     /\ turn'[t].delta =
          turn[t].delta \cup ({"loaded"} \cup Present(v.emitted)
                                \cup (IF noted THEN {"errors"} ELSE {}))
     /\ artifacts' = [artifacts EXCEPT ![s] = @ \cup saved]
     /\ \/ UNCHANGED index
        \/ index' = [index EXCEPT ![s].docs = @ \cup saved]

Kept(t, unread) ==
  (turn[t].view.loaded \cap artifacts[turn[t].session]) \ unread

Missing(t, unread) == turn[t].own.document_ids \ Kept(t, unread)

\* The fields a load leaves alone, whatever it finds.
LoadFrame(t) ==
  /\ turn[t].session \in Sessions /\ turn[t].pc = "loader"
  /\ turn'[t].pc = "publish" /\ turn'[t].resume = "model"
  /\ turn'[t].session = turn[t].session /\ turn'[t].agent = turn[t].agent
  /\ turn'[t].asked = turn[t].asked /\ turn'[t].own = turn[t].own
  /\ turn'[t].view.initialized = turn[t].view.initialized
  /\ turn'[t].view.turns = turn[t].view.turns
  /\ UNCHANGED app

\* A load that finds nothing missing.
LEMMA LoadNothingEffect ==
  ASSUME TypeOK, NEW t \in Turns, turn[t].pc = "loader", NEW kept,
         LoadNothing(t, kept), UNCHANGED app
  PROVE  LoadFrame(t) /\ LoadedNothing(t, kept)
<1> DEFINE v == turn[t].view
<1> DEFINE w == [v EXCEPT !.loaded = kept]
<1>1. turn[t] \in TurnState /\ v \in AppState /\ turn[t].session \in Sessions
  BY DEF TypeOK, TurnState
<1>2. /\ w.loaded = kept /\ w.errors = v.errors /\ w.emitted = v.emitted
      /\ w.initialized = v.initialized /\ w.turns = v.turns
  BY <1>1 DEF AppState
<1>3. turn' = [turn EXCEPT ![t] = [turn[t] EXCEPT !.pc = "publish",
         !.resume = "model", !.view = w, !.delta = @ \cup {"loaded"}]]
      /\ UNCHANGED <<artifacts, index>>
  BY DEF LoadNothing
<1> HIDE DEF w
<1>4. /\ turn'[t].pc = "publish" /\ turn'[t].resume = "model"
      /\ turn'[t].session = turn[t].session /\ turn'[t].agent = turn[t].agent
      /\ turn'[t].asked = turn[t].asked /\ turn'[t].own = turn[t].own
      /\ turn'[t].view = w /\ turn'[t].delta = turn[t].delta \cup {"loaded"}
  BY <1>1, <1>3 DEF TypeOK, TurnState
<1>5. QED
  BY <1>1, <1>2, <1>3, <1>4 DEF LoadFrame, LoadedNothing

\* A load of missing documents.
LEMMA LoadSomeEffect ==
  ASSUME TypeOK, NEW t \in Turns, turn[t].pc = "loader",
         NEW kept, NEW missing, NEW failed, NEW ok,
         LoadSome(t, kept, missing, failed, ok), UNCHANGED app
  PROVE  LoadFrame(t) /\ LoadedSome(t, kept, missing, failed)
<1> DEFINE s == turn[t].session
<1> DEFINE v == turn[t].view
<1> DEFINE saved == missing \ failed
<1> DEFINE old == IF v.errors = None THEN {} ELSE v.errors
<1> DEFINE errors == (old \cup failed) \ saved
<1> DEFINE noted == errors # {} \/ v.errors # None
<1> DEFINE noting == IF noted THEN errors ELSE None
<1> DEFINE cleared == Cleared(v.emitted)
<1> DEFINE w == [v EXCEPT !.loaded = kept \cup saved, !.errors = noting,
                          !.emitted = cleared]
<1> DEFINE d == turn[t].delta \cup ({"loaded"} \cup Present(v.emitted)
                  \cup (IF noted THEN {"errors"} ELSE {}))
<1> DEFINE new == IF turn[t].agent = "orchestrator" THEN missing
                  ELSE turn[t].newDocs
<1>1. turn[t] \in TurnState /\ v \in AppState /\ turn[t].session \in Sessions
  BY DEF TypeOK, TurnState
<1>2. \A a \in Specialists : cleared[a] = None
  BY DEF Cleared
<1>3. /\ turn' = [turn EXCEPT ![t] = [turn[t] EXCEPT !.pc = "publish",
           !.resume = "model", !.view = w, !.delta = d, !.newDocs = new]]
      /\ artifacts' = [artifacts EXCEPT ![s] = @ \cup saved]
      /\ \/ UNCHANGED index
         \/ index' = [index EXCEPT ![s].docs = @ \cup saved]
  BY DEF LoadSome, ErrorsAfter
<1> HIDE DEF noting, cleared, saved
<1>4. /\ w.loaded = kept \cup saved /\ w.errors = noting /\ w.emitted = cleared
      /\ w.initialized = v.initialized /\ w.turns = v.turns
  BY <1>1 DEF AppState
<1> HIDE DEF w, d, new
<1>5. /\ turn'[t].pc = "publish" /\ turn'[t].resume = "model"
      /\ turn'[t].session = s /\ turn'[t].agent = turn[t].agent
      /\ turn'[t].asked = turn[t].asked /\ turn'[t].own = turn[t].own
      /\ turn'[t].view = w /\ turn'[t].delta = d
  BY <1>1, <1>3 DEF TypeOK, TurnState
<1>6. LoadFrame(t)
  BY <1>1, <1>4, <1>5 DEF LoadFrame
<1>7. LoadedSome(t, kept, missing, failed)
  BY <1>2, <1>3, <1>4, <1>5 DEF LoadedSome, d, noting, saved
<1>8. QED
  BY <1>6, <1>7

\* The loader in both of its branches.
LEMMA LoadEffect ==
  ASSUME TypeOK, NEW t \in Turns, LoadDocuments(t)
  PROVE  /\ LoadFrame(t)
         /\ \E unread \in SUBSET (turn[t].view.loaded \cap FlakyDocs) :
              \/ /\ Missing(t, unread) = {}
                 /\ LoadedNothing(t, Kept(t, unread))
              \/ /\ Missing(t, unread) # {}
                 /\ \E failed \in SUBSET (Missing(t, unread) \cap FlakyDocs) :
                      LoadedSome(t, Kept(t, unread), Missing(t, unread), failed)
<1>1. turn[t].pc = "loader" /\ UNCHANGED app
  BY DEF LoadDocuments
<1>2. PICK unread \in SUBSET (turn[t].view.loaded \cap FlakyDocs) :
        \/ Missing(t, unread) = {} /\ LoadNothing(t, Kept(t, unread))
        \/ /\ Missing(t, unread) # {}
           /\ \E failed \in SUBSET (Missing(t, unread) \cap FlakyDocs),
                 ok \in Outcomes :
                LoadSome(t, Kept(t, unread), Missing(t, unread), failed, ok)
  BY DEF LoadDocuments, Probed, ToLoad, Kept, Missing
<1>3. CASE Missing(t, unread) = {} /\ LoadNothing(t, Kept(t, unread))
  BY <1>1, <1>3, LoadNothingEffect
<1>4. CASE /\ Missing(t, unread) # {}
           /\ \E failed \in SUBSET (Missing(t, unread) \cap FlakyDocs),
                 ok \in Outcomes :
                LoadSome(t, Kept(t, unread), Missing(t, unread), failed, ok)
  BY <1>1, <1>4, LoadSomeEffect
<1>5. QED
  BY <1>2, <1>3, <1>4

\* An appended event stores the keys it carries.
LEMMA PublishEffect ==
  ASSUME TypeOK, NEW t \in Turns, Publish(t)
  PROVE  LET s == turn[t].session
         IN /\ s \in Sessions /\ turn[t].pc = "publish"
            /\ app' = [app EXCEPT ![Home(s)] =
                         Merged(@, turn[t].view, turn[t].delta)]
            /\ UNCHANGED <<artifacts, index>>
            /\ \/ turn[t].resume = "done" /\ turn'[t] = Finished(t)
               \/ /\ turn[t].resume # "done" /\ turn'[t].pc = turn[t].resume
                  /\ turn'[t].session = s /\ turn'[t].agent = turn[t].agent
                  /\ turn'[t].asked = turn[t].asked
                  /\ turn'[t].own = turn[t].own
                  /\ turn'[t].view = turn[t].view /\ turn'[t].delta = {}
<1>1. turn[t] \in TurnState
  BY DEF TypeOK
<1>2. QED
  BY <1>1 DEF Publish, TypeOK, TurnState

\* An emission adds one result that has seen what is loaded.
LEMMA EmitEffect ==
  ASSUME TypeOK, NEW t \in Turns, Emit(t)
  PROVE  LET a == turn[t].agent
             v == turn[t].view
             w == turn'[t].view
         IN /\ turn[t].session \in Sessions /\ turn[t].pc = "model"
            /\ a \in Specialists /\ v.emitted[a] = None
            /\ turn'[t].pc = "publish" /\ turn'[t].resume = "model"
            /\ turn'[t].session = turn[t].session /\ turn'[t].agent = a
            /\ turn'[t].asked = turn[t].asked /\ turn'[t].own = turn[t].own
            /\ w.loaded = v.loaded /\ w.errors = v.errors
            /\ w.initialized = v.initialized /\ w.turns = v.turns
            /\ \A b \in Specialists :
                 w.emitted[b] = IF b = a THEN [by |-> t, docs |-> v.loaded]
                                ELSE v.emitted[b]
            /\ turn'[t].delta = turn[t].delta \cup {a}
            /\ UNCHANGED <<app, artifacts, index>>
<1> DEFINE a == turn[t].agent
<1> DEFINE v == turn[t].view
<1> DEFINE p == [by |-> t, docs |-> v.loaded]
<1> DEFINE e == [v.emitted EXCEPT ![a] = p]
<1> DEFINE w == [v EXCEPT !.emitted = e]
<1>1. turn[t] \in TurnState /\ v \in AppState /\ a \in Specialists
      /\ turn[t].session \in Sessions
      /\ v.emitted \in [Specialists -> Payload \cup {None}]
  BY DEF TypeOK, Emit, TurnState, AppState
<1>2. turn' = [turn EXCEPT ![t] = [turn[t] EXCEPT !.pc = "publish",
                 !.resume = "model", !.view = w, !.delta = @ \cup {a}]]
      /\ UNCHANGED <<app, artifacts, index>>
      /\ turn[t].pc = "model" /\ v.emitted[a] = None
  BY DEF Emit
<1> HIDE DEF p
<1>3. \A b \in Specialists : e[b] = IF b = a THEN p ELSE v.emitted[b]
  BY <1>1
<1> HIDE DEF e
<1>4. /\ w.loaded = v.loaded /\ w.errors = v.errors /\ w.emitted = e
      /\ w.initialized = v.initialized /\ w.turns = v.turns
  BY <1>1 DEF AppState
<1> HIDE DEF w
<1>5. /\ turn'[t].pc = "publish" /\ turn'[t].resume = "model"
      /\ turn'[t].session = turn[t].session /\ turn'[t].agent = a
      /\ turn'[t].asked = turn[t].asked /\ turn'[t].own = turn[t].own
      /\ turn'[t].view = w /\ turn'[t].delta = turn[t].delta \cup {a}
  BY <1>1, <1>2 DEF TypeOK, TurnState
<1>6. QED
  BY <1>1, <1>2, <1>3, <1>4, <1>5 DEF p

\* A step that changes neither the snapshot nor a store: blocks, the transfer,
\* the end of an agent.
Passes(t) == ReadBlocks(t) \/ Transfer(t) \/ StructuredExtraction(t)

LEMMA PassEffect ==
  ASSUME TypeOK, NEW t \in Turns, Passes(t)
  PROVE  /\ turn[t].session \in Sessions
         /\ turn[t].pc \in {"model", "extract"}
         /\ \/ /\ turn[t].pc = "model"
               /\ turn'[t].pc \in {"model", "response", "tracker"}
               /\ turn'[t].pc = "tracker" => turn'[t].agent = "extractor"
            \/ turn'[t].pc = "publish"
         /\ turn'[t].session = turn[t].session
         /\ turn'[t].asked = turn[t].asked /\ turn'[t].own = turn[t].own
         /\ turn'[t].view = turn[t].view /\ turn'[t].delta = turn[t].delta
         /\ UNCHANGED <<app, artifacts, index>>
<1>1. turn[t] \in TurnState
  BY DEF TypeOK
<1>2. CASE ReadBlocks(t)
  BY <1>1, <1>2 DEF ReadBlocks, TypeOK, TurnState
<1>3. CASE Transfer(t)
  BY <1>1, <1>3 DEF Transfer, TypeOK, TurnState
<1>4. CASE StructuredExtraction(t)
  BY <1>1, <1>4 DEF StructuredExtraction, TypeOK, TurnState
<1>5. QED
  BY <1>2, <1>3, <1>4 DEF Passes

\* Counting a response raises the counter of the snapshot, and may set the
\* row's counter to it and add documents and a title to the row.
LEMMA CountEffect ==
  ASSUME TypeOK, NEW t \in Turns, CountResponse(t)
  PROVE  LET s == turn[t].session
             v == turn[t].view
             w == turn'[t].view
         IN /\ s \in Sessions /\ turn[t].pc \in {"model", "response"}
            /\ turn'[t].pc = "extract" /\ turn'[t].session = s
            /\ turn'[t].agent = turn[t].agent /\ turn'[t].asked = turn[t].asked
            /\ turn'[t].own.document_ids = turn[t].own.document_ids
            /\ w.loaded = v.loaded /\ w.errors = v.errors
            /\ w.emitted = v.emitted /\ w.initialized = v.initialized
            /\ \/ w.turns = v.turns /\ turn'[t].delta = turn[t].delta
                  /\ UNCHANGED index
               \/ /\ v.initialized /\ w.turns = v.turns + 1
                  /\ \/ turn'[t].delta = turn[t].delta \cup {"turns"}
                     \/ turn'[t].delta = turn[t].delta \cup {"turns", "titleSet"}
                  /\ \/ UNCHANGED index
                     \/ /\ index[s].exists
                        /\ \E title, fields, docs \in BOOLEAN :
                             index' = [index EXCEPT ![s] =
                               Flushed(@, v.turns + 1, title,
                                       turn[t].own.document_ids, fields, docs)]
            /\ UNCHANGED <<app, artifacts>>
<1> DEFINE s == turn[t].session
<1> DEFINE v == turn[t].view
<1> DEFINE count == v.turns + 1
<1>1. turn[t] \in TurnState /\ v \in AppState /\ turn[t].own \in OwnState
      /\ s \in Sessions /\ turn[t].pc \in {"model", "response"}
      /\ UNCHANGED <<app, artifacts>>
  BY DEF TypeOK, CountResponse, TurnState
<1>2. CASE turn' = [turn EXCEPT ![t].pc = "extract"] /\ UNCHANGED index
  BY <1>1, <1>2 DEF TypeOK, TurnState
<1>3. ASSUME NEW title \in BOOLEAN, Counted(t, title)
      PROVE  /\ turn'[t].pc = "extract" /\ turn'[t].session = s
             /\ turn'[t].agent = turn[t].agent
             /\ turn'[t].asked = turn[t].asked
             /\ turn'[t].own.document_ids = turn[t].own.document_ids
             /\ turn'[t].view.loaded = v.loaded
             /\ turn'[t].view.errors = v.errors
             /\ turn'[t].view.emitted = v.emitted
             /\ turn'[t].view.initialized = v.initialized
             /\ turn'[t].view.turns = v.turns + 1
             /\ \/ turn'[t].delta = turn[t].delta \cup {"turns"}
                \/ turn'[t].delta = turn[t].delta \cup {"turns", "titleSet"}
  <2> DEFINE w == [v EXCEPT !.turns = @ + 1]
  <2> DEFINE o == [turn[t].own EXCEPT !.titleSet = @ \/ title]
  <2> DEFINE d == turn[t].delta \cup {"turns"} \cup
                  (IF title THEN {"titleSet"} ELSE {})
  <2>1. turn' = [turn EXCEPT ![t] = [turn[t] EXCEPT !.pc = "extract", !.view = w,
                                       !.own = o, !.delta = d]]
    BY <1>3 DEF Counted
  <2>2. w.loaded = v.loaded /\ w.errors = v.errors /\ w.emitted = v.emitted
        /\ w.initialized = v.initialized /\ w.turns = v.turns + 1
    BY <1>1 DEF AppState
  <2>3. o.document_ids = turn[t].own.document_ids
    BY <1>1 DEF OwnState
  <2>4. d = turn[t].delta \cup {"turns"}
        \/ d = turn[t].delta \cup {"turns", "titleSet"}
    OBVIOUS
  <2> HIDE DEF w, o, d
  <2>5. QED
    BY <1>1, <2>1, <2>2, <2>3, <2>4 DEF TypeOK, TurnState
<1>4. CASE /\ v.initialized /\ UNCHANGED index
           /\ \E title \in BOOLEAN : Counted(t, title)
  BY <1>1, <1>3, <1>4
<1>5. CASE /\ v.initialized /\ index[s].exists
           /\ \E title \in BOOLEAN, fields \in BOOLEAN, docs \in BOOLEAN :
                /\ Counted(t, title)
                /\ index' = [index EXCEPT ![s] =
                     Flushed(@, count, title, turn[t].own.document_ids,
                             fields, docs)]
  BY <1>1, <1>3, <1>5
<1>6. \/ turn' = [turn EXCEPT ![t].pc = "extract"] /\ UNCHANGED index
      \/ /\ v.initialized /\ UNCHANGED index
         /\ \E title \in BOOLEAN : Counted(t, title)
      \/ /\ v.initialized /\ index[s].exists
         /\ \E title \in BOOLEAN, fields \in BOOLEAN, docs \in BOOLEAN :
              /\ Counted(t, title)
              /\ index' = [index EXCEPT ![s] =
                   Flushed(@, count, title, turn[t].own.document_ids,
                           fields, docs)]
  BY DEF CountResponse, TitlesFound, Outcomes
<1>7. QED
  BY <1>2, <1>4, <1>5, <1>6

\* An exception ends the run and stores nothing.
LEMMA AbortEffect ==
  ASSUME TypeOK, NEW t \in Turns, Abort(t)
  PROVE  /\ turn[t].session \in Sessions /\ turn'[t] = Finished(t)
         /\ HasRun(t) /\ UNCHANGED <<app, artifacts, index>>
BY DEF Abort, TypeOK, HasRun

-----------------------------------------------------------------------------
(* The documents a turn works with *)

\* Before its first load a turn is with the orchestrator and has found nothing.
Unready(t) ==
  ~Ready(t) => turn[t].agent = "orchestrator" /\ turn[t].newDocs = {}

\* After an event a turn goes on inside its agent or with the next specialist.
Resumes(t) ==
  turn[t].pc = "publish" =>
    \/ turn[t].resume \in {"model", "response", "done"}
    \/ turn[t].resume = "tracker" /\ turn[t].agent # "orchestrator"

\* LoadedHasArtifact, of one turn.
Stocked(t) == Ready(t) => turn[t].view.loaded \subseteq artifacts[turn[t].session]

\* FreshAfterNewDoc, of one turn.
Fresh(t) ==
  Ready(t) /\ turn[t].newDocs # {} =>
    \A a \in Specialists :
      turn[t].view.emitted[a] # None => turn[t].view.emitted[a].by = t

TurnInv(t) == Unready(t) /\ Resumes(t) /\ Stocked(t) /\ Fresh(t)

LoadInv == TypeOK /\ \A t \in Turns : TurnInv(t)

\* A turn that does not move keeps its invariant while artifacts only come.
LEMMA OthersKeep ==
  ASSUME TypeOK, NEW u \in Turns, turn'[u] = turn[u], TurnInv(u),
         \A s \in Sessions : artifacts[s] \subseteq artifacts'[s]
  PROVE  TurnInv(u)'
<1>1. Ready(u) => turn[u].session \in Sessions
  BY DEF TypeOK, Ready, HasRun
<1>2. QED
  BY <1>1 DEF TurnInv, Unready, Resumes, Stocked, Fresh, Ready, HasRun

\* A step inside an agent that loads and emits nothing.
LEMMA SameWork ==
  ASSUME NEW t \in Turns, TurnInv(t), UNCHANGED artifacts,
         turn'[t].session = turn[t].session,
         turn'[t].agent = turn[t].agent, turn'[t].newDocs = turn[t].newDocs,
         turn'[t].view.loaded = turn[t].view.loaded,
         turn'[t].view.emitted = turn[t].view.emitted,
         Ready(t)' <=> Ready(t), Resumes(t)'
  PROVE  TurnInv(t)'
BY DEF TurnInv, Unready, Stocked, Fresh

\* A turn that has no run, or has just ended it, owes nothing.
LEMMA NoRunInv ==
  ASSUME NEW t \in Turns, turn'[t].pc \in {"idle", "requested", "done"},
         turn'[t].agent = "orchestrator", turn'[t].newDocs = {}
  PROVE  TurnInv(t)'
BY DEF TurnInv, Unready, Resumes, Stocked, Fresh, Ready, HasRun

\* A request only names a turn that has no run.
LEMMA RequestInv ==
  ASSUME LoadInv, NEW t \in Turns, NEW s \in Sessions, NEW docs \in SUBSET Docs,
         Request(t, s, docs)
  PROVE  TurnInv(t)'
<1>1. turn[t] \in TurnState /\ turn[t].pc = "idle" /\ TurnInv(t)
  BY DEF LoadInv, TypeOK, Request
<1>2. turn[t].agent = "orchestrator" /\ turn[t].newDocs = {}
  BY <1>1 DEF TurnInv, Unready, Ready, HasRun
<1>3. /\ turn'[t].pc = "requested" /\ turn'[t].agent = turn[t].agent
      /\ turn'[t].newDocs = turn[t].newDocs
  BY <1>1 DEF Request, LoadInv, TypeOK, TurnState
<1>4. QED
  BY <1>2, <1>3, NoRunInv

\* A run opens with the orchestrator and has loaded nothing yet.
LEMMA OpenRunInv ==
  ASSUME LoadInv, NEW t \in Turns, OpenRun(t)
  PROVE  TurnInv(t)'
<1>1. turn[t] \in TurnState /\ turn[t].pc = "requested" /\ TurnInv(t)
  BY DEF LoadInv, TypeOK, OpenRun
<1>2. turn[t].agent = "orchestrator" /\ turn[t].newDocs = {}
  BY <1>1 DEF TurnInv, Unready, Ready, HasRun
<1>3. /\ turn'[t].pc = "tracker" /\ turn'[t].agent = turn[t].agent
      /\ turn'[t].newDocs = turn[t].newDocs
  BY <1>1 DEF OpenRun, LoadInv, TypeOK, TurnState
<1>4. QED
  BY <1>2, <1>3 DEF TurnInv, Unready, Resumes, Stocked, Fresh, Ready

\* The tracker touches no loaded document and no result.
LEMMA TrackSessionInv ==
  ASSUME LoadInv, NEW t \in Turns, TrackSession(t)
  PROVE  TurnInv(t)'
<1>1. turn[t] \in TurnState /\ turn[t].pc = "tracker" /\ TurnInv(t)
      /\ turn[t].view \in AppState
  BY DEF LoadInv, TypeOK, TrackSession, TurnState
<1>2. /\ UNCHANGED artifacts
      /\ \E v, k : /\ v.loaded = turn[t].view.loaded
                   /\ v.emitted = turn[t].view.emitted
                   /\ turn' = [turn EXCEPT ![t] = [turn[t] EXCEPT !.pc = "loader",
                        !.view = v, !.delta = k]]
  <2> DEFINE view == [turn[t].view EXCEPT !.schema = SchemaOf(turn[t].agent)]
  <2> DEFINE started == [view EXCEPT !.initialized = TRUE, !.turns = 0]
  <2> DEFINE r(v, k) == [turn[t] EXCEPT !.pc = "loader", !.view = v, !.delta = k]
  <2>1. /\ view.loaded = turn[t].view.loaded
        /\ view.emitted = turn[t].view.emitted
        /\ started.loaded = turn[t].view.loaded
        /\ started.emitted = turn[t].view.emitted
    BY <1>1 DEF AppState
  <2>2. \/ turn' = [turn EXCEPT ![t] = r(view, turn[t].delta \cup {} \cup {"schema"})]
        \/ turn' = [turn EXCEPT ![t] = r(started, turn[t].delta
                      \cup {"initialized", "turns"} \cup {"schema"})]
    BY DEF TrackSession
  <2>3. UNCHANGED artifacts
    BY DEF TrackSession
  <2> HIDE DEF view, started
  <2>4. QED
    BY <2>1, <2>2, <2>3
<1>3. /\ turn'[t].pc = "loader" /\ turn'[t].agent = turn[t].agent
      /\ turn'[t].newDocs = turn[t].newDocs /\ turn'[t].session = turn[t].session
      /\ turn'[t].view.loaded = turn[t].view.loaded
      /\ turn'[t].view.emitted = turn[t].view.emitted
  BY <1>1, <1>2 DEF LoadInv, TypeOK, TurnState
<1>4. QED
  BY <1>1, <1>2, <1>3, SameWork DEF Resumes, Ready, HasRun

\* The loader is where the invariant is made: it keeps only ids whose artifact
\* answered, adds only ids it has saved, and clears every result it finds.
LEMMA LoadDocumentsInv ==
  ASSUME LoadInv, NEW t \in Turns, LoadDocuments(t)
  PROVE  /\ TurnInv(t)'
         /\ \A s \in Sessions : artifacts[s] \subseteq artifacts'[s]
<1> DEFINE s == turn[t].session
<1>1. turn[t] \in TurnState /\ turn[t].pc = "loader" /\ TurnInv(t) /\ s \in Sessions
      /\ turn[t].view \in AppState /\ artifacts \in [Sessions -> SUBSET Docs]
  BY DEF LoadInv, TypeOK, LoadDocuments, TurnState
<1>2. PICK unread \in SUBSET (turn[t].view.loaded \cap FlakyDocs) :
        LET loaded == Probed(turn[t].view.loaded, artifacts[s], unread)
            toLoad == ToLoad(turn[t].own.document_ids, loaded)
        IN \/ LoadNothing(t, loaded)
           \/ /\ toLoad # {}
              /\ \E failed \in SUBSET (toLoad \cap FlakyDocs), ok \in Outcomes :
                   LoadSome(t, loaded, toLoad, failed, ok)
  BY DEF LoadDocuments
<1> DEFINE loaded == Probed(turn[t].view.loaded, artifacts[s], unread)
<1> DEFINE toLoad == ToLoad(turn[t].own.document_ids, loaded)
<1>3. loaded \subseteq artifacts[s]
  BY DEF Probed
<1> HIDE DEF loaded, toLoad
<1>4. CASE LoadNothing(t, loaded)
  <2>1. /\ turn'[t].pc = "publish" /\ turn'[t].resume = "model"
        /\ turn'[t].agent = turn[t].agent /\ turn'[t].session = s
        /\ turn'[t].newDocs = turn[t].newDocs
        /\ turn'[t].view.loaded = loaded
        /\ turn'[t].view.emitted = turn[t].view.emitted
        /\ artifacts' = artifacts
    BY <1>1, <1>4 DEF LoadNothing, LoadInv, TypeOK, TurnState, AppState
  <2>2. Ready(t) \/ turn[t].newDocs = {}
    BY <1>1 DEF TurnInv, Unready
  <2>3. QED
    BY <1>1, <1>3, <2>1, <2>2
    DEF TurnInv, Unready, Resumes, Stocked, Fresh, Ready, HasRun
<1>5. ASSUME toLoad # {},
             NEW failed \in SUBSET (toLoad \cap FlakyDocs), NEW ok \in Outcomes,
             LoadSome(t, loaded, toLoad, failed, ok)
      PROVE  /\ TurnInv(t)'
             /\ \A x \in Sessions : artifacts[x] \subseteq artifacts'[x]
  <2> DEFINE view == turn[t].view
  <2> DEFINE saved == toLoad \ failed
  <2> DEFINE errors == ErrorsAfter(IF view.errors = None THEN {} ELSE view.errors,
                                   failed, saved)
  <2> DEFINE noted == errors # {} \/ view.errors # None
  <2> DEFINE v == [view EXCEPT !.loaded = loaded \cup saved,
                               !.errors = IF noted THEN errors ELSE None,
                               !.emitted = Cleared(view.emitted)]
  <2> DEFINE written == {"loaded"} \cup Present(view.emitted)
                          \cup (IF noted THEN {"errors"} ELSE {})
  <2> DEFINE r == [turn[t] EXCEPT !.pc = "publish", !.resume = "model", !.view = v,
                     !.delta = @ \cup written,
                     !.newDocs = IF turn[t].agent = "orchestrator" THEN toLoad
                                 ELSE turn[t].newDocs]
  <2>1. turn' = [turn EXCEPT ![t] = r]
    BY <1>5 DEF LoadSome
  <2>2. artifacts' = [artifacts EXCEPT ![s] = @ \cup (toLoad \ failed)]
    BY <1>5 DEF LoadSome
  <2>3. /\ turn'[t].pc = "publish" /\ turn'[t].resume = "model"
        /\ turn'[t].agent = turn[t].agent /\ turn'[t].session = s
        /\ turn'[t].view.loaded = loaded \cup (toLoad \ failed)
        /\ turn'[t].view.emitted = Cleared(turn[t].view.emitted)
    BY <1>1, <2>1 DEF LoadInv, TypeOK, TurnState, AppState
  <2>4. \A a \in Specialists : turn'[t].view.emitted[a] = None
    BY <2>3 DEF Cleared
  <2>5. turn'[t].view.loaded \subseteq artifacts'[s]
    BY <1>1, <1>3, <2>2, <2>3
  <2>6. QED
    BY <1>1, <2>2, <2>3, <2>4, <2>5
    DEF TurnInv, Unready, Resumes, Stocked, Fresh, Ready, HasRun
<1>6. QED
  BY <1>2, <1>4, <1>5 DEF loaded, toLoad, LoadNothing

\* An event gives nothing back to the turn that appends it.
LEMMA PublishInv ==
  ASSUME LoadInv, NEW t \in Turns, Publish(t)
  PROVE  TurnInv(t)'
<1>1. turn[t] \in TurnState /\ turn[t].pc = "publish" /\ TurnInv(t) /\ Resumes(t)
  BY DEF LoadInv, TypeOK, Publish, TurnInv
<1>2. CASE turn[t].resume = "done"
  <2>1. turn'[t] = Finished(t)
    BY <1>2 DEF Publish, LoadInv, TypeOK
  <2>2. QED
    BY <1>1, <2>1, FinishedType, NoRunInv DEF LoadInv
<1>3. CASE turn[t].resume # "done"
  <2>1. /\ turn'[t].pc = turn[t].resume /\ turn'[t].agent = turn[t].agent
        /\ turn'[t].newDocs = turn[t].newDocs
        /\ turn'[t].session = turn[t].session /\ turn'[t].view = turn[t].view
        /\ artifacts' = artifacts
    BY <1>1, <1>3 DEF Publish, LoadInv, TypeOK, TurnState
  <2>2. QED
    BY <1>1, <1>3, <2>1, SameWork DEF Resumes, Ready, HasRun
<1>4. QED
  BY <1>2, <1>3

\* What a specialist emits is its own turn's.
LEMMA EmitInv ==
  ASSUME LoadInv, NEW t \in Turns, Emit(t)
  PROVE  TurnInv(t)'
<1> DEFINE a == turn[t].agent
<1>1. turn[t] \in TurnState /\ turn[t].pc = "model" /\ TurnInv(t)
      /\ turn[t].view \in AppState /\ a \in Specialists
  BY DEF LoadInv, TypeOK, Emit, TurnState
<1>2. /\ turn'[t].pc = "publish" /\ turn'[t].resume = "model"
      /\ turn'[t].agent = a /\ turn'[t].newDocs = turn[t].newDocs
      /\ turn'[t].session = turn[t].session
      /\ turn'[t].view.loaded = turn[t].view.loaded
      /\ turn'[t].view.emitted = [turn[t].view.emitted EXCEPT
            ![a] = [by |-> t, docs |-> turn[t].view.loaded]]
      /\ artifacts' = artifacts
  BY <1>1 DEF Emit, LoadInv, TypeOK, TurnState, AppState
<1>3. turn[t].view.emitted \in [Specialists -> Payload \cup {None}]
  BY <1>1 DEF AppState
<1>4. \A b \in Specialists :
        turn'[t].view.emitted[b] = IF b = a
          THEN [by |-> t, docs |-> turn[t].view.loaded]
          ELSE turn[t].view.emitted[b]
  BY <1>1, <1>2, <1>3
<1>5. QED
  BY <1>1, <1>2, <1>4 DEF TurnInv, Unready, Resumes, Stocked, Fresh, Ready, HasRun

\* A transfer happens after the orchestrator's load.
LEMMA TransferInv ==
  ASSUME LoadInv, NEW t \in Turns, Transfer(t)
  PROVE  TurnInv(t)'
<1>1. turn[t] \in TurnState /\ turn[t].pc = "model" /\ TurnInv(t)
  BY DEF LoadInv, TypeOK, Transfer
<1>2. /\ turn'[t].newDocs = turn[t].newDocs
      /\ turn'[t].session = turn[t].session /\ turn'[t].view = turn[t].view
      /\ artifacts' = artifacts
      /\ \/ turn'[t].pc = "response" /\ turn'[t].agent = turn[t].agent
         \/ turn'[t].pc = "tracker" /\ turn'[t].agent = "extractor"
  BY <1>1 DEF Transfer, LoadInv, TypeOK, TurnState
<1>3. QED
  BY <1>1, <1>2 DEF TurnInv, Unready, Resumes, Stocked, Fresh, Ready, HasRun

\* Blocks are no result and no artifact.
LEMMA ReadBlocksInv ==
  ASSUME LoadInv, NEW t \in Turns, ReadBlocks(t)
  PROVE  TurnInv(t)'
<1>1. turn[t] \in TurnState /\ turn[t].pc = "model" /\ TurnInv(t)
  BY DEF LoadInv, TypeOK, ReadBlocks
<1>2. /\ turn'[t].pc = turn[t].pc /\ turn'[t].agent = turn[t].agent
      /\ turn'[t].newDocs = turn[t].newDocs
      /\ turn'[t].session = turn[t].session /\ turn'[t].view = turn[t].view
      /\ artifacts' = artifacts
  BY <1>1 DEF ReadBlocks, LoadInv, TypeOK, TurnState
<1>3. QED
  BY <1>1, <1>2, SameWork DEF Resumes, Ready, HasRun

\* Counting touches no loaded document and no result.
LEMMA CountResponseInv ==
  ASSUME LoadInv, NEW t \in Turns, CountResponse(t)
  PROVE  TurnInv(t)'
<1>1. turn[t] \in TurnState /\ turn[t].pc \in {"model", "response"} /\ TurnInv(t)
      /\ turn[t].view \in AppState
  BY DEF LoadInv, TypeOK, CountResponse, TurnState
<1>2. artifacts' = artifacts
      /\ \/ turn' = [turn EXCEPT ![t].pc = "extract"]
         \/ \E title \in BOOLEAN : Counted(t, title)
  BY DEF CountResponse, TitlesFound
<1>3. /\ turn'[t].pc = "extract" /\ turn'[t].agent = turn[t].agent
      /\ turn'[t].newDocs = turn[t].newDocs /\ turn'[t].session = turn[t].session
      /\ turn'[t].view.loaded = turn[t].view.loaded
      /\ turn'[t].view.emitted = turn[t].view.emitted
  <2>1. CASE turn' = [turn EXCEPT ![t].pc = "extract"]
    BY <1>1, <2>1 DEF LoadInv, TypeOK, TurnState
  <2>2. ASSUME NEW title \in BOOLEAN, Counted(t, title)
        PROVE  /\ turn'[t].pc = "extract" /\ turn'[t].agent = turn[t].agent
               /\ turn'[t].newDocs = turn[t].newDocs
               /\ turn'[t].session = turn[t].session
               /\ turn'[t].view.loaded = turn[t].view.loaded
               /\ turn'[t].view.emitted = turn[t].view.emitted
    <3> DEFINE v == [turn[t].view EXCEPT !.turns = @ + 1]
    <3> DEFINE o == [turn[t].own EXCEPT !.titleSet = @ \/ title]
    <3> DEFINE d == turn[t].delta \cup {"turns"} \cup
                    (IF title THEN {"titleSet"} ELSE {})
    <3>1. turn' = [turn EXCEPT ![t] = [turn[t] EXCEPT !.pc = "extract", !.view = v,
                                         !.own = o, !.delta = d]]
      BY <2>2 DEF Counted
    <3>2. v.loaded = turn[t].view.loaded /\ v.emitted = turn[t].view.emitted
      BY <1>1 DEF AppState
    <3> HIDE DEF v, o, d
    <3>3. QED
      BY <1>1, <3>1, <3>2 DEF LoadInv, TypeOK, TurnState
  <2>3. QED
    BY <1>2, <2>1, <2>2
<1>4. QED
  BY <1>1, <1>2, <1>3, SameWork DEF Resumes, Ready, HasRun

\* The next agent of the turn inherits what it has loaded and emitted.
LEMMA StructuredExtractionInv ==
  ASSUME LoadInv, NEW t \in Turns, StructuredExtraction(t)
  PROVE  TurnInv(t)'
<1> DEFINE a == turn[t].agent
<1>1. turn[t] \in TurnState /\ turn[t].pc = "extract" /\ TurnInv(t) /\ a \in Agents
  BY DEF LoadInv, TypeOK, StructuredExtraction, TurnState
<1>2. /\ turn'[t].pc = "publish" /\ artifacts' = artifacts
      /\ turn'[t].newDocs = turn[t].newDocs
      /\ turn'[t].session = turn[t].session /\ turn'[t].view = turn[t].view
      /\ turn'[t].agent = IF a = "orchestrator" THEN a ELSE Successor[a]
      /\ turn'[t].resume = IF a = "orchestrator" THEN "done"
                           ELSE IF a = "poster" THEN "response" ELSE "tracker"
  BY <1>1 DEF StructuredExtraction, LoadInv, TypeOK, TurnState
<1>3. Resumes(t)'
  BY <1>1, <1>2 DEF Resumes, Successor, Agents, Specialists
<1>4. Ready(t) /\ Ready(t)'
  BY <1>1, <1>2 DEF Ready, HasRun
<1>5. QED
  BY <1>1, <1>2, <1>3, <1>4 DEF TurnInv, Unready, Stocked, Fresh

\* An aborted turn has no run.
LEMMA AbortInv ==
  ASSUME LoadInv, NEW t \in Turns, Abort(t)
  PROVE  TurnInv(t)'
<1>1. turn[t].pc # "idle" /\ turn'[t] = Finished(t)
  BY DEF LoadInv, TypeOK, Abort, HasRun
<1>2. QED
  BY <1>1, FinishedType, NoRunInv DEF LoadInv

\* After a restart no turn is in flight, so the lost artifacts are missed by none.
LEMMA RestartInv ==
  ASSUME LoadInv, NEW t \in Turns, Restart
  PROVE  TurnInv(t)'
<1>1. turn'[t] = IF InFlight(t) THEN Finished(t) ELSE turn[t]
  BY DEF Restart
<1>2. CASE InFlight(t)
  BY <1>1, <1>2, FinishedType, NoRunInv DEF LoadInv, InFlight
<1>3. CASE ~InFlight(t)
  <2>1. turn[t].agent = "orchestrator" /\ turn[t].newDocs = {}
        /\ turn[t].pc \in {"idle", "done"}
    BY <1>3 DEF LoadInv, TurnInv, Unready, Ready, HasRun, InFlight
  <2>2. QED
    BY <1>1, <1>3, <2>1, NoRunInv
<1>4. QED
  BY <1>2, <1>3

\* Nothing has run yet.
LEMMA LoadInit == Init => LoadInv
<1> SUFFICES ASSUME Init PROVE LoadInv
  OBVIOUS
<1>1. TypeOK
  BY InitType
<1>2. ASSUME NEW t \in Turns PROVE TurnInv(t)
  BY DEF Init, IdleTurn, TurnInv, Unready, Resumes, Stocked, Fresh, Ready, HasRun
<1>3. QED
  BY <1>1, <1>2 DEF LoadInv

\* A step of one turn other than a load keeps the invariant of every turn once
\* it keeps that turn's.
LEMMA LoadStep == LoadInv /\ [Next]_vars => LoadInv'
<1> SUFFICES ASSUME LoadInv, [Next]_vars PROVE LoadInv'
  OBVIOUS
<1>1. TypeOK /\ TypeOK'
  BY TypeStep DEF LoadInv
<1>2. ASSUME NEW t \in Turns, TurnInv(t)',
             \A u \in Turns : u # t => turn'[u] = turn[u],
             \A s \in Sessions : artifacts[s] \subseteq artifacts'[s]
      PROVE  \A u \in Turns : TurnInv(u)'
  <2>1. ASSUME NEW u \in Turns, u # t PROVE TurnInv(u)'
    BY <1>1, <1>2, <2>1, OthersKeep DEF LoadInv
  <2>2. QED
    BY <1>2, <2>1
<1>3. ASSUME NEW t \in Turns, NEW s \in Sessions, NEW docs \in SUBSET Docs,
             Request(t, s, docs)
      PROVE  \A u \in Turns : TurnInv(u)'
  <2>1. (\A u \in Turns : u # t => turn'[u] = turn[u]) /\ UNCHANGED artifacts
    BY <1>1, <1>3 DEF Request, TypeOK
  <2>2. TurnInv(t)'
    BY <1>3, RequestInv
  <2>3. QED
    BY <1>2, <2>1, <2>2
<1>4. ASSUME NEW t \in Turns, AgentStep(t) PROVE \A u \in Turns : TurnInv(u)'
  <2>1. TurnInv(t)'
    BY <1>4, OpenRunInv, TrackSessionInv, LoadDocumentsInv, PublishInv,
       ReadBlocksInv, EmitInv, TransferInv, CountResponseInv,
       StructuredExtractionInv, AbortInv DEF AgentStep
  <2>2. ASSUME NEW u \in Turns, u # t PROVE turn'[u] = turn[u]
    BY <1>1, <1>4, <2>2, OthersStay
  <2>3. UNCHANGED artifacts \/ LoadDocuments(t)
    BY <1>4 DEF AgentStep, OpenRun, TrackSession, Publish, ReadBlocks, Emit,
       Transfer, CountResponse, StructuredExtraction, Abort
  <2>4. \A s \in Sessions : artifacts[s] \subseteq artifacts'[s]
    BY <2>3, LoadDocumentsInv
  <2>5. QED
    BY <1>2, <2>1, <2>2, <2>4
<1>5. ASSUME Restart PROVE \A u \in Turns : TurnInv(u)'
  BY <1>5, RestartInv
<1>6. ASSUME UNCHANGED vars PROVE \A u \in Turns : TurnInv(u)'
  BY <1>6 DEF LoadInv, TurnInv, Unready, Resumes, Stocked, Fresh, Ready, HasRun,
     vars
<1>7. \A u \in Turns : TurnInv(u)'
  BY <1>3, <1>4, <1>5, <1>6 DEF Next
<1>8. QED
  BY <1>1, <1>7 DEF LoadInv

\* The loader keeps its promise to the rest of the turn, for any number of
\* sessions, documents, turns in flight, restarts and failed loads: a listed
\* document can be read.
THEOREM LoadedAreStored == Spec => []LoadedHasArtifact
<1>1. LoadInv => LoadedHasArtifact
  BY DEF LoadInv, TurnInv, Stocked, LoadedHasArtifact
<1>2. QED
  BY <1>1, LoadInit, LoadStep, PTL DEF Spec

\* A new document starts from an empty workbench, with any interleaving of
\* concurrent turns on a shared or private store.
THEOREM NewDocStartsFresh == Spec => []FreshAfterNewDoc
<1>1. LoadInv => FreshAfterNewDoc
  BY DEF LoadInv, TurnInv, Fresh, FreshAfterNewDoc
<1>2. QED
  BY <1>1, LoadInit, LoadStep, PTL DEF Spec

-----------------------------------------------------------------------------
(* The rows of the index *)

\* A step of a turn belongs to a request under way, and keeps the turn's session
\* and documents unless it ends the turn.
LEMMA AgentFrame ==
  ASSUME TypeOK, NEW t \in Turns, AgentStep(t)
  PROVE  /\ InFlight(t) /\ turn[t].session \in Sessions
         /\ \/ turn'[t] = Finished(t)
            \/ /\ turn'[t].session = turn[t].session
               /\ turn'[t].asked = turn[t].asked
<1>1. CASE OpenRun(t)
  BY <1>1, OpenRunEffect DEF InFlight
<1>2. CASE TrackSession(t)
  BY <1>2, TrackEffect DEF InFlight
<1>3. CASE LoadDocuments(t)
  BY <1>3, LoadEffect DEF LoadFrame, InFlight
<1>4. CASE Publish(t)
  BY <1>4, PublishEffect DEF InFlight
<1>5. CASE Emit(t)
  BY <1>5, EmitEffect DEF InFlight
<1>6. CASE Passes(t)
  BY <1>6, PassEffect DEF InFlight
<1>7. CASE CountResponse(t)
  BY <1>7, CountEffect DEF InFlight
<1>8. CASE Abort(t)
  BY <1>8, AbortEffect DEF InFlight, HasRun
<1>9. QED
  BY <1>1, <1>2, <1>3, <1>4, <1>5, <1>6, <1>7, <1>8 DEF AgentStep, Passes

\* RowKeepsHistory, of one row and one step.
RowGrows(s) ==
  index[s].exists =>
    /\ index'[s].exists
    /\ index[s].docs \subseteq index'[s].docs
    /\ index[s].titled => index'[s].titled

\* The tracker replaces a row it has not seen; only a read that failed can have
\* hidden one.
LEMMA TrackRow ==
  ASSUME TypeOK, NEW t \in Turns, TrackSession(t), NEW s \in Sessions
  PROVE  /\ index[s].exists => index'[s].exists
         /\ ~IndexFaults => RowGrows(s)
<1>1. \/ UNCHANGED index
      \/ /\ ~index[turn[t].session].exists \/ IndexFaults
         /\ index' = [index EXCEPT ![turn[t].session] =
                        NewRow(turn[t].own.document_ids)]
  BY TrackEffect
<1>2. NewRow(turn[t].own.document_ids).exists
  BY DEF NewRow
<1> HIDE DEF NewRow
<1>3. QED
  BY <1>1, <1>2 DEF TypeOK, RowGrows

\* A load adds documents to the row.
LEMMA LoadRow ==
  ASSUME TypeOK, NEW t \in Turns, LoadDocuments(t), NEW s \in Sessions
  PROVE  RowGrows(s)
<1>1. \/ UNCHANGED index
      \/ \E saved : index' = [index EXCEPT ![turn[t].session].docs = @ \cup saved]
  BY LoadEffect DEF LoadedNothing, LoadedSome
<1>2. index[s] \in Row /\ index[turn[t].session] \in Row
  BY LoadEffect DEF TypeOK, LoadFrame
<1>3. CASE UNCHANGED index
  BY <1>3 DEF RowGrows
<1>4. ASSUME NEW saved,
             index' = [index EXCEPT ![turn[t].session].docs = @ \cup saved]
      PROVE  RowGrows(s)
  BY <1>2, <1>4 DEF RowGrows, TypeOK, Row
<1>5. QED
  BY <1>1, <1>3, <1>4

\* A flush adds documents and a title to the row.
LEMMA CountRow ==
  ASSUME TypeOK, NEW t \in Turns, CountResponse(t), NEW s \in Sessions
  PROVE  RowGrows(s)
<1>1. \/ UNCHANGED index
      \/ /\ index[turn[t].session].exists
         /\ \E title, fields, docs \in BOOLEAN :
              index' = [index EXCEPT ![turn[t].session] =
                Flushed(@, turn[t].view.turns + 1, title,
                        turn[t].own.document_ids, fields, docs)]
  BY CountEffect
<1>2. CASE UNCHANGED index
  BY <1>2 DEF RowGrows
<1>3. ASSUME NEW title \in BOOLEAN, NEW fields \in BOOLEAN, NEW docs \in BOOLEAN,
             index' = [index EXCEPT ![turn[t].session] =
                Flushed(@, turn[t].view.turns + 1, title,
                        turn[t].own.document_ids, fields, docs)]
      PROVE  RowGrows(s)
  <2>1. index[s] \in Row
    BY DEF TypeOK
  <2>2. index'[s] = index[s] \/
        index'[s] = Flushed(index[s], turn[t].view.turns + 1, title,
                            turn[t].own.document_ids, fields, docs)
    BY <1>3 DEF TypeOK
  <2>3. QED
    BY <2>1, <2>2 DEF RowGrows, Flushed, Row
<1>4. QED
  BY <1>1, <1>2, <1>3

\* A request creates the row or adds its documents.
LEMMA RequestRow ==
  ASSUME TypeOK, NEW t \in Turns, NEW x \in Sessions, NEW docs \in SUBSET Docs,
         Request(t, x, docs)
  PROVE  /\ \A s \in Sessions : RowGrows(s)
         /\ \A s \in Sessions : s # x => index'[s] = index[s]
         /\ \/ index' = index
            \/ /\ index'[x].exists /\ docs \subseteq index'[x].docs
               /\ \/ index'[x].turnCount = 0
                  \/ index'[x].turnCount = index[x].turnCount
         /\ ~IndexFaults => index'[x].exists /\ docs \subseteq index'[x].docs
<1> DEFINE e == Ensured(x, docs)
<1>1. /\ e.exists /\ docs \subseteq e.docs
      /\ e.turnCount = 0 \/ e.turnCount = index[x].turnCount
      /\ index[x].exists => index[x].docs \subseteq e.docs
                            /\ (index[x].titled => e.titled)
  BY DEF TypeOK, Row, Ensured, NewRow
<1>2. \/ index' = [index EXCEPT ![x] = e]
      \/ IndexFaults /\ index' = index
  BY DEF Request, Outcomes
<1> HIDE DEF e
<1>3. QED
  BY <1>1, <1>2 DEF TypeOK, RowGrows

\* No step deletes a row, and while the index answers none takes anything from
\* one.
LEMMA RowStep ==
  ASSUME TypeOK, [Next]_vars, NEW s \in Sessions
  PROVE  /\ index[s].exists => index'[s].exists
         /\ ~IndexFaults => RowGrows(s)
<1>1. ASSUME UNCHANGED index
      PROVE  /\ index[s].exists => index'[s].exists
             /\ ~IndexFaults => RowGrows(s)
  BY <1>1 DEF RowGrows
<1>2. ASSUME NEW t \in Turns, NEW x \in Sessions, NEW docs \in SUBSET Docs,
             Request(t, x, docs)
      PROVE  RowGrows(s)
  BY <1>2, RequestRow
<1>3. ASSUME NEW t \in Turns, AgentStep(t)
      PROVE  /\ index[s].exists => index'[s].exists
             /\ ~IndexFaults => RowGrows(s)
  <2>1. CASE TrackSession(t)
    BY <2>1, TrackRow
  <2>2. CASE LoadDocuments(t)
    BY <2>2, LoadRow DEF RowGrows
  <2>3. CASE CountResponse(t)
    BY <2>3, CountRow DEF RowGrows
  <2>4. CASE ~(TrackSession(t) \/ LoadDocuments(t) \/ CountResponse(t))
    <3>1. UNCHANGED index
      BY <1>3, <2>4, OpenRunEffect, PublishEffect, EmitEffect, PassEffect,
         AbortEffect DEF AgentStep, Passes
    <3>2. QED
      BY <1>1, <3>1
  <2>5. QED
    BY <2>1, <2>2, <2>3, <2>4
<1>4. CASE Restart
  BY <1>1, <1>4 DEF Restart
<1>5. CASE UNCHANGED vars
  BY <1>1, <1>5 DEF vars
<1>6. QED
  BY <1>2, <1>3, <1>4, <1>5 DEF Next, RowGrows

\* A row is never re-created over its history: where the calls on the index
\* answer, no interleaving of requests, trackers, loads, flushes and restarts of
\* any number of turns takes a document or the title from a row.
THEOREM HistoryIsKept ==
  ASSUME ~IndexFaults
  PROVE  Spec => RowKeepsHistory
<1>1. TypeOK /\ [Next]_vars =>
        [\A s \in Sessions : index[s].exists =>
           /\ index'[s].exists
           /\ index[s].docs \subseteq index'[s].docs
           /\ index[s].titled => index'[s].titled]_vars
  BY RowStep DEF RowGrows
<1>2. QED
  BY <1>1, TypeCorrect, PTL DEF Spec, RowKeepsHistory

\* The documents of a turn are in its row from the request to its end.
LEMMA AskedStep ==
  ASSUME ~IndexFaults, TypeOK, AskedDocsIndexed, [Next]_vars
  PROVE  AskedDocsIndexed'
<1> DEFINE Listed(u) == LET row == index[turn[u].session] IN
                        row.exists /\ turn[u].asked \subseteq row.docs
<1>1. ASSUME NEW u \in Turns, InFlight(u), turn'[u].session = turn[u].session,
             turn'[u].asked = turn[u].asked
      PROVE  Listed(u)'
  <2>1. turn[u].session \in Sessions
    BY <1>1 DEF TypeOK, InFlight
  <2>2. RowGrows(turn[u].session) /\ Listed(u)
    BY <1>1, <2>1, RowStep DEF AskedDocsIndexed
  <2>3. QED
    BY <1>1, <2>2 DEF RowGrows
<1> SUFFICES ASSUME NEW u \in Turns, InFlight(u)' PROVE Listed(u)'
  BY DEF AskedDocsIndexed
<1>2. ASSUME turn'[u] = turn[u] PROVE Listed(u)'
  BY <1>1, <1>2 DEF InFlight
<1>3. ASSUME NEW t \in Turns, NEW x \in Sessions, NEW docs \in SUBSET Docs,
             Request(t, x, docs)
      PROVE  Listed(u)'
  <2>1. CASE u = t
    <3>1. turn'[t].session = x /\ turn'[t].asked = docs
      BY <1>3 DEF Request, TypeOK, TurnState
    <3>2. QED
      BY <1>3, <2>1, <3>1, RequestRow
  <2>2. CASE u # t
    BY <1>2, <1>3, <2>2 DEF Request, TypeOK
  <2>3. QED
    BY <2>1, <2>2
<1>4. ASSUME NEW t \in Turns, AgentStep(t) PROVE Listed(u)'
  <2>1. CASE u = t
    <3>1. turn'[t] # Finished(t)
      BY <1>4, <2>1, AgentFrame, FinishedType DEF InFlight
    <3>2. QED
      BY <1>1, <1>4, <2>1, <3>1, AgentFrame
  <2>2. CASE u # t
    BY <1>2, <1>4, <2>2, OthersStay
  <2>3. QED
    BY <2>1, <2>2
<1>5. CASE Restart
  <2>1. turn'[u] = IF InFlight(u) THEN Finished(u) ELSE turn[u]
    BY <1>5 DEF Restart
  <2>2. QED
    BY <1>2, <2>1, FinishedType DEF InFlight
<1>6. CASE UNCHANGED vars
  BY <1>2, <1>6 DEF vars
<1>7. QED
  BY <1>3, <1>4, <1>5, <1>6 DEF Next

\* No session is stranded outside its documents' panels: while the index answers,
\* a turn under way has its row, and the row lists what the turn was asked.
THEOREM AskedAreIndexed ==
  ASSUME ~IndexFaults
  PROVE  Spec => []AskedDocsIndexed
<1>1. Init => AskedDocsIndexed
  BY DEF Init, IdleTurn, AskedDocsIndexed, InFlight
<1>2. TypeOK /\ AskedDocsIndexed /\ [Next]_vars => AskedDocsIndexed'
  BY AskedStep
<1>3. QED
  BY <1>1, <1>2, TypeCorrect, PTL DEF Spec

-----------------------------------------------------------------------------
(* The flag that a session has its row, on Agent Engine *)

\* The flag is only seen, in the store or in a snapshot, where the row is.
FlagInv ==
  /\ \A s \in Sessions : app[s].initialized => index[s].exists
  /\ \A t \in Turns :
       HasRun(t) /\ turn[t].view.initialized => index[turn[t].session].exists

\* On Agent Engine the stored keys of a session are its own.
LEMMA HomeIsOwn ==
  ASSUME Backend = "vertex", NEW s
  PROVE  Home(s) = s
BY DEF Home

\* A step of a turn sets the flag only with the row at hand.
LEMMA FlagOfTurn ==
  ASSUME Backend = "vertex", TypeOK, FlagInv, NEW t \in Turns, AgentStep(t),
         HasRun(t)', turn'[t].view.initialized
  PROVE  index'[turn'[t].session].exists
<1> DEFINE s == turn[t].session
<1>1. [Next]_vars
  BY DEF Next
<1>2. turn'[t] # Finished(t) /\ s \in Sessions /\ turn'[t].session = s
  BY AgentFrame, FinishedType DEF HasRun, InFlight
<1>3. index[s].exists => index'[s].exists
  BY <1>1, <1>2, RowStep
<1>4. CASE OpenRun(t)
  BY <1>2, <1>3, <1>4, OpenRunEffect, HomeIsOwn DEF FlagInv
<1>5. CASE TrackSession(t)
  <2>1. \/ turn'[t].view.initialized = turn[t].view.initialized
        \/ index[s].exists
        \/ index' = [index EXCEPT ![s] = NewRow(turn[t].own.document_ids)]
    BY <1>5, TrackEffect
  <2>2. HasRun(t) /\ NewRow(turn[t].own.document_ids).exists
    BY <1>5 DEF HasRun, TrackSession, NewRow
  <2> HIDE DEF NewRow
  <2>3. QED
    BY <1>2, <1>3, <2>1, <2>2 DEF FlagInv, TypeOK
<1>6. ASSUME HasRun(t), turn'[t].view.initialized = turn[t].view.initialized
      PROVE  index'[s].exists
  BY <1>3, <1>6 DEF FlagInv
<1>7. CASE LoadDocuments(t)
  BY <1>2, <1>6, <1>7, LoadEffect DEF LoadFrame, HasRun
<1>8. CASE Publish(t)
  BY <1>2, <1>6, <1>8, PublishEffect DEF HasRun
<1>9. CASE Emit(t)
  BY <1>2, <1>6, <1>9, EmitEffect DEF HasRun
<1>10. CASE Passes(t)
  BY <1>2, <1>6, <1>10, PassEffect DEF HasRun
<1>11. CASE CountResponse(t)
  BY <1>2, <1>6, <1>11, CountEffect DEF HasRun
<1>12. CASE Abort(t)
  BY <1>2, <1>12, AbortEffect
<1>13. QED
  BY <1>2, <1>4, <1>5, <1>7, <1>8, <1>9, <1>10, <1>11, <1>12
  DEF AgentStep, Passes

\* Only an event stores anything, and it stores flags its turn may have set.
LEMMA FlagOfStore ==
  ASSUME Backend = "vertex", TypeOK, FlagInv, NEW t \in Turns, AgentStep(t),
         NEW s \in Sessions, app'[s].initialized
  PROVE  index'[s].exists
<1>1. [Next]_vars
  BY DEF Next
<1>2. index[s].exists => index'[s].exists
  BY <1>1, RowStep
<1>3. CASE Publish(t)
  <2> DEFINE x == turn[t].session
  <2>1. /\ x \in Sessions /\ HasRun(t)
        /\ app' = [app EXCEPT ![x] = Merged(@, turn[t].view, turn[t].delta)]
    BY <1>3, PublishEffect, HomeIsOwn DEF HasRun
  <2>2. app'[s].initialized =>
          app[s].initialized \/ (s = x /\ turn[t].view.initialized)
    BY <2>1 DEF Merged, TypeOK, Stores
  <2>3. QED
    BY <1>2, <2>1, <2>2 DEF FlagInv
<1>4. CASE ~Publish(t)
  <2>1. UNCHANGED app
    BY <1>4, OpenRunEffect, TrackEffect, LoadEffect, EmitEffect, PassEffect,
       CountEffect, AbortEffect DEF AgentStep, Passes, LoadFrame
  <2>2. QED
    BY <1>2, <2>1 DEF FlagInv
<1>5. QED
  BY <1>3, <1>4

LEMMA FlagStep ==
  ASSUME Backend = "vertex", TypeOK, FlagInv, [Next]_vars
  PROVE  FlagInv'
<1>1. ASSUME NEW u \in Turns, HasRun(u), turn'[u] = turn[u],
             turn[u].view.initialized
      PROVE  index'[turn[u].session].exists
  <2>1. turn[u].session \in Sessions
    BY <1>1 DEF TypeOK, HasRun
  <2>2. QED
    BY <1>1, <2>1, RowStep DEF FlagInv
<1>2. ASSUME UNCHANGED app, NEW s \in Sessions, app'[s].initialized
      PROVE  index'[s].exists
  BY <1>2, RowStep DEF FlagInv
<1>3. ASSUME NEW t \in Turns, NEW x \in Sessions, NEW docs \in SUBSET Docs,
             Request(t, x, docs)
      PROVE  FlagInv'
  <2>1. UNCHANGED app
    BY <1>3 DEF Request
  <2>2. ASSUME NEW u \in Turns, HasRun(u)' PROVE turn'[u] = turn[u]
    <3>1. u # t
      BY <1>3, <2>2 DEF Request, TypeOK, TurnState, HasRun
    <3>2. QED
      BY <1>3, <3>1 DEF Request, TypeOK
  <2>3. QED
    BY <1>1, <1>2, <2>1, <2>2 DEF FlagInv, HasRun
<1>4. ASSUME NEW t \in Turns, AgentStep(t) PROVE FlagInv'
  <2>1. ASSUME NEW u \in Turns, HasRun(u)', turn'[u].view.initialized
        PROVE  index'[turn'[u].session].exists
    <3>1. CASE u = t
      BY <1>4, <2>1, <3>1, FlagOfTurn
    <3>2. CASE u # t
      BY <1>1, <1>4, <2>1, <3>2, OthersStay DEF HasRun
    <3>3. QED
      BY <3>1, <3>2
  <2>2. QED
    BY <1>4, <2>1, FlagOfStore DEF FlagInv
<1>5. CASE Restart
  <2>1. UNCHANGED app
    BY <1>5 DEF Restart
  <2>2. ASSUME NEW u \in Turns, HasRun(u)' PROVE turn'[u] = turn[u]
    <3>1. turn'[u] = IF InFlight(u) THEN Finished(u) ELSE turn[u]
      BY <1>5 DEF Restart
    <3>2. QED
      BY <2>2, <3>1, FinishedType DEF HasRun, InFlight
  <2>3. QED
    BY <1>1, <1>2, <2>1, <2>2 DEF FlagInv, HasRun
<1>6. CASE UNCHANGED vars
  BY <1>1, <1>2, <1>6 DEF vars, FlagInv, HasRun
<1>7. QED
  BY <1>3, <1>4, <1>5, <1>6 DEF Next

\* On Agent Engine no failed call, abort, restart or interleaving leaves a session
\* flagged as initialized without a row: none is unlisted for good.
THEOREM FlaggedHasRow ==
  ASSUME Backend = "vertex"
  PROVE  Spec => []InitializedHasRow
<1>1. Init => FlagInv
  BY DEF Init, IdleTurn, EmptyApp, FlagInv, HasRun, Stores
<1>2. TypeOK /\ FlagInv /\ [Next]_vars => FlagInv'
  BY FlagStep
<1>3. FlagInv => InitializedHasRow
  BY HomeIsOwn DEF FlagInv, InitializedHasRow
<1>4. QED
  BY <1>1, <1>2, <1>3, TypeCorrect, PTL DEF Spec

-----------------------------------------------------------------------------
(* What a turn has emitted, where every document loads *)

\* The turns that may have emitted: those past their first load.
Emitters == {t \in Turns : turn[t].pc = "done" \/ Ready(t)}

\* Whoever is named as the author of a result may have emitted.
Authored(v, authors) ==
  \A a \in Specialists : v.emitted[a] # None => v.emitted[a].by \in authors

\* Every open document is loaded once the first loader has returned.
AllLoaded(t) == Ready(t) => turn[t].own.document_ids \subseteq turn[t].view.loaded

EmissionInv ==
  /\ LoadInv
  /\ \A h \in Stores : Authored(app[h], Emitters)
  /\ \A t \in Turns : Authored(turn[t].view, Emitters)
  /\ \A t \in Turns : AllLoaded(t)

\* A turn that is past its load stays so to its end.
LEMMA ReadyStays ==
  ASSUME LoadInv, NEW t \in Turns, AgentStep(t), Ready(t)
  PROVE  turn'[t].pc = "done" \/ Ready(t)'
<1> USE DEF Ready, HasRun
<1>1. TypeOK /\ Resumes(t) /\ turn[t] \in TurnState
  BY DEF LoadInv, TurnInv, TypeOK
<1>2. CASE OpenRun(t)
  BY <1>1, <1>2, OpenRunEffect
<1>3. CASE TrackSession(t)
  BY <1>1, <1>3, TrackEffect
<1>4. CASE LoadDocuments(t)
  BY <1>1, <1>4, LoadEffect DEF LoadFrame
<1>5. CASE Publish(t)
  BY <1>1, <1>5, PublishEffect, FinishedType DEF Resumes
<1>6. CASE Emit(t)
  BY <1>1, <1>6, EmitEffect
<1>7. CASE Passes(t)
  BY <1>1, <1>7, PassEffect
<1>8. CASE CountResponse(t)
  BY <1>1, <1>8, CountEffect
<1>9. CASE Abort(t)
  BY <1>1, <1>9, AbortEffect, FinishedType
<1>10. QED
  BY <1>2, <1>3, <1>4, <1>5, <1>6, <1>7, <1>8, <1>9 DEF AgentStep, Passes

\* Emitters are only added.
LEMMA EmittersStay ==
  ASSUME LoadInv, [Next]_vars
  PROVE  Emitters \subseteq Emitters'
<1>1. TypeOK
  BY DEF LoadInv
<1> SUFFICES ASSUME NEW u \in Turns, turn[u].pc = "done" \/ Ready(u)
             PROVE  turn'[u].pc = "done" \/ Ready(u)'
  BY DEF Emitters
<1>2. ASSUME turn'[u] = turn[u] PROVE turn'[u].pc = "done" \/ Ready(u)'
  BY <1>2 DEF Ready, HasRun
<1>3. ASSUME NEW t \in Turns, NEW x \in Sessions, NEW docs \in SUBSET Docs,
             Request(t, x, docs)
      PROVE  turn'[u] = turn[u]
  BY <1>1, <1>3 DEF Request, TypeOK, Ready, HasRun
<1>4. ASSUME NEW t \in Turns, AgentStep(t)
      PROVE  turn'[u].pc = "done" \/ Ready(u)'
  <2>1. CASE u = t
    BY <1>1, <1>4, <2>1, AgentFrame, ReadyStays DEF InFlight
  <2>2. CASE u # t
    BY <1>1, <1>2, <1>4, <2>2, OthersStay
  <2>3. QED
    BY <2>1, <2>2
<1>5. CASE Restart
  <2>1. turn'[u] = IF InFlight(u) THEN Finished(u) ELSE turn[u]
    BY <1>5 DEF Restart
  <2>2. QED
    BY <1>1, <1>2, <2>1, FinishedType DEF InFlight
<1>6. CASE UNCHANGED vars
  BY <1>2, <1>6 DEF vars
<1>7. QED
  BY <1>2, <1>3, <1>4, <1>5, <1>6 DEF Next

\* A turn with no run has an empty view again.
LEMMA FinishedView ==
  ASSUME TypeOK, NEW t \in Turns, turn[t].pc # "idle", NEW authors
  PROVE  /\ Authored(Finished(t).view, authors)
         /\ Finished(t).delta = {}
<1>1. Finished(t).view = EmptyApp /\ Finished(t).delta = {}
  BY DEF Finished, IdleTurn
<1>2. QED
  BY <1>1 DEF EmptyApp, Authored

\* With no flaky document a load leaves nothing open behind, and a turn that had
\* loaded everything finds nothing to do.
LEMMA SureLoad ==
  ASSUME FlakyDocs = {}, LoadInv, NEW t \in Turns, LoadDocuments(t)
  PROVE  /\ turn[t].own.document_ids \subseteq turn'[t].view.loaded
         /\ \/ turn'[t].view.emitted = turn[t].view.emitted
            \/ \A a \in Specialists : turn'[t].view.emitted[a] = None
         /\ Ready(t) /\ AllLoaded(t) =>
              turn'[t].view.emitted = turn[t].view.emitted
<1>1. TypeOK /\ Stocked(t)
  BY DEF LoadInv, TurnInv
<1>2. \/ /\ Missing(t, {}) = {}
         /\ LoadedNothing(t, Kept(t, {}))
      \/ /\ Missing(t, {}) # {}
         /\ LoadedSome(t, Kept(t, {}), Missing(t, {}), {})
  <2>1. PICK unread \in SUBSET (turn[t].view.loaded \cap FlakyDocs) :
              \/ /\ Missing(t, unread) = {}
                 /\ LoadedNothing(t, Kept(t, unread))
              \/ /\ Missing(t, unread) # {}
                 /\ \E failed \in SUBSET (Missing(t, unread) \cap FlakyDocs) :
                      LoadedSome(t, Kept(t, unread), Missing(t, unread), failed)
    BY <1>1, LoadEffect
  <2>2. unread = {} /\ \A failed \in SUBSET (Missing(t, {}) \cap FlakyDocs) :
                         failed = {}
    OBVIOUS
  <2>3. QED
    BY <2>1, <2>2
<1>3. Ready(t) /\ AllLoaded(t) => Missing(t, {}) = {}
  BY <1>1 DEF Stocked, AllLoaded, Missing, Kept
<1>4. turn[t].own.document_ids \subseteq Kept(t, {}) \cup Missing(t, {})
  BY DEF Missing
<1>5. QED
  BY <1>2, <1>3, <1>4 DEF LoadedNothing, LoadedSome

\* Whatever a step of a turn makes of its snapshot, the results in it have
\* authors.
LEMMA AuthoredTurn ==
  ASSUME FlakyDocs = {}, EmissionInv, NEW t \in Turns, AgentStep(t)
  PROVE  Authored(turn'[t].view, Emitters') /\ AllLoaded(t)'
<1>1. TypeOK /\ TurnInv(t) /\ LoadInv
  BY DEF EmissionInv, LoadInv
<1>2. Emitters \subseteq Emitters'
  BY <1>1, EmittersStay DEF Next
<1>3. ASSUME \A a \in Specialists :
               \/ turn'[t].view.emitted[a] = None
               \/ turn'[t].view.emitted[a] = turn[t].view.emitted[a]
      PROVE  Authored(turn'[t].view, Emitters')
  BY <1>2, <1>3 DEF EmissionInv, Authored
<1>4. ASSUME Ready(t)' => Ready(t),
             turn'[t].view.loaded = turn[t].view.loaded,
             turn'[t].own.document_ids = turn[t].own.document_ids
      PROVE  AllLoaded(t)'
  BY <1>4 DEF EmissionInv, AllLoaded
<1>5. CASE OpenRun(t)
  <2>1. Home(turn[t].session) \in Stores
    BY <1>1, <1>5, OpenRunEffect DEF Home, Stores
  <2>2. Authored(turn'[t].view, Emitters')
    BY <1>1, <1>2, <1>5, <2>1, OpenRunEffect DEF EmissionInv, Authored
  <2>3. turn'[t].pc = "tracker" /\ turn'[t].agent = "orchestrator"
    BY <1>1, <1>5, OpenRunEffect DEF TurnInv, Unready, Ready, HasRun
  <2>4. QED
    BY <2>2, <2>3 DEF AllLoaded, Ready
<1>6. CASE TrackSession(t)
  BY <1>1, <1>3, <1>4, <1>6, TrackEffect DEF Ready, HasRun
<1>7. CASE LoadDocuments(t)
  BY <1>1, <1>3, <1>7, SureLoad, LoadEffect DEF LoadFrame, AllLoaded
<1>8. CASE Publish(t)
  <2>1. CASE turn'[t] = Finished(t)
    BY <1>1, <1>8, <2>1, PublishEffect, FinishedView, FinishedType
    DEF AllLoaded, Ready, HasRun
  <2>2. CASE turn'[t] # Finished(t)
    BY <1>1, <1>3, <1>4, <1>8, <2>2, PublishEffect DEF Ready, HasRun
  <2>3. QED
    BY <2>1, <2>2
<1>9. CASE Emit(t)
  <2>1. turn'[t].view.emitted[turn[t].agent].by = t /\ t \in Emitters
    <3>1. turn'[t].view.emitted[turn[t].agent] = [by |-> t, docs |-> turn[t].view.loaded]
      BY <1>1, <1>9, EmitEffect
    <3>2. Ready(t)
      BY <1>1, <1>9, EmitEffect DEF Ready, HasRun
    <3>3. QED
      BY <3>1, <3>2 DEF Emitters
  <2>2. \A b \in Specialists : b # turn[t].agent =>
          turn'[t].view.emitted[b] = turn[t].view.emitted[b]
    BY <1>1, <1>9, EmitEffect
  <2>3. Authored(turn'[t].view, Emitters')
    BY <1>2, <2>1, <2>2 DEF EmissionInv, Authored
  <2>4. QED
    BY <1>1, <1>4, <1>9, <2>3, EmitEffect DEF Ready, HasRun
<1>10. CASE Passes(t)
  <2>1. Ready(t)
    BY <1>1, <1>10, PassEffect DEF Ready, HasRun
  <2>2. QED
    BY <1>1, <1>3, <1>4, <1>10, <2>1, PassEffect
<1>11. CASE CountResponse(t)
  <2>1. Ready(t)
    BY <1>1, <1>11, CountEffect DEF Ready, HasRun
  <2>2. QED
    BY <1>1, <1>3, <1>4, <1>11, <2>1, CountEffect
<1>12. CASE Abort(t)
  BY <1>1, <1>12, AbortEffect, FinishedView, FinishedType
  DEF AllLoaded, Ready, HasRun
<1>13. QED
  BY <1>5, <1>6, <1>7, <1>8, <1>9, <1>10, <1>11, <1>12 DEF AgentStep, Passes

\* What an event stores was in the store or in the snapshot.
LEMMA AuthoredStore ==
  ASSUME EmissionInv, NEW t \in Turns, AgentStep(t), NEW h \in Stores
  PROVE  Authored(app'[h], Emitters')
<1>1. TypeOK /\ LoadInv
  BY DEF EmissionInv, LoadInv
<1>2. Emitters \subseteq Emitters'
  BY <1>1, EmittersStay DEF Next
<1>3. CASE Publish(t)
  <2> DEFINE m == Merged(app[Home(turn[t].session)], turn[t].view, turn[t].delta)
  <2>1. app' = [app EXCEPT ![Home(turn[t].session)] = m]
    BY <1>1, <1>3, PublishEffect
  <2>2. \A a \in Specialists :
          \/ m.emitted[a] = turn[t].view.emitted[a]
          \/ m.emitted[a] = app[Home(turn[t].session)].emitted[a]
    BY DEF Merged
  <2> HIDE DEF m
  <2>3. CASE h = Home(turn[t].session)
    BY <1>1, <1>2, <2>1, <2>2, <2>3 DEF EmissionInv, Authored, TypeOK
  <2>4. CASE h # Home(turn[t].session)
    BY <1>1, <1>2, <2>1, <2>4 DEF EmissionInv, Authored, TypeOK
  <2>5. QED
    BY <2>3, <2>4
<1>4. CASE ~Publish(t)
  <2>1. UNCHANGED app
    BY <1>1, <1>4, OpenRunEffect, TrackEffect, LoadEffect, EmitEffect, PassEffect,
       CountEffect, AbortEffect DEF AgentStep, Passes, LoadFrame
  <2>2. QED
    BY <1>2, <2>1 DEF EmissionInv, Authored
<1>5. QED
  BY <1>3, <1>4

LEMMA EmissionStep ==
  ASSUME FlakyDocs = {}, EmissionInv, [Next]_vars
  PROVE  EmissionInv'
<1>1. TypeOK /\ LoadInv /\ LoadInv'
  BY LoadStep DEF EmissionInv, LoadInv
<1>2. Emitters \subseteq Emitters'
  BY <1>1, EmittersStay
<1>3. ASSUME NEW u \in Turns, turn'[u] = turn[u]
      PROVE  Authored(turn'[u].view, Emitters') /\ AllLoaded(u)'
  BY <1>2, <1>3 DEF EmissionInv, Authored, AllLoaded, Ready, HasRun
<1>4. ASSUME UNCHANGED app, NEW h \in Stores
      PROVE  Authored(app'[h], Emitters')
  BY <1>2, <1>4 DEF EmissionInv, Authored
<1>5. ASSUME NEW u \in Turns, turn[u].pc # "idle", turn'[u] = Finished(u)
      PROVE  Authored(turn'[u].view, Emitters') /\ AllLoaded(u)'
  BY <1>1, <1>5, FinishedView, FinishedType DEF AllLoaded, Ready, HasRun
<1>6. ASSUME NEW t \in Turns, NEW x \in Sessions, NEW docs \in SUBSET Docs,
             Request(t, x, docs)
      PROVE  EmissionInv'
  <2>1. UNCHANGED app
    BY <1>6 DEF Request
  <2>2. turn'[t].pc = "requested" /\ turn'[t].view = turn[t].view
    BY <1>1, <1>6 DEF Request, TypeOK, TurnState
  <2>3. Authored(turn'[t].view, Emitters') /\ AllLoaded(t)'
    BY <1>2, <2>2 DEF EmissionInv, Authored, AllLoaded, Ready, HasRun
  <2>4. \A u \in Turns : u # t => turn'[u] = turn[u]
    BY <1>1, <1>6 DEF Request, TypeOK
  <2>5. \A u \in Turns : Authored(turn'[u].view, Emitters') /\ AllLoaded(u)'
    BY <1>3, <2>3, <2>4
  <2>6. QED
    BY <1>1, <1>4, <2>1, <2>5 DEF EmissionInv
<1>7. ASSUME NEW t \in Turns, AgentStep(t) PROVE EmissionInv'
  <2>1. \A u \in Turns : u # t => turn'[u] = turn[u]
    BY <1>1, <1>7, OthersStay
  <2>2. Authored(turn'[t].view, Emitters') /\ AllLoaded(t)'
    BY <1>7, AuthoredTurn
  <2>3. \A u \in Turns : Authored(turn'[u].view, Emitters') /\ AllLoaded(u)'
    BY <1>3, <2>1, <2>2
  <2>4. \A h \in Stores : Authored(app'[h], Emitters')
    BY <1>7, AuthoredStore
  <2>5. QED
    BY <1>1, <2>3, <2>4 DEF EmissionInv
<1>8. CASE Restart
  <2>1. ASSUME NEW u \in Turns
        PROVE  Authored(turn'[u].view, Emitters') /\ AllLoaded(u)'
    <3>1. turn'[u] = IF InFlight(u) THEN Finished(u) ELSE turn[u]
      BY <1>8 DEF Restart
    <3>2. QED
      BY <1>3, <1>5, <3>1 DEF InFlight
  <2>2. \A h \in Stores : Authored(app'[h], Emitters')
    <3>1. UNCHANGED app \/ \A h \in Stores : app'[h] = EmptyApp
      BY <1>8 DEF Restart
    <3>2. Authored(EmptyApp, Emitters')
      BY DEF EmptyApp, Authored
    <3>3. QED
      BY <1>4, <3>1, <3>2
  <2>3. QED
    BY <1>1, <2>1, <2>2 DEF EmissionInv
<1>9. CASE UNCHANGED vars
  BY <1>1, <1>3, <1>4, <1>9 DEF vars, EmissionInv
<1>10. QED
  BY <1>6, <1>7, <1>8, <1>9 DEF Next

\* A result of the turn's own survives every step of the turn.
LEMMA OwnResultStays ==
  ASSUME FlakyDocs = {}, EmissionInv, [Next]_vars, NEW t \in Turns, HasRun(t),
         NEW a \in Specialists, turn[t].view.emitted[a] # None,
         turn[t].view.emitted[a].by = t, turn'[t].pc # "done"
  PROVE  turn'[t].view.emitted[a] = turn[t].view.emitted[a]
<1>1. TypeOK /\ LoadInv /\ AllLoaded(t)
  BY DEF EmissionInv, LoadInv
<1>2. Ready(t)
  BY DEF EmissionInv, Authored, Emitters, HasRun
<1>3. ASSUME AgentStep(t)
      PROVE  turn'[t].view.emitted[a] = turn[t].view.emitted[a]
  <2>1. CASE OpenRun(t)
    BY <1>1, <2>1, OpenRunEffect DEF HasRun
  <2>2. CASE TrackSession(t)
    BY <1>1, <2>2, TrackEffect
  <2>3. CASE LoadDocuments(t)
    BY <1>1, <1>2, <2>3, SureLoad
  <2>4. CASE Publish(t)
    BY <1>1, <2>4, PublishEffect, FinishedType
  <2>5. CASE Emit(t)
    BY <1>1, <2>5, EmitEffect
  <2>6. CASE Passes(t)
    BY <1>1, <2>6, PassEffect
  <2>7. CASE CountResponse(t)
    BY <1>1, <2>7, CountEffect
  <2>8. CASE Abort(t)
    BY <1>1, <2>8, AbortEffect, FinishedType DEF HasRun
  <2>9. QED
    BY <1>3, <2>1, <2>2, <2>3, <2>4, <2>5, <2>6, <2>7, <2>8
    DEF AgentStep, Passes
<1>4. ASSUME NEW u \in Turns, AgentStep(u)
      PROVE  turn'[t].view.emitted[a] = turn[t].view.emitted[a]
  BY <1>1, <1>3, <1>4, OthersStay
<1>5. ASSUME NEW u \in Turns, NEW x \in Sessions, NEW docs \in SUBSET Docs,
             Request(u, x, docs)
      PROVE  turn'[t] = turn[t]
  BY <1>1, <1>5 DEF Request, TypeOK, HasRun
<1>6. ~Restart
  <2>1. SUFFICES ASSUME Restart PROVE FALSE
    OBVIOUS
  <2>2. turn'[t] = Finished(t)
    BY <2>1 DEF Restart, HasRun, InFlight
  <2>3. QED
    BY <1>1, <2>2, FinishedType DEF HasRun
<1>7. CASE UNCHANGED vars
  BY <1>7 DEF vars
<1>8. QED
  BY <1>4, <1>5, <1>6, <1>7 DEF Next

\* What a turn has emitted its later agents find, for any number of turns over a
\* shared or a private store, restarts included, as long as no document fails to
\* load: a document that fails is retried, and the retry clears.
THEOREM EmissionStays ==
  ASSUME FlakyDocs = {}
  PROVE  Spec => EmissionSurvivesTurn
<1>1. Init => EmissionInv
  <2>1. SUFFICES ASSUME Init PROVE EmissionInv
    OBVIOUS
  <2>2. \A authors : Authored(EmptyApp, authors)
    BY DEF EmptyApp, Authored
  <2>3. QED
    BY <2>1, <2>2, LoadInit
    DEF Init, IdleTurn, EmissionInv, AllLoaded, Ready, HasRun
<1>2. EmissionInv /\ [Next]_vars => EmissionInv'
  BY EmissionStep
<1>3. EmissionInv /\ [Next]_vars =>
        [\A t \in Turns, a \in Specialists :
           LET result == turn[t].view.emitted[a] IN
           (HasRun(t) /\ result # None /\ turn'[t].pc # "done") =>
             (result.by = t => turn'[t].view.emitted[a] = result)]_vars
  BY OwnResultStays
<1>4. QED
  BY <1>1, <1>2, <1>3, PTL DEF Spec, EmissionSurvivesTurn

-----------------------------------------------------------------------------
(* What the stored state says, where a session on Agent Engine runs one turn  *)
(* at a time                                                                  *)

\* Two turns of one session are not under way together.
Alone ==
  \A t, u \in Turns :
    InFlight(t) /\ InFlight(u) /\ turn[t].session = turn[u].session => t = u

\* Between a published event and the next callback nothing waits to be published.
Clean(t) ==
  turn[t].pc \notin {"loader", "extract", "publish"} => turn[t].delta = {}

\* A snapshot and the stored keys differ at most in the keys to be published.
Synced(view, stored, keys) ==
  /\ "loaded" \notin keys => view.loaded = stored.loaded
  /\ "errors" \notin keys => view.errors = stored.errors
  /\ \A a \in Specialists : a \notin keys => view.emitted[a] = stored.emitted[a]
  /\ "initialized" \notin keys => view.initialized = stored.initialized
  /\ "turns" \notin keys => view.turns = stored.turns

\* A loaded document has no error, and an emitted result has seen it.
ErrorFree(v) == v.errors # None => v.errors \cap v.loaded = {}

Covered(v) ==
  \A a \in Specialists :
    v.emitted[a] # None => v.loaded \subseteq v.emitted[a].docs

\* The row's counter is at most one response ahead of the state, and counts
\* only for a session that is initialized and has a row.
CountSound(v, row) ==
  /\ row.turnCount <= v.turns + 1
  /\ row.turnCount > 0 => v.initialized /\ row.exists
  /\ ~v.initialized => v.turns = 0

Sound(v, row) == ErrorFree(v) /\ Covered(v) /\ CountSound(v, row)

SoloInv ==
  /\ TypeOK /\ Alone
  /\ \A t \in Turns : Clean(t)
  /\ \A s \in Sessions : Sound(app[s], index[s])
  /\ \A t \in Turns : HasRun(t) =>
       /\ Sound(turn[t].view, index[turn[t].session])
       /\ Synced(turn[t].view, app[turn[t].session], turn[t].delta)

\* Where Sound comes from does not matter, only what the keys say.
LEMMA SoundSame ==
  ASSUME NEW v, NEW w, NEW row, Sound(v, row),
         w.loaded = v.loaded, w.errors = v.errors,
         \A a \in Specialists : w.emitted[a] = v.emitted[a],
         w.initialized = v.initialized, w.turns = v.turns
  PROVE  Sound(w, row)
BY DEF Sound, ErrorFree, Covered, CountSound

\* A snapshot that differs from the store in the keys of its event only is what
\* the event leaves in the store.
LEMMA MergeSynced ==
  ASSUME NEW view, NEW stored, NEW keys, Synced(view, stored, keys)
  PROVE  LET m == Merged(stored, view, keys) IN
         /\ m.loaded = view.loaded /\ m.errors = view.errors
         /\ \A a \in Specialists : m.emitted[a] = view.emitted[a]
         /\ m.initialized = view.initialized /\ m.turns = view.turns
<1> DEFINE m == Merged(stored, view, keys)
<1>1. \A a \in Specialists : m.emitted[a] = view.emitted[a]
  BY DEF Merged, Synced
<1>2. /\ m.loaded = view.loaded /\ m.errors = view.errors
      /\ m.initialized = view.initialized /\ m.turns = view.turns
  BY DEF Merged, Synced
<1>3. QED
  BY <1>1, <1>2

\* A turn that steps concerns its own session only; alone in it, it answers for
\* the whole invariant.
LEMMA SoloLocal ==
  ASSUME SoloInv, TypeOK', NEW t \in Turns, AgentStep(t),
         \A x \in Sessions : x # turn[t].session =>
           app'[x] = app[x] /\ index'[x] = index[x],
         Clean(t)',
         Sound(app'[turn[t].session], index'[turn[t].session]),
         HasRun(t)' =>
           /\ Sound(turn'[t].view, index'[turn[t].session])
           /\ Synced(turn'[t].view, app'[turn[t].session], turn'[t].delta)
  PROVE  SoloInv'
<1> DEFINE s == turn[t].session
<1>1. TypeOK
  BY DEF SoloInv
<1>2. InFlight(t) /\ s \in Sessions /\ (InFlight(t)' => turn'[t].session = s)
  BY <1>1, AgentFrame, FinishedType DEF InFlight
<1>3. \A u \in Turns : u # t => turn'[u] = turn[u]
  BY <1>1, OthersStay
<1>4. ASSUME NEW u \in Turns, u # t, InFlight(u)
      PROVE  turn[u].session # s
  BY <1>2, <1>4 DEF SoloInv, Alone
<1>5. Alone'
  <2> SUFFICES ASSUME NEW u \in Turns, NEW w \in Turns, InFlight(u)', InFlight(w)',
                      turn'[u].session = turn'[w].session, u # w
               PROVE  FALSE
    BY DEF Alone
  <2>1. CASE u # t /\ w # t
    BY <1>3, <2>1 DEF SoloInv, Alone, InFlight
  <2>2. CASE u = t
    BY <1>2, <1>3, <1>4, <2>2 DEF InFlight
  <2>3. CASE w = t
    BY <1>2, <1>3, <1>4, <2>3 DEF InFlight
  <2>4. QED
    BY <2>1, <2>2, <2>3
<1>6. ASSUME NEW u \in Turns PROVE Clean(u)'
  BY <1>3 DEF SoloInv, Clean
<1>7. \A x \in Sessions : Sound(app'[x], index'[x])
  BY DEF SoloInv
<1>8. ASSUME NEW u \in Turns, HasRun(u)'
      PROVE  /\ Sound(turn'[u].view, index'[turn'[u].session])
             /\ Synced(turn'[u].view, app'[turn'[u].session], turn'[u].delta)
  <2>1. CASE u = t
    BY <1>2, <1>8, <2>1 DEF HasRun, InFlight
  <2>2. CASE u # t
    <3>1. turn'[u] = turn[u] /\ HasRun(u) /\ InFlight(u)
      BY <1>3, <1>8, <2>2 DEF HasRun, InFlight
    <3>2. turn[u].session # s /\ turn[u].session \in Sessions
      BY <1>1, <1>4, <2>2, <3>1 DEF TypeOK, InFlight
    <3>3. QED
      BY <3>1, <3>2 DEF SoloInv
  <2>3. QED
    BY <2>1, <2>2
<1>9. QED
  BY <1>5, <1>6, <1>7, <1>8 DEF SoloInv

\* What the turn of a session may assume of its snapshot.
LEMMA SoloTurn ==
  ASSUME SoloInv, NEW t \in Turns, HasRun(t)
  PROVE  /\ TypeOK /\ turn[t].session \in Sessions
         /\ turn[t].view \in AppState /\ app[turn[t].session] \in AppState
         /\ index[turn[t].session] \in Row
         /\ Clean(t)
         /\ Sound(app[turn[t].session], index[turn[t].session])
         /\ Sound(turn[t].view, index[turn[t].session])
         /\ Synced(turn[t].view, app[turn[t].session], turn[t].delta)
BY DEF SoloInv, TypeOK, TurnState, HasRun, Stores

\* A run starts in agreement with the store.
LEMMA SoloOpen ==
  ASSUME Backend = "vertex", SoloInv, TypeOK', NEW t \in Turns, OpenRun(t)
  PROVE  SoloInv'
<1> DEFINE s == turn[t].session
<1>1. TypeOK /\ Clean(t)
  BY DEF SoloInv
<1>2. /\ s \in Sessions /\ turn'[t].view = app[s] /\ turn'[t].delta = {}
      /\ UNCHANGED <<app, index>>
  BY <1>1, OpenRunEffect, HomeIsOwn DEF Clean
<1>3. Sound(app[s], index[s])
  BY <1>2 DEF SoloInv
<1>4. Synced(app[s], app[s], {})
  BY DEF Synced
<1>5. QED
  BY <1>2, <1>3, <1>4, SoloLocal DEF AgentStep, Clean

\* The tracker starts the count of a session that has none, and makes a row only
\* for such a session.
LEMMA SoloTrack ==
  ASSUME SoloInv, TypeOK', NEW t \in Turns, TrackSession(t)
  PROVE  /\ SoloInv'
         /\ \A s \in Sessions : index[s].turnCount <= index'[s].turnCount
<1> DEFINE s == turn[t].session
<1> DEFINE v == turn[t].view
<1> DEFINE w == turn'[t].view
<1>1. HasRun(t) /\ turn[t].pc = "tracker"
  BY DEF TrackSession, HasRun
<1>2. /\ TypeOK /\ s \in Sessions /\ v \in AppState /\ app[s] \in AppState
      /\ index[s] \in Row
      /\ Sound(app[s], index[s]) /\ Sound(v, index[s])
      /\ turn[t].delta = {} /\ Synced(v, app[s], {})
  BY <1>1, SoloTurn DEF Clean
<1>3. /\ turn'[t].pc = "loader" /\ UNCHANGED app
      /\ w.loaded = v.loaded /\ w.errors = v.errors /\ w.emitted = v.emitted
  BY <1>2, TrackEffect
<1>4. Clean(t)'
  BY <1>3 DEF Clean
<1>5. CASE /\ w.initialized = v.initialized /\ w.turns = v.turns
           /\ turn'[t].delta = {"schema"} /\ UNCHANGED index
  <2>1. Sound(w, index[s])
    BY <1>2, <1>3, <1>5, SoundSame
  <2>2. Synced(w, app[s], {"schema"})
    BY <1>2, <1>3, <1>5 DEF Synced, Specialists
  <2>3. \A x \in Sessions : index[x].turnCount <= index'[x].turnCount
    BY <1>2, <1>5 DEF TypeOK, Row
  <2>4. QED
    BY <1>2, <1>3, <1>4, <1>5, <2>1, <2>2, <2>3, SoloLocal DEF AgentStep
<1>6. CASE /\ ~v.initialized /\ w.initialized /\ w.turns = 0
           /\ turn'[t].delta = {"initialized", "turns", "schema"}
           /\ \/ UNCHANGED index
              \/ index' = [index EXCEPT ![s] = NewRow(turn[t].own.document_ids)]
  <2>1. ~app[s].initialized
    BY <1>2, <1>6 DEF Synced
  <2>2. index[s].turnCount = 0 /\ index'[s].turnCount = 0
    BY <1>2, <1>6 DEF Sound, CountSound, Row, TypeOK, NewRow
  <2>3. \A x \in Sessions : x # s => index'[x] = index[x]
    BY <1>2, <1>6 DEF TypeOK
  <2>4. Sound(app[s], index'[s])
    BY <1>2, <2>1, <2>2 DEF Sound, CountSound, AppState
  <2>5. Sound(w, index'[s])
    BY <1>2, <1>3, <1>6, <2>2 DEF Sound, ErrorFree, Covered, CountSound
  <2>6. Synced(w, app[s], {"initialized", "turns", "schema"})
    BY <1>2, <1>3, <1>6 DEF Synced, Specialists
  <2>7. \A x \in Sessions : index[x].turnCount <= index'[x].turnCount
    BY <1>2, <2>2, <2>3 DEF TypeOK, Row
  <2>8. QED
    BY <1>2, <1>3, <1>4, <1>6, <2>3, <2>4, <2>5, <2>6, <2>7, SoloLocal
    DEF AgentStep
<1>7. QED
  <2>1. \/ /\ w.initialized = v.initialized /\ w.turns = v.turns
           /\ turn'[t].delta = {} \cup {"schema"} /\ UNCHANGED index
        \/ /\ ~v.initialized /\ w.initialized /\ w.turns = 0
           /\ turn'[t].delta = {} \cup {"initialized", "turns", "schema"}
           /\ \/ UNCHANGED index
              \/ index' = [index EXCEPT ![s] = NewRow(turn[t].own.document_ids)]
    BY <1>2, TrackEffect
  <2>2. \A k : {} \cup k = k
    OBVIOUS
  <2>3. QED
    BY <1>5, <1>6, <2>1, <2>2

\* A load leaves no error on what it lists and no result under what it adds.
LEMMA SoloLoad ==
  ASSUME SoloInv, TypeOK', NEW t \in Turns, LoadDocuments(t)
  PROVE  /\ SoloInv'
         /\ \A s \in Sessions : index[s].turnCount = index'[s].turnCount
<1> DEFINE s == turn[t].session
<1> DEFINE v == turn[t].view
<1> DEFINE w == turn'[t].view
<1> DEFINE d == turn[t].delta
<1>1. HasRun(t)
  BY DEF LoadDocuments, HasRun
<1>2. /\ TypeOK /\ s \in Sessions /\ v \in AppState /\ index[s] \in Row
      /\ Sound(app[s], index[s]) /\ Sound(v, index[s]) /\ Synced(v, app[s], d)
  BY <1>1, SoloTurn
<1>3. LoadFrame(t)
  BY <1>2, LoadEffect
<1>4. PICK unread \in SUBSET (v.loaded \cap FlakyDocs) :
        \/ LoadedNothing(t, Kept(t, unread))
        \/ \E failed \in SUBSET (Missing(t, unread) \cap FlakyDocs) :
             LoadedSome(t, Kept(t, unread), Missing(t, unread), failed)
  BY <1>2, LoadEffect
<1> DEFINE kept == Kept(t, unread)
<1> DEFINE missing == Missing(t, unread)
<1>5. kept \subseteq v.loaded /\ kept \cap missing = {}
  BY DEF Kept, Missing
<1> HIDE DEF kept, missing
<1>6. ASSUME \/ UNCHANGED index
             \/ \E saved : index' = [index EXCEPT ![s].docs = @ \cup saved]
      PROVE  /\ \A x \in Sessions : index'[x].turnCount = index[x].turnCount
             /\ index'[s].exists = index[s].exists
             /\ \A x \in Sessions : x # s => index'[x] = index[x]
  <2>1. ASSUME NEW saved, index' = [index EXCEPT ![s].docs = @ \cup saved]
        PROVE  /\ index'[s].turnCount = index[s].turnCount
               /\ index'[s].exists = index[s].exists
               /\ \A x \in Sessions : x # s => index'[x] = index[x]
    <3> DEFINE r == [index[s] EXCEPT !.docs = @ \cup saved]
    <3>1. r.turnCount = index[s].turnCount /\ r.exists = index[s].exists
      BY <1>2 DEF Row
    <3>2. index' = [index EXCEPT ![s] = r]
      BY <2>1
    <3> HIDE DEF r
    <3>3. QED
      BY <1>2, <3>1, <3>2 DEF TypeOK
  <2>2. CASE UNCHANGED index
    BY <2>2
  <2>3. QED
    BY <1>6, <2>1, <2>2
<1>7. ASSUME \A x \in Sessions : index'[x].turnCount = index[x].turnCount,
             index'[s].exists = index[s].exists,
             ErrorFree(w), Covered(w)
      PROVE  Sound(app[s], index'[s]) /\ Sound(w, index'[s])
  BY <1>2, <1>3, <1>7 DEF LoadFrame, Sound, CountSound
<1>8. Clean(t)'
  BY <1>3 DEF Clean, LoadFrame
<1>9. CASE LoadedNothing(t, kept)
  <2>1. /\ w.loaded = kept /\ w.errors = v.errors /\ w.emitted = v.emitted
        /\ turn'[t].delta = d \cup {"loaded"} /\ UNCHANGED index
    BY <1>9 DEF LoadedNothing
  <2>2. ErrorFree(w) /\ Covered(w)
    BY <1>2, <1>5, <2>1 DEF Sound, ErrorFree, Covered
  <2>3. Synced(w, app[s], d \cup {"loaded"})
    BY <1>2, <1>3, <2>1 DEF Synced, LoadFrame
  <2>4. QED
    BY <1>2, <1>3, <1>6, <1>7, <1>8, <2>1, <2>2, <2>3, SoloLocal
    DEF AgentStep, LoadFrame
<1>10. ASSUME NEW failed \in SUBSET (missing \cap FlakyDocs),
              LoadedSome(t, kept, missing, failed)
       PROVE  /\ SoloInv'
              /\ \A x \in Sessions : index[x].turnCount = index'[x].turnCount
  <2> DEFINE saved == missing \ failed
  <2> DEFINE old == IF v.errors = None THEN {} ELSE v.errors
  <2> DEFINE errors == (old \cup failed) \ saved
  <2> DEFINE noted == errors # {} \/ v.errors # None
  <2> DEFINE k == {"loaded"} \cup Present(v.emitted)
                    \cup (IF noted THEN {"errors"} ELSE {})
  <2>1. /\ \A a \in Specialists : w.emitted[a] = None
        /\ w.loaded = kept \cup saved
        /\ w.errors = IF noted THEN errors ELSE None
        /\ turn'[t].delta = d \cup k
        /\ \/ UNCHANGED index
           \/ index' = [index EXCEPT ![s].docs = @ \cup saved]
    BY <1>10 DEF LoadedSome
  <2>2. Covered(w)
    BY <2>1 DEF Covered
  <2>3. old \cap v.loaded = {}
    BY <1>2 DEF Sound, ErrorFree
  <2>4. errors \cap (kept \cup saved) = {}
    BY <1>5, <2>3
  <2>5. ErrorFree(w)
    BY <2>1, <2>4 DEF ErrorFree
  <2>6. Synced(w, app[s], d \cup k)
    <3>1. "errors" \notin d \cup k => w.errors = v.errors
      BY <2>1
    <3>2. \A a \in Specialists : a \notin k => w.emitted[a] = v.emitted[a]
      BY <2>1 DEF Present
    <3>3. "loaded" \in k
      OBVIOUS
    <3> HIDE DEF k, errors, noted
    <3>4. QED
      BY <1>2, <1>3, <3>1, <3>2, <3>3 DEF Synced, LoadFrame
  <2> HIDE DEF k, errors, noted, saved
  <2>7. QED
    BY <1>2, <1>3, <1>6, <1>7, <1>8, <2>1, <2>2, <2>5, <2>6, SoloLocal
    DEF AgentStep, LoadFrame
<1>11. QED
  BY <1>4, <1>9, <1>10 DEF kept, missing

\* An event makes the store agree with the snapshot.
LEMMA SoloPublish ==
  ASSUME Backend = "vertex", SoloInv, TypeOK', NEW t \in Turns, Publish(t)
  PROVE  SoloInv' /\ UNCHANGED index
<1> DEFINE s == turn[t].session
<1> DEFINE v == turn[t].view
<1> DEFINE m == Merged(app[s], v, turn[t].delta)
<1>1. HasRun(t)
  BY DEF Publish, HasRun
<1>2. /\ TypeOK /\ s \in Sessions /\ Sound(v, index[s])
      /\ Synced(v, app[s], turn[t].delta)
  BY <1>1, SoloTurn
<1>3. /\ app' = [app EXCEPT ![s] = m] /\ UNCHANGED index
      /\ \/ turn'[t] = Finished(t)
         \/ turn'[t].view = v /\ turn'[t].delta = {}
  BY <1>2, PublishEffect, HomeIsOwn
<1>4. /\ m.loaded = v.loaded /\ m.errors = v.errors
      /\ \A a \in Specialists : m.emitted[a] = v.emitted[a]
      /\ m.initialized = v.initialized /\ m.turns = v.turns
  BY <1>2, MergeSynced
<1> HIDE DEF m
<1>5. Sound(m, index[s]) /\ Synced(v, m, {})
  BY <1>2, <1>4, SoundSame DEF Synced
<1>6. app'[s] = m /\ \A x \in Sessions : x # s => app'[x] = app[x]
  BY <1>2, <1>3 DEF TypeOK, Stores
<1>7. Finished(t).pc = "done" /\ Finished(t).delta = {}
  BY <1>1, <1>2, FinishedType, FinishedView DEF HasRun
<1>8. Clean(t)'
  BY <1>3, <1>7 DEF Clean
<1>9. HasRun(t)' => Sound(turn'[t].view, index'[s])
                    /\ Synced(turn'[t].view, app'[s], turn'[t].delta)
  BY <1>2, <1>3, <1>5, <1>6, <1>7 DEF HasRun
<1>10. QED
  BY <1>3, <1>5, <1>6, <1>8, <1>9, SoloLocal DEF AgentStep

\* A result is emitted over what is loaded.
LEMMA SoloEmit ==
  ASSUME SoloInv, TypeOK', NEW t \in Turns, Emit(t)
  PROVE  SoloInv' /\ UNCHANGED index
<1> DEFINE s == turn[t].session
<1> DEFINE v == turn[t].view
<1> DEFINE w == turn'[t].view
<1> DEFINE a == turn[t].agent
<1>1. HasRun(t)
  BY DEF Emit, HasRun
<1>2. /\ TypeOK /\ s \in Sessions /\ Sound(v, index[s]) /\ Sound(app[s], index[s])
      /\ Synced(v, app[s], turn[t].delta)
  BY <1>1, SoloTurn
<1>3. /\ a \in Specialists /\ turn'[t].pc = "publish"
      /\ w.loaded = v.loaded /\ w.errors = v.errors
      /\ w.initialized = v.initialized /\ w.turns = v.turns
      /\ turn'[t].delta = turn[t].delta \cup {a}
      /\ UNCHANGED <<app, index>>
  BY <1>2, EmitEffect
<1>4. /\ w.emitted[a] = [by |-> t, docs |-> v.loaded]
      /\ \A b \in Specialists : b # a => w.emitted[b] = v.emitted[b]
  BY <1>2, <1>3, EmitEffect
<1>5. w.emitted[a].docs = v.loaded
  BY <1>4
<1>6. Sound(w, index[s])
  BY <1>2, <1>3, <1>4, <1>5 DEF Sound, ErrorFree, Covered, CountSound
<1>7. Synced(w, app[s], turn[t].delta \cup {a})
  BY <1>2, <1>3, <1>4 DEF Synced
<1>8. Clean(t)'
  BY <1>3 DEF Clean
<1>9. QED
  BY <1>2, <1>3, <1>6, <1>7, <1>8, SoloLocal DEF AgentStep

\* A step that passes the work on changes neither side.
LEMMA SoloPass ==
  ASSUME SoloInv, TypeOK', NEW t \in Turns, Passes(t)
  PROVE  SoloInv' /\ UNCHANGED index
<1>1. HasRun(t) /\ TypeOK
  BY PassEffect DEF HasRun, SoloInv
<1>2. /\ Clean(t) /\ Sound(turn[t].view, index[turn[t].session])
      /\ Sound(app[turn[t].session], index[turn[t].session])
      /\ Synced(turn[t].view, app[turn[t].session], turn[t].delta)
  BY <1>1, SoloTurn
<1>3. Clean(t)'
  BY <1>1, <1>2, PassEffect DEF Clean
<1>4. QED
  BY <1>1, <1>2, <1>3, PassEffect, SoloLocal DEF AgentStep, Passes

\* The counter of the row is set to the next count of the snapshot, which the
\* store is behind by one until the event.
LEMMA SoloCount ==
  ASSUME SoloInv, TypeOK', NEW t \in Turns, CountResponse(t)
  PROVE  /\ SoloInv'
         /\ \A s \in Sessions : index[s].turnCount <= index'[s].turnCount
<1> DEFINE s == turn[t].session
<1> DEFINE v == turn[t].view
<1> DEFINE w == turn'[t].view
<1>1. HasRun(t) /\ turn[t].pc \in {"model", "response"}
  BY DEF CountResponse, HasRun
<1>2. /\ TypeOK /\ s \in Sessions /\ v \in AppState /\ app[s] \in AppState
      /\ index[s] \in Row
      /\ Sound(app[s], index[s]) /\ Sound(v, index[s])
      /\ turn[t].delta = {} /\ Synced(v, app[s], {})
  BY <1>1, SoloTurn DEF Clean
<1>3. /\ turn'[t].pc = "extract" /\ UNCHANGED app
      /\ w.loaded = v.loaded /\ w.errors = v.errors /\ w.emitted = v.emitted
      /\ w.initialized = v.initialized
  BY <1>2, CountEffect
<1>4. Clean(t)'
  BY <1>3 DEF Clean
<1>5. CASE /\ w.turns = v.turns /\ turn'[t].delta = {} /\ UNCHANGED index
  <2>1. Sound(w, index[s])
    BY <1>2, <1>3, <1>5, SoundSame
  <2>2. Synced(w, app[s], {})
    BY <1>2, <1>3, <1>5 DEF Synced
  <2>3. \A x \in Sessions : index[x].turnCount <= index'[x].turnCount
    BY <1>2, <1>5 DEF TypeOK, Row
  <2>4. QED
    BY <1>2, <1>3, <1>4, <1>5, <2>1, <2>2, <2>3, SoloLocal DEF AgentStep
<1>6. CASE /\ v.initialized /\ w.turns = v.turns + 1
           /\ turn'[t].delta \in {{"turns"}, {"turns", "titleSet"}}
           /\ \/ UNCHANGED index
              \/ \E title, fields, docs \in BOOLEAN :
                   index' = [index EXCEPT ![s] =
                     Flushed(@, v.turns + 1, title, turn[t].own.document_ids,
                             fields, docs)]
  <2>1. app[s].turns = v.turns /\ app[s].initialized = v.initialized
    BY <1>2 DEF Synced
  <2>2. v.turns \in Nat /\ index[s].turnCount \in Nat
        /\ index[s].turnCount <= v.turns + 1
    BY <1>2 DEF AppState, Row, Sound, CountSound
  <2>3. /\ index'[s].turnCount \in {index[s].turnCount, v.turns + 1}
        /\ index'[s].turnCount > 0 => index'[s].exists
        /\ \A x \in Sessions : x # s => index'[x] = index[x]
    <3>1. CASE UNCHANGED index
      BY <1>2, <3>1 DEF Sound, CountSound
    <3>2. ASSUME NEW title \in BOOLEAN, NEW fields \in BOOLEAN,
                 NEW docs \in BOOLEAN,
                 index' = [index EXCEPT ![s] =
                   Flushed(@, v.turns + 1, title, turn[t].own.document_ids,
                           fields, docs)]
          PROVE  /\ index'[s].turnCount \in {index[s].turnCount, v.turns + 1}
                 /\ index'[s].exists
                 /\ \A x \in Sessions : x # s => index'[x] = index[x]
      BY <1>2, <3>2 DEF TypeOK, Flushed
    <3>3. QED
      BY <1>6, <3>1, <3>2
  <2>4. index[s].turnCount <= index'[s].turnCount
        /\ index'[s].turnCount <= v.turns + 1 /\ index'[s].turnCount \in Nat
    BY <2>2, <2>3
  <2>5. Sound(app[s], index'[s])
    BY <1>2, <1>6, <2>1, <2>3, <2>4 DEF Sound, CountSound
  <2>6. ErrorFree(w) /\ Covered(w)
    BY <1>2, <1>3 DEF Sound, ErrorFree, Covered
  <2>7. CountSound(w, index'[s])
    BY <1>3, <1>6, <2>2, <2>3, <2>4 DEF CountSound
  <2>8. Synced(w, app[s], turn'[t].delta)
    BY <1>2, <1>3, <1>6 DEF Synced, Specialists
  <2>9. \A x \in Sessions : index[x].turnCount <= index'[x].turnCount
    BY <1>2, <2>3, <2>4 DEF TypeOK, Row
  <2>10. QED
    BY <1>3, <1>4, <2>3, <2>5, <2>6, <2>7, <2>8, <2>9, SoloLocal
    DEF AgentStep, Sound
<1>7. QED
  <2>1. \A k : {} \cup k = k
    OBVIOUS
  <2>2. \/ w.turns = v.turns /\ turn'[t].delta = {} /\ UNCHANGED index
        \/ /\ v.initialized /\ w.turns = v.turns + 1
           /\ \/ turn'[t].delta = {} \cup {"turns"}
              \/ turn'[t].delta = {} \cup {"turns", "titleSet"}
           /\ \/ UNCHANGED index
              \/ \E title, fields, docs \in BOOLEAN :
                   index' = [index EXCEPT ![s] =
                     Flushed(@, v.turns + 1, title, turn[t].own.document_ids,
                             fields, docs)]
    BY <1>2, CountEffect
  <2>3. QED
    BY <1>5, <1>6, <2>1, <2>2

\* What is not published when a run is aborted is lost with the snapshot.
LEMMA SoloAbort ==
  ASSUME SoloInv, TypeOK', NEW t \in Turns, Abort(t)
  PROVE  SoloInv' /\ UNCHANGED index
<1>1. TypeOK /\ HasRun(t)
  BY DEF SoloInv, Abort
<1>2. /\ turn[t].session \in Sessions /\ turn'[t] = Finished(t)
      /\ UNCHANGED <<app, index>>
  BY <1>1, AbortEffect
<1>3. turn'[t].pc = "done" /\ turn'[t].delta = {}
  BY <1>1, <1>2, FinishedType, FinishedView DEF HasRun
<1>4. QED
  BY <1>1, <1>2, <1>3, SoloTurn, SoloLocal DEF AgentStep, Clean, HasRun

\* A request finds its session free, and leaves the row's counter as it is.
LEMMA SoloRequest ==
  ASSUME ~Concurrent, SoloInv, TypeOK', NEW t \in Turns, NEW x \in Sessions,
         NEW docs \in SUBSET Docs, Request(t, x, docs)
  PROVE  /\ SoloInv'
         /\ \A s \in Sessions : index[s].turnCount <= index'[s].turnCount
<1>1. TypeOK /\ turn[t] \in TurnState /\ Clean(t)
  BY DEF SoloInv, TypeOK
<1>2. /\ turn[t].pc = "idle" /\ UNCHANGED app
      /\ \A u \in Turns : turn[u].session = x => ~InFlight(u)
      /\ turn'[t].pc = "requested" /\ turn'[t].session = x
      /\ turn'[t].delta = turn[t].delta
      /\ \A u \in Turns : u # t => turn'[u] = turn[u]
  BY <1>1 DEF Request, TypeOK, TurnState
<1>3. /\ \A s \in Sessions : s # x => index'[s] = index[s]
      /\ index'[x].turnCount = index[x].turnCount
      /\ index'[x].turnCount > 0 => index'[x].exists
  <2>1. /\ index[x].turnCount > 0 => index[x].exists
        /\ index[x].turnCount \in Nat
    BY DEF SoloInv, Sound, CountSound, TypeOK, Row
  <2>2. /\ Ensured(x, docs).turnCount = index[x].turnCount
        /\ Ensured(x, docs).exists
    BY <1>1, <2>1 DEF TypeOK, Row, Ensured, NewRow
  <2>3. index' = index \/ index' = [index EXCEPT ![x] = Ensured(x, docs)]
    BY DEF Request
  <2> HIDE DEF Ensured
  <2>4. QED
    BY <1>1, <2>1, <2>2, <2>3 DEF TypeOK
<1>4. \A s \in Sessions : Sound(app'[s], index'[s])
  BY <1>2, <1>3 DEF SoloInv, Sound, CountSound
<1>5. \A u \in Turns : HasRun(u)' =>
        /\ turn'[u] = turn[u] /\ HasRun(u)
        /\ turn'[u].session # x /\ turn'[u].session \in Sessions
  <2> SUFFICES ASSUME NEW u \in Turns, HasRun(u)'
               PROVE  /\ turn'[u] = turn[u] /\ HasRun(u)
                      /\ turn'[u].session # x /\ turn'[u].session \in Sessions
    OBVIOUS
  <2>1. u # t
    BY <1>2 DEF HasRun
  <2>2. turn'[u] = turn[u] /\ HasRun(u)
    BY <1>2, <2>1 DEF HasRun
  <2>3. QED
    BY <1>1, <1>2, <2>2 DEF HasRun, InFlight, TypeOK
<1>6. \A u \in Turns : HasRun(u)' =>
        /\ Sound(turn'[u].view, index'[turn'[u].session])
        /\ Synced(turn'[u].view, app'[turn'[u].session], turn'[u].delta)
  BY <1>2, <1>3, <1>5 DEF SoloInv
<1>7. \A u \in Turns : Clean(u)'
  BY <1>2 DEF SoloInv, Clean
<1>8. Alone'
  BY <1>2 DEF SoloInv, Alone, InFlight
<1>9. \A s \in Sessions : index[s].turnCount <= index'[s].turnCount
  BY <1>1, <1>3 DEF TypeOK, Row
<1>10. QED
  BY <1>4, <1>6, <1>7, <1>8, <1>9 DEF SoloInv

\* A restart ends every turn and leaves Agent Engine's state and the index.
LEMMA SoloRestart ==
  ASSUME Backend = "vertex", SoloInv, TypeOK', Restart
  PROVE  SoloInv' /\ UNCHANGED index
<1>1. TypeOK /\ UNCHANGED <<app, index>>
  BY DEF SoloInv, Restart
<1>2. ASSUME NEW u \in Turns PROVE ~InFlight(u)' /\ ~HasRun(u)' /\ Clean(u)'
  <2>1. turn'[u] = IF InFlight(u) THEN Finished(u) ELSE turn[u]
    BY DEF Restart
  <2>2. QED
    BY <1>1, <2>1, FinishedType, FinishedView DEF InFlight, HasRun, SoloInv, Clean
<1>3. QED
  BY <1>1, <1>2 DEF SoloInv, Alone

\* Every step keeps the invariant and lowers no counter.
LEMMA SoloStep ==
  ASSUME Backend = "vertex", ~Concurrent, SoloInv, [Next]_vars
  PROVE  /\ SoloInv'
         /\ \A s \in Sessions : index[s].turnCount <= index'[s].turnCount
<1>1. TypeOK /\ TypeOK'
  BY TypeStep DEF SoloInv
<1>2. (UNCHANGED index \/ \A s \in Sessions : index[s].turnCount = index'[s].turnCount)
        => \A s \in Sessions : index[s].turnCount <= index'[s].turnCount
  BY <1>1 DEF TypeOK, Row
<1>3. ASSUME NEW t \in Turns, NEW x \in Sessions, NEW docs \in SUBSET Docs,
             Request(t, x, docs)
      PROVE  /\ SoloInv'
             /\ \A s \in Sessions : index[s].turnCount <= index'[s].turnCount
  BY <1>1, <1>3, SoloRequest
<1>4. ASSUME NEW t \in Turns, AgentStep(t)
      PROVE  /\ SoloInv'
             /\ \A s \in Sessions : index[s].turnCount <= index'[s].turnCount
  <2>1. CASE OpenRun(t)
    BY <1>1, <1>2, <2>1, SoloOpen, OpenRunEffect
  <2>2. CASE TrackSession(t)
    BY <1>1, <2>2, SoloTrack
  <2>3. CASE LoadDocuments(t)
    BY <1>1, <1>2, <2>3, SoloLoad
  <2>4. CASE Publish(t)
    BY <1>1, <1>2, <2>4, SoloPublish
  <2>5. CASE Emit(t)
    BY <1>1, <1>2, <2>5, SoloEmit
  <2>6. CASE Passes(t)
    BY <1>1, <1>2, <2>6, SoloPass
  <2>7. CASE CountResponse(t)
    BY <1>1, <2>7, SoloCount
  <2>8. CASE Abort(t)
    BY <1>1, <1>2, <2>8, SoloAbort
  <2>9. QED
    BY <1>4, <2>1, <2>2, <2>3, <2>4, <2>5, <2>6, <2>7, <2>8
    DEF AgentStep, Passes
<1>5. CASE Restart
  BY <1>1, <1>2, <1>5, SoloRestart
<1>6. CASE UNCHANGED vars
  <2>1. UNCHANGED index /\ SoloInv'
    BY <1>1, <1>6 DEF vars, SoloInv, Alone, Clean, InFlight, HasRun
  <2>2. QED
    BY <1>2, <2>1
<1>7. QED
  BY <1>3, <1>4, <1>5, <1>6 DEF Next

LEMMA SoloInit == Init => SoloInv
<1> SUFFICES ASSUME Init PROVE SoloInv
  OBVIOUS
<1>1. TypeOK
  BY InitType
<1>2. Sound(EmptyApp, NoRow)
  BY DEF Sound, ErrorFree, Covered, CountSound, EmptyApp, NoRow
<1>3. \A t \in Turns : Clean(t) /\ ~HasRun(t) /\ ~InFlight(t)
  BY DEF Init, IdleTurn, Clean, HasRun, InFlight
<1>4. QED
  BY <1>1, <1>2, <1>3 DEF Init, SoloInv, Alone, Stores

\* The inductive invariant holds where Agent Engine keeps the state and a session
\* has one turn in flight, whatever calls fail and whenever the process restarts.
LEMMA SoloHolds ==
  ASSUME Backend = "vertex", ~Concurrent
  PROVE  Spec => []SoloInv
<1>1. SoloInv /\ [Next]_vars => SoloInv'
  BY SoloStep
<1>2. QED
  BY <1>1, SoloInit, PTL DEF Spec

\* No document joins a session under results that never saw it: what is stored
\* side by side was emitted over everything that is listed as loaded.
THEOREM ResultsCoverLoads ==
  ASSUME Backend = "vertex", ~Concurrent
  PROVE  Spec => []EmittedCoversLoaded
<1>1. SoloInv => EmittedCoversLoaded
  BY HomeIsOwn DEF SoloInv, Sound, Covered, EmittedCoversLoaded
<1>2. QED
  BY <1>1, SoloHolds, PTL

\* A document that was loaded in the end shows no error any more, over any number
\* of failed attempts, aborted runs and restarts.
THEOREM ErrorsMatch ==
  ASSUME Backend = "vertex", ~Concurrent
  PROVE  Spec => []ErrorsMatchLoads
<1>1. SoloInv => ErrorsMatchLoads
  BY HomeIsOwn DEF SoloInv, Sound, ErrorFree, ErrorsMatchLoads
<1>2. QED
  BY <1>1, SoloHolds, PTL

\* The counter of a row never goes back, although a run that is aborted between
\* the flush and the event leaves the stored counter behind the row's.
THEOREM CountStands ==
  ASSUME Backend = "vertex", ~Concurrent
  PROVE  Spec => CountNeverDrops
<1>1. SoloInv /\ [Next]_vars =>
        [\A s \in Sessions : index[s].turnCount <= index'[s].turnCount]_vars
  BY SoloStep
<1>2. QED
  BY <1>1, SoloHolds, PTL DEF Spec, CountNeverDrops

-----------------------------------------------------------------------------
(* The budget gate, which stands before every model call of a turn and shares   *)
(* none of its state.                                                           *)

-----------------------------------------------------------------------------
\* The units that a set of invocations holds on a ledger.
UnitsOf(holds, invs, ledger) ==
  UNION {{i} \X (1..holds[i].usd) :
    i \in {j \in invs : holds[j] # Absent /\ IdentityOf(j) = ledger[1] /\ holds[j].period = ledger[2]}}

\* Invocations whose call is under way or was blocked: their holds are for calls
\* that have not cost anything.
Open(calls) == {i \in Invs : calls[i].phase \in {"calling", "stopped"}}

\* What is under way, of any state of the calls.
CallUnits(calls, ledger) ==
  UNION {{i} \X (1..calls[i].estimate) :
    i \in {j \in Invs : calls[j].phase = "calling" /\ IdentityOf(j) = ledger[1]
                        /\ calls[j].period = ledger[2]}}

HeldInv ==
  \A l \in Ledgers : /\ IsFiniteSet(UnitsOf(held, Invs, l))
                     /\ Cardinality(UnitsOf(held, Invs, l)) <= spend[l]

\* Before its one call an invocation has left no trace; during it, it holds at least
\* what the call is expected to cost, in the period of the call.
OneCall(h, d, c) ==
  /\ c.made = 0 => c.phase = "ready" /\ d = Absent /\ h = Absent
  /\ c.phase = "calling" => h # Absent /\ h.period = c.period /\ c.estimate <= h.usd

\* A ledger covers what was really spent, but for what nobody told, and the holds for
\* calls that have not cost anything yet.
Singly(l, s, us, un, h, d, c) ==
  /\ \A i \in Invs : IdentityOf(i) = l[1] => OneCall(h[i], d[i], c[i])
  /\ us[l] + Cardinality(UnitsOf(h, Open(c), l)) <= s[l] + un[l]

SingleInv ==
  \A l \in Ledgers : SingleCalls(l[1]) => Singly(l, spend, used, untold, held, dedup, call)

BudgetInv == BudgetTypeOK /\ HeldInv /\ SingleInv

-----------------------------------------------------------------------------
(* Numbers *)

LEMMA BudgetBounds ==
  /\ DefaultOut \in Nat /\ Cap \in Nat /\ Soft \in 0..Cap /\ Window \in Nat
  /\ PeriodLength \in Nat /\ PeriodLength > 0 /\ MaxTime \in Nat
  /\ Absent \notin Decision /\ Absent \notin Hold
  /\ Requests \subseteq [input : Nat, out : Nat \cup {Absent}]
  /\ \A i \in Invs :
       /\ ConfigOf(i) = Absent \/ ConfigOf(i) \in [exempt : BOOLEAN, multiplier : Nat \ {0}]
       /\ IdentityOf(i) \in Identities \cup {Absent} /\ CallsOf(i) \in Nat
  BY BudgetAssumption, AbsentAssumption

LEMMA MaxOfTwo ==
  ASSUME NEW a \in Nat, NEW x \in Int
  PROVE  Max({a, x}) \in Nat /\ Max({a, x}) >= x /\ Max({a, x}) >= a
<1>1. \E m \in {a, x} : \A y \in {a, x} : m >= y
  <2>1. CASE a >= x
    BY <2>1
  <2>2. CASE ~(a >= x)
    BY <2>2
  <2> QED
    BY <2>1, <2>2
<1>2. Max({a, x}) \in {a, x} /\ \A y \in {a, x} : Max({a, x}) >= y
  BY <1>1 DEF Max
<1> QED
  BY <1>2

LEMMA PeriodOf ==
  ASSUME now \in 0..MaxTime
  PROVE  PeriodKey(now) \in Periods
<1>1. \A a, b, c \in Nat : c > 0 /\ a <= b => a \div c \in Nat /\ b \div c \in Nat /\ a \div c <= b \div c
  BY Z3
<1>2. now \in Nat /\ MaxTime \in Nat /\ now <= MaxTime /\ PeriodLength \in Nat /\ PeriodLength > 0
  BY BudgetBounds
<1> QED
  BY <1>1, <1>2 DEF PeriodKey, Periods

LEMMA Projections ==
  ASSUME NEW i \in Invs, Gated(i), NEW request \in Requests
  PROVE  /\ Estimated(request) \in Nat
         /\ Estimated(request) * ConfigOf(i).multiplier \in Nat
         /\ Estimated(request) <= Estimated(request) * ConfigOf(i).multiplier
<1>1. request.input \in Nat /\ OutputTokens(request) \in Nat
  BY BudgetBounds DEF OutputTokens
<1>2. InputTokens(request) \in Nat
  BY <1>1, MaxOfTwo DEF InputTokens
<1>3. Estimated(request) \in Nat
  BY <1>1, <1>2 DEF Estimated
<1>4. ConfigOf(i).multiplier \in Nat /\ ConfigOf(i).multiplier > 0
  BY BudgetBounds DEF Gated, Budgeted
<1>5. \A a, b \in Nat : b > 0 => a * b \in Nat /\ a <= a * b
  BY Z3
<1> QED
  BY <1>3, <1>4, <1>5

LEMMA Estimates ==
  ASSUME NEW request \in Requests
  PROVE  Estimated(request) \in Nat
<1>1. request.input \in Nat /\ OutputTokens(request) \in Nat
  BY BudgetBounds DEF OutputTokens
<1> QED
  BY <1>1, MaxOfTwo DEF InputTokens, Estimated

-----------------------------------------------------------------------------
(* Units *)

Piece(i, n) == {i} \X (1..n)

LEMMA PieceSize ==
  ASSUME NEW i, NEW n \in Nat
  PROVE  IsFiniteSet(Piece(i, n)) /\ Cardinality(Piece(i, n)) = n
<1>1. IsFiniteSet({i}) /\ Cardinality({i}) = 1
  BY FS_Singleton
<1>2. IsFiniteSet(1..n) /\ Cardinality(1..n) = n
  <2>1. IsFiniteSet(1..n) /\ Cardinality(1..n) = IF 1 > n THEN 0 ELSE n - 1 + 1
    BY FS_Interval
  <2> QED
    BY <2>1
<1>3. /\ IsFiniteSet({i} \X (1..n))
      /\ Cardinality({i} \X (1..n)) = Cardinality({i}) * Cardinality(1..n)
  BY <1>1, <1>2, FS_Product, Zenon
<1>4. Cardinality({i}) * Cardinality(1..n) = n
  BY <1>1, <1>2
<1> QED
  BY <1>3, <1>4 DEF Piece

LEMMA Grows ==
  ASSUME NEW A, NEW B, NEW i, NEW n \in Nat, IsFiniteSet(A), B \subseteq A \cup Piece(i, n)
  PROVE  IsFiniteSet(B) /\ Cardinality(B) \in Nat /\ Cardinality(B) <= Cardinality(A) + n
<1>1. IsFiniteSet(Piece(i, n)) /\ Cardinality(Piece(i, n)) = n
  BY PieceSize
<1>2. /\ IsFiniteSet(A \cup Piece(i, n))
      /\ Cardinality(A \cup Piece(i, n)) = Cardinality(A) + n - Cardinality(A \cap Piece(i, n))
  BY <1>1, FS_Union
<1>3. /\ Cardinality(A) \in Nat /\ Cardinality(A \cup Piece(i, n)) \in Nat
      /\ Cardinality(A \cap Piece(i, n)) \in Nat
  BY <1>2, FS_CardinalityType, FS_Intersection
<1>4. IsFiniteSet(B) /\ Cardinality(B) <= Cardinality(A \cup Piece(i, n))
  BY <1>2, FS_Subset
<1>5. Cardinality(B) \in Nat
  BY <1>4, FS_CardinalityType
<1> QED
  BY <1>2, <1>3, <1>4, <1>5

LEMMA Shrinks ==
  ASSUME NEW A, NEW B, NEW i, NEW n \in Nat, IsFiniteSet(A),
         Piece(i, n) \subseteq A, B \subseteq A \ Piece(i, n)
  PROVE  IsFiniteSet(B) /\ Cardinality(B) \in Nat /\ Cardinality(B) + n <= Cardinality(A)
<1>1. IsFiniteSet(Piece(i, n)) /\ Cardinality(Piece(i, n)) = n
  BY PieceSize
<1>2. A \cap Piece(i, n) = Piece(i, n)
  OBVIOUS
<1>3. IsFiniteSet(A \ Piece(i, n)) /\ Cardinality(A \ Piece(i, n)) = Cardinality(A) - n
  BY <1>1, <1>2, FS_Difference
<1>4. IsFiniteSet(B) /\ Cardinality(B) <= Cardinality(A \ Piece(i, n))
  BY <1>3, FS_Subset
<1>5. Cardinality(B) \in Nat /\ Cardinality(A) \in Nat
  BY <1>4, FS_CardinalityType
<1> QED
  BY <1>3, <1>4, <1>5

LEMMA Within ==
  ASSUME NEW A, NEW B, IsFiniteSet(A), B \subseteq A
  PROVE  /\ IsFiniteSet(B) /\ Cardinality(B) \in Nat /\ Cardinality(A) \in Nat
         /\ Cardinality(B) <= Cardinality(A)
  BY FS_Subset, FS_CardinalityType

LEMMA UnitsIn ==
  ASSUME NEW h, NEW invs, NEW l, NEW x
  PROVE  x \in UnitsOf(h, invs, l) <=>
           \E j \in invs : /\ h[j] # Absent /\ IdentityOf(j) = l[1] /\ h[j].period = l[2]
                           /\ x \in {j} \X (1..h[j].usd)
  BY DEF UnitsOf

\* A hold more: its units come to its ledger, and to no other.
LEMMA UnitsMore ==
  ASSUME NEW h, NEW g, NEW invs, NEW more, NEW i, NEW usd \in Nat, NEW period,
         \A j \in more : j # i => j \in invs /\ g[j] = h[j],
         g[i] = [usd |-> usd, period |-> period], NEW l \in Ledgers
  PROVE  /\ UnitsOf(g, more, l) \subseteq UnitsOf(h, invs, l) \cup Piece(i, usd)
         /\ l # <<IdentityOf(i), period>> => UnitsOf(g, more, l) \subseteq UnitsOf(h, invs, l)
<1>1. g[i].usd = usd /\ g[i].period = period
  OBVIOUS
<1>2. l = <<l[1], l[2]>>
  BY DEF Ledgers
<1>3. ASSUME NEW x \in UnitsOf(g, more, l)
      PROVE  \/ x \in UnitsOf(h, invs, l)
             \/ x \in Piece(i, usd) /\ l = <<IdentityOf(i), period>>
  <2>1. PICK j \in more : /\ g[j] # Absent /\ IdentityOf(j) = l[1] /\ g[j].period = l[2]
                          /\ x \in {j} \X (1..g[j].usd)
    BY <1>3, UnitsIn
  <2>2. CASE j = i
    BY <1>1, <1>2, <2>1, <2>2 DEF Piece
  <2>3. CASE j # i
    BY <2>1, <2>3, UnitsIn
  <2> QED
    BY <2>2, <2>3
<1> QED
  BY <1>3

\* A hold less: its units go.
LEMMA UnitsFewer ==
  ASSUME NEW h, NEW g, NEW invs, NEW less, NEW i \in invs,
         \A j \in less : j # i => j \in invs /\ g[j] = h[j],
         i \notin less \/ g[i] = Absent, h[i] # Absent, NEW l \in Ledgers
  PROVE  /\ UnitsOf(g, less, l) \subseteq UnitsOf(h, invs, l) \ Piece(i, h[i].usd)
         /\ l = <<IdentityOf(i), h[i].period>> => Piece(i, h[i].usd) \subseteq UnitsOf(h, invs, l)
<1>1. ASSUME NEW x \in UnitsOf(g, less, l)
      PROVE  x \in UnitsOf(h, invs, l) /\ x \notin Piece(i, h[i].usd)
  <2>1. PICK j \in less : /\ g[j] # Absent /\ IdentityOf(j) = l[1] /\ g[j].period = l[2]
                          /\ x \in {j} \X (1..g[j].usd)
    BY <1>1, UnitsIn
  <2>2. j # i
    BY <2>1
  <2>3. x \in UnitsOf(h, invs, l)
    BY <2>1, <2>2, UnitsIn
  <2>4. x \notin Piece(i, h[i].usd)
    BY <2>1, <2>2 DEF Piece
  <2> QED
    BY <2>3, <2>4
<1>2. ASSUME l = <<IdentityOf(i), h[i].period>>, NEW x \in Piece(i, h[i].usd)
      PROVE  x \in UnitsOf(h, invs, l)
  BY <1>2, UnitsIn DEF Piece
<1> QED
  BY <1>1, <1>2

\* The hold of a call that is over is open no more.
LEMMA UnitsGone ==
  ASSUME NEW h, NEW g, NEW c, NEW d, NEW i \in Invs, NEW usd, NEW period, NEW l \in Ledgers,
         h[i] # Absent, h[i].usd = usd, h[i].period = period,
         i \in Open(c), i \notin Open(d),
         \A j \in Invs : j # i => g[j] = h[j] /\ d[j] = c[j]
  PROVE  /\ UnitsOf(g, Open(d), l) \subseteq UnitsOf(h, Open(c), l) \ Piece(i, usd)
         /\ l = <<IdentityOf(i), period>> => Piece(i, usd) \subseteq UnitsOf(h, Open(c), l)
<1>1. \A j \in Open(d) : j # i => j \in Open(c) /\ g[j] = h[j]
  BY DEF Open
<1> QED
  BY <1>1, UnitsFewer

LEMMA UnitsSame ==
  ASSUME NEW h, NEW g, NEW invs, NEW less, NEW l,
         \A j \in less : IdentityOf(j) = l[1] => j \in invs /\ g[j] = h[j]
  PROVE  UnitsOf(g, less, l) \subseteq UnitsOf(h, invs, l)
<1> SUFFICES ASSUME NEW x \in UnitsOf(g, less, l) PROVE x \in UnitsOf(h, invs, l)
  OBVIOUS
<1>1. PICK j \in less : /\ g[j] # Absent /\ IdentityOf(j) = l[1] /\ g[j].period = l[2]
                        /\ x \in {j} \X (1..g[j].usd)
  BY UnitsIn
<1> QED
  BY <1>1, UnitsIn

LEMMA CallsIn ==
  ASSUME NEW c, NEW l, NEW x
  PROVE  x \in CallUnits(c, l) <=>
           \E j \in Invs : /\ c[j].phase = "calling" /\ IdentityOf(j) = l[1] /\ c[j].period = l[2]
                           /\ x \in {j} \X (1..c[j].estimate)
  BY DEF CallUnits

-----------------------------------------------------------------------------
(* What a consultation and a record do *)

LEMMA LedgerNow ==
  ASSUME BudgetTypeOK, NEW i \in Invs, Gated(i)
  PROVE  <<IdentityOf(i), PeriodKey(now)>> \in Ledgers
<1>1. IdentityOf(i) \in Identities
  BY BudgetBounds DEF Gated
<1>2. PeriodKey(now) \in Periods
  BY PeriodOf DEF BudgetTypeOK
<1> QED
  BY <1>1, <1>2 DEF Ledgers

LEMMA ConsultedKeeps ==
  ASSUME BudgetTypeOK, HeldInv, NEW i \in Invs, Gated(i), NEW projected \in Nat,
         NEW action \in Actions, Consulted(i, projected, action)
  PROVE  /\ spend' \in [Ledgers -> Nat] /\ held' \in [Invs -> Hold \cup {Absent}]
         /\ dedup' \in [Invs -> Decision \cup {Absent}]
         /\ HeldInv'
<1>1. Pruned \in [Invs -> Decision \cup {Absent}]
  BY DEF Pruned, BudgetTypeOK
<1>2. CASE Pruned[i] # Absent /\ dedup' = Pruned /\ UNCHANGED <<spend, held>>
  BY <1>1, <1>2 DEF BudgetTypeOK, HeldInv
<1> DEFINE period == PeriodKey(now)
           ledger == <<IdentityOf(i), period>>
<1>3. CASE /\ spend' = [spend EXCEPT ![ledger] = spend[ledger] + projected]
           /\ held' = [held EXCEPT ![i] = [usd |-> projected, period |-> period]]
           /\ dedup' = [Pruned EXCEPT ![i] = [action |-> action, at |-> now]]
  <2>1. ledger \in Ledgers /\ period \in Periods
    BY LedgerNow, PeriodOf DEF BudgetTypeOK
  <2> HIDE DEF period
  <2>2. spend' \in [Ledgers -> Nat] /\ held' \in [Invs -> Hold \cup {Absent}]
    BY <1>3, <2>1 DEF BudgetTypeOK, Hold
  <2>3. dedup' \in [Invs -> Decision \cup {Absent}]
    BY <1>1, <1>3 DEF BudgetTypeOK, Decision
  <2>4. ASSUME NEW l \in Ledgers
        PROVE  /\ IsFiniteSet(UnitsOf(held', Invs, l))
               /\ Cardinality(UnitsOf(held', Invs, l)) <= spend'[l]
    <3>0. /\ IsFiniteSet(UnitsOf(held, Invs, l)) /\ Cardinality(UnitsOf(held, Invs, l)) \in Nat
          /\ Cardinality(UnitsOf(held, Invs, l)) <= spend[l] /\ spend[l] \in Nat
      BY FS_CardinalityType DEF HeldInv, BudgetTypeOK
    <3>1. /\ held'[i] = [usd |-> projected, period |-> period]
          /\ \A j \in Invs : j # i => held'[j] = held[j]
      BY <1>3 DEF BudgetTypeOK
    <3>2. /\ UnitsOf(held', Invs, l) \subseteq UnitsOf(held, Invs, l) \cup Piece(i, projected)
          /\ l # ledger => UnitsOf(held', Invs, l) \subseteq UnitsOf(held, Invs, l)
      BY <3>1, UnitsMore
    <3>3. CASE l = ledger
      <4>1. spend'[l] = spend[l] + projected
        BY <1>3, <2>1, <3>3 DEF BudgetTypeOK
      <4>2. /\ IsFiniteSet(UnitsOf(held', Invs, l)) /\ Cardinality(UnitsOf(held', Invs, l)) \in Nat
            /\ Cardinality(UnitsOf(held', Invs, l)) <= Cardinality(UnitsOf(held, Invs, l)) + projected
        BY <3>0, <3>2, Grows
      <4> QED
        BY <3>0, <4>1, <4>2
    <3>4. CASE l # ledger
      <4>1. spend'[l] = spend[l]
        BY <1>3, <3>4 DEF BudgetTypeOK
      <4>2. /\ IsFiniteSet(UnitsOf(held', Invs, l)) /\ Cardinality(UnitsOf(held', Invs, l)) \in Nat
            /\ Cardinality(UnitsOf(held', Invs, l)) <= Cardinality(UnitsOf(held, Invs, l))
        BY <3>0, <3>2, <3>4, Within
      <4> QED
        BY <3>0, <4>1, <4>2
    <3> QED
      BY <3>3, <3>4
  <2> QED
    BY <2>2, <2>3, <2>4 DEF HeldInv
<1> QED
  BY <1>2, <1>3 DEF Consulted

\* A record settles on the ledger of the hold.
LEMMA RecordedKeeps ==
  ASSUME BudgetTypeOK, HeldInv, NEW i \in Invs, Gated(i), NEW actual \in Nat,
         Recorded(i, actual)
  PROVE  /\ spend' \in [Ledgers -> Nat] /\ held' \in [Invs -> Hold \cup {Absent}]
         /\ HeldInv'
         /\ held[i] # Absent =>
              /\ held'[i] = Absent /\ \A j \in Invs : j # i => held'[j] = held[j]
              /\ \A l \in Ledgers :
                   /\ l = <<IdentityOf(i), held[i].period>> => spend'[l] >= spend[l] + actual - held[i].usd
                   /\ l # <<IdentityOf(i), held[i].period>> => spend'[l] = spend[l]
         /\ held[i] = Absent => UNCHANGED <<spend, held>>
<1>1. CASE held[i] = Absent
  BY <1>1 DEF Recorded, BudgetTypeOK, HeldInv
<1>2. CASE held[i] # Absent
  <2>1. held[i] \in Hold
    BY <1>2 DEF BudgetTypeOK
  <2>2. PICK usd, period : usd = held[i].usd /\ period = held[i].period
    OBVIOUS
  <2>3. usd \in Nat /\ period \in Periods
    BY <2>1, <2>2 DEF Hold
  <2> DEFINE ledger == <<IdentityOf(i), period>>
  <2>4. ledger \in Ledgers
    BY <2>3, BudgetBounds DEF Ledgers, Gated
  <2>5. spend[ledger] \in Nat
    BY <2>4 DEF BudgetTypeOK
  <2>6. PICK rest \in Nat : /\ rest = Max({0, spend[ledger] + actual - usd})
                           /\ rest >= spend[ledger] + actual - usd
    BY <2>3, <2>5, MaxOfTwo
  <2>7. /\ spend' = [spend EXCEPT ![ledger] = rest]
        /\ held' = [held EXCEPT ![i] = Absent]
    BY <1>2, <2>2, <2>6 DEF Recorded
  <2>8. spend' \in [Ledgers -> Nat] /\ held' \in [Invs -> Hold \cup {Absent}]
    BY <2>6, <2>7 DEF BudgetTypeOK
  <2>9. held'[i] = Absent /\ \A j \in Invs : j # i => held'[j] = held[j]
    BY <2>7 DEF BudgetTypeOK
  <2>10. \A l \in Ledgers : /\ l = ledger => spend'[l] = rest
                            /\ l # ledger => spend'[l] = spend[l]
    BY <2>4, <2>7 DEF BudgetTypeOK
  <2>11. ASSUME NEW l \in Ledgers
         PROVE  /\ IsFiniteSet(UnitsOf(held', Invs, l))
                /\ Cardinality(UnitsOf(held', Invs, l)) <= spend'[l]
    <3>0. /\ IsFiniteSet(UnitsOf(held, Invs, l)) /\ Cardinality(UnitsOf(held, Invs, l)) \in Nat
          /\ Cardinality(UnitsOf(held, Invs, l)) <= spend[l] /\ spend[l] \in Nat
      BY FS_CardinalityType DEF HeldInv, BudgetTypeOK
    <3>1. /\ UnitsOf(held', Invs, l) \subseteq UnitsOf(held, Invs, l) \ Piece(i, usd)
          /\ l = ledger => Piece(i, usd) \subseteq UnitsOf(held, Invs, l)
      <4>1. \A j \in Invs : j # i => j \in Invs /\ held'[j] = held[j]
        BY <2>9
      <4>2. /\ UnitsOf(held', Invs, l) \subseteq UnitsOf(held, Invs, l) \ Piece(i, held[i].usd)
            /\ l = <<IdentityOf(i), held[i].period>> =>
                 Piece(i, held[i].usd) \subseteq UnitsOf(held, Invs, l)
        <5>1. PICK h, g : h = held /\ g = held'
          OBVIOUS
        <5>2. /\ \A j \in Invs : j # i => j \in Invs /\ g[j] = h[j]
              /\ h[i] # Absent /\ g[i] = Absent
          BY <1>2, <2>9, <5>1
        <5>3. /\ UnitsOf(g, Invs, l) \subseteq UnitsOf(h, Invs, l) \ Piece(i, h[i].usd)
              /\ l = <<IdentityOf(i), h[i].period>> => Piece(i, h[i].usd) \subseteq UnitsOf(h, Invs, l)
          BY <5>2, UnitsFewer
        <5> QED
          BY <5>1, <5>3
      <4> QED
        BY <2>2, <4>2
    <3>2. CASE l = ledger
      <4>1. /\ IsFiniteSet(UnitsOf(held', Invs, l)) /\ Cardinality(UnitsOf(held', Invs, l)) \in Nat
            /\ Cardinality(UnitsOf(held', Invs, l)) + usd <= Cardinality(UnitsOf(held, Invs, l))
        BY <2>3, <3>0, <3>1, <3>2, Shrinks
      <4>2. spend'[l] = rest /\ rest >= spend[l] + actual - usd
        BY <2>6, <2>10, <3>2
      <4> QED
        BY <2>3, <2>6, <3>0, <4>1, <4>2
    <3>3. CASE l # ledger
      <4>1. /\ IsFiniteSet(UnitsOf(held', Invs, l)) /\ Cardinality(UnitsOf(held', Invs, l)) \in Nat
            /\ Cardinality(UnitsOf(held', Invs, l)) <= Cardinality(UnitsOf(held, Invs, l))
        BY <3>0, <3>1, Within
      <4> QED
        BY <2>10, <3>0, <3>3, <4>1
    <3> QED
      BY <3>2, <3>3
  <2> QED
    BY <1>2, <2>2, <2>6, <2>8, <2>9, <2>10, <2>11 DEF HeldInv
<1> QED
  BY <1>1, <1>2

-----------------------------------------------------------------------------
(* Types, and what is held *)

\* A call is over.
LEMMA OverKeeps ==
  ASSUME BudgetTypeOK, NEW i \in Invs, Over(i)
  PROVE  /\ call' \in [Invs -> Call] /\ call'[i].phase = "ready" /\ call'[i].made = call[i].made
         /\ \A j \in Invs : j # i => call'[j] = call[j]
<1>1. 0 \in Periods
  <2>1. \A a, b \in Nat : b > 0 => a \div b \in Nat
    BY Z3
  <2> QED
    BY <2>1, BudgetBounds DEF Periods
<1>2. call[i] \in Call
  BY DEF BudgetTypeOK
<1> DEFINE new == [call[i] EXCEPT !.phase = "ready", !.estimate = 0, !.period = 0]
<1>3. new \in Call /\ new.phase = "ready" /\ new.made = call[i].made
  BY <1>1, <1>2 DEF Call, Phases
<1>4. call' = [call EXCEPT ![i] = new]
  BY DEF Over, BudgetTypeOK
<1> HIDE DEF new
<1> QED
  BY <1>3, <1>4 DEF BudgetTypeOK

LEMMA ExcessNat ==
  ASSUME BudgetTypeOK, NEW i \in Invs, NEW cost \in Nat
  PROVE  /\ Excess(i, cost) \in Nat /\ call[i].estimate \in Nat
         /\ cost <= call[i].estimate + Excess(i, cost)
<1>1. call[i].estimate \in Nat
  BY DEF BudgetTypeOK, Call
<1>2. cost - call[i].estimate \in Int
  BY <1>1
<1>3. Excess(i, cost) \in Nat /\ Excess(i, cost) >= cost - call[i].estimate
  BY <1>2, MaxOfTwo DEF Excess
<1> QED
  BY <1>1, <1>3

\* A call is charged on the ledger of its period, and its excess is noted there
\* unless the enforcer is told.
LEMMA ChargedKeeps ==
  ASSUME BudgetTypeOK, NEW i \in Invs, NEW cost \in Nat, NEW told, Charged(i, cost, told)
  PROVE  /\ call' \in [Invs -> Call] /\ used' \in [Ledgers -> Nat] /\ untold' \in [Ledgers -> Nat]
         /\ \A l \in Ledgers :
              /\ IdentityOf(i) # Absent /\ l = <<IdentityOf(i), call[i].period>> =>
                   /\ used'[l] = used[l] + cost
                   /\ ~told => untold'[l] = untold[l] + Excess(i, cost)
                   /\ told => untold'[l] = untold[l]
              /\ l # <<IdentityOf(i), call[i].period>> =>
                   used'[l] = used[l] /\ untold'[l] = untold[l]
<1>1. call[i] \in Call
  BY DEF BudgetTypeOK
<1>2. call' \in [Invs -> Call]
  BY OverKeeps DEF Charged
<1>3. PICK period, more : period = call[i].period /\ more = Excess(i, cost)
  OBVIOUS
<1>4. more \in Nat
  BY <1>3, ExcessNat
<1> DEFINE ledger == <<IdentityOf(i), period>>
<1>5. used \in [Ledgers -> Nat] /\ untold \in [Ledgers -> Nat]
  BY DEF BudgetTypeOK
<1>6. CASE IdentityOf(i) = Absent
  <2>1. UNCHANGED <<used, untold>>
    BY <1>6 DEF Charged
  <2> QED
    BY <1>2, <1>5, <1>6, <2>1
<1>7. CASE IdentityOf(i) # Absent
  <2>1. ledger \in Ledgers
    BY <1>1, <1>3, <1>7, BudgetBounds DEF Ledgers, Call
  <2>2. /\ used' = [used EXCEPT ![ledger] = used[ledger] + cost]
        /\ told => untold' = untold
        /\ ~told => untold' = [untold EXCEPT ![ledger] = untold[ledger] + more]
    BY <1>3, <1>7 DEF Charged
  <2>3. used' \in [Ledgers -> Nat] /\ untold' \in [Ledgers -> Nat]
    BY <1>4, <1>5, <2>1, <2>2
  <2> QED
    BY <1>2, <1>3, <1>5, <2>1, <2>2, <2>3
<1> QED
  BY <1>6, <1>7

\* A call begins, or is blocked.
LEMMA AnsweredKeeps ==
  ASSUME BudgetTypeOK, NEW i \in Invs, NEW action \in Actions, NEW estimate \in Nat,
         Answered(i, action, estimate)
  PROVE  /\ pending' \subseteq Invs /\ call' \in [Invs -> Call]
         /\ \A j \in Invs : j # i => call'[j] = call[j]
         /\ call'[i].made = call[i].made + 1 /\ call'[i].estimate = estimate
         /\ call'[i].period = PeriodKey(now)
         /\ call'[i].phase = IF action = "block" THEN "stopped" ELSE "calling"
<1>1. call[i] \in Call
  BY DEF BudgetTypeOK
<1>2. PICK period : period = PeriodKey(now)
  OBVIOUS
<1>3. period \in Periods
  BY <1>2, PeriodOf DEF BudgetTypeOK
<1> DEFINE new == [phase |-> IF action = "block" THEN "stopped" ELSE "calling",
                   made |-> call[i].made + 1, estimate |-> estimate, period |-> period,
                   warned |-> call[i].warned \/ action = "warn"]
<1>4. call[i].made + 1 \in Nat /\ (call[i].warned \/ action = "warn") \in BOOLEAN
  BY <1>1 DEF Call
<1>5. (IF action = "block" THEN "stopped" ELSE "calling") \in Phases
  BY DEF Phases
<1>6. new \in Call
  BY <1>3, <1>4, <1>5 DEF Call
<1>7. /\ new.made = call[i].made + 1 /\ new.estimate = estimate /\ new.period = period
      /\ new.phase = IF action = "block" THEN "stopped" ELSE "calling"
  OBVIOUS
<1>8. call' = [call EXCEPT ![i] = new]
  BY <1>2 DEF Answered
<1> HIDE DEF new
<1>9. pending' \subseteq Invs
  BY DEF Answered, BudgetTypeOK
<1> QED
  BY <1>2, <1>6, <1>7, <1>8, <1>9 DEF BudgetTypeOK

LEMMA BeforeKeeps ==
  ASSUME BudgetTypeOK, HeldInv, NEW i \in Invs, NEW request \in Requests, Before(i, request)
  PROVE  BudgetTypeOK' /\ HeldInv'
<1>1. PICK action \in Actions :
        /\ Consulted(i, Estimated(request) * ConfigOf(i).multiplier, action)
        /\ Answered(i, action, Estimated(request))
  BY DEF Before
<1>2. /\ Estimated(request) \in Nat /\ Estimated(request) * ConfigOf(i).multiplier \in Nat
      /\ Gated(i)
  BY Projections DEF Before
<1>3. /\ spend' \in [Ledgers -> Nat] /\ held' \in [Invs -> Hold \cup {Absent}]
      /\ dedup' \in [Invs -> Decision \cup {Absent}] /\ HeldInv'
  BY <1>1, <1>2, ConsultedKeeps
<1>4. pending' \subseteq Invs /\ call' \in [Invs -> Call]
  BY <1>1, <1>2, AnsweredKeeps
<1> QED
  BY <1>3, <1>4 DEF Before, BudgetTypeOK

LEMMA BeforeUngatedCall ==
  ASSUME BudgetTypeOK, NEW i \in Invs, NEW request \in Requests, BeforeUngated(i, request)
  PROVE  call' \in [Invs -> Call] /\ \A j \in Invs : j # i => call'[j] = call[j]
<1>1. call[i] \in Call /\ Estimated(request) \in Nat
  BY Estimates DEF BudgetTypeOK
<1>2. PICK made, estimate, period :
        made = call[i].made + 1 /\ estimate = Estimated(request) /\ period = PeriodKey(now)
  OBVIOUS
<1>3. made \in Nat /\ estimate \in Nat /\ period \in Periods
  BY <1>1, <1>2, PeriodOf DEF BudgetTypeOK, Call
<1> DEFINE new == [call[i] EXCEPT !.phase = "calling", !.made = made,
                                  !.estimate = estimate, !.period = period]
<1>4. new \in Call
  BY <1>1, <1>3 DEF Call, Phases
<1>5. call' = [call EXCEPT ![i] = new]
  BY <1>2 DEF BeforeUngated, BudgetTypeOK
<1> HIDE DEF new
<1> QED
  BY <1>4, <1>5 DEF BudgetTypeOK

LEMMA CostNat ==
  ASSUME NEW cost \in ActualCosts
  PROVE  cost \in Nat
  BY DEF ActualCosts

LEMMA AfterKeeps ==
  ASSUME BudgetTypeOK, HeldInv, NEW i \in Invs, NEW cost \in Nat, NEW metered \in BOOLEAN,
         After(i, cost, metered)
  PROVE  BudgetTypeOK' /\ HeldInv'
<1>1. /\ call' \in [Invs -> Call] /\ used' \in [Ledgers -> Nat] /\ untold' \in [Ledgers -> Nat]
      /\ Gated(i)
  <2>1. PICK told : told = Told(i, cost, metered)
    OBVIOUS
  <2>2. Charged(i, cost, told) /\ Gated(i)
    BY <2>1 DEF After
  <2> QED
    BY <2>2, ChargedKeeps
<1>2. pending' \subseteq Invs /\ dedup' = dedup /\ now' = now
  BY DEF After, BudgetTypeOK
<1>3. CASE UNCHANGED <<spend, held>>
  BY <1>1, <1>2, <1>3 DEF BudgetTypeOK, HeldInv
<1>4. CASE Recorded(i, cost)
  <2>1. spend' \in [Ledgers -> Nat] /\ held' \in [Invs -> Hold \cup {Absent}] /\ HeldInv'
    BY <1>1, <1>4, RecordedKeeps
  <2> QED
    BY <1>1, <1>2, <2>1 DEF BudgetTypeOK
<1> QED
  BY <1>3, <1>4 DEF After, Told, ActualCost

LEMMA StepKeeps ==
  ASSUME BudgetTypeOK, HeldInv, [BudgetNext]_budgetVars
  PROVE  BudgetTypeOK' /\ HeldInv'
<1>1. ASSUME NEW i \in Invs, NEW request \in Requests, Before(i, request) PROVE BudgetTypeOK' /\ HeldInv'
  BY <1>1, BeforeKeeps
<1>2. ASSUME NEW i \in Invs, NEW request \in Requests, BeforeUngated(i, request)
      PROVE  BudgetTypeOK' /\ HeldInv'
  BY <1>2, BeforeUngatedCall DEF BeforeUngated, BudgetTypeOK, HeldInv
<1>3. ASSUME NEW i \in Invs, NEW cost \in ActualCosts, NEW metered \in BOOLEAN, After(i, cost, metered)
      PROVE  BudgetTypeOK' /\ HeldInv'
  BY <1>3, CostNat, AfterKeeps
<1>4. ASSUME NEW i \in Invs, NEW cost \in ActualCosts, AfterUngated(i, cost) PROVE BudgetTypeOK' /\ HeldInv'
  BY <1>4, CostNat, ChargedKeeps DEF AfterUngated, BudgetTypeOK, HeldInv
<1>5. ASSUME NEW i \in Invs, AfterPartial(i) PROVE BudgetTypeOK' /\ HeldInv'
  BY <1>5 DEF AfterPartial, BudgetTypeOK, HeldInv
<1>6. ASSUME NEW i \in Invs, Fail(i) PROVE BudgetTypeOK' /\ HeldInv'
  BY <1>6, OverKeeps DEF Fail, BudgetTypeOK, HeldInv
<1>7. ASSUME Tick PROVE BudgetTypeOK' /\ HeldInv'
  BY <1>7, BudgetBounds DEF Tick, BudgetTypeOK, HeldInv
<1>8. ASSUME UNCHANGED budgetVars PROVE BudgetTypeOK' /\ HeldInv'
  BY <1>8 DEF budgetVars, BudgetTypeOK, HeldInv
<1> QED
  BY <1>1, <1>2, <1>3, <1>4, <1>5, <1>6, <1>7, <1>8 DEF BudgetNext

-----------------------------------------------------------------------------
(* The identities whose turns are gated and make one call *)

\* What a step leaves of a ledger it does not touch.
LEMMA SinglyFrame ==
  ASSUME BudgetTypeOK, HeldInv, NEW l \in Ledgers, Singly(l, spend, used, untold, held, dedup, call),
         spend' \in [Ledgers -> Nat], spend'[l] = spend[l], used'[l] = used[l], untold'[l] = untold[l],
         \A j \in Invs : IdentityOf(j) = l[1] =>
           /\ held'[j] = held[j] /\ call'[j] = call[j]
           /\ dedup'[j] = dedup[j] \/ dedup'[j] = Absent
  PROVE  Singly(l, spend', used', untold', held', dedup', call')
<1>1. \A j \in Invs : IdentityOf(j) = l[1] => OneCall(held'[j], dedup'[j], call'[j])
  BY DEF Singly, OneCall
<1>2. UnitsOf(held', Open(call'), l) = UnitsOf(held, Open(call), l)
  <2>1. \A j \in Open(call') : IdentityOf(j) = l[1] => j \in Open(call) /\ held'[j] = held[j]
    BY DEF Open
  <2>2. \A j \in Open(call) : IdentityOf(j) = l[1] => j \in Open(call') /\ held[j] = held'[j]
    BY DEF Open
  <2>3. UnitsOf(held', Open(call'), l) \subseteq UnitsOf(held, Open(call), l)
    BY <2>1, UnitsSame
  <2>4. UnitsOf(held, Open(call), l) \subseteq UnitsOf(held', Open(call'), l)
    BY <2>2, UnitsSame
  <2> QED
    BY <2>3, <2>4
<1> QED
  BY <1>1, <1>2 DEF Singly

LEMMA OpenFinite ==
  ASSUME BudgetTypeOK, HeldInv, NEW l \in Ledgers
  PROVE  /\ IsFiniteSet(UnitsOf(held, Open(call), l))
         /\ Cardinality(UnitsOf(held, Open(call), l)) \in Nat
<1>1. \A j \in Open(call) : IdentityOf(j) = l[1] => j \in Invs /\ held[j] = held[j]
  BY DEF Open
<1>2. UnitsOf(held, Open(call), l) \subseteq UnitsOf(held, Invs, l)
  BY <1>1, UnitsSame
<1> QED
  BY <1>2, Within DEF HeldInv

\* Calls under way hold what they can cost.
LEMMA CallsCovered ==
  ASSUME NEW l \in Ledgers, NEW c \in [Invs -> Call], NEW h \in [Invs -> Hold \cup {Absent}],
         Absent \notin Hold,
         \A j \in Invs : IdentityOf(j) = l[1] /\ c[j].phase = "calling" =>
           h[j] # Absent /\ h[j].period = c[j].period /\ c[j].estimate <= h[j].usd
  PROVE  CallUnits(c, l) \subseteq UnitsOf(h, Open(c), l)
<1> SUFFICES ASSUME NEW x \in CallUnits(c, l) PROVE x \in UnitsOf(h, Open(c), l)
  OBVIOUS
<1>1. PICK j \in Invs : /\ c[j].phase = "calling" /\ IdentityOf(j) = l[1] /\ c[j].period = l[2]
                        /\ x \in {j} \X (1..c[j].estimate)
  BY CallsIn
<1>2. h[j] # Absent /\ h[j] \in Hold /\ h[j].period = l[2] /\ c[j].estimate <= h[j].usd /\ c[j] \in Call
  BY <1>1
<1>3. h[j].usd \in Nat /\ c[j].estimate \in Nat
  BY <1>2 DEF Hold, Call
<1>4. x \in {j} \X (1..h[j].usd)
  BY <1>1, <1>2, <1>3
<1>5. j \in Open(c)
  BY <1>1 DEF Open
<1> QED
  BY <1>1, <1>2, <1>4, <1>5, UnitsIn

\* The one consultation of an invocation charges what the call is expected to cost,
\* and lets it pass only if it fits under the cap.
LEMMA BeforeSingle ==
  ASSUME BudgetTypeOK, HeldInv, BudgetTypeOK', HeldInv', NEW l \in Ledgers, SingleCalls(l[1]),
         Singly(l, spend, used, untold, held, dedup, call),
         NEW i \in Invs, IdentityOf(i) = l[1], NEW request \in Requests, Before(i, request)
  PROVE  /\ Singly(l, spend', used', untold', held', dedup', call')
         /\ call'[i].phase = "calling" /\ l = <<l[1], PeriodKey(now)>>
              => used[l] + Cardinality(CallUnits(call', l)) < Cap + untold[l]
<1>1. call[i].made = 0 /\ call[i].phase = "ready" /\ dedup[i] = Absent /\ held[i] = Absent /\ Gated(i)
  <2>1. Gated(i) /\ call[i].made < 1 /\ call[i].made \in Nat
    BY DEF Before, SingleCalls, BudgetTypeOK, Call
  <2> QED
    BY <2>1 DEF Singly, OneCall
<1>2. PICK usd, estimate, period :
        /\ usd = Estimated(request) * ConfigOf(i).multiplier
        /\ estimate = Estimated(request) /\ period = PeriodKey(now)
  OBVIOUS
<1>3. usd \in Nat /\ estimate \in Nat /\ estimate <= usd /\ period \in Periods
  BY <1>1, <1>2, Projections, PeriodOf DEF BudgetTypeOK
<1> DEFINE ledger == <<l[1], period>>
<1>4. PICK action \in Actions :
        /\ action = Decided(spend[ledger] + usd)
        /\ spend' = [spend EXCEPT ![ledger] = spend[ledger] + usd]
        /\ held' = [held EXCEPT ![i] = [usd |-> usd, period |-> period]]
        /\ dedup' = [Pruned EXCEPT ![i] = [action |-> action, at |-> now]]
        /\ Answered(i, action, estimate)
  <2>1. Pruned[i] = Absent
    BY <1>1 DEF Pruned
  <2> QED
    BY <1>2, <2>1 DEF Before, Consulted
<1>5. /\ ledger \in Ledgers /\ l = <<l[1], l[2]>>
  BY <1>3 DEF Ledgers
<1>6. /\ held'[i] = [usd |-> usd, period |-> period]
      /\ \A j \in Invs : j # i => held'[j] = held[j]
      /\ \A j \in Invs : j # i => dedup'[j] = dedup[j] \/ dedup'[j] = Absent
  BY <1>4 DEF BudgetTypeOK, Pruned
<1>7. /\ \A j \in Invs : j # i => call'[j] = call[j]
      /\ call'[i].made = 1 /\ call'[i].estimate = estimate /\ call'[i].period = period
      /\ call'[i].phase = IF action = "block" THEN "stopped" ELSE "calling"
  BY <1>1, <1>2, <1>3, <1>4, AnsweredKeeps
<1>8. held'[i] # Absent /\ held'[i].usd = usd /\ held'[i].period = period
  <2>1. [usd |-> usd, period |-> period] \in Hold
    BY <1>3 DEF Hold
  <2> QED
    BY <1>6, <2>1, BudgetBounds
<1>9. \A j \in Invs : IdentityOf(j) = l[1] => OneCall(held'[j], dedup'[j], call'[j])
  <2> SUFFICES ASSUME NEW j \in Invs, IdentityOf(j) = l[1] PROVE OneCall(held'[j], dedup'[j], call'[j])
    OBVIOUS
  <2>1. CASE j = i
    BY <1>3, <1>7, <1>8, <2>1 DEF OneCall
  <2>2. CASE j # i
    BY <1>6, <1>7, <2>2 DEF Singly, OneCall
  <2> QED
    BY <2>1, <2>2
<1>10. /\ used'[l] = used[l] /\ used[l] \in Nat /\ spend[l] \in Nat
       /\ untold'[l] = untold[l] /\ untold[l] \in Nat
       /\ Cap \in Nat /\ Cap > 0
  BY BudgetBounds DEF Before, BudgetTypeOK, SingleCalls
<1> DEFINE open == UnitsOf(held, Open(call), l)
           next == UnitsOf(held', Open(call'), l)
<1>11. IsFiniteSet(open) /\ Cardinality(open) \in Nat /\ IsFiniteSet(next) /\ Cardinality(next) \in Nat
  <2>1. IsFiniteSet(UnitsOf(held', Open(call'), l)) /\ Cardinality(UnitsOf(held', Open(call'), l)) \in Nat
    <3>1. \A j \in Open(call') : IdentityOf(j) = l[1] => j \in Invs /\ held'[j] = held'[j]
      BY DEF Open
    <3>2. UnitsOf(held', Open(call'), l) \subseteq UnitsOf(held', Invs, l)
      BY <3>1, UnitsSame
    <3>3. IsFiniteSet(UnitsOf(held', Invs, l))
      BY DEF HeldInv
    <3> QED
      BY <3>2, <3>3, Within
  <2> QED
    BY <2>1, OpenFinite
<1>12. /\ next \subseteq open \cup Piece(i, usd)
       /\ l # ledger => next \subseteq open
  <2>1. \A j \in Open(call') : j # i => j \in Open(call) /\ held'[j] = held[j]
    BY <1>6, <1>7 DEF Open
  <2> QED
    BY <1>3, <1>6, <2>1, UnitsMore
<1>13. used[l] + Cardinality(open) <= spend[l] + untold[l]
  BY DEF Singly
<1>14. CallUnits(call', l) \subseteq next
  <2>1. \A j \in Invs : IdentityOf(j) = l[1] /\ call'[j].phase = "calling" =>
           held'[j] # Absent /\ held'[j].period = call'[j].period /\ call'[j].estimate <= held'[j].usd
    BY <1>9 DEF OneCall
  <2>2. call' \in [Invs -> Call] /\ held' \in [Invs -> Hold \cup {Absent}] /\ Absent \notin Hold
    BY BudgetBounds DEF BudgetTypeOK
  <2> QED
    BY <2>1, <2>2, CallsCovered
<1> HIDE DEF open, next
<1>15. Cardinality(CallUnits(call', l)) \in Nat /\ Cardinality(CallUnits(call', l)) <= Cardinality(next)
  BY <1>11, <1>14, Within
<1>16. CASE l # ledger
  <2>1. spend'[l] = spend[l]
    BY <1>4, <1>16 DEF BudgetTypeOK
  <2>2. Cardinality(next) <= Cardinality(open)
    BY <1>11, <1>12, <1>16, Within
  <2>3. used'[l] + Cardinality(next) <= spend'[l] + untold'[l]
    BY <1>10, <1>11, <1>13, <2>1, <2>2
  <2>4. l # <<l[1], PeriodKey(now)>>
    BY <1>2, <1>16
  <2> QED
    BY <1>9, <2>3, <2>4 DEF Singly, next
<1>17. CASE l = ledger
  <2>1. spend'[l] = spend[l] + usd
    BY <1>4, <1>5, <1>17 DEF BudgetTypeOK
  <2>2. Cardinality(next) <= Cardinality(open) + usd
    BY <1>3, <1>11, <1>12, Grows
  <2>3. used'[l] + Cardinality(next) <= spend'[l] + untold'[l]
    BY <1>3, <1>10, <1>11, <1>13, <2>1, <2>2
  <2>4. ASSUME call'[i].phase = "calling"
        PROVE  used[l] + Cardinality(CallUnits(call', l)) < Cap + untold[l]
    <3>1. action # "block"
      BY <1>7, <2>4
    <3>2. spend[l] + usd < Cap
      BY <1>3, <1>4, <1>10, <1>17, <3>1 DEF Decided
    <3> QED
      BY <1>3, <1>10, <1>11, <1>13, <1>15, <2>2, <3>2
  <2> QED
    BY <1>9, <2>3, <2>4 DEF Singly, next
<1> QED
  BY <1>16, <1>17

\* A call that ends, however it is settled, and whatever it cost: what goes beyond
\* its hold is recorded, or noted as untold.
LEMMA EndSingle ==
  ASSUME BudgetTypeOK, HeldInv, BudgetTypeOK', HeldInv', NEW l \in Ledgers, SingleCalls(l[1]),
         Singly(l, spend, used, untold, held, dedup, call),
         NEW i \in Invs, IdentityOf(i) = l[1], call[i].phase = "calling", Over(i), dedup' = dedup,
         NEW cost \in Nat, NEW more \in Nat,
         l[2] = call[i].period => used'[l] = used[l] + cost /\ untold'[l] = untold[l] + more,
         l[2] # call[i].period => used'[l] = used[l] /\ untold'[l] = untold[l],
         \/ UNCHANGED <<spend, held>> /\ cost <= call[i].estimate + more
         \/ Recorded(i, cost) /\ Gated(i)
  PROVE  Singly(l, spend', used', untold', held', dedup', call')
<1>1. /\ held[i] # Absent /\ held[i].period = call[i].period /\ call[i].estimate <= held[i].usd
      /\ call[i].made # 0
  BY DEF Singly, OneCall
<1>2. PICK usd, estimate, period :
        usd = held[i].usd /\ estimate = call[i].estimate /\ period = call[i].period
  OBVIOUS
<1>3. usd \in Nat /\ estimate \in Nat /\ estimate <= usd /\ period = held[i].period
  <2>1. held[i] \in Hold /\ call[i] \in Call
    BY <1>1 DEF BudgetTypeOK
  <2> QED
    BY <1>1, <1>2, <2>1 DEF Hold, Call
<1>4. /\ call'[i].phase = "ready" /\ call'[i].made = call[i].made
      /\ \A j \in Invs : j # i => call'[j] = call[j]
  BY OverKeeps
<1> DEFINE ledger == <<l[1], period>>
<1>5. l = <<l[1], l[2]>>
  BY DEF Ledgers
<1>6. /\ \A j \in Invs : j # i => held'[j] = held[j]
      /\ spend'[l] \in Nat /\ spend[l] \in Nat /\ used[l] \in Nat /\ untold[l] \in Nat
      /\ l = ledger => spend'[l] + more >= spend[l] + cost - usd
      /\ l # ledger => spend'[l] = spend[l]
  <2>1. spend'[l] \in Nat /\ spend[l] \in Nat /\ used[l] \in Nat /\ untold[l] \in Nat
    BY DEF BudgetTypeOK
  <2>2. CASE UNCHANGED <<spend, held>> /\ cost <= call[i].estimate + more
    BY <1>2, <1>3, <2>1, <2>2
  <2>3. CASE Recorded(i, cost) /\ Gated(i)
    <3>1. /\ \A j \in Invs : j # i => held'[j] = held[j]
          /\ l = <<IdentityOf(i), held[i].period>> => spend'[l] >= spend[l] + cost - held[i].usd
          /\ l # <<IdentityOf(i), held[i].period>> => spend'[l] = spend[l]
      BY <1>1, <2>3, RecordedKeeps
    <3> QED
      BY <1>2, <1>3, <2>1, <3>1
  <2> QED
    BY <2>2, <2>3
<1>7. \A j \in Invs : IdentityOf(j) = l[1] => OneCall(held'[j], dedup'[j], call'[j])
  <2> SUFFICES ASSUME NEW j \in Invs, IdentityOf(j) = l[1] PROVE OneCall(held'[j], dedup'[j], call'[j])
    OBVIOUS
  <2>1. CASE j = i
    BY <1>1, <1>4, <2>1 DEF OneCall
  <2>2. CASE j # i
    BY <1>4, <1>6, <2>2 DEF Singly, OneCall
  <2> QED
    BY <2>1, <2>2
<1> DEFINE open == UnitsOf(held, Open(call), l)
           next == UnitsOf(held', Open(call'), l)
<1>8. IsFiniteSet(open) /\ Cardinality(open) \in Nat
  BY OpenFinite
<1>9. i \in Open(call) /\ i \notin Open(call')
  BY <1>4 DEF Open
<1>10. /\ next \subseteq open \ Piece(i, usd)
       /\ l = ledger => Piece(i, usd) \subseteq open
  <2>1. PICK h, g, c, d : h = held /\ g = held' /\ c = call /\ d = call'
    OBVIOUS
  <2>2. /\ h[i] # Absent /\ h[i].usd = usd /\ h[i].period = period
        /\ i \in Open(c) /\ i \notin Open(d)
        /\ \A j \in Invs : j # i => g[j] = h[j] /\ d[j] = c[j]
    BY <1>1, <1>2, <1>3, <1>4, <1>6, <1>9, <2>1
  <2>3. /\ UnitsOf(g, Open(d), l) \subseteq UnitsOf(h, Open(c), l) \ Piece(i, usd)
        /\ l = <<IdentityOf(i), period>> => Piece(i, usd) \subseteq UnitsOf(h, Open(c), l)
    BY <2>2, UnitsGone
  <2> QED
    BY <2>1, <2>3
<1>11. used[l] + Cardinality(open) <= spend[l] + untold[l]
  BY DEF Singly
<1> HIDE DEF open, next
<1>12. CASE l = ledger
  <2>1. Cardinality(next) \in Nat /\ Cardinality(next) + usd <= Cardinality(open)
    BY <1>3, <1>8, <1>10, <1>12, Shrinks
  <2>2. used'[l] = used[l] + cost /\ untold'[l] = untold[l] + more
    BY <1>2, <1>5, <1>12
  <2>3. used'[l] + Cardinality(next) <= spend'[l] + untold'[l]
    BY <1>3, <1>6, <1>8, <1>11, <1>12, <2>1, <2>2
  <2> QED
    BY <1>7, <2>3 DEF Singly, next
<1>13. CASE l # ledger
  <2>1. Cardinality(next) \in Nat /\ Cardinality(next) <= Cardinality(open)
    BY <1>8, <1>10, Within
  <2>2. used'[l] = used[l] /\ untold'[l] = untold[l]
    BY <1>2, <1>5, <1>13
  <2>3. used'[l] + Cardinality(next) <= spend'[l] + untold'[l]
    BY <1>6, <1>8, <1>11, <1>13, <2>1, <2>2
  <2> QED
    BY <1>7, <2>3 DEF Singly, next
<1> QED
  BY <1>12, <1>13

\* A step of a turn that spends another identity's budget.
LEMMA OtherBefore ==
  ASSUME BudgetTypeOK, HeldInv, BudgetTypeOK', NEW l \in Ledgers,
         Singly(l, spend, used, untold, held, dedup, call),
         NEW i \in Invs, IdentityOf(i) # l[1], NEW request \in Requests, Before(i, request)
  PROVE  Singly(l, spend', used', untold', held', dedup', call')
<1>1. PICK action \in Actions :
        /\ Consulted(i, Estimated(request) * ConfigOf(i).multiplier, action)
        /\ Answered(i, action, Estimated(request))
  BY DEF Before
<1>2. Estimated(request) \in Nat
  BY Estimates
<1>3. \A j \in Invs : j # i => call'[j] = call[j]
  BY <1>1, <1>2, AnsweredKeeps
<1>4. /\ \A j \in Invs : j # i => held'[j] = held[j]
      /\ \A j \in Invs : j # i => dedup'[j] = dedup[j] \/ dedup'[j] = Absent
      /\ spend'[l] = spend[l]
  <2>1. PICK usd, period : /\ usd = Estimated(request) * ConfigOf(i).multiplier
                           /\ period = PeriodKey(now)
    OBVIOUS
  <2>2. Pruned \in [Invs -> Decision \cup {Absent}]
    BY DEF Pruned, BudgetTypeOK
  <2>3. \A j \in Invs : Pruned[j] = dedup[j] \/ Pruned[j] = Absent
    BY DEF Pruned
  <2>4. <<IdentityOf(i), period>> # l
    OBVIOUS
  <2>5. CASE dedup' = Pruned /\ UNCHANGED <<spend, held>>
    BY <2>3, <2>5
  <2>6. CASE /\ spend' = [spend EXCEPT ![<<IdentityOf(i), period>>] = @ + usd]
             /\ held' = [held EXCEPT ![i] = [usd |-> usd, period |-> period]]
             /\ dedup' = [Pruned EXCEPT ![i] = [action |-> action, at |-> now]]
    BY <2>2, <2>3, <2>4, <2>6 DEF BudgetTypeOK
  <2> QED
    BY <1>1, <2>1, <2>5, <2>6 DEF Consulted
<1>5. \A j \in Invs : IdentityOf(j) = l[1] =>
        /\ held'[j] = held[j] /\ call'[j] = call[j]
        /\ dedup'[j] = dedup[j] \/ dedup'[j] = Absent
  BY <1>3, <1>4
<1>6. used'[l] = used[l] /\ untold'[l] = untold[l] /\ spend' \in [Ledgers -> Nat]
  BY DEF Before, BudgetTypeOK
<1> QED
  BY <1>4, <1>5, <1>6, SinglyFrame

LEMMA OtherAfter ==
  ASSUME BudgetTypeOK, HeldInv, BudgetTypeOK', NEW l \in Ledgers,
         Singly(l, spend, used, untold, held, dedup, call),
         NEW i \in Invs, IdentityOf(i) # l[1], NEW cost \in Nat, NEW told, Charged(i, cost, told),
         dedup' = dedup, UNCHANGED <<spend, held>> \/ (Recorded(i, cost) /\ Gated(i))
  PROVE  Singly(l, spend', used', untold', held', dedup', call')
<1>1. \A j \in Invs : j # i => call'[j] = call[j]
  BY OverKeeps DEF Charged
<1>2. used'[l] = used[l] /\ untold'[l] = untold[l]
  <2>1. <<IdentityOf(i), call[i].period>> # l
    OBVIOUS
  <2> QED
    BY <2>1, ChargedKeeps
<1>3. spend'[l] = spend[l] /\ \A j \in Invs : j # i => held'[j] = held[j]
  <2>1. CASE UNCHANGED <<spend, held>>
    BY <2>1
  <2>2. CASE Recorded(i, cost) /\ Gated(i)
    <3>1. <<IdentityOf(i), held[i].period>> # l
      OBVIOUS
    <3> QED
      BY <2>2, <3>1, RecordedKeeps
  <2> QED
    BY <2>1, <2>2
<1>4. \A j \in Invs : IdentityOf(j) = l[1] => held'[j] = held[j] /\ call'[j] = call[j]
  BY <1>1, <1>3
<1>5. spend' \in [Ledgers -> Nat]
  BY DEF BudgetTypeOK
<1> QED
  BY <1>2, <1>3, <1>4, <1>5, SinglyFrame

\* The settlements of a response: at its cost, or not at all, and then untold.
LEMMA Settled ==
  ASSUME NEW i \in Invs, NEW cost \in Nat, NEW metered \in BOOLEAN, After(i, cost, metered)
  PROVE  /\ Gated(i) /\ dedup' = dedup
         /\ \/ UNCHANGED <<spend, held>> /\ Charged(i, cost, FALSE)
            \/ Recorded(i, cost) /\ Charged(i, cost, TRUE)
<1>1. Gated(i) /\ dedup' = dedup /\ Charged(i, cost, Told(i, cost, metered))
  BY DEF After
<1>2. CASE Told(i, cost, metered)
  <2>1. Told(i, cost, metered) = TRUE
    BY <1>2 DEF Told
  <2>2. Charged(i, cost, TRUE)
    BY <1>1, <2>1
  <2>3. Recorded(i, cost)
    BY <1>2 DEF After, Told, ActualCost
  <2> QED
    BY <1>1, <2>2, <2>3
<1>3. CASE ~Told(i, cost, metered)
  <2>1. Told(i, cost, metered) = FALSE
    BY <1>3 DEF Told
  <2>2. Charged(i, cost, FALSE)
    BY <1>1, <2>1
  <2> QED
    BY <1>1, <1>3, <2>2 DEF After
<1> QED
  BY <1>2, <1>3

LEMMA SingleStep ==
  ASSUME BudgetTypeOK, HeldInv, BudgetTypeOK', HeldInv', SingleInv, [BudgetNext]_budgetVars
  PROVE  SingleInv'
<1> SUFFICES ASSUME NEW l \in Ledgers, SingleCalls(l[1])
             PROVE  Singly(l, spend', used', untold', held', dedup', call')
  BY DEF SingleInv, SingleCalls, Gated, Budgeted
<1>1. Singly(l, spend, used, untold, held, dedup, call)
  BY DEF SingleInv
<1>2. spend' \in [Ledgers -> Nat]
  BY DEF BudgetTypeOK
<1>3. ASSUME NEW i \in Invs, NEW request \in Requests, Before(i, request)
      PROVE  Singly(l, spend', used', untold', held', dedup', call')
  <2>1. CASE IdentityOf(i) = l[1]
    BY <1>1, <1>3, <2>1, BeforeSingle
  <2>2. CASE IdentityOf(i) # l[1]
    BY <1>1, <1>3, <2>2, OtherBefore
  <2> QED
    BY <2>1, <2>2
<1>4. ASSUME NEW i \in Invs, NEW request \in Requests, BeforeUngated(i, request)
      PROVE  Singly(l, spend', used', untold', held', dedup', call')
  <2>1. IdentityOf(i) # l[1]
    BY <1>4 DEF BeforeUngated, SingleCalls
  <2>2. \A j \in Invs : IdentityOf(j) = l[1] => call'[j] = call[j]
    BY <1>4, <2>1, BeforeUngatedCall
  <2> QED
    BY <1>1, <1>2, <1>4, <2>2, SinglyFrame DEF BeforeUngated
<1>5. ASSUME NEW i \in Invs, NEW cost \in ActualCosts, NEW metered \in BOOLEAN,
             After(i, cost, metered)
      PROVE  Singly(l, spend', used', untold', held', dedup', call')
  <2>1. /\ Gated(i) /\ dedup' = dedup /\ cost \in Nat
        /\ \/ UNCHANGED <<spend, held>> /\ Charged(i, cost, FALSE)
           \/ Recorded(i, cost) /\ Charged(i, cost, TRUE)
    BY <1>5, CostNat, Settled
  <2>2. CASE IdentityOf(i) = l[1]
    <3>1. call[i].phase = "calling" /\ Over(i) /\ IdentityOf(i) # Absent
      BY <2>1 DEF Charged, Gated
    <3>2. /\ l = <<l[1], l[2]>> /\ 0 \in Nat
          /\ untold[l] \in Nat /\ untold[l] + 0 = untold[l]
      BY DEF Ledgers, BudgetTypeOK
    <3>3. /\ Excess(i, cost) \in Nat /\ cost <= call[i].estimate + Excess(i, cost)
      BY <2>1, ExcessNat
    <3>4. CASE UNCHANGED <<spend, held>> /\ Charged(i, cost, FALSE)
      <4>1. /\ l[2] = call[i].period =>
                 used'[l] = used[l] + cost /\ untold'[l] = untold[l] + Excess(i, cost)
            /\ l[2] # call[i].period => used'[l] = used[l] /\ untold'[l] = untold[l]
        <5>1. /\ IdentityOf(i) # Absent /\ l = <<IdentityOf(i), call[i].period>> =>
                   used'[l] = used[l] + cost /\ untold'[l] = untold[l] + Excess(i, cost)
              /\ l # <<IdentityOf(i), call[i].period>> => used'[l] = used[l] /\ untold'[l] = untold[l]
          BY <2>1, <3>4, ChargedKeeps
        <5> QED
          BY <2>2, <3>1, <3>2, <5>1
      <4> QED
        BY <1>1, <2>1, <2>2, <3>1, <3>3, <3>4, <4>1, EndSingle
    <3>5. CASE Recorded(i, cost) /\ Charged(i, cost, TRUE)
      <4>1. /\ l[2] = call[i].period => used'[l] = used[l] + cost /\ untold'[l] = untold[l] + 0
            /\ l[2] # call[i].period => used'[l] = used[l] /\ untold'[l] = untold[l]
        <5>1. /\ IdentityOf(i) # Absent /\ l = <<IdentityOf(i), call[i].period>> =>
                   used'[l] = used[l] + cost /\ untold'[l] = untold[l]
              /\ l # <<IdentityOf(i), call[i].period>> => used'[l] = used[l] /\ untold'[l] = untold[l]
          BY <2>1, <3>5, ChargedKeeps
        <5> QED
          BY <2>2, <3>1, <3>2, <5>1
      <4> QED
        BY <1>1, <2>1, <2>2, <3>1, <3>2, <3>5, <4>1, EndSingle
    <3> QED
      BY <2>1, <3>4, <3>5
  <2>3. CASE IdentityOf(i) # l[1]
    BY <1>1, <2>1, <2>3, OtherAfter
  <2> QED
    BY <2>2, <2>3
<1>6. ASSUME NEW i \in Invs, NEW cost \in ActualCosts, AfterUngated(i, cost)
      PROVE  Singly(l, spend', used', untold', held', dedup', call')
  <2>1. IdentityOf(i) # l[1]
    BY <1>6 DEF AfterUngated, SingleCalls
  <2>2. /\ cost \in Nat /\ Charged(i, cost, FALSE) /\ dedup' = dedup
        /\ UNCHANGED <<spend, held>> \/ (Recorded(i, cost) /\ Gated(i))
    BY <1>6, CostNat DEF AfterUngated
  <2> QED
    BY <1>1, <2>1, <2>2, OtherAfter
<1>7. ASSUME NEW i \in Invs, AfterPartial(i)
      PROVE  Singly(l, spend', used', untold', held', dedup', call')
  BY <1>1, <1>2, <1>7, SinglyFrame DEF AfterPartial
<1>8. ASSUME NEW i \in Invs, Fail(i)
      PROVE  Singly(l, spend', used', untold', held', dedup', call')
  <2>1. CASE IdentityOf(i) = l[1]
    <3>1. call[i].phase = "calling" /\ Over(i) /\ dedup' = dedup /\ UNCHANGED <<spend, held>>
      BY <1>8 DEF Fail
    <3>2. call[i].estimate \in Nat /\ used[l] \in Nat /\ untold[l] \in Nat
      BY DEF BudgetTypeOK, Call
    <3>3. /\ 0 \in Nat /\ 0 <= call[i].estimate + 0
          /\ used'[l] = used[l] + 0 /\ used'[l] = used[l]
          /\ untold'[l] = untold[l] + 0 /\ untold'[l] = untold[l]
      BY <1>8, <3>2 DEF Fail
    <3> QED
      BY <1>1, <2>1, <3>1, <3>3, EndSingle
  <2>2. CASE IdentityOf(i) # l[1]
    <3>1. \A j \in Invs : IdentityOf(j) = l[1] => call'[j] = call[j]
      BY <1>8, <2>2, OverKeeps DEF Fail
    <3> QED
      BY <1>1, <1>2, <1>8, <3>1, SinglyFrame DEF Fail
  <2> QED
    BY <2>1, <2>2
<1>9. ASSUME Tick \/ UNCHANGED budgetVars
      PROVE  Singly(l, spend', used', untold', held', dedup', call')
  BY <1>1, <1>2, <1>9, SinglyFrame DEF Tick, budgetVars
<1> QED
  BY <1>3, <1>4, <1>5, <1>6, <1>7, <1>8, <1>9 DEF BudgetNext

-----------------------------------------------------------------------------
(* Theorems *)

LEMMA NothingHeld ==
  ASSUME BudgetInit, NEW invs, NEW l \in Ledgers, invs \subseteq Invs
  PROVE  UnitsOf(held, invs, l) = {}
<1>1. \A j \in Invs : held[j] = Absent
  BY DEF BudgetInit
<1> QED
  BY <1>1 DEF UnitsOf

LEMMA InitHolds ==
  ASSUME BudgetInit
  PROVE  BudgetInv
<1>1. 0 \in Periods
  <2>1. \A a, b \in Nat : b > 0 => a \div b \in Nat
    BY Z3
  <2> QED
    BY <2>1, BudgetBounds DEF Periods
<1>2. BudgetTypeOK
  BY <1>1, BudgetBounds DEF BudgetInit, BudgetTypeOK, Call, Phases
<1>3. IsFiniteSet({}) /\ Cardinality({}) = 0
  BY FS_EmptySet
<1>4. \A l \in Ledgers : spend[l] = 0 /\ used[l] = 0 /\ untold[l] = 0
  BY DEF BudgetInit
<1>5. HeldInv
  <2>1. \A l \in Ledgers : UnitsOf(held, Invs, l) = {}
    BY NothingHeld
  <2> QED
    BY <1>3, <1>4, <2>1 DEF HeldInv
<1>6. SingleInv
  <2> SUFFICES ASSUME NEW l \in Ledgers, SingleCalls(l[1])
               PROVE  Singly(l, spend, used, untold, held, dedup, call)
    BY DEF SingleInv
  <2>1. UnitsOf(held, Open(call), l) = {}
    BY NothingHeld DEF Open
  <2>2. \A i \in Invs : OneCall(held[i], dedup[i], call[i])
    BY DEF BudgetInit, OneCall
  <2> QED
    BY <1>3, <1>4, <2>1, <2>2 DEF Singly
<1> QED
  BY <1>2, <1>5, <1>6 DEF BudgetInv

LEMMA BudgetHolds == BudgetSpec => []BudgetInv
<1>1. BudgetInit => BudgetInv
  BY InitHolds
<1>2. BudgetInv /\ [BudgetNext]_budgetVars => BudgetInv'
  BY StepKeeps, SingleStep DEF BudgetInv
<1> QED
  BY <1>1, <1>2, PTL DEF BudgetSpec

\* Only the gate lets a call of such an identity begin.
LEMMA LetInGated ==
  ASSUME BudgetInv, BudgetInv', [BudgetNext]_budgetVars, NEW i \in Invs, SingleCalls(IdentityOf(i)),
         call[i].phase = "ready", call'[i].phase = "calling"
  PROVE  \E request \in Requests : Before(i, request)
<1>1. BudgetTypeOK /\ Gated(i)
  BY DEF BudgetInv, SingleCalls
<1>2. ASSUME NEW j \in Invs, Over(j)
      PROVE  FALSE
  BY <1>1, <1>2, OverKeeps
<1>3. ASSUME NEW j \in Invs, NEW request \in Requests, Before(j, request)
      PROVE  j = i
  <2>1. PICK action \in Actions : Answered(j, action, Estimated(request))
    BY <1>3 DEF Before
  <2>2. Estimated(request) \in Nat
    BY Estimates
  <2> QED
    BY <1>1, <2>1, <2>2, AnsweredKeeps
<1>4. ASSUME NEW j \in Invs, NEW request \in Requests, BeforeUngated(j, request)
      PROVE  FALSE
  <2>1. j # i
    BY <1>1, <1>4 DEF BeforeUngated
  <2> QED
    BY <1>1, <1>4, <2>1, BeforeUngatedCall
<1>5. ASSUME NEW j \in Invs, NEW cost \in ActualCosts,
             AfterUngated(j, cost) \/ \E metered \in BOOLEAN : After(j, cost, metered)
      PROVE  FALSE
  BY <1>2, <1>5 DEF AfterUngated, After, Charged
<1>6. ASSUME NEW j \in Invs, AfterPartial(j) \/ Fail(j)
      PROVE  FALSE
  BY <1>2, <1>6 DEF AfterPartial, Fail
<1>7. ASSUME Tick \/ UNCHANGED budgetVars
      PROVE  FALSE
  BY <1>7 DEF Tick, budgetVars
<1> QED
  BY <1>3, <1>4, <1>5, <1>6, <1>7 DEF BudgetNext

\* The enforcer's spend never goes below zero, whatever overlaps, and the state of the
\* gate keeps its types (in_memory_enforcer.py, budget_callbacks.py).
THEOREM BudgetTypes == BudgetSpec => []BudgetTypeOK
<1>1. BudgetInv => BudgetTypeOK
  BY DEF BudgetInv
<1> QED
  BY <1>1, BudgetHolds, PTL

\* However many turns share a budget, and wherever their calls cross the dedup window
\* or the end of a period, a ledger carries at least what is still held on it: no
\* refund takes from another call's hold (record, in_memory_enforcer.py).
THEOREM HeldIsSpent == BudgetSpec => []HeldWithinSpend
<1>1. ASSUME NEW ledger \in Ledgers
      PROVE  HeldUnits(ledger) = UnitsOf(held, Invs, ledger)
  BY DEF HeldUnits, UnitsOf
<1>2. BudgetInv => HeldWithinSpend
  BY <1>1 DEF BudgetInv, HeldInv, HeldWithinSpend
<1> QED
  BY <1>2, BudgetHolds, PTL

\* The gate knows the real spend: when each turn of an identity is gated and makes one
\* model call, every call it lets in fits under the cap beside what was really spent
\* in the period and is under way, whatever each call cost against its estimate, but
\* for the excess of responses that did not tell their usage.  The projection is
\* charged in the step that decides on it, so turns at once cannot pass together
\* (consult and record, in_memory_enforcer.py).
THEOREM CapIsKept == BudgetSpec => LetInUnderCap
<1>1. ASSUME BudgetInv, BudgetInv', [BudgetNext]_budgetVars, NEW i \in Invs, SingleCalls(IdentityOf(i))
      PROVE  LetIn(i)
  <2> DEFINE l == <<IdentityOf(i), PeriodKey(now)>>
  <2> SUFFICES ASSUME call[i].phase = "ready", call'[i].phase = "calling"
               PROVE  used[l] + Cardinality(UnderWay(l)') < Cap + untold[l]
    BY DEF LetIn
  <2>1. PICK request \in Requests : Before(i, request)
    BY <1>1, LetInGated
  <2>2. l \in Ledgers /\ l[1] = IdentityOf(i) /\ l = <<l[1], PeriodKey(now)>>
    BY <1>1, LedgerNow DEF SingleCalls, BudgetInv
  <2>3. UnderWay(l)' = CallUnits(call', l)
    <3>1. PeriodKey(now)' = PeriodKey(now)
      BY <2>1 DEF Before, PeriodKey
    <3> QED
      BY <3>1 DEF UnderWay, CallUnits
  <2> HIDE DEF l
  <2>4. Singly(l, spend, used, untold, held, dedup, call)
    BY <1>1, <2>2 DEF BudgetInv, SingleInv
  <2>5. used[l] + Cardinality(CallUnits(call', l)) < Cap + untold[l]
    BY <1>1, <2>1, <2>2, <2>4, BeforeSingle DEF BudgetInv
  <2> QED
    BY <2>3, <2>5
<1>2. BudgetInv /\ BudgetInv' /\ [BudgetNext]_budgetVars
        => [\A i \in Invs : SingleCalls(IdentityOf(i)) => LetIn(i)]_budgetVars
  BY <1>1
<1> QED
  BY <1>2, BudgetHolds, PTL DEF BudgetSpec, LetInUnderCap
=============================================================================
