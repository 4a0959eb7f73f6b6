-------------------------------- MODULE A2A --------------------------------
(***************************************************************************)
(* Agent-to-agent invocation: a peer's message, its files and its answer.  *)
(*                                                                         *)
(* An interceptor takes the files off a message before the agent runs,     *)
(* saves each as an artifact of the session and lists it in the session's  *)
(* state; then the runner opens the session, the agents run one after      *)
(* another, each after its document loader, and a second interceptor       *)
(* withholds the text of intermediate agents from the peer.  The           *)
(* orchestrator may read documents of the organisation's bucket.           *)
(* Documents of this module are the peer's or the bucket's: none of them   *)
(* is in Firestore, where the loader looks.                                *)
(***************************************************************************)
EXTENDS Integers, SequencesExt

CONSTANTS
  Requests,     \* bound on the peers' requests
  Contexts,     \* A2A contexts: each is one session of one derived user
  Messages,     \* what peers may send, see Message
  Agents, Root, \* agents, named for their skills; the skill that is mounted
  Catalogs,     \* what the store of skills may hold at startup, see Catalog
  AuthRequired, \* A2A_INVOCATION_REQUIRE_AUTH
  FileInput,    \* ENABLE_A2A_FILE_INPUT
  Shared,       \* TRUE: in-memory sessions, whose app: keys are one cell
  Serial,       \* TRUE: the next message of a context follows the last answer
  Objects,      \* objects of the bucket, names as sequences of path segments
  Base,         \* the prefix in A2A_AGENT_DOCUMENTS_BUCKET
  ListLimit,    \* A2A_ORG_BUCKET_LIST_LIMIT
  MaxOrg,       \* bound on the bucket documents of one request
  None

\* Parts by what the validation makes of them: a file with bytes whose type the
\* parser takes or not, an address, each way to be refused, an unknown shape.
Parts == {"text", "bytes", "uri", "bad_mime", "too_big", "bad_base64",
          "empty_uri", "bad_scheme", "unknown_shape"}
Message == [context : Contexts, authed : BOOLEAN, parts : Seq(Parts)]

\* Skills by their name: the sub-skills, which may be missing, and whether the
\* agent is a workflow.  Another agent has one sub-skill at most here.
Skill == [subs : Seq(Agents), sequential : BOOLEAN]

\* Children of each agent, and which are SequentialAgents; the order of the
\* children of such an agent is the order it runs them in.
Tree == [root : Agents, children : [Agents -> Seq(Agents)], sequential : SUBSET Agents]

ASSUME A2AAssumption ==
  /\ Messages \subseteq Message
  /\ Root \in Agents /\ IsFiniteSet(Agents)
  /\ \A c \in Catalogs :
       DOMAIN c \subseteq Agents /\ \A a \in DOMAIN c : c[a] \in Skill
  /\ {AuthRequired, FileInput, Shared, Serial} \subseteq BOOLEAN
  /\ ListLimit \in Nat \ {0} /\ MaxOrg \in Nat

VARIABLES
  exists,     \* sessions the service has
  ids,        \* document_ids, per context
  app,        \* app:docs_loaded, app:doc_load_error and app:emitted:invoice
  artifacts,  \* doc:<id>.json, per session
  request,    \* the requests and their snapshot of the state
  tree        \* the agents mounted at startup

vars == <<exists, ids, app, artifacts, request, tree>>

Home(c) == IF Shared THEN "app" ELSE c
Homes == {Home(c) : c \in Contexts}

Docs == Requests \X {"file", "org"} \X Nat
Keys == [loaded : SUBSET Docs, errors : SUBSET Docs, emitted : Requests \cup {None}]
NoKeys == [loaded |-> {}, errors |-> {}, emitted |-> None]
Ended == {"ok", "failed", "denied"}

Request ==
  [pc : {"idle", "extract", "read", "write", "open", "load", "act"} \cup Ended,
   context : Contexts \cup {None}, parts : Seq(Parts), noted : BOOLEAN,
   new : SUBSET Docs,
   snapshot : [ids : SUBSET Docs, loaded : SUBSET Docs] \cup {None},
   ids : SUBSET Docs, keys : Keys, stage : Nat, org : Nat,
   said : Agents \cup {None}, shown : SUBSET Agents]

NoRequest ==
  [pc |-> "idle", context |-> None, parts |-> << >>, noted |-> FALSE, new |-> {},
   snapshot |-> None, ids |-> {}, keys |-> NoKeys, stage |-> 0,
   org |-> 0, said |-> None, shown |-> {}]

\* The types of the state.
TypeOK ==
  /\ exists \subseteq Contexts
  /\ ids \in [Contexts -> SUBSET Docs]
  /\ app \in [Homes -> Keys]
  /\ artifacts \subseteq Contexts \X Docs
  /\ request \in [Requests -> Request]
  /\ tree \in Tree

-----------------------------------------------------------------------------
(* The agents that are mounted *)

\* What n or less steps down the children lead to, n as many as there are agents.
Reach(children, from) ==
  LET within[n \in Nat] ==
        IF n = 0 THEN from
        ELSE within[n - 1] \cup UNION {ToSet(children[a]) : a \in within[n - 1]}
  IN within[Cardinality(Agents)]

\* The elements of a sequence that a set has, in their order.
Only(s, S) ==
  LET kept[n \in 0..Len(s)] ==
        IF n = 0 THEN << >>
        ELSE IF s[n] \in S THEN Append(kept[n - 1], s[n]) ELSE kept[n - 1]
  IN kept[Len(s)]

\* Sub-skills in their order; one that is not in the catalogue is skipped.
SubAgents(catalog) ==
  [a \in Agents |-> IF a \in DOMAIN catalog
                    THEN Only(catalog[a].subs, DOMAIN catalog)
                    ELSE << >>]

\* create_agent raises when a skill is on its own stack.
Cyclic(children) ==
  \E a \in Reach(children, {Root}) : a \in Reach(children, ToSet(children[a]))

\* The tree of the root skill.
Built(catalog) ==
  [root |-> Root, children |-> SubAgents(catalog),
   sequential |-> {a \in DOMAIN catalog : catalog[a].sequential}]

\* Without the root skill, or when the build raises, nothing is mounted.
Mounted ==
  {Built(c) : c \in {c \in Catalogs : Root \in DOMAIN c /\ ~Cyclic(SubAgents(c))}}

Init ==
  /\ exists = {} /\ ids = [c \in Contexts |-> {}]
  /\ app = [h \in Homes |-> NoKeys]
  /\ artifacts = {}
  /\ request = [r \in Requests |-> NoRequest]
  /\ tree \in Mounted

-----------------------------------------------------------------------------
(* The interceptors' decisions *)

\* _validate_file_with_bytes, then the decoding.
BytesRefused(part) == part \in {"bad_mime", "too_big", "bad_base64"}
\* _validate_file_with_uri.
UriRefused(part) == part \in {"empty_uri", "bad_scheme"}

\* Agents that a walk from the root meets.
Reachable(t) == Reach(t.children, {t.root})

\* Mutant: the last sub-agent counts too.
EveryStep(t) ==
  UNION {ToSet(t.children[a]) :
           a \in {a \in Reachable(t) \cap t.sequential : Len(t.children[a]) >= 2}}

\* _walk_for_intermediates: all but the last sub-agent of a SequentialAgent.
Intermediates(t) ==
  UNION {ToSet(Front(t.children[a])) :
           a \in {a \in Reachable(t) \cap t.sequential : Len(t.children[a]) >= 2}}

\* The agents that speak, in the order they run: the root, then the leaves of
\* the pipeline it transfers to.  (Below the root no agent is on its own path.)
Order(t) ==
  LET leaves[a \in Reachable(t)] ==
        IF t.children[a] = << >> THEN <<a>>
        ELSE FlattenSeq([i \in DOMAIN t.children[a] |-> leaves[t.children[a][i]]])
  IN <<t.root>> \o (IF t.children[t.root] = << >> THEN << >> ELSE leaves[t.root])

\* _after_event: text of an intermediate agent is dropped.
Shown(t, author) == author \notin Intermediates(t)

\* list_documents_in_bucket: names as the storage lists them, at most the limit.
Listings(prefix) ==
  LET matching == {o \in Objects : IsPrefix(Base \o prefix, o)}
  IN {s \in SUBSET matching : Cardinality(s) = Min({ListLimit, Cardinality(matching)})}

\* read_document_from_bucket: the prefix is put before the name it is given.
ObjectOf(name) == Base \o name

-----------------------------------------------------------------------------
(* One request *)

Put(r, q) == request' = [request EXCEPT ![r] = q]

\* What a request leaves when it is over.
Over(q, how) == [NoRequest EXCEPT !.pc = how, !.context = q.context,
                                  !.said = q.said, !.shown = q.shown]
Fail(r) == Put(r, Over(request[r], "failed"))

Busy(c) ==
  \E r \in Requests : request[r].context = c /\ request[r].pc \notin Ended

\* A2AAuthMiddleware, then the executor, whose first interceptor is a
\* pass-through without the flag or without parts.
Arrive(r, m) ==
  /\ request[r].pc = "idle"
  /\ Serial => ~Busy(m.context)
  /\ Put(r, [NoRequest EXCEPT
               !.pc = IF AuthRequired /\ ~m.authed THEN "denied"
                      ELSE IF FileInput /\ m.parts # << >> THEN "extract" ELSE "open",
               !.context = m.context,
               !.parts = IF FileInput /\ (AuthRequired => m.authed) THEN m.parts ELSE << >>])
  /\ UNCHANGED <<exists, ids, app, artifacts, tree>>

\* Mutant: the save is not awaited, the document is listed anyway.
SaveFileInBackground(r, kind) ==
  LET q == request[r]
      doc == <<r, kind, Cardinality(q.new)>> IN
  /\ artifacts' \in {artifacts, artifacts \cup {<<q.context, doc>>}}
  /\ Put(r, [q EXCEPT !.parts = Tail(@), !.new = @ \cup {doc}])

\* _save_inline_bytes_as_artifact, _save_uri_pointer_as_artifact: the id is kept
\* after the save; an exception of the save is not caught.
SaveFile(r, kind) ==
  LET q == request[r]
      doc == <<r, kind, Cardinality(q.new)>> IN
  \/ /\ artifacts' = artifacts \cup {<<q.context, doc>>}
     /\ Put(r, [q EXCEPT !.parts = Tail(@), !.new = @ \cup {doc}])
  \/ /\ Fail(r)
     /\ UNCHANGED artifacts

\* _before_agent, one part: text and unknown shapes stay, a refused file is
\* noted, another becomes an artifact.
ExtractPart(r) ==
  LET q == request[r] IN
  /\ q.pc = "extract" /\ q.parts # << >>
  /\ \/ /\ Head(q.parts) \in {"text", "unknown_shape"}
        /\ Put(r, [q EXCEPT !.parts = Tail(@)]) /\ UNCHANGED artifacts
     \/ /\ BytesRefused(Head(q.parts)) \/ UriRefused(Head(q.parts))
        /\ Put(r, [q EXCEPT !.parts = Tail(@), !.noted = TRUE]) /\ UNCHANGED artifacts
     \/ Head(q.parts) \in {"bytes", "uri"} /\ SaveFile(r, "file")
  /\ UNCHANGED <<exists, ids, app, tree>>

\* The run follows the injection, whatever became of it.
Injected(q) == [q EXCEPT !.pc = "open", !.snapshot = None]

\* After the last part; without new documents there is nothing to inject.
Extracted(r) ==
  LET q == request[r] IN
  /\ q.pc = "extract" /\ q.parts = << >>
  /\ Put(r, IF q.new = {} THEN Injected(q) ELSE [q EXCEPT !.pc = "read"])
  /\ UNCHANGED <<exists, ids, app, artifacts, tree>>

\* _inject_document_ids: the session as it is now, or none, also when the call
\* fails.
ReadSession(r) ==
  LET q == request[r]
      now == [ids |-> ids[q.context], loaded |-> app[Home(q.context)].loaded] IN
  /\ q.pc = "read"
  /\ \/ q.context \in exists /\ Put(r, [q EXCEPT !.pc = "write", !.snapshot = now])
     \/ Put(r, [q EXCEPT !.pc = "write", !.snapshot = None])
  /\ UNCHANGED <<exists, ids, app, artifacts, tree>>

\* create_session with the new documents alone: it fails if the session is
\* there, and its app: key replaces what the store has.
CreateSession(r) ==
  LET q == request[r] IN
  /\ q.snapshot = None /\ q.context \notin exists
  /\ exists' = exists \cup {q.context}
  /\ ids' = [ids EXCEPT ![q.context] = q.new]
  /\ app' = [app EXCEPT ![Home(q.context)].loaded = q.new]

\* Mutant: the event names the new documents alone.
AppendNewIds(r) ==
  LET q == request[r] IN
  /\ q.snapshot # None
  /\ ids' = [ids EXCEPT ![q.context] = q.new]
  /\ app' = [app EXCEPT ![Home(q.context)].loaded = q.snapshot.loaded \cup q.new]
  /\ UNCHANGED exists

\* Mutant: the new documents are left to the loader.
AppendIdsOnly(r) ==
  LET q == request[r] IN
  /\ q.snapshot # None
  /\ ids' = [ids EXCEPT ![q.context] = q.snapshot.ids \cup q.new]
  /\ UNCHANGED <<exists, app>>

\* append_event with the lists of the snapshot and the new documents.
AppendIds(r) ==
  LET q == request[r] IN
  /\ q.snapshot # None
  /\ ids' = [ids EXCEPT ![q.context] = q.snapshot.ids \cup q.new]
  /\ app' = [app EXCEPT ![Home(q.context)].loaded = q.snapshot.loaded \cup q.new]
  /\ UNCHANGED exists

\* A failed write is logged, and the run goes on without the documents.
InjectIds(r) ==
  LET q == request[r] IN
  /\ q.pc = "write"
  /\ \/ CreateSession(r) /\ Put(r, Injected(q))
     \/ AppendIds(r) /\ Put(r, Injected(q))
     \/ Put(r, [Injected(q) EXCEPT !.new = {}]) /\ UNCHANGED <<exists, ids, app>>
  /\ UNCHANGED <<artifacts, tree>>

\* The executor creates a missing session; the runner's snapshot.
OpenRun(r) ==
  LET q == request[r] IN
  /\ q.pc = "open"
  /\ exists' = exists \cup {q.context}
  /\ Put(r, [q EXCEPT !.pc = "load", !.stage = 1,
                      !.ids = ids[q.context], !.keys = app[Home(q.context)]])
  /\ UNCHANGED <<ids, app, artifacts, tree>>

\* make_document_loader over documents Firestore does not have: what is listed
\* as loaded and has an artifact stays; any other listed document clears the
\* emitted results and fails.
Loaded(q) ==
  LET loaded == {d \in q.keys.loaded : <<q.context, d>> \in artifacts}
      toLoad == q.ids \ loaded IN
  IF toLoad = {} THEN [q.keys EXCEPT !.loaded = loaded]
  ELSE [loaded |-> loaded, errors |-> q.keys.errors \cup toLoad, emitted |-> None]

\* The callback's event carries what the loader wrote.
LoadDocuments(r) ==
  LET q == request[r]
      keys == Loaded(q)
      stored == app[Home(q.context)] IN
  /\ q.pc = "load"
  /\ Put(r, [q EXCEPT !.pc = "act", !.keys = keys])
  /\ app' = [app EXCEPT ![Home(q.context)] =
       [loaded |-> keys.loaded,
        errors |-> IF keys.errors # q.keys.errors THEN keys.errors ELSE stored.errors,
        emitted |-> IF keys.emitted # q.keys.emitted THEN None ELSE stored.emitted]]
  /\ UNCHANGED <<exists, ids, artifacts, tree>>

\* make_document_injector: the model is given the documents that are listed as
\* loaded and have an artifact, before the user's words.
Given(q) == {d \in q.keys.loaded : <<q.context, d>> \in artifacts}

\* Mutant: the id is listed without a look at what the read returned.
ReadOrgDocumentUnchecked(r) ==
  LET q == request[r] IN
  /\ q.pc = "act" /\ q.stage = 1 /\ q.org < MaxOrg
  /\ Put(r, [q EXCEPT !.org = @ + 1, !.ids = @ \cup {None}])
  /\ ids' = [ids EXCEPT ![q.context] = q.ids \cup {None}]
  /\ UNCHANGED <<exists, app, artifacts, tree>>

\* read_org_document for a name a listing returned: it adds to document_ids only.
\* Nothing happens without bucket, runner, object, or when the save fails.
ReadOrgDocument(r) ==
  LET q == request[r]
      doc == <<r, "org", q.org>> IN
  /\ q.pc = "act" /\ q.stage = 1 /\ q.org < MaxOrg
  /\ \E names \in Listings(<< >>) : \E name \in names : ObjectOf(name) \in Objects
  /\ artifacts' = artifacts \cup {<<q.context, doc>>}
  /\ Put(r, [q EXCEPT !.org = @ + 1, !.ids = @ \cup {doc}])
  /\ ids' = [ids EXCEPT ![q.context] = q.ids \cup {doc}]
  /\ UNCHANGED <<exists, app, tree>>

\* Where the run goes after the stage: on, unless the intake gate stops the
\* pipeline because no document is loaded.
After(q) ==
  IF q.stage = Len(Order(tree)) \/ (q.stage = 1 /\ q.keys.loaded = {})
  THEN Over(q, "ok")
  ELSE [q EXCEPT !.pc = "load", !.stage = @ + 1]

\* An agent's turn: its text goes through the filter, the extractor's emit tool
\* stops at a result that is there; any exception fails the request.
Act(r) ==
  LET q == request[r]
      author == Order(tree)[q.stage]
      spoken == [q EXCEPT !.said = author,
                   !.shown = IF Shown(tree, author) THEN @ \cup {author} ELSE @]
      emits == q.stage = 2 /\ q.keys.emitted = None IN
  /\ q.pc = "act"
  /\ \/ /\ Put(r, After(IF emits THEN [spoken EXCEPT !.keys.emitted = r] ELSE spoken))
        /\ app' = IF emits THEN [app EXCEPT ![Home(q.context)].emitted = r] ELSE app
     \/ Fail(r) /\ UNCHANGED app
  /\ UNCHANGED <<exists, ids, artifacts, tree>>

-----------------------------------------------------------------------------
Handle(r) ==
  \/ ExtractPart(r) \/ Extracted(r) \/ ReadSession(r) \/ InjectIds(r)
  \/ OpenRun(r) \/ LoadDocuments(r) \/ ReadOrgDocument(r) \/ Act(r)

Next == \E r \in Requests : Handle(r) \/ \E m \in Messages : Arrive(r, m)

\* Requests are tasks of one event loop.
Spec == Init /\ [][Next]_vars /\ \A r \in Requests : WF_vars(Handle(r))

-----------------------------------------------------------------------------
(* What the peer is promised *)

\* _save_*_as_artifact is "observable before the agent runs": a document the
\* session lists, the peer's or the bucket's, has its artifact, whatever call
\* failed in between and whoever writes the list.
ListedHaveArtifacts ==
  \A c \in Contexts : \A d \in ids[c] : <<c, d>> \in artifacts

\* _inject_document_ids appends "rather than clobber": no later message, and no
\* failed read of the session, takes a document from a session's list.
DocumentsAccumulate == [][\A c \in Contexts : ids[c] \subseteq ids'[c]]_ids

\* The event filter withholds narration only: whatever the shape of the agent
\* tree and wherever the gate ended the turn, the last word of a turn that
\* succeeded reached the peer.  (The filter knows agents by their names: of
\* catalogues where no last step is elsewhere named as a step before the last.)
AnswerReachesPeer ==
  \A r \in Requests : request[r].pc = "ok" => request[r].said \in request[r].shown

\* Files that were taken off a message and injected are given to every agent of
\* its turn, whatever earlier turns, failures and the loader did to the lists
\* (_inject_document_ids lists them as loaded because the loader would not find
\* them; with one message of a context at a time and sessions on Agent Engine).
FilesReachAgents ==
  \A r \in Requests :
    request[r].pc = "act" => request[r].new \subseteq Given(request[r])

\* A peer's new file makes a fresh turn: no result an earlier turn emitted is
\* there once the loader of its turn has run.  (The code does not do this.)
NewFileStartsFresh ==
  \A r \in Requests :
    request[r].pc = "act" /\ request[r].new # {} =>
      request[r].keys.emitted \in {None, r}
=============================================================================
