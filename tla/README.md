# Verification of the AP agent's backend

This directory holds TLA+ models of the backend of the accounts-payable agent
(`src/backend`), the TLC runs that check them on small instances, and TLAPS
proofs for every value of the constants. `PROJECT.json` lists the components,
runs, mutants, findings, hazards and theorems, and maps every definition to the
source lines it stands for. Paths below are relative to `src/backend`.

Check a run with `tlc -config Sessions.cfg MCSessions.tla` (the run's module is
in `PROJECT.json`), proofs with `tlapm SessionsProofs.tla`.

## The system

A user, a peer agent or somebody in a messaging channel attaches documents and
asks the agent to process an invoice. An orchestrator hands the documents to a
pipeline of specialists; what they find streams back. Around that turn stand
sessions, stored documents, access rules, budgets, groups of anonymous users
and the catalogue that says which agents there are.

| Part | State it keeps | Operations | Module |
|---|---|---|---|
| Request processing, agent factory, callbacks, emit tools, session and artifact services (`skills/skill_processor.py`, `adk/`, `tools/`) | `app:` keys, artifacts, the index row, a turn's snapshot and delta | open a turn, load documents, emit, extract, count, abort, restart | `ApPipeline` |
| Event stream and SSE endpoint (`protocols/stream_poll.py`, `adk/agui.py`, `fast_api_app.py`) | one-slot queue, reader's flags, progress events | produce, wake, deliver, heartbeat, report, close | `AguiStream`, `RunProtocol` |
| Chat session and its writers (`protocols/iframe_context_routes.py`, `a2ui_surface_action_routes.py`, `session_bootstrap_routes.py`, `sessions_route.py`, `skills/structured_invocation.py`) | the row, the ADK session, the client's mirror | bootstrap, push, click, start and end turns, share | `Sessions` |
| Budget gate (`budget/`, `adk/budget_config.py`) | spend, decision cache, holds, notes | consult, record, fail | `Budget` |
| Channel adapters (`channels/`) | identities, settings, allowlists, attachments, command lock | receive, resolve, store files, run, reply in chunks, migrate, register | `Channels` |
| Agent-to-agent invocation (`protocols/a2a_*.py`, `tools/org_documents.py`) | session, document ids, artifacts, mounted tree | authenticate, extract files, load, run, filter the answer | `A2A` |
| Anonymous groups (`auth/group_*.py`) | groups, revocations, day counters, token buckets | create, join, verify, delete, restart | `Groups` |
| Buckets, folders, signed URLs (`buckets/`, `auth/signed_urls.py`) | access blocks, URLs of a session | the routes in two halves, sign | `Buckets` |
| Documents and folders (`tools/documents/`, `db/folders.py`) | files, records, counters, parse cache | upload, import, re-parse, delete | `Documents` |
| Skill catalogue (`skills/`, `admin/platform_seed.py`, `protocols/a2a.py`, `mcp_server.py`) | skills, caches, card | read, write, fork, seed | `Catalog` |

They interact through four stores. A *turn* works on a snapshot of its ADK
session; what it writes reaches the store with the next appended event, and on
the in-memory service every `app:` key is one cell for all sessions. *Documents*
travel as artifacts of a session and as records of Firestore; channels and peers
bring theirs by routes of their own. *Rows* in Firestore are written directly by
requests and callbacks. *Caches* in a process stand before skills, parses and
identities. The budget gate ends a turn with an exception, which the request
turns into the stream's last event; the stream sees the turn as a generator.

What makes these hard, and what must hold:

* turns, pushes, uploads and webhooks of one user cross each other: nobody loses
  a document, a push or a row, nobody works on what another emitted;
* one step of several fails: a document that does not load, a file that is
  saved but not listed, a probe or an index call that raises;
* a restart keeps some stores and not others, and the tokens, locks and rows
  that survive must still mean what they say;
* access is taken away while something derived from it is still held: a signed
  URL, a cached skill, a token;
* limits: the cap of a budget or a group, a burst, a chunk, a cache's age;
* the wire: RUN_STARTED first, one terminal event, never silent for long, and
  every stream and delivery ends.

`PROJECT.json` lists 40 hazards at their lines with the properties that cover
them, or why none does.

## Modules

Common to all: an action is what runs between two points where another actor can
come in - two awaits of a coroutine on the event loop, two calls on a store from
a thread. A handler with several such points is several actions and keeps its
locals in a record (`turn`, `delivery`, `request`, `job`, `op`). What Firestore,
the ADK or a provider does is marked `external` in the map. Names, texts and
payloads are what the properties tell apart: a number for a push, a version for
a file, a small set of shapes for a message. Every `Max...` constant bounds an
instance and nothing else.

### ApPipeline - a turn from request to last callback

State: `app` (stored `app:` keys per store), `sess` (unprefixed keys),
`artifacts`, `index` (rows), `turn` (each request with its snapshot `view`, its
unpublished `delta` and where it is), `restarts`. `Home(s)` is the store of a
session's `app:` keys: `Shared` in memory, the session on Agent Engine.

| Action | Code |
|---|---|
| `Request`, `OpenRun` | `process_skill_request`, `_ensure_session_index`, seeding, the runner's snapshot |
| `TrackSession`, `LoadDocuments` | the tracker with the extraction schema; probe, clear, load, note errors, tell the row |
| `ReadBlocks`, `Emit`, `Publish` | the document tool, the emit tools, the event that carries their delta |
| `Transfer`, `StructuredExtraction`, `CountResponse` | the intake gate, the fallback, the counter and title |
| `Abort`, `Restart` | an exception ends the run; the process starts anew |

The loader awaits between documents, but before it returns it writes only its
own snapshot, artifacts that only come, and an ArrayUnion that commutes with the
other writers: its awaits are merged.

### AguiStream and RunProtocol - the stream, and what the client takes

`AguiStream` has the generator, the producer task, the queue of one slot, the
locals of `stream_agui_events` and the wire. `SourceYield/Return/Raise` are the
agent's, `Put` and `DeliverEvent/End/Fail` the two ends of the queue, `Idle` a
wake, `Mark` a progress event, `Report` and `Close` the end of the response,
`Disconnect` the lost client. `RunProtocol` is the abstract specification: a run
starts, shows, and finishes or fails once, and a response completes only after.
`KeepsProtocol` is the refinement, `INSTANCE RunProtocol WITH` phase, number of
frames and response computed from the wire; it is a PROPERTY of the run and a
theorem. The generator is external: it opens with RUN_STARTED, may follow
RUN_ERROR by RUN_FINISHED (`agui.py:231-235` reports it does), ends only after a
terminal event and raises only before one.

A request that names an existing `sessionId` gets a `session_meta` frame before
its first event (`foundExisting`, `Announced`). The web client's `HttpAgent` names
a `threadId` only, and the endpoint takes care that its chats never see the frame,
which its parser would reject (`fast_api_app.py:739-741`, `808-811`); a command line
that resumes a session expects it. So `Phase` takes a `session_meta` of a fresh chat,
or a missing one of a resumed session, as rejected, and the protocol is refined by
the frames of the run behind it (`Run`). That `wait_for` loses no item at its
timeout is taken from asyncio: a wake finds the slot empty.

### Sessions - who writes a session, and what a turn reads

`rows`, `stored` (a user's ADK session under an id), `creating` (what an instance
found no row for and is about to write), `booting` and `pushing` (requests between
their check and their write), `turn` (one at a time of a user on a session),
`mirror` (the state a client sends back); `created`, a history variable, counts how
often a row was written whole. `Bootstrap`/`BootCreate`/`BootSession` are
`bootstrap_session`: the look, the write, the ADK session. `Push`/`PushEvent` are
the iframe and surface routes with their gates; `StreamPage`, `StreamCli`,
`StreamReader` and `RunStructured` the four ways a turn starts, all by `Run`
(`process_skill_request` up to the row: united with the documents if it is there)
and, where there was no row, `TurnCreate`; both end in `Start`. `Emit` is what a
specialist stores, `EndTurn` the final snapshot, `Share` the owner's patch. What
happens inside a turn is `ApPipeline`.

Look and write of a row have no await between them, so one instance does nothing
else meanwhile, but Cloud Run keeps up to three (`cloudbuild.yaml:207-209`), and
`create_session_index` overwrites whatever has come to be there. `Instances` are
those processes. A command line's access check and the look after it are one step.

### Budget - the gate before a model call

`spend`, `dedup`, `held`, `pending` as in the enforcer and the callbacks; `call`
is where each invocation is, `used` what the provider charged, `now`. `Before`,
`After`, `AfterPartial`, `Fail` and `Tick`; `BeforeUngated`/`AfterUngated` where
no enforcer, no configuration or no identity stands in front. `consult` and
`record` hold one lock, so each is a step. A token costs one unit. The estimate is
a number of characters divided by four and no bound: a call may cost less, or up to
`MaxExcess` more than the worst estimate (unbounded in the proofs, for every
`MaxExcess`), and `record` settles both ways (`in_memory_enforcer.py:116-130`).
`untold`, a history variable, adds up by how much calls went beyond their estimates
whose responses told no usage, since those are never recorded. Multipliers below
one, which the configuration admits, are left out.

### Channels - from a delivery to the reply

`Arrive` verifies and parses by adapter; `Handle` takes a delivery through
identity (`Resolve`), command, attachments (`Upload`), the choice of the skill,
`InvokeSkill` and the chunked reply. `MigrationRead`/`MigrationWrite` are the
script that moves old accounts, `RegisterStart/Put/Lock`, `LockExpires` and
`Redeploy` the slash commands of Discord. A channel user has no e-mail, so
`Readable` skills are those such an account may run.

### A2A - a peer's message, its files and its answer

`Arrive` and `Handle`: authentication, the interceptor that takes files off a
message, saves each and appends their ids to a list it has read before, opening
of the session, loader and injector per agent, documents of the organisation's
bucket, and the filter that withholds what intermediate agents say. `Catalogs`
are whole catalogues at startup, from which the mounted tree is built.

### Groups, Buckets, Documents, Catalog

* `Groups`: `CreateGroup`, `Join` (limiter, record, day counter, token),
  `DeleteGroup`, `Tick`, `Restart`, after which the process knows nothing but the
  secret of its tokens. The history `admitted` - every call the limiter ever let
  pass, its time and the restarts before it - is not touched by a restart.
* `Buckets`: the routes read and check in `Begin...` and write in `Finish`;
  `ReadFolders`, `NoSigner` and `SignFolders` are the agent's callback. `had` and
  `lastRead` are history variables: every access a bucket has had, and when a
  user could last read a folder. The callback that signs runs only where a turn
  is given an access context, and `skills/skill_processor.py:111` gives none today:
  what is checked of URLs is about that callback, not about a chat's turn.
* `Documents`: `Upload`, `Import`, `Reparse` open a job; `Put`, `Fetch`,
  `AnswerUrl`, `Download`, `AnswerFile` are its steps. A file's content is a
  version, given out at every upload; the clock stands still while a request
  runs. A request ends with its record and the folder's count (`Settled`, where a
  failing count is logged), or with an exception that nobody catches (`Breaks`): the
  store refuses the record (`upload.py:291-302` is outside any try; `_store_document`
  names the limit of 1 MiB), `_extract_content` meets blocks it does not expect, the
  body cannot be read. `broken`, a history variable, has the documents that this
  left pending.
* `Catalog`: `Get`/`Fill`, `List`/`FillList` around the caches, `Create`,
  `Fork`, `Update`, `Delete` with their write, `Invalidate` and `Rebuild`,
  `Elsewhere` for another instance, `Card`, and the seed in its calls.

`MC...` modules give the constants and symmetries of an instance.

## Runs

| Run | Instance | What it shows |
|---|---|---|
| `ApSerial` | Agent Engine, one session, two turns one after another, a document that may fail, an index whose calls may fail, a restart that loses the artifacts | what a turn believes loaded has its artifact; a new document meets no older result; emitted results are about what is loaded; errors match loads; a session said to be indexed has its row; the turn count never drops |
| `ApShared` | in-memory store, two sessions, two turns interleaved at every event, every call on the index answers, every document loads | the row of a turn has the documents its request brought, and nobody's write takes them or the title; what a turn emitted stays in its own sight to its end |
| `AguiStream` | a fresh chat and a resumed session, two events, two progress events before and two during the run, a heartbeat every second wake | order, bounded silence, refinement of `RunProtocol`, every stream settles |
| `Sessions` | two users of one session, two instances, two documents, one server that may push and one that may not, a surface, one push, two turns | a turn reads what was pushed, no push is taken back, ticked documents win, a row loses its owner or documents only to an instance that had looked before it was there |
| `Budget` | two gated turns of one identity, a gated turn of two calls that count double, an ungated turn, calls estimated at two that cost one to three, cap 5, two periods | a refund never eats another hold; with turns of one call, each call let in fits under the cap beside what was really spent and is under way |
| `Channels` | two deliveries of Telegram, Discord and e-mail, an old mapping to migrate, a failing store, a redeploy | one account per user, a turn's documents are the user's, replies arrive whole, a lock means a registration, every delivery ends |
| `A2A` | three requests of two contexts over three catalogues | listed files have artifacts, files reach the agents, documents accumulate, the last agent's answer is passed on |
| `Groups` | two groups, two days, four joins, one restart, a refill of two thirds of a token per tick, tokens that live a day (in the code eight hours) | live sessions of a group are at most twice its cap; in any stretch of time an address passes at most a burst, its refill and one more burst for the restart |
| `Buckets` | one bucket and folder, two users, two requests at once, four writes | effective access has an origin, a URL ends MAX_TTL after its user could last read the folder |
| `Documents` | one user and folder, two names the parser reads, two requests at once, any of which may break off | parses are of the own file and recent, a folder counts a document once, a pending document is being worked on or its upload broke off |
| `DocumentsStale` | one request at a time | violated, see below |
| `Catalog` | one user, two threads, another instance, a template that does not parse | how old a served skill and card may be, and that a seed leaves the templates |

The bounds meet the cases: two of whatever can race (turns, requests, threads,
pushes, deliveries) meet at every pair of steps; two documents are an old and a
new, a good and a bad one; one restart falls at every point; clocks pass the
window, the cache's age or the day and come back once; costs and caps meet
exactly and by one. Three requests of a peer are needed for a list that was
read, lost and appended to. A run stops when its bounded turns, calls or writes
are used up, which is why deadlock is not checked; what must go on is a liveness
property. `EmissionSurvivesTurn` is checked where every document loads,
`RowKeepsHistory` and `AskedDocsIndexed` where the index answers, the A2A
properties where a context's messages come one by one: outside these the code
breaks them, as the next section says. `LetInUnderCap` is about identities whose
turns are gated and make one call each; a call that is let in may itself cost more
than its estimate, which only the next decision knows. `LiveSessionsBounded` speaks
of groups the process knows: of one that a restart forgot, sessions may still be
alive. A name the parser does not read (`preview_only`) is in the proofs' scope and,
for the size of the instance, not in the run; `A2A` has no restart, so what becomes
of artifacts kept in memory is checked in `ApPipeline` only. The ensure step of
`ApPipeline` is one step: its turns share a process, and the race of two instances
for a row is in `Sessions`.

### Fairness

`StreamSettles` assumes weak fairness of `Put`, `Deliver`, `Report` and `Close`,
tasks of one asyncio loop that run once they are ready; nothing is assumed of the
agent, the client or the clock, so the property starts from a generator that has
ended or a client that has left. `DeliveriesEnd` assumes weak fairness of a
delivery's next step, a task of the server's loop; providers, the migration and
the lock's expiry are free. `A2A` states the same of its requests. No other
module has a liveness property: their operations end by themselves, and what
starts them is a user.

### Mutants

For every property of a passing run `PROJECT.json` names a plausible bug - a
guard dropped, a key forgotten, the wrong ledger, an off-by-one - as an operator
beside the correct one (`AskedMirrorFirst` beside `Asked`); with it in place TLC
finds the property violated.

## Where code and documentation differ

`DocumentsStale` is a run: uploads dedupe by name and keep the address of the
file (`tools/documents/upload.py:226-228`, "we update the existing Firestore
record in-place"), while the parse cache is keyed by that address for an hour
(`ailang_parse.py`). A file uploaded over another within the hour is recorded as
parsed with the blocks of the old one, and a re-parse repeats them.

The following came up while modelling. Where a property is named, add it to the
cfg named and TLC shows the trace.

*Turns.* With a document that fails to load, each specialist's loader retries it
and clears what the turn has emitted (`ApShared`, a flaky document,
`EmissionSurvivesTurn`). On the in-memory service a session meets the invoice of
another (`OwnResultsOnly`); one specialist's result suppresses the fallback of
the next (`FallbackCoversForgottenEmit`); the orchestrator's last callback runs
with the poster's schema (`SchemaIsOwn`). In a peer's session a new file does not
clear old results (`NewFileStartsFresh` of `A2A`; `adk/callbacks.py:273-294`).

*Stream.* With `probe=1` the latency report follows the terminal event
(`fast_api_app.py:831`; `AguiStream` with Probe TRUE, `KeepsProtocol`).

*Sessions.* Bootstrap is called idempotent, and refuses a session of another
user (`session_bootstrap_routes.py:50-62`); `_ensure_session_index` "closes the
race window" (`skill_processor.py:101-107`). Both look first and write after,
and `create_session_index`, "Idempotent: overwrites if exists"
(`db/chat_sessions.py:46`), takes a row that another instance has written in
between, with its owner and the documents since added to it. With one instance
no row is lost (`Instances = {i1}`: `RowLostOnlyInRace` then allows none); with
two it is, once (`Sessions.cfg` with the last disjunct of the property dropped).
A surface's snapshot is called per-turn but stays in the state. `stream_skill`
says of a reader that the agent is not invoked; it runs, with an empty message
and a session of the reader's own, and the chat page sends only a thread id, so
the rule is not asked. `app:resumed_session` is never reset. Two clicks that
overlap may leave the older one on record. Audit-view runs are called
side-effect-free but emit. `list_sessions_for_document` gives no cursor when a
page was filtered short though more rows exist.

*Budget.* A second call within the window is answered from the cache and not
charged (`EveryCallUnderCap`, as a PROPERTY). `budget:warn_message` is written
and never read. `register_budget_enforcer` is called in tests only: without a
deployment that registers one, nothing is gated.

*Channels.* The chunker's docstring and its treatment of a leading space differ;
`discord.py` says direct messages are always refused; `/clear` is parsed but has
no registered command. `start_gateway` and `register_slash_commands` are called
nowhere in the Python code.

*Peers.* A document read from the organisation's bucket is listed but never
loaded, since the loader looks in Firestore (`org_documents.py:65-69` expects
otherwise); a prefix is applied twice. Concurrent messages of one context lose
ids (`a2a_file_extraction.py:106-108`). A failed injection strips the file
without a note. `A2AObservationMiddleware` is not wired.

*Groups.* Groups, revocations and counters are gone after a restart, tokens are
not. Tokens live up to their lifetime past the end of their group. The limiter's
"11/60s is genuinely 11/60s" (`group_rate_limit.py:7-10`) admits a burst and a
refill in one window, and after a restart another burst. The `group/<gid>`
permission fallback and the check of `skill_ids` are documented and not there.

*Buckets.* A change of a bucket reaches no folder; an override cannot be taken
back, because a null is dropped before it is looked at; a deleted bucket leaves
its folders, which are still signed; `signed_urls_unavailable` is never reset.

*Documents.* A delete during an upload or a re-parse is undone by the merge;
imports make a second record of a path and are never counted, nor are documents
whose first parse failed; deletions do not decrement; `list_folder_documents`
reads a subcollection nothing writes. `preview_only` exists so that nobody waits
"forever on a parse pipeline that will never run" (`upload.py:123-125`), yet an
upload whose last record the store refuses, whose parse raises or whose process
stops leaves its record pending, and nothing resumes it.

*Catalogue.* A template that does not parse gets its skill purged and created
again (`SeedLeavesTemplates` speaks of those that parse); a skill that vanished
counts as updated; concurrent seeds duplicate; slugs are checked and then taken;
writes do not reach other instances; a reader racing a writer caches the old
document for another minute; a failed query caches an empty card;
`CardWithinTtl` (`protocols/a2a.py:43-45`) fails.

## Proofs

The theorems hold for every value of the constants that meets the named
assumptions of their module (`StreamAssumption`, `GroupsAssumption`, ...: bounds
are naturals, flags are Booleans, `Lifetime <= Day`) and for unbounded runs as
well as the instances above. `NoneAssumption` (`AbsentAssumption` in `Budget`)
says that the marker for "nothing there" is no record, no decision and no
account. Each proof has an inductive invariant, one lemma per action that keeps
it, and the theorems that follow by temporal logic. Every invariant and action
property of a passing run is a theorem.

`Budget` and `Catalog` share no state with the modules they are proved beside;
their specifications carry the component's name (`BudgetSpec`, `catalogVars`) so
that one module can extend both.

| Module | Theorems | Inductive invariant and why it is needed |
|---|---|---|
| `ApPipelineProofs` | `TypeCorrect`, `LoadedAreStored`, `NewDocStartsFresh` | `LoadInv`: per turn, that nothing is loaded before its loader ran (`Unready`), where it resumes after a published event (`Resumes`), that what its snapshot lists has an artifact (`Stocked`) and that new documents left nothing emitted (`Fresh`). An artifact may vanish only with a restart, which ends every turn; that couples the two conjuncts |
| | with `~IndexFaults`: `HistoryIsKept`, `AskedAreIndexed` | A step property, and that the row lists what the turn was asked from the request on, and loses nothing |
| | with Agent Engine: `FlaggedHasRow` | `FlagInv`: the flag of a session, and of every turn's copy of it, stands only after its row. In memory the flag is shared by all sessions, and this fails |
| | with no flaky document: `EmissionStays` | `EmissionInv`: whoever is named as the author of a result, in the store or in a turn's copy, is past its first load (`Authored`), and from there on has every document it opened loaded (`AllLoaded`). So no loader of an author finds anything to load, and only a load clears. A document that fails again and again makes the loader clear on every agent |
| | with Agent Engine, turns one by one: `ResultsCoverLoads`, `ErrorsMatch`, `CountStands` | `SoloInv`: while a turn is under way nobody else writes, so its copy and the store differ by its unpublished delta alone; the three relations of the stored keys then hold of the copy at every event |
| `ApPipelineProofs`, for `Budget` | `BudgetTypes`, `HeldIsSpent`, `CapIsKept` | `BudgetInv`: a ledger covers what is held on it (`HeldInv`); of an identity whose turns make one gated call each, an invocation that has not called has left no trace, one that is calling holds at least its estimate, and what was used and what open calls hold are within the spend, but for the untold excess (`SingleInv`). `CapIsKept` is a step property: it follows at the step that charges, because `consult` decides on the spend it leaves behind. Sums over invocations are stated as the number of units held, each unit tagged with its invocation, so that a step adds or removes a finite set |
| `AguiStreamProofs` | `TypeCorrect`, `SilenceIsBounded`, `ImplementsProtocol`, `EventsKeepOrder` | `Counting`: the wakes since the last frame stay below a heartbeat's interval. `ProtocolInv`: what the reader remembers is what the wire shows (`WireSoFar`), the first frame opens the run, behind `session_meta` where one is due (`OpenFirst`), the terminal event is last wherever it is in the hand-over - source, held item, queue (`EndInPlace`). `ImplementsProtocol` maps every step to one of `RunProtocol` or to a stutter, unless a latency report was asked for, where the code breaks the protocol. `OrderInv`: every event the agent produced is on the wire, in the queue's slot or in the producer's hand, in this order, and what the reader dropped came after a terminal event |
| `AguiStreamProofs`, for `Catalog` | `CatalogTypes`, `ServedAreRecent`, `CardsAreRecent`, `SeedsLeaveTemplates` | `CatalogInv`: every version that a cache, a list, the card or a thread holds was in the store at the time noted with it or since; the clock stands while a thread is between two calls; ids keep owner and platform slug; what a seed is about to remove is no platform skill of a template that parses |
| `SessionsProofs` | `TypeCorrect`, `TickedWins`, `PushesAreRead`, `RowIsLostOnlyInRace` | `SessionInv`: a turn, push or bootstrap under way rests on a session or row that exists (`Grounded`); a row that is there was written whole by instances that are no longer about to write it, so the times it was written and the instances that still will are together at most all instances (`RowInv`), which bounds how often it can be lost. The three properties are about steps and initial choices and follow from it case by case |
| `BucketsProofs` | `TypeCorrect`, `EffectiveOrigin`, `UrlsFollow` | `BucketsInv`: the access a request has prepared came from a bucket's past (`Prepared`, `BucketsHad`), which bridges the two halves of an update; who can read a folder was noted (`ReadsNoted`), a folder that was looked at was readable then (`LookedAreRead`), so a URL ends in time (`UrlsEnd`) |
| `DocumentsProofs` | `TypeCorrect`, `PendingExplained`, `CountsOnce`, `ReadsAreRecent` | `DocumentsInv`: a job's path is its record's (`PathsAgree`), a record about to be created has no rival (`FreshAlone`), a pending record has its upload or one that broke off (`PendingIsAtWorkOrBroken`), a count is taken when a record turns parsed (`CountsSettled`); for the reads, that the cache, the answers on their way and the stored blocks each were the file's content no longer ago than they claim (`CacheRecent`, `GotRead`, `DocsWere`) |
| `GroupsProofs` | `TypeCorrect`, `LiveAreBounded`, `BurstsAreBounded` | `GroupsInv`: a code that was never minted has left no trace (`UnusedUnknown`); while a group is there, its counter of a day covers the tokens minted that day (`DaysCounted`), also after a restart, because the group is lost with the counter; what a bucket holds and what passed since any call, restarts or not, are within a full bucket, the refill since and a full bucket for each restart since (`SpentSince`). A live token was minted less than a day ago, so on one of two days: twice the cap |
| `ChannelsProofs` | `TypeCorrect`, `OneAccount`, `OwnDocs`, `LockedIsRegistered` | `ChannelsInv`: a row that names an account names it for good, and whoever is about to write one - a handler or the migration, each some steps after its read - would write what is there or what the user's other deliveries got (`RowsStand`); documents come after the account (`DocsAfterAccount`); the commands are known before the lock is written (`LockInv`). The types rest on it and on who is served having an account |
| | `ChunksAreFaithful`, `RepliesAreFaithful` | Of every text and every limit: the loop of `chunk_message`, a function on the positions of the text, has a value, and from each position yields pieces in order that lose only spaces (`Good`); shown by taking the last position where it would not. `SendInv`: what is left to send is the end of the chunks, what was sent some of those before |
| `A2AProofs` | `ListedAreSaved`; with `Serial`, `ListsOnlyGrow`; with `Serial` and without `Shared`, `FilesAreGiven` | `A2AInv`: whatever a request holds to be listed has its artifact (`SavedInv`); where messages of a context come one by one, one request of it works and what it read is still the list (`SerialInv`); new documents are listed as loaded from the injection to the last agent (`LoadedInv`). One lemma (`StepKeeps`) says what a step of a request may touch, one per action that it is such a step |
| | `TypeCorrect`; with `LastStepsAreLast`, `AnswersArrive` | `TypedInv`: a run is at a stage of the order its tree gives (`Staged`). The theorems rest on what the walks over a tree of any shape yield: the agents that are reached are the least set closed under children, found in as many rounds as there are agents (`ReachIs`); below a child there are fewer agents than below its parent, where no skill is on its own path (`FewerUnder`); so the order exists, begins with the root and ends with a child that is the last of its parent (`LeavesExist`, `OrderIs`) |

Hypotheses of a theorem are the instances of its run: `EmissionStays` needs what
`ApShared` is given, the last three of `ApPipeline` what `ApSerial` is.
`LastStepsAreLast` (no last step of an agent is elsewhere in the tree a step
before the last) holds of the catalogues of the run and is needed: a pipeline
that names its last sub-skill also as an earlier step has the name in the set
`_walk_for_intermediates` collects, and the answer is withheld. Where a function
is recursive (chunks, filters, walks over the tree), the argument takes a least
counterexample: the library's set form of well-foundedness needs no operator as
a parameter.

Only model-checked: `StreamSettles` and `DeliveriesEnd`, liveness under fairness.

## Not modelled

* The chat client (`frontend/`): what it accepts of a stream is `RunProtocol`; its
  hook's timers, aborts and loading state are browser code around it.
* `auth/permissions.py`: pure decisions over one document, cached for a minute.
  `Buckets` and `Catalog` model what is stale between such a check and its use.
* `db/firestore_inmemory.py` and `local_fixture.py`: stand-ins for a service that
  the models treat as external. They differ from it: reads can be torn, a merge
  with ArrayUnion or Increment ignores the prior value, and ordering keeps
  documents that lack the field.
* `adk/resilient_llm.py`: constructed nowhere, and two of the modules it imports
  (`adk/model_errors.py`, `adk/schema_conformance.py`) are not in the tree.
* Artefact review, title generator, MCP proxy, page thumbnails, bucket browsing,
  session listing and its cursors, `_agui_render.py`, Discord's streamed sending,
  `_demo_cli.py` and the commands: reads, formatting or single writes.
* ERP posting and vendor master servers: simulations without state between calls.
* `a2ui` surfaces beyond what a turn reads of them; tags and names of buckets and
  folders; folder ids a client made up;
  peers' agents with more than one sub-skill; budget multipliers below one.
* Demo invoices, scripts, infrastructure and the build.
