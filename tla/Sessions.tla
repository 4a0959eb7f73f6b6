------------------------------ MODULE Sessions ------------------------------
(***************************************************************************)
(* Who writes a session, and what a turn reads of it.                      *)
(*                                                                         *)
(* Besides the turns of the chat page, a session's state is written by the *)
(* page's fire-and-forget calls: the bootstrap of the session, pushes from *)
(* iframes of MCP apps, clicks on A2UI surfaces; and turns are started by  *)
(* the audit view and by readers a session is shared with.  The client     *)
(* sends the state of the last snapshot it got back with every request.    *)
(* What a turn does inside is ApPipeline; here it reads, runs and ends.    *)
(*                                                                         *)
(* The row of a session is looked up and then written whole by whoever     *)
(* found none.  Nothing of an instance runs in between, but the service    *)
(* runs on several instances, and one may write while another has looked.  *)
(***************************************************************************)
EXTENDS Integers, FiniteSets

CONSTANTS
  Instances,             \* of the backend
  Users, Sids, Docs,
  Servers, Surfaces,     \* MCP servers and A2UI surfaces that may push
  Activated, Writable,   \* servers of the skill; those in allow_context_writes
  SurfaceWrites,         \* allow_surface_context_writes
  MaxPushes, MaxTurns,   \* bounds of the instance
  None

ASSUME SessionsAssumption ==
  /\ IsFiniteSet(Instances)
  /\ Activated \subseteq Servers /\ Writable \subseteq Servers
  /\ SurfaceWrites \in BOOLEAN
  /\ {MaxPushes, MaxTurns} \subseteq Nat

VARIABLES
  rows,      \* chat_sessions/{id}, None without one
  stored,    \* the ADK session of a user under an id, None without one
  creating,  \* what an instance found no row for and will write, or None
  created,   \* history: how often a row has been written whole
  booting,   \* bootstraps between the row and the ADK session
  pushing,   \* pushes between their checks and their event
  turn,      \* the turn that runs for a user on a session, None without one
  mirror,    \* agent.state of a user's client
  pushes, turns

vars == <<rows, creating, created, stored, booting, pushing, turn, mirror, pushes, turns>>

Places == Users \X Sids
Keys == [by : {"iframe"}, from : Servers] \cup [by : {"surface"}, from : Surfaces]

\* The session state: per key the number of the push it holds, the documents
\* asked for, the turn whose specialist emitted a result.  Zero is none.
State == [pushed : [Keys -> 0..MaxPushes], docs : SUBSET Docs, emitted : 0..MaxTurns]

\* What of it the client's mirror matters for.
Mirror == [pushed : [Keys -> 0..MaxPushes], docs : SUBSET Docs]
MirrorOf(state) == [pushed |-> state.pushed, docs |-> state.docs]

Empty == [pushed |-> [k \in Keys |-> 0], docs |-> {}, emitted |-> 0]

Row == [owner : Users, shared : BOOLEAN, docs : SUBSET Docs]

ASSUME NoneAssumption == None \notin Row

\* A turn: what it reads, its number, the documents its user ticked.
Turn == [view : State, no : 1..MaxTurns, ticked : SUBSET Docs]

\* A row to be written, for a bootstrap or for the turn that waits for it.
Creation == [for : {"boot", "turn"}, place : Places, docs : SUBSET Docs,
             no : 0..MaxTurns, ticked : SUBSET Docs]

\* The types of the state.
TypeOK ==
  /\ rows \in [Sids -> Row \cup {None}]
  /\ creating \in [Instances -> Creation \cup {None}]
  /\ created \in [Sids -> Nat]
  /\ stored \in [Places -> State \cup {None}]
  /\ booting \subseteq Places
  /\ pushing \subseteq [place : Places, key : Keys, no : 1..MaxPushes]
  /\ turn \in [Places -> Turn \cup {None}]
  /\ mirror \in [Places -> Mirror]
  /\ pushes \in 0..MaxPushes /\ turns \in 0..MaxTurns

Init ==
  /\ rows = [s \in Sids |-> None]
  /\ creating = [i \in Instances |-> None]
  /\ created = [s \in Sids |-> 0]
  /\ stored = [p \in Places |-> None]
  /\ booting = {} /\ pushing = {}
  /\ turn = [p \in Places |-> None]
  /\ mirror = [p \in Places |-> MirrorOf(Empty)]
  /\ pushes = 0 /\ turns = 0

Owns(u, s) == rows[s] # None /\ rows[s].owner = u
CanSee(u, s) == rows[s] # None /\ (rows[s].owner = u \/ rows[s].shared)

-----------------------------------------------------------------------------
(* The row *)

\* create_session_index: the row is overwritten, whatever has come to be there.
Written(place, docs, shared) ==
  /\ rows' = [rows EXCEPT ![place[2]] = [owner |-> place[1], shared |-> shared, docs |-> docs]]
  /\ created' = [created EXCEPT ![place[2]] = @ + 1]

\* An instance has looked, found no row, and will write one.
WillWrite(i, creation) ==
  /\ creating' = [creating EXCEPT ![i] = creation]
  /\ UNCHANGED <<rows, created>>

-----------------------------------------------------------------------------
(* Bootstrap *)

\* Mutant: the row is written without a look at the one that is there.
BootRowAlways(s) == TRUE

\* bootstrap_session's look: an existing row is left alone, and so is its ADK
\* session.
BootRow(s) == rows[s] = None

Bootstrap(i, u, s, docs) ==
  /\ creating[i] = None
  /\ BootRow(s)
  /\ WillWrite(i, [for |-> "boot", place |-> <<u, s>>, docs |-> docs,
                   no |-> 0, ticked |-> {}])
  /\ UNCHANGED <<stored, booting, pushing, turn, mirror, pushes, turns>>

\* Its write, up to the first await.  A write that fails ends the request.
BootCreate(i) ==
  /\ creating[i] # None /\ creating[i].for = "boot"
  /\ creating' = [creating EXCEPT ![i] = None]
  /\ \/ /\ Written(creating[i].place, creating[i].docs, FALSE)
        /\ booting' = booting \cup {creating[i].place}
     \/ UNCHANGED <<rows, created, booting>>
  /\ UNCHANGED <<stored, pushing, turn, mirror, pushes, turns>>

\* The ADK session; one that is there already, or a service that fails, leaves
\* things as they are and is logged.
BootSession(u, s) ==
  /\ <<u, s>> \in booting
  /\ booting' = booting \ {<<u, s>>}
  /\ \E ok \in BOOLEAN :
       stored' = IF ok /\ stored[<<u, s>>] = None THEN [stored EXCEPT ![<<u, s>>] = Empty] ELSE stored
  /\ UNCHANGED <<rows, creating, created, pushing, turn, mirror, pushes, turns>>

-----------------------------------------------------------------------------
(* Pushes *)

\* _enforce_skill_allowlists, gates 5 and 6; _enforce_skill_opt_in.
IframeMayWrite(server) == server \in Activated /\ server \in Writable
SurfaceMayWrite == SurfaceWrites

MayWrite(k) ==
  IF k.by = "iframe" THEN IframeMayWrite(k.from) ELSE SurfaceMayWrite

\* The content of a push, as the size cap and the empty check see it.
Contents == {"some", "none", "over"}

\* post_iframe_context and post_surface_action up to the event: the caller's own
\* ADK session must be there.  An iframe's empty push ends here; a click without
\* context is still a click.
Push(u, s, k, content) ==
  /\ pushes < MaxPushes /\ pushes' = pushes + 1
  /\ CanSee(u, s) /\ MayWrite(k)
  /\ content # "over" /\ (k.by = "iframe" => content # "none")
  /\ stored[<<u, s>>] # None
  /\ pushing' = pushing \cup {[place |-> <<u, s>>, key |-> k, no |-> pushes']}
  /\ UNCHANGED <<rows, creating, created, stored, booting, turn, mirror, turns>>

\* append_event with the key's new value: the last to arrive stands.
PushEvent(x) ==
  /\ x \in pushing /\ pushing' = pushing \ {x}
  /\ stored' = [stored EXCEPT ![x.place].pushed[x.key] = x.no]
  /\ UNCHANGED <<rows, creating, created, booting, turn, mirror, pushes, turns>>

-----------------------------------------------------------------------------
(* Turns *)

\* Mutant: the state the client sent back is asked first.
AskedMirrorFirst(forwarded, top, sent) ==
  IF sent # {} THEN sent ELSE IF forwarded # {} THEN forwarded ELSE top

\* _extract_document_ids.
Asked(forwarded, top, sent) ==
  IF forwarded # {} THEN forwarded ELSE IF top # {} THEN top ELSE sent

\* Mutant: what the client sent back becomes the turn's initial state.
OpenedWithMirror(u, s, docs) ==
  [Empty EXCEPT !.pushed = mirror[<<u, s>>].pushed,
                !.docs = IF docs # {} THEN docs ELSE mirror[<<u, s>>].docs]

\* The initial state laid over the stored one: only what the turn brings is in
\* it, and what it does not bring stays.
Opened(u, s, docs) ==
  LET old == IF stored[<<u, s>>] = None THEN Empty ELSE stored[<<u, s>>]
  IN [old EXCEPT !.docs = IF docs # {} THEN docs ELSE @]

\* The session of the caller gets the initial state, and the agent starts over
\* what is then stored.
Start(u, s, no, ticked, docs) ==
  LET now == Opened(u, s, docs) IN
  /\ stored' = [stored EXCEPT ![<<u, s>>] = now]
  /\ turn' = [turn EXCEPT ![<<u, s>>] = [view |-> now, no |-> no, ticked |-> ticked]]

\* _ensure_session_index over a row that is there: the documents are united.
EnsureRow(s, docs) ==
  /\ rows[s] # None
  /\ rows' = [rows EXCEPT ![s].docs = @ \cup docs]

\* A turn waits for its row to be written.
Awaited(p) == \E i \in Instances : creating[i] # None /\ creating[i].for = "turn" /\ creating[i].place = p

\* process_skill_request up to the write of a row that is missing, or, past the
\* row that is there, to the start.  A look or an update that fails is logged and
\* leaves the row as it is.
Run(i, u, s, ticked, docs) ==
  /\ turns < MaxTurns /\ turns' = turns + 1
  /\ turn[<<u, s>>] = None /\ ~Awaited(<<u, s>>)
  /\ creating[i] = None
  /\ \/ /\ rows[s] = None
        /\ WillWrite(i, [for |-> "turn", place |-> <<u, s>>, docs |-> docs,
                         no |-> turns', ticked |-> ticked])
        /\ UNCHANGED <<stored, turn>>
     \/ /\ EnsureRow(s, docs) \/ UNCHANGED rows
        /\ Start(u, s, turns', ticked, docs)
        /\ UNCHANGED <<creating, created>>
  /\ UNCHANGED <<booting, pushing, mirror, pushes>>

\* The write of the missing row, with the access of its first document, and the
\* start.  A write that fails is logged.
TurnCreate(i) ==
  LET c == creating[i] IN
  /\ c # None /\ c.for = "turn"
  /\ creating' = [creating EXCEPT ![i] = None]
  /\ \/ \E shared \in BOOLEAN : (shared => c.docs # {}) /\ Written(c.place, c.docs, shared)
     \/ UNCHANGED <<rows, created>>
  /\ Start(c.place[1], c.place[2], c.no, c.ticked, c.docs)
  /\ UNCHANGED <<booting, pushing, mirror, pushes, turns>>

\* stream_skill for the chat page, which sends its ticked documents and its mirror
\* of the state (and the active surfaces, which no other writer touches).  The page
\* names its thread, never its session, so whose row it is is not asked.
StreamPage(i, u, s, ticked) ==
  Run(i, u, s, ticked, Asked(ticked, {}, mirror[<<u, s>>].docs))

\* stream_skill for a command line, which names a session and keeps no state.
StreamCli(i, u, s, ticked) ==
  /\ rows[s] = None \/ Owns(u, s)
  /\ Run(i, u, s, ticked, Asked({}, ticked, {}))

\* stream_skill for a reader who names somebody's session: message, documents and
\* surfaces are dropped, and the skill is processed all the same, in a session of
\* the reader's own.
StreamReader(i, u, s) ==
  /\ CanSee(u, s) /\ ~Owns(u, s)
  /\ Run(i, u, s, {}, {})

\* What the audit view's form may post: to a skill that declares a schema of its
\* input or to one that does not, an input that keeps to it or does not.
StructuredInputs == [declared : BOOLEAN, sound : BOOLEAN]

\* validate_structured_input: everything else is refused before the run.
Accepted(input) == input.declared /\ input.sound

\* run_structured_invocation in whatever session it is given.
RunStructured(i, u, s, input) == Accepted(input) /\ Run(i, u, s, {}, {})

\* Mutant: a turn stores its whole view.
EmittedAll(u, s, t) == [t.view EXCEPT !.emitted = t.no]

\* What an emit tool of the turn stores: its own key.
Emitted(u, s, t) == [stored[<<u, s>>] EXCEPT !.emitted = t.no]

\* A specialist of the turn may emit, unless a result is there that no loader of
\* the turn's documents has cleared.
Emit(u, s) ==
  LET t == turn[<<u, s>>] IN
  /\ t # None /\ t.view.emitted # t.no
  /\ t.view.emitted = 0 \/ t.view.docs # {}
  /\ stored' = [stored EXCEPT ![<<u, s>>] = Emitted(u, s, t)]
  /\ turn' = [turn EXCEPT ![<<u, s>>].view.emitted = t.no]
  /\ UNCHANGED <<rows, creating, created, booting, pushing, mirror, pushes, turns>>

\* The end: a page's client keeps the final snapshot, unless the stream broke.
EndTurn(u, s) ==
  /\ turn[<<u, s>>] # None
  /\ turn' = [turn EXCEPT ![<<u, s>>] = None]
  /\ mirror' = [mirror EXCEPT ![<<u, s>>] = MirrorOf(stored[<<u, s>>])] \/ UNCHANGED mirror
  /\ UNCHANGED <<rows, creating, created, stored, booting, pushing, pushes, turns>>

\* What the model is told of a state: the pushes of iframes, and the last action
\* on each surface.
IframeBlock(state) ==
  {<<k.from, state.pushed[k]>> : k \in {k \in Keys : k.by = "iframe" /\ state.pushed[k] # 0}}
SurfaceBlock(state) ==
  [f \in Surfaces |-> [lastAction |-> state.pushed[[by |-> "surface", from |-> f]]]]

-----------------------------------------------------------------------------
(* The owner's session routes.  The mark of an archived session is left out: *)
(* only the listings read it, and row and session stay.                      *)

\* patch_session on who sees the session, an update of that field alone: check and
\* write are one step, as a row that is overwritten in between gets the field all
\* the same.
Share(u, s) ==
  /\ Owns(u, s)
  /\ rows' = [rows EXCEPT ![s].shared = ~@]
  /\ UNCHANGED <<creating, created, stored, booting, pushing, turn, mirror, pushes, turns>>

Next ==
  \/ \E i \in Instances, u \in Users, s \in Sids :
       \/ \E docs \in SUBSET Docs : Bootstrap(i, u, s, docs)
       \/ \E ticked \in SUBSET Docs : StreamPage(i, u, s, ticked)
       \/ \E ticked \in SUBSET Docs : StreamCli(i, u, s, ticked)
       \/ StreamReader(i, u, s)
       \/ \E input \in StructuredInputs : RunStructured(i, u, s, input)
  \/ \E i \in Instances : BootCreate(i) \/ TurnCreate(i)
  \/ \E u \in Users, s \in Sids :
       \/ BootSession(u, s)
       \/ \E k \in Keys, content \in Contents : Push(u, s, k, content)
       \/ Emit(u, s) \/ EndTurn(u, s)
       \/ Share(u, s)
  \/ \E x \in pushing : PushEvent(x)

Spec == Init /\ [][Next]_vars

-----------------------------------------------------------------------------
(* What must hold *)

\* The two push routes and the instruction providers: what an iframe or a click
\* had stored when a turn began, the turn reads, and no turn takes back a push
\* that is stored, whatever the client sends back and whenever the turn writes.
PushesReachTurns ==
  [][\A u \in Users, s \in Sids, k \in Keys :
       /\ (turn[<<u, s>>] = None /\ turn'[<<u, s>>] # None /\ stored[<<u, s>>] # None) =>
            LET view == turn'[<<u, s>>].view IN
            /\ IframeBlock(view) = IframeBlock(stored[<<u, s>>])
            /\ \A f \in Surfaces : SurfaceBlock(view)[f].lastAction =
                                    SurfaceBlock(stored[<<u, s>>])[f].lastAction
       /\ (stored[<<u, s>>] # None /\ stored'[<<u, s>>].pushed[k] # stored[<<u, s>>].pushed[k]) =>
            \E x \in pushing : x.place = <<u, s>> /\ x.key = k /\ x.no = stored'[<<u, s>>].pushed[k]]_vars

\* _extract_document_ids: a turn whose user ticked documents is asked for exactly
\* these, although the client's mirror of the state is a turn behind.
TickedDocsWin ==
  \A p \in Places : turn[p] # None /\ turn[p].ticked # {} => turn[p].view.docs = turn[p].ticked

\* bootstrap_session and _ensure_session_index: the row of a session loses its
\* owner or a document only to a whole write of it, by an instance that had looked
\* before there was a row; so it happens at most once to each instance but the
\* first, and never again.
RowLostOnlyInRace ==
  [][\A s \in Sids : rows[s] # None =>
       \/ rows'[s].owner = rows[s].owner /\ rows[s].docs \subseteq rows'[s].docs
       \/ created[s] \in 1..(Cardinality(Instances) - 1) /\ created'[s] = created[s] + 1]_vars
=============================================================================
