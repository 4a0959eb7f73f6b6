------------------------------ MODULE A2AProofs ------------------------------
(* Proofs about A2A: types, listed documents that have artifacts, lists that   *)
(* only grow, files that reach every agent and answers that reach the peer,    *)
(* for any number of requests, contexts and messages, whatever calls fail, and *)
(* any catalogue of skills.                                                    *)
EXTENDS A2A, WellFoundedInduction, FiniteSetTheorems, TLAPS

-----------------------------------------------------------------------------
(* The inductive invariant *)

Fields == {"pc", "context", "parts", "noted", "new", "snapshot", "ids", "keys", "stage",
           "org", "said", "shown"}
KeyFields == {"loaded", "errors", "emitted"}

\* Requests and the keys of sessions are records.
Formed(q) ==
  /\ DOMAIN q = Fields /\ DOMAIN q.keys = KeyFields
  /\ q.pc # "idle" => q.context \in Contexts

Shape ==
  /\ request = [r \in Requests |-> request[r]] /\ \A r \in Requests : Formed(request[r])
  /\ ids = [c \in Contexts |-> ids[c]]
  /\ app = [h \in Homes |-> app[h]] /\ \A h \in Homes : DOMAIN app[h] = KeyFields

\* What a request holds to be listed has its artifact.
Saved(c, docs, saved) == \A d \in docs : <<c, d>> \in saved

Holds(q, saved) ==
  /\ Saved(q.context, q.new, saved) /\ Saved(q.context, q.ids, saved)
  /\ q.snapshot # None => Saved(q.context, q.snapshot.ids, saved)

SavedInv == ListedHaveArtifacts /\ \A r \in Requests : Holds(request[r], artifacts)

\* A request between its arrival and its end.
Works(q) == q.pc \notin Ended \cup {"idle"}

\* What a request that is about to write the list has read of it is the list.
Current(q, listed, there) ==
  /\ q.pc = "write" /\ q.snapshot # None =>
       q.context \in there /\ listed[q.context] \subseteq q.snapshot.ids
  /\ q.pc \in {"load", "act"} => q.context \in there /\ listed[q.context] \subseteq q.ids

\* New documents are listed as loaded, first in the session, then in the run.
Listed(q, keys) ==
  /\ q.pc = "open" => q.new \subseteq keys[Home(q.context)].loaded
  /\ q.pc \in {"load", "act"} => q.new \subseteq q.keys.loaded

\* Where a context's messages come one by one, one request of it works, a session
\* that is not there lists nothing, and what was read is current.
SerialInv ==
  Serial =>
    /\ \A r, s \in Requests :
         r # s /\ Works(request[r]) /\ Works(request[s]) => request[r].context # request[s].context
    /\ \A c \in Contexts : c \notin exists => ids[c] = {}
    /\ \A r \in Requests : Current(request[r], ids, exists)

LoadedInv == Serial /\ ~Shared => \A r \in Requests : Listed(request[r], app)

A2AInv == Shape /\ SavedInv /\ SerialInv /\ LoadedInv

LEMMA HomeOf == \A c \in Contexts : Home(c) \in Homes
  BY DEF Homes

LEMMA OwnHome == ~Shared => \A c, d \in Contexts : c # d => Home(c) # Home(d)
  BY DEF Home

LEMMA NoRequestFields ==
  /\ DOMAIN NoRequest = Fields /\ DOMAIN NoRequest.keys = KeyFields /\ NoRequest.pc = "idle"
  /\ NoRequest.new = {} /\ NoRequest.ids = {} /\ NoRequest.snapshot = None
  BY DEF NoRequest, NoKeys, Fields, KeyFields

\* What a request leaves when it is over.
LEMMA OverFields ==
  ASSUME NEW q, NEW how
  PROVE  /\ DOMAIN Over(q, how) = Fields /\ DOMAIN Over(q, how).keys = KeyFields
         /\ Over(q, how).pc = how /\ Over(q, how).context = q.context
         /\ Over(q, how).new = {} /\ Over(q, how).ids = {} /\ Over(q, how).snapshot = None
  BY DEF Over, NoRequest, NoKeys, Fields, KeyFields

LEMMA InitInv == Init => A2AInv
<1> SUFFICES ASSUME Init PROVE A2AInv
  OBVIOUS
<1>1. \A r \in Requests : request[r] = NoRequest
  BY DEF Init
<1>2. \A h \in Homes : DOMAIN app[h] = KeyFields
  BY DEF Init, NoKeys, KeyFields
<1>3. Shape
  BY <1>1, <1>2, NoRequestFields DEF Shape, Formed, Init
<1>4. SavedInv
  BY <1>1, NoRequestFields DEF SavedInv, ListedHaveArtifacts, Holds, Saved, Init
<1>5. SerialInv /\ LoadedInv
  BY <1>1, NoRequestFields DEF SerialInv, LoadedInv, Works, Current, Listed, Init
<1> QED
  BY <1>3, <1>4, <1>5 DEF A2AInv

-----------------------------------------------------------------------------
(* A step of a request that works *)

\* Request r goes on as q.  It touches the list and the keys of its own session,
\* takes no artifact or session away, and keeps what the invariant says of it.
Step(r, q) ==
  LET c == q.context IN
  /\ request' = [request EXCEPT ![r] = q]
  /\ Works(request[r]) /\ Formed(q) /\ q.pc # "idle" /\ c = request[r].context
  /\ artifacts \subseteq artifacts' /\ exists \subseteq exists' /\ exists' \subseteq exists \cup {c}
  /\ ids' = [d \in Contexts |-> ids'[d]] /\ \A d \in Contexts : d # c => ids'[d] = ids[d]
  /\ app' = [h \in Homes |-> app'[h]] /\ \A h \in Homes : h # Home(c) => app'[h] = app[h]
  /\ \A h \in Homes : DOMAIN app'[h] = KeyFields
  /\ Holds(q, artifacts') /\ Saved(c, ids'[c], artifacts')
  /\ Serial =>
       /\ ids[c] \subseteq ids'[c] /\ (c \notin exists' => ids'[c] = {})
       /\ Current(q, ids', exists')
  /\ Serial /\ ~Shared => Listed(q, app')

LEMMA StepKeeps ==
  ASSUME A2AInv, NEW r \in Requests, NEW q, Step(r, q)
  PROVE  A2AInv' /\ (Serial => \A c \in Contexts : ids[c] \subseteq ids'[c])
<1> DEFINE c == q.context
<1>1. /\ request'[r] = q /\ \A s \in Requests : s # r => request'[s] = request[s]
      /\ request' = [s \in Requests |-> request'[s]]
  BY DEF Step, A2AInv, Shape
<1>2. c \in Contexts /\ c = request[r].context
  BY DEF Step, Formed
<1>3. Shape'
  BY <1>1 DEF Step, A2AInv, Shape, Formed
<1>4. SavedInv'
  <2>1. ASSUME NEW s \in Requests
        PROVE  Holds(request'[s], artifacts')
    <3>1. CASE s = r
      BY <1>1, <3>1 DEF Step
    <3>2. CASE s # r
      BY <1>1, <3>2 DEF Step, A2AInv, SavedInv, Holds, Saved
    <3> QED
      BY <3>1, <3>2
  <2>2. ASSUME NEW d \in Contexts
        PROVE  Saved(d, ids'[d], artifacts')
    <3>1. CASE d = c
      BY <3>1 DEF Step
    <3>2. CASE d # c
      BY <3>2 DEF Step, A2AInv, SavedInv, ListedHaveArtifacts, Saved
    <3> QED
      BY <3>1, <3>2
  <2>3. ListedHaveArtifacts'
    BY <2>2 DEF ListedHaveArtifacts, Saved
  <2> QED
    BY <2>1, <2>3 DEF SavedInv
<1>5. ASSUME Serial, NEW s \in Requests, s # r, Works(request[s])
      PROVE  request[s].context # c /\ request[s].context \in Contexts
  BY <1>2, <1>5 DEF Step, A2AInv, SerialInv, Shape, Formed, Works
<1>6. SerialInv'
  <2> SUFFICES ASSUME Serial
               PROVE  /\ \A s, t \in Requests :
                           s # t /\ Works(request'[s]) /\ Works(request'[t]) =>
                             request'[s].context # request'[t].context
                      /\ \A d \in Contexts : d \notin exists' => ids'[d] = {}
                      /\ \A s \in Requests : Current(request'[s], ids', exists')
    BY DEF SerialInv, Works, Current
  <2>1. \A s, t \in Requests :
          s # t /\ Works(request'[s]) /\ Works(request'[t]) =>
            request'[s].context # request'[t].context
    BY <1>1, <1>2, <1>5 DEF A2AInv, SerialInv
  <2>2. \A d \in Contexts : d \notin exists' => ids'[d] = {}
    BY <1>2 DEF Step, A2AInv, SerialInv
  <2>3. ASSUME NEW s \in Requests
        PROVE  Current(request'[s], ids', exists')
    <3>1. CASE s = r
      BY <1>1, <3>1 DEF Step
    <3>2. CASE s # r /\ Works(request[s])
      <4>1. Current(request[s], ids, exists)
        BY DEF A2AInv, SerialInv
      <4>2. ids'[request[s].context] = ids[request[s].context] /\ exists \subseteq exists'
        BY <1>5, <3>2 DEF Step
      <4> QED
        BY <1>1, <3>2, <4>1, <4>2 DEF Current
    <3>3. CASE s # r /\ ~Works(request[s])
      BY <1>1, <3>3 DEF Works, Current, Ended
    <3> QED
      BY <3>1, <3>2, <3>3
  <2> QED
    BY <2>1, <2>2, <2>3
<1>7. LoadedInv'
  <2> SUFFICES ASSUME Serial, ~Shared, NEW s \in Requests
               PROVE  Listed(request'[s], app')
    BY DEF LoadedInv, Listed
  <2>1. CASE s = r
    BY <1>1, <2>1 DEF Step
  <2>2. CASE s # r /\ Works(request[s])
    <3>1. app'[Home(request[s].context)] = app[Home(request[s].context)]
      BY <1>2, <1>5, <2>2, HomeOf, OwnHome DEF Step
    <3> QED
      BY <1>1, <2>2, <3>1 DEF A2AInv, LoadedInv, Listed
  <2>3. CASE s # r /\ ~Works(request[s])
    BY <1>1, <2>3 DEF Works, Listed, Ended
  <2> QED
    BY <2>1, <2>2, <2>3
<1>8. Serial => \A d \in Contexts : ids[d] \subseteq ids'[d]
  BY DEF Step
<1> QED
  BY <1>3, <1>4, <1>6, <1>7, <1>8 DEF A2AInv

\* A step that leaves lists, keys and sessions alone.
LEMMA QuietStep ==
  ASSUME A2AInv, NEW r \in Requests, NEW q, request' = [request EXCEPT ![r] = q],
         Works(request[r]), Formed(q), q.pc # "idle", q.context = request[r].context,
         artifacts \subseteq artifacts', UNCHANGED <<exists, ids, app>>,
         Holds(q, artifacts'),
         Serial => Current(q, ids, exists), Serial /\ ~Shared => Listed(q, app)
  PROVE  Step(r, q)
<1>1. q.context \in Contexts
  BY DEF Formed
<1>2. Saved(q.context, ids[q.context], artifacts')
  BY <1>1 DEF A2AInv, SavedInv, ListedHaveArtifacts, Saved
<1>3. Serial => (q.context \notin exists => ids[q.context] = {})
  BY <1>1 DEF A2AInv, SerialInv
<1> QED
  BY <1>2, <1>3 DEF Step, A2AInv, Shape

\* A request that is over holds nothing.
LEMMA EndStep ==
  ASSUME A2AInv, NEW r \in Requests, NEW q, NEW how \in Ended, Works(request[r]),
         request' = [request EXCEPT ![r] = Over(q, how)], q.context = request[r].context,
         artifacts \subseteq artifacts', UNCHANGED <<exists, ids, app>>
  PROVE  \E p : Step(r, p)
<1>1. PICK p : p = Over(q, how)
  OBVIOUS
<1>2. /\ DOMAIN p = Fields /\ DOMAIN p.keys = KeyFields /\ p.pc \in Ended
      /\ p.context = request[r].context /\ p.new = {} /\ p.ids = {} /\ p.snapshot = None
  BY <1>1, OverFields
<1>3. p.context \in Contexts
  BY <1>2 DEF A2AInv, Shape, Formed, Works
<1>4. Formed(p) /\ Holds(p, artifacts') /\ Current(p, ids, exists) /\ Listed(p, app) /\ p.pc # "idle"
  BY <1>2, <1>3 DEF Formed, Holds, Saved, Current, Listed, Ended
<1> QED
  BY <1>1, <1>2, <1>4, QuietStep

\* What the invariant says of a request that works.
LEMMA WorkingFacts ==
  ASSUME A2AInv, NEW r \in Requests, Works(request[r])
  PROVE  /\ DOMAIN request[r] = Fields /\ DOMAIN request[r].keys = KeyFields
         /\ request[r].context \in Contexts /\ Holds(request[r], artifacts)
         /\ Home(request[r].context) \in Homes
         /\ Saved(request[r].context, ids[request[r].context], artifacts)
  BY HomeOf DEF A2AInv, Shape, Formed, Works, SavedInv, ListedHaveArtifacts, Saved

\* One document more is held once its artifact is there.
LEMMA OneMore ==
  ASSUME NEW q, NEW p, NEW saved, NEW doc, Holds(q, saved), p.context = q.context,
         p.new = q.new \cup {doc}, p.ids = q.ids, p.snapshot = q.snapshot
  PROVE  Holds(p, saved \cup {<<q.context, doc>>})
  BY DEF Holds, Saved

LEMMA ExtractStep ==
  ASSUME A2AInv, NEW r \in Requests, ExtractPart(r)
  PROVE  \E q : Step(r, q)
<1>1. PICK old : old = request[r]
  OBVIOUS
<1>2. Works(old) /\ old.pc = "extract" /\ UNCHANGED <<exists, ids, app>>
  BY <1>1 DEF ExtractPart, Works, Ended
<1>3. DOMAIN old = Fields /\ DOMAIN old.keys = KeyFields /\ old.context \in Contexts /\ Holds(old, artifacts)
  BY <1>1, <1>2, WorkingFacts
<1> DEFINE Same(q) ==
             /\ DOMAIN q = Fields /\ q.keys = old.keys /\ q.context = old.context /\ q.pc = "extract"
             /\ q.new = old.new /\ q.ids = old.ids /\ q.snapshot = old.snapshot
<1>4. CASE UNCHANGED artifacts /\ \E q : request' = [request EXCEPT ![r] = q] /\ Same(q)
  <2>1. PICK q : request' = [request EXCEPT ![r] = q] /\ Same(q)
    BY <1>4
  <2>2. Formed(q) /\ Holds(q, artifacts') /\ Current(q, ids, exists) /\ Listed(q, app)
    BY <1>3, <1>4, <2>1 DEF Formed, Holds, Current, Listed
  <2> QED
    BY <1>1, <1>2, <1>4, <2>1, <2>2, QuietStep
<1>5. CASE SaveFile(r, "file")
  <2>1. CASE Fail(r) /\ UNCHANGED artifacts
    BY <1>1, <1>2, <2>1, EndStep DEF Fail, Put, Ended
  <2>2. CASE \E parts, doc :
               /\ artifacts' = artifacts \cup {<<old.context, doc>>}
               /\ request' = [request EXCEPT ![r] =
                    [old EXCEPT !.parts = parts, !.new = old.new \cup {doc}]]
    <3>1. PICK parts, doc :
               /\ artifacts' = artifacts \cup {<<old.context, doc>>}
               /\ request' = [request EXCEPT ![r] =
                    [old EXCEPT !.parts = parts, !.new = old.new \cup {doc}]]
      BY <2>2
    <3>2. PICK q : q = [old EXCEPT !.parts = parts, !.new = old.new \cup {doc}]
      OBVIOUS
    <3>3. /\ DOMAIN q = Fields /\ q.keys = old.keys /\ q.context = old.context /\ q.pc = "extract"
          /\ q.new = old.new \cup {doc} /\ q.ids = old.ids /\ q.snapshot = old.snapshot
      BY <1>2, <1>3, <3>2 DEF Fields
    <3>4. Holds(q, artifacts')
      BY <1>3, <3>1, <3>3, OneMore
    <3>5. Formed(q) /\ Current(q, ids, exists) /\ Listed(q, app)
      BY <1>3, <3>3 DEF Formed, Current, Listed
    <3>6. artifacts \subseteq artifacts'
      BY <3>1
    <3> QED
      BY <1>1, <1>2, <3>1, <3>2, <3>3, <3>4, <3>5, <3>6, QuietStep
  <2> QED
    BY <1>1, <1>5, <2>1, <2>2 DEF SaveFile, Put
<1>6. \/ SaveFile(r, "file")
      \/ UNCHANGED artifacts /\ request' = [request EXCEPT ![r] = [old EXCEPT !.parts = Tail(old.parts)]]
      \/ UNCHANGED artifacts /\ request' = [request EXCEPT ![r] =
           [old EXCEPT !.parts = Tail(old.parts), !.noted = TRUE]]
  <2>1. \/ SaveFile(r, "file")
        \/ UNCHANGED artifacts /\ Put(r, [request[r] EXCEPT !.parts = Tail(@)])
        \/ UNCHANGED artifacts /\ Put(r, [request[r] EXCEPT !.parts = Tail(@), !.noted = TRUE])
    BY DEF ExtractPart
  <2> QED
    BY <1>1, <2>1 DEF Put
<1>7. /\ Same([old EXCEPT !.parts = Tail(old.parts)])
      /\ Same([old EXCEPT !.parts = Tail(old.parts), !.noted = TRUE])
  BY <1>2, <1>3 DEF Fields
<1> HIDE DEF Same
<1> QED
  BY <1>4, <1>5, <1>6, <1>7

LEMMA ExtractedStep ==
  ASSUME A2AInv, NEW r \in Requests, Extracted(r)
  PROVE  \E q : Step(r, q)
<1>1. PICK old : old = request[r]
  OBVIOUS
<1>2. Works(old) /\ old.pc = "extract" /\ UNCHANGED <<exists, ids, app, artifacts>>
  BY <1>1 DEF Extracted, Works, Ended
<1>3. DOMAIN old = Fields /\ DOMAIN old.keys = KeyFields /\ old.context \in Contexts /\ Holds(old, artifacts)
  BY <1>1, <1>2, WorkingFacts
<1>4. PICK q : /\ request' = [request EXCEPT ![r] = q]
               /\ q = IF old.new = {} THEN [old EXCEPT !.pc = "open", !.snapshot = None]
                      ELSE [old EXCEPT !.pc = "read"]
  BY <1>1 DEF Extracted, Injected, Put
<1>5. /\ DOMAIN q = Fields /\ q.keys = old.keys /\ q.context = old.context
      /\ q.new = old.new /\ q.ids = old.ids /\ q.snapshot \in {None, old.snapshot}
      /\ q.pc = "read" \/ (q.pc = "open" /\ q.new = {})
  BY <1>3, <1>4 DEF Fields
<1>6. Formed(q) /\ Holds(q, artifacts') /\ Current(q, ids, exists) /\ Listed(q, app) /\ q.pc # "idle"
  BY <1>2, <1>3, <1>5 DEF Formed, Holds, Current, Listed
<1> QED
  BY <1>1, <1>2, <1>4, <1>5, <1>6, QuietStep

LEMMA ReadStep ==
  ASSUME A2AInv, NEW r \in Requests, ReadSession(r)
  PROVE  \E q : Step(r, q)
<1>1. PICK old : old = request[r]
  OBVIOUS
<1>2. Works(old) /\ old.pc = "read" /\ UNCHANGED <<exists, ids, app, artifacts>>
  BY <1>1 DEF ReadSession, Works, Ended
<1>3. /\ DOMAIN old = Fields /\ DOMAIN old.keys = KeyFields /\ old.context \in Contexts
      /\ Holds(old, artifacts) /\ Saved(old.context, ids[old.context], artifacts)
  BY <1>1, <1>2, WorkingFacts
<1>4. PICK snapshot :
        /\ request' = [request EXCEPT ![r] = [old EXCEPT !.pc = "write", !.snapshot = snapshot]]
        /\ snapshot # None => old.context \in exists /\ snapshot.ids = ids[old.context]
  <2> DEFINE now == [ids |-> ids[old.context], loaded |-> app[Home(old.context)].loaded]
  <2>1. \/ request' = [request EXCEPT ![r] = [old EXCEPT !.pc = "write", !.snapshot = None]]
        \/ /\ old.context \in exists
           /\ request' = [request EXCEPT ![r] = [old EXCEPT !.pc = "write", !.snapshot = now]]
    BY <1>1 DEF ReadSession, Put
  <2>2. now.ids = ids[old.context]
    OBVIOUS
  <2> HIDE DEF now
  <2> QED
    BY <2>1, <2>2
<1>5. PICK q : q = [old EXCEPT !.pc = "write", !.snapshot = snapshot]
  OBVIOUS
<1>6. /\ DOMAIN q = Fields /\ q.keys = old.keys /\ q.context = old.context
      /\ q.new = old.new /\ q.ids = old.ids /\ q.snapshot = snapshot /\ q.pc = "write"
  BY <1>3, <1>5 DEF Fields
<1>7. Formed(q) /\ Holds(q, artifacts') /\ Current(q, ids, exists) /\ Listed(q, app)
  BY <1>2, <1>3, <1>4, <1>6 DEF Formed, Holds, Current, Listed
<1> QED
  BY <1>1, <1>2, <1>4, <1>5, <1>6, <1>7, QuietStep

\* The session after the write lists the new documents, in both lists; without a
\* write there are none.
LEMMA InjectStep ==
  ASSUME A2AInv, NEW r \in Requests, InjectIds(r)
  PROVE  \E q : Step(r, q)
<1>1. PICK old : old = request[r]
  OBVIOUS
<1>2. Works(old) /\ old.pc = "write" /\ UNCHANGED artifacts
  BY <1>1 DEF InjectIds, Works, Ended
<1>3. PICK c : c = old.context
  OBVIOUS
<1>4. /\ DOMAIN old = Fields /\ DOMAIN old.keys = KeyFields /\ c \in Contexts /\ Home(c) \in Homes
      /\ Holds(old, artifacts) /\ Saved(c, ids[c], artifacts)
  BY <1>1, <1>2, <1>3, WorkingFacts
<1>5. Serial => (c \notin exists => ids[c] = {}) /\ Current(old, ids, exists)
  BY <1>1, <1>4 DEF A2AInv, SerialInv
<1>6. /\ ids = [d \in Contexts |-> ids[d]] /\ app = [h \in Homes |-> app[h]]
      /\ \A h \in Homes : DOMAIN app[h] = KeyFields
  BY DEF A2AInv, Shape
<1>7. CASE (CreateSession(r) \/ AppendIds(r)) /\ Put(r, Injected(request[r]))
  <2>1. PICK q : /\ request' = [request EXCEPT ![r] = q]
                 /\ q = [old EXCEPT !.pc = "open", !.snapshot = None]
    BY <1>1, <1>7 DEF Injected, Put
  <2>2. /\ DOMAIN q = Fields /\ q.keys = old.keys /\ q.context = c /\ q.pc = "open"
        /\ q.new = old.new /\ q.ids = old.ids /\ q.snapshot = None
    BY <1>3, <1>4, <2>1 DEF Fields
  <2>3. PICK written, loaded :
          /\ ids' = [ids EXCEPT ![c] = written] /\ app' = [app EXCEPT ![Home(c)].loaded = loaded]
          /\ old.new \subseteq loaded /\ Saved(c, written, artifacts)
          /\ Serial => ids[c] \subseteq written
          /\ exists \subseteq exists' /\ exists' \subseteq exists \cup {c}
          /\ Serial => c \in exists'
    <3>1. CASE CreateSession(r)
      BY <1>1, <1>3, <1>4, <1>5, <3>1 DEF CreateSession, Holds
    <3>2. CASE AppendIds(r)
      <4>1. /\ ids' = [ids EXCEPT ![c] = old.snapshot.ids \cup old.new]
            /\ app' = [app EXCEPT ![Home(c)].loaded = old.snapshot.loaded \cup old.new]
            /\ old.snapshot # None /\ exists' = exists
        BY <1>1, <1>3, <3>2 DEF AppendIds
      <4>2. Saved(c, old.snapshot.ids \cup old.new, artifacts)
        BY <1>3, <1>4, <4>1 DEF Holds, Saved
      <4>3. Serial => ids[c] \subseteq old.snapshot.ids /\ c \in exists
        BY <1>2, <1>3, <1>5, <4>1 DEF Current
      <4> DEFINE written == old.snapshot.ids \cup old.new
                 loaded == old.snapshot.loaded \cup old.new
      <4>4. /\ old.new \subseteq loaded /\ Saved(c, written, artifacts)
            /\ Serial => ids[c] \subseteq written /\ c \in exists'
        BY <4>1, <4>2, <4>3
      <4> QED
        BY <4>1, <4>4
    <3> QED
      BY <1>7, <3>1, <3>2
  <2>4. /\ ids'[c] = written /\ \A d \in Contexts : d # c => ids'[d] = ids[d]
        /\ ids' = [d \in Contexts |-> ids'[d]]
    BY <1>4, <1>6, <2>3
  <2>5. /\ app'[Home(c)].loaded = loaded /\ \A h \in Homes : h # Home(c) => app'[h] = app[h]
        /\ app' = [h \in Homes |-> app'[h]] /\ \A h \in Homes : DOMAIN app'[h] = KeyFields
    BY <1>4, <1>6, <2>3 DEF KeyFields
  <2>6. Holds(q, artifacts')
    BY <1>2, <1>3, <1>4, <2>2 DEF Holds
  <2>7. Formed(q) /\ Current(q, ids', exists') /\ Listed(q, app')
    BY <1>4, <2>2, <2>3, <2>5 DEF Formed, Current, Listed
  <2>8. /\ Saved(c, ids'[c], artifacts') /\ artifacts \subseteq artifacts'
        /\ Serial => ids[c] \subseteq ids'[c] /\ c \in exists'
    BY <1>2, <2>3, <2>4
  <2> QED
    BY <1>1, <1>2, <1>3, <2>1, <2>2, <2>3, <2>4, <2>5, <2>6, <2>7, <2>8 DEF Step
<1>8. CASE UNCHANGED <<exists, ids, app>>
           /\ Put(r, [Injected(request[r]) EXCEPT !.new = {}])
  <2>1. PICK q : /\ request' = [request EXCEPT ![r] = q]
                 /\ q = [[old EXCEPT !.pc = "open", !.snapshot = None] EXCEPT !.new = {}]
    BY <1>1, <1>8 DEF Injected, Put
  <2>2. /\ DOMAIN q = Fields /\ q.keys = old.keys /\ q.context = c /\ q.pc = "open"
        /\ q.new = {} /\ q.ids = old.ids /\ q.snapshot = None
    BY <1>3, <1>4, <2>1 DEF Fields
  <2>3. Formed(q) /\ Holds(q, artifacts') /\ Current(q, ids, exists) /\ Listed(q, app)
    BY <1>2, <1>3, <1>4, <2>2 DEF Formed, Holds, Saved, Current, Listed
  <2> QED
    BY <1>1, <1>2, <1>3, <1>8, <2>1, <2>2, <2>3, QuietStep
<1> QED
  BY <1>7, <1>8 DEF InjectIds

LEMMA OpenStep ==
  ASSUME A2AInv, NEW r \in Requests, OpenRun(r)
  PROVE  \E q : Step(r, q)
<1>1. PICK old : old = request[r]
  OBVIOUS
<1>2. PICK c : c = old.context
  OBVIOUS
<1>3. /\ Works(old) /\ old.pc = "open" /\ UNCHANGED <<ids, app, artifacts>>
      /\ exists' = exists \cup {c}
  BY <1>1, <1>2 DEF OpenRun, Works, Ended
<1>4. /\ DOMAIN old = Fields /\ c \in Contexts /\ Home(c) \in Homes
      /\ Holds(old, artifacts) /\ Saved(c, ids[c], artifacts)
  BY <1>1, <1>2, <1>3, WorkingFacts
<1>5. PICK q : /\ request' = [request EXCEPT ![r] = q]
               /\ q = [old EXCEPT !.pc = "load", !.stage = 1, !.ids = ids[c], !.keys = app[Home(c)]]
  BY <1>1, <1>2 DEF OpenRun, Put
<1>6. /\ DOMAIN q = Fields /\ q.keys = app[Home(c)] /\ q.context = c /\ q.pc = "load"
      /\ q.new = old.new /\ q.ids = ids[c] /\ q.snapshot = old.snapshot
  BY <1>2, <1>4, <1>5 DEF Fields
<1>7. Formed(q) /\ Holds(q, artifacts') /\ Current(q, ids', exists')
  BY <1>2, <1>3, <1>4, <1>6 DEF Formed, Holds, Current, A2AInv, Shape
<1>8. Serial /\ ~Shared => Listed(q, app')
  <2>1. Serial /\ ~Shared => Listed(old, app)
    BY <1>1 DEF A2AInv, LoadedInv
  <2> QED
    BY <1>2, <1>3, <1>6, <2>1 DEF Listed
<1>9. /\ ids' = [d \in Contexts |-> ids'[d]] /\ app' = [h \in Homes |-> app'[h]]
      /\ \A h \in Homes : DOMAIN app'[h] = KeyFields
  BY <1>3 DEF A2AInv, Shape
<1>10. /\ Saved(c, ids'[c], artifacts') /\ ids'[c] = ids[c] /\ c \in exists'
       /\ exists \subseteq exists' /\ exists' \subseteq exists \cup {c}
  BY <1>3, <1>4
<1> QED
  BY <1>1, <1>2, <1>3, <1>5, <1>6, <1>7, <1>8, <1>9, <1>10, ZenonT(30) DEF Step

\* The loader keeps what is listed and has an artifact: the new documents do.
LEMMA LoadStep ==
  ASSUME A2AInv, NEW r \in Requests, LoadDocuments(r)
  PROVE  \E q : Step(r, q)
<1>1. PICK old : old = request[r]
  OBVIOUS
<1>2. PICK c : c = old.context
  OBVIOUS
<1>3. Works(old) /\ old.pc = "load" /\ UNCHANGED <<exists, ids, artifacts>>
  BY <1>1 DEF LoadDocuments, Works, Ended
<1>4. /\ DOMAIN old = Fields /\ DOMAIN old.keys = KeyFields /\ c \in Contexts /\ Home(c) \in Homes
      /\ Holds(old, artifacts) /\ Saved(c, ids[c], artifacts)
  BY <1>1, <1>2, <1>3, WorkingFacts
<1>5. PICK keys, cell :
        /\ request' = [request EXCEPT ![r] = [old EXCEPT !.pc = "act", !.keys = keys]]
        /\ app' = [app EXCEPT ![Home(c)] = cell] /\ DOMAIN cell = KeyFields
        /\ keys = Loaded(old)
  <2> DEFINE k == Loaded(old)
             stored == [loaded |-> k.loaded,
                        errors |-> IF k.errors # old.keys.errors THEN k.errors ELSE app[Home(c)].errors,
                        emitted |-> IF k.emitted # old.keys.emitted THEN None ELSE app[Home(c)].emitted]
  <2>1. DOMAIN stored = KeyFields
    BY DEF KeyFields
  <2>2. /\ request' = [request EXCEPT ![r] = [old EXCEPT !.pc = "act", !.keys = k]]
        /\ app' = [app EXCEPT ![Home(c)] = stored]
    BY <1>1, <1>2 DEF LoadDocuments, Put
  <2> HIDE DEF stored
  <2> QED
    BY <2>1, <2>2
<1>6. DOMAIN keys = KeyFields /\ keys.loaded = {d \in old.keys.loaded : <<c, d>> \in artifacts}
  BY <1>2, <1>4, <1>5 DEF Loaded, KeyFields
<1>7. PICK q : q = [old EXCEPT !.pc = "act", !.keys = keys]
  OBVIOUS
<1>8. /\ DOMAIN q = Fields /\ q.keys = keys /\ q.context = c /\ q.pc = "act"
      /\ q.new = old.new /\ q.ids = old.ids /\ q.snapshot = old.snapshot
  BY <1>2, <1>4, <1>7 DEF Fields
<1>9. /\ \A h \in Homes : h # Home(c) => app'[h] = app[h]
      /\ app' = [h \in Homes |-> app'[h]] /\ \A h \in Homes : DOMAIN app'[h] = KeyFields
  BY <1>4, <1>5 DEF A2AInv, Shape
<1>10. Formed(q) /\ Holds(q, artifacts')
  BY <1>2, <1>3, <1>4, <1>6, <1>8 DEF Formed, Holds
<1>11. Serial => Current(q, ids', exists') /\ (c \notin exists' => ids'[c] = {})
  BY <1>1, <1>2, <1>3, <1>4, <1>8 DEF A2AInv, SerialInv, Current
<1>12. Serial /\ ~Shared => Listed(q, app')
  <2>1. Serial /\ ~Shared => old.new \subseteq old.keys.loaded
    BY <1>1, <1>3 DEF A2AInv, LoadedInv, Listed
  <2>2. \A d \in old.new : <<c, d>> \in artifacts
    BY <1>2, <1>4 DEF Holds, Saved
  <2> QED
    BY <1>6, <1>8, <2>1, <2>2 DEF Listed
<1>13. ids' = [d \in Contexts |-> ids'[d]] /\ \A d \in Contexts : ids'[d] = ids[d]
  BY <1>3 DEF A2AInv, Shape
<1> QED
  BY <1>1, <1>2, <1>3, <1>4, <1>5, <1>7, <1>8, <1>9, <1>10, <1>11, <1>12, <1>13, ZenonT(30) DEF Step

LEMMA OrgStep ==
  ASSUME A2AInv, NEW r \in Requests, ReadOrgDocument(r)
  PROVE  \E q : Step(r, q)
<1>1. PICK old : old = request[r]
  OBVIOUS
<1>2. PICK c : c = old.context
  OBVIOUS
<1>3. PICK doc :
        /\ Works(old) /\ old.pc = "act" /\ UNCHANGED <<exists, app>>
        /\ artifacts' = artifacts \cup {<<c, doc>>}
        /\ ids' = [ids EXCEPT ![c] = old.ids \cup {doc}]
        /\ request' = [request EXCEPT ![r] =
             [old EXCEPT !.org = old.org + 1, !.ids = old.ids \cup {doc}]]
  <2> DEFINE d == <<r, "org", old.org>>
  <2>1. /\ Works(old) /\ old.pc = "act" /\ UNCHANGED <<exists, app>>
        /\ artifacts' = artifacts \cup {<<c, d>>}
        /\ ids' = [ids EXCEPT ![c] = old.ids \cup {d}]
        /\ request' = [request EXCEPT ![r] =
             [old EXCEPT !.org = old.org + 1, !.ids = old.ids \cup {d}]]
    BY <1>1, <1>2 DEF ReadOrgDocument, Works, Ended, Put
  <2> QED
    BY <2>1
<1>4. /\ DOMAIN old = Fields /\ DOMAIN old.keys = KeyFields /\ c \in Contexts /\ Home(c) \in Homes
      /\ Holds(old, artifacts)
  BY <1>1, <1>2, <1>3, WorkingFacts
<1>5. PICK q : q = [old EXCEPT !.org = old.org + 1, !.ids = old.ids \cup {doc}]
  OBVIOUS
<1>6. /\ DOMAIN q = Fields /\ q.keys = old.keys /\ q.context = c /\ q.pc = "act"
      /\ q.new = old.new /\ q.ids = old.ids \cup {doc} /\ q.snapshot = old.snapshot
  BY <1>2, <1>3, <1>4, <1>5 DEF Fields
<1>7. /\ ids'[c] = q.ids /\ \A d \in Contexts : d # c => ids'[d] = ids[d]
      /\ ids' = [d \in Contexts |-> ids'[d]] /\ app' = [h \in Homes |-> app'[h]]
      /\ \A h \in Homes : DOMAIN app'[h] = KeyFields
  BY <1>3, <1>4, <1>6 DEF A2AInv, Shape
<1>8. Formed(q) /\ Holds(q, artifacts') /\ Saved(c, ids'[c], artifacts')
  BY <1>2, <1>3, <1>4, <1>6, <1>7 DEF Formed, Holds, Saved
<1>9. Serial => /\ ids[c] \subseteq ids'[c] /\ c \in exists'
                /\ Current(q, ids', exists')
  <2>1. Serial => c \in exists /\ ids[c] \subseteq old.ids
    BY <1>1, <1>2, <1>3 DEF A2AInv, SerialInv, Current
  <2> QED
    BY <1>3, <1>6, <1>7, <2>1 DEF Current
<1>10. Serial /\ ~Shared => Listed(q, app')
  BY <1>1, <1>3, <1>6 DEF A2AInv, LoadedInv, Listed
<1> QED
  BY <1>1, <1>2, <1>3, <1>5, <1>6, <1>7, <1>8, <1>9, <1>10, ZenonT(30) DEF Step

\* An agent's turn ends the request or passes it on as it was, but for what was
\* said and emitted.
LEMMA ActStep ==
  ASSUME A2AInv, NEW r \in Requests, Act(r)
  PROVE  \E q : Step(r, q)
<1>1. PICK old : old = request[r]
  OBVIOUS
<1>2. PICK c : c = old.context
  OBVIOUS
<1>3. Works(old) /\ old.pc = "act" /\ UNCHANGED <<exists, ids, artifacts>>
  BY <1>1 DEF Act, Works, Ended
<1>4. /\ DOMAIN old = Fields /\ DOMAIN old.keys = KeyFields /\ c \in Contexts /\ Home(c) \in Homes
      /\ Holds(old, artifacts) /\ Saved(c, ids[c], artifacts)
  BY <1>1, <1>2, <1>3, WorkingFacts
<1>5. CASE Fail(r) /\ UNCHANGED app
  BY <1>1, <1>3, <1>5, EndStep DEF Fail, Put, Ended
<1>6. CASE /\ app' = app \/ app' = [app EXCEPT ![Home(c)].emitted = r]
           /\ \E p : /\ request' = [request EXCEPT ![r] = After(p)]
                     /\ DOMAIN p = Fields /\ DOMAIN p.keys = KeyFields /\ p.context = c
                     /\ p.new = old.new /\ p.ids = old.ids /\ p.snapshot = old.snapshot
                     /\ p.keys.loaded = old.keys.loaded
  <2>1. PICK p : /\ request' = [request EXCEPT ![r] = After(p)]
                 /\ DOMAIN p = Fields /\ DOMAIN p.keys = KeyFields /\ p.context = c
                 /\ p.new = old.new /\ p.ids = old.ids /\ p.snapshot = old.snapshot
                 /\ p.keys.loaded = old.keys.loaded
    BY <1>6
  <2>2. /\ app' = [h \in Homes |-> app'[h]] /\ \A h \in Homes : h # Home(c) => app'[h] = app[h]
        /\ \A h \in Homes : DOMAIN app'[h] = KeyFields
        /\ app'[Home(c)].loaded = app[Home(c)].loaded
    BY <1>4, <1>6 DEF A2AInv, Shape, KeyFields
  <2>3. PICK q : q = After(p)
    OBVIOUS
  <2>4. \/ /\ DOMAIN q = Fields /\ DOMAIN q.keys = KeyFields /\ q.context = c /\ q.pc = "ok"
           /\ q.new = {} /\ q.ids = {} /\ q.snapshot = None
        \/ /\ DOMAIN q = Fields /\ q.keys = p.keys /\ q.context = c /\ q.pc = "load"
           /\ q.new = old.new /\ q.ids = old.ids /\ q.snapshot = old.snapshot
    <3> DEFINE over == Over(p, "ok")
               on == [p EXCEPT !.pc = "load", !.stage = p.stage + 1]
    <3>1. /\ DOMAIN over = Fields /\ DOMAIN over.keys = KeyFields /\ over.context = c /\ over.pc = "ok"
          /\ over.new = {} /\ over.ids = {} /\ over.snapshot = None
      BY <2>1, OverFields
    <3>2. /\ DOMAIN on = Fields /\ on.keys = p.keys /\ on.context = c /\ on.pc = "load"
          /\ on.new = old.new /\ on.ids = old.ids /\ on.snapshot = old.snapshot
      BY <2>1 DEF Fields
    <3>3. q = over \/ q = on
      BY <2>3 DEF After
    <3> HIDE DEF over, on
    <3> QED
      BY <3>1, <3>2, <3>3
  <2>5. Formed(q) /\ q.pc # "idle" /\ q.context = c
    BY <1>4, <2>1, <2>4 DEF Formed
  <2>6. Holds(q, artifacts')
    BY <1>2, <1>3, <1>4, <2>4 DEF Holds, Saved
  <2>7. Serial => Current(q, ids', exists') /\ (c \notin exists' => ids'[c] = {})
    BY <1>1, <1>2, <1>3, <1>4, <2>4 DEF A2AInv, SerialInv, Current
  <2>8. Serial /\ ~Shared => Listed(q, app')
    BY <1>1, <1>3, <2>1, <2>4 DEF A2AInv, LoadedInv, Listed
  <2>9. ids' = [d \in Contexts |-> ids'[d]] /\ \A d \in Contexts : ids'[d] = ids[d]
    BY <1>3 DEF A2AInv, Shape
  <2>10. /\ Saved(c, ids'[c], artifacts') /\ artifacts \subseteq artifacts' /\ exists' = exists
         /\ request' = [request EXCEPT ![r] = q] /\ Works(request[r]) /\ q.context = request[r].context
    BY <1>1, <1>2, <1>3, <1>4, <2>1, <2>3, <2>5, <2>9
  <2> QED
    BY <1>4, <2>2, <2>5, <2>6, <2>7, <2>8, <2>9, <2>10 DEF Step
<1>7. \/ Fail(r) /\ UNCHANGED app
      \/ /\ app' = app \/ app' = [app EXCEPT ![Home(c)].emitted = r]
         /\ \E p : /\ request' = [request EXCEPT ![r] = After(p)]
                   /\ DOMAIN p = Fields /\ DOMAIN p.keys = KeyFields /\ p.context = c
                   /\ p.new = old.new /\ p.ids = old.ids /\ p.snapshot = old.snapshot
                   /\ p.keys.loaded = old.keys.loaded
  <2> DEFINE author == Order(tree)[old.stage]
             spoken == [old EXCEPT !.said = author,
                          !.shown = IF Shown(tree, author) THEN @ \cup {author} ELSE @]
             emitting == [spoken EXCEPT !.keys.emitted = r]
             emits == old.stage = 2 /\ old.keys.emitted = None
  <2>1. /\ DOMAIN spoken = Fields /\ spoken.keys = old.keys /\ spoken.context = c
        /\ spoken.new = old.new /\ spoken.ids = old.ids /\ spoken.snapshot = old.snapshot
    BY <1>2, <1>4 DEF Fields
  <2>2. \/ Fail(r) /\ UNCHANGED app
        \/ /\ Put(r, After(IF emits THEN emitting ELSE spoken))
           /\ app' = IF emits THEN [app EXCEPT ![Home(old.context)].emitted = r] ELSE app
    BY <1>1 DEF Act
  <2> HIDE DEF author, spoken, emits
  <2>3. /\ DOMAIN emitting = Fields /\ DOMAIN emitting.keys = KeyFields /\ emitting.context = c
        /\ emitting.new = old.new /\ emitting.ids = old.ids /\ emitting.snapshot = old.snapshot
        /\ emitting.keys.loaded = old.keys.loaded
    BY <1>4, <2>1 DEF Fields, KeyFields
  <2> HIDE DEF emitting
  <2>4. CASE Fail(r) /\ UNCHANGED app
    BY <2>4
  <2>5. CASE Put(r, After(emitting)) /\ app' = [app EXCEPT ![Home(c)].emitted = r]
    BY <2>3, <2>5 DEF Put
  <2>6. CASE Put(r, After(spoken)) /\ app' = app
    BY <1>4, <2>1, <2>6 DEF Put
  <2> QED
    BY <1>2, <2>2, <2>4, <2>5, <2>6
<1> QED
  BY <1>5, <1>6, <1>7

-----------------------------------------------------------------------------

\* A request comes when no other of its context works, where they come one by one.
LEMMA ArriveKeeps ==
  ASSUME A2AInv, NEW r \in Requests, NEW m \in Messages, Arrive(r, m)
  PROVE  A2AInv'
<1>1. m.context \in Contexts
  BY A2AAssumption DEF A2AAssumption, Message
<1> DEFINE pc == IF AuthRequired /\ ~m.authed THEN "denied"
                 ELSE IF FileInput /\ m.parts # << >> THEN "extract" ELSE "open"
           parts == IF FileInput /\ (AuthRequired => m.authed) THEN m.parts ELSE << >>
           q == [NoRequest EXCEPT !.pc = pc, !.context = m.context, !.parts = parts]
<1>2. request' = [request EXCEPT ![r] = q]
  BY DEF Arrive, Put
<1>3. pc \in {"denied", "extract", "open"}
  OBVIOUS
<1> HIDE DEF pc, parts
<1>4. /\ DOMAIN q = Fields /\ DOMAIN q.keys = KeyFields /\ q.pc \in {"denied", "extract", "open"}
      /\ q.context = m.context /\ q.new = {} /\ q.ids = {} /\ q.snapshot = None
  BY <1>3, NoRequestFields DEF Fields
<1> HIDE DEF q
<1>5. UNCHANGED <<exists, ids, app, artifacts>> /\ request[r].pc = "idle"
  BY DEF Arrive
<1>6. /\ request'[r] = q /\ \A s \in Requests : s # r => request'[s] = request[s]
      /\ request' = [s \in Requests |-> request'[s]]
  BY <1>2 DEF A2AInv, Shape
<1>7. Shape'
  BY <1>1, <1>4, <1>5, <1>6 DEF A2AInv, Shape, Formed
<1>8. SavedInv'
  BY <1>4, <1>5, <1>6 DEF A2AInv, SavedInv, ListedHaveArtifacts, Holds, Saved
<1>9. SerialInv'
  <2> SUFFICES ASSUME Serial
               PROVE  /\ \A s, t \in Requests :
                           s # t /\ Works(request'[s]) /\ Works(request'[t]) =>
                             request'[s].context # request'[t].context
                      /\ \A d \in Contexts : d \notin exists' => ids'[d] = {}
                      /\ \A s \in Requests : Current(request'[s], ids', exists')
    BY DEF SerialInv, Works, Current
  <2>1. ~Busy(m.context)
    BY DEF Arrive
  <2>2. \A s \in Requests : Works(request[s]) => request[s].context # m.context
    BY <2>1 DEF Busy, Works
  <2>3. \A s, t \in Requests :
          s # t /\ Works(request'[s]) /\ Works(request'[t]) =>
            request'[s].context # request'[t].context
    BY <1>4, <1>6, <2>2 DEF A2AInv, SerialInv
  <2>4. \A d \in Contexts : d \notin exists' => ids'[d] = {}
    BY <1>5 DEF A2AInv, SerialInv
  <2>5. \A s \in Requests : Current(request'[s], ids', exists')
    BY <1>2, <1>4, <1>5, <1>6 DEF A2AInv, SerialInv, Current
  <2> QED
    BY <2>3, <2>4, <2>5
<1>10. LoadedInv'
  BY <1>2, <1>4, <1>5, <1>6 DEF A2AInv, LoadedInv, Listed
<1> QED
  BY <1>7, <1>8, <1>9, <1>10 DEF A2AInv

LEMMA StepInv ==
  A2AInv /\ [Next]_vars => A2AInv' /\ (Serial => \A c \in Contexts : ids[c] \subseteq ids'[c])
<1> SUFFICES ASSUME A2AInv, [Next]_vars
             PROVE  A2AInv' /\ (Serial => \A c \in Contexts : ids[c] \subseteq ids'[c])
  OBVIOUS
<1>1. ASSUME NEW r \in Requests, Handle(r)
      PROVE  A2AInv' /\ (Serial => \A c \in Contexts : ids[c] \subseteq ids'[c])
  <2>1. \E q : Step(r, q)
    BY <1>1, ExtractStep, ExtractedStep, ReadStep, InjectStep, OpenStep, LoadStep, OrgStep, ActStep
    DEF Handle
  <2> QED
    BY <2>1, StepKeeps
<1>2. ASSUME NEW r \in Requests, NEW m \in Messages, Arrive(r, m)
      PROVE  A2AInv' /\ ids' = ids
  BY <1>2, ArriveKeeps DEF Arrive
<1>3. CASE UNCHANGED vars
  <2>1. UNCHANGED <<exists, ids, app, artifacts, request>>
    BY <1>3 DEF vars
  <2>2. Shape' /\ SavedInv'
    BY <2>1 DEF A2AInv, Shape, Formed, SavedInv, ListedHaveArtifacts, Holds, Saved
  <2>3. SerialInv' /\ LoadedInv'
    BY <2>1 DEF A2AInv, SerialInv, Works, Current, LoadedInv, Listed
  <2> QED
    BY <2>1, <2>2, <2>3 DEF A2AInv
<1> QED
  BY <1>1, <1>2, <1>3 DEF Next

\* What requests, lists, keys and artifacts know of each other holds in every state.
THEOREM Inductive == Spec => []A2AInv
  BY InitInv, StepInv, PTL DEF Spec

-----------------------------------------------------------------------------

\* A document that a session lists has its artifact, for any number of requests,
\* interleaved or not, and whichever calls fail.
THEOREM ListedAreSaved == Spec => []ListedHaveArtifacts
<1>1. A2AInv => ListedHaveArtifacts
  BY DEF A2AInv, SavedInv
<1> QED
  BY <1>1, Inductive, PTL

\* Where a context's messages come one by one, no step takes a document from the
\* list of a session.
THEOREM ListsOnlyGrow == Serial => (Spec => DocumentsAccumulate)
<1> SUFFICES ASSUME Serial PROVE Spec => DocumentsAccumulate
  OBVIOUS
<1>1. A2AInv /\ [Next]_vars => [\A c \in Contexts : ids[c] \subseteq ids'[c]]_ids
  BY StepInv
<1> QED
  BY <1>1, Inductive, PTL DEF Spec, DocumentsAccumulate

\* There, and with the keys of each session its own, every agent of a turn is
\* given the files of its message.
THEOREM FilesAreGiven == Serial /\ ~Shared => (Spec => []FilesReachAgents)
<1> SUFFICES ASSUME Serial, ~Shared PROVE Spec => []FilesReachAgents
  OBVIOUS
<1>1. A2AInv => FilesReachAgents
  BY DEF A2AInv, LoadedInv, Listed, SavedInv, Holds, Saved, FilesReachAgents, Given
<1> QED
  BY <1>1, Inductive, PTL

-----------------------------------------------------------------------------
(* Recursion over the naturals *)

LEMMA Least ==
  ASSUME NEW T, T \subseteq Nat, T # {}
  PROVE  \E x \in T : \A y \in T : x <= y
<1> DEFINE Below == OpToRel(<, Nat)
<1>1. IsWellFoundedOn(Below, Nat)
  BY NatLessThanWellFounded
<1>2. PICK x \in T : \A y \in T : ~(<<y, x>> \in Below)
  BY <1>1, WFMin
<1>3. \A y \in T : <<y, x>> \in Below <=> y < x
  BY <1>2 DEF OpToRel
<1>4. \A y \in T : x <= y
  <2> TAKE y \in T
  <2>1. x \in Nat /\ y \in Nat /\ ~(y < x)
    BY <1>2, <1>3
  <2> QED
    BY <2>1
<1> QED
  BY <1>4

\* Values of a set that a step takes from each number to the next.
Course(f, X, m, base, step) ==
  /\ f \in [0..m -> X] /\ f[0] = base
  /\ \A n \in 0..m : n # 0 => f[n] = step[<<n, f[n - 1]>>]

LEMMA CourseMore ==
  ASSUME NEW X, NEW base \in X, NEW step \in [Nat \X X -> X], NEW m \in Nat, NEW g,
         Course(g, X, m, base, step)
  PROVE  \E f : Course(f, X, m + 1, base, step)
<1>1. PICK f : f = [n \in 0..(m + 1) |-> IF n = m + 1 THEN step[<<m + 1, g[m]>>] ELSE g[n]]
  OBVIOUS
<1>2. g \in [0..m -> X] /\ g[0] = base /\ m \in 0..m
  BY DEF Course
<1>3. step[<<m + 1, g[m]>>] \in X
  BY <1>2
<1>4. \A n \in 0..(m + 1) : n = m + 1 \/ (n \in 0..m /\ n # m + 1)
  OBVIOUS
<1>5. f \in [0..(m + 1) -> X]
  BY <1>1, <1>2, <1>3, <1>4
<1>6. \A n \in 0..m : f[n] = g[n]
  BY <1>1
<1>7. f[m + 1] = step[<<m + 1, f[m]>>]
  <2>1. m + 1 \in 0..(m + 1) /\ f[m] = g[m]
    BY <1>2, <1>6
  <2> QED
    BY <1>1, <2>1
<1>8. ASSUME NEW n \in 0..(m + 1), n # 0 PROVE f[n] = step[<<n, f[n - 1]>>]
  <2>1. CASE n = m + 1
    BY <1>7, <2>1
  <2>2. CASE n \in 0..m
    <3>1. n - 1 \in 0..m
      BY <1>8, <2>2
    <3> QED
      BY <1>6, <1>8, <2>2, <3>1 DEF Course
  <2> QED
    BY <1>4, <2>1, <2>2
<1>9. f[0] = base
  BY <1>2, <1>6
<1> QED
  BY <1>5, <1>8, <1>9 DEF Course

LEMMA CourseAll ==
  ASSUME NEW X, NEW base \in X, NEW step \in [Nat \X X -> X], NEW m \in Nat
  PROVE  \E f : Course(f, X, m, base, step)
<1> DEFINE Bad == {n \in Nat : ~\E f : Course(f, X, n, base, step)}
<1> SUFFICES ASSUME Bad # {} PROVE FALSE
  OBVIOUS
<1>1. PICK n \in Bad : \A k \in Bad : n <= k
  BY Least
<1>2. n # 0
  <2>1. PICK f : f = [k \in 0..0 |-> base]
    OBVIOUS
  <2>2. Course(f, X, 0, base, step)
    BY <2>1 DEF Course
  <2> QED
    BY <1>1, <2>2
<1>3. n - 1 \in Nat /\ n - 1 \notin Bad /\ (n - 1) + 1 = n
  BY <1>1, <1>2
<1> QED
  BY <1>1, <1>3, CourseMore

LEMMA CourseUnique ==
  ASSUME NEW X, NEW base, NEW step, NEW m \in Nat, NEW k \in Nat, NEW f, NEW g, m <= k,
         Course(f, X, m, base, step), Course(g, X, k, base, step)
  PROVE  \A n \in 0..m : f[n] = g[n]
<1> DEFINE Bad == {n \in 0..m : f[n] # g[n]}
<1> SUFFICES ASSUME Bad # {} PROVE FALSE
  OBVIOUS
<1>1. PICK n \in Bad : \A j \in Bad : n <= j
  <2>1. Bad \subseteq Nat
    OBVIOUS
  <2> QED
    BY <2>1, Least
<1>2. n # 0
  BY <1>1 DEF Course
<1>3. n - 1 \in 0..m /\ n \in 0..k /\ n - 1 \notin Bad
  BY <1>1, <1>2
<1> QED
  BY <1>1, <1>2, <1>3 DEF Course

Stepping(X, base, step) == base \in X /\ step \in [Nat \X X -> X]

Forever(f, X, base, step) ==
  f \in [Nat -> X] /\ f[0] = base /\ \A n \in Nat : f[n + 1] = step[<<n + 1, f[n]>>]

\* A course of values over all the naturals.
LEMMA Recursion ==
  ASSUME NEW X, NEW base, NEW step, Stepping(X, base, step)
  PROVE  \E f : Forever(f, X, base, step)
<1> DEFINE of(m) == CHOOSE f : Course(f, X, m, base, step)
<1>1. \A m \in Nat : Course(of(m), X, m, base, step)
  BY CourseAll DEF Stepping
<1>2. PICK at : at = [m \in Nat |-> of(m)]
  OBVIOUS
<1>3. \A m \in Nat : Course(at[m], X, m, base, step)
  BY <1>1, <1>2
<1>4. PICK f : f = [m \in Nat |-> at[m][m]]
  OBVIOUS
<1>5. f \in [Nat -> X]
  BY <1>3, <1>4 DEF Course
<1>6. f[0] = base
  BY <1>3, <1>4 DEF Course
<1>7. ASSUME NEW n \in Nat PROVE f[n + 1] = step[<<n + 1, f[n]>>]
  <2>1. at[n][n] = at[n + 1][n]
    <3>1. n + 1 \in Nat /\ n <= n + 1 /\ n \in 0..n
      OBVIOUS
    <3>2. Course(at[n], X, n, base, step) /\ Course(at[n + 1], X, n + 1, base, step)
      BY <1>3, <3>1
    <3>3. \A k \in 0..n : at[n][k] = at[n + 1][k]
      <4>1. PICK g, h, m : g = at[n] /\ h = at[n + 1] /\ m = n + 1
        OBVIOUS
      <4>2. m \in Nat /\ n <= m /\ Course(g, X, n, base, step) /\ Course(h, X, m, base, step)
        BY <3>1, <3>2, <4>1
      <4>3. \A k \in 0..n : g[k] = h[k]
        BY <4>2, CourseUnique
      <4> QED
        BY <4>1, <4>3
    <3> QED
      BY <3>1, <3>3
  <2>2. n + 1 \in 0..(n + 1) /\ n + 1 # 0 /\ (n + 1) - 1 = n /\ n + 1 \in Nat
    OBVIOUS
  <2>3. at[n + 1][n + 1] = step[<<n + 1, at[n + 1][n]>>]
    BY <1>3, <2>2 DEF Course
  <2> QED
    BY <1>4, <2>1, <2>2, <2>3
<1> QED
  BY <1>5, <1>6, <1>7 DEF Forever

-----------------------------------------------------------------------------
(* Sequences *)

\* What is kept of a sequence is one of its kind.
LEMMA OnlyType ==
  ASSUME NEW T, NEW s \in Seq(T), NEW S
  PROVE  Only(s, S) \in Seq(T)
<1> DEFINE KeptAt(f, n) ==
             IF n = 0 THEN << >> ELSE IF s[n] \in S THEN Append(f[n - 1], s[n]) ELSE f[n - 1]
<1>0. PICK a : a = Len(s)
  OBVIOUS
<1>1. a \in Nat /\ \A n \in 1..a : s[n] \in T
  BY <1>0
<1>2. PICK step : step = [x \in Nat \X Seq(T) |->
                     IF x[1] \in 1..a /\ s[x[1]] \in S THEN Append(x[2], s[x[1]]) ELSE x[2]]
  OBVIOUS
<1>3. step \in [Nat \X Seq(T) -> Seq(T)]
  <2>1. ASSUME NEW x \in Nat \X Seq(T)
        PROVE  (IF x[1] \in 1..a /\ s[x[1]] \in S THEN Append(x[2], s[x[1]]) ELSE x[2]) \in Seq(T)
    <3>1. x[2] \in Seq(T)
      OBVIOUS
    <3>2. CASE x[1] \in 1..a
      <4>1. Append(x[2], s[x[1]]) \in Seq(T)
        BY <1>1, <3>1, <3>2
      <4> QED
        BY <3>1, <4>1
    <3>3. CASE x[1] \notin 1..a
      BY <3>1, <3>3
    <3> QED
      BY <3>2, <3>3
  <2> QED
    BY <1>2, <2>1
<1>4. PICK base \in Seq(T) : base = << >>
  <2>1. << >> \in Seq(T)
    OBVIOUS
  <2> QED
    BY <2>1
<1>5. PICK g \in [Nat -> Seq(T)] :
        g[0] = base /\ \A n \in Nat : g[n + 1] = step[<<n + 1, g[n]>>]
  <2>1. Stepping(Seq(T), base, step)
    BY <1>3, <1>4 DEF Stepping
  <2>2. PICK g : Forever(g, Seq(T), base, step)
    BY <2>1, Recursion
  <2> QED
    BY <2>2 DEF Forever
<1>6. PICK f : f = [n \in 0..a |-> g[n]]
  OBVIOUS
<1>7. ASSUME NEW n \in 0..a PROVE f[n] = KeptAt(f, n)
  <2>1. CASE n = 0
    BY <1>1, <1>4, <1>5, <1>6, <2>1
  <2>2. CASE n # 0
    <3>1. n \in 1..a /\ n - 1 \in 0..a /\ n - 1 \in Nat /\ (n - 1) + 1 = n /\ n \in Nat
      BY <1>1, <2>2
    <3>2. g[n] = step[<<n, g[n - 1]>>] /\ g[n - 1] \in Seq(T)
      BY <1>5, <3>1
    <3>3. g[n] = IF s[n] \in S THEN Append(g[n - 1], s[n]) ELSE g[n - 1]
      BY <1>2, <3>1, <3>2
    <3>4. f[n] = g[n] /\ f[n - 1] = g[n - 1]
      BY <1>6, <3>1
    <3> QED
      BY <2>2, <3>3, <3>4
  <2> QED
    BY <2>1, <2>2
<1>8. f = [n \in 0..a |-> KeptAt(f, n)]
  <2>1. f = [n \in 0..a |-> f[n]]
    BY <1>6
  <2> QED
    BY <1>7, <2>1
<1>9. PICK kept : kept = CHOOSE h : h = [n \in 0..a |-> KeptAt(h, n)]
  OBVIOUS
<1>10. kept = [n \in 0..a |-> KeptAt(kept, n)]
  BY <1>8, <1>9
<1>11. Only(s, S) = kept[a]
  BY <1>0, <1>9 DEF Only
<1>12. kept[0] = << >>
  BY <1>1, <1>10
<1>13. ASSUME NEW n \in 0..a, n # 0, kept[n - 1] \in Seq(T) PROVE kept[n] \in Seq(T)
  <2>1. kept[n] = KeptAt(kept, n)
    BY <1>10
  <2>2. n \in 1..a
    BY <1>1, <1>13
  <2>3. PICK b, e : b = kept[n - 1] /\ e = s[n]
    OBVIOUS
  <2>4. b \in Seq(T) /\ e \in T
    BY <1>1, <1>13, <2>2, <2>3
  <2>5. Append(b, e) \in Seq(T)
    BY <2>4
  <2> QED
    BY <1>13, <2>1, <2>3, <2>4, <2>5
<1> HIDE DEF KeptAt
<1>14. \A n \in 0..a : kept[n] \in Seq(T)
  <2> DEFINE Bad == {n \in 0..a : kept[n] \notin Seq(T)}
  <2> SUFFICES ASSUME Bad # {} PROVE FALSE
    OBVIOUS
  <2>1. PICK n \in Bad : \A k \in Bad : n <= k
    <3>1. Bad \subseteq Nat
      OBVIOUS
    <3> QED
      BY <3>1, Least
  <2>2. n # 0
    BY <1>4, <1>12, <2>1
  <2>3. n - 1 \in 0..a /\ n - 1 \notin Bad
    BY <1>1, <2>1, <2>2
  <2> QED
    BY <1>13, <2>1, <2>2, <2>3
<1> QED
  BY <1>1, <1>11, <1>14

\* Sequences put end to end: the last of all is the last of the last.
LEMMA Flattened ==
  ASSUME NEW T, NEW s \in Seq(Seq(T)), s # << >>, \A i \in DOMAIN s : s[i] # << >>
  PROVE  /\ FlattenSeq(s) \in Seq(T) /\ FlattenSeq(s) # << >>
         /\ Last(FlattenSeq(s)) = Last(Last(s))
<1> DEFINE PutAt(f, n) == IF n = 1 THEN s[n] ELSE f[n - 1] \o s[n]
<1>0. PICK a : a = Len(s)
  OBVIOUS
<1>1. /\ a \in Nat /\ a # 0 /\ \A n \in 1..a : s[n] \in Seq(T) /\ s[n] # << >>
      /\ Last(s) = s[a] /\ 1 \in 1..a /\ a \in 1..a
  <2>1. a \in Nat /\ a # 0 /\ DOMAIN s = 1..a
    BY <1>0
  <2>2. \A n \in 1..a : s[n] \in Seq(T) /\ s[n] # << >>
    BY <1>0, <2>1
  <2>3. Last(s) = s[a]
    BY <1>0 DEF Last
  <2> QED
    BY <2>1, <2>2, <2>3
<1>2. PICK step : step = [x \in Nat \X Seq(T) |->
                     IF x[1] + 1 \in 1..a THEN x[2] \o s[x[1] + 1] ELSE x[2]]
  OBVIOUS
<1>3. step \in [Nat \X Seq(T) -> Seq(T)]
  <2>1. ASSUME NEW x \in Nat \X Seq(T)
        PROVE  (IF x[1] + 1 \in 1..a THEN x[2] \o s[x[1] + 1] ELSE x[2]) \in Seq(T)
    <3>1. x[2] \in Seq(T)
      OBVIOUS
    <3>2. CASE x[1] + 1 \in 1..a
      <4>1. s[x[1] + 1] \in Seq(T)
        BY <1>1, <3>2
      <4>2. x[2] \o s[x[1] + 1] \in Seq(T)
        BY <3>1, <4>1
      <4> QED
        BY <3>2, <4>2
    <3>3. CASE x[1] + 1 \notin 1..a
      BY <3>1, <3>3
    <3> QED
      BY <3>2, <3>3
  <2> QED
    BY <1>2, <2>1
<1>4. PICK base \in Seq(T) : base = s[1]
  BY <1>1
<1>5. PICK g \in [Nat -> Seq(T)] :
        g[0] = base /\ \A n \in Nat : g[n + 1] = step[<<n + 1, g[n]>>]
  <2>1. Stepping(Seq(T), base, step)
    BY <1>3, <1>4 DEF Stepping
  <2>2. PICK g : Forever(g, Seq(T), base, step)
    BY <2>1, Recursion
  <2> QED
    BY <2>2 DEF Forever
<1>6. PICK f : f = [n \in 1..a |-> g[n - 1]]
  OBVIOUS
<1>7. ASSUME NEW n \in 1..a PROVE f[n] = PutAt(f, n)
  <2>1. CASE n = 1
    BY <1>1, <1>4, <1>5, <1>6, <2>1
  <2>2. CASE n # 1
    <3>1. /\ n - 1 \in 1..a /\ n - 2 \in Nat /\ (n - 2) + 1 = n - 1 /\ n - 1 \in Nat
          /\ (n - 1) - 1 = n - 2 /\ (n - 1) + 1 = n
      BY <1>1, <2>2
    <3>2. g[n - 1] = step[<<n - 1, g[n - 2]>>] /\ g[n - 2] \in Seq(T)
      BY <1>5, <3>1
    <3>3. g[n - 1] = g[n - 2] \o s[n]
      BY <1>2, <3>1, <3>2
    <3>4. f[n] = g[n - 1] /\ f[n - 1] = g[n - 2]
      BY <1>6, <3>1
    <3> QED
      BY <2>2, <3>3, <3>4
  <2> QED
    BY <2>1, <2>2
<1>8. f = [n \in 1..a |-> PutAt(f, n)]
  <2>1. f = [n \in 1..a |-> f[n]]
    BY <1>6
  <2> QED
    BY <1>7, <2>1
<1>9. PICK h : h = CHOOSE k : k = [n \in 1..a |-> PutAt(k, n)]
  OBVIOUS
<1>10. h = [n \in 1..a |-> PutAt(h, n)]
  BY <1>8, <1>9
<1>11. FlattenSeq(s) = h[a]
  BY <1>0, <1>1, <1>9 DEF FlattenSeq
<1>12. h[1] = s[1]
  BY <1>1, <1>10
<1>13. \A n \in 1..a : n # 1 => h[n] = h[n - 1] \o s[n]
  BY <1>10
<1>14. \A n \in 1..a : h[n] \in Seq(T)
  <2> DEFINE Bad == {n \in 1..a : h[n] \notin Seq(T)}
  <2> SUFFICES ASSUME Bad # {} PROVE FALSE
    OBVIOUS
  <2>1. PICK n \in Bad : \A k \in Bad : n <= k
    <3>1. Bad \subseteq Nat
      OBVIOUS
    <3> QED
      BY <3>1, Least
  <2>2. n # 1
    BY <1>1, <1>12, <2>1
  <2>3. n - 1 \in 1..a /\ n - 1 \notin Bad
    BY <1>1, <2>1, <2>2
  <2>4. PICK u, v : u = h[n - 1] /\ v = s[n]
    OBVIOUS
  <2>5. u \in Seq(T) /\ v \in Seq(T)
    BY <1>1, <2>1, <2>3, <2>4
  <2>6. u \o v \in Seq(T)
    BY <2>5
  <2> QED
    BY <1>13, <2>1, <2>2, <2>4, <2>6
<1>15. CASE a = 1
  BY <1>1, <1>11, <1>12, <1>15
<1>16. CASE a # 1
  <2>1. a - 1 \in 1..a
    BY <1>1, <1>16
  <2>2. PICK u, v : u = h[a - 1] /\ v = s[a]
    OBVIOUS
  <2>3. u \in Seq(T) /\ v \in Seq(T) /\ v # << >>
    BY <1>1, <1>14, <2>1, <2>2
  <2>4. FlattenSeq(s) = u \o v
    BY <1>1, <1>11, <1>13, <1>16, <2>2
  <2>5. Len(v) # 0 /\ Len(u) \in Nat /\ Len(v) \in Nat
    <3>1. v \in Seq(T) /\ v # << >> => Len(v) # 0
      OBVIOUS
    <3>2. u \in Seq(T) => Len(u) \in Nat
      OBVIOUS
    <3>3. v \in Seq(T) => Len(v) \in Nat
      OBVIOUS
    <3> QED
      BY <2>3, <3>1, <3>2, <3>3
  <2>6. u \o v \in Seq(T) /\ Len(u \o v) = Len(u) + Len(v) /\ u \o v # << >>
    BY <2>3, <2>5
  <2>7. Len(u) + Len(v) \in 1..(Len(u) + Len(v)) /\ Len(u) + Len(v) > Len(u)
    <3>1. \A k, l \in Nat : l # 0 => k + l \in 1..(k + l) /\ k + l > k
      OBVIOUS
    <3> QED
      BY <2>5, <3>1
  <2>8. (u \o v)[Len(u) + Len(v)] = v[(Len(u) + Len(v)) - Len(u)]
    BY <2>3, <2>5, <2>7
  <2>9. (Len(u) + Len(v)) - Len(u) = Len(v)
    BY <2>5
  <2> QED
    BY <1>1, <2>2, <2>4, <2>6, <2>8, <2>9 DEF Last
<1> QED
  BY <1>15, <1>16

-----------------------------------------------------------------------------
(* The agents that are mounted *)

Closed(children, S) == \A a \in S : ToSet(children[a]) \subseteq S
Grown(children, S) == S \cup UNION {ToSet(children[a]) : a \in S}

LEMMA ToSetType ==
  ASSUME NEW T, NEW s \in Seq(T)
  PROVE  ToSet(s) \subseteq T /\ (s # << >> => ToSet(s) # {} /\ Last(s) \in ToSet(s))
<1>1. DOMAIN s = 1..Len(s) /\ Len(s) \in Nat /\ \A i \in DOMAIN s : s[i] \in T
  OBVIOUS
<1>2. ASSUME s # << >> PROVE Len(s) \in DOMAIN s
  <2>1. Len(s) # 0
    BY <1>2
  <2> QED
    BY <1>1, <2>1
<1> QED
  BY <1>1, <1>2 DEF ToSet, Last

LEMMA GrownType ==
  ASSUME NEW children \in [Agents -> Seq(Agents)], NEW S \in SUBSET Agents
  PROVE  Grown(children, S) \subseteq Agents
<1>1. \A a \in S : ToSet(children[a]) \subseteq Agents
  BY ToSetType
<1> QED
  BY <1>1 DEF Grown

\* n or less steps down, for every n.
LEMMA WithinIs ==
  ASSUME NEW children \in [Agents -> Seq(Agents)], NEW from \in SUBSET Agents
  PROVE  \E within \in [Nat -> SUBSET Agents] :
           /\ within[0] = from
           /\ \A n \in Nat : within[n + 1] = Grown(children, within[n])
           /\ Reach(children, from) = within[Cardinality(Agents)]
<1> DEFINE At(f, n) ==
             IF n = 0 THEN from
             ELSE f[n - 1] \cup UNION {ToSet(children[a]) : a \in f[n - 1]}
<1>1. PICK step : step = [x \in Nat \X SUBSET Agents |-> Grown(children, x[2])]
  OBVIOUS
<1>2. Stepping(SUBSET Agents, from, step)
  <2>1. \A x \in Nat \X SUBSET Agents : Grown(children, x[2]) \in SUBSET Agents
    BY GrownType
  <2> QED
    BY <1>1, <2>1 DEF Stepping
<1>3. PICK g : Forever(g, SUBSET Agents, from, step)
  BY <1>2, Recursion
<1>4. /\ g \in [Nat -> SUBSET Agents] /\ g[0] = from
      /\ \A n \in Nat : g[n + 1] = Grown(children, g[n])
  <2>1. /\ g \in [Nat -> SUBSET Agents] /\ g[0] = from
        /\ \A n \in Nat : g[n + 1] = step[<<n + 1, g[n]>>]
    BY <1>3 DEF Forever
  <2>2. ASSUME NEW n \in Nat PROVE g[n + 1] = Grown(children, g[n])
    <3>1. PICK x \in Nat \X SUBSET Agents : x = <<n + 1, g[n]>>
      <4>1. n + 1 \in Nat /\ g[n] \in SUBSET Agents
        BY <2>1
      <4> QED
        BY <4>1
    <3>2. step[x] = Grown(children, x[2])
      BY <1>1
    <3> QED
      BY <2>1, <3>1, <3>2
  <2> QED
    BY <2>1, <2>2
<1>5. g = [n \in Nat |-> At(g, n)]
  <2>1. ASSUME NEW n \in Nat PROVE g[n] = At(g, n)
    <3>1. CASE n = 0
      BY <1>4, <3>1
    <3>2. CASE n # 0
      <4>1. n - 1 \in Nat /\ (n - 1) + 1 = n
        BY <3>2
      <4>2. g[n] = Grown(children, g[n - 1])
        BY <1>4, <4>1
      <4> QED
        BY <3>2, <4>2 DEF Grown
    <3> QED
      BY <3>1, <3>2
  <2> QED
    BY <1>4, <2>1
<1>6. PICK h : h = CHOOSE f : f = [n \in Nat |-> At(f, n)]
  OBVIOUS
<1>7. h = [n \in Nat |-> At(h, n)]
  BY <1>5, <1>6
<1>8. Reach(children, from) = h[Cardinality(Agents)]
  BY <1>6 DEF Reach
<1>9. h[0] = from
  BY <1>7
<1>10. ASSUME NEW n \in Nat PROVE h[n + 1] = Grown(children, h[n])
  <2>1. n + 1 \in Nat /\ n + 1 # 0 /\ (n + 1) - 1 = n
    OBVIOUS
  <2>2. h[n + 1] = At(h, n + 1)
    BY <1>7, <2>1
  <2> QED
    BY <2>1, <2>2 DEF Grown
<1> HIDE DEF At
<1>11. \A n \in Nat : h[n] \in SUBSET Agents
  <2> DEFINE Bad == {n \in Nat : h[n] \notin SUBSET Agents}
  <2> SUFFICES ASSUME Bad # {} PROVE FALSE
    OBVIOUS
  <2>1. PICK n \in Bad : \A k \in Bad : n <= k
    BY Least
  <2>2. n # 0
    BY <1>9, <2>1
  <2>3. n - 1 \in Nat /\ n - 1 \notin Bad /\ (n - 1) + 1 = n
    BY <2>1, <2>2
  <2>4. h[n] = Grown(children, h[n - 1]) /\ h[n - 1] \in SUBSET Agents
    BY <1>10, <2>3
  <2> QED
    BY <2>1, <2>4, GrownType
<1>12. h \in [Nat -> SUBSET Agents]
  BY <1>7, <1>11
<1> QED
  BY <1>8, <1>9, <1>10, <1>12

\* As many steps as there are agents lead to all that any number of steps lead to.
LEMMA ReachIs ==
  ASSUME NEW children \in [Agents -> Seq(Agents)], NEW from \in SUBSET Agents
  PROVE  /\ Reach(children, from) \in SUBSET Agents /\ from \subseteq Reach(children, from)
         /\ Closed(children, Reach(children, from))
         /\ \A S : from \subseteq S /\ Closed(children, S) => Reach(children, from) \subseteq S
<1>1. PICK within \in [Nat -> SUBSET Agents] :
           /\ within[0] = from
           /\ \A n \in Nat : within[n + 1] = Grown(children, within[n])
           /\ Reach(children, from) = within[Cardinality(Agents)]
  BY WithinIs
<1>2. PICK top \in Nat : top = Cardinality(Agents)
  BY A2AAssumption, FS_CardinalityType DEF A2AAssumption
<1>3. \A n \in Nat : /\ within[n] \subseteq within[n + 1] /\ IsFiniteSet(within[n])
                     /\ Cardinality(within[n]) \in Nat /\ Cardinality(within[n]) <= top
  <2> TAKE n \in Nat
  <2>1. within[n] \in SUBSET Agents /\ IsFiniteSet(Agents)
    BY <1>1, A2AAssumption DEF A2AAssumption
  <2>2. IsFiniteSet(within[n]) /\ Cardinality(within[n]) <= top
    BY <1>2, <2>1, FS_Subset
  <2> QED
    BY <1>1, <2>2, FS_CardinalityType DEF Grown
<1>4. \A n \in Nat : within[n + 1] = within[n] \/ Cardinality(within[n + 1]) > Cardinality(within[n])
  <2> TAKE n \in Nat
  <2>1. n + 1 \in Nat /\ IsFiniteSet(within[n + 1]) /\ within[n] \in SUBSET within[n + 1]
    BY <1>3
  <2>2. /\ Cardinality(within[n]) <= Cardinality(within[n + 1])
        /\ Cardinality(within[n + 1]) = Cardinality(within[n]) => within[n + 1] = within[n]
    BY <2>1, FS_Subset
  <2>3. Cardinality(within[n]) \in Nat /\ Cardinality(within[n + 1]) \in Nat
    BY <1>3, <2>1
  <2> QED
    BY <2>2, <2>3
<1>5. \A n \in Nat : within[n + 1] = within[n] \/ Cardinality(within[n + 1]) >= n + 1
  <2> DEFINE Bad == {n \in Nat : within[n + 1] # within[n] /\ ~(Cardinality(within[n + 1]) >= n + 1)}
  <2> SUFFICES ASSUME Bad # {} PROVE FALSE
    OBVIOUS
  <2>1. PICK n \in Bad : \A k \in Bad : n <= k
    BY Least
  <2>2. /\ n \in Nat /\ n + 1 \in Nat /\ Cardinality(within[n + 1]) \in Nat /\ Cardinality(within[n]) \in Nat
        /\ Cardinality(within[n + 1]) > Cardinality(within[n])
        /\ ~(Cardinality(within[n + 1]) >= n + 1)
    BY <1>3, <1>4, <2>1
  <2>3. n # 0
    BY <2>2
  <2>4. n - 1 \in Nat /\ n - 1 \notin Bad /\ (n - 1) + 1 = n
    BY <2>1, <2>3
  <2>5. within[n] = within[n - 1] \/ Cardinality(within[n]) >= n
    BY <2>4
  <2>6. within[n] # within[n - 1]
    <3>1. within[n] = Grown(children, within[n - 1]) /\ within[n + 1] = Grown(children, within[n])
      BY <1>1, <2>2, <2>4
    <3> QED
      BY <2>1, <3>1
  <2> QED
    BY <2>2, <2>5, <2>6
<1>6. within[top + 1] = within[top]
  <2>1. top + 1 \in Nat
    OBVIOUS
  <2>2. Cardinality(within[top + 1]) <= top /\ Cardinality(within[top + 1]) \in Nat
    BY <1>3, <2>1
  <2> QED
    BY <1>5, <2>2
<1>7. Closed(children, within[top])
  <2>1. within[top] = Grown(children, within[top])
    BY <1>1, <1>6
  <2> QED
    BY <2>1 DEF Closed, Grown
<1>8. \A n \in Nat : from \subseteq within[n]
  <2> DEFINE Bad == {n \in Nat : ~(from \subseteq within[n])}
  <2> SUFFICES ASSUME Bad # {} PROVE FALSE
    OBVIOUS
  <2>1. PICK n \in Bad : \A k \in Bad : n <= k
    BY Least
  <2>2. n # 0
    BY <1>1, <2>1
  <2>3. n - 1 \in Nat /\ n - 1 \notin Bad /\ (n - 1) + 1 = n
    BY <2>1, <2>2
  <2>4. within[n - 1] \subseteq within[n]
    BY <1>3, <2>3
  <2> QED
    BY <2>1, <2>3, <2>4
<1>9. ASSUME NEW S, from \subseteq S, Closed(children, S)
      PROVE  \A n \in Nat : within[n] \subseteq S
  <2> DEFINE Bad == {n \in Nat : ~(within[n] \subseteq S)}
  <2> SUFFICES ASSUME Bad # {} PROVE FALSE
    OBVIOUS
  <2>1. PICK n \in Bad : \A k \in Bad : n <= k
    BY Least
  <2>2. n # 0
    BY <1>1, <1>9, <2>1
  <2>3. n - 1 \in Nat /\ n - 1 \notin Bad /\ (n - 1) + 1 = n
    BY <2>1, <2>2
  <2>4. within[n] = Grown(children, within[n - 1]) /\ within[n - 1] \subseteq S
    BY <1>1, <2>3
  <2>5. Grown(children, within[n - 1]) \subseteq S
    BY <1>9, <2>4 DEF Grown, Closed
  <2> QED
    BY <2>1, <2>4, <2>5
<1>10. Reach(children, from) = within[top] /\ within[top] \in SUBSET Agents
  BY <1>1, <1>2
<1>11. from \subseteq within[top]
  BY <1>8
<1>12. \A S : from \subseteq S /\ Closed(children, S) => within[top] \subseteq S
  BY <1>9
<1> QED
  BY <1>7, <1>10, <1>11, <1>12

\* What an agent leads to: its children, and what they lead to.
Under(children, a) == Reach(children, ToSet(children[a]))

LEMMA UnderIs ==
  ASSUME NEW children \in [Agents -> Seq(Agents)], NEW a \in Agents
  PROVE  /\ Under(children, a) \in SUBSET Agents /\ ToSet(children[a]) \subseteq Under(children, a)
         /\ Closed(children, Under(children, a))
         /\ \A b \in Under(children, a) : Under(children, b) \subseteq Under(children, a)
<1>1. \A b \in Agents : ToSet(children[b]) \in SUBSET Agents
  BY ToSetType
<1>2. /\ Under(children, a) \in SUBSET Agents /\ ToSet(children[a]) \subseteq Under(children, a)
      /\ Closed(children, Under(children, a))
  BY <1>1, ReachIs DEF Under
<1>3. ASSUME NEW b \in Under(children, a) PROVE Under(children, b) \subseteq Under(children, a)
  <2>1. PICK S, from \in SUBSET Agents : S = Under(children, a) /\ from = ToSet(children[b])
    BY <1>1, <1>2
  <2>2. from \subseteq S /\ Closed(children, S)
    BY <1>2, <2>1 DEF Closed
  <2>3. \A T : from \subseteq T /\ Closed(children, T) => Reach(children, from) \subseteq T
    BY ReachIs
  <2> QED
    BY <2>1, <2>2, <2>3 DEF Under
<1> QED
  BY <1>2, <1>3

\* Where no agent is below itself, a child leads to fewer agents than its parent.
LEMMA FewerUnder ==
  ASSUME NEW children \in [Agents -> Seq(Agents)], NEW a \in Agents, NEW b \in ToSet(children[a]),
         b \notin Under(children, b)
  PROVE  /\ Cardinality(Under(children, a)) \in Nat /\ Cardinality(Under(children, b)) \in Nat
         /\ Cardinality(Under(children, b)) < Cardinality(Under(children, a))
<1>1. b \in Agents /\ b \in Under(children, a)
  BY UnderIs
<1>2. Under(children, b) \in SUBSET Under(children, a) /\ Under(children, b) # Under(children, a)
  BY <1>1, UnderIs
<1>3. IsFiniteSet(Under(children, a)) /\ IsFiniteSet(Under(children, b))
  BY <1>1, UnderIs, A2AAssumption, FS_Subset DEF A2AAssumption
<1>4. /\ Cardinality(Under(children, b)) <= Cardinality(Under(children, a))
      /\ Cardinality(Under(children, a)) # Cardinality(Under(children, b))
  BY <1>2, <1>3, FS_Subset
<1>5. Cardinality(Under(children, a)) \in Nat /\ Cardinality(Under(children, b)) \in Nat
  BY <1>3, FS_CardinalityType
<1> QED
  BY <1>4, <1>5

-----------------------------------------------------------------------------
(* The agents that speak *)

Sound(t) == t \in Tree /\ t.root = Root /\ ~Cyclic(t.children)

LEMMA MountedIsSound == \A t \in Mounted : Sound(t)
<1> TAKE t \in Mounted
<1>1. PICK c \in Catalogs : t = Built(c) /\ ~Cyclic(SubAgents(c))
  BY DEF Mounted
<1>2. DOMAIN c \subseteq Agents /\ Root \in Agents /\ \A a \in DOMAIN c : c[a].subs \in Seq(Agents)
  BY A2AAssumption DEF A2AAssumption, Skill
<1>3. << >> \in Seq(Agents)
  OBVIOUS
<1>4. \A a \in Agents : (IF a \in DOMAIN c THEN Only(c[a].subs, DOMAIN c) ELSE << >>) \in Seq(Agents)
  BY <1>2, <1>3, OnlyType
<1>5. SubAgents(c) \in [Agents -> Seq(Agents)]
  BY <1>4 DEF SubAgents
<1>6. t = [root |-> Root, children |-> SubAgents(c),
           sequential |-> {a \in DOMAIN c : c[a].sequential}]
  BY <1>1 DEF Built
<1>7. t \in Tree
  BY <1>2, <1>5, <1>6 DEF Tree
<1> QED
  BY <1>1, <1>6, <1>7 DEF Sound

LEMMA ReachableIs ==
  ASSUME NEW t, Sound(t)
  PROVE  /\ t.children \in [Agents -> Seq(Agents)] /\ t.root = Root /\ Root \in Agents
         /\ Reachable(t) \in SUBSET Agents /\ Root \in Reachable(t)
         /\ \A a \in Reachable(t) : /\ ToSet(t.children[a]) \subseteq Reachable(t)
                                    /\ a \notin Under(t.children, a)
<1>1. t.children \in [Agents -> Seq(Agents)] /\ t.root = Root /\ Root \in Agents
  BY A2AAssumption DEF Sound, Tree, A2AAssumption
<1>2. {Root} \in SUBSET Agents
  BY <1>1
<1>3. Reachable(t) \in SUBSET Agents /\ Root \in Reachable(t) /\ Closed(t.children, Reachable(t))
  BY <1>1, <1>2, ReachIs DEF Reachable
<1>4. \A a \in Reachable(t) : a \notin Under(t.children, a)
  BY <1>1 DEF Sound, Cyclic, Under, Reachable
<1> QED
  BY <1>1, <1>3, <1>4 DEF Closed

Words(t) == [Reachable(t) -> Seq(Agents) \ {<< >>}]

LeavesAt(t, f, a) ==
  IF t.children[a] = << >> THEN <<a>>
  ELSE FlattenSeq([i \in DOMAIN t.children[a] |-> f[t.children[a][i]]])

LEMMA LeavesAtType ==
  ASSUME NEW t, Sound(t), NEW f \in Words(t), NEW a \in Reachable(t)
  PROVE  /\ LeavesAt(t, f, a) \in Seq(Agents) \ {<< >>}
         /\ t.children[a] # << >> => /\ Last(t.children[a]) \in ToSet(t.children[a])
                                     /\ Last(LeavesAt(t, f, a)) = Last(f[Last(t.children[a])])
<1>1. a \in Agents /\ t.children[a] \in Seq(Agents) /\ ToSet(t.children[a]) \subseteq Reachable(t)
  BY ReachableIs
<1>2. CASE t.children[a] = << >>
  <2>1. <<a>> \in Seq(Agents) /\ <<a>> # << >>
    BY <1>1
  <2> QED
    BY <1>2, <2>1 DEF LeavesAt
<1>3. CASE t.children[a] # << >>
  <2>1. PICK subs \in Seq(Agents) : subs = t.children[a]
    BY <1>1
  <2>2. PICK parts : parts = [i \in DOMAIN subs |-> f[subs[i]]]
    OBVIOUS
  <2>3. /\ subs # << >> /\ DOMAIN subs = 1..Len(subs) /\ Len(subs) \in Nat /\ Len(subs) # 0
        /\ Last(subs) \in ToSet(subs)
    BY <1>3, <2>1, ToSetType
  <2>4. \A i \in 1..Len(subs) : f[subs[i]] \in Seq(Agents) /\ f[subs[i]] # << >>
    BY <1>1, <2>1, <2>3 DEF Words, ToSet
  <2>5. parts = [i \in 1..Len(subs) |-> f[subs[i]]]
    BY <2>2, <2>3
  <2>6. parts \in Seq(Seq(Agents)) /\ Len(parts) = Len(subs)
    BY <2>3, <2>4, <2>5
  <2>7. parts # << >> /\ \A i \in DOMAIN parts : parts[i] # << >>
    BY <2>3, <2>4, <2>5, <2>6
  <2>8. Last(parts) = f[Last(subs)]
    BY <2>3, <2>5, <2>6 DEF Last
  <2>9. LeavesAt(t, f, a) = FlattenSeq(parts)
    BY <1>3, <2>1, <2>2 DEF LeavesAt
  <2> QED
    BY <2>1, <2>3, <2>6, <2>7, <2>8, <2>9, Flattened
<1> QED
  BY <1>2, <1>3

\* What the levels below an agent do not change, its leaves do not notice.
LEMMA LeavesAtSame ==
  ASSUME NEW t, Sound(t), NEW f, NEW g, NEW a \in Reachable(t),
         \A b \in ToSet(t.children[a]) : f[b] = g[b]
  PROVE  LeavesAt(t, f, a) = LeavesAt(t, g, a)
<1>1. \A i \in DOMAIN t.children[a] : f[t.children[a][i]] = g[t.children[a][i]]
  BY DEF ToSet
<1>2. [i \in DOMAIN t.children[a] |-> f[t.children[a][i]]] =
        [i \in DOMAIN t.children[a] |-> g[t.children[a][i]]]
  BY <1>1
<1> QED
  BY <1>2 DEF LeavesAt

\* An assignment of leaves is found level by level, in as many as there are agents.
LEMMA LeavesExist ==
  ASSUME NEW t, Sound(t)
  PROVE  \E f \in Words(t) : f = [a \in Reachable(t) |-> LeavesAt(t, f, a)]
<1> DEFINE size(a) == Cardinality(Under(t.children, a))
<1>1. PICK base : base = [a \in Reachable(t) |-> <<a>>]
  OBVIOUS
<1>2. base \in Words(t)
  <2>1. \A a \in Agents : <<a>> \in Seq(Agents) /\ <<a>> # << >>
    OBVIOUS
  <2> QED
    BY <1>1, <2>1, ReachableIs DEF Words
<1>3. PICK step : step = [x \in Nat \X Words(t) |-> [a \in Reachable(t) |-> LeavesAt(t, x[2], a)]]
  OBVIOUS
<1>4. \A f \in Words(t) : [a \in Reachable(t) |-> LeavesAt(t, f, a)] \in Words(t)
  BY LeavesAtType DEF Words
<1>5. Stepping(Words(t), base, step)
  BY <1>2, <1>3, <1>4 DEF Stepping
<1>6. PICK g : Forever(g, Words(t), base, step)
  BY <1>5, Recursion
<1>7. /\ g \in [Nat -> Words(t)] /\ g[0] = base
      /\ \A n \in Nat : g[n + 1] = step[<<n + 1, g[n]>>]
  BY <1>6 DEF Forever
<1>8. ASSUME NEW n \in Nat PROVE g[n + 1] = [a \in Reachable(t) |-> LeavesAt(t, g[n], a)]
  <2>1. n + 1 \in Nat /\ g[n] \in Words(t)
    BY <1>7
  <2>2. PICK x \in Nat \X Words(t) : x = <<n + 1, g[n]>>
    BY <2>1
  <2>3. step[x] = [a \in Reachable(t) |-> LeavesAt(t, x[2], a)] /\ x[2] = g[n]
    BY <1>3, <2>2
  <2> QED
    BY <1>7, <2>2, <2>3
<1>9. \A a \in Reachable(t) : \A b \in ToSet(t.children[a]) :
        b \in Reachable(t) /\ size(a) \in Nat /\ size(b) \in Nat /\ size(b) < size(a)
  BY ReachableIs, FewerUnder
<1>10. \A a \in Reachable(t) : size(a) \in Nat /\ size(a) <= Cardinality(Agents)
  <2> TAKE a \in Reachable(t)
  <2>1. Under(t.children, a) \in SUBSET Agents /\ IsFiniteSet(Agents)
    BY ReachableIs, UnderIs, A2AAssumption DEF A2AAssumption
  <2>2. IsFiniteSet(Under(t.children, a)) /\ size(a) <= Cardinality(Agents)
    BY <2>1, FS_Subset
  <2> QED
    BY <2>2, FS_CardinalityType
<1> HIDE DEF size
<1>11. \A n \in Nat : \A a \in Reachable(t) : size(a) <= n => g[n][a] = g[n + 1][a]
  <2> DEFINE Bad == {n \in Nat : ~\A a \in Reachable(t) : size(a) <= n => g[n][a] = g[n + 1][a]}
  <2> SUFFICES ASSUME Bad # {} PROVE FALSE
    OBVIOUS
  <2>1. PICK n \in Bad : \A k \in Bad : n <= k
    <3>1. Bad \subseteq Nat
      OBVIOUS
    <3> QED
      BY <3>1, Least
  <2>2. PICK a \in Reachable(t) : size(a) <= n /\ g[n][a] # g[n + 1][a]
    BY <2>1
  <2>3. n \in Nat /\ g[n + 1][a] = LeavesAt(t, g[n], a)
    BY <1>8, <2>1
  <2>4. CASE n = 0
    <3>1. ToSet(t.children[a]) = {}
      <4> SUFFICES ASSUME NEW b \in ToSet(t.children[a]) PROVE FALSE
        OBVIOUS
      <4>1. size(a) \in Nat /\ size(b) \in Nat /\ size(b) < size(a) /\ size(a) <= 0
        BY <1>9, <2>2, <2>4
      <4> QED
        BY <4>1
    <3>2. t.children[a] = << >>
      <4>1. PICK subs \in Seq(Agents) : subs = t.children[a]
        BY ReachableIs
      <4> QED
        BY <3>1, <4>1, ToSetType
    <3> QED
      BY <1>1, <1>7, <2>2, <2>3, <2>4, <3>2 DEF LeavesAt
  <2>5. CASE n # 0
    <3>1. n - 1 \in Nat /\ n - 1 \notin Bad /\ (n - 1) + 1 = n
      BY <2>1, <2>3, <2>5
    <3>2. ASSUME NEW b \in ToSet(t.children[a]) PROVE g[n - 1][b] = g[n][b]
      <4>1. b \in Reachable(t) /\ size(a) \in Nat /\ size(b) \in Nat /\ size(b) < size(a)
        BY <1>9
      <4>2. size(b) <= n - 1
        BY <2>2, <2>3, <4>1
      <4> QED
        BY <3>1, <4>1, <4>2
    <3>3. g[n][a] = LeavesAt(t, g[n - 1], a)
      <4>1. g[(n - 1) + 1] = [b \in Reachable(t) |-> LeavesAt(t, g[n - 1], b)]
        BY <1>8, <3>1
      <4> QED
        BY <3>1, <4>1
    <3>4. LeavesAt(t, g[n - 1], a) = LeavesAt(t, g[n], a)
      BY <3>2, LeavesAtSame
    <3> QED
      BY <2>2, <2>3, <3>3, <3>4
  <2> QED
    BY <2>4, <2>5
<1>12. PICK top \in Nat : top = Cardinality(Agents)
  BY A2AAssumption, FS_CardinalityType DEF A2AAssumption
<1>13. \A a \in Reachable(t) : g[top][a] = g[top + 1][a]
  BY <1>10, <1>11, <1>12
<1>14. PICK f \in Words(t) : f = g[top]
  BY <1>7
<1>15. \A a \in Reachable(t) : f[a] = LeavesAt(t, f, a)
  BY <1>8, <1>13, <1>14
<1>16. f = [a \in Reachable(t) |-> f[a]]
  BY <1>14 DEF Words
<1>17. f = [a \in Reachable(t) |-> LeavesAt(t, f, a)]
  BY <1>15, <1>16
<1> QED
  BY <1>17

\* The root speaks first.  Last speaks the root, if it is alone, or an agent that
\* is the last child of another.
LEMMA OrderIs ==
  ASSUME NEW t, Sound(t)
  PROVE  /\ Order(t) \in Seq(Agents) /\ Len(Order(t)) \in Nat \ {0} /\ Order(t)[1] = Root
         /\ \/ Order(t)[Len(Order(t))] = Root
            \/ \E a \in Reachable(t) :
                 t.children[a] # << >> /\ Order(t)[Len(Order(t))] = Last(t.children[a])
<1> DEFINE size(a) == Cardinality(Under(t.children, a))
<1>1. PICK leaves : leaves = CHOOSE f : f = [a \in Reachable(t) |-> LeavesAt(t, f, a)]
  OBVIOUS
<1>2. leaves = [a \in Reachable(t) |-> LeavesAt(t, leaves, a)]
  BY <1>1, LeavesExist
<1>3. Order(t) = <<t.root>> \o (IF t.children[t.root] = << >> THEN << >> ELSE leaves[t.root])
  BY <1>1 DEF Order, LeavesAt
<1>4. /\ t.root = Root /\ Root \in Reachable(t) /\ Reachable(t) \in SUBSET Agents /\ Root \in Agents
      /\ t.children \in [Agents -> Seq(Agents)]
  BY ReachableIs
<1>5. \A a \in Reachable(t) : \A b \in ToSet(t.children[a]) :
        b \in Reachable(t) /\ size(a) \in Nat /\ size(b) \in Nat /\ size(b) < size(a)
  BY ReachableIs, FewerUnder
<1>6. \A a \in Reachable(t) : size(a) \in Nat
  BY ReachableIs, UnderIs, FS_Subset, FS_CardinalityType, A2AAssumption DEF A2AAssumption
<1> HIDE DEF size
<1> DEFINE Ends(a) ==
             /\ leaves[a] \in Seq(Agents) \ {<< >>}
             /\ t.children[a] # << >> =>
                  \E b \in Reachable(t) :
                    t.children[b] # << >> /\ Last(leaves[a]) = Last(t.children[b])
<1>7. ASSUME NEW a \in Reachable(t), \A b \in ToSet(t.children[a]) : Ends(b)
      PROVE  Ends(a)
  <2>1. PICK f : f = [b \in Reachable(t) |-> IF b \in ToSet(t.children[a]) THEN leaves[b] ELSE <<b>>]
    OBVIOUS
  <2>2. f \in Words(t)
    <3>1. \A b \in Agents : <<b>> \in Seq(Agents) \ {<< >>}
      OBVIOUS
    <3> QED
      BY <1>4, <1>7, <2>1, <3>1 DEF Words
  <2>3. \A b \in ToSet(t.children[a]) : f[b] = leaves[b]
    BY <1>5, <2>1
  <2>4. leaves[a] = LeavesAt(t, f, a)
    BY <1>2, <2>3, LeavesAtSame
  <2>5. leaves[a] \in Seq(Agents) \ {<< >>}
    BY <2>2, <2>4, LeavesAtType
  <2>6. ASSUME t.children[a] # << >>
        PROVE  \E b \in Reachable(t) :
                 t.children[b] # << >> /\ Last(leaves[a]) = Last(t.children[b])
    <3>1. PICK l : l = Last(t.children[a])
      OBVIOUS
    <3>2. l \in ToSet(t.children[a]) /\ Last(leaves[a]) = Last(leaves[l])
      BY <2>2, <2>3, <2>4, <2>6, <3>1, LeavesAtType
    <3>3. l \in Reachable(t)
      BY <1>5, <3>2
    <3>4. CASE t.children[l] = << >>
      <4>1. leaves[l] = <<l>>
        BY <1>2, <3>3, <3>4 DEF LeavesAt
      <4>2. Last(leaves[a]) = l
        BY <3>2, <4>1 DEF Last
      <4> QED
        BY <2>6, <3>1, <4>2
    <3>5. CASE t.children[l] # << >>
      BY <1>7, <3>2, <3>5
    <3> QED
      BY <3>4, <3>5
  <2> QED
    BY <2>5, <2>6
<1> HIDE DEF Ends
<1>8. \A a \in Reachable(t) : Ends(a)
  <2> DEFINE Bad == {n \in Nat : \E a \in Reachable(t) : size(a) = n /\ ~Ends(a)}
  <2> SUFFICES ASSUME NEW a \in Reachable(t), ~Ends(a) PROVE FALSE
    OBVIOUS
  <2>1. PICK n \in Bad : \A k \in Bad : n <= k
    <3>1. Bad \subseteq Nat /\ Bad # {}
      BY <1>6
    <3> QED
      BY <3>1, Least
  <2>2. PICK b \in Reachable(t) : size(b) = n /\ ~Ends(b)
    BY <2>1
  <2>3. ASSUME NEW c \in ToSet(t.children[b]) PROVE Ends(c)
    <3>1. c \in Reachable(t) /\ size(c) \in Nat /\ size(c) < n /\ n \in Nat
      BY <1>5, <2>2
    <3>2. size(c) \notin Bad
      BY <2>1, <3>1
    <3> QED
      BY <3>1, <3>2
  <2> QED
    BY <1>7, <2>2, <2>3
<1>9. CASE t.children[Root] = << >>
  <2>1. Order(t) = <<Root>> \o << >>
    BY <1>3, <1>4, <1>9
  <2>2. Order(t) = <<Root>>
    BY <1>4, <2>1
  <2>3. Order(t) \in Seq(Agents) /\ Len(Order(t)) = 1 /\ Order(t)[1] = Root
    BY <1>4, <2>2
  <2> QED
    BY <2>3
<1>10. CASE t.children[Root] # << >>
  <2>1. PICK u \in Seq(Agents) \ {<< >>} : u = leaves[Root]
    BY <1>4, <1>8 DEF Ends
  <2>2. Order(t) = <<Root>> \o u
    BY <1>3, <1>4, <1>10, <2>1
  <2>3. <<Root>> \in Seq(Agents) /\ Len(<<Root>>) = 1 /\ <<Root>>[1] = Root
    BY <1>4
  <2>4. Len(u) \in Nat /\ Len(u) # 0
    BY <2>1
  <2>5. PICK v \in Seq(Agents) : v = <<Root>>
    BY <2>3
  <2>6. /\ v \o u \in Seq(Agents) /\ Len(v \o u) = 1 + Len(u)
        /\ (v \o u)[1] = Root /\ (v \o u)[1 + Len(u)] = u[Len(u)]
    <3>1. v \o u \in Seq(Agents) /\ Len(v \o u) = Len(v) + Len(u)
      BY <2>1
    <3>2. (v \o u)[1] = v[1]
      BY <2>1, <2>3, <2>4, <2>5
    <3>3. 1 + Len(u) \in 1..(1 + Len(u)) /\ 1 + Len(u) > 1 /\ (1 + Len(u)) - 1 = Len(u)
      BY <2>4
    <3>4. (v \o u)[1 + Len(u)] = u[(1 + Len(u)) - 1]
      BY <2>1, <2>3, <2>4, <2>5, <3>3
    <3> QED
      BY <2>3, <2>5, <3>1, <3>2, <3>3, <3>4
  <2>7. \E b \in Reachable(t) : t.children[b] # << >> /\ Last(u) = Last(t.children[b])
    BY <1>4, <1>8, <1>10, <2>1 DEF Ends
  <2>8. Order(t) = v \o u /\ 1 + Len(u) \in Nat \ {0}
    BY <2>2, <2>4, <2>5
  <2>9. Last(u) = u[Len(u)]
    BY DEF Last
  <2> QED
    BY <2>6, <2>7, <2>8, <2>9
<1> QED
  BY <1>9, <1>10

\* No agent leads to the root, so it is not a step of a workflow.
LEMMA RootSpeaks ==
  ASSUME NEW t, Sound(t)
  PROVE  Root \notin Intermediates(t)
<1>1. /\ t.root = Root /\ Root \in Agents /\ Reachable(t) \in SUBSET Agents
      /\ t.children \in [Agents -> Seq(Agents)] /\ Root \notin Under(t.children, Root)
  BY ReachableIs
<1>2. Reachable(t) \subseteq {Root} \cup Under(t.children, Root)
  <2>1. Closed(t.children, {Root} \cup Under(t.children, Root))
    BY <1>1, UnderIs DEF Closed
  <2>2. PICK from \in SUBSET Agents : from = {Root} /\ Reachable(t) = Reach(t.children, from)
    BY <1>1 DEF Reachable
  <2>3. PICK S : S = {Root} \cup Under(t.children, Root)
    OBVIOUS
  <2>4. from \subseteq S /\ Closed(t.children, S)
    BY <2>1, <2>2, <2>3
  <2>5. PICK children \in [Agents -> Seq(Agents)] : children = t.children
    BY <1>1
  <2>6. \A T : from \subseteq T /\ Closed(children, T) => Reach(children, from) \subseteq T
    BY ReachIs
  <2> QED
    BY <2>2, <2>3, <2>4, <2>5, <2>6
<1>3. \A a \in Reachable(t) : ToSet(t.children[a]) \subseteq Under(t.children, Root)
  BY <1>1, <1>2, UnderIs DEF Closed
<1>4. ASSUME NEW s \in Seq(Agents) PROVE ToSet(Front(s)) \subseteq ToSet(s)
  BY DEF ToSet, Front
<1>5. \A a \in Reachable(t) : Root \notin ToSet(Front(t.children[a]))
  BY <1>1, <1>3, <1>4
<1> QED
  BY <1>5 DEF Intermediates

-----------------------------------------------------------------------------
(* Types, and the answer *)

\* A run is at a step of the order.
Staged(q) == q.pc \in {"load", "act"} => q.stage \in 1..Len(Order(tree))

TypedInv ==
  /\ TypeOK /\ tree \in Mounted
  /\ \A r \in Requests : IsFiniteSet(request[r].new) /\ Staged(request[r])

LEMMA OrderNow ==
  ASSUME TypedInv
  PROVE  /\ Order(tree) \in Seq(Agents) /\ Len(Order(tree)) \in Nat \ {0} /\ Sound(tree)
         /\ \A i \in 1..Len(Order(tree)) : Order(tree)[i] \in Agents
<1>1. Sound(tree)
  BY MountedIsSound DEF TypedInv
<1> QED
  BY <1>1, OrderIs

LEMMA NoRequestType == NoRequest \in Request /\ NoKeys \in Keys
<1>1. NoKeys \in Keys
  BY DEF NoKeys, Keys
<1>2. << >> \in Seq(Parts)
  OBVIOUS
<1> QED
  BY <1>1, <1>2 DEF NoRequest, Request

LEMMA OverType ==
  ASSUME NEW q \in Request, NEW how \in Ended
  PROVE  Over(q, how) \in Request /\ IsFiniteSet(Over(q, how).new) /\ Staged(Over(q, how))
<1>1. PICK p : p = Over(q, how)
  OBVIOUS
<1>2. p = [NoRequest EXCEPT !.pc = how, !.context = q.context, !.said = q.said, !.shown = q.shown]
  BY <1>1 DEF Over
<1>3. p \in Request
  BY <1>2, NoRequestType DEF Request
<1>4. p.new = {} /\ p.pc = how
  BY <1>1, OverFields
<1> QED
  BY <1>1, <1>3, <1>4, FS_EmptySet DEF Staged, Ended

LEMMA TypedInit == Init => TypedInv
<1> SUFFICES ASSUME Init PROVE TypedInv
  OBVIOUS
<1>1. \A r \in Requests : request[r] = NoRequest
  BY DEF Init
<1>2. NoRequest.new = {} /\ NoRequest.pc = "idle"
  BY NoRequestFields
<1>3. tree \in Mounted /\ tree \in Tree
  BY MountedIsSound DEF Init, Sound
<1>4. TypeOK
  BY <1>1, <1>3, NoRequestType DEF Init, TypeOK
<1> QED
  BY <1>1, <1>2, <1>3, <1>4, FS_EmptySet DEF TypedInv, Staged

\* Request r goes on as q.
LEMMA TypedStep ==
  ASSUME TypedInv, NEW r \in Requests, NEW q \in Request, IsFiniteSet(q.new), Staged(q),
         request' = [request EXCEPT ![r] = q], tree' = tree,
         exists' \subseteq Contexts, ids' \in [Contexts -> SUBSET Docs], app' \in [Homes -> Keys],
         artifacts' \subseteq Contexts \X Docs
  PROVE  TypedInv'
<1>1. request' \in [Requests -> Request] /\ \A s \in Requests : request'[s] \in {request[s], q}
  BY DEF TypedInv, TypeOK
<1>2. TypeOK'
  BY <1>1 DEF TypedInv, TypeOK
<1>3. \A s \in Requests : IsFiniteSet(request'[s].new)
  BY <1>1 DEF TypedInv
<1>4. \A s \in Requests :
        request'[s].pc \in {"load", "act"} => request'[s].stage \in 1..Len(Order(tree'))
  <2>1. \A s \in Requests :
          request'[s].pc \in {"load", "act"} => request'[s].stage \in 1..Len(Order(tree))
    BY <1>1 DEF TypedInv, Staged
  <2> QED
    BY <2>1
<1>5. (\A s \in Requests : IsFiniteSet(request[s].new) /\ Staged(request[s]))'
  BY <1>3, <1>4 DEF Staged
<1>6. tree' \in Mounted
  BY DEF TypedInv
<1> QED
  BY <1>2, <1>5, <1>6 DEF TypedInv

LEMMA TypedFacts ==
  ASSUME TypedInv, A2AInv, NEW r \in Requests, request[r].pc # "idle"
  PROVE  /\ request[r] \in Request /\ request[r].context \in Contexts /\ Home(request[r].context) \in Homes
         /\ IsFiniteSet(request[r].new) /\ Cardinality(request[r].new) \in Nat /\ Staged(request[r])
         /\ exists \subseteq Contexts /\ ids \in [Contexts -> SUBSET Docs] /\ app \in [Homes -> Keys]
         /\ artifacts \subseteq Contexts \X Docs
  BY HomeOf, FS_CardinalityType DEF TypedInv, TypeOK, A2AInv, Shape, Formed

LEMMA TypedExtract ==
  ASSUME TypedInv, A2AInv, NEW r \in Requests, ExtractPart(r)
  PROVE  TypedInv'
<1>1. PICK q : q = request[r]
  OBVIOUS
<1>2. q.pc = "extract" /\ q.parts # << >> /\ UNCHANGED <<exists, ids, app, tree>>
  BY <1>1 DEF ExtractPart
<1>3. /\ q \in Request /\ q.context \in Contexts /\ IsFiniteSet(q.new) /\ Cardinality(q.new) \in Nat
      /\ exists \subseteq Contexts /\ ids \in [Contexts -> SUBSET Docs] /\ app \in [Homes -> Keys]
      /\ artifacts \subseteq Contexts \X Docs
  BY <1>1, <1>2, TypedFacts
<1>4. PICK parts \in Seq(Parts) : parts = Tail(q.parts)
  <2>1. PICK s \in Seq(Parts) : s = q.parts /\ s # << >>
    BY <1>2, <1>3 DEF Request
  <2>2. Tail(s) \in Seq(Parts)
    BY <2>1
  <2> QED
    BY <2>1, <2>2
<1>5. PICK doc \in Docs : doc = <<r, "file", Cardinality(q.new)>>
  BY <1>3 DEF Docs
<1>6. \/ /\ artifacts' = artifacts \cup {<<q.context, doc>>}
         /\ request' = [request EXCEPT ![r] = [q EXCEPT !.parts = parts, !.new = q.new \cup {doc}]]
      \/ artifacts' = artifacts /\ request' = [request EXCEPT ![r] = Over(q, "failed")]
      \/ artifacts' = artifacts /\ request' = [request EXCEPT ![r] = [q EXCEPT !.parts = parts]]
      \/ artifacts' = artifacts
         /\ request' = [request EXCEPT ![r] = [q EXCEPT !.parts = parts, !.noted = TRUE]]
  <2>1. \/ SaveFile(r, "file")
        \/ UNCHANGED artifacts /\ Put(r, [request[r] EXCEPT !.parts = Tail(@)])
        \/ UNCHANGED artifacts /\ Put(r, [request[r] EXCEPT !.parts = Tail(@), !.noted = TRUE])
    BY DEF ExtractPart
  <2> QED
    BY <1>1, <1>4, <1>5, <2>1 DEF SaveFile, Put, Fail
<1>7. CASE /\ artifacts' = artifacts \cup {<<q.context, doc>>}
           /\ request' = [request EXCEPT ![r] = [q EXCEPT !.parts = parts, !.new = q.new \cup {doc}]]
  <2>1. PICK p : p = [q EXCEPT !.parts = parts, !.new = q.new \cup {doc}]
    OBVIOUS
  <2>2. p \in Request /\ p.new = q.new \cup {doc} /\ p.pc = "extract"
    BY <1>2, <1>3, <2>1 DEF Request
  <2>3. IsFiniteSet(p.new)
    <3>1. IsFiniteSet(q.new \cup {doc})
      BY <1>3, FS_AddElement
    <3> QED
      BY <2>2, <3>1
  <2>4. artifacts' \subseteq Contexts \X Docs
    BY <1>3, <1>7
  <2> QED
    BY <1>2, <1>3, <1>7, <2>1, <2>2, <2>3, <2>4, TypedStep DEF Staged
<1>8. CASE artifacts' = artifacts /\ request' = [request EXCEPT ![r] = Over(q, "failed")]
  BY <1>2, <1>3, <1>8, OverType, TypedStep DEF Ended
<1>9. CASE artifacts' = artifacts /\ request' = [request EXCEPT ![r] = [q EXCEPT !.parts = parts]]
  <2>1. PICK p : p = [q EXCEPT !.parts = parts]
    OBVIOUS
  <2>2. p \in Request /\ p.new = q.new /\ p.pc = "extract"
    BY <1>2, <1>3, <2>1 DEF Request
  <2> QED
    BY <1>2, <1>3, <1>9, <2>1, <2>2, TypedStep DEF Staged
<1>10. CASE artifacts' = artifacts
            /\ request' = [request EXCEPT ![r] = [q EXCEPT !.parts = parts, !.noted = TRUE]]
  <2>1. PICK p : p = [q EXCEPT !.parts = parts, !.noted = TRUE]
    OBVIOUS
  <2>2. p \in Request /\ p.new = q.new /\ p.pc = "extract"
    BY <1>2, <1>3, <2>1 DEF Request
  <2> QED
    BY <1>2, <1>3, <1>10, <2>1, <2>2, TypedStep DEF Staged
<1> QED
  BY <1>6, <1>7, <1>8, <1>9, <1>10

LEMMA TypedExtracted ==
  ASSUME TypedInv, A2AInv, NEW r \in Requests, Extracted(r)
  PROVE  TypedInv'
<1>1. PICK q : q = request[r]
  OBVIOUS
<1>2. q.pc = "extract" /\ UNCHANGED <<exists, ids, app, artifacts, tree>>
  BY <1>1 DEF Extracted
<1>3. /\ q \in Request /\ IsFiniteSet(q.new)
      /\ exists \subseteq Contexts /\ ids \in [Contexts -> SUBSET Docs] /\ app \in [Homes -> Keys]
      /\ artifacts \subseteq Contexts \X Docs
  BY <1>1, <1>2, TypedFacts
<1>4. PICK p : /\ request' = [request EXCEPT ![r] = p]
               /\ p = [q EXCEPT !.pc = "open", !.snapshot = None] \/ p = [q EXCEPT !.pc = "read"]
  BY <1>1 DEF Extracted, Injected, Put
<1>5. p \in Request /\ p.new = q.new /\ p.pc \in {"open", "read"}
  BY <1>3, <1>4 DEF Request
<1> QED
  BY <1>2, <1>3, <1>4, <1>5, TypedStep DEF Staged

LEMMA TypedRead ==
  ASSUME TypedInv, A2AInv, NEW r \in Requests, ReadSession(r)
  PROVE  TypedInv'
<1>1. PICK q : q = request[r]
  OBVIOUS
<1>2. q.pc = "read" /\ UNCHANGED <<exists, ids, app, artifacts, tree>>
  BY <1>1 DEF ReadSession
<1>3. /\ q \in Request /\ q.context \in Contexts /\ Home(q.context) \in Homes /\ IsFiniteSet(q.new)
      /\ exists \subseteq Contexts /\ ids \in [Contexts -> SUBSET Docs] /\ app \in [Homes -> Keys]
      /\ artifacts \subseteq Contexts \X Docs
  BY <1>1, <1>2, TypedFacts
<1>4. PICK now : now = [ids |-> ids[q.context], loaded |-> app[Home(q.context)].loaded]
  OBVIOUS
<1>5. now \in [ids : SUBSET Docs, loaded : SUBSET Docs]
  BY <1>3, <1>4 DEF Keys
<1>6. PICK p : /\ request' = [request EXCEPT ![r] = p]
               /\ \/ p = [q EXCEPT !.pc = "write", !.snapshot = now]
                  \/ p = [q EXCEPT !.pc = "write", !.snapshot = None]
  BY <1>1, <1>4 DEF ReadSession, Put
<1>7. p \in Request /\ p.new = q.new /\ p.pc = "write"
  BY <1>3, <1>5, <1>6, ZenonT(30) DEF Request
<1> QED
  BY <1>2, <1>3, <1>6, <1>7, TypedStep DEF Staged

LEMMA TypedInject ==
  ASSUME TypedInv, A2AInv, NEW r \in Requests, InjectIds(r)
  PROVE  TypedInv'
<1>1. PICK q, c : q = request[r] /\ c = q.context
  OBVIOUS
<1>2. q.pc = "write" /\ UNCHANGED <<artifacts, tree>>
  BY <1>1 DEF InjectIds
<1>3. /\ q \in Request /\ c \in Contexts /\ Home(c) \in Homes /\ IsFiniteSet(q.new)
      /\ exists \subseteq Contexts /\ ids \in [Contexts -> SUBSET Docs] /\ app \in [Homes -> Keys]
      /\ artifacts \subseteq Contexts \X Docs
  BY <1>1, <1>2, TypedFacts
<1>4. PICK p : /\ request' = [request EXCEPT ![r] = p]
               /\ \/ p = [q EXCEPT !.pc = "open", !.snapshot = None]
                  \/ p = [[q EXCEPT !.pc = "open", !.snapshot = None] EXCEPT !.new = {}]
  BY <1>1 DEF InjectIds, Injected, Put
<1>5. p \in Request /\ p.pc = "open" /\ p.new \in {q.new, {}}
  BY <1>3, <1>4 DEF Request
<1>6. IsFiniteSet(p.new)
  BY <1>3, <1>5, FS_EmptySet
<1>7. exists' \subseteq Contexts /\ ids' \in [Contexts -> SUBSET Docs] /\ app' \in [Homes -> Keys]
  <2>1. CASE UNCHANGED <<exists, ids, app>>
    BY <1>3, <2>1
  <2>2. CASE \E listed, loaded \in SUBSET Docs :
               /\ exists' \subseteq exists \cup {c}
               /\ ids' = [ids EXCEPT ![c] = listed]
               /\ app' = [app EXCEPT ![Home(c)].loaded = loaded]
    BY <1>3, <2>2 DEF Keys
  <2>3. CASE CreateSession(r)
    <3>1. q.new \in SUBSET Docs
      BY <1>3 DEF Request
    <3> QED
      BY <1>1, <2>2, <2>3, <3>1 DEF CreateSession
  <2>4. CASE AppendIds(r)
    <3>1. PICK listed, loaded : listed = q.snapshot.ids \cup q.new /\ loaded = q.snapshot.loaded \cup q.new
      OBVIOUS
    <3>2. listed \in SUBSET Docs /\ loaded \in SUBSET Docs
      <4>1. q.snapshot # None
        BY <1>1, <2>4 DEF AppendIds
      <4>2. q.snapshot \in [ids : SUBSET Docs, loaded : SUBSET Docs] /\ q.new \in SUBSET Docs
        BY <1>3, <4>1 DEF Request
      <4> QED
        BY <3>1, <4>2
    <3> QED
      BY <1>1, <2>2, <2>4, <3>1, <3>2 DEF AppendIds
  <2> QED
    BY <2>1, <2>3, <2>4 DEF InjectIds
<1> QED
  BY <1>2, <1>3, <1>4, <1>5, <1>6, <1>7, TypedStep DEF Staged

LEMMA TypedOpen ==
  ASSUME TypedInv, A2AInv, NEW r \in Requests, OpenRun(r)
  PROVE  TypedInv'
<1>1. PICK q, c : q = request[r] /\ c = q.context
  OBVIOUS
<1>2. q.pc = "open" /\ exists' = exists \cup {c} /\ UNCHANGED <<ids, app, artifacts, tree>>
  BY <1>1 DEF OpenRun
<1>3. /\ q \in Request /\ c \in Contexts /\ Home(c) \in Homes /\ IsFiniteSet(q.new)
      /\ exists \subseteq Contexts /\ ids \in [Contexts -> SUBSET Docs] /\ app \in [Homes -> Keys]
      /\ artifacts \subseteq Contexts \X Docs
  BY <1>1, <1>2, TypedFacts
<1>4. PICK p : /\ request' = [request EXCEPT ![r] = p]
               /\ p = [q EXCEPT !.pc = "load", !.stage = 1, !.ids = ids[c], !.keys = app[Home(c)]]
  BY <1>1 DEF OpenRun, Put
<1>5. p \in Request /\ p.new = q.new /\ p.stage = 1
  BY <1>3, <1>4 DEF Request
<1>6. 1 \in 1..Len(Order(tree))
  BY OrderNow
<1> QED
  BY <1>2, <1>3, <1>4, <1>5, <1>6, TypedStep DEF Staged

LEMMA TypedLoad ==
  ASSUME TypedInv, A2AInv, NEW r \in Requests, LoadDocuments(r)
  PROVE  TypedInv'
<1>1. PICK q, c : q = request[r] /\ c = q.context
  OBVIOUS
<1>2. q.pc = "load" /\ UNCHANGED <<exists, ids, artifacts, tree>>
  BY <1>1 DEF LoadDocuments
<1>3. /\ q \in Request /\ c \in Contexts /\ Home(c) \in Homes /\ IsFiniteSet(q.new) /\ Staged(q)
      /\ exists \subseteq Contexts /\ ids \in [Contexts -> SUBSET Docs] /\ app \in [Homes -> Keys]
      /\ artifacts \subseteq Contexts \X Docs
  BY <1>1, <1>2, TypedFacts
<1>4. PICK keys : keys = Loaded(q)
  OBVIOUS
<1>5. keys \in Keys
  <2>1. PICK loaded : loaded = {d \in q.keys.loaded : <<q.context, d>> \in artifacts}
    OBVIOUS
  <2>2. q.keys \in Keys /\ q.ids \in SUBSET Docs
    BY <1>3 DEF Request
  <2>3. loaded \in SUBSET Docs /\ q.keys.errors \cup (q.ids \ loaded) \in SUBSET Docs
    BY <2>1, <2>2 DEF Keys
  <2>4. \/ keys = [q.keys EXCEPT !.loaded = loaded]
        \/ keys = [loaded |-> loaded, errors |-> q.keys.errors \cup (q.ids \ loaded), emitted |-> None]
    BY <1>4, <2>1 DEF Loaded
  <2> QED
    BY <2>2, <2>3, <2>4 DEF Keys
<1>6. PICK cell :
        /\ app' = [app EXCEPT ![Home(c)] = cell]
        /\ cell = [loaded |-> keys.loaded,
                   errors |-> IF keys.errors # q.keys.errors THEN keys.errors ELSE app[Home(c)].errors,
                   emitted |-> IF keys.emitted # q.keys.emitted THEN None ELSE app[Home(c)].emitted]
  BY <1>1, <1>4 DEF LoadDocuments
<1>7. cell \in Keys /\ app' \in [Homes -> Keys]
  <2>1. app[Home(c)] \in Keys
    BY <1>3
  <2>2. cell \in Keys
    BY <1>5, <1>6, <2>1 DEF Keys
  <2> QED
    BY <1>3, <1>6, <2>2
<1>8. PICK p : /\ request' = [request EXCEPT ![r] = p]
               /\ p = [q EXCEPT !.pc = "act", !.keys = keys]
  BY <1>1, <1>4 DEF LoadDocuments, Put
<1>9. p \in Request /\ p.new = q.new /\ p.stage = q.stage
  BY <1>3, <1>5, <1>8 DEF Request
<1> QED
  BY <1>2, <1>3, <1>7, <1>8, <1>9, TypedStep DEF Staged

LEMMA TypedOrg ==
  ASSUME TypedInv, A2AInv, NEW r \in Requests, ReadOrgDocument(r)
  PROVE  TypedInv'
<1>1. PICK q, c : q = request[r] /\ c = q.context
  OBVIOUS
<1>2. q.pc = "act" /\ UNCHANGED <<exists, app, tree>>
  BY <1>1 DEF ReadOrgDocument
<1>3. /\ q \in Request /\ c \in Contexts /\ IsFiniteSet(q.new) /\ Staged(q)
      /\ exists \subseteq Contexts /\ ids \in [Contexts -> SUBSET Docs] /\ app \in [Homes -> Keys]
      /\ artifacts \subseteq Contexts \X Docs
  BY <1>1, <1>2, TypedFacts
<1>4. PICK doc \in Docs : doc = <<r, "org", q.org>>
  BY <1>3 DEF Docs, Request
<1>5. PICK p : /\ request' = [request EXCEPT ![r] = p]
               /\ p = [q EXCEPT !.org = q.org + 1, !.ids = q.ids \cup {doc}]
               /\ artifacts' = artifacts \cup {<<c, doc>>}
               /\ ids' = [ids EXCEPT ![c] = q.ids \cup {doc}]
  BY <1>1, <1>4 DEF ReadOrgDocument, Put
<1>6. p \in Request /\ p.new = q.new /\ p.stage = q.stage /\ p.pc = q.pc /\ q.ids \cup {doc} \in SUBSET Docs
  <2>1. PICK n, docs : n = q.org + 1 /\ docs = q.ids \cup {doc}
    OBVIOUS
  <2>2. n \in Nat /\ docs \in SUBSET Docs
    BY <1>3, <2>1 DEF Request
  <2>3. p = [q EXCEPT !.org = n, !.ids = docs]
    BY <1>5, <2>1
  <2>4. p \in Request /\ p.new = q.new /\ p.stage = q.stage /\ p.pc = q.pc
    BY <1>3, <2>2, <2>3 DEF Request
  <2> QED
    BY <2>1, <2>2, <2>4
<1>7. artifacts' \subseteq Contexts \X Docs /\ ids' \in [Contexts -> SUBSET Docs]
  BY <1>3, <1>5, <1>6
<1> QED
  BY <1>2, <1>3, <1>5, <1>6, <1>7, TypedStep DEF Staged

\* What an agent's turn makes of a request, but for its end.
Turn(q, p, r) ==
  LET author == Order(tree)[q.stage]
      shown == IF Shown(tree, author) THEN q.shown \cup {author} ELSE q.shown IN
  \/ p = [q EXCEPT !.said = author, !.shown = shown]
  \/ p = [[q EXCEPT !.said = author, !.shown = shown] EXCEPT !.keys.emitted = r]

LEMMA ActIs ==
  ASSUME NEW r \in Requests, Act(r), NEW q, q = request[r]
  PROVE  /\ q.pc = "act" /\ UNCHANGED <<exists, ids, artifacts, tree>>
         /\ app' = app \/ app' = [app EXCEPT ![Home(q.context)].emitted = r]
         /\ \/ request' = [request EXCEPT ![r] = Over(q, "failed")]
            \/ \E p : Turn(q, p, r) /\ request' = [request EXCEPT ![r] = After(p)]
<1> DEFINE author == Order(tree)[q.stage]
           shown == IF Shown(tree, author) THEN q.shown \cup {author} ELSE q.shown
           spoken == [q EXCEPT !.said = author, !.shown = shown]
           emitting == [spoken EXCEPT !.keys.emitted = r]
           emits == q.stage = 2 /\ q.keys.emitted = None
<1>1. /\ q.pc = "act" /\ UNCHANGED <<exists, ids, artifacts, tree>>
      /\ \/ /\ request' = [request EXCEPT ![r] = After(IF emits THEN emitting ELSE spoken)]
            /\ app' = IF emits THEN [app EXCEPT ![Home(q.context)].emitted = r] ELSE app
         \/ request' = [request EXCEPT ![r] = Over(q, "failed")] /\ app' = app
  BY DEF Act, Put, Fail
<1>2. Turn(q, spoken, r) /\ Turn(q, emitting, r)
  BY DEF Turn
<1> HIDE DEF spoken, emitting, emits
<1> QED
  BY <1>1, <1>2

LEMMA TurnIs ==
  ASSUME TypedInv, NEW r \in Requests, NEW q \in Request, q.pc = "act", Staged(q), NEW p, Turn(q, p, r)
  PROVE  /\ p \in Request /\ p.new = q.new /\ p.stage = q.stage
         /\ p.said = Order(tree)[q.stage] /\ (Shown(tree, p.said) => p.said \in p.shown)
<1>1. PICK author \in Agents : author = Order(tree)[q.stage]
  BY OrderNow DEF Staged
<1>2. PICK shown : shown = IF Shown(tree, author) THEN q.shown \cup {author} ELSE q.shown
  OBVIOUS
<1>3. q.shown \in SUBSET Agents /\ q.keys \in Keys
  BY DEF Request
<1>4. shown \in SUBSET Agents /\ (Shown(tree, author) => author \in shown)
  BY <1>2, <1>3
<1>5. PICK said : said = [q EXCEPT !.said = author, !.shown = shown]
  OBVIOUS
<1>6. /\ said \in Request /\ said.new = q.new /\ said.stage = q.stage
      /\ said.said = author /\ said.shown = shown /\ said.keys = q.keys
  BY <1>4, <1>5 DEF Request
<1>7. p = said \/ p = [said EXCEPT !.keys.emitted = r]
  BY <1>1, <1>2, <1>5 DEF Turn
<1>8. CASE p = said
  BY <1>1, <1>4, <1>6, <1>8
<1>9. CASE p = [said EXCEPT !.keys.emitted = r]
  <2>1. PICK keys \in Keys : keys = [said.keys EXCEPT !.emitted = r]
    BY <1>3, <1>6 DEF Keys
  <2>2. p = [said EXCEPT !.keys = keys]
    BY <1>9, <2>1
  <2>3. p \in Request /\ p.new = q.new /\ p.stage = q.stage /\ p.said = author /\ p.shown = shown
    BY <1>6, <2>2 DEF Request
  <2> QED
    BY <1>1, <1>4, <2>3
<1> QED
  BY <1>7, <1>8, <1>9

\* A turn ends at the last stage, or after the root where the gate is closed.
LEMMA AfterIs ==
  ASSUME TypedInv, NEW p \in Request, p.stage \in 1..Len(Order(tree)), IsFiniteSet(p.new)
  PROVE  /\ After(p) \in Request /\ IsFiniteSet(After(p).new) /\ Staged(After(p))
         /\ \/ After(p).pc = "load"
            \/ /\ After(p) = Over(p, "ok")
               /\ p.stage = Len(Order(tree)) \/ p.stage = 1
<1>1. CASE p.stage = Len(Order(tree)) \/ (p.stage = 1 /\ p.keys.loaded = {})
  BY <1>1, OverType DEF After, Ended
<1>2. CASE ~(p.stage = Len(Order(tree)) \/ (p.stage = 1 /\ p.keys.loaded = {}))
  <2>1. PICK n : n = p.stage + 1
    OBVIOUS
  <2>2. n \in Nat /\ n \in 1..Len(Order(tree))
    BY <1>2, <2>1, OrderNow
  <2>3. After(p) = [p EXCEPT !.pc = "load", !.stage = n]
    BY <1>2, <2>1 DEF After
  <2>4. PICK a : a = After(p)
    OBVIOUS
  <2>5. a \in Request /\ a.new = p.new /\ a.stage = n /\ a.pc = "load"
    BY <2>2, <2>3, <2>4 DEF Request
  <2> QED
    BY <2>2, <2>4, <2>5 DEF Staged
<1> QED
  BY <1>1, <1>2

LEMMA TypedAct ==
  ASSUME TypedInv, A2AInv, NEW r \in Requests, Act(r)
  PROVE  TypedInv'
<1>1. PICK q : q = request[r]
  OBVIOUS
<1>2. /\ q.pc = "act" /\ UNCHANGED <<exists, ids, artifacts, tree>>
      /\ app' = app \/ app' = [app EXCEPT ![Home(q.context)].emitted = r]
      /\ \/ request' = [request EXCEPT ![r] = Over(q, "failed")]
         \/ \E p : Turn(q, p, r) /\ request' = [request EXCEPT ![r] = After(p)]
  BY <1>1, ActIs
<1>3. /\ q \in Request /\ Home(q.context) \in Homes /\ IsFiniteSet(q.new) /\ Staged(q)
      /\ exists \subseteq Contexts /\ ids \in [Contexts -> SUBSET Docs] /\ app \in [Homes -> Keys]
      /\ artifacts \subseteq Contexts \X Docs
  BY <1>1, <1>2, TypedFacts
<1>4. app' \in [Homes -> Keys]
  BY <1>2, <1>3 DEF Keys
<1>5. CASE request' = [request EXCEPT ![r] = Over(q, "failed")]
  BY <1>2, <1>3, <1>4, <1>5, OverType, TypedStep DEF Ended
<1>6. CASE \E p : Turn(q, p, r) /\ request' = [request EXCEPT ![r] = After(p)]
  <2>1. PICK p : Turn(q, p, r) /\ request' = [request EXCEPT ![r] = After(p)]
    BY <1>6
  <2>2. p \in Request /\ p.new = q.new /\ p.stage = q.stage
    BY <1>2, <1>3, <2>1, TurnIs
  <2>3. p.stage \in 1..Len(Order(tree)) /\ IsFiniteSet(p.new)
    BY <1>2, <1>3, <2>2 DEF Staged
  <2>4. PICK a : a = After(p)
    OBVIOUS
  <2>5. a \in Request /\ IsFiniteSet(a.new) /\ Staged(a)
    BY <2>2, <2>3, <2>4, AfterIs
  <2> QED
    BY <1>2, <1>3, <1>4, <2>1, <2>4, <2>5, TypedStep
<1> QED
  BY <1>2, <1>5, <1>6

LEMMA ArriveIs ==
  ASSUME NEW r \in Requests, NEW m \in Messages, Arrive(r, m)
  PROVE  \E pc, parts, q :
           /\ request' = [request EXCEPT ![r] = q]
           /\ pc = IF AuthRequired /\ ~m.authed THEN "denied"
                   ELSE IF FileInput /\ m.parts # << >> THEN "extract" ELSE "open"
           /\ parts = IF FileInput /\ (AuthRequired => m.authed) THEN m.parts ELSE << >>
           /\ q = [NoRequest EXCEPT !.pc = pc, !.context = m.context, !.parts = parts]
  BY DEF Arrive, Put

LEMMA TypedArrive ==
  ASSUME TypedInv, NEW r \in Requests, NEW m \in Messages, Arrive(r, m)
  PROVE  TypedInv'
<1>1. m.context \in Contexts /\ m.parts \in Seq(Parts)
  BY A2AAssumption DEF A2AAssumption, Message
<1>2. PICK pc, parts, q :
        /\ request' = [request EXCEPT ![r] = q]
        /\ pc = IF AuthRequired /\ ~m.authed THEN "denied"
                ELSE IF FileInput /\ m.parts # << >> THEN "extract" ELSE "open"
        /\ parts = IF FileInput /\ (AuthRequired => m.authed) THEN m.parts ELSE << >>
        /\ q = [NoRequest EXCEPT !.pc = pc, !.context = m.context, !.parts = parts]
  BY ArriveIs
<1>3. pc \in {"denied", "extract", "open"} /\ parts \in Seq(Parts)
  <2>1. << >> \in Seq(Parts)
    OBVIOUS
  <2> QED
    BY <1>1, <1>2, <2>1
<1>4. q \in Request /\ q.new = NoRequest.new /\ q.pc = pc
  BY <1>1, <1>2, <1>3, NoRequestType, ZenonT(30) DEF Request, Ended
<1>5. IsFiniteSet(q.new) /\ Staged(q)
  BY <1>3, <1>4, NoRequestFields, FS_EmptySet DEF Staged
<1>6. UNCHANGED <<exists, ids, app, artifacts, tree>>
  BY DEF Arrive
<1> QED
  BY <1>2, <1>4, <1>5, <1>6, TypedStep DEF TypedInv, TypeOK

LEMMA TypedNext == TypedInv /\ A2AInv /\ [Next]_vars => TypedInv'
<1> SUFFICES ASSUME TypedInv, A2AInv, [Next]_vars PROVE TypedInv'
  OBVIOUS
<1>1. ASSUME NEW r \in Requests, Handle(r) PROVE TypedInv'
  BY <1>1, TypedExtract, TypedExtracted, TypedRead, TypedInject, TypedOpen, TypedLoad, TypedOrg, TypedAct
  DEF Handle
<1>2. ASSUME NEW r \in Requests, NEW m \in Messages, Arrive(r, m) PROVE TypedInv'
  BY <1>2, TypedArrive
<1>3. CASE UNCHANGED vars
  BY <1>3 DEF vars, TypedInv, TypeOK, Staged
<1> QED
  BY <1>1, <1>2, <1>3 DEF Next

\* The state keeps its types, for any catalogue of skills.
THEOREM TypeCorrect == Spec => []TypeOK
<1>1. TypedInv => TypeOK
  BY DEF TypedInv
<1> QED
  BY <1>1, TypedInit, TypedNext, Inductive, PTL DEF Spec

-----------------------------------------------------------------------------
(* The answer *)

\* The last step of an agent is nowhere in the tree a step before the last: the
\* filter knows agents by their names alone.
LastStepsAreLast ==
  \A t \in Mounted : \A a \in Reachable(t) :
    t.children[a] # << >> => Last(t.children[a]) \notin Intermediates(t)

LEMMA EndsAreShown ==
  ASSUME LastStepsAreLast, TypedInv, NEW n, n = Len(Order(tree)) \/ n = 1
  PROVE  Shown(tree, Order(tree)[n])
<1>1. Sound(tree) /\ tree \in Mounted
  BY OrderNow DEF TypedInv
<1> QED
  BY <1>1, OrderIs, RootSpeaks DEF Shown, LastStepsAreLast

\* Only an agent's turn ends a request well.
LEMMA OthersGoOn ==
  ASSUME TypedInv, NEW r \in Requests,
         \/ ExtractPart(r) \/ Extracted(r) \/ ReadSession(r) \/ InjectIds(r)
         \/ OpenRun(r) \/ LoadDocuments(r) \/ ReadOrgDocument(r)
         \/ \E m \in Messages : Arrive(r, m)
  PROVE  \E q : request' = [request EXCEPT ![r] = q] /\ q.pc # "ok"
<1>1. PICK old \in Request : old = request[r]
  BY DEF TypedInv, TypeOK
<1>2. CASE ExtractPart(r)
  <2>1. PICK parts, new :
          \/ request' = [request EXCEPT ![r] = [old EXCEPT !.parts = parts, !.new = new]]
          \/ request' = [request EXCEPT ![r] = Over(old, "failed")]
          \/ request' = [request EXCEPT ![r] = [old EXCEPT !.parts = parts]]
          \/ request' = [request EXCEPT ![r] = [old EXCEPT !.parts = parts, !.noted = TRUE]]
    BY <1>1, <1>2 DEF ExtractPart, SaveFile, Put, Fail
  <2>2. /\ [old EXCEPT !.parts = parts, !.new = new].pc = old.pc
        /\ [old EXCEPT !.parts = parts].pc = old.pc
        /\ [old EXCEPT !.parts = parts, !.noted = TRUE].pc = old.pc
        /\ Over(old, "failed").pc = "failed"
    BY OverFields DEF Request
  <2>3. old.pc = "extract"
    BY <1>1, <1>2 DEF ExtractPart
  <2> QED
    BY <2>1, <2>2, <2>3
<1>3. CASE Extracted(r)
  <2>1. PICK q : /\ request' = [request EXCEPT ![r] = q]
               /\ \/ q = [old EXCEPT !.pc = "open", !.snapshot = None]
                  \/ q = [old EXCEPT !.pc = "read"]
    BY <1>1, <1>3 DEF Extracted, Injected, Put
  <2>2. q.pc # "ok"
    BY <2>1 DEF Request
  <2> QED
    BY <2>1, <2>2
<1>4. CASE ReadSession(r)
  <2>1. PICK q : /\ request' = [request EXCEPT ![r] = q]
               /\ \E snapshot : q = [old EXCEPT !.pc = "write", !.snapshot = snapshot]
    BY <1>1, <1>4 DEF ReadSession, Put
  <2>2. q.pc # "ok"
    BY <2>1 DEF Request
  <2> QED
    BY <2>1, <2>2
<1>5. CASE InjectIds(r)
  <2>1. PICK q : /\ request' = [request EXCEPT ![r] = q]
               /\ \/ q = [old EXCEPT !.pc = "open", !.snapshot = None]
                  \/ q = [[old EXCEPT !.pc = "open", !.snapshot = None] EXCEPT !.new = {}]
    BY <1>1, <1>5 DEF InjectIds, Injected, Put
  <2>2. q.pc # "ok"
    BY <2>1 DEF Request
  <2> QED
    BY <2>1, <2>2
<1>6. CASE OpenRun(r)
  <2>1. PICK q : /\ request' = [request EXCEPT ![r] = q]
               /\ \E listed, keys :
                    q = [old EXCEPT !.pc = "load", !.stage = 1, !.ids = listed, !.keys = keys]
    BY <1>1, <1>6 DEF OpenRun, Put
  <2>2. q.pc # "ok"
    BY <2>1 DEF Request
  <2> QED
    BY <2>1, <2>2
<1>7. CASE LoadDocuments(r)
  <2>1. PICK q : /\ request' = [request EXCEPT ![r] = q]
               /\ \E keys : q = [old EXCEPT !.pc = "act", !.keys = keys]
    BY <1>1, <1>7 DEF LoadDocuments, Put
  <2>2. q.pc # "ok"
    BY <2>1 DEF Request
  <2> QED
    BY <2>1, <2>2
<1>8. CASE ReadOrgDocument(r)
  <2>1. PICK q : /\ request' = [request EXCEPT ![r] = q]
               /\ old.pc = "act" /\ \E org, listed : q = [old EXCEPT !.org = org, !.ids = listed]
    BY <1>1, <1>8, ZenonT(30) DEF ReadOrgDocument, Put
  <2>2. q.pc # "ok"
    BY <2>1 DEF Request
  <2> QED
    BY <2>1, <2>2
<1>9. CASE \E m \in Messages : Arrive(r, m)
  <2>0. PICK m \in Messages : Arrive(r, m)
    BY <1>9
  <2>1. PICK pc, parts, q :
          /\ request' = [request EXCEPT ![r] = q]
          /\ pc = IF AuthRequired /\ ~m.authed THEN "denied"
                  ELSE IF FileInput /\ m.parts # << >> THEN "extract" ELSE "open"
          /\ parts = IF FileInput /\ (AuthRequired => m.authed) THEN m.parts ELSE << >>
          /\ q = [NoRequest EXCEPT !.pc = pc, !.context = m.context, !.parts = parts]
    BY <2>0, ArriveIs
  <2>2. q.pc # "ok"
    BY <2>1 DEF NoRequest
  <2> QED
    BY <2>1, <2>2
<1> QED
  BY <1>2, <1>3, <1>4, <1>5, <1>6, <1>7, <1>8, <1>9

\* Only a turn that succeeds ends well.
LEMMA AnswerStep ==
  ASSUME LastStepsAreLast, TypedInv, A2AInv, AnswerReachesPeer, [Next]_vars
  PROVE  AnswerReachesPeer'
<1> SUFFICES ASSUME NEW s \in Requests, request'[s].pc = "ok"
             PROVE  request'[s].said \in request'[s].shown
  BY DEF AnswerReachesPeer
<1>1. CASE request'[s] = request[s]
  BY <1>1 DEF AnswerReachesPeer
<1>3. ASSUME NEW r \in Requests, Act(r), s = r PROVE request'[s].said \in request'[s].shown
  <2>1. PICK q : q = request[r]
    OBVIOUS
  <2>2. /\ q.pc = "act"
        /\ \/ request' = [request EXCEPT ![r] = Over(q, "failed")]
           \/ \E p : Turn(q, p, r) /\ request' = [request EXCEPT ![r] = After(p)]
    BY <1>3, <2>1, ActIs
  <2>3. q \in Request /\ IsFiniteSet(q.new) /\ Staged(q)
    BY <2>1, <2>2, TypedFacts
  <2>4. DOMAIN request = Requests
    BY DEF TypedInv, TypeOK
  <2>5. PICK p : Turn(q, p, r) /\ request'[s] = After(p)
    <3>1. Over(q, "failed").pc # "ok"
      BY OverFields
    <3> QED
      BY <1>3, <2>2, <2>4, <3>1
  <2>6. /\ p \in Request /\ p.new = q.new /\ p.stage = q.stage
        /\ p.said = Order(tree)[q.stage] /\ (Shown(tree, p.said) => p.said \in p.shown)
    BY <2>2, <2>3, <2>5, TurnIs
  <2>7. After(p) = Over(p, "ok") /\ (p.stage = Len(Order(tree)) \/ p.stage = 1)
    <3>1. p.stage \in 1..Len(Order(tree)) /\ IsFiniteSet(p.new)
      BY <2>2, <2>3, <2>6 DEF Staged
    <3>2. After(p).pc = "ok"
      BY <2>5
    <3> QED
      BY <2>6, <3>1, <3>2, AfterIs
  <2>8. Shown(tree, Order(tree)[p.stage])
    BY <2>7, EndsAreShown
  <2>9. After(p).said = p.said /\ After(p).shown = p.shown
    BY <2>7 DEF Over, NoRequest
  <2> QED
    BY <2>5, <2>6, <2>8, <2>9
<1>4. ASSUME NEW r \in Requests, Handle(r) \/ \E m \in Messages : Arrive(r, m)
      PROVE  request'[s] = request[s] \/ (s = r /\ Act(r))
  <2>1. DOMAIN request = Requests
    BY DEF TypedInv, TypeOK
  <2>2. CASE Act(r)
    BY <2>1, <2>2 DEF Act, Put, Fail
  <2>3. CASE ~Act(r)
    <3>1. PICK q : request' = [request EXCEPT ![r] = q] /\ q.pc # "ok"
      BY <1>4, <2>3, OthersGoOn DEF Handle
    <3> QED
      BY <2>1, <3>1
  <2> QED
    BY <2>2, <2>3
<1> QED
  BY <1>1, <1>3, <1>4 DEF Next, vars

\* The last word of a turn that succeeds reaches the peer, whatever the shape of
\* the tree, if no last step is elsewhere a step before the last.
THEOREM AnswersArrive == LastStepsAreLast => (Spec => []AnswerReachesPeer)
<1> SUFFICES ASSUME LastStepsAreLast PROVE Spec => []AnswerReachesPeer
  OBVIOUS
<1>1. Init => AnswerReachesPeer
  BY NoRequestFields DEF Init, AnswerReachesPeer
<1>2. TypedInv /\ A2AInv /\ AnswerReachesPeer /\ [Next]_vars => AnswerReachesPeer'
  BY AnswerStep
<1>3. Spec => []TypedInv
  BY TypedInit, TypedNext, Inductive, PTL DEF Spec
<1> QED
  BY <1>1, <1>2, <1>3, Inductive, PTL DEF Spec
=============================================================================
