---------------------------- MODULE SessionsProofs ----------------------------
(* Proofs about Sessions: types, the documents of a turn, the pushes it reads *)
(* and how often a row can be lost, for every set of users, sessions,         *)
(* documents, servers and surfaces, every finite set of instances and every   *)
(* bound.                                                                     *)
EXTENDS Sessions, FiniteSetTheorems, TLAPS

\* A push that passed its checks and a turn that runs have their session: no
\* action takes one away.
Grounded ==
  /\ \A x \in pushing : stored[x.place] \in State
  /\ \A p \in Places : turn[p] # None => stored[p] \in State

\* The types, of the rows and those who write them, and of the rest.
RowTypes ==
  /\ rows \in [Sids -> Row \cup {None}]
  /\ creating \in [Instances -> Creation \cup {None}]
  /\ created \in [Sids -> Nat]

PlaceTypes ==
  /\ stored \in [Places -> State \cup {None}]
  /\ booting \subseteq Places
  /\ pushing \subseteq [place : Places, key : Keys, no : 1..MaxPushes]
  /\ turn \in [Places -> Turn \cup {None}]
  /\ mirror \in [Places -> Mirror]
  /\ pushes \in 0..MaxPushes /\ turns \in 0..MaxTurns

\* What a turn asks for while it waits for its row.
Waits(c) == c.for = "turn" => c.no \in 1..MaxTurns /\ (c.ticked # {} => c.docs = c.ticked)

\* The instances about to write the row of a session.
Writers(s) == {i \in Instances : creating[i] # None /\ creating[i].place[2] = s}

\* A row that is there has been written by instances that are not about to write
\* it: each writes once, for it found none.
RowInv ==
  /\ \A i \in Instances : creating[i] # None => Waits(creating[i])
  /\ \A s \in Sids : IF rows[s] = None THEN created[s] = 0
                     ELSE /\ created[s] # 0
                          /\ created[s] + Cardinality(Writers(s)) <= Cardinality(Instances)

SessionInv == TypeOK /\ Grounded /\ RowInv

LEMMA TypeParts == (TypeOK <=> RowTypes /\ PlaceTypes) /\ (TypeOK' <=> RowTypes' /\ PlaceTypes')
  BY DEF TypeOK, RowTypes, PlaceTypes

LEMMA EmptyState == Empty \in State
  BY SessionsAssumption DEF Empty, State

LEMMA MirrorOfState == \A state \in State : MirrorOf(state) \in Mirror
  BY DEF MirrorOf, Mirror, State

LEMMA InitInv == Init => SessionInv
<1> SUFFICES ASSUME Init PROVE SessionInv
  OBVIOUS
<1>1. MirrorOf(Empty) \in Mirror
  BY EmptyState, MirrorOfState
<1>2. TypeOK
  BY <1>1, SessionsAssumption DEF Init, TypeOK
<1>3. Grounded
  BY DEF Init, Grounded
<1>4. RowInv
  BY DEF Init, RowInv
<1> QED
  BY <1>2, <1>3, <1>4 DEF SessionInv

-----------------------------------------------------------------------------
(* The rows: each step leaves them, looks, writes, or updates one. *)

Looks(i, c) ==
  /\ creating[i] = None /\ rows[c.place[2]] = None
  /\ Waits(c) /\ WillWrite(i, c)

Writes(i) ==
  /\ creating[i] # None
  /\ creating' = [creating EXCEPT ![i] = None]
  /\ \/ \E shared \in BOOLEAN : Written(creating[i].place, creating[i].docs, shared)
     \/ UNCHANGED <<rows, created>>

\* An update that leaves the owner and every document.
Updates(s) ==
  /\ rows[s] # None /\ UNCHANGED <<creating, created>>
  /\ \E row \in Row : /\ rows' = [rows EXCEPT ![s] = row]
                     /\ row.owner = rows[s].owner /\ rows[s].docs \subseteq row.docs

RowStep ==
  \/ UNCHANGED <<rows, creating, created>>
  \/ \E i \in Instances, c \in Creation : Looks(i, c)
  \/ \E i \in Instances : Writes(i)
  \/ \E s \in Sids : Updates(s)

\* Of two sets of instances, the one with one fewer.
LEMMA OneFewer ==
  ASSUME NEW S \in SUBSET Instances, NEW i \in S
  PROVE  /\ Cardinality(S) \in Nat /\ Cardinality(Instances) \in Nat
         /\ Cardinality(S) <= Cardinality(Instances)
         /\ Cardinality(S \ {i}) = Cardinality(S) - 1
<1>1. IsFiniteSet(S) /\ Cardinality(S) <= Cardinality(Instances)
  BY SessionsAssumption, FS_Subset
<1>2. Cardinality(S) \in Nat /\ Cardinality(Instances) \in Nat
  BY <1>1, SessionsAssumption, FS_CardinalityType
<1> QED
  BY <1>1, <1>2, FS_RemoveElement

\* Who writes a row is one writer fewer of that row and of no other.
LEMMA WritersLess ==
  ASSUME RowTypes, NEW i \in Instances, creating[i] # None,
         creating' = [creating EXCEPT ![i] = None], NEW s \in Sids
  PROVE  Writers(s)' = IF creating[i].place[2] = s THEN Writers(s) \ {i} ELSE Writers(s)
  BY DEF Writers, RowTypes

\* A look adds a writer only where there is no row.
LEMMA WritersMore ==
  ASSUME RowTypes, NEW i \in Instances, NEW c, Looks(i, c), NEW s \in Sids, rows[s] # None
  PROVE  Writers(s)' = Writers(s)
  BY DEF Writers, RowTypes, Looks, WillWrite

LEMMA WrittenRow ==
  ASSUME RowTypes, NEW c \in Creation, NEW shared \in BOOLEAN, Written(c.place, c.docs, shared)
  PROVE  \E row \in Row :
           /\ row # None /\ c.place[2] \in Sids
           /\ rows' = [rows EXCEPT ![c.place[2]] = row]
           /\ created' = [created EXCEPT ![c.place[2]] = created[c.place[2]] + 1]
<1> DEFINE row == [owner |-> c.place[1], shared |-> shared, docs |-> c.docs]
<1>1. c.place[1] \in Users /\ c.place[2] \in Sids /\ c.docs \in SUBSET Docs
  BY DEF Creation, Places
<1>2. row \in Row /\ row # None
  BY <1>1, NoneAssumption DEF Row
<1>3. /\ rows' = [rows EXCEPT ![c.place[2]] = row]
      /\ created' = [created EXCEPT ![c.place[2]] = created[c.place[2]] + 1]
  BY DEF Written
<1> HIDE DEF row
<1> QED
  BY <1>1, <1>2, <1>3

LEMMA RowStepKeeps ==
  ASSUME RowTypes, RowInv, RowStep
  PROVE  RowTypes' /\ RowInv'
<1>1. CASE UNCHANGED <<rows, creating, created>>
  BY <1>1 DEF RowTypes, RowInv, Writers
<1>2. ASSUME NEW i \in Instances, NEW c \in Creation, Looks(i, c)
      PROVE  RowTypes' /\ RowInv'
  <2>1. /\ creating' = [creating EXCEPT ![i] = c] /\ UNCHANGED <<rows, created>> /\ Waits(c)
    BY <1>2 DEF Looks, WillWrite
  <2>2. RowTypes'
    BY <2>1 DEF RowTypes
  <2>3. \A j \in Instances : creating'[j] # None => Waits(creating'[j])
    BY <2>1 DEF RowInv, RowTypes
  <2>4. \A s \in Sids : rows[s] # None => Writers(s)' = Writers(s)
    BY <1>2, WritersMore
  <2> QED
    BY <2>1, <2>2, <2>3, <2>4 DEF RowInv, Waits
<1>3. ASSUME NEW i \in Instances, Writes(i)
      PROVE  RowTypes' /\ RowInv'
  <2> DEFINE c == creating[i]
             at == c.place[2]
  <2>1. /\ c # None /\ c \in Creation /\ creating' = [creating EXCEPT ![i] = None]
        /\ at \in Sids
    BY <1>3 DEF Writes, RowTypes, Creation, Places
  <2>2. creating' \in [Instances -> Creation \cup {None}]
    BY <2>1 DEF RowTypes
  <2>3. (\A j \in Instances : creating[j] # None => Waits(creating[j]))'
    <3>1. \A j \in Instances : creating'[j] # None => creating'[j] = creating[j]
      BY <2>1 DEF RowTypes
    <3> QED
      BY <3>1 DEF RowInv, Waits
  <2>4. \A s \in Sids : Writers(s)' = IF at = s THEN Writers(s) \ {i} ELSE Writers(s)
    BY <2>1, WritersLess
  <2>5. /\ Cardinality(Writers(at)) \in Nat /\ Cardinality(Instances) \in Nat
        /\ Cardinality(Writers(at)) <= Cardinality(Instances)
        /\ Cardinality(Writers(at) \ {i}) = Cardinality(Writers(at)) - 1
    <3>1. Writers(at) \in SUBSET Instances /\ i \in Writers(at)
      BY <2>1 DEF Writers
    <3> QED
      BY <3>1, OneFewer
  <2>6. CASE UNCHANGED <<rows, created>>
    <3>1. ASSUME NEW s \in Sids
          PROVE  IF rows'[s] = None THEN created'[s] = 0
                 ELSE /\ created'[s] # 0
                      /\ created'[s] + Cardinality(Writers(s)') <= Cardinality(Instances)
      <4>1. /\ rows'[s] = rows[s] /\ created'[s] = created[s] /\ created[s] \in Nat
            /\ rows[s] = None => created[s] = 0
            /\ rows[s] # None => created[s] # 0
                  /\ created[s] + Cardinality(Writers(s)) <= Cardinality(Instances)
        BY <2>6 DEF RowTypes, RowInv
      <4> HIDE DEF at
      <4>2. CASE s = at
        <5>1. Cardinality(Writers(s)') = Cardinality(Writers(s)) - 1
              /\ Cardinality(Writers(s)) \in Nat
          BY <2>4, <2>5, <4>2
        <5> QED
          BY <2>5, <4>1, <5>1
      <4>3. CASE s # at
        <5>1. Writers(s)' = Writers(s)
          BY <2>4, <4>3
        <5> QED
          BY <4>1, <5>1
      <4> QED
        BY <4>2, <4>3
    <3>2. RowTypes'
      BY <2>2, <2>6 DEF RowTypes
    <3> QED
      BY <2>3, <3>1, <3>2 DEF RowInv
  <2>7. ASSUME NEW shared \in BOOLEAN, Written(c.place, c.docs, shared)
        PROVE  RowTypes' /\ RowInv'
    <3>1. PICK row \in Row :
            /\ row # None /\ rows' = [rows EXCEPT ![at] = row]
            /\ created' = [created EXCEPT ![at] = created[at] + 1]
      <4>1. PICK d \in Creation : d = c
        BY <2>1
      <4>2. Written(d.place, d.docs, shared)
        BY <2>7, <4>1
      <4>3. PICK row \in Row :
              /\ row # None /\ rows' = [rows EXCEPT ![d.place[2]] = row]
              /\ created' = [created EXCEPT ![d.place[2]] = created[d.place[2]] + 1]
        BY <4>2, WrittenRow
      <4> QED
        BY <4>1, <4>3
    <3>2. RowTypes'
      BY <2>1, <2>2, <3>1 DEF RowTypes
    <3> HIDE DEF at
    <3>3. ASSUME NEW s \in Sids
          PROVE  IF rows'[s] = None THEN created'[s] = 0
                 ELSE /\ created'[s] # 0
                      /\ created'[s] + Cardinality(Writers(s)') <= Cardinality(Instances)
      <4>1. created[s] \in Nat
        BY DEF RowTypes
      <4>2. CASE s = at
        <5>1. rows'[s] = row /\ created'[s] = created[s] + 1
          BY <3>1, <4>2 DEF RowTypes
        <5>2. Cardinality(Writers(s)') = Cardinality(Writers(at)) - 1
          BY <2>4, <2>5, <4>2
        <5>3. created[s] = 0 \/ created[s] + Cardinality(Writers(at)) <= Cardinality(Instances)
          BY <4>2 DEF RowInv
        <5> QED
          BY <2>5, <3>1, <4>1, <5>1, <5>2, <5>3
      <4>3. CASE s # at
        <5>1. rows'[s] = rows[s] /\ created'[s] = created[s] /\ Writers(s)' = Writers(s)
          BY <2>4, <3>1, <4>3 DEF RowTypes
        <5> QED
          BY <5>1 DEF RowInv
      <4> QED
        BY <4>2, <4>3
    <3> QED
      BY <2>3, <3>2, <3>3 DEF RowInv
  <2> QED
    BY <1>3, <2>6, <2>7 DEF Writes
<1>4. ASSUME NEW s \in Sids, Updates(s)
      PROVE  RowTypes' /\ RowInv'
  <2>1. PICK row \in Row : rows' = [rows EXCEPT ![s] = row]
    BY <1>4 DEF Updates
  <2>2. rows[s] # None /\ row # None /\ UNCHANGED <<creating, created>>
    BY <1>4, NoneAssumption DEF Updates
  <2>3. \A r \in Sids : rows'[r] = None <=> rows[r] = None
    BY <2>1, <2>2 DEF RowTypes
  <2>4. RowTypes'
    BY <2>1, <2>2 DEF RowTypes
  <2> QED
    BY <2>2, <2>3, <2>4 DEF RowInv, Writers, Waits
<1> QED
  BY <1>1, <1>2, <1>3, <1>4 DEF RowStep

\* What a step may do to a row that is there.
RowKept(s) ==
  rows[s] # None =>
    \/ rows'[s].owner = rows[s].owner /\ rows[s].docs \subseteq rows'[s].docs
    \/ created[s] \in 1..(Cardinality(Instances) - 1) /\ created'[s] = created[s] + 1

LEMMA RowStepLoses ==
  ASSUME RowTypes, RowInv, RowStep, NEW s \in Sids
  PROVE  RowKept(s)
<1>1. CASE UNCHANGED rows
  BY <1>1 DEF RowKept
<1>2. ASSUME NEW t \in Sids, Updates(t)
      PROVE  RowKept(s)
  BY <1>2 DEF Updates, RowKept, RowTypes
<1>3. ASSUME NEW i \in Instances, Writes(i), ~UNCHANGED rows
      PROVE  RowKept(s)
  <2> DEFINE c == creating[i]
  <2>1. c # None /\ c \in Creation
    BY <1>3 DEF Writes, RowTypes
  <2>2. PICK shared \in BOOLEAN : Written(c.place, c.docs, shared)
    BY <1>3 DEF Writes
  <2>3. PICK row \in Row :
          /\ c.place[2] \in Sids /\ rows' = [rows EXCEPT ![c.place[2]] = row]
          /\ created' = [created EXCEPT ![c.place[2]] = created[c.place[2]] + 1]
    <3>1. PICK d \in Creation : d = c
      BY <2>1
    <3>2. Written(d.place, d.docs, shared)
      BY <2>2, <3>1
    <3>3. PICK row \in Row :
            /\ d.place[2] \in Sids /\ rows' = [rows EXCEPT ![d.place[2]] = row]
            /\ created' = [created EXCEPT ![d.place[2]] = created[d.place[2]] + 1]
      BY <3>2, WrittenRow
    <3> QED
      BY <3>1, <3>3
  <2>4. CASE s # c.place[2]
    BY <2>3, <2>4 DEF RowKept, RowTypes
  <2>5. CASE s = c.place[2] /\ rows[s] # None
    <3>1. created'[s] = created[s] + 1 /\ created[s] \in Nat
      BY <2>3, <2>5 DEF RowTypes
    <3>2. created[s] # 0 /\ created[s] + Cardinality(Writers(s)) <= Cardinality(Instances)
      BY <2>5 DEF RowInv
    <3>3. Cardinality(Writers(s)) >= 1 /\ Cardinality(Writers(s)) \in Nat
          /\ Cardinality(Instances) \in Nat
      <4>1. Writers(s) \in SUBSET Instances /\ i \in Writers(s)
        BY <2>1, <2>5 DEF Writers
      <4>2. Cardinality(Writers(s) \ {i}) \in Nat
        BY <4>1, SessionsAssumption, FS_Subset, FS_CardinalityType
      <4> QED
        BY <4>1, <4>2, OneFewer
    <3> QED
      BY <3>1, <3>2, <3>3 DEF RowKept
  <2>6. CASE s = c.place[2] /\ rows[s] = None
    BY <2>6 DEF RowKept
  <2> QED
    BY <2>4, <2>5, <2>6
<1> QED
  BY <1>1, <1>2, <1>3 DEF RowStep, Looks, WillWrite

-----------------------------------------------------------------------------
(* One lemma per kind of step. *)

\* A turn starts over a state that is one.
LEMMA OpenedState ==
  ASSUME PlaceTypes, NEW u \in Users, NEW s \in Sids, NEW docs \in SUBSET Docs
  PROVE  Opened(u, s, docs) \in State
<1> DEFINE old == IF stored[<<u, s>>] = None THEN Empty ELSE stored[<<u, s>>]
<1>1. old \in State
  BY EmptyState DEF PlaceTypes, Places
<1> QED
  BY <1>1 DEF Opened, State

\* What starts a turn: over documents there are, with what the user ticked if that
\* is anything.
StartsTurn(u, s, no, ticked, docs) ==
  /\ Start(u, s, no, ticked, docs)
  /\ no \in 1..MaxTurns /\ turns' \in 0..MaxTurns
  /\ ticked # {} => docs = ticked
  /\ UNCHANGED <<booting, pushing, mirror, pushes>>

LEMMA StartKeeps ==
  ASSUME PlaceTypes, Grounded, NEW u \in Users, NEW s \in Sids, NEW no,
         NEW ticked \in SUBSET Docs, NEW docs \in SUBSET Docs,
         StartsTurn(u, s, no, ticked, docs)
  PROVE  PlaceTypes' /\ Grounded'
<1> DEFINE start == Opened(u, s, docs)
<1>1. start \in State
  BY OpenedState
<1>2. /\ stored' = [stored EXCEPT ![<<u, s>>] = start]
      /\ turn' = [turn EXCEPT ![<<u, s>>] = [view |-> start, no |-> no, ticked |-> ticked]]
      /\ no \in 1..MaxTurns /\ turns' \in 0..MaxTurns
      /\ UNCHANGED <<booting, pushing, mirror, pushes>>
  BY DEF StartsTurn, Start
<1> HIDE DEF start
<1>3. [view |-> start, no |-> no, ticked |-> ticked] \in Turn
  BY <1>1, <1>2 DEF Turn
<1>4. PlaceTypes'
  BY <1>1, <1>2, <1>3 DEF PlaceTypes, Places
<1>5. Grounded'
  BY <1>1, <1>2 DEF Grounded, PlaceTypes, Places
<1> QED
  BY <1>4, <1>5

LEMMA PushKeeps ==
  ASSUME PlaceTypes, Grounded, NEW u \in Users, NEW s \in Sids, NEW k \in Keys, NEW content,
         Push(u, s, k, content)
  PROVE  PlaceTypes' /\ Grounded'
<1>1. pushes' \in 1..MaxPushes
  BY SessionsAssumption DEF Push, PlaceTypes
<1>2. stored[<<u, s>>] \in State
  BY DEF Push, PlaceTypes, Places
<1>3. PlaceTypes'
  BY <1>1 DEF Push, PlaceTypes, Places
<1>4. Grounded'
  BY <1>2 DEF Push, Grounded
<1> QED
  BY <1>3, <1>4

LEMMA PushEventKeeps ==
  ASSUME PlaceTypes, Grounded, NEW x \in pushing, PushEvent(x)
  PROVE  PlaceTypes' /\ Grounded'
<1> DEFINE pushed == [stored[x.place] EXCEPT !.pushed[x.key] = x.no]
<1>1. x.place \in Places /\ x.key \in Keys /\ x.no \in 0..MaxPushes
  BY DEF PlaceTypes
<1>2. stored[x.place] \in State
  BY DEF Grounded
<1>3. pushed \in State
  BY <1>1, <1>2 DEF State
<1>4. stored' = [stored EXCEPT ![x.place] = pushed]
  BY <1>1, <1>2 DEF PushEvent, PlaceTypes
<1> HIDE DEF pushed
<1>5. PlaceTypes'
  BY <1>1, <1>3, <1>4 DEF PushEvent, PlaceTypes
<1>6. Grounded'
  BY <1>1, <1>3, <1>4 DEF PushEvent, Grounded, PlaceTypes
<1> QED
  BY <1>5, <1>6

LEMMA EmitKeeps ==
  ASSUME PlaceTypes, Grounded, NEW u \in Users, NEW s \in Sids, Emit(u, s)
  PROVE  PlaceTypes' /\ Grounded'
<1> DEFINE t == turn[<<u, s>>]
           after == Emitted(u, s, t)
           told == [t EXCEPT !.view.emitted = t.no]
<1>1. t \in Turn /\ stored[<<u, s>>] \in State
  BY DEF Emit, PlaceTypes, Grounded, Places
<1>2. after \in State
  BY <1>1 DEF Emitted, State, Turn
<1>3. told \in Turn
  BY <1>1 DEF State, Turn
<1>4. /\ stored' = [stored EXCEPT ![<<u, s>>] = after]
      /\ turn' = [turn EXCEPT ![<<u, s>>] = told]
  BY <1>1 DEF Emit, PlaceTypes, Places
<1> HIDE DEF after, told
<1>5. PlaceTypes'
  BY <1>2, <1>3, <1>4 DEF Emit, PlaceTypes, Places
<1>6. Grounded'
  BY <1>2, <1>4 DEF Emit, Grounded, PlaceTypes, Places
<1> QED
  BY <1>5, <1>6

LEMMA EndTurnKeeps ==
  ASSUME PlaceTypes, Grounded, NEW u \in Users, NEW s \in Sids, EndTurn(u, s)
  PROVE  PlaceTypes' /\ Grounded'
<1>1. stored[<<u, s>>] \in State
  BY DEF EndTurn, Grounded, Places
<1>2. MirrorOf(stored[<<u, s>>]) \in Mirror
  BY <1>1, MirrorOfState
<1>3. PlaceTypes'
  BY <1>2 DEF EndTurn, PlaceTypes, Places
<1>4. Grounded'
  BY DEF EndTurn, Grounded, PlaceTypes, Places
<1> QED
  BY <1>3, <1>4

\* A bootstrap that has its row, and one that makes the session.
LEMMA BootKeeps ==
  ASSUME PlaceTypes, Grounded, NEW u \in Users, NEW s \in Sids, BootSession(u, s)
  PROVE  PlaceTypes' /\ Grounded'
<1>1. \/ stored' = stored
      \/ stored[<<u, s>>] = None /\ stored' = [stored EXCEPT ![<<u, s>>] = Empty]
  BY DEF BootSession
<1>2. PlaceTypes'
  BY <1>1, EmptyState DEF BootSession, PlaceTypes, Places
<1>3. \A p \in Places : stored[p] \in State => stored'[p] \in State
  BY <1>1, EmptyState DEF PlaceTypes, Places
<1>4. Grounded'
  BY <1>3 DEF BootSession, Grounded, PlaceTypes
<1> QED
  BY <1>2, <1>4

\* The steps that leave sessions, pushes and turns: of the rows and those who wait
\* for one.
RowOnly ==
  /\ UNCHANGED <<stored, pushing, turn, mirror, pushes>>
  /\ booting' \subseteq Places /\ turns' \in 0..MaxTurns

LEMMA RowOnlyKeeps ==
  ASSUME PlaceTypes, Grounded, RowOnly
  PROVE  PlaceTypes' /\ Grounded'
  BY DEF PlaceTypes, Grounded, RowOnly

\* What may start a turn is a run, over documents there are, with what the user
\* ticked if that is anything.
LEMMA Starts ==
  ASSUME TypeOK, NEW i \in Instances, NEW u \in Users, NEW s \in Sids,
         \/ \E ticked \in SUBSET Docs : StreamPage(i, u, s, ticked)
         \/ \E ticked \in SUBSET Docs : StreamCli(i, u, s, ticked)
         \/ StreamReader(i, u, s)
         \/ \E input \in StructuredInputs : RunStructured(i, u, s, input)
  PROVE  \E ticked \in SUBSET Docs, docs \in SUBSET Docs :
           Run(i, u, s, ticked, docs) /\ (ticked # {} => docs = ticked)
<1>1. CASE \E ticked \in SUBSET Docs : StreamPage(i, u, s, ticked)
  <2>1. PICK ticked \in SUBSET Docs : StreamPage(i, u, s, ticked)
    BY <1>1
  <2>2. mirror[<<u, s>>].docs \in SUBSET Docs
    BY DEF TypeOK, Mirror, Places
  <2>3. Asked(ticked, {}, mirror[<<u, s>>].docs) \in SUBSET Docs
    BY <2>2 DEF Asked
  <2>4. ticked # {} => Asked(ticked, {}, mirror[<<u, s>>].docs) = ticked
    BY DEF Asked
  <2> QED
    BY <2>1, <2>3, <2>4 DEF StreamPage
<1>2. CASE \E ticked \in SUBSET Docs : StreamCli(i, u, s, ticked)
  <2>1. PICK ticked \in SUBSET Docs : StreamCli(i, u, s, ticked)
    BY <1>2
  <2>2. Asked({}, ticked, {}) = ticked
    BY DEF Asked
  <2> QED
    BY <2>1, <2>2 DEF StreamCli
<1>3. CASE StreamReader(i, u, s)
  BY <1>3 DEF StreamReader
<1>4. CASE \E input \in StructuredInputs : RunStructured(i, u, s, input)
  BY <1>4 DEF RunStructured
<1> QED
  BY <1>1, <1>2, <1>3, <1>4

\* What a step does beside the rows.
PlaceStep ==
  \/ \E u \in Users, s \in Sids, no \in 1..MaxTurns, ticked \in SUBSET Docs,
        docs \in SUBSET Docs : StartsTurn(u, s, no, ticked, docs)
  \/ \E u \in Users, s \in Sids, k \in Keys, content \in Contents : Push(u, s, k, content)
  \/ \E x \in pushing : PushEvent(x)
  \/ \E u \in Users, s \in Sids : Emit(u, s)
  \/ \E u \in Users, s \in Sids : EndTurn(u, s)
  \/ \E u \in Users, s \in Sids : BootSession(u, s)
  \/ RowOnly

\* A run looks and waits, or finds its row and starts.
LEMMA RunKind ==
  ASSUME TypeOK, RowInv, NEW i \in Instances, NEW u \in Users, NEW s \in Sids,
         NEW ticked \in SUBSET Docs, NEW docs \in SUBSET Docs,
         Run(i, u, s, ticked, docs), ticked # {} => docs = ticked
  PROVE  RowStep /\ PlaceStep
<1>1. turns' \in 1..MaxTurns /\ turns' \in 0..MaxTurns
  BY SessionsAssumption DEF Run, TypeOK
<1>2. CASE /\ rows[s] = None
           /\ WillWrite(i, [for |-> "turn", place |-> <<u, s>>, docs |-> docs,
                            no |-> turns', ticked |-> ticked])
           /\ UNCHANGED <<stored, turn>>
  <2> DEFINE c == [for |-> "turn", place |-> <<u, s>>, docs |-> docs,
                   no |-> turns', ticked |-> ticked]
  <2>1. c \in Creation /\ c.place[2] = s /\ Waits(c)
    BY <1>1 DEF Creation, Places, Waits
  <2>2. creating[i] = None /\ UNCHANGED <<booting, pushing, mirror, pushes>>
    BY DEF Run
  <2>3. Looks(i, c)
    BY <1>2, <2>1, <2>2 DEF Looks
  <2>4. RowOnly
    BY <1>1, <1>2, <2>2 DEF RowOnly, TypeOK
  <2> HIDE DEF c
  <2> QED
    BY <2>1, <2>3, <2>4 DEF RowStep, PlaceStep
<1>3. CASE /\ EnsureRow(s, docs) \/ UNCHANGED rows
           /\ Start(u, s, turns', ticked, docs)
           /\ UNCHANGED <<creating, created>>
  <2>1. StartsTurn(u, s, turns', ticked, docs)
    BY <1>1, <1>3 DEF StartsTurn, Run
  <2>2. CASE UNCHANGED rows
    BY <1>1, <1>3, <2>1, <2>2 DEF RowStep, PlaceStep
  <2>3. CASE EnsureRow(s, docs)
    <3> DEFINE row == [rows[s] EXCEPT !.docs = @ \cup docs]
    <3>1. rows[s] # None /\ rows[s] \in Row /\ rows' = [rows EXCEPT ![s] = row]
      BY <2>3 DEF EnsureRow, TypeOK
    <3>2. row \in Row /\ row.owner = rows[s].owner /\ rows[s].docs \subseteq row.docs
      BY <3>1 DEF Row
    <3> HIDE DEF row
    <3>3. Updates(s)
      BY <1>3, <3>1, <3>2 DEF Updates
    <3> QED
      BY <1>1, <2>1, <3>3 DEF RowStep, PlaceStep
  <2> QED
    BY <1>3, <2>2, <2>3
<1> QED
  BY <1>2, <1>3 DEF Run

\* A write that was waited for.
LEMMA CreateKind ==
  ASSUME TypeOK, RowInv, NEW i \in Instances, BootCreate(i) \/ TurnCreate(i)
  PROVE  RowStep /\ PlaceStep
<1> DEFINE c == creating[i]
<1>1. c # None /\ c \in Creation /\ Waits(c)
  BY DEF BootCreate, TurnCreate, TypeOK, RowInv
<1>2. /\ c.place[1] \in Users /\ c.place[2] \in Sids /\ c.place = <<c.place[1], c.place[2]>>
      /\ c.docs \in SUBSET Docs /\ c.ticked \in SUBSET Docs
  BY <1>1 DEF Creation, Places
<1>3. Writes(i)
  BY DEF BootCreate, TurnCreate, Writes
<1>4. CASE BootCreate(i)
  <2>1. RowOnly
    BY <1>2, <1>4 DEF BootCreate, RowOnly, TypeOK, Places
  <2> QED
    BY <1>3, <2>1 DEF RowStep, PlaceStep
<1>5. CASE TurnCreate(i)
  <2>1. c.no \in 1..MaxTurns /\ (c.ticked # {} => c.docs = c.ticked)
    BY <1>1, <1>5 DEF TurnCreate, Waits
  <2>2. StartsTurn(c.place[1], c.place[2], c.no, c.ticked, c.docs)
    BY <1>5, <2>1 DEF TurnCreate, StartsTurn, TypeOK
  <2> QED
    BY <1>2, <1>3, <2>1, <2>2 DEF RowStep, PlaceStep
<1> QED
  BY <1>4, <1>5

\* The kinds of step there are.
LEMMA StepKinds ==
  ASSUME TypeOK, RowInv, Next
  PROVE  RowStep /\ PlaceStep
<1>1. CASE \E x \in pushing : PushEvent(x)
  BY <1>1 DEF PushEvent, RowStep, PlaceStep
<1>2. CASE \E i \in Instances : BootCreate(i) \/ TurnCreate(i)
  BY <1>2, CreateKind
<1>3. ASSUME NEW i \in Instances, NEW u \in Users, NEW s \in Sids,
             \/ \E ticked \in SUBSET Docs : StreamPage(i, u, s, ticked)
             \/ \E ticked \in SUBSET Docs : StreamCli(i, u, s, ticked)
             \/ StreamReader(i, u, s)
             \/ \E input \in StructuredInputs : RunStructured(i, u, s, input)
      PROVE  RowStep /\ PlaceStep
  BY <1>3, Starts, RunKind
<1>4. ASSUME NEW i \in Instances, NEW u \in Users, NEW s \in Sids, NEW docs \in SUBSET Docs,
             Bootstrap(i, u, s, docs)
      PROVE  RowStep /\ PlaceStep
  <2> DEFINE c == [for |-> "boot", place |-> <<u, s>>, docs |-> docs, no |-> 0, ticked |-> {}]
  <2>1. c \in Creation /\ c.place[2] = s /\ Waits(c)
    BY SessionsAssumption DEF Creation, Places, Waits
  <2>2. Looks(i, c)
    BY <1>4, <2>1 DEF Bootstrap, BootRow, Looks
  <2>3. RowOnly
    BY <1>4 DEF Bootstrap, RowOnly, TypeOK
  <2> HIDE DEF c
  <2> QED
    BY <2>1, <2>2, <2>3 DEF RowStep, PlaceStep
<1>5. ASSUME NEW u \in Users, NEW s \in Sids,
             \/ BootSession(u, s)
             \/ \E k \in Keys, content \in Contents : Push(u, s, k, content)
             \/ Emit(u, s) \/ EndTurn(u, s)
      PROVE  RowStep /\ PlaceStep
  <2>1. UNCHANGED <<rows, creating, created>>
    BY <1>5 DEF BootSession, Push, Emit, EndTurn
  <2> QED
    BY <1>5, <2>1 DEF RowStep, PlaceStep
<1>6. ASSUME NEW u \in Users, NEW s \in Sids, Share(u, s)
      PROVE  RowStep /\ PlaceStep
  <2> DEFINE row == [rows[s] EXCEPT !.shared = ~@]
  <2>1. rows[s] # None /\ rows[s] \in Row /\ rows' = [rows EXCEPT ![s] = row]
    BY <1>6 DEF Share, Owns, TypeOK
  <2>2. row \in Row /\ row.owner = rows[s].owner /\ row.docs = rows[s].docs
    BY <2>1 DEF Row
  <2> HIDE DEF row
  <2>3. Updates(s)
    BY <1>6, <2>1, <2>2 DEF Share, Updates
  <2>4. RowOnly
    BY <1>6 DEF Share, RowOnly, TypeOK
  <2> QED
    BY <2>3, <2>4 DEF RowStep, PlaceStep
<1> QED
  BY <1>1, <1>2, <1>3, <1>4, <1>5, <1>6 DEF Next

LEMMA PlaceStepKeeps ==
  ASSUME PlaceTypes, Grounded, PlaceStep
  PROVE  PlaceTypes' /\ Grounded'
  BY StartKeeps, PushKeeps, PushEventKeeps, EmitKeeps, EndTurnKeeps, BootKeeps, RowOnlyKeeps
     DEF PlaceStep

LEMMA StepInv == SessionInv /\ [Next]_vars => SessionInv'
<1> SUFFICES ASSUME SessionInv, [Next]_vars PROVE SessionInv'
  OBVIOUS
<1>1. CASE UNCHANGED vars
  BY <1>1 DEF vars, SessionInv, TypeOK, Grounded, RowInv, Writers, Waits
<1>2. CASE Next
  <2>1. RowTypes /\ PlaceTypes /\ Grounded /\ RowInv /\ RowStep /\ PlaceStep
    BY <1>2, StepKinds, TypeParts DEF SessionInv
  <2>2. RowTypes' /\ RowInv' /\ PlaceTypes' /\ Grounded'
    BY <2>1, RowStepKeeps, PlaceStepKeeps
  <2> QED
    BY <2>2, TypeParts DEF SessionInv
<1> QED
  BY <1>1, <1>2

LEMMA Invariance == Spec => []SessionInv
  BY InitInv, StepInv, PTL DEF Spec

-----------------------------------------------------------------------------

\* The state keeps its types: the routes, the bootstrap and the turns only ever
\* write rows, sessions and mirrors of their shape.
THEOREM TypeCorrect == Spec => []TypeOK
<1>1. SessionInv => TypeOK
  BY DEF SessionInv
<1> QED
  BY <1>1, Invariance, PTL

\* _extract_document_ids: the documents a user ticked are those the turn is
\* asked for, to the end of the turn.
THEOREM TickedWins == Spec => []TickedDocsWin
<1>1. Init => TickedDocsWin
  BY DEF Init, TickedDocsWin
<1>2. SessionInv /\ TickedDocsWin /\ [Next]_vars => TickedDocsWin'
  <2> SUFFICES ASSUME SessionInv, TickedDocsWin, [Next]_vars PROVE TickedDocsWin'
    OBVIOUS
  <2> TypeOK
    BY DEF SessionInv
  <2>1. CASE UNCHANGED turn
    BY <2>1 DEF TickedDocsWin
  <2>2. ASSUME NEW u \in Users, NEW s \in Sids, NEW no, NEW ticked \in SUBSET Docs,
               NEW docs \in SUBSET Docs, StartsTurn(u, s, no, ticked, docs)
        PROVE  TickedDocsWin'
    <3> DEFINE start == Opened(u, s, docs)
    <3>2. docs # {} => start.docs = docs
      <4> DEFINE old == IF stored[<<u, s>>] = None THEN Empty ELSE stored[<<u, s>>]
      <4>1. old \in State
        BY EmptyState DEF TypeOK, Places
      <4> QED
        BY <4>1 DEF Opened, State
    <3>3. turn' = [turn EXCEPT ![<<u, s>>] = [view |-> start, no |-> no, ticked |-> ticked]]
      BY <2>2 DEF StartsTurn, Start
    <3> HIDE DEF start
    <3> QED
      BY <2>2, <3>2, <3>3 DEF StartsTurn, TickedDocsWin, TypeOK, Places
  <2>3. ASSUME NEW u \in Users, NEW s \in Sids, Emit(u, s)
        PROVE  TickedDocsWin'
    <3> DEFINE t == turn[<<u, s>>]
               told == [t EXCEPT !.view.emitted = t.no]
    <3>1. t \in Turn /\ t # None
      BY <2>3 DEF Emit, TypeOK, Places
    <3>2. told.ticked = t.ticked /\ told.view.docs = t.view.docs
      BY <3>1 DEF Turn, State
    <3>3. turn' = [turn EXCEPT ![<<u, s>>] = told]
      BY <2>3, <3>1 DEF Emit, TypeOK, Places
    <3> HIDE DEF told
    <3> QED
      BY <3>1, <3>2, <3>3 DEF TickedDocsWin, TypeOK, Places
  <2>4. ASSUME NEW u \in Users, NEW s \in Sids, EndTurn(u, s)
        PROVE  TickedDocsWin'
    BY <2>4 DEF EndTurn, TickedDocsWin, TypeOK, Places
  <2>5. CASE Next
    <3>1. PlaceStep
      BY <2>5, StepKinds DEF SessionInv
    <3> QED
      BY <2>1, <2>2, <2>3, <2>4, <3>1 DEF PlaceStep, Push, PushEvent, BootSession, RowOnly
  <2> QED
    BY <2>1, <2>5 DEF vars
<1> QED
  BY <1>1, <1>2, Invariance, PTL DEF Spec

\* The session of every place keeps what was pushed into it, but for the push
\* that arrives.
PushesStay(p) ==
  stored[p] # None =>
    \A k \in Keys : stored'[p].pushed[k] # stored[p].pushed[k] =>
      \E x \in pushing : x.place = p /\ x.key = k /\ x.no = stored'[p].pushed[k]

\* A turn that starts in a session has what was pushed into it.
ReadsPushes(p) ==
  turn[p] = None /\ turn'[p] # None /\ stored[p] # None =>
    turn'[p].view.pushed = stored[p].pushed

LEMMA StartPushes ==
  ASSUME SessionInv, NEW u \in Users, NEW s \in Sids, NEW no, NEW ticked \in SUBSET Docs,
         NEW docs \in SUBSET Docs, StartsTurn(u, s, no, ticked, docs)
  PROVE  \A p \in Places : PushesStay(p) /\ ReadsPushes(p)
<1> TypeOK
  BY DEF SessionInv
<1> DEFINE start == Opened(u, s, docs)
<1>1. stored[<<u, s>>] # None => start.pushed = stored[<<u, s>>].pushed
  <2> SUFFICES ASSUME stored[<<u, s>>] # None PROVE start.pushed = stored[<<u, s>>].pushed
    OBVIOUS
  <2>1. stored[<<u, s>>] \in State
    BY DEF TypeOK, Places
  <2> QED
    BY <2>1 DEF Opened, State
<1>2. /\ stored' = [stored EXCEPT ![<<u, s>>] = start]
      /\ turn' = [turn EXCEPT ![<<u, s>>] = [view |-> start, no |-> no, ticked |-> ticked]]
  BY DEF StartsTurn, Start
<1> HIDE DEF start
<1> QED
  BY <1>1, <1>2 DEF PushesStay, ReadsPushes, TypeOK, Places

LEMMA ArrivalPushes ==
  ASSUME SessionInv, NEW x \in pushing, PushEvent(x)
  PROVE  \A p \in Places : PushesStay(p) /\ ReadsPushes(p)
<1>1. x.place \in Places /\ x.key \in Keys /\ x.no \in 0..MaxPushes
  BY DEF SessionInv, TypeOK
<1>2. stored[x.place] \in State /\ stored \in [Places -> State \cup {None}]
  BY DEF SessionInv, Grounded, TypeOK
<1> DEFINE pushed == [stored[x.place] EXCEPT !.pushed[x.key] = x.no]
<1>3. /\ pushed.pushed[x.key] = x.no
      /\ \A k \in Keys : k # x.key => pushed.pushed[k] = stored[x.place].pushed[k]
  BY <1>1, <1>2 DEF State
<1>4. stored' = [stored EXCEPT ![x.place] = pushed] /\ turn' = turn
  BY <1>1, <1>2 DEF PushEvent
<1> HIDE DEF pushed
<1>5. \A p \in Places : PushesStay(p)
  BY <1>1, <1>2, <1>3, <1>4 DEF PushesStay
<1> QED
  BY <1>4, <1>5 DEF ReadsPushes

LEMMA EmitPushes ==
  ASSUME SessionInv, NEW u \in Users, NEW s \in Sids, Emit(u, s)
  PROVE  \A p \in Places : PushesStay(p) /\ ReadsPushes(p)
<1> DEFINE after == Emitted(u, s, turn[<<u, s>>])
<1>1. stored[<<u, s>>] \in State /\ stored \in [Places -> State \cup {None}]
  BY DEF Emit, SessionInv, TypeOK, Grounded, Places
<1>2. after.pushed = stored[<<u, s>>].pushed
  BY <1>1 DEF Emitted, State
<1>3. stored' = [stored EXCEPT ![<<u, s>>] = after]
  BY DEF Emit
<1> HIDE DEF after
<1>4. \A p \in Places : PushesStay(p)
  BY <1>1, <1>2, <1>3 DEF PushesStay, Places
<1>5. \A p \in Places : turn[p] = None => turn'[p] = None
  BY DEF Emit, SessionInv, TypeOK, Places
<1> QED
  BY <1>4, <1>5 DEF ReadsPushes

LEMMA PushesKept ==
  ASSUME SessionInv, [Next]_vars
  PROVE  \A p \in Places : PushesStay(p) /\ ReadsPushes(p)
<1> TypeOK
  BY DEF SessionInv
<1>1. CASE UNCHANGED <<stored, turn>>
  BY <1>1 DEF PushesStay, ReadsPushes
<1>2. ASSUME NEW u \in Users, NEW s \in Sids, BootSession(u, s)
      PROVE  \A p \in Places : PushesStay(p) /\ ReadsPushes(p)
  <2>1. \A p \in Places : stored[p] # None => stored'[p] = stored[p]
    BY <1>2 DEF BootSession, TypeOK, Places
  <2> QED
    BY <1>2, <2>1 DEF BootSession, PushesStay, ReadsPushes
<1>3. ASSUME NEW u \in Users, NEW s \in Sids, EndTurn(u, s)
      PROVE  \A p \in Places : PushesStay(p) /\ ReadsPushes(p)
  <2>1. stored' = stored /\ \A p \in Places : turn[p] = None => turn'[p] = None
    BY <1>3 DEF EndTurn, TypeOK, Places
  <2> QED
    BY <2>1 DEF PushesStay, ReadsPushes
<1>4. CASE Next
  <2>1. PlaceStep
    BY <1>4, StepKinds DEF SessionInv
  <2> QED
    BY <1>1, <1>2, <1>3, <2>1, StartPushes, ArrivalPushes, EmitPushes
       DEF PlaceStep, Push, RowOnly
<1> QED
  BY <1>1, <1>4 DEF vars

\* post_iframe_context, post_surface_action and the runs: no turn, and nothing
\* else a user does, takes back a push that is stored, and a turn that starts is
\* told of the pushes that are.
THEOREM PushesAreRead == Spec => PushesReachTurns
<1> DEFINE Read == \A u \in Users, s \in Sids, k \in Keys :
       /\ (turn[<<u, s>>] = None /\ turn'[<<u, s>>] # None /\ stored[<<u, s>>] # None) =>
            LET view == turn'[<<u, s>>].view IN
            /\ IframeBlock(view) = IframeBlock(stored[<<u, s>>])
            /\ \A f \in Surfaces : SurfaceBlock(view)[f].lastAction =
                                    SurfaceBlock(stored[<<u, s>>])[f].lastAction
       /\ (stored[<<u, s>>] # None /\ stored'[<<u, s>>].pushed[k] # stored[<<u, s>>].pushed[k]) =>
            \E x \in pushing : x.place = <<u, s>> /\ x.key = k
                               /\ x.no = stored'[<<u, s>>].pushed[k]
<1>1. SessionInv /\ [Next]_vars => Read
  <2> SUFFICES ASSUME SessionInv, [Next]_vars, NEW u \in Users, NEW s \in Sids, NEW k \in Keys
               PROVE  Read!(u, s, k)
    OBVIOUS
  <2>1. PushesStay(<<u, s>>) /\ ReadsPushes(<<u, s>>)
    BY PushesKept DEF Places
  <2>2. ASSUME NEW a, NEW b, a.pushed = b.pushed
        PROVE  /\ IframeBlock(a) = IframeBlock(b)
               /\ \A f \in Surfaces : SurfaceBlock(a)[f].lastAction = SurfaceBlock(b)[f].lastAction
    BY <2>2 DEF IframeBlock, SurfaceBlock
  <2> QED
    BY <2>1, <2>2 DEF PushesStay, ReadsPushes
<1> QED
  BY <1>1, Invariance, PTL DEF Spec, PushesReachTurns

\* bootstrap_session, _ensure_session_index and the owner's routes: a row loses its
\* owner or a document only to an instance that looked before there was a row, so
\* at most once less than there are instances; in one process never.
THEOREM RowIsLostOnlyInRace == Spec => RowLostOnlyInRace
<1> DEFINE Kept == \A s \in Sids : rows[s] # None =>
       \/ rows'[s].owner = rows[s].owner /\ rows[s].docs \subseteq rows'[s].docs
       \/ created[s] \in 1..(Cardinality(Instances) - 1) /\ created'[s] = created[s] + 1
<1>1. SessionInv /\ [Next]_vars => Kept
  <2> SUFFICES ASSUME SessionInv, [Next]_vars, NEW s \in Sids PROVE RowKept(s)
    BY DEF RowKept
  <2>1. CASE UNCHANGED rows
    BY <2>1 DEF RowKept
  <2>2. CASE Next
    <3>1. RowTypes /\ RowInv /\ RowStep
      BY <2>2, StepKinds, TypeParts DEF SessionInv
    <3> QED
      BY <3>1, RowStepLoses
  <2> QED
    BY <2>1, <2>2 DEF vars
<1> QED
  BY <1>1, Invariance, PTL DEF Spec, RowLostOnlyInRace
=============================================================================
