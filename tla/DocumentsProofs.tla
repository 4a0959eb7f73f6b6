---------------------------- MODULE DocumentsProofs ----------------------------
(* Proofs about Documents: types, what leaves a document pending, that a       *)
(* folder counts no document twice, and that what an agent reads of a document *)
(* was its file's content at most Ttl before, for every set of users, names,   *)
(* folder names and requests, and every bound.                                 *)
EXTENDS Documents, FiniteSetTheorems, TLAPS

-----------------------------------------------------------------------------
(* The inductive invariant *)

\* TypeOK, of the records and of the store.
RecordTypes ==
  /\ docs \in [Ids -> Doc \cup {None}]
  /\ folders \in [Users \X Folders -> Folder \cup {None}]
  /\ job \in [Jobs -> Job \cup {None}]
  /\ issued \in 0..MaxDocs
  /\ broken \subseteq Ids

StoreTypes ==
  /\ files \in [Paths -> 0..MaxVersion]
  /\ cache \in [Paths -> Entry \cup {None}]
  /\ history \in [Versions -> Version \cup {None}]
  /\ now \in 0..MaxTime

\* A request and its record are of one path, whoever else works on the record.
PathsAgree ==
  /\ \A i \in Ids : docs[i] # None => i <= issued
  /\ \A j \in Jobs : job[j] # None =>
       LET r == job[j] IN
       /\ r.doc <= issued
       /\ docs[r.doc] # None => docs[r.doc].path = r.path
       /\ r.kind # "import" => docs[r.doc] # None
       /\ \A k \in Jobs : job[k] # None /\ job[k].doc = r.doc => job[k].path = r.path

FolderOf(p) == <<p[1], p[2]>>

\* One request at most will count a record: the upload that made it.
FreshAlone ==
  \A j \in Jobs : job[j] # None /\ job[j].fresh =>
    /\ job[j].kind = "upload" /\ folders[FolderOf(job[j].path)] # None
    /\ \A k \in Jobs : job[k] # None /\ job[k].fresh /\ job[k].doc = job[j].doc => k = j

\* The records that an upload may still count.
FreshDocs == {i \in Ids : \E j \in Jobs : job[j] # None /\ job[j].fresh /\ job[j].doc = i}

\* A folder counts none of these.
CountsSettled ==
  \A u \in Users, f \in Folders :
    folders[<<u, f>>] # None =>
      folders[<<u, f>>].docs <= Cardinality(DocsIn(u, f) \ FreshDocs)

RecordsInv == RecordTypes /\ PathsAgree /\ FreshAlone /\ PendingIsAtWorkOrBroken /\ CountsSettled

\* The version was what the file at p held, at t or later.
Was(v, p, t) ==
  /\ v \in Versions /\ history[v] # None /\ history[v].path = p
  /\ files[p] = v \/ history[v].till >= t

FilesKnown == \A p \in Paths : files[p] # 0 => history[files[p]] # None /\ history[files[p]].path = p

\* The cache, the requests and the records hold what the file was: at most Ttl before
\* an entry ends, now, and at most Ttl before it was stored.
CacheRecent ==
  \A p \in Paths : cache[p] # None =>
    cache[p].till <= now + Ttl /\ Was(cache[p].blocks, p, cache[p].till - Ttl)

GotRead == \A j \in Jobs : job[j] # None /\ job[j].got # 0 => Was(job[j].got, job[j].path, now)

DocsWere ==
  \A i \in Ids : docs[i] # None /\ docs[i].blocks # 0 =>
    docs[i].at <= now /\ Was(docs[i].blocks, docs[i].path, docs[i].at - Ttl)

ReadsInv == StoreTypes /\ FilesKnown /\ CacheRecent /\ GotRead /\ DocsWere
DocumentsInv == RecordsInv /\ ReadsInv

LEMMA Bounds == {Ttl, MaxFolders, MaxDocs, MaxVersion, MaxTime} \subseteq Nat
  BY DocumentsAssumption DEF DocumentsAssumption

LEMMA InitInv == Init => DocumentsInv
<1> SUFFICES ASSUME Init PROVE DocumentsInv
  OBVIOUS
<1>1. RecordTypes /\ StoreTypes
  BY Bounds DEF Init, RecordTypes, StoreTypes
<1>2. PathsAgree /\ FreshAlone /\ PendingIsAtWorkOrBroken /\ CountsSettled
  BY DEF Init, PathsAgree, FreshAlone, PendingIsAtWorkOrBroken, CountsSettled
<1>3. FilesKnown /\ CacheRecent /\ GotRead /\ DocsWere
  BY DEF Init, FilesKnown, CacheRecent, GotRead, DocsWere
<1> QED
  BY <1>1, <1>2, <1>3 DEF DocumentsInv, RecordsInv, ReadsInv

LEMMA Parts == TypeOK <=> RecordTypes /\ StoreTypes
  BY DEF TypeOK, RecordTypes, StoreTypes

LEMMA Parted == ASSUME NEW p \in Paths
                PROVE  /\ p[1] \in Users /\ p[2] \in Folders /\ p[3] \in Names
                       /\ FolderOf(p) \in Users \X Folders
  BY DEF Paths, FolderOf

\* Counting is over finite sets of ids.
LEMMA Finite ==
  ASSUME NEW S \in SUBSET Ids
  PROVE  IsFiniteSet(S) /\ Cardinality(S) \in Nat
<1>1. IsFiniteSet(Ids)
  BY FS_Interval, Bounds DEF Ids
<1> QED
  BY <1>1, FS_Subset, FS_CardinalityType

-----------------------------------------------------------------------------
(* The records: each step ends a request, marks a record, begins a request, or *)
(* goes on with one. *)

\* Nothing but the writing of a record takes its id from the broken ones.
Repairs(i) == broken' \subseteq Ids /\ broken \ {i} \subseteq broken'

\* Folders are only added, and begin at zero.
FoldersGrow ==
  \A x \in Users \X Folders :
    /\ folders[x] # None => folders'[x] = folders[x]
    /\ folders[x] = None /\ folders'[x] # None => folders'[x].docs = 0

LEMMA SettleKeeps ==
  ASSUME RecordsInv, NEW j \in Jobs, job[j] # None,
         NEW d \in Doc, d.path = job[j].path, d.status # "pending",
         docs' = [docs EXCEPT ![job[j].doc] = d],
         job' = [job EXCEPT ![j] = None], issued' = issued, Repairs(job[j].doc),
         folders' \in [Users \X Folders -> Folder \cup {None}],
         \A x \in Users \X Folders :
           /\ folders[x] # None <=> folders'[x] # None
           /\ folders[x] # None =>
                folders'[x].docs <= folders[x].docs
                  + IF job[j].fresh /\ FolderOf(job[j].path) = x THEN 1 ELSE 0
  PROVE  RecordsInv'
<1> DEFINE i == job[j].doc
<1>0. job[j] \in Job /\ i \in Ids /\ i <= issued /\ d # None
  BY NoneAssumption DEF RecordsInv, RecordTypes, Job, PathsAgree, NoneAssumption
<1>1. RecordTypes'
  BY <1>0 DEF RecordsInv, RecordTypes, Repairs
<1>2. /\ docs'[i] = d /\ \A e \in Ids : e # i => docs'[e] = docs[e]
      /\ job'[j] = None /\ \A k \in Jobs : k # j => job'[k] = job[k]
  BY <1>0 DEF RecordsInv, RecordTypes
<1>3. \A k \in Jobs : job[k] # None => job[k].doc \in Ids
  BY DEF RecordsInv, RecordTypes, Job
<1> HIDE DEF i
<1>4. PathsAgree'
  BY <1>0, <1>2, <1>3 DEF RecordsInv, PathsAgree, i
<1>5. FreshAlone'
  <2>1. \A k \in Jobs : job[k] # None => FolderOf(job[k].path) \in Users \X Folders
    BY Parted DEF RecordsInv, RecordTypes, Job
  <2> QED
    BY <1>2, <2>1 DEF RecordsInv, FreshAlone
<1>6. PendingIsAtWorkOrBroken'
  BY <1>2, <1>0 DEF RecordsInv, PendingIsAtWorkOrBroken, Repairs, i
<1>7. CountsSettled'
  <2> SUFFICES ASSUME NEW u \in Users, NEW f \in Folders, folders'[<<u, f>>] # None
               PROVE  folders'[<<u, f>>].docs <= Cardinality((DocsIn(u, f) \ FreshDocs)')
    BY DEF CountsSettled
  <2> DEFINE S == DocsIn(u, f) \ FreshDocs
             T == (DocsIn(u, f) \ FreshDocs)'
  <2>1. S \in SUBSET Ids /\ T \in SUBSET Ids
    BY DEF DocsIn, FreshDocs
  <2>2. FreshDocs' \subseteq FreshDocs
    BY <1>2 DEF FreshDocs
  <2>3. DocsIn(u, f) \subseteq DocsIn(u, f)'
    BY <1>0, <1>2 DEF DocsIn, RecordsInv, PathsAgree, i
  <2>4. S \subseteq T
    BY <2>2, <2>3
  <2>5. folders[<<u, f>>].docs \in Nat /\ folders'[<<u, f>>].docs \in Nat
    BY <1>1 DEF RecordsInv, RecordTypes, Folder
  <2>6. folders[<<u, f>>].docs <= Cardinality(S)
    BY DEF RecordsInv, CountsSettled
  <2>7. CASE job[j].fresh /\ FolderOf(job[j].path) = <<u, f>>
    <3>1. i \in FreshDocs /\ i \notin FreshDocs'
      BY <1>0, <1>2, <2>7 DEF FreshDocs, RecordsInv, FreshAlone, i
    <3>2. i \in DocsIn(u, f)'
      BY <1>0, <1>2, <2>7 DEF DocsIn, FolderOf
    <3>3. i \in T /\ i \notin S
      BY <3>1, <3>2
    <3> HIDE DEF S, T
    <3>4. IsFiniteSet(S) /\ IsFiniteSet(T) /\ Cardinality(S) \in Nat /\ Cardinality(T) \in Nat
      BY <2>1, Finite
    <3>5. Cardinality(S \cup {i}) = Cardinality(S) + 1
      BY <3>3, <3>4, FS_AddElement
    <3>6. Cardinality(S \cup {i}) <= Cardinality(T)
      BY <2>4, <3>3, <3>4, FS_Subset
    <3>7. folders'[<<u, f>>].docs <= folders[<<u, f>>].docs + 1
      BY <2>7
    <3> QED
      BY <2>5, <2>6, <3>4, <3>5, <3>6, <3>7 DEF T
  <2>8. CASE ~(job[j].fresh /\ FolderOf(job[j].path) = <<u, f>>)
    <3> HIDE DEF S, T
    <3>1. IsFiniteSet(T) /\ Cardinality(S) \in Nat /\ Cardinality(T) \in Nat
      BY <2>1, Finite
    <3>2. Cardinality(S) <= Cardinality(T)
      BY <2>4, <3>1, FS_Subset
    <3>3. folders'[<<u, f>>].docs <= folders[<<u, f>>].docs
      BY <2>8, <2>5
    <3> QED
      BY <2>5, <2>6, <3>1, <3>2, <3>3 DEF T
  <2> QED
    BY <2>7, <2>8
<1> QED
  BY <1>1, <1>4, <1>5, <1>6, <1>7 DEF RecordsInv

\* Where nothing is counted, it is enough that no record is lost.
LEMMA CountsKept ==
  ASSUME RecordsInv, RecordTypes', FoldersGrow,
         \A i \in Ids : docs[i] # None => docs'[i] # None /\ docs'[i].path = docs[i].path,
         \A i \in FreshDocs' : i \in FreshDocs \/ docs[i] = None
  PROVE  CountsSettled'
<1> SUFFICES ASSUME NEW u \in Users, NEW f \in Folders, folders'[<<u, f>>] # None
             PROVE  folders'[<<u, f>>].docs <= Cardinality((DocsIn(u, f) \ FreshDocs)')
  BY DEF CountsSettled
<1> DEFINE S == DocsIn(u, f) \ FreshDocs
           T == (DocsIn(u, f) \ FreshDocs)'
<1>1. S \in SUBSET Ids /\ T \in SUBSET Ids /\ S \subseteq T
  BY DEF DocsIn, FreshDocs
<1>2. /\ folders[<<u, f>>] # None => folders[<<u, f>>].docs <= Cardinality(S)
      /\ folders[<<u, f>>] # None => folders'[<<u, f>>] = folders[<<u, f>>]
      /\ folders[<<u, f>>] = None => folders'[<<u, f>>].docs = 0
      /\ folders'[<<u, f>>].docs \in Nat
  BY DEF RecordsInv, CountsSettled, FoldersGrow, RecordTypes, Folder
<1> HIDE DEF S, T
<1>3. IsFiniteSet(T) /\ Cardinality(S) \in Nat /\ Cardinality(T) \in Nat
  BY <1>1, Finite
<1>4. Cardinality(S) <= Cardinality(T)
  BY <1>1, <1>3, FS_Subset
<1> QED
  BY <1>2, <1>3, <1>4 DEF T

\* An id that is given out, or one whose record is of this path.
Taken(i, p) ==
  \/ i = issued + 1 /\ issued' = i
  \/ docs[i] # None /\ docs[i].path = p /\ issued' = issued

LEMMA TakenIds ==
  ASSUME RecordsInv, NEW i \in Ids, NEW p, Taken(i, p)
  PROVE  /\ issued' \in 0..MaxDocs /\ issued <= issued' /\ i <= issued'
         /\ docs[i] # None => docs[i].path = p
         /\ \A k \in Jobs : job[k] # None /\ job[k].doc = i => job[k].path = p
         /\ i = issued + 1 => \A k \in Jobs : job[k] # None => job[k].doc # i
<1>1. issued \in 0..MaxDocs /\ MaxDocs \in Nat
  BY Bounds DEF RecordsInv, RecordTypes
<1>2. \A k \in Jobs : job[k] # None => job[k].doc \in Ids /\ job[k].doc <= issued
  BY DEF RecordsInv, RecordTypes, PathsAgree, Job
<1>3. docs[i] # None => i <= issued
  BY DEF RecordsInv, PathsAgree
<1> QED
  BY <1>1, <1>2, <1>3 DEF RecordsInv, PathsAgree, Taken, Ids

\* A record is written outside the life of a request.
LEMMA MarkKeeps ==
  ASSUME RecordsInv, NEW i \in Ids, NEW d \in Doc, d.status # "pending", Taken(i, d.path),
         docs' = [docs EXCEPT ![i] = d], job' = job, FoldersGrow, Repairs(i),
         folders' \in [Users \X Folders -> Folder \cup {None}]
  PROVE  RecordsInv'
<1>1. /\ issued' \in 0..MaxDocs /\ issued <= issued' /\ i <= issued' /\ issued \in Int
      /\ docs[i] # None => docs[i].path = d.path
      /\ \A k \in Jobs : job[k] # None /\ job[k].doc = i => job[k].path = d.path
  BY TakenIds DEF RecordsInv, RecordTypes
<1>2. RecordTypes' /\ d # None
  BY <1>1, NoneAssumption DEF RecordsInv, RecordTypes, Repairs, NoneAssumption
<1>3. docs'[i] = d /\ \A e \in Ids : e # i => docs'[e] = docs[e]
  BY DEF RecordsInv, RecordTypes
<1>4. \A k \in Jobs : job[k] # None => job[k].doc \in Ids /\ FolderOf(job[k].path) \in Users \X Folders
  BY Parted DEF RecordsInv, RecordTypes, Job
<1>5. PathsAgree'
  <2>1. \A k \in Jobs : job[k] # None => job[k].doc <= issued'
    BY <1>1, <1>4 DEF RecordsInv, PathsAgree, Ids
  <2>2. \A e \in Ids : docs'[e] # None => e <= issued'
    BY <1>1, <1>3 DEF RecordsInv, PathsAgree, Ids
  <2> QED
    BY <1>1, <1>2, <1>3, <1>4, <2>1, <2>2 DEF RecordsInv, PathsAgree
<1>6. FreshAlone'
  BY <1>4 DEF RecordsInv, FreshAlone, FoldersGrow
<1>7. PendingIsAtWorkOrBroken'
  BY <1>3 DEF RecordsInv, PendingIsAtWorkOrBroken, Repairs
<1>8. FreshDocs' = FreshDocs
  BY DEF FreshDocs
<1>9. CountsSettled'
  BY <1>1, <1>2, <1>3, <1>8, CountsKept
<1> QED
  BY <1>2, <1>5, <1>6, <1>7, <1>9 DEF RecordsInv

\* A request begins, with a record that is pending if it is an upload.
LEMMA OpenKeeps ==
  ASSUME RecordsInv, NEW j \in Jobs, job[j] = None, NEW r \in Job, Taken(r.doc, r.path),
         job' = [job EXCEPT ![j] = r], FoldersGrow,
         folders' \in [Users \X Folders -> Folder \cup {None}],
         \/ UNCHANGED <<docs, broken>>
         \/ /\ r.kind = "upload" /\ Repairs(r.doc)
            /\ \E d \in Doc : d.path = r.path /\ docs' = [docs EXCEPT ![r.doc] = d],
         r.kind # "import" => docs'[r.doc] # None,
         r.fresh => r.kind = "upload" /\ r.doc = issued + 1 /\ folders'[FolderOf(r.path)] # None
  PROVE  RecordsInv'
<1> DEFINE i == r.doc
<1>0. r # None /\ i \in Ids
  BY NoneAssumption DEF NoneAssumption, Job
<1>1. /\ issued' \in 0..MaxDocs /\ issued <= issued' /\ i <= issued' /\ issued \in Int
      /\ docs[i] # None => docs[i].path = r.path
      /\ \A k \in Jobs : job[k] # None /\ job[k].doc = i => job[k].path = r.path
      /\ i = issued + 1 => \A k \in Jobs : job[k] # None => job[k].doc # i
  BY <1>0, TakenIds DEF RecordsInv, RecordTypes
<1>2. RecordTypes'
  BY <1>0, <1>1 DEF RecordsInv, RecordTypes, Repairs
<1>3. /\ \A e \in Ids : e # i => docs'[e] = docs[e]
      /\ docs'[i] # None => docs'[i].path = r.path
      /\ docs[i] # None => docs'[i] # None
      /\ (docs'[i] = docs[i] /\ broken' = broken) \/ (r.kind = "upload" /\ Repairs(i))
  BY <1>0, <1>1, NoneAssumption DEF RecordsInv, RecordTypes, NoneAssumption
<1>4. job'[j] = r /\ \A k \in Jobs : k # j => job'[k] = job[k]
  BY DEF RecordsInv, RecordTypes
<1>5. \A k \in Jobs : job[k] # None => job[k].doc \in Ids /\ FolderOf(job[k].path) \in Users \X Folders
  BY Parted DEF RecordsInv, RecordTypes, Job
<1> HIDE DEF i
<1>6. PathsAgree'
  <2>1. \A k \in Jobs : job[k] # None => job[k].doc <= issued'
    BY <1>1, <1>5 DEF RecordsInv, PathsAgree, Ids
  <2>2. \A e \in Ids : docs'[e] # None => e <= issued'
    BY <1>0, <1>1, <1>3 DEF RecordsInv, PathsAgree, Ids
  <2>3. ASSUME NEW k \in Jobs, job'[k] # None
        PROVE  /\ job'[k].doc <= issued'
               /\ docs'[job'[k].doc] # None => docs'[job'[k].doc].path = job'[k].path
               /\ job'[k].kind # "import" => docs'[job'[k].doc] # None
    <3>1. CASE k = j
      BY <1>1, <1>3, <1>4, <3>1 DEF i
    <3>2. CASE k # j
      BY <1>0, <1>1, <1>3, <1>4, <1>5, <2>1, <2>3, <3>2 DEF RecordsInv, PathsAgree
    <3> QED
      BY <3>1, <3>2
  <2>4. ASSUME NEW k \in Jobs, NEW l \in Jobs, job'[k] # None, job'[l] # None,
               job'[l].doc = job'[k].doc
        PROVE  job'[l].path = job'[k].path
    BY <1>1, <1>4, <2>4 DEF RecordsInv, PathsAgree, i
  <2> QED
    BY <2>2, <2>3, <2>4 DEF PathsAgree
<1>7. FreshAlone'
  <2>1. \A k \in Jobs : job[k] # None /\ folders[FolderOf(job[k].path)] # None =>
          folders'[FolderOf(job[k].path)] # None
    BY <1>5 DEF FoldersGrow
  <2> QED
    BY <1>1, <1>4, <2>1 DEF RecordsInv, FreshAlone, i
<1>8. PendingIsAtWorkOrBroken'
  BY <1>0, <1>3, <1>4 DEF RecordsInv, PendingIsAtWorkOrBroken, Repairs, i
<1>9. CountsSettled'
  <2>1. \A e \in Ids : docs[e] # None => docs'[e] # None /\ docs'[e].path = docs[e].path
    BY <1>1, <1>3
  <2>2. i = issued + 1 => docs[i] = None
    BY <1>0, <1>1 DEF RecordsInv, PathsAgree, Ids
  <2>3. \A e \in FreshDocs' : e \in FreshDocs \/ docs[e] = None
    BY <1>4, <2>2 DEF FreshDocs, i
  <2> QED
    BY <1>2, <2>1, <2>3, CountsKept
<1> QED
  BY <1>2, <1>6, <1>7, <1>8, <1>9 DEF RecordsInv

\* A request goes on.
LEMMA GoesOn ==
  ASSUME RecordsInv, NEW j \in Jobs, job[j] # None, NEW r \in Job,
         r.kind = job[j].kind, r.doc = job[j].doc, r.path = job[j].path, r.fresh = job[j].fresh,
         job' = [job EXCEPT ![j] = r], UNCHANGED <<docs, folders, issued, broken>>
  PROVE  RecordsInv'
<1>1. job'[j] = r /\ (\A k \in Jobs : k # j => job'[k] = job[k]) /\ r # None
  BY NoneAssumption DEF RecordsInv, RecordTypes, NoneAssumption
<1>2. RecordTypes'
  BY DEF RecordsInv, RecordTypes
<1>3. PathsAgree'
  BY <1>1 DEF RecordsInv, PathsAgree
<1>4. FreshAlone'
  BY <1>1 DEF RecordsInv, FreshAlone
<1>5. PendingIsAtWorkOrBroken'
  BY <1>1 DEF RecordsInv, PendingIsAtWorkOrBroken
<1>6. FreshDocs' = FreshDocs
  BY <1>1 DEF FreshDocs
<1>7. CountsSettled'
  BY <1>6 DEF RecordsInv, CountsSettled, DocsIn
<1> QED
  BY <1>2, <1>3, <1>4, <1>5, <1>7 DEF RecordsInv

\* A request breaks off.
LEMMA BreakKeeps ==
  ASSUME RecordsInv, NEW j \in Jobs, job[j] # None, Breaks(j), issued' = issued
  PROVE  RecordsInv'
<1>1. /\ job' = [job EXCEPT ![j] = None] /\ UNCHANGED <<docs, folders>>
      /\ broken \subseteq broken' /\ broken' \subseteq Ids
  BY DEF Breaks, RecordsInv, RecordTypes, Job
<1>2. job'[j] = None /\ \A k \in Jobs : k # j => job'[k] = job[k]
  BY <1>1 DEF RecordsInv, RecordTypes
<1>3. RecordTypes'
  BY <1>1 DEF RecordsInv, RecordTypes
<1>4. PathsAgree'
  BY <1>1, <1>2 DEF RecordsInv, PathsAgree
<1>5. FreshAlone'
  BY <1>1, <1>2 DEF RecordsInv, FreshAlone
<1>6. PendingIsAtWorkOrBroken'
  <2> SUFFICES ASSUME NEW i \in Ids, docs[i] # None, docs[i].status = "pending", i \notin broken'
               PROVE  \E k \in Jobs : job'[k] # None /\ job'[k].kind = "upload" /\ job'[k].doc = i
    BY <1>1 DEF PendingIsAtWorkOrBroken
  <2>1. PICK k \in Jobs : job[k] # None /\ job[k].kind = "upload" /\ job[k].doc = i
    BY <1>1 DEF RecordsInv, PendingIsAtWorkOrBroken
  <2>2. k # j
    BY <2>1 DEF Breaks
  <2> QED
    BY <1>2, <2>1, <2>2
<1>7. CountsSettled'
  <2>1. FreshDocs' \subseteq FreshDocs
    BY <1>2 DEF FreshDocs
  <2> QED
    BY <1>1, <1>3, <2>1, CountsKept DEF FoldersGrow
<1> QED
  BY <1>3, <1>4, <1>5, <1>6, <1>7 DEF RecordsInv

\* No record and no request changes; an id may be given out, and a folder added.
LEMMA RecordsLeft ==
  ASSUME RecordsInv, UNCHANGED <<docs, job, broken>>, FoldersGrow,
         folders' \in [Users \X Folders -> Folder \cup {None}],
         issued' \in 0..MaxDocs, issued <= issued'
  PROVE  RecordsInv'
<1>1. RecordTypes' /\ PendingIsAtWorkOrBroken'
  BY DEF RecordsInv, RecordTypes, PendingIsAtWorkOrBroken
<1>2. \A k \in Jobs : job[k] # None => job[k].doc \in Ids /\ FolderOf(job[k].path) \in Users \X Folders
  BY Parted DEF RecordsInv, RecordTypes, Job
<1>3. PathsAgree'
  <2>1. issued \in Int /\ issued' \in Int /\ Ids \subseteq Int
    BY <1>1 DEF RecordsInv, RecordTypes, Ids
  <2>2. \A i \in Ids : i <= issued => i <= issued'
    BY <2>1
  <2> QED
    BY <1>2, <2>2 DEF RecordsInv, PathsAgree
<1>4. FreshAlone'
  BY <1>2 DEF RecordsInv, FreshAlone, FoldersGrow
<1>5. CountsSettled'
  <2>1. FreshDocs' = FreshDocs
    BY DEF FreshDocs
  <2> QED
    BY <1>1, <2>1, CountsKept
<1> QED
  BY <1>1, <1>3, <1>4, <1>5 DEF RecordsInv

-----------------------------------------------------------------------------
(* The store: what was the content of a file remains what was. *)

\* A later bound is met by what meets it later.
LEMMA WasEarlier ==
  ASSUME StoreTypes, NEW v, NEW p, NEW t \in Int, NEW s \in Int, s <= t, Was(v, p, t)
  PROVE  Was(v, p, s)
<1>1. history[v].till \in Int
  BY Bounds DEF StoreTypes, Was, Version
<1> QED
  BY <1>1 DEF Was

StaysWas == \A v \in Versions, p \in Paths, t \in Int : t <= now /\ Was(v, p, t) => Was(v, p, t)'

LEMMA UntouchedFiles ==
  ASSUME ReadsInv, UNCHANGED <<files, history>>
  PROVE  FilesKnown' /\ StaysWas
  BY DEF ReadsInv, FilesKnown, StaysWas, Was

LEMMA WrittenFiles ==
  ASSUME ReadsInv, NEW p \in Paths, Written(p), now' = now
  PROVE  /\ files' \in [Paths -> 0..MaxVersion]
         /\ history' \in [Versions -> Version \cup {None}]
         /\ FilesKnown' /\ StaysWas
<1> USE DEF ReadsInv
<1>1. PICK v \in Versions :
        /\ history[v] = None
        /\ files' = [files EXCEPT ![p] = v]
        /\ history' = [w \in Versions |->
             IF w = v THEN [path |-> p, till |-> now]
             ELSE IF w = files[p] THEN [history[w] EXCEPT !.till = now]
             ELSE history[w]]
  BY DEF Written, NextVersion
<1>2. now \in 0..MaxTime /\ MaxTime \in Nat /\ Versions \subseteq 1..MaxVersion
  BY Bounds DEF StoreTypes, Versions
<1>3. \A w \in Versions : w = files[p] => history[w] \in Version /\ history[w].path = p
  BY <1>2 DEF StoreTypes, FilesKnown, Versions
<1>4. files' \in [Paths -> 0..MaxVersion]
  BY <1>1, <1>2 DEF StoreTypes
<1>5. \A w \in Versions :
        /\ w = v => history'[w] = [path |-> p, till |-> now]
        /\ w # v /\ w = files[p] => history'[w] = [history[w] EXCEPT !.till = now]
        /\ w # v /\ w # files[p] => history'[w] = history[w]
  BY <1>1
<1>6. \A w \in Versions : w # v /\ w = files[p] =>
        history'[w] \in Version /\ history'[w].path = p /\ history'[w].till = now
  BY <1>2, <1>3, <1>5 DEF Version
<1>7. history'[v] \in Version /\ history'[v].path = p
  <2>1. history'[v] = [path |-> p, till |-> now]
    BY <1>5
  <2>2. [path |-> p, till |-> now] \in Version
    BY <1>2 DEF Version
  <2> QED
    BY <2>1, <2>2
<1>8. history' \in [Versions -> Version \cup {None}]
  <2>1. \A w \in Versions : history'[w] \in Version \cup {None}
    BY <1>5, <1>6, <1>7 DEF StoreTypes
  <2>2. history' = [w \in Versions |-> history'[w]]
    BY <1>1
  <2> QED
    BY <2>1, <2>2
<1>9. None \notin Version
  BY NoneAssumption DEF NoneAssumption
<1>10. \A q \in Paths : files'[q] = IF q = p THEN v ELSE files[q]
  BY <1>1 DEF StoreTypes
<1>11. \A q \in Paths : files[q] # 0 => files[q] \in Versions
  BY DEF StoreTypes, Versions
<1>12. FilesKnown'
  <2> SUFFICES ASSUME NEW q \in Paths, files'[q] # 0
               PROVE  history'[files'[q]] # None /\ history'[files'[q]].path = q
    BY DEF FilesKnown
  <2>1. CASE q = p
    BY <1>7, <1>9, <1>10, <2>1
  <2>2. CASE q # p
    <3>1. files'[q] = files[q] /\ files[q] \in Versions /\ history[files[q]] # None /\ history[files[q]].path = q
      BY <1>10, <1>11, <2>2 DEF FilesKnown
    <3>2. files[q] # v /\ files[q] # files[p]
      BY <1>1, <1>3, <3>1, <2>2
    <3> QED
      BY <1>5, <3>1, <3>2
  <2> QED
    BY <2>1, <2>2
<1>13. StaysWas
  <2> SUFFICES ASSUME NEW w \in Versions, NEW q \in Paths, NEW t \in Int, t <= now, Was(w, q, t)
               PROVE  Was(w, q, t)'
    BY DEF StaysWas
  <2>1. w # v /\ history[w] # None /\ history[w].path = q /\ (files[q] = w \/ history[w].till >= t)
    BY <1>1 DEF Was
  <2>2. CASE w = files[p]
    BY <1>2, <1>3, <1>6, <1>9, <2>1, <2>2 DEF Was
  <2>3. CASE w # files[p]
    BY <1>5, <1>10, <2>1, <2>3 DEF Was
  <2> QED
    BY <2>2, <2>3
<1> QED
  BY <1>4, <1>8, <1>12, <1>13

LEMMA DeletedFile ==
  ASSUME ReadsInv, NEW p \in Paths, files[p] # 0, now' = now,
         files' = [files EXCEPT ![p] = 0], history' = [history EXCEPT ![files[p]].till = now]
  PROVE  /\ files' \in [Paths -> 0..MaxVersion]
         /\ history' \in [Versions -> Version \cup {None}]
         /\ FilesKnown' /\ StaysWas
<1> USE DEF ReadsInv
<1> DEFINE v == files[p]
           gone == [history[v] EXCEPT !.till = now]
<1>1. v \in Versions /\ history[v] # None /\ history[v].path = p
  BY DEF StoreTypes, FilesKnown, Versions
<1>2. now \in 0..MaxTime /\ MaxTime \in Nat /\ MaxVersion \in Nat /\ None \notin Version
  BY Bounds, NoneAssumption DEF StoreTypes, NoneAssumption
<1>3. gone \in Version /\ gone.path = p /\ gone.till = now
  BY <1>1, <1>2 DEF StoreTypes, Version
<1>4. history' = [history EXCEPT ![v] = gone]
  BY <1>1 DEF StoreTypes
<1> HIDE DEF gone
<1>5. history' \in [Versions -> Version \cup {None}] /\ files' \in [Paths -> 0..MaxVersion]
  BY <1>1, <1>2, <1>3, <1>4 DEF StoreTypes
<1>6. /\ history'[v] = gone /\ \A w \in Versions : w # v => history'[w] = history[w]
      /\ \A q \in Paths : files'[q] = IF q = p THEN 0 ELSE files[q]
  BY <1>1, <1>4 DEF StoreTypes
<1>7. \A q \in Paths : files[q] # 0 => files[q] \in Versions
  BY DEF StoreTypes, Versions
<1> HIDE DEF v
<1>8. FilesKnown'
  BY <1>1, <1>2, <1>3, <1>6, <1>7 DEF FilesKnown, v
<1>9. StaysWas
  <2> SUFFICES ASSUME NEW w \in Versions, NEW q \in Paths, NEW t \in Int, t <= now, Was(w, q, t)
               PROVE  Was(w, q, t)'
    BY DEF StaysWas
  <2>1. CASE w = v
    BY <1>1, <1>2, <1>3, <1>6, <2>1 DEF Was
  <2>2. CASE w # v
    BY <1>6, <2>2 DEF Was, v
  <2> QED
    BY <2>1, <2>2
<1> QED
  BY <1>5, <1>8, <1>9

\* What is read, cached and stored at a step is of now, or was there before it.
LEMMA ReadsKept ==
  ASSUME RecordsInv, ReadsInv, StoreTypes', FilesKnown', StaysWas, RecordTypes', now' = now,
         \A p \in Paths : cache'[p] # None =>
           \/ cache'[p] = cache[p]
           \/ cache'[p].till = now + Ttl /\ Was(cache[p].blocks, p, now)',
         \A j \in Jobs : job'[j] # None /\ job'[j].got # 0 =>
           \/ job[j] # None /\ job'[j].got = job[j].got /\ job'[j].path = job[j].path
           \/ Was(job[j].got, job[j].path, now)',
         \A i \in Ids : docs'[i] # None /\ docs'[i].blocks # 0 =>
           \/ /\ docs[i] # None /\ docs'[i].blocks = docs[i].blocks
              /\ docs'[i].path = docs[i].path /\ docs'[i].at = docs[i].at
           \/ docs'[i].at = now /\ Was(docs[i].blocks, docs[i].path, now - Ttl)'
  PROVE  ReadsInv'
<1> USE DEF ReadsInv, RecordsInv
<1>1. now \in Int /\ Ttl \in Nat /\ MaxTime \in Nat /\ MaxVersion \in Nat
  BY Bounds DEF StoreTypes
<1>2. CacheRecent'
  <2> SUFFICES ASSUME NEW p \in Paths, cache'[p] # None
               PROVE  cache'[p].till <= now + Ttl /\ Was(cache[p].blocks, p, cache[p].till - Ttl)'
    BY DEF CacheRecent, Was
  <2>1. cache'[p] \in Entry /\ cache'[p].blocks \in Versions /\ cache'[p].till \in Int
    BY <1>1 DEF StoreTypes, Entry
  <2>2. CASE cache'[p] = cache[p]
    <3>1. cache[p].till <= now + Ttl /\ Was(cache[p].blocks, p, cache[p].till - Ttl)
      BY <2>2 DEF CacheRecent
    <3>2. cache[p].till - Ttl \in Int /\ cache[p].till - Ttl <= now
      BY <1>1, <2>1, <2>2, <3>1
    <3> QED
      BY <2>1, <2>2, <3>1, <3>2 DEF StaysWas, Was
  <2>3. CASE cache'[p].till = now + Ttl /\ Was(cache[p].blocks, p, now)'
    <3>1. cache'[p].till - Ttl = now
      BY <1>1, <2>3
    <3> QED
      BY <1>1, <2>1, <2>3, <3>1 DEF Was
  <2> QED
    BY <2>2, <2>3
<1>3. GotRead'
  <2> SUFFICES ASSUME NEW j \in Jobs, job'[j] # None, job'[j].got # 0
               PROVE  Was(job[j].got, job[j].path, now)'
    BY DEF GotRead, Was
  <2>1. job'[j] \in Job /\ job'[j].got \in Versions /\ job'[j].path \in Paths
    BY <1>1 DEF RecordTypes, Job, Versions
  <2> QED
    BY <1>1, <2>1 DEF GotRead, StaysWas, Was
<1>4. DocsWere'
  <2> SUFFICES ASSUME NEW i \in Ids, docs'[i] # None, docs'[i].blocks # 0
               PROVE  docs'[i].at <= now /\ Was(docs[i].blocks, docs[i].path, docs[i].at - Ttl)'
    BY DEF DocsWere, Was
  <2>1. docs'[i].blocks \in Versions /\ docs'[i].path \in Paths /\ docs'[i].at \in Int
    BY <1>1 DEF RecordTypes, Doc, Versions
  <2>2. CASE /\ docs[i] # None /\ docs'[i].blocks = docs[i].blocks
             /\ docs'[i].path = docs[i].path /\ docs'[i].at = docs[i].at
    <3>1. docs[i].at <= now /\ Was(docs[i].blocks, docs[i].path, docs[i].at - Ttl)
      BY <2>2 DEF DocsWere
    <3>2. docs[i].at - Ttl \in Int /\ docs[i].at - Ttl <= now
      BY <1>1, <2>1, <2>2, <3>1
    <3> QED
      BY <2>1, <2>2, <3>1, <3>2 DEF StaysWas, Was
  <2>3. CASE docs'[i].at = now /\ Was(docs[i].blocks, docs[i].path, now - Ttl)'
    BY <1>1, <2>1, <2>3 DEF Was
  <2> QED
    BY <2>2, <2>3
<1> QED
  BY <1>2, <1>3, <1>4

-----------------------------------------------------------------------------
(* What the operators return. *)

LEMMA FolderSteps ==
  ASSUME RecordTypes, NEW u \in Users, NEW f \in Folders, ImportFolder(u, f) \/ UploadFolder(u, f)
  PROVE  /\ FoldersGrow /\ folders'[<<u, f>>] # None
         /\ folders' \in [Users \X Folders -> Folder \cup {None}]
<1>1. ASSUME NEW name \in FolderNames \cup {DefaultName}, Created(u, f, name)
      PROVE  /\ FoldersGrow /\ folders'[<<u, f>>] # None
             /\ folders' \in [Users \X Folders -> Folder \cup {None}]
  <2>1. EmptyFolder(name) \in Folder /\ EmptyFolder(name).docs = 0 /\ EmptyFolder(name) # None
    BY NoneAssumption DEF EmptyFolder, Folder, NoneAssumption
  <2>2. folders[<<u, f>>] = None /\ folders' = [folders EXCEPT ![<<u, f>>] = EmptyFolder(name)]
    BY <1>1 DEF Created, Unused, Owned
  <2> QED
    BY <2>1, <2>2 DEF RecordTypes, FoldersGrow
<1>2. ASSUME f \in Owned(u), UNCHANGED folders
      PROVE  /\ FoldersGrow /\ folders'[<<u, f>>] # None
             /\ folders' \in [Users \X Folders -> Folder \cup {None}]
  BY <1>2 DEF RecordTypes, FoldersGrow, Owned
<1> QED
  BY <1>1, <1>2 DEF ImportFolder, UploadFolder, DefaultFolder, NamedFolder

LEMMA CachedWas ==
  ASSUME ReadsInv, NEW p \in Paths
  PROVE  /\ Cached(p) \in 0..MaxVersion
         /\ Cached(p) # 0 => Was(Cached(p), p, now - Ttl)
<1>1. now \in Int /\ Ttl \in Nat /\ MaxTime \in Nat /\ MaxVersion \in Nat
  BY Bounds DEF ReadsInv, StoreTypes
<1>2. CASE cache[p] # None /\ ~Expired(cache[p], now)
  <2>1. cache[p] \in Entry /\ Cached(p) = cache[p].blocks
    BY <1>2 DEF ReadsInv, StoreTypes, Cached
  <2>2. cache[p].till \in Int /\ now <= cache[p].till /\ cache[p].blocks \in 1..MaxVersion
    BY <1>1, <1>2, <2>1 DEF Entry, Expired, Versions
  <2>3. Was(cache[p].blocks, p, cache[p].till - Ttl)
    BY <1>2 DEF ReadsInv, CacheRecent
  <2>4. now - Ttl <= cache[p].till - Ttl /\ now - Ttl \in Int /\ cache[p].till - Ttl \in Int
    BY <1>1, <2>2
  <2>5. Was(cache[p].blocks, p, now - Ttl)
    BY <2>3, <2>4, WasEarlier DEF ReadsInv
  <2> QED
    BY <1>1, <2>1, <2>2, <2>5
<1>3. CASE ~(cache[p] # None /\ ~Expired(cache[p], now))
  BY <1>1, <1>3 DEF Cached
<1> QED
  BY <1>2, <1>3

\* A record of p at the end of a parse: its blocks are the ones given, stored now.
Fits(d, p, status, blocks) ==
  /\ d \in Doc /\ d.path = p /\ d.status = status
  /\ d.blocks # 0 => d.blocks = blocks /\ d.at = now

LEMMA RecordFits ==
  ASSUME now \in 0..MaxTime, NEW p \in Paths, NEW status \in Statuses, NEW blocks \in 0..MaxVersion
  PROVE  Fits(Record(p, status, blocks), p, status, blocks)
  BY Bounds DEF Record, Fits, Doc

LEMMA MergedFits ==
  ASSUME RecordsInv, now \in 0..MaxTime, NEW i \in Ids, docs[i] # None,
         NEW status \in Statuses, NEW blocks \in 0..MaxVersion
  PROVE  Fits(Merged(i, status, blocks), docs[i].path, status, blocks)
<1>1. docs[i] \in Doc
  BY DEF RecordsInv, RecordTypes
<1> DEFINE w == docs[i].whole /\ Live(i)
           b == IF status = "parsed" THEN blocks ELSE 0
           t == IF status = "parsed" THEN now ELSE 0
           d == [docs[i] EXCEPT !.status = status, !.blocks = b, !.at = t, !.whole = w]
<1>2. w \in BOOLEAN
  OBVIOUS
<1>3. b \in 0..MaxVersion /\ t \in 0..MaxTime /\ (b # 0 => b = blocks /\ t = now)
  BY Bounds
<1>4. Merged(i, status, blocks) = d
  BY DEF Merged
<1> HIDE DEF w, b, t
<1>5. d \in Doc /\ d.path = docs[i].path /\ d.status = status /\ d.blocks = b /\ d.at = t
  BY <1>1, <1>2, <1>3 DEF Doc
<1> QED
  BY <1>3, <1>4, <1>5 DEF Fits

LEMMA OkHasContent ==
  ASSUME NEW v, "ok" \in UrlAnswers(v) \/ "ok" \in FileAnswers(v)
  PROVE  v # 0
  BY DEF UrlAnswers, FileAnswers, Errors, Outcome, Content

Ends == {"parsed", "failed", "preview_only"}

LEMMA StatusAtOnceEnds == \A p \in Paths : StatusAtOnce(p) \in Ends /\ StatusAtOnce(p) \in Statuses
  BY DEF StatusAtOnce, Ends, Statuses

LEMMA CountedFolder ==
  ASSUME NEW g \in Folder, NEW n \in Nat, NEW m \in Nat
  PROVE  /\ [g EXCEPT !.docs = g.docs + n, !.parsed = g.parsed + m] \in Folder
         /\ [g EXCEPT !.docs = g.docs + n, !.parsed = g.parsed + m].docs = g.docs + n
<1>1. g.docs + n \in Nat /\ g.parsed + m \in Nat
  BY DEF Folder
<1> DEFINE a == g.docs + n
           b == g.parsed + m
<1> HIDE DEF a, b
<1>2. [g EXCEPT !.docs = a, !.parsed = b] \in Folder /\ [g EXCEPT !.docs = a, !.parsed = b].docs = a
  BY <1>1 DEF Folder, a, b
<1> QED
  BY <1>2 DEF a, b

\* The end of a request leaves the others, and changes one record.
LEMMA SettledKeeps ==
  ASSUME RecordsInv, now \in 0..MaxTime, NEW j \in Jobs, job[j] # None,
         NEW status \in Ends, NEW blocks \in 0..MaxVersion,
         Settled(j, status, blocks), issued' = issued
  PROVE  /\ RecordsInv'
         /\ \A k \in Jobs : job'[k] # None => job'[k] = job[k]
         /\ \A i \in Ids : docs'[i] # None /\ docs'[i].blocks # 0 =>
              \/ docs'[i] = docs[i]
              \/ docs'[i].blocks = blocks /\ docs'[i].at = now /\ docs'[i].path = job[j].path
<1> DEFINE d == IF job[j].kind = "reparse" THEN Merged(job[j].doc, status, blocks)
                ELSE Record(job[j].path, status, blocks)
           x == <<job[j].path[1], job[j].path[2]>>
           n == Counted(j, status)
<1>0. status \in Statuses /\ status # "pending"
  BY DEF Ends, Statuses
<1>1. /\ job[j] \in Job /\ job[j].doc \in Ids /\ job[j].path \in Paths /\ x = FolderOf(job[j].path)
      /\ x \in Users \X Folders
  BY Parted DEF RecordsInv, RecordTypes, Job, FolderOf
<1>2. Fits(d, job[j].path, status, blocks)
  <2>1. CASE job[j].kind = "reparse"
    BY <1>0, <1>1, <2>1, MergedFits DEF RecordsInv, PathsAgree
  <2>2. CASE job[j].kind # "reparse"
    BY <1>0, <1>1, <2>2, RecordFits
  <2> QED
    BY <2>1, <2>2
<1>3. /\ docs' = [docs EXCEPT ![job[j].doc] = d] /\ job' = [job EXCEPT ![j] = None]
      /\ Repairs(job[j].doc)
  BY DEF Settled, Repairs, RecordsInv, RecordTypes
<1>4. /\ folders' \in [Users \X Folders -> Folder \cup {None}]
      /\ \A y \in Users \X Folders :
           /\ folders[y] # None <=> folders'[y] # None
           /\ folders[y] # None =>
                folders'[y].docs <= folders[y].docs
                  + IF job[j].fresh /\ FolderOf(job[j].path) = y THEN 1 ELSE 0
  <2>0. \A y \in Users \X Folders : folders[y] # None => folders[y].docs \in Nat
    BY DEF RecordsInv, RecordTypes, Folder
  <2>1. CASE n = 0 \/ UNCHANGED folders
    BY <2>0, <2>1 DEF Settled, UpdateCounts, RecordsInv, RecordTypes
  <2>2. CASE n # 0 /\ ~UNCHANGED folders
    <3>1. n = 1 /\ job[j].fresh
      BY <2>2 DEF Counted
    <3>2. folders[x] \in Folder
      BY <1>1, <3>1 DEF RecordsInv, FreshAlone, RecordTypes
    <3> DEFINE m == IF status = "parsed" THEN n ELSE 0
               counted == [folders[x] EXCEPT !.docs = @ + n, !.parsed = @ + m]
    <3>3. counted \in Folder /\ counted.docs = folders[x].docs + 1 /\ counted # None
      <4>1. n \in Nat /\ m \in Nat
        BY <3>1
      <4> HIDE DEF n, m, x, d
      <4>2. counted \in Folder /\ counted.docs = folders[x].docs + n
        BY <3>2, <4>1, CountedFolder
      <4> QED
        BY <3>1, <4>2, NoneAssumption DEF NoneAssumption
    <3>4. folders' = [folders EXCEPT ![x] = counted]
      BY <1>1, <2>2, <3>2 DEF Settled, UpdateCounts, RecordsInv, RecordTypes
    <3> HIDE DEF counted, x
    <3> QED
      BY <1>1, <2>0, <3>1, <3>2, <3>3, <3>4, NoneAssumption
      DEF RecordsInv, RecordTypes, NoneAssumption
  <2> QED
    BY <2>1, <2>2
<1> HIDE DEF d, x, n
<1>5. d \in Doc /\ d.path = job[j].path /\ d.status # "pending"
  BY <1>0, <1>2 DEF Fits
<1>6. RecordsInv'
  BY <1>3, <1>4, <1>5, SettleKeeps
<1>7. \A k \in Jobs : job'[k] # None => job'[k] = job[k]
  BY <1>3 DEF RecordsInv, RecordTypes
<1>8. \A i \in Ids : docs'[i] = docs[i] \/ docs'[i] = d
  BY <1>3 DEF RecordsInv, RecordTypes
<1> QED
  BY <1>2, <1>6, <1>7, <1>8 DEF Fits

LEMMA FinishedKeeps ==
  ASSUME RecordsInv, now \in 0..MaxTime, NEW j \in Jobs, job[j] # None,
         NEW status \in Ends, NEW blocks \in 0..MaxVersion,
         Finished(j, status, blocks), issued' = issued
  PROVE  /\ RecordsInv'
         /\ \A k \in Jobs : job'[k] # None => job'[k] = job[k]
         /\ \A i \in Ids : docs'[i] # None /\ docs'[i].blocks # 0 =>
              \/ docs'[i] = docs[i]
              \/ docs'[i].blocks = blocks /\ docs'[i].at = now /\ docs'[i].path = job[j].path
<1>1. CASE Settled(j, status, blocks)
  BY <1>1, SettledKeeps
<1>2. CASE Breaks(j)
  <2>1. docs' = docs /\ \A k \in Jobs : job'[k] # None => job'[k] = job[k]
    BY <1>2 DEF Breaks, RecordsInv, RecordTypes
  <2> QED
    BY <1>2, <2>1, BreakKeeps
<1> QED
  BY <1>1, <1>2 DEF Finished

-----------------------------------------------------------------------------
(* One lemma per action. *)

LEMMA Numbers ==
  ASSUME DocumentsInv
  PROVE  now \in 0..MaxTime /\ now \in Int /\ Ttl \in Nat /\ MaxTime \in Nat /\ MaxVersion \in Nat
  BY Bounds DEF DocumentsInv, ReadsInv, StoreTypes

\* A request ends with blocks that were the file's, Ttl ago at most.
LEMMA EndsWell ==
  ASSUME DocumentsInv, NEW j \in Jobs, job[j] # None,
         NEW status \in Ends, NEW blocks \in 0..MaxVersion,
         Finished(j, status, blocks), issued' = issued, now' = now,
         StoreTypes', FilesKnown', StaysWas,
         blocks # 0 => Was(blocks, job[j].path, now - Ttl),
         \A p \in Paths : cache'[p] # None =>
           cache'[p] = cache[p] \/ (cache'[p].till = now + Ttl /\ Was(cache[p].blocks, p, now)')
  PROVE  DocumentsInv'
<1>1. /\ RecordsInv'
      /\ \A k \in Jobs : job'[k] # None => job'[k] = job[k]
      /\ \A i \in Ids : docs'[i] # None /\ docs'[i].blocks # 0 =>
           \/ docs'[i] = docs[i]
           \/ docs'[i].blocks = blocks /\ docs'[i].at = now /\ docs'[i].path = job[j].path
  BY Numbers, FinishedKeeps DEF DocumentsInv
<1>2. PICK q \in Paths : q = job[j].path
  BY DEF DocumentsInv, RecordsInv, RecordTypes, Job
<1>3. blocks # 0 => Was(blocks, q, now - Ttl)'
  <2>1. now - Ttl \in Int /\ now - Ttl <= now
    BY Numbers
  <2> QED
    BY <1>2, <2>1 DEF StaysWas, Was
<1>4. ASSUME NEW i \in Ids, docs'[i] # None, docs'[i].blocks # 0
      PROVE  \/ /\ docs[i] # None /\ docs'[i].blocks = docs[i].blocks
                /\ docs'[i].path = docs[i].path /\ docs'[i].at = docs[i].at
             \/ docs'[i].at = now /\ Was(docs[i].blocks, docs[i].path, now - Ttl)'
  BY <1>1, <1>2, <1>3, <1>4 DEF Was
<1>5. ReadsInv'
  BY <1>1, <1>4, ReadsKept DEF DocumentsInv, RecordsInv
<1> QED
  BY <1>1, <1>5 DEF DocumentsInv

\* The cache and what it says of a file, where the request leaves the store alone.
LEMMA StoreAlone ==
  ASSUME DocumentsInv, UNCHANGED <<files, history, now>>
  PROVE  FilesKnown' /\ StaysWas
  BY UntouchedFiles DEF DocumentsInv

LEMMA CachesRead ==
  ASSUME DocumentsInv, NEW j \in Jobs, job[j] # None, job[j].got # 0,
         Cache(job[j].path, job[j].got), UNCHANGED <<files, history, now>>
  PROVE  /\ StoreTypes'
         /\ \A p \in Paths : cache'[p] # None =>
              cache'[p] = cache[p] \/ (cache'[p].till = now + Ttl /\ Was(cache[p].blocks, p, now)')
<1> DEFINE entry == [blocks |-> job[j].got, till |-> now + Ttl]
<1>0. PICK q \in Paths : q = job[j].path
  BY DEF DocumentsInv, RecordsInv, RecordTypes, Job
<1>1. job[j] \in Job /\ job[j].got \in Versions
  BY Numbers DEF DocumentsInv, RecordsInv, RecordTypes, Job, Versions
<1>2. Was(job[j].got, job[j].path, now)
  BY DEF DocumentsInv, ReadsInv, GotRead
<1>3. now + Ttl \in 0..(MaxTime + Ttl)
  BY Numbers
<1>4. entry \in Entry /\ entry.blocks = job[j].got /\ entry.till = now + Ttl
  BY <1>1, <1>3 DEF Entry
<1>5. cache' = [cache EXCEPT ![q] = entry]
  BY <1>0 DEF Cache
<1> HIDE DEF entry
<1>6. StoreTypes'
  BY <1>1, <1>4, <1>5 DEF DocumentsInv, ReadsInv, StoreTypes
<1>7. \A p \in Paths : p # q => cache'[p] = cache[p]
  BY <1>5 DEF DocumentsInv, ReadsInv, StoreTypes
<1>8. cache'[q] = entry
  BY <1>1, <1>5 DEF DocumentsInv, ReadsInv, StoreTypes
<1>9. Was(cache[q].blocks, q, now)'
  BY <1>0, <1>2, <1>4, <1>8 DEF Was
<1> QED
  BY <1>4, <1>6, <1>7, <1>8, <1>9

\* A request goes on, with nothing read, or with the file.
LEMMA StepsOn ==
  ASSUME DocumentsInv, NEW j \in Jobs, job[j] # None, NEW r \in Job,
         r.kind = job[j].kind, r.doc = job[j].doc, r.path = job[j].path, r.fresh = job[j].fresh,
         \/ r.got = job[j].got
         \/ r.got = files[job[j].path] /\ UNCHANGED <<files, history>>,
         job' = [job EXCEPT ![j] = r], UNCHANGED <<docs, folders, cache, issued, broken, now>>,
         StoreTypes', FilesKnown', StaysWas
  PROVE  DocumentsInv'
<1>1. PICK q \in Paths : q = job[j].path
  BY DEF DocumentsInv, RecordsInv, RecordTypes, Job
<1>4. RecordsInv'
  BY GoesOn DEF DocumentsInv
<1>5. job'[j] = r /\ \A k \in Jobs : k # j => job'[k] = job[k]
  BY DEF DocumentsInv, RecordsInv, RecordTypes
<1>6. r.got # 0 => r.got = job[j].got \/ Was(r.got, q, now)'
  <2> SUFFICES ASSUME r.got # 0, r.got # job[j].got
               PROVE  Was(r.got, q, now)'
    OBVIOUS
  <2>1. r.got = files[q] /\ files' = files /\ history' = history
    BY <1>1
  <2>2. r.got \in Versions /\ history[r.got] # None /\ history[r.got].path = q
    BY <1>1, <2>1, Numbers DEF DocumentsInv, ReadsInv, StoreTypes, FilesKnown, Versions
  <2> QED
    BY <2>1, <2>2 DEF Was
<1>7. ASSUME NEW k \in Jobs, job'[k] # None, job'[k].got # 0
      PROVE  \/ job[k] # None /\ job'[k].got = job[k].got /\ job'[k].path = job[k].path
             \/ Was(job[k].got, job[k].path, now)'
  BY <1>1, <1>5, <1>6, <1>7 DEF Was
<1>8. ReadsInv'
  BY <1>4, <1>7, ReadsKept DEF DocumentsInv, RecordsInv
<1> QED
  BY <1>4, <1>8 DEF DocumentsInv

LEMMA RequestFacts ==
  ASSUME DocumentsInv, NEW j \in Jobs, job[j] # None
  PROVE  job[j] \in Job /\ job[j].path \in Paths /\ job[j].got \in 0..MaxVersion
  BY DEF DocumentsInv, RecordsInv, RecordTypes, Job

\* A step that changes neither the store nor the cache.
LEMMA StillTypes == ASSUME DocumentsInv, UNCHANGED <<files, history, cache, now>> PROVE StoreTypes'
  BY DEF DocumentsInv, ReadsInv, StoreTypes

LEMMA ToKeeps ==
  ASSUME DocumentsInv, NEW j \in Jobs, job[j] # None, NEW step \in {"parsing", "downloading"},
         To(j, step), UNCHANGED <<docs, folders, cache, issued, broken, now>>,
         StoreTypes', FilesKnown', StaysWas
  PROVE  DocumentsInv'
<1> DEFINE r == [job[j] EXCEPT !.step = step]
<1>1. /\ r \in Job /\ r.kind = job[j].kind /\ r.doc = job[j].doc /\ r.path = job[j].path
      /\ r.fresh = job[j].fresh /\ r.got = job[j].got
  BY RequestFacts DEF Job
<1>2. job' = [job EXCEPT ![j] = r]
  BY RequestFacts DEF DocumentsInv, RecordsInv, RecordTypes, To
<1> HIDE DEF r
<1> QED
  BY <1>1, <1>2, StepsOn

LEMMA ReadKeeps ==
  ASSUME DocumentsInv, NEW j \in Jobs, job[j] # None, NEW step \in {"fetched", "downloaded"},
         job' = [job EXCEPT ![j].step = step, ![j].got = files[job[j].path]],
         UNCHANGED <<files, docs, folders, cache, issued, broken, history, now>>
  PROVE  DocumentsInv'
<1> DEFINE v == files[job[j].path]
           r == [job[j] EXCEPT !.step = step, !.got = v]
<1>1. v \in 0..MaxVersion
  BY RequestFacts DEF DocumentsInv, ReadsInv, StoreTypes
<1>2. job' = [job EXCEPT ![j] = r]
  BY RequestFacts DEF DocumentsInv, RecordsInv, RecordTypes
<1>3. v = files[job[j].path]
  OBVIOUS
<1> HIDE DEF v
<1>4. /\ r \in Job /\ r.kind = job[j].kind /\ r.doc = job[j].doc /\ r.path = job[j].path
      /\ r.fresh = job[j].fresh /\ r.got = v
  BY <1>1, RequestFacts DEF Job
<1>5. StoreTypes' /\ FilesKnown' /\ StaysWas
  BY StillTypes, StoreAlone
<1> HIDE DEF r
<1> QED
  BY <1>2, <1>3, <1>4, <1>5, StepsOn

LEMMA FailsWell ==
  ASSUME DocumentsInv, NEW j \in Jobs, job[j] # None, Finished(j, "failed", 0),
         UNCHANGED <<files, cache, issued, history, now>>
  PROVE  DocumentsInv'
<1>1. StoreTypes' /\ FilesKnown' /\ StaysWas /\ 0 \in 0..MaxVersion
  BY StillTypes, StoreAlone, Numbers
<1> QED
  BY <1>1, EndsWell DEF Ends

LEMMA BreaksWell ==
  ASSUME DocumentsInv, NEW j \in Jobs, job[j] # None, Breaks(j),
         UNCHANGED <<files, cache, issued, history, now>>
  PROVE  DocumentsInv'
  BY FailsWell DEF Finished

LEMMA ParsesWell ==
  ASSUME DocumentsInv, NEW j \in Jobs, job[j] # None, job[j].got # 0,
         Cache(job[j].path, job[j].got), Finished(j, "parsed", job[j].got),
         UNCHANGED <<files, issued, history, now>>
  PROVE  DocumentsInv'
<1>1. StoreTypes' /\ FilesKnown' /\ StaysWas
  BY CachesRead, StoreAlone
<1>2. Was(job[j].got, job[j].path, now - Ttl)
  <2>1. Was(job[j].got, job[j].path, now)
    BY DEF DocumentsInv, ReadsInv, GotRead
  <2>2. now - Ttl \in Int /\ now - Ttl <= now
    BY Numbers
  <2> QED
    BY <2>1, <2>2, Numbers, WasEarlier DEF DocumentsInv, ReadsInv
<1>3. job[j].got \in 0..MaxVersion
  BY RequestFacts
<1> QED
  BY <1>1, <1>2, <1>3, CachesRead, EndsWell DEF Ends

LEMMA FetchKeeps ==
  ASSUME DocumentsInv, NEW j \in Jobs, Fetch(j) PROVE DocumentsInv'
  BY ReadKeeps DEF Fetch

LEMMA AnswerUrlKeeps ==
  ASSUME DocumentsInv, NEW j \in Jobs, AnswerUrl(j) PROVE DocumentsInv'
<1>1. PICK answer \in UrlAnswers(job[j].got) :
       \/ /\ answer = "ok"
          /\ Cache(job[j].path, job[j].got)
          /\ Finished(j, "parsed", job[j].got)
       \/ /\ answer \in Definitive /\ Finished(j, "failed", 0) /\ UNCHANGED cache
       \/ /\ answer \notin Definitive \cup {"ok"}
          /\ To(j, "downloading") /\ UNCHANGED <<docs, folders, broken, cache>>
       \/ Breaks(j) /\ UNCHANGED cache
  BY DEF AnswerUrl, UrlAnswers, Errors
<1>2. job[j] # None /\ UNCHANGED <<files, issued, history, now>>
  BY DEF AnswerUrl
<1>3. CASE /\ answer = "ok" /\ Cache(job[j].path, job[j].got) /\ Finished(j, "parsed", job[j].got)
  BY <1>1, <1>2, <1>3, OkHasContent, ParsesWell
<1>4. CASE Finished(j, "failed", 0) /\ UNCHANGED cache
  BY <1>2, <1>4, FailsWell
<1>5. CASE To(j, "downloading") /\ UNCHANGED <<docs, folders, broken, cache>>
  BY <1>2, <1>5, StillTypes, StoreAlone, ToKeeps
<1>6. CASE Breaks(j) /\ UNCHANGED cache
  BY <1>2, <1>6, BreaksWell
<1> QED
  BY <1>1, <1>3, <1>4, <1>5, <1>6

LEMMA DownloadKeeps ==
  ASSUME DocumentsInv, NEW j \in Jobs, Download(j) PROVE DocumentsInv'
  BY ReadKeeps, FailsWell DEF Download

LEMMA AnswerFileKeeps ==
  ASSUME DocumentsInv, NEW j \in Jobs, AnswerFile(j) PROVE DocumentsInv'
<1>1. PICK answer \in FileAnswers(job[j].got) :
       IF answer = "ok"
       THEN Cache(job[j].path, job[j].got) /\ Finished(j, "parsed", job[j].got)
       ELSE Finished(j, "failed", 0) /\ UNCHANGED cache
  BY DEF AnswerFile
<1>2. job[j] # None /\ UNCHANGED <<files, issued, history, now>>
  BY DEF AnswerFile
<1>3. CASE answer = "ok"
  BY <1>1, <1>2, <1>3, OkHasContent, ParsesWell
<1>4. CASE answer # "ok"
  BY <1>1, <1>2, <1>4, FailsWell
<1> QED
  BY <1>3, <1>4

LEMMA PutFailsKeeps ==
  ASSUME DocumentsInv, NEW j \in Jobs, job[j] # None, PutFails(j),
         UNCHANGED <<files, cache, issued, history, now>>
  PROVE  DocumentsInv'
<1> DEFINE d == Record(job[j].path, "failed", 0)
<1>1. d \in Doc /\ d.path = job[j].path /\ d.status # "pending" /\ d.blocks = 0
  <2>1. "failed" \in Statuses /\ 0 \in 0..MaxVersion
    BY Numbers DEF Statuses
  <2>2. Fits(d, job[j].path, "failed", 0)
    BY <2>1, RecordFits, RequestFacts, Numbers
  <2>3. d.blocks = 0
    BY DEF Record
  <2> QED
    BY <2>2, <2>3 DEF Fits
<1>2. /\ docs' = [docs EXCEPT ![job[j].doc] = d] /\ job' = [job EXCEPT ![j] = None]
      /\ folders' = folders /\ Repairs(job[j].doc)
  BY DEF PutFails, Repairs, DocumentsInv, RecordsInv, RecordTypes
<1> HIDE DEF d
<1>3. /\ folders' \in [Users \X Folders -> Folder \cup {None}]
      /\ \A x \in Users \X Folders :
           /\ folders[x] # None <=> folders'[x] # None
           /\ folders[x] # None =>
                folders'[x].docs <= folders[x].docs
                  + IF job[j].fresh /\ FolderOf(job[j].path) = x THEN 1 ELSE 0
  BY <1>2 DEF DocumentsInv, RecordsInv, RecordTypes, Folder
<1>4. RecordsInv'
  BY <1>1, <1>2, <1>3, SettleKeeps DEF DocumentsInv
<1>5. \A k \in Jobs : job'[k] # None => job'[k] = job[k]
  BY <1>2 DEF DocumentsInv, RecordsInv, RecordTypes
<1>6. \A i \in Ids : docs'[i] = docs[i] \/ docs'[i] = d
  BY <1>2 DEF DocumentsInv, RecordsInv, RecordTypes
<1>7. ReadsInv'
  BY <1>1, <1>4, <1>5, <1>6, StillTypes, StoreAlone, ReadsKept DEF DocumentsInv, RecordsInv
<1> QED
  BY <1>4, <1>7 DEF DocumentsInv

LEMMA PutKeeps ==
  ASSUME DocumentsInv, NEW j \in Jobs, Put(j) PROVE DocumentsInv'
<1>1. job[j] # None /\ UNCHANGED <<cache, issued, now>> /\ job[j].path \in Paths
  BY RequestFacts DEF Put
<1>2. CASE PutFails(j) /\ UNCHANGED <<files, history>>
  BY <1>1, <1>2, PutFailsKeeps
<1>3. CASE /\ Written(job[j].path)
           /\ IF AtOnce(job[j].path)
              THEN Finished(j, StatusAtOnce(job[j].path), Cached(job[j].path))
              ELSE To(j, "parsing") /\ UNCHANGED <<docs, folders, broken>>
  <2>1. StoreTypes' /\ FilesKnown' /\ StaysWas
    BY <1>1, <1>3, WrittenFiles DEF DocumentsInv, ReadsInv, StoreTypes
  <2>2. CASE AtOnce(job[j].path) /\ Finished(j, StatusAtOnce(job[j].path), Cached(job[j].path))
    <3>1. StatusAtOnce(job[j].path) \in Ends
      BY <1>1, StatusAtOnceEnds
    <3>2. /\ Cached(job[j].path) \in 0..MaxVersion
          /\ Cached(job[j].path) # 0 => Was(Cached(job[j].path), job[j].path, now - Ttl)
      BY <1>1, CachedWas DEF DocumentsInv
    <3> QED
      BY <1>1, <2>1, <2>2, <3>1, <3>2, EndsWell
  <2>3. CASE To(j, "parsing") /\ UNCHANGED <<docs, folders, broken>>
    BY <1>1, <2>1, <2>3, ToKeeps
  <2> QED
    BY <1>3, <2>2, <2>3
<1>4. CASE Breaks(j) /\ UNCHANGED <<files, history>>
  BY <1>1, <1>4, BreaksWell
<1> QED
  BY <1>2, <1>3, <1>4 DEF Put

\* A record that is written by a request which does not go on.
LEMMA MarksWell ==
  ASSUME DocumentsInv, NEW i \in Ids, NEW p \in Paths, NEW d \in Doc, d.path = p,
         d.status # "pending", Taken(i, p),
         docs' = [docs EXCEPT ![i] = d], job' = job, FoldersGrow, Repairs(i),
         folders' \in [Users \X Folders -> Folder \cup {None}],
         d.blocks # 0 => d.at = now /\ Was(d.blocks, p, now - Ttl),
         cache' = cache, now' = now, StoreTypes', FilesKnown', StaysWas
  PROVE  DocumentsInv'
<1>1. RecordsInv'
  BY MarkKeeps DEF DocumentsInv
<1>2. d.blocks # 0 => Was(d.blocks, p, now - Ttl)'
  <2>1. now - Ttl \in Int /\ now - Ttl <= now
    BY Numbers
  <2> QED
    BY <2>1 DEF StaysWas, Was
<1>3. \A e \in Ids : docs'[e] = docs[e] \/ docs'[e] = d
  BY DEF DocumentsInv, RecordsInv, RecordTypes
<1>4. ASSUME NEW e \in Ids, docs'[e] # None, docs'[e].blocks # 0
      PROVE  \/ /\ docs[e] # None /\ docs'[e].blocks = docs[e].blocks
                /\ docs'[e].path = docs[e].path /\ docs'[e].at = docs[e].at
             \/ docs'[e].at = now /\ Was(docs[e].blocks, docs[e].path, now - Ttl)'
  BY <1>2, <1>3, <1>4 DEF Was
<1>5. ReadsInv'
  BY <1>1, <1>4, ReadsKept DEF DocumentsInv, RecordsInv
<1> QED
  BY <1>1, <1>5 DEF DocumentsInv

\* A request that begins has read nothing.
LEMMA OpensWell ==
  ASSUME DocumentsInv, NEW j \in Jobs, job[j] = None, NEW r \in Job, r.got = 0,
         Taken(r.doc, r.path), job' = [job EXCEPT ![j] = r], FoldersGrow,
         folders' \in [Users \X Folders -> Folder \cup {None}],
         \/ UNCHANGED <<docs, broken>>
         \/ /\ r.kind = "upload" /\ Repairs(r.doc)
            /\ \E d \in Doc : /\ d.path = r.path /\ d.blocks = 0
                              /\ docs' = [docs EXCEPT ![r.doc] = d],
         r.kind # "import" => docs'[r.doc] # None,
         r.fresh => r.kind = "upload" /\ r.doc = issued + 1 /\ folders'[FolderOf(r.path)] # None,
         cache' = cache, now' = now, StoreTypes', FilesKnown', StaysWas
  PROVE  DocumentsInv'
<1>1. RecordsInv'
  BY OpenKeeps DEF DocumentsInv
<1>2. \A k \in Jobs : job'[k] = job[k] \/ job'[k] = r
  BY DEF DocumentsInv, RecordsInv, RecordTypes
<1>3. \A e \in Ids : docs'[e] = docs[e] \/ docs'[e].blocks = 0
  BY DEF DocumentsInv, RecordsInv, RecordTypes
<1>4. ReadsInv'
  BY <1>1, <1>2, <1>3, ReadsKept DEF DocumentsInv, RecordsInv
<1> QED
  BY <1>1, <1>4 DEF DocumentsInv

\* No record and no request changes, whatever becomes of the files.
LEMMA LeavesWell ==
  ASSUME DocumentsInv, UNCHANGED <<docs, job, broken>>, FoldersGrow,
         folders' \in [Users \X Folders -> Folder \cup {None}],
         issued' \in 0..MaxDocs, issued <= issued',
         cache' = cache, now' = now, StoreTypes', FilesKnown', StaysWas
  PROVE  DocumentsInv'
<1>1. RecordsInv'
  BY RecordsLeft DEF DocumentsInv
<1>2. ReadsInv'
  BY <1>1, ReadsKept DEF DocumentsInv, RecordsInv
<1> QED
  BY <1>1, <1>2 DEF DocumentsInv

LEMMA Given == DocumentsInv => issued \in 0..MaxDocs /\ issued <= issued
  BY Bounds DEF DocumentsInv, RecordsInv, RecordTypes

LEMMA CreateFolderKeeps ==
  ASSUME DocumentsInv, NEW u \in Users, CreateFolder(u) PROVE DocumentsInv'
<1>1. PICK f \in Folders, name \in FolderNames : Created(u, f, name)
  BY DEF CreateFolder, Unused
<1>2. /\ UNCHANGED <<files, docs, cache, job, issued, broken, history, now>>
      /\ FoldersGrow /\ folders' \in [Users \X Folders -> Folder \cup {None}]
  <2>1. EmptyFolder(name) \in Folder /\ EmptyFolder(name).docs = 0
    BY DEF EmptyFolder, Folder
  <2>2. folders[<<u, f>>] = None /\ folders' = [folders EXCEPT ![<<u, f>>] = EmptyFolder(name)]
    BY <1>1 DEF Created, Unused, Owned
  <2> QED
    BY <2>1, <2>2 DEF CreateFolder, DocumentsInv, RecordsInv, RecordTypes, FoldersGrow
<1> QED
  BY <1>2, Given, StillTypes, StoreAlone, LeavesWell

LEMMA UploadKeeps ==
  ASSUME DocumentsInv, NEW j \in Jobs, NEW u \in Users, NEW f \in Folders, NEW name \in Names,
         Upload(j, u, f, name)
  PROVE  DocumentsInv'
<1> DEFINE p == <<u, f, name>>
<1>0. ASSUME UNCHANGED <<docs, broken, job, issued>> PROVE DocumentsInv'
  BY <1>0, FolderSteps, Given, StillTypes, StoreAlone, LeavesWell
  DEF Upload, DocumentsInv, RecordsInv
<1> SUFFICES ASSUME ~UNCHANGED <<docs, broken, job, issued>> PROVE DocumentsInv'
  BY <1>0
<1>1. PICK i \in Ids :
        /\ IF Existing(p) # {} THEN i \in Existing(p) /\ issued' = issued
           ELSE i = issued + 1 /\ issued' = i
        /\ docs' = [docs EXCEPT ![i] = Record(p, "pending", 0)]
        /\ broken' = broken \ {i}
        /\ job' = [job EXCEPT ![j] = Opened("upload", i, p, Existing(p) = {}, "reading")]
  BY DEF Upload
<1>2. /\ job[j] = None /\ UNCHANGED <<files, cache, history, now>>
      /\ FoldersGrow /\ folders'[<<u, f>>] # None
      /\ folders' \in [Users \X Folders -> Folder \cup {None}]
  BY FolderSteps DEF Upload, DocumentsInv, RecordsInv
<1>3. p \in Paths /\ FolderOf(p) = <<u, f>>
  BY DEF Paths, FolderOf
<1> HIDE DEF p
<1> DEFINE fresh == Existing(p) = {}
           r == Opened("upload", i, p, fresh, "reading")
           d == Record(p, "pending", 0)
<1>4. fresh \in BOOLEAN /\ (fresh => i = issued + 1 /\ issued' = i)
  BY <1>1
<1>5. Taken(i, p)
  BY <1>1 DEF Taken, Existing, Live
<1> HIDE DEF fresh
<1>6. r \in Job /\ r.kind = "upload" /\ r.doc = i /\ r.path = p /\ r.fresh = fresh /\ r.got = 0
  BY <1>3, <1>4, Numbers DEF Opened, Job
<1>7. d \in Doc /\ d.path = p /\ d.blocks = 0 /\ d # None
  <2>1. "pending" \in Statuses /\ 0 \in 0..MaxVersion
    BY Numbers DEF Statuses
  <2>2. Fits(d, p, "pending", 0)
    BY <1>3, <2>1, RecordFits, Numbers
  <2>3. d.blocks = 0
    BY DEF Record
  <2> QED
    BY <2>2, <2>3, NoneAssumption DEF Fits, NoneAssumption
<1>8. docs' = [docs EXCEPT ![i] = d] /\ job' = [job EXCEPT ![j] = r]
  BY <1>1 DEF fresh
<1>13. Repairs(i)
  BY <1>1 DEF Repairs, DocumentsInv, RecordsInv, RecordTypes
<1> HIDE DEF r, d
<1>9. docs'[i] # None
  BY <1>7, <1>8 DEF DocumentsInv, RecordsInv, RecordTypes
<1>10. \E e \in Doc : e.path = r.path /\ e.blocks = 0 /\ docs' = [docs EXCEPT ![r.doc] = e]
  BY <1>6, <1>7, <1>8
<1>11. r.fresh => r.kind = "upload" /\ r.doc = issued + 1 /\ folders'[FolderOf(r.path)] # None
  BY <1>2, <1>3, <1>4, <1>6
<1>12. StoreTypes' /\ FilesKnown' /\ StaysWas
  BY <1>2, StillTypes, StoreAlone
<1> QED
  BY <1>2, <1>5, <1>6, <1>8, <1>9, <1>10, <1>11, <1>12, <1>13, OpensWell

LEMMA ImportKeeps ==
  ASSUME DocumentsInv, NEW j \in Jobs, NEW u \in Users, NEW f \in Folders, NEW name \in Names,
         Import(j, u, f, name)
  PROVE  DocumentsInv'
<1> DEFINE p == <<u, f, name>>
<1>1. /\ job[j] = None /\ issued < MaxDocs /\ UNCHANGED <<cache, broken, now>>
      /\ FoldersGrow /\ folders' \in [Users \X Folders -> Folder \cup {None}]
  BY FolderSteps DEF Import, DocumentsInv, RecordsInv
<1>2. p \in Paths
  BY DEF Paths
<1>3. \/ UNCHANGED <<files, docs, job, issued, history>>
      \/ /\ Written(p)
         /\ issued' = issued + 1
         /\ IF AtOnce(p)
            THEN /\ \/ docs' = [docs EXCEPT ![issued'] = Record(p, StatusAtOnce(p), Cached(p))]
                    \/ UNCHANGED docs
                 /\ UNCHANGED job
            ELSE /\ job' = [job EXCEPT ![j] = Opened("import", issued', p, FALSE, "parsing")]
                 /\ UNCHANGED docs
  BY DEF Import
<1> HIDE DEF p
<1>4. CASE UNCHANGED <<files, docs, job, issued, history>>
  BY <1>1, <1>4, Given, StillTypes, StoreAlone, LeavesWell
<1>5. CASE /\ Written(p)
           /\ issued' = issued + 1
           /\ IF AtOnce(p)
              THEN /\ \/ docs' = [docs EXCEPT ![issued'] = Record(p, StatusAtOnce(p), Cached(p))]
                      \/ UNCHANGED docs
                   /\ UNCHANGED job
              ELSE /\ job' = [job EXCEPT ![j] = Opened("import", issued', p, FALSE, "parsing")]
                   /\ UNCHANGED docs
  <2>1. StoreTypes' /\ FilesKnown' /\ StaysWas
    BY <1>1, <1>2, <1>5, WrittenFiles DEF DocumentsInv, ReadsInv, StoreTypes
  <2>2. PICK i \in Ids : i = issued + 1 /\ i = issued'
    BY <1>1, <1>5, Bounds DEF DocumentsInv, RecordsInv, RecordTypes, Ids
  <2>3. Taken(i, p)
    BY <2>2 DEF Taken
  <2>4. CASE /\ docs' = [docs EXCEPT ![issued'] = Record(p, StatusAtOnce(p), Cached(p))]
             /\ UNCHANGED job
    <3> DEFINE d == Record(p, StatusAtOnce(p), Cached(p))
    <3>1. Fits(d, p, StatusAtOnce(p), Cached(p)) /\ StatusAtOnce(p) # "pending"
      BY <1>2, RecordFits, StatusAtOnceEnds, CachedWas, Numbers DEF DocumentsInv, Ends
    <3>2. d.blocks # 0 => d.at = now /\ Was(d.blocks, p, now - Ttl)
      BY <1>2, <3>1, CachedWas DEF DocumentsInv, Fits
    <3>3. docs' = [docs EXCEPT ![i] = d] /\ Repairs(i)
      BY <1>1, <2>2, <2>4 DEF Repairs, DocumentsInv, RecordsInv, RecordTypes
    <3> HIDE DEF d
    <3> QED
      BY <1>1, <1>2, <2>1, <2>3, <2>4, <3>1, <3>2, <3>3, MarksWell DEF Fits
  <2>5. CASE /\ job' = [job EXCEPT ![j] = Opened("import", issued', p, FALSE, "parsing")]
             /\ UNCHANGED docs
    <3> DEFINE r == Opened("import", i, p, FALSE, "parsing")
    <3>1. r \in Job /\ r.kind = "import" /\ r.doc = i /\ r.path = p /\ r.fresh = FALSE /\ r.got = 0
      BY <1>2, Numbers DEF Opened, Job
    <3>2. job' = [job EXCEPT ![j] = r]
      BY <2>2, <2>5
    <3> HIDE DEF r
    <3> QED
      BY <1>1, <2>1, <2>3, <2>5, <3>1, <3>2, OpensWell
  <2>6. CASE UNCHANGED <<docs, job>>
    <3>1. issued' \in 0..MaxDocs /\ issued <= issued'
      BY <1>1, <1>5, Bounds DEF DocumentsInv, RecordsInv, RecordTypes
    <3> QED
      BY <1>1, <2>1, <2>6, <3>1, LeavesWell
  <2> QED
    BY <1>5, <2>4, <2>5, <2>6
<1> QED
  BY <1>3, <1>4, <1>5

LEMMA ReparseKeeps ==
  ASSUME DocumentsInv, NEW j \in Jobs, NEW u \in Users, NEW i \in Ids, Reparse(j, u, i)
  PROVE  DocumentsInv'
<1>1. /\ job[j] = None /\ docs[i] # None /\ UNCHANGED <<files, folders, cache, issued, history, now>>
      /\ docs[i] \in Doc
  BY DEF Reparse, Live, DocumentsInv, RecordsInv, RecordTypes
<1>2. PICK p \in Paths : p = docs[i].path
  BY <1>1 DEF Doc
<1>3. StoreTypes' /\ FilesKnown' /\ StaysWas /\ Taken(i, p)
  BY <1>1, <1>2, StillTypes, StoreAlone DEF Taken
<1>4. FoldersGrow /\ folders' \in [Users \X Folders -> Folder \cup {None}]
  BY <1>1 DEF FoldersGrow, DocumentsInv, RecordsInv, RecordTypes
<1>5. CASE /\ docs' = [docs EXCEPT ![i] = Merged(i, StatusAtOnce(p), Cached(p))]
           /\ broken' = broken \ {i} /\ UNCHANGED job
  <2> DEFINE d == Merged(i, StatusAtOnce(p), Cached(p))
  <2>1. Fits(d, p, StatusAtOnce(p), Cached(p)) /\ StatusAtOnce(p) # "pending"
    BY <1>1, <1>2, MergedFits, StatusAtOnceEnds, CachedWas, Numbers DEF DocumentsInv, Ends
  <2>2. d.blocks # 0 => d.at = now /\ Was(d.blocks, p, now - Ttl)
    BY <2>1, CachedWas DEF DocumentsInv, Fits
  <2>3. Repairs(i)
    BY <1>5 DEF Repairs, DocumentsInv, RecordsInv, RecordTypes
  <2> HIDE DEF d
  <2> QED
    BY <1>1, <1>3, <1>4, <1>5, <2>1, <2>2, <2>3, MarksWell DEF Fits, d
<1>6. CASE /\ job' = [job EXCEPT ![j] = Opened("reparse", i, p, FALSE, "parsing")]
           /\ UNCHANGED <<docs, broken>>
  <2> DEFINE r == Opened("reparse", i, p, FALSE, "parsing")
  <2>1. r \in Job /\ r.kind = "reparse" /\ r.doc = i /\ r.path = p /\ r.fresh = FALSE /\ r.got = 0
    BY Numbers DEF Opened, Job
  <2>2. job' = [job EXCEPT ![j] = r]
    BY <1>6
  <2> HIDE DEF r
  <2> QED
    BY <1>1, <1>3, <1>4, <1>6, <2>1, <2>2, OpensWell
<1> QED
  BY <1>2, <1>5, <1>6 DEF Reparse

LEMMA DeleteKeeps ==
  ASSUME DocumentsInv, NEW u \in Users, NEW i \in Ids, Delete(u, i)
  PROVE  DocumentsInv'
<1>1. /\ docs[i] # None /\ docs[i] \in Doc /\ UNCHANGED <<folders, cache, job, issued, now>>
      /\ \/ /\ docs' = [docs EXCEPT ![i].status = "deleted", ![i].blocks = 0, ![i].at = 0]
            /\ broken' = broken \ {i}
         \/ UNCHANGED <<docs, broken>>
  BY DEF Delete, Live, DocumentsInv, RecordsInv, RecordTypes
<1>2. PICK p \in Paths : p = docs[i].path
  BY <1>1 DEF Doc
<1>3. \/ UNCHANGED <<files, history>>
      \/ /\ files[p] # 0 /\ files' = [files EXCEPT ![p] = 0]
         /\ history' = [history EXCEPT ![files[p]].till = now]
  BY <1>2 DEF Delete
<1>4. StoreTypes' /\ FilesKnown' /\ StaysWas
  BY <1>1, <1>3, StillTypes, StoreAlone, DeletedFile DEF DocumentsInv, ReadsInv, StoreTypes
<1> DEFINE d == [docs[i] EXCEPT !.status = "deleted", !.blocks = 0, !.at = 0]
<1>5. d \in Doc /\ d.path = p /\ d.status # "pending" /\ d.blocks = 0
  <2>1. 0 \in 0..MaxVersion /\ 0 \in 0..MaxTime /\ "deleted" \in Statuses \cup {"deleted"}
    BY Numbers
  <2> QED
    BY <1>1, <1>2, <2>1 DEF Doc
<1>6. (docs' = [docs EXCEPT ![i] = d] /\ Repairs(i)) \/ UNCHANGED <<docs, broken>>
  BY <1>1 DEF Repairs, DocumentsInv, RecordsInv, RecordTypes
<1> HIDE DEF d
<1>7. FoldersGrow /\ folders' \in [Users \X Folders -> Folder \cup {None}] /\ Taken(i, p)
  BY <1>1, <1>2 DEF FoldersGrow, Taken, DocumentsInv, RecordsInv, RecordTypes
<1>8. CASE docs' = [docs EXCEPT ![i] = d] /\ Repairs(i)
  BY <1>1, <1>4, <1>5, <1>7, <1>8, MarksWell
<1>9. CASE UNCHANGED <<docs, broken>>
  BY <1>1, <1>4, <1>7, <1>9, Given, LeavesWell
<1> QED
  BY <1>6, <1>8, <1>9

LEMMA TickKeeps ==
  ASSUME DocumentsInv, Tick
  PROVE  DocumentsInv'
<1> DEFINE kept(p) == IF cache[p] # None /\ Expired(cache[p], now') THEN None ELSE cache[p]
<1>1. /\ now' \in 0..MaxTime /\ now <= now' /\ (\A j \in Jobs : job[j] = None)
      /\ cache' = [p \in Paths |-> kept(p)]
      /\ UNCHANGED <<files, docs, folders, job, issued, broken, history>>
  BY Numbers DEF Tick
<1>2. \A p \in Paths : cache'[p] = cache[p] \/ cache'[p] = None
  BY <1>1
<1>3. cache' \in [Paths -> Entry \cup {None}]
  BY <1>1 DEF DocumentsInv, ReadsInv, StoreTypes
<1> HIDE DEF kept
<1>4. RecordsInv'
  <2>1. RecordTypes' /\ PathsAgree'
    BY <1>1 DEF DocumentsInv, RecordsInv, RecordTypes, PathsAgree
  <2>2. FreshAlone' /\ PendingIsAtWorkOrBroken'
    BY <1>1 DEF DocumentsInv, RecordsInv, FreshAlone, PendingIsAtWorkOrBroken
  <2>3. FreshDocs' = FreshDocs /\ \A u \in Users, f \in Folders : DocsIn(u, f)' = DocsIn(u, f)
    BY <1>1 DEF FreshDocs, DocsIn
  <2>4. CountsSettled'
    BY <1>1, <2>3 DEF DocumentsInv, RecordsInv, CountsSettled
  <2> QED
    BY <2>1, <2>2, <2>4 DEF RecordsInv
<1>5. StoreTypes' /\ FilesKnown'
  BY <1>1, <1>3 DEF DocumentsInv, ReadsInv, StoreTypes, FilesKnown
<1>6. \A v, p, t : Was(v, p, t) => Was(v, p, t)'
  BY <1>1 DEF Was
<1>7. CacheRecent'
  <2> SUFFICES ASSUME NEW p \in Paths, cache'[p] # None
               PROVE  cache'[p].till <= now' + Ttl /\ Was(cache[p].blocks, p, cache[p].till - Ttl)'
    BY DEF CacheRecent
  <2>1. cache'[p] = cache[p] /\ cache[p] \in Entry
    BY <1>2 DEF DocumentsInv, ReadsInv, StoreTypes
  <2>2. cache[p].till \in Int /\ now' \in Int
    BY <1>1, <2>1, Numbers DEF Entry
  <2>3. cache[p].till <= now + Ttl /\ Was(cache[p].blocks, p, cache[p].till - Ttl)
    BY <2>1 DEF DocumentsInv, ReadsInv, CacheRecent
  <2> QED
    BY <1>1, <2>1, <2>2, <2>3, Numbers DEF Was
<1>8. GotRead' /\ DocsWere'
  <2>1. \A i \in Ids : docs[i] # None => docs[i].at \in Int
    BY Numbers DEF DocumentsInv, RecordsInv, RecordTypes, Doc
  <2>2. GotRead'
    BY <1>1 DEF GotRead
  <2>3. DocsWere'
    BY <1>1, <2>1, Numbers DEF DocumentsInv, ReadsInv, DocsWere, Was
  <2> QED
    BY <2>2, <2>3
<1> QED
  BY <1>4, <1>5, <1>7, <1>8 DEF DocumentsInv, ReadsInv

LEMMA StutterKeeps ==
  ASSUME DocumentsInv, UNCHANGED vars
  PROVE  DocumentsInv'
<1>1. RecordTypes' /\ PathsAgree' /\ FreshAlone' /\ PendingIsAtWorkOrBroken'
  BY DEF vars, DocumentsInv, RecordsInv, RecordTypes, PathsAgree, FreshAlone, PendingIsAtWorkOrBroken
<1>2. FoldersGrow /\ FreshDocs' = FreshDocs
  BY DEF vars, FoldersGrow, FreshDocs
<1>3. CountsSettled'
  BY <1>1, <1>2, CountsKept DEF vars, DocumentsInv
<1>4. ReadsInv'
  BY <1>1, StillTypes, StoreAlone, ReadsKept DEF vars, DocumentsInv
<1> QED
  BY <1>1, <1>3, <1>4 DEF DocumentsInv, RecordsInv

LEMMA NextKeeps == DocumentsInv /\ [Next]_vars => DocumentsInv'
<1> SUFFICES ASSUME DocumentsInv, [Next]_vars PROVE DocumentsInv'
  OBVIOUS
<1>1. ASSUME NEW u \in Users, CreateFolder(u) PROVE DocumentsInv'
  BY <1>1, CreateFolderKeeps
<1>2. ASSUME NEW j \in Jobs, NEW u \in Users, NEW f \in Folders, NEW name \in Names,
             Upload(j, u, f, name) \/ Import(j, u, f, name)
      PROVE  DocumentsInv'
  BY <1>2, UploadKeeps, ImportKeeps
<1>3. ASSUME NEW j \in Jobs, NEW u \in Users, NEW i \in Ids, Reparse(j, u, i) PROVE DocumentsInv'
  BY <1>3, ReparseKeeps
<1>4. ASSUME NEW j \in Jobs, Work(j) PROVE DocumentsInv'
  BY <1>4, PutKeeps, FetchKeeps, AnswerUrlKeeps, DownloadKeeps, AnswerFileKeeps DEF Work
<1>5. ASSUME NEW u \in Users, NEW i \in Ids, Delete(u, i) PROVE DocumentsInv'
  BY <1>5, DeleteKeeps
<1>6. CASE Tick
  BY <1>6, TickKeeps
<1>7. CASE UNCHANGED vars
  BY <1>7, StutterKeeps
<1> QED
  BY <1>1, <1>2, <1>3, <1>4, <1>5, <1>6, <1>7 DEF Next

\* What the jobs, the records, the counters and the cache know of each other holds
\* in every state of the routes.
THEOREM Inductive == Spec => []DocumentsInv
  BY InitInv, NextKeeps, PTL DEF Spec

-----------------------------------------------------------------------------

\* The state keeps its types: no id, version or time is out of its range, and a
\* record is written only where there is one to write on.
THEOREM TypeCorrect == Spec => []TypeOK
<1>1. DocumentsInv => TypeOK
  BY Parts DEF DocumentsInv, RecordsInv, ReadsInv
<1> QED
  BY <1>1, Inductive, PTL

\* A pending document has an upload at work on it, or was left pending by an upload
\* that an uncaught exception ended and that nothing wrote after, however many
\* requests overlap.
THEOREM PendingExplained == Spec => []PendingIsAtWorkOrBroken
<1>1. DocumentsInv => PendingIsAtWorkOrBroken
  BY DEF DocumentsInv, RecordsInv
<1> QED
  BY <1>1, Inductive, PTL

\* A folder counts no document twice, for any number of folders, documents and
\* overlapping uploads of one file.
THEOREM CountsOnce == Spec => []CountedOnce
<1>1. DocumentsInv => CountedOnce
  <2> SUFFICES ASSUME DocumentsInv, NEW u \in Users, NEW f \in Folders, folders[<<u, f>>] # None
               PROVE  folders[<<u, f>>].docs <= Cardinality(DocsIn(u, f))
    BY DEF CountedOnce
  <2> DEFINE S == DocsIn(u, f) \ FreshDocs
             T == DocsIn(u, f)
  <2>1. folders[<<u, f>>].docs <= Cardinality(S) /\ folders[<<u, f>>].docs \in Nat
    BY DEF DocumentsInv, RecordsInv, CountsSettled, RecordTypes, Folder
  <2>2. S \in SUBSET Ids /\ T \in SUBSET Ids /\ S \in SUBSET T
    BY DEF DocsIn
  <2> HIDE DEF S, T
  <2>3. IsFiniteSet(T) /\ Cardinality(S) \in Nat /\ Cardinality(T) \in Nat
    BY <2>2, Finite
  <2>4. Cardinality(S) <= Cardinality(T)
    BY <2>2, <2>3, FS_Subset
  <2> QED
    BY <2>1, <2>3, <2>4 DEF T
<1> QED
  BY <1>1, Inductive, PTL

\* What an agent reads of a document was the content of its file, Ttl before it was
\* stored at most, whatever is uploaded, deleted and parsed again meanwhile.
THEOREM ReadsAreRecent == Spec => []ParsesAreRecent
<1>1. DocumentsInv => ParsesAreRecent
  <2> SUFFICES ASSUME DocumentsInv, NEW i \in Ids, Live(i), docs[i].whole, Context(i) # 0
               PROVE  /\ history[Context(i)].path = docs[i].path
                      /\ files[history[Context(i)].path] = Context(i)
                         \/ history[Context(i)].till >= docs[i].at - Ttl
    BY DEF ParsesAreRecent
  <2>1. docs[i] # None /\ Context(i) = docs[i].blocks /\ docs[i].blocks # 0
    BY DEF Live, Context
  <2> QED
    BY <2>1 DEF DocumentsInv, ReadsInv, DocsWere, Was
<1> QED
  BY <1>1, Inductive, PTL
=============================================================================
