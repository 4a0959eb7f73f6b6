----------------------------- MODULE BucketsProofs -----------------------------
(* Proofs about Buckets: types, where the access in force on a folder comes     *)
(* from, and how long a signed URL outlives what it was signed for, for every   *)
(* set of users, controls, buckets, folders and threads.                        *)
EXTENDS Buckets, TLAPS

-----------------------------------------------------------------------------
(* The inductive invariant *)

\* What a request brings to its second half.
Prepared ==
  \A t \in Threads : request[t] # None =>
    LET r == request[t] IN
    /\ r.parent.access \in had[r.bucket]
    /\ r.op \in {"createFolder", "updateFolder", "deleteFolder"} => r.folder \in FolderIds
    /\ r.op \in {"updateBucket", "updateFolder"} => r.access \in Controls

\* A bucket's access is one it has had.
BucketsHad == \A b \in BucketIds : buckets[b] # None => buckets[b].access \in had[b]

\* When a user could last read a folder: never in the future, and now if he can.
ReadsNoted ==
  \A u \in Users, f \in FolderIds :
    /\ lastRead[<<u, f>>] \in -1..now
    /\ CanRead(u, folders[f]) => lastRead[<<u, f>>] = now

\* What a callback has read, its user could read at this moment.
LookedAreRead ==
  \A u \in Users : looked[u] # None => \A f \in looked[u] : lastRead[<<u, f>>] = now

\* No URL ends later than MAX_TTL_SECONDS after its user could read its folder.
UrlsEnd ==
  \A x \in issued : /\ lastRead[<<x.user, x.folder>>] >= 0
                    /\ x.exp <= lastRead[<<x.user, x.folder>>] + MaxTtl

AccessInv == TypeOK /\ Prepared /\ BucketsHad /\ EffectiveHasOrigin
UrlInv == ReadsNoted /\ LookedAreRead /\ UrlsEnd
BucketsInv == AccessInv /\ UrlInv

LEMMA InitInv == Init => BucketsInv
<1> SUFFICES ASSUME Init PROVE BucketsInv
  OBVIOUS
<1>1. TypeOK
  BY BucketsAssumption DEF Init, TypeOK, BucketsAssumption
<1>2. Prepared /\ BucketsHad /\ EffectiveHasOrigin
  BY DEF Init, Prepared, BucketsHad, EffectiveHasOrigin
<1>3. UrlInv
  BY DEF Init, UrlInv, ReadsNoted, LookedAreRead, UrlsEnd, CanRead
<1> QED
  BY <1>1, <1>2, <1>3 DEF BucketsInv, AccessInv

\* CanAccess is not looked into: whether a user may read depends on the folder's
\* document alone.

-----------------------------------------------------------------------------
(* One lemma per kind of step. *)

LEMMA CreateKeeps ==
  ASSUME BucketsInv, NEW u \in Users, NEW b \in BucketIds, NEW ac \in Shaped,
         CreateBucket(u, b, ac)
  PROVE  BucketsInv'
<1> USE DEF BucketsInv
<1>1. ac \in Controls /\ writes' \in 0..MaxWrites
  BY BucketsAssumption DEF Shaped, CreateBucket, Counted, AccessInv, TypeOK, BucketsAssumption
<1>2. TypeOK'
  BY <1>1 DEF CreateBucket, AccessInv, TypeOK, Bucket, shown
<1>3. Prepared' /\ BucketsHad' /\ EffectiveHasOrigin'
  <2>1. /\ \A c \in BucketIds : had[c] \subseteq had'[c]
        /\ had'[b] = {ac} /\ buckets'[b].access = ac
        /\ \A c \in BucketIds : c # b => buckets'[c] = buckets[c] /\ had'[c] = had[c]
    BY DEF CreateBucket, AccessInv, TypeOK
  <2>2. Prepared'
    BY <2>1 DEF CreateBucket, AccessInv, Prepared, TypeOK, Request
  <2>3. BucketsHad'
    BY <2>1 DEF AccessInv, BucketsHad
  <2>4. EffectiveHasOrigin'
    BY <2>1 DEF CreateBucket, AccessInv, EffectiveHasOrigin, TypeOK, Folder
  <2> QED
    BY <2>2, <2>3, <2>4
<1>4. UrlInv'
  BY DEF CreateBucket, UrlInv, ReadsNoted, LookedAreRead, UrlsEnd, CanRead, shown
<1> QED
  BY <1>2, <1>3, <1>4 DEF AccessInv

\* A request begins over a bucket that is there; its folder and its access are
\* what its operation needs.
LEMMA BeginKeeps ==
  ASSUME BucketsInv, NEW t \in Threads, NEW op, NEW b \in BucketIds,
         NEW f \in FolderIds \cup {None}, NEW ac \in Controls \cup {None},
         buckets[b] # None,
         op \in {"updateBucket", "deleteBucket", "createFolder", "updateFolder", "deleteFolder"},
         op \in {"createFolder", "updateFolder", "deleteFolder"} => f \in FolderIds,
         op \in {"updateBucket", "updateFolder"} => ac \in Controls,
         Begin(t, op, b, f, ac)
  PROVE  BucketsInv'
<1> USE DEF BucketsInv
<1> DEFINE r == [op |-> op, bucket |-> b, folder |-> f, access |-> ac, parent |-> buckets[b]]
<1>1. /\ buckets[b] \in Bucket /\ r.parent.access \in had[b]
      /\ writes' \in 0..MaxWrites
  BY BucketsAssumption DEF Begin, Counted, AccessInv, TypeOK, BucketsHad, BucketsAssumption
<1>2. r \in Request
  BY <1>1 DEF Request
<1>3. request' = [request EXCEPT ![t] = r] /\ UNCHANGED <<now, buckets, folders, shown, had, lastRead>>
  BY DEF Begin
<1>4. r.op = op /\ r.bucket = b /\ r.folder = f /\ r.access = ac
  OBVIOUS
<1> HIDE DEF r
<1>5. TypeOK'
  BY <1>1, <1>2, <1>3 DEF AccessInv, TypeOK, shown
<1>6. Prepared'
  BY <1>1, <1>3, <1>4 DEF AccessInv, TypeOK, Prepared
<1>7. BucketsHad' /\ EffectiveHasOrigin' /\ UrlInv'
  BY <1>3 DEF AccessInv, BucketsHad, EffectiveHasOrigin, UrlInv, ReadsNoted, LookedAreRead,
              UrlsEnd, CanRead, shown
<1> QED
  BY <1>5, <1>6, <1>7 DEF AccessInv

\* Noting the reads, with time standing still or going on by one, when no
\* callback is under way.
LEMMA NotedReads ==
  ASSUME TypeOK, ReadsNoted, NoteReads, now' \in {now, now + 1}
  PROVE  /\ lastRead' \in [Users \X FolderIds -> Int]
         /\ ReadsNoted'
         /\ \A u \in Users, f \in FolderIds :
              /\ lastRead'[<<u, f>>] >= lastRead[<<u, f>>]
              /\ lastRead[<<u, f>>] = now' => lastRead'[<<u, f>>] = now'
<1>0. now \in Nat /\ now' \in Nat /\ now <= now'
  BY DEF TypeOK
<1>1. \A u \in Users, f \in FolderIds :
        lastRead'[<<u, f>>] = IF CanRead(u, folders'[f]) THEN now' ELSE lastRead[<<u, f>>]
  BY DEF NoteReads
<1>2. \A u \in Users, f \in FolderIds : lastRead[<<u, f>>] \in -1..now
  BY DEF ReadsNoted
<1>3. lastRead' \in [Users \X FolderIds -> Int]
  BY <1>0, <1>2 DEF NoteReads
<1>4. ReadsNoted'
  <2> SUFFICES ASSUME NEW u \in Users, NEW f \in FolderIds
               PROVE  /\ lastRead'[<<u, f>>] \in -1..now'
                      /\ CanRead(u, folders'[f]) => lastRead'[<<u, f>>] = now'
    BY DEF ReadsNoted, CanRead
  <2>1. lastRead'[<<u, f>>] = IF CanRead(u, folders'[f]) THEN now' ELSE lastRead[<<u, f>>]
    BY <1>1
  <2>2. lastRead[<<u, f>>] \in -1..now
    BY <1>2
  <2> QED
    BY <2>1, <2>2, <1>0
<1> QED
  BY <1>0, <1>1, <1>2, <1>3, <1>4

\* URLs that stay keep their end while reads are noted.
LEMMA UrlsStay ==
  ASSUME TypeOK, UrlsEnd, issued' \subseteq issued,
         lastRead' \in [Users \X FolderIds -> Int],
         \A u \in Users, f \in FolderIds : lastRead'[<<u, f>>] >= lastRead[<<u, f>>]
  PROVE  UrlsEnd'
<1> SUFFICES ASSUME NEW x \in issued
             PROVE  /\ lastRead'[<<x.user, x.folder>>] >= 0
                    /\ x.exp <= lastRead'[<<x.user, x.folder>>] + MaxTtl
  BY DEF UrlsEnd
<1>1. x.user \in Users /\ x.folder \in FolderIds /\ x.exp \in Int /\ MaxTtl \in Int
  BY BucketsAssumption DEF TypeOK, Url, BucketsAssumption
<1>2. /\ lastRead'[<<x.user, x.folder>>] \in Int /\ lastRead[<<x.user, x.folder>>] \in Int
      /\ lastRead'[<<x.user, x.folder>>] >= lastRead[<<x.user, x.folder>>]
  BY <1>1 DEF TypeOK
<1> QED
  BY <1>1, <1>2 DEF UrlsEnd

\* The second half of a request writes one document.
LEMMA WritesKeep ==
  ASSUME AccessInv, NEW t \in Threads, Finish(t)
  PROVE  /\ buckets' \in [BucketIds -> Bucket \cup {None}]
         /\ folders' \in [FolderIds -> Folder \cup {None}]
         /\ had' \in [BucketIds -> SUBSET Controls]
         /\ \A b \in BucketIds : had[b] \subseteq had'[b]
         /\ BucketsHad' /\ EffectiveHasOrigin'
<1> DEFINE r == request[t]
<1>1. /\ r \in Request /\ r.parent \in Bucket /\ r.bucket \in BucketIds
      /\ r.parent.access \in had[r.bucket] /\ r.parent.access \in Controls
      /\ r.parent.owner \in Users
      /\ r.op \in {"createFolder", "updateFolder", "deleteFolder"} => r.folder \in FolderIds
      /\ r.op \in {"updateBucket", "updateFolder"} => r.access \in Controls
  BY DEF Finish, AccessInv, TypeOK, Prepared, Request, Bucket
<1>2. r.access \in Controls \cup {None} /\ Effective(r.access, r.parent) \in Controls
  BY <1>1 DEF Request, Effective
<1>3. /\ buckets \in [BucketIds -> Bucket \cup {None}]
      /\ folders \in [FolderIds -> Folder \cup {None}]
      /\ had \in [BucketIds -> SUBSET Controls]
      /\ BucketsHad /\ EffectiveHasOrigin
  BY DEF AccessInv, TypeOK
<1>4. CASE r.op = "updateBucket" /\ RewriteBucket(r)
  <2>1. r.access \in Controls
    BY <1>1, <1>4
  <2>2. CASE buckets[r.bucket] = None
    BY <1>3, <1>4, <2>2 DEF RewriteBucket, BucketsHad, EffectiveHasOrigin
  <2>3. CASE buckets[r.bucket] # None
    <3> DEFINE bucket == [buckets[r.bucket] EXCEPT !.access = r.access]
               hads == had[r.bucket] \cup {r.access}
    <3>1. bucket \in Bucket /\ bucket.access = r.access
      BY <1>1, <1>3, <2>1, <2>3 DEF Bucket
    <3>2. /\ buckets' = [buckets EXCEPT ![r.bucket] = bucket]
          /\ had' = [had EXCEPT ![r.bucket] = hads]
          /\ folders' = folders
      BY <1>4, <2>3 DEF RewriteBucket
    <3>3. hads \subseteq Controls
      BY <1>1, <1>3, <2>1
    <3>4. \A b \in BucketIds : had[b] \subseteq had'[b]
      BY <1>3, <3>2
    <3> HIDE DEF bucket
    <3>5. BucketsHad'
      BY <1>1, <1>3, <3>1, <3>2 DEF BucketsHad
    <3>6. EffectiveHasOrigin'
      BY <1>3, <3>2, <3>4 DEF EffectiveHasOrigin, Folder
    <3> QED
      BY <1>1, <1>3, <3>1, <3>2, <3>3, <3>4, <3>5, <3>6
  <2> QED
    BY <2>2, <2>3
<1>5. CASE r.op = "deleteBucket" /\ DropBucket(r)
  BY <1>1, <1>3, <1>5 DEF DropBucket, BucketsHad, EffectiveHasOrigin
<1>6. CASE r.op = "createFolder" /\ WriteFolder(r)
  <2> DEFINE folder == [bucket |-> r.bucket, owner |-> r.parent.owner, access |-> r.access,
                        effective |-> Effective(r.access, r.parent)]
  <2>1. folder \in Folder
    BY <1>1, <1>2 DEF Folder
  <2>2. /\ folder.access = None => folder.effective \in had[folder.bucket]
        /\ folder.access # None => folder.effective = folder.access
    BY <1>1 DEF Effective
  <2>3. folders' = [folders EXCEPT ![r.folder] = folder] /\ UNCHANGED <<buckets, had>>
    BY <1>6 DEF WriteFolder
  <2>4. r.folder \in FolderIds
    BY <1>1, <1>6
  <2> HIDE DEF folder
  <2>5. EffectiveHasOrigin'
    BY <1>3, <2>2, <2>3, <2>4 DEF EffectiveHasOrigin
  <2> QED
    BY <1>3, <2>1, <2>3, <2>4, <2>5 DEF BucketsHad
<1>7. CASE r.op = "updateFolder" /\ RewriteFolder(r)
  <2>1. r.folder \in FolderIds /\ r.access \in Controls /\ r.access # None
    BY <1>1, <1>7, BucketsAssumption DEF BucketsAssumption
  <2>2. CASE folders[r.folder] = None
    BY <1>3, <1>7, <2>2 DEF RewriteFolder, BucketsHad, EffectiveHasOrigin
  <2>3. CASE folders[r.folder] # None
    <3> DEFINE folder == [folders[r.folder] EXCEPT !.access = r.access,
                                                   !.effective = Effective(r.access, r.parent)]
    <3>1. /\ folder \in Folder /\ folder.access # None /\ folder.effective = folder.access
      BY <1>3, <2>1, <2>3 DEF Folder, Effective
    <3>2. folders' = [folders EXCEPT ![r.folder] = folder] /\ UNCHANGED <<buckets, had>>
      BY <1>7, <1>3, <2>1, <2>3 DEF RewriteFolder
    <3> HIDE DEF folder
    <3>3. EffectiveHasOrigin'
      BY <1>3, <2>1, <3>1, <3>2 DEF EffectiveHasOrigin
    <3> QED
      BY <1>3, <2>1, <3>1, <3>2, <3>3 DEF BucketsHad
  <2> QED
    BY <2>2, <2>3
<1>8. CASE r.op = "deleteFolder" /\ DropFolder(r)
  BY <1>1, <1>3, <1>8 DEF DropFolder, BucketsHad, EffectiveHasOrigin
<1> QED
  BY <1>4, <1>5, <1>6, <1>7, <1>8 DEF Finish

LEMMA FinishKeeps ==
  ASSUME BucketsInv, NEW t \in Threads, Finish(t)
  PROVE  BucketsInv'
<1> USE DEF BucketsInv
<1>1. /\ UNCHANGED <<now, shown, writes>> /\ NoteReads
      /\ request' = [request EXCEPT ![t] = None]
  BY DEF Finish
<1>2. /\ buckets' \in [BucketIds -> Bucket \cup {None}]
      /\ folders' \in [FolderIds -> Folder \cup {None}]
      /\ had' \in [BucketIds -> SUBSET Controls]
      /\ \A b \in BucketIds : had[b] \subseteq had'[b]
      /\ BucketsHad' /\ EffectiveHasOrigin'
  BY WritesKeep
<1>3. /\ lastRead' \in [Users \X FolderIds -> Int]
      /\ ReadsNoted'
      /\ \A u \in Users, f \in FolderIds :
           /\ lastRead'[<<u, f>>] >= lastRead[<<u, f>>]
           /\ lastRead[<<u, f>>] = now' => lastRead'[<<u, f>>] = now'
  BY <1>1, NotedReads DEF AccessInv, UrlInv
<1>4. TypeOK'
  BY <1>1, <1>2, <1>3 DEF AccessInv, TypeOK, shown
<1>5. Prepared'
  BY <1>1, <1>2 DEF AccessInv, TypeOK, Prepared, Request
<1>6. LookedAreRead'
  BY <1>1, <1>3 DEF AccessInv, UrlInv, LookedAreRead, TypeOK, shown
<1>7. UrlsEnd'
  BY <1>1, <1>3, UrlsStay DEF AccessInv, UrlInv, shown
<1> QED
  BY <1>2, <1>3, <1>4, <1>5, <1>6, <1>7 DEF AccessInv, UrlInv

LEMMA TickKeeps ==
  ASSUME BucketsInv, Tick
  PROVE  BucketsInv'
<1> USE DEF BucketsInv
<1>1. /\ now' = now + 1 /\ now' \in 0..MaxTime /\ NoteReads
      /\ \A u \in Users : looked[u] = None
      /\ issued' \subseteq issued
      /\ UNCHANGED <<buckets, folders, request, looked, urls, unavailable, had, writes>>
  BY BucketsAssumption DEF Tick, AccessInv, TypeOK, BucketsAssumption
<1>2. /\ lastRead' \in [Users \X FolderIds -> Int]
      /\ ReadsNoted'
      /\ \A u \in Users, f \in FolderIds : lastRead'[<<u, f>>] >= lastRead[<<u, f>>]
  BY <1>1, NotedReads DEF AccessInv, UrlInv
<1>3. TypeOK'
  BY <1>1, <1>2 DEF AccessInv, TypeOK
<1>4. Prepared' /\ BucketsHad' /\ EffectiveHasOrigin' /\ LookedAreRead'
  BY <1>1 DEF AccessInv, Prepared, BucketsHad, EffectiveHasOrigin, LookedAreRead
<1>5. UrlsEnd'
  BY <1>1, <1>2, UrlsStay DEF UrlInv, AccessInv
<1> QED
  BY <1>2, <1>3, <1>4, <1>5 DEF AccessInv, UrlInv

LEMMA ReadFoldersKeeps ==
  ASSUME BucketsInv, NEW u \in Users, ReadFolders(u)
  PROVE  BucketsInv'
<1> USE DEF BucketsInv
<1>1. UNCHANGED <<now, buckets, folders, request, urls, unavailable, issued, had, lastRead, writes>>
  BY DEF ReadFolders
<1>2. PICK failed \in SUBSET Refs :
        looked' = [looked EXCEPT ![u] =
          {p[2] : p \in {q \in Refs \ failed : /\ folders[q[2]] # None
                                               /\ folders[q[2]].bucket = q[1]
                                               /\ CanRead(u, folders[q[2]])}}]
  BY DEF ReadFolders
<1> DEFINE found == {p[2] : p \in {q \in Refs \ failed : /\ folders[q[2]] # None
                                                       /\ folders[q[2]].bucket = q[1]
                                                       /\ CanRead(u, folders[q[2]])}}
<1>3. \A q \in Refs : q[2] \in FolderIds
  BY BucketsAssumption DEF BucketsAssumption
<1>4. found \subseteq FolderIds /\ \A f \in found : CanRead(u, folders[f])
  BY <1>3
<1>5. \A f \in found : lastRead[<<u, f>>] = now
  BY <1>4 DEF UrlInv, ReadsNoted
<1>6. looked' = [looked EXCEPT ![u] = found]
  BY <1>2
<1> HIDE DEF found
<1>7. TypeOK'
  BY <1>1, <1>4, <1>6 DEF AccessInv, TypeOK
<1>8. LookedAreRead'
  BY <1>1, <1>5, <1>6 DEF AccessInv, TypeOK, UrlInv, LookedAreRead
<1>9. Prepared' /\ BucketsHad' /\ EffectiveHasOrigin' /\ ReadsNoted' /\ UrlsEnd'
  BY <1>1 DEF AccessInv, UrlInv, Prepared, BucketsHad, EffectiveHasOrigin, ReadsNoted, UrlsEnd, CanRead
<1> QED
  BY <1>7, <1>8, <1>9 DEF AccessInv, UrlInv

LEMMA NoSignerKeeps ==
  ASSUME BucketsInv, NEW u \in Users, NoSigner(u)
  PROVE  BucketsInv'
<1> USE DEF BucketsInv
<1>1. /\ looked' = [looked EXCEPT ![u] = None]
      /\ UNCHANGED <<now, buckets, folders, request, issued, had, lastRead, writes>>
  BY DEF NoSigner
<1>2. TypeOK'
  BY <1>1 DEF NoSigner, AccessInv, TypeOK
<1>3. LookedAreRead'
  BY <1>1 DEF AccessInv, TypeOK, UrlInv, LookedAreRead
<1>4. Prepared' /\ BucketsHad' /\ EffectiveHasOrigin' /\ ReadsNoted' /\ UrlsEnd'
  BY <1>1 DEF AccessInv, UrlInv, Prepared, BucketsHad, EffectiveHasOrigin, ReadsNoted, UrlsEnd, CanRead
<1> QED
  BY <1>2, <1>3, <1>4 DEF AccessInv, UrlInv

\* _clamped_ttl: at least one tick, at most MAX_TTL_SECONDS.
LEMMA ClampedBounds ==
  ASSUME NEW ttl \in Int
  PROVE  Clamped(ttl) \in 1..MaxTtl
  BY BucketsAssumption DEF Clamped, BucketsAssumption

LEMMA SignKeeps ==
  ASSUME BucketsInv, NEW u \in Users, NEW ttl \in Ttls, SignFolders(u, ttl)
  PROVE  BucketsInv'
<1> USE DEF BucketsInv
<1>1. /\ looked[u] # None /\ looked' = [looked EXCEPT ![u] = None]
      /\ UNCHANGED <<now, buckets, folders, request, unavailable, had, lastRead, writes>>
  BY DEF SignFolders
<1>2. PICK signed \in SUBSET looked[u] :
        urls' = [urls EXCEPT ![u] = signed] /\ issued' = issued \cup NewUrls(u, signed, ttl)
  BY DEF SignFolders
<1>3. signed \subseteq FolderIds /\ \A f \in signed : lastRead[<<u, f>>] = now
  BY <1>1 DEF AccessInv, TypeOK, UrlInv, LookedAreRead
<1>4. /\ now \in Nat /\ MaxTtl \in Nat /\ ttl \in Int
  BY BucketsAssumption DEF AccessInv, TypeOK, BucketsAssumption
<1>5. now + Clamped(ttl) \in Nat /\ now + Clamped(ttl) <= now + MaxTtl
  BY <1>4, ClampedBounds
<1>6. \A x \in NewUrls(u, signed, ttl) :
        x \in Url /\ x.user = u /\ x.folder \in signed /\ x.exp = now + Clamped(ttl)
  BY <1>3, <1>5 DEF NewUrls, Url
<1>7. TypeOK'
  BY <1>1, <1>2, <1>3, <1>6 DEF AccessInv, TypeOK
<1>8. LookedAreRead'
  BY <1>1 DEF AccessInv, TypeOK, UrlInv, LookedAreRead
<1>9. Prepared' /\ BucketsHad' /\ EffectiveHasOrigin' /\ ReadsNoted'
  BY <1>1 DEF AccessInv, UrlInv, Prepared, BucketsHad, EffectiveHasOrigin, ReadsNoted, CanRead
<1>10. UrlsEnd'
  <2>1. ASSUME NEW x \in NewUrls(u, signed, ttl)
        PROVE  /\ lastRead[<<x.user, x.folder>>] >= 0
               /\ x.exp <= lastRead[<<x.user, x.folder>>] + MaxTtl
    BY <1>3, <1>4, <1>5, <1>6
  <2> QED
    BY <1>1, <1>2, <2>1 DEF UrlInv, UrlsEnd
<1> QED
  BY <1>7, <1>8, <1>9, <1>10 DEF AccessInv, UrlInv

-----------------------------------------------------------------------------

LEMMA StepInv == BucketsInv /\ [Next]_vars => BucketsInv'
<1> SUFFICES ASSUME BucketsInv, [Next]_vars PROVE BucketsInv'
  OBVIOUS
<1>1. CASE UNCHANGED vars
  BY <1>1 DEF vars, shown, BucketsInv, AccessInv, UrlInv, TypeOK, Prepared, BucketsHad,
              EffectiveHasOrigin, ReadsNoted, LookedAreRead, UrlsEnd, CanRead
<1>2. ASSUME NEW t \in Threads, NEW u \in Users, NEW b \in BucketIds,
             \/ \E ac \in Shaped : BeginUpdateBucket(t, u, b, ac)
             \/ BeginDeleteBucket(t, u, b)
             \/ \E f \in FolderIds :
                  \/ \E ac \in Shaped \cup {None} : BeginCreateFolder(t, u, b, f, ac)
                  \/ \E ac \in Shaped : BeginUpdateFolder(t, u, b, f, ac)
                  \/ BeginDeleteFolder(t, u, b, f)
      PROVE  BucketsInv'
  <2> Shaped \subseteq Controls
    BY DEF Shaped
  <2>1. ASSUME NEW ac \in Shaped, BeginUpdateBucket(t, u, b, ac) PROVE BucketsInv'
    BY <2>1, BeginKeeps DEF BeginUpdateBucket, Found
  <2>2. CASE BeginDeleteBucket(t, u, b)
    BY <2>2, BeginKeeps DEF BeginDeleteBucket, Found
  <2>3. ASSUME NEW f \in FolderIds, NEW ac \in Shaped \cup {None},
               BeginCreateFolder(t, u, b, f, ac)
        PROVE  BucketsInv'
    BY <2>3, BeginKeeps DEF BeginCreateFolder, Found
  <2>4. ASSUME NEW f \in FolderIds, NEW ac \in Shaped, BeginUpdateFolder(t, u, b, f, ac)
        PROVE  BucketsInv'
    BY <2>4, BeginKeeps DEF BeginUpdateFolder, FolderFound, Found
  <2>5. ASSUME NEW f \in FolderIds, BeginDeleteFolder(t, u, b, f)
        PROVE  BucketsInv'
    BY <2>5, BeginKeeps DEF BeginDeleteFolder, FolderFound, Found
  <2> QED
    BY <1>2, <2>1, <2>2, <2>3, <2>4, <2>5
<1>3. CASE Next
  BY <1>2, <1>3, CreateKeeps, FinishKeeps, TickKeeps, ReadFoldersKeeps, NoSignerKeeps, SignKeeps
     DEF Next
<1> QED
  BY <1>1, <1>3

LEMMA Invariance == Spec => []BucketsInv
  BY InitInv, StepInv, PTL DEF Spec

\* The documents of buckets and folders, the requests under way and the URLs
\* keep their shape: the routes write nothing else.
THEOREM TypeCorrect == Spec => []TypeOK
<1>1. BucketsInv => TypeOK
  BY DEF BucketsInv, AccessInv
<1> QED
  BY <1>1, Invariance, PTL

\* compute_effective_access and the two writes that carry it: however updates of
\* bucket and folder cross, the access in force on a folder is its own or one
\* its bucket has had.
THEOREM EffectiveOrigin == Spec => []EffectiveHasOrigin
<1>1. BucketsInv => EffectiveHasOrigin
  BY DEF BucketsInv, AccessInv
<1> QED
  BY <1>1, Invariance, PTL

\* auth/signed_urls.py: a URL that opens was signed for someone who could read
\* its folder less than MAX_TTL_SECONDS ago.
THEOREM UrlsFollow == Spec => []UrlsFollowAccess
<1>1. BucketsInv => UrlsFollowAccess
  <2> SUFFICES ASSUME BucketsInv, NEW x \in issued, now < x.exp
               PROVE  /\ lastRead[<<x.user, x.folder>>] >= 0
                      /\ now - lastRead[<<x.user, x.folder>>] < MaxTtl
    BY DEF UrlsFollowAccess
  <2>1. /\ now \in Int /\ MaxTtl \in Int /\ x.exp \in Int
        /\ lastRead[<<x.user, x.folder>>] \in Int
    BY BucketsAssumption DEF BucketsInv, AccessInv, TypeOK, Url, BucketsAssumption
  <2>2. /\ lastRead[<<x.user, x.folder>>] >= 0
        /\ x.exp <= lastRead[<<x.user, x.folder>>] + MaxTtl
    BY DEF BucketsInv, UrlInv, UrlsEnd
  <2> QED
    BY <2>1, <2>2
<1> QED
  BY <1>1, Invariance, PTL
=============================================================================
