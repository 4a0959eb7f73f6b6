------------------------------- MODULE Buckets -------------------------------
(***************************************************************************)
(* Buckets, their folders, and the signed URLs a turn hands to the agent.  *)
(*                                                                         *)
(* The routes run in threads: each reads what it checks, and writes later. *)
(* A folder carries the access that is in force, computed when its access  *)
(* was written from the bucket as the request had read it; a change of the *)
(* bucket reaches no folder.  Before an agent runs, the folders its skill  *)
(* names are read and URLs signed for those the caller may see.            *)
(* Names, tags and regions of buckets and folders are left out.            *)
(***************************************************************************)
EXTENDS Integers, FiniteSets

CONSTANTS
  Users,       \* records of uid, email, domain and tags
  Controls,    \* AccessControl blocks that clients send
  BucketIds, FolderIds,   \* random ids, never used twice
  Threads,     \* requests that run at once
  Refs,        \* <<bucket, folder>>: bucket_folders of the skill's tools
  Ttls,        \* what SIGNED_URL_TTL_SECONDS may say, in ticks
  MaxTtl,      \* MAX_TTL_SECONDS in ticks
  MaxTime, MaxWrites,     \* bounds of the instance
  None

ASSUME BucketsAssumption ==
  /\ MaxTtl \in Nat \ {0} /\ {MaxTime, MaxWrites} \subseteq Nat
  /\ Ttls \subseteq Int
  /\ Refs \subseteq BucketIds \X FolderIds
  /\ None \notin Controls

VARIABLES
  now,
  buckets,    \* the document of an id, None without one
  folders,    \* likewise; a folder's document lies under its bucket's
  request,    \* what a thread has read and checked, None when it is free
  looked,     \* folders a user's turn has read for signing, None when it has not
  urls,       \* state['signed_urls'] of a user's session
  unavailable,\* users whose session says signed_urls_unavailable
  issued,     \* URLs somebody may still hold
  had,        \* every access a bucket ever had
  lastRead,   \* when a user could last read a folder, by its stored access
  writes

shown == <<looked, urls, unavailable, issued>>
vars == <<now, buckets, folders, request, shown, had, lastRead, writes>>

Bucket == [owner : Users, access : Controls]
Folder == [bucket : BucketIds, owner : Users, access : Controls \cup {None}, effective : Controls]
Url == [user : Users, folder : FolderIds, exp : Nat]
Request == [op : {"updateBucket", "deleteBucket", "createFolder", "updateFolder", "deleteFolder"},
            bucket : BucketIds, folder : FolderIds \cup {None},
            access : Controls \cup {None}, parent : Bucket]

\* The types of the state.
TypeOK ==
  /\ now \in 0..MaxTime /\ writes \in 0..MaxWrites
  /\ buckets \in [BucketIds -> Bucket \cup {None}]
  /\ folders \in [FolderIds -> Folder \cup {None}]
  /\ request \in [Threads -> Request \cup {None}]
  /\ looked \in [Users -> (SUBSET FolderIds) \cup {None}]
  /\ urls \in [Users -> SUBSET FolderIds]
  /\ unavailable \subseteq Users
  /\ issued \subseteq Url
  /\ had \in [BucketIds -> SUBSET Controls]
  /\ lastRead \in [Users \X FolderIds -> Int]

Init ==
  /\ now = 0 /\ writes = 0
  /\ buckets = [b \in BucketIds |-> None]
  /\ folders = [f \in FolderIds |-> None]
  /\ request = [t \in Threads |-> None]
  /\ looked = [u \in Users |-> None]
  /\ urls = [u \in Users |-> {}]
  /\ unavailable = {} /\ issued = {}
  /\ had = [b \in BucketIds |-> {}]
  /\ lastRead = [p \in Users \X FolderIds |-> -1]

-----------------------------------------------------------------------------
(* Who may see what *)

AccessTypes == {"private", "public", "domain", "specific", "tagged"}

\* _validate_access_shape: the type is one of the five; a block without what its
\* type asks for passes, and lets in nobody but the owner.
Shaped == {ac \in Controls : ac.type \in AccessTypes}

\* can_access: the five types; a resource without an owner has none.
CanAccess(ac, u, owner) ==
  \/ ac.type = "public"
  \/ owner = u
  \/ ac.type = "domain" /\ u.domain # "" /\ u.domain = ac.domain
  \/ ac.type = "specific" /\ u.email # "" /\ u.email \in ac.emails
  \/ ac.type = "tagged" /\ u.tags \cap ac.tags # {}

\* AccessContext.can_access_folder.
CanRead(u, folder) == folder # None /\ CanAccess(folder.effective, u, folder.owner)

\* A bucket the caller can see; for any other the routes answer 404.
Found(b, u) == buckets[b] # None /\ CanAccess(buckets[b].access, u, buckets[b].owner)

\* A folder the caller can see, at its place under the bucket.
FolderFound(b, f, u) ==
  Found(b, u) /\ folders[f] # None /\ folders[f].bucket = b /\ CanRead(u, folders[f])

\* Whenever a folder can be read, the time is noted.
NoteReads ==
  lastRead' = [p \in Users \X FolderIds |->
                 IF CanRead(p[1], folders'[p[2]]) THEN now' ELSE lastRead[p]]

-----------------------------------------------------------------------------
(* The routes *)

Counted == writes < MaxWrites /\ writes' = writes + 1

\* create_bucket: one write, owned by the caller.
CreateBucket(u, b, ac) ==
  /\ Counted /\ had[b] = {}
  /\ buckets' = [buckets EXCEPT ![b] = [owner |-> u, access |-> ac]]
  /\ had' = [had EXCEPT ![b] = {ac}]
  /\ UNCHANGED <<now, folders, request, shown, lastRead>>

\* A thread takes a request, reads what it is about and checks it.
Begin(t, op, b, f, ac) ==
  /\ request[t] = None
  /\ request' = [request EXCEPT ![t] =
                   [op |-> op, bucket |-> b, folder |-> f, access |-> ac, parent |-> buckets[b]]]
  /\ Counted
  /\ UNCHANGED <<now, buckets, folders, shown, had, lastRead>>

BeginUpdateBucket(t, u, b, ac) ==
  /\ Found(b, u) /\ buckets[b].owner = u
  /\ Begin(t, "updateBucket", b, None, ac)

BeginDeleteBucket(t, u, b) ==
  /\ Found(b, u) /\ buckets[b].owner = u
  /\ Begin(t, "deleteBucket", b, None, None)

\* The new folder's id is chosen here; without an access of its own it inherits.
BeginCreateFolder(t, u, b, f, ac) ==
  /\ Found(b, u) /\ buckets[b].owner = u
  /\ lastRead[<<u, f>>] = -1 /\ \A s \in Threads : request[s] # None => request[s].folder # f
  /\ Begin(t, "createFolder", b, f, ac)

\* An update names an access: a None in the body is dropped before it is looked
\* at, so an override is never taken back.
BeginUpdateFolder(t, u, b, f, ac) ==
  /\ FolderFound(b, f, u)
  /\ buckets[b].owner = u \/ folders[f].owner = u
  /\ Begin(t, "updateFolder", b, f, ac)

BeginDeleteFolder(t, u, b, f) ==
  /\ FolderFound(b, f, u)
  /\ buckets[b].owner = u \/ folders[f].owner = u
  /\ Begin(t, "deleteFolder", b, f, None)

\* Mutant: the parent's access is taken over the folder's own.
EffectiveOfParent(ac, parent) == parent.access

\* compute_effective_access.
Effective(ac, parent) == IF ac = None THEN parent.access ELSE ac

\* folder_config.create_folder: the document is set whether or not the bucket
\* is still there.  Its owner is the caller, who owned the bucket.
WriteFolder(r) ==
  /\ folders' = [folders EXCEPT ![r.folder] =
                   [bucket |-> r.bucket, owner |-> r.parent.owner, access |-> r.access,
                    effective |-> Effective(r.access, r.parent)]]
  /\ UNCHANGED <<buckets, had>>

\* bucket_config.update_bucket: nothing is written when the document is gone.
RewriteBucket(r) ==
  /\ IF buckets[r.bucket] = None THEN UNCHANGED <<buckets, had>>
     ELSE /\ buckets' = [buckets EXCEPT ![r.bucket].access = r.access]
          /\ had' = [had EXCEPT ![r.bucket] = @ \cup {r.access}]
  /\ UNCHANGED folders

\* bucket_config.delete_bucket: the folders stay.
DropBucket(r) ==
  /\ buckets' = [buckets EXCEPT ![r.bucket] = None]
  /\ UNCHANGED <<folders, had>>

\* folder_config.update_folder: the access and the one in force in one write.
RewriteFolder(r) ==
  /\ folders' = IF folders[r.folder] = None THEN folders
                ELSE [folders EXCEPT ![r.folder].access = r.access,
                                     ![r.folder].effective = Effective(r.access, r.parent)]
  /\ UNCHANGED <<buckets, had>>

\* folder_config.delete_folder.
DropFolder(r) ==
  /\ folders' = [folders EXCEPT ![r.folder] = None]
  /\ UNCHANGED <<buckets, had>>

\* The second half of a request.
Finish(t) ==
  LET r == request[t] IN
  /\ r # None
  /\ request' = [request EXCEPT ![t] = None]
  /\ \/ r.op = "updateBucket" /\ RewriteBucket(r)
     \/ r.op = "deleteBucket" /\ DropBucket(r)
     \/ r.op = "createFolder" /\ WriteFolder(r)
     \/ r.op = "updateFolder" /\ RewriteFolder(r)
     \/ r.op = "deleteFolder" /\ DropFolder(r)
  /\ UNCHANGED <<now, shown, writes>>
  /\ NoteReads

-----------------------------------------------------------------------------
(* The agent's callback *)

\* _populate_signed_urls: the folders that exist; a read that fails is skipped.
\* The callback holds the event loop, so it is one turn's at a time.
ReadFolders(u) ==
  /\ \A v \in Users : looked[v] = None
  /\ \E failed \in SUBSET Refs :
       looked' = [looked EXCEPT ![u] =
         {p[2] : p \in {q \in Refs \ failed : /\ folders[q[2]] # None
                                              /\ folders[q[2]].bucket = q[1]
                                              /\ CanRead(u, folders[q[2]])}}]
  /\ UNCHANGED <<now, buckets, folders, request, urls, unavailable, issued, had, lastRead, writes>>

\* Mutant: the cap is not applied.
ClampedNotCapped(ttl) == IF ttl < 1 THEN 1 ELSE ttl

\* _clamped_ttl.
Clamped(ttl) ==
  IF ttl < 1 THEN 1 ELSE IF ttl > MaxTtl THEN MaxTtl ELSE ttl

\* issue_folder_read_urls for the folders that come to be signed.
NewUrls(u, signed, ttl) == [user : {u}, folder : signed, exp : {now + Clamped(ttl)}]

\* build_signed_urls_for_folders without a signer: the flag is set, and the
\* session's URLs are replaced by none.
NoSigner(u) ==
  /\ looked[u] # None
  /\ looked' = [looked EXCEPT ![u] = None]
  /\ urls' = [urls EXCEPT ![u] = {}]
  /\ unavailable' = unavailable \cup {u}
  /\ UNCHANGED <<now, buckets, folders, request, issued, had, lastRead, writes>>

\* With one: what was read and may be seen is signed unless signing it fails;
\* nothing takes the flag back.
SignFolders(u, ttl) ==
  /\ looked[u] # None
  /\ looked' = [looked EXCEPT ![u] = None]
  /\ \E signed \in SUBSET looked[u] :
       /\ urls' = [urls EXCEPT ![u] = signed]
       /\ issued' = issued \cup NewUrls(u, signed, ttl)
  /\ UNCHANGED <<now, buckets, folders, request, unavailable, had, lastRead, writes>>

\* Time passes between callbacks, not within one; URLs past their end are dead.
Tick ==
  /\ now < MaxTime /\ now' = now + 1
  /\ \A u \in Users : looked[u] = None
  /\ issued' = {x \in issued : x.exp > now'}
  /\ UNCHANGED <<buckets, folders, request, looked, urls, unavailable, had, writes>>
  /\ NoteReads

Next ==
  \/ \E u \in Users, b \in BucketIds, ac \in Shaped : CreateBucket(u, b, ac)
  \/ \E t \in Threads, u \in Users, b \in BucketIds :
       \/ \E ac \in Shaped : BeginUpdateBucket(t, u, b, ac)
       \/ BeginDeleteBucket(t, u, b)
       \/ \E f \in FolderIds :
            \/ \E ac \in Shaped \cup {None} : BeginCreateFolder(t, u, b, f, ac)
            \/ \E ac \in Shaped : BeginUpdateFolder(t, u, b, f, ac)
            \/ BeginDeleteFolder(t, u, b, f)
  \/ \E t \in Threads : Finish(t)
  \/ \E u \in Users :
       \/ ReadFolders(u) \/ NoSigner(u)
       \/ \E ttl \in Ttls : SignFolders(u, ttl)
  \/ Tick

Spec == Init /\ [][Next]_vars

-----------------------------------------------------------------------------
(* What must hold *)

\* The access in force on a folder is its own or, without one, an access its
\* bucket has had: whatever updates of bucket and folder cross each other.
EffectiveHasOrigin ==
  \A f \in FolderIds : folders[f] # None =>
    IF folders[f].access = None
    THEN folders[f].effective \in had[folders[f].bucket]
    ELSE folders[f].effective = folders[f].access

\* auth/signed_urls.py: a URL that still opens belongs to someone who could read
\* its folder less than MAX_TTL_SECONDS ago, however its access has changed or
\* the folder has gone since.
UrlsFollowAccess ==
  \A x \in issued :
    now < x.exp => /\ lastRead[<<x.user, x.folder>>] >= 0
                   /\ now - lastRead[<<x.user, x.folder>>] < MaxTtl
=============================================================================
