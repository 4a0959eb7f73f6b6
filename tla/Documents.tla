------------------------------ MODULE Documents ------------------------------
(***************************************************************************)
(* The documents of a user: uploads, imports from a bucket, reparses and   *)
(* deletions, each a request of its own, over a store of files, a record   *)
(* per document, the folders that count them and the parser's cache.       *)
(*                                                                         *)
(* The handlers run on one event loop: what lies between two awaits is one *)
(* action.  A file's content is a version number, given out at every       *)
(* upload; the blocks of a document are the version they were parsed from, *)
(* zero for none.                                                          *)
(***************************************************************************)
EXTENDS Integers, FiniteSets

CONSTANTS
  Users, Names,
  Parsable,                     \* the names whose format the parser reads, none
                                \* when the parser's client is disabled
  FolderNames, DefaultName,     \* of folders found or made by name
  Jobs,                         \* requests that may be in flight at once
  Ttl,                          \* _CACHE_TTL
  MaxFolders, MaxDocs, MaxVersion, MaxTime,   \* bounds of the instance
  None

ASSUME DocumentsAssumption ==
  /\ Parsable \subseteq Names
  /\ {Ttl, MaxFolders, MaxDocs, MaxVersion, MaxTime} \subseteq Nat

VARIABLES
  files,    \* the version of the file at a path, zero without one
  docs,     \* parsed_documents/{id}, None for an id not given out yet
  folders,  \* users/{uid}/folders/{id}, None without one
  cache,    \* the parser's cache by path, None without an entry
  job,      \* the request in flight, None without one
  issued,   \* the document ids given out
  broken,   \* history: the documents that an upload left pending at its end
  history,  \* per version the path it was put at and the last time it was there
  now       \* in units far longer than a parse takes: it stands still during one

vars == <<files, docs, folders, cache, job, issued, broken, history, now>>

Folders == 1..MaxFolders
Paths == Users \X Folders \X Names    \* users/{uid}/docs/{folder}/{name}
Versions == 1..MaxVersion
Ids == 1..MaxDocs

Statuses == {"pending", "parsed", "failed", "preview_only"}

\* A record that is deleted keeps its id and path here, so that ids stay unique;
\* whole is false for one that only holds what a reparse merged into it.
Doc == [path : Paths, status : Statuses \cup {"deleted"}, blocks : 0..MaxVersion,
        at : 0..MaxTime, whole : BOOLEAN]

Folder == [name : FolderNames \cup {DefaultName}, docs : Nat, parsed : Nat]

Job == [kind : {"upload", "import", "reparse"}, doc : Ids, path : Paths, fresh : BOOLEAN,
        step : {"reading", "parsing", "fetched", "downloading", "downloaded"},
        got : 0..MaxVersion]

\* An entry of the cache, and what is kept of a version.
Entry == [blocks : Versions, till : 0..(MaxTime + Ttl)]
Version == [path : Paths, till : 0..MaxTime]

ASSUME NoneAssumption ==
  /\ None \notin Doc /\ None \notin Folder /\ None \notin Job
  /\ None \notin Entry /\ None \notin Version

\* The types of the state.
TypeOK ==
  /\ files \in [Paths -> 0..MaxVersion]
  /\ docs \in [Ids -> Doc \cup {None}]
  /\ folders \in [Users \X Folders -> Folder \cup {None}]
  /\ cache \in [Paths -> Entry \cup {None}]
  /\ job \in [Jobs -> Job \cup {None}]
  /\ issued \in 0..MaxDocs
  /\ broken \subseteq Ids
  /\ history \in [Versions -> Version \cup {None}]
  /\ now \in 0..MaxTime

Init ==
  /\ files = [p \in Paths |-> 0]
  /\ docs = [i \in Ids |-> None]
  /\ folders = [f \in Users \X Folders |-> None]
  /\ cache = [p \in Paths |-> None]
  /\ job = [j \in Jobs |-> None]
  /\ issued = 0 /\ broken = {}
  /\ history = [v \in Versions |-> None]
  /\ now = 0

-----------------------------------------------------------------------------
(* Folders *)

EmptyFolder(name) == [name |-> name, docs |-> 0, parsed |-> 0]

Owned(u) == {f \in Folders : folders[<<u, f>>] # None}
Unused(u) == Folders \ Owned(u)

\* create_folder: an id nobody has.
Created(u, f, name) ==
  /\ f \in Unused(u)
  /\ folders' = [folders EXCEPT ![<<u, f>>] = EmptyFolder(name)]

CreateFolder(u) ==
  /\ \E f \in Unused(u), name \in FolderNames : Created(u, f, name)
  /\ UNCHANGED <<files, docs, cache, job, issued, broken, history, now>>

\* ensure_default_folder: the first of the list, which is in the order of the ids.
DefaultFolder(u, f) ==
  IF Owned(u) # {}
  THEN f \in Owned(u) /\ (\A g \in Owned(u) : f <= g) /\ UNCHANGED folders
  ELSE Created(u, f, DefaultName)

\* find_or_create_folder_by_name.
NamedFolder(u, f, name) ==
  LET found == {g \in Owned(u) : folders[<<u, g>>].name = name} IN
  IF found # {}
  THEN f \in found /\ (\A g \in found : f <= g) /\ UNCHANGED folders
  ELSE Created(u, f, name)

\* The folder of an upload: the one the client names, or the default.
UploadFolder(u, f) == (f \in Owned(u) /\ UNCHANGED folders) \/ DefaultFolder(u, f)

ImportFolder(u, f) ==
  UploadFolder(u, f) \/ \E name \in FolderNames : NamedFolder(u, f, name)

\* Mutant: an overwritten document is counted again.
CountedAgain(j, status) ==
  IF job[j].kind = "upload" /\ status # "failed" THEN 1 ELSE 0

\* The delta of docCount: none for a document that was there, nor for one whose
\* first parse failed.  Imports and reparses count nothing.
Counted(j, status) ==
  IF job[j].fresh /\ status # "failed" THEN 1 ELSE 0

\* update_folder_counts.
UpdateCounts(j, status) ==
  LET f == <<job[j].path[1], job[j].path[2]>>
      n == Counted(j, status) IN
  folders' = IF n = 0 THEN folders
             ELSE [folders EXCEPT ![f].docs = @ + n,
                                  ![f].parsed = @ + IF status = "parsed" THEN n ELSE 0]

-----------------------------------------------------------------------------
(* Records and files *)

Live(i) == docs[i] # None /\ docs[i].status # "deleted"

\* _store_document: the whole record is written anew.
Record(p, status, blocks) ==
  [path |-> p, status |-> status, blocks |-> IF status = "parsed" THEN blocks ELSE 0,
   at |-> IF status = "parsed" THEN now ELSE 0, whole |-> TRUE]

\* The merge at the end of a reparse: a record deleted meanwhile comes back with
\* these fields only.
Merged(i, status, blocks) ==
  [docs[i] EXCEPT !.status = status, !.blocks = IF status = "parsed" THEN blocks ELSE 0,
                  !.at = IF status = "parsed" THEN now ELSE 0, !.whole = @ /\ Live(i)]

\* The records an upload of this file would update: the query of the
\* deduplication, limit 1.
Existing(p) == {i \in Ids : Live(i) /\ docs[i].whole /\ docs[i].path = p}

\* The versions are given out in order.
NextVersion(v) ==
  /\ v \in Versions /\ history[v] = None
  /\ \A w \in Versions : history[w] = None => v <= w

\* _upload_to_gcs: the file is overwritten.
Written(p) ==
  \E v \in Versions :
    /\ NextVersion(v)
    /\ files' = [files EXCEPT ![p] = v]
    /\ history' = [w \in Versions |->
         IF w = v THEN [path |-> p, till |-> now]
         ELSE IF w = files[p] THEN [history[w] EXCEPT !.till = now]
         ELSE history[w]]

\* What an agent is given of a document: build_document_context answers with a
\* notice unless it is parsed.
Context(i) == IF docs[i].status = "parsed" THEN docs[i].blocks ELSE 0

-----------------------------------------------------------------------------
(* The cache *)

\* Mutant: an entry is good for ever.
NeverExpired(entry, time) == FALSE

\* An entry's time is over once the clock is past it.
Expired(entry, time) == time > entry.till

\* _cache_get, by URL.
Cached(p) == IF cache[p] # None /\ ~Expired(cache[p], now) THEN cache[p].blocks ELSE 0

\* _cache_set.
Cache(p, version) ==
  cache' = [cache EXCEPT ![p] = [blocks |-> version, till |-> now + Ttl]]

-----------------------------------------------------------------------------
(* Parsing *)

\* An exception that no handler catches: the request ends, its record as it was.
Breaks(j) ==
  /\ job' = [job EXCEPT ![j] = None]
  /\ broken' = IF job[j].kind = "upload" /\ docs[job[j].doc].status = "pending"
               THEN broken \cup {job[j].doc} ELSE broken
  /\ UNCHANGED <<docs, folders>>

\* The record is written, and the counts, where a failure is logged.
Settled(j, status, blocks) ==
  /\ docs' = [docs EXCEPT ![job[j].doc] =
                IF job[j].kind = "reparse" THEN Merged(job[j].doc, status, blocks)
                ELSE Record(job[j].path, status, blocks)]
  /\ broken' = broken \ {job[j].doc}
  /\ UpdateCounts(j, status) \/ UNCHANGED folders
  /\ job' = [job EXCEPT ![j] = None]

\* The end of a request: the store may refuse the record, for its size or at all.
Finished(j, status, blocks) == Settled(j, status, blocks) \/ Breaks(j)

\* is_supported, by the extension of the file.
Supported(p) == p[3] \in Parsable

\* parse_gcs_file up to its first await settles a format the parser does not read
\* and a file in the cache.
AtOnce(p) == ~Supported(p) \/ Cached(p) # 0
StatusAtOnce(p) == IF Supported(p) THEN "parsed" ELSE "preview_only"

To(j, step) == job' = [job EXCEPT ![j].step = step]

\* The URL is signed and the parser's server fetches the file through it.
Fetch(j) ==
  /\ job[j] # None /\ job[j].step = "parsing"
  /\ job' = [job EXCEPT ![j].step = "fetched", ![j].got = files[job[j].path]]
  /\ UNCHANGED <<files, docs, folders, cache, issued, broken, history, now>>

\* _make_error_outcome: how the parser's exceptions are told apart.
Errors == {"auth", "quota", "api", "unknown"}
Definitive == {"auth", "quota"}

\* _extract_content: the blocks of what was read, or none.
Content(version) == {version, 0}

\* ParseOutcome: content, or one code of what went wrong.
Outcome(blocks) == IF blocks = 0 THEN "empty" ELSE "ok"

\* _parse_url_sync and _parse_file_sync: the parser may raise on either way.
UrlAnswers(version) == Errors \cup {Outcome(blocks) : blocks \in Content(version)}
FileAnswers(version) == Errors \cup {Outcome(blocks) : blocks \in Content(version)}

\* It is cached, or the job fails, or the download is tried; blocks of a shape
\* _extract_content does not expect break the request.
AnswerUrl(j) ==
  /\ job[j] # None /\ job[j].step = "fetched"
  /\ \/ \E answer \in UrlAnswers(job[j].got) :
          \/ /\ answer = "ok"
             /\ Cache(job[j].path, job[j].got)
             /\ Finished(j, "parsed", job[j].got)
          \/ /\ answer \in Definitive /\ Finished(j, "failed", 0) /\ UNCHANGED cache
          \/ /\ answer \notin Definitive \cup {"ok"}
             /\ To(j, "downloading") /\ UNCHANGED <<docs, folders, broken, cache>>
     \/ Breaks(j) /\ UNCHANGED cache
  /\ UNCHANGED <<files, issued, history, now>>

\* No URL could be signed, or the answer to it was not definitive.  A file that is
\* gone, or a download that breaks off, fails the parse.
Download(j) ==
  /\ job[j] # None /\ job[j].step \in {"parsing", "downloading"}
  /\ \/ /\ files[job[j].path] # 0
        /\ job' = [job EXCEPT ![j].step = "downloaded", ![j].got = files[job[j].path]]
        /\ UNCHANGED <<docs, folders, broken>>
     \/ Finished(j, "failed", 0)
  /\ UNCHANGED <<files, cache, issued, history, now>>

\* All that goes wrong here is caught, and fails the parse.
AnswerFile(j) ==
  /\ job[j] # None /\ job[j].step = "downloaded"
  /\ \E answer \in FileAnswers(job[j].got) :
       IF answer = "ok"
       THEN Cache(job[j].path, job[j].got) /\ Finished(j, "parsed", job[j].got)
       ELSE Finished(j, "failed", 0) /\ UNCHANGED cache
  /\ UNCHANGED <<files, issued, history, now>>

-----------------------------------------------------------------------------
(* Requests *)

Opened(kind, i, p, fresh, step) ==
  [kind |-> kind, doc |-> i, path |-> p, fresh |-> fresh, step |-> step, got |-> 0]

\* upload_document up to its await of the file: the record that is there, or a
\* new one, is pending, unless the store refuses it.
Upload(j, u, f, name) ==
  LET p == <<u, f, name>> IN
  /\ job[j] = None
  /\ UploadFolder(u, f)
  /\ \/ \E i \in Ids :
          /\ IF Existing(p) # {} THEN i \in Existing(p) /\ issued' = issued
             ELSE i = issued + 1 /\ issued' = i
          /\ docs' = [docs EXCEPT ![i] = Record(p, "pending", 0)]
          /\ broken' = broken \ {i}
          /\ job' = [job EXCEPT ![j] = Opened("upload", i, p, Existing(p) = {}, "reading")]
     \/ UNCHANGED <<docs, broken, job, issued>>
  /\ UNCHANGED <<files, cache, history, now>>

\* Mutant: the record is left as it is.
PutFailsQuietly(j) ==
  job' = [job EXCEPT ![j] = None] /\ UNCHANGED <<docs, folders, broken>>

\* The file could not be stored: the record fails, the request with it.
PutFails(j) ==
  /\ docs' = [docs EXCEPT ![job[j].doc] = Record(job[j].path, "failed", 0)]
  /\ broken' = broken \ {job[j].doc}
  /\ job' = [job EXCEPT ![j] = None]
  /\ UNCHANGED folders

\* The rest of it, to the first await of the parse.  The read of the file, or the
\* record of a failure, may break the request.
Put(j) ==
  /\ job[j] # None /\ job[j].step = "reading"
  /\ \/ PutFails(j) /\ UNCHANGED <<files, history>>
     \/ Breaks(j) /\ UNCHANGED <<files, history>>
     \/ /\ Written(job[j].path)
        /\ IF AtOnce(job[j].path)
           THEN Finished(j, StatusAtOnce(job[j].path), Cached(job[j].path))
           ELSE To(j, "parsing") /\ UNCHANGED <<docs, folders, broken>>
  /\ UNCHANGED <<cache, issued, now>>

\* import_gcs_object: a new record each time, written at the end; nothing but an
\* error to the caller when the copy or the record fails.
Import(j, u, f, name) ==
  LET p == <<u, f, name>> IN
  /\ job[j] = None /\ issued < MaxDocs
  /\ ImportFolder(u, f)
  /\ \/ UNCHANGED <<files, docs, job, issued, history>>
     \/ /\ Written(p)
        /\ issued' = issued + 1
        /\ IF AtOnce(p)
           THEN /\ \/ docs' = [docs EXCEPT ![issued'] = Record(p, StatusAtOnce(p), Cached(p))]
                   \/ UNCHANGED docs
                /\ UNCHANGED job
           ELSE /\ job' = [job EXCEPT ![j] = Opened("import", issued', p, FALSE, "parsing")]
                /\ UNCHANGED docs
  /\ UNCHANGED <<cache, broken, now>>

\* reparse_document, by the owner; a merge that is refused at once changes nothing.
Reparse(j, u, i) ==
  /\ job[j] = None
  /\ Live(i) /\ docs[i].whole /\ docs[i].path[1] = u
  /\ LET p == docs[i].path IN
     IF AtOnce(p)
     THEN /\ docs' = [docs EXCEPT ![i] = Merged(i, StatusAtOnce(p), Cached(p))]
          /\ broken' = broken \ {i} /\ UNCHANGED job
     ELSE /\ job' = [job EXCEPT ![j] = Opened("reparse", i, p, FALSE, "parsing")]
          /\ UNCHANGED <<docs, broken>>
  /\ UNCHANGED <<files, folders, cache, issued, history, now>>

\* delete_document: the file, as far as that succeeds, and then the record, unless
\* the store refuses.  The folder's counts and the cache are left alone.
Delete(u, i) ==
  /\ Live(i) /\ docs[i].whole /\ docs[i].path[1] = u
  /\ LET p == docs[i].path IN
     \/ UNCHANGED <<files, history>>
     \/ /\ files[p] # 0
        /\ files' = [files EXCEPT ![p] = 0]
        /\ history' = [history EXCEPT ![files[p]].till = now]
  /\ \/ /\ docs' = [docs EXCEPT ![i].status = "deleted", ![i].blocks = 0, ![i].at = 0]
        /\ broken' = broken \ {i}
     \/ UNCHANGED <<docs, broken>>
  /\ UNCHANGED <<folders, cache, job, issued, now>>

-----------------------------------------------------------------------------

\* The clock, between requests.  The entries whose time is over go: _cache_get would
\* drop them.
Tick ==
  /\ now < MaxTime /\ now' = now + 1
  /\ \A j \in Jobs : job[j] = None
  /\ cache' = [p \in Paths |-> IF cache[p] # None /\ Expired(cache[p], now') THEN None ELSE cache[p]]
  /\ UNCHANGED <<files, docs, folders, job, issued, broken, history>>

Work(j) == Put(j) \/ Fetch(j) \/ AnswerUrl(j) \/ Download(j) \/ AnswerFile(j)

Next ==
  \/ \E u \in Users : CreateFolder(u)
  \/ \E j \in Jobs, u \in Users, f \in Folders, name \in Names :
       Upload(j, u, f, name) \/ Import(j, u, f, name)
  \/ \E j \in Jobs, u \in Users, i \in Ids : Reparse(j, u, i)
  \/ \E j \in Jobs : Work(j)
  \/ \E u \in Users, i \in Ids : Delete(u, i)
  \/ Tick

Spec == Init /\ [][Next]_vars

-----------------------------------------------------------------------------

\* What an agent reads of a document was the content of the document's own file,
\* at most Ttl before it was stored: the cache, keyed by URL, never lends a file
\* the blocks of another, and a hit does not keep an entry alive
\* (parse_gcs_file, _cache_get, _cache_set).
ParsesAreRecent ==
  \A i \in Ids :
    Live(i) /\ docs[i].whole /\ Context(i) # 0 =>
      LET h == history[Context(i)] IN
      /\ h.path = docs[i].path
      /\ files[h.path] = Context(i) \/ h.till >= docs[i].at - Ttl

\* The documents put in a folder, the deleted ones too.
DocsIn(u, f) == {i \in Ids : docs[i] # None /\ docs[i].path[1] = u /\ docs[i].path[2] = f}

\* A folder counts no document twice: not when it is uploaded again over itself,
\* not when two uploads of it overlap, not when it is deleted in between
\* (upload_document, is_overwrite).
CountedOnce ==
  \A u \in Users, f \in Folders :
    folders[<<u, f>>] # None => folders[<<u, f>>].docs <= Cardinality(DocsIn(u, f))

\* A document that is pending has an upload at work on it, or the last that was
\* broke off before its last word: no answer of the parser and of the documents
\* bucket, and no other request that overlaps, is what leaves it pending
\* (upload_document; the record a request ends with is written outside its try).
PendingIsAtWorkOrBroken ==
  \A i \in Ids :
    docs[i] # None /\ docs[i].status = "pending" =>
      \/ i \in broken
      \/ \E j \in Jobs : job[j] # None /\ job[j].kind = "upload" /\ job[j].doc = i

\* Between requests, the blocks of a file's only document are those of the file
\* (upload_document: "we update the existing Firestore record in-place"; the
\* reparse is said to "re-run AILANG Parse").
BlocksAreOfFile ==
  (\A j \in Jobs : job[j] = None) =>
    \A i \in Ids :
      /\ Live(i) /\ docs[i].whole /\ Context(i) # 0
      /\ Existing(docs[i].path) = {i} /\ files[docs[i].path] # 0
      => Context(i) = files[docs[i].path]
=============================================================================
