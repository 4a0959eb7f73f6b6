------------------------------- MODULE Catalog -------------------------------
(***************************************************************************)
(* The catalogue of skills as one instance of the backend sees it.         *)
(*                                                                         *)
(* Skills are documents of a shared store.  An instance keeps a cache per  *)
(* skill, a cache per list query and a public card; its own writes clear   *)
(* them, those of other instances do not.  The handlers run in threads,    *)
(* and every call on the store is a step.  The platform's own skills come  *)
(* from templates, by a seed after a deploy.                               *)
(***************************************************************************)
EXTENDS Integers, FiniteSets

CONSTANTS
  Users, Threads,
  Templates, Parsed,     \* template names of this deploy; those that parse
  Ttl,                   \* of the caches and the card's bucket
  MaxSkills, MaxWrites, MaxTime,   \* bounds of the instance
  Platform, Legacy,      \* owner sentinels: of today, of before the rename
  None

ASSUME CatalogAssumption ==
  /\ Parsed \subseteq Templates /\ {Platform, Legacy} \cap Users = {} /\ Platform # Legacy
  /\ {MaxSkills, MaxWrites, MaxTime} \subseteq Nat /\ Ttl \in Nat \ {0}

VARIABLES
  skills,   \* skills/{id} of the store, None without one
  issued,   \* the ids given out
  writes,   \* the versions given out
  till,     \* the last time a version was the one in the store
  cache,    \* of single skills
  lists,    \* of the two list queries that are cached
  card,     \* the public card and the bucket it was built in, None without one
  op,       \* what a thread is in the middle of, None when idle
  seed,     \* the seed that runs, None without one
  now

caches == <<cache, lists, card>>
store == <<skills, issued, writes, till>>
catalogVars == <<store, caches, op, seed, now>>

Ids == 1..MaxSkills
Versions == 1..MaxWrites
Owners == Users \cup {Platform, Legacy}

\* A user's slugs: the one derived from the name and its first suffix.  A
\* platform skill's slug stands for its name.
Slugs == {"slug", "slug-2"}

Skill == [id : Ids, owner : Owners, slug : Slugs \cup Templates,
          public : BOOLEAN, no : Versions]

ASSUME NoneAssumption == None \notin Skill

Queries == {"market", "platform"}

Op == [do : {"fill", "reread"}, got : Skill \cup {None}, id : Ids]
      \cup [do : {"list"}, got : SUBSET Skill]
      \cup [do : {"create"}, owner : Users, slug : Slugs, public : BOOLEAN]
      \cup [do : {"written"}, id : Ids, reread : BOOLEAN]
      \cup [do : {"rebuild"}, id : Ids, reread : BOOLEAN, got : SUBSET Skill]

Seed == [existing : SUBSET (Slugs \cup Templates), purge : SUBSET (Slugs \cup Templates),
         todo : SUBSET Templates, failed : SUBSET Templates]

\* The types of the state.
CatalogTypeOK ==
  /\ skills \in [Ids -> Skill \cup {None}]
  /\ issued \in 0..MaxSkills /\ writes \in 0..MaxWrites
  /\ till \in [Versions -> 0..MaxTime]
  /\ \A i \in Ids : cache[i] = None \/ (cache[i].skill \in Skill /\ cache[i].at \in 0..MaxTime)
  /\ \A k \in Queries : lists[k] = None \/ (lists[k].skills \subseteq Skill /\ lists[k].at \in 0..MaxTime)
  /\ card = None \/ (card.skills \subseteq Skill /\ card.bucket \in 0..MaxTime)
  /\ \A t \in Threads : op[t] # None => op[t] \in Op
  /\ seed = None \/ seed \in Seed
  /\ now \in 0..MaxTime

Stored == {skills[i] : i \in {j \in Ids : skills[j] # None}}
Named(owner, slug) == {s \in Stored : s.owner = owner /\ s.slug = slug}

\* What a query answers.
Answer(key) ==
  IF key = "market" THEN {s \in Stored : s.public} ELSE {s \in Stored : s.owner = Platform}

CatalogInit ==
  /\ skills = [i \in Ids |-> None]
  /\ issued = 0 /\ writes = 0
  /\ till = [v \in Versions |-> 0]
  /\ cache = [i \in Ids |-> None]
  /\ lists = [k \in Queries |-> None]
  /\ card = None
  /\ op = [t \in Threads |-> None]
  /\ seed = None
  /\ now = 0

-----------------------------------------------------------------------------
(* The store *)

\* The old version of a document was there until now; a new one is from now on.
Superseded(i, new) ==
  [v \in Versions |-> IF v = new \/ (skills[i] # None /\ v = skills[i].no) THEN now ELSE till[v]]

\* A new document.
Added(owner, slug, public) ==
  /\ issued < MaxSkills /\ writes < MaxWrites
  /\ issued' = issued + 1 /\ writes' = writes + 1
  /\ skills' = [skills EXCEPT ![issued'] =
       [id |-> issued', owner |-> owner, slug |-> slug, public |-> public, no |-> writes']]
  /\ till' = Superseded(issued', writes')

\* New values of some fields.
Changed(i, slug, public) ==
  /\ skills[i] # None /\ writes < MaxWrites /\ writes' = writes + 1
  /\ skills' = [skills EXCEPT ![i].slug = slug, ![i].public = public, ![i].no = writes']
  /\ till' = Superseded(i, writes')
  /\ UNCHANGED issued

Removed(i) ==
  /\ skills' = [skills EXCEPT ![i] = None]
  /\ till' = Superseded(i, 0)
  /\ UNCHANGED <<issued, writes>>

-----------------------------------------------------------------------------
(* The caches *)

Fresh(entry) == entry # None /\ now - entry.at < Ttl

\* _cache_get: what get_skill answers without the store.
Served(i) == IF Fresh(cache[i]) THEN cache[i].skill ELSE None

Cached(skill) == [skill |-> skill, at |-> now]

\* The skills of a list answer are cached one by one.
Warmed(found) ==
  [i \in Ids |-> IF \E s \in found : s.id = i
                 THEN Cached(CHOOSE s \in found : s.id = i) ELSE cache[i]]

Listed(key, found) == [lists EXCEPT ![key] = [skills |-> found, at |-> now]]

NoLists == [k \in Queries |-> None]

\* Mutant: a hit of a list warms the skills again.
WarmedByHit(key) == Warmed(lists[key].skills)

\* A hit of a list leaves the skills as they are.
AfterHit(key) == cache

\* Mutant: the card is cached without its bucket.
OneBucket(time) == 0

\* _time_bucket.
Bucket(time) == time \div Ttl

CardServed == card # None /\ card.bucket = Bucket(now)

-----------------------------------------------------------------------------
(* Reading *)

AtRest(t) == op[t] = None
Begin(t, x) == op' = [op EXCEPT ![t] = x]
End(t) == op' = [op EXCEPT ![t] = None]

\* get_skill with nothing in the cache, and find_by_slug and find_by_name, which
\* ask the store whatever is in it.
Get(t, i) ==
  /\ AtRest(t) /\ skills[i] # None
  /\ Begin(t, [do |-> "fill", got |-> skills[i], id |-> i])
  /\ UNCHANGED <<store, caches, seed, now>>

\* The answer is cached, with the time of its arrival.
Fill(t) ==
  /\ ~AtRest(t) /\ op[t].do = "fill" /\ End(t)
  /\ cache' = [cache EXCEPT ![op[t].id] = Cached(op[t].got)]
  /\ UNCHANGED <<store, lists, card, seed, now>>

\* list_marketplace; list_skills goes the same way with filters of its own.
List(t) ==
  /\ AtRest(t)
  /\ IF Fresh(lists["market"])
     THEN cache' = AfterHit("market") /\ UNCHANGED op
     ELSE Begin(t, [do |-> "list", got |-> Answer("market")]) /\ UNCHANGED cache
  /\ UNCHANGED <<store, lists, card, seed, now>>

FillList(t) ==
  /\ ~AtRest(t) /\ op[t].do = "list" /\ End(t)
  /\ cache' = Warmed(op[t].got) /\ lists' = Listed("market", op[t].got)
  /\ UNCHANGED <<store, card, seed, now>>

\* agent_card: the one of the bucket, or a new one.  A query that fails makes it
\* empty, for the bucket.
Card ==
  /\ ~CardServed
  /\ \/ /\ Fresh(lists["market"])
        /\ card' = [skills |-> lists["market"].skills, bucket |-> Bucket(now)]
        /\ UNCHANGED <<cache, lists>>
     \/ /\ ~Fresh(lists["market"])
        /\ card' = [skills |-> Answer("market"), bucket |-> Bucket(now)]
        /\ cache' = Warmed(Answer("market")) /\ lists' = Listed("market", Answer("market"))
     \/ /\ ~Fresh(lists["market"])
        /\ card' = [skills |-> {}, bucket |-> Bucket(now)] /\ UNCHANGED <<cache, lists>>
  /\ UNCHANGED <<store, op, seed, now>>

-----------------------------------------------------------------------------
(* Writing *)

\* unique_slug, each candidate asked of the store.
UniqueSlug(owner, base) ==
  IF Named(owner, base) = {} \/ base # "slug" THEN base ELSE "slug-2"

\* create_skill of the routes up to the write.
Create(t, u, public) ==
  /\ AtRest(t)
  /\ Begin(t, [do |-> "create", owner |-> u, slug |-> UniqueSlug(u, "slug"), public |-> public])
  /\ UNCHANGED <<store, caches, seed, now>>

\* What get_skill has put in the cache, where the caller may see it.
Visible(u, i) == Served(i) # None /\ (Served(i).public \/ Served(i).owner = u)

\* fork_skill: a private copy of a skill the caller sees, the platform's too.  Its
\* name ends in random digits, so its slug is one the caller has not got.
Fork(t, u, i) == Visible(u, i) /\ Create(t, u, FALSE)

\* The document; then its own entry, the lists and the card.
CreateWrite(t) ==
  /\ ~AtRest(t) /\ op[t].do = "create"
  /\ Added(op[t].owner, op[t].slug, op[t].public)
  /\ cache' = [cache EXCEPT ![issued'] = Cached(skills'[issued'])]
  /\ lists' = NoLists /\ card' = None
  /\ Begin(t, [do |-> "written", id |-> issued', reread |-> FALSE])
  /\ UNCHANGED <<seed, now>>

\* The guards of update_skill and delete_skill: an owner's, never the platform's,
\* by the skill that is served.
MayWrite(u, i) == Served(i) # None /\ Served(i).owner = u /\ u # Platform

\* update_skill: a slug another of the owner's skills has is refused, and a
\* document that is gone fails the write.
Update(t, u, i, slug, public) ==
  /\ AtRest(t) /\ MayWrite(u, i)
  /\ Named(u, slug) \subseteq {skills[i]}
  /\ slug = Served(i).slug \/ public = Served(i).public
  /\ Changed(i, slug, public)
  /\ Begin(t, [do |-> "written", id |-> i, reread |-> TRUE])
  /\ UNCHANGED <<caches, seed, now>>

Delete(t, u, i) ==
  /\ AtRest(t) /\ MayWrite(u, i)
  /\ Removed(i)
  /\ Begin(t, [do |-> "written", id |-> i, reread |-> FALSE])
  /\ UNCHANGED <<caches, seed, now>>

\* _cache_invalidate up to the query of rebuild_tools, which another thread may
\* have answered by now.  (A new skill's entry stays.)
Invalidate(t) ==
  /\ ~AtRest(t) /\ op[t].do = "written"
  /\ cache' = IF op[t].reread \/ skills[op[t].id] = None
              THEN [cache EXCEPT ![op[t].id] = None] ELSE cache
  /\ lists' = NoLists /\ card' = None
  /\ Begin(t, [do |-> "rebuild", id |-> op[t].id, reread |-> op[t].reread,
               got |-> Answer("market")])
  /\ UNCHANGED <<store, seed, now>>

\* The answer of the query, if it does not fail; the registry of tools itself is
\* left out.  An update ends with the skill read again.
Rebuild(t) ==
  /\ ~AtRest(t) /\ op[t].do = "rebuild"
  /\ \/ UNCHANGED <<cache, lists>>
     \/ cache' = Warmed(op[t].got) /\ lists' = Listed("market", op[t].got)
  /\ IF op[t].reread /\ skills[op[t].id] # None
     THEN Begin(t, [do |-> "fill", got |-> skills[op[t].id], id |-> op[t].id])
     ELSE End(t)
  /\ UNCHANGED <<store, card, seed, now>>

\* Another instance's create, update or delete of a user's skill, or the creation
\* of a platform skill by a seed that runs there.
Elsewhere ==
  /\ \/ \E u \in Users : Added(u, UniqueSlug(u, "slug"), TRUE)
     \/ \E i \in Ids, public \in BOOLEAN :
          /\ skills[i] # None /\ skills[i].owner \in Users
          /\ Changed(i, skills[i].slug, public) \/ Removed(i)
     \/ \E name \in Parsed : Named(Platform, name) = {} /\ Added(Platform, name, TRUE)
     \/ issued = 0 /\ \E name \in Templates, owner \in {Platform, Legacy} : Added(owner, name, TRUE)
  /\ UNCHANGED <<caches, op, seed, now>>

-----------------------------------------------------------------------------
(* The seed, one action per template or skill it handles *)

\* What the seed gets from list_skills.
PlatformList == IF Fresh(lists["platform"]) THEN lists["platform"].skills ELSE Answer("platform")

\* The caches after it has asked, and after it has written skill i.
AskedCaches ==
  IF Fresh(lists["platform"]) THEN UNCHANGED <<cache, lists>>
  ELSE cache' = Warmed(PlatformList) /\ lists' = Listed("platform", PlatformList)

WroteCaches(i) ==
  /\ LET public == {s \in {skills'[j] : j \in Ids} \ {None} : s.public} IN
     /\ cache' = [j \in Ids |->
          IF skills'[j] # None /\ (skills'[j].public \/ j = i) THEN Cached(skills'[j])
          ELSE IF j = i THEN None ELSE cache[j]]
     /\ lists' = [k \in Queries |-> IF k = "market" THEN [skills |-> public, at |-> now] ELSE None]
  /\ card' = None

\* Mutant: the names of the templates are lost, all that exists is stale.
EverythingStale(existing) == existing

\* Platform skills without a template that parses.
Stale(existing) == existing \ Parsed

\* What may come with a request to seed: a token of Google's or none, of a
\* service account that is on the list or not, its e-mail verified or not.
SeedTokens == [genuine : BOOLEAN, listed : BOOLEAN, verified : BOOLEAN]

\* _assert_caller_is_service_account.
MaySeed(token) == token.genuine /\ token.verified /\ token.listed

\* seed_platform_skills, and of seed: what exists, what is stale.
SeedStart(token) ==
  /\ MaySeed(token)
  /\ seed = None
  /\ LET existing == {s.slug : s \in PlatformList} IN
     seed' = [existing |-> existing, purge |-> Stale(existing), todo |-> Templates, failed |-> {}]
  /\ AskedCaches
  /\ UNCHANGED <<store, card, op, now>>

\* Skills of a former owner go first.
SeedPurgeLegacy(i) ==
  /\ seed # None /\ skills[i] # None /\ skills[i].owner = Legacy
  /\ Removed(i) /\ WroteCaches(i)
  /\ UNCHANGED <<op, seed, now>>

\* Then the stale ones: the first of the name in the list, if there is one still.
SeedPurge(name) ==
  /\ seed # None /\ name \in seed.purge
  /\ seed' = [seed EXCEPT !.purge = @ \ {name}]
  /\ LET found == {s \in PlatformList : s.slug = name} IN
     IF found = {} THEN AskedCaches /\ UNCHANGED <<store, card>>
     ELSE \E s \in found : Removed(s.id) /\ WroteCaches(s.id)
  /\ UNCHANGED <<op, now>>

\* A template that does not parse is reported; one whose skill existed refreshes
\* it, if it is still listed; any other is created.
SeedTemplate(name) ==
  /\ seed # None /\ seed.purge = {} /\ name \in seed.todo
  /\ LET found == {s \in PlatformList : s.slug = name} IN
     \/ /\ name \notin Parsed
        /\ seed' = [seed EXCEPT !.todo = @ \ {name}, !.failed = @ \cup {name}]
        /\ UNCHANGED <<store, caches>>
     \/ /\ name \in Parsed \cap seed.existing
        /\ IF found = {}
           THEN /\ seed' = [seed EXCEPT !.todo = @ \ {name}]
                /\ AskedCaches /\ UNCHANGED <<store, card>>
           ELSE \E s \in found :
             IF skills[s.id] = None
             THEN /\ seed' = [seed EXCEPT !.todo = @ \ {name}, !.failed = @ \cup {name}]
                  /\ AskedCaches /\ UNCHANGED <<store, card>>
             ELSE /\ seed' = [seed EXCEPT !.todo = @ \ {name}]
                  /\ Changed(s.id, name, skills[s.id].public) /\ WroteCaches(s.id)
     \/ /\ name \in Parsed \ seed.existing
        /\ seed' = [seed EXCEPT !.todo = @ \ {name}]
        /\ Added(Platform, name, TRUE) /\ WroteCaches(issued')
  /\ UNCHANGED <<op, now>>

SeedEnd ==
  /\ seed # None /\ seed.purge = {} /\ seed.todo = {}
  /\ seed' = None
  /\ UNCHANGED <<store, caches, op, now>>

-----------------------------------------------------------------------------

\* Only versions that a cache still holds need their time.
Held(v) ==
  \/ \E i \in Ids : cache[i] # None /\ cache[i].skill.no = v
  \/ \E k \in Queries : lists[k] # None /\ \E s \in lists[k].skills : s.no = v
  \/ card # None /\ \E s \in card.skills : s.no = v

\* The clock, in units far longer than a request.
Tick ==
  /\ now < MaxTime /\ now' = now + 1
  /\ seed = None /\ \A t \in Threads : AtRest(t)
  /\ till' = [v \in Versions |->
       IF \E s \in Stored : s.no = v THEN now' ELSE IF Held(v) THEN till[v] ELSE 0]
  /\ cache' = [i \in Ids |-> IF cache[i] # None /\ now' - cache[i].at >= Ttl THEN None ELSE cache[i]]
  /\ lists' = [k \in Queries |-> IF lists[k] # None /\ now' - lists[k].at >= Ttl THEN None ELSE lists[k]]
  /\ card' = IF card # None /\ card.bucket # Bucket(now') THEN None ELSE card
  /\ UNCHANGED <<skills, issued, writes, op, seed>>

CatalogNext ==
  \/ \E t \in Threads :
       \/ \E i \in Ids : Get(t, i)
       \/ Fill(t)
       \/ List(t)
       \/ FillList(t)
       \/ \E u \in Users, public \in BOOLEAN : Create(t, u, public)
       \/ \E u \in Users, i \in Ids : Fork(t, u, i)
       \/ CreateWrite(t)
       \/ \E u \in Users, i \in Ids, slug \in Slugs, public \in BOOLEAN : Update(t, u, i, slug, public)
       \/ \E u \in Users, i \in Ids : Delete(t, u, i)
       \/ Invalidate(t)
       \/ Rebuild(t)
  \/ Card
  \/ Elsewhere
  \/ \E token \in SeedTokens : SeedStart(token)
  \/ \E i \in Ids : SeedPurgeLegacy(i)
  \/ \E name \in Slugs \cup Templates : SeedPurge(name)
  \/ \E name \in Templates : SeedTemplate(name)
  \/ SeedEnd
  \/ Tick

CatalogSpec == CatalogInit /\ [][CatalogNext]_catalogVars

-----------------------------------------------------------------------------

\* A version was in the store at some time since.
Since(no, time) == till[no] >= time

\* Whatever an instance answers from a cache was in the store less than a Ttl ago,
\* whoever wrote, and however reads and writes of its own threads interleave
\* (skill_config: "60s TTL").
ServedIsRecent ==
  /\ \A i \in Ids : Served(i) # None => Since(Served(i).no, now - (Ttl - 1))
  /\ \A k \in Queries :
       Fresh(lists[k]) => \A s \in lists[k].skills : Since(s.no, now - (Ttl - 1))

\* The card's two caches add up and no further: what it shows was in the store
\* less than two Ttl ago (_cached_card over list_marketplace).
CardIsRecent ==
  CardServed =>
    \A s \in card.skills : Since(s.no, now - 2 * (Ttl - 1))

\* The comment at a2a.py:43-44 says "without pinning a stale snapshot for more
\* than a minute".
CardWithinTtl ==
  CardServed =>
    \A s \in card.skills : Since(s.no, now - (Ttl - 1))

\* A seed leaves a skill for every template it does not report as failed, whatever
\* else was read, cached and written meanwhile (platform_seed.seed).
SeedLeavesTemplates ==
  [][SeedEnd => \A name \in Parsed \ seed.failed : Named(Platform, name) # {}]_catalogVars
=============================================================================
