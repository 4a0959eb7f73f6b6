------------------------------- MODULE Groups -------------------------------
(***************************************************************************)
(* Anonymous groups: codes, join tokens, and how a request finds its user. *)
(*                                                                         *)
(* A signed-in user mints a code; whoever holds it joins and gets a signed *)
(* token with an end.  Joins are limited per address by a token bucket and *)
(* per group and day by a counter.  Groups, revocations, counters and      *)
(* buckets live in the memory of the process; the signing secret does not, *)
(* so tokens outlive a restart.  One clock stands for both of the code's.  *)
(***************************************************************************)
EXTENDS Integers, Sequences, FiniteSets

CONSTANTS
  GroupIds,     \* codes; they are random, so one is never minted twice
  Ips, Uids,    \* addresses of callers; users of the identity provider
  WorkshopUser, \* the uid of the stub token
  Caps, Ttls,   \* max_concurrent_sessions and ttl_days a creator may choose
  Day,          \* length of a day in ticks
  Lifetime,     \* DEFAULT_TOKEN_LIFETIME_SECONDS in ticks
  Capacity,     \* capacity of a bucket
  Refill,       \* ticks in which an empty bucket fills
  LocalMode,    \* LOCAL_MODE=1
  MaxTime, MaxJoins, MaxRestarts,   \* bounds of the instance
  None

ASSUME GroupsAssumption ==
  /\ {Day, Lifetime, Capacity, Refill} \subseteq Nat \ {0}
  /\ Lifetime <= Day
  /\ Caps \subseteq Nat \ {0} /\ Ttls \subseteq Nat \ {0}
  /\ {MaxTime, MaxJoins, MaxRestarts} \subseteq Nat
  /\ LocalMode \in BOOLEAN

VARIABLES
  now,
  groups,     \* the record of a code, None without one
  revoked,    \* revoked_group_ids
  used,       \* codes ever minted
  joinedOn,   \* sessions_today: joins of a group on a day
  bucket,     \* per address: what is left, and when it was last filled up
  admitted,   \* history, per address: when, and after how many restarts, the
              \* limiter let a call pass, in order; a restart does not undo it
  minted,     \* tokens joins returned
  restarts

memory == <<groups, revoked, joinedOn, bucket>>
vars == <<now, memory, used, admitted, minted, restarts>>

Days == 0..MaxTime
Creators == Uids \cup {WorkshopUser} \cup (1..MaxJoins)
Record == [creator : Creators, expires : Nat, cap : Caps]
Token == [uid : 1..MaxJoins, group : GroupIds, exp : Nat]

\* Tokens of a bucket are kept in parts: Refill parts make one token, and a tick
\* brings Capacity parts.
Full == Capacity * Refill

Level == [left : 0..Full, at : Nat]

\* A call the limiter let pass: the time, and the restarts before it.
Pass == [at : Nat, life : Nat]

ASSUME NoneAssumption == None \notin Record /\ None \notin Level

\* The types of the state.
TypeOK ==
  /\ now \in 0..MaxTime
  /\ groups \in [GroupIds -> Record \cup {None}]
  /\ revoked \subseteq GroupIds /\ used \subseteq GroupIds
  /\ joinedOn \in [GroupIds \X Days -> Nat]
  /\ bucket \in [Ips -> Level \cup {None}]
  /\ admitted \in [Ips -> Seq(Pass)]
  /\ minted \subseteq Token
  /\ restarts \in Nat

NoGroups == [g \in GroupIds |-> None]
NoJoins == [k \in GroupIds \X Days |-> 0]
NoBuckets == [ip \in Ips |-> None]

Init ==
  /\ now = 0 /\ restarts = 0
  /\ groups = NoGroups /\ revoked = {} /\ used = {}
  /\ joinedOn = NoJoins /\ bucket = NoBuckets
  /\ admitted = [ip \in Ips |-> << >>]
  /\ minted = {}

-----------------------------------------------------------------------------
(* Who calls *)

\* What an Authorization header may carry: nothing or another scheme, the stub
\* token, a token of the identity provider, one of ours.
Headers ==
  {[kind |-> "none"], [kind |-> "stub"], [kind |-> "invalid"]} \cup
  [kind : {"firebase"}, uid : Uids] \cup [kind : {"group"}, token : minted]

\* verify_group_token: unexpired, and not revoked as far as this process knows.
GroupTokenValid(t) == now < t.exp /\ t.group \notin revoked

\* The stub's own check.
LocalUser(h) == IF h.kind = "stub" THEN WorkshopUser ELSE None

\* The provider's verification.
FirebaseUser(h) == IF h.kind = "firebase" THEN h.uid ELSE None

\* user_from_token: the uid of the token; its email and domain are empty.
UserFrom(t) == t.uid

\* A token that is refused, for whatever reason, is a 401.
GroupUser(h) == IF GroupTokenValid(h.token) THEN UserFrom(h.token) ELSE None

\* _resolve_user: local mode knows the stub and group tokens; otherwise the
\* claims of the token name its verifier.  None is a 401.
UserOf(h) ==
  IF h.kind = "group" THEN GroupUser(h)
  ELSE IF LocalMode THEN LocalUser(h)
  ELSE FirebaseUser(h)

-----------------------------------------------------------------------------
(* The routes *)

\* The body of a request for a group; title and skills are stored, never read.
NewGroup == [ttl : Ttls, cap : Caps]

\* _generate_code: random, so never a code that was in use.
FreshCodes == GroupIds \ used

\* create_group.
Mint(uid, body) ==
  \E g \in FreshCodes :
    /\ groups' = [groups EXCEPT ![g] = [creator |-> uid, cap |-> body.cap,
                                        expires |-> now + body.ttl * Day]]
    /\ used' = used \cup {g}

\* create_group_endpoint: any resolved user may create.
CreateGroup(h, body) ==
  /\ UserOf(h) # None
  /\ Mint(UserOf(h), body)
  /\ UNCHANGED <<now, revoked, joinedOn, bucket, admitted, minted, restarts>>

\* delete_group: the creator's call removes the record and revokes the code.
Revoke(uid, g) ==
  /\ groups[g] # None /\ groups[g].creator = uid
  /\ groups' = [groups EXCEPT ![g] = None]
  /\ revoked' = revoked \cup {g}

\* delete_group_endpoint.
DeleteGroup(h, g) ==
  /\ UserOf(h) # None
  /\ Revoke(UserOf(h), g)
  /\ UNCHANGED <<now, used, joinedOn, bucket, admitted, minted, restarts>>

\* Mutant: the bucket is filled without regard to its size.
LeftUncapped(ip) ==
  IF bucket[ip] = None THEN Full
  ELSE bucket[ip].left + Capacity * (now - bucket[ip].at)

\* TokenBucketRateLimiter.check: what the bucket holds now.
Left(ip) ==
  IF bucket[ip] = None THEN Full
  ELSE LET filled == bucket[ip].left + Capacity * (now - bucket[ip].at)
       IN IF filled < Full THEN filled ELSE Full

Passes(ip) == Left(ip) >= Refill

\* A call that does not pass has the bucket filled up, and takes nothing.
Spend(ip) ==
  /\ bucket' = [bucket EXCEPT ![ip] =
                  [left |-> IF Passes(ip) THEN Left(ip) - Refill ELSE Left(ip), at |-> now]]
  /\ admitted' = [admitted EXCEPT ![ip] =
                    IF Passes(ip) THEN Append(@, [at |-> now, life |-> restarts]) ELSE @]

\* The key of sessions_today.
Today(g) == <<g, now \div Day>>

\* _check_group_active, asked of a group that is found.
Active(g) == g \notin revoked /\ now < groups[g].expires

\* Mutant: the cap is compared after the count.
UnderCapOneMore(g) == joinedOn[Today(g)] <= groups[g].cap

\* Gate 6: the joins of the day.
UnderCap(g) == joinedOn[Today(g)] < groups[g].cap

\* Gates 2, 3, 4 and 6.
Joinable(g) == groups[g] # None /\ Active(g) /\ UnderCap(g)

\* _synthesize_uid: each join has its own.
NextUid == Cardinality(minted) + 1

\* Gate 7: a token of the full lifetime, and one more join of the day.
Admit(g) ==
  /\ minted' = minted \cup {[uid |-> NextUid, group |-> g, exp |-> now + Lifetime]}
  /\ joinedOn' = [joinedOn EXCEPT ![Today(g)] = @ + 1]

\* join_group: the limiter first, whatever the code; then the other gates; then
\* the token.
Join(ip, g) ==
  /\ Cardinality(minted) < MaxJoins
  /\ Spend(ip)
  /\ IF Passes(ip) /\ Joinable(g) THEN Admit(g) ELSE UNCHANGED <<minted, joinedOn>>
  /\ UNCHANGED <<now, groups, revoked, used, restarts>>

-----------------------------------------------------------------------------
Tick ==
  /\ now < MaxTime /\ now' = now + 1
  /\ UNCHANGED <<memory, used, admitted, minted, restarts>>

\* The process starts anew: its memory is lost, the tokens are not, and what the
\* limiter let pass before has passed.
Restart ==
  /\ restarts < MaxRestarts /\ restarts' = restarts + 1
  /\ groups' = NoGroups /\ revoked' = {}
  /\ joinedOn' = NoJoins /\ bucket' = NoBuckets
  /\ UNCHANGED <<now, used, admitted, minted>>

Next ==
  \/ \E h \in Headers :
       \/ \E body \in NewGroup : CreateGroup(h, body)
       \/ \E g \in GroupIds : DeleteGroup(h, g)
  \/ \E ip \in Ips, g \in GroupIds : Join(ip, g)
  \/ Tick \/ Restart

Spec == Init /\ [][Next]_vars

-----------------------------------------------------------------------------
(* What the limits promise *)

Live(g) == {t \in minted : t.group = g /\ now < t.exp}

\* max_concurrent_sessions is enforced by a counter per day only: around the
\* change of the day, and across restarts (which lose the counter, but the group
\* with it), the sessions of a group that are alive together are at most twice
\* the cap its creator set.
LiveSessionsBounded ==
  \A g \in GroupIds :
    groups[g] # None => Cardinality(Live(g)) <= 2 * groups[g].cap

\* TokenBucketRateLimiter.check: in any stretch of time one address passes the
\* limiter at most as often as a full bucket, its refill in that time, and one more
\* full bucket for each restart in that time allow.  Neither an idle spell nor a row
\* of refused calls nor a refill that is no whole token earns more.
BurstBounded ==
  \A ip \in Ips : \A i, j \in DOMAIN admitted[ip] :
    LET first == admitted[ip][i]
        last == admitted[ip][j]
    IN i <= j => (j - i + 1) * Refill
                   <= Full * (1 + last.life - first.life) + Capacity * (last.at - first.at)
=============================================================================
