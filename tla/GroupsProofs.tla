----------------------------- MODULE GroupsProofs -----------------------------
(* Proofs about Groups: types, how many sessions of a group may be alive at    *)
(* once, and how many joins of an address pass the limiter in a stretch of     *)
(* time, for every set of codes, addresses and users, every cap, length of a   *)
(* day, lifetime of a token and size of a bucket.                              *)
EXTENDS Groups, FiniteSetTheorems, TLAPS

-----------------------------------------------------------------------------
(* The inductive invariant *)

\* A code that was never minted has no group, no token and no join.
UnusedUnknown ==
  /\ \A g \in GroupIds : groups[g] # None => g \in used
  /\ \A t \in minted : t.group \in used
  /\ \A g \in GroupIds \ used, d \in Days : joinedOn[<<g, d>>] = 0

\* When a token was minted, and the tokens of a group that were minted on a day.
MintTime(t) == t.exp - Lifetime
MintedOn(g, d) == {t \in minted : t.group = g /\ MintTime(t) \div Day = d}

\* While a group is there, its counter of a day covers the tokens of that day.
DaysCounted ==
  \A g \in GroupIds : groups[g] # None =>
    \A d \in Days : Cardinality(MintedOn(g, d)) <= joinedOn[<<g, d>>] /\ joinedOn[<<g, d>>] <= groups[g].cap

TokensInv ==
  /\ IsFiniteSet(minted)
  /\ \A t \in minted : MintTime(t) \in 0..now
  /\ UnusedUnknown /\ DaysCounted

\* What a bucket held when it was last filled up, and when that was; one that is not
\* there yet is full now.
Held(ip) == IF bucket[ip] = None THEN Full ELSE bucket[ip].left
Since(ip) == IF bucket[ip] = None THEN now ELSE bucket[ip].at

\* What the restarts since a call that passed have handed out, its own bucket included.
Handed(pass) == Full * (1 + restarts - pass.life)

\* What an address may still spend is what it has not spent since any call that
\* passed: each call since took Refill parts, time has brought no more than its due,
\* and each restart no more than a full bucket.
SpentSince ==
  \A ip \in Ips :
    /\ bucket[ip] # None => bucket[ip].at <= now
    /\ \A i \in DOMAIN admitted[ip] :
         /\ admitted[ip][i].at <= Since(ip) /\ admitted[ip][i].life <= restarts
         /\ (Len(admitted[ip]) - i + 1) * Refill + Held(ip)
              <= Handed(admitted[ip][i]) + Capacity * (Since(ip) - admitted[ip][i].at)

GroupsInv == TypeOK /\ TokensInv /\ SpentSince /\ BurstBounded

-----------------------------------------------------------------------------
(* Arithmetic *)

LEMMA Bounds ==
  /\ Day \in Nat /\ Day > 0 /\ Lifetime \in Nat /\ Lifetime > 0 /\ Lifetime <= Day
  /\ Capacity \in Nat /\ Capacity > 0 /\ Refill \in Nat /\ Refill > 0
  /\ MaxTime \in Nat /\ MaxJoins \in Nat
  BY GroupsAssumption DEF GroupsAssumption

LEMMA FullNat == Full \in Nat /\ Full >= Refill
<1>1. \A a, b \in Nat : a > 0 => a * b \in Nat /\ a * b >= b
  OBVIOUS
<1> QED
  BY <1>1, Bounds DEF Full

\* A day is no longer than its time, and its number no larger.
LEMMA DayOf ==
  ASSUME NEW m \in Nat
  PROVE  m \div Day \in 0..m
  BY Bounds, Z3

\* Two moments less than a day apart are on one day or on two that follow.
LEMMA DaysApart ==
  ASSUME NEW m \in Nat, NEW n \in Nat, m <= n, n - m < Day
  PROVE  m \div Day = n \div Day \/ m \div Day = (n \div Day) - 1
  BY Bounds, Z3

\* A call that passes takes what it costs from what the address may spend.
LEMMA Spending ==
  ASSUME NEW k \in Int, NEW left \in Int, NEW at \in Int, NEW time \in Int, NEW first \in Int,
         NEW held \in Int, NEW handed \in Int, held <= left + Capacity * (time - at),
         k * Refill + left <= handed + Capacity * (at - first)
  PROVE  /\ k * Refill + held <= handed + Capacity * (time - first)
         /\ (k + 1) * Refill + (held - Refill) <= handed + Capacity * (time - first)
<1>1. Capacity * (time - first) = Capacity * (time - at) + Capacity * (at - first)
  BY Bounds, Z3
<1>2. (k + 1) * Refill = k * Refill + Refill
  BY Bounds, Z3
<1> DEFINE a == Capacity * (time - at)
           b == Capacity * (at - first)
           c == k * Refill
<1>3. a \in Int /\ b \in Int /\ c \in Int
  BY Bounds
<1>4. Capacity * (time - first) = a + b /\ (k + 1) * Refill = c + Refill
  BY <1>1, <1>2
<1>5. held <= left + a /\ c + left <= handed + b
  OBVIOUS
<1> HIDE DEF a, b, c
<1>6. c + held <= handed + (a + b) /\ (c + Refill) + (held - Refill) <= handed + (a + b)
  BY <1>3, <1>5, Bounds
<1> QED
  BY <1>4, <1>6 DEF c

\* One more restart hands out one more bucket.
LEMMA Restarting ==
  ASSUME NEW n \in Int
  PROVE  Full * n \in Int /\ Full * (n + 1) = Full * n + Full
<1>1. \A f, m \in Int : f * m \in Int /\ f * (m + 1) = f * m + f
  OBVIOUS
<1> QED
  BY <1>1, FullNat

\* One more tick brings no less.
LEMMA Ticking ==
  ASSUME NEW m \in Int, NEW n \in Int, m <= n
  PROVE  Capacity * m \in Int /\ Capacity * n \in Int /\ Capacity * m <= Capacity * n
<1>1. \A c \in Nat : c * m \in Int /\ c * n \in Int /\ c * m <= c * n
  BY Z3
<1> QED
  BY <1>1, Bounds

-----------------------------------------------------------------------------

LEMMA InitInv == Init => GroupsInv
<1> SUFFICES ASSUME Init PROVE GroupsInv
  OBVIOUS
<1> USE DEF Init, NoGroups, NoJoins, NoBuckets
<1>1. TypeOK
  BY Bounds DEF TypeOK
<1>2. TokensInv
  BY FS_EmptySet DEF TokensInv, UnusedUnknown, DaysCounted
<1>3. SpentSince /\ BurstBounded
  BY DEF SpentSince, BurstBounded
<1> QED
  BY <1>1, <1>2, <1>3 DEF GroupsInv

LEMMA Callers ==
  ASSUME TypeOK, NEW h \in Headers, UserOf(h) # None
  PROVE  UserOf(h) \in Creators
<1>1. CASE h.kind = "group"
  <2>1. h.token \in minted
    BY <1>1 DEF Headers
  <2> QED
    BY <1>1, <2>1 DEF TypeOK, Token, UserOf, GroupUser, UserFrom, Creators
<1>2. CASE h.kind # "group"
  <2>1. h.kind = "firebase" => h.uid \in Uids
    BY DEF Headers
  <2> QED
    BY <1>2, <2>1 DEF UserOf, LocalUser, FirebaseUser, Creators
<1> QED
  BY <1>1, <1>2

\* The levels and passes of an address are numbers.
LEMMA Numbers ==
  ASSUME GroupsInv, NEW ip \in Ips
  PROVE  /\ now \in Nat /\ restarts \in Nat
         /\ admitted[ip] \in Seq(Pass) /\ Len(admitted[ip]) \in Nat
         /\ Held(ip) \in 0..Full /\ Since(ip) \in Nat /\ Since(ip) <= now
         /\ \A i \in DOMAIN admitted[ip] :
              /\ admitted[ip][i].at \in Nat /\ admitted[ip][i].life \in Nat
              /\ Handed(admitted[ip][i]) \in Int
<1>1. /\ now \in Nat /\ restarts \in Nat
      /\ admitted[ip] \in Seq(Pass) /\ Len(admitted[ip]) \in Nat
  BY Bounds DEF GroupsInv, TypeOK
<1>2. bucket[ip] # None => bucket[ip].left \in 0..Full /\ bucket[ip].at \in Nat /\ bucket[ip].at <= now
  BY DEF GroupsInv, TypeOK, SpentSince, Level
<1>3. Held(ip) \in 0..Full /\ Since(ip) \in Nat /\ Since(ip) <= now
  BY <1>1, <1>2, FullNat DEF Held, Since
<1>4. ASSUME NEW i \in DOMAIN admitted[ip]
      PROVE  /\ admitted[ip][i].at \in Nat /\ admitted[ip][i].life \in Nat
             /\ Handed(admitted[ip][i]) \in Int
  <2>1. admitted[ip][i] \in Pass
    BY <1>1
  <2>2. admitted[ip][i].at \in Nat /\ admitted[ip][i].life \in Nat
    BY <2>1 DEF Pass
  <2>3. 1 + restarts - admitted[ip][i].life \in Int
    BY <1>1, <2>2
  <2> QED
    BY <2>2, <2>3, Restarting DEF Handed
<1> QED
  BY <1>1, <1>3, <1>4

\* What the limiter does to an address, and to no other.
LEMMA SpendKeeps ==
  ASSUME GroupsInv, NEW ip \in Ips, Spend(ip), now' = now, restarts' = restarts
  PROVE  /\ bucket' \in [Ips -> Level \cup {None}]
         /\ admitted' \in [Ips -> Seq(Pass)]
         /\ SpentSince' /\ BurstBounded'
<1> DEFINE n == Len(admitted[ip])
           pass == [at |-> now, life |-> restarts]
           rest == IF Passes(ip) THEN Left(ip) - Refill ELSE Left(ip)
           calls == IF Passes(ip) THEN Append(admitted[ip], pass) ELSE admitted[ip]
           level == [left |-> rest, at |-> now]
<1>0. /\ now \in Nat /\ restarts \in Nat /\ admitted[ip] \in Seq(Pass) /\ n \in Nat
      /\ pass \in Pass /\ pass.at = now /\ pass.life = restarts
      /\ Held(ip) \in 0..Full /\ Since(ip) \in Nat /\ Since(ip) <= now
  BY Numbers DEF Pass
<1>1. Left(ip) \in 0..Full /\ Left(ip) <= Held(ip) + Capacity * (now - Since(ip))
  <2>1. \A a, b \in Nat : a * b \in Nat
    OBVIOUS
  <2>2. Capacity * (now - Since(ip)) \in Nat
    BY <1>0, <2>1, Bounds
  <2> DEFINE gain == Capacity * (now - Since(ip))
  <2>3. gain \in Nat
    BY <2>2
  <2>4. Left(ip) = IF bucket[ip] = None THEN Full
                   ELSE IF Held(ip) + gain < Full THEN Held(ip) + gain ELSE Full
    BY DEF Left, Held, Since
  <2>5. bucket[ip] = None => Held(ip) = Full
    BY DEF Held
  <2> HIDE DEF gain
  <2>6. Left(ip) \in 0..Full /\ Left(ip) <= Held(ip) + gain
    BY <1>0, <2>3, <2>4, <2>5, FullNat
  <2> QED
    BY <2>6 DEF gain
<1>2. rest \in 0..Full
  BY <1>1, Bounds, FullNat DEF Passes
<1>3. level \in Level /\ level.left = rest /\ level.at = now /\ level # None
  BY <1>0, <1>2, NoneAssumption DEF Level, NoneAssumption
<1>4. calls \in Seq(Pass)
  BY <1>0
<1>5. bucket' = [bucket EXCEPT ![ip] = level] /\ admitted' = [admitted EXCEPT ![ip] = calls]
  BY DEF Spend
<1>6. ASSUME NEW i \in DOMAIN calls
      PROVE  /\ calls[i].at \in Nat /\ calls[i].at <= now
             /\ calls[i].life \in Nat /\ calls[i].life <= restarts /\ Handed(calls[i]) \in Int
             /\ (Len(calls) - i + 1) * Refill + rest <= Handed(calls[i]) + Capacity * (now - calls[i].at)
  <2>1. i \in 1..Len(calls)
    BY <1>4
  <2>2. CASE i \in 1..n
    <3>1. calls[i] = admitted[ip][i] /\ i \in DOMAIN admitted[ip]
      BY <1>0, <2>2
    <3> DEFINE old == admitted[ip][i]
    <3>2. /\ old.at \in Nat /\ old.life \in Nat /\ Handed(old) \in Int
          /\ old.at <= Since(ip) /\ old.life <= restarts
          /\ (n - i + 1) * Refill + Held(ip) <= Handed(old) + Capacity * (Since(ip) - old.at)
      BY <3>1, Numbers DEF GroupsInv, SpentSince
    <3> DEFINE k == n - i + 1
    <3>3. k \in Int /\ k * Refill + Held(ip) <= Handed(old) + Capacity * (Since(ip) - old.at)
      BY <1>0, <2>2, <3>2
    <3>4. /\ Held(ip) \in Int /\ Since(ip) \in Int /\ now \in Int /\ Left(ip) \in Int
          /\ old.at \in Int /\ Handed(old) \in Int
      BY <1>0, <1>1, <3>2, FullNat
    <3>5. Len(calls) - i + 1 = IF Passes(ip) THEN k + 1 ELSE k
      BY <1>0, <2>2
    <3> HIDE DEF k, old
    <3>6. /\ k * Refill + Left(ip) <= Handed(old) + Capacity * (now - old.at)
          /\ (k + 1) * Refill + (Left(ip) - Refill) <= Handed(old) + Capacity * (now - old.at)
      BY <1>1, <3>3, <3>4, Spending
    <3>7. calls[i] = old /\ old.at \in Nat /\ old.at <= now /\ old.life \in Nat /\ old.life <= restarts
      BY <1>0, <3>1, <3>2 DEF old
    <3>8. CASE Passes(ip)
      <4>1. Len(calls) - i + 1 = k + 1 /\ rest = Left(ip) - Refill
        BY <3>5, <3>8
      <4> HIDE DEF calls, rest
      <4> QED
        BY <3>4, <3>6, <3>7, <4>1
    <3>9. CASE ~Passes(ip)
      <4>1. Len(calls) - i + 1 = k /\ rest = Left(ip)
        BY <3>5, <3>9
      <4> HIDE DEF calls, rest
      <4> QED
        BY <3>4, <3>6, <3>7, <4>1
    <3> QED
      BY <3>8, <3>9
  <2>3. CASE i \notin 1..n
    <3>1. Passes(ip) /\ i = n + 1 /\ calls[i] = pass /\ Len(calls) = n + 1
      BY <1>0, <2>1, <2>3
    <3>2. Len(calls) - i + 1 = 1 /\ now - pass.at = 0 /\ 1 + restarts - pass.life = 1
      BY <1>0, <3>1
    <3>3. 1 * Refill = Refill /\ Capacity * 0 = 0 /\ Full * 1 = Full
      BY Bounds, FullNat
    <3>4. Handed(pass) = Full
      BY <3>2, <3>3 DEF Handed
    <3>5. rest = Left(ip) - Refill
      BY <3>1
    <3> HIDE DEF rest, pass, calls
    <3>6. Refill + rest <= Full
      BY <1>1, <3>5, Bounds, FullNat
    <3>7. (Len(calls) - i + 1) * Refill + rest <= Handed(calls[i]) + Capacity * (now - calls[i].at)
      BY <1>1, <3>1, <3>2, <3>3, <3>4, <3>5, <3>6, Bounds, FullNat
    <3> QED
      BY <1>0, <3>1, <3>4, <3>7, FullNat
  <2> QED
    BY <2>2, <2>3
<1> HIDE DEF rest, calls, level, n, pass
<1>7. /\ bucket'[ip] = level /\ admitted'[ip] = calls
      /\ \A other \in Ips : other # ip => bucket'[other] = bucket[other] /\ admitted'[other] = admitted[other]
  BY <1>5 DEF GroupsInv, TypeOK
<1>8. bucket' \in [Ips -> Level \cup {None}] /\ admitted' \in [Ips -> Seq(Pass)]
  BY <1>3, <1>4, <1>5 DEF GroupsInv, TypeOK
<1>9. SpentSince'
  <2> SUFFICES ASSUME NEW other \in Ips
               PROVE  /\ bucket'[other] # None => bucket'[other].at <= now
                      /\ \A i \in DOMAIN admitted'[other] :
                           /\ admitted'[other][i].at <= Since(other)'
                           /\ admitted'[other][i].life <= restarts
                           /\ (Len(admitted'[other]) - i + 1) * Refill + Held(other)'
                                <= Handed(admitted'[other][i])
                                     + Capacity * (Since(other)' - admitted'[other][i].at)
    BY DEF SpentSince, Handed
  <2>1. CASE other = ip
    <3>1. Held(ip)' = rest /\ Since(ip)' = now
      BY <1>3, <1>7 DEF Held, Since
    <3> QED
      BY <1>0, <1>3, <1>6, <1>7, <2>1, <3>1
  <2>2. CASE other # ip
    <3>1. Held(other)' = Held(other) /\ Since(other)' = Since(other)
      BY <1>7, <2>2 DEF Held, Since
    <3> QED
      BY <1>7, <2>2, <3>1 DEF GroupsInv, SpentSince
  <2> QED
    BY <2>1, <2>2
<1>10. BurstBounded'
  <2> SUFFICES ASSUME NEW other \in Ips, NEW i \in DOMAIN admitted'[other],
                      NEW j \in DOMAIN admitted'[other], i <= j
               PROVE  (j - i + 1) * Refill
                        <= Full * (1 + admitted'[other][j].life - admitted'[other][i].life)
                             + Capacity * (admitted'[other][j].at - admitted'[other][i].at)
    BY DEF BurstBounded
  <2>1. CASE other # ip
    BY <1>7, <2>1 DEF GroupsInv, BurstBounded
  <2>2. CASE other = ip
    <3>0. i \in DOMAIN calls /\ j \in DOMAIN calls /\ admitted'[other] = calls
      BY <1>7, <2>2
    <3>1. i \in 1..Len(calls) /\ j \in 1..Len(calls) /\ Len(calls) \in Nat
      BY <1>4, <3>0
    <3>2. CASE j \in 1..n
      <4>1. i \in 1..n
        BY <1>0, <3>1, <3>2
      <4>2. /\ i \in DOMAIN admitted[ip] /\ j \in DOMAIN admitted[ip]
            /\ calls[i] = admitted[ip][i] /\ calls[j] = admitted[ip][j]
        BY <1>0, <3>2, <4>1 DEF calls, n
      <4> QED
        BY <2>2, <3>0, <4>2 DEF GroupsInv, BurstBounded
    <3>3. CASE j \notin 1..n
      <4>1. j = n + 1 /\ calls[j] = pass /\ Len(calls) = n + 1
        BY <1>0, <3>1, <3>3 DEF calls, n
      <4>2. /\ (Len(calls) - i + 1) * Refill + rest <= Handed(calls[i]) + Capacity * (now - calls[i].at)
            /\ calls[i].at \in Nat /\ Handed(calls[i]) \in Int
        BY <1>6, <3>0
      <4> DEFINE a == (Len(calls) - i + 1) * Refill
                 b == Handed(calls[i]) + Capacity * (now - calls[i].at)
      <4>3. a \in Int /\ b \in Int
        <5>1. now - calls[i].at \in Int /\ Len(calls) - i + 1 \in Int
          <6>1. PICK at, len : at = calls[i].at /\ len = Len(calls)
            OBVIOUS
          <6>2. at \in Nat /\ len \in Nat /\ i \in Nat
            BY <3>1, <4>2, <6>1
          <6> QED
            BY <1>0, <6>1, <6>2
        <5>2. Capacity * (now - calls[i].at) \in Int
          <6>1. PICK m \in Int : m = now - calls[i].at
            BY <5>1
          <6>2. Capacity * m \in Int
            BY Bounds
          <6> QED
            BY <6>1, <6>2
        <5>3. (Len(calls) - i + 1) * Refill \in Int
          <6>1. PICK m \in Int : m = Len(calls) - i + 1
            BY <5>1
          <6>2. m * Refill \in Int
            BY Bounds
          <6> QED
            BY <6>1, <6>2
        <5>4. Handed(calls[i]) \in Int
          BY <4>2
        <5> QED
          BY <5>2, <5>3, <5>4
      <4>4. a + rest <= b
        BY <4>2
      <4>5. /\ (j - i + 1) * Refill = a
            /\ Full * (1 + calls[j].life - calls[i].life) + Capacity * (calls[j].at - calls[i].at) = b
        BY <1>0, <4>1 DEF Handed
      <4> HIDE DEF a, b
      <4>6. a <= b
        BY <1>2, <4>3, <4>4, FullNat
      <4> QED
        BY <3>0, <4>5, <4>6
    <3> QED
      BY <3>2, <3>3
  <2> QED
    BY <2>1, <2>2
<1> QED
  BY <1>8, <1>9, <1>10

\* Where no token is minted and no time goes by, the tokens are what they were.
LEMMA TokensKept ==
  ASSUME GroupsInv, UNCHANGED <<now, minted, joinedOn>>, used \subseteq used',
         \A g \in GroupIds : groups'[g] # None =>
           \/ groups[g] # None /\ groups'[g].cap = groups[g].cap
           \/ g \in used' \ used /\ groups'[g].cap \in Nat
  PROVE  TokensInv'
<1>1. UnusedUnknown'
  BY DEF GroupsInv, TokensInv, UnusedUnknown
<1>2. DaysCounted'
  <2> SUFFICES ASSUME NEW g \in GroupIds, groups'[g] # None, NEW d \in Days
               PROVE  /\ Cardinality(MintedOn(g, d)) <= joinedOn[<<g, d>>]
                      /\ joinedOn[<<g, d>>] <= groups'[g].cap
    BY DEF DaysCounted, MintedOn, MintTime
  <2>1. CASE groups[g] # None /\ groups'[g].cap = groups[g].cap
    BY <2>1 DEF GroupsInv, TokensInv, DaysCounted
  <2>2. CASE g \in used' \ used /\ groups'[g].cap \in Nat
    <3>1. MintedOn(g, d) = {} /\ joinedOn[<<g, d>>] = 0
      BY <2>2 DEF MintedOn, GroupsInv, TokensInv, UnusedUnknown
    <3> QED
      BY <2>2, <3>1, FS_EmptySet
  <2> QED
    BY <2>1, <2>2
<1> QED
  BY <1>1, <1>2 DEF GroupsInv, TokensInv, MintTime

LEMMA LimiterKept ==
  ASSUME SpentSince, BurstBounded, UNCHANGED <<now, bucket, admitted, restarts>>
  PROVE  SpentSince' /\ BurstBounded'
  BY DEF SpentSince, BurstBounded, Held, Since, Handed

LEMMA CreateKeeps ==
  ASSUME GroupsInv, NEW h \in Headers, NEW body \in NewGroup, CreateGroup(h, body)
  PROVE  GroupsInv'
<1>1. PICK g \in GroupIds \ used :
        /\ groups' = [groups EXCEPT ![g] = [creator |-> UserOf(h), cap |-> body.cap,
                                            expires |-> now + body.ttl * Day]]
        /\ used' = used \cup {g}
  BY DEF CreateGroup, Mint, FreshCodes
<1> DEFINE record == [creator |-> UserOf(h), cap |-> body.cap, expires |-> now + body.ttl * Day]
<1>2. body.cap \in Caps /\ body.cap \in Nat /\ body.ttl \in Nat
  BY GroupsAssumption DEF NewGroup, GroupsAssumption
<1>3. now + body.ttl * Day \in Nat
  <2>1. \A a, b, c \in Nat : a + b * c \in Nat
    OBVIOUS
  <2>2. now \in Nat
    BY Bounds DEF GroupsInv, TypeOK
  <2> QED
    BY <1>2, <2>1, <2>2, Bounds
<1>4. record \in Record /\ record.cap = body.cap
  BY <1>2, <1>3, Callers DEF CreateGroup, GroupsInv, Record
<1> HIDE DEF record
<1>5. groups' = [groups EXCEPT ![g] = record]
  BY <1>1 DEF record
<1>6. TypeOK'
  BY <1>1, <1>4, <1>5 DEF CreateGroup, GroupsInv, TypeOK
<1>7. TokensInv'
  BY <1>1, <1>2, <1>4, <1>5, TokensKept DEF CreateGroup, GroupsInv, TypeOK
<1>8. SpentSince' /\ BurstBounded'
  BY LimiterKept DEF CreateGroup, GroupsInv, SpentSince
<1> QED
  BY <1>6, <1>7, <1>8 DEF GroupsInv

LEMMA DeleteKeeps ==
  ASSUME GroupsInv, NEW h \in Headers, NEW g \in GroupIds, DeleteGroup(h, g)
  PROVE  GroupsInv'
<1>1. /\ groups' = [groups EXCEPT ![g] = None] /\ revoked' = revoked \cup {g}
      /\ UNCHANGED <<now, used, joinedOn, bucket, admitted, minted, restarts>>
  BY DEF DeleteGroup, Revoke
<1>2. TypeOK'
  BY <1>1 DEF GroupsInv, TypeOK
<1>3. TokensInv'
  BY <1>1, TokensKept DEF GroupsInv, TypeOK
<1>4. SpentSince' /\ BurstBounded'
  BY <1>1, LimiterKept DEF GroupsInv
<1> QED
  BY <1>2, <1>3, <1>4 DEF GroupsInv

LEMMA RestartKeeps ==
  ASSUME GroupsInv, Restart
  PROVE  GroupsInv'
<1> USE DEF NoGroups, NoJoins, NoBuckets
<1>1. TypeOK'
  BY Bounds DEF Restart, GroupsInv, TypeOK
<1>2. TokensInv'
  BY DEF Restart, GroupsInv, TokensInv, UnusedUnknown, DaysCounted, MintTime
<1>3. SpentSince'
  <2> SUFFICES ASSUME NEW ip \in Ips
               PROVE  /\ bucket'[ip] = None
                      /\ \A i \in DOMAIN admitted[ip] :
                           /\ admitted[ip][i].at <= now /\ admitted[ip][i].life <= restarts'
                           /\ (Len(admitted[ip]) - i + 1) * Refill + Full
                                <= Handed(admitted[ip][i])' + Capacity * (now - admitted[ip][i].at)
    BY DEF SpentSince, Held, Since, Restart
  <2>1. bucket'[ip] = None /\ restarts' = restarts + 1
    BY DEF Restart
  <2> SUFFICES ASSUME NEW i \in DOMAIN admitted[ip]
               PROVE  /\ admitted[ip][i].at <= now /\ admitted[ip][i].life <= restarts'
                      /\ (Len(admitted[ip]) - i + 1) * Refill + Full
                           <= Handed(admitted[ip][i])' + Capacity * (now - admitted[ip][i].at)
    BY <2>1
  <2> DEFINE pass == admitted[ip][i]
             spent == (Len(admitted[ip]) - i + 1) * Refill
             due == Capacity * (Since(ip) - pass.at)
  <2>2. /\ now \in Nat /\ restarts \in Nat /\ Held(ip) \in 0..Full
        /\ Since(ip) \in Nat /\ Since(ip) <= now
        /\ pass.at \in Nat /\ pass.life \in Nat /\ Handed(pass) \in Int
        /\ pass.at <= Since(ip) /\ pass.life <= restarts
    BY Numbers DEF GroupsInv, SpentSince
  <2>3. spent + Held(ip) <= Handed(pass) + due
    BY Numbers DEF GroupsInv, SpentSince
  <2>4. Len(admitted[ip]) - i + 1 \in Int
    BY Numbers
  <2>5. spent \in Int
    BY <2>4, Bounds
  <2>6. Handed(pass)' = Handed(pass) + Full
    <3>1. pass' = pass /\ pass'.life = pass.life
      BY DEF Restart
    <3>2. 1 + restarts - pass.life \in Int
      BY <2>2
    <3>3. Full * ((1 + restarts - pass.life) + 1) = Full * (1 + restarts - pass.life) + Full
      BY <3>2, Restarting
    <3>4. 1 + restarts' - pass.life = (1 + restarts - pass.life) + 1
      <4> HIDE DEF pass
      <4> QED
        BY <2>1, <2>2
    <3> QED
      BY <3>1, <3>3, <3>4 DEF Handed
  <2>7. due \in Int /\ Capacity * (now - pass.at) \in Int /\ due <= Capacity * (now - pass.at)
    <3>1. Since(ip) - pass.at \in Int /\ now - pass.at \in Int /\ Since(ip) - pass.at <= now - pass.at
      <4> HIDE DEF pass
      <4> QED
        BY <2>2
    <3> QED
      BY <3>1, Ticking
  <2> HIDE DEF spent, due, pass
  <2>8. spent + Full <= Handed(pass)' + Capacity * (now - pass.at)
    BY <2>2, <2>3, <2>5, <2>6, <2>7, FullNat
  <2>9. pass.at <= now /\ pass.life <= restarts'
    BY <2>1, <2>2
  <2>10. Handed(pass)' = Handed(admitted[ip][i])'
    BY DEF pass
  <2> QED
    BY <2>8, <2>9, <2>10 DEF spent, pass
<1>4. BurstBounded'
  BY DEF Restart, GroupsInv, BurstBounded
<1> QED
  BY <1>1, <1>2, <1>3, <1>4 DEF GroupsInv

LEMMA TickKeeps ==
  ASSUME GroupsInv, Tick
  PROVE  GroupsInv'
<1>1. /\ now' \in 0..MaxTime /\ now' \in Nat /\ now <= now' /\ now \in Nat
      /\ UNCHANGED <<groups, revoked, joinedOn, bucket, used, admitted, minted, restarts>>
  BY Bounds DEF Tick, memory, GroupsInv, TypeOK
<1>2. TypeOK'
  BY <1>1 DEF GroupsInv, TypeOK
<1>3. UnusedUnknown' /\ DaysCounted'
  BY <1>1 DEF GroupsInv, TokensInv, UnusedUnknown, DaysCounted, MintedOn, MintTime
<1>4. \A t \in minted' : MintTime(t)' \in 0..now'
  BY <1>1 DEF GroupsInv, TokensInv, MintTime
<1>5. TokensInv'
  BY <1>1, <1>3, <1>4 DEF GroupsInv, TokensInv, MintTime
<1>6. SpentSince'
  <2> SUFFICES ASSUME NEW ip \in Ips
               PROVE  /\ bucket[ip] # None => bucket[ip].at <= now'
                      /\ \A i \in DOMAIN admitted[ip] :
                           /\ admitted[ip][i].at <= Since(ip)' /\ admitted[ip][i].life <= restarts
                           /\ (Len(admitted[ip]) - i + 1) * Refill + Held(ip)
                                <= Handed(admitted[ip][i]) + Capacity * (Since(ip)' - admitted[ip][i].at)
    BY <1>1 DEF SpentSince, Held, Handed
  <2>1. bucket[ip] # None => bucket[ip].at <= now'
    BY <1>1 DEF GroupsInv, TypeOK, SpentSince, Level
  <2>2. Since(ip)' \in Nat /\ Since(ip) \in Nat /\ Since(ip) <= Since(ip)'
    BY <1>1, Numbers DEF Since
  <2>3. ASSUME NEW i \in DOMAIN admitted[ip]
        PROVE  /\ admitted[ip][i].at <= Since(ip)' /\ admitted[ip][i].life <= restarts
               /\ (Len(admitted[ip]) - i + 1) * Refill + Held(ip)
                    <= Handed(admitted[ip][i]) + Capacity * (Since(ip)' - admitted[ip][i].at)
    <3> DEFINE pass == admitted[ip][i]
               spent == (Len(admitted[ip]) - i + 1) * Refill
    <3>1. /\ Held(ip) \in 0..Full /\ pass.at \in Nat /\ Handed(pass) \in Int
          /\ pass.at <= Since(ip) /\ pass.life <= restarts
          /\ spent + Held(ip) <= Handed(pass) + Capacity * (Since(ip) - pass.at)
      BY Numbers DEF GroupsInv, SpentSince
    <3>2. Len(admitted[ip]) - i + 1 \in Int
      BY Numbers
    <3>3. spent \in Int
      BY <3>2, Bounds
    <3>4. /\ Capacity * (Since(ip) - pass.at) \in Int /\ Capacity * (Since(ip)' - pass.at) \in Int
          /\ Capacity * (Since(ip) - pass.at) <= Capacity * (Since(ip)' - pass.at)
      <4>1. /\ Since(ip) - pass.at \in Int /\ Since(ip)' - pass.at \in Int
            /\ Since(ip) - pass.at <= Since(ip)' - pass.at
        <5> HIDE DEF pass
        <5> QED
          BY <2>2, <3>1
      <4> QED
        BY <4>1, Ticking
    <3> HIDE DEF spent, pass
    <3>5. spent + Held(ip) <= Handed(pass) + Capacity * (Since(ip)' - pass.at)
      BY <3>1, <3>3, <3>4, FullNat
    <3> QED
      BY <2>2, <3>1, <3>5 DEF spent, pass
  <2> QED
    BY <2>1, <2>3
<1>7. BurstBounded'
  BY <1>1 DEF GroupsInv, BurstBounded
<1> QED
  BY <1>2, <1>5, <1>6, <1>7 DEF GroupsInv

\* A token that is minted is one more of its day, for the counter too.
LEMMA AdmitKeeps ==
  ASSUME GroupsInv, NEW g \in GroupIds, Cardinality(minted) < MaxJoins, Joinable(g), Admit(g),
         UNCHANGED <<now, groups, used>>
  PROVE  /\ TokensInv' /\ minted' \subseteq Token
         /\ joinedOn' \in [GroupIds \X Days -> Nat]
<1> DEFINE token == [uid |-> NextUid, group |-> g, exp |-> now + Lifetime]
           today == now \div Day
<1>0. now \in Nat /\ today \in Days /\ groups[g] \in Record
  <2>1. now \in Nat /\ today \in 0..now /\ now <= MaxTime
    BY Bounds, DayOf DEF GroupsInv, TypeOK
  <2>2. today \in Days
    BY <2>1, Bounds DEF Days
  <2> QED
    BY <2>1, <2>2 DEF GroupsInv, TypeOK, Joinable
<1>1. token \in Token /\ token.group = g /\ MintTime(token) = now
  <2>1. Cardinality(minted) \in Nat
    BY FS_CardinalityType DEF GroupsInv, TokensInv
  <2>2. NextUid \in 1..MaxJoins
    BY <2>1, Bounds DEF NextUid
  <2> QED
    BY <1>0, <2>2, Bounds DEF Token, MintTime
<1>2. minted' = minted \cup {token} /\ joinedOn' = [joinedOn EXCEPT ![<<g, today>>] = joinedOn[<<g, today>>] + 1]
  BY DEF Admit, Today
<1> HIDE DEF token, today
<1>3. joinedOn' \in [GroupIds \X Days -> Nat] /\ joinedOn[<<g, today>>] \in Nat
  BY <1>0, <1>2 DEF GroupsInv, TypeOK
<1>4. /\ joinedOn'[<<g, today>>] = joinedOn[<<g, today>>] + 1
      /\ \A c \in GroupIds, d \in Days : c # g \/ d # today => joinedOn'[<<c, d>>] = joinedOn[<<c, d>>]
  BY <1>0, <1>2 DEF GroupsInv, TypeOK
<1>5. minted' \subseteq Token /\ IsFiniteSet(minted')
  BY <1>1, <1>2, FS_AddElement DEF GroupsInv, TypeOK, TokensInv
<1>6. \A t \in minted' : MintTime(t) \in 0..now
  BY <1>0, <1>1, <1>2 DEF GroupsInv, TokensInv
<1>7. UnusedUnknown'
  <2>1. g \in used
    BY DEF Joinable, GroupsInv, TokensInv, UnusedUnknown
  <2> QED
    BY <1>1, <1>2, <1>4, <2>1 DEF GroupsInv, TokensInv, UnusedUnknown
<1>8. DaysCounted'
  <2> SUFFICES ASSUME NEW c \in GroupIds, groups[c] # None, NEW d \in Days
               PROVE  /\ Cardinality(MintedOn(c, d)') <= joinedOn'[<<c, d>>]
                      /\ joinedOn'[<<c, d>>] <= groups[c].cap
    BY DEF DaysCounted
  <2>1. /\ Cardinality(MintedOn(c, d)) <= joinedOn[<<c, d>>] /\ joinedOn[<<c, d>>] <= groups[c].cap
        /\ joinedOn[<<c, d>>] \in Nat /\ groups[c].cap \in Nat
    BY GroupsAssumption DEF GroupsInv, TokensInv, DaysCounted, TypeOK, Record, GroupsAssumption
  <2>2. CASE c = g /\ d = today
    <3>1. MintedOn(c, d)' \subseteq MintedOn(c, d) \cup {token}
      BY <1>2 DEF MintedOn, MintTime
    <3>2. IsFiniteSet(MintedOn(c, d))
      BY FS_Subset DEF MintedOn, GroupsInv, TokensInv
    <3>3. /\ IsFiniteSet(MintedOn(c, d) \cup {token})
          /\ Cardinality(MintedOn(c, d) \cup {token}) <= Cardinality(MintedOn(c, d)) + 1
      <4>1. Cardinality(MintedOn(c, d)) \in Nat
        BY <3>2, FS_CardinalityType
      <4> DEFINE before == MintedOn(c, d)
      <4>2. IsFiniteSet(before) /\ Cardinality(before) \in Nat
        BY <3>2, <4>1
      <4> HIDE DEF before
      <4>3. /\ IsFiniteSet(before \cup {token})
            /\ \/ Cardinality(before \cup {token}) = Cardinality(before)
               \/ Cardinality(before \cup {token}) = Cardinality(before) + 1
        BY <4>2, FS_AddElement
      <4>4. IsFiniteSet(before \cup {token}) /\ Cardinality(before \cup {token}) <= Cardinality(before) + 1
        BY <4>2, <4>3
      <4> QED
        BY <4>4 DEF before
    <3>4. /\ Cardinality(MintedOn(c, d)') <= Cardinality(MintedOn(c, d) \cup {token})
          /\ IsFiniteSet(MintedOn(c, d)')
      BY <3>1, <3>3, FS_Subset
    <3>5. /\ Cardinality(MintedOn(c, d)') \in Nat /\ Cardinality(MintedOn(c, d)) \in Nat
          /\ Cardinality(MintedOn(c, d) \cup {token}) \in Nat
      BY <3>2, <3>3, <3>4, FS_CardinalityType
    <3>6. joinedOn[<<g, today>>] < groups[g].cap
      BY DEF Joinable, UnderCap, Today, today
    <3> QED
      BY <1>4, <2>1, <2>2, <3>3, <3>4, <3>5, <3>6
  <2>3. CASE c # g \/ d # today
    <3>1. MintedOn(c, d)' = MintedOn(c, d)
      BY <1>1, <1>2, <2>3 DEF MintedOn, MintTime, today
    <3> QED
      BY <1>4, <2>1, <2>3, <3>1
  <2> QED
    BY <2>2, <2>3
<1> QED
  BY <1>3, <1>5, <1>6, <1>7, <1>8 DEF TokensInv, MintTime

LEMMA JoinKeeps ==
  ASSUME GroupsInv, NEW ip \in Ips, NEW g \in GroupIds, Join(ip, g)
  PROVE  GroupsInv'
<1>1. /\ Spend(ip) /\ UNCHANGED <<now, groups, revoked, used, restarts>>
      /\ Cardinality(minted) < MaxJoins
  BY DEF Join
<1>2. /\ bucket' \in [Ips -> Level \cup {None}] /\ admitted' \in [Ips -> Seq(Pass)]
      /\ SpentSince' /\ BurstBounded'
  BY <1>1, SpendKeeps
<1>3. /\ TokensInv' /\ minted' \subseteq Token /\ joinedOn' \in [GroupIds \X Days -> Nat]
  <2>1. CASE Joinable(g) /\ Admit(g)
    BY <1>1, <2>1, AdmitKeeps
  <2>2. CASE UNCHANGED <<minted, joinedOn>>
    BY <1>1, <2>2, TokensKept DEF GroupsInv, TypeOK
  <2> QED
    BY <2>1, <2>2 DEF Join
<1>4. TypeOK'
  BY <1>1, <1>2, <1>3 DEF GroupsInv, TypeOK
<1> QED
  BY <1>2, <1>3, <1>4 DEF GroupsInv

LEMMA StutterKeeps ==
  ASSUME GroupsInv, UNCHANGED vars
  PROVE  GroupsInv'
<1>1. TypeOK'
  BY DEF vars, memory, GroupsInv, TypeOK
<1>2. TokensInv'
  BY TokensKept DEF vars, memory, GroupsInv
<1>3. SpentSince' /\ BurstBounded'
  BY LimiterKept DEF vars, memory, GroupsInv
<1> QED
  BY <1>1, <1>2, <1>3 DEF GroupsInv

\* What the day counters and buckets know of the tokens and joins of the past holds
\* in every state of the routes.
THEOREM Inductive == Spec => []GroupsInv
<1>1. GroupsInv /\ [Next]_vars => GroupsInv'
  BY CreateKeeps, DeleteKeeps, JoinKeeps, TickKeeps, RestartKeeps, StutterKeeps DEF Next
<1> QED
  BY <1>1, InitInv, PTL DEF Spec

-----------------------------------------------------------------------------

\* The state keeps its types: counters, times and levels stay in their ranges, and
\* a group's creator is one the headers can name.
THEOREM TypeCorrect == Spec => []TypeOK
  BY Inductive, PTL DEF GroupsInv

\* No address passes the limiter more often in any stretch of time, restarts in it
\* included, than a full bucket, its refill and a full bucket for each restart
\* allow, for every capacity and refill.
THEOREM BurstsAreBounded == Spec => []BurstBounded
  BY Inductive, PTL DEF GroupsInv

\* The sessions of a group that are alive at once are at most twice its cap, for
\* every cap and every lifetime of a token up to a day.
THEOREM LiveAreBounded == Spec => []LiveSessionsBounded
<1>1. GroupsInv => LiveSessionsBounded
  <2> SUFFICES ASSUME GroupsInv, NEW g \in GroupIds, groups[g] # None
               PROVE  Cardinality(Live(g)) <= 2 * groups[g].cap
    BY DEF LiveSessionsBounded
  <2> DEFINE today == now \div Day
             A == MintedOn(g, today)
             B == IF today \in Days \ {0} THEN MintedOn(g, today - 1) ELSE {}
  <2>0. now \in Nat /\ today \in Days /\ today \in Nat
    <3>1. now \in Nat /\ today \in 0..now /\ now <= MaxTime
      BY Bounds, DayOf DEF GroupsInv, TypeOK
    <3> QED
      BY <3>1, Bounds DEF Days
  <2>1. Live(g) \subseteq A \cup B
    <3> SUFFICES ASSUME NEW t \in minted, t.group = g, now < t.exp
                 PROVE  t \in A \cup B
      BY DEF Live
    <3>1. MintTime(t) \in 0..now /\ t.exp \in Nat
      BY DEF GroupsInv, TypeOK, TokensInv, Token
    <3>2. MintTime(t) \in Nat /\ MintTime(t) <= now /\ now - MintTime(t) < Day
      BY <2>0, <3>1, Bounds DEF MintTime
    <3>3. MintTime(t) \div Day = today \/ MintTime(t) \div Day = today - 1
      BY <2>0, <3>2, DaysApart
    <3>4. MintTime(t) \div Day \in Nat
      BY <3>2, DayOf
    <3> HIDE DEF today
    <3> QED
      BY <2>0, <3>3, <3>4 DEF MintedOn
  <2>2. /\ IsFiniteSet(A) /\ IsFiniteSet(B)
        /\ Cardinality(A) <= groups[g].cap /\ Cardinality(B) <= groups[g].cap
        /\ groups[g].cap \in Nat
    <3>1. groups[g].cap \in Nat
      BY GroupsAssumption DEF GroupsInv, TypeOK, Record, GroupsAssumption
    <3>2. ASSUME NEW d \in Days
          PROVE  IsFiniteSet(MintedOn(g, d)) /\ Cardinality(MintedOn(g, d)) <= groups[g].cap
      <4>1. IsFiniteSet(MintedOn(g, d))
        BY FS_Subset DEF MintedOn, GroupsInv, TokensInv
      <4>2. Cardinality(MintedOn(g, d)) \in Nat /\ joinedOn[<<g, d>>] \in Nat
        BY <4>1, FS_CardinalityType DEF GroupsInv, TypeOK
      <4> QED
        BY <3>1, <4>1, <4>2 DEF GroupsInv, TokensInv, DaysCounted
    <3> HIDE DEF today
    <3>3. today \in Days \ {0} => today - 1 \in Days
      BY <2>0, Bounds DEF Days
    <3> QED
      BY <2>0, <3>1, <3>2, <3>3, FS_EmptySet
  <2> HIDE DEF A, B, today
  <2>3. /\ IsFiniteSet(A \cup B)
        /\ Cardinality(A \cup B) = Cardinality(A) + Cardinality(B) - Cardinality(A \cap B)
    BY <2>2, FS_Union
  <2>4. /\ Cardinality(A) \in Nat /\ Cardinality(B) \in Nat /\ Cardinality(A \cap B) \in Nat
        /\ Cardinality(A \cup B) \in Nat
    BY <2>2, <2>3, FS_CardinalityType, FS_Intersection
  <2>5. Cardinality(Live(g)) <= Cardinality(A \cup B) /\ Cardinality(Live(g)) \in Nat
    BY <2>1, <2>3, FS_Subset, FS_CardinalityType
  <2> QED
    BY <2>2, <2>3, <2>4, <2>5
<1> QED
  BY <1>1, Inductive, PTL
=============================================================================
