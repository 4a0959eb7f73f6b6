---------------------------- MODULE ChannelsProofs ----------------------------
(* Proofs about Channels: types, one account per user, documents that are the  *)
(* user's own, replies cut and sent faithfully, and a lock that stands over    *)
(* registered commands, for any number of users, deliveries and messages, any  *)
(* course of the migration, and texts and limits of any length.                *)
EXTENDS Channels, WellFoundedInduction, TLAPS

-----------------------------------------------------------------------------
(* Numbers *)

Below == OpToRel(<, Nat)

\* A set of naturals has a least one; this carries the inductions over a text.
LEMMA Least ==
  ASSUME NEW T, T \subseteq Nat, T # {}
  PROVE  \E x \in T : \A y \in T : x <= y
<1>1. IsWellFoundedOn(Below, Nat)
  BY NatLessThanWellFounded DEF Below
<1>2. PICK x \in T : \A y \in T : ~(<<y, x>> \in Below)
  BY <1>1, WFMin
<1>3. \A y \in T : <<y, x>> \in Below <=> y < x
  BY <1>2 DEF Below, OpToRel
<1>4. \A y \in T : x <= y
  <2> TAKE y \in T
  <2>1. x \in Nat /\ y \in Nat /\ ~(y < x)
    BY <1>2, <1>3
  <2> QED
    BY <2>1
<1> QED
  BY <1>4

LEMMA LeastOf ==
  ASSUME NEW T, T \subseteq Nat, T # {}
  PROVE  Min(T) \in T /\ \A y \in T : Min(T) <= y
<1>1. \E x \in T : \A y \in T : x <= y
  BY Least
<1> QED
  BY <1>1 DEF Min

LEMMA GreatestOf ==
  ASSUME NEW T, T \subseteq Nat, 0 \in T, NEW bound \in Nat, \A y \in T : y <= bound
  PROVE  Max(T) \in T /\ \A y \in T : Max(T) >= y
<1> DEFINE Above == {n \in Nat : \A y \in T : y <= n}
<1>1. Above # {} /\ Above \subseteq Nat
  OBVIOUS
<1>2. PICK m \in Above : \A n \in Above : m <= n
  BY <1>1, Least
<1>3. m \in T
  <2> SUFFICES ASSUME m \notin T PROVE FALSE
    OBVIOUS
  <2>1. m \in Nat /\ \A y \in T : y <= m /\ y # m /\ y \in Nat
    OBVIOUS
  <2>2. m - 1 \in Nat /\ \A y \in T : y <= m - 1
    BY <2>1
  <2>3. m - 1 \in Above
    BY <2>2
  <2> QED
    BY <1>2, <2>1, <2>3
<1>4. \A y \in T : m >= y
  OBVIOUS
<1>5. \E x \in T : \A y \in T : x >= y
  BY <1>3, <1>4
<1> QED
  BY <1>5 DEF Max

-----------------------------------------------------------------------------
(* Where a text is cut *)

LEMMA BoundaryIs ==
  ASSUME NEW t \in Seq(Chars), NEW i \in 1..Len(t)
  PROVE  /\ Boundary(t, i) \in 0..MaxLength
         /\ Boundary(t, i) # 0 => i + Boundary(t, i) <= Len(t) /\ t[i + Boundary(t, i)] = Space
         /\ \A b \in 1..MaxLength :
              i + b <= Len(t) /\ t[i + b] = Space => b <= Boundary(t, i)
<1> DEFINE S == {0} \cup {b \in 1..MaxLength : i + b <= Len(t) /\ t[i + b] = Space}
<1>1. MaxLength \in Nat /\ MaxLength > 0
  BY ChannelsAssumption DEF ChannelsAssumption
<1>2. S \subseteq Nat /\ 0 \in S /\ \A y \in S : y <= MaxLength
  BY <1>1
<1>3. Max(S) \in S /\ \A y \in S : Max(S) >= y
  BY <1>1, <1>2, GreatestOf
<1>4. Boundary(t, i) = Max(S)
  BY DEF Boundary
<1> HIDE DEF S
<1>5. Boundary(t, i) \in S /\ \A y \in S : Boundary(t, i) >= y
  BY <1>3, <1>4
<1> QED
  BY <1>1, <1>5 DEF S

LEMMA SpacesSkipped ==
  ASSUME NEW t \in Seq(Chars), NEW i \in Nat \ {0}
  PROVE  /\ SkipSpaces(t, i) \in 1..(Len(t) + 1)
         /\ i <= Len(t) + 1 => SkipSpaces(t, i) >= i
         /\ SkipSpaces(t, i) <= Len(t) => t[SkipSpaces(t, i)] # Space
         /\ i > Len(t) => SkipSpaces(t, i) = Len(t) + 1
         /\ \A j \in i..Len(t) : t[j] # Space => j >= SkipSpaces(t, i)
<1> DEFINE S == {j \in i..Len(t) : t[j] # Space} \cup {Len(t) + 1}
<1>1. Len(t) \in Nat
  OBVIOUS
<1>2. S \subseteq Nat /\ S # {}
  BY <1>1
<1>3. Min(S) \in S /\ \A y \in S : Min(S) <= y
  BY <1>2, LeastOf
<1>4. SkipSpaces(t, i) = Min(S)
  BY DEF SkipSpaces
<1> HIDE DEF S
<1>5. SkipSpaces(t, i) \in S /\ \A y \in S : SkipSpaces(t, i) <= y
  BY <1>3, <1>4
<1> QED
  BY <1>1, <1>5 DEF S

\* A chunk ends where the code says, and between it and the next one are spaces.
LEMMA OneCut ==
  ASSUME NEW t \in Seq(Chars), NEW i \in 1..Len(t)
  PROVE  /\ LastOf(t, i) \in i..Len(t) /\ LastOf(t, i) - i + 1 \in 1..MaxLength
         /\ NextOf(t, i) \in (LastOf(t, i) + 1)..(Len(t) + 1)
         /\ NextOf(t, i) <= Len(t) => t[NextOf(t, i)] # Space
         /\ \A j \in (LastOf(t, i) + 1)..Len(t) : t[j] # Space => j >= NextOf(t, i)
         /\ t[i] # Space => \A p \in i..LastOf(t, i), q \in DOMAIN t :
              IsWord(t, p, q) /\ q - p + 1 <= MaxLength => q <= LastOf(t, i)
<1> DEFINE b == Boundary(t, i)
           l == LastOf(t, i)
<1>1. MaxLength \in Nat /\ MaxLength > 0 /\ Len(t) \in Nat /\ DOMAIN t = 1..Len(t)
  BY ChannelsAssumption DEF ChannelsAssumption
<1>2. /\ b \in 0..MaxLength
      /\ b # 0 => i + b <= Len(t) /\ t[i + b] = Space
      /\ \A c \in 1..MaxLength : i + c <= Len(t) /\ t[i + c] = Space => c <= b
  BY BoundaryIs
<1>3. l = IF Len(t) - i + 1 <= MaxLength THEN Len(t)
          ELSE IF b = 0 THEN i + MaxLength - 1 ELSE i + b - 1
  BY DEF LastOf
<1>4. NextOf(t, i) = SkipSpaces(t, IF b = 0 THEN l + 1 ELSE l + 2)
  BY DEF NextOf
<1> HIDE DEF b, l
<1>5. l \in i..Len(t) /\ l - i + 1 \in 1..MaxLength
  BY <1>1, <1>2, <1>3
<1>6. /\ NextOf(t, i) \in (l + 1)..(Len(t) + 1)
      /\ NextOf(t, i) <= Len(t) => t[NextOf(t, i)] # Space
      /\ \A j \in (l + 1)..Len(t) : t[j] # Space => j >= NextOf(t, i)
  <2>1. CASE b = 0
    <3>1. l + 1 \in Nat \ {0} /\ l + 1 <= Len(t) + 1
      BY <1>1, <1>5
    <3>2. /\ NextOf(t, i) \in 1..(Len(t) + 1)
          /\ l + 1 <= Len(t) + 1 => NextOf(t, i) >= l + 1
          /\ NextOf(t, i) <= Len(t) => t[NextOf(t, i)] # Space
          /\ \A j \in (l + 1)..Len(t) : t[j] # Space => j >= NextOf(t, i)
      BY <1>4, <2>1, <3>1, SpacesSkipped
    <3> QED
      BY <1>1, <1>5, <3>1, <3>2
  <2>2. CASE b # 0
    <3>1. l + 2 \in Nat \ {0}
      BY <1>1, <1>5
    <3>2. /\ NextOf(t, i) \in 1..(Len(t) + 1)
          /\ l + 2 <= Len(t) + 1 => NextOf(t, i) >= l + 2
          /\ NextOf(t, i) <= Len(t) => t[NextOf(t, i)] # Space
          /\ \A j \in (l + 2)..Len(t) : t[j] # Space => j >= NextOf(t, i)
      BY <1>4, <2>2, <3>1, SpacesSkipped
    <3>3. CASE Len(t) - i + 1 <= MaxLength
      <4>1. l = Len(t) /\ (l + 2 > Len(t) + 1)
        BY <1>1, <1>3, <3>3
      <4>2. NextOf(t, i) = Len(t) + 1
        BY <1>1, <1>4, <2>2, <3>1, <4>1, SpacesSkipped
      <4>3. /\ NextOf(t, i) \in (l + 1)..(Len(t) + 1) /\ ~(NextOf(t, i) <= Len(t))
            /\ (l + 1)..Len(t) = {}
        BY <1>1, <4>1, <4>2
      <4> QED
        BY <4>3
    <3>4. CASE ~(Len(t) - i + 1 <= MaxLength)
      <4>1. l + 1 = i + b /\ t[l + 1] = Space /\ l + 1 <= Len(t)
        BY <1>1, <1>2, <1>3, <2>2, <3>4
      <4>2. \A j \in (l + 1)..Len(t) : t[j] # Space => j \in (l + 2)..Len(t)
        BY <1>1, <1>5, <4>1
      <4> QED
        BY <1>1, <1>5, <3>2, <4>1, <4>2
    <3> QED
      BY <3>3, <3>4
  <2> QED
    BY <2>1, <2>2
<1>7. ASSUME t[i] # Space, NEW p \in i..l, NEW q \in DOMAIN t, IsWord(t, p, q),
             q - p + 1 <= MaxLength
      PROVE  q <= l
  <2>0. /\ p \in 1..Len(t) /\ q \in 1..Len(t) /\ p <= q /\ \A k \in p..q : t[k] # Space
        /\ p = 1 \/ t[p - 1] = Space
    BY <1>1, <1>5, <1>7 DEF IsWord
  <2>1. CASE Len(t) - i + 1 <= MaxLength
    BY <1>1, <1>3, <2>0, <2>1
  <2>2. CASE ~(Len(t) - i + 1 <= MaxLength) /\ b # 0
    <3>1. l + 1 = i + b /\ t[l + 1] = Space
      BY <1>1, <1>2, <1>3, <2>2
    <3>2. l + 1 \notin p..q
      BY <2>0, <3>1
    <3> QED
      BY <1>1, <1>5, <2>0, <3>2
  <2>3. CASE ~(Len(t) - i + 1 <= MaxLength) /\ b = 0
    <3>1. \A c \in 1..MaxLength : t[i + c] # Space
      BY <1>1, <1>2, <2>3
    <3>2. l = i + MaxLength - 1
      BY <1>1, <1>3, <2>3
    <3>3. p = i
      <4> SUFFICES ASSUME p # i PROVE FALSE
        OBVIOUS
      <4>1. p > i /\ t[p - 1] = Space
        BY <1>1, <2>0
      <4>2. CASE p - 1 = i
        BY <1>7, <4>1, <4>2
      <4>3. CASE p - 1 # i
        <5>1. p - 1 - i \in 1..MaxLength /\ i + (p - 1 - i) = p - 1
          BY <1>1, <1>5, <3>2, <4>1, <4>3
        <5> QED
          BY <3>1, <4>1, <5>1
      <4> QED
        BY <4>2, <4>3
    <3> QED
      BY <1>1, <1>7, <2>0, <3>2, <3>3
  <2> QED
    BY <2>1, <2>2, <2>3
<1>8. /\ LastOf(t, i) \in i..Len(t) /\ LastOf(t, i) - i + 1 \in 1..MaxLength
  BY <1>5 DEF l
<1> QED
  BY <1>5, <1>6, <1>7 DEF l

-----------------------------------------------------------------------------
(* The loop over a text *)

\* What the loop does at a position, given what it does at the later ones.
Step(t, f, i) ==
  IF i > Len(t) THEN << >>
  ELSE <<[from |-> i, to |-> LastOf(t, i)]>> \o f[NextOf(t, i)]

Positions(t) == 1..(Len(t) + 1)

LEMMA CutsAre ==
  ASSUME NEW t \in Seq(Chars)
  PROVE  CutsFrom(t) = CHOOSE f : f = [i \in Positions(t) |-> Step(t, f, i)]
  BY DEF CutsFrom, Step, Positions

\* The last n positions, and the loop on them.
Final(t, n) == (Len(t) + 2 - n)..(Len(t) + 1)
LoopsOn(t, n) == \E f : f = [i \in Final(t, n) |-> Step(t, f, i)]

LEMMA StepOf ==
  ASSUME NEW t \in Seq(Chars), NEW n \in Nat, NEW f, NEW g, NEW i \in Final(t, n), i > 0,
         \A j \in Final(t, n) : j > i => f[j] = g[j]
  PROVE  Step(t, f, i) = Step(t, g, i)
<1>1. Len(t) \in Nat
  OBVIOUS
<1>2. CASE i > Len(t)
  BY <1>2 DEF Step
<1>3. CASE ~(i > Len(t))
  <2>1. i \in 1..Len(t)
    BY <1>1, <1>3 DEF Final
  <2>2. LastOf(t, i) \in i..Len(t) /\ NextOf(t, i) \in (LastOf(t, i) + 1)..(Len(t) + 1)
    BY <2>1, OneCut
  <2>3. NextOf(t, i) \in Final(t, n) /\ NextOf(t, i) > i
    BY <1>1, <2>1, <2>2 DEF Final
  <2>4. f[NextOf(t, i)] = g[NextOf(t, i)]
    BY <2>3
  <2> QED
    BY <1>3, <2>4 DEF Step
<1> QED
  BY <1>2, <1>3

LEMMA LoopOnMore ==
  ASSUME NEW t \in Seq(Chars), NEW n \in 1..(Len(t) + 1), LoopsOn(t, n - 1)
  PROVE  LoopsOn(t, n)
<1>1. Len(t) \in Nat /\ n \in Nat /\ n - 1 \in Nat
  OBVIOUS
<1>2. PICK g : g = [i \in Final(t, n - 1) |-> Step(t, g, i)]
  BY DEF LoopsOn
<1> DEFINE p == Len(t) + 2 - n
           f == [i \in Final(t, n) |-> IF i = p THEN Step(t, g, p) ELSE g[i]]
<1>3. /\ p \in Nat /\ p > 0
      /\ \A i \in Final(t, n) : i \in Nat /\ i >= p /\ (i # p => i \in Final(t, n - 1))
  BY <1>1 DEF Final
<1>4. \A i \in Final(t, n) : i # p => f[i] = g[i] /\ g[i] = Step(t, g, i)
  BY <1>2, <1>3
<1>5. \A i \in Final(t, n) : f[i] = Step(t, g, i)
  BY <1>4
<1> HIDE DEF f, p
<1>6. ASSUME NEW i \in Final(t, n) PROVE Step(t, f, i) = Step(t, g, i)
  <2>1. i > 0 /\ \A j \in Final(t, n) : j > i => f[j] = g[j]
    BY <1>3, <1>4
  <2> QED
    BY <1>1, <2>1, StepOf
<1>7. f = [i \in Final(t, n) |-> Step(t, f, i)]
  <2>1. f = [i \in Final(t, n) |-> f[i]]
    BY DEF f
  <2> QED
    BY <1>5, <1>6, <2>1
<1> QED
  BY <1>7 DEF LoopsOn

LEMMA LoopOnAll ==
  ASSUME NEW t \in Seq(Chars)
  PROVE  LoopsOn(t, Len(t) + 1)
<1> DEFINE Bad == {n \in 0..(Len(t) + 1) : ~LoopsOn(t, n)}
<1>1. Len(t) \in Nat
  OBVIOUS
<1> SUFFICES ASSUME Bad # {} PROVE FALSE
  BY <1>1
<1>2. Bad \subseteq Nat
  BY <1>1
<1>3. PICK n \in Bad : \A m \in Bad : n <= m
  BY <1>2, Least
<1>4. n # 0
  <2>1. Final(t, 0) = {}
    BY <1>1 DEF Final
  <2>2. LoopsOn(t, 0)
    <3> DEFINE f == [i \in Final(t, 0) |-> {}]
    <3>1. f = [i \in Final(t, 0) |-> Step(t, f, i)]
      BY <2>1
    <3> QED
      BY <3>1 DEF LoopsOn
  <2> QED
    BY <1>3, <2>2
<1>5. n \in 1..(Len(t) + 1) /\ n - 1 \in 0..(Len(t) + 1) /\ ~(n <= n - 1)
  BY <1>1, <1>3, <1>4
<1>6. LoopsOn(t, n - 1)
  BY <1>3, <1>5
<1> QED
  BY <1>3, <1>5, <1>6, LoopOnMore

\* The loop ends, and is what its step says.
LEMMA LoopIs ==
  ASSUME NEW t \in Seq(Chars)
  PROVE  CutsFrom(t) = [i \in Positions(t) |-> Step(t, CutsFrom(t), i)]
<1>1. Final(t, Len(t) + 1) = Positions(t)
  BY DEF Final, Positions
<1>2. \E f : f = [i \in Positions(t) |-> Step(t, f, i)]
  BY <1>1, LoopOnAll DEF LoopsOn
<1> QED
  BY <1>2, CutsAre

-----------------------------------------------------------------------------
(* What the loop makes of a text *)

Piece == [from : Nat, to : Nat]
Covered(c, i, j) == \E n \in 1..Len(c) : c[n].from <= i /\ j <= c[n].to

\* The pieces from a position on.
Good(t, i, c) ==
  /\ c \in Seq(Piece)
  /\ \A n \in 1..Len(c) : /\ i <= c[n].from /\ c[n].to <= Len(t)
                          /\ c[n].to - c[n].from + 1 \in 1..MaxLength
  /\ \A n \in 1..Len(c) : n > 1 => c[n - 1].to < c[n].from
  /\ \A j \in i..Len(t) : t[j] # Space => Covered(c, j, j)
  /\ i <= Len(t) /\ t[i] # Space =>
       \A p \in i..Len(t), q \in 1..Len(t) :
         IsWord(t, p, q) /\ q - p + 1 <= MaxLength => Covered(c, p, q)

LEMMA CoveredFirst ==
  ASSUME NEW x \in Piece, NEW d \in Seq(Piece), NEW i, NEW j
  PROVE  /\ <<x>> \o d \in Seq(Piece) /\ Len(<<x>> \o d) = Len(d) + 1
         /\ (<<x>> \o d)[1] = x
         /\ \A n \in 2..(Len(d) + 1) : (<<x>> \o d)[n] = d[n - 1]
         /\ x.from <= i /\ j <= x.to => Covered(<<x>> \o d, i, j)
         /\ Covered(d, i, j) => Covered(<<x>> \o d, i, j)
<1>1. /\ <<x>> \o d \in Seq(Piece) /\ Len(<<x>> \o d) = Len(d) + 1 /\ Len(d) \in Nat
      /\ (<<x>> \o d)[1] = x
      /\ \A n \in 2..(Len(d) + 1) : (<<x>> \o d)[n] = d[n - 1]
  OBVIOUS
<1> DEFINE c == <<x>> \o d
<1> HIDE DEF c
<1>2. x.from <= i /\ j <= x.to => Covered(c, i, j)
  BY <1>1 DEF c, Covered
<1>3. Covered(d, i, j) => Covered(c, i, j)
  <2> SUFFICES ASSUME NEW n \in 1..Len(d), d[n].from <= i, j <= d[n].to PROVE Covered(c, i, j)
    BY DEF Covered
  <2>1. n + 1 \in 2..(Len(d) + 1) /\ n + 1 \in 1..Len(c) /\ n + 1 - 1 = n
    BY <1>1 DEF c
  <2>2. c[n + 1] = d[n]
    BY <1>1, <2>1 DEF c
  <2> QED
    BY <2>1, <2>2 DEF Covered
<1> QED
  BY <1>1, <1>2, <1>3 DEF c

LEMMA GoodEnd ==
  ASSUME NEW t \in Seq(Chars)
  PROVE  Good(t, Len(t) + 1, << >>)
<1>1. Len(t) \in Nat /\ (Len(t) + 1)..Len(t) = {} /\ Len(<< >>) = 0 /\ << >> \in Seq(Piece)
  OBVIOUS
<1> QED
  BY <1>1 DEF Good

LEMMA GoodMore ==
  ASSUME NEW t \in Seq(Chars), NEW i \in 1..Len(t), NEW d, Good(t, NextOf(t, i), d)
  PROVE  Good(t, i, <<[from |-> i, to |-> LastOf(t, i)]>> \o d)
<1>1. PICK l, k : l = LastOf(t, i) /\ k = NextOf(t, i)
  OBVIOUS
<1>2. /\ l \in i..Len(t) /\ l - i + 1 \in 1..MaxLength /\ k \in (l + 1)..(Len(t) + 1)
      /\ k <= Len(t) => t[k] # Space
      /\ \A j \in (l + 1)..Len(t) : t[j] # Space => j >= k
      /\ t[i] # Space => \A p \in i..l, q \in DOMAIN t :
           IsWord(t, p, q) /\ q - p + 1 <= MaxLength => q <= l
  BY <1>1, OneCut
<1>3. Len(t) \in Nat /\ MaxLength \in Nat /\ DOMAIN t = 1..Len(t)
  BY ChannelsAssumption DEF ChannelsAssumption
<1> DEFINE x == [from |-> i, to |-> l]
           c == <<x>> \o d
<1>4. x \in Piece /\ x.from = i /\ x.to = l
  BY <1>2, <1>3 DEF Piece
<1>5. d \in Seq(Piece) /\ Len(d) \in Nat
  BY <1>1 DEF Good
<1> HIDE DEF x
<1>6. /\ c \in Seq(Piece) /\ Len(c) = Len(d) + 1 /\ c[1] = x
      /\ \A n \in 2..(Len(d) + 1) : c[n] = d[n - 1]
  BY <1>4, <1>5, CoveredFirst
<1>7. \A a, b : (x.from <= a /\ b <= x.to) \/ Covered(d, a, b) => Covered(c, a, b)
  BY <1>4, <1>5, CoveredFirst
<1>8. \A n \in 1..Len(d) : /\ d[n] \in Piece /\ k <= d[n].from /\ d[n].to <= Len(t)
                           /\ d[n].to - d[n].from + 1 \in 1..MaxLength
                           /\ n > 1 => d[n - 1].to < d[n].from
  BY <1>1, <1>5 DEF Good
<1> HIDE DEF c
<1>9. ASSUME NEW n \in 1..Len(c)
      PROVE  /\ i <= c[n].from /\ c[n].to <= Len(t)
             /\ c[n].to - c[n].from + 1 \in 1..MaxLength
             /\ n > 1 => c[n - 1].to < c[n].from
  <2>1. CASE n = 1
    BY <1>2, <1>3, <1>4, <1>6, <2>1
  <2>2. CASE n > 1
    <3>1. n \in 2..(Len(d) + 1) /\ n - 1 \in 1..Len(d) /\ c[n] = d[n - 1]
      BY <1>5, <1>6, <2>2
    <3>2. /\ d[n - 1].from \in Nat /\ d[n - 1].to \in Nat
          /\ k <= d[n - 1].from /\ d[n - 1].to <= Len(t)
          /\ d[n - 1].to - d[n - 1].from + 1 \in 1..MaxLength
      BY <1>8, <3>1 DEF Piece
    <3>3. c[n - 1].to < c[n].from
      <4>1. CASE n - 1 = 1
        BY <1>2, <1>3, <1>4, <1>6, <3>1, <3>2, <4>1
      <4>2. CASE n - 1 > 1
        <5>1. n - 1 \in 2..(Len(d) + 1) /\ c[n - 1] = d[(n - 1) - 1]
          BY <1>5, <1>6, <3>1, <4>2
        <5> QED
          BY <1>8, <3>1, <4>2, <5>1
      <4> QED
        BY <3>1, <4>1, <4>2
    <3> QED
      BY <1>2, <1>3, <3>1, <3>2, <3>3
  <2> QED
    BY <1>5, <1>6, <2>1, <2>2
<1>10. ASSUME NEW j \in i..Len(t), t[j] # Space
       PROVE  Covered(c, j, j)
  <2>1. CASE j <= l
    BY <1>4, <1>7, <2>1
  <2>2. CASE j > l
    <3>1. j \in (l + 1)..Len(t)
      BY <1>2, <1>3, <2>2
    <3>2. j \in k..Len(t)
      BY <1>2, <1>3, <1>10, <3>1
    <3> QED
      BY <1>1, <1>7, <1>10, <3>2 DEF Good
  <2> QED
    BY <1>2, <1>3, <2>1, <2>2
<1>11. ASSUME t[i] # Space, NEW p \in i..Len(t), NEW q \in 1..Len(t), IsWord(t, p, q),
              q - p + 1 <= MaxLength
       PROVE  Covered(c, p, q)
  <2>1. CASE p <= l
    <3>1. q <= l
      BY <1>2, <1>3, <1>11, <2>1
    <3> QED
      BY <1>4, <1>7, <3>1
  <2>2. CASE p > l
    <3>1. t[p] # Space
      <4>1. p <= q /\ \A n \in p..q : t[n] # Space
        BY <1>11 DEF IsWord
      <4>2. p \in p..q
        BY <1>2, <1>3, <4>1
      <4> QED
        BY <4>1, <4>2
    <3>2. p \in k..Len(t) /\ k <= Len(t)
      BY <1>2, <1>3, <2>2, <3>1
    <3> QED
      BY <1>1, <1>2, <1>7, <1>11, <3>2 DEF Good
  <2> QED
    BY <1>2, <1>3, <2>1, <2>2
<1>12. Good(t, i, c)
  BY <1>6, <1>9, <1>10, <1>11 DEF Good
<1> QED
  BY <1>1, <1>12 DEF c, x

LEMMA LoopIsGood ==
  ASSUME NEW t \in Seq(Chars)
  PROVE  \A i \in Positions(t) : Good(t, i, CutsFrom(t)[i])
<1> DEFINE C == CutsFrom(t)
           Bad == {n \in 0..Len(t) : ~Good(t, Len(t) + 1 - n, C[Len(t) + 1 - n])}
<1>1. Len(t) \in Nat
  OBVIOUS
<1>2. Bad = {}
  <2> SUFFICES ASSUME Bad # {} PROVE FALSE
    OBVIOUS
  <2>1. Bad \subseteq Nat
    BY <1>1
  <2>2. PICK n \in Bad : \A m \in Bad : n <= m
    BY <2>1, Least
  <2> DEFINE i == Len(t) + 1 - n
  <2>3. i \in Positions(t) /\ n \in 0..Len(t) /\ ~Good(t, i, C[i])
    BY <1>1, <2>2 DEF Positions
  <2> HIDE DEF C
  <2>4. C[i] = Step(t, C, i)
    BY <2>3, LoopIs DEF C
  <2>5. CASE i > Len(t)
    <3>1. C[i] = << >> /\ i = Len(t) + 1
      BY <1>1, <2>3, <2>4, <2>5 DEF Step, Positions
    <3> QED
      BY <2>3, <3>1, GoodEnd
  <2>6. CASE ~(i > Len(t))
    <3>1. i \in 1..Len(t)
      BY <1>1, <2>3, <2>6 DEF Positions
    <3>2. C[i] = <<[from |-> i, to |-> LastOf(t, i)]>> \o C[NextOf(t, i)]
      BY <2>4, <2>6 DEF Step
    <3>3. NextOf(t, i) \in (i + 1)..(Len(t) + 1)
      <4>1. LastOf(t, i) \in i..Len(t) /\ NextOf(t, i) \in (LastOf(t, i) + 1)..(Len(t) + 1)
        BY <3>1, OneCut
      <4> QED
        BY <1>1, <3>1, <4>1
    <3>4. PICK m : m = Len(t) + 1 - NextOf(t, i)
      OBVIOUS
    <3>5. m \in 0..Len(t) /\ m < n /\ Len(t) + 1 - m = NextOf(t, i)
      BY <1>1, <2>3, <3>1, <3>3, <3>4
    <3>6. m \notin Bad
      BY <1>1, <2>2, <2>3, <3>5
    <3>7. Good(t, NextOf(t, i), C[NextOf(t, i)])
      BY <3>5, <3>6
    <3> QED
      BY <2>3, <3>1, <3>2, <3>7, GoodMore
  <2> QED
    BY <2>5, <2>6
<1>3. ASSUME NEW i \in Positions(t) PROVE Good(t, i, C[i])
  <2>1. PICK n : n = Len(t) + 1 - i
    OBVIOUS
  <2>2. n \in 0..Len(t) /\ Len(t) + 1 - n = i
    BY <1>1, <2>1 DEF Positions
  <2> QED
    BY <1>2, <2>2
<1> QED
  BY <1>3

\* The chunks of every text are faithful to it, whatever the limit of the channel:
\* chunk_message (_chunk.py) loses nothing but spaces, keeps the order, exceeds no
\* limit, sends nothing empty and cuts no word that fits.
THEOREM ChunksAreFaithful ==
  ASSUME NEW t \in Seq(Chars)
  PROVE  Cuts(t) \in Seq(Piece) /\ FaithfulCuts(t)
<1>1. Len(t) \in Nat /\ DOMAIN t = 1..Len(t)
  OBVIOUS
<1>2. CASE \A i \in DOMAIN t : t[i] = Space
  <2>1. Cuts(t) = << >> /\ Len(Cuts(t)) = 0 /\ DOMAIN Cuts(t) = {}
    BY <1>2 DEF Cuts
  <2>2. \A i, j \in DOMAIN t : ~IsWord(t, i, j)
    BY <1>1, <1>2 DEF IsWord
  <2> QED
    BY <1>2, <2>1, <2>2 DEF FaithfulCuts
<1>3. CASE ~\A i \in DOMAIN t : t[i] = Space
  <2>1. PICK c : c = Cuts(t)
    OBVIOUS
  <2>2. Good(t, 1, c) /\ 1 <= Len(t)
    <3>1. 1 \in Positions(t) /\ 1 <= Len(t)
      BY <1>1, <1>3 DEF Positions
    <3>2. c = CutsFrom(t)[1]
      BY <1>3, <2>1 DEF Cuts
    <3> QED
      BY <3>1, <3>2, LoopIsGood
  <2>3. c \in Seq(Piece) /\ DOMAIN c = 1..Len(c)
    BY <2>2 DEF Good
  <2>4. FaithfulCuts(t)
    BY <1>1, <2>1, <2>2, <2>3 DEF FaithfulCuts, Good, Covered
  <2> QED
    BY <2>1, <2>3, <2>4
<1> QED
  BY <1>2, <1>3

-----------------------------------------------------------------------------
(* The inductive invariant *)

Fields == {"msg", "pc", "uid", "files", "docs", "skill", "reply", "left", "sent"}

\* Handlers are records, and what they handle are messages.
Handlers ==
  /\ delivery = [d \in Deliveries |-> delivery[d]]
  /\ \A d \in Deliveries :
       /\ DOMAIN delivery[d] = Fields
       /\ delivery[d].pc # "idle" => delivery[d].msg \in Messages
       /\ delivery[d].uid # None => delivery[d].msg \in Messages /\ delivery[d].uid \in Accounts

\* A user's row, once it names an account, names it for good; who is about to
\* write a row has found none that names another.
RowsStand ==
  /\ identity \in [Users -> Accounts \cup {Blank, None}]
  /\ migration = [u \in Planned |-> migration[u]]
  /\ \A d \in Deliveries :
       LET user == delivery[d].msg.user IN
       /\ delivery[d].uid # None => identity[user] = delivery[d].uid
       /\ delivery[d].pc = "admit" => identity[user] \in {None, Blank, Derived(user)}
  /\ \A u \in Planned : migration[u] = "absent" => identity[u] \in {None, Derived(u)}

\* Documents come after the account.
DocsAfterAccount ==
  \A d \in Deliveries : delivery[d].pc \in {"idle", "resolve", "admit"} => delivery[d].docs = {}

LockInv == (server = "locking" => commands) /\ LockMeansRegistered

ChannelsInv == Handlers /\ RowsStand /\ DocsAfterAccount /\ DocsAreOwn /\ LockInv

LEMMA MessageUser == \A m \in Messages : m.user \in Users
  BY ChannelsAssumption DEF ChannelsAssumption, Message

LEMMA DerivedAccount == \A u \in Users : Derived(u) \in Accounts
  BY DEF Derived, Accounts

LEMMA IdleFields ==
  /\ DOMAIN Idle = Fields /\ Idle.msg = None /\ Idle.pc = "idle" /\ Idle.uid = None /\ Idle.docs = {}
  BY DEF Idle, Fields

\* What a handler leaves keeps whom it served.
LEMMA ReturnedFields ==
  ASSUME NEW h, NEW how
  PROVE  /\ DOMAIN Returned(h, how) = Fields
         /\ Returned(h, how).msg = h.msg /\ Returned(h, how).uid = h.uid
         /\ Returned(h, how).pc = how /\ Returned(h, how).docs = {}
  BY DEF Returned, Idle, Fields

LEMMA InitInv == Init => ChannelsInv
<1> SUFFICES ASSUME Init PROVE ChannelsInv
  OBVIOUS
<1>1. \A d \in Deliveries : delivery[d] = Idle
  BY DEF Init
<1>2. Handlers
  BY <1>1, IdleFields DEF Handlers, Init
<1>3. RowsStand
  <2>1. identity \in [Users -> Accounts \cup {Blank, None}]
    BY DEF Init, Accounts
  <2> QED
    BY <1>1, <2>1, IdleFields DEF RowsStand, Init
<1>4. DocsAfterAccount /\ DocsAreOwn /\ LockInv
  BY <1>1, IdleFields DEF DocsAfterAccount, DocsAreOwn, LockInv, LockMeansRegistered, Init
<1> QED
  BY <1>2, <1>3, <1>4 DEF ChannelsInv

-----------------------------------------------------------------------------
(* Steps of a delivery *)

\* The delivery goes on under its account, with no document more.
Onward(d, h) ==
  /\ delivery' = [delivery EXCEPT ![d] = h]
  /\ DOMAIN h = Fields /\ h.msg = delivery[d].msg /\ h.uid = delivery[d].uid
  /\ h.docs \subseteq delivery[d].docs
  /\ delivery[d].pc # "idle" /\ h.pc \notin {"idle", "resolve", "admit"}
  /\ UNCHANGED <<identity, fileVars, migration, startVars>>

LEMMA OnwardKeeps ==
  ASSUME ChannelsInv, NEW d \in Deliveries, NEW h, Onward(d, h)
  PROVE  ChannelsInv'
<1>1. /\ delivery'[d] = h /\ \A e \in Deliveries : e # d => delivery'[e] = delivery[e]
      /\ delivery' = [e \in Deliveries |-> delivery'[e]]
  BY DEF Onward, ChannelsInv, Handlers
<1>2. Handlers'
  BY <1>1 DEF Onward, ChannelsInv, Handlers
<1>3. RowsStand'
  BY <1>1 DEF Onward, ChannelsInv, RowsStand
<1>4. DocsAfterAccount' /\ DocsAreOwn'
  BY <1>1 DEF Onward, ChannelsInv, DocsAfterAccount, DocsAreOwn, fileVars
<1>5. LockInv'
  BY DEF Onward, ChannelsInv, LockInv, LockMeansRegistered, startVars
<1> QED
  BY <1>2, <1>3, <1>4, <1>5 DEF ChannelsInv

\* An answer is a step of that kind.
LEMMA AnswerOnward ==
  ASSUME ChannelsInv, NEW d \in Deliveries, NEW text, Answer(d, text),
         delivery[d].pc # "idle", UNCHANGED <<identity, fileVars, migration, startVars>>
  PROVE  \E h : Onward(d, h)
<1>1. PICK pieces : Put(d, [delivery[d] EXCEPT !.pc = "send", !.reply = text, !.left = pieces])
  BY DEF Answer
<1> DEFINE h == [delivery[d] EXCEPT !.pc = "send", !.reply = text, !.left = pieces]
<1>2. /\ DOMAIN h = Fields /\ h.msg = delivery[d].msg /\ h.uid = delivery[d].uid
      /\ h.docs = delivery[d].docs /\ h.pc = "send"
  BY DEF ChannelsInv, Handlers, Fields
<1>3. delivery' = [delivery EXCEPT ![d] = h]
  BY <1>1 DEF Put
<1> HIDE DEF h
<1> QED
  BY <1>2, <1>3 DEF Onward

LEMMA ReturnOnward ==
  ASSUME ChannelsInv, NEW d \in Deliveries, NEW how \in Ended, Return(d, how),
         delivery[d].pc # "idle", UNCHANGED <<identity, fileVars, migration, startVars>>
  PROVE  \E h : Onward(d, h)
<1> DEFINE h == Returned(delivery[d], how)
<1>1. delivery' = [delivery EXCEPT ![d] = h]
  BY DEF Return, Put
<1>2. /\ DOMAIN h = Fields /\ h.msg = delivery[d].msg /\ h.uid = delivery[d].uid
      /\ h.docs = {} /\ h.pc = how
  BY ReturnedFields
<1> HIDE DEF h
<1> QED
  BY <1>1, <1>2 DEF Onward, Ended

LEMMA RouteOnward ==
  ASSUME ChannelsInv, NEW d \in Deliveries, Route(d)
  PROVE  \E h : Onward(d, h)
<1>1. delivery[d].pc = "route" /\ UNCHANGED <<identity, fileVars, migration, startVars>>
  BY DEF Route
<1>2. CASE ExecuteCommand(d)
  BY <1>1, <1>2, AnswerOnward DEF ExecuteCommand
<1>3. CASE Put(d, [delivery[d] EXCEPT !.pc = "upload", !.files = FilesOf(delivery[d].msg)])
  <2> DEFINE h == [delivery[d] EXCEPT !.pc = "upload", !.files = FilesOf(delivery[d].msg)]
  <2>1. /\ DOMAIN h = Fields /\ h.msg = delivery[d].msg /\ h.uid = delivery[d].uid
        /\ h.docs = delivery[d].docs /\ h.pc = "upload"
    BY DEF ChannelsInv, Handlers, Fields
  <2>2. delivery' = [delivery EXCEPT ![d] = h]
    BY <1>3 DEF Put
  <2> HIDE DEF h
  <2> QED
    BY <1>1, <2>1, <2>2 DEF Onward
<1> QED
  BY <1>2, <1>3 DEF Route

LEMMA SelectOnward ==
  ASSUME ChannelsInv, NEW d \in Deliveries, SelectSkill(d)
  PROVE  \E h : Onward(d, h)
<1>1. PICK skill : Put(d, [delivery[d] EXCEPT !.pc = "run", !.skill = skill])
  BY DEF SelectSkill
<1> DEFINE h == [delivery[d] EXCEPT !.pc = "run", !.skill = skill]
<1>2. /\ DOMAIN h = Fields /\ h.msg = delivery[d].msg /\ h.uid = delivery[d].uid
      /\ h.docs = delivery[d].docs /\ h.pc = "run"
  BY DEF ChannelsInv, Handlers, Fields
<1>3. delivery' = [delivery EXCEPT ![d] = h]
  BY <1>1 DEF Put
<1> HIDE DEF h
<1> QED
  BY <1>2, <1>3 DEF Onward, SelectSkill, userVars

LEMMA InvokeOnward ==
  ASSUME ChannelsInv, NEW d \in Deliveries, InvokeSkill(d)
  PROVE  \E h : Onward(d, h)
<1>1. delivery[d].pc = "run" /\ UNCHANGED <<identity, fileVars, migration, startVars>>
  BY DEF InvokeSkill, userVars
<1> QED
  BY <1>1, AnswerOnward, ReturnOnward DEF InvokeSkill, Ended

LEMMA SendOnward ==
  ASSUME ChannelsInv, NEW d \in Deliveries, SendChunk(d) \/ Acknowledge(d)
  PROVE  \E h : Onward(d, h)
<1>1. delivery[d].pc = "send" /\ UNCHANGED <<identity, fileVars, migration, startVars>>
  BY DEF SendChunk, Acknowledge, userVars
<1>2. CASE Return(d, "failed") \/ Return(d, "ok")
  BY <1>1, <1>2, ReturnOnward DEF Ended
<1>3. CASE Put(d, [delivery[d] EXCEPT !.left = Tail(@), !.sent = Append(@, Head(delivery[d].left))])
  <2>1. PICK left, sent : Put(d, [delivery[d] EXCEPT !.left = left, !.sent = sent])
    BY <1>3
  <2> DEFINE h == [delivery[d] EXCEPT !.left = left, !.sent = sent]
  <2>2. /\ DOMAIN h = Fields /\ h.msg = delivery[d].msg /\ h.uid = delivery[d].uid
        /\ h.docs = delivery[d].docs /\ h.pc = "send"
    BY <1>1 DEF ChannelsInv, Handlers, Fields
  <2>3. delivery' = [delivery EXCEPT ![d] = h]
    BY <2>1 DEF Put
  <2> HIDE DEF h
  <2> QED
    BY <1>1, <2>2, <2>3 DEF Onward
<1>4. CASE Put(d, [delivery[d] EXCEPT !.left = Tail(@)])
  <2>1. PICK left : Put(d, [delivery[d] EXCEPT !.left = left])
    BY <1>4
  <2> DEFINE h == [delivery[d] EXCEPT !.left = left]
  <2>2. /\ DOMAIN h = Fields /\ h.msg = delivery[d].msg /\ h.uid = delivery[d].uid
        /\ h.docs = delivery[d].docs /\ h.pc = "send"
    BY <1>1 DEF ChannelsInv, Handlers, Fields
  <2>3. delivery' = [delivery EXCEPT ![d] = h]
    BY <2>1 DEF Put
  <2> HIDE DEF h
  <2> QED
    BY <1>1, <2>2, <2>3 DEF Onward
<1> QED
  BY <1>2, <1>3, <1>4 DEF SendChunk, Acknowledge

LEMMA ArriveKeeps ==
  ASSUME ChannelsInv, NEW d \in Deliveries, NEW m \in Messages, Arrive(d, m)
  PROVE  ChannelsInv'
<1> DEFINE h == delivery'[d]
<1>1. /\ delivery' = [e \in Deliveries |-> delivery'[e]]
      /\ \A e \in Deliveries : e # d => delivery'[e] = delivery[e]
  BY DEF Arrive, Put, ChannelsInv, Handlers
<1>2. /\ DOMAIN h = Fields /\ h.msg = m /\ h.uid = None /\ h.docs = {}
      /\ h.pc \in {"unauthorized", "skipped", "resolve"}
  <2> DEFINE first == [Idle EXCEPT !.msg = m]
             next == [first EXCEPT !.pc = "resolve"]
  <2>1. /\ DOMAIN first = Fields /\ first.msg = m /\ first.uid = None /\ first.docs = {}
    BY DEF Idle, Fields
  <2>2. /\ DOMAIN next = Fields /\ next.msg = m /\ next.uid = None /\ next.docs = {}
        /\ next.pc = "resolve"
    BY DEF Idle, Fields
  <2>3. h \in {Returned(first, "unauthorized"), Returned(first, "skipped"), next}
    BY DEF Arrive, Put, ChannelsInv, Handlers
  <2> HIDE DEF first, next, h
  <2> QED
    BY <2>1, <2>2, <2>3, ReturnedFields
<1>3. UNCHANGED <<identity, migration, blobs, library, lock, server, commands>>
  BY DEF Arrive, userVars, fileVars, startVars
<1> HIDE DEF h
<1>4. Handlers'
  BY <1>1, <1>2 DEF h, ChannelsInv, Handlers
<1>5. RowsStand'
  BY <1>1, <1>2, <1>3 DEF h, ChannelsInv, RowsStand
<1>6. DocsAfterAccount' /\ DocsAreOwn' /\ LockInv'
  BY <1>1, <1>2, <1>3 DEF h, ChannelsInv, DocsAfterAccount, DocsAreOwn, LockInv, LockMeansRegistered
<1> QED
  BY <1>4, <1>5, <1>6 DEF ChannelsInv

\* A row that names no account is a miss; another is the account.
LEMMA ResolveKeeps ==
  ASSUME ChannelsInv, NEW d \in Deliveries, Resolve(d)
  PROVE  ChannelsInv'
<1> DEFINE user == delivery[d].msg.user
           row == identity[user]
           admit == [delivery[d] EXCEPT !.pc = "admit"]
           route == [delivery[d] EXCEPT !.pc = "route", !.uid = row]
<1>1. delivery[d].pc = "resolve" /\ delivery[d].msg \in Messages /\ user \in Users
  BY MessageUser DEF Resolve, ChannelsInv, Handlers
<1>2. /\ DOMAIN admit = Fields /\ admit.pc = "admit" /\ admit.msg = delivery[d].msg
      /\ admit.uid = delivery[d].uid /\ admit.docs = {}
  BY <1>1 DEF ChannelsInv, Handlers, Fields, DocsAfterAccount
<1>3. /\ DOMAIN route = Fields /\ route.pc = "route" /\ route.msg = delivery[d].msg
      /\ route.uid = row /\ route.docs = {}
  BY <1>1 DEF ChannelsInv, Handlers, Fields, DocsAfterAccount
<1>4. PICK h \in {admit, route} :
        /\ delivery' = [delivery EXCEPT ![d] = h]
        /\ h = admit => row \in {None, Blank}
        /\ h = route => row \notin {None, Blank}
  <2>1. admit # route
    BY <1>2, <1>3
  <2> HIDE DEF admit, route
  <2> QED
    BY <2>1 DEF Resolve, Put, admit, route
<1>5. row \in Accounts \cup {Blank, None}
  BY <1>1 DEF ChannelsInv, RowsStand
<1>6. UNCHANGED <<identity, migration, blobs, library, lock, server, commands>>
  BY DEF Resolve, userVars, fileVars, startVars
<1> HIDE DEF admit, route
<1>7. /\ DOMAIN h = Fields /\ h.msg = delivery[d].msg /\ h.docs = {} /\ h.pc # "idle"
      /\ h.uid # None => h.uid = row /\ row \in Accounts
      /\ h.pc = "admit" => row \in {None, Blank}
  <2>1. delivery[d].uid # None => delivery[d].uid = row /\ row \in Accounts
    BY DEF ChannelsInv, Handlers, RowsStand
  <2> QED
    BY <1>2, <1>3, <1>4, <1>5, <2>1
<1>8. /\ delivery'[d] = h /\ \A e \in Deliveries : e # d => delivery'[e] = delivery[e]
      /\ delivery' = [e \in Deliveries |-> delivery'[e]]
  BY <1>4 DEF ChannelsInv, Handlers
<1>9. Handlers'
  BY <1>1, <1>7, <1>8 DEF ChannelsInv, Handlers
<1>10. RowsStand'
  BY <1>6, <1>7, <1>8 DEF ChannelsInv, RowsStand
<1>11. DocsAfterAccount' /\ DocsAreOwn' /\ LockInv'
  BY <1>6, <1>7, <1>8 DEF ChannelsInv, DocsAfterAccount, DocsAreOwn, LockInv, LockMeansRegistered
<1> QED
  BY <1>9, <1>10, <1>11 DEF ChannelsInv

\* A row that is written names the account it would have had before.
LEMMA RowsKept ==
  ASSUME ChannelsInv, NEW u \in Users, identity[u] \in {None, Blank, Derived(u)},
         identity' = [identity EXCEPT ![u] = Derived(u)],
         migration' = [w \in Planned |-> migration'[w]],
         \A w \in Planned : migration'[w] = "absent" => migration[w] = "absent",
         delivery' = [e \in Deliveries |-> delivery'[e]],
         \A e \in Deliveries :
           \/ delivery'[e] = delivery[e]
           \/ /\ delivery'[e].msg.user = u /\ delivery'[e].pc # "admit"
              /\ delivery'[e].uid \in {None, Derived(u)}
  PROVE  RowsStand'
<1>1. /\ identity'[u] = Derived(u) /\ \A w \in Users : w # u => identity'[w] = identity[w]
      /\ Derived(u) \in Accounts /\ identity' \in [Users -> Accounts \cup {Blank, None}]
  BY DerivedAccount DEF ChannelsInv, RowsStand
<1>2. ASSUME NEW e \in Deliveries
      PROVE  LET user == delivery'[e].msg.user IN
             /\ delivery'[e].uid # None => identity'[user] = delivery'[e].uid
             /\ delivery'[e].pc = "admit" => identity'[user] \in {None, Blank, Derived(user)}
  <2>1. CASE delivery'[e] = delivery[e]
    <3> DEFINE user == delivery[e].msg.user
    <3>1. CASE delivery[e].uid = None /\ delivery[e].pc # "admit"
      BY <2>1, <3>1
    <3>2. CASE delivery[e].uid # None \/ delivery[e].pc = "admit"
      <4>1. user \in Users
        BY <3>2, MessageUser DEF ChannelsInv, Handlers
      <4>2. delivery[e].uid # None => identity[user] = delivery[e].uid /\ identity[user] \in Accounts
        BY DEF ChannelsInv, Handlers, RowsStand
      <4>3. CASE user = u
        BY <1>1, <2>1, <4>2, <4>3, NoneAssumption
      <4>4. CASE user # u
        BY <1>1, <2>1, <4>1, <4>4 DEF ChannelsInv, RowsStand
      <4> QED
        BY <4>3, <4>4
    <3> QED
      BY <3>1, <3>2
  <2>2. CASE /\ delivery'[e].msg.user = u /\ delivery'[e].pc # "admit"
             /\ delivery'[e].uid \in {None, Derived(u)}
    BY <1>1, <2>2
  <2> QED
    BY <2>1, <2>2
<1>3. ASSUME NEW w \in Planned, migration'[w] = "absent"
      PROVE  identity'[w] \in {None, Derived(w)}
  BY <1>1, <1>3, ChannelsAssumption DEF ChannelsInv, RowsStand, ChannelsAssumption
<1> QED
  BY <1>1, <1>2, <1>3 DEF RowsStand

LEMMA AdmitKeeps ==
  ASSUME ChannelsInv, NEW d \in Deliveries, Admit(d)
  PROVE  ChannelsInv'
<1> DEFINE m == delivery[d].msg
           h == [delivery[d] EXCEPT !.pc = "route", !.uid = Derived(m.user)]
<1>1. delivery[d].pc = "admit" /\ m \in Messages /\ m.user \in Users
  BY MessageUser DEF Admit, ChannelsInv, Handlers
<1>2. UNCHANGED <<migration, blobs, library, lock, server, commands>>
  BY DEF Admit, fileVars, startVars
<1>3. CASE Return(d, "rejected") /\ UNCHANGED identity
  <2>1. \E k : Onward(d, k)
    BY <1>1, <1>2, <1>3, ReturnOnward DEF Ended, fileVars, startVars
  <2> QED
    BY <2>1, OnwardKeeps
<1>4. CASE delivery' = [delivery EXCEPT ![d] = h] /\ AutoCreated(m.user)
  <2>1. /\ DOMAIN h = Fields /\ h.msg = m /\ h.uid = Derived(m.user) /\ h.docs = {} /\ h.pc = "route"
    BY <1>1 DEF ChannelsInv, Handlers, Fields, DocsAfterAccount
  <2> HIDE DEF h
  <2>2. /\ delivery'[d] = h /\ \A e \in Deliveries : e # d => delivery'[e] = delivery[e]
        /\ delivery' = [e \in Deliveries |-> delivery'[e]]
    BY <1>4 DEF ChannelsInv, Handlers
  <2>3. Handlers'
    BY <1>1, <2>1, <2>2, DerivedAccount DEF ChannelsInv, Handlers
  <2>4. identity[m.user] \in {None, Blank, Derived(m.user)}
    BY <1>1 DEF ChannelsInv, RowsStand
  <2>5. migration' = [w \in Planned |-> migration'[w]]
    BY <1>2 DEF ChannelsInv, RowsStand
  <2>6. RowsStand'
    <3>1. \A e \in Deliveries :
            \/ delivery'[e] = delivery[e]
            \/ /\ delivery'[e].msg.user = m.user /\ delivery'[e].pc # "admit"
               /\ delivery'[e].uid \in {None, Derived(m.user)}
      BY <2>1, <2>2
    <3> DEFINE u == m.user
    <3>2. u \in Users /\ identity' = [identity EXCEPT ![u] = Derived(u)]
      BY <1>1, <1>4 DEF AutoCreated
    <3>3. \A w \in Planned : migration'[w] = "absent" => migration[w] = "absent"
      BY <1>2
    <3> QED
      BY <2>2, <2>4, <2>5, <3>1, <3>2, <3>3, RowsKept
  <2>7. DocsAfterAccount' /\ DocsAreOwn' /\ LockInv'
    BY <1>2, <2>1, <2>2
    DEF ChannelsInv, DocsAfterAccount, DocsAreOwn, LockInv, LockMeansRegistered
  <2> QED
    BY <2>3, <2>6, <2>7 DEF ChannelsInv
<1> QED
  BY <1>3, <1>4 DEF Admit, Put

LEMMA UploadKeeps ==
  ASSUME ChannelsInv, NEW d \in Deliveries, Upload(d)
  PROVE  ChannelsInv'
<1> DEFINE doc == <<d, Len(delivery[d].files)>>
           mine == [doc |-> doc, owner |-> delivery[d].uid]
<1>1. PICK fate \in {"refused", "stored", "registered"} :
        /\ blobs' = IF fate = "refused" THEN blobs ELSE blobs \cup {doc}
        /\ library' = IF fate = "registered" THEN library \cup {mine} ELSE library
        /\ delivery' = [delivery EXCEPT ![d] =
             [delivery[d] EXCEPT !.files = Tail(@),
                                 !.docs = IF fate = "registered" THEN @ \cup {doc} ELSE @]]
  BY DEF Upload, FileFate, Put
<1> HIDE DEF doc, mine
<1> DEFINE h == [delivery[d] EXCEPT !.files = Tail(@),
                                    !.docs = IF fate = "registered" THEN @ \cup {doc} ELSE @]
<1>2. delivery[d].pc = "upload" /\ UNCHANGED <<identity, migration, lock, server, commands>>
  BY DEF Upload, userVars, startVars
<1>3. /\ DOMAIN h = Fields /\ h.msg = delivery[d].msg /\ h.uid = delivery[d].uid /\ h.pc = "upload"
      /\ h.docs = IF fate = "registered" THEN delivery[d].docs \cup {doc} ELSE delivery[d].docs
  BY <1>2 DEF ChannelsInv, Handlers, Fields
<1>4. /\ delivery'[d] = h /\ \A e \in Deliveries : e # d => delivery'[e] = delivery[e]
      /\ delivery' = [e \in Deliveries |-> delivery'[e]]
  BY <1>1 DEF ChannelsInv, Handlers
<1> HIDE DEF h
<1>5. Handlers'
  BY <1>2, <1>3, <1>4 DEF ChannelsInv, Handlers
<1>6. RowsStand'
  BY <1>2, <1>3, <1>4 DEF ChannelsInv, RowsStand
<1>7. DocsAfterAccount' /\ LockInv'
  BY <1>2, <1>3, <1>4 DEF ChannelsInv, DocsAfterAccount, LockInv, LockMeansRegistered
<1>8. DocsAreOwn'
  <2>1. blobs \subseteq blobs' /\ library \subseteq library'
    BY <1>1
  <2>2. ASSUME NEW x \in h.docs
        PROVE  x \in blobs' /\ [doc |-> x, owner |-> h.uid] \in library'
    <3>1. CASE x \in delivery[d].docs
      BY <1>3, <2>1, <3>1 DEF ChannelsInv, DocsAreOwn
    <3>2. CASE x = doc /\ fate = "registered"
      BY <1>1, <1>3, <3>2 DEF mine
    <3> QED
      BY <1>3, <2>2, <3>1, <3>2
  <2> QED
    BY <1>4, <2>1, <2>2 DEF ChannelsInv, DocsAreOwn
<1> QED
  BY <1>5, <1>6, <1>7, <1>8 DEF ChannelsInv

-----------------------------------------------------------------------------
(* Steps around the deliveries *)

LEMMA MigrationKeeps ==
  ASSUME ChannelsInv, NEW u \in Planned, MigrationRead(u) \/ MigrationWrite(u)
  PROVE  ChannelsInv'
<1>1. u \in Users /\ UNCHANGED <<blobs, library, delivery, lock, server, commands>>
  BY ChannelsAssumption
  DEF ChannelsAssumption, MigrationRead, MigrationWrite, userVars, fileVars, startVars
<1>2. Handlers' /\ DocsAfterAccount' /\ DocsAreOwn' /\ LockInv'
  BY <1>1 DEF ChannelsInv, Handlers, DocsAfterAccount, DocsAreOwn, LockInv, LockMeansRegistered
<1>3. migration' = [w \in Planned |-> migration'[w]]
  BY DEF MigrationRead, MigrationWrite, ChannelsInv, RowsStand
<1>4. CASE UNCHANGED identity
  <2>1. \A w \in Planned : migration'[w] = "absent" => identity[w] \in {None, Derived(w)}
    BY DEF MigrationRead, MigrationWrite, ChannelsInv, RowsStand
  <2> QED
    BY <1>1, <1>2, <1>3, <1>4, <2>1 DEF ChannelsInv, RowsStand
<1>5. CASE MigrationWrite(u) /\ identity' = [identity EXCEPT ![u] = Derived(u)]
  <2>1. identity[u] \in {None, Blank, Derived(u)}
    BY <1>5 DEF MigrationWrite, ChannelsInv, RowsStand
  <2>2. \A w \in Planned : migration'[w] = "absent" => migration[w] = "absent"
    BY <1>5 DEF MigrationWrite, ChannelsInv, RowsStand
  <2>3. delivery' = [e \in Deliveries |-> delivery'[e]]
    BY <1>1 DEF ChannelsInv, Handlers
  <2>4. RowsStand'
    BY <1>1, <1>3, <1>5, <2>1, <2>2, <2>3, RowsKept
  <2> QED
    BY <1>2, <2>4 DEF ChannelsInv
<1> QED
  BY <1>4, <1>5 DEF MigrationRead, MigrationWrite, userVars

LEMMA StartKeeps ==
  ASSUME ChannelsInv, RegisterStart \/ RegisterPut \/ RegisterLock \/ LockExpires
  PROVE  ChannelsInv'
<1>1. UNCHANGED <<identity, migration, blobs, library, delivery>>
  BY DEF RegisterStart, RegisterPut, RegisterLock, LockExpires, userVars, fileVars
<1>2. Handlers' /\ RowsStand' /\ DocsAfterAccount' /\ DocsAreOwn'
  BY <1>1 DEF ChannelsInv, Handlers, RowsStand, DocsAfterAccount, DocsAreOwn
<1>3. LockInv'
  BY DEF RegisterStart, RegisterPut, RegisterLock, LockExpires, ChannelsInv, LockInv,
         LockMeansRegistered
<1> QED
  BY <1>2, <1>3 DEF ChannelsInv

LEMMA RedeployKeeps ==
  ASSUME ChannelsInv, Redeploy
  PROVE  ChannelsInv'
<1>1. /\ UNCHANGED <<identity, migration, blobs, library, lock, commands>> /\ server' = "starting"
      /\ delivery' = [d \in Deliveries |-> delivery'[d]]
  BY DEF Redeploy, userVars, fileVars
<1>2. ASSUME NEW d \in Deliveries
      PROVE  \/ delivery'[d] = delivery[d]
             \/ /\ DOMAIN delivery'[d] = Fields /\ delivery'[d].docs = {}
                /\ delivery'[d].msg = delivery[d].msg /\ delivery'[d].uid = delivery[d].uid
                /\ delivery'[d].pc = "lost" /\ delivery[d].pc # "idle"
  <2> DEFINE h == Returned(delivery[d], "lost")
  <2>1. /\ DOMAIN h = Fields /\ h.docs = {} /\ h.msg = delivery[d].msg
        /\ h.uid = delivery[d].uid /\ h.pc = "lost"
    BY ReturnedFields
  <2> HIDE DEF h
  <2>2. delivery'[d] = delivery[d] \/ (delivery'[d] = h /\ delivery[d].pc # "idle")
    BY DEF Redeploy, Running, h
  <2> QED
    BY <2>1, <2>2
<1>3. Handlers'
  BY <1>1, <1>2 DEF ChannelsInv, Handlers
<1>4. RowsStand'
  <2>1. ASSUME NEW d \in Deliveries
        PROVE  LET user == delivery'[d].msg.user IN
               /\ delivery'[d].uid # None => identity[user] = delivery'[d].uid
               /\ delivery'[d].pc = "admit" => identity[user] \in {None, Blank, Derived(user)}
    BY <1>2 DEF ChannelsInv, RowsStand
  <2> QED
    BY <1>1, <2>1 DEF ChannelsInv, RowsStand
<1>5. DocsAfterAccount' /\ DocsAreOwn'
  BY <1>1, <1>2 DEF ChannelsInv, DocsAfterAccount, DocsAreOwn
<1>6. LockInv'
  BY <1>1 DEF ChannelsInv, LockInv, LockMeansRegistered
<1> QED
  BY <1>3, <1>4, <1>5, <1>6 DEF ChannelsInv

LEMMA StutterKeeps ==
  ASSUME ChannelsInv, UNCHANGED <<identity, fileVars, delivery, migration, startVars>>
  PROVE  ChannelsInv'
  BY DEF ChannelsInv, Handlers, RowsStand, DocsAfterAccount, DocsAreOwn, LockInv,
         LockMeansRegistered, fileVars, startVars

LEMMA StepInv == ChannelsInv /\ [Next]_vars => ChannelsInv'
<1> SUFFICES ASSUME ChannelsInv, [Next]_vars PROVE ChannelsInv'
  OBVIOUS
<1>1. ASSUME NEW d \in Deliveries, Handle(d)
      PROVE  ChannelsInv'
  <2>1. CASE Resolve(d) \/ Admit(d) \/ Upload(d)
    BY <2>1, ResolveKeeps, AdmitKeeps, UploadKeeps
  <2>2. CASE Route(d) \/ SelectSkill(d) \/ InvokeSkill(d) \/ SendChunk(d) \/ Acknowledge(d)
    <3>1. \E h : Onward(d, h)
      BY <2>2, RouteOnward, SelectOnward, InvokeOnward, SendOnward
    <3> QED
      BY <3>1, OnwardKeeps
  <2> QED
    BY <1>1, <2>1, <2>2 DEF Handle
<1>2. ASSUME NEW d \in Deliveries, NEW m \in Messages, Arrive(d, m)
      PROVE  ChannelsInv'
  BY <1>2, ArriveKeeps
<1>3. ASSUME NEW users \in SUBSET DiscordUsers, Relist(users)
      PROVE  ChannelsInv'
  BY <1>3, StutterKeeps DEF Relist
<1>4. ASSUME NEW u \in Planned, MigrationRead(u) \/ MigrationWrite(u)
      PROVE  ChannelsInv'
  BY <1>4, MigrationKeeps
<1>5. CASE RegisterStart \/ RegisterPut \/ RegisterLock \/ LockExpires
  BY <1>5, StartKeeps
<1>6. CASE Redeploy
  BY <1>6, RedeployKeeps
<1>7. CASE UNCHANGED vars
  BY <1>7, StutterKeeps DEF vars, userVars
<1> QED
  BY <1>1, <1>2, <1>3, <1>4, <1>5, <1>6, <1>7 DEF Next

\* What rows, handlers, files and the lock know of each other holds in every state
\* of the server.
THEOREM Inductive == Spec => []ChannelsInv
  BY InitInv, StepInv, PTL DEF Spec

-----------------------------------------------------------------------------

\* All deliveries of a user run under one account, for any number of deliveries
\* that cross, users, rows written by hand and mappings under migration.
THEOREM OneAccount == Spec => []OneAccountPerUser
<1>1. ChannelsInv => OneAccountPerUser
  BY DEF ChannelsInv, RowsStand, OneAccountPerUser
<1> QED
  BY <1>1, Inductive, PTL

\* A skill is given documents that are stored and recorded for its user, however
\* many files a message has and whichever of them fail.
THEOREM OwnDocs == Spec => []DocsAreOwn
<1>1. ChannelsInv => DocsAreOwn
  BY DEF ChannelsInv
<1> QED
  BY <1>1, Inductive, PTL

\* The lock stands only over registered commands, however often a server is
\* replaced and wherever in its start.
THEOREM LockedIsRegistered == Spec => []LockMeansRegistered
<1>1. ChannelsInv => LockMeansRegistered
  BY DEF ChannelsInv, LockInv
<1> QED
  BY <1>1, Inductive, PTL

-----------------------------------------------------------------------------
(* What the chunk loops have sent, and what is left *)

\* What is left are the chunks from the one at m + 1, and what is sent are some of
\* those before, in their order.
Passed(sent, left, chunks, m, place) ==
  /\ m \in 0..Len(chunks) /\ Len(left) = Len(chunks) - m
  /\ \A n \in 1..Len(left) : left[n] = chunks[m + n]
  /\ place \in [1..Len(sent) -> 1..m]
  /\ \A n \in 1..Len(sent) :
       sent[n] = chunks[place[n]] /\ \A k \in 1..Len(sent) : k < n => place[k] < place[n]

Sending(h) ==
  /\ h.reply \in Seq(Chars) /\ h.sent \in Seq(Seq(Chars)) /\ h.left \in Seq(Seq(Chars))
  /\ h.msg.channel # "email" =>
       \E m, place : Passed(h.sent, h.left, Chunks(h.reply), m, place)

SendInv ==
  \A d \in Deliveries : IF delivery[d].pc = "send" THEN Sending(delivery[d])
                        ELSE delivery[d].sent = << >>

LEMMA ChunksType ==
  ASSUME NEW t \in Seq(Chars)
  PROVE  Chunks(t) \in Seq(Seq(Chars))
<1>1. Len(t) \in Nat /\ DOMAIN t = 1..Len(t)
  OBVIOUS
<1>2. PICK cuts : cuts = Cuts(t)
  OBVIOUS
<1>3. cuts \in Seq(Piece) /\ \A n \in 1..Len(cuts) : cuts[n].from >= 1 /\ cuts[n].to <= Len(t)
  <2>1. CASE \A i \in DOMAIN t : t[i] = Space
    BY <1>2, <2>1 DEF Cuts
  <2>2. CASE ~\A i \in DOMAIN t : t[i] = Space
    <3>1. 1 \in Positions(t) /\ cuts = CutsFrom(t)[1]
      BY <1>1, <1>2, <2>2 DEF Cuts, Positions
    <3>2. Good(t, 1, cuts)
      BY <3>1, LoopIsGood
    <3> QED
      BY <3>2 DEF Good, Piece
  <2> QED
    BY <2>1, <2>2
<1>4. Len(cuts) \in Nat /\ DOMAIN cuts = 1..Len(cuts)
  BY <1>3
<1>5. \A n \in 1..Len(cuts) : SubSeq(t, cuts[n].from, cuts[n].to) \in Seq(Chars)
  <2> SUFFICES ASSUME NEW n \in 1..Len(cuts) PROVE SubSeq(t, cuts[n].from, cuts[n].to) \in Seq(Chars)
    OBVIOUS
  <2>1. cuts[n] \in Piece
    BY <1>3
  <2>2. PICK a, b : a = cuts[n].from /\ b = cuts[n].to
    OBVIOUS
  <2>3. a \in Nat /\ b \in Nat /\ a >= 1 /\ b <= Len(t)
    BY <1>3, <2>1, <2>2 DEF Piece
  <2>4. SubSeq(t, a, b) \in Seq(Chars)
    BY <1>1, <2>3
  <2> QED
    BY <2>2, <2>4
<1>6. Chunks(t) = [n \in 1..Len(cuts) |-> SubSeq(t, cuts[n].from, cuts[n].to)]
  BY <1>2, <1>4 DEF Chunks
<1> QED
  BY <1>4, <1>5, <1>6

\* An answer begins with all chunks left, or with nothing to send.
LEMMA Begun ==
  ASSUME NEW chunks \in Seq(Seq(Chars)), NEW pieces \in {<< >>, chunks}
  PROVE  \E m, place : Passed(<< >>, pieces, chunks, m, place)
<1>1. Len(chunks) \in Nat /\ Len(<< >>) = 0
  OBVIOUS
<1>2. PICK m : m = Len(chunks) - Len(pieces)
  OBVIOUS
<1>3. [n \in 1..0 |-> 0] \in [1..0 -> 1..m]
  OBVIOUS
<1>4. m \in 0..Len(chunks) /\ Len(pieces) = Len(chunks) - m
  BY <1>1, <1>2
<1>5. \A n \in 1..Len(pieces) : pieces[n] = chunks[m + n]
  <2>1. CASE pieces = << >>
    BY <1>1, <2>1
  <2>2. CASE pieces = chunks
    BY <1>1, <1>2, <2>2
  <2> QED
    BY <2>1, <2>2
<1>6. Passed(<< >>, pieces, chunks, m, [n \in 1..0 |-> 0])
  BY <1>1, <1>3, <1>4, <1>5 DEF Passed
<1> QED
  BY <1>6

\* A chunk is sent, or fails, and the loop goes on.
LEMMA GoneOn ==
  ASSUME NEW sent \in Seq(Seq(Chars)), NEW left \in Seq(Seq(Chars)), left # << >>,
         NEW chunks \in Seq(Seq(Chars)), NEW m, NEW place, Passed(sent, left, chunks, m, place),
         NEW more \in {sent, Append(sent, Head(left))}
  PROVE  \E k, there : Passed(more, Tail(left), chunks, k, there)
<1>1. /\ Len(chunks) \in Nat /\ Len(sent) \in Nat /\ Len(left) \in Nat /\ Len(left) > 0
      /\ Len(Tail(left)) = Len(left) - 1
      /\ \A n \in 1..(Len(left) - 1) : Tail(left)[n] = left[n + 1]
      /\ Head(left) = left[1]
  OBVIOUS
<1>2. /\ m \in 0..Len(chunks) /\ Len(left) = Len(chunks) - m
      /\ \A n \in 1..Len(left) : left[n] = chunks[m + n]
      /\ place \in [1..Len(sent) -> 1..m]
      /\ \A n \in 1..Len(sent) :
           sent[n] = chunks[place[n]] /\ \A k \in 1..Len(sent) : k < n => place[k] < place[n]
  BY DEF Passed
<1>3. PICK rest : rest = Tail(left)
  OBVIOUS
<1>4. /\ m + 1 \in 0..Len(chunks) /\ Len(rest) = Len(chunks) - (m + 1)
      /\ \A n \in 1..Len(rest) : rest[n] = chunks[(m + 1) + n]
  <2>1. m + 1 \in 0..Len(chunks) /\ Len(rest) = Len(chunks) - (m + 1)
    BY <1>1, <1>2, <1>3
  <2>2. ASSUME NEW n \in 1..Len(rest) PROVE rest[n] = chunks[(m + 1) + n]
    <3>1. n + 1 \in 1..Len(left) /\ m + (n + 1) = (m + 1) + n /\ n \in 1..(Len(left) - 1)
      BY <1>1, <1>2, <1>3
    <3> QED
      BY <1>1, <1>2, <1>3, <3>1
  <2> QED
    BY <2>1, <2>2
<1>5. CASE more = sent
  <2>1. place \in [1..Len(sent) -> 1..(m + 1)]
    BY <1>1, <1>2
  <2>2. Passed(more, rest, chunks, m + 1, place)
    BY <1>2, <1>4, <1>5, <2>1 DEF Passed
  <2> QED
    BY <1>3, <2>2
<1>6. CASE more = Append(sent, Head(left))
  <2>0. PICK a : a = Len(sent)
    OBVIOUS
  <2> DEFINE there == [n \in 1..(a + 1) |-> IF n = a + 1 THEN m + 1 ELSE place[n]]
  <2>1. /\ Len(more) = a + 1 /\ more[a + 1] = left[1] /\ \A n \in 1..a : more[n] = sent[n]
        /\ a \in Nat /\ m \in Nat /\ m + 1 \in Nat
    BY <1>1, <1>2, <1>6, <2>0
  <2>2. place \in [1..a -> 1..m]
    BY <1>2, <2>0
  <2>3. \A n \in 1..(a + 1) : n = a + 1 \/ n \in 1..a
    BY <2>1
  <2>4. \A n \in 1..a : there[n] = place[n] /\ place[n] \in 1..m /\ there[n] \in 1..(m + 1)
    BY <2>1, <2>2
  <2>5. there[a + 1] = m + 1 /\ there[a + 1] \in 1..(m + 1)
    BY <2>1
  <2>6. there \in [1..(a + 1) -> 1..(m + 1)]
    <3>1. \A n \in 1..(a + 1) : there[n] \in 1..(m + 1)
      BY <2>3, <2>4, <2>5
    <3> QED
      BY <3>1
  <2> HIDE DEF there
  <2>7. ASSUME NEW n \in 1..(a + 1)
        PROVE  more[n] = chunks[there[n]] /\ \A k \in 1..(a + 1) : k < n => there[k] < there[n]
    <3>1. CASE n = a + 1
      <4>1. 1 \in 1..Len(left) /\ left[1] = chunks[m + 1]
        BY <1>1, <1>2
      <4>2. more[n] = chunks[there[n]]
        BY <2>1, <2>5, <3>1, <4>1
      <4>3. ASSUME NEW k \in 1..(a + 1), k < n PROVE there[k] < there[n]
        <5>1. k \in 1..a
          BY <2>1, <3>1, <4>3
        <5>2. there[k] \in 1..m /\ there[n] = m + 1
          BY <2>4, <2>5, <3>1, <5>1
        <5> QED
          BY <2>1, <5>2
      <4> QED
        BY <4>2, <4>3
    <3>2. CASE n \in 1..a
      <4>1. ASSUME NEW k \in 1..(a + 1), k < n PROVE there[k] < there[n]
        <5>1. k \in 1..a
          BY <2>1, <3>2, <4>1
        <5>2. place[k] < place[n]
          BY <1>2, <2>0, <3>2, <4>1, <5>1
        <5> QED
          BY <2>4, <3>2, <5>1, <5>2
      <4>2. sent[n] = chunks[place[n]]
        BY <1>2, <2>0, <3>2
      <4> QED
        BY <2>1, <2>4, <3>2, <4>1, <4>2
    <3> QED
      BY <2>3, <3>1, <3>2
  <2>8. Passed(more, rest, chunks, m + 1, there)
    BY <1>4, <2>1, <2>6, <2>7 DEF Passed
  <2> QED
    BY <1>3, <2>8
<1> QED
  BY <1>5, <1>6

\* Chunks passed over in their order are in order with those left.
LEMMA PassedInOrder ==
  ASSUME NEW sent \in Seq(Seq(Chars)), NEW left \in Seq(Seq(Chars)),
         NEW chunks \in Seq(Seq(Chars)), NEW m, NEW place, Passed(sent, left, chunks, m, place)
  PROVE  InOrder(sent \o left, chunks)
<1>1. PICK all, a, b : all = sent \o left /\ a = Len(sent) /\ b = Len(left)
  OBVIOUS
<1>2. /\ a \in Nat /\ b \in Nat /\ Len(all) = a + b /\ DOMAIN all = 1..(a + b)
      /\ \A n \in 1..a : all[n] = sent[n]
      /\ \A n \in (a + 1)..(a + b) : all[n] = left[n - a]
      /\ Len(chunks) \in Nat /\ DOMAIN chunks = 1..Len(chunks)
  BY <1>1
<1>3. /\ m \in 0..Len(chunks) /\ b = Len(chunks) - m
      /\ \A n \in 1..b : left[n] = chunks[m + n]
      /\ place \in [1..a -> 1..m]
      /\ \A n \in 1..a :
           sent[n] = chunks[place[n]] /\ \A k \in 1..a : k < n => place[k] < place[n]
  BY <1>1 DEF Passed
<1> DEFINE there == [n \in 1..(a + b) |-> IF n <= a THEN place[n] ELSE m + (n - a)]
<1>4. \A n \in 1..a : there[n] = place[n] /\ place[n] \in 1..m
  BY <1>2, <1>3
<1>5. \A n \in (a + 1)..(a + b) : there[n] = m + (n - a) /\ n - a \in 1..b
  BY <1>2, <1>3
<1>6. there \in [1..(a + b) -> 1..Len(chunks)]
  <2>1. ASSUME NEW n \in 1..(a + b) PROVE there[n] \in 1..Len(chunks)
    <3>1. CASE n \in 1..a
      BY <1>2, <1>3, <1>4, <3>1
    <3>2. CASE n \in (a + 1)..(a + b)
      BY <1>2, <1>3, <1>5, <3>2
    <3> QED
      BY <1>2, <3>1, <3>2
  <2> QED
    BY <2>1
<1> HIDE DEF there
<1>7. ASSUME NEW n \in 1..(a + b)
      PROVE  all[n] = chunks[there[n]] /\ \A k \in 1..(a + b) : k < n => there[k] < there[n]
  <2>1. CASE n <= a
    <3>1. n \in 1..a
      BY <1>2, <2>1
    <3>2. ASSUME NEW k \in 1..(a + b), k < n PROVE there[k] < there[n]
      <4>1. k \in 1..a
        BY <1>2, <3>1, <3>2
      <4> QED
        BY <1>3, <1>4, <3>1, <3>2, <4>1
    <3> QED
      BY <1>2, <1>3, <1>4, <3>1, <3>2
  <2>2. CASE ~(n <= a)
    <3>1. n \in (a + 1)..(a + b)
      BY <1>2, <2>2
    <3>2. all[n] = chunks[there[n]]
      BY <1>2, <1>3, <1>5, <3>1
    <3>3. ASSUME NEW k \in 1..(a + b), k < n PROVE there[k] < there[n]
      <4>1. CASE k \in 1..a
        <5>1. there[k] \in 1..m /\ there[n] = m + (n - a) /\ n - a \in 1..b
          BY <1>4, <1>5, <3>1, <4>1
        <5> QED
          BY <1>2, <1>3, <5>1
      <4>2. CASE k \in (a + 1)..(a + b)
        BY <1>2, <1>3, <1>5, <3>1, <3>3, <4>2
      <4> QED
        BY <1>2, <4>1, <4>2
    <3> QED
      BY <3>2, <3>3
  <2> QED
    BY <2>1, <2>2
<1> QED
  BY <1>1, <1>2, <1>6, <1>7 DEF InOrder

LEMMA InitSend == Init => SendInv
<1> SUFFICES ASSUME Init PROVE SendInv
  OBVIOUS
<1>1. \A d \in Deliveries : delivery[d] = Idle
  BY DEF Init
<1>2. Idle.pc = "idle" /\ Idle.sent = << >>
  BY DEF Idle
<1> QED
  BY <1>1, <1>2 DEF SendInv

\* One delivery goes on, and the others stand.
LEMMA SendStep ==
  ASSUME ChannelsInv, SendInv, NEW d \in Deliveries, NEW h,
         delivery' = [delivery EXCEPT ![d] = h],
         IF h.pc = "send" THEN Sending(h) ELSE h.sent = << >>
  PROVE  SendInv'
<1>1. delivery'[d] = h /\ \A e \in Deliveries : e # d => delivery'[e] = delivery[e]
  BY DEF ChannelsInv, Handlers
<1> QED
  BY <1>1 DEF SendInv, Sending

LEMMA ReturnSend ==
  ASSUME ChannelsInv, SendInv, NEW d \in Deliveries, NEW how \in Ended, Return(d, how)
  PROVE  SendInv'
<1> DEFINE h == Returned(delivery[d], how)
<1>1. h.pc = how /\ h.sent = << >> /\ how # "send"
  BY DEF Returned, Idle, Ended
<1>2. delivery' = [delivery EXCEPT ![d] = h]
  BY DEF Return, Put
<1> HIDE DEF h
<1> QED
  BY <1>1, <1>2, SendStep

LEMMA PiecesAre ==
  ASSUME NEW m \in Messages, NEW text \in Seq(Chars), NEW pieces \in Outgoing(m, text)
  PROVE  /\ pieces \in Seq(Seq(Chars))
         /\ m.channel # "email" => pieces \in {<< >>, Chunks(text)}
<1>1. m.channel \in ChannelNames
  BY ChannelsAssumption DEF ChannelsAssumption, Message
<1>2. Chunks(text) \in Seq(Seq(Chars)) /\ <<text>> \in Seq(Seq(Chars)) /\ << >> \in Seq(Seq(Chars))
  BY ChunksType
<1>3. CASE m.channel = "email"
  <2>1. pieces \in {<< >>, <<text>>}
    BY <1>3 DEF Outgoing, EmailPieces
  <2> QED
    BY <1>2, <1>3, <2>1
<1>4. CASE m.channel # "email"
  <2>1. pieces \in {<< >>, Chunks(text)}
    BY <1>1, <1>4 DEF ChannelNames, Outgoing, TelegramPieces, WhatsAppPieces, DiscordPieces
  <2> QED
    BY <1>2, <2>1
<1> QED
  BY <1>3, <1>4

LEMMA AnswerSend ==
  ASSUME ChannelsInv, SendInv, NEW d \in Deliveries, NEW text \in Seq(Chars), Answer(d, text),
         delivery[d].pc \in {"route", "run"}
  PROVE  SendInv'
<1>1. delivery[d].msg \in Messages /\ delivery[d].sent = << >> /\ DOMAIN delivery[d] = Fields
  BY DEF ChannelsInv, Handlers, SendInv
<1>2. PICK pieces \in Outgoing(delivery[d].msg, text) :
        Put(d, [delivery[d] EXCEPT !.pc = "send", !.reply = text, !.left = pieces])
  BY DEF Answer
<1> DEFINE h == [delivery[d] EXCEPT !.pc = "send", !.reply = text, !.left = pieces]
<1>3. /\ h.pc = "send" /\ h.reply = text /\ h.left = pieces /\ h.sent = << >>
      /\ h.msg = delivery[d].msg
  BY <1>1 DEF Fields
<1>4. delivery' = [delivery EXCEPT ![d] = h]
  BY <1>2 DEF Put
<1> HIDE DEF h
<1>5. /\ pieces \in Seq(Seq(Chars))
      /\ h.msg.channel # "email" => pieces \in {<< >>, Chunks(text)}
  BY <1>1, <1>2, <1>3, PiecesAre
<1>6. h.msg.channel # "email" =>
        \E m, place : Passed(h.sent, h.left, Chunks(h.reply), m, place)
  <2> SUFFICES ASSUME h.msg.channel # "email"
               PROVE  \E m, place : Passed(<< >>, pieces, Chunks(text), m, place)
    BY <1>3
  <2> QED
    BY <1>5, ChunksType, Begun
<1>7. Sending(h)
  BY <1>3, <1>5, <1>6 DEF Sending
<1> QED
  BY <1>3, <1>4, <1>7, SendStep

LEMMA HeadMoved ==
  ASSUME NEW S, NEW sent \in Seq(S), NEW left \in Seq(S), left # << >>
  PROVE  Tail(left) \in Seq(S) /\ Append(sent, Head(left)) \in Seq(S)
<1>1. Len(left) \in Nat /\ Len(left) > 0 /\ Head(left) = left[1] /\ left[1] \in S
  OBVIOUS
<1> QED
  BY <1>1

LEMMA SendChunkSend ==
  ASSUME ChannelsInv, SendInv, NEW d \in Deliveries, SendChunk(d)
  PROVE  SendInv'
<1> DEFINE o == delivery[d]
<1>1. o.pc = "send" /\ o.left # << >> /\ Sending(o) /\ DOMAIN o = Fields
  BY DEF SendChunk, ChannelsInv, Handlers, SendInv
<1>2. CASE Return(d, "failed")
  BY <1>2, ReturnSend DEF Ended
<1>3. CASE \/ Put(d, [o EXCEPT !.left = Tail(@), !.sent = Append(@, Head(o.left))])
           \/ Put(d, [o EXCEPT !.left = Tail(@)])
  <2>1. PICK left, more : left = Tail(o.left) /\ more \in {o.sent, Append(o.sent, Head(o.left))}
          /\ (\/ Put(d, [o EXCEPT !.left = left, !.sent = more])
              \/ Put(d, [o EXCEPT !.left = left]) /\ more = o.sent)
    BY <1>3
  <2> DEFINE h == IF Put(d, [o EXCEPT !.left = left, !.sent = more])
                  THEN [o EXCEPT !.left = left, !.sent = more] ELSE [o EXCEPT !.left = left]
  <2>2. /\ h.pc = "send" /\ h.reply = o.reply /\ h.left = left /\ h.sent = more /\ h.msg = o.msg
    BY <1>1, <2>1 DEF Fields
  <2>3. delivery' = [delivery EXCEPT ![d] = h]
    BY <2>1 DEF Put
  <2> HIDE DEF h, o
  <2>4. /\ o.reply \in Seq(Chars) /\ o.sent \in Seq(Seq(Chars)) /\ o.left \in Seq(Seq(Chars))
        /\ o.msg.channel # "email" =>
             \E m, place : Passed(o.sent, o.left, Chunks(o.reply), m, place)
    BY <1>1 DEF Sending
  <2>5. left \in Seq(Seq(Chars)) /\ more \in Seq(Seq(Chars))
    BY <1>1, <2>1, <2>4, HeadMoved
  <2>6. ASSUME o.msg.channel # "email"
        PROVE  \E m, place : Passed(more, left, Chunks(o.reply), m, place)
    <3>1. PICK m, place : Passed(o.sent, o.left, Chunks(o.reply), m, place)
      BY <2>4, <2>6
    <3> QED
      BY <1>1, <2>1, <2>4, <3>1, ChunksType, GoneOn
  <2>7. Sending(h)
    BY <2>2, <2>4, <2>5, <2>6 DEF Sending
  <2> QED
    BY <2>2, <2>3, <2>7, SendStep
<1> QED
  BY <1>2, <1>3 DEF SendChunk

\* Before an answer nothing is sent.
LEMMA QuietSend ==
  ASSUME ChannelsInv, SendInv, NEW d \in Deliveries,
         \/ Resolve(d) \/ Admit(d) \/ Upload(d) \/ SelectSkill(d)
         \/ \E m \in Messages : Arrive(d, m)
  PROVE  SendInv'
<1>1. DOMAIN delivery[d] = Fields
  BY DEF ChannelsInv, Handlers
<1>2. CASE \E m \in Messages : Arrive(d, m)
  <2>1. PICK m \in Messages : Arrive(d, m)
    BY <1>2
  <2> DEFINE first == [Idle EXCEPT !.msg = m]
             next == [first EXCEPT !.pc = "resolve"]
  <2>2. PICK h \in {Returned(first, "unauthorized"), Returned(first, "skipped"), next} :
          delivery' = [delivery EXCEPT ![d] = h]
    BY <2>1 DEF Arrive, Put
  <2>3. h.pc # "send" /\ h.sent = << >>
    BY <2>2 DEF Returned, Idle
  <2> QED
    BY <2>2, <2>3, SendStep
<1>3. CASE Return(d, "rejected")
  BY <1>3, ReturnSend DEF Ended
<1>4. ASSUME NEW h, Put(d, h), h.pc # "send", h.sent = delivery[d].sent,
             delivery[d].pc # "send"
      PROVE  SendInv'
  <2>1. h.sent = << >> /\ delivery' = [delivery EXCEPT ![d] = h]
    BY <1>4 DEF SendInv, Put
  <2> QED
    BY <1>4, <2>1, SendStep
<1>5. CASE Resolve(d)
  <2> DEFINE admit == [delivery[d] EXCEPT !.pc = "admit"]
             route == [delivery[d] EXCEPT !.pc = "route", !.uid = identity[delivery[d].msg.user]]
  <2>1. PICK h \in {admit, route} : Put(d, h)
    BY <1>5 DEF Resolve
  <2>2. h.pc # "send" /\ h.sent = delivery[d].sent
    BY <1>1, <2>1 DEF Fields
  <2>3. delivery[d].pc # "send"
    BY <1>5 DEF Resolve
  <2> QED
    BY <1>4, <2>1, <2>2, <2>3
<1>6. CASE Admit(d) /\ ~Return(d, "rejected")
  <2> DEFINE h == [delivery[d] EXCEPT !.pc = "route", !.uid = Derived(delivery[d].msg.user)]
  <2>1. Put(d, h) /\ delivery[d].pc # "send"
    BY <1>6 DEF Admit
  <2>2. h.pc # "send" /\ h.sent = delivery[d].sent
    BY <1>1 DEF Fields
  <2> HIDE DEF h
  <2> QED
    BY <1>4, <2>1, <2>2
<1>7. CASE Upload(d)
  <2>1. PICK files, docs : Put(d, [delivery[d] EXCEPT !.files = files, !.docs = docs])
    <3>1. PICK fate \in FileFate(Head(delivery[d].files)) :
            Put(d, [delivery[d] EXCEPT !.files = Tail(@),
                      !.docs = IF fate = "registered"
                               THEN @ \cup {<<d, Len(delivery[d].files)>>} ELSE @])
      BY <1>7 DEF Upload
    <3> QED
      BY <3>1
  <2> DEFINE h == [delivery[d] EXCEPT !.files = files, !.docs = docs]
  <2>2. h.pc = delivery[d].pc /\ h.sent = delivery[d].sent /\ delivery[d].pc # "send"
    BY <1>1, <1>7 DEF Fields, Upload
  <2> HIDE DEF h
  <2> QED
    BY <1>4, <2>1, <2>2 DEF h
<1>8. CASE SelectSkill(d)
  <2>1. PICK skill : Put(d, [delivery[d] EXCEPT !.pc = "run", !.skill = skill])
    BY <1>8 DEF SelectSkill
  <2> DEFINE h == [delivery[d] EXCEPT !.pc = "run", !.skill = skill]
  <2>2. h.pc # "send" /\ h.sent = delivery[d].sent /\ delivery[d].pc # "send"
    BY <1>1, <1>8 DEF Fields, SelectSkill
  <2> HIDE DEF h
  <2> QED
    BY <1>4, <2>1, <2>2 DEF h
<1> QED
  BY <1>2, <1>3, <1>5, <1>6, <1>7, <1>8

LEMMA NextSend == ChannelsInv /\ SendInv /\ [Next]_vars => SendInv'
<1> SUFFICES ASSUME ChannelsInv, SendInv, [Next]_vars PROVE SendInv'
  OBVIOUS
<1>0. <<"x">> \in Seq(Chars)
  BY DEF Chars
<1>1. ASSUME NEW d \in Deliveries, Handle(d) PROVE SendInv'
  <2>1. CASE Resolve(d) \/ Admit(d) \/ Upload(d) \/ SelectSkill(d)
    BY <2>1, QuietSend
  <2>2. CASE Route(d)
    <3>1. CASE ExecuteCommand(d)
      BY <1>0, <2>2, <3>1, AnswerSend DEF ExecuteCommand, Route
    <3>2. CASE Put(d, [delivery[d] EXCEPT !.pc = "upload", !.files = FilesOf(delivery[d].msg)])
      <4> DEFINE h == [delivery[d] EXCEPT !.pc = "upload", !.files = FilesOf(delivery[d].msg)]
      <4>1. DOMAIN delivery[d] = Fields /\ delivery[d].sent = << >>
        BY <2>2 DEF ChannelsInv, Handlers, SendInv, Route
      <4>2. h.pc = "upload" /\ h.sent = << >> /\ delivery' = [delivery EXCEPT ![d] = h]
        BY <3>2, <4>1 DEF Fields, Put
      <4> HIDE DEF h
      <4> QED
        BY <4>2, SendStep
    <3> QED
      BY <2>2, <3>1, <3>2 DEF Route
  <2>3. CASE InvokeSkill(d)
    <3>1. CASE Return(d, "failed")
      BY <3>1, ReturnSend DEF Ended
    <3>2. CASE \E text \in Collected(delivery[d].skill) : Answer(d, text)
      <4>1. PICK text \in Collected(delivery[d].skill) : Answer(d, text)
        BY <3>2
      <4>2. text \in Seq(Chars)
        BY <1>0, <4>1, ChannelsAssumption DEF Collected, ChannelsAssumption
      <4>3. delivery[d].pc = "run"
        BY <2>3 DEF InvokeSkill
      <4> QED
        BY <4>1, <4>2, <4>3, AnswerSend
    <3> QED
      BY <2>3, <3>1, <3>2 DEF InvokeSkill
  <2>4. CASE SendChunk(d)
    BY <2>4, SendChunkSend
  <2>5. CASE Acknowledge(d)
    BY <2>5, ReturnSend DEF Acknowledge, Ended
  <2> QED
    BY <1>1, <2>1, <2>2, <2>3, <2>4, <2>5 DEF Handle
<1>2. ASSUME NEW d \in Deliveries, NEW m \in Messages, Arrive(d, m) PROVE SendInv'
  BY <1>2, QuietSend
<1>3. CASE Redeploy
  <2>1. ASSUME NEW d \in Deliveries
        PROVE  delivery'[d] \in {delivery[d], Returned(delivery[d], "lost")}
    BY <1>3 DEF Redeploy
  <2>2. ASSUME NEW d \in Deliveries
        PROVE  IF delivery'[d].pc = "send" THEN Sending(delivery'[d]) ELSE delivery'[d].sent = << >>
    <3>1. Returned(delivery[d], "lost").pc = "lost" /\ Returned(delivery[d], "lost").sent = << >>
      BY DEF Returned, Idle
    <3> QED
      BY <2>1, <3>1 DEF SendInv
  <2> QED
    BY <2>2 DEF SendInv, Sending
<1>4. CASE UNCHANGED delivery
  BY <1>4 DEF SendInv, Sending
<1>5. CASE \/ \E users \in SUBSET DiscordUsers : Relist(users)
           \/ \E u \in Planned : MigrationRead(u) \/ MigrationWrite(u)
           \/ RegisterStart \/ RegisterPut \/ RegisterLock \/ LockExpires \/ UNCHANGED vars
  BY <1>4, <1>5 DEF Relist, MigrationRead, MigrationWrite, RegisterStart, RegisterPut,
                    RegisterLock, LockExpires, vars
<1> QED
  BY <1>1, <1>2, <1>3, <1>5 DEF Next

\* What a channel sends of a reply, and what is left to send, are chunks of that
\* reply in its order, and the chunks are the reply but for spaces: whichever
\* sends fail, for any number of deliveries and any replies.
THEOREM RepliesAreFaithful == Spec => []ReplyFaithful
<1>1. Init => SendInv
  BY InitSend
<1>2. ChannelsInv /\ SendInv /\ [Next]_vars => SendInv'
  BY NextSend
<1>3. SendInv => ReplyFaithful
  <2> SUFFICES ASSUME SendInv, NEW d \in Deliveries,
                      delivery[d].pc = "send", delivery[d].msg.channel # "email"
               PROVE  /\ InOrder(delivery[d].sent \o delivery[d].left, Chunks(delivery[d].reply))
                      /\ FaithfulCuts(delivery[d].reply)
    BY DEF ReplyFaithful
  <2> DEFINE h == delivery[d]
  <2>1. Sending(h)
    BY DEF SendInv
  <2> HIDE DEF h
  <2>2. /\ h.reply \in Seq(Chars) /\ h.sent \in Seq(Seq(Chars)) /\ h.left \in Seq(Seq(Chars))
        /\ \E m, place : Passed(h.sent, h.left, Chunks(h.reply), m, place)
    BY <2>1 DEF Sending, h
  <2>3. InOrder(h.sent \o h.left, Chunks(h.reply))
    BY <2>2, ChunksType, PassedInOrder
  <2>4. FaithfulCuts(h.reply)
    BY <2>2, ChunksAreFaithful
  <2> QED
    BY <2>3, <2>4 DEF h
<1> QED
  BY <1>1, <1>2, <1>3, Inductive, PTL DEF Spec

-----------------------------------------------------------------------------
(* What is kept of a sequence *)

KeptAt(s, S, f, n) ==
  IF n = 0 THEN << >> ELSE IF s[n] \in S THEN Append(f[n - 1], s[n]) ELSE f[n - 1]

KeptTo(s, S, m) == \E f : f = [n \in 0..m |-> KeptAt(s, S, f, n)]

LEMMA KeptMore ==
  ASSUME NEW s, NEW S, NEW m \in Nat, KeptTo(s, S, m)
  PROVE  KeptTo(s, S, m + 1)
<1>1. PICK g : g = [n \in 0..m |-> KeptAt(s, S, g, n)]
  BY DEF KeptTo
<1>2. PICK f : f = [n \in 0..(m + 1) |-> IF n = m + 1 THEN KeptAt(s, S, g, n) ELSE g[n]]
  OBVIOUS
<1>3. \A n \in 0..(m + 1) : n = m + 1 \/ n \in 0..m
  OBVIOUS
<1>4. \A n \in 0..m : n \in 0..(m + 1) /\ n # m + 1 /\ f[n] = g[n]
  BY <1>2
<1>5. ASSUME NEW n \in 0..(m + 1) PROVE KeptAt(s, S, f, n) = KeptAt(s, S, g, n)
  <2>1. CASE n = 0
    BY <2>1 DEF KeptAt
  <2>2. CASE n # 0
    <3>1. n - 1 \in 0..m
      BY <2>2
    <3> QED
      BY <1>4, <3>1 DEF KeptAt
  <2> QED
    BY <2>1, <2>2
<1>6. ASSUME NEW n \in 0..(m + 1) PROVE f[n] = KeptAt(s, S, f, n)
  <2>1. CASE n = m + 1
    BY <1>2, <1>5, <2>1
  <2>2. CASE n \in 0..m
    BY <1>1, <1>4, <1>5, <2>2
  <2> QED
    BY <1>3, <2>1, <2>2
<1>7. f = [n \in 0..(m + 1) |-> KeptAt(s, S, f, n)]
  <2>1. f = [n \in 0..(m + 1) |-> f[n]]
    BY <1>2
  <2> QED
    BY <1>6, <2>1
<1> QED
  BY <1>7 DEF KeptTo

LEMMA KeptAll ==
  ASSUME NEW s, NEW S, NEW m \in Nat
  PROVE  KeptTo(s, S, m)
<1> DEFINE Bad == {n \in Nat : ~KeptTo(s, S, n)}
<1> SUFFICES ASSUME Bad # {} PROVE FALSE
  OBVIOUS
<1>1. PICK n \in Bad : \A k \in Bad : n <= k
  BY Least
<1>2. n # 0
  <2>1. PICK f : f = [k \in 0..0 |-> << >>]
    OBVIOUS
  <2>2. f = [k \in 0..0 |-> KeptAt(s, S, f, k)]
    BY <2>1 DEF KeptAt
  <2> QED
    BY <1>1, <2>2 DEF KeptTo
<1>3. n - 1 \in Nat /\ n - 1 \notin Bad /\ (n - 1) + 1 = n
  BY <1>1, <1>2
<1> QED
  BY <1>1, <1>3, KeptMore

\* What is kept of a sequence is one of its kind.
LEMMA OnlyType ==
  ASSUME NEW T, NEW s \in Seq(T), NEW S
  PROVE  Only(s, S) \in Seq(T)
<1>0. PICK a : a = Len(s)
  OBVIOUS
<1>1. a \in Nat /\ \A n \in 1..a : s[n] \in T
  BY <1>0
<1>2. PICK kept : kept = CHOOSE f : f = [n \in 0..a |-> KeptAt(s, S, f, n)]
  OBVIOUS
<1>3. kept = [n \in 0..a |-> KeptAt(s, S, kept, n)]
  BY <1>1, <1>2, KeptAll DEF KeptTo
<1>4. Only(s, S) = kept[a]
  BY <1>0, <1>2 DEF Only, KeptAt
<1>5. ASSUME NEW n \in 0..a, n # 0, kept[n - 1] \in Seq(T)
      PROVE  kept[n] \in Seq(T)
  <2>1. n \in 1..a /\ n - 1 \in 0..a
    BY <1>1, <1>5
  <2>2. s[n] \in T /\ kept[n] = KeptAt(s, S, kept, n)
    BY <1>1, <1>3, <2>1
  <2>3. Append(kept[n - 1], s[n]) \in Seq(T)
    BY <1>5, <2>2
  <2> QED
    BY <1>5, <2>2, <2>3 DEF KeptAt
<1>6. kept[0] \in Seq(T)
  <2>1. kept[0] = << >>
    BY <1>1, <1>3 DEF KeptAt
  <2> QED
    BY <2>1
<1>7. PICK Bad : Bad = {n \in 0..a : kept[n] \notin Seq(T)}
  OBVIOUS
<1>8. Bad = {}
  <2> SUFFICES ASSUME Bad # {} PROVE FALSE
    OBVIOUS
  <2>1. Bad \subseteq Nat
    BY <1>1, <1>7
  <2>2. PICK n \in Bad : \A k \in Bad : n <= k
    BY <2>1, Least
  <2>3. n \in 0..a /\ n # 0 /\ n - 1 \in 0..a /\ n - 1 \notin Bad
    BY <1>1, <1>6, <1>7, <2>2
  <2>4. kept[n - 1] \in Seq(T)
    BY <1>7, <2>3
  <2> QED
    BY <1>5, <1>7, <2>2, <2>3, <2>4
<1> QED
  BY <1>1, <1>4, <1>7, <1>8
-----------------------------------------------------------------------------
(* Types *)

Served == {"route", "upload", "run", "send"}

\* Who is served has an account.
Typed == /\ delivery \in [Deliveries -> Handler]
         /\ \A d \in Deliveries : delivery[d].pc \in Served => delivery[d].uid # None

TypeInv == TypeOK /\ Typed

LEMMA IdleType == Idle \in Handler
<1>1. << >> \in Seq(Files) /\ << >> \in Seq(Chars) /\ << >> \in Seq(Seq(Chars))
  OBVIOUS
<1> QED
  BY <1>1 DEF Idle, Handler, Pcs

LEMMA ReturnedType ==
  ASSUME NEW h \in Handler, NEW how \in Pcs
  PROVE  Returned(h, how) \in Handler
<1>1. h.msg \in Messages \cup {None} /\ h.uid \in Accounts \cup {None}
  BY DEF Handler
<1> QED
  BY <1>1, IdleType DEF Returned, Handler

LEMMA FilesType ==
  ASSUME NEW m \in Messages
  PROVE  FilesOf(m) \in Seq(Files)
<1>1. m.files \in Seq(Files) /\ m.channel \in ChannelNames
  BY ChannelsAssumption DEF ChannelsAssumption, Message
<1>2. Named(m.files) \in Seq(Files)
  BY <1>1, OnlyType DEF Named
<1>3. << >> \in Seq(Files)
  OBVIOUS
<1> QED
  BY <1>1, <1>2, <1>3 DEF FilesOf, TelegramFiles, WhatsAppFiles, EmailFiles, ChannelNames

LEMMA ResolvedType ==
  ASSUME NEW name
  PROVE  Resolved(name) \in Catalog \cup {None}
  BY DEF Resolved

LEMMA PutTyped ==
  ASSUME Typed, NEW d \in Deliveries, NEW h \in Handler, Put(d, h),
         h.pc \in Served => h.uid # None
  PROVE  Typed'
  BY DEF Typed, Put

LEMMA ReturnTyped ==
  ASSUME Typed, NEW d \in Deliveries, NEW how \in Ended, Return(d, how)
  PROVE  Typed'
<1>1. PICK h : h = Returned(delivery[d], how)
  OBVIOUS
<1>2. h \in Handler /\ h.pc = how
  <2>1. how \in Pcs /\ delivery[d] \in Handler
    BY DEF Typed, Ended, Pcs
  <2> QED
    BY <1>1, <2>1, ReturnedType, ReturnedFields
<1> QED
  BY <1>1, <1>2, PutTyped DEF Return, Ended, Served

LEMMA AnswerTyped ==
  ASSUME ChannelsInv, Typed, NEW d \in Deliveries, delivery[d].pc \in Served, NEW text \in Seq(Chars),
         Answer(d, text)
  PROVE  Typed'
<1>1. PICK pieces \in Outgoing(delivery[d].msg, text) :
        Put(d, [delivery[d] EXCEPT !.pc = "send", !.reply = text, !.left = pieces])
  BY DEF Answer
<1>2. delivery[d] \in Handler /\ delivery[d].uid # None
  BY DEF Typed
<1>3. pieces \in Seq(Seq(Chars))
  <2>1. Chunks(text) \in Seq(Seq(Chars)) /\ << >> \in Seq(Seq(Chars)) /\ <<text>> \in Seq(Seq(Chars))
    BY ChunksType
  <2>2. delivery[d].msg.channel \in ChannelNames
    BY ChannelsAssumption DEF ChannelsInv, Handlers, Served, ChannelsAssumption, Message
  <2> QED
    BY <2>1, <2>2 DEF Outgoing, TelegramPieces, WhatsAppPieces, EmailPieces, DiscordPieces, ChannelNames
<1>4. PICK h : h = [delivery[d] EXCEPT !.pc = "send", !.reply = text, !.left = pieces]
  OBVIOUS
<1>5. h \in Handler /\ h.uid = delivery[d].uid
  BY <1>2, <1>3, <1>4 DEF Handler, Pcs
<1> QED
  BY <1>1, <1>2, <1>4, <1>5, PutTyped

\* A delivery's step that touches nothing else.
LEMMA AloneTyped ==
  ASSUME TypeOK, Typed', UNCHANGED <<userVars, fileVars, migration, startVars>>
  PROVE  TypeInv'
  BY DEF TypeOK, Typed, TypeInv, userVars, fileVars, startVars

LEMMA ArriveTyped ==
  ASSUME TypeInv, NEW d \in Deliveries, NEW m \in Messages, Arrive(d, m)
  PROVE  TypeInv'
<1>1. PICK h : h = [Idle EXCEPT !.msg = m]
  OBVIOUS
<1>2. h \in Handler
  BY <1>1, IdleType DEF Handler
<1>3. PICK g \in {Returned(h, "unauthorized"), Returned(h, "skipped"), [h EXCEPT !.pc = "resolve"]} :
        Put(d, g)
  BY <1>1 DEF Arrive
<1>4. [h EXCEPT !.pc = "resolve"] \in Handler /\ [h EXCEPT !.pc = "resolve"].pc = "resolve"
  BY <1>2 DEF Handler, Pcs
<1>5. g \in Handler /\ g.pc \notin Served
  <2>1. \A how \in {"unauthorized", "skipped"} :
          Returned(h, how) \in Handler /\ Returned(h, how).pc = how
    BY <1>2, ReturnedType, ReturnedFields DEF Pcs
  <2> QED
    BY <1>3, <1>4, <2>1 DEF Served
<1>6. Typed'
  BY <1>3, <1>5, PutTyped DEF TypeInv
<1> QED
  BY <1>6, AloneTyped DEF Arrive, TypeInv

LEMMA ResolveTyped ==
  ASSUME ChannelsInv, TypeInv, NEW d \in Deliveries, Resolve(d)
  PROVE  TypeInv'
<1>1. PICK row : row = identity[delivery[d].msg.user]
  OBVIOUS
<1>2. delivery[d] \in Handler /\ delivery[d].msg.user \in Users
  BY MessageUser DEF TypeInv, Typed, ChannelsInv, Handlers, Resolve
<1>3. row \in Accounts \cup {Blank, None}
  BY <1>1, <1>2 DEF TypeInv, TypeOK
<1>4. PICK h : /\ Put(d, h)
               /\ h = IF row \in {None, Blank} THEN [delivery[d] EXCEPT !.pc = "admit"]
                      ELSE [delivery[d] EXCEPT !.pc = "route", !.uid = row]
  BY <1>1 DEF Resolve
<1>5. h \in Handler /\ (h.pc \in Served => h.uid # None)
  <2>1. CASE row \in {None, Blank}
    BY <1>2, <1>4, <2>1 DEF Handler, Pcs, Served
  <2>2. CASE row \notin {None, Blank}
    BY <1>2, <1>3, <1>4, <2>2 DEF Handler, Pcs
  <2> QED
    BY <2>1, <2>2
<1>6. Typed'
  BY <1>4, <1>5, PutTyped DEF TypeInv
<1> QED
  BY <1>6, AloneTyped DEF Resolve, TypeInv

LEMMA AdmitTyped ==
  ASSUME ChannelsInv, TypeInv, NEW d \in Deliveries, Admit(d)
  PROVE  TypeInv'
<1>1. PICK user : user = delivery[d].msg.user
  OBVIOUS
<1>2. delivery[d] \in Handler /\ user \in Users /\ Derived(user) \in Accounts
  BY <1>1, MessageUser, DerivedAccount DEF TypeInv, Typed, ChannelsInv, Handlers, Admit
<1>3. Typed' /\ identity' \in [Users -> Accounts \cup {Blank, None}]
  <2>1. CASE Admits(delivery[d].msg) /\ AutoCreated(user)
             /\ Put(d, [delivery[d] EXCEPT !.pc = "route", !.uid = Derived(user)])
    <3>1. PICK h : h = [delivery[d] EXCEPT !.pc = "route", !.uid = Derived(user)]
      OBVIOUS
    <3>2. h \in Handler /\ h.uid # None
      BY <1>2, <3>1, NoneAssumption DEF Handler, Pcs
    <3>3. identity' \in [Users -> Accounts \cup {Blank, None}]
      BY <1>2, <2>1 DEF AutoCreated, TypeInv, TypeOK
    <3> QED
      BY <2>1, <3>1, <3>2, <3>3, PutTyped DEF TypeInv
  <2>2. CASE Return(d, "rejected") /\ UNCHANGED identity
    BY <2>2, ReturnTyped DEF TypeInv, TypeOK, Ended
  <2> QED
    BY <1>1, <2>1, <2>2 DEF Admit
<1> QED
  BY <1>3 DEF Admit, TypeInv, TypeOK, Typed, fileVars, startVars

LEMMA RouteTyped ==
  ASSUME ChannelsInv, TypeInv, NEW d \in Deliveries, Route(d)
  PROVE  TypeInv'
<1>1. /\ delivery[d] \in Handler /\ delivery[d].pc = "route" /\ delivery[d].uid \in Accounts
      /\ delivery[d].msg \in Messages
  BY DEF TypeInv, Typed, ChannelsInv, Handlers, Route, Handler, Served
<1>2. Typed' /\ settings' \in [Accounts -> Catalog \cup {None}]
  <2>1. CASE ExecuteCommand(d)
    <3>1. settings' \in [Accounts -> Catalog \cup {None}]
      <4>1. PICK s : s = Resolved(delivery[d].msg.text.name)
        OBVIOUS
      <4>2. /\ s \in Catalog \cup {None}
            /\ settings' \in {settings, [settings EXCEPT ![delivery[d].uid] = s]}
        BY <2>1, <4>1, ResolvedType DEF ExecuteCommand
      <4> QED
        BY <1>1, <4>2 DEF TypeInv, TypeOK
    <3>2. <<"x">> \in Seq(Chars)
      BY DEF Chars
    <3>3. Answer(d, <<"x">>)
      BY <2>1 DEF ExecuteCommand
    <3>4. Typed'
      BY <1>1, <3>2, <3>3, AnswerTyped DEF TypeInv, Served
    <3> QED
      BY <3>1, <3>4
  <2>2. CASE /\ Put(d, [delivery[d] EXCEPT !.pc = "upload", !.files = FilesOf(delivery[d].msg)])
             /\ UNCHANGED settings
    <3>1. PICK h : h = [delivery[d] EXCEPT !.pc = "upload", !.files = FilesOf(delivery[d].msg)]
      OBVIOUS
    <3>2. FilesOf(delivery[d].msg) \in Seq(Files)
      BY <1>1, FilesType
    <3>3. h \in Handler /\ h.uid # None
      BY <1>1, <3>1, <3>2, NoneAssumption DEF Handler, Pcs
    <3> QED
      BY <2>2, <3>1, <3>3, PutTyped DEF TypeInv, TypeOK
  <2> QED
    BY <2>1, <2>2 DEF Route
<1> QED
  BY <1>2 DEF Route, TypeInv, TypeOK, Typed, fileVars, startVars

LEMMA UploadTyped ==
  ASSUME ChannelsInv, TypeInv, NEW d \in Deliveries, Upload(d)
  PROVE  TypeInv'
<1>1. /\ delivery[d] \in Handler /\ delivery[d].uid \in Accounts
      /\ delivery[d].files \in Seq(Files) /\ delivery[d].files # << >>
  BY DEF TypeInv, Typed, Upload, Handler, Served
<1>2. PICK doc : doc = <<d, Len(delivery[d].files)>>
  OBVIOUS
<1>3. doc \in Documents /\ Tail(delivery[d].files) \in Seq(Files)
  BY <1>1, <1>2 DEF Documents
<1>4. PICK docs : docs \in {delivery[d].docs, delivery[d].docs \cup {doc}}
                  /\ Put(d, [delivery[d] EXCEPT !.files = Tail(@), !.docs = docs])
  BY <1>1, <1>2 DEF Upload, Handler
<1>5. blobs' \subseteq Documents /\ library' \subseteq [doc : Documents, owner : Accounts]
  <2>1. blobs' \subseteq blobs \cup {doc}
    BY <1>2 DEF Upload
  <2>2. library' \subseteq library \cup {[doc |-> doc, owner |-> delivery[d].uid]}
    BY <1>2 DEF Upload
  <2> QED
    BY <1>1, <1>3, <2>1, <2>2 DEF TypeInv, TypeOK
<1>6. PICK h : h = [delivery[d] EXCEPT !.files = Tail(@), !.docs = docs]
  OBVIOUS
<1>7. docs \subseteq Documents
  BY <1>1, <1>3, <1>4 DEF Handler
<1>8. h \in Handler /\ h.uid # None
  BY <1>1, <1>3, <1>6, <1>7, NoneAssumption DEF Handler
<1>9. Typed'
  BY <1>4, <1>6, <1>8, PutTyped DEF TypeInv
<1> QED
  BY <1>5, <1>9 DEF Upload, TypeInv, TypeOK, Typed, userVars, startVars

LEMMA SelectTyped ==
  ASSUME ChannelsInv, TypeInv, NEW d \in Deliveries, SelectSkill(d)
  PROVE  TypeInv'
<1>1. delivery[d] \in Handler /\ delivery[d].uid \in Accounts
  BY DEF TypeInv, Typed, SelectSkill, Handler, Served
<1>2. PICK s : s = IF delivery[d].msg.channel = "email"
                   THEN EmailSelected(delivery[d]) ELSE BaseSelected(delivery[d])
  OBVIOUS
<1>3. s \in Catalog \cup {General, None}
  <2>1. BaseSelected(delivery[d]) \in Catalog \cup {General}
    BY <1>1 DEF BaseSelected, TypeInv, TypeOK
  <2>2. SubjectSkill(delivery[d].msg) \in Catalog \cup {None}
    BY ResolvedType DEF SubjectSkill
  <2> QED
    BY <1>2, <2>1, <2>2 DEF EmailSelected
<1>4. PICK h : h = [delivery[d] EXCEPT !.pc = "run", !.skill = s]
  OBVIOUS
<1>5. h \in Handler /\ h.uid # None
  BY <1>1, <1>3, <1>4, NoneAssumption DEF Handler, Pcs
<1>6. Put(d, h)
  BY <1>2, <1>4 DEF SelectSkill
<1>7. Typed'
  BY <1>5, <1>6, PutTyped DEF TypeInv
<1> QED
  BY <1>7, AloneTyped DEF SelectSkill, TypeInv

LEMMA InvokeTyped ==
  ASSUME ChannelsInv, TypeInv, NEW d \in Deliveries, InvokeSkill(d)
  PROVE  TypeInv'
<1>1. \A text \in Collected(delivery[d].skill) : text \in Seq(Chars)
  <2>1. <<"x">> \in Seq(Chars)
    BY DEF Chars
  <2>2. Replies \subseteq Seq(Chars)
    BY ChannelsAssumption DEF ChannelsAssumption
  <2> QED
    BY <2>1, <2>2 DEF Collected
<1>2. CASE \E text \in Collected(delivery[d].skill) : Answer(d, text)
  <2>1. PICK text \in Seq(Chars) : Answer(d, text)
    BY <1>1, <1>2
  <2>2. delivery[d].pc \in Served
    BY DEF InvokeSkill, Served
  <2> QED
    BY <2>1, <2>2, AnswerTyped, AloneTyped DEF InvokeSkill, TypeInv
<1>3. CASE Return(d, "failed")
  BY <1>3, ReturnTyped, AloneTyped DEF InvokeSkill, TypeInv, Ended
<1> QED
  BY <1>2, <1>3 DEF InvokeSkill

LEMMA SendTyped ==
  ASSUME ChannelsInv, TypeInv, NEW d \in Deliveries, SendChunk(d) \/ Acknowledge(d)
  PROVE  TypeInv'
<1>1. UNCHANGED <<userVars, fileVars, migration, startVars>>
  BY DEF SendChunk, Acknowledge
<1>2. delivery[d] \in Handler /\ delivery[d].uid # None
  BY DEF TypeInv, Typed, SendChunk, Acknowledge, Served
<1>3. CASE Return(d, "failed") \/ Return(d, "ok")
  BY <1>1, <1>3, ReturnTyped, AloneTyped DEF TypeInv, Ended
<1>4. ASSUME delivery[d].left # << >>,
             NEW more \in {delivery[d].sent, Append(delivery[d].sent, Head(delivery[d].left))},
             Put(d, [delivery[d] EXCEPT !.left = Tail(@), !.sent = more])
      PROVE  TypeInv'
  <2>1. PICK h : h = [delivery[d] EXCEPT !.left = Tail(@), !.sent = more]
    OBVIOUS
  <2>2. delivery[d].left \in Seq(Seq(Chars)) /\ delivery[d].sent \in Seq(Seq(Chars))
    BY <1>2 DEF Handler
  <2>3. Tail(delivery[d].left) \in Seq(Seq(Chars)) /\ more \in Seq(Seq(Chars))
    <3>1. PICK l, s : l = delivery[d].left /\ s = delivery[d].sent
      OBVIOUS
    <3>2. l \in Seq(Seq(Chars)) /\ s \in Seq(Seq(Chars)) /\ l # << >>
      BY <1>4, <2>2, <3>1
    <3>3. Tail(l) \in Seq(Seq(Chars)) /\ Head(l) \in Seq(Chars)
      BY <3>2
    <3>4. Append(s, Head(l)) \in Seq(Seq(Chars))
      BY <3>2, <3>3
    <3> QED
      BY <1>4, <3>1, <3>2, <3>3, <3>4
  <2>4. h \in Handler /\ h.uid # None
    BY <1>2, <2>1, <2>3 DEF Handler
  <2> QED
    BY <1>1, <1>4, <2>1, <2>4, PutTyped, AloneTyped DEF TypeInv
<1>5. /\ [delivery[d] EXCEPT !.left = Tail(@)]
           = [delivery[d] EXCEPT !.left = Tail(@), !.sent = delivery[d].sent]
      /\ [delivery[d] EXCEPT !.left = Tail(@), !.sent = Append(@, Head(delivery[d].left))]
           = [delivery[d] EXCEPT !.left = Tail(@),
                                 !.sent = Append(delivery[d].sent, Head(delivery[d].left))]
  BY <1>2 DEF Handler
<1> QED
  BY <1>3, <1>4, <1>5 DEF SendChunk, Acknowledge

LEMMA AroundTyped ==
  ASSUME ChannelsInv, TypeInv,
         \/ \E users \in SUBSET DiscordUsers : Relist(users)
         \/ \E u \in Planned : MigrationRead(u) \/ MigrationWrite(u)
         \/ RegisterStart \/ RegisterPut \/ RegisterLock \/ LockExpires
  PROVE  TypeInv'
<1>1. Typed'
  BY DEF TypeInv, Typed, Relist, MigrationRead, MigrationWrite, RegisterStart, RegisterPut,
         RegisterLock, LockExpires
<1>2. TypeOK'
  <2>1. CASE \E users \in SUBSET DiscordUsers : Relist(users)
    <3>1. DiscordUsers \subseteq Users
      BY MessageUser DEF DiscordUsers
    <3> QED
      BY <2>1, <3>1 DEF Relist, TypeInv, TypeOK, fileVars, startVars
  <2>2. CASE \E u \in Planned : MigrationRead(u)
    BY <2>2 DEF MigrationRead, TypeInv, TypeOK, userVars, fileVars, startVars
  <2>3. CASE \E u \in Planned : MigrationWrite(u)
    <3>1. PICK u \in Planned : MigrationWrite(u)
      BY <2>3
    <3>2. u \in Users /\ Derived(u) \in Accounts
      BY ChannelsAssumption, DerivedAccount DEF ChannelsAssumption
    <3> QED
      BY <3>1, <3>2 DEF MigrationWrite, TypeInv, TypeOK, fileVars, startVars
  <2>4. CASE RegisterStart \/ RegisterPut \/ RegisterLock \/ LockExpires
    BY <2>4 DEF RegisterStart, RegisterPut, RegisterLock, LockExpires, TypeInv, TypeOK,
                userVars, fileVars
  <2> QED
    BY <2>1, <2>2, <2>3, <2>4
<1> QED
  BY <1>1, <1>2 DEF TypeInv

LEMMA RedeployTyped ==
  ASSUME TypeInv, Redeploy
  PROVE  TypeInv'
<1>1. ASSUME NEW d \in Deliveries
      PROVE  delivery'[d] \in Handler /\ (delivery'[d].pc \in Served => delivery'[d].uid # None)
  <2>1. delivery[d] \in Handler /\ (delivery[d].pc \in Served => delivery[d].uid # None)
    BY DEF TypeInv, Typed
  <2>2. Returned(delivery[d], "lost") \in Handler /\ Returned(delivery[d], "lost").pc = "lost"
    BY <2>1, ReturnedType, ReturnedFields DEF Pcs
  <2>3. delivery'[d] \in {delivery[d], Returned(delivery[d], "lost")}
    BY DEF Redeploy
  <2> QED
    BY <2>1, <2>2, <2>3 DEF Served
<1>2. delivery' = [d \in Deliveries |-> delivery'[d]]
  BY DEF Redeploy
<1>3. Typed'
  BY <1>1, <1>2 DEF Typed
<1> QED
  BY <1>3 DEF Redeploy, TypeInv, TypeOK, Typed, userVars, fileVars

LEMMA InitTyped == Init => TypeInv
<1> SUFFICES ASSUME Init PROVE TypeInv
  OBVIOUS
<1>1. Typed
  BY IdleType DEF Init, Typed, Served, Idle
<1>2. identity \in [Users -> Accounts \cup {Blank, None}]
  BY DEF Init, Accounts
<1>3. DiscordUsers \subseteq Users
  BY MessageUser DEF DiscordUsers
<1>4. allowed \in (SUBSET Users) \cup {None}
  BY <1>3 DEF Init
<1>5. /\ settings \in [Accounts -> Catalog \cup {None}]
      /\ migration \in [Planned -> {"planned", "absent", "handled"}]
      /\ blobs = {} /\ library = {} /\ lock = FALSE /\ commands = FALSE /\ server = "starting"
  BY DEF Init
<1> QED
  BY <1>1, <1>2, <1>4, <1>5 DEF TypeInv, TypeOK, Typed

LEMMA NextTyped == ChannelsInv /\ TypeInv /\ [Next]_vars => TypeInv'
<1> SUFFICES ASSUME ChannelsInv, TypeInv, [Next]_vars PROVE TypeInv'
  OBVIOUS
<1>1. CASE UNCHANGED vars
  BY <1>1 DEF vars, userVars, fileVars, startVars, TypeInv, TypeOK, Typed
<1>2. ASSUME NEW d \in Deliveries, Handle(d) \/ \E m \in Messages : Arrive(d, m)
      PROVE  TypeInv'
  BY <1>2, ArriveTyped, ResolveTyped, AdmitTyped, RouteTyped, UploadTyped, SelectTyped,
     InvokeTyped, SendTyped DEF Handle
<1> QED
  BY <1>1, <1>2, AroundTyped, RedeployTyped DEF Next

\* Rows, settings, documents and handlers keep their types whatever is delivered, in
\* whatever order and however often the server is replaced (channels/base.py).
THEOREM TypeCorrect == Spec => []TypeOK
<1>1. TypeInv => TypeOK
  BY DEF TypeInv
<1> QED
  BY <1>1, InitTyped, NextTyped, Inductive, PTL DEF Spec
=============================================================================
