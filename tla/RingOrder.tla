------------------------------- MODULE RingOrder -------------------------------
(***************************************************************************)
(* Lemmas on the order of slots that SlotPoolProofs, RingProofs and        *)
(* ElisionProofs share: finite sets enumerated by a key, the window that   *)
(* live slots encode, and the mask allocator, first on any pool and then   *)
(* on one whose live slots form a ring: what it evicts, grants and         *)
(* enumerates there.                                                       *)
(*                                                                         *)
(* A pool of T slots is given by its live bits m, its age ids i and its    *)
(* provisional flags p; h is the slot the next write goes to.              *)
(***************************************************************************)
EXTENDS Integers, Sequences, Ranking, FiniteSetTheorems, TLAPS

SlotRange(T) == 0 .. T - 1

(* How many slots behind the head a slot is. *)
Pos(T, h, s) == IF s >= h THEN s - h ELSE s - h + T

SlotAt(T, h, j) == IF h + j < T THEN h + j ELSE h + j - T

LiveIn(T, m) == {s \in SlotRange(T) : m[s]}

Before(i, t, s) == i[t] < i[s] \/ (i[t] = i[s] /\ t < s)

(* What SlotPool evicts, grants and enumerates, and the id it grants. *)
EvictedIn(T, m, i, n) ==
  {s \in LiveIn(T, m) :
     Cardinality({t \in LiveIn(T, m) : Before(i, t, s)})
       < n - Cardinality(SlotRange(T) \ LiveIn(T, m))}

KeptIn(T, m, i, n) == LiveIn(T, m) \ EvictedIn(T, m, i, n)

LowestOf(S, n) == {s \in S : Cardinality({t \in S : t < s}) < n}

GrantedIn(T, m, i, n) == LowestOf(SlotRange(T) \ KeptIn(T, m, i, n), n)

NewIdsIn(T, m, i, n) ==
  LET kept == KeptIn(T, m, i, n)
  IN IF kept = {} THEN {0}
     ELSE {i[s] + 1 : s \in {k \in kept : \A t \in kept : i[t] <= i[k]}}

(* What SlotPool's Allocate does to the bookkeeping. *)
Takes(T, n, uc, m, i, p, m2, i2, p2) ==
  LET granted == GrantedIn(T, m, i, n)
      evicted == EvictedIn(T, m, i, n)
  IN /\ m2 = [s \in SlotRange(T) |-> IF s \in granted THEN uc # 0 ELSE m[s] /\ s \notin evicted]
     /\ \E g \in NewIdsIn(T, m, i, n) :
          i2 = [s \in SlotRange(T) |-> IF s \in granted THEN g
                                 ELSE IF s \in evicted THEN -1 ELSE i[s]]
     /\ p2 = [s \in SlotRange(T) |-> IF s \in granted THEN uc = 1 ELSE p[s]]

Ascends(S) ==
  [j \in 1 .. Cardinality(S) |-> CHOOSE s \in S : Cardinality({t \in S : t < s}) = j - 1]

(* The slots a forward reads, and what it reads when they hold k. *)
ReadIn(T, m, i, n) == KeptIn(T, m, i, n) \cup GrantedIn(T, m, i, n)

SeenIn(T, m, i, n, k) ==
  LET shown == Ascends(ReadIn(T, m, i, n))
  IN [j \in DOMAIN shown |-> <<shown[j], k[shown[j]]>>]

(* What SlotPool's WriteAndAttend does to the K/V. *)
Writes(T, n, x, m, i, k, k2, seen2) ==
  /\ k2 = [s \in SlotRange(T) |-> IF s \in GrantedIn(T, m, i, n) THEN x ELSE k[s]]
  /\ seen2 = SeenIn(T, m, i, n, k2)

(* Two pools hold the same K/V in the slots of m. *)
Agree(T, m, k, l) == \A s \in SlotRange(T) : m[s] => k[s] = l[s]

(* The f slots from the head on are free, age follows position in the rest *)
(* and the last r of them are the provisional ones.                        *)
Orderly(T, h, f, r, m, i, p) ==
  /\ \A s \in SlotRange(T) : m[s] <=> Pos(T, h, s) >= f
  /\ \A s, t \in LiveIn(T, m) : Before(i, t, s) <=> Pos(T, h, t) < Pos(T, h, s)
  /\ \A s \in LiveIn(T, m) : p[s] <=> Pos(T, h, s) >= T - r

-----------------------------------------------------------------------------
LEMMA Positions ==
  ASSUME NEW T \in Nat \ {0}, NEW h \in SlotRange(T)
  PROVE  /\ \A s \in SlotRange(T) : Pos(T, h, s) \in SlotRange(T) /\ SlotAt(T, h, Pos(T, h, s)) = s
         /\ \A j \in SlotRange(T) : SlotAt(T, h, j) \in SlotRange(T) /\ Pos(T, h, SlotAt(T, h, j)) = j
BY DEF SlotRange, Pos, SlotAt

LEMMA Counted ==
  ASSUME NEW S, IsFiniteSet(S), NEW R, NEW f \in [S -> R],
         \A x, y \in S : f[x] = f[y] => x = y, \A y \in R : \E x \in S : f[x] = y
  PROVE  IsFiniteSet(R) /\ Cardinality(R) = Cardinality(S)
<1>1. f \in Injection(S, R)
  BY DEF Injection, IsInjective
<1>2. f \in Surjection(S, R)
  BY DEF Surjection
<1>3. ExistsBijection(S, R)
  BY <1>1, <1>2 DEF ExistsBijection, Bijection
<1> QED BY <1>3, FS_Bijection

(* As many slots lie between two positions as there are positions. *)
LEMMA CountOfPositions ==
  ASSUME NEW T \in Nat \ {0}, NEW h \in SlotRange(T), NEW a \in 0 .. T, NEW b \in a .. T
  PROVE  LET S == {s \in SlotRange(T) : a <= Pos(T, h, s) /\ Pos(T, h, s) < b}
         IN IsFiniteSet(S) /\ Cardinality(S) = b - a
<1> DEFINE S == {s \in SlotRange(T) : a <= Pos(T, h, s) /\ Pos(T, h, s) < b}
           J == a .. b - 1
           place == [j \in J |-> SlotAt(T, h, j)]
<1>1. IsFiniteSet(J) /\ Cardinality(J) = b - a
  <2>1. a \in Int /\ b - 1 \in Int /\ (IF a > b - 1 THEN 0 ELSE b - 1 - a + 1) = b - a
    OBVIOUS
  <2> QED BY <2>1, FS_Interval
<1>2. J \subseteq SlotRange(T)
  BY DEF SlotRange
<1>3. \A j \in J : SlotAt(T, h, j) \in S
  BY <1>2, Positions
<1>4. place \in [J -> S]
  BY <1>3
<1>5. \A j, k \in J : place[j] = place[k] => j = k
  BY <1>2, Positions
<1>6. \A s \in S : \E j \in J : place[j] = s
  <2> SUFFICES ASSUME NEW s \in S PROVE Pos(T, h, s) \in J /\ SlotAt(T, h, Pos(T, h, s)) = s
    OBVIOUS
  <2> QED BY Positions DEF SlotRange
<1> HIDE DEF S, J, place
<1>7. IsFiniteSet(S) /\ Cardinality(S) = Cardinality(J)
  BY <1>1, <1>4, <1>5, <1>6, Counted
<1> QED BY <1>1, <1>7 DEF S

LEMMA PoolCount ==
  ASSUME NEW T \in Nat \ {0} PROVE IsFiniteSet(SlotRange(T)) /\ Cardinality(SlotRange(T)) = T
BY FS_Interval DEF SlotRange

(* The lowest n members of an interval. *)
LEMMA LowestOfInterval ==
  ASSUME NEW a \in Int, NEW b \in Int, NEW n \in Nat, n <= b - a + 1
  PROVE  LowestOf(a .. b, n) = a .. a + n - 1
<1>1. ASSUME NEW s \in a .. b PROVE Cardinality({t \in a .. b : t < s}) = s - a
  <2>1. {t \in a .. b : t < s} = a .. s - 1
    OBVIOUS
  <2>2. Cardinality(a .. s - 1) = s - a
    <3>1. s - 1 \in Int /\ (IF a > s - 1 THEN 0 ELSE s - 1 - a + 1) = s - a
      OBVIOUS
    <3> QED BY <3>1, FS_Interval
  <2> QED BY <2>1, <2>2
<1>2. LowestOf(a .. b, n) = {s \in a .. b : s - a < n}
  BY <1>1 DEF LowestOf
<1>3. {s \in a .. b : s - a < n} = a .. a + n - 1
  OBVIOUS
<1> QED BY <1>2, <1>3

(* A sequence that lists a set in ascending order is the enumeration of    *)
(* the set.                                                                *)
LEMMA AscendsUniquely ==
  ASSUME NEW S, NEW k \in Nat, NEW q \in [1 .. k -> S], S \subseteq Int,
         \A x, y \in 1 .. k : x < y => q[x] < q[y],
         \A s \in S : \E x \in 1 .. k : q[x] = s
  PROVE  Ascends(S) = q
<1>0. \A x \in 1 .. k : q[x] \in S /\ q[x] \in Int
  OBVIOUS
<1>1. \A x, y \in 1 .. k : q[x] = q[y] => x = y
  BY <1>0
<1>2. ASSUME NEW x \in 1 .. k PROVE Cardinality({t \in S : t < q[x]}) = x - 1
  <2> DEFINE J == 1 .. x - 1
             B == {t \in S : t < q[x]}
             low == [y \in J |-> q[y]]
  <2>1. low \in [J -> B]
    OBVIOUS
  <2>2. \A y, z \in J : low[y] = low[z] => y = z
    BY <1>1
  <2>3. \A t \in B : \E y \in J : low[y] = t
    <3> SUFFICES ASSUME NEW t \in B PROVE \E y \in J : q[y] = t
      OBVIOUS
    <3>1. PICK y \in 1 .. k : q[y] = t
      OBVIOUS
    <3>2. y < x
      BY <1>0, <3>1
    <3> QED BY <3>1, <3>2
  <2>4. IsFiniteSet(J) /\ Cardinality(J) = x - 1
    BY FS_Interval
  <2> HIDE DEF J, B, low
  <2>5. Cardinality(B) = x - 1
    BY <2>1, <2>2, <2>3, <2>4, Counted
  <2> QED BY <2>5 DEF B
<1>3. Cardinality(S) = k
  <2>1. IsFiniteSet(1 .. k) /\ Cardinality(1 .. k) = k
    BY FS_Interval
  <2> QED BY <1>1, <2>1, Counted
<1>4. ASSUME NEW x \in 1 .. k
      PROVE  q[x] = CHOOSE s \in S : Cardinality({t \in S : t < s}) = x - 1
  <2>1. q[x] \in S /\ Cardinality({t \in S : t < q[x]}) = x - 1
    BY <1>0, <1>2
  <2>2. ASSUME NEW s \in S, Cardinality({t \in S : t < s}) = x - 1 PROVE s = q[x]
    <3>1. PICK y \in 1 .. k : q[y] = s
      OBVIOUS
    <3>2. y - 1 = x - 1
      BY <1>2, <2>2, <3>1
    <3> QED BY <3>1, <3>2
  <2> QED BY <2>1, <2>2
<1> QED BY <1>3, <1>4 DEF Ascends

(* Every enumerated slot is a member. *)
LEMMA AscendsMembers ==
  ASSUME NEW S, S \subseteq Int, IsFiniteSet(S)
  PROVE  /\ DOMAIN Ascends(S) = 1 .. Cardinality(S)
         /\ \A j \in 1 .. Cardinality(S) : Ascends(S)[j] \in S
<1> DEFINE below(s) == {t \in S : t < s}
           k == Cardinality(S)
           R == 0 .. k - 1
           rank == [s \in S |-> Cardinality(below(s))]
<1>0. k \in Nat
  BY FS_CardinalityType
<1>1. ASSUME NEW s \in S
      PROVE  IsFiniteSet(below(s)) /\ Cardinality(below(s)) \in Nat /\ Cardinality(below(s)) < k
  <2>1. below(s) \in SUBSET S /\ below(s) # S
    OBVIOUS
  <2> HIDE DEF below
  <2>2. /\ IsFiniteSet(below(s)) /\ Cardinality(below(s)) <= k
        /\ k = Cardinality(below(s)) => S = below(s)
    BY <2>1, FS_Subset
  <2>3. Cardinality(below(s)) \in Nat
    BY <2>2, FS_CardinalityType
  <2> QED BY <1>0, <2>1, <2>2, <2>3
<1>2. ASSUME NEW s \in S, NEW t \in S, s < t
      PROVE  Cardinality(below(s)) < Cardinality(below(t))
  <2>1. below(s) \in SUBSET below(t) /\ s \in below(t) /\ s \notin below(s)
    <3>1. s \in Int /\ t \in Int /\ \A x \in S : x \in Int
      OBVIOUS
    <3>2. s \in below(t) /\ s \notin below(s)
      BY <1>2, <3>1
    <3>3. \A x \in S : x < s => x < t
      BY <1>2, <3>1
    <3> QED BY <3>2, <3>3
  <2> HIDE DEF below
  <2>2. /\ Cardinality(below(s)) <= Cardinality(below(t))
        /\ Cardinality(below(t)) = Cardinality(below(s)) => below(t) = below(s)
    BY <1>1, <2>1, FS_Subset
  <2> QED BY <1>1, <2>1, <2>2
<1>3. \A s, t \in S : Cardinality(below(s)) = Cardinality(below(t)) => s = t
  <2> SUFFICES ASSUME NEW s \in S, NEW t \in S, Cardinality(below(s)) = Cardinality(below(t)), s # t
               PROVE  FALSE
    OBVIOUS
  <2>1. s < t \/ t < s
    OBVIOUS
  <2> HIDE DEF below
  <2> QED BY <1>1, <1>2, <2>1
<1> HIDE DEF below
<1>4. rank \in [S -> R] /\ \A s, t \in S : rank[s] = rank[t] => s = t
  BY <1>0, <1>1, <1>3
<1>5. IsFiniteSet(R) /\ Cardinality(R) = k
  BY <1>0, FS_Interval
<1> HIDE DEF R, rank
<1>6. rank \in Injection(S, R)
  BY <1>4 DEF Injection, IsInjective
<1>7. rank \in Surjection(S, R)
  BY <1>5, <1>6, FS_Injection
<1>8. \A j \in 1 .. k : \E s \in S : Cardinality(below(s)) = j - 1
  <2> SUFFICES ASSUME NEW j \in 1 .. k PROVE \E s \in S : Cardinality(below(s)) = j - 1
    OBVIOUS
  <2>1. j - 1 \in R
    BY <1>0 DEF R
  <2>2. PICK s \in S : rank[s] = j - 1
    BY <1>7, <2>1 DEF Surjection
  <2> QED BY <2>2 DEF rank
<1>9. Ascends(S) = [j \in 1 .. k |-> CHOOSE s \in S : Cardinality(below(s)) = j - 1]
  BY DEF Ascends, below
<1> HIDE DEF k
<1> QED BY <1>8, <1>9 DEF k

-----------------------------------------------------------------------------
(* Finite sets of numbers in the order of a key.                           *)

RankIn(S, key, s) == Cardinality({t \in S : Before(key, t, s)})

ByKeyOf(S, key) == [j \in 1 .. Cardinality(S) |-> CHOOSE s \in S : RankIn(S, key, s) = j - 1]

(* The sequence q of length k lists the members of S once each, by key; in *)
(* ascending order.                                                        *)
ListsByKey(q, k, S, key) ==
  /\ q \in [1 .. k -> S]
  /\ \A x, y \in 1 .. k : Before(key, q[x], q[y]) <=> x < y
  /\ \A s \in S : \E x \in 1 .. k : q[x] = s

ListsUp(q, k, S) ==
  /\ q \in [1 .. k -> S]
  /\ \A x, y \in 1 .. k : q[x] < q[y] <=> x < y
  /\ \A s \in S : \E x \in 1 .. k : q[x] = s

(* Each member's key is a number. *)
Keyed(S, key) == IsFiniteSet(S) /\ \A s \in S : s \in Int /\ key[s] \in Int

(* The members of q that the numbers e point at, and all but the first d   *)
(* of n.                                                                   *)
Picked(q, e) == [j \in DOMAIN e |-> q[e[j]]]
Dropped(q, n, d) == [j \in 1 .. n - d |-> q[j + d]]

(* Then g times t. *)
Shifted(q, n, d, g, t) == [j \in 1 .. n - d + g |-> IF j <= n - d THEN q[j + d] ELSE t]

LEMMA ByKeyIs ==
  ASSUME NEW S, NEW key
  PROVE  ByKey(S, key) = ByKeyOf(S, key)
BY DEF ByKey, ByKeyOf, InOrder, Rank, RankIn, Before

LEMMA AscendsIs ==
  ASSUME NEW S
  PROVE  InOrder(S, <) = Ascends(S)
BY DEF InOrder, Rank, Ascends

LEMMA BeforeIsStrict ==
  ASSUME NEW S, NEW key, \A s \in S : s \in Int /\ key[s] \in Int
  PROVE  /\ \A s \in S : ~Before(key, s, s)
         /\ \A s, t, u \in S : Before(key, s, t) /\ Before(key, t, u) => Before(key, s, u)
         /\ \A s, t \in S : s = t \/ Before(key, s, t) \/ Before(key, t, s)
BY DEF Before

(* The ranks of the members of S are 0, 1, ... *)
LEMMA RanksAreDense ==
  ASSUME NEW S, NEW key, Keyed(S, key)
  PROVE  /\ Cardinality(S) \in Nat
         /\ \A s \in S : RankIn(S, key, s) \in 0 .. Cardinality(S) - 1
         /\ \A s, t \in S : Before(key, s, t) <=> RankIn(S, key, s) < RankIn(S, key, t)
         /\ \A j \in 0 .. Cardinality(S) - 1 : \E s \in S : RankIn(S, key, s) = j
<1> DEFINE below(s) == {t \in S : Before(key, t, s)}
           k == Cardinality(S)
           R == 0 .. k - 1
           rank == [s \in S |-> Cardinality(below(s))]
<1>0. k \in Nat /\ IsFiniteSet(S)
  BY FS_CardinalityType DEF Keyed
<1>a. /\ \A s \in S : ~Before(key, s, s)
      /\ \A s, t, u \in S : Before(key, s, t) /\ Before(key, t, u) => Before(key, s, u)
      /\ \A s, t \in S : s = t \/ Before(key, s, t) \/ Before(key, t, s)
  BY BeforeIsStrict DEF Keyed
<1>1. ASSUME NEW s \in S
      PROVE  IsFiniteSet(below(s)) /\ Cardinality(below(s)) \in Nat /\ Cardinality(below(s)) < k
  <2>1. below(s) \in SUBSET S /\ below(s) # S
    BY <1>a
  <2> HIDE DEF below
  <2>2. /\ IsFiniteSet(below(s)) /\ Cardinality(below(s)) <= k
        /\ k = Cardinality(below(s)) => S = below(s)
    BY <1>0, <2>1, FS_Subset
  <2>3. Cardinality(below(s)) \in Nat
    BY <2>2, FS_CardinalityType
  <2> QED BY <1>0, <2>1, <2>2, <2>3
<1>2. ASSUME NEW s \in S, NEW t \in S, Before(key, s, t)
      PROVE  Cardinality(below(s)) < Cardinality(below(t))
  <2>1. below(s) \in SUBSET below(t) /\ s \in below(t) /\ s \notin below(s)
    BY <1>2, <1>a
  <2> HIDE DEF below
  <2>2. /\ Cardinality(below(s)) <= Cardinality(below(t))
        /\ Cardinality(below(t)) = Cardinality(below(s)) => below(t) = below(s)
    BY <1>1, <2>1, FS_Subset
  <2> QED BY <1>1, <2>1, <2>2
<1> HIDE DEF below
<1>3. \A s, t \in S : Cardinality(below(s)) = Cardinality(below(t)) => s = t
  BY <1>1, <1>2, <1>a
<1>4. rank \in [S -> R] /\ \A s, t \in S : rank[s] = rank[t] => s = t
  BY <1>0, <1>1, <1>3
<1>5. IsFiniteSet(R) /\ Cardinality(R) = k
  BY <1>0, FS_Interval
<1> HIDE DEF R, rank
<1>6. rank \in Injection(S, R)
  BY <1>4 DEF Injection, IsInjective
<1>7. rank \in Surjection(S, R)
  BY <1>0, <1>5, <1>6, FS_Injection
<1>8. \A j \in R : \E s \in S : Cardinality(below(s)) = j
  BY <1>7 DEF Surjection, rank
<1>9. \A s, t \in S : Before(key, s, t) <=> Cardinality(below(s)) < Cardinality(below(t))
  <2> SUFFICES ASSUME NEW s \in S, NEW t \in S, Cardinality(below(s)) < Cardinality(below(t))
               PROVE  Before(key, s, t)
    BY <1>2
  <2>1. s # t /\ ~Before(key, t, s)
    BY <1>1, <1>2
  <2> QED BY <1>a, <2>1
<1>10. \A s \in S : Cardinality(below(s)) \in R
  BY <1>0, <1>1 DEF R
<1>11. \A s \in S : RankIn(S, key, s) = Cardinality(below(s))
  BY DEF RankIn, below
<1> QED BY <1>0, <1>8, <1>9, <1>10, <1>11 DEF R

(* What the enumeration by a key is: a list of the members, in which place *)
(* is rank.                                                                *)
LEMMA ByKeyLists ==
  ASSUME NEW S, NEW key, Keyed(S, key), NEW q, q = ByKeyOf(S, key)
  PROVE  /\ ListsByKey(q, Cardinality(S), S, key)
         /\ \A x \in 1 .. Cardinality(S) : q[x] \in S /\ RankIn(S, key, q[x]) = x - 1
<1> DEFINE k == Cardinality(S)
           rank(s) == RankIn(S, key, s)
<1>1. /\ k \in Nat
      /\ \A s \in S : rank(s) \in 0 .. k - 1
      /\ \A s, t \in S : Before(key, s, t) <=> rank(s) < rank(t)
      /\ \A j \in 0 .. k - 1 : \E s \in S : rank(s) = j
  <2>1. k \in Nat /\ \A s \in S : rank(s) \in 0 .. k - 1
    BY RanksAreDense
  <2>2. \A s, t \in S : Before(key, s, t) <=> rank(s) < rank(t)
    BY RanksAreDense
  <2>3. \A j \in 0 .. k - 1 : \E s \in S : rank(s) = j
    BY RanksAreDense
  <2> QED BY <2>1, <2>2, <2>3
<1>2. q = [j \in 1 .. k |-> CHOOSE s \in S : rank(s) = j - 1]
  BY DEF ByKeyOf
<1>a. \A s, t \in S : s = t \/ Before(key, s, t) \/ Before(key, t, s)
  BY BeforeIsStrict DEF Keyed
<1> HIDE DEF rank, k
<1>3. \A x \in 1 .. k : q[x] \in S /\ rank(q[x]) = x - 1
  <2> SUFFICES ASSUME NEW x \in 1 .. k PROVE q[x] \in S /\ rank(q[x]) = x - 1
    OBVIOUS
  <2>1. x - 1 \in 0 .. k - 1
    BY <1>1
  <2>2. \E s \in S : rank(s) = x - 1
    BY <1>1, <2>1
  <2> QED BY <1>2, <2>2
<1>4. \A s \in S : \E x \in 1 .. k : q[x] = s
  <2> SUFFICES ASSUME NEW s \in S PROVE \E x \in 1 .. k : q[x] = s
    OBVIOUS
  <2>1. rank(s) + 1 \in 1 .. k /\ rank(s) \in Int
    BY <1>1
  <2>2. rank(q[rank(s) + 1]) = rank(s) /\ q[rank(s) + 1] \in S
    BY <1>3, <2>1
  <2>3. q[rank(s) + 1] = s
    BY <1>1, <1>a, <2>1, <2>2
  <2> QED BY <2>1, <2>3
<1>5. \A x, y \in 1 .. k : Before(key, q[x], q[y]) <=> x < y
  <2> SUFFICES ASSUME NEW x \in 1 .. k, NEW y \in 1 .. k PROVE Before(key, q[x], q[y]) <=> x < y
    OBVIOUS
  <2>1. Before(key, q[x], q[y]) <=> x - 1 < y - 1
    BY <1>1, <1>3
  <2> QED BY <1>1, <2>1
<1>6. q \in [1 .. k -> S]
  BY <1>2, <1>3
<1>7. ListsByKey(q, k, S, key)
  BY <1>4, <1>5, <1>6 DEF ListsByKey
<1> QED BY <1>3, <1>7 DEF rank, k

(* A sequence that lists the members of a set in order is its enumeration. *)
LEMMA ByKeyUniquely ==
  ASSUME NEW S, NEW key, \A s \in S : s \in Int /\ key[s] \in Int,
         NEW k \in Nat, NEW q \in [1 .. k -> S],
         \A x, y \in 1 .. k : x < y => Before(key, q[x], q[y]),
         \A s \in S : \E x \in 1 .. k : q[x] = s
  PROVE  ByKeyOf(S, key) = q /\ Cardinality(S) = k /\ IsFiniteSet(S)
<1>a. /\ \A s \in S : ~Before(key, s, s)
      /\ \A s, t, u \in S : Before(key, s, t) /\ Before(key, t, u) => Before(key, s, u)
  BY BeforeIsStrict
<1>0. \A x \in 1 .. k : q[x] \in S
  OBVIOUS
<1>1. \A x, y \in 1 .. k : q[x] = q[y] => x = y
  BY <1>0, <1>a
<1>b. \A x, y \in 1 .. k : Before(key, q[x], q[y]) => x < y
  <2> SUFFICES ASSUME NEW x \in 1 .. k, NEW y \in 1 .. k, Before(key, q[x], q[y]) PROVE x < y
    OBVIOUS
  <2>1. ~(y < x)
    BY <1>0, <1>a
  <2>2. x # y
    BY <1>0, <1>a
  <2> QED BY <2>1, <2>2
<1>2. ASSUME NEW x \in 1 .. k PROVE RankIn(S, key, q[x]) = x - 1
  <2> DEFINE J == 1 .. x - 1
             B == {t \in S : Before(key, t, q[x])}
             low == [y \in J |-> q[y]]
  <2>1. low \in [J -> B]
    OBVIOUS
  <2>2. \A y, z \in J : low[y] = low[z] => y = z
    BY <1>1
  <2>3. \A t \in B : \E y \in J : low[y] = t
    <3> SUFFICES ASSUME NEW t \in B PROVE \E y \in J : q[y] = t
      OBVIOUS
    <3>1. PICK y \in 1 .. k : q[y] = t
      OBVIOUS
    <3>2. y < x
      BY <1>b, <3>1
    <3> QED BY <3>1, <3>2
  <2>4. IsFiniteSet(J) /\ Cardinality(J) = x - 1
    BY FS_Interval
  <2> HIDE DEF J, B, low
  <2>5. Cardinality(B) = x - 1
    BY <2>1, <2>2, <2>3, <2>4, Counted
  <2> QED BY <2>5 DEF B, RankIn
<1>3. Cardinality(S) = k /\ IsFiniteSet(S)
  <2>1. IsFiniteSet(1 .. k) /\ Cardinality(1 .. k) = k
    BY FS_Interval
  <2> QED BY <1>1, <2>1, Counted
<1>4. ASSUME NEW x \in 1 .. k
      PROVE  q[x] = CHOOSE s \in S : RankIn(S, key, s) = x - 1
  <2>1. q[x] \in S /\ RankIn(S, key, q[x]) = x - 1
    BY <1>0, <1>2
  <2>2. ASSUME NEW s \in S, RankIn(S, key, s) = x - 1 PROVE s = q[x]
    <3>1. PICK y \in 1 .. k : q[y] = s
      OBVIOUS
    <3>2. y - 1 = x - 1
      BY <1>2, <2>2, <3>1
    <3> QED BY <3>1, <3>2
  <2> QED BY <2>1, <2>2
<1> QED BY <1>3, <1>4 DEF ByKeyOf

(* The ascending enumeration lists the members of a set in ascending order. *)
LEMMA AscendsLists ==
  ASSUME NEW S, S \subseteq Int, IsFiniteSet(S), NEW q, q = Ascends(S)
  PROVE  ListsUp(q, Cardinality(S), S)
<1> DEFINE key == [s \in S |-> 0]
           k == Cardinality(S)
           o == ByKeyOf(S, key)
<1>1. Keyed(S, key)
  BY DEF Keyed
<1>2. \A s, t \in S : Before(key, s, t) <=> s < t
  BY DEF Before
<1>0. k \in Nat
  BY FS_CardinalityType
<1> HIDE DEF key, k, o
<1>3. /\ o \in [1 .. k -> S]
      /\ \A x, y \in 1 .. k : Before(key, o[x], o[y]) <=> x < y
      /\ \A s \in S : \E x \in 1 .. k : o[x] = s
  BY <1>1, ByKeyLists DEF k, o, ListsByKey
<1>4. \A x, y \in 1 .. k : o[x] < o[y] <=> x < y
  <2> SUFFICES ASSUME NEW x \in 1 .. k, NEW y \in 1 .. k PROVE o[x] < o[y] <=> x < y
    OBVIOUS
  <2>1. o[x] \in S /\ o[y] \in S
    BY <1>3
  <2> QED BY <1>2, <1>3, <2>1
<1>5. Ascends(S) = o
  BY <1>0, <1>3, <1>4, AscendsUniquely
<1> QED BY <1>3, <1>4, <1>5 DEF k, ListsUp

(* The members of S that stay, picked out of the enumeration of S. *)
LEMMA ByKeyPart ==
  ASSUME NEW S, NEW key, Keyed(S, key), NEW q, q = ByKeyOf(S, key),
         NEW R, R \subseteq S,
         NEW o, o = Ascends({j \in 1 .. Cardinality(S) : q[j] \in R})
  PROVE  ByKeyOf(R, key) = Picked(q, o)
<1> DEFINE n == Cardinality(S)
           J == {j \in 1 .. n : q[j] \in R}
           k == Cardinality(J)
           p == [j \in 1 .. k |-> q[o[j]]]
<1>1. /\ q \in [1 .. n -> S]
      /\ \A x, y \in 1 .. n : Before(key, q[x], q[y]) <=> x < y
      /\ \A s \in S : \E x \in 1 .. n : q[x] = s
  BY ByKeyLists DEF ListsByKey
<1>2. n \in Nat
  BY FS_CardinalityType DEF Keyed
<1>3. J \subseteq Int /\ IsFiniteSet(J)
  <2>1. IsFiniteSet(1 .. n) /\ J \subseteq 1 .. n
    BY <1>2, FS_Interval
  <2> QED BY <1>2, <2>1, FS_Subset
<1>4. k \in Nat
  BY <1>3, FS_CardinalityType
<1>5. \A j \in J : j \in 1 .. n /\ q[j] \in R
  OBVIOUS
<1>6. \A j \in 1 .. n : q[j] \in R => j \in J
  OBVIOUS
<1> HIDE DEF n, J, k
<1>7. /\ o \in [1 .. k -> J]
      /\ \A x, y \in 1 .. k : o[x] < o[y] <=> x < y
      /\ \A s \in J : \E x \in 1 .. k : o[x] = s
  <2>1. o = Ascends(J)
    BY DEF J, n
  <2>2. ListsUp(o, Cardinality(J), J)
    BY <1>3, <2>1, AscendsLists
  <2> QED BY <2>1, <2>2 DEF k, ListsUp
<1>8. p \in [1 .. k -> R]
  BY <1>5, <1>7
<1>9. \A x, y \in 1 .. k : x < y => Before(key, p[x], p[y])
  <2> SUFFICES ASSUME NEW x \in 1 .. k, NEW y \in 1 .. k, x < y PROVE Before(key, q[o[x]], q[o[y]])
    OBVIOUS
  <2>1. o[x] \in 1 .. n /\ o[y] \in 1 .. n /\ o[x] < o[y]
    BY <1>5, <1>7
  <2> QED BY <1>1, <2>1
<1>10. \A s \in R : \E x \in 1 .. k : p[x] = s
  <2> SUFFICES ASSUME NEW s \in R PROVE \E x \in 1 .. k : q[o[x]] = s
    OBVIOUS
  <2>1. PICK j \in 1 .. n : q[j] = s
    BY <1>1
  <2>2. PICK x \in 1 .. k : o[x] = j
    BY <1>6, <1>7, <2>1
  <2> QED BY <2>1, <2>2
<1>11. \A s \in R : s \in Int /\ key[s] \in Int
  BY DEF Keyed
<1> HIDE DEF p
<1>12. ByKeyOf(R, key) = p
  BY <1>4, <1>8, <1>9, <1>10, <1>11, ByKeyUniquely
<1> QED BY <1>7, <1>12 DEF p, Picked

(* All but the first d members. *)
LEMMA ByKeyNewest ==
  ASSUME NEW S, NEW key, Keyed(S, key), NEW q, q = ByKeyOf(S, key),
         NEW d \in 0 .. Cardinality(S),
         NEW R, R = {s \in S : RankIn(S, key, s) >= d}
  PROVE  /\ ByKeyOf(R, key) = Dropped(q, Cardinality(S), d)
         /\ Cardinality(R) = Cardinality(S) - d
<1> DEFINE n == Cardinality(S)
           k == n - d
           p == [j \in 1 .. k |-> q[j + d]]
           rank(s) == RankIn(S, key, s)
<1>1. n \in Nat
  BY FS_CardinalityType DEF Keyed
<1>2. /\ q \in [1 .. n -> S]
      /\ \A x, y \in 1 .. n : Before(key, q[x], q[y]) <=> x < y
      /\ \A s \in S : \E x \in 1 .. n : q[x] = s
  BY ByKeyLists DEF ListsByKey
<1>3. \A x \in 1 .. n : rank(q[x]) = x - 1
  BY ByKeyLists
<1>4. \A s \in S : s \in R <=> rank(s) >= d
  OBVIOUS
<1>5. R \subseteq S
  OBVIOUS
<1> HIDE DEF rank, n
<1>6. k \in Nat /\ d \in Nat /\ \A j \in 1 .. k : j + d \in 1 .. n
  BY <1>1 DEF n
<1>7. ASSUME NEW j \in 1 .. k PROVE p[j] \in R
  <2>1. j + d \in 1 .. n /\ rank(q[j + d]) = j + d - 1
    BY <1>3, <1>6
  <2>2. q[j + d] \in S /\ rank(q[j + d]) >= d
    BY <1>2, <1>6, <2>1
  <2> QED BY <1>4, <2>2
<1>8. \A x, y \in 1 .. k : x < y => Before(key, p[x], p[y])
  <2> SUFFICES ASSUME NEW x \in 1 .. k, NEW y \in 1 .. k, x < y PROVE Before(key, q[x + d], q[y + d])
    OBVIOUS
  <2>1. x + d \in 1 .. n /\ y + d \in 1 .. n /\ x + d < y + d
    BY <1>6
  <2> QED BY <1>2, <2>1
<1>9. \A s \in R : \E x \in 1 .. k : p[x] = s
  <2> SUFFICES ASSUME NEW s \in R PROVE \E x \in 1 .. k : q[x + d] = s
    OBVIOUS
  <2>1. PICK j \in 1 .. n : q[j] = s
    BY <1>2, <1>5
  <2>2. j - 1 >= d
    BY <1>3, <1>4, <1>5, <2>1
  <2>3. j - d \in 1 .. k /\ (j - d) + d = j
    BY <1>1, <1>6, <2>2
  <2> QED BY <2>1, <2>3
<1>10. \A s \in R : s \in Int /\ key[s] \in Int
  BY <1>5 DEF Keyed
<1>11. p \in [1 .. k -> R]
  BY <1>7
<1> HIDE DEF p, k
<1>12. ByKeyOf(R, key) = p /\ Cardinality(R) = k
  <2>1. k \in Nat
    BY <1>6
  <2>2. ByKeyOf(R, key) = p
    BY <1>8, <1>9, <1>10, <1>11, <2>1, ByKeyUniquely
  <2>3. Cardinality(R) = k
    BY <1>8, <1>9, <1>10, <1>11, <2>1, ByKeyUniquely
  <2> QED BY <2>2, <2>3
<1> QED BY <1>12 DEF p, k, n, Dropped

(* Members with the largest key come last, in ascending order. *)
LEMMA ByKeyThen ==
  ASSUME NEW R, NEW G, NEW key, Keyed(R, key), Keyed(G, key), NEW x \in Int,
         \A s \in R : key[s] < x, \A s \in G : key[s] = x,
         NEW q, q = ByKeyOf(R, key), NEW a, a = Ascends(G)
  PROVE  ByKeyOf(R \cup G, key)
           = [j \in 1 .. Cardinality(R) + Cardinality(G) |->
                IF j <= Cardinality(R) THEN q[j] ELSE a[j - Cardinality(R)]]
<1> DEFINE n == Cardinality(R)
           g == Cardinality(G)
           k == n + g
           S == R \cup G
           p == [j \in 1 .. k |-> IF j <= n THEN q[j] ELSE a[j - n]]
<1>1. n \in Nat /\ g \in Nat
  BY FS_CardinalityType DEF Keyed
<1>2. /\ q \in [1 .. n -> R]
      /\ \A i, j \in 1 .. n : Before(key, q[i], q[j]) <=> i < j
      /\ \A s \in R : \E j \in 1 .. n : q[j] = s
  BY ByKeyLists DEF ListsByKey
<1>3. /\ a \in [1 .. g -> G]
      /\ \A i, j \in 1 .. g : a[i] < a[j] <=> i < j
      /\ \A s \in G : \E j \in 1 .. g : a[j] = s
  <2>1. G \subseteq Int /\ IsFiniteSet(G)
    BY DEF Keyed
  <2>2. ListsUp(a, g, G)
    BY <2>1, AscendsLists
  <2> QED BY <2>2 DEF ListsUp
<1> HIDE DEF n, g
<1>4. \A j \in 1 .. k : j <= n => j \in 1 .. n /\ p[j] = q[j] /\ p[j] \in R
  BY <1>1, <1>2
<1>5. \A j \in 1 .. k : ~(j <= n) => j - n \in 1 .. g /\ p[j] = a[j - n] /\ p[j] \in G
  BY <1>1, <1>3
<1>6. p \in [1 .. k -> S]
  <2>1. \A j \in 1 .. k : p[j] \in S
    BY <1>4, <1>5
  <2> QED BY <2>1
<1>7. \A s \in S : s \in Int /\ key[s] \in Int
  BY DEF Keyed
<1>8. ASSUME NEW i \in 1 .. k, NEW j \in 1 .. k, i < j PROVE Before(key, p[i], p[j])
  <2>1. CASE j <= n
    <3>1. i <= n
      BY <1>1, <1>8, <2>1
    <3> QED BY <1>2, <1>4, <1>8, <2>1, <3>1
  <2>2. CASE i <= n /\ ~(j <= n)
    <3>1. p[i] \in R /\ p[j] \in G
      BY <1>4, <1>5, <2>2
    <3> QED BY <3>1 DEF Before
  <2>3. CASE ~(i <= n)
    <3>1. ~(j <= n) /\ i - n < j - n
      BY <1>1, <1>8, <2>3
    <3>2. p[i] = a[i - n] /\ p[j] = a[j - n] /\ p[i] \in G /\ p[j] \in G
      BY <1>5, <2>3, <3>1
    <3>3. p[i] < p[j]
      BY <1>3, <1>5, <2>3, <3>1, <3>2
    <3> QED BY <3>2, <3>3 DEF Before
  <2> QED BY <2>1, <2>2, <2>3
<1>9. ASSUME NEW s \in S PROVE \E j \in 1 .. k : p[j] = s
  <2>1. CASE s \in R
    <3>1. PICK j \in 1 .. n : q[j] = s
      BY <1>2, <2>1
    <3>2. j \in 1 .. k /\ j <= n
      BY <1>1
    <3> QED BY <1>4, <3>1, <3>2
  <2>2. CASE s \in G
    <3>1. PICK j \in 1 .. g : a[j] = s
      BY <1>3, <2>2
    <3>2. j + n \in 1 .. k /\ ~(j + n <= n) /\ (j + n) - n = j
      BY <1>1
    <3>3. p[j + n] = a[j]
      BY <1>5, <3>2
    <3> QED BY <3>1, <3>2, <3>3
  <2> QED BY <2>1, <2>2
<1>10. k \in Nat
  BY <1>1
<1> HIDE DEF p, k, S
<1>11. ByKeyOf(S, key) = p
  BY <1>6, <1>7, <1>8, <1>9, <1>10, ByKeyUniquely
<1> QED BY <1>11 DEF p, k, n, g, S

(* Sorting what an ascending enumeration finds under a key, ties in place. *)
LEMMA ByKeyOfList ==
  ASSUME NEW S, NEW key, Keyed(S, key), NEW a, a = Ascends(S),
         NEW c, c = [j \in DOMAIN a |-> key[a[j]]],
         NEW o, o = ByKeyOf(DOMAIN a, c)
  PROVE  /\ ByKeyOf(S, key) = [j \in DOMAIN o |-> a[o[j]]]
         /\ \A j \in DOMAIN o : o[j] \in DOMAIN a
<1> DEFINE n == Cardinality(S)
           p == [j \in 1 .. n |-> a[o[j]]]
<1>1. /\ a \in [1 .. n -> S]
      /\ \A x, y \in 1 .. n : a[x] < a[y] <=> x < y
      /\ \A s \in S : \E x \in 1 .. n : a[x] = s
  <2>1. S \subseteq Int /\ IsFiniteSet(S)
    BY DEF Keyed
  <2>2. ListsUp(a, n, S)
    BY <2>1, AscendsLists
  <2> QED BY <2>2 DEF ListsUp
<1>2. n \in Nat
  BY FS_CardinalityType DEF Keyed
<1>3. IsFiniteSet(1 .. n) /\ Cardinality(1 .. n) = n
  BY <1>2, FS_Interval
<1> HIDE DEF n
<1>4. DOMAIN a = 1 .. n
  BY <1>1
<1>5. Keyed(1 .. n, c)
  BY <1>1, <1>3, <1>4 DEF Keyed
<1>6. /\ o \in [1 .. n -> 1 .. n]
      /\ \A x, y \in 1 .. n : Before(c, o[x], o[y]) <=> x < y
      /\ \A s \in 1 .. n : \E x \in 1 .. n : o[x] = s
  <2>1. o = ByKeyOf(1 .. n, c)
    BY <1>4
  <2>2. ListsByKey(o, n, 1 .. n, c)
    BY <1>3, <1>5, <2>1, ByKeyLists
  <2> QED BY <2>2 DEF ListsByKey
<1>7. p \in [1 .. n -> S]
  BY <1>1, <1>6
<1>8. ASSUME NEW x \in 1 .. n, NEW y \in 1 .. n, x < y PROVE Before(key, p[x], p[y])
  <2>1. Before(c, o[x], o[y]) /\ o[x] \in 1 .. n /\ o[y] \in 1 .. n
    BY <1>6, <1>8
  <2>2. c[o[x]] = key[a[o[x]]] /\ c[o[y]] = key[a[o[y]]]
    BY <1>4, <2>1
  <2>3. a[o[x]] < a[o[y]] <=> o[x] < o[y]
    BY <1>1, <2>1
  <2> QED BY <2>1, <2>2, <2>3 DEF Before
<1>9. ASSUME NEW s \in S PROVE \E x \in 1 .. n : p[x] = s
  <2>1. PICK y \in 1 .. n : a[y] = s
    BY <1>1
  <2>2. PICK x \in 1 .. n : o[x] = y
    BY <1>6
  <2> QED BY <2>1, <2>2
<1>10. \A s \in S : s \in Int /\ key[s] \in Int
  BY DEF Keyed
<1> HIDE DEF p
<1>11. ByKeyOf(S, key) = p
  BY <1>2, <1>7, <1>8, <1>9, <1>10, ByKeyUniquely
<1> QED BY <1>4, <1>6, <1>11 DEF p

(* The first n members in ascending order are n. *)
LEMMA LowestCount ==
  ASSUME NEW S, S \subseteq Int, IsFiniteSet(S), NEW n \in 0 .. Cardinality(S)
  PROVE  Cardinality(LowestOf(S, n)) = n /\ IsFiniteSet(LowestOf(S, n))
<1> DEFINE k == Cardinality(S)
           key == [s \in S |-> 0]
           rank(s) == RankIn(S, key, s)
           L == {s \in S : rank(s) < n}
           q == ByKeyOf(S, key)
           p == [j \in 1 .. n |-> q[j]]
<1>1. \A s, t \in S : Before(key, s, t) <=> s < t
  BY DEF Before
<1>2. k \in Nat
  BY FS_CardinalityType
<1>3. Keyed(S, key)
  BY DEF Keyed
<1> HIDE DEF key
<1>4. \A s \in S : {t \in S : Before(key, t, s)} = {t \in S : t < s}
  BY <1>1
<1>5. LowestOf(S, n) = L
  BY <1>4 DEF LowestOf, RankIn
<1>6. /\ q \in [1 .. k -> S]
      /\ \A x, y \in 1 .. k : Before(key, q[x], q[y]) <=> x < y
      /\ \A s \in S : \E x \in 1 .. k : q[x] = s
  BY <1>3, ByKeyLists DEF ListsByKey
<1>7. \A x \in 1 .. k : rank(q[x]) = x - 1
  BY <1>3, ByKeyLists
<1> HIDE DEF rank, k, q
<1>8. \A x \in 1 .. n : x \in 1 .. k /\ x - 1 < n
  BY <1>2 DEF k
<1>9. p \in [1 .. n -> L]
  BY <1>6, <1>7, <1>8
<1>10. \A x, y \in 1 .. n : p[x] = p[y] => x = y
  <2> SUFFICES ASSUME NEW x \in 1 .. n, NEW y \in 1 .. n, q[x] = q[y] PROVE x = y
    OBVIOUS
  <2>1. x - 1 = y - 1
    BY <1>7, <1>8
  <2> QED BY <2>1
<1>11. \A s \in L : \E x \in 1 .. n : p[x] = s
  <2> SUFFICES ASSUME NEW s \in S, rank(s) < n PROVE \E x \in 1 .. n : q[x] = s
    OBVIOUS
  <2>1. PICK x \in 1 .. k : q[x] = s
    BY <1>6
  <2>2. x \in 1 .. n
    BY <1>2, <1>7, <2>1 DEF k
  <2> QED BY <2>1, <2>2
<1>12. IsFiniteSet(1 .. n) /\ Cardinality(1 .. n) = n
  <2>1. n \in Nat
    BY <1>2 DEF k
  <2> QED BY <2>1, FS_Interval
<1> HIDE DEF L, p
<1>13. IsFiniteSet(L) /\ Cardinality(L) = n
  BY <1>9, <1>10, <1>11, <1>12, Counted
<1> QED BY <1>5, <1>13

LEMMA ByKeySame ==
  ASSUME NEW S, NEW key, Keyed(S, key), NEW lock, \A s \in S : lock[s] = key[s]
  PROVE  ByKeyOf(S, lock) = ByKeyOf(S, key)
<1> DEFINE q == ByKeyOf(S, key)
           k == Cardinality(S)
<1>1. k \in Nat
  BY FS_CardinalityType DEF Keyed
<1>2. /\ q \in [1 .. k -> S]
      /\ \A x, y \in 1 .. k : Before(key, q[x], q[y]) <=> x < y
      /\ \A s \in S : \E x \in 1 .. k : q[x] = s
  BY ByKeyLists DEF ListsByKey
<1> HIDE DEF q, k
<1>3. \A x, y \in 1 .. k : x < y => Before(lock, q[x], q[y])
  BY <1>2 DEF Before
<1>4. \A s \in S : s \in Int /\ lock[s] \in Int
  BY DEF Keyed
<1>5. ByKeyOf(S, lock) = q
  BY <1>1, <1>2, <1>3, <1>4, ByKeyUniquely
<1> QED BY <1>5 DEF q

-----------------------------------------------------------------------------
(* The window that live slots encode: the slots S by the stamps o of their *)
(* owners, with their provisional flags p.                                 *)
WindowBy(S, o, p) ==
  LET order == ByKeyOf(S, o)
  IN [j \in DOMAIN order |-> [stamp |-> o[order[j]], pred |-> p[order[j]]]]

(* The stamps of what a forward read, in their order. *)
StampsBy(shown) ==
  LET stamps == [j \in DOMAIN shown |-> shown[j][2]]
      order == ByKeyOf(DOMAIN shown, stamps)
  IN [j \in DOMAIN order |-> stamps[order[j]]]

(* Of the slots S only R stays, all but the first d; those of G join it    *)
(* with stamp x and flag b.                                                *)
Joins(S, o, p, d, R, G, o2, p2, x, b) ==
  /\ Keyed(S, o) /\ Keyed(G, o2) /\ x \in Int
  /\ d \in 0 .. Cardinality(S) /\ R = {s \in S : RankIn(S, o, s) >= d}
  /\ \A s \in R : o[s] < x /\ o2[s] = o[s] /\ p2[s] = p[s]
  /\ \A s \in G : o2[s] = x /\ p2[s] = b

LEMMA WindowMoves ==
  ASSUME NEW S, NEW o, NEW p, NEW d, NEW R, NEW G, NEW o2, NEW p2, NEW x, NEW b,
         Joins(S, o, p, d, R, G, o2, p2, x, b)
  PROVE  /\ WindowBy(R, o2, p2) = Dropped(WindowBy(S, o, p), Cardinality(S), d)
         /\ WindowBy(R \cup G, o2, p2)
              = Shifted(WindowBy(S, o, p), Cardinality(S), d, Cardinality(G), [stamp |-> x, pred |-> b])
<1> DEFINE n == Cardinality(S)
           k == n - d
           g == Cardinality(G)
           q == ByKeyOf(S, o)
           r == ByKeyOf(R, o)
           u == ByKeyOf(R \cup G, o2)
           a == Ascends(G)
           w == WindowBy(S, o, p)
           token(s) == [stamp |-> o[s], pred |-> p[s]]
           token2(s) == [stamp |-> o2[s], pred |-> p2[s]]
<1> USE DEF Joins
<1>1. n \in Nat /\ g \in Nat
  BY FS_CardinalityType DEF Keyed
<1>2. r = [j \in 1 .. k |-> q[j + d]] /\ Cardinality(R) = k
  <2>1. r = Dropped(q, n, d) /\ Cardinality(R) = k
    BY ByKeyNewest
  <2> QED BY <2>1 DEF Dropped
<1>3. R \subseteq S
  OBVIOUS
<1>4. Keyed(R, o) /\ Keyed(R, o2)
  BY <1>3, FS_Subset DEF Keyed
<1>5. ByKeyOf(R, o2) = r
  BY <1>4, ByKeySame
<1>6. u = [j \in 1 .. k + g |-> IF j <= k THEN r[j] ELSE a[j - k]]
  <2>1. \A s \in R : o2[s] < x
    OBVIOUS
  <2>2. \A s \in G : o2[s] = x
    OBVIOUS
  <2>3. u = [j \in 1 .. Cardinality(R) + Cardinality(G) |->
               IF j <= Cardinality(R) THEN r[j] ELSE a[j - Cardinality(R)]]
    BY <1>4, <1>5, <2>1, <2>2, ByKeyThen
  <2> QED BY <1>2, <2>3
<1>7. ListsByKey(q, n, S, o)
  BY ByKeyLists
<1>8. ListsByKey(r, k, R, o)
  BY <1>2, <1>4, ByKeyLists
<1>9. ListsUp(a, g, G)
  <2>1. G \subseteq Int /\ IsFiniteSet(G)
    BY DEF Keyed
  <2> QED BY <2>1, AscendsLists
<1>10. w = [j \in DOMAIN q |-> token(q[j])]
  BY DEF WindowBy
<1>11. /\ WindowBy(R, o2, p2) = [j \in DOMAIN r |-> token2(r[j])]
       /\ WindowBy(R \cup G, o2, p2) = [j \in DOMAIN u |-> token2(u[j])]
  BY <1>5 DEF WindowBy
<1>12. /\ \A s \in R : token2(s) = token(s)
       /\ \A s \in G : token2(s) = [stamp |-> x, pred |-> b]
  OBVIOUS
<1> HIDE DEF n, g, q, r, u, a, w, token, token2
<1>13. /\ DOMAIN q = 1 .. n /\ DOMAIN r = 1 .. k /\ \A j \in 1 .. k : r[j] \in R
       /\ \A j \in 1 .. g : a[j] \in G
  BY <1>7, <1>8, <1>9 DEF ListsByKey, ListsUp
<1>14. \A j \in 1 .. k : token2(r[j]) = w[j + d]
  <2> SUFFICES ASSUME NEW j \in 1 .. k PROVE token2(r[j]) = w[j + d]
    OBVIOUS
  <2>1. j + d \in 1 .. n /\ r[j] = q[j + d]
    BY <1>1, <1>2 DEF n
  <2> QED BY <1>10, <1>12, <1>13, <2>1
<1>15. WindowBy(R, o2, p2) = [j \in 1 .. k |-> w[j + d]]
  BY <1>11, <1>13, <1>14
<1>16. \A j \in 1 .. k + g : token2(u[j]) = IF j <= k THEN w[j + d] ELSE [stamp |-> x, pred |-> b]
  <2> SUFFICES ASSUME NEW j \in 1 .. k + g
               PROVE  token2(u[j]) = IF j <= k THEN w[j + d] ELSE [stamp |-> x, pred |-> b]
    OBVIOUS
  <2>0. k \in Nat
    BY <1>1 DEF n
  <2>1. CASE j <= k
    <3>1. j \in 1 .. k /\ u[j] = r[j]
      BY <1>6, <2>0, <2>1
    <3> QED BY <1>14, <2>1, <3>1
  <2>2. CASE ~(j <= k)
    <3>1. j - k \in 1 .. g /\ u[j] = a[j - k]
      BY <1>1, <1>6, <2>0, <2>2
    <3> QED BY <1>12, <1>13, <2>2, <3>1
  <2> QED BY <2>1, <2>2
<1>17. DOMAIN u = 1 .. k + g
  BY <1>6
<1>18. WindowBy(R \cup G, o2, p2)
         = [j \in 1 .. k + g |-> IF j <= k THEN w[j + d] ELSE [stamp |-> x, pred |-> b]]
  BY <1>11, <1>16, <1>17
<1>19. WindowBy(R, o2, p2) = Dropped(w, n, d)
  BY <1>15 DEF Dropped
<1>20. WindowBy(R \cup G, o2, p2) = Shifted(w, n, d, g, [stamp |-> x, pred |-> b])
  BY <1>18 DEF Shifted
<1> QED BY <1>19, <1>20 DEF n, g, w

(* What a forward reads, by stamp, are the stamps of the window. *)
LEMMA ReadsWindow ==
  ASSUME NEW S, NEW o, Keyed(S, o), NEW k, \A s \in S : k[s] = o[s], NEW p,
         NEW a, a = Ascends(S),
         NEW shown, shown = [j \in DOMAIN a |-> <<a[j], k[a[j]]>>]
  PROVE  StampsBy(shown) = [j \in DOMAIN WindowBy(S, o, p) |-> WindowBy(S, o, p)[j].stamp]
<1> DEFINE c == [j \in DOMAIN a |-> o[a[j]]]
           u == ByKeyOf(DOMAIN a, c)
           v == ByKeyOf(S, o)
<1>1. v = [j \in DOMAIN u |-> a[u[j]]] /\ \A j \in DOMAIN u : u[j] \in DOMAIN a
  BY ByKeyOfList
<1>2. \A j \in DOMAIN a : a[j] \in S
  <2>1. S \subseteq Int /\ IsFiniteSet(S)
    BY DEF Keyed
  <2>2. ListsUp(a, Cardinality(S), S)
    BY <2>1, AscendsLists
  <2> QED BY <2>2 DEF ListsUp
<1>3. DOMAIN shown = DOMAIN a
  OBVIOUS
<1>4. \A j \in DOMAIN a : shown[j][2] = c[j]
  BY <1>2
<1>5. [j \in DOMAIN shown |-> shown[j][2]] = c
  BY <1>3, <1>4
<1>6. StampsBy(shown) = [j \in DOMAIN u |-> c[u[j]]]
  BY <1>3, <1>5 DEF StampsBy
<1>7. WindowBy(S, o, p) = [j \in DOMAIN v |-> [stamp |-> o[v[j]], pred |-> p[v[j]]]]
  BY DEF WindowBy
<1> HIDE DEF u, v
<1>8. DOMAIN v = DOMAIN u /\ \A j \in DOMAIN u : c[u[j]] = o[v[j]]
  BY <1>1
<1>9. DOMAIN WindowBy(S, o, p) = DOMAIN u /\ \A j \in DOMAIN u : WindowBy(S, o, p)[j].stamp = o[v[j]]
  BY <1>7, <1>8
<1>10. [j \in DOMAIN u |-> c[u[j]]] = [j \in DOMAIN u |-> WindowBy(S, o, p)[j].stamp]
  BY <1>8, <1>9
<1> QED BY <1>6, <1>9, <1>10

(* The slots that stay, when some are taken out of the window. *)
LEMMA WindowLoses ==
  ASSUME NEW S, NEW o, Keyed(S, o), NEW p, \A s \in S : p[s] \in BOOLEAN,
         NEW R, R = {s \in S : ~p[s]},
         NEW w, w = WindowBy(S, o, p),
         NEW e, e = Ascends({j \in DOMAIN w : ~w[j].pred})
  PROVE  WindowBy(R, o, p) = [j \in DOMAIN e |-> w[e[j]]]
<1> DEFINE n == Cardinality(S)
           q == ByKeyOf(S, o)
           J == {j \in 1 .. n : q[j] \in R}
           r == ByKeyOf(R, o)
<1>1. ListsByKey(q, n, S, o)
  BY ByKeyLists
<1>2. w = [j \in DOMAIN q |-> [stamp |-> o[q[j]], pred |-> p[q[j]]]]
  BY DEF WindowBy
<1> HIDE DEF n, q
<1>3. DOMAIN q = 1 .. n /\ \A j \in 1 .. n : q[j] \in S
  BY <1>1 DEF ListsByKey
<1>4. {j \in DOMAIN w : ~w[j].pred} = J
  <2>1. DOMAIN w = 1 .. n
    BY <1>2, <1>3
  <2>2. \A j \in 1 .. n : w[j].pred = p[q[j]]
    BY <1>2, <1>3
  <2>3. \A j \in 1 .. n : ~w[j].pred <=> q[j] \in R
    BY <1>3, <2>2
  <2> QED BY <2>1, <2>3
<1>5. e = Ascends(J)
  BY <1>4
<1>6. r = [j \in DOMAIN e |-> q[e[j]]]
  <2>1. R \subseteq S
    OBVIOUS
  <2>2. e = Ascends({j \in 1 .. Cardinality(S) : q[j] \in R})
    BY <1>5 DEF n
  <2>3. r = Picked(q, e)
    BY <2>1, <2>2, ByKeyPart DEF q
  <2> QED BY <2>3 DEF Picked
<1>7. \A j \in DOMAIN e : e[j] \in 1 .. n
  <2>1. J \subseteq 1 .. n
    OBVIOUS
  <2>2. n \in Nat
    BY FS_CardinalityType DEF Keyed, n
  <2>3. IsFiniteSet(J) /\ J \subseteq Int
    <3>1. IsFiniteSet(1 .. n) /\ 1 .. n \subseteq Int
      BY <2>2, FS_Interval
    <3> HIDE DEF J
    <3> QED BY <2>1, <3>1, FS_Subset
  <2>4. ListsUp(e, Cardinality(J), J)
    BY <1>5, <2>3, AscendsLists
  <2> HIDE DEF J
  <2> QED BY <2>1, <2>4 DEF ListsUp
<1>8. WindowBy(R, o, p) = [j \in DOMAIN r |-> [stamp |-> o[r[j]], pred |-> p[r[j]]]]
  BY DEF WindowBy
<1> HIDE DEF r
<1>9. \A j \in DOMAIN e : w[e[j]] = [stamp |-> o[r[j]], pred |-> p[r[j]]]
  BY <1>2, <1>3, <1>6, <1>7
<1> QED BY <1>6, <1>8, <1>9

-----------------------------------------------------------------------------
(* The allocator on any pool. *)

LEMMA SlotsRead ==
  ASSUME NEW T \in Nat \ {0}, NEW m, NEW i, NEW n
  PROVE  /\ IsFiniteSet(ReadIn(T, m, i, n)) /\ ReadIn(T, m, i, n) \subseteq SlotRange(T)
         /\ \A s \in KeptIn(T, m, i, n) : s \in SlotRange(T) /\ m[s] /\ s \notin GrantedIn(T, m, i, n)
         /\ \A s \in GrantedIn(T, m, i, n) : s \in SlotRange(T)
<1>1. ReadIn(T, m, i, n) \subseteq SlotRange(T)
  BY DEF ReadIn, KeptIn, LiveIn, GrantedIn, LowestOf
<1>2. IsFiniteSet(SlotRange(T))
  BY PoolCount
<1>3. IsFiniteSet(ReadIn(T, m, i, n))
  BY <1>1, <1>2, FS_Subset
<1> QED BY <1>1, <1>3 DEF ReadIn, KeptIn, LiveIn, GrantedIn, LowestOf

(* Two forwards that read equal K/V read alike. *)
LEMMA SeenAlike ==
  ASSUME NEW T \in Nat \ {0}, NEW m, NEW i, NEW n, NEW k, NEW l,
         \A s \in ReadIn(T, m, i, n) : k[s] = l[s]
  PROVE  SeenIn(T, m, i, n, k) = SeenIn(T, m, i, n, l)
<1> DEFINE read == ReadIn(T, m, i, n)
<1>1. IsFiniteSet(read) /\ read \subseteq Int
  BY SlotsRead DEF SlotRange
<1> HIDE DEF read
<1>2. \A j \in DOMAIN Ascends(read) : Ascends(read)[j] \in read
  BY <1>1, AscendsMembers
<1>3. \A j \in DOMAIN Ascends(read) : k[Ascends(read)[j]] = l[Ascends(read)[j]]
  BY <1>2 DEF read
<1> QED BY <1>3 DEF SeenIn, read

(* The id the allocator grants is determined by the pool. *)
LEMMA TakesOnce ==
  ASSUME NEW T \in Nat \ {0}, NEW n, NEW uc, NEW m \in [SlotRange(T) -> BOOLEAN],
         NEW i \in [SlotRange(T) -> Int], NEW p,
         NEW m2, NEW i2, NEW p2, Takes(T, n, uc, m, i, p, m2, i2, p2),
         NEW m3, NEW i3, NEW p3, Takes(T, n, uc, m, i, p, m3, i3, p3)
  PROVE  m2 = m3 /\ i2 = i3 /\ p2 = p3
<1> DEFINE kept == KeptIn(T, m, i, n)
<1>1. kept \subseteq SlotRange(T)
  BY SlotsRead
<1>2. \A g, h \in NewIdsIn(T, m, i, n) : g = h
  <2> SUFFICES ASSUME NEW g \in NewIdsIn(T, m, i, n), NEW h \in NewIdsIn(T, m, i, n) PROVE g = h
    OBVIOUS
  <2>1. CASE kept = {}
    BY <2>1 DEF NewIdsIn
  <2>2. CASE kept # {}
    <3>1. PICK s \in kept : g = i[s] + 1 /\ \A t \in kept : i[t] <= i[s]
      BY <2>2 DEF NewIdsIn
    <3>2. PICK r \in kept : h = i[r] + 1 /\ \A t \in kept : i[t] <= i[r]
      BY <2>2 DEF NewIdsIn
    <3> HIDE DEF kept
    <3>3. i[s] \in Int /\ i[r] \in Int /\ i[s] <= i[r] /\ i[r] <= i[s]
      BY <1>1, <3>1, <3>2
    <3> QED BY <3>1, <3>2, <3>3
  <2> QED BY <2>1, <2>2
<1>3. m2 = m3 /\ p2 = p3
  BY DEF Takes
<1>4. i2 = i3
  BY <1>2 DEF Takes
<1> QED BY <1>3, <1>4

(* The id of a block is newer than every id that survives it. *)
LEMMA NewIdIsNewest ==
  ASSUME NEW T \in Nat \ {0}, NEW m, NEW i \in [SlotRange(T) -> Int], NEW n,
         NEW g \in NewIdsIn(T, m, i, n)
  PROVE  g \in Int /\ \A s \in KeptIn(T, m, i, n) : i[s] < g
<1> DEFINE kept == KeptIn(T, m, i, n)
<1>1. kept \subseteq SlotRange(T)
  BY DEF KeptIn, LiveIn
<1>2. \/ kept = {} /\ g = 0
      \/ \E k \in kept : g = i[k] + 1 /\ \A t \in kept : i[t] <= i[k]
  BY DEF NewIdsIn
<1> HIDE DEF kept
<1>3. g \in Int /\ \A s \in kept : i[s] < g
  BY <1>1, <1>2
<1> QED BY <1>3 DEF kept

LEMMA TakesTypes ==
  ASSUME NEW T \in Nat \ {0}, NEW n, NEW uc, NEW m \in [SlotRange(T) -> BOOLEAN],
         NEW i \in [SlotRange(T) -> Int], NEW p,
         NEW m2, NEW i2, NEW p2, Takes(T, n, uc, m, i, p, m2, i2, p2)
  PROVE  m2 \in [SlotRange(T) -> BOOLEAN] /\ i2 \in [SlotRange(T) -> Int]
<1>1. m2 \in [SlotRange(T) -> BOOLEAN]
  <2> DEFINE bit(s) == IF s \in GrantedIn(T, m, i, n) THEN uc # 0
                       ELSE m[s] /\ s \notin EvictedIn(T, m, i, n)
  <2>1. m2 = [s \in SlotRange(T) |-> bit(s)]
    BY DEF Takes
  <2>2. \A s \in SlotRange(T) : bit(s) \in BOOLEAN
    OBVIOUS
  <2> HIDE DEF bit
  <2> QED BY <2>1, <2>2
<1>2. PICK g \in NewIdsIn(T, m, i, n) :
        i2 = [s \in SlotRange(T) |-> IF s \in GrantedIn(T, m, i, n) THEN g
                               ELSE IF s \in EvictedIn(T, m, i, n) THEN -1 ELSE i[s]]
  BY DEF Takes
<1>3. g \in Int
  BY NewIdIsNewest
<1> QED BY <1>1, <1>2, <1>3

(* What a forward leaves live it read: a slot of its own, or one that was  *)
(* live and keeps its flag.                                                *)
LEMMA TakesLive ==
  ASSUME NEW T \in Nat \ {0}, NEW n, NEW uc, NEW m, NEW i, NEW p,
         NEW m2, NEW i2, NEW p2, Takes(T, n, uc, m, i, p, m2, i2, p2)
  PROVE  /\ \A s \in SlotRange(T) : m2[s] => s \in ReadIn(T, m, i, n)
         /\ \A s \in GrantedIn(T, m, i, n) : p2[s] = (uc = 1)
         /\ \A s \in KeptIn(T, m, i, n) : p2[s] = p[s] /\ m[s]
<1>1. ASSUME NEW s \in SlotRange(T), m2[s] PROVE s \in ReadIn(T, m, i, n)
  <2>1. m2[s] = (IF s \in GrantedIn(T, m, i, n) THEN uc # 0
                 ELSE m[s] /\ s \notin EvictedIn(T, m, i, n))
    BY DEF Takes
  <2> QED BY <1>1, <2>1 DEF ReadIn, KeptIn, LiveIn
<1>2. p2 = [s \in SlotRange(T) |-> IF s \in GrantedIn(T, m, i, n) THEN uc = 1 ELSE p[s]]
  BY DEF Takes
<1> QED BY <1>1, <1>2, SlotsRead

(* Pools that agree keep agreeing, and their forwards read alike. *)
LEMMA WritesAlike ==
  ASSUME NEW T \in Nat \ {0}, NEW n, NEW uc, NEW x, NEW m, NEW i, NEW p,
         NEW m2, NEW i2, NEW p2, Takes(T, n, uc, m, i, p, m2, i2, p2),
         NEW k, NEW l, Agree(T, m, k, l),
         NEW k2, NEW l2, NEW seen, NEW see,
         Writes(T, n, x, m, i, k, k2, seen), Writes(T, n, x, m, i, l, l2, see)
  PROVE  seen = see /\ Agree(T, m2, k2, l2)
<1>1. \A s \in ReadIn(T, m, i, n) : k2[s] = l2[s]
  BY SlotsRead DEF Writes, ReadIn, Agree
<1>2. seen = see
  BY <1>1, SeenAlike DEF Writes
<1>3. Agree(T, m2, k2, l2)
  BY <1>1, TakesLive DEF Agree
<1> QED BY <1>2, <1>3

-----------------------------------------------------------------------------
(* A block that fits behind the head takes the free slots there and the    *)
(* oldest live ones: the allocator grants what the ring writes.            *)
LEMMA GrantsAtHead ==
  ASSUME NEW T \in Nat \ {0}, NEW h \in SlotRange(T), NEW f \in 0 .. T, NEW n \in 1 .. T,
         h + n <= T, h + f <= T, NEW r, NEW m, NEW i, NEW p, Orderly(T, h, f, r, m, i, p)
  PROVE  /\ GrantedIn(T, m, i, n) = h .. h + n - 1
         /\ \A s \in SlotRange(T) :
              /\ s \in EvictedIn(T, m, i, n) <=> f <= Pos(T, h, s) /\ Pos(T, h, s) < n
              /\ s \in KeptIn(T, m, i, n) <=> f <= Pos(T, h, s) /\ n <= Pos(T, h, s)
<1> DEFINE live == LiveIn(T, m)
           between(a, b) == {s \in SlotRange(T) : a <= Pos(T, h, s) /\ Pos(T, h, s) < b}
<1>1. \A s \in SlotRange(T) : Pos(T, h, s) \in Int /\ 0 <= Pos(T, h, s) /\ Pos(T, h, s) < T
  BY DEF SlotRange, Pos
<1>2. live = between(f, T) /\ SlotRange(T) \ live = between(0, f)
  BY <1>1 DEF Orderly, LiveIn
<1>3. Cardinality(SlotRange(T) \ live) = f
  <2>1. Cardinality(between(0, f)) = f - 0
    BY CountOfPositions
  <2> QED BY <1>2, <2>1
<1>4. ASSUME NEW s \in live
      PROVE  Cardinality({t \in live : Before(i, t, s)}) = Pos(T, h, s) - f
  <2>1. s \in SlotRange(T) /\ f <= Pos(T, h, s) /\ Pos(T, h, s) \in f .. T
    BY <1>1, <1>2
  <2>2. {t \in live : Before(i, t, s)} = {t \in live : Pos(T, h, t) < Pos(T, h, s)}
    BY Zenon DEF Orderly
  <2>3. {t \in live : Pos(T, h, t) < Pos(T, h, s)} = between(f, Pos(T, h, s))
    BY <1>1, <1>2, <2>1
  <2>4. Cardinality(between(f, Pos(T, h, s))) = Pos(T, h, s) - f
    BY <2>1, CountOfPositions
  <2> QED BY <2>2, <2>3, <2>4
<1>5. EvictedIn(T, m, i, n) = {s \in live : Pos(T, h, s) - f < n - f}
  BY <1>3, <1>4 DEF EvictedIn
<1> HIDE DEF live
<1>6. ASSUME NEW s \in SlotRange(T)
      PROVE  /\ s \in EvictedIn(T, m, i, n) <=> f <= Pos(T, h, s) /\ Pos(T, h, s) < n
             /\ s \in KeptIn(T, m, i, n) <=> f <= Pos(T, h, s) /\ n <= Pos(T, h, s)
  BY <1>1, <1>2, <1>5 DEF KeptIn, live
<1>7. GrantedIn(T, m, i, n) = h .. h + n - 1
  <2> DEFINE last == IF f <= n THEN h + n - 1 ELSE h + f - 1
  <2>1. KeptIn(T, m, i, n) \subseteq SlotRange(T)
    BY <1>2 DEF KeptIn, live
  <2>2. SlotRange(T) \ KeptIn(T, m, i, n) = h .. last
    BY <1>1, <1>6, <2>1 DEF SlotRange, Pos
  <2>3. h \in Int /\ last \in Int /\ n \in Nat /\ n <= last - h + 1
    BY DEF SlotRange
  <2> HIDE DEF last
  <2> QED BY <2>2, <2>3, LowestOfInterval DEF GrantedIn
<1> QED BY <1>6, <1>7

(* A block of n slots at the head, newer than the slots it leaves alone.   *)
BlockAtHead(T, h, n, uc, m, i, p, m2, i2, p2) ==
  /\ m2 = [s \in SlotRange(T) |-> IF s \in h .. h + n - 1 THEN uc # 0 ELSE m[s]]
  /\ i2 \in [SlotRange(T) -> Int]
  /\ \A s \in SlotRange(T) :
       /\ m[s] /\ Pos(T, h, s) >= n => i2[s] = i[s] /\ p2[s] = p[s]
       /\ Pos(T, h, s) < n => p2[s] = (uc = 1)
       /\ m2[s] <=> (Pos(T, h, s) < n /\ uc # 0) \/ (Pos(T, h, s) >= n /\ m[s])
  /\ \A s, t \in SlotRange(T) :
       /\ m[s] /\ Pos(T, h, s) >= n /\ Pos(T, h, t) < n => i2[s] < i2[t]
       /\ Pos(T, h, s) < n /\ Pos(T, h, t) < n => i2[s] = i2[t]

LEMMA BlockPositions ==
  ASSUME NEW T \in Nat \ {0}, NEW h \in SlotRange(T), NEW n \in 1 .. T, h + n <= T
  PROVE  \A s \in SlotRange(T) : s \in h .. h + n - 1 <=> Pos(T, h, s) < n
BY DEF SlotRange, Pos

LEMMA TakenAtHead ==
  ASSUME NEW T \in Nat \ {0}, NEW h \in SlotRange(T), NEW f \in 0 .. T, NEW n \in 1 .. T,
         h + n <= T, h + f <= T, NEW r,
         NEW m \in [SlotRange(T) -> BOOLEAN], NEW i \in [SlotRange(T) -> Int], NEW p,
         Orderly(T, h, f, r, m, i, p),
         NEW uc, NEW m2, NEW i2, NEW p2, Takes(T, n, uc, m, i, p, m2, i2, p2)
  PROVE  BlockAtHead(T, h, n, uc, m, i, p, m2, i2, p2)
<1> DEFINE block == h .. h + n - 1
<1>1. /\ GrantedIn(T, m, i, n) = block
      /\ \A s \in SlotRange(T) :
           /\ s \in EvictedIn(T, m, i, n) <=> f <= Pos(T, h, s) /\ Pos(T, h, s) < n
           /\ s \in KeptIn(T, m, i, n) <=> f <= Pos(T, h, s) /\ n <= Pos(T, h, s)
  BY GrantsAtHead
<1>2. \A s \in SlotRange(T) : (s \in block <=> Pos(T, h, s) < n) /\ Pos(T, h, s) \in Int
  BY DEF SlotRange, Pos
<1>3. \A s \in SlotRange(T) : m[s] <=> Pos(T, h, s) >= f
  BY DEF Orderly
<1> HIDE DEF block
<1>4. PICK g \in NewIdsIn(T, m, i, n) :
        i2 = [s \in SlotRange(T) |-> IF s \in block THEN g
                               ELSE IF s \in EvictedIn(T, m, i, n) THEN -1 ELSE i[s]]
  BY <1>1 DEF Takes
<1>5. g \in Int /\ \A s \in KeptIn(T, m, i, n) : i[s] < g
  BY NewIdIsNewest
<1>6. i2 \in [SlotRange(T) -> Int]
  BY <1>4, <1>5
<1>7. m2 = [s \in SlotRange(T) |-> IF s \in block THEN uc # 0 ELSE m[s]]
  <2>1. m2 = [s \in SlotRange(T) |->
                IF s \in block THEN uc # 0 ELSE m[s] /\ s \notin EvictedIn(T, m, i, n)]
    BY <1>1 DEF Takes
  <2>2. \A s \in SlotRange(T) : s \notin block => s \notin EvictedIn(T, m, i, n)
    BY <1>1, <1>2
  <2>3. \A s \in SlotRange(T) : s \notin block => (m[s] /\ s \notin EvictedIn(T, m, i, n)) = m[s]
    BY <2>2
  <2> QED BY <2>1, <2>3
<1>8. p2 = [s \in SlotRange(T) |-> IF s \in block THEN uc = 1 ELSE p[s]]
  BY <1>1 DEF Takes
<1>9. ASSUME NEW s \in SlotRange(T), m[s], Pos(T, h, s) >= n
      PROVE  i2[s] = i[s] /\ p2[s] = p[s] /\ i[s] < g
  BY <1>1, <1>2, <1>3, <1>4, <1>5, <1>8, <1>9
<1>10. ASSUME NEW s \in SlotRange(T), Pos(T, h, s) < n
       PROVE  i2[s] = g /\ p2[s] = (uc = 1)
  BY <1>2, <1>4, <1>8, <1>10
<1>11. ASSUME NEW s \in SlotRange(T)
       PROVE  m2[s] <=> (Pos(T, h, s) < n /\ uc # 0) \/ (Pos(T, h, s) >= n /\ m[s])
  <2>1. CASE s \in block
    <3>1. m2[s] = (uc # 0)
      BY <1>7, <2>1
    <3>2. Pos(T, h, s) < n /\ ~(Pos(T, h, s) >= n)
      BY <1>2, <2>1
    <3> QED BY <3>1, <3>2, Zenon
  <2>2. CASE s \notin block
    <3>1. m2[s] = m[s]
      BY <1>7, <2>2
    <3> QED BY <1>2, <2>2, <3>1
  <2> QED BY <2>1, <2>2
<1>12. /\ \A s \in SlotRange(T) :
            /\ m[s] /\ Pos(T, h, s) >= n => i2[s] = i[s] /\ p2[s] = p[s]
            /\ Pos(T, h, s) < n => p2[s] = (uc = 1)
       /\ \A s, t \in SlotRange(T) :
            /\ m[s] /\ Pos(T, h, s) >= n /\ Pos(T, h, t) < n => i2[s] < i2[t]
            /\ Pos(T, h, s) < n /\ Pos(T, h, t) < n => i2[s] = i2[t]
  BY <1>9, <1>10
<1> QED BY <1>6, <1>7, <1>11, <1>12 DEF block, BlockAtHead

(* A transient block leaves as much room as it made. *)
LEMMA TransientKeepsOrder ==
  ASSUME NEW T \in Nat \ {0}, NEW h \in SlotRange(T), NEW f \in 0 .. T, NEW n \in 1 .. T,
         h + n <= T, h + f <= T, NEW r \in Nat,
         NEW m \in [SlotRange(T) -> BOOLEAN], NEW i \in [SlotRange(T) -> Int], NEW p,
         Orderly(T, h, f, r, m, i, p),
         NEW m2, NEW i2, NEW p2, Takes(T, n, 0, m, i, p, m2, i2, p2)
  PROVE  Orderly(T, h, IF f <= n THEN n ELSE f, r, m2, i2, p2)
<1>1. BlockAtHead(T, h, n, 0, m, i, p, m2, i2, p2)
  BY TakenAtHead
<1>2. \A s \in SlotRange(T) : Pos(T, h, s) \in Int
  BY DEF SlotRange, Pos
<1>3. \A s \in SlotRange(T) : m2[s] <=> m[s] /\ Pos(T, h, s) >= n
  BY <1>1, <1>2 DEF BlockAtHead
<1>4. \A s \in LiveIn(T, m2) :
        s \in SlotRange(T) /\ s \in LiveIn(T, m) /\ i2[s] = i[s] /\ p2[s] = p[s]
  BY <1>1, <1>3 DEF LiveIn, BlockAtHead
<1>5. \A s \in SlotRange(T) : m2[s] <=> Pos(T, h, s) >= IF f <= n THEN n ELSE f
  BY <1>2, <1>3 DEF Orderly
<1>6. \A s, t \in LiveIn(T, m2) : Before(i2, t, s) <=> Pos(T, h, t) < Pos(T, h, s)
  BY <1>4 DEF Orderly, Before
<1>7. \A s \in LiveIn(T, m2) : p2[s] <=> Pos(T, h, s) >= T - r
  BY <1>4 DEF Orderly
<1> QED BY <1>5, <1>6, <1>7 DEF Orderly

(* A block that stays is the newest, and the head moves past it. *)
LEMMA CommitKeepsOrder ==
  ASSUME NEW T \in Nat \ {0}, NEW h \in SlotRange(T), NEW f \in 0 .. T, NEW n \in 1 .. T,
         h + n <= T, h + f <= T, NEW r \in Nat,
         NEW m \in [SlotRange(T) -> BOOLEAN], NEW i \in [SlotRange(T) -> Int], NEW p,
         Orderly(T, h, f, r, m, i, p),
         NEW uc \in 1 .. 2, uc = 2 => r = 0,
         NEW m2, NEW i2, NEW p2, Takes(T, n, uc, m, i, p, m2, i2, p2)
  PROVE  Orderly(T, IF h + n = T THEN 0 ELSE h + n, IF f <= n THEN 0 ELSE f - n,
                 IF uc = 1 THEN r + n ELSE 0, m2, i2, p2)
<1> DEFINE h2 == IF h + n = T THEN 0 ELSE h + n
           f2 == IF f <= n THEN 0 ELSE f - n
           r2 == IF uc = 1 THEN r + n ELSE 0
           at(s) == Pos(T, h, s)
           at2(s) == Pos(T, h2, s)
<1>0. BlockAtHead(T, h, n, uc, m, i, p, m2, i2, p2)
  BY TakenAtHead
<1>1. /\ i2 \in [SlotRange(T) -> Int]
      /\ \A s \in SlotRange(T) :
           /\ m[s] /\ at(s) >= n => i2[s] = i[s] /\ p2[s] = p[s]
           /\ at(s) < n => p2[s] = (uc = 1)
      /\ \A s, t \in SlotRange(T) :
           /\ m[s] /\ at(s) >= n /\ at(t) < n => i2[s] < i2[t]
           /\ at(s) < n /\ at(t) < n => i2[s] = i2[t]
  BY <1>0 DEF BlockAtHead
<1>2. \A s \in SlotRange(T) :
        /\ at(s) \in Int /\ 0 <= at(s) /\ at(s) < T
        /\ at2(s) = IF at(s) >= n THEN at(s) - n ELSE at(s) - n + T
  BY DEF SlotRange, Pos
<1>3. \A s, t \in SlotRange(T) : at(s) < n /\ at(t) < n => (t < s <=> at(t) < at(s))
  BY DEF SlotRange, Pos
<1>4. \A s \in SlotRange(T) : m2[s] <=> at(s) < n \/ m[s]
  BY <1>0, <1>2 DEF BlockAtHead
<1> HIDE DEF at, at2
<1>5. \A s \in SlotRange(T) : m[s] <=> at(s) >= f
  BY DEF Orderly, at
<1>6. \A s \in SlotRange(T) : m2[s] <=> at2(s) >= f2
  BY <1>2, <1>4, <1>5
<1>7. ASSUME NEW s \in LiveIn(T, m2), NEW t \in LiveIn(T, m2)
      PROVE  Before(i2, t, s) <=> at2(t) < at2(s)
  <2>1. s \in SlotRange(T) /\ t \in SlotRange(T) /\ i2[s] \in Int /\ i2[t] \in Int
    BY <1>1 DEF LiveIn
  <2>2. (at(s) < n \/ m[s]) /\ (at(t) < n \/ m[t])
    BY <1>4 DEF LiveIn
  <2>3. CASE at(s) < n /\ at(t) < n
    BY <1>1, <1>2, <1>3, <2>1, <2>3 DEF Before
  <2>4. CASE at(s) < n /\ at(t) >= n
    BY <1>1, <1>2, <2>1, <2>2, <2>4 DEF Before
  <2>5. CASE at(s) >= n /\ at(t) < n
    BY <1>1, <1>2, <2>1, <2>2, <2>5 DEF Before
  <2>6. CASE at(s) >= n /\ at(t) >= n
    <3>1. m[s] /\ m[t] /\ i2[s] = i[s] /\ i2[t] = i[t]
      BY <1>1, <1>2, <2>1, <2>2, <2>6
    <3>2. Before(i, t, s) <=> at(t) < at(s)
      BY <2>1, <3>1 DEF Orderly, LiveIn, at
    <3> QED BY <1>2, <2>1, <2>6, <3>1, <3>2 DEF Before
  <2> QED BY <1>2, <2>1, <2>3, <2>4, <2>5, <2>6
<1>8. ASSUME NEW s \in LiveIn(T, m2)
      PROVE  p2[s] <=> at2(s) >= T - r2
  <2>1. s \in SlotRange(T) /\ (at(s) < n \/ m[s])
    BY <1>4 DEF LiveIn
  <2>2. CASE at(s) < n
    <3>1. p2[s] = (uc = 1)
      BY <1>1, <2>1, <2>2
    <3>2. uc = 1 <=> at2(s) >= T - r2
      BY <1>2, <2>1, <2>2
    <3> QED BY <3>1, <3>2
  <2>3. CASE at(s) >= n
    <3>1. p2[s] = p[s] /\ (p[s] <=> at(s) >= T - r)
      BY <1>1, <1>2, <2>1, <2>3 DEF Orderly, LiveIn, at
    <3> QED BY <1>2, <2>1, <2>3, <3>1
  <2> QED BY <1>2, <2>1, <2>2, <2>3
<1> QED BY <1>6, <1>7, <1>8 DEF Orderly, at2

(* Taking the provisional slots off the tail. *)
LEMMA ClearKeepsOrder ==
  ASSUME NEW T \in Nat \ {0}, NEW h \in SlotRange(T), NEW f \in 0 .. T, NEW r \in 0 .. T,
         NEW h2 \in SlotRange(T), h = (IF h2 + r < T THEN h2 + r ELSE h2 + r - T),
         NEW m, NEW i, NEW p, Orderly(T, h, f, r, m, i, p)
  PROVE  Orderly(T, h2, f + r, 0, [s \in SlotRange(T) |-> m[s] /\ ~p[s]], i, p)
<1> DEFINE m2 == [s \in SlotRange(T) |-> m[s] /\ ~p[s]]
<1>1. \A s \in SlotRange(T) :
        /\ Pos(T, h, s) \in Int /\ 0 <= Pos(T, h, s) /\ Pos(T, h, s) < T
        /\ Pos(T, h2, s) = IF Pos(T, h, s) < T - r THEN Pos(T, h, s) + r
                          ELSE Pos(T, h, s) - (T - r)
        /\ Pos(T, h2, s) < T
  BY DEF SlotRange, Pos
<1>2. \A s \in SlotRange(T) : m2[s] <=> Pos(T, h, s) >= f /\ Pos(T, h, s) < T - r
  <2>1. \A s \in SlotRange(T) : (m[s] <=> Pos(T, h, s) >= f) /\ (m[s] => (p[s] <=> Pos(T, h, s) >= T - r))
    BY DEF Orderly, LiveIn
  <2>2. \A s \in SlotRange(T) : m2[s] <=> m[s] /\ ~p[s]
    OBVIOUS
  <2> HIDE DEF m2
  <2> QED BY <1>1, <2>1, <2>2
<1>3. LiveIn(T, m2) \subseteq LiveIn(T, m) /\ \A s \in LiveIn(T, m2) : s \in SlotRange(T) /\ m2[s] /\ ~p[s]
  BY DEF LiveIn
<1> HIDE DEF m2
<1>4. \A s \in SlotRange(T) : m2[s] <=> Pos(T, h2, s) >= f + r
  BY <1>1, <1>2
<1>5. \A s, t \in LiveIn(T, m2) : Before(i, t, s) <=> Pos(T, h2, t) < Pos(T, h2, s)
  <2>1. \A s, t \in LiveIn(T, m2) : Before(i, t, s) <=> Pos(T, h, t) < Pos(T, h, s)
    BY <1>3 DEF Orderly
  <2>2. \A s \in LiveIn(T, m2) :
          Pos(T, h, s) \in Int /\ Pos(T, h2, s) = Pos(T, h, s) + r
    BY <1>1, <1>2, <1>3
  <2> QED BY <2>1, <2>2
<1>6. \A s \in LiveIn(T, m2) : p[s] <=> Pos(T, h2, s) >= T - 0
  <2>1. \A s \in LiveIn(T, m2) : Pos(T, h2, s) < T /\ Pos(T, h2, s) \in Int
    <3>1. \A s \in SlotRange(T) : Pos(T, h2, s) \in SlotRange(T)
      BY Positions
    <3>2. \A x \in SlotRange(T) : x < T /\ x \in Int
      BY DEF SlotRange
    <3> QED BY <1>3, <3>1, <3>2
  <2> QED BY <1>3, <2>1
<1> QED BY <1>4, <1>5, <1>6 DEF Orderly, m2

(* Nothing is live in an empty pool. *)
LEMMA EmptyIsOrderly ==
  ASSUME NEW T \in Nat \ {0}, NEW h \in SlotRange(T), NEW m, \A s \in SlotRange(T) : ~m[s], NEW i, NEW p
  PROVE  Orderly(T, h, T, 0, m, i, p)
BY DEF Orderly, SlotRange, Pos, LiveIn

-----------------------------------------------------------------------------
(* The ring's bookkeeping ri, rp, with the next id x, tells of the live    *)
(* slots what the allocator's does.                                        *)
Follows(T, m, i, p, ri, rp, x) ==
  /\ \A s \in LiveIn(T, m) : rp[s] = p[s] /\ ri[s] < x
  /\ \A s, t \in LiveIn(T, m) : ri[s] < ri[t] <=> i[s] < i[t]

(* What RingKV's Bookkeep does to it. *)
Notes(T, h, n, uc, m, ri, rp, x, m2, ri2, rp2) ==
  /\ m2 = [s \in SlotRange(T) |-> IF s \in h .. h + n - 1 THEN uc # 0 ELSE m[s]]
  /\ ri2 = [s \in SlotRange(T) |-> IF s \notin h .. h + n - 1 THEN ri[s] ELSE IF uc = 0 THEN -1 ELSE x]
  /\ rp2 = [s \in SlotRange(T) |-> IF s \in h .. h + n - 1 THEN uc = 1 ELSE rp[s]]

LEMMA NotesFollow ==
  ASSUME NEW T \in Nat \ {0}, NEW h \in SlotRange(T), NEW n \in 1 .. T, h + n <= T, NEW uc \in 0 .. 2,
         NEW m \in [SlotRange(T) -> BOOLEAN], NEW i \in [SlotRange(T) -> Int], NEW p,
         NEW ri \in [SlotRange(T) -> Int], NEW rp, NEW x \in Int, Follows(T, m, i, p, ri, rp, x),
         NEW m2, NEW i2, NEW p2, BlockAtHead(T, h, n, uc, m, i, p, m2, i2, p2),
         NEW rm2, NEW ri2, NEW rp2, Notes(T, h, n, uc, m, ri, rp, x, rm2, ri2, rp2)
  PROVE  rm2 = m2 /\ Follows(T, m2, i2, p2, ri2, rp2, x + 1)
<1> DEFINE block == h .. h + n - 1
           at(s) == Pos(T, h, s)
<1>1. rm2 = m2
  BY DEF BlockAtHead, Notes
<1>2. ASSUME NEW s \in LiveIn(T, m2)
      PROVE  /\ s \in SlotRange(T) /\ at(s) \in Int /\ i2[s] \in Int
             /\ at(s) < n => uc # 0
             /\ at(s) >= n => s \in LiveIn(T, m)
    BY DEF LiveIn, BlockAtHead, SlotRange, Pos
<1>3. \A s \in SlotRange(T) : s \in block <=> at(s) < n
  BY BlockPositions
<1>4. \A s \in LiveIn(T, m2) : at(s) < n => ri2[s] = x /\ rp2[s] = (uc = 1)
  BY <1>2, <1>3 DEF Notes
<1>5. \A s \in LiveIn(T, m2) : at(s) >= n => ri2[s] = ri[s] /\ rp2[s] = rp[s]
  BY <1>2, <1>3 DEF Notes
<1>6. ASSUME NEW s \in LiveIn(T, m2)
      PROVE  /\ at(s) < n => p2[s] = (uc = 1) /\ rp2[s] = p2[s] /\ ri2[s] = x
             /\ at(s) >= n => /\ i2[s] = i[s] /\ p2[s] = p[s] /\ rp2[s] = p2[s]
                             /\ ri2[s] = ri[s] /\ ri[s] < x /\ ri[s] \in Int
  <2>1. at(s) >= n => s \in SlotRange(T) /\ m[s] /\ rp[s] = p[s] /\ ri[s] < x /\ ri[s] \in Int
    BY <1>2 DEF Follows, LiveIn
  <2>2. at(s) >= n => i2[s] = i[s] /\ p2[s] = p[s]
    BY <1>2, <2>1 DEF BlockAtHead
  <2>3. at(s) < n => p2[s] = (uc = 1)
    BY <1>2 DEF BlockAtHead
  <2> QED BY <1>4, <1>5, <2>1, <2>2, <2>3
<1>7. \A s \in LiveIn(T, m2) : rp2[s] = p2[s] /\ ri2[s] < x + 1
  BY <1>2, <1>6
<1>8. ASSUME NEW s \in LiveIn(T, m2), NEW t \in LiveIn(T, m2)
      PROVE  ri2[s] < ri2[t] <=> i2[s] < i2[t]
  <2>1. CASE at(s) < n /\ at(t) < n
    BY <1>2, <1>6, <2>1 DEF BlockAtHead
  <2>2. CASE at(s) < n /\ at(t) >= n
    <3>1. i2[t] < i2[s]
      BY <1>2, <2>2 DEF BlockAtHead, LiveIn
    <3> QED BY <1>2, <1>6, <2>2, <3>1
  <2>3. CASE at(s) >= n /\ at(t) < n
    <3>1. i2[s] < i2[t]
      BY <1>2, <2>3 DEF BlockAtHead, LiveIn
    <3> QED BY <1>2, <1>6, <2>3, <3>1
  <2>4. CASE at(s) >= n /\ at(t) >= n
    <3>1. s \in LiveIn(T, m) /\ t \in LiveIn(T, m)
      BY <1>2, <2>4
    <3> QED BY <1>6, <2>4, <3>1 DEF Follows
  <2> QED BY <1>2, <2>1, <2>2, <2>3, <2>4
<1> QED BY <1>1, <1>7, <1>8 DEF Follows

(* Fewer slots are live, nothing else changes. *)
LEMMA FewerFollow ==
  ASSUME NEW T, NEW m, NEW m2, NEW i, NEW p, NEW ri, NEW rp, NEW x,
         Follows(T, m, i, p, ri, rp, x), LiveIn(T, m2) \subseteq LiveIn(T, m)
  PROVE  Follows(T, m2, i, p, ri, rp, x)
BY DEF Follows

-----------------------------------------------------------------------------
LEMMA AscendsFront ==
  ASSUME NEW a \in Nat PROVE Ascends(0 .. a - 1) = [j \in 1 .. a |-> j - 1]
<1> DEFINE q == [j \in 1 .. a |-> j - 1]
           S == 0 .. a - 1
<1>1. q \in [1 .. a -> S] /\ S \subseteq Int
  OBVIOUS
<1>2. \A x, y \in 1 .. a : x < y => q[x] < q[y]
  OBVIOUS
<1>3. \A s \in S : \E x \in 1 .. a : q[x] = s
  <2> SUFFICES ASSUME NEW s \in S PROVE s + 1 \in 1 .. a /\ q[s + 1] = s
    OBVIOUS
  <2> QED OBVIOUS
<1> HIDE DEF q, S
<1>4. Ascends(S) = q
  BY <1>1, <1>2, <1>3, AscendsUniquely
<1> QED BY <1>4 DEF q, S

LEMMA AscendsSplit ==
  ASSUME NEW T \in Nat, NEW a \in 0 .. T, NEW b \in a .. T
  PROVE  Ascends((0 .. a - 1) \cup (b .. T - 1))
           = [j \in 1 .. a + T - b |-> IF j <= a THEN j - 1 ELSE b + (j - a) - 1]
<1> DEFINE k == a + T - b
           q == [j \in 1 .. k |-> IF j <= a THEN j - 1 ELSE b + (j - a) - 1]
           S == (0 .. a - 1) \cup (b .. T - 1)
<1>1. k \in Nat /\ q \in [1 .. k -> S] /\ S \subseteq Int
  OBVIOUS
<1>2. \A x, y \in 1 .. k : x < y => q[x] < q[y]
  OBVIOUS
<1>3. \A s \in S : \E x \in 1 .. k : q[x] = s
  <2> SUFFICES ASSUME NEW s \in S PROVE \E x \in 1 .. k : q[x] = s
    OBVIOUS
  <2>1. CASE s \in 0 .. a - 1
    <3>1. s + 1 \in 1 .. k /\ q[s + 1] = s
      BY <2>1
    <3> QED BY <3>1
  <2>2. CASE s \in b .. T - 1
    <3>1. s - b + a + 1 \in 1 .. k /\ q[s - b + a + 1] = s
      BY <2>2
    <3> QED BY <3>1
  <2> QED BY <2>1, <2>2
<1> HIDE DEF q, S, k
<1>4. Ascends(S) = q
  BY <1>1, <1>2, <1>3, AscendsUniquely
<1> QED BY <1>4 DEF q, S, k

(* What a ring that starts at s presents of c slots. *)
ShownFrom(T, s, c) ==
  IF c >= T THEN [j \in 1 .. T |-> j - 1]
  ELSE IF s + c <= T THEN [j \in 1 .. c |-> s + j - 1]
  ELSE LET end == s + c - T
       IN [j \in 1 .. c |-> IF j <= end THEN j - 1 ELSE s + (j - end) - 1]

(* The slices the ring reads are the live slots the allocator enumerates.  *)
LEMMA ShownInOrder ==
  ASSUME NEW T \in Nat \ {0}, NEW s \in SlotRange(T), NEW c \in 0 .. T, NEW h \in SlotRange(T),
         h = (IF s + c < T THEN s + c ELSE s + c - T),
         NEW f \in 0 .. T, NEW n \in 1 .. T, h + n <= T, h + f <= T,
         f = T - c \/ (c = T /\ f <= n),
         NEW r, NEW m, NEW i, NEW p, Orderly(T, h, f, r, m, i, p)
  PROVE  Ascends(KeptIn(T, m, i, n) \cup GrantedIn(T, m, i, n)) = ShownFrom(T, s, c + n)
<1> DEFINE shown == KeptIn(T, m, i, n) \cup GrantedIn(T, m, i, n)
<1>0. /\ GrantedIn(T, m, i, n) = h .. h + n - 1
      /\ \A x \in SlotRange(T) :
           /\ x \in h .. h + n - 1 <=> Pos(T, h, x) < n
           /\ x \in KeptIn(T, m, i, n) <=> f <= Pos(T, h, x) /\ n <= Pos(T, h, x)
  BY GrantsAtHead, BlockPositions
<1>1. shown = {x \in SlotRange(T) : Pos(T, h, x) < n \/ Pos(T, h, x) >= f}
  <2>1. KeptIn(T, m, i, n) \subseteq SlotRange(T) /\ h .. h + n - 1 \subseteq SlotRange(T)
    BY DEF KeptIn, LiveIn, SlotRange
  <2>2. \A x \in SlotRange(T) : Pos(T, h, x) \in Int
    BY DEF SlotRange, Pos
  <2>3. \A x \in SlotRange(T) : x \in shown <=> Pos(T, h, x) < n \/ Pos(T, h, x) >= f
    BY <1>0, <2>2
  <2>4. shown \subseteq SlotRange(T)
    BY <1>0, <2>1
  <2> HIDE DEF shown
  <2> QED BY <2>3, <2>4
<1> HIDE DEF shown
<1>2. CASE f <= n
  <2>1. shown = 0 .. T - 1 /\ c + n >= T
    BY <1>1, <1>2 DEF SlotRange, Pos
  <2> QED BY <2>1, AscendsFront DEF ShownFrom, shown
<1>3. CASE f > n
  <2>1. f = T - c /\ c + n < T
    BY <1>3
  <2>2. CASE s + c < T
    <3>1. s = 0 /\ h = c /\ s + (c + n) <= T
      BY <2>1, <2>2 DEF SlotRange
    <3> DEFINE k == c + n
    <3>2. shown = 0 .. k - 1
      BY <1>1, <2>1, <3>1 DEF SlotRange, Pos
    <3>3. k \in Nat /\ k < T /\ s + k <= T
      BY <2>1, <3>1
    <3> HIDE DEF k
    <3>4. ShownFrom(T, s, k) = [j \in 1 .. k |-> j - 1]
      BY <3>1, <3>3 DEF ShownFrom
    <3>5. Ascends(shown) = [j \in 1 .. k |-> j - 1]
      BY <3>2, <3>3, AscendsFront
    <3> QED BY <3>4, <3>5 DEF shown, k
  <2>3. CASE s + c >= T
    <3>1. h + f = s /\ s + (c + n) > T /\ s + (c + n) - T = h + n /\ (h + n) + T - s = c + n
      BY <2>1, <2>3 DEF SlotRange
    <3> DEFINE k == c + n
               end == h + n
    <3>2. shown = (0 .. end - 1) \cup (s .. T - 1)
      BY <1>1, <1>3, <3>1 DEF SlotRange, Pos
    <3>3. /\ end \in 0 .. T /\ s \in end .. T
          /\ k \in Nat /\ k < T /\ s + k > T /\ s + k - T = end /\ end + T - s = k
      BY <1>3, <2>1, <3>1 DEF SlotRange
    <3> HIDE DEF k, end
    <3>4. ShownFrom(T, s, k) = [j \in 1 .. k |-> IF j <= end THEN j - 1 ELSE s + (j - end) - 1]
      <4>1. ~(k >= T) /\ ~(s + k <= T)
        BY <3>3
      <4> QED BY <3>3, <4>1, Zenon DEF ShownFrom
    <3>5. Ascends(shown) = [j \in 1 .. k |-> IF j <= end THEN j - 1 ELSE s + (j - end) - 1]
      <4>1. Ascends((0 .. end - 1) \cup (s .. T - 1))
              = [j \in 1 .. end + T - s |-> IF j <= end THEN j - 1 ELSE s + (j - end) - 1]
        BY <3>3, AscendsSplit
      <4> QED BY <3>2, <3>3, <4>1, Zenon
    <3> QED BY <3>4, <3>5 DEF shown, k
  <2> QED BY <2>2, <2>3 DEF SlotRange
<1> QED BY <1>2, <1>3
=============================================================================
