---------------------------- MODULE SlotPoolProofs ----------------------------
(***************************************************************************)
(* SlotPool for every pool size, every set of token counts and any number  *)
(* of forwards: its types, that ids tell the age of live slots, that       *)
(* eviction gives up the oldest tokens, and that the pool is a window over *)
(* the newest ones.                                                        *)
(***************************************************************************)
EXTENDS SlotPool, RingOrder, SequenceTheorems, TLAPS

(* No slot was granted by a forward still to come: what makes the stamp of *)
(* the next forward newer than any other.                                  *)
OwnersPast == \A s \in Slots : owner[s] <= clock

IInv == TypeOK /\ OwnersPast /\ IdsTellAge

-----------------------------------------------------------------------------
(* A forward is granted no slot it keeps from earlier ones. *)
LEMMA GrantedIsUnused ==
  ASSUME NEW n \in Nat
  PROVE  Granted(n) \subseteq Slots \ Kept(n) /\ Evicted(n) \subseteq Live
  BY Zenon DEF Granted, Evicted, FirstOf

(* The id of a forward is newer than every id that survives its eviction. *)
LEMMA NewIdsAreNewest ==
  ASSUME TypeOK, NEW n \in Nat, NEW i \in NewIds(n)
  PROVE  i \in Int /\ i >= 0 /\ \A s \in Kept(n) : ids[s] < i
<1>1. CASE Kept(n) = {}
  BY <1>1 DEF NewIds
<1>2. CASE Kept(n) # {}
  <2>1. PICK k \in Kept(n) : i = ids[k] + 1 /\ \A t \in Kept(n) : ids[t] <= ids[k]
    BY <1>2 DEF NewIds
  <2>2. Kept(n) \subseteq Slots
    BY DEF Kept, Live
  <2> QED BY <2>1, <2>2 DEF TypeOK
<1> QED BY <1>1, <1>2

(* Allocating a stamp newer than every owner keeps ids and age together.   *)
LEMMA AllocateKeepsAge ==
  ASSUME IInv, NEW n \in Nat, NEW uc \in 0 .. 2,
         Allocate(n, uc, clock + 1), clock' = clock + 1
  PROVE  /\ OwnersPast' /\ IdsTellAge'
         /\ mask' \in [Slots -> BOOLEAN]
         /\ ids' \in [Slots -> Int]
         /\ \A s \in Slots : ids'[s] >= -1
         /\ is_pred' \in [Slots -> BOOLEAN]
         /\ owner' \in [Slots -> Nat]
<1>1. PICK i \in NewIds(n) :
        ids' = [s \in Slots |-> IF s \in Granted(n) THEN i
                                ELSE IF s \in Evicted(n) THEN -1 ELSE ids[s]]
  BY DEF Allocate
<1>2. i \in Int /\ i >= 0 /\ \A s \in Kept(n) : ids[s] < i
  BY NewIdsAreNewest DEF IInv
<1>3. owner' = [s \in Slots |-> IF s \in Granted(n) THEN clock + 1 ELSE owner[s]]
  BY DEF Allocate
<1>4. clock \in Nat /\ owner \in [Slots -> Nat] /\ ids \in [Slots -> Int]
  BY DEF IInv, TypeOK
<1>5. Live' \subseteq Kept(n) \cup Granted(n) /\ Live' \subseteq Slots
  BY DEF Allocate, Live, Kept
<1>6. OwnersPast'
  BY <1>3, <1>4 DEF IInv, OwnersPast, Slots
<1>7. IdsTellAge'
  <2> SUFFICES ASSUME NEW s \in Live', NEW t \in Live'
               PROVE  ids'[s] < ids'[t] <=> owner'[s] < owner'[t]
    BY DEF IdsTellAge
  <2>1. ASSUME NEW u \in Slots, u \in Granted(n)
        PROVE  ids'[u] = i /\ owner'[u] = clock + 1
    BY <1>1, <1>3, <2>1
  <2>2. ASSUME NEW u \in Kept(n)
        PROVE  /\ u \in Live /\ u \in Slots
               /\ ids'[u] = ids[u] /\ ids[u] < i
               /\ owner'[u] = owner[u] /\ owner[u] <= clock
    <3>1. u \in Live /\ u \in Slots /\ u \notin Evicted(n) /\ u \notin Granted(n)
      BY GrantedIsUnused DEF Kept, Live
    <3> QED BY <1>1, <1>2, <1>3, <3>1 DEF IInv, OwnersPast
  <2>3. ids[s] \in Int /\ ids[t] \in Int /\ owner[s] \in Nat /\ owner[t] \in Nat
    BY <1>4, <1>5
  <2>4. CASE s \in Kept(n) /\ t \in Kept(n)
    BY <2>2, <2>4 DEF IInv, IdsTellAge
  <2>5. CASE s \in Kept(n) /\ t \in Granted(n)
    BY <1>2, <1>4, <1>5, <2>1, <2>2, <2>3, <2>5
  <2>6. CASE s \in Granted(n) /\ t \in Kept(n)
    BY <1>2, <1>4, <1>5, <2>1, <2>2, <2>3, <2>6
  <2>7. CASE s \in Granted(n) /\ t \in Granted(n)
    BY <1>2, <1>4, <1>5, <2>1, <2>7
  <2> QED BY <1>5, <2>4, <2>5, <2>6, <2>7
<1>8. ids' \in [Slots -> Int] /\ \A s \in Slots : ids'[s] >= -1
  BY <1>1, <1>2 DEF IInv, TypeOK
<1>9. owner' \in [Slots -> Nat]
  BY <1>3, <1>4
<1>10. mask' \in [Slots -> BOOLEAN] /\ is_pred' \in [Slots -> BOOLEAN]
  BY DEF Allocate, IInv, TypeOK
<1> QED BY <1>6, <1>7, <1>8, <1>9, <1>10

(* What eviction gives up is no newer than what it keeps: a live slot of   *)
(* smaller rank cannot have been granted later.                            *)
LEMMA EvictionTakesOldest ==
  ASSUME IInv, NEW n \in Nat, NEW s \in Evicted(n), NEW t \in Kept(n)
  PROVE  owner[s] <= owner[t]
<1> DEFINE before(x) == {u \in Live : Older(u, x)}
<1>1. /\ s \in Live /\ t \in Live /\ s \in Slots /\ t \in Slots
      /\ t \notin Evicted(n)
  BY GrantedIsUnused DEF Kept, Live
<1>2. owner[s] \in Nat /\ owner[t] \in Nat
  BY <1>1 DEF IInv, TypeOK
<1>3. SUFFICES ASSUME owner[t] < owner[s] PROVE FALSE
  BY <1>2
<1>4. ids[t] < ids[s]
  BY <1>1, <1>3 DEF IInv, IdsTellAge
<1>5. before(t) \subseteq before(s)
  BY <1>1, <1>4 DEF Older, Live, Slots, IInv, TypeOK
<1>6. IsFiniteSet(before(s))
  <2>1. IsFiniteSet(Slots)
    BY FS_Interval, SizeAssumption DEF Slots
  <2>2. before(s) \subseteq Slots
    BY DEF Live
  <2> QED BY <2>1, <2>2, FS_Subset
<1>7. /\ Cardinality(before(t)) \in Nat /\ Cardinality(before(s)) \in Nat
      /\ Cardinality(before(t)) <= Cardinality(before(s))
  BY <1>5, <1>6, FS_Subset, FS_CardinalityType
<1>8. Cardinality(before(s)) < n - Cardinality(Free)
  BY DEF Evicted, FirstOf, Rank
<1>9. ~(Cardinality(before(t)) < n - Cardinality(Free))
  BY <1>1 DEF Evicted, FirstOf, Rank
<1>10. Cardinality(Free) \in Nat
  <2>1. IsFiniteSet(Slots) /\ Free \subseteq Slots
    BY FS_Interval, SizeAssumption DEF Slots, Free
  <2> QED BY <2>1, FS_Subset, FS_CardinalityType
<1> HIDE DEF before
<1> QED BY <1>7, <1>8, <1>9, <1>10

-----------------------------------------------------------------------------
LEMMA InitIInv == ASSUME Init PROVE IInv
  BY DEF Init, IInv, TypeOK, OwnersPast, IdsTellAge, Live

LEMMA ForwardKeepsIInv ==
  ASSUME IInv, NEW n \in TokenCounts, NEW uc \in 0 .. 2, Forward(n, uc)
  PROVE  IInv'
<1>1. n \in Nat /\ Allocate(n, uc, clock + 1) /\ clock' = clock + 1 /\ clock \in Nat
  BY TokenCountsAssumption DEF Forward, IInv, TypeOK
<1>2. kv' \in [Slots -> Nat]
  BY <1>1 DEF Forward, WriteAndAttend, IInv, TypeOK
<1> QED BY <1>1, <1>2, AllocateKeepsAge DEF IInv, TypeOK

LEMMA StepKeepsIInv == ASSUME IInv, [Next]_vars PROVE IInv'
<1>1. ASSUME NEW n \in TokenCounts, NEW uc \in 0 .. 2, Forward(n, uc)
      PROVE  IInv'
  BY <1>1, ForwardKeepsIInv
<1>2. ASSUME NEW n \in TokenCounts, Overflow(n) PROVE IInv'
  BY <1>2 DEF Overflow, IInv, TypeOK, OwnersPast, IdsTellAge, Live
<1>3. CASE ClearPred
  <2>1. Live' \subseteq Live
    BY <1>3 DEF ClearPred, Live
  <2>2. TypeOK'
    BY <1>3 DEF ClearPred, IInv, TypeOK
  <2> QED BY <1>3, <2>1, <2>2 DEF ClearPred, IInv, OwnersPast, IdsTellAge
<1>4. CASE Reset
  BY <1>4 DEF Reset, IInv, TypeOK, OwnersPast, IdsTellAge, Live
<1>5. CASE UNCHANGED vars
  BY <1>5 DEF vars, IInv, TypeOK, OwnersPast, IdsTellAge, Live
<1> QED BY <1>1, <1>2, <1>3, <1>4, <1>5 DEF Next

-----------------------------------------------------------------------------
(* The pool as a window.                                                   *)

(* A live slot holds the K/V of the forward it was granted to: what the    *)
(* window is read by is what it is known by.                               *)
HoldsOwn == \A s \in Live : kv[s] = owner[s]

LEMMA PoolIsFinite ==
  /\ IsFiniteSet(Slots) /\ Cardinality(Slots) = Size /\ Slots \subseteq Int
  /\ \A S \in SUBSET Slots : IsFiniteSet(S) /\ Cardinality(S) \in 0 .. Size
<1>1. Slots = SlotRange(Size)
  BY DEF Slots, SlotRange
<1>2. IsFiniteSet(Slots) /\ Cardinality(Slots) = Size /\ Slots \subseteq Int
  BY <1>1, PoolCount, SizeAssumption DEF Slots
<1>3. ASSUME NEW S \in SUBSET Slots PROVE IsFiniteSet(S) /\ Cardinality(S) \in 0 .. Size
  <2>1. IsFiniteSet(S) /\ Cardinality(S) <= Size
    BY <1>2, FS_Subset
  <2>2. Cardinality(S) \in Nat
    BY <2>1, FS_CardinalityType
  <2> QED BY <2>1, <2>2, SizeAssumption
<1> QED BY <1>2, <1>3

LEMMA LiveIsKeyed ==
  ASSUME TypeOK
  PROVE  Keyed(Live, owner) /\ Live \subseteq Slots /\ Cardinality(Live) \in 0 .. Size
<1>1. Live \in SUBSET Slots
  BY DEF Live
<1>2. IsFiniteSet(Live) /\ Cardinality(Live) \in 0 .. Size
  BY <1>1, PoolIsFinite
<1>3. \A s \in Live : s \in Int /\ owner[s] \in Int
  BY <1>1, PoolIsFinite DEF TypeOK
<1> QED BY <1>1, <1>2, <1>3 DEF Keyed

(* How many of the oldest tokens a forward of n tokens gives up. *)
Surplus(n) == IF Cardinality(Live) <= Size - n THEN 0 ELSE Cardinality(Live) - (Size - n)

(* Eviction ranks slots by id, which is to rank them by age. *)
LEMMA KeptAreNewest ==
  ASSUME TypeOK, IdsTellAge, NEW n \in Nat, n <= Size
  PROVE  /\ Kept(n) = {s \in Live : RankIn(Live, owner, s) >= Surplus(n)}
         /\ Surplus(n) \in 0 .. Cardinality(Live) /\ Cardinality(Live) - Surplus(n) <= Size - n
<1>1. Keyed(Live, owner) /\ Live \subseteq Slots /\ Cardinality(Live) \in 0 .. Size
  BY LiveIsKeyed
<1>2. Cardinality(Free) = Size - Cardinality(Live)
  <2>1. IsFiniteSet(Slots) /\ Cardinality(Slots) = Size
    BY PoolIsFinite
  <2>2. Live \subseteq Slots
    BY <1>1
  <2>3. Slots \cap Live = Live
    BY <2>2
  <2>4. Cardinality(Slots \ Live) = Cardinality(Slots) - Cardinality(Live)
    BY <2>1, <2>3, FS_Difference
  <2> QED BY <2>1, <2>4 DEF Free
<1>3. \A s, t \in Live : Older(t, s) <=> Before(owner, t, s)
  <2> SUFFICES ASSUME NEW s \in Live, NEW t \in Live PROVE Older(t, s) <=> Before(owner, t, s)
    OBVIOUS
  <2>1. /\ ids[s] \in Int /\ ids[t] \in Int /\ owner[s] \in Int /\ owner[t] \in Int
        /\ ids[s] < ids[t] <=> owner[s] < owner[t]
        /\ ids[t] < ids[s] <=> owner[t] < owner[s]
    BY <1>1 DEF TypeOK, IdsTellAge
  <2> QED BY <2>1 DEF Older, Before
<1>4. \A s \in Live : Rank(Live, Older, s) = RankIn(Live, owner, s)
  <2> SUFFICES ASSUME NEW s \in Live PROVE Rank(Live, Older, s) = RankIn(Live, owner, s)
    OBVIOUS
  <2>1. {t \in Live : Older(t, s)} = {t \in Live : Before(owner, t, s)}
    BY <1>3
  <2> QED BY <2>1 DEF Rank, RankIn
<1>5. Evicted(n) = {s \in Live : Rank(Live, Older, s) < n - Cardinality(Free)}
  BY DEF Evicted, FirstOf
<1>6. \A s \in Live : s \in Evicted(n) <=> RankIn(Live, owner, s) < n - Cardinality(Free)
  BY <1>4, <1>5
<1>7. \A s \in Live : RankIn(Live, owner, s) \in Nat
  <2>1. \A s \in Live : RankIn(Live, owner, s) \in 0 .. Cardinality(Live) - 1
    BY <1>1, RanksAreDense
  <2> QED BY <1>1, <2>1
<1>8. /\ Surplus(n) \in 0 .. Cardinality(Live) /\ Cardinality(Live) - Surplus(n) <= Size - n
      /\ \A j \in Nat : j < n - Cardinality(Free) <=> ~(j >= Surplus(n))
  BY <1>1, <1>2, SizeAssumption DEF Surplus
<1>9. \A s \in Live : s \in Kept(n) <=> RankIn(Live, owner, s) >= Surplus(n)
  BY <1>6, <1>7, <1>8 DEF Kept
<1>10. Kept(n) \subseteq Live
  BY DEF Kept
<1> QED BY <1>8, <1>9, <1>10

(* A forward that fits is granted as many slots as it has tokens. *)
LEMMA GrantedCount ==
  ASSUME TypeOK, IdsTellAge, NEW n \in Nat, n <= Size
  PROVE  Cardinality(Granted(n)) = n /\ IsFiniteSet(Granted(n)) /\ Granted(n) \subseteq Slots
<1> DEFINE unused == Slots \ Kept(n)
<1>1. Granted(n) = LowestOf(unused, n)
  BY DEF Granted, FirstOf, Rank, LowestOf
<1>2. Keyed(Live, owner) /\ Live \subseteq Slots
  BY LiveIsKeyed
<1>3. Cardinality(Kept(n)) = Cardinality(Live) - Surplus(n)
  <2>1. /\ Kept(n) = {s \in Live : RankIn(Live, owner, s) >= Surplus(n)}
        /\ Surplus(n) \in 0 .. Cardinality(Live)
    BY KeptAreNewest
  <2> QED BY <1>2, <2>1, ByKeyNewest
<1>4. Cardinality(Live) - Surplus(n) <= Size - n /\ Cardinality(Kept(n)) \in Nat
  <2>1. Kept(n) \in SUBSET Slots
    BY <1>2 DEF Kept
  <2> QED BY <2>1, KeptAreNewest, PoolIsFinite, SizeAssumption
<1>5. Kept(n) \subseteq Slots /\ IsFiniteSet(Slots) /\ Cardinality(Slots) = Size
  BY <1>2, PoolIsFinite DEF Kept
<1>6. Cardinality(unused) = Size - Cardinality(Kept(n))
  <2>1. Slots \cap Kept(n) = Kept(n)
    BY <1>5
  <2> QED BY <1>5, <2>1, FS_Difference
<1>7. IsFiniteSet(unused) /\ unused \subseteq Int /\ unused \subseteq Slots
  BY <1>5, PoolIsFinite, FS_Subset
<1> HIDE DEF unused
<1>8. n \in 0 .. Cardinality(unused)
  BY <1>3, <1>4, <1>6, SizeAssumption
<1>9. Cardinality(LowestOf(unused, n)) = n /\ IsFiniteSet(LowestOf(unused, n))
  BY <1>7, <1>8, LowestCount
<1>10. LowestOf(unused, n) \subseteq unused
  BY DEF LowestOf
<1> QED BY <1>1, <1>7, <1>9, <1>10

LEMMA WindowIs ==
  /\ WindowOf(Live) = WindowBy(Live, owner, is_pred)
  /\ StampsRead = StampsBy(seen)
<1>1. ByKey(Live, owner) = ByKeyOf(Live, owner)
  BY ByKeyIs
<1>2. WindowOf(Live) = WindowBy(Live, owner, is_pred)
  BY <1>1 DEF WindowOf, WindowBy
<1>3. ByKey(DOMAIN seen, [j \in DOMAIN seen |-> seen[j][2]])
        = ByKeyOf(DOMAIN seen, [j \in DOMAIN seen |-> seen[j][2]])
  BY ByKeyIs
<1>4. StampsRead = StampsBy(seen)
  BY <1>3 DEF StampsRead, StampsBy
<1> QED BY <1>2, <1>4

(* The newest c of m tokens, and what joins a sequence at its end. *)
LEMMA NewestIs ==
  ASSUME NEW R, NEW m \in Nat, NEW w \in [1 .. m -> R], NEW c \in Nat
  PROVE  Window!Newest(w, c) = Dropped(w, m, IF m <= c THEN 0 ELSE m - c)
<1>1. w \in Seq(R) /\ Len(w) = m
  OBVIOUS
<1>2. CASE m <= c
  <2>1. Window!Newest(w, c) = w
    BY <1>1, <1>2 DEF Window!Newest
  <2>2. \A j \in 1 .. m : j + 0 = j
    OBVIOUS
  <2>3. w = [j \in 1 .. m |-> w[j + 0]]
    BY <2>2
  <2>4. 1 .. m - 0 = 1 .. m
    OBVIOUS
  <2> QED BY <1>2, <2>1, <2>3, <2>4 DEF Dropped
<1>3. CASE ~(m <= c)
  <2> DEFINE sub == SubSeq(w, m - c + 1, m)
             drop == Dropped(w, m, m - c)
  <2>1. Window!Newest(w, c) = sub
    BY <1>1, <1>3 DEF Window!Newest
  <2>2. m - c \in Nat /\ c \in 0 .. m /\ m - (m - c) = c
    BY <1>3
  <2>3. /\ sub \in Seq(R) /\ Len(sub) = c
        /\ \A j \in 1 .. c : sub[j] = w[j + (m - c)]
    <3>1. \A j \in m - c + 1 .. m : w[j] \in R
      BY <2>2
    <3>2. m - c + 1 \in Int /\ m \in Int
      BY <2>2
    <3>3. /\ SubSeq(w, m - c + 1, m) \in Seq(R)
          /\ Len(SubSeq(w, m - c + 1, m)) = IF m - c + 1 <= m THEN m - (m - c + 1) + 1 ELSE 0
          /\ \A i \in 1 .. m - (m - c + 1) + 1 :
               SubSeq(w, m - c + 1, m)[i] = w[(m - c + 1) + i - 1]
      BY <3>1, <3>2, SubSeqProperties
    <3>4. (IF m - c + 1 <= m THEN m - (m - c + 1) + 1 ELSE 0) = c
      BY <2>2
    <3>5. m - (m - c + 1) + 1 = c /\ \A i \in 1 .. c : (m - c + 1) + i - 1 = i + (m - c)
      BY <2>2
    <3> QED BY <3>3, <3>4, <3>5
  <2>4. drop \in Seq(R) /\ Len(drop) = c /\ \A j \in 1 .. c : drop[j] = w[j + (m - c)]
    <3>1. drop = [j \in 1 .. c |-> w[j + (m - c)]]
      BY <2>2 DEF Dropped
    <3>2. \A j \in 1 .. c : w[j + (m - c)] \in R
      BY <2>2
    <3> HIDE DEF drop
    <3>3. drop \in [1 .. c -> R]
      BY <3>1, <3>2
    <3>4. c \in Nat
      OBVIOUS
    <3>5. drop \in Seq(R) /\ Len(drop) = c
      BY <3>3, <3>4
    <3>6. \A j \in 1 .. c : drop[j] = w[j + (m - c)]
      BY <3>1
    <3> QED BY <3>5, <3>6
  <2> HIDE DEF sub, drop
  <2>5. sub = drop
    BY <2>3, <2>4, SeqEqual
  <2> QED BY <1>3, <2>1, <2>5 DEF drop
<1> QED BY <1>2, <1>3

LEMMA Follow ==
  ASSUME NEW R, NEW k \in Nat, NEW n \in Nat, NEW v \in [1 .. k -> R], NEW w \in [1 .. n -> R]
  PROVE  /\ v \o w \in [1 .. k + n -> R]
         /\ \A j \in 1 .. k + n : (v \o w)[j] = IF j <= k THEN v[j] ELSE w[j - k]
<1>1. v \in Seq(R) /\ w \in Seq(R) /\ Len(v) = k /\ Len(w) = n
  OBVIOUS
<1>2. /\ v \o w \in Seq(R) /\ Len(v \o w) = k + n
      /\ \A j \in 1 .. k + n : (v \o w)[j] = IF j <= k THEN v[j] ELSE w[j - k]
  BY <1>1, ConcatProperties
<1>3. v \o w \in [1 .. Len(v \o w) -> R]
  BY <1>2, LenProperties
<1> QED BY <1>2, <1>3

Token == [stamp : Nat, pred : BOOLEAN]

LEMMA WindowIsSequence ==
  ASSUME TypeOK
  PROVE  WindowBy(Live, owner, is_pred) \in [1 .. Cardinality(Live) -> Token]
<1> DEFINE q == ByKeyOf(Live, owner)
           n == Cardinality(Live)
<1>1. Keyed(Live, owner) /\ Live \subseteq Slots
  BY LiveIsKeyed
<1>2. ListsByKey(q, n, Live, owner)
  BY <1>1, ByKeyLists
<1>3. WindowBy(Live, owner, is_pred)
        = [j \in DOMAIN q |-> [stamp |-> owner[q[j]], pred |-> is_pred[q[j]]]]
  BY DEF WindowBy
<1> HIDE DEF q, n
<1>4. DOMAIN q = 1 .. n /\ \A j \in 1 .. n : q[j] \in Slots
  BY <1>1, <1>2 DEF ListsByKey
<1>5. \A j \in 1 .. n : [stamp |-> owner[q[j]], pred |-> is_pred[q[j]]] \in Token
  BY <1>4 DEF Token, TypeOK
<1>6. WindowBy(Live, owner, is_pred) \in [1 .. n -> Token]
  BY <1>3, <1>4, <1>5
<1> QED BY <1>6 DEF n

(* What a forward leaves in the slots it reads. *)
LEMMA ForwardMarks ==
  ASSUME IInv, HoldsOwn, NEW n \in Nat, NEW uc \in 0 .. 2, Forward(n, uc)
  PROVE  /\ \A s \in Kept(n) : /\ s \in Live /\ s \notin Granted(n) /\ owner[s] < clock + 1
                               /\ owner'[s] = owner[s] /\ is_pred'[s] = is_pred[s]
                               /\ kv'[s] = owner[s]
         /\ \A s \in Granted(n) : owner'[s] = clock + 1 /\ is_pred'[s] = (uc = 1) /\ kv'[s] = clock + 1
         /\ Live' = IF uc = 0 THEN Kept(n) ELSE Kept(n) \cup Granted(n)
<1>1. \A s \in Kept(n) : s \in Live /\ s \in Slots /\ s \notin Granted(n) /\ s \notin Evicted(n)
  BY GrantedIsUnused DEF Kept, Live
<1>2. Granted(n) \subseteq Slots
  BY GrantedIsUnused
<1>3. /\ owner' = [s \in Slots |-> IF s \in Granted(n) THEN clock + 1 ELSE owner[s]]
      /\ is_pred' = [s \in Slots |-> IF s \in Granted(n) THEN uc = 1 ELSE is_pred[s]]
      /\ mask' = [s \in Slots |-> IF s \in Granted(n) THEN uc # 0 ELSE mask[s] /\ s \notin Evicted(n)]
      /\ kv' = [s \in Slots |-> IF s \in Granted(n) THEN clock + 1 ELSE kv[s]]
  BY DEF Forward, Allocate, WriteAndAttend
<1>4. ASSUME NEW s \in Kept(n)
      PROVE  /\ s \in Live /\ s \notin Granted(n) /\ owner[s] < clock + 1
             /\ owner'[s] = owner[s] /\ is_pred'[s] = is_pred[s]
             /\ kv'[s] = owner[s]
  <2>1. owner[s] \in Nat /\ clock \in Nat /\ owner[s] <= clock
    BY <1>1 DEF IInv, TypeOK, OwnersPast
  <2> QED BY <1>1, <1>3, <2>1 DEF HoldsOwn
<1>5. \A s \in Granted(n) : owner'[s] = clock + 1 /\ is_pred'[s] = (uc = 1) /\ kv'[s] = clock + 1
  BY <1>2, <1>3
<1>6. \A s \in Slots : s \in Kept(n) <=> mask[s] /\ s \notin Evicted(n)
  BY DEF Kept, Live
<1>7. \A s \in Slots : mask'[s] <=> IF s \in Granted(n) THEN uc # 0 ELSE s \in Kept(n)
  BY <1>3, <1>6
<1>8. Kept(n) \subseteq Slots
  BY <1>1
<1>9. Live' = IF uc = 0 THEN Kept(n) ELSE Kept(n) \cup Granted(n)
  BY <1>1, <1>2, <1>7, <1>8 DEF Live
<1> QED BY <1>4, <1>5, <1>9

LEMMA ForwardIsWindowForward ==
  ASSUME IInv, HoldsOwn, NEW n \in TokenCounts, NEW uc \in 0 .. 2, Forward(n, uc)
  PROVE  Window!Forward(n, uc)
<1> DEFINE L == Cardinality(Live)
           d == Surplus(n)
           k == L - d
           S == Kept(n) \cup Granted(n)
           w == WindowBy(Live, owner, is_pred)
           kept == Window!Newest(w, Size - n)
           own == Window!Tokens(n, uc, clock + 1)
           w2 == WindowBy(S, owner', is_pred')
           flag == uc = 1
<1>1. n \in Nat /\ n <= Size /\ Size - n \in Nat /\ clock \in Nat /\ TypeOK /\ IdsTellAge
  BY TokenCountsAssumption, SizeAssumption DEF Forward, Allocate, IInv, TypeOK
<1>2. Keyed(Live, owner) /\ L \in Nat
  BY <1>1, LiveIsKeyed
<1>3. /\ Kept(n) = {s \in Live : RankIn(Live, owner, s) >= d}
      /\ d \in 0 .. L
  BY <1>1, KeptAreNewest
<1>4. Cardinality(Granted(n)) = n /\ IsFiniteSet(Granted(n)) /\ Granted(n) \subseteq Slots
  BY <1>1, GrantedCount
<1>5. /\ \A s \in Kept(n) : /\ s \in Live /\ s \notin Granted(n) /\ owner[s] < clock + 1
                            /\ owner'[s] = owner[s] /\ is_pred'[s] = is_pred[s]
                            /\ kv'[s] = owner[s]
      /\ \A s \in Granted(n) : owner'[s] = clock + 1 /\ is_pred'[s] = (uc = 1) /\ kv'[s] = clock + 1
      /\ Live' = IF uc = 0 THEN Kept(n) ELSE S
  BY <1>1, ForwardMarks
<1>6. Keyed(Granted(n), owner')
  <2>1. \A s \in Granted(n) : s \in Int
    BY <1>4, PoolIsFinite
  <2>2. \A s \in Granted(n) : owner'[s] \in Int
    BY <1>1, <1>5
  <2> QED BY <1>4, <2>1, <2>2 DEF Keyed
<1>7. /\ WindowBy(Kept(n), owner', is_pred') = Dropped(w, L, d)
      /\ w2 = Shifted(w, L, d, n, [stamp |-> clock + 1, pred |-> flag])
  <2>1. clock + 1 \in Int
    BY <1>1
  <2>2. \A s \in Kept(n) : owner[s] < clock + 1 /\ owner'[s] = owner[s] /\ is_pred'[s] = is_pred[s]
    BY <1>5
  <2>3. \A s \in Granted(n) : owner'[s] = clock + 1 /\ is_pred'[s] = flag
    BY <1>5
  <2> HIDE DEF flag, w, d
  <2>4. Joins(Live, owner, is_pred, d, Kept(n), Granted(n), owner', is_pred', clock + 1, flag)
    BY <1>2, <1>3, <1>6, <2>1, <2>2, <2>3 DEF Joins
  <2> QED BY <1>4, <2>4, WindowMoves DEF w
<1>8. w \in [1 .. L -> Token]
  BY <1>1, WindowIsSequence
<1> HIDE DEF w, L, S
<1>9. kept = [j \in 1 .. k |-> w[j + d]]
  <2>1. kept = Dropped(w, L, IF L <= Size - n THEN 0 ELSE L - (Size - n))
    BY <1>1, <1>2, <1>8, NewestIs
  <2>2. d = IF L <= Size - n THEN 0 ELSE L - (Size - n)
    BY DEF Surplus, L
  <2> QED BY <2>1, <2>2 DEF Dropped
<1> HIDE DEF d
<1>10. k \in Nat /\ \A j \in 1 .. k : j + d \in 1 .. L
  BY <1>2, <1>3
<1>11. kept \in [1 .. k -> Token]
  BY <1>8, <1>9, <1>10
<1>12. own \in [1 .. n -> Token] /\ \A j \in 1 .. n : own[j] = [stamp |-> clock + 1, pred |-> uc = 1]
  <2>1. own = [j \in 1 .. n |-> [stamp |-> clock + 1, pred |-> uc = 1]]
    BY DEF Window!Tokens
  <2>2. [stamp |-> clock + 1, pred |-> uc = 1] \in Token
    BY <1>1 DEF Token
  <2> QED BY <2>1, <2>2
<1> HIDE DEF kept, own, k
<1>13. /\ kept \o own \in [1 .. k + n -> Token]
       /\ \A j \in 1 .. k + n : (kept \o own)[j] = IF j <= k THEN kept[j] ELSE own[j - k]
  <2>1. k \in Nat /\ n \in Nat
    BY <1>1, <1>10
  <2>2. kept \in [1 .. k -> Token] /\ own \in [1 .. n -> Token]
    BY <1>11, <1>12
  <2>3. kept \o own \in [1 .. k + n -> Token]
    BY <2>1, <2>2, Follow
  <2>4. \A j \in 1 .. k + n : (kept \o own)[j] = IF j <= k THEN kept[j] ELSE own[j - k]
    BY <2>1, <2>2, Follow
  <2> QED BY <2>3, <2>4
<1>14. w2 = kept \o own
  <2>1. w2 = [j \in 1 .. k + n |->
                IF j <= k THEN w[j + d] ELSE [stamp |-> clock + 1, pred |-> uc = 1]]
    BY <1>7 DEF Shifted, k
  <2> HIDE DEF w2
  <2>2. \A j \in 1 .. k + n : w2[j] = (kept \o own)[j]
    <3> SUFFICES ASSUME NEW j \in 1 .. k + n PROVE w2[j] = (kept \o own)[j]
      OBVIOUS
    <3>1. CASE j <= k
      <4>1. j \in 1 .. k
        BY <1>1, <1>10, <3>1
      <4> QED BY <1>9, <1>13, <2>1, <3>1, <4>1
    <3>2. CASE ~(j <= k)
      <4>1. j - k \in 1 .. n
        BY <1>1, <1>10, <3>2
      <4> QED BY <1>12, <1>13, <2>1, <3>2, <4>1
    <3> QED BY <3>1, <3>2
  <2>3. w2 = [j \in 1 .. k + n |-> w2[j]] /\ kept \o own = [j \in 1 .. k + n |-> (kept \o own)[j]]
    BY <1>13, <2>1
  <2> QED BY <2>2, <2>3
<1>15. StampsBy(seen') = [j \in DOMAIN w2 |-> w2[j].stamp]
  <2>1. Keyed(S, owner')
    <3>1. S \in SUBSET Slots
      BY <1>4 DEF S, Kept, Live
    <3>2. IsFiniteSet(S) /\ \A s \in S : s \in Int
      BY <3>1, PoolIsFinite
    <3>3. \A s \in Kept(n) : owner[s] \in Int
      BY <1>1, <1>5 DEF Live, TypeOK
    <3>4. \A s \in S : owner'[s] \in Int
      BY <1>1, <1>5, <3>3 DEF S
    <3> QED BY <3>2, <3>4 DEF Keyed
  <2>2. \A s \in S : kv'[s] = owner'[s]
    BY <1>5 DEF S
  <2>3. Ascending(S) = Ascends(S)
    BY AscendsIs DEF Ascending
  <2>4. seen' = [j \in DOMAIN Ascends(S) |-> <<Ascends(S)[j], kv'[Ascends(S)[j]]>>]
    BY <2>3 DEF Forward, WriteAndAttend, S
  <2> QED BY <2>1, <2>2, <2>4, ReadsWindow
<1>16. StampsRead' = Window!Stamps(kept \o own)
  <2>1. StampsRead' = StampsBy(seen')
    <3>1. ByKey(DOMAIN seen', [j \in DOMAIN seen' |-> seen'[j][2]])
            = ByKeyOf(DOMAIN seen', [j \in DOMAIN seen' |-> seen'[j][2]])
      BY ByKeyIs
    <3> QED BY <3>1 DEF StampsRead, StampsBy
  <2> QED BY <1>14, <1>15, <2>1 DEF Window!Stamps
<1>17. WindowOf(Live)' = IF uc = 0 THEN kept ELSE kept \o own
  <2>1. WindowOf(Live)' = WindowBy(Live', owner', is_pred')
    <3>1. ByKey(Live', owner') = ByKeyOf(Live', owner')
      BY ByKeyIs
    <3> QED BY <3>1 DEF WindowOf, WindowBy
  <2>2. CASE uc = 0
    BY <1>5, <1>7, <1>9, <2>1, <2>2 DEF Dropped, k
  <2>3. CASE uc # 0
    BY <1>5, <1>14, <2>1, <2>3
  <2> QED BY <2>2, <2>3
<1>18. WindowOf(Live) = w
  BY WindowIs DEF w
<1>19. clock' = clock + 1
  BY DEF Forward
<1> QED BY <1>1, <1>16, <1>17, <1>18, <1>19 DEF Window!Forward, kept, own

LEMMA ForwardHoldsOwn ==
  ASSUME IInv, HoldsOwn, NEW n \in TokenCounts, NEW uc \in 0 .. 2, Forward(n, uc)
  PROVE  HoldsOwn'
<1>1. n \in Nat
  BY TokenCountsAssumption
<1>2. /\ \A s \in Kept(n) : owner'[s] = owner[s] /\ kv'[s] = owner[s]
      /\ \A s \in Granted(n) : owner'[s] = clock + 1 /\ kv'[s] = clock + 1
      /\ Live' = IF uc = 0 THEN Kept(n) ELSE Kept(n) \cup Granted(n)
  BY <1>1, ForwardMarks
<1> QED BY <1>2 DEF HoldsOwn

LEMMA WindowCardinality == ASSUME NEW S PROVE Window!Cardinality(S) = Cardinality(S)
BY DEF Window!Cardinality, Cardinality, Window!IsFiniteSet, IsFiniteSet

LEMMA WindowAscends == ASSUME NEW S PROVE Window!InOrder(S, <) = Ascends(S)
<1>1. Window!InOrder(S, <)
        = [j \in 1 .. Window!Cardinality(S) |-> CHOOSE s \in S : Window!Cardinality({t \in S : t < s}) = j - 1]
  BY DEF Window!InOrder, Window!Rank
<1> QED BY <1>1, WindowCardinality DEF Ascends

LEMMA ClearPredIsWindowClear ==
  ASSUME IInv, ClearPred
  PROVE  Window!ClearPred
<1> DEFINE w == WindowBy(Live, owner, is_pred)
           J == {j \in DOMAIN w : ~w[j].pred}
           e == Ascends(J)
<1>1. Keyed(Live, owner) /\ Live \subseteq Slots
  BY LiveIsKeyed DEF IInv
<1>2. \A s \in Live : is_pred[s] \in BOOLEAN
  BY <1>1 DEF IInv, TypeOK
<1>3. Live' = {s \in Live : ~is_pred[s]}
  BY DEF ClearPred, Live
<1>4. owner' = owner /\ is_pred' = is_pred /\ seen' = seen /\ clock' = clock
  BY DEF ClearPred
<1>5. WindowOf(Live) = w
  BY WindowIs
<1>6. WindowOf(Live)' = WindowBy(Live', owner', is_pred')
  <2>1. ByKey(Live', owner') = ByKeyOf(Live', owner')
    BY ByKeyIs
  <2> QED BY <2>1 DEF WindowOf, WindowBy
<1>7. WindowBy(Live', owner, is_pred) = [j \in DOMAIN e |-> w[e[j]]]
  BY <1>1, <1>2, <1>3, WindowLoses
<1>8. Window!InOrder(J, <) = e
  BY WindowAscends
<1>9. StampsRead' = StampsRead
  BY <1>4 DEF StampsRead
<1> HIDE DEF w, e
<1>10. WindowOf(Live)' = [j \in DOMAIN e |-> w[e[j]]]
  BY <1>4, <1>6, <1>7
<1> QED BY <1>4, <1>5, <1>8, <1>9, <1>10 DEF Window!ClearPred

(* A pool with nothing live is an empty window. *)
LEMMA EmptyWindow ==
  ASSUME NEW S, S = {}, NEW o, NEW p
  PROVE  WindowBy(S, o, p) = << >>
<1>1. Cardinality(S) = 0
  BY FS_EmptySet
<1>2. DOMAIN ByKeyOf(S, o) = {}
  BY <1>1 DEF ByKeyOf
<1>3. DOMAIN WindowBy(S, o, p) = {}
  BY <1>2 DEF WindowBy
<1>4. WindowBy(S, o, p) = [j \in 1 .. 0 |-> WindowBy(S, o, p)[j]]
  BY <1>3 DEF WindowBy
<1>5. [j \in 1 .. 0 |-> WindowBy(S, o, p)[j]] = << >>
  OBVIOUS
<1> QED BY <1>4, <1>5

LEMMA EmptiedIsWindowEmptied ==
  ASSUME Live' = {}
  PROVE  WindowOf(Live)' = << >>
<1>1. ByKey(Live', owner') = ByKeyOf(Live', owner')
  BY ByKeyIs
<1>2. WindowOf(Live)' = WindowBy(Live', owner', is_pred')
  BY <1>1 DEF WindowOf, WindowBy
<1> QED BY <1>2, EmptyWindow

LEMMA StepKeepsOwn == ASSUME IInv, HoldsOwn, [Next]_vars PROVE HoldsOwn'
<1>1. ASSUME NEW n \in TokenCounts, NEW uc \in 0 .. 2, Forward(n, uc)
      PROVE  HoldsOwn'
  BY <1>1, ForwardHoldsOwn
<1>2. ASSUME NEW n \in TokenCounts, Overflow(n) PROVE HoldsOwn'
  BY <1>2 DEF Overflow, HoldsOwn, Live
<1>3. CASE ClearPred
  BY <1>3 DEF ClearPred, HoldsOwn, Live
<1>4. CASE Reset
  BY <1>4 DEF Reset, HoldsOwn, Live
<1>5. CASE UNCHANGED vars
  BY <1>5 DEF vars, HoldsOwn, Live
<1> QED BY <1>1, <1>2, <1>3, <1>4, <1>5 DEF Next

LEMMA StepIsWindowStep ==
  ASSUME IInv, HoldsOwn, [Next]_vars
  PROVE  [Window!Next]_(Window!windowVars)
<1>1. ASSUME NEW n \in TokenCounts, NEW uc \in 0 .. 2, Forward(n, uc)
      PROVE  Window!Next
  <2>1. Window!Forward(n, uc)
    BY <1>1, ForwardIsWindowForward
  <2> QED BY <2>1 DEF Window!Next
<1>2. ASSUME NEW n \in TokenCounts, Overflow(n) PROVE Window!Next
  <2>1. Live' = {} /\ seen' = seen /\ clock' = clock /\ n > Size
    BY <1>2 DEF Overflow, Live
  <2>2. StampsRead' = StampsRead
    BY <2>1 DEF StampsRead
  <2>3. Window!Overflow(n)
    BY <2>1, <2>2, EmptiedIsWindowEmptied DEF Window!Overflow
  <2> QED BY <2>3 DEF Window!Next
<1>3. CASE ClearPred
  BY <1>3, ClearPredIsWindowClear DEF Window!Next
<1>4. CASE Reset
  <2>1. Live' = {} /\ seen' = seen /\ clock' = clock
    BY <1>4 DEF Reset, Live
  <2>2. StampsRead' = StampsRead
    BY <2>1 DEF StampsRead
  <2>3. Window!ClearCache
    BY <2>1, <2>2, EmptiedIsWindowEmptied DEF Window!ClearCache
  <2> QED BY <2>3 DEF Window!Next
<1>5. CASE UNCHANGED vars
  BY <1>5 DEF vars, Window!windowVars, WindowOf, StampsRead, Live
<1> QED BY <1>1, <1>2, <1>3, <1>4, <1>5 DEF Next

LEMMA InitIsWindowInit == ASSUME Init PROVE HoldsOwn /\ Window!Init
<1>1. Live = {} /\ seen = << >> /\ clock = 0
  BY DEF Init, Live
<1>2. WindowOf(Live) = << >>
  BY <1>1, WindowIs, EmptyWindow
<1>3. StampsRead = << >>
  <2>1. StampsRead = StampsBy(seen) /\ DOMAIN seen = {}
    BY <1>1, WindowIs
  <2>2. Cardinality(DOMAIN seen) = 0
    BY <2>1, FS_EmptySet
  <2> DEFINE q == ByKeyOf(DOMAIN seen, [j \in DOMAIN seen |-> seen[j][2]])
  <2>3. DOMAIN q = {}
    BY <2>2 DEF ByKeyOf
  <2>4. StampsBy(seen) = [j \in DOMAIN q |-> [i \in DOMAIN seen |-> seen[i][2]][q[j]]]
    BY DEF StampsBy
  <2> HIDE DEF q
  <2>5. StampsBy(seen) = [j \in 1 .. 0 |-> [i \in DOMAIN seen |-> seen[i][2]][q[j]]]
    BY <2>3, <2>4
  <2>6. StampsBy(seen) = << >>
    BY <2>5
  <2> QED BY <2>1, <2>6
<1>4. HoldsOwn
  BY <1>1 DEF HoldsOwn
<1> QED BY <1>1, <1>2, <1>3, <1>4 DEF Window!Init

-----------------------------------------------------------------------------
LEMMA PoolInvariant == Spec => []IInv
<1>1. Init => IInv
  BY InitIInv
<1>2. IInv /\ [Next]_vars => IInv'
  BY StepKeepsIInv
<1> QED BY <1>1, <1>2, PTL DEF Spec

(* For every pool: the bookkeeping keeps its types. *)
THEOREM PoolTypes == Spec => []TypeOK
<1>1. IInv => TypeOK
  BY DEF IInv
<1> QED BY <1>1, PoolInvariant, PTL

(* For every pool: the ids eviction sorts by are in the order the slots    *)
(* were granted in, whatever the mix of transient, provisional and         *)
(* committing forwards.                                                    *)
THEOREM IdsAlwaysTellAge == Spec => []IdsTellAge
<1>1. IInv => IdsTellAge
  BY DEF IInv
<1> QED BY <1>1, PoolInvariant, PTL

(* For every pool: a forward that makes room keeps nothing older than what *)
(* it gives up.                                                            *)
THEOREM OldestAreEvictedFirst == Spec => EvictsOldestFirst
<1> DEFINE OldestFirst ==
      clock' # clock => \A s \in Lost, t \in Live \ Lost : owner[s] <= owner[t]
<1>1. IInv /\ [Next]_vars => [OldestFirst]_vars
  <2> SUFFICES ASSUME IInv, Next, clock' # clock PROVE OldestFirst
    BY DEF vars
  <2>1. PICK n \in TokenCounts, uc \in 0 .. 2 : Forward(n, uc)
    BY DEF Next, Overflow, ClearPred, Reset
  <2>2. n \in Nat /\ Allocate(n, uc, clock + 1) /\ clock \in Nat
    BY <2>1, TokenCountsAssumption DEF Forward, IInv, TypeOK
  <2>3. Lost \subseteq Evicted(n)
    BY <2>2, GrantedIsUnused DEF Lost, Allocate, Kept, Live
  <2>4. Live \ Lost \subseteq Kept(n)
    <3> SUFFICES ASSUME NEW t \in Live, t \in Evicted(n) PROVE t \in Lost
      BY DEF Kept
    <3>1. CASE t \in Granted(n)
      BY <2>2, <3>1 DEF Allocate, Lost, Live, IInv, OwnersPast, TypeOK
    <3>2. CASE t \notin Granted(n)
      BY <2>2, <3>2 DEF Allocate, Lost, Live
    <3> QED BY <3>1, <3>2
  <2> QED BY <2>2, <2>3, <2>4, EvictionTakesOldest
<1> QED BY <1>1, PoolInvariant, PTL DEF Spec, EvictsOldestFirst

(* For every pool: the mask allocator is a window over the newest tokens.  *)
(* Whatever forwards evict, restore and clear, a forward reads the newest  *)
(* tokens that leave room for its own, in the order they were appended.    *)
THEOREM PoolIsAWindow == Spec => ImplementsWindow
<1>1. Init => HoldsOwn /\ Window!Init
  BY InitIsWindowInit
<1>2. IInv /\ HoldsOwn /\ [Next]_vars => HoldsOwn'
  BY StepKeepsOwn
<1>3. IInv /\ HoldsOwn /\ [Next]_vars => [Window!Next]_(Window!windowVars)
  BY StepIsWindowStep
<1> QED BY <1>1, <1>2, <1>3, PoolInvariant, PTL DEF Spec, ImplementsWindow, Window!Spec
=============================================================================
