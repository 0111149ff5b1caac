----------------------------- MODULE ElisionProofs -----------------------------
(***************************************************************************)
(* ActionElision and EnginePool for every token count, pool size, number   *)
(* of forwards and of calls that raise: neither way of not computing the   *)
(* trailing action forward shows in what the other forwards read.          *)
(*                                                                         *)
(* The pools of the four are compared two by two: the elided mask pool     *)
(* with the reference, the elided ring with the elided mask pool (by       *)
(* RingProofs, at the phase the pools are in), the engine's pool with the  *)
(* reference.                                                              *)
(***************************************************************************)
EXTENDS EnginePool, TLAPS

Cycles == CHOOSE k \in 1 .. Total : Total = k * (VideoTokens + ActionTokens)

(* The ring the elision runs, next to the mask allocator it runs. *)
R ==
  INSTANCE RingProofs WITH
    Periods <- Cycles,
    mask <- ringMask, id <- ringId, is_pred <- ringPred,
    owner <- ringOwner, kv <- ringKv, seen <- ringSeen,
    stockMask <- maskMask, stockIds <- maskIds, stockPred <- maskPred,
    stockOwner <- maskOwner, stockKv <- maskKv, stockSeen <- maskSeen

LEMMA RingAssumptions ==
  /\ R!TokensAssumption /\ R!BoundsAssumption
  /\ R!TotalAssumption /\ R!KeySizesAssumption /\ R!PlanAssumption /\ R!PeriodAssumption
<1>1. Cycles \in 1 .. Total /\ Total = Cycles * (VideoTokens + ActionTokens)
  BY CycleAssumption DEF Cycles
<1> QED
  BY <1>1, TokensAssumption, BoundsAssumption, PoolAssumption
     DEF R!TokensAssumption, R!BoundsAssumption, R!TotalAssumption, R!KeySizesAssumption,
         R!PlanAssumption, R!PeriodAssumption, KeySizes

LEMMA RingSteps ==
  /\ \A n, uc, stamp : Ring!Forward(n, uc, stamp) =>
       R!WriteAndAttend(n, stamp) /\ R!Bookkeep(n, uc) /\ R!Advance(n, uc) /\ R!RefreshPlan(R!Buffers(n))
  /\ \A n, uc, stamp : Ring!Reserve(n, uc, stamp) =>
       R!Bookkeep(n, uc) /\ R!Advance(n, uc) /\ R!RefreshPlan(plan) /\ UNCHANGED <<ringKv, ringSeen>>
  /\ Ring!ClearPred => R!ClearPred
  /\ R!WriteHead = Ring!WriteHead /\ R!Slots = Ring!Slots
<1>1. R!WriteHead = Ring!WriteHead /\ R!Slots = Ring!Slots /\ R!PlannedWrite = Ring!PlannedWrite
  BY DEF R!WriteHead, Ring!WriteHead, R!Slots, Ring!Slots,
         R!PlannedWrite, Ring!PlannedWrite, R!Saturated, Ring!Saturated
<1>2. \A n : R!Buffers(n) = Ring!Buffers(n) /\ R!WriteAt(n) = Ring!WriteAt(n)
  BY <1>1 DEF R!Buffers, Ring!Buffers, R!WriteAt, Ring!WriteAt
<1>3. \A h, n : R!Block(h, n) = Ring!Block(h, n)
  BY DEF R!Block, Ring!Block
<1>4. \A c : R!Presented(c) = Ring!Presented(c)
  BY Zenon DEF R!Presented, Ring!Presented
<1>5. ASSUME NEW n, NEW stamp, Ring!WriteAndAttend(n, stamp) PROVE R!WriteAndAttend(n, stamp)
  <2> DEFINE written == [s \in Ring!Slots |-> IF s \in Ring!Block(Ring!WriteAt(n), n) THEN stamp ELSE ringKv[s]]
             shown == Ring!Presented(count + n)
  <2>1. written = [s \in R!Slots |-> IF s \in R!Block(R!WriteAt(n), n) THEN stamp ELSE ringKv[s]]
    BY <1>1, <1>2, <1>3
  <2>2. shown = R!Presented(count + n)
    BY <1>4
  <2>3. ringKv' = written /\ ringSeen' = [i \in DOMAIN shown |-> <<shown[i], written[shown[i]]>>]
    BY <1>5, Zenon DEF Ring!WriteAndAttend
  <2> DEFINE written2 == [s \in R!Slots |-> IF s \in R!Block(R!WriteAt(n), n) THEN stamp ELSE ringKv[s]]
             shown2 == R!Presented(count + n)
  <2>4. written = written2 /\ shown = shown2
    BY <2>1, <2>2
  <2> HIDE DEF written, shown, written2, shown2
  <2>5. ringKv' = written2 /\ ringSeen' = [i \in DOMAIN shown2 |-> <<shown2[i], written2[shown2[i]]>>]
    BY <2>3, <2>4
  <2> QED BY <2>5, Zenon DEF R!WriteAndAttend, written2, shown2
<1>6. ASSUME NEW n, NEW uc, Ring!Bookkeep(n, uc) PROVE R!Bookkeep(n, uc)
  BY <1>1, <1>3, <1>6, Zenon DEF R!Bookkeep, Ring!Bookkeep
<1>7. ASSUME NEW n, NEW uc, Ring!Advance(n, uc) PROVE R!Advance(n, uc)
  BY <1>7, Zenon DEF R!Advance, Ring!Advance
<1>8. ASSUME NEW b, Ring!RefreshPlan(b) PROVE R!RefreshPlan(b)
  BY <1>8, Zenon DEF R!RefreshPlan, Ring!RefreshPlan
<1>9. Ring!ClearPred => R!ClearPred
  BY <1>1, Zenon DEF R!ClearPred, Ring!ClearPred
<1>10. ASSUME NEW n, NEW uc, NEW stamp, Ring!Forward(n, uc, stamp)
       PROVE  R!WriteAndAttend(n, stamp) /\ R!Bookkeep(n, uc) /\ R!Advance(n, uc) /\ R!RefreshPlan(R!Buffers(n))
  <2>1. Ring!WriteAndAttend(n, stamp) /\ Ring!Bookkeep(n, uc) /\ Ring!Advance(n, uc) /\ Ring!RefreshPlan(Ring!Buffers(n))
    BY <1>10, Zenon DEF Ring!Forward
  <2> QED BY <1>2, <1>5, <1>6, <1>7, <1>8, <2>1
<1>11. ASSUME NEW n, NEW uc, NEW stamp, Ring!Reserve(n, uc, stamp)
       PROVE  R!Bookkeep(n, uc) /\ R!Advance(n, uc) /\ R!RefreshPlan(plan) /\ UNCHANGED <<ringKv, ringSeen>>
  BY <1>6, <1>7, <1>8, <1>11 DEF Ring!Reserve
<1> QED BY <1>1, <1>9, <1>10, <1>11

-----------------------------------------------------------------------------
(* The three pools of SlotPool, as RingOrder writes them. *)

RefTakes(n, uc) == R!Takes(Total, n, uc, refMask, refIds, refPred, refMask', refIds', refPred')

RefWrites(n, x) == R!Writes(Total, n, x, refMask, refIds, refKv, refKv', refSeen')

LEMMA RefSteps ==
  ASSUME NEW n
  PROVE  /\ Ref!Slots = R!SlotRange(Total)
         /\ Ref!Granted(n) = R!GrantedIn(Total, refMask, refIds, n)
         /\ \A uc, x : Ref!Allocate(n, uc, x) => RefTakes(n, uc)
         /\ \A x : Ref!WriteAndAttend(n, x) => RefWrites(n, x)
<1>1. Ref!Live = R!LiveIn(Total, refMask) /\ Ref!Slots = R!SlotRange(Total)
  BY DEF Ref!Live, Ref!Slots, R!LiveIn, R!SlotRange
<1>2. \A S : Ref!Cardinality(S) = R!Cardinality(S)
  BY DEF Ref!Cardinality, R!Cardinality
<1>3. Ref!Evicted(n) = R!EvictedIn(Total, refMask, refIds, n)
  BY <1>1, <1>2 DEF Ref!Evicted, Ref!FirstOf, Ref!Rank, Ref!Older, Ref!Free, R!EvictedIn, R!Before
<1>4. Ref!Kept(n) = R!KeptIn(Total, refMask, refIds, n)
  BY <1>1, <1>3 DEF Ref!Kept, R!KeptIn
<1>5. Ref!Granted(n) = R!GrantedIn(Total, refMask, refIds, n)
  BY <1>1, <1>2, <1>4 DEF Ref!Granted, Ref!FirstOf, Ref!Rank, R!GrantedIn, R!LowestOf
<1>6. Ref!NewIds(n) = R!NewIdsIn(Total, refMask, refIds, n)
  BY <1>4 DEF Ref!NewIds, R!NewIdsIn
<1>7. \A S : Ref!Ascending(S) = R!Ascends(S)
  <2> SUFFICES ASSUME NEW S PROVE Ref!Ascending(S) = R!Ascends(S)
    OBVIOUS
  <2>1. Ref!Ascending(S)
          = [j \in 1 .. Ref!Cardinality(S) |->
               CHOOSE s \in S : Ref!Cardinality({t \in S : t < s}) = j - 1]
    BY DEF Ref!Ascending, Ref!InOrder, Ref!Rank
  <2>2. ASSUME NEW j
        PROVE  (CHOOSE s \in S : Ref!Cardinality({t \in S : t < s}) = j - 1)
                 = (CHOOSE s \in S : R!Cardinality({t \in S : t < s}) = j - 1)
    BY <1>2
  <2> QED BY <1>2, <2>1, <2>2 DEF R!Ascends
<1>8. ASSUME NEW uc, NEW x, Ref!Allocate(n, uc, x) PROVE RefTakes(n, uc)
  BY <1>1, <1>3, <1>5, <1>6, <1>8 DEF Ref!Allocate, RefTakes, R!Takes
<1>9. ASSUME NEW x, Ref!WriteAndAttend(n, x) PROVE RefWrites(n, x)
  <2>1. Ref!Ascending(Ref!Kept(n) \cup Ref!Granted(n)) = R!Ascends(R!ReadIn(Total, refMask, refIds, n))
    BY <1>4, <1>5, <1>7 DEF R!ReadIn
  <2> QED BY <1>1, <1>5, <1>9, <2>1 DEF Ref!WriteAndAttend, RefWrites, R!Writes, R!SeenIn
<1> QED BY <1>1, <1>5, <1>8, <1>9

MaskTakes(n, uc) == R!Takes(Total, n, uc, maskMask, maskIds, maskPred, maskMask', maskIds', maskPred')

MaskWrites(n, x) == R!Writes(Total, n, x, maskMask, maskIds, maskKv, maskKv', maskSeen')

LEMMA MaskSteps ==
  ASSUME NEW n
  PROVE  /\ Mask!Slots = R!SlotRange(Total)
         /\ Mask!Granted(n) = R!GrantedIn(Total, maskMask, maskIds, n)
         /\ \A uc, x : Mask!Allocate(n, uc, x) => MaskTakes(n, uc)
         /\ \A x : Mask!WriteAndAttend(n, x) => MaskWrites(n, x)
<1>1. Mask!Live = R!LiveIn(Total, maskMask) /\ Mask!Slots = R!SlotRange(Total)
  BY DEF Mask!Live, Mask!Slots, R!LiveIn, R!SlotRange
<1>2. \A S : Mask!Cardinality(S) = R!Cardinality(S)
  BY DEF Mask!Cardinality, R!Cardinality
<1>3. Mask!Evicted(n) = R!EvictedIn(Total, maskMask, maskIds, n)
  BY <1>1, <1>2 DEF Mask!Evicted, Mask!FirstOf, Mask!Rank, Mask!Older, Mask!Free, R!EvictedIn, R!Before
<1>4. Mask!Kept(n) = R!KeptIn(Total, maskMask, maskIds, n)
  BY <1>1, <1>3 DEF Mask!Kept, R!KeptIn
<1>5. Mask!Granted(n) = R!GrantedIn(Total, maskMask, maskIds, n)
  BY <1>1, <1>2, <1>4 DEF Mask!Granted, Mask!FirstOf, Mask!Rank, R!GrantedIn, R!LowestOf
<1>6. Mask!NewIds(n) = R!NewIdsIn(Total, maskMask, maskIds, n)
  BY <1>4 DEF Mask!NewIds, R!NewIdsIn
<1>7. \A S : Mask!Ascending(S) = R!Ascends(S)
  <2> SUFFICES ASSUME NEW S PROVE Mask!Ascending(S) = R!Ascends(S)
    OBVIOUS
  <2>1. Mask!Ascending(S)
          = [j \in 1 .. Mask!Cardinality(S) |->
               CHOOSE s \in S : Mask!Cardinality({t \in S : t < s}) = j - 1]
    BY DEF Mask!Ascending, Mask!InOrder, Mask!Rank
  <2>2. ASSUME NEW j
        PROVE  (CHOOSE s \in S : Mask!Cardinality({t \in S : t < s}) = j - 1)
                 = (CHOOSE s \in S : R!Cardinality({t \in S : t < s}) = j - 1)
    BY <1>2
  <2> QED BY <1>2, <2>1, <2>2 DEF R!Ascends
<1>8. ASSUME NEW uc, NEW x, Mask!Allocate(n, uc, x) PROVE MaskTakes(n, uc)
  BY <1>1, <1>3, <1>5, <1>6, <1>8 DEF Mask!Allocate, MaskTakes, R!Takes
<1>9. ASSUME NEW x, Mask!WriteAndAttend(n, x) PROVE MaskWrites(n, x)
  <2>1. Mask!Ascending(Mask!Kept(n) \cup Mask!Granted(n)) = R!Ascends(R!ReadIn(Total, maskMask, maskIds, n))
    BY <1>4, <1>5, <1>7 DEF R!ReadIn
  <2> QED BY <1>1, <1>5, <1>9, <2>1 DEF Mask!WriteAndAttend, MaskWrites, R!Writes, R!SeenIn
<1> QED BY <1>1, <1>5, <1>8, <1>9

PoolTakes(n, uc) == R!Takes(Total, n, uc, mask, ids, is_pred, mask', ids', is_pred')

PoolWrites(n, x) == R!Writes(Total, n, x, mask, ids, kv, kv', seen')

LEMMA PoolSteps ==
  ASSUME NEW n
  PROVE  /\ Pool!Slots = R!SlotRange(Total)
         /\ Pool!Granted(n) = R!GrantedIn(Total, mask, ids, n)
         /\ \A uc, x : Pool!Allocate(n, uc, x) => PoolTakes(n, uc)
         /\ \A x : Pool!WriteAndAttend(n, x) => PoolWrites(n, x)
<1>1. Pool!Live = R!LiveIn(Total, mask) /\ Pool!Slots = R!SlotRange(Total)
  BY DEF Pool!Live, Pool!Slots, R!LiveIn, R!SlotRange
<1>2. \A S : Pool!Cardinality(S) = R!Cardinality(S)
  BY DEF Pool!Cardinality, R!Cardinality
<1>3. Pool!Evicted(n) = R!EvictedIn(Total, mask, ids, n)
  BY <1>1, <1>2 DEF Pool!Evicted, Pool!FirstOf, Pool!Rank, Pool!Older, Pool!Free, R!EvictedIn, R!Before
<1>4. Pool!Kept(n) = R!KeptIn(Total, mask, ids, n)
  BY <1>1, <1>3 DEF Pool!Kept, R!KeptIn
<1>5. Pool!Granted(n) = R!GrantedIn(Total, mask, ids, n)
  BY <1>1, <1>2, <1>4 DEF Pool!Granted, Pool!FirstOf, Pool!Rank, R!GrantedIn, R!LowestOf
<1>6. Pool!NewIds(n) = R!NewIdsIn(Total, mask, ids, n)
  BY <1>4 DEF Pool!NewIds, R!NewIdsIn
<1>7. \A S : Pool!Ascending(S) = R!Ascends(S)
  <2> SUFFICES ASSUME NEW S PROVE Pool!Ascending(S) = R!Ascends(S)
    OBVIOUS
  <2>1. Pool!Ascending(S)
          = [j \in 1 .. Pool!Cardinality(S) |->
               CHOOSE s \in S : Pool!Cardinality({t \in S : t < s}) = j - 1]
    BY DEF Pool!Ascending, Pool!InOrder, Pool!Rank
  <2>2. ASSUME NEW j
        PROVE  (CHOOSE s \in S : Pool!Cardinality({t \in S : t < s}) = j - 1)
                 = (CHOOSE s \in S : R!Cardinality({t \in S : t < s}) = j - 1)
    BY <1>2
  <2> QED BY <1>2, <2>1, <2>2 DEF R!Ascends
<1>8. ASSUME NEW uc, NEW x, Pool!Allocate(n, uc, x) PROVE PoolTakes(n, uc)
  BY <1>1, <1>3, <1>5, <1>6, <1>8 DEF Pool!Allocate, PoolTakes, R!Takes
<1>9. ASSUME NEW x, Pool!WriteAndAttend(n, x) PROVE PoolWrites(n, x)
  <2>1. Pool!Ascending(Pool!Kept(n) \cup Pool!Granted(n)) = R!Ascends(R!ReadIn(Total, mask, ids, n))
    BY <1>4, <1>5, <1>7 DEF R!ReadIn
  <2> QED BY <1>1, <1>5, <1>9, <2>1 DEF Pool!WriteAndAttend, PoolWrites, R!Writes, R!SeenIn
<1> QED BY <1>1, <1>5, <1>8, <1>9

-----------------------------------------------------------------------------
(* The elided mask pool and the reference. *)

Slots == R!SlotRange(Total)

SameBooks == maskMask = refMask /\ maskIds = refIds /\ maskPred = refPred

(* Slots taken without a forward hold nobody's K/V until they are cleared. *)
KvHeld ==
  \A s \in Slots :
    maskMask[s] /\ (owed = "clear_pred" => ~maskPred[s]) => maskKv[s] = refKv[s]

(* The reference is one forward ahead: it ran what is stashed on K/V that  *)
(* agreed with the elided pool's.                                          *)
RefRanStashed ==
  /\ R!Takes(Total, ActionTokens, 1, maskMask, maskIds, maskPred, refMask, refIds, refPred)
  /\ \E k : /\ R!Agree(Total, maskMask, maskKv, k)
            /\ R!Writes(Total, ActionTokens, clock, maskMask, maskIds, k, refKv, refSeen)

MaskIInv ==
  /\ maskMask \in [Slots -> BOOLEAN] /\ maskIds \in [Slots -> Int] /\ clock \in Nat
  /\ owed = "clear_pred" => phase = "ready"
  /\ pending = Nothing => SameBooks /\ KvHeld
  /\ pending # Nothing =>
       /\ pending = [n |-> ActionTokens, uc |-> 1, stamp |-> clock]
       /\ owed = "none" /\ RefRanStashed

LEMMA TotalIsNat == Total \in Nat \ {0}
BY PoolAssumption

(* The stashed forward takes from the mask pool what it took from the      *)
(* reference.                                                              *)
LEMMA StashedTakes ==
  ASSUME MaskIInv, RefRanStashed, MaskTakes(ActionTokens, 1)
  PROVE  maskMask' = refMask /\ maskIds' = refIds /\ maskPred' = refPred
<1>1. maskMask \in [R!SlotRange(Total) -> BOOLEAN] /\ maskIds \in [R!SlotRange(Total) -> Int]
  BY DEF MaskIInv, Slots
<1> QED BY <1>1, RingAssumptions, TotalIsNat, R!TakesOnce DEF RefRanStashed, MaskTakes

LEMMA MaskTypes ==
  ASSUME MaskIInv, NEW n, NEW uc, MaskTakes(n, uc)
  PROVE  maskMask' \in [Slots -> BOOLEAN] /\ maskIds' \in [Slots -> Int]
<1>1. maskMask \in [R!SlotRange(Total) -> BOOLEAN] /\ maskIds \in [R!SlotRange(Total) -> Int]
  BY DEF MaskIInv, Slots
<1> QED BY <1>1, RingAssumptions, TotalIsNat, R!TakesTypes DEF MaskTakes, Slots

LEMMA MaterializeExact ==
  ASSUME MaskIInv, Materialize
  PROVE  /\ MaskIInv' /\ maskSeen' = refSeen
         /\ maskMask' = refMask /\ maskIds' = refIds /\ maskPred' = refPred
<1>1. /\ pending # Nothing /\ pending' = Nothing /\ owed' = "forward"
      /\ UNCHANGED <<cycleVars, refVars>> /\ Run(pending.n, pending.uc, pending.stamp)
  BY DEF Materialize
<1>2. pending = [n |-> ActionTokens, uc |-> 1, stamp |-> clock] /\ RefRanStashed
  BY <1>1 DEF MaskIInv
<1>3. MaskTakes(ActionTokens, 1) /\ MaskWrites(ActionTokens, clock)
  BY <1>1, <1>2, MaskSteps DEF Run
<1>4. maskMask' = refMask /\ maskIds' = refIds /\ maskPred' = refPred
  BY <1>2, <1>3, StashedTakes
<1>5. PICK k : /\ R!Agree(Total, maskMask, maskKv, k)
               /\ R!Writes(Total, ActionTokens, clock, maskMask, maskIds, k, refKv, refSeen)
  BY <1>2 DEF RefRanStashed
<1>6. maskSeen' = refSeen /\ R!Agree(Total, maskMask', maskKv', refKv)
  BY <1>3, <1>5, RingAssumptions, TotalIsNat, R!WritesAlike DEF MaskTakes, MaskWrites
<1>7. SameBooks' /\ KvHeld'
  BY <1>1, <1>4, <1>6 DEF SameBooks, KvHeld, R!Agree, Slots, refVars
<1>8. maskMask' \in [Slots -> BOOLEAN] /\ maskIds' \in [Slots -> Int] /\ clock' \in Nat
  BY <1>1, <1>3, MaskTypes DEF MaskIInv, cycleVars
<1> QED BY <1>1, <1>4, <1>6, <1>7, <1>8 DEF MaskIInv

LEMMA ReserveExact ==
  ASSUME MaskIInv, Reserve
  PROVE  /\ MaskIInv' /\ UNCHANGED <<maskSeen, clock>>
         /\ maskMask' = refMask /\ maskIds' = refIds /\ maskPred' = refPred
<1>1. /\ pending # Nothing /\ pending' = Nothing /\ owed' = "clear_pred" /\ phase = "ready"
      /\ UNCHANGED <<cycleVars, refVars, maskKv, maskSeen>>
      /\ Mask!Allocate(pending.n, pending.uc, pending.stamp)
  BY DEF Reserve
<1>2. /\ pending = [n |-> ActionTokens, uc |-> 1, stamp |-> clock] /\ RefRanStashed
      /\ owed = "none"
  BY <1>1 DEF MaskIInv
<1>3. MaskTakes(ActionTokens, 1)
  BY <1>1, <1>2, MaskSteps
<1>4. maskMask' = refMask /\ maskIds' = refIds /\ maskPred' = refPred
  BY <1>2, <1>3, StashedTakes
<1>5. PICK k : /\ R!Agree(Total, maskMask, maskKv, k)
               /\ R!Writes(Total, ActionTokens, clock, maskMask, maskIds, k, refKv, refSeen)
  BY <1>2 DEF RefRanStashed
<1>6. ASSUME NEW s \in Slots, maskMask'[s], ~maskPred'[s] PROVE maskKv[s] = refKv[s]
  <2>1. /\ s \in R!ReadIn(Total, maskMask, maskIds, ActionTokens)
        /\ s \in R!GrantedIn(Total, maskMask, maskIds, ActionTokens) => maskPred'[s] = TRUE
        /\ s \in R!KeptIn(Total, maskMask, maskIds, ActionTokens) => maskMask[s]
    <3>1. /\ \A r \in R!SlotRange(Total) : maskMask'[r] => r \in R!ReadIn(Total, maskMask, maskIds, ActionTokens)
          /\ \A r \in R!GrantedIn(Total, maskMask, maskIds, ActionTokens) : maskPred'[r] = (1 = 1)
          /\ \A r \in R!KeptIn(Total, maskMask, maskIds, ActionTokens) :
               maskPred'[r] = maskPred[r] /\ maskMask[r]
      BY <1>3, RingAssumptions, TotalIsNat, R!TakesLive DEF MaskTakes
    <3> QED BY <1>6, <3>1 DEF Slots
  <2>2. maskMask[s] /\ s \notin R!GrantedIn(Total, maskMask, maskIds, ActionTokens)
    BY <1>6, <2>1 DEF R!ReadIn
  <2> QED BY <1>5, <2>2 DEF R!Agree, R!Writes, Slots
<1>7. SameBooks' /\ KvHeld'
  BY <1>1, <1>4, <1>6 DEF SameBooks, KvHeld, refVars, Slots
<1>8. maskMask' \in [Slots -> BOOLEAN] /\ maskIds' \in [Slots -> Int] /\ clock' \in Nat
  BY <1>1, <1>3, MaskTypes DEF MaskIInv, cycleVars
<1> QED BY <1>1, <1>4, <1>7, <1>8 DEF MaskIInv, cycleVars

LEMMA ForwardExact ==
  ASSUME MaskIInv, NEW n \in KeySizes, NEW uc \in 0 .. 2, OnForward(n, uc)
  PROVE  MaskIInv' /\ maskSeen' = IF Elides(uc) THEN maskSeen ELSE refSeen'
<1>1. /\ pending = Nothing /\ owed \in {"none", "forward"} /\ owed' = "none" /\ clock' = clock + 1
      /\ Ref!Forward(n, uc) /\ clock \in Nat
  BY DEF OnForward, Issue, MaskIInv
<1>2. RefTakes(n, uc) /\ RefWrites(n, clock + 1)
  BY <1>1, RefSteps DEF Ref!Forward
<1>3. SameBooks /\ R!Agree(Total, maskMask, maskKv, refKv)
  BY <1>1 DEF MaskIInv, KvHeld, R!Agree, Slots
<1>4. CASE Elides(uc)
  <2>1. pending' = [n |-> n, uc |-> uc, stamp |-> clock + 1] /\ UNCHANGED elidedVars
    BY <1>4 DEF OnForward
  <2>2. uc = 1 /\ n = ActionTokens
    BY <1>4, Zenon DEF Elides, OnForward, Issue, Transient, Closing
  <2>3. pending' # Nothing
    <3>1. pending' \in [n : KeySizes, uc : 0 .. 2, stamp : Nat]
      BY <1>1, <2>1
    <3> QED BY <3>1, NothingAssumption
  <2>4. RefRanStashed'
    <3>1. R!Takes(Total, ActionTokens, 1, maskMask, maskIds, maskPred, refMask', refIds', refPred')
      BY <1>2, <1>3, <2>2 DEF RefTakes, SameBooks
    <3>2. R!Writes(Total, ActionTokens, clock + 1, maskMask, maskIds, refKv, refKv', refSeen')
      BY <1>2, <1>3, <2>2 DEF RefWrites, SameBooks
    <3>3. UNCHANGED <<maskMask, maskIds, maskPred, maskKv>>
      BY <2>1 DEF elidedVars, maskVars
    <3> QED BY <1>1, <1>3, <3>1, <3>2, <3>3 DEF RefRanStashed
  <2> QED BY <1>1, <1>4, <2>1, <2>2, <2>3, <2>4 DEF MaskIInv, elidedVars, maskVars
<1>5. CASE ~Elides(uc)
  <2>1. Run(n, uc, clock + 1) /\ pending' = Nothing
    BY <1>1, <1>5 DEF OnForward
  <2>2. MaskTakes(n, uc) /\ MaskWrites(n, clock + 1)
    BY <2>1, MaskSteps DEF Run
  <2>3. R!Takes(Total, n, uc, maskMask, maskIds, maskPred, refMask', refIds', refPred')
    BY <1>2, <1>3 DEF RefTakes, SameBooks
  <2>4. SameBooks'
    <3>1. maskMask \in [R!SlotRange(Total) -> BOOLEAN] /\ maskIds \in [R!SlotRange(Total) -> Int]
      BY DEF MaskIInv, Slots
    <3>2. maskMask' = refMask' /\ maskIds' = refIds' /\ maskPred' = refPred'
      BY <2>2, <2>3, <3>1, RingAssumptions, TotalIsNat, R!TakesOnce DEF MaskTakes
    <3> QED BY <3>2 DEF SameBooks
  <2>5. maskSeen' = refSeen' /\ R!Agree(Total, maskMask', maskKv', refKv')
    <3>1. R!Writes(Total, n, clock + 1, maskMask, maskIds, refKv, refKv', refSeen')
      BY <1>2, <1>3 DEF RefWrites, SameBooks
    <3> QED BY <1>3, <2>2, <3>1, RingAssumptions, TotalIsNat, R!WritesAlike DEF MaskTakes, MaskWrites
  <2>6. KvHeld'
    BY <2>5 DEF KvHeld, R!Agree, Slots
  <2> QED BY <1>1, <1>5, <2>1, <2>2, <2>4, <2>5, <2>6, MaskTypes DEF MaskIInv
<1> QED BY <1>4, <1>5

LEMMA MaskStep ==
  ASSUME MaskIInv, [ElisionNext]_vars
  PROVE  /\ MaskIInv'
         /\ maskSeen' # maskSeen /\ clock' # clock => maskSeen' = refSeen'
<1>1. CASE Materialize
  <2>1. clock' = clock
    BY <1>1 DEF Materialize, cycleVars
  <2> QED BY <1>1, <2>1, MaterializeExact
<1>2. CASE Reserve
  BY <1>2, ReserveExact
<1>3. ASSUME NEW n \in KeySizes, NEW uc \in 0 .. 2, OnForward(n, uc)
      PROVE  MaskIInv' /\ (maskSeen' # maskSeen => maskSeen' = refSeen')
  BY <1>3, ForwardExact
<1>4. CASE ReturnCall
  <2>1. UNCHANGED <<pending, owed, maskVars, refVars, clock>> /\ phase # "ready"
    BY <1>4 DEF ReturnCall, Return, elidedVars
  <2>2. owed # "clear_pred"
    BY <2>1 DEF MaskIInv
  <2> QED BY <2>1, <2>2 DEF MaskIInv, SameBooks, KvHeld, RefRanStashed, maskVars, refVars
<1>5. CASE ClearPred
  <2>1. /\ pending = Nothing /\ pending' = Nothing /\ owed' = "none" /\ clock' = clock
        /\ Mask!ClearPred /\ Ref!ClearPred
    BY <1>5 DEF ClearPred, IssueClearPred
  <2>2. /\ maskMask' = [s \in Slots |-> maskMask[s] /\ ~maskPred[s]]
        /\ refMask' = [s \in Slots |-> refMask[s] /\ ~refPred[s]]
        /\ UNCHANGED <<maskIds, maskPred, maskKv, maskSeen, refIds, refPred, refKv>>
    BY <2>1, MaskSteps, RefSteps DEF Mask!ClearPred, Ref!ClearPred, Slots
  <2>3. SameBooks'
    BY <2>1, <2>2 DEF MaskIInv, SameBooks
  <2>4. KvHeld'
    BY <2>1, <2>2 DEF MaskIInv, KvHeld
  <2>5. maskMask' \in [Slots -> BOOLEAN]
    BY <2>2
  <2> QED BY <2>1, <2>2, <2>3, <2>4, <2>5 DEF MaskIInv
<1>6. CASE OnCacheDropped
  <2>1. pending' = Nothing /\ owed' = "none" /\ clock' = clock /\ Mask!Reset /\ Ref!Reset
    BY <1>6 DEF OnCacheDropped, IssueReset
  <2>2. /\ maskMask' = [s \in Slots |-> FALSE] /\ refMask' = [s \in Slots |-> FALSE]
        /\ maskIds' = [s \in Slots |-> -1] /\ refIds' = [s \in Slots |-> -1]
        /\ maskPred' = [s \in Slots |-> FALSE] /\ refPred' = [s \in Slots |-> FALSE]
    BY <2>1, MaskSteps, RefSteps DEF Mask!Reset, Ref!Reset, Slots
  <2> QED BY <2>1, <2>2 DEF MaskIInv, SameBooks, KvHeld
<1>7. CASE AbortCall
  <2>1. /\ UNCHANGED <<pending, maskVars, refVars, clock>> /\ phase # "ready" /\ owed' = "none"
    BY <1>7 DEF AbortCall, Abort, elidedVars
  <2>2. owed # "clear_pred"
    BY <2>1 DEF MaskIInv
  <2> QED BY <2>1, <2>2 DEF MaskIInv, SameBooks, KvHeld, RefRanStashed, maskVars, refVars
<1>8. CASE UNCHANGED vars
  BY <1>8 DEF vars, cycleVars, elidedVars, maskVars, refVars,
              MaskIInv, SameBooks, KvHeld, RefRanStashed
<1> QED BY <1>1, <1>2, <1>3, <1>4, <1>5, <1>6, <1>7, <1>8 DEF ElisionNext, Settle

LEMMA MaskBegins == ElisionInit => MaskIInv
<1> SUFFICES ASSUME ElisionInit PROVE MaskIInv
  OBVIOUS
<1>1. pending = Nothing /\ owed = "none" /\ clock = 0 /\ Mask!Init /\ Ref!Init
  BY DEF ElisionInit, Init
<1>2. /\ maskMask = [s \in Slots |-> FALSE] /\ refMask = [s \in Slots |-> FALSE]
      /\ maskIds = [s \in Slots |-> -1] /\ refIds = [s \in Slots |-> -1]
      /\ maskPred = [s \in Slots |-> FALSE] /\ refPred = [s \in Slots |-> FALSE]
  BY <1>1, MaskSteps, RefSteps DEF Mask!Init, Ref!Init, Slots
<1> QED BY <1>1, <1>2 DEF MaskIInv, SameBooks, KvHeld

-----------------------------------------------------------------------------
(* The elided ring and the elided mask pool. *)

(* Where the elided pools are: behind the cycle while a forward is stashed. *)
PoolPhase == IF pending = Nothing THEN phase ELSE "action"

RingHeld ==
  \A s \in Slots :
    maskMask[s] /\ (owed = "clear_pred" => ~maskPred[s]) => ringKv[s] = maskKv[s]

RingIInv ==
  /\ DOMAIN plan = KeySizes
  /\ clean => /\ pending # Nothing => phase \in {"returning", "ready"}
              /\ R!ParityAt(PoolPhase) /\ R!PlanAt(PoolPhase) /\ RingHeld

LEMMA RingForward ==
  ASSUME MaskIInv, RingIInv, NEW n \in KeySizes, NEW uc \in 0 .. 2, OnForward(n, uc)
  PROVE  /\ RingIInv'
         /\ clean /\ ringSeen' # ringSeen => ringSeen' = maskSeen' /\ maskSeen' = refSeen'
<1>1. /\ pending = Nothing /\ owed \in {"none", "forward"} /\ owed' = "none"
      /\ clean' = clean /\ PoolPhase = phase
  BY DEF OnForward, Issue, MoveTo, PoolPhase
<1>2. CASE Elides(uc)
  <2>1. UNCHANGED elidedVars /\ pending' = [n |-> n, uc |-> uc, stamp |-> clock + 1]
    BY <1>2 DEF OnForward
  <2>2. phase = "action" /\ phase' = "returning"
    BY <1>2 DEF Elides, OnForward, Issue, Transient, Closing, MoveTo
  <2>3. pending' # Nothing
    <3>1. pending' \in [n : KeySizes, uc : 0 .. 2, stamp : Nat]
      BY <2>1 DEF MaskIInv
    <3> QED BY <3>1, NothingAssumption
  <2>4. PoolPhase' = "action" /\ UNCHANGED <<maskVars, ringVars>>
    BY <2>1, <2>3 DEF PoolPhase, elidedVars
  <2>5. PoolPhase = "action"
    BY <1>1, <2>2
  <2>6. R!ParityAt("action") /\ R!PlanAt("action") => (R!ParityAt("action") /\ R!PlanAt("action"))'
    BY <2>4 DEF maskVars, ringVars, R!ParityAt, R!PlanAt, R!RingIsAt, R!Aligned, R!FreeAt,
                R!WriteHead, R!Saturated
  <2>7. RingHeld => RingHeld'
    BY <1>1, <2>4 DEF RingHeld, maskVars, ringVars
  <2> QED BY <1>1, <2>2, <2>4, <2>5, <2>6, <2>7 DEF RingIInv, maskVars, ringVars
<1>3. CASE ~Elides(uc)
  <2>1. Run(n, uc, clock + 1) /\ pending' = Nothing
    BY <1>1, <1>3 DEF OnForward
  <2>2. R!StockTakes(n, uc) /\ R!StockWrites(n, clock + 1)
    BY <2>1, MaskSteps DEF Run, MaskTakes, MaskWrites, R!StockTakes, R!StockWrites
  <2>3. /\ R!WriteAndAttend(n, clock + 1) /\ R!Bookkeep(n, uc) /\ R!Advance(n, uc)
        /\ R!RefreshPlan(R!Buffers(n))
    BY <2>1, RingSteps DEF Run
  <2>4. DOMAIN plan' = KeySizes
    BY <2>3 DEF R!RefreshPlan
  <2>5. PICK p, q : p = phase /\ q = phase'
    OBVIOUS
  <2>6. R!Leads(p, n, uc, q)
    BY <2>5 DEF OnForward, Issue, Transient, Closing, MoveTo, R!Leads, R!Closing, R!Issued
  <2>7. ASSUME clean
        PROVE  R!ParityAt(q)' /\ R!PlanAt(q)' /\ R!KvAgree' /\ ringSeen' = maskSeen'
    <3>1. R!ParityAt(p) /\ R!PlanAt(p) /\ DOMAIN plan = KeySizes
      BY <1>1, <2>5, <2>7 DEF RingIInv
    <3>2. R!KvAgree
      BY <1>1, <2>7 DEF RingIInv, RingHeld, R!KvAgree, R!Agree, Slots
    <3> QED BY <2>2, <2>3, <2>6, <3>1, <3>2, RingAssumptions, R!ForwardTurns
  <2>8. PoolPhase' = q
    BY <2>1, <2>5 DEF PoolPhase
  <2>9. R!KvAgree' => RingHeld'
    BY DEF RingHeld, R!KvAgree, R!Agree, Slots
  <2>10. maskSeen' = refSeen'
    BY <1>3, ForwardExact
  <2> QED BY <1>1, <2>1, <2>4, <2>7, <2>8, <2>9, <2>10 DEF RingIInv
<1> QED BY <1>2, <1>3

LEMMA ReturnedParity == \A p, q : R!Returns(p, q) /\ R!ParityAt(p) => R!ParityAt(q)
BY RingAssumptions, R!ParityReturns

LEMMA ReturningParity == R!ParityAt("returning") => R!ParityAt("ready")
BY ReturnedParity DEF R!Returns

LEMMA ReturningParityNext == R!ParityAt("returning")' => R!ParityAt("ready")'
BY ReturningParity, PTL

LEMMA FreshParity == R!EmptyPools => R!ParityAt("video")
BY RingAssumptions, R!ParityBegins

LEMMA FreshParityNext == R!EmptyPools' => R!ParityAt("video")'
BY FreshParity, PTL

(* Reserving is the stashed forward without its K/V. *)
LEMMA RingReserve ==
  ASSUME MaskIInv, RingIInv, Reserve PROVE RingIInv'
<1>1. /\ pending # Nothing /\ pending' = Nothing /\ owed' = "clear_pred"
      /\ phase' = "ready" /\ clean' = clean /\ PoolPhase' = "ready" /\ PoolPhase = "action"
      /\ UNCHANGED maskKv
  BY DEF Reserve, cycleVars, PoolPhase
<1>2. pending = [n |-> ActionTokens, uc |-> 1, stamp |-> clock] /\ owed = "none"
  BY <1>1 DEF MaskIInv
<1>3. MaskTakes(ActionTokens, 1)
  BY <1>2, MaskSteps DEF Reserve
<1>4. /\ R!Bookkeep(ActionTokens, 1) /\ R!Advance(ActionTokens, 1) /\ R!RefreshPlan(plan)
      /\ UNCHANGED ringKv
  BY <1>2, RingSteps DEF Reserve
<1>5. DOMAIN plan' = KeySizes
  BY <1>4 DEF R!RefreshPlan
<1>6. ASSUME clean PROVE R!ParityAt("ready")' /\ R!PlanAt("ready")' /\ RingHeld'
  <2>1. R!ParityAt("action") /\ R!Closing("action", ActionTokens, 1, "returning")
    BY <1>1, <1>6 DEF RingIInv, R!Closing
  <2>2. R!ParityAt("returning")'
    BY <1>3, <1>4, <2>1, RingAssumptions, R!ParityCommits DEF MaskTakes, R!StockTakes
  <2>3. R!ParityAt("ready")'
    BY <2>2, ReturningParityNext
  <2>4. R!PlanAt("ready")'
    BY DEF R!PlanAt, R!Issued
  <2>5. ASSUME NEW s \in Slots, maskMask'[s], ~maskPred'[s] PROVE ringKv[s] = maskKv[s]
    <3>1. /\ \A r \in R!SlotRange(Total) : maskMask'[r] => r \in R!ReadIn(Total, maskMask, maskIds, ActionTokens)
          /\ \A r \in R!GrantedIn(Total, maskMask, maskIds, ActionTokens) : maskPred'[r] = (1 = 1)
          /\ \A r \in R!KeptIn(Total, maskMask, maskIds, ActionTokens) :
               maskPred'[r] = maskPred[r] /\ maskMask[r]
      BY <1>3, RingAssumptions, TotalIsNat, R!TakesLive DEF MaskTakes
    <3>2. maskMask[s]
      BY <2>5, <3>1 DEF R!ReadIn, Slots
    <3> QED BY <1>2, <1>6, <3>2 DEF RingIInv, RingHeld
  <2> QED BY <1>1, <1>4, <2>3, <2>4, <2>5 DEF RingHeld, Slots
<1> QED BY <1>1, <1>5, <1>6 DEF RingIInv

LEMMA RingStep ==
  ASSUME MaskIInv, RingIInv, [ElisionNext]_vars
  PROVE  /\ RingIInv'
         /\ clean /\ ringSeen' # ringSeen /\ clock' # clock => ringSeen' = refSeen'
<1>1. CASE Materialize
  <2>1. /\ pending # Nothing /\ phase = "video" /\ UNCHANGED cycleVars
        /\ Run(pending.n, pending.uc, pending.stamp)
    BY <1>1 DEF Materialize
  <2>2. ~clean /\ ~clean' /\ clock' = clock
    BY <2>1 DEF RingIInv, cycleVars
  <2>3. DOMAIN plan' = KeySizes
    BY <2>1, RingSteps DEF Run, R!RefreshPlan
  <2> QED BY <2>2, <2>3 DEF RingIInv
<1>2. CASE Reserve
  <2>1. clock' = clock
    BY <1>2 DEF Reserve, cycleVars
  <2> QED BY <1>2, <2>1, RingReserve
<1>3. ASSUME NEW n \in KeySizes, NEW uc \in 0 .. 2, OnForward(n, uc)
      PROVE  RingIInv' /\ (clean /\ ringSeen' # ringSeen => ringSeen' = refSeen')
  BY <1>3, RingForward
<1>4. CASE ReturnCall
  <2>1. /\ UNCHANGED <<pending, owed, maskVars, ringVars, clean, clock>>
        /\ R!Returns(phase, phase')
    BY <1>4 DEF ReturnCall, Return, MoveTo, elidedVars, R!Returns
  <2>2. ASSUME clean PROVE (R!ParityAt(PoolPhase) /\ R!PlanAt(PoolPhase))'
    <3>1. PICK q : q = PoolPhase'
      OBVIOUS
    <3>2. R!ParityAt(q) /\ R!PlanAt(q)
      <4>1. CASE pending # Nothing
        <5>1. phase' = "ready" /\ phase = "returning"
          BY <2>1, <2>2, <4>1 DEF RingIInv, R!Returns
        <5> QED BY <2>1, <2>2, <3>1, <4>1, <5>1 DEF RingIInv, PoolPhase
      <4>2. CASE pending = Nothing
        <5>1. q = phase' /\ PoolPhase = phase
          BY <2>1, <3>1, <4>2 DEF PoolPhase
        <5>2. R!ParityAt(q)
          BY <2>1, <2>2, <5>1, ReturnedParity DEF RingIInv
        <5>3. R!PlanAt(q)
          BY <2>1, <2>2, <5>1 DEF RingIInv, R!Returns, R!PlanAt, R!Issued
        <5> QED BY <5>2, <5>3
      <4> QED BY <4>1, <4>2
    <3>3. R!ParityAt(q)' /\ R!PlanAt(q)'
      BY <2>1, <3>2 DEF maskVars, ringVars, R!ParityAt, R!PlanAt, R!RingIsAt, R!Aligned, R!FreeAt,
                        R!WriteHead, R!Saturated
    <3> QED BY <3>1, <3>3
  <2>3. RingHeld => RingHeld'
    BY <2>1 DEF RingHeld, maskVars, ringVars
  <2>4. pending # Nothing /\ clean => phase' = "ready"
    BY <2>1 DEF RingIInv, R!Returns
  <2> QED BY <2>1, <2>2, <2>3, <2>4 DEF RingIInv, ringVars
<1>5. CASE ClearPred
  <2>1. /\ pending = Nothing /\ pending' = Nothing /\ owed' = "none" /\ clock' = clock
        /\ clean' = clean /\ phase = "ready" /\ phase' = "commit_video"
        /\ Mask!ClearPred /\ R!ClearPred
    BY <1>5, RingSteps DEF ClearPred, IssueClearPred, MoveTo
  <2>2. /\ maskMask' = [s \in Slots |-> maskMask[s] /\ ~maskPred[s]]
        /\ UNCHANGED <<maskIds, maskPred, maskKv, ringKv, plan>>
    BY <2>1, MaskSteps DEF Mask!ClearPred, Slots, R!ClearPred
  <2>3. ASSUME clean PROVE (R!ParityAt("commit_video") /\ R!PlanAt("commit_video") /\ RingHeld)'
    <3>1. R!ParityAt("ready") /\ RingHeld
      BY <2>1, <2>3 DEF RingIInv, PoolPhase
    <3>2. maskMask' = [s \in R!Slots |-> maskMask[s] /\ ~maskPred[s]]
      BY <2>2 DEF Slots, R!Slots, R!SlotRange
    <3>3. R!ParityAt("commit_video")'
      BY <2>1, <2>2, <3>1, <3>2, RingAssumptions, R!ParityClears
    <3>4. ~R!Saturated'
      BY <2>1, <3>1, RingAssumptions, R!ClearUnsaturates DEF R!ParityAt
    <3>5. RingHeld'
      BY <2>2, <3>1 DEF RingHeld
    <3> QED BY <3>3, <3>4, <3>5 DEF R!PlanAt
  <2> QED BY <2>1, <2>2, <2>3 DEF RingIInv, PoolPhase
<1>6. CASE OnCacheDropped
  <2>1. /\ pending' = Nothing /\ phase' = "video" /\ clock' = clock
        /\ Mask!Reset /\ Ring!InitCache
    BY <1>6 DEF OnCacheDropped, IssueReset
  <2>2. plan' = plan /\ R!EmptyPools'
    BY <2>1, MaskSteps
       DEF Mask!Reset, Ring!InitCache, Ring!Slots, R!EmptyPools, R!Slots, R!SlotRange
  <2>3. R!ParityAt("video")' /\ R!PlanAt("video")' /\ RingHeld'
    <3>1. R!PlanAt("video")'
      BY <2>2, PoolAssumption DEF R!PlanAt, R!Saturated, R!EmptyPools
    <3>2. RingHeld'
      BY <2>2 DEF R!EmptyPools, RingHeld, Slots, R!Slots, R!SlotRange
    <3> QED BY <2>2, <3>1, <3>2, FreshParityNext
  <2> QED BY <2>1, <2>2, <2>3 DEF RingIInv, PoolPhase
<1>7. CASE AbortCall
  <2>1. ~clean' /\ clock' = clock /\ plan' = plan
    BY <1>7 DEF AbortCall, Abort, elidedVars, ringVars
  <2> QED BY <2>1 DEF RingIInv
<1>8. CASE UNCHANGED vars
  BY <1>8 DEF vars, cycleVars, elidedVars, maskVars, ringVars, RingIInv, RingHeld, PoolPhase,
              R!ParityAt, R!PlanAt, R!RingIsAt, R!Aligned, R!FreeAt, R!WriteHead, R!Saturated
<1> QED BY <1>1, <1>2, <1>3, <1>4, <1>5, <1>6, <1>7, <1>8 DEF ElisionNext, Settle

LEMMA RingBegins == ElisionInit => RingIInv
<1> SUFFICES ASSUME ElisionInit PROVE RingIInv
  OBVIOUS
<1>1. pending = Nothing /\ phase = "video" /\ Mask!Init /\ Ring!RingInit
  BY DEF ElisionInit, Init
<1>2. R!EmptyPools /\ DOMAIN plan = KeySizes
  BY <1>1, MaskSteps
     DEF Mask!Init, Ring!RingInit, Ring!Slots, R!EmptyPools, R!Slots, R!SlotRange
<1>3. R!PlanAt("video")
  BY <1>2, PoolAssumption DEF R!PlanAt, R!Saturated, R!EmptyPools
<1>4. RingHeld
  BY <1>2 DEF R!EmptyPools, RingHeld, Slots, R!Slots, R!SlotRange
<1> QED BY <1>1, <1>2, <1>3, <1>4, FreshParity DEF RingIInv, PoolPhase

LEMMA ElisionInvariant == ElisionSpec => [](MaskIInv /\ RingIInv)
<1>1. ElisionInit => MaskIInv /\ RingIInv
  BY MaskBegins, RingBegins
<1>2. MaskIInv /\ RingIInv /\ [ElisionNext]_vars => MaskIInv' /\ RingIInv'
  BY MaskStep, RingStep
<1> QED BY <1>1, <1>2, PTL DEF ElisionSpec

(* For every pool: a forward of the mask allocator that is not elided      *)
(* reads what the reference reads, across calls that raise before, between *)
(* or after their forwards.  For every pool that holds a whole number of   *)
(* cycles, so does a forward of the ring, through every wrap, in an        *)
(* episode in which no call raised: its half is not claimed of the others. *)
THEOREM ElisionReadsAlike == ElisionSpec => ElisionIsExact
<1>1. MaskIInv /\ RingIInv /\ [ElisionNext]_vars
      => /\ [maskSeen' # maskSeen /\ clock' # clock => maskSeen' = refSeen']_vars
         /\ [clean /\ ringSeen' # ringSeen /\ clock' # clock => ringSeen' = refSeen']_vars
  BY MaskStep, RingStep
<1> QED BY <1>1, ElisionInvariant, PTL DEF ElisionSpec, ElisionIsExact

(* For every pool: a stashed forward leaves the mask pool as it would have *)
(* in its place, in whatever state an exception between forwards left the  *)
(* pool, and computed it reads what it would have read.  For every pool    *)
(* that holds a whole number of cycles, reserving it gives the ring the    *)
(* reference's slots in an episode no call raised in.                      *)
THEOREM SettlesInPlace == ElisionSpec => SettledInPlace
<1>1. MaskIInv => [Materialize => maskSeen' = refSeen]_vars
  BY MaterializeExact
<1>2. MaskIInv => [Settle => maskMask' = refMask /\ maskIds' = refIds /\ maskPred' = refPred]_vars
  BY MaterializeExact, ReserveExact DEF Settle
<1>3. MaskIInv /\ RingIInv => [clean /\ Reserve => ringMask' = refMask]_vars
  <2> SUFFICES ASSUME MaskIInv, RingIInv, clean, Reserve PROVE ringMask' = refMask
    OBVIOUS
  <2>1. clean' /\ RingIInv'
    BY RingReserve DEF Reserve, cycleVars
  <2>2. ringMask' = maskMask'
    BY <2>1 DEF RingIInv, R!ParityAt
  <2> QED BY <2>2, ReserveExact
<1> QED BY <1>1, <1>2, <1>3, ElisionInvariant, PTL DEF SettledInPlace

-----------------------------------------------------------------------------
(* The engine's pool and the reference. *)

(* They keep the same books; no slot a commit can reach holds K/V that was *)
(* never computed, and while no call of the episode raised the pools       *)
(* differ in the slots of a skipped forward only.                          *)
EngineIInv ==
  /\ mask \in [Slots -> BOOLEAN] /\ ids \in [Slots -> Int]
  /\ mask = refMask /\ ids = refIds /\ is_pred = refPred
  /\ \A s \in Slots : mask[s] /\ ~is_pred[s] => kv[s] = owner[s]
  /\ phase \in {"commit_video", "commit_action"} => \A s \in Slots : mask[s] => ~is_pred[s]
  /\ clean => \A s \in Slots :
       mask[s] /\ (phase \in {"returning", "ready"} => ~is_pred[s]) => kv[s] = refKv[s]

LEMMA EngineForwardKeeps ==
  ASSUME EngineIInv, NEW n \in KeySizes, NEW uc \in 0 .. 2, EngineForward(n, uc)
  PROVE  /\ EngineIInv'
         /\ clean /\ seen' # seen => seen' = refSeen'
         /\ seen' # seen /\ phase \in {"commit_video", "commit_action"} =>
              \A i \in DOMAIN seen' : seen'[i][2] = owner'[seen'[i][1]]
<1> DEFINE read == R!ReadIn(Total, mask, ids, n)
           kept == R!KeptIn(Total, mask, ids, n)
           granted == R!GrantedIn(Total, mask, ids, n)
<1>1. /\ OnForward(n, uc) /\ Issue(n, uc) /\ Ref!Forward(n, uc) /\ clean' = clean
      /\ Pool!Allocate(n, uc, clock + 1)
      /\ IF Skipped(uc) THEN UNCHANGED <<kv, seen>> ELSE Pool!WriteAndAttend(n, clock + 1)
  BY DEF EngineForward, OnForward, Issue, MoveTo, Pool!SkippedForward, Pool!Forward
<1>2. /\ RefTakes(n, uc) /\ RefWrites(n, clock + 1) /\ PoolTakes(n, uc)
      /\ ~Skipped(uc) => PoolWrites(n, clock + 1)
  BY <1>1, RefSteps, PoolSteps DEF Ref!Forward
<1>3. /\ R!Takes(Total, n, uc, mask, ids, is_pred, refMask', refIds', refPred')
      /\ R!Writes(Total, n, clock + 1, mask, ids, refKv, refKv', refSeen')
  BY <1>2 DEF EngineIInv, RefTakes, RefWrites
<1>4. /\ mask' \in [Slots -> BOOLEAN] /\ ids' \in [Slots -> Int]
      /\ mask' = refMask' /\ ids' = refIds' /\ is_pred' = refPred'
  <2>1. mask \in [R!SlotRange(Total) -> BOOLEAN] /\ ids \in [R!SlotRange(Total) -> Int]
    BY DEF EngineIInv, Slots
  <2>2. mask' = refMask' /\ ids' = refIds' /\ is_pred' = refPred'
    BY <1>2, <1>3, <2>1, RingAssumptions, TotalIsNat, R!TakesOnce DEF PoolTakes
  <2>3. mask' \in [Slots -> BOOLEAN] /\ ids' \in [Slots -> Int]
    BY <1>2, <2>1, RingAssumptions, TotalIsNat, R!TakesTypes DEF PoolTakes, Slots
  <2> QED BY <2>2, <2>3
<1>5. /\ \A s \in Slots : mask'[s] => s \in read
      /\ \A s \in granted : is_pred'[s] = (uc = 1)
      /\ \A s \in kept : is_pred'[s] = is_pred[s] /\ mask[s]
  BY <1>2, RingAssumptions, TotalIsNat, R!TakesLive DEF PoolTakes, Slots
<1>6. /\ read = kept \cup granted
      /\ \A s \in kept : s \in Slots /\ mask[s] /\ s \notin granted
      /\ \A s \in granted : s \in Slots
      /\ \A i \in DOMAIN R!Ascends(read) : R!Ascends(read)[i] \in read
  <2>1. /\ \A s \in kept : s \in Slots /\ mask[s] /\ s \notin granted
        /\ \A s \in granted : s \in Slots
    BY RingAssumptions, TotalIsNat, R!SlotsRead DEF Slots
  <2>2. R!IsFiniteSet(read) /\ read \subseteq Int
    BY <2>1, RingAssumptions, TotalIsNat, R!SlotsRead DEF Slots, R!SlotRange
  <2> HIDE DEF read
  <2>3. \A i \in DOMAIN R!Ascends(read) : R!Ascends(read)[i] \in read
    BY <2>2, RingAssumptions, R!AscendsMembers
  <2> QED BY <2>1, <2>3 DEF read, R!ReadIn
<1>7. owner' = [s \in Slots |-> IF s \in granted THEN clock + 1 ELSE owner[s]]
  BY <1>1, PoolSteps DEF Pool!Allocate, Slots
<1>8. /\ refKv' = [s \in Slots |-> IF s \in granted THEN clock + 1 ELSE refKv[s]]
      /\ ~Skipped(uc) =>
           /\ kv' = [s \in Slots |-> IF s \in granted THEN clock + 1 ELSE kv[s]]
           /\ seen' = [j \in DOMAIN R!Ascends(read) |-> <<R!Ascends(read)[j], kv'[R!Ascends(read)[j]]>>]
  BY <1>2, <1>3 DEF PoolWrites, R!Writes, R!SeenIn, Slots
<1> HIDE DEF read, kept, granted
<1>9. \A s \in Slots : mask'[s] /\ ~is_pred'[s] => kv'[s] = owner'[s]
  <2> SUFFICES ASSUME NEW s \in Slots, mask'[s], ~is_pred'[s] PROVE kv'[s] = owner'[s]
    OBVIOUS
  <2>1. CASE s \in kept
    <3>1. kv[s] = owner[s] /\ s \notin granted
      BY <1>5, <1>6, <2>1 DEF EngineIInv
    <3> QED BY <1>1, <1>7, <1>8, <3>1
  <2>2. CASE s \in granted
    <3>1. ~Skipped(uc)
      BY <1>5, <2>2 DEF Skipped
    <3> QED BY <1>7, <1>8, <2>2, <3>1
  <2> QED BY <1>5, <1>6, <2>1, <2>2
<1>10. phase' \in {"commit_video", "commit_action"} => \A s \in Slots : mask'[s] => ~is_pred'[s]
  <2> SUFFICES ASSUME phase' \in {"commit_video", "commit_action"}, NEW s \in Slots, mask'[s]
               PROVE  ~is_pred'[s]
    OBVIOUS
  <2>1. phase \in {"commit_video", "commit_action"} /\ uc = 2
    BY <1>1 DEF Issue, Transient, Closing, MoveTo
  <2>2. CASE s \in granted
    <3>1. is_pred'[s] = (uc = 1)
      BY <1>5, <2>2
    <3>2. ~(uc = 1)
      BY <2>1
    <3> QED BY <3>1, <3>2, Zenon
  <2>3. CASE s \in kept
    <3>1. is_pred'[s] = is_pred[s] /\ ~is_pred[s]
      BY <1>5, <1>6, <2>1, <2>3 DEF EngineIInv
    <3> QED BY <3>1
  <2> QED BY <1>5, <1>6, <2>2, <2>3
<1>11. ASSUME clean
       PROVE  /\ seen' # seen => seen' = refSeen'
              /\ \A s \in Slots :
                   mask'[s] /\ (phase' \in {"returning", "ready"} => ~is_pred'[s]) => kv'[s] = refKv'[s]
  <2>0. phase \notin {"returning", "ready"}
    BY <1>1 DEF Issue, Transient, Closing
  <2>1. R!Agree(Total, mask, kv, refKv)
    BY <1>11, <2>0 DEF EngineIInv, R!Agree, Slots
  <2>2. CASE Skipped(uc)
    <3>1. phase' = "returning" /\ uc = 1
      BY <1>1, <2>2 DEF Skipped, Issue, Transient, Closing, MoveTo
    <3>2. ASSUME NEW s \in Slots, mask'[s], ~is_pred'[s] PROVE kv'[s] = refKv'[s]
      <4>1. s \in kept /\ s \notin granted /\ mask[s]
        BY <1>5, <1>6, <3>1, <3>2
      <4> QED BY <1>1, <1>8, <2>1, <2>2, <4>1 DEF R!Agree, Slots
    <3> QED BY <1>1, <2>2, <3>1, <3>2
  <2>3. CASE ~Skipped(uc)
    <3>1. seen' = refSeen' /\ R!Agree(Total, mask', kv', refKv')
      BY <1>2, <1>3, <2>1, <2>3, RingAssumptions, TotalIsNat, R!WritesAlike DEF PoolTakes, PoolWrites
    <3> QED BY <3>1 DEF R!Agree, Slots
  <2> QED BY <2>2, <2>3
<1>12. ASSUME seen' # seen, phase \in {"commit_video", "commit_action"}
       PROVE  \A i \in DOMAIN seen' : seen'[i][2] = owner'[seen'[i][1]]
  <2>1. ~Skipped(uc)
    BY <1>12 DEF Skipped
  <2>2. \A s \in read : kv'[s] = owner'[s]
    <3>1. \A s \in kept : kv[s] = owner[s]
      BY <1>6, <1>12 DEF EngineIInv
    <3> QED BY <1>6, <1>7, <1>8, <2>1, <3>1
  <2>3. \A i \in DOMAIN R!Ascends(read) : kv'[R!Ascends(read)[i]] = owner'[R!Ascends(read)[i]]
    BY <1>6, <2>2
  <2>4. seen' = [j \in DOMAIN R!Ascends(read) |-> <<R!Ascends(read)[j], kv'[R!Ascends(read)[j]]>>]
    BY <1>8, <2>1
  <2> QED BY <2>3, <2>4
<1> QED BY <1>1, <1>4, <1>9, <1>10, <1>11, <1>12 DEF EngineIInv

LEMMA EngineStep ==
  ASSUME EngineIInv, [EngineNext]_engineVars
  PROVE  /\ EngineIInv'
         /\ clean /\ seen' # seen => seen' = refSeen'
         /\ seen' # seen /\ phase \in {"commit_video", "commit_action"} =>
              \A i \in DOMAIN seen' : seen'[i][2] = owner'[seen'[i][1]]
<1>1. ASSUME NEW n \in KeySizes, NEW uc \in 0 .. 2, EngineForward(n, uc)
      PROVE  /\ EngineIInv'
             /\ clean /\ seen' # seen => seen' = refSeen'
             /\ seen' # seen /\ phase \in {"commit_video", "commit_action"} =>
                  \A i \in DOMAIN seen' : seen'[i][2] = owner'[seen'[i][1]]
  BY <1>1, EngineForwardKeeps
<1>2. CASE Settle /\ UNCHANGED poolVars
  <2>1. UNCHANGED <<refVars, poolVars, phase, clean>>
    BY <1>2 DEF Settle, Materialize, Reserve, cycleVars
  <2> QED BY <2>1 DEF EngineIInv, refVars, poolVars
<1>3. CASE ReturnCall /\ UNCHANGED poolVars
  <2>1. /\ UNCHANGED <<refVars, poolVars, clean>>
        /\ \/ phase = "returning" /\ phase' = "ready"
           \/ phase = "committed" /\ phase' = "video"
    BY <1>3 DEF ReturnCall, Return, MoveTo
  <2> QED BY <2>1 DEF EngineIInv, refVars, poolVars
<1>4. CASE ClearPred /\ Pool!ClearPred
  <2>1. /\ Ref!ClearPred /\ Pool!ClearPred /\ phase = "ready" /\ phase' = "commit_video" /\ clean' = clean
    BY <1>4 DEF ClearPred, IssueClearPred, MoveTo
  <2>2. /\ mask' = [s \in Slots |-> mask[s] /\ ~is_pred[s]]
        /\ refMask' = [s \in Slots |-> refMask[s] /\ ~refPred[s]]
        /\ UNCHANGED <<ids, is_pred, owner, kv, seen, refIds, refPred, refKv>>
    BY <2>1, RefSteps, PoolSteps DEF Ref!ClearPred, Pool!ClearPred, Slots
  <2>3. \A s \in Slots : mask'[s] => mask[s] /\ ~is_pred'[s]
    BY <2>2
  <2>4. mask' = refMask' /\ mask' \in [Slots -> BOOLEAN]
    BY <2>2 DEF EngineIInv
  <2> QED BY <2>1, <2>2, <2>3, <2>4 DEF EngineIInv
<1>5. CASE OnCacheDropped /\ Pool!Reset
  <2>1. phase' = "video" /\ Ref!Reset /\ Pool!Reset
    BY <1>5 DEF OnCacheDropped, IssueReset
  <2>2. /\ mask' = [s \in Slots |-> FALSE] /\ refMask' = [s \in Slots |-> FALSE]
        /\ ids' = [s \in Slots |-> -1] /\ refIds' = [s \in Slots |-> -1]
        /\ is_pred' = [s \in Slots |-> FALSE] /\ refPred' = [s \in Slots |-> FALSE]
        /\ seen' = seen
    BY <2>1, RefSteps, PoolSteps DEF Ref!Reset, Pool!Reset, Slots
  <2> QED BY <2>1, <2>2 DEF EngineIInv
<1>6. CASE AbortCall /\ UNCHANGED poolVars
  <2>1. ~clean' /\ phase' \in {"video", "ready"} /\ UNCHANGED <<refVars, poolVars>>
    BY <1>6 DEF AbortCall, Abort
  <2> QED BY <2>1 DEF EngineIInv, refVars, poolVars
<1>7. CASE UNCHANGED engineVars
  BY <1>7 DEF engineVars, vars, cycleVars, refVars, poolVars, EngineIInv
<1> QED BY <1>1, <1>2, <1>3, <1>4, <1>5, <1>6, <1>7 DEF EngineNext

LEMMA EngineInvariant == EngineSpec => []EngineIInv
<1>1. EngineInit => EngineIInv
  <2> SUFFICES ASSUME EngineInit PROVE EngineIInv
    OBVIOUS
  <2>1. phase = "video" /\ Ref!Init /\ Pool!Init
    BY DEF EngineInit, ElisionInit, Init
  <2>2. /\ mask = [s \in Slots |-> FALSE] /\ refMask = [s \in Slots |-> FALSE]
        /\ ids = [s \in Slots |-> -1] /\ refIds = [s \in Slots |-> -1]
        /\ is_pred = [s \in Slots |-> FALSE] /\ refPred = [s \in Slots |-> FALSE]
    BY <2>1, RefSteps, PoolSteps DEF Ref!Init, Pool!Init, Slots
  <2> QED BY <2>1, <2>2 DEF EngineIInv
<1>2. EngineIInv /\ [EngineNext]_engineVars => EngineIInv'
  BY EngineStep
<1> QED BY <1>1, <1>2, PTL DEF EngineSpec

(* For every pool: in an episode no call raised in, a forward the engine   *)
(* computes reads what it would have, had the engine computed every one.   *)
THEOREM SkipReadsAlike == EngineSpec => SkipIsExact
<1>1. EngineIInv /\ [EngineNext]_engineVars => [clean /\ seen' # seen => seen' = refSeen']_engineVars
  BY EngineStep
<1> QED BY <1>1, EngineInvariant, PTL DEF EngineSpec, SkipIsExact

(* For every pool, across calls that raise before, between or after their  *)
(* forwards: a commit reads no slot whose forward was skipped.             *)
THEOREM CommitsReadComputed == EngineSpec => CommitReadsComputed
<1>1. EngineIInv /\ [EngineNext]_engineVars
      => [seen' # seen /\ phase \in {"commit_video", "commit_action"} =>
            \A i \in DOMAIN seen' : seen'[i][2] = owner'[seen'[i][1]]]_engineVars
  BY EngineStep
<1> QED BY <1>1, EngineInvariant, PTL DEF EngineSpec, CommitReadsComputed

(* The engine runs the elided pools it is compared with. *)
THEOREM EngineRunsElision == EngineSpec => ElisionIsExact /\ SettledInPlace
<1>1. EngineInit => ElisionInit
  BY DEF EngineInit
<1>2. [EngineNext]_engineVars => [ElisionNext]_vars
  BY DEF EngineNext, EngineForward, ElisionNext, engineVars
<1> QED BY <1>1, <1>2, ElisionReadsAlike, SettlesInPlace, PTL DEF EngineSpec, ElisionSpec
=============================================================================
