------------------------------ MODULE RingProofs ------------------------------
(***************************************************************************)
(* RingServer and RingParity for every token count and every pool size     *)
(* that satisfies the VALIDITY CONDITION of ring_kv.py: the ring keeps its *)
(* types, and in an episode no call raised in its allocation never wraps,  *)
(* its plan buffers point at the head, its bookkeeping is one the mask     *)
(* allocator could take over, its forwards read what the allocator's read, *)
(* in the same order, and it is a window over the newest tokens.           *)
(***************************************************************************)
EXTENDS RingParity, RingOrder, TLAPS

Period == VideoTokens + ActionTokens

(* What the phase says about the ring: the provisional tokens at its tail, *)
(* and how far the head is past a period boundary.                         *)
PredTokens(p) ==
  IF p = "action" THEN VideoTokens
  ELSE IF p \in {"returning", "ready"} THEN Period
  ELSE 0

Lead(p) == IF p \in {"action", "commit_action"} THEN VideoTokens ELSE 0

Aligned(head, p) == \E k \in 0 .. Periods - 1 : head = k * Period + Lead(p)

(* NeverWraps is not inductive: where the head is going depends on how     *)
(* many provisional tokens ClearPred will take off the tail.               *)
InStep == pred = PredTokens(phase) /\ Aligned(WriteHead, phase)

IInv == TypeOK /\ (clean => InStep)

-----------------------------------------------------------------------------
(* Arithmetic modulo the capacity, for sums of two offsets. *)
LEMMA ModBelow ==
  ASSUME NEW T \in Nat \ {0}, NEW x \in 0 .. T - 1 PROVE x % T = x
  OBVIOUS

LEMMA ModAbove ==
  ASSUME NEW T \in Nat \ {0}, NEW x \in T .. 2 * T - 1 PROVE x % T = x - T
  OBVIOUS

LEMMA ModInRange ==
  ASSUME NEW T \in Nat \ {0}, NEW x \in Int PROVE x % T \in 0 .. T - 1
  OBVIOUS

LEMMA ModPeriodic ==
  ASSUME NEW T \in Nat \ {0}, NEW x \in 0 .. 2 * T - 1 PROVE (x + T) % T = x % T
  OBVIOUS

LEMMA ModPlus ==
  ASSUME NEW T \in Nat \ {0}, NEW x \in 0 .. 2 * T - 1, NEW n \in 0 .. T
  PROVE  ((x % T) + n) % T = (x + n) % T
<1>1. CASE x \in 0 .. T - 1
  BY <1>1, ModBelow
<1>2. CASE x \in T .. 2 * T - 1
  <2>0. x % T = x - T
    BY <1>2, ModAbove
  <2>1. x - T + n \in 0 .. 2 * T - 1
    BY <1>2
  <2>2. (x - T + n + T) % T = (x - T + n) % T
    BY <2>1, ModPeriodic
  <2>3. x - T + n + T = x + n
    OBVIOUS
  <2>4. ((x % T) + n) % T = (x - T + n) % T
    BY <2>0, Zenon
  <2>5. (x + n) % T = (x - T + n) % T
    BY <2>2, <2>3, Zenon
  <2> QED BY <2>4, <2>5, Zenon
<1> QED BY <1>1, <1>2

(* Evicting from the start moves the head as plain growth does. *)
LEMMA HeadAfterEviction ==
  ASSUME NEW T \in Nat \ {0}, NEW s \in 0 .. T - 1, NEW c \in 0 .. T, NEW n \in 1 .. T,
         c + n > T
  PROVE  (((s + (c + n - T)) % T) + T) % T = (s + c + n) % T
<1> DEFINE x == s + (c + n - T)
<1>1. x \in 0 .. 2 * T - 1 /\ x + T = s + c + n
  OBVIOUS
<1>2. x % T \in 0 .. T - 1
  BY <1>1, ModInRange
<1>3. ((x % T) + T) % T = (x % T) % T
  <2> DEFINE y == x % T
  <2>1. y \in 0 .. 2 * T - 1
    BY <1>2
  <2> HIDE DEF y
  <2>2. (y + T) % T = y % T
    BY <2>1, ModPeriodic
  <2> QED BY <2>2 DEF y
<1>4. (x % T) % T = x % T
  <2> DEFINE y == x % T
  <2>1. y \in 0 .. T - 1
    BY <1>2
  <2> HIDE DEF y
  <2>2. y % T = y
    BY <2>1, ModBelow
  <2> QED BY <2>2 DEF y
<1>5. (x + T) % T = x % T
  BY <1>1, ModPeriodic
<1> HIDE DEF x
<1>6. ((x % T) + T) % T = (s + c + n) % T
  BY <1>1, <1>3, <1>4, <1>5
<1> QED BY <1>6 DEF x

(* A period fits into the pool from every one of its boundaries. *)
LEMMA PeriodFits ==
  /\ Period \in Nat \ {0}
  /\ \A k \in 0 .. Periods - 1 : k * Period \in Nat /\ k * Period + Period <= Total
<1>1. Period \in Nat \ {0} /\ Periods \in Nat \ {0} /\ Total = Periods * Period
  BY TokensAssumption, PeriodAssumption DEF Period
<1>2. ASSUME NEW P \in Nat \ {0}, NEW N \in Nat \ {0}, NEW k \in 0 .. N - 1
      PROVE  k * P \in Nat /\ k * P + P <= N * P
  OBVIOUS
<1> QED BY <1>1, <1>2

(* The boundary after one boundary is a boundary, around the wrap. *)
LEMMA NextBoundary ==
  ASSUME NEW k \in 0 .. Periods - 1
  PROVE  \E j \in 0 .. Periods - 1 : (k * Period + Period) % Total = j * Period
<1>1. /\ Period \in Nat \ {0}
      /\ Periods \in Nat \ {0}
      /\ Total = Periods * Period
      /\ k * Period \in Nat
  BY PeriodFits, PeriodAssumption DEF Period
<1>2. CASE k = Periods - 1
  <2>1. k * Period + Period = Total
    BY <1>1, <1>2
  <2>2. Total % Total = 0
    BY TotalAssumption, ModAbove
  <2>3. 0 * Period = 0
    BY <1>1
  <2> QED BY <1>1, <2>1, <2>2, <2>3
<1>3. CASE k < Periods - 1
  <2>1. k + 1 \in 0 .. Periods - 1 /\ (k + 1) * Period = k * Period + Period
    BY <1>1, <1>3
  <2>2. (k + 1) * Period + Period <= Total
    BY <2>1, PeriodFits
  <2>3. k * Period + Period \in 0 .. Total - 1
    BY <1>1, <2>1, <2>2, TotalAssumption
  <2>4. (k * Period + Period) % Total = (k + 1) * Period
    BY <2>1, <2>3, ModBelow, TotalAssumption
  <2> QED BY <2>1, <2>4
<1> QED BY <1>1, <1>2, <1>3

(* And so is the one before, when the ring holds a period. *)
LEMMA PreviousBoundary ==
  ASSUME NEW k \in 0 .. Periods - 1, NEW x \in Period .. 2 * Total - 1,
         x % Total = k * Period
  PROVE  \E j \in 0 .. Periods - 1 : (x - Period) % Total = j * Period
<1>1. /\ Period \in Nat \ {0}
      /\ Periods \in Nat \ {0}
      /\ Total = Periods * Period
      /\ k * Period \in Nat
      /\ k * Period + Period <= Total
  BY PeriodFits, PeriodAssumption DEF Period
<1> USE TotalAssumption
<1>2. CASE x < Total
  <2>1. x = k * Period
    BY <1>1, <1>2, ModBelow
  <2>2. k - 1 \in 0 .. Periods - 1 /\ (k - 1) * Period = k * Period - Period
    BY <1>1, <2>1
  <2>0. x - Period \in 0 .. Total - 1
    BY <1>1, <1>2
  <2>3. (x - Period) % Total = x - Period
    BY <2>0, ModBelow
  <2> QED BY <2>1, <2>2, <2>3
<1>3. CASE x >= Total
  <2>1. x - Total = k * Period
    BY <1>1, <1>3, ModAbove
  <2>2. CASE k = 0
    <3>1. x - Period = Total - Period /\ Total - Period \in 0 .. Total - 1
      BY <1>1, <2>1, <2>2
    <3>2. (x - Period) % Total = Total - Period
      BY <3>1, ModBelow
    <3>3. Periods - 1 \in 0 .. Periods - 1 /\ (Periods - 1) * Period = Total - Period
      BY <1>1
    <3> QED BY <3>2, <3>3
  <2>3. CASE k # 0
    <3>1. k - 1 \in 0 .. Periods - 1 /\ (k - 1) * Period = k * Period - Period
      BY <1>1, <2>3
    <3>2. k * Period - Period \in Nat
      BY <1>1, <3>1
    <3>3. x - Period \in Total .. 2 * Total - 1
      BY <1>1, <1>3, <2>1, <3>2
    <3>4. (x - Period) % Total = x - Period - Total
      BY <3>3, ModAbove
    <3>5. x - Period - Total = (k - 1) * Period
      BY <1>1, <2>1, <3>1
    <3> QED BY <3>1, <3>4, <3>5
  <2> QED BY <2>2, <2>3
<1> QED BY <1>1, <1>2, <1>3

-----------------------------------------------------------------------------
(* Wherever the cycle stands, the block of the next forward fits. *)
LEMMA AlignedFits ==
  ASSUME InStep PROVE AllocationFits
<1>1. PICK k \in 0 .. Periods - 1 : WriteHead = k * Period + Lead(phase)
  BY DEF InStep, Aligned
<1>2. k * Period \in Nat /\ k * Period + Period <= Total
  BY PeriodFits
<1>3. SUFFICES ASSUME NEW n \in NextTokens PROVE Lead(phase) + n <= Period
  BY <1>1, <1>2, TotalAssumption, TokensAssumption, PeriodFits
     DEF AllocationFits, Fits, Lead, NextTokens
<1> QED
  BY <1>3, TokensAssumption DEF Period, Lead, NextTokens, Transient, Closing

(* A write moves the head by its length, eviction or not. *)
LEMMA HeadAdvances ==
  ASSUME start \in Slots, count \in 0 .. Total,
         NEW n \in 1 .. Total, NEW uc \in 1 .. 2, Advance(n, uc)
  PROVE  /\ start' \in Slots
         /\ count' \in 0 .. Total
         /\ count' = IF count + n > Total THEN Total ELSE count + n
         /\ WriteHead' = (WriteHead + n) % Total
<1> USE TotalAssumption
<1>1. start \in 0 .. Total - 1 /\ count \in 0 .. Total
  BY DEF Slots
<1>2. (WriteHead + n) % Total = (start + count + n) % Total
  BY <1>1, ModPlus DEF WriteHead
<1>3. CASE count + n > Total
  <2>1. start' = (start + (count + n - Total)) % Total /\ count' = Total
    BY <1>3 DEF Advance
  <2>2. start' \in Slots
    BY <1>1, <1>3, <2>1, ModInRange DEF Slots
  <2>3. (start' + count') % Total = (start + count + n) % Total
    BY <1>1, <1>3, <2>1, HeadAfterEviction
  <2> QED BY <1>2, <1>3, <2>1, <2>2, <2>3 DEF WriteHead
<1>4. CASE ~(count + n > Total)
  <2>1. start' = start /\ count' = count + n
    BY <1>4 DEF Advance
  <2> QED BY <1>1, <1>2, <1>4, <2>1 DEF WriteHead, Slots
<1> QED BY <1>3, <1>4

(* The ring at a phase of the cycle, which need not be the one it is in. *)
RingIsAt(p) ==
  /\ start \in Slots /\ count \in 0 .. Total /\ pred \in 0 .. count
  /\ pred = PredTokens(p) /\ Aligned(WriteHead, p)

(* The forward that ends a phase takes the ring to the next. *)
LEMMA AdvanceTurns ==
  ASSUME NEW p, NEW next, NEW n, NEW uc, RingIsAt(p), Closing(p, n, uc, next), Advance(n, uc)
  PROVE  /\ RingIsAt(next)'
         /\ n \in 1 .. Total /\ uc \in 1 .. 2 /\ WriteHead + n <= Total
         /\ count' = IF count + n > Total THEN Total ELSE count + n
         /\ WriteHead' = (WriteHead + n) % Total
<1> USE TotalAssumption, TokensAssumption
<1>0. Period \in Nat \ {0} /\ pred = PredTokens(p)
  BY PeriodFits DEF RingIsAt
<1>1. PICK k \in 0 .. Periods - 1 : WriteHead = k * Period + Lead(p)
  BY DEF RingIsAt, Aligned
<1>2. k * Period \in Nat /\ k * Period + Period <= Total
  BY PeriodFits
<1>3. n \in 1 .. Total /\ uc \in 1 .. 2 /\ n <= Period
  BY <1>2 DEF Closing, Period
<1>4. /\ start' \in Slots
      /\ count' = IF count + n > Total THEN Total ELSE count + n
      /\ count' \in 0 .. Total
      /\ WriteHead' = (WriteHead + n) % Total
  BY <1>3, HeadAdvances DEF RingIsAt
<1>5. pred' = PredTokens(next) /\ pred' \in 0 .. count'
  <2>1. count \in Nat /\ pred \in 0 .. count
    BY DEF RingIsAt
  <2>2. pred' = IF uc = 1 THEN pred + n ELSE 0
    BY <1>3 DEF Advance
  <2>3. pred' = PredTokens(next) /\ pred' <= Period
    BY <1>0, <2>1, <2>2 DEF Closing, PredTokens, Period
  <2>4. Period <= Total
    BY <1>0, <1>2
  <2>5. pred' \in Nat /\ pred' <= pred + n
    BY <1>3, <2>1, <2>2
  <2> QED BY <1>0, <1>3, <1>4, <2>1, <2>3, <2>4, <2>5
<1>6. Aligned(WriteHead', next) /\ WriteHead + n <= Total
  <2>1. CASE Lead(p) = 0
    <3>1. n = VideoTokens /\ Lead(next) = VideoTokens
      BY <2>1 DEF Closing, Lead
    <3>2. WriteHead' = k * Period + VideoTokens /\ WriteHead + n <= Total
      BY <1>1, <1>2, <1>4, <2>1, <3>1, ModBelow DEF Period
    <3> QED BY <3>1, <3>2 DEF Aligned
  <2>2. CASE Lead(p) # 0
    <3>1. n = ActionTokens /\ Lead(p) = VideoTokens /\ Lead(next) = 0
      BY <2>2 DEF Closing, Lead
    <3>2. WriteHead + n = k * Period + Period
      BY <1>1, <1>2, <3>1 DEF Period
    <3>3. \E j \in 0 .. Periods - 1 : WriteHead' = j * Period
      BY <1>4, <3>2, NextBoundary
    <3> QED BY <1>2, <3>1, <3>2, <3>3 DEF Aligned
  <2> QED BY <2>1, <2>2
<1> QED BY <1>3, <1>4, <1>5, <1>6 DEF RingIsAt

LEMMA HeadInRange ==
  \A s \in Slots, c \in Int : (s + c) % Total \in Slots
<1> SUFFICES ASSUME NEW s \in Slots, NEW c \in Int
             PROVE  (s + c) % Total \in Slots
  OBVIOUS
<1>1. s + c \in Int
  BY TotalAssumption DEF Slots
<1> QED BY <1>1, ModInRange, TotalAssumption DEF Slots

(* What a forward does to the bookkeeping, wherever its K/V goes. *)
Commits(n, uc, stamp) ==
  Grant(n, stamp) /\ Bookkeep(n, uc) /\ Advance(n, uc) /\ RefreshPlan(Buffers(n))

(* A forward keeps every type, whatever raised before it, given its bounds *)
(* when nothing did.                                                       *)
LEMMA ForwardKeepsTypes ==
  ASSUME TypeOK, NEW n \in KeySizes, NEW uc \in 0 .. 2,
         Issue(n, uc), Commits(n, uc, clock + 1), kv' \in [Slots -> Nat],
         clean => count' \in 0 .. Total /\ pred' \in 0 .. count'
  PROVE  TypeOK'
<1>0. n \in Nat /\ Total \in Nat \ {0}
  BY PeriodAssumption, TokensAssumption, TotalAssumption
<1>8. count' \in Int /\ pred' \in Nat
  BY <1>0 DEF TypeOK, Commits, Advance
<1>9. start' \in Slots
  <2>1. count + n - Total \in Int
    BY <1>0 DEF TypeOK
  <2>2. start' = start \/ start' = (start + (count + n - Total)) % Total
    BY DEF Commits, Advance
  <2>3. start \in Slots
    BY DEF TypeOK
  <2>4. (start + (count + n - Total)) % Total \in Slots
    BY <2>1, <2>3, HeadInRange, Zenon
  <2> QED BY <2>2, <2>3, <2>4, Zenon
<1>10. clean' = clean
  BY DEF Issue, MoveTo
<1>1. TypeOKCycle'
  BY BoundsAssumption DEF TypeOK, TypeOKCycle, Issue, Closing, Transient, MoveTo, Phases
<1>2. next_id' \in Nat
  BY DEF TypeOK, Commits, Bookkeep
<1>7. mask' \in [Slots -> BOOLEAN]
  BY DEF TypeOK, Commits, Bookkeep
<1>3. id' \in [Slots -> Int]
  <2> DEFINE block == Block(WriteHead, n)
  <2>1. id' = [s \in Slots |-> IF s \notin block THEN id[s]
                               ELSE IF uc = 0 THEN -1 ELSE next_id]
    BY DEF Commits, Bookkeep
  <2> HIDE DEF block
  <2> QED BY <2>1 DEF TypeOK
<1>4. is_pred' \in [Slots -> BOOLEAN]
  BY DEF TypeOK, Commits, Bookkeep
<1>5. owner' \in [Slots -> Nat] /\ kv' \in [Slots -> Nat]
  BY DEF TypeOK, Commits, Grant, TypeOKCycle
<1>6. plan' \in [KeySizes -> Slots \cup {Unset}]
  <2>1. Buffers(n) \in [KeySizes -> Slots \cup {Unset}]
    <3>1. WriteHead \in Slots
      BY HeadInRange DEF TypeOK, WriteHead
    <3> QED BY <3>1 DEF TypeOK, Buffers
  <2>2. (start' + count') % Total \in Slots
    BY <1>8, <1>9, HeadInRange
  <2> QED BY <2>1, <2>2 DEF Commits, RefreshPlan
<1> QED BY <1>1, <1>2, <1>3, <1>4, <1>5, <1>6, <1>7, <1>8, <1>9, <1>10 DEF TypeOK

(* The forwards the cycle issues keep the ring aligned with its phase. *)
LEMMA ForwardKeepsIInv ==
  ASSUME IInv, NEW n \in KeySizes, NEW uc \in 0 .. 2,
         Issue(n, uc), Commits(n, uc, clock + 1), kv' \in [Slots -> Nat]
  PROVE  IInv'
<1> USE TotalAssumption, TokensAssumption
<1>0. TypeOK /\ Advance(n, uc) /\ clean' = clean /\ Period \in Nat \ {0}
  BY PeriodFits DEF IInv, Commits, Issue, MoveTo
<1>5. CASE ~clean
  <2>1. TypeOK'
    BY <1>0, <1>5, ForwardKeepsTypes
  <2> QED BY <1>0, <1>5, <2>1 DEF IInv
<1>6. SUFFICES ASSUME clean, InStep PROVE IInv'
  BY <1>5 DEF IInv
<1>3. CASE Transient(n, uc) /\ phase' = phase
  <2>1. start' = start /\ count' = count /\ pred' = pred
    BY <1>0, <1>3 DEF Advance, Transient
  <2>2. TypeOK'
    BY <1>0, <1>6, <2>1, ForwardKeepsTypes DEF TypeOK
  <2> QED BY <1>3, <1>6, <2>1, <2>2 DEF IInv, InStep, Aligned, WriteHead
<1>4. ASSUME NEW next \in Phases, Closing(phase, n, uc, next), phase' = next
      PROVE  IInv'
  <2>1. RingIsAt(phase)
    BY <1>0, <1>6 DEF RingIsAt, TypeOK, InStep
  <2>2. PICK p : p = phase
    OBVIOUS
  <2>3. RingIsAt(next)'
    BY <1>0, <1>4, <2>1, <2>2, AdvanceTurns
  <2>4. TypeOK'
    BY <1>0, <2>3, ForwardKeepsTypes DEF RingIsAt
  <2> QED BY <1>4, <2>3, <2>4 DEF IInv, InStep, RingIsAt
<1> QED BY <1>3, <1>4 DEF Issue, MoveTo

(* Dropping the provisional tokens takes the head back to the boundary the *)
(* prediction started from.                                                *)
LEMMA ClearTurns ==
  ASSUME RingIsAt("ready"), ClearPred
  PROVE  /\ RingIsAt("commit_video")' /\ pred = Period
         /\ WriteHead = IF WriteHead' + Period < Total THEN WriteHead' + Period
                        ELSE WriteHead' + Period - Total
<1> USE TotalAssumption, TokensAssumption
<1>0. /\ pred' = 0 /\ start' = start /\ count' = count - pred
      /\ Period \in Nat \ {0}
  BY PeriodFits DEF ClearPred
<1>1. pred = Period /\ count' = count - Period
  BY <1>0 DEF RingIsAt, PredTokens
<1>2. start \in 0 .. Total - 1 /\ count \in Period .. Total
  BY <1>0, <1>1 DEF RingIsAt, Slots
<1>3. PICK k \in 0 .. Periods - 1 : (start + count) % Total = k * Period
  <2>1. \A k \in 0 .. Periods - 1 : k * Period + 0 = k * Period
    BY PeriodFits
  <2> QED BY <2>1 DEF RingIsAt, Aligned, Lead, WriteHead
<1>4. k * Period \in Nat /\ k * Period + Period <= Total
  BY PeriodFits
<1> DEFINE x == start + count
<1>5. x \in Period .. 2 * Total - 1
  BY <1>0, <1>2
<1>6. WriteHead' = (x - Period) % Total /\ WriteHead = x % Total
  <2>1. start' + count' = x - Period
    BY <1>0, <1>1, <1>2
  <2> QED BY <2>1 DEF WriteHead
<1> HIDE DEF x
<1>7. \E j \in 0 .. Periods - 1 : WriteHead' = j * Period
  BY <1>3, <1>5, <1>6, PreviousBoundary DEF x
<1>8. WriteHead = IF WriteHead' + Period < Total THEN WriteHead' + Period
                  ELSE WriteHead' + Period - Total
  <2>1. Period <= Total
    BY <1>0, <1>4
  <2>2. CASE x - Period >= Total
    <3>1. x \in Total .. 2 * Total - 1 /\ x - Period \in Total .. 2 * Total - 1
      BY <1>0, <1>5, <2>1, <2>2
    <3>2. (x - Period) % Total = x - Period - Total /\ x % Total = x - Total
      BY <3>1, ModAbove
    <3> QED BY <1>0, <1>5, <1>6, <2>2, <3>2
  <2>3. CASE x - Period < Total
    <3>1. (x - Period) % Total = x - Period
      BY <1>0, <1>5, <2>1, <2>3, ModBelow
    <3>2. x % Total = IF x < Total THEN x ELSE x - Total
      BY <1>0, <1>5, ModAbove, ModBelow
    <3> QED BY <1>0, <1>5, <1>6, <3>1, <3>2
  <2> QED BY <1>0, <1>5, <2>2, <2>3
<1>9. RingIsAt("commit_video")'
  <2>1. Aligned(WriteHead', "commit_video")
    BY <1>0, <1>7, PeriodFits DEF Aligned, Lead
  <2>2. count' \in 0 .. Total
    BY <1>0, <1>1, <1>2
  <2> QED BY <1>0, <2>1, <2>2 DEF RingIsAt, PredTokens
<1> QED BY <1>1, <1>8, <1>9

LEMMA ClearPredKeepsIInv ==
  ASSUME IInv, IssueClearPred, ClearPred PROVE IInv'
<1>0. /\ phase = "ready" /\ phase' = "commit_video" /\ clean' = clean
      /\ pred' = 0 /\ start' = start /\ count' = count - pred
  BY DEF IssueClearPred, MoveTo, ClearPred
<1>1. clean => RingIsAt("commit_video")'
  <2>1. clean => RingIsAt("ready")
    BY <1>0 DEF IInv, TypeOK, InStep, RingIsAt
  <2> QED BY <2>1, ClearTurns
<1>2. TypeOKCycle'
  BY BoundsAssumption DEF IInv, TypeOK, TypeOKCycle, IssueClearPred, MoveTo, Phases
<1>3. mask' \in [Slots -> BOOLEAN]
  BY DEF IInv, TypeOK, ClearPred
<1>4. count' \in Int
  BY <1>0 DEF IInv, TypeOK
<1>5. TypeOK'
  BY <1>0, <1>1, <1>2, <1>3, <1>4 DEF IInv, TypeOK, ClearPred, RingIsAt
<1> QED BY <1>0, <1>1, <1>5 DEF IInv, InStep, RingIsAt

(* A reset empties the ring at slot 0. *)
LEMMA ResetKeepsIInv ==
  ASSUME IInv, IssueReset, InitCache PROVE IInv'
<1> USE TotalAssumption, TokensAssumption
<1>1. phase' = "video" /\ start' = 0 /\ count' = 0 /\ pred' = 0
  BY DEF IssueReset, InitCache
<1>2. TypeOK'
  <2>1. TypeOKCycle'
    BY BoundsAssumption DEF IInv, TypeOK, TypeOKCycle, IssueReset, Phases
  <2>2. /\ mask' \in [Slots -> BOOLEAN]
        /\ is_pred' \in [Slots -> BOOLEAN]
        /\ id' \in [Slots -> Int]
    BY DEF InitCache
  <2> QED BY <1>1, <2>1, <2>2 DEF IInv, TypeOK, InitCache, Slots
<1>3. WriteHead' = 0
  BY <1>1, ModBelow DEF WriteHead
<1>4. Aligned(0, "video")
  BY PeriodAssumption, PeriodFits DEF Aligned, Lead
<1> QED BY <1>1, <1>2, <1>3, <1>4 DEF IInv, InStep, PredTokens

LEMMA InitIInv == ASSUME ServerInit PROVE IInv
<1> USE TotalAssumption, TokensAssumption
<1>1. TypeOK
  BY BoundsAssumption
     DEF ServerInit, Init, RingInit, TypeOK, TypeOKCycle, Phases, Slots
<1>2. WriteHead = 0
  BY ModBelow DEF ServerInit, RingInit, WriteHead
<1>3. Aligned(0, "video")
  BY PeriodAssumption, PeriodFits DEF Aligned, Lead
<1> QED BY <1>1, <1>2, <1>3 DEF ServerInit, Init, RingInit, IInv, InStep, PredTokens

-----------------------------------------------------------------------------
(* IInv is an invariant of the server. *)
LEMMA ServerStepKeepsIInv == IInv /\ [ServerNext]_serverVars => IInv'
<1> SUFFICES ASSUME IInv, [ServerNext]_serverVars PROVE IInv'
  OBVIOUS
<1>1. ASSUME NEW n \in KeySizes, NEW uc \in 0 .. 2,
             Issue(n, uc), Forward(n, uc, clock + 1)
      PROVE  IInv'
  <2>1. Commits(n, uc, clock + 1) /\ kv' \in [Slots -> Nat]
    BY <1>1 DEF Forward, Commits, WriteAndAttend, IInv, TypeOK, TypeOKCycle
  <2> QED BY <1>1, <2>1, ForwardKeepsIInv
<1>2. CASE Return /\ UNCHANGED ringVars
  <2>1. TypeOK'
    BY <1>2, BoundsAssumption
       DEF IInv, TypeOK, TypeOKCycle, Return, MoveTo, Phases, ringVars
  <2>2. /\ clean' = clean /\ pred' = pred
        /\ PredTokens(phase') = PredTokens(phase) /\ Lead(phase') = Lead(phase)
    BY <1>2 DEF Return, MoveTo, PredTokens, Lead, ringVars
  <2>3. WriteHead' = WriteHead
    BY <1>2 DEF WriteHead, ringVars
  <2> QED BY <2>1, <2>2, <2>3 DEF IInv, InStep, Aligned
<1>3. CASE IssueClearPred /\ ClearPred
  BY <1>3, ClearPredKeepsIInv
<1>4. CASE IssueReset /\ InitCache
  BY <1>4, ResetKeepsIInv
<1>5. CASE Abort /\ UNCHANGED ringVars
  <2>1. TypeOKCycle'
    <3>1. phase' \in Phases /\ aborts' \in Nat /\ clock' \in Nat
      BY <1>5 DEF IInv, TypeOK, TypeOKCycle, Abort, Phases
    <3>2. transients' \in 0 .. MaxTransients
      BY <1>5, BoundsAssumption DEF Abort
    <3>3. clean' \in BOOLEAN
      BY <1>5, Zenon DEF Abort
    <3> QED BY <3>1, <3>2, <3>3 DEF TypeOKCycle
  <2>2. ~clean'
    BY <1>5 DEF Abort
  <2>3. TypeOK'
    BY <1>5, <2>1, <2>2 DEF IInv, TypeOK, ringVars
  <2> QED BY <2>2, <2>3 DEF IInv
<1>6. CASE UNCHANGED serverVars
  BY <1>6 DEF serverVars, cycleVars, ringVars, IInv, InStep, TypeOK, TypeOKCycle, Aligned, WriteHead
<1> QED BY <1>1, <1>2, <1>3, <1>4, <1>5, <1>6 DEF ServerNext

LEMMA ServerInvariant == ServerSpec => []IInv
<1>1. ServerInit => IInv
  BY InitIInv
<1> QED BY <1>1, ServerStepKeepsIInv, PTL DEF ServerSpec

(* For every token count, pool size and number of forwards, whatever calls *)
(* raise: the ring keeps its types, and its interval fits the pool in the  *)
(* episodes in which none did.                                             *)
THEOREM RingTypes == ServerSpec => []TypeOK
<1>1. IInv => TypeOK
  BY DEF IInv
<1> QED BY <1>1, ServerInvariant, PTL

(* For every pool that holds a whole number of cycles: in an episode in    *)
(* which no call raised, the assertion "allocation wrapped; ring model     *)
(* violated" never fires, whatever raised in the episodes before it.       *)
THEOREM AllocationNeverWraps == ServerSpec => []NeverWraps
<1>1. IInv => NeverWraps
  BY AlignedFits DEF IInv, NeverWraps
<1> QED BY <1>1, ServerInvariant, PTL

(* Buffers are allocated only when writes go through them. *)
PlanUnused == ~UsePlanBuffer => \A k \in KeySizes : plan[k] = Unset

(* A call that returned leaves the forward that opens the next prediction  *)
(* to be issued: PlanIsCurrent does not say where it will write.           *)
PlanOpens == clean /\ Saturated /\ phase = "committed" => plan[VideoTokens] \in {Unset, WriteHead}

PlanIInv == PlanIsCurrent /\ PlanUnused /\ PlanOpens

OpeningIsFree == phase = "committed" => WriteHead + VideoTokens <= Total

LEMMA OpeningFits == InStep => OpeningIsFree
<1> SUFFICES ASSUME InStep, phase = "committed" PROVE WriteHead + VideoTokens <= Total
  BY DEF OpeningIsFree
<1>1. PICK k \in 0 .. Periods - 1 : WriteHead = k * Period + Lead(phase)
  BY DEF InStep, Aligned
<1>2. k * Period \in Nat /\ k * Period + Period <= Total
  BY PeriodFits
<1> QED BY <1>1, <1>2, TotalAssumption, TokensAssumption DEF OpeningIsFree, Lead, Period

(* Commits refresh the buffers, but not one whose write would wrap: no     *)
(* forward of the cycle is such a write.                                   *)
LEMMA ForwardRefreshesPlan ==
  ASSUME IInv, IInv', NeverWraps', PlanUnused, NEW n \in KeySizes, NEW uc \in 0 .. 2,
         Forward(n, uc, clock + 1)
  PROVE  PlanIInv'
<1>1. plan' = [k \in KeySizes |->
                IF UsePlanBuffer /\ Buffers(n)[k] # Unset /\ WriteHead' + k <= Total
                  THEN WriteHead' ELSE Buffers(n)[k]]
  BY DEF Forward, RefreshPlan, WriteHead
<1>2. ~UsePlanBuffer => \A k \in KeySizes : Buffers(n)[k] = Unset
  BY DEF PlanUnused, Buffers, PlannedWrite
<1>3. ASSUME clean', NEW k \in NextTokens'
      PROVE  plan'[k] \in {Unset, WriteHead'}
  <2>1. k \in KeySizes /\ WriteHead' + k <= Total
    BY <1>3, PeriodAssumption DEF NeverWraps, AllocationFits, Fits, NextTokens
  <2> QED BY <1>1, <1>2, <2>1
<1>4. PlanUnused'
  BY <1>1, <1>2 DEF PlanUnused
<1>5. ASSUME clean', phase' = "committed" PROVE plan'[VideoTokens] \in {Unset, WriteHead'}
  <2>1. InStep'
    BY <1>5 DEF IInv
  <2>2. WriteHead' + VideoTokens <= Total
    <3>1. OpeningIsFree'
      BY <2>1, OpeningFits, PTL
    <3> QED BY <1>5, <3>1 DEF OpeningIsFree
  <2> QED BY <1>1, <1>2, <2>2, PeriodAssumption
<1> QED BY <1>3, <1>4, <1>5 DEF PlanIInv, PlanIsCurrent, PlanOpens

(* For every pool that holds a whole number of cycles: once the ring is    *)
(* full, a forward that writes through a plan buffer writes at the head,   *)
(* in an episode in which no call raised.                                  *)
THEOREM PlanStaysCurrent == ServerSpec => []PlanIsCurrent
<1>1. ServerInit => PlanIInv
  BY PeriodAssumption
     DEF ServerInit, Init, RingInit, PlanIInv, PlanIsCurrent, PlanUnused, PlanOpens, NextTokens
<1>2. IInv /\ IInv' /\ PlanIInv /\ NeverWraps' /\ [ServerNext]_serverVars => PlanIInv'
  <2> SUFFICES ASSUME IInv, IInv', PlanIInv, NeverWraps', [ServerNext]_serverVars
               PROVE  PlanIInv'
    OBVIOUS
  <2>1. ASSUME NEW n \in KeySizes, NEW uc \in 0 .. 2, Forward(n, uc, clock + 1)
        PROVE  PlanIInv'
    BY <2>1, ForwardRefreshesPlan DEF PlanIInv
  (* Nothing is to be issued between a prediction and the next. *)
  <2>2. CASE Return /\ UNCHANGED ringVars
    <3>1. clean' = clean /\ phase' # "committed" /\ UNCHANGED <<start, count, plan>>
      BY <2>2 DEF Return, MoveTo, ringVars
    <3>2. phase # "committed" => NextTokens' = {}
      BY <2>2 DEF Return, MoveTo, NextTokens, Transient, Closing
    <3>3. NextTokens' # {} => NextTokens' = {VideoTokens}
      BY <2>2 DEF Return, MoveTo, NextTokens, Transient, Closing
    <3>4. PlanIsCurrent'
      BY <3>1, <3>2, <3>3 DEF PlanIInv, PlanOpens, PlanIsCurrent, Saturated, WriteHead
    <3> QED BY <3>1, <3>4 DEF PlanIInv, PlanOpens, PlanUnused
  (* Provisional tokens were taken off a ring that was at most full. *)
  <2>3. CASE IssueClearPred /\ ClearPred
    <3>1. plan' = plan /\ clean' = clean /\ count' = count - pred /\ phase = "ready"
      BY <2>3 DEF IssueClearPred, MoveTo, ClearPred
    <3>2. clean => count' < Total
      <4>1. clean => pred = Period /\ Period \in Nat \ {0}
        BY <3>1, PeriodFits DEF IInv, InStep, PredTokens
      <4>2. clean => count \in 0 .. Total
        BY DEF IInv, TypeOK
      <4> QED BY <3>1, <4>1, <4>2, TotalAssumption
    <3>3. Saturated' => ~clean
      BY <3>2, <3>1, TotalAssumption DEF Saturated, IInv, TypeOK
    <3> QED BY <3>1, <3>3 DEF PlanIInv, PlanIsCurrent, PlanUnused, PlanOpens
  <2>4. CASE IssueReset /\ InitCache
    <3>1. ~Saturated' /\ plan' = plan
      BY <2>4, TotalAssumption DEF InitCache, Saturated
    <3> QED BY <3>1 DEF PlanIInv, PlanIsCurrent, PlanUnused, PlanOpens
  <2>5. CASE Abort /\ UNCHANGED ringVars
    BY <2>5 DEF Abort, PlanIInv, PlanIsCurrent, PlanUnused, PlanOpens, ringVars
  <2>6. CASE UNCHANGED serverVars
    BY <2>6 DEF serverVars, cycleVars, ringVars, PlanIInv, PlanIsCurrent, PlanUnused, PlanOpens,
                Saturated, NextTokens, Transient, Closing, WriteHead
  <2> QED BY <2>1, <2>2, <2>3, <2>4, <2>5, <2>6 DEF ServerNext
<1>3. PlanIInv => PlanIsCurrent
  BY DEF PlanIInv
<1> QED BY <1>1, <1>2, <1>3, ServerInvariant, AllocationNeverWraps, PTL DEF ServerSpec

-----------------------------------------------------------------------------
(* RingParity *)

(* The tokens of the forward that comes next, when this is the phase. *)
Issued(p, n) ==
  \/ p \in {"video", "commit_video", "committed"} /\ n = VideoTokens
  \/ p \in {"action", "commit_action"} /\ n = ActionTokens

LEMMA AlignedRoom ==
  ASSUME NEW h, NEW p, NEW n, Aligned(h, p), Issued(p, n)
  PROVE  n \in 1 .. Total /\ h \in Nat /\ h + n <= Total
<1> USE TotalAssumption, TokensAssumption
<1>1. PICK k \in 0 .. Periods - 1 : h = k * Period + Lead(p)
  BY DEF Aligned
<1>2. k * Period \in Nat /\ k * Period + Period <= Total
  BY PeriodFits
<1> QED BY <1>1, <1>2 DEF Issued, Lead, Period

(* How many slots the allocator has free behind the head: as many as the   *)
(* ring, but when the ring is full a transient forward leaves the          *)
(* allocator the room it made.                                             *)
FreeAt(p, f) ==
  \/ start = 0 /\ count < Total /\ f = Total - count
  \/ /\ count = Total
     /\ f = 0 \/ (p = "video" /\ f = VideoTokens) \/ (p = "action" /\ f = ActionTokens)
  \/ p = "commit_video" /\ count = Total - Period /\ f = Period
  \/ p = "commit_action" /\ count = Total - ActionTokens /\ f = ActionTokens

LEMMA RoomAtHead ==
  ASSUME NEW p, NEW n, NEW f \in 0 .. Total, RingIsAt(p), Issued(p, n), FreeAt(p, f)
  PROVE  /\ n \in 1 .. Total /\ WriteHead + n <= Total /\ WriteHead + f <= Total
         /\ f = Total - count \/ (count = Total /\ f <= n)
<1> USE TotalAssumption, TokensAssumption
<1>1. PICK k \in 0 .. Periods - 1 : WriteHead = k * Period + Lead(p)
  BY DEF RingIsAt, Aligned
<1>2. k * Period \in Nat /\ k * Period + Period <= Total
  BY PeriodFits
<1>3. n \in 1 .. Total /\ WriteHead + n <= Total
  BY AlignedRoom DEF RingIsAt
<1>4. start = 0 /\ count < Total => WriteHead = count
  BY ModBelow DEF RingIsAt, WriteHead
<1>5. f = Total - count \/ (count = Total /\ f <= n)
  BY <1>3 DEF FreeAt, Issued, RingIsAt, Period
<1>6. WriteHead + f <= Total
  BY <1>1, <1>2, <1>3, <1>4, <1>5 DEF FreeAt, Lead, Period, RingIsAt
<1> QED BY <1>3, <1>5, <1>6

LEMMA FreeTurns ==
  ASSUME NEW p, NEW next, NEW n, NEW uc, NEW f \in 0 .. Total,
         RingIsAt(p), Closing(p, n, uc, next), Advance(n, uc), FreeAt(p, f)
  PROVE  FreeAt(next, IF f <= n THEN 0 ELSE f - n)'
<1> USE TotalAssumption, TokensAssumption
<1>1. n \in 1 .. Total /\ uc # 0 /\ WriteHead + n <= Total /\ Issued(p, n)
  <2>1. n \in 1 .. Total /\ uc \in 1 .. 2 /\ WriteHead + n <= Total
    BY AdvanceTurns
  <2> QED BY <2>1 DEF Closing, Issued
<1>2. start \in Nat /\ count \in 0 .. Total
  BY DEF RingIsAt, Slots
<1>3. /\ count' = IF count + n > Total THEN Total ELSE count + n
      /\ count + n <= Total => start' = start
  BY <1>1, <1>2 DEF Advance
<1>4. CASE start = 0 /\ count < Total /\ f = Total - count
  <2>1. count + n <= Total
    BY <1>1, <1>2, <1>4, ModBelow DEF WriteHead
  <2> QED BY <1>1, <1>2, <1>3, <1>4, <2>1 DEF FreeAt
<1>5. CASE count = Total
  <2>1. f <= n
    BY <1>1, <1>2, <1>5, RoomAtHead
  <2> QED BY <1>1, <1>3, <1>5, <2>1 DEF FreeAt
<1>6. CASE p = "commit_video" /\ count = Total - Period /\ f = Period
  <2>1. n = VideoTokens /\ next = "commit_action" /\ count' = Total - ActionTokens
    BY <1>2, <1>3, <1>6 DEF Closing, Period
  <2> QED BY <1>6, <2>1 DEF FreeAt, Period
<1>7. CASE p = "commit_action" /\ count = Total - ActionTokens /\ f = ActionTokens
  <2>1. n = ActionTokens /\ count' = Total
    BY <1>2, <1>3, <1>7 DEF Closing
  <2> QED BY <1>7, <2>1 DEF FreeAt
<1> QED BY <1>4, <1>5, <1>6, <1>7 DEF FreeAt

LEMMA FreeStays ==
  ASSUME NEW p \in {"video", "action"}, NEW n, NEW f \in 0 .. Total,
         RingIsAt(p), Issued(p, n), FreeAt(p, f), UNCHANGED <<start, count>>
  PROVE  FreeAt(p, IF f <= n THEN n ELSE f)'
<1> USE TotalAssumption, TokensAssumption
<1>1. n \in 1 .. Total /\ WriteHead + n <= Total
  BY RoomAtHead
<1>2. start = 0 /\ count < Total => WriteHead = count
  BY ModBelow DEF RingIsAt, WriteHead
<1>3. CASE start = 0 /\ count < Total /\ f = Total - count
  <2>1. (IF f <= n THEN n ELSE f) = f
    BY <1>1, <1>2, <1>3 DEF RingIsAt
  <2> QED BY <1>3, <2>1 DEF FreeAt
<1>4. CASE count = Total
  <2>1. f <= n
    BY <1>1, <1>4, RoomAtHead
  <2>2. n = IF p = "video" THEN VideoTokens ELSE ActionTokens
    BY DEF Issued
  <2> QED BY <1>1, <1>4, <2>1, <2>2 DEF FreeAt
<1> QED BY <1>3, <1>4 DEF FreeAt

LEMMA FreeClears ==
  ASSUME NEW f \in 0 .. Total, RingIsAt("ready"), FreeAt("ready", f), ClearPred
  PROVE  f + Period \in 0 .. Total /\ FreeAt("commit_video", f + Period)'
<1>1. pred = Period /\ Period \in Nat \ {0} /\ count \in Period .. Total
  BY ClearTurns, PeriodFits DEF RingIsAt
<1> QED BY <1>1, TotalAssumption DEF FreeAt, ClearPred

(* The two allocators agree at a phase: the same slots are live, in an     *)
(* order both tell, and the ring's interval is where they are.             *)
ParityAt(p) ==
  /\ RingIsAt(p)
  /\ id \in [Slots -> Int] /\ next_id \in Int
  /\ stockMask \in [Slots -> BOOLEAN] /\ stockIds \in [Slots -> Int]
  /\ mask = stockMask
  /\ \E f \in 0 .. Total :
       FreeAt(p, f) /\ Orderly(Total, WriteHead, f, pred, stockMask, stockIds, stockPred)
  /\ Follows(Total, stockMask, stockIds, stockPred, id, is_pred, next_id)

StockTakes(n, uc) ==
  Takes(Total, n, uc, stockMask, stockIds, stockPred, stockMask', stockIds', stockPred')

LEMMA SlotsAreSlots == Slots = SlotRange(Total)
BY DEF Slots, SlotRange

LEMMA HeadIsSlot == ASSUME NEW p, RingIsAt(p) PROVE WriteHead \in SlotRange(Total)
BY HeadInRange, SlotsAreSlots DEF RingIsAt, WriteHead

(* Both allocators take the block at the head. *)
LEMMA ParityGrants ==
  ASSUME NEW p, NEW n, NEW uc \in 0 .. 2, ParityAt(p), Issued(p, n),
         StockTakes(n, uc), Bookkeep(n, uc)
  PROVE  /\ BlockAtHead(Total, WriteHead, n, uc, stockMask, stockIds, stockPred,
                        stockMask', stockIds', stockPred')
         /\ id' \in [Slots -> Int] /\ next_id' \in Int
         /\ stockMask' \in [Slots -> BOOLEAN] /\ stockIds' \in [Slots -> Int]
         /\ mask' = stockMask'
         /\ Follows(Total, stockMask', stockIds', stockPred', id', is_pred', next_id')
<1> USE TotalAssumption
<1>1. PICK f \in 0 .. Total :
        FreeAt(p, f) /\ Orderly(Total, WriteHead, f, pred, stockMask, stockIds, stockPred)
  BY DEF ParityAt
<1>2. n \in 1 .. Total /\ WriteHead + n <= Total /\ WriteHead + f <= Total /\ WriteHead \in SlotRange(Total)
  BY <1>1, RoomAtHead, HeadIsSlot DEF ParityAt
<1>3. /\ stockMask \in [SlotRange(Total) -> BOOLEAN] /\ stockIds \in [SlotRange(Total) -> Int]
      /\ id \in [SlotRange(Total) -> Int] /\ next_id \in Int
      /\ Follows(Total, stockMask, stockIds, stockPred, id, is_pred, next_id)
  BY SlotsAreSlots DEF ParityAt
<1>4. BlockAtHead(Total, WriteHead, n, uc, stockMask, stockIds, stockPred,
                  stockMask', stockIds', stockPred')
  BY <1>1, <1>2, <1>3, TakenAtHead DEF StockTakes
<1>5. Notes(Total, WriteHead, n, uc, stockMask, id, is_pred, next_id, mask', id', is_pred')
      /\ next_id' = next_id + 1
  BY SlotsAreSlots DEF Notes, Bookkeep, Block, ParityAt
<1>6. mask' = stockMask'
      /\ Follows(Total, stockMask', stockIds', stockPred', id', is_pred', next_id')
  <2> DEFINE h == WriteHead
  <2>1. h \in SlotRange(Total) /\ n \in 1 .. Total /\ h + n <= Total
    BY <1>2
  <2>2. /\ BlockAtHead(Total, h, n, uc, stockMask, stockIds, stockPred,
                       stockMask', stockIds', stockPred')
        /\ Notes(Total, h, n, uc, stockMask, id, is_pred, next_id, mask', id', is_pred')
    BY <1>4, <1>5
  <2> HIDE DEF h
  <2>3. /\ mask' = stockMask'
        /\ Follows(Total, stockMask', stockIds', stockPred', id', is_pred', next_id + 1)
    BY <1>3, <2>1, <2>2, NotesFollow
  <2> QED BY <1>5, <2>3
<1>7. id' \in [Slots -> Int] /\ next_id' \in Int
  <2>1. id' = [s \in Slots |-> IF s \notin Block(WriteHead, n) THEN id[s]
                              ELSE IF uc = 0 THEN -1 ELSE next_id]
    BY DEF Bookkeep
  <2> QED BY <1>3, <1>5, <2>1, SlotsAreSlots
<1>8. stockMask' \in [Slots -> BOOLEAN] /\ stockIds' \in [Slots -> Int]
  BY <1>3, <1>4, SlotsAreSlots DEF BlockAtHead
<1> QED BY <1>4, <1>6, <1>7, <1>8

LEMMA ParityCommits ==
  ASSUME NEW p, NEW next, NEW n, NEW uc \in 0 .. 2, ParityAt(p), Closing(p, n, uc, next),
         StockTakes(n, uc), Bookkeep(n, uc), Advance(n, uc)
  PROVE  ParityAt(next)'
<1> USE TotalAssumption
<1>1. PICK f \in 0 .. Total :
        FreeAt(p, f) /\ Orderly(Total, WriteHead, f, pred, stockMask, stockIds, stockPred)
  BY DEF ParityAt
<1>2. RingIsAt(p) /\ Issued(p, n)
  BY DEF ParityAt, Closing, Issued
<1>3. n \in 1 .. Total /\ WriteHead + n <= Total /\ WriteHead + f <= Total /\ WriteHead \in SlotRange(Total)
  BY <1>1, <1>2, RoomAtHead, HeadIsSlot
<1>4. RingIsAt(next)' /\ uc \in 1 .. 2 /\ WriteHead' = (WriteHead + n) % Total
  BY <1>2, AdvanceTurns
<1> DEFINE f2 == IF f <= n THEN 0 ELSE f - n
<1>5. f2 \in 0 .. Total /\ FreeAt(next, f2)'
  <2>1. f2 \in 0 .. Total
    BY <1>3
  <2> QED BY <1>1, <1>2, <2>1, FreeTurns
<1>6. Orderly(Total, WriteHead', f2, pred', stockMask', stockIds', stockPred')
  <2>1. WriteHead' = IF WriteHead + n = Total THEN 0 ELSE WriteHead + n
    BY <1>3, <1>4, ModBelow, ModAbove DEF SlotRange
  <2>2. pred \in Nat /\ (uc = 2 => pred = 0) /\ pred' = IF uc = 1 THEN pred + n ELSE 0
    BY <1>2, <1>4 DEF Closing, RingIsAt, PredTokens, Advance
  <2>3. stockMask \in [SlotRange(Total) -> BOOLEAN] /\ stockIds \in [SlotRange(Total) -> Int]
    BY SlotsAreSlots DEF ParityAt
  <2> HIDE DEF f2
  <2>4. Orderly(Total, IF WriteHead + n = Total THEN 0 ELSE WriteHead + n,
                IF f <= n THEN 0 ELSE f - n, IF uc = 1 THEN pred + n ELSE 0,
                stockMask', stockIds', stockPred')
    BY <1>1, <1>3, <1>4, <2>2, <2>3, CommitKeepsOrder DEF StockTakes
  <2> QED BY <2>1, <2>2, <2>4 DEF f2
<1> HIDE DEF f2
<1>7. \E g \in 0 .. Total :
        (FreeAt(next, g) /\ Orderly(Total, WriteHead, g, pred, stockMask, stockIds, stockPred))'
  BY <1>5, <1>6
<1> QED BY <1>2, <1>4, <1>7, ParityGrants DEF ParityAt

LEMMA ParityStays ==
  ASSUME NEW p \in {"video", "action"}, NEW n, ParityAt(p), Issued(p, n),
         StockTakes(n, 0), Bookkeep(n, 0), Advance(n, 0)
  PROVE  ParityAt(p)'
<1> USE TotalAssumption
<1>1. PICK f \in 0 .. Total :
        FreeAt(p, f) /\ Orderly(Total, WriteHead, f, pred, stockMask, stockIds, stockPred)
  BY DEF ParityAt
<1>2. RingIsAt(p) /\ UNCHANGED <<start, count, pred>> /\ WriteHead' = WriteHead
  BY DEF ParityAt, Advance, WriteHead
<1>3. n \in 1 .. Total /\ WriteHead + n <= Total /\ WriteHead + f <= Total /\ WriteHead \in SlotRange(Total)
  BY <1>1, <1>2, RoomAtHead, HeadIsSlot
<1> DEFINE f2 == IF f <= n THEN n ELSE f
<1>5. f2 \in 0 .. Total /\ FreeAt(p, f2)'
  <2>1. f2 \in 0 .. Total
    BY <1>3
  <2> QED BY <1>1, <1>2, <2>1, FreeStays
<1>6. Orderly(Total, WriteHead', f2, pred', stockMask', stockIds', stockPred')
  <2>1. stockMask \in [SlotRange(Total) -> BOOLEAN] /\ stockIds \in [SlotRange(Total) -> Int] /\ pred \in Nat
    BY <1>2, SlotsAreSlots DEF ParityAt, RingIsAt
  <2> HIDE DEF f2
  <2>2. Orderly(Total, WriteHead, IF f <= n THEN n ELSE f, pred, stockMask', stockIds', stockPred')
    BY <1>1, <1>3, <2>1, TransientKeepsOrder DEF StockTakes
  <2> QED BY <1>2, <2>2 DEF f2
<1> HIDE DEF f2
<1>7. \E g \in 0 .. Total :
        (FreeAt(p, g) /\ Orderly(Total, WriteHead, g, pred, stockMask, stockIds, stockPred))'
  BY <1>5, <1>6
<1>8. RingIsAt(p)'
  BY <1>2 DEF RingIsAt, Aligned
<1> QED BY <1>7, <1>8, ParityGrants DEF ParityAt

LEMMA ParityClears ==
  ASSUME ParityAt("ready"), ClearPred,
         stockMask' = [s \in Slots |-> stockMask[s] /\ ~stockPred[s]],
         UNCHANGED <<stockIds, stockPred>>
  PROVE  ParityAt("commit_video")'
<1> USE TotalAssumption
<1>1. PICK f \in 0 .. Total :
        FreeAt("ready", f) /\ Orderly(Total, WriteHead, f, pred, stockMask, stockIds, stockPred)
  BY DEF ParityAt
<1>2. RingIsAt("ready") /\ UNCHANGED <<id, is_pred, next_id>>
  BY DEF ParityAt, ClearPred
<1>3. /\ RingIsAt("commit_video")' /\ pred = Period /\ pred' = 0
      /\ WriteHead = IF WriteHead' + Period < Total THEN WriteHead' + Period
                     ELSE WriteHead' + Period - Total
  BY <1>2, ClearTurns DEF ClearPred
<1>4. Period \in 0 .. Total /\ WriteHead \in SlotRange(Total) /\ WriteHead' \in SlotRange(Total)
  <2>1. pred \in 0 .. count /\ count \in 0 .. Total
    BY <1>2 DEF RingIsAt
  <2>2. start' \in Slots /\ count' \in Int
    BY <1>3 DEF RingIsAt
  <2>3. WriteHead' \in Slots
    BY <2>2, HeadInRange DEF WriteHead
  <2>4. Period \in Nat
    BY PeriodFits
  <2> QED BY <1>2, <1>3, <2>1, <2>3, <2>4, HeadIsSlot, SlotsAreSlots
<1>5. f + Period \in 0 .. Total /\ FreeAt("commit_video", f + Period)'
  BY <1>1, <1>2, FreeClears
<1>6. Orderly(Total, WriteHead', f + Period, 0, stockMask', stockIds', stockPred')
  <2> DEFINE m2 == [s \in SlotRange(Total) |-> stockMask[s] /\ ~stockPred[s]]
  <2>1. m2 = stockMask'
    BY SlotsAreSlots
  <2> HIDE DEF m2
  <2>2. Orderly(Total, WriteHead', f + Period, 0, m2, stockIds, stockPred)
    BY <1>1, <1>3, <1>4, ClearKeepsOrder DEF m2
  <2> QED BY <2>1, <2>2
<1>7. \E g \in 0 .. Total :
        (FreeAt("commit_video", g) /\ Orderly(Total, WriteHead, g, pred, stockMask, stockIds, stockPred))'
  BY <1>3, <1>5, <1>6
<1>8. stockMask' \in [Slots -> BOOLEAN] /\ LiveIn(Total, stockMask') \subseteq LiveIn(Total, stockMask)
  <2>1. \A s \in Slots : stockMask'[s] => stockMask[s]
    OBVIOUS
  <2> QED BY <2>1, SlotsAreSlots DEF LiveIn
<1>9. mask' = stockMask'
  <2>1. \A s \in LiveIn(Total, stockMask) : is_pred[s] = stockPred[s]
    BY DEF ParityAt, Follows
  <2>2. \A s \in Slots : (mask[s] /\ ~is_pred[s]) = (stockMask[s] /\ ~stockPred[s])
    BY <2>1, SlotsAreSlots DEF ParityAt, LiveIn
  <2> QED BY <2>2 DEF ClearPred
<1>10. Follows(Total, stockMask', stockIds', stockPred', id', is_pred', next_id')
  BY <1>2, <1>8, FewerFollow DEF ParityAt
<1>11. id' \in [Slots -> Int] /\ next_id' \in Int /\ stockIds' \in [Slots -> Int]
  BY <1>2 DEF ParityAt
<1> QED BY <1>3, <1>7, <1>8, <1>9, <1>10, <1>11 DEF ParityAt

LEMMA FreshIsOrderly ==
  ASSUME NEW m, m = [s \in Slots |-> FALSE], NEW i, NEW p, NEW ri, NEW rp, NEW x
  PROVE  /\ Orderly(Total, 0, Total, 0, m, i, p)
         /\ Follows(Total, m, i, p, ri, rp, x)
<1>1. 0 \in SlotRange(Total) /\ \A s \in SlotRange(Total) : ~m[s]
  BY SlotsAreSlots, TotalAssumption DEF SlotRange
<1>2. LiveIn(Total, m) = {}
  BY <1>1 DEF LiveIn
<1> QED BY <1>1, <1>2, EmptyIsOrderly, TotalAssumption DEF Follows

EmptyPools ==
  /\ start = 0 /\ count = 0 /\ pred = 0 /\ next_id = 0
  /\ mask = [s \in Slots |-> FALSE] /\ id = [s \in Slots |-> -1]
  /\ is_pred = [s \in Slots |-> FALSE]
  /\ stockMask = [s \in Slots |-> FALSE] /\ stockIds = [s \in Slots |-> -1]

(* Empty pools agree. *)
LEMMA ParityBegins == EmptyPools => ParityAt("video")
<1> SUFFICES ASSUME EmptyPools PROVE ParityAt("video")
  OBVIOUS
<1> USE TotalAssumption DEF EmptyPools
<1>1. WriteHead = 0
  BY ModBelow DEF WriteHead
<1>2. RingIsAt("video")
  <2>1. Aligned(0, "video")
    BY PeriodAssumption, PeriodFits DEF Aligned, Lead
  <2> QED BY <1>1, <2>1 DEF RingIsAt, PredTokens, Slots
<1>3. Total \in 0 .. Total /\ FreeAt("video", Total)
  BY DEF FreeAt
<1>4. /\ Orderly(Total, WriteHead, Total, pred, stockMask, stockIds, stockPred)
      /\ Follows(Total, stockMask, stockIds, stockPred, id, is_pred, next_id)
  BY <1>1, FreshIsOrderly
<1>5. /\ id \in [Slots -> Int] /\ next_id \in Int
      /\ stockMask \in [Slots -> BOOLEAN] /\ stockIds \in [Slots -> Int]
  OBVIOUS
<1> QED BY <1>2, <1>3, <1>4, <1>5 DEF ParityAt

(* The ring reads the slots the allocator enumerates. *)
LEMMA ParityAttends ==
  ASSUME NEW p, NEW n, ParityAt(p), Issued(p, n)
  PROVE  /\ GrantedIn(Total, stockMask, stockIds, n) = Block(WriteHead, n)
         /\ Ascends(KeptIn(Total, stockMask, stockIds, n) \cup GrantedIn(Total, stockMask, stockIds, n))
              = Presented(count + n)
<1> USE TotalAssumption
<1>1. PICK f \in 0 .. Total :
        FreeAt(p, f) /\ Orderly(Total, WriteHead, f, pred, stockMask, stockIds, stockPred)
  BY DEF ParityAt
<1>2. RingIsAt(p)
  BY DEF ParityAt
<1>3. /\ n \in 1 .. Total /\ WriteHead + n <= Total /\ WriteHead + f <= Total
      /\ WriteHead \in SlotRange(Total) /\ start \in SlotRange(Total) /\ count \in 0 .. Total
      /\ f = Total - count \/ (count = Total /\ f <= n)
  BY <1>1, <1>2, RoomAtHead, HeadIsSlot, SlotsAreSlots DEF RingIsAt
<1>4. GrantedIn(Total, stockMask, stockIds, n) = Block(WriteHead, n)
  BY <1>1, <1>3, GrantsAtHead DEF Block
<1>5. WriteHead = IF start + count < Total THEN start + count ELSE start + count - Total
  <2>1. start \in 0 .. Total - 1 /\ start + count \in 0 .. 2 * Total - 1
    BY <1>3 DEF SlotRange
  <2>2. CASE start + count < Total
    <3>1. start + count \in 0 .. Total - 1
      BY <1>3, <2>1, <2>2
    <3> QED BY <2>2, <3>1, ModBelow DEF WriteHead
  <2>3. ASSUME start + count >= Total PROVE WriteHead = (start + count) - Total
    <3> DEFINE x == start + count
    <3>1. x \in Total .. 2 * Total - 1
      BY <1>3, <2>1, <2>3
    <3> HIDE DEF x
    <3>2. x % Total = x - Total
      BY <3>1, ModAbove
    <3>3. WriteHead = x % Total
      BY DEF WriteHead, x
    <3> QED BY <3>2, <3>3, Zenon DEF x
  <2>4. count \in Int /\ start \in Int /\ Total \in Int
    BY <1>3, <2>1
  <2>5. start + count >= Total => (start + count) - Total = start + count - Total
    BY <2>4
  <2> QED BY <2>2, <2>3, <2>4, <2>5
<1> DEFINE h == WriteHead
<1>6. h \in SlotRange(Total) /\ h + n <= Total /\ h + f <= Total
      /\ h = (IF start + count < Total THEN start + count ELSE start + count - Total)
      /\ Orderly(Total, h, f, pred, stockMask, stockIds, stockPred)
  BY <1>1, <1>3, <1>5
<1> HIDE DEF h
<1>7. Ascends(KeptIn(Total, stockMask, stockIds, n) \cup GrantedIn(Total, stockMask, stockIds, n))
        = ShownFrom(Total, start, count + n)
  BY <1>3, <1>6, ShownInOrder
<1>8. Presented(count + n) = ShownFrom(Total, start, count + n)
  BY DEF Presented, ShownFrom
<1> QED BY <1>4, <1>7, <1>8

(* The operators of the allocator, as RingOrder writes them. *)
LEMMA StockOperators ==
  /\ \A n : Stock!Kept(n) = KeptIn(Total, stockMask, stockIds, n)
  /\ \A n : Stock!Granted(n) = GrantedIn(Total, stockMask, stockIds, n)
  /\ \A S : Stock!Ascending(S) = Ascends(S)
<1>1. Stock!Live = LiveIn(Total, stockMask) /\ Stock!Slots = SlotRange(Total)
  BY DEF Stock!Live, Stock!Slots, LiveIn, SlotRange
<1>2. \A S : Stock!Cardinality(S) = Cardinality(S)
  BY DEF Stock!Cardinality, Cardinality
<1>3. \A n : Stock!Evicted(n) = EvictedIn(Total, stockMask, stockIds, n)
  BY <1>1, <1>2 DEF Stock!Evicted, Stock!FirstOf, Stock!Rank, Stock!Older, Stock!Free,
                    EvictedIn, Before
<1>4. \A n : Stock!Kept(n) = KeptIn(Total, stockMask, stockIds, n)
  BY <1>1, <1>3 DEF Stock!Kept, KeptIn
<1>5. \A n : Stock!Granted(n) = GrantedIn(Total, stockMask, stockIds, n)
  BY <1>1, <1>2, <1>4 DEF Stock!Granted, Stock!FirstOf, Stock!Rank, GrantedIn, LowestOf
<1>6. \A S : Stock!Ascending(S) = Ascends(S)
  <2> SUFFICES ASSUME NEW S PROVE Stock!Ascending(S) = Ascends(S)
    OBVIOUS
  <2>1. Stock!Ascending(S)
          = [j \in 1 .. Cardinality(S) |-> CHOOSE s \in S : Cardinality({t \in S : t < s}) = j - 1]
    <3>1. Stock!Ascending(S)
          = [j \in 1 .. Stock!Cardinality(S) |-> CHOOSE s \in S : Stock!Cardinality({t \in S : t < s}) = j - 1]
      BY DEF Stock!Ascending, Stock!InOrder, Stock!Rank
    <3>2. ASSUME NEW j PROVE (CHOOSE s \in S : Stock!Cardinality({t \in S : t < s}) = j - 1)
                   = (CHOOSE s \in S : Cardinality({t \in S : t < s}) = j - 1)
      BY <1>2
    <3>3. Stock!Cardinality(S) = Cardinality(S)
      BY <1>2
    <3> QED BY <3>1, <3>2, <3>3
  <2> QED BY <2>1 DEF Ascends
<1> QED BY <1>4, <1>5, <1>6

LEMMA StockAllocates ==
  ASSUME NEW n, NEW uc, NEW stamp, Stock!Allocate(n, uc, stamp) PROVE StockTakes(n, uc)
<1>1. Stock!Live = LiveIn(Total, stockMask) /\ Stock!Slots = SlotRange(Total)
  BY DEF Stock!Live, Stock!Slots, LiveIn, SlotRange
<1>2. \A S : Stock!Cardinality(S) = Cardinality(S)
  BY DEF Stock!Cardinality, Cardinality
<1>3. Stock!Evicted(n) = EvictedIn(Total, stockMask, stockIds, n)
  BY <1>1, <1>2 DEF Stock!Evicted, Stock!FirstOf, Stock!Rank, Stock!Older, Stock!Free,
                    EvictedIn, Before
<1>4. Stock!NewIds(n) = NewIdsIn(Total, stockMask, stockIds, n)
  BY StockOperators DEF Stock!NewIds, NewIdsIn
<1> QED BY <1>1, <1>3, <1>4, StockOperators DEF Stock!Allocate, StockTakes, Takes

StockWrites(n, stamp) ==
  Writes(Total, n, stamp, stockMask, stockIds, stockKv, stockKv', stockSeen')

LEMMA StockAttends ==
  ASSUME NEW n, NEW stamp, Stock!WriteAndAttend(n, stamp) PROVE StockWrites(n, stamp)
<1>1. Stock!Slots = SlotRange(Total)
  BY DEF Stock!Slots, SlotRange
<1>2. Stock!Granted(n) = GrantedIn(Total, stockMask, stockIds, n)
  BY StockOperators
<1>3. Stock!Ascending(Stock!Kept(n) \cup Stock!Granted(n)) = Ascends(ReadIn(Total, stockMask, stockIds, n))
  BY StockOperators DEF ReadIn
<1> QED BY <1>1, <1>2, <1>3 DEF Stock!WriteAndAttend, StockWrites, Writes, SeenIn

(* The live slots hold the same K/V in both pools. *)
KvAgree == Agree(Total, stockMask, kv, stockKv)

(* Written at the head, a forward of the ring writes and reads as one of   *)
(* the allocator does.                                                     *)
LEMMA RingAttends ==
  ASSUME NEW p, NEW n, NEW stamp, ParityAt(p), Issued(p, n), WriteAt(n) = WriteHead,
         WriteAndAttend(n, stamp)
  PROVE  Writes(Total, n, stamp, stockMask, stockIds, kv, kv', seen')
<1>1. /\ GrantedIn(Total, stockMask, stockIds, n) = Block(WriteHead, n)
      /\ Ascends(ReadIn(Total, stockMask, stockIds, n)) = Presented(count + n)
  BY ParityAttends DEF ReadIn
<1> QED BY <1>1, SlotsAreSlots DEF WriteAndAttend, Writes, SeenIn

(* The plan buffers that a forward of this phase may write through. *)
PlanAt(p) ==
  UsePlanBuffer /\ Saturated =>
    \A n \in KeySizes : Issued(p, n) => plan[n] \in {Unset, WriteHead}

LEMMA WritesAtHead ==
  ASSUME NEW p, NEW n \in KeySizes, Issued(p, n), PlanAt(p), DOMAIN plan = KeySizes
  PROVE  WriteAt(n) = WriteHead
BY DEF PlanAt, WriteAt, PlannedWrite, Buffers

LEMMA RefreshKeepsPlan ==
  ASSUME NEW next, NEW buffers, RefreshPlan(buffers), RingIsAt(next)'
  PROVE  DOMAIN plan' = KeySizes /\ PlanAt(next)'
<1>1. plan' = [k \in KeySizes |->
                IF UsePlanBuffer /\ buffers[k] # Unset /\ WriteHead' + k <= Total
                  THEN WriteHead' ELSE buffers[k]]
  BY DEF RefreshPlan, WriteHead
<1>2. \A n \in KeySizes : Issued(next, n) => WriteHead' + n <= Total
  BY AlignedRoom DEF RingIsAt
<1> QED BY <1>1, <1>2 DEF PlanAt

(* The forwards of a phase p that lead to the phase q. *)
Leads(p, n, uc, q) ==
  \/ Closing(p, n, uc, q)
  \/ p \in {"video", "action"} /\ Issued(p, n) /\ uc = 0 /\ q = p

(* A forward of both pools, in an episode no call raised in. *)
LEMMA ForwardTurns ==
  ASSUME NEW p, NEW q, NEW n \in KeySizes, NEW uc \in 0 .. 2, NEW stamp,
         ParityAt(p), PlanAt(p), DOMAIN plan = KeySizes, KvAgree, Leads(p, n, uc, q),
         StockTakes(n, uc), StockWrites(n, stamp), WriteAndAttend(n, stamp),
         Bookkeep(n, uc), Advance(n, uc), RefreshPlan(Buffers(n))
  PROVE  ParityAt(q)' /\ PlanAt(q)' /\ KvAgree' /\ seen' = stockSeen'
<1>1. Issued(p, n)
  BY DEF Leads, Closing, Issued
<1>2. Writes(Total, n, stamp, stockMask, stockIds, kv, kv', seen')
  BY <1>1, WritesAtHead, RingAttends
<1>3. seen' = stockSeen' /\ KvAgree'
  <2>1. Agree(Total, stockMask, kv, stockKv)
    BY DEF KvAgree
  <2>2. seen' = stockSeen' /\ Agree(Total, stockMask', kv', stockKv')
    BY <1>2, <2>1, WritesAlike, TotalAssumption DEF StockTakes, StockWrites
  <2> QED BY <2>2 DEF KvAgree
<1>4. ParityAt(q)'
  <2>1. CASE Closing(p, n, uc, q)
    BY <2>1, ParityCommits
  <2>2. CASE p \in {"video", "action"} /\ Issued(p, n) /\ uc = 0 /\ q = p
    BY <2>2, ParityStays
  <2> QED BY <2>1, <2>2 DEF Leads
<1>5. PlanAt(q)'
  BY <1>4, RefreshKeepsPlan DEF ParityAt
<1> QED BY <1>3, <1>4, <1>5

(* The phase a server call ends in, and the one it returns to. *)
Returns(p, q) ==
  \/ p = "returning" /\ q = "ready"
  \/ p = "committed" /\ q = "video"

(* Once its forwards are done, a call leaves the pools as they are. *)
LEMMA ParityReturns ==
  ASSUME NEW p, NEW q, Returns(p, q), ParityAt(p) PROVE ParityAt(q)
<1>1. RingIsAt(p) => RingIsAt(q)
  BY DEF Returns, RingIsAt, Aligned, Lead, PredTokens
<1>2. \A f \in 0 .. Total : FreeAt(p, f) => FreeAt(q, f)
  BY DEF Returns, FreeAt
<1> QED BY <1>1, <1>2 DEF ParityAt

LEMMA ClearUnsaturates ==
  ASSUME RingIsAt("ready"), ClearPred PROVE ~Saturated'
<1>1. count \in 0 .. Total /\ pred = Period /\ Period \in Nat \ {0}
  BY ClearTurns, PeriodFits DEF RingIsAt
<1> QED BY <1>1, TotalAssumption DEF ClearPred, Saturated

LEMMA ForwardKeepsParity ==
  ASSUME IInv, PlanIsCurrent, clean, ParityAt(phase), KvAgree,
         NEW n \in KeySizes, NEW uc \in 0 .. 2,
         Issue(n, uc), Stock!Forward(n, uc), Forward(n, uc, clock + 1)
  PROVE  ParityAt(phase)' /\ KvAgree' /\ seen' = stockSeen'
<1>1. StockTakes(n, uc) /\ StockWrites(n, clock + 1)
  BY StockAllocates, StockAttends DEF Stock!Forward
<1>2. /\ WriteAndAttend(n, clock + 1) /\ Bookkeep(n, uc) /\ Advance(n, uc)
      /\ RefreshPlan(Buffers(n))
  BY DEF Forward
<1>3. PlanAt(phase) /\ DOMAIN plan = KeySizes
  BY PeriodAssumption
     DEF PlanIsCurrent, PlanAt, Issue, NextTokens, Issued, Transient, Closing, Phases, IInv, TypeOK
<1>4. Leads(phase, n, uc, phase')
  BY DEF Issue, Leads, Transient, MoveTo, Issued
<1>5. PICK p, q : p = phase /\ q = phase'
  OBVIOUS
<1>6. ParityAt(p) /\ PlanAt(p) /\ Leads(p, n, uc, q)
  BY <1>3, <1>4, <1>5
<1>7. ParityAt(q)' /\ KvAgree' /\ seen' = stockSeen'
  BY <1>1, <1>2, <1>3, <1>6, ForwardTurns
<1> QED BY <1>5, <1>7

(* What the two pools have in common while no call of the episode raised.  *)
ParityIInv == clean => ParityAt(phase) /\ KvAgree

LEMMA ParityStepKeepsIInv ==
  ASSUME IInv, PlanIsCurrent, ParityIInv, [ParityNext]_parityVars
  PROVE  ParityIInv' /\ (clean /\ clock' # clock => seen' = stockSeen')
<1>1. ASSUME NEW n \in KeySizes, NEW uc \in 0 .. 2,
             Issue(n, uc), Stock!Forward(n, uc), Forward(n, uc, clock + 1)
      PROVE  ParityIInv' /\ (clean => seen' = stockSeen')
  <2>1. clean' = clean
    BY <1>1 DEF Issue, MoveTo
  <2>2. clean => ParityAt(phase)' /\ KvAgree' /\ seen' = stockSeen'
    BY <1>1, ForwardKeepsParity DEF ParityIInv
  <2> QED BY <2>1, <2>2 DEF ParityIInv
<1>2. CASE Return /\ UNCHANGED <<stockVars, ringVars>>
  <2>1. Returns(phase, phase') /\ clock' = clock /\ clean' = clean
    BY <1>2 DEF Return, MoveTo, Returns
  <2>2. ASSUME ParityAt(phase) PROVE ParityAt(phase)'
    <3>1. PICK q : q = phase'
      OBVIOUS
    <3>2. ParityAt(q)
      BY <2>1, <2>2, <3>1, ParityReturns
    <3>3. ParityAt(q)'
      BY <1>2, <3>2 DEF ParityAt, RingIsAt, Aligned, FreeAt, WriteHead, ringVars, stockVars
    <3> QED BY <3>1, <3>3
  <2>3. KvAgree => KvAgree'
    BY <1>2 DEF KvAgree, Agree, ringVars, stockVars
  <2> QED BY <2>1, <2>2, <2>3 DEF ParityIInv
<1>3. CASE IssueClearPred /\ Stock!ClearPred /\ ClearPred
  <2>1. phase = "ready" /\ phase' = "commit_video" /\ clock' = clock /\ clean' = clean
    BY <1>3 DEF IssueClearPred, MoveTo
  <2>2. /\ stockMask' = [s \in Slots |-> stockMask[s] /\ ~stockPred[s]]
        /\ UNCHANGED <<stockIds, stockPred, stockKv, kv>>
    BY <1>3 DEF Stock!ClearPred, Stock!Slots, Slots, ClearPred
  <2>3. ParityAt("ready") => ParityAt("commit_video")'
    BY <1>3, <2>2, ParityClears
  <2>4. KvAgree => KvAgree'
    BY <2>2, SlotsAreSlots DEF KvAgree, Agree
  <2> QED BY <2>1, <2>3, <2>4 DEF ParityIInv
<1>4. CASE IssueReset /\ Stock!Reset /\ InitCache
  <2>1. phase' = "video" /\ clock' = clock
    BY <1>4 DEF IssueReset
  <2>2. ParityAt("video")' /\ KvAgree'
    <3>1. EmptyPools'
      BY <1>4 DEF EmptyPools, InitCache, Stock!Reset, Stock!Slots, Slots
    <3>2. ParityAt("video")'
      BY <3>1, ParityBegins, PTL
    <3> QED BY <3>1, <3>2, SlotsAreSlots DEF KvAgree, Agree, EmptyPools
  <2> QED BY <2>1, <2>2 DEF ParityIInv
<1>5. CASE Abort /\ UNCHANGED <<stockVars, ringVars>>
  BY <1>5 DEF Abort, ParityIInv
<1>6. CASE UNCHANGED parityVars
  BY <1>6 DEF parityVars, serverVars, cycleVars, ringVars, stockVars, ParityIInv, ParityAt, KvAgree,
              RingIsAt, Aligned, FreeAt, WriteHead
<1> QED BY <1>1, <1>2, <1>3, <1>4, <1>5, <1>6 DEF ParityNext

LEMMA ParityRunsServer == ParitySpec => ServerSpec
<1>1. ParityInit => ServerInit
  BY DEF ParityInit
<1>2. [ParityNext]_parityVars => [ServerNext]_serverVars
  BY DEF ParityNext, ServerNext, parityVars
<1> QED BY <1>1, <1>2, PTL DEF ParitySpec, ServerSpec

LEMMA ParityInvariant == ParitySpec => []ParityIInv
<1>1. ParityInit => ParityIInv
  <2> SUFFICES ASSUME ParityInit PROVE ParityIInv
    OBVIOUS
  <2>1. phase = "video" /\ EmptyPools
    BY DEF ParityInit, ServerInit, Init, RingInit, Stock!Init, Stock!Slots, Slots, EmptyPools
  <2>2. ParityAt("video")
    BY <2>1, ParityBegins
  <2> QED BY <2>1, <2>2 DEF ParityIInv, KvAgree, Agree, EmptyPools, Slots, SlotRange
<1>2. IInv /\ PlanIsCurrent /\ ParityIInv /\ [ParityNext]_parityVars => ParityIInv'
  BY ParityStepKeepsIInv
<1> QED BY <1>1, <1>2, ParityRunsServer, ServerInvariant, PlanStaysCurrent, PTL DEF ParitySpec

(* For every pool that holds a whole number of cycles: while no call of an *)
(* episode raised, the bookkeeping the ring maintains by slice is the one  *)
(* the mask allocator reaches by sorting ids and scanning for free slots.  *)
THEOREM StockTakesOver == ParitySpec => []StockCouldTakeOver
<1>1. ParityIInv => StockCouldTakeOver
  <2> SUFFICES ASSUME ParityIInv, clean PROVE StockCouldTakeOver
    BY DEF StockCouldTakeOver
  <2>1. mask = stockMask /\ Follows(Total, stockMask, stockIds, stockPred, id, is_pred, next_id)
    BY DEF ParityIInv, ParityAt
  <2>2. Live = LiveIn(Total, stockMask)
    BY <2>1, SlotsAreSlots DEF Live, LiveIn
  <2> QED BY <2>1, <2>2 DEF StockCouldTakeOver, Follows
<1> QED BY <1>1, ParityInvariant, PTL

(* For every such pool, whatever the number of forwards and wraps: a       *)
(* forward of the ring attends over the slots the mask enumerates, in the  *)
(* same order, with the same K/V in them.                                  *)
THEOREM RingReadsAlike == ParitySpec => SameKeysInOrder
<1>1. IInv /\ PlanIsCurrent /\ ParityIInv /\ [ParityNext]_parityVars
      => [clean /\ clock' # clock => seen' = stockSeen']_parityVars
  BY ParityStepKeepsIInv
<1> QED
  BY <1>1, ParityInvariant, ParityRunsServer, ServerInvariant, PlanStaysCurrent, PTL
     DEF ParitySpec, SameKeysInOrder

-----------------------------------------------------------------------------
(* The ring as a window.  The allocator is one (SlotPoolProofs); the ring  *)
(* goes where it goes, because the live slots of both were granted to the  *)
(* same forwards and a forward reads the same stamps in both.              *)
SP ==
  INSTANCE SlotPoolProofs WITH
    Size <- Total, TokenCounts <- KeySizes,
    mask <- stockMask, ids <- stockIds, is_pred <- stockPred,
    owner <- stockOwner, kv <- stockKv, seen <- stockSeen

(* The allocator of RingParity is the one SlotPoolProofs is about. *)
LEMMA StockIsPool ==
  /\ SP!Slots = Stock!Slots /\ SP!Live = Stock!Live
  /\ \A n : SP!Evicted(n) = Stock!Evicted(n)
  /\ \A n : SP!Kept(n) = Stock!Kept(n)
  /\ \A n : SP!Granted(n) = Stock!Granted(n)
  /\ \A n : SP!NewIds(n) = Stock!NewIds(n)
  /\ \A S : SP!Ascending(S) = Stock!Ascending(S)
<1>1. SP!Slots = Stock!Slots /\ SP!Live = Stock!Live
  BY DEF SP!Slots, Stock!Slots, SP!Live, Stock!Live
<1>2. \A S : SP!Cardinality(S) = Stock!Cardinality(S)
  BY DEF SP!Cardinality, Stock!Cardinality
<1>3. \A n : SP!Evicted(n) = Stock!Evicted(n)
  BY <1>1, <1>2 DEF SP!Evicted, Stock!Evicted, SP!FirstOf, Stock!FirstOf, SP!Rank, Stock!Rank,
                    SP!Older, Stock!Older, SP!Free, Stock!Free
<1>4. \A n : SP!Kept(n) = Stock!Kept(n)
  BY <1>1, <1>3 DEF SP!Kept, Stock!Kept
<1>5. \A n : SP!Granted(n) = Stock!Granted(n)
  BY <1>1, <1>2, <1>4 DEF SP!Granted, Stock!Granted, SP!FirstOf, Stock!FirstOf, SP!Rank, Stock!Rank
<1>6. \A n : SP!NewIds(n) = Stock!NewIds(n)
  BY <1>4 DEF SP!NewIds, Stock!NewIds
<1>7. \A S : SP!Ascending(S) = Stock!Ascending(S)
  <2> SUFFICES ASSUME NEW S PROVE SP!Ascending(S) = Stock!Ascending(S)
    OBVIOUS
  <2>1. SP!Ascending(S)
          = [j \in 1 .. SP!Cardinality(S) |-> CHOOSE s \in S : SP!Cardinality({t \in S : t < s}) = j - 1]
    BY DEF SP!Ascending, SP!InOrder, SP!Rank
  <2>2. Stock!Ascending(S)
          = [j \in 1 .. Stock!Cardinality(S) |-> CHOOSE s \in S : Stock!Cardinality({t \in S : t < s}) = j - 1]
    BY DEF Stock!Ascending, Stock!InOrder, Stock!Rank
  <2>3. ASSUME NEW j
        PROVE  (CHOOSE s \in S : SP!Cardinality({t \in S : t < s}) = j - 1)
                 = (CHOOSE s \in S : Stock!Cardinality({t \in S : t < s}) = j - 1)
    BY <1>2
  <2>4. SP!Cardinality(S) = Stock!Cardinality(S)
    BY <1>2
  <2> QED BY <2>1, <2>2, <2>3, <2>4
<1> QED BY <1>1, <1>3, <1>4, <1>5, <1>6, <1>7

LEMMA StockForwards ==
  ASSUME NEW n, NEW uc, Stock!Forward(n, uc) PROVE SP!Forward(n, uc)
<1>1. SP!Allocate(n, uc, clock + 1)
  BY StockIsPool DEF Stock!Forward, Stock!Allocate, SP!Allocate
<1>2. SP!WriteAndAttend(n, clock + 1)
  BY StockIsPool DEF Stock!Forward, Stock!WriteAndAttend, SP!WriteAndAttend
<1> QED BY <1>1, <1>2 DEF Stock!Forward, SP!Forward

LEMMA StockSteps == [ParityNext]_parityVars => [SP!Next]_SP!vars
<1>1. ASSUME NEW n \in KeySizes, NEW uc \in 0 .. 2, Issue(n, uc), Stock!Forward(n, uc)
      PROVE  SP!Next
  <2>1. SP!Forward(n, uc) /\ clock < MaxForwards
    BY <1>1, StockForwards DEF Issue
  <2> QED BY <2>1 DEF SP!Next
<1>2. (Return \/ Abort) /\ UNCHANGED stockVars => UNCHANGED SP!vars
  BY DEF Return, Abort, stockVars, SP!vars
<1>3. IssueClearPred /\ Stock!ClearPred => SP!Next
  BY StockIsPool DEF Stock!ClearPred, SP!ClearPred, SP!Next
<1>4. IssueReset /\ Stock!Reset => SP!Next
  BY StockIsPool DEF Stock!Reset, SP!Reset, SP!Next
<1>5. UNCHANGED parityVars => UNCHANGED SP!vars
  BY DEF parityVars, serverVars, cycleVars, stockVars, SP!vars
<1> QED BY <1>1, <1>2, <1>3, <1>4, <1>5 DEF ParityNext

LEMMA StockRunsPool == ParitySpec => SP!Spec
<1>1. ParityInit => SP!Init
  BY StockIsPool DEF ParityInit, ServerInit, Init, Stock!Init, SP!Init
<1>2. [ParityNext]_parityVars => [SP!Next]_SP!vars
  BY StockSteps
<1> QED BY <1>1, <1>2, PTL DEF ParitySpec, SP!Spec

LEMMA StockInvariant == ParitySpec => [](SP!IInv /\ SP!HoldsOwn)
<1>1. KeySizes \subseteq Nat \ {0} /\ MaxForwards \in Nat /\ Total \in Nat \ {0}
  BY KeySizesAssumption, BoundsAssumption, TotalAssumption
<1>2. SP!Spec => []SP!IInv
  BY <1>1, SP!PoolInvariant
<1>3. SP!Init => SP!HoldsOwn
  BY <1>1, SP!InitIsWindowInit
<1>4. SP!IInv /\ SP!HoldsOwn /\ [SP!Next]_SP!vars => SP!HoldsOwn'
  BY <1>1, SP!StepKeepsOwn
<1> QED BY <1>2, <1>3, <1>4, StockRunsPool, PTL DEF SP!Spec

(* Two pools whose live slots were granted to the same forwards, as the    *)
(* same kind of token, are the same window.                                *)
LEMMA WindowSame ==
  ASSUME NEW S, NEW o, Keyed(S, o), NEW p, NEW o2, NEW p2,
         \A s \in S : o2[s] = o[s] /\ p2[s] = p[s]
  PROVE  WindowBy(S, o2, p2) = WindowBy(S, o, p)
<1> DEFINE q == ByKeyOf(S, o)
           k == Cardinality(S)
<1>1. q \in [1 .. k -> S]
  BY ByKeyLists DEF ListsByKey
<1>2. ByKeyOf(S, o2) = q
  BY ByKeySame
<1> HIDE DEF q, k
<1>3. \A j \in 1 .. k : q[j] \in S
  BY <1>1
<1>4. \A j \in 1 .. k : o2[q[j]] = o[q[j]] /\ p2[q[j]] = p[q[j]]
  BY <1>3
<1>5. DOMAIN q = 1 .. k
  BY <1>1
<1>6. WindowBy(S, o, p) = [j \in 1 .. k |-> [stamp |-> o[q[j]], pred |-> p[q[j]]]]
  BY <1>5 DEF WindowBy, q
<1>7. WindowBy(S, o2, p2) = [j \in 1 .. k |-> [stamp |-> o2[q[j]], pred |-> p2[q[j]]]]
  BY <1>2, <1>5 DEF WindowBy
<1> QED BY <1>4, <1>6, <1>7

SameTokens ==
  /\ mask = stockMask
  /\ \A s \in Live : owner[s] = stockOwner[s] /\ is_pred[s] = stockPred[s]

WindowsAgree == WindowOf(Live) = SP!WindowOf(SP!Live)
ReadsAgree == seen = stockSeen
StampsAgree == StampsRead = SP!StampsRead

LEMMA SameWindow == SP!TypeOK /\ SameTokens => WindowsAgree
<1> SUFFICES ASSUME SP!TypeOK, SameTokens PROVE WindowOf(Live) = SP!WindowOf(SP!Live)
  BY DEF WindowsAgree
<1>0. KeySizes \subseteq Nat \ {0} /\ MaxForwards \in Nat /\ Total \in Nat \ {0}
  BY KeySizesAssumption, BoundsAssumption, TotalAssumption
<1>1. SP!Live = Live
  BY DEF SameTokens, SP!Live, SP!Slots, Live, Slots
<1>2. WindowOf(Live) = WindowBy(Live, owner, is_pred)
  <2>1. ByKey(Live, owner) = ByKeyOf(Live, owner)
    BY ByKeyIs
  <2> QED BY <2>1 DEF WindowOf, WindowBy
<1>3. SP!WindowOf(Live) = WindowBy(Live, stockOwner, stockPred)
  <2>1. SP!ByKey(Live, stockOwner) = ByKeyOf(Live, stockOwner)
    BY DEF SP!ByKey, SP!InOrder, SP!Rank, SP!Cardinality, ByKeyOf, RankIn, Before, Cardinality
  <2> QED BY <2>1 DEF SP!WindowOf, WindowBy
<1>4. Keyed(Live, stockOwner)
  <2>1. Live \subseteq SlotRange(Total)
    BY DEF Live, Slots, SlotRange
  <2>2. IsFiniteSet(Live)
    <3>1. IsFiniteSet(0 .. Total - 1)
      BY <1>0, FS_Interval
    <3> QED BY <2>1, <3>1, FS_Subset DEF SlotRange
  <2>3. \A s \in Live : s \in Int /\ stockOwner[s] \in Int
    BY <1>0 DEF Live, Slots, SP!TypeOK, SP!Slots
  <2> QED BY <2>2, <2>3 DEF Keyed
<1>5. WindowBy(Live, owner, is_pred) = WindowBy(Live, stockOwner, stockPred)
  BY <1>4, WindowSame DEF SameTokens
<1> QED BY <1>1, <1>2, <1>3, <1>5

LEMMA SameRead == ReadsAgree => StampsAgree
<1> SUFFICES ASSUME ReadsAgree PROVE StampsRead = SP!StampsRead
  BY DEF StampsAgree
<1>1. \A S, key : SP!ByKey(S, key) = ByKey(S, key)
  BY DEF SP!ByKey, SP!InOrder, SP!Rank, SP!Cardinality, ByKey, InOrder, Rank, Cardinality
<1> QED BY <1>1 DEF StampsRead, SP!StampsRead, ReadsAgree

LEMMA WindowForwards ==
  ASSUME NEW n, NEW uc, SP!Window!Forward(n, uc), WindowsAgree, WindowsAgree', StampsAgree'
  PROVE  Window!Forward(n, uc)
BY DEF WindowsAgree, StampsAgree, SP!Window!Forward, SP!Window!Newest, SP!Window!Tokens, SP!Window!Stamps,
       Window!Forward, Window!Newest, Window!Tokens, Window!Stamps

LEMMA WindowClears ==
  ASSUME SP!Window!ClearPred, WindowsAgree, WindowsAgree', StampsRead' = StampsRead, clock' = clock
  PROVE  Window!ClearPred
<1>1. \A S : SP!Window!Cardinality(S) = Window!Cardinality(S)
  BY DEF SP!Window!Cardinality, Window!Cardinality
<1>2. ASSUME NEW S PROVE SP!Window!InOrder(S, <) = Window!InOrder(S, <)
  <2>1. SP!Window!InOrder(S, <)
          = [j \in 1 .. SP!Window!Cardinality(S) |->
               CHOOSE s \in S : SP!Window!Cardinality({t \in S : t < s}) = j - 1]
    BY DEF SP!Window!InOrder, SP!Window!Rank
  <2>2. Window!InOrder(S, <)
          = [j \in 1 .. Window!Cardinality(S) |->
               CHOOSE s \in S : Window!Cardinality({t \in S : t < s}) = j - 1]
    BY DEF Window!InOrder, Window!Rank
  <2>3. ASSUME NEW j
        PROVE  (CHOOSE s \in S : SP!Window!Cardinality({t \in S : t < s}) = j - 1)
                 = (CHOOSE s \in S : Window!Cardinality({t \in S : t < s}) = j - 1)
    BY <1>1
  <2>4. SP!Window!Cardinality(S) = Window!Cardinality(S)
    BY <1>1
  <2> QED BY <2>1, <2>2, <2>3, <2>4
<1> DEFINE w == WindowOf(Live)
           J == {i \in DOMAIN w : ~w[i].pred}
<1>3. SP!Window!InOrder(J, <) = Window!InOrder(J, <)
  BY <1>2
<1>4. WindowOf(Live)' = [j \in DOMAIN SP!Window!InOrder(J, <) |-> w[SP!Window!InOrder(J, <)[j]]]
  BY DEF SP!Window!ClearPred, WindowsAgree
<1>5. WindowOf(Live)' = [j \in DOMAIN Window!InOrder(J, <) |-> w[Window!InOrder(J, <)[j]]]
  BY <1>3, <1>4
<1> QED BY <1>5 DEF Window!ClearPred

(* The live slots were granted to the same forwards in both pools. *)
OwnersAgree == \A s \in Live : owner[s] = stockOwner[s]

WindowIInv == clean => OwnersAgree

NothingLive == Live = {} /\ mask = stockMask

LEMMA ParityIsSame ==
  /\ ParityIInv /\ WindowIInv /\ clean => SameTokens
  /\ NothingLive => SameTokens
<1>1. ASSUME ParityIInv, WindowIInv, clean PROVE SameTokens
  <2>1. mask = stockMask /\ Follows(Total, stockMask, stockIds, stockPred, id, is_pred, next_id)
    BY <1>1 DEF ParityIInv, ParityAt
  <2>2. Live = LiveIn(Total, stockMask)
    BY <2>1, SlotsAreSlots DEF Live, LiveIn
  <2> QED BY <1>1, <2>1, <2>2 DEF SameTokens, WindowIInv, OwnersAgree, Follows
<1> QED BY <1>1 DEF SameTokens, NothingLive

LEMMA ForwardKeepsOwners ==
  ASSUME NEW p, NEW n, NEW uc, NEW stamp, ParityAt(p), Issued(p, n), OwnersAgree,
         Grant(n, stamp), Bookkeep(n, uc), Stock!Allocate(n, uc, stamp)
  PROVE  OwnersAgree'
<1>1. Stock!Granted(n) = Block(WriteHead, n) /\ Stock!Slots = Slots
  BY StockOperators, ParityAttends DEF Stock!Slots, Slots
<1> DEFINE B == Block(WriteHead, n)
<1>2. stockOwner' = [s \in Slots |-> IF s \in B THEN stamp ELSE stockOwner[s]]
  BY <1>1 DEF Stock!Allocate
<1>3. owner' = [s \in Slots |-> IF s \in B THEN stamp ELSE owner[s]]
  BY DEF Grant
<1>4. mask' = [s \in Slots |-> IF s \in B THEN uc # 0 ELSE mask[s]]
  BY DEF Bookkeep
<1> HIDE DEF B
<1> QED BY <1>2, <1>3, <1>4 DEF OwnersAgree, Live

LEMMA StepKeepsOwners ==
  ASSUME ParityIInv, WindowIInv, [ParityNext]_parityVars PROVE WindowIInv'
<1>1. ASSUME NEW n \in KeySizes, NEW uc \in 0 .. 2,
             Issue(n, uc), Stock!Forward(n, uc), Forward(n, uc, clock + 1)
      PROVE  WindowIInv'
  <2>1. clean' = clean
    BY <1>1 DEF Issue, MoveTo
  <2>2. Issued(phase, n)
    BY <1>1 DEF Issue, Transient, Closing, Issued
  <2>3. PICK p : p = phase
    OBVIOUS
  <2>4. clean => ParityAt(p) /\ Issued(p, n) /\ OwnersAgree
    BY <2>2, <2>3 DEF ParityIInv, WindowIInv
  <2>5. Grant(n, clock + 1) /\ Bookkeep(n, uc) /\ Stock!Allocate(n, uc, clock + 1)
    BY <1>1 DEF Forward, Stock!Forward
  <2>6. clean => OwnersAgree'
    BY <2>4, <2>5, ForwardKeepsOwners
  <2> QED BY <2>1, <2>6 DEF WindowIInv
<1>2. CASE Return /\ UNCHANGED <<stockVars, ringVars>>
  BY <1>2 DEF Return, MoveTo, stockVars, ringVars, WindowIInv, OwnersAgree, Live
<1>3. CASE IssueClearPred /\ Stock!ClearPred /\ ClearPred
  BY <1>3 DEF IssueClearPred, MoveTo, Stock!ClearPred, ClearPred, WindowIInv, OwnersAgree, Live
<1>4. CASE IssueReset /\ Stock!Reset /\ InitCache
  BY <1>4 DEF InitCache, WindowIInv, OwnersAgree, Live
<1>5. CASE Abort /\ UNCHANGED <<stockVars, ringVars>>
  BY <1>5 DEF Abort, WindowIInv
<1>6. CASE UNCHANGED parityVars
  BY <1>6 DEF parityVars, serverVars, cycleVars, ringVars, stockVars, WindowIInv, OwnersAgree, Live
<1> QED BY <1>1, <1>2, <1>3, <1>4, <1>5, <1>6 DEF ParityNext

(* What holds of both pools on every step. *)
PoolsIInv ==
  IInv /\ PlanIsCurrent /\ ParityIInv /\ WindowIInv /\ SP!IInv /\ SP!HoldsOwn

LEMMA PoolsInvariant == ParitySpec => []PoolsIInv
<1>1. ParityInit => WindowIInv
  BY DEF ParityInit, ServerInit, RingInit, WindowIInv, OwnersAgree, Live
<1>2. ParityIInv /\ WindowIInv /\ [ParityNext]_parityVars => WindowIInv'
  BY StepKeepsOwners
<1>3. IInv /\ PlanIsCurrent /\ ParityIInv /\ WindowIInv /\ SP!IInv /\ SP!HoldsOwn => PoolsIInv
  BY DEF PoolsIInv
<1> QED
  BY <1>1, <1>2, <1>3, ParityInvariant, ParityRunsServer, ServerInvariant, PlanStaysCurrent,
     StockInvariant, PTL DEF ParitySpec

(* What the allocator's window does, the ring's does. *)
LEMMA ForwardIsWindowForward ==
  ASSUME PoolsIInv, PoolsIInv', clean, NEW n \in KeySizes, NEW uc \in 0 .. 2,
         Issue(n, uc), Stock!Forward(n, uc), Forward(n, uc, clock + 1)
  PROVE  Window!Forward(n, uc)
<1>0. KeySizes \subseteq Nat \ {0} /\ MaxForwards \in Nat /\ Total \in Nat \ {0}
  BY KeySizesAssumption, BoundsAssumption, TotalAssumption
<1>1. SP!Window!Forward(n, uc)
  BY <1>0, StockForwards, SP!ForwardIsWindowForward DEF PoolsIInv
<1>2. clean' = clean
  BY DEF Issue, MoveTo
<1>3. WindowsAgree
  BY ParityIsSame, SameWindow DEF PoolsIInv, SP!IInv
<1>4. WindowsAgree'
  <2>1. ParityIInv' /\ WindowIInv' /\ SP!TypeOK' /\ clean'
    BY <1>2 DEF PoolsIInv, SP!IInv
  <2>2. SameTokens'
    BY <2>1, ParityIsSame, PTL
  <2> QED BY <2>1, <2>2, SameWindow, PTL
<1>5. StampsAgree'
  <2>1. ReadsAgree'
    BY ForwardKeepsParity DEF PoolsIInv, ParityIInv, ReadsAgree
  <2> QED BY <2>1, SameRead, PTL
<1> QED BY <1>1, <1>3, <1>4, <1>5, WindowForwards

LEMMA StepIsWindowStep ==
  ASSUME PoolsIInv, PoolsIInv', [ParityNext]_parityVars, clean \/ clean'
  PROVE  [Window!Next]_(Window!windowVars)
<1>0. KeySizes \subseteq Nat \ {0} /\ MaxForwards \in Nat /\ Total \in Nat \ {0}
  BY KeySizesAssumption, BoundsAssumption, TotalAssumption
<1>1. ASSUME NEW n \in KeySizes, NEW uc \in 0 .. 2,
             Issue(n, uc), Stock!Forward(n, uc), Forward(n, uc, clock + 1)
      PROVE  Window!Next
  <2>1. clean
    BY <1>1 DEF Issue, MoveTo
  <2>2. Window!Forward(n, uc)
    BY <1>1, <2>1, ForwardIsWindowForward
  <2> QED BY <2>2 DEF Window!Next
<1>2. (Return \/ Abort) /\ UNCHANGED <<stockVars, ringVars>> => UNCHANGED Window!windowVars
  BY DEF Return, Abort, ringVars, Window!windowVars, WindowOf, StampsRead, Live
<1>3. CASE IssueClearPred /\ Stock!ClearPred /\ ClearPred
  <2>1. clean /\ clean' /\ clock' = clock
    BY <1>3 DEF IssueClearPred, MoveTo
  <2>2. SP!ClearPred
    BY <1>3, StockIsPool DEF Stock!ClearPred, SP!ClearPred
  <2>3. SP!Window!ClearPred
    BY <1>0, <2>2, SP!ClearPredIsWindowClear DEF PoolsIInv
  <2>4. WindowsAgree
    BY <2>1, ParityIsSame, SameWindow DEF PoolsIInv, SP!IInv
  <2>5. WindowsAgree'
    <3>1. ParityIInv' /\ WindowIInv' /\ SP!TypeOK' /\ clean'
      BY <2>1 DEF PoolsIInv, SP!IInv
    <3>2. SameTokens'
      BY <3>1, ParityIsSame, PTL
    <3> QED BY <3>1, <3>2, SameWindow, PTL
  <2>6. StampsRead' = StampsRead
    BY <1>3 DEF ClearPred, StampsRead
  <2>7. Window!ClearPred
    BY <2>1, <2>3, <2>4, <2>5, <2>6, WindowClears
  <2> QED BY <2>7 DEF Window!Next
<1>4. CASE IssueReset /\ Stock!Reset /\ InitCache
  <2>1. Live' = {} /\ mask' = stockMask' /\ clock' = clock /\ seen' = seen
    BY <1>4 DEF IssueReset, InitCache, Stock!Reset, Stock!Slots, Slots, Live
  <2>2. NothingLive'
    BY <2>1 DEF NothingLive
  <2>3. SameTokens'
    BY <2>2, ParityIsSame, PTL
  <2>4. SP!TypeOK'
    BY DEF PoolsIInv, SP!IInv
  <2>5. WindowsAgree'
    BY <2>3, <2>4, SameWindow, PTL
  <2>6. SP!Live' = {}
    BY <2>1 DEF SP!Live, SP!Slots, Live, Slots
  <2>7. WindowOf(Live)' = << >>
    BY <1>0, <2>5, <2>6, SP!EmptiedIsWindowEmptied DEF WindowsAgree
  <2>8. StampsRead' = StampsRead
    BY <2>1 DEF StampsRead
  <2>9. Window!ClearCache
    BY <2>1, <2>7, <2>8 DEF Window!ClearCache
  <2> QED BY <2>9 DEF Window!Next
<1>5. UNCHANGED parityVars => UNCHANGED Window!windowVars
  BY DEF parityVars, serverVars, cycleVars, ringVars, Window!windowVars, WindowOf, StampsRead, Live
<1> QED BY <1>1, <1>2, <1>3, <1>4, <1>5 DEF ParityNext

LEMMA InitIsWindowInit == ParityInit => Window!Init
<1> SUFFICES ASSUME ParityInit PROVE Window!Init
  OBVIOUS
<1>0. KeySizes \subseteq Nat \ {0} /\ MaxForwards \in Nat /\ Total \in Nat \ {0}
  BY KeySizesAssumption, BoundsAssumption, TotalAssumption
<1>1. SP!Init
  BY StockIsPool DEF ParityInit, ServerInit, Init, Stock!Init, SP!Init
<1>2. SP!Window!Init /\ SP!TypeOK
  BY <1>0, <1>1, SP!InitIsWindowInit, SP!InitIInv DEF SP!IInv
<1>3. WindowsAgree
  <2>1. Live = {} /\ mask = stockMask
    BY DEF ParityInit, ServerInit, RingInit, Stock!Init, Stock!Slots, Slots, Live
  <2> QED BY <1>2, <2>1, ParityIsSame, SameWindow DEF NothingLive
<1>4. StampsAgree
  BY SameRead DEF ParityInit, ServerInit, RingInit, Stock!Init, ReadsAgree
<1> QED BY <1>2, <1>3, <1>4 DEF WindowsAgree, StampsAgree, SP!Window!Init, Window!Init

(* For every pool that holds a whole number of cycles: the ring is a       *)
(* window over the newest tokens, whatever the number of forwards, wraps   *)
(* and episodes.                                                           *)
THEOREM RingIsAWindow == ParitySpec => ImplementsWindow
<1>1. PoolsIInv /\ PoolsIInv' /\ [ParityNext]_parityVars
      => [clean \/ clean' => [Window!Next]_(Window!windowVars)]_serverVars
  BY StepIsWindowStep
<1> QED BY <1>1, InitIsWindowInit, PoolsInvariant, PTL DEF ParitySpec, ImplementsWindow

(* As long as no call raises, it implements the window as the mask         *)
(* allocator does.                                                         *)
THEOREM RingRefinesWindow == ParitySpec /\ []clean => Window!Spec
<1>1. PoolsIInv /\ PoolsIInv' /\ clean /\ [ParityNext]_parityVars
      => [Window!Next]_(Window!windowVars)
  BY StepIsWindowStep
<1> QED BY <1>1, InitIsWindowInit, PoolsInvariant, PTL DEF ParitySpec, Window!Spec
=============================================================================
