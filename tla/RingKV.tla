-------------------------------- MODULE RingKV --------------------------------
(***************************************************************************)
(* The KV pool addressed by interval (passes/lingbot/ring_kv.py): the live *)
(* slots are start, start+1, ... (count of them, modulo Total), so a       *)
(* forward writes at the head of the ring and reads one or two slices.     *)
(* mask, id and is_pred are still maintained, for the stock code.          *)
(*                                                                         *)
(* In the saturated regime the write may go through a plan buffer, one per *)
(* key size: a device-resident copy of the head, refreshed after every     *)
(* commit so that a captured graph need not be recaptured.                 *)
(***************************************************************************)
EXTENDS Integers, Sequences, FiniteSets

CONSTANTS
  Total,          (* slots in the pool                                     *)
  KeySizes,       (* token counts of the forwards                          *)
  UsePlanBuffer,  (* _iwm_use_plan_buffer                                  *)
  Unset           (* a plan buffer that has not been allocated             *)

ASSUME TotalAssumption == Total \in Nat \ {0}
ASSUME KeySizesAssumption == KeySizes \subseteq Nat \ {0}
ASSUME PlanAssumption == UsePlanBuffer \in BOOLEAN /\ Unset \notin Nat

VARIABLES
  start, count, pred, next_id,  (* the ring dict                           *)
  mask, id, is_pred,            (* the stock bookkeeping, per slot         *)
  plan,                         (* key size -> head its buffer points at   *)
  owner, kv, seen               (* as in SlotPool                          *)

ringVars == <<start, count, pred, next_id, mask, id, is_pred, plan, owner, kv, seen>>

Slots == 0 .. Total - 1

WriteHead == (start + count) % Total

(* assert head + key_size <= total *)
Fits(n) == WriteHead + n <= Total

Block(h, n) == h .. h + n - 1

(* A slip: a wrapped interval in the order it was written. *)
PresentedByAge(c) ==
  [i \in 1 .. (IF c >= Total THEN Total ELSE c) |-> (start + i - 1) % Total]

(* The slots a read of c tokens presents to attention, in that order:      *)
(* the whole pool, one slice, or cat([:end], [start:]).                    *)
Presented(c) ==
  IF c >= Total THEN [i \in 1 .. Total |-> i - 1]
  ELSE IF start + c <= Total THEN [i \in 1 .. c |-> start + i - 1]
  ELSE LET end == start + c - Total
       IN [i \in 1 .. c |-> IF i <= end THEN i - 1 ELSE start + (i - end) - 1]

-----------------------------------------------------------------------------
RingInit ==
  /\ start = 0 /\ count = 0 /\ pred = 0 /\ next_id = 0
  /\ mask = [s \in Slots |-> FALSE]
  /\ id = [s \in Slots |-> -1]
  /\ is_pred = [s \in Slots |-> FALSE]
  /\ plan = [k \in KeySizes |-> Unset]
  /\ owner = [s \in Slots |-> 0]
  /\ kv = [s \in Slots |-> 0]
  /\ seen = <<>>

(* init_kv_cache on the reset of an episode.  Plan buffers belong to the   *)
(* attention module, not to the cache: they survive.                       *)
InitCache ==
  /\ start' = 0 /\ count' = 0 /\ pred' = 0 /\ next_id' = 0
  /\ mask' = [s \in Slots |-> FALSE]
  /\ id' = [s \in Slots |-> -1]
  /\ is_pred' = [s \in Slots |-> FALSE]
  /\ UNCHANGED <<plan, owner, kv, seen>>

(* A slip: the ring drops them, the mask does not. *)
ClearPredRingOnly ==
  /\ count' = count - pred
  /\ pred' = 0
  /\ UNCHANGED <<mask, start, next_id, id, is_pred, plan, owner, kv, seen>>

(* The provisional slots are the most recent ones: drop them off the tail. *)
ClearPred ==
  /\ count' = count - pred
  /\ pred' = 0
  /\ mask' = [s \in Slots |-> mask[s] /\ ~is_pred[s]]
  /\ UNCHANGED <<start, next_id, id, is_pred, plan, owner, kv, seen>>

-----------------------------------------------------------------------------
Saturated == count >= Total

(* Where the K/V of a forward lands. *)
PlannedWrite == UsePlanBuffer /\ Saturated

(* A slip: a new buffer points at slot 0. *)
BuffersAtZero(n) ==
  IF PlannedWrite /\ plan[n] = Unset THEN [plan EXCEPT ![n] = 0] ELSE plan

(* Buffers are allocated by their first write, pointing at the head.       *)
Buffers(n) ==
  IF PlannedWrite /\ plan[n] = Unset THEN [plan EXCEPT ![n] = WriteHead] ELSE plan

WriteAt(n) == IF PlannedWrite THEN Buffers(n)[n] ELSE WriteHead

(* A slip: the second provisional block replaces the first. *)
AdvanceOverwriting(n, uc) ==
  IF uc = 0 THEN UNCHANGED <<start, count, pred>>
  ELSE /\ pred' = IF uc = 1 THEN n ELSE 0
       /\ IF count + n > Total
            THEN /\ start' = (start + (count + n - Total)) % Total
                 /\ count' = Total
            ELSE /\ start' = start
                 /\ count' = count + n

(* _commit: advance the interval, evicting from its start when it is full. *)
Advance(n, uc) ==
  IF uc = 0 THEN UNCHANGED <<start, count, pred>>
  ELSE /\ pred' = IF uc = 1 THEN pred + n ELSE 0
       /\ IF count + n > Total
            THEN /\ start' = (start + (count + n - Total)) % Total
                 /\ count' = Total
            ELSE /\ start' = start
                 /\ count' = count + n

(* A slip: the refresh runs before the interval advances. *)
RefreshPlanEarly(buffers) ==
  plan' = [k \in KeySizes |->
             IF UsePlanBuffer /\ buffers[k] # Unset /\ WriteHead + k <= Total
               THEN WriteHead ELSE buffers[k]]

(* Every allocated buffer is pointed at the head of the next write, unless *)
(* a write of its length would not fit there.                              *)
RefreshPlan(buffers) ==
  LET next == (start' + count') % Total
  IN plan' = [k \in KeySizes |->
                IF UsePlanBuffer /\ buffers[k] # Unset /\ next + k <= Total
                  THEN next ELSE buffers[k]]

(* The metadata of the written block; a transient write is rolled back.    *)
Bookkeep(n, uc) ==
  LET block == Block(WriteHead, n)
  IN /\ mask' = [s \in Slots |-> IF s \in block THEN uc # 0 ELSE mask[s]]
     /\ id' = [s \in Slots |-> IF s \notin block THEN id[s]
                               ELSE IF uc = 0 THEN -1 ELSE next_id]
     /\ is_pred' = [s \in Slots |-> IF s \in block THEN uc = 1 ELSE is_pred[s]]
     /\ next_id' = next_id + 1

WriteAndAttend(n, stamp) ==
  LET written == [s \in Slots |-> IF s \in Block(WriteAt(n), n) THEN stamp ELSE kv[s]]
      shown == Presented(count + n)
  IN /\ kv' = written
     /\ seen' = [i \in DOMAIN shown |-> <<shown[i], written[shown[i]]>>]

Grant(n, stamp) ==
  owner' = [s \in Slots |-> IF s \in Block(WriteHead, n) THEN stamp ELSE owner[s]]

Forward(n, uc, stamp) ==
  /\ Fits(n)
  /\ WriteAndAttend(n, stamp)
  /\ Grant(n, stamp)
  /\ Bookkeep(n, uc)
  /\ Advance(n, uc)
  /\ RefreshPlan(Buffers(n))

(* reserve_provisional_slots: the same bookkeeping, no K/V.  Nothing is    *)
(* written through the plan buffer, so none is allocated.                  *)
Reserve(n, uc, stamp) ==
  /\ Fits(n)
  /\ Grant(n, stamp)
  /\ Bookkeep(n, uc)
  /\ Advance(n, uc)
  /\ RefreshPlan(plan)
  /\ UNCHANGED <<kv, seen>>
=============================================================================
