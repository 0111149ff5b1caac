------------------------------- MODULE SlotPool -------------------------------
(***************************************************************************)
(* The mask allocator of the Wan self-attention KV pool: one live bit, one *)
(* age id and one provisional flag per slot (engines/wan_va/pool.py), with *)
(* what the engine's forward then writes into and reads from the slots     *)
(* (engines/wan_va/engine.py).  Every layer performs the same operations,  *)
(* so one bookkeeper stands for all of them.                               *)
(*                                                                         *)
(* The K/V of a slot is represented by the stamp of the forward that wrote *)
(* it; owner is a history variable, the stamp of the forward the slot was  *)
(* last granted to.  The two differ when a forward's compute is skipped.   *)
(***************************************************************************)
EXTENDS Integers, Sequences, FiniteSets, TLC, Ranking

CONSTANTS
  Size,        (* slots in the pool                                        *)
  TokenCounts, (* tokens one forward may bring                             *)
  MaxForwards  (* bound on the stamps                                      *)

ASSUME SizeAssumption == Size \in Nat \ {0}
ASSUME TokenCountsAssumption == TokenCounts \subseteq Nat \ {0}
ASSUME MaxForwardsAssumption == MaxForwards \in Nat

VARIABLES
  mask,        (* slot -> is it live                                       *)
  ids,         (* slot -> age id, -1 when never used or evicted            *)
  is_pred,     (* slot -> granted to a provisional forward                 *)
  owner,       (* slot -> stamp of the forward it was last granted to      *)
  kv,          (* slot -> stamp of the forward whose K/V it holds          *)
  seen,        (* <<slot, K/V stamp>> pairs in the order attention read    *)
  clock        (* stamp of the last forward                                *)

allocVars == <<mask, ids, is_pred, owner>>
vars == <<mask, ids, is_pred, owner, kv, seen, clock>>

Slots == 0 .. Size - 1
Live == {s \in Slots : mask[s]}
Free == Slots \ Live

-----------------------------------------------------------------------------
(* Choosing the slots of a forward of n tokens.                            *)

(* Stable order by id: slots of equal age keep slot order.                 *)
Older(t, s) == ids[t] < ids[s] \/ (ids[t] = ids[s] /\ t < s)

(* The live slots given up because too few are free, oldest first.         *)
Evicted(n) == FirstOf(Live, Older, n - Cardinality(Free))

Kept(n) == Live \ Evicted(n)

(* free[:n]: the lowest slots that are not live.                           *)
Granted(n) == LET unused == Slots \ Kept(n) IN FirstOf(unused, <, n)

(* A slip: the largest surviving id itself. *)
NewIdsRepeated(n) ==
  LET kept == Kept(n)
  IN IF kept = {} THEN {0}
     ELSE {ids[s] : s \in {k \in kept : \A t \in kept : ids[t] <= ids[k]}}

(* One more than the largest surviving id; 0 when nothing survived.        *)
NewIds(n) ==
  LET kept == Kept(n)
  IN IF kept = {} THEN {0}
     ELSE {ids[s] + 1 : s \in {k \in kept : \A t \in kept : ids[t] <= ids[k]}}

(* np.flatnonzero and mask.nonzero enumerate slots in ascending order.     *)
Ascending(S) == InOrder(S, <)

-----------------------------------------------------------------------------
Init ==
  /\ mask = [s \in Slots |-> FALSE]
  /\ ids = [s \in Slots |-> -1]
  /\ is_pred = [s \in Slots |-> FALSE]
  /\ owner = [s \in Slots |-> 0]
  /\ kv = [s \in Slots |-> 0]
  /\ seen = <<>>
  /\ clock = 0

(* clear_cache, create_empty_cache: the bookkeeping starts over, the K/V   *)
(* tensors keep what they hold.                                            *)
Reset ==
  /\ mask' = [s \in Slots |-> FALSE]
  /\ ids' = [s \in Slots |-> -1]
  /\ is_pred' = [s \in Slots |-> FALSE]
  /\ UNCHANGED <<owner, kv, seen, clock>>

ClearPred ==
  /\ mask' = [s \in Slots |-> mask[s] /\ ~is_pred[s]]
  /\ UNCHANGED <<ids, is_pred, owner, kv, seen, clock>>

(* A slip: a slot once provisional stays flagged. *)
AllocateKeepingFlags(n, uc, stamp) ==
  LET granted == Granted(n)
      evicted == Evicted(n)
  IN /\ n <= Size
     /\ mask' = [s \in Slots |->
                   IF s \in granted THEN uc # 0 ELSE mask[s] /\ s \notin evicted]
     /\ \E i \in NewIds(n) :
          ids' = [s \in Slots |-> IF s \in granted THEN i
                                  ELSE IF s \in evicted THEN -1 ELSE ids[s]]
     /\ is_pred' = [s \in Slots |-> is_pred[s] \/ (s \in granted /\ uc = 1)]
     /\ owner' = [s \in Slots |-> IF s \in granted THEN stamp ELSE owner[s]]

(* append, then restore when transient: restore clears the live bit only,  *)
(* the ids of the slots it frees are stale.                                *)
Allocate(n, uc, stamp) ==
  LET granted == Granted(n)
      evicted == Evicted(n)
  IN /\ n <= Size
     /\ mask' = [s \in Slots |->
                   IF s \in granted THEN uc # 0 ELSE mask[s] /\ s \notin evicted]
     /\ \E i \in NewIds(n) :
          ids' = [s \in Slots |-> IF s \in granted THEN i
                                  ELSE IF s \in evicted THEN -1 ELSE ids[s]]
     /\ is_pred' = [s \in Slots |-> IF s \in granted THEN uc = 1 ELSE is_pred[s]]
     /\ owner' = [s \in Slots |-> IF s \in granted THEN stamp ELSE owner[s]]

(* The forward's K/V goes into its slots before attention reads every live *)
(* slot, its own included.                                                 *)
WriteAndAttend(n, stamp) ==
  LET granted == Granted(n)
      written == [s \in Slots |-> IF s \in granted THEN stamp ELSE kv[s]]
      attended == Ascending(Kept(n) \cup granted)
  IN /\ kv' = written
     /\ seen' = [i \in DOMAIN attended |-> <<attended[i], written[attended[i]]>>]

Forward(n, uc) ==
  /\ Allocate(n, uc, clock + 1)
  /\ WriteAndAttend(n, clock + 1)
  /\ clock' = clock + 1

(* The trailing action forward of the engine: allocated, never computed.   *)
SkippedForward(n, uc) ==
  /\ Allocate(n, uc, clock + 1)
  /\ clock' = clock + 1
  /\ UNCHANGED <<kv, seen>>

(* More tokens than slots: every live slot is evicted before the error is  *)
(* raised, and stays evicted.                                              *)
Overflow(n) ==
  /\ n > Size
  /\ mask' = [s \in Slots |-> FALSE]
  /\ ids' = [s \in Slots |-> IF mask[s] THEN -1 ELSE ids[s]]
  /\ UNCHANGED <<is_pred, owner, kv, seen, clock>>

Next ==
  \/ \E n \in TokenCounts, uc \in 0 .. 2 : clock < MaxForwards /\ Forward(n, uc)
  \/ \E n \in TokenCounts : Overflow(n)
  \/ ClearPred
  \/ Reset

Spec == Init /\ [][Next]_vars

-----------------------------------------------------------------------------
(* The pool's fields keep their types; ids are never below -1. *)
TypeOK ==
  /\ mask \in [Slots -> BOOLEAN]
  /\ ids \in [Slots -> Int]
  /\ \A s \in Slots : ids[s] >= -1
  /\ is_pred \in [Slots -> BOOLEAN]
  /\ owner \in [Slots -> Nat]
  /\ kv \in [Slots -> Nat]
  /\ clock \in Nat

(* Ids tell the age of live slots: the id order eviction sorts by is the   *)
(* order the slots were granted in, though ids are reused after a          *)
(* ClearPred, an eviction or a transient forward and stale ids remain in   *)
(* free slots.                                                             *)
IdsTellAge ==
  \A s, t \in Live : ids[s] < ids[t] <=> owner[s] < owner[t]

(* The slots a step takes from forwards before this one (evicted, not      *)
(* cleared as provisional or reset).                                       *)
Lost == {s \in Slots : mask[s] /\ (~mask'[s] \/ owner'[s] # owner[s])}

(* When a forward makes room, nothing it keeps is older than anything it   *)
(* gives up.                                                               *)
EvictsOldestFirst ==
  [][clock' # clock =>
       \A s \in Lost, t \in Live \ Lost : owner[s] <= owner[t]]_vars

-----------------------------------------------------------------------------
(* The window the mask encodes: live slots by age of their owner.          *)

WindowOf(S) ==
  LET order == ByKey(S, owner)
  IN [i \in DOMAIN order |-> [stamp |-> owner[order[i]], pred |-> is_pred[order[i]]]]

(* The stamps attention last read, oldest first. *)
StampsRead ==
  LET stamps == [i \in DOMAIN seen |-> seen[i][2]]
      order == ByKey(DOMAIN seen, stamps)
  IN [j \in DOMAIN order |-> stamps[order[j]]]

Window == INSTANCE KVWindow WITH window <- WindowOf(Live), read <- StampsRead

(* The mask allocator is a window over the newest tokens. *)
ImplementsWindow == Window!Spec
=============================================================================
