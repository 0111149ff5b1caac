------------------------------ MODULE RingServer ------------------------------
(***************************************************************************)
(* One wan_va server whose pool is addressed by the ring: the control      *)
(* cycle of ControlCycle driving the pool of RingKV.                       *)
(***************************************************************************)
EXTENDS ControlCycle, RingKV, TLC, Ranking

CONSTANT Periods  (* commits of one cycle the pool can hold               *)

(* VALIDITY CONDITION of ring_kv.py: the tokens of one cycle divide the    *)
(* capacity of the pool.                                                   *)
ASSUME PeriodAssumption ==
  /\ Periods \in Nat \ {0}
  /\ Total = Periods * (VideoTokens + ActionTokens)
  /\ KeySizes = {VideoTokens, ActionTokens}

serverVars == <<cycleVars, ringVars>>

ServerInit == Init /\ RingInit

ServerNext ==
  \/ \E n \in KeySizes, uc \in 0 .. 2 : Issue(n, uc) /\ Forward(n, uc, clock + 1)
  \/ Return /\ UNCHANGED ringVars
  \/ IssueClearPred /\ ClearPred
  \/ IssueReset /\ InitCache
  \/ Abort /\ UNCHANGED ringVars

ServerSpec == ServerInit /\ [][ServerNext]_serverVars

-----------------------------------------------------------------------------
(* The ring dict, the per-slot bookkeeping and the plan buffers keep their *)
(* types; in an episode no call raised in, the interval fits the pool and  *)
(* the provisional slots fit the interval.                                 *)
TypeOK ==
  /\ TypeOKCycle
  /\ start \in Slots
  /\ count \in Int
  /\ pred \in Nat
  /\ clean => count \in 0 .. Total /\ pred \in 0 .. count
  /\ next_id \in Nat
  /\ mask \in [Slots -> BOOLEAN]
  /\ id \in [Slots -> Int]
  /\ is_pred \in [Slots -> BOOLEAN]
  /\ owner \in [Slots -> Nat]
  /\ kv \in [Slots -> Nat]
  /\ plan \in [KeySizes -> Slots \cup {Unset}]

(* The assertion of the forward, "allocation wrapped; ring model violated",*)
(* never fires: whatever forward the cycle issues next, its block ends     *)
(* before the pool does.                                                   *)
AllocationFits == \A n \in NextTokens : Fits(n)

(* It never fires in an episode in which no call raised.                   *)
NeverWraps == clean => AllocationFits

Live == {s \in Slots : mask[s]}

(* Once the ring is saturated, every plan buffer a forward may write       *)
(* through points at the head, in an episode in which no call raised.      *)
PlanIsCurrent ==
  clean /\ Saturated => \A n \in NextTokens : plan[n] \in {Unset, WriteHead}

(* The window the ring encodes: live slots by age of their owner. *)
WindowOf(S) ==
  LET order == ByKey(S, owner)
  IN [i \in DOMAIN order |-> [stamp |-> owner[order[i]], pred |-> is_pred[order[i]]]]

(* The stamps attention last read, oldest first. *)
StampsRead ==
  LET stamps == [i \in DOMAIN seen |-> seen[i][2]]
      order == ByKey(DOMAIN seen, stamps)
  IN [j \in DOMAIN order |-> stamps[order[j]]]

Window ==
  INSTANCE KVWindow WITH
    Size <- Total,
    TokenCounts <- KeySizes,
    window <- WindowOf(Live),
    read <- StampsRead

(* The ring is a window over the newest tokens: what attention reads, in   *)
(* every forward of an episode no call raised in, is exactly the newest    *)
(* tokens the mask allocator would have kept, and the reset that ends an   *)
(* episode, however it went, empties the window.  After a call that raised *)
(* the counts of the ring may run away from its slots.                     *)
ImplementsWindow ==
  Window!Init /\ [][clean \/ clean' => [Window!Next]_(Window!windowVars)]_serverVars
=============================================================================
