------------------------------ MODULE EnginePool ------------------------------
(***************************************************************************)
(* The GI VA engine (engines/wan_va/engine.py, GiWanTransformer) under the *)
(* control cycle: the mask allocator of SlotPool, except that the trailing *)
(* forward of the action loop is never computed.  It only takes its slots, *)
(* because the eviction that comes with them must happen.  It sees the     *)
(* calls the elided pools of ActionElision and their reference see.        *)
(***************************************************************************)
EXTENDS ActionElision

VARIABLES mask, ids, is_pred, owner, kv, seen  \* the engine's pool

poolVars == <<mask, ids, is_pred, owner, kv, seen>>
engineVars == <<vars, poolVars>>

Pool == INSTANCE SlotPool WITH Size <- Total, TokenCounts <- KeySizes

EngineInit == ElisionInit /\ Pool!Init

(* A slip: the action commit is skipped as well. *)
SkippedCommit(uc) == phase \in {"action", "commit_action"} /\ uc # 0

(* skip = action_mode and update_cache == 1 *)
Skipped(uc) == phase = "action" /\ uc = 1

(* A slip: a skipped forward takes no slots. *)
EngineForwardWithoutSlots(n, uc) ==
  /\ OnForward(n, uc)
  /\ IF Skipped(uc) THEN UNCHANGED poolVars ELSE Pool!Forward(n, uc)

EngineForward(n, uc) ==
  /\ OnForward(n, uc)
  /\ IF Skipped(uc) THEN Pool!SkippedForward(n, uc) ELSE Pool!Forward(n, uc)

(* Stashing and settling are the controller's, not the engine's. *)
EngineNext ==
  \/ Settle /\ UNCHANGED poolVars
  \/ \E n \in KeySizes, uc \in 0 .. 2 : EngineForward(n, uc)
  \/ ReturnCall /\ UNCHANGED poolVars
  \/ ClearPred /\ Pool!ClearPred
  \/ OnCacheDropped /\ Pool!Reset
  \/ AbortCall /\ UNCHANGED poolVars

EngineSpec == EngineInit /\ [][EngineNext]_engineVars

-----------------------------------------------------------------------------
(* A prediction that raised after its trailing forward and is retried does *)
(* read the slots of the skipped forward.  No commit ever does: what the   *)
(* episode keeps is computed from computed K/V only, when calls raise      *)
(* before, between or after their forwards and not inside one.             *)
CommitReadsComputed ==
  [][seen' # seen /\ phase \in {"commit_video", "commit_action"} =>
       \A i \in DOMAIN seen' : seen'[i][2] = owner'[seen'[i][1]]]_engineVars

(* In an episode in which no call raised, skipping the compute changes     *)
(* nothing a computed forward reads, through every wrap of the pool: same  *)
(* slots, same order, same K/V.                                            *)
SkipIsExact == [][clean /\ seen' # seen => seen' = refSeen']_engineVars
=============================================================================
