----------------------------- MODULE ActionElision -----------------------------
(***************************************************************************)
(* Eliding the action pred-commit forward                                  *)
(* (passes/lingbot/action_terminal_elision.py).  The controller stashes    *)
(* that forward; when clear_pred_cache comes next it replays only the      *)
(* forward's bookkeeping, and when another forward comes first it runs the *)
(* stashed one for real and never elides again.                            *)
(*                                                                         *)
(* Three pools see the same calls: the reference, where every forward      *)
(* runs, and an elided pool per allocator variant (stock mask, ring).      *)
(***************************************************************************)
EXTENDS ControlCycle, Sequences

CONSTANTS
  Total, UsePlanBuffer, Unset,
  Nothing,             (* no forward is stashed                            *)
  VideoExecStepTraced  (* the config the elision was traced at is served   *)

VARIABLES
  pending,             (* the stashed forward, or Nothing                  *)
  owed,                (* the call that found a forward stashed and, once  *)
                       (* that is settled, goes on in the same call        *)
  disabled,            (* disabled_reason is set: never elide again        *)
  refMask, refIds, refPred, refOwner, refKv, refSeen,
  maskMask, maskIds, maskPred, maskOwner, maskKv, maskSeen,
  start, count, pred, next_id, ringMask, ringId, ringPred, plan,
  ringOwner, ringKv, ringSeen

refVars == <<refMask, refIds, refPred, refOwner, refKv, refSeen>>
maskVars == <<maskMask, maskIds, maskPred, maskOwner, maskKv, maskSeen>>
ringVars == <<start, count, pred, next_id, ringMask, ringId, ringPred, plan,
              ringOwner, ringKv, ringSeen>>
elidedVars == <<maskVars, ringVars>>
vars == <<cycleVars, pending, owed, disabled, refVars, elidedVars>>

KeySizes == {VideoTokens, ActionTokens}

ASSUME PoolAssumption ==
  /\ Total \in Nat \ {0}
  /\ UsePlanBuffer \in BOOLEAN
  /\ Unset \notin Nat

ASSUME NothingAssumption == Nothing \notin [n : KeySizes, uc : 0 .. 2, stamp : Nat]

(* VALIDITY CONDITION of ring_kv.py, for the ring.                         *)
ASSUME CycleAssumption ==
  \E periods \in 1 .. Total : Total = periods * (VideoTokens + ActionTokens)

Ref ==
  INSTANCE SlotPool WITH
    Size <- Total, TokenCounts <- KeySizes,
    mask <- refMask, ids <- refIds, is_pred <- refPred,
    owner <- refOwner, kv <- refKv, seen <- refSeen

Mask ==
  INSTANCE SlotPool WITH
    Size <- Total, TokenCounts <- KeySizes,
    mask <- maskMask, ids <- maskIds, is_pred <- maskPred,
    owner <- maskOwner, kv <- maskKv, seen <- maskSeen

Ring ==
  INSTANCE RingKV WITH
    mask <- ringMask, id <- ringId, is_pred <- ringPred,
    owner <- ringOwner, kv <- ringKv, seen <- ringSeen

ElisionInit ==
  /\ Init
  /\ pending = Nothing
  /\ owed = "none"
  /\ disabled = FALSE
  /\ Ref!Init /\ Mask!Init /\ Ring!RingInit

-----------------------------------------------------------------------------
(* A forward of the elided pools, issued with the given stamp. *)
Run(n, uc, stamp) ==
  /\ Mask!Allocate(n, uc, stamp)
  /\ Mask!WriteAndAttend(n, stamp)
  /\ Ring!Forward(n, uc, stamp)

(* armed: _infer is running its denoise loops. *)
Armed == phase \in {"video", "action"}

(* _infer sets the sticky reason before it runs anything. *)
Declines == disabled \/ ~VideoExecStepTraced

Elides(uc) == Armed /\ ~Declines /\ uc = 1 /\ phase = "action"

(* A slip: the stashed forward runs as a transient one. *)
MaterializeTransient ==
  /\ pending # Nothing
  /\ phase = "video"
  /\ clock < MaxForwards
  /\ Run(pending.n, 0, pending.stamp)
  /\ pending' = Nothing
  /\ owed' = "forward"
  /\ disabled' = TRUE
  /\ UNCHANGED <<cycleVars, refVars>>

(* A forward arrived while one was stashed: the stashed forward runs       *)
(* first, on the pool state it would have seen, and eliding ends.          *)
Materialize ==
  /\ pending # Nothing
  /\ phase = "video"
  /\ clock < MaxForwards  \* the forward that arrived is within the bound
  /\ Run(pending.n, pending.uc, pending.stamp)
  /\ pending' = Nothing
  /\ owed' = "forward"
  /\ disabled' = TRUE
  /\ UNCHANGED <<cycleVars, refVars>>

(* A forward arrives with nothing stashed. *)
OnForward(n, uc) ==
  /\ pending = Nothing
  /\ owed \in {"none", "forward"}
  /\ owed' = "none"
  /\ Issue(n, uc)
  /\ Ref!Forward(n, uc)
  /\ disabled' = (IF Armed THEN Declines ELSE disabled)
  /\ IF Elides(uc)
       THEN /\ pending' = [n |-> n, uc |-> uc, stamp |-> clock + 1]
            /\ UNCHANGED elidedVars
       ELSE /\ Run(n, uc, clock + 1)
            /\ UNCHANGED pending

(* clear_pred_cache once nothing is stashed.                               *)
ClearPred ==
  /\ pending = Nothing
  /\ owed' = "none"
  /\ IssueClearPred
  /\ Ref!ClearPred /\ Mask!ClearPred /\ Ring!ClearPred
  /\ UNCHANGED <<pending, disabled>>

(* A slip: the stashed forward is dropped, bookkeeping and all. *)
ReserveNothing ==
  /\ pending # Nothing
  /\ phase = "ready"
  /\ pending' = Nothing
  /\ owed' = "clear_pred"
  /\ UNCHANGED <<cycleVars, disabled, refVars, elidedVars>>

(* clear_pred_cache first reserves the slots of the stashed forward:       *)
(* mask / id / is_pred and the eviction, without K/V.                      *)
Reserve ==
  /\ pending # Nothing
  /\ phase = "ready"
  /\ Mask!Allocate(pending.n, pending.uc, pending.stamp)
  /\ Ring!Reserve(pending.n, pending.uc, pending.stamp)
  /\ pending' = Nothing
  /\ owed' = "clear_pred"
  /\ UNCHANGED <<cycleVars, disabled, refVars, maskKv, maskSeen>>

(* clear_cache and create_empty_cache drop the stash. *)
OnCacheDropped ==
  /\ owed = "none"
  /\ IssueReset
  /\ Ref!Reset /\ Mask!Reset /\ Ring!InitCache
  /\ pending' = Nothing
  /\ UNCHANGED <<owed, disabled>>

Settle == Materialize \/ Reserve

ReturnCall == Return /\ UNCHANGED <<pending, owed, disabled, refVars, elidedVars>>

AbortCall ==
  /\ Abort
  /\ owed' = "none"
  /\ UNCHANGED <<pending, disabled, refVars, elidedVars>>

ElisionNext ==
  \/ Settle
  \/ \E n \in KeySizes, uc \in 0 .. 2 : OnForward(n, uc)
  \/ ReturnCall
  \/ ClearPred
  \/ OnCacheDropped
  \/ AbortCall

ElisionSpec == ElisionInit /\ [][ElisionNext]_vars

-----------------------------------------------------------------------------
(* Every forward of the mask allocator that is not elided reads what the   *)
(* reference reads: the same slots, in the same order, with the same K/V,  *)
(* through every wrap of the pool and across calls that raise between      *)
(* forwards; and so does every forward of the ring, in an episode in which *)
(* no call raised.                                                         *)
ElisionIsExact ==
  /\ [][maskSeen' # maskSeen /\ clock' # clock => maskSeen' = refSeen']_vars
  /\ [][clean /\ ringSeen' # ringSeen /\ clock' # clock => ringSeen' = refSeen']_vars

(* A stashed forward that is settled leaves the pool as it would have left *)
(* it in its place, however it is settled: computed, where it also reads   *)
(* "the exact pool state it would have seen", or reserved, in the ring too *)
(* when no call of the episode raised.  Calls raise between forwards; the  *)
(* last forward of the reference was this one.                             *)
SettledInPlace ==
  /\ [][Materialize => maskSeen' = refSeen]_vars
  /\ [][Settle => maskMask' = refMask /\ maskIds' = refIds /\ maskPred' = refPred]_vars
  /\ [][clean /\ Reserve => ringMask' = refMask]_vars
=============================================================================
