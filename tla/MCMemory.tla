-------------------------------- MODULE MCMemory --------------------------------
(***************************************************************************)
(* The stores of bounded size: the slots of the mask allocator, the step   *)
(* cache, the cache of frozen results and the streamed blocks.  They share *)
(* no state, so each behaviour runs one of them while the others rest.     *)
(***************************************************************************)
EXTENDS SlotPool, StepCache, TensorCache, ModuleResidency

DefaultSkips == <<4, 2>>

VARIABLE part

MCInit ==
  /\ Init /\ ControllerInit /\ CacheInit /\ ResidencyInit
  /\ \/ part \in {"slots", "steps", "results"} /\ weight = [b \in Blocks |-> 1] /\ budget = Max(Budgets)
     \/ part = "blocks"

MCNext ==
  /\ \/ part = "slots" /\ Next /\ UNCHANGED <<controllerVars, cacheVars, residencyVars>>
     \/ part = "steps" /\ ControllerNext /\ UNCHANGED <<vars, cacheVars, residencyVars>>
     \/ part = "results" /\ CacheNext /\ UNCHANGED <<vars, controllerVars, residencyVars>>
     \/ part = "blocks" /\ ResidencyNext /\ UNCHANGED <<vars, controllerVars, cacheVars>>
  /\ UNCHANGED part

(* What is counted in bytes is counted right and stays within its budget:  *)
(* the entries of the cache of results (runtime/tensor_cache.py), and the  *)
(* resident blocks with the copies in use (runtime/module_residency.py).   *)
WithinBudgets == BytesAreCounted /\ PeakWithinBudget

MCSpec == MCInit /\ [][MCNext]_<<vars, controllerVars, cacheVars, residencyVars, part>>
=============================================================================
