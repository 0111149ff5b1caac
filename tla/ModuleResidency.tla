------------------------------ MODULE ModuleResidency ------------------------------
(***************************************************************************)
(* Blocks of a network kept in host memory and copied to the device for    *)
(* the time of one forward (runtime/module_residency.py).  The first       *)
(* blocks stay on the device as long as the budget has room for them and   *)
(* for one streamed block; a pre-forward hook copies a streamed block in,  *)
(* a forward hook that runs even when the forward raises puts the masters  *)
(* back.  One thread runs forwards, which may call blocks in turn.         *)
(***************************************************************************)
EXTENDS Naturals, SequencesExt

CONSTANTS
  BlockCount,
  Weights,      (* the registered tensors of a block                       *)
  WeightBytes,  (* sizes a block's tensors may have                        *)
  Budgets,      (* budget_bytes, beside the base tensors                   *)
  NoBlock,      (* active is None                                          *)
  MaxDepth,     (* bound on the forwards one inside the other              *)
  MaxSwaps      (* bound on the weights replaced after installation        *)

ASSUME ResidencyAssumption ==
  /\ BlockCount \in Nat \ {0} /\ NoBlock \notin 1 .. BlockCount
  /\ WeightBytes \subseteq Nat /\ Budgets \subseteq Nat
  /\ IsFiniteSet(Weights)
  /\ MaxDepth \in Nat /\ MaxSwaps \in Nat

Blocks == 1 .. BlockCount

VARIABLES
  weight,       (* block -> bytes of each of its tensors                   *)
  budget,
  resident,     (* how many blocks stay on the device                      *)
  entered,
  copies,       (* the tensors active_copies has a copy of                 *)
  touched,      (* the copies the forward changed or replaced              *)
  place,        (* block -> tensor -> what its dictionary entry is         *)
  frames,       (* the forwards under way, outermost first                 *)
  shut,
  swapped,      (* the tensors somebody replaced since the installation    *)
  done          (* the last forward that returned normally                 *)

residencyVars == <<weight, budget, resident, entered, copies, touched, place,
                   frames, shut, swapped, done>>

sizesAndPlan == <<weight, budget, resident>>

-----------------------------------------------------------------------------
BlockBytes(size, b) == Cardinality(Weights) * size[b]

Resident(size, n) == SumFunctionOnSet([b \in Blocks |-> BlockBytes(size, b)], 1 .. n)

InTransit(size, n) == Max({0} \cup {BlockBytes(size, b) : b \in n + 1 .. BlockCount})

(* A slip: no room is kept for a block in transit. *)
PlanFitsAtRest(size, n, bytes) == Resident(size, n) <= bytes

(* resident_prefix: the resident blocks fit, and the largest streamed one. *)
PlanFits(size, n, bytes) == Resident(size, n) + InTransit(size, n) <= bytes

ResidencyInit ==
  /\ weight \in [Blocks -> WeightBytes]
  /\ budget \in Budgets
  /\ \E n \in 0 .. BlockCount :
       /\ PlanFits(weight, n, budget) /\ \A m \in n + 1 .. BlockCount : ~PlanFits(weight, m, budget)
       /\ resident = n
  /\ entered = NoBlock
  /\ copies = {} /\ touched = {}
  /\ place = [b \in Blocks |-> [w \in Weights |-> "master"]]
  /\ frames = <<>>
  /\ shut = FALSE
  /\ swapped = {}
  /\ done = [block |-> NoBlock, read |-> {}, reentered |-> FALSE]

Streamed == Blocks \ 1 .. resident

-----------------------------------------------------------------------------
Frame(b) == [block |-> b, read |-> {}, reentered |-> FALSE]

Top == frames[Len(frames)]

(* leave: whatever the entries hold, the masters return. *)
Restored(b) == [place EXCEPT ![b] = [w \in Weights |-> "master"]]

Leave(b) ==
  /\ place' = IF entered = b THEN Restored(b) ELSE place
  /\ entered' = IF entered = b THEN NoBlock ELSE entered
  /\ copies' = IF entered = b THEN {} ELSE copies
  /\ touched' = IF entered = b THEN {} ELSE touched

(* A block is called, by the application or by the block now running.      *)
Called(b) == ~shut /\ b \in Streamed /\ Len(frames) < MaxDepth

Enter(b) ==
  /\ Called(b) /\ entered = NoBlock
  /\ \A w \in Weights : place[b][w] = "master"
  /\ entered' = b
  /\ copies' = Weights
  /\ place' = [place EXCEPT ![b] = [w \in Weights |-> "copy"]]
  /\ frames' = Append(frames, Frame(b))
  /\ UNCHANGED <<sizesAndPlan, touched, shut, swapped, done>>

(* A tensor is found replaced, or a transfer fails, after some copies were *)
(* made: the masters are put back, in the place of a replaced tensor too.  *)
EnterStops(b) ==
  /\ Called(b) /\ entered = NoBlock
  /\ place' = Restored(b)
  /\ UNCHANGED <<sizesAndPlan, entered, copies, touched, frames, shut, swapped, done>>

(* The call of a block while one is active is refused, but the hook after  *)
(* the forward runs all the same: the masters of the block that called     *)
(* itself return under its running forward.                                *)
Refuse(b) ==
  /\ Called(b) /\ entered # NoBlock
  /\ Leave(b)
  /\ frames' = [i \in DOMAIN frames |->
                 [frames[i] EXCEPT !.reentered = @ \/ frames[i].block = b]]
  /\ UNCHANGED <<sizesAndPlan, shut, swapped, done>>

-----------------------------------------------------------------------------
(* The forward of the innermost block under way. *)
Compute(w) ==
  /\ frames # <<>>
  /\ frames' = [frames EXCEPT ![Len(frames)].read =
                 @ \cup {IF w \in touched THEN "changed" ELSE place[Top.block][w]}]
  /\ UNCHANGED <<sizesAndPlan, entered, copies, touched, place, shut, swapped, done>>

(* It updates a registered tensor in place, or replaces it.                *)
Touch(w) ==
  /\ frames # <<>> /\ place[Top.block][w] = "copy"
  /\ touched' = touched \cup {w}
  /\ UNCHANGED <<sizesAndPlan, entered, copies, place, frames, shut, swapped, done>>

(* A slip: updates are lost in silence. *)
ReturnAnyway ==
  /\ frames # <<>>
  /\ Leave(Top.block)
  /\ done' = Top
  /\ frames' = Front(frames)
  /\ UNCHANGED <<sizesAndPlan, shut, swapped>>

(* It returns; a block whose copies were touched does not return normally. *)
Return ==
  /\ frames # <<>>
  /\ entered = Top.block => touched = {}
  /\ Leave(Top.block)
  /\ done' = Top
  /\ frames' = Front(frames)
  /\ UNCHANGED <<sizesAndPlan, shut, swapped>>

(* It raises, or its copies were touched, or a stream cannot be recorded.  *)
Raise ==
  /\ frames # <<>>
  /\ Leave(Top.block)
  /\ frames' = Front(frames)
  /\ UNCHANGED <<sizesAndPlan, shut, swapped, done>>

(* Somebody loads other weights between forwards. *)
Swap(b, w) ==
  /\ frames = <<>> /\ b \in Streamed
  /\ Cardinality(swapped) < MaxSwaps
  /\ swapped' = swapped \cup {<<b, w>>}
  /\ place' = [place EXCEPT ![b][w] = "swapped"]
  /\ UNCHANGED <<sizesAndPlan, entered, copies, touched, frames, shut, done>>

(* close() is refused while a block is active. *)
CloseResidency ==
  /\ entered = NoBlock
  /\ shut' = TRUE
  /\ UNCHANGED <<sizesAndPlan, entered, copies, touched, place, frames, swapped, done>>

ResidencyNext ==
  \/ \E b \in Blocks : Enter(b) \/ EnterStops(b) \/ Refuse(b) \/ \E w \in Weights : Swap(b, w)
  \/ \E w \in Weights : Compute(w) \/ Touch(w)
  \/ Return \/ Raise \/ CloseResidency

ResidencySpec == ResidencyInit /\ [][ResidencyNext]_residencyVars

-----------------------------------------------------------------------------
(* Only the active block has copies, whatever failed on the way in or out, *)
(* and so nothing is left on the device that no forward will take away.    *)
MastersReturn ==
  /\ entered = NoBlock => copies = {} /\ touched = {}
  /\ \A b \in Blocks \ {entered} : \A w \in Weights : place[b][w] # "copy"

(* Bytes of the copies each block has on the device.                       *)
CopyBytes == [b \in Blocks |-> weight[b] * Cardinality({w \in Weights : place[b][w] = "copy"})]

(* The resident blocks and the copies in use fit the budget.               *)
PeakWithinBudget ==
  Resident(weight, resident) + SumFunctionOnSet(CopyBytes, Streamed) <= budget

(* A forward that returned normally computed on copies of its masters and  *)
(* on nothing else, unless its block was called again while it ran.        *)
ForwardsAreExact == done.reentered \/ done.read \subseteq {"copy"}

(* "Module streamed weights changed after residency installation": a block *)
(* whose weights somebody replaced runs no forward.                        *)
ReplacedWeightsAreRefused ==
  \A i \in DOMAIN frames : \A w \in Weights : <<frames[i].block, w>> \notin swapped
=============================================================================
