-------------------------------- MODULE StepCache --------------------------------
(***************************************************************************)
(* The controller that lets a denoiser reuse a prediction for some slots   *)
(* of its schedule (runtime/step_cache.py, StepCacheController).           *)
(*                                                                         *)
(* A generation has total_steps slots, decided in order.  A slot is        *)
(* computed, and its prediction recorded, or it reuses the latest one.     *)
(* The last two predictions are retained; when they are similar enough the *)
(* next slots are reused, as many as the skip count of the best threshold  *)
(* the similarity exceeds.                                                 *)
(*                                                                         *)
(* Every method holds the controller's lock, so a call is one step.  Calls *)
(* the controller refuses before it changes anything are not steps.        *)
(***************************************************************************)
EXTENDS Integers, Sequences

CONSTANTS
  SkipCounts,     (* config.skip_counts, best threshold first              *)
  MaxBytes,       (* config.max_bytes                                      *)
  Sizes,          (* the sizes a generation's prediction may have          *)
  MaxSteps,       (* bound on total_steps                                  *)
  MaxGenerations  (* bound on the generations of a behaviour               *)

ASSUME ConfigAssumption ==
  /\ SkipCounts \in Seq(Nat \ {0}) /\ SkipCounts # <<>>
  /\ MaxBytes \in Nat \ {0}
  /\ Sizes \subseteq Nat \ {0}
  /\ MaxSteps \in Nat \ {0} /\ MaxGenerations \in Nat

VARIABLES
  closed,
  generation,     (* _generation_id                                        *)
  active,         (* _current is not None                                  *)
  total,          (* total_steps of the current generation                 *)
  next_index,     (* slots decided                                         *)
  countdown,
  pending,        (* the decision to be consumed: "compute", "reuse", none *)
  history,        (* the retained predictions, as <<generation, slot>>     *)
  size,           (* bytes of one prediction (_signature), 0 before one    *)
  bytes,          (* _bytes                                                *)
  trace,          (* per slot: was it computed, and which skip count was   *)
                  (* granted at it (0: none)                               *)
  output,         (* per consumed slot: the prediction the denoiser used   *)
  aggregate       (* generations and steps counted so far                  *)

controllerVars == <<closed, generation, active, total, next_index, countdown, pending,
                    history, size, bytes, trace, output, aggregate>>

Decisions == [compute : BOOLEAN, granted : 0 .. Len(SkipCounts)]

Latest == history[Len(history)]

(* _clear_predictions *)
Cleared ==
  /\ history' = <<>> /\ size' = 0 /\ bytes' = 0
  /\ pending' = "none" /\ next_index' = 0 /\ countdown' = 0

ControllerInit ==
  /\ closed = FALSE /\ generation = 0 /\ active = FALSE /\ total = 0
  /\ next_index = 0 /\ countdown = 0 /\ pending = "none"
  /\ history = <<>> /\ size = 0 /\ bytes = 0
  /\ trace = <<>> /\ output = <<>>
  /\ aggregate = [started |-> 0, completed |-> 0, aborted |-> 0, computed |-> 0, reused |-> 0]

Begin(n) ==
  /\ ~closed /\ ~active /\ generation < MaxGenerations
  /\ Cleared
  /\ generation' = generation + 1
  /\ active' = TRUE
  /\ total' = n
  /\ trace' = <<>> /\ output' = <<>>
  /\ aggregate' = [aggregate EXCEPT !.started = @ + 1]
  /\ UNCHANGED closed

(* What decide() answers for the next slot, given the first threshold the  *)
(* similarity exceeds (0: none).                                           *)
Decision(level) ==
  IF Len(history) < 2 THEN [compute |-> TRUE, granted |-> 0]
  ELSE IF countdown > 0 THEN [compute |-> countdown = 1, granted |-> 0]
  ELSE [compute |-> level = 0, granted |-> level]

(* A slip: the slot that grants the skips is not one of them. *)
CountdownOffByOne(level) ==
  IF Len(history) < 2 THEN countdown
  ELSE IF countdown > 0 THEN countdown - 1
  ELSE IF level = 0 THEN 0 ELSE SkipCounts[level] + 1

Countdown(level) ==
  IF Len(history) < 2 THEN countdown
  ELSE IF countdown > 0 THEN countdown - 1
  ELSE IF level = 0 THEN 0 ELSE SkipCounts[level]

Decide(level) ==
  /\ active /\ pending = "none" /\ next_index < total
  /\ countdown' = Countdown(level)
  /\ pending' = IF Decision(level).compute THEN "compute" ELSE "reuse"
  /\ next_index' = next_index + 1
  /\ trace' = Append(trace, Decision(level))
  /\ UNCHANGED <<closed, generation, active, total, history, size, bytes, output, aggregate>>

(* The oldest prediction goes before the new one is cloned. *)
Retired == IF Len(history) = 2 THEN Tail(history) ELSE history

RetiredBytes == IF Len(history) = 2 THEN bytes - size ELSE bytes

Fits(s) == (IF total < 2 THEN total ELSE 2) * s <= MaxBytes

Acceptable(s) ==
  /\ active /\ pending = "compute"
  /\ size \in {0, s}
  /\ Fits(s)

Record(s) ==
  /\ Acceptable(s)
  /\ history' = Append(Retired, <<generation, next_index>>)
  /\ bytes' = RetiredBytes + s
  /\ size' = s
  /\ output' = Append(output, <<generation, next_index>>)
  /\ pending' = "none"
  /\ aggregate' = [aggregate EXCEPT !.computed = @ + 1]
  /\ UNCHANGED <<closed, generation, active, total, next_index, countdown, trace>>

(* A slip: the retired bytes are settled only with the new ones. *)
RecordRaisesKeepingBytes(s) ==
  /\ Acceptable(s)
  /\ history' = Retired
  /\ UNCHANGED <<closed, generation, active, total, next_index, countdown, pending,
                 size, bytes, trace, output, aggregate>>

(* The clone raises (out of memory): the decision is still to be consumed. *)
RecordRaises(s) ==
  /\ Acceptable(s)
  /\ history' = Retired
  /\ bytes' = RetiredBytes
  /\ UNCHANGED <<closed, generation, active, total, next_index, countdown, pending,
                 size, trace, output, aggregate>>

(* A slip: the copy handed out is of the oldest prediction. *)
ReuseOldest ==
  /\ active /\ pending = "reuse"
  /\ output' = Append(output, Head(history))
  /\ pending' = "none"
  /\ aggregate' = [aggregate EXCEPT !.reused = @ + 1]
  /\ UNCHANGED <<closed, generation, active, total, next_index, countdown,
                 history, size, bytes, trace>>

Reuse ==
  /\ active /\ pending = "reuse"
  /\ output' = Append(output, Latest)
  /\ pending' = "none"
  /\ aggregate' = [aggregate EXCEPT !.reused = @ + 1]
  /\ UNCHANGED <<closed, generation, active, total, next_index, countdown,
                 history, size, bytes, trace>>

(* _finish *)
Finish(status) ==
  /\ active' = FALSE
  /\ Cleared
  /\ aggregate' = [aggregate EXCEPT ![status] = @ + 1]
  /\ UNCHANGED <<generation, total, trace, output>>

End ==
  /\ active /\ pending = "none" /\ next_index = total
  /\ Finish("completed")
  /\ UNCHANGED closed

Abort ==
  /\ active
  /\ Finish("aborted")
  /\ UNCHANGED closed

Close ==
  /\ ~closed
  /\ closed' = TRUE
  /\ \/ active /\ Finish("aborted")
     \/ ~active /\ UNCHANGED <<generation, active, total, next_index, countdown, pending,
                               history, size, bytes, trace, output, aggregate>>

ControllerNext ==
  \/ \E n \in 1 .. MaxSteps : Begin(n)
  \/ \E level \in 0 .. Len(SkipCounts) : Decide(level)
  \/ \E s \in Sizes : Record(s) \/ RecordRaises(s)
  \/ Reuse \/ End \/ Abort \/ Close

ControllerSpec == ControllerInit /\ [][ControllerNext]_controllerVars

-----------------------------------------------------------------------------
ControllerTypeOK ==
  /\ closed \in BOOLEAN /\ active \in BOOLEAN
  /\ total \in 0 .. MaxSteps
  /\ next_index \in 0 .. total
  /\ countdown \in Nat
  /\ pending \in {"none", "compute", "reuse"}
  /\ history \in Seq(Nat \X Nat)
  /\ bytes \in Nat /\ size \in Nat
  /\ trace \in Seq(Decisions)
  /\ output \in Seq(Nat \X Nat)

(* The controller owns at most two predictions, accounts for exactly what  *)
(* it owns, and stays within max_bytes, also when a clone raised half way  *)
(* through a record.                                                       *)
RetainedWithinBudget ==
  /\ Len(history) <= 2
  /\ bytes = Len(history) * size
  /\ bytes <= MaxBytes

(* The slots from i to j are reused and the slot before them is not. *)
ReusedRun(i, j) ==
  /\ i <= j
  /\ \A k \in i .. j : ~trace[k].compute
  /\ i = 1 \/ trace[i - 1].compute

(* Reuses come in runs; a run starts at a slot where the similarity        *)
(* granted a skip count, and it is exactly that long unless the schedule   *)
(* ends first.                                                             *)
ReuseRunsAreGranted ==
  \A i, j \in 1 .. Len(trace) :
    ReusedRun(i, j) =>
      /\ trace[i].granted > 0
      /\ j - i + 1 <= SkipCounts[trace[i].granted]
      /\ (j < Len(trace) /\ trace[j + 1].compute) => j - i + 1 = SkipCounts[trace[i].granted]

(* The prediction used for a slot is the slot's own or the one of the      *)
(* latest computed slot before it, of this generation and no other; the    *)
(* first two slots are computed.                                           *)
OutputsAreLatest ==
  \A k \in 1 .. Len(output) :
    \E d \in 1 .. k :
      /\ output[k] = <<generation, d>>
      /\ trace[d].compute
      /\ \A e \in d + 1 .. k : ~trace[e].compute
      /\ k <= 2 => d = k

(* A generation that ends as completed has consumed every slot once, and   *)
(* the counters of all generations add up.                                 *)
CountersAddUp ==
  /\ [](/\ aggregate.started = generation
        /\ aggregate.started = aggregate.completed + aggregate.aborted + (IF active THEN 1 ELSE 0))
  /\ [][aggregate'.completed > aggregate.completed => Len(output) = total]_controllerVars
=============================================================================
