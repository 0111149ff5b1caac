------------------------------ MODULE HostedEpisodes ------------------------------
(***************************************************************************)
(* Runtimes that host their models in the caller's process                 *)
(* (runtime/facade.py Runtime, runtime/execution.py InProcessBackend): the *)
(* model is built by the first call that needs it, an episode begins with  *)
(* reset(), every predict() that the model accepts advances its history    *)
(* and commit() completes the cycle.  All of a process's runtimes draw     *)
(* their noise from the generators of the process, which reset() seeds.    *)
(* The runtimes are called one at a time, in any order.                    *)
(***************************************************************************)
EXTENDS Integers

CONSTANTS
  Runtimes,
  MaxCycles     (* bound on the cycles of an episode                       *)

ASSUME EpisodeAssumption == MaxCycles \in Nat

VARIABLES
  impl,         (* runtime -> its model is built                           *)
  drawn,        (* draws since the generators were seeded, -1 if never     *)
  predicted,    (* runtime -> predictions that moved its model             *)
  committed,    (* runtime -> cycles its model completed                   *)
  returned,     (* runtime -> predictions its caller got                   *)
  stray,        (* runtime -> calls that raised after the model had moved  *)
  astray,       (* runtimes whose episode drew other noise than its own    *)
  mingled       (* runtimes whose episode shared the generators            *)

episodeVars == <<impl, drawn, predicted, committed, returned, stray, astray, mingled>>

EpisodesInit ==
  /\ impl = [r \in Runtimes |-> FALSE]
  /\ drawn = -1
  /\ predicted = [r \in Runtimes |-> 0] /\ committed = [r \in Runtimes |-> 0]
  /\ returned = [r \in Runtimes |-> 0] /\ stray = [r \in Runtimes |-> 0]
  /\ astray = {} /\ mingled = Runtimes

Others(r) == Runtimes \ {r}

Begins(r) ==
  /\ predicted' = [predicted EXCEPT ![r] = 0] /\ committed' = [committed EXCEPT ![r] = 0]
  /\ returned' = [returned EXCEPT ![r] = 0] /\ stray' = [stray EXCEPT ![r] = 0]

-----------------------------------------------------------------------------
(* A slip: the generators are seeded when the model is built. *)
ResetSeedingOnce(r) ==
  /\ impl' = [impl EXCEPT ![r] = TRUE]
  /\ drawn' = IF impl[r] THEN drawn ELSE 0
  /\ mingled' = (mingled \ {r}) \cup Others(r)
  /\ astray' = astray \ {r}
  /\ Begins(r)

(* reset(): builds the model if need be, seeds, then resets the model.     *)
Reset(r) ==
  /\ impl' = [impl EXCEPT ![r] = TRUE]
  /\ drawn' = 0
  /\ mingled' = (mingled \ {r}) \cup Others(r)
  /\ astray' = astray \ {r}
  /\ Begins(r)

(* The model does not build, or refuses its reset: the generators moved.   *)
ResetRaises(r) ==
  /\ \E built \in BOOLEAN : impl' = [impl EXCEPT ![r] = @ \/ built]
  /\ drawn' = 0
  /\ mingled' = Runtimes
  /\ UNCHANGED <<predicted, committed, returned, stray, astray>>

Draws(r) ==
  /\ drawn' = IF drawn < 0 THEN drawn ELSE drawn + 1
  /\ astray' = IF drawn = predicted[r] THEN astray ELSE astray \cup {r}
  /\ mingled' = mingled \cup Others(r)
  /\ predicted' = [predicted EXCEPT ![r] = @ + 1]

(* A call that finds no model builds one, which draws noise of its own.    *)
Ready(r) == impl[r] /\ predicted[r] < MaxCycles /\ drawn < MaxCycles * 2

BuildFirst(r) ==
  /\ ~impl[r]
  /\ impl' = [impl EXCEPT ![r] = TRUE]
  /\ drawn' = -1
  /\ mingled' = Runtimes
  /\ Begins(r)
  /\ UNCHANGED astray

Predict(r) ==
  /\ Ready(r)
  /\ Draws(r)
  /\ committed' = [committed EXCEPT ![r] = @ + 1]
  /\ returned' = [returned EXCEPT ![r] = @ + 1]
  /\ UNCHANGED <<impl, stray>>

(* The model raises while it predicts, or while it commits. *)
PredictRaises(r) ==
  /\ Ready(r)
  /\ Draws(r)
  /\ stray' = [stray EXCEPT ![r] = @ + 1]
  /\ UNCHANGED <<impl, committed, returned>>

(* A slip: feedback is checked when it is committed. *)
RefuseFeedbackLate(r) == Ready(r) /\ Draws(r) /\ UNCHANGED <<impl, committed, returned, stray>>

(* Feedback the model cannot take is refused before it predicts. *)
RefuseFeedback(r) == Ready(r) /\ UNCHANGED episodeVars

(* close(); a model that refuses to close is kept. *)
CloseHosted(r) ==
  /\ impl' = [impl EXCEPT ![r] = FALSE]
  /\ UNCHANGED <<drawn, predicted, committed, returned, stray, astray, mingled>>

EpisodesNext ==
  \E r \in Runtimes :
    \/ Reset(r) \/ ResetRaises(r) \/ BuildFirst(r)
    \/ Predict(r) \/ PredictRaises(r) \/ RefuseFeedback(r) \/ CloseHosted(r)

EpisodesSpec == EpisodesInit /\ [][EpisodesNext]_episodeVars

-----------------------------------------------------------------------------
(* The model's history holds the cycles the caller was answered, each      *)
(* committed, and those of calls that raised half way: never a cycle of a  *)
(* call that was refused.                                                  *)
HistoryIsAnswered ==
  \A r \in Runtimes :
    predicted[r] = returned[r] + stray[r] /\ committed[r] = returned[r]

(* Each cycle of a seeded episode draws the noise of its place in the      *)
(* episode, whatever came before, as long as no other runtime of the       *)
(* process was called and the model was not built again.                   *)
SeededEpisodesRepeat == astray \subseteq mingled
=============================================================================
