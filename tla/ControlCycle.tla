----------------------------- MODULE ControlCycle -----------------------------
(***************************************************************************)
(* The order in which one wan_va server calls its transformer: the control *)
(* loop of adapters/lingbot_va.py (_ControlLoop) over the phases that file *)
(* declares (kv_refresh, video, action).                                   *)
(*                                                                         *)
(*   "video"          next is a forward of the video denoise loop          *)
(*   "action"         next is a forward of the action denoise loop         *)
(*   "returning"      the forwards are done, the server call is not        *)
(*   "ready"          a prediction was returned, its action is pending     *)
(*   "commit_video"   clear_pred_cache done, next is the video commit      *)
(*   "commit_action"  next is the action commit                            *)
(*   "committed"      both commits are done, their server call is not      *)
(*                                                                         *)
(* A denoise loop runs any number of transient forwards, up to a bound,    *)
(* and ends with one provisional forward.  A call that raises drops back   *)
(* to the state the control loop keeps: the pending action until the call  *)
(* that commits it has returned, none while a prediction is being made.    *)
(* The pool stays as the exception left it, until a reset.  Calls raise    *)
(* before, between and after their forwards; a forward itself completes.   *)
(***************************************************************************)
EXTENDS Integers

CONSTANTS
  VideoTokens,    (* tokens of a video forward                             *)
  ActionTokens,   (* tokens of an action forward                           *)
  MaxTransients,  (* bound on the transient forwards of one denoise loop   *)
  MaxForwards,    (* bound on the forwards of a behaviour                  *)
  MaxAborts       (* bound on the calls that raise                         *)

ASSUME TokensAssumption ==
  /\ VideoTokens \in Nat \ {0}
  /\ ActionTokens \in Nat \ {0}

ASSUME BoundsAssumption ==
  MaxTransients \in Nat /\ MaxForwards \in Nat /\ MaxAborts \in Nat

VARIABLES
  phase,          (* see above                                             *)
  transients,     (* transient forwards run in the current denoise loop    *)
  aborts,         (* calls that raised                                     *)
  clean,          (* none of them in this episode                          *)
  clock           (* forwards so far                                       *)

cycleVars == <<phase, transients, aborts, clean, clock>>

Phases == {"video", "action", "returning", "ready", "commit_video", "commit_action",
           "committed"}

Init ==
  /\ phase = "video"
  /\ transients = 0
  /\ aborts = 0
  /\ clean = TRUE
  /\ clock = 0

MoveTo(p) ==
  /\ phase' = p
  /\ transients' = 0
  /\ UNCHANGED <<aborts, clean>>

(* The forward a phase runs last, with its token count, its update_cache   *)
(* and the phase that follows.                                             *)
Closing(p, n, uc, next) ==
  \/ p = "video" /\ n = VideoTokens /\ uc = 1 /\ next = "action"
  \/ p = "action" /\ n = ActionTokens /\ uc = 1 /\ next = "returning"
  \/ p = "commit_video" /\ n = VideoTokens /\ uc = 2 /\ next = "commit_action"
  \/ p = "commit_action" /\ n = ActionTokens /\ uc = 2 /\ next = "committed"

Transient(n, uc) ==
  /\ \/ phase = "video" /\ n = VideoTokens
     \/ phase = "action" /\ n = ActionTokens
  /\ uc = 0

(* A forward of n tokens with this update_cache is issued. *)
Issue(n, uc) ==
  /\ clock < MaxForwards
  /\ clock' = clock + 1
  /\ \/ /\ Transient(n, uc)
        /\ transients < MaxTransients
        /\ transients' = transients + 1
        /\ UNCHANGED <<phase, aborts, clean>>
     \/ \E next \in Phases : Closing(phase, n, uc, next) /\ MoveTo(next)

(* A server call returns: the prediction's, and commit() records the       *)
(* executed action; or the one that advanced the ring, and predict() lets  *)
(* go of the action and begins the prediction.                             *)
Return ==
  /\ \/ phase = "returning" /\ MoveTo("ready")
     \/ phase = "committed" /\ MoveTo("video")
  /\ UNCHANGED clock

(* The next prediction starts by folding in the pending action. *)
IssueClearPred ==
  /\ phase = "ready"
  /\ MoveTo("commit_video")
  /\ UNCHANGED clock

(* A new episode: a reset may follow a returned call or one that raised.   *)
IssueReset ==
  /\ phase' = "video" /\ transients' = 0
  /\ clean' = TRUE
  /\ UNCHANGED <<aborts, clock>>

(* The server call in progress raises. *)
Abort ==
  /\ aborts < MaxAborts
  /\ aborts' = aborts + 1
  /\ clean' = FALSE
  /\ transients' = 0
  /\ \/ phase \in {"video", "action", "returning"} /\ phase' = "video"
     \/ phase \in {"commit_video", "commit_action", "committed"} /\ phase' = "ready"
  /\ UNCHANGED clock

(* The token counts the current phase may issue. *)
NextTokens ==
  {n \in {VideoTokens, ActionTokens} :
     Transient(n, 0) \/ \E uc \in {1, 2}, p \in Phases : Closing(phase, n, uc, p)}

TypeOKCycle ==
  /\ phase \in Phases
  /\ transients \in 0 .. MaxTransients
  /\ aborts \in Nat
  /\ clean \in BOOLEAN
  /\ clock \in Nat
=============================================================================
