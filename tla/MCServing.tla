-------------------------------- MODULE MCServing --------------------------------
(***************************************************************************)
(* What stands between a caller and a model that serves: the load path,    *)
(* the cycles of in-process runtimes, workers in processes of their own,   *)
(* and the tuning of a fused operation.  They share no state, so each      *)
(* behaviour runs one of them while the others rest.                       *)
(***************************************************************************)
EXTENDS WorkerBackend, LoadPath, HostedEpisodes, Autotune, TLC

Tiers == "base" :> 0 @@ "wrong" :> 0 @@ "fast" :> 1

VARIABLE part

MCInit ==
  /\ Init /\ LoadInit /\ EpisodesInit /\ TuneInit
  /\ \/ part = "workers"
     \/ part \in {"load", "cycles", "tuning"} /\ \A b \in Backends : port[b] = CHOOSE p \in Ports : TRUE

MCNext ==
  /\ \/ part = "workers" /\ Next /\ UNCHANGED <<loadVars, episodeVars, tuneVars>>
     \/ part = "load" /\ LoadNext /\ UNCHANGED <<vars, episodeVars, tuneVars>>
     \/ part = "cycles" /\ EpisodesNext /\ UNCHANGED <<vars, loadVars, tuneVars>>
     \/ part = "tuning" /\ TuneNext /\ UNCHANGED <<vars, loadVars, episodeVars>>
  /\ UNCHANGED part

MCSpec ==
  /\ MCInit /\ [][MCNext]_<<vars, loadVars, episodeVars, tuneVars, part>>
  /\ \A b \in Backends : WF_vars(TimedStep(b))
=============================================================================
