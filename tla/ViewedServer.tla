------------------------------ MODULE ViewedServer ------------------------------
(***************************************************************************)
(* The policy server with a viewer (serving/viz.py, RerunViz): the worker  *)
(* thread puts a record into the viewer's bounded queue when it opens an   *)
(* episode, the event loop one after each action it has sent, and a drain  *)
(* thread logs them.  cli.py closes the viewer once run() has returned.    *)
(*                                                                         *)
(* The drain and the last step of close() call into the viewer's library,  *)
(* which may hang: nothing is assumed of either call.                      *)
(***************************************************************************)
EXTENDS PolicyServer

CONSTANT ViewerQueue  (* queue_size *)

ASSUME ViewerAssumption == ViewerQueue \in Nat \ {0}

VARIABLES
  records,   (* the viewer's queue of records, or of the sentinel          *)
  drain,     (* the drain thread: "waiting", "logging" or "ended"          *)
  viewer     (* close(): "open", "joining", "flushing", "closed"           *)

viewerVars == <<records, drain, viewer>>
viewedVars == <<vars, viewerVars>>

(* A slip: a full queue is waited for. *)
EmitWaiting ==
  /\ Len(records) < ViewerQueue
  /\ records' = Append(records, "record")
  /\ UNCHANGED <<drain, viewer>>

(* put_nowait: a full queue costs the record, never the caller. *)
Emit ==
  /\ records' = IF Len(records) < ViewerQueue THEN Append(records, "record") ELSE records
  /\ UNCHANGED <<drain, viewer>>

(* What the peer was sent is recorded, resets and errors are not. *)
Recorded(c) == outcome[c].kind = "action" /\ ~gone[c]

DeliverAndRecord(c) ==
  /\ Deliver(c)
  /\ IF Recorded(c) THEN Emit ELSE UNCHANGED viewerVars

OpenAndMark == OpenEpisode /\ Emit

Fetch ==
  /\ drain = "waiting" /\ records # <<>>
  /\ drain' = IF Head(records) = "sentinel" THEN "ended" ELSE "logging"
  /\ records' = Tail(records)
  /\ UNCHANGED <<vars, viewer>>

(* The record is logged, or logging it raised. *)
Log ==
  /\ drain = "logging"
  /\ drain' = "waiting"
  /\ UNCHANGED <<vars, records, viewer>>

(* A slip: the sentinel waits for room however long it takes. *)
PutSentinelWaiting ==
  /\ life \in {"stopped", "failed"} /\ viewer = "open"
  /\ Len(records) < ViewerQueue
  /\ records' = Append(records, "sentinel")
  /\ viewer' = "joining"
  /\ UNCHANGED <<vars, drain>>

(* A put that times out leaves the drain without its sentinel. *)
PutSentinel ==
  /\ life \in {"stopped", "failed"} /\ viewer = "open"
  /\ \/ Len(records) < ViewerQueue /\ records' = Append(records, "sentinel")
     \/ Len(records) = ViewerQueue /\ UNCHANGED records
  /\ viewer' = "joining"
  /\ UNCHANGED <<vars, drain>>

(* The drain ended, or the join timed out. *)
Join ==
  /\ viewer = "joining"
  /\ viewer' = "flushing"
  /\ UNCHANGED <<vars, records, drain>>

(* rerun_shutdown() returns or raises, if it does: it has no timeout. *)
LibraryShutsDown ==
  /\ viewer = "flushing"
  /\ viewer' = "closed"
  /\ UNCHANGED <<vars, records, drain>>

-----------------------------------------------------------------------------
ViewedInit == Init /\ records = <<>> /\ drain = "waiting" /\ viewer = "open"

ViewedRun == Run /\ UNCHANGED viewerVars

ViewedWorker ==
  \/ (Take \/ CloseEpisode \/ OpenRaises \/ Predict) /\ UNCHANGED viewerVars
  \/ OpenAndMark

ViewedHandler(c) ==
  \/ ConnectionClosed(c) /\ UNCHANGED viewerVars
  \/ DeliverAndRecord(c)

(* The steps of close() that wait no longer than its timeout. *)
CloseViewer == PutSentinel \/ Join

ViewedNext ==
  \/ ViewedRun \/ ViewedWorker \/ CloseViewer \/ LibraryShutsDown \/ Fetch \/ Log
  \/ Shutdown /\ UNCHANGED viewerVars
  \/ \E c \in Clients :
       \/ ViewedHandler(c)
       \/ (Connect(c) \/ Undecodable(c) \/ PeerLeaves(c)) /\ UNCHANGED viewerVars
       \/ \E r \in Requests : Receive(c, r) /\ UNCHANGED viewerVars

(* The server's fairness, and close() gets past its two timed waits.       *)
ViewedSpec ==
  /\ ViewedInit /\ [][ViewedNext]_viewedVars
  /\ WF_viewedVars(ViewedRun) /\ WF_viewedVars(ViewedWorker)
  /\ WF_viewedVars(CloseViewer)
  /\ \A c \in Clients : WF_viewedVars(ViewedHandler(c))

-----------------------------------------------------------------------------
(* A drain that hangs in the viewer's library, with the queue full behind  *)
(* it, holds up neither the server nor close(): after a stop all of close  *)
(* is done but the library's own shutdown.                                 *)
DrainIsNotWaitedFor == stop ~> (viewer \in {"flushing", "closed"})
=============================================================================
