------------------------------ MODULE PolicyServer ------------------------------
(***************************************************************************)
(* The websocket policy server (serving/ws_server.py): one runtime, any    *)
(* number of connections, and one worker thread that maps their requests   *)
(* onto the runtime's single episode.                                      *)
(*                                                                         *)
(* Three kinds of threads interleave: the event loop (a handler per        *)
(* connection, and the coroutine run), the executor's worker (_step) and   *)
(* the threads that call wait_ready and shutdown.  A step below is what    *)
(* one of them does between two points where another can be scheduled.     *)
(***************************************************************************)
EXTENDS Integers, Sequences

CONSTANTS
  Clients,      (* the connections a behaviour may open                    *)
  Prompts,      (* prompts a request may carry                             *)
  Unset,        (* _UNSET: the request carries no prompt                   *)
  Unknown       (* the runtime's state after a reset that raised           *)

ASSUME PromptsAssumption == Unset \notin Prompts /\ Unknown \notin Prompts \cup {Unset}

VARIABLES
  life,         (* where the coroutine run() stands                        *)
  ready,        (* _ready is set                                           *)
  bound,        (* bound_port is known                                     *)
  startupError, (* _startup_error is recorded                              *)
  stop,         (* _stop is set                                            *)
  conn,         (* where the handler of each connection stands             *)
  gone,         (* the peer, or the closing server, ended the connection   *)
  request,      (* the request the handler of the connection is serving    *)
  outcome,      (* what the worker made of it                              *)
  queue,        (* the executor's queue                                    *)
  job,          (* what the worker does next: <<step, connection>>         *)
  episode,      (* the handle _episode: "none", "open" or "closed"         *)
  episodePrompt,(* _episode_prompt                                         *)
  runtime       (* the prompt the runtime was last reset with              *)

lifeVars == <<life, ready, bound, startupError, stop>>
wireVars == <<conn, gone, request>>
episodeVars == <<episode, episodePrompt, runtime>>
vars == <<lifeVars, wireVars, outcome, queue, job, episodeVars>>

MaybePrompt == Prompts \cup {Unset}

Requests ==
  [reset : BOOLEAN, prompt : MaybePrompt, map : {TRUE}]
    \cup {[reset |-> FALSE, prompt |-> Unset, map |-> FALSE]}

NoRequest == [reset |-> FALSE, prompt |-> Unset, map |-> TRUE]

(* An outcome is an error with the reason it was raised for, the empty     *)
(* reply to a reset, or an action with the prompt of the runtime that      *)
(* predicted it.                                                           *)
Error(why) == [kind |-> "error", why |-> why, under |-> Unset]
Reset == [kind |-> "reset", why |-> "none", under |-> Unset]
Action(p) == [kind |-> "action", why |-> "none", under |-> p]
NoOutcome == [kind |-> "none", why |-> "none", under |-> Unset]

NoJob == <<"free">>

Init ==
  /\ life = "new"
  /\ ready = FALSE /\ bound = FALSE /\ startupError = FALSE
  /\ stop = FALSE
  /\ conn = [c \in Clients |-> "down"]
  /\ gone = [c \in Clients |-> FALSE]
  /\ request = [c \in Clients |-> NoRequest]
  /\ outcome = [c \in Clients |-> NoOutcome]
  /\ queue = <<>>
  /\ job = NoJob
  /\ episode = "none"
  /\ episodePrompt = Unset
  /\ runtime = Unset

-----------------------------------------------------------------------------
(* run(), wait_ready() and shutdown(). *)

GoTo(l) == life' = l /\ UNCHANGED <<wireVars, outcome, queue, job, episodeVars>>

(* run() takes the running loop and makes its stop event. *)
Start ==
  /\ life = "new"
  /\ GoTo("starting")
  /\ UNCHANGED <<ready, bound, startupError, stop>>

Bind ==
  /\ life = "starting"
  /\ GoTo("bound")
  /\ bound' = TRUE
  /\ UNCHANGED <<ready, startupError, stop>>

SetReady ==
  /\ life = "bound"
  /\ GoTo("serving")
  /\ ready' = TRUE
  /\ UNCHANGED <<bound, startupError, stop>>

(* A slip: the finally clause's release comes first. *)
BindFailsReleasing ==
  /\ life = "starting"
  /\ GoTo("failing")
  /\ ready' = TRUE
  /\ UNCHANGED <<bound, startupError, stop>>

(* The port is busy: the error is recorded, and only then wait_ready() is  *)
(* released.                                                               *)
BindFails ==
  /\ life = "starting"
  /\ GoTo("failing")
  /\ startupError' = TRUE
  /\ UNCHANGED <<ready, bound, stop>>

ReleaseFailed ==
  /\ life = "failing"
  /\ GoTo("failed")
  /\ ready' = TRUE
  /\ UNCHANGED <<bound, startupError, stop>>

(* Before run() has its loop and its stop event there is nothing to tell,  *)
(* and the call returns without effect.                                    *)
Shutdown ==
  /\ life \notin {"new", "failed", "stopped"}
  /\ stop' = TRUE
  /\ GoTo(life)
  /\ UNCHANGED <<ready, bound, startupError>>

(* A slip: the connections are left for their peers to close. *)
BeginStopKeepingConnections ==
  /\ life = "serving" /\ stop
  /\ GoTo("stopping")
  /\ UNCHANGED <<ready, bound, startupError, stop>>

(* Leaving the server's context closes every connection ... *)
BeginStop ==
  /\ life = "serving" /\ stop
  /\ life' = "stopping"
  /\ gone' = [c \in Clients |-> conn[c] # "down"]
  /\ UNCHANGED <<ready, bound, startupError, stop,
                 conn, request, outcome, queue, job, episodeVars>>

(* A slip: only the handlers that wait for a message are waited for. *)
UnwoundIdle == \A c \in Clients : conn[c] # "idle"

(* ... and waits for their handlers; then the executor is shut down.       *)
Unwound == \A c \in Clients : conn[c] = "down"

EndStop ==
  /\ life = "stopping" /\ Unwound
  /\ GoTo("stopped")
  /\ UNCHANGED <<ready, bound, startupError, stop>>

-----------------------------------------------------------------------------
(* The handler of a connection, on the event loop. *)

Connect(c) ==
  /\ life \in {"bound", "serving"} /\ conn[c] = "down"
  /\ conn' = [conn EXCEPT ![c] = "idle"]
  /\ UNCHANGED <<lifeVars, gone, request, outcome, queue, job, episodeVars>>

(* A message arrives and its step is submitted to the executor. *)
Receive(c, r) ==
  /\ conn[c] = "idle" /\ ~gone[c]
  /\ conn' = [conn EXCEPT ![c] = "submitted"]
  /\ request' = [request EXCEPT ![c] = r]
  /\ queue' = Append(queue, c)
  /\ UNCHANGED <<lifeVars, gone, outcome, job, episodeVars>>

(* The message does not unpack: an error frame, then close 1011. *)
Undecodable(c) ==
  /\ conn[c] = "idle" /\ ~gone[c]
  /\ conn' = [conn EXCEPT ![c] = "down"]
  /\ UNCHANGED <<lifeVars, gone, request, outcome, queue, job, episodeVars>>

PeerLeaves(c) ==
  /\ conn[c] # "down" /\ ~gone[c]
  /\ gone' = [gone EXCEPT ![c] = TRUE]
  /\ UNCHANGED <<lifeVars, conn, request, outcome, queue, job, episodeVars>>

ConnectionClosed(c) ==
  /\ conn[c] = "idle" /\ gone[c]
  /\ conn' = [conn EXCEPT ![c] = "down"]
  /\ gone' = [gone EXCEPT ![c] = FALSE]
  /\ UNCHANGED <<lifeVars, request, outcome, queue, job, episodeVars>>

(* The worker is done: the reply is sent, or the error frame and the close;*)
(* then the handler waits for the next message or ends.                    *)
Deliver(c) ==
  /\ conn[c] = "submitted" /\ outcome[c] # NoOutcome
  /\ conn' = [conn EXCEPT ![c] = IF gone[c] \/ outcome[c].kind = "error" THEN "down" ELSE "idle"]
  /\ outcome' = [outcome EXCEPT ![c] = NoOutcome]
  /\ request' = [request EXCEPT ![c] = NoRequest]
  /\ gone' = [gone EXCEPT ![c] = FALSE]
  /\ UNCHANGED <<lifeVars, queue, job, episodeVars>>

-----------------------------------------------------------------------------
(* _step, on the worker thread. *)

(* A slip: an exception of the step is dropped with its future. *)
FinishDroppingErrors(c, o) ==
  /\ outcome' = IF o.kind = "error" THEN outcome ELSE [outcome EXCEPT ![c] = o]
  /\ job' = NoJob

(* A slip: a request with another prompt joins the open episode. *)
RotatesNever(r) == episode = "none"

Rotates(r) == episode = "none" \/ (r.prompt # Unset /\ r.prompt # episodePrompt)

Finish(c, o) ==
  /\ outcome' = [outcome EXCEPT ![c] = o]
  /\ job' = NoJob

Take ==
  /\ job = NoJob /\ queue # <<>>
  /\ queue' = Tail(queue)
  /\ LET c == Head(queue)
         r == request[c]
     IN IF ~r.map
        THEN Finish(c, Error("request"))
        ELSE /\ job' = <<IF r.reset \/ Rotates(r) THEN "close" ELSE "predict", c>>
             /\ UNCHANGED outcome
  /\ UNCHANGED <<lifeVars, wireVars, episodeVars>>

(* A slip: the old handle is left to the garbage collector. *)
CloseEpisodeNever ==
  /\ job[1] = "close"
  /\ job' = <<"open", job[2]>>
  /\ UNCHANGED <<lifeVars, wireVars, outcome, queue, episodeVars>>

(* _open_episode finishes the handle it has ... *)
CloseEpisode ==
  /\ job[1] = "close"
  /\ episode' = IF episode = "none" THEN "none" ELSE "closed"
  /\ job' = <<"open", job[2]>>
  /\ UNCHANGED <<lifeVars, wireVars, outcome, queue, episodePrompt, runtime>>

(* ... and runtime.episode() resets the runtime. *)
OpenEpisode ==
  /\ job[1] = "open"
  /\ LET c == job[2]
         r == request[c]
     IN /\ episode' = "open"
        /\ episodePrompt' = r.prompt
        /\ runtime' = r.prompt
        /\ IF r.reset
           THEN Finish(c, Reset)
           ELSE job' = <<"predict", c>> /\ UNCHANGED outcome
  /\ UNCHANGED <<lifeVars, wireVars, queue>>

OpenRaises ==
  /\ job[1] = "open"
  /\ runtime' = Unknown
  /\ Finish(job[2], Error("runtime"))
  /\ UNCHANGED <<lifeVars, wireVars, queue, episode, episodePrompt>>

Predict ==
  /\ job[1] = "predict"
  /\ \/ episode = "closed" /\ Finish(job[2], Error("finished"))
     \/ episode = "open" /\ Finish(job[2], Action(runtime))
     \/ episode = "open" /\ Finish(job[2], Error("runtime"))
  /\ UNCHANGED <<lifeVars, wireVars, queue, episodeVars>>

-----------------------------------------------------------------------------
Run == Start \/ Bind \/ SetReady \/ BindFails \/ ReleaseFailed \/ BeginStop \/ EndStop
Worker == Take \/ CloseEpisode \/ OpenEpisode \/ OpenRaises \/ Predict
Handler(c) == ConnectionClosed(c) \/ Deliver(c)

Next ==
  \/ Run
  \/ Shutdown
  \/ Worker
  \/ \E c \in Clients :
       \/ Handler(c)
       \/ Connect(c) \/ Undecodable(c) \/ PeerLeaves(c)
       \/ \E r \in Requests : Receive(c, r)

(* The event loop and the worker thread are scheduled, and a call of the   *)
(* runtime returns or raises.  Nothing is assumed of the clients or of the *)
(* callers of wait_ready and shutdown.                                     *)
Spec ==
  /\ Init /\ [][Next]_vars
  /\ WF_vars(Run) /\ WF_vars(Worker)
  /\ \A c \in Clients : WF_vars(Handler(c))

-----------------------------------------------------------------------------
TypeOK ==
  /\ life \in {"new", "starting", "bound", "serving", "failing", "failed", "stopping", "stopped"}
  /\ conn \in [Clients -> {"down", "idle", "submitted"}]
  /\ request \in [Clients -> Requests]
  /\ queue \in Seq(Clients)
  /\ \A c \in Clients : outcome[c] # NoOutcome => conn[c] = "submitted"
  /\ job = NoJob \/ job \in {"close", "open", "predict"} \X Clients
  /\ episode \in {"none", "open", "closed"}
  /\ episodePrompt \in MaybePrompt
  /\ runtime \in MaybePrompt \cup {Unknown}

(* An action is predicted in a runtime that was reset, without an error,   *)
(* for the prompt the request carries, whatever other connections asked    *)
(* for in between, and whichever of their resets raised.                   *)
ServedUnderItsPrompt ==
  \A c \in Clients :
    outcome[c].kind = "action" =>
      /\ outcome[c].under # Unknown
      /\ request[c].prompt # Unset => outcome[c].under = request[c].prompt

(* Runtime.episode asks its callers to finish each episode before opening  *)
(* the next: when the runtime is reset no handle on its state is live.     *)
FinishedBeforeOpening ==
  [][OpenEpisode \/ OpenRaises => episode # "open"]_vars

(* wait_ready returns once _ready is set, and then there is a port to      *)
(* return or an error to report (the race the comment in run() is about).  *)
WaiterHearsWhy == ready => bound \/ startupError

(* The executor is shut down without waiting because nothing is left in it.*)
NothingLeftAtStop == life = "stopped" => queue = <<>> /\ job = NoJob

(* Every request is answered, with a reply or with an error frame, or its  *)
(* connection ends.                                                        *)
EveryRequestIsSettled ==
  \A c \in Clients : (conn[c] = "submitted") ~> (conn[c] # "submitted")

(* Once the stop event is set the server comes down, through every request *)
(* in flight.                                                              *)
StopIsHonoured == stop ~> (life \in {"stopped", "failed"})

(* A failing request does not spoil the port for the other clients: an     *)
(* error is the request's own, or of a call the runtime made for it.       *)
ErrorsAreOwn == \A c \in Clients : outcome[c].why # "finished"
=============================================================================
