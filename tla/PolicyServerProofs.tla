--------------------------- MODULE PolicyServerProofs ---------------------------
(***************************************************************************)
(* PolicyServer for any number of connections and prompts: every action    *)
(* comes from a runtime that was reset for the prompt its request carries, *)
(* episodes are finished before the next is opened, and the lifecycle      *)
(* leaves nobody waiting for a reason or in the executor.  A viewer takes  *)
(* none of this away, and is handed nothing once it is being closed.       *)
(***************************************************************************)
EXTENDS ViewedServer, TLAPS

Outcomes ==
  [kind : {"none", "error", "reset", "action"},
   why : {"none", "request", "runtime", "finished"},
   under : MaybePrompt \cup {Unknown}]

WireTypes ==
  /\ outcome \in [Clients -> Outcomes]
  /\ gone \in [Clients -> BOOLEAN]

(* Who waits for the worker waits once: in the queue or as its job. *)
Waiting == {c \in Clients : conn[c] = "submitted" /\ outcome[c] = NoOutcome}

QueueOK ==
  /\ \A i \in DOMAIN queue : queue[i] \in Waiting
  /\ \A i, j \in DOMAIN queue : queue[i] = queue[j] => i = j
  /\ job[1] # "free" =>
       job[2] \in Waiting /\ \A i \in DOMAIN queue : queue[i] # job[2]

(* An open episode is the runtime's, the worker opens one only when none   *)
(* is, and what it is about to predict is asked of the episode it has.     *)
EpisodeOK ==
  /\ episode = "open" => runtime = episodePrompt
  /\ job[1] = "open" => episode # "open"
  /\ job[1] = "predict" /\ episode = "open" =>
       request[job[2]].prompt \in {Unset, episodePrompt}

(* What each stage of run() has recorded. *)
LifeOK ==
  /\ ready => life \in {"serving", "stopping", "stopped", "failed"}
  /\ life \in {"bound", "serving", "stopping", "stopped"} => bound
  /\ life \in {"failing", "failed"} => startupError
  /\ life = "stopped" => \A c \in Clients : conn[c] = "down"

IInv == TypeOK /\ WireTypes /\ QueueOK /\ EpisodeOK /\ LifeOK /\ ServedUnderItsPrompt

-----------------------------------------------------------------------------
LEMMA OutcomeTypes ==
  /\ NoOutcome \in Outcomes /\ Reset \in Outcomes
  /\ \A p \in MaybePrompt \cup {Unknown} : Action(p) \in Outcomes
  /\ \A w \in {"request", "runtime", "finished"} : Error(w) \in Outcomes
BY DEF NoOutcome, Reset, Action, Error, Outcomes, MaybePrompt

LEMMA RequestTypes ==
  /\ NoRequest \in Requests
  /\ \A r \in Requests : r.prompt \in MaybePrompt
<1>1. NoRequest \in [reset : BOOLEAN, prompt : MaybePrompt, map : {TRUE}]
  BY Zenon DEF NoRequest, MaybePrompt
<1>2. ASSUME NEW r \in Requests PROVE r.prompt \in MaybePrompt
  <2>1. CASE r \in [reset : BOOLEAN, prompt : MaybePrompt, map : {TRUE}]
    BY <2>1
  <2>2. CASE r = [reset |-> FALSE, prompt |-> Unset, map |-> FALSE]
    BY <2>2 DEF MaybePrompt
  <2> QED BY <1>2, <2>1, <2>2 DEF Requests
<1> QED BY <1>1, <1>2 DEF Requests

LEMMA InitIInv == Init => IInv
<1> SUFFICES ASSUME Init PROVE IInv
  OBVIOUS
<1>1. TypeOK
  BY RequestTypes DEF Init, TypeOK, MaybePrompt
<1>2. WireTypes
  BY OutcomeTypes DEF Init, WireTypes
<1>3. QueueOK /\ EpisodeOK /\ LifeOK
  BY DEF Init, QueueOK, EpisodeOK, LifeOK, NoJob
<1>4. ServedUnderItsPrompt
  BY DEF Init, ServedUnderItsPrompt, NoOutcome
<1> QED BY <1>1, <1>2, <1>3, <1>4 DEF IInv

-----------------------------------------------------------------------------
(* The lifecycle touches no request. *)
LEMMA LifecycleKeepsIInv ==
  ASSUME IInv, Run \/ Shutdown PROVE IInv'
<1>1. /\ UNCHANGED <<conn, request, outcome, queue, job, episodeVars>>
      /\ gone' = gone \/ gone' = [c \in Clients |-> conn[c] # "down"]
  BY DEF Run, Start, Bind, SetReady, BindFails, ReleaseFailed, BeginStop, EndStop,
         Shutdown, GoTo, wireVars
<1>2. /\ life' \in {"new", "starting", "bound", "serving", "failing", "failed", "stopping", "stopped"}
      /\ life = "stopped" => life' = "stopped"
  BY DEF Run, Start, Bind, SetReady, BindFails, ReleaseFailed, BeginStop, EndStop,
         Shutdown, GoTo, IInv, TypeOK
<1>3. TypeOK' /\ WireTypes'
  BY <1>1, <1>2 DEF IInv, TypeOK, WireTypes, episodeVars
<1>4. QueueOK' /\ EpisodeOK' /\ ServedUnderItsPrompt'
  BY <1>1 DEF IInv, QueueOK, Waiting, EpisodeOK, ServedUnderItsPrompt, episodeVars
<1>5. LifeOK'
  BY <1>1 DEF Run, Start, Bind, SetReady, BindFails, ReleaseFailed, BeginStop, EndStop,
              Shutdown, GoTo, IInv, LifeOK, Unwound
<1> QED BY <1>3, <1>4, <1>5 DEF IInv

(* A message arrives: its connection joins the queue. *)
LEMMA ReceiveKeepsIInv ==
  ASSUME IInv, NEW c \in Clients, NEW r \in Requests, Receive(c, r) PROVE IInv'
<1>0. /\ conn[c] = "idle" /\ conn' = [conn EXCEPT ![c] = "submitted"]
      /\ request' = [request EXCEPT ![c] = r]
      /\ queue' = Append(queue, c) /\ queue \in Seq(Clients)
      /\ UNCHANGED <<lifeVars, gone, outcome, job, episodeVars>>
  BY DEF Receive, IInv, TypeOK
<1>1. outcome[c] = NoOutcome
  BY <1>0 DEF IInv, TypeOK
<1>2. TypeOK' /\ WireTypes'
  BY <1>0 DEF IInv, TypeOK, WireTypes, lifeVars, episodeVars
<1>3. QueueOK'
  <2>1. Waiting' = Waiting \cup {c} /\ c \notin Waiting
    BY <1>0, <1>1 DEF Waiting, IInv, TypeOK
  <2>2. /\ Len(queue) \in Nat
        /\ DOMAIN queue = 1 .. Len(queue) /\ DOMAIN queue' = 1 .. Len(queue) + 1
        /\ \A i \in DOMAIN queue : queue'[i] = queue[i]
        /\ queue'[Len(queue) + 1] = c
    BY <1>0
  <2>3. job' = job
    BY <1>0
  <2>4. (\A i \in DOMAIN queue : queue[i] # c) /\ (job[1] # "free" => job[2] # c)
    BY <2>1 DEF IInv, QueueOK
  <2>5. \A i \in DOMAIN queue' : queue'[i] \in Waiting'
    BY <2>1, <2>2 DEF IInv, QueueOK
  <2>6. \A i, j \in DOMAIN queue' : queue'[i] = queue'[j] => i = j
    BY <2>2, <2>4 DEF IInv, QueueOK
  <2>7. job'[1] # "free" =>
          job'[2] \in Waiting' /\ \A i \in DOMAIN queue' : queue'[i] # job'[2]
    BY <2>1, <2>2, <2>3, <2>4 DEF IInv, QueueOK
  <2> QED BY <2>5, <2>6, <2>7 DEF QueueOK
<1>4. EpisodeOK'
  <2>1. job[1] = "predict" => job[2] # c
    BY <1>0 DEF IInv, QueueOK, Waiting
  <2> QED BY <1>0, <2>1 DEF IInv, TypeOK, EpisodeOK, episodeVars
<1>5. LifeOK'
  BY <1>0 DEF IInv, LifeOK, TypeOK, lifeVars
<1>6. ServedUnderItsPrompt'
  BY <1>0, <1>1 DEF IInv, TypeOK, ServedUnderItsPrompt, NoOutcome
<1> QED BY <1>2, <1>3, <1>4, <1>5, <1>6 DEF IInv


(* The handler's other steps take no connection out of the worker's hands. *)
LEMMA HandlerKeepsIInv ==
  ASSUME IInv, NEW c \in Clients,
         Handler(c) \/ Connect(c) \/ Undecodable(c) \/ PeerLeaves(c)
  PROVE  IInv'
<1>2. /\ UNCHANGED <<lifeVars, queue, job, episodeVars>>
      /\ \A d \in Clients \ {c} : /\ conn'[d] = conn[d] /\ outcome'[d] = outcome[d]
                                 /\ request'[d] = request[d]
  BY DEF Handler, ConnectionClosed, Deliver, Connect, Undecodable, PeerLeaves,
         IInv, TypeOK, WireTypes
<1>1. /\ TypeOK' /\ WireTypes'
      /\ c \in Waiting => UNCHANGED <<conn, outcome, request>>
  <2>1. c \in Waiting => UNCHANGED <<conn, outcome, request>>
    BY DEF Handler, ConnectionClosed, Deliver, Connect, Undecodable, PeerLeaves, Waiting
  <2>2. conn' \in [Clients -> {"down", "idle", "submitted"}]
    BY DEF Handler, ConnectionClosed, Deliver, Connect, Undecodable, PeerLeaves, IInv, TypeOK
  <2>3. request' \in [Clients -> Requests]
    BY RequestTypes
       DEF Handler, ConnectionClosed, Deliver, Connect, Undecodable, PeerLeaves, IInv, TypeOK
  <2>4. WireTypes'
    BY OutcomeTypes
       DEF Handler, ConnectionClosed, Deliver, Connect, Undecodable, PeerLeaves, IInv, WireTypes
  <2>5. outcome'[c] # NoOutcome => conn'[c] = "submitted"
    BY DEF Handler, ConnectionClosed, Deliver, Connect, Undecodable, PeerLeaves,
           IInv, TypeOK, WireTypes
  <2>6. \A d \in Clients : outcome'[d] # NoOutcome => conn'[d] = "submitted"
    BY <1>2, <2>5 DEF IInv, TypeOK
  <2>7. TypeOK'
    BY <1>2, <2>2, <2>3, <2>6 DEF IInv, TypeOK, lifeVars, episodeVars
  <2> QED BY <2>1, <2>4, <2>7
<1>3. Waiting \subseteq Waiting'
  BY <1>1, <1>2 DEF Waiting
<1>4. QueueOK'
  BY <1>2, <1>3 DEF IInv, QueueOK
<1>5. EpisodeOK'
  <2>1. job[1] = "predict" => request'[job[2]] = request[job[2]]
    BY <1>1, <1>2 DEF IInv, QueueOK, Waiting
  <2> QED BY <1>2, <2>1 DEF IInv, EpisodeOK, episodeVars
<1>6. LifeOK'
  <2>1. life = "stopped" => conn' = conn
    BY DEF Handler, ConnectionClosed, Deliver, Connect, Undecodable, PeerLeaves, IInv, LifeOK
  <2> QED BY <1>2, <2>1 DEF IInv, LifeOK, lifeVars
<1>7. ServedUnderItsPrompt'
  <2>1. outcome'[c].kind = "action" => outcome'[c] = outcome[c] /\ request'[c] = request[c]
    BY DEF Handler, ConnectionClosed, Deliver, Connect, Undecodable, PeerLeaves,
           IInv, WireTypes, NoOutcome
  <2> QED BY <1>2, <2>1 DEF IInv, ServedUnderItsPrompt
<1> QED BY <1>1, <1>4, <1>5, <1>6, <1>7 DEF IInv

-----------------------------------------------------------------------------
(* The worker: whatever it does to outcomes it does to its own job's, and  *)
(* what it takes off the queue becomes its job or is done.                 *)
LEMMA FinishKeepsWaiting ==
  ASSUME IInv, NEW c \in Clients, NEW o \in Outcomes, Finish(c, o), UNCHANGED wireVars
  PROVE  /\ outcome' \in [Clients -> Outcomes]
         /\ \A d \in Clients \ {c} : outcome'[d] = outcome[d]
         /\ Waiting \ {c} \subseteq Waiting'
         /\ outcome'[c] = o /\ job' = NoJob
BY DEF IInv, WireTypes, Finish, Waiting, wireVars

LEMMA TakeKeepsIInv ==
  ASSUME IInv, Take PROVE IInv'
<1> DEFINE c == Head(queue)
           r == request[c]
<1>0. /\ queue \in Seq(Clients) /\ queue # <<>> /\ job = NoJob
      /\ queue' = Tail(queue) /\ UNCHANGED <<lifeVars, wireVars, episodeVars>>
  BY DEF Take, IInv, TypeOK
<1>1. /\ Len(queue) \in Nat \ {0} /\ c = queue[1] /\ c \in Clients
      /\ DOMAIN queue = 1 .. Len(queue) /\ DOMAIN queue' = 1 .. Len(queue) - 1
      /\ \A i \in DOMAIN queue' : queue'[i] = queue[i + 1] /\ i + 1 \in DOMAIN queue
      /\ queue' \in Seq(Clients)
  BY <1>0
<1>2. c \in Waiting /\ \A i \in DOMAIN queue' : queue'[i] \in Waiting \ {c}
  BY <1>1 DEF IInv, QueueOK
<1>3. \A i, j \in DOMAIN queue' : queue'[i] = queue'[j] => i = j
  BY <1>1 DEF IInv, QueueOK
<1> HIDE DEF c
<1>4. CASE ~r.map
  <2>1. Finish(c, Error("request")) /\ Error("request") \in Outcomes
    BY <1>4, OutcomeTypes DEF Take, c
  <2>2. /\ outcome' \in [Clients -> Outcomes]
        /\ \A d \in Clients \ {c} : outcome'[d] = outcome[d]
        /\ Waiting \ {c} \subseteq Waiting'
        /\ outcome'[c] = Error("request") /\ job' = NoJob
    BY <1>0, <1>1, <2>1, FinishKeepsWaiting
  <2>3. TypeOK' /\ WireTypes'
    BY <1>0, <1>1, <1>2, <2>2
       DEF IInv, TypeOK, WireTypes, Waiting, lifeVars, wireVars, episodeVars
  <2>4. QueueOK'
    BY <1>2, <1>3, <2>2 DEF QueueOK, NoJob
  <2>5. EpisodeOK' /\ LifeOK'
    BY <1>0, <2>2 DEF IInv, EpisodeOK, LifeOK, NoJob, lifeVars, wireVars, episodeVars
  <2>6. ServedUnderItsPrompt'
    BY <1>0, <2>2 DEF IInv, ServedUnderItsPrompt, Error, wireVars
  <2> QED BY <2>3, <2>4, <2>5, <2>6 DEF IInv
<1>5. CASE r.map
  <2>1. /\ job' = <<IF r.reset \/ Rotates(r) THEN "close" ELSE "predict", c>>
        /\ outcome' = outcome
    BY <1>5 DEF Take, c
  <2>2. TypeOK' /\ WireTypes'
    BY <1>0, <1>1, <2>1 DEF IInv, TypeOK, WireTypes, lifeVars, wireVars, episodeVars
  <2>3. Waiting' = Waiting
    BY <1>0, <2>1 DEF Waiting, wireVars
  <2>4. QueueOK'
    BY <1>2, <1>3, <2>1, <2>3 DEF QueueOK
  <2>5. EpisodeOK'
    <3>1. job'[1] = "predict" => r.prompt \in {Unset, episodePrompt}
      BY <2>1 DEF Rotates
    <3> QED BY <1>0, <2>1, <3>1 DEF IInv, EpisodeOK, wireVars, episodeVars
  <2>6. LifeOK' /\ ServedUnderItsPrompt'
    BY <1>0, <2>1 DEF IInv, LifeOK, ServedUnderItsPrompt, lifeVars, wireVars
  <2> QED BY <2>2, <2>4, <2>5, <2>6 DEF IInv
<1> QED BY <1>4, <1>5

LEMMA JobTypes ==
  ASSUME IInv, job[1] # "free"
  PROVE  /\ job[2] \in Clients /\ job[2] \in Waiting
         /\ \A i \in DOMAIN queue : queue[i] \in Waiting \ {job[2]}
BY DEF IInv, TypeOK, QueueOK, NoJob

(* A job that is finished leaves the queue to the others. *)
LEMMA FinishKeepsTypes ==
  ASSUME IInv, job[1] # "free", NEW o \in Outcomes, Finish(job[2], o),
         UNCHANGED <<lifeVars, wireVars, queue>>,
         episode' \in {"none", "open", "closed"}, episodePrompt' \in MaybePrompt,
         runtime' \in MaybePrompt \cup {Unknown}
  PROVE  TypeOK' /\ WireTypes' /\ QueueOK' /\ LifeOK'
<1>1. /\ job[2] \in Clients /\ job[2] \in Waiting
      /\ \A i \in DOMAIN queue : queue[i] \in Waiting \ {job[2]}
  BY JobTypes
<1>2. /\ outcome' \in [Clients -> Outcomes]
      /\ \A d \in Clients \ {job[2]} : outcome'[d] = outcome[d]
      /\ Waiting \ {job[2]} \subseteq Waiting'
      /\ job' = NoJob
  BY <1>1, FinishKeepsWaiting
<1>3. TypeOK' /\ WireTypes'
  BY <1>1, <1>2 DEF IInv, TypeOK, WireTypes, Waiting, lifeVars, wireVars
<1>4. QueueOK'
  BY <1>1, <1>2 DEF IInv, QueueOK, NoJob
<1>5. LifeOK'
  BY DEF IInv, LifeOK, lifeVars, wireVars
<1> QED BY <1>3, <1>4, <1>5

(* A job that goes on is still its client's. *)
LEMMA NextStepKeepsTypes ==
  ASSUME IInv, job[1] # "free", NEW step \in {"open", "predict"}, job' = <<step, job[2]>>,
         UNCHANGED <<lifeVars, wireVars, outcome, queue>>,
         episode' \in {"none", "open", "closed"}, episodePrompt' \in MaybePrompt,
         runtime' \in MaybePrompt \cup {Unknown}
  PROVE  TypeOK' /\ WireTypes' /\ QueueOK' /\ LifeOK' /\ ServedUnderItsPrompt'
<1>1. job[2] \in Clients
  BY JobTypes
<1>2. TypeOK' /\ WireTypes'
  BY <1>1 DEF IInv, TypeOK, WireTypes, lifeVars, wireVars
<1>3. QueueOK'
  BY DEF IInv, QueueOK, Waiting, wireVars
<1>4. LifeOK' /\ ServedUnderItsPrompt'
  BY DEF IInv, LifeOK, ServedUnderItsPrompt, lifeVars, wireVars
<1> QED BY <1>2, <1>3, <1>4

LEMMA OpenKeepsIInv ==
  ASSUME IInv, CloseEpisode \/ OpenEpisode \/ OpenRaises PROVE IInv'
<1>0. TypeOK /\ EpisodeOK /\ ServedUnderItsPrompt
  BY DEF IInv
<1>1. CASE CloseEpisode
  <2>1. /\ job[1] = "close" /\ job' = <<"open", job[2]>>
        /\ episode' \in {"none", "closed"}
        /\ UNCHANGED <<lifeVars, wireVars, outcome, queue, episodePrompt, runtime>>
    BY <1>1 DEF CloseEpisode
  <2>2. TypeOK' /\ WireTypes' /\ QueueOK' /\ LifeOK' /\ ServedUnderItsPrompt'
    BY <1>0, <2>1, NextStepKeepsTypes DEF TypeOK
  <2>3. EpisodeOK'
    BY <2>1 DEF EpisodeOK
  <2> QED BY <2>2, <2>3 DEF IInv
<1>2. CASE OpenEpisode
  <2>1. /\ job[1] = "open" /\ episode' = "open"
        /\ job[2] \in Clients /\ request[job[2]].prompt \in MaybePrompt
        /\ episodePrompt' = request[job[2]].prompt /\ runtime' = episodePrompt'
        /\ UNCHANGED <<lifeVars, wireVars, queue>>
    BY <1>0, <1>2, JobTypes, RequestTypes DEF OpenEpisode, TypeOK
  <2>2. CASE request[job[2]].reset
    <3>1. Finish(job[2], Reset) /\ Reset \in Outcomes
      BY <1>2, <2>2, OutcomeTypes DEF OpenEpisode
    <3>2. TypeOK' /\ WireTypes' /\ QueueOK' /\ LifeOK'
      BY <2>1, <3>1, FinishKeepsTypes
    <3>3. EpisodeOK'
      BY <2>1, <3>1 DEF EpisodeOK, Finish, NoJob
    <3>4. ServedUnderItsPrompt'
      BY <1>0, <2>1, <3>1, FinishKeepsWaiting
         DEF ServedUnderItsPrompt, Reset, wireVars
    <3> QED BY <3>2, <3>3, <3>4 DEF IInv
  <2>3. CASE ~request[job[2]].reset
    <3>1. job' = <<"predict", job[2]>> /\ outcome' = outcome
      BY <1>2, <2>3 DEF OpenEpisode
    <3>2. TypeOK' /\ WireTypes' /\ QueueOK' /\ LifeOK' /\ ServedUnderItsPrompt'
      BY <2>1, <3>1, NextStepKeepsTypes
    <3>3. EpisodeOK'
      BY <2>1, <3>1 DEF EpisodeOK, wireVars
    <3> QED BY <3>2, <3>3 DEF IInv
  <2> QED BY <2>2, <2>3
<1>3. CASE OpenRaises
  <2>1. /\ job[1] = "open" /\ runtime' = Unknown
        /\ Finish(job[2], Error("runtime")) /\ Error("runtime") \in Outcomes
        /\ UNCHANGED <<lifeVars, wireVars, queue, episode, episodePrompt>>
    BY <1>3, OutcomeTypes DEF OpenRaises
  <2>2. TypeOK' /\ WireTypes' /\ QueueOK' /\ LifeOK'
    BY <1>0, <2>1, FinishKeepsTypes DEF TypeOK
  <2>3. EpisodeOK'
    BY <1>0, <2>1 DEF EpisodeOK, Finish, NoJob
  <2>4. ServedUnderItsPrompt'
    BY <1>0, <2>1, JobTypes, FinishKeepsWaiting DEF ServedUnderItsPrompt, Error, wireVars
  <2> QED BY <2>2, <2>3, <2>4 DEF IInv
<1> QED BY <1>1, <1>2, <1>3

(* A prediction is made in the episode the request asked for. *)
LEMMA PredictKeepsIInv ==
  ASSUME IInv, Predict PROVE IInv'
<1>0. /\ job[1] = "predict" /\ job[2] \in Clients
      /\ UNCHANGED <<lifeVars, wireVars, queue, episodeVars>>
  BY JobTypes DEF Predict
<1>1. PICK o \in Outcomes :
        /\ Finish(job[2], o)
        /\ o.kind = "action" => episode = "open" /\ o.under = runtime
  <2>1. /\ Error("finished") \in Outcomes /\ Error("runtime") \in Outcomes
        /\ Action(runtime) \in Outcomes
    BY OutcomeTypes DEF IInv, TypeOK
  <2> QED BY <2>1 DEF Predict, Error, Action
<1>2. TypeOK' /\ WireTypes' /\ QueueOK' /\ LifeOK'
  BY <1>0, <1>1, FinishKeepsTypes DEF IInv, TypeOK, episodeVars
<1>3. EpisodeOK'
  BY <1>0, <1>1 DEF IInv, EpisodeOK, Finish, NoJob, episodeVars
<1>4. ServedUnderItsPrompt'
  <2>1. o.kind = "action" =>
          /\ o.under # Unknown
          /\ request[job[2]].prompt # Unset => o.under = request[job[2]].prompt
    BY <1>0, <1>1, PromptsAssumption DEF IInv, TypeOK, EpisodeOK, MaybePrompt
  <2>2. /\ \A d \in Clients \ {job[2]} : outcome'[d] = outcome[d]
        /\ outcome'[job[2]] = o /\ request' = request
    BY <1>0, <1>1, FinishKeepsWaiting DEF wireVars
  <2> QED BY <2>1, <2>2 DEF IInv, ServedUnderItsPrompt
<1> QED BY <1>2, <1>3, <1>4 DEF IInv

-----------------------------------------------------------------------------
LEMMA StepKeepsIInv == IInv /\ [Next]_vars => IInv'
<1> SUFFICES ASSUME IInv, [Next]_vars PROVE IInv'
  OBVIOUS
<1>1. CASE UNCHANGED vars
  BY <1>1 DEF vars, lifeVars, wireVars, episodeVars, IInv, TypeOK, WireTypes, QueueOK,
              Waiting, EpisodeOK, LifeOK, ServedUnderItsPrompt
<1>2. CASE Run \/ Shutdown
  BY <1>2, LifecycleKeepsIInv
<1>3. CASE Worker
  BY <1>3, TakeKeepsIInv, OpenKeepsIInv, PredictKeepsIInv DEF Worker
<1>4. ASSUME NEW c \in Clients,
             \/ Handler(c) \/ Connect(c) \/ Undecodable(c) \/ PeerLeaves(c)
             \/ \E r \in Requests : Receive(c, r)
      PROVE  IInv'
  BY <1>4, HandlerKeepsIInv, ReceiveKeepsIInv
<1> QED BY <1>1, <1>2, <1>3, <1>4 DEF Next

LEMMA ServerInvariant == Spec => []IInv
BY InitIInv, StepKeepsIInv, PTL DEF Spec

(* What the invariant says of answers, of waiting callers and of the stop. *)
LEMMA IInvPromises == IInv => ServedUnderItsPrompt /\ WaiterHearsWhy /\ NothingLeftAtStop
<1>1. IInv => ServedUnderItsPrompt
  BY DEF IInv
<1>2. IInv => WaiterHearsWhy
  BY DEF IInv, LifeOK, WaiterHearsWhy
<1>3. IInv => NothingLeftAtStop
  <2> SUFFICES ASSUME IInv, life = "stopped" PROVE queue = <<>> /\ job = NoJob
    BY DEF NothingLeftAtStop
  <2>1. Waiting = {}
    BY DEF IInv, LifeOK, Waiting
  <2>2. DOMAIN queue = {} /\ queue \in Seq(Clients)
    BY <2>1 DEF IInv, QueueOK, TypeOK
  <2>3. queue = <<>>
    BY <2>2
  <2>4. job[1] = "free"
    BY <2>1 DEF IInv, QueueOK
  <2>5. job = NoJob
    BY <2>4 DEF IInv, TypeOK
  <2> QED BY <2>3, <2>5
<1> QED BY <1>1, <1>2, <1>3

(* For any connections and prompts the server's fields keep their types.   *)
THEOREM ServerTypes == Spec => []TypeOK
<1>1. IInv => TypeOK
  BY DEF IInv
<1> QED BY <1>1, ServerInvariant, PTL

(* For any connections and prompts: an action comes from a runtime that    *)
(* was reset, without an error, for the prompt its request carries.        *)
THEOREM ActionsServeTheirPrompt == Spec => []ServedUnderItsPrompt
BY IInvPromises, ServerInvariant, PTL

(* For any connections: wait_ready() is released with a port or an error.  *)
THEOREM WaiterAlwaysHearsWhy == Spec => []WaiterHearsWhy
BY IInvPromises, ServerInvariant, PTL

(* For any connections: nothing is left in the executor when the server    *)
(* stops, although nobody waits for the executor.                          *)
THEOREM ExecutorEndsEmpty == Spec => []NothingLeftAtStop
BY IInvPromises, ServerInvariant, PTL

(* For any connections: the runtime is reset for an episode only when the  *)
(* one before is finished.                                                 *)
THEOREM EpisodesAreFinishedFirst == Spec => FinishedBeforeOpening
<1>1. IInv /\ [Next]_vars => [OpenEpisode \/ OpenRaises => episode # "open"]_vars
  BY DEF IInv, EpisodeOK, OpenEpisode, OpenRaises
<1> QED BY <1>1, ServerInvariant, PTL DEF Spec, FinishedBeforeOpening

-----------------------------------------------------------------------------
(* The server with its viewer. *)

(* What the server does, without its fairness. *)
Serves == Init /\ [][Next]_vars

LEMMA ServesInvariant == Serves => []IInv
BY InitIInv, StepKeepsIInv, PTL DEF Serves

(* A step of the viewed server is a step of the server, or only the        *)
(* viewer's.                                                               *)
LEMMA ViewedStepServes == [ViewedNext]_viewedVars => [Next]_vars
<1> SUFFICES ASSUME [ViewedNext]_viewedVars PROVE [Next]_vars
  OBVIOUS
<1>1. CASE ViewedRun \/ (Shutdown /\ UNCHANGED viewerVars)
  BY <1>1 DEF ViewedRun, Next
<1>2. CASE ViewedWorker
  BY <1>2 DEF ViewedWorker, OpenAndMark, Worker, Next
<1>3. CASE CloseViewer \/ LibraryShutsDown \/ Fetch \/ Log
  BY <1>3 DEF CloseViewer, PutSentinel, Join, LibraryShutsDown, Fetch, Log
<1>4. ASSUME NEW c \in Clients,
             \/ ViewedHandler(c)
             \/ (Connect(c) \/ Undecodable(c) \/ PeerLeaves(c)) /\ UNCHANGED viewerVars
             \/ \E r \in Requests : Receive(c, r) /\ UNCHANGED viewerVars
      PROVE  [Next]_vars
  BY <1>4 DEF ViewedHandler, DeliverAndRecord, Handler, Next
<1>5. CASE UNCHANGED viewedVars
  BY <1>5 DEF viewedVars
<1> QED BY <1>1, <1>2, <1>3, <1>4, <1>5 DEF ViewedNext

(* Whatever the viewer's queue holds and wherever its drain hangs, the     *)
(* server takes no step it would not take without a viewer.                *)
THEOREM ViewerAddsNothing == ViewedSpec => Serves
BY ViewedStepServes, PTL DEF ViewedSpec, ViewedInit, Serves

(* So what the server promises, it promises with a viewer.                 *)
THEOREM PromisesHoldWhenViewed ==
  ViewedSpec =>
    /\ []ServedUnderItsPrompt /\ []WaiterHearsWhy /\ []NothingLeftAtStop
    /\ FinishedBeforeOpening
<1>1. IInv => ServedUnderItsPrompt /\ WaiterHearsWhy /\ NothingLeftAtStop
  BY IInvPromises
<1>2. IInv /\ [Next]_vars => [OpenEpisode \/ OpenRaises => episode # "open"]_vars
  BY DEF IInv, EpisodeOK, OpenEpisode, OpenRaises
<1> QED BY <1>1, <1>2, ViewerAddsNothing, ServesInvariant, PTL DEF Serves, FinishedBeforeOpening

(* Nothing is recorded once close() has put the sentinel, or has given up  *)
(* putting it, although neither of the server's threads asks whether the   *)
(* viewer is closed; and a drain that ends has logged all that was queued. *)
NothingRecordedLate ==
  [][viewer # "open" => Len(records') <= Len(records)]_viewedVars

DrainEndsEmpty == drain = "ended" => records = << >>

AllDown == \A c \in Clients : conn[c] = "down"

(* The sentinel is the last of the queue, and it is queued by a close()    *)
(* that comes when every connection is down.                               *)
Kinds == {"record", "sentinel"}

ViewerOK ==
  /\ life \in {"new", "starting", "failing", "failed"} => AllDown
  /\ records \in Seq(Kinds) /\ Len(records) <= ViewerQueue
  /\ \A i \in 1 .. Len(records) : records[i] = "sentinel" => i = Len(records)
  /\ viewer = "open" => \A i \in 1 .. Len(records) : records[i] = "record"
  /\ viewer # "open" => life \in {"stopped", "failed"}
  /\ drain = "ended" => viewer # "open" /\ records = << >>

LEMMA ClosedIsDown ==
  ASSUME IInv, ViewerOK, viewer # "open"
  PROVE  AllDown /\ job[1] = "free"
<1>1. AllDown
  BY DEF IInv, LifeOK, ViewerOK, AllDown
<1>2. Waiting = {}
  BY <1>1 DEF AllDown, Waiting
<1> QED BY <1>1, <1>2 DEF IInv, QueueOK

(* A record, while the viewer is open. *)
LEMMA EmitKeepsViewerOK ==
  ASSUME ViewerOK, viewer = "open", Emit, life' = life, AllDown => AllDown'
  PROVE  ViewerOK'
<1>1. /\ records \in Seq(Kinds) /\ Len(records) <= ViewerQueue
      /\ \A i \in 1 .. Len(records) : records[i] = "record"
      /\ ViewerQueue \in Nat /\ drain # "ended"
  BY ViewerAssumption DEF ViewerOK
<1>2. viewer' = viewer /\ drain' = drain
  BY DEF Emit
<1>3. CASE Len(records) < ViewerQueue
  <2>1. records' = Append(records, "record")
    BY <1>3 DEF Emit
  <2>2. /\ records' \in Seq(Kinds) /\ Len(records') = Len(records) + 1
        /\ \A i \in 1 .. Len(records') : records'[i] = "record"
    BY <1>1, <2>1 DEF Kinds
  <2> QED BY <1>1, <1>2, <1>3, <2>2 DEF ViewerOK
<1>4. CASE ~(Len(records) < ViewerQueue)
  <2>1. records' = records
    BY <1>4 DEF Emit
  <2> QED BY <1>1, <1>2, <2>1 DEF ViewerOK
<1> QED BY <1>3, <1>4

LEMMA ViewedStepKeepsViewerOK ==
  ASSUME IInv, ViewerOK, [ViewedNext]_viewedVars
  PROVE  ViewerOK' /\ (viewer # "open" => Len(records') <= Len(records))
<1> DEFINE Kept == ViewerOK' /\ (viewer # "open" => Len(records') <= Len(records))
<1> SUFFICES Kept
  OBVIOUS
<1>0. Len(records) \in Nat
  BY DEF ViewerOK
<1>1. ASSUME UNCHANGED viewerVars, life' = life, AllDown' \/ life \notin {"new", "starting", "failing", "failed"}
      PROVE  Kept
  <2>1. UNCHANGED <<records, drain, viewer, life>>
    BY <1>1 DEF viewerVars
  <2> QED BY <1>0, <1>1, <2>1 DEF ViewerOK
<1>2. CASE ViewedRun
  <2>1. UNCHANGED <<records, drain, viewer>>
    BY <1>2 DEF ViewedRun, viewerVars
  <2>2. life \notin {"stopped", "failed"} /\ viewer = "open"
    BY <1>2 DEF ViewedRun, Run, Start, Bind, SetReady, BindFails, ReleaseFailed, BeginStop, EndStop, ViewerOK
  <2>3. life' \in {"new", "starting", "failing", "failed"} => AllDown /\ conn' = conn
    BY <1>2 DEF ViewedRun, Run, Start, Bind, SetReady, BindFails, ReleaseFailed, BeginStop, EndStop,
                GoTo, wireVars, ViewerOK
  <2> QED BY <1>0, <2>1, <2>2, <2>3 DEF ViewerOK, AllDown
<1>3. CASE Shutdown /\ UNCHANGED viewerVars
  BY <1>1, <1>3 DEF Shutdown, GoTo, wireVars, ViewerOK, AllDown
<1>4. CASE ViewedWorker
  <2>1. UNCHANGED <<life, conn>>
    BY <1>4 DEF ViewedWorker, OpenAndMark, Take, CloseEpisode, OpenEpisode, OpenRaises, Predict,
                lifeVars, wireVars
  <2>2. CASE UNCHANGED viewerVars
    BY <1>1, <2>1, <2>2 DEF ViewerOK, AllDown
  <2>3. CASE OpenAndMark
    <3>1. viewer = "open"
      BY <2>3, ClosedIsDown DEF OpenAndMark, OpenEpisode
    <3>2. ViewerOK'
      BY <2>1, <2>3, <3>1, EmitKeepsViewerOK DEF OpenAndMark, AllDown
    <3> QED BY <3>1, <3>2
  <2> QED BY <1>4, <2>2, <2>3 DEF ViewedWorker
<1>5. CASE Fetch
  <2>1. /\ records # << >> /\ records \in Seq(Kinds) /\ drain # "ended"
        /\ UNCHANGED <<life, conn, viewer>>
    BY <1>5 DEF Fetch, ViewerOK, vars, lifeVars, wireVars
  <2>2. /\ records' \in Seq(Kinds) /\ Len(records') = Len(records) - 1
        /\ \A i \in 1 .. Len(records') : records'[i] = records[i + 1] /\ i + 1 \in 1 .. Len(records)
        /\ 1 \in 1 .. Len(records) /\ Head(records) = records[1]
    BY <1>5, <2>1 DEF Fetch
  <2>3. drain' = "ended" => records[1] = "sentinel"
    BY <1>5, <2>2 DEF Fetch
  <2>4. drain' = "ended" => viewer # "open" /\ Len(records) = 1
    BY <2>2, <2>3 DEF ViewerOK
  <2>5. drain' = "ended" => records' = << >>
    BY <2>2, <2>4
  <2>6. Len(records') <= ViewerQueue
    BY <1>0, <2>2, ViewerAssumption DEF ViewerOK
  <2>7. \A i \in 1 .. Len(records') : records'[i] = "sentinel" => i = Len(records')
    BY <1>0, <2>2 DEF ViewerOK
  <2>8. viewer = "open" => \A i \in 1 .. Len(records') : records'[i] = "record"
    BY <2>2 DEF ViewerOK
  <2>9. ViewerOK'
    BY <2>1, <2>2, <2>4, <2>5, <2>6, <2>7, <2>8 DEF ViewerOK, AllDown
  <2> QED BY <1>0, <2>2, <2>9
<1>6. CASE Log
  <2>1. UNCHANGED <<life, conn, records, viewer>> /\ drain' = "waiting"
    BY <1>6 DEF Log, vars, lifeVars, wireVars
  <2> QED BY <1>0, <2>1 DEF ViewerOK, AllDown
<1>7. CASE PutSentinel
  <2>1. /\ UNCHANGED <<life, conn, drain>> /\ viewer = "open" /\ viewer' = "joining"
        /\ life \in {"stopped", "failed"} /\ drain # "ended"
        /\ records \in Seq(Kinds) /\ Len(records) <= ViewerQueue /\ ViewerQueue \in Nat
        /\ \A i \in 1 .. Len(records) : records[i] = "record"
    BY <1>7, ViewerAssumption DEF PutSentinel, ViewerOK, vars, lifeVars, wireVars
  <2>2. CASE Len(records) < ViewerQueue /\ records' = Append(records, "sentinel")
    <3>1. /\ records' \in Seq(Kinds) /\ Len(records') = Len(records) + 1
          /\ \A i \in 1 .. Len(records) : records'[i] = "record"
      BY <2>1, <2>2 DEF Kinds
    <3>2. \A i \in 1 .. Len(records') : records'[i] = "sentinel" => i = Len(records')
      BY <1>0, <3>1
    <3> QED BY <1>0, <2>1, <2>2, <3>1, <3>2 DEF ViewerOK, AllDown
  <2>3. CASE UNCHANGED records
    BY <2>1, <2>3 DEF ViewerOK, AllDown
  <2> QED BY <1>7, <2>2, <2>3 DEF PutSentinel
<1>8. CASE Join \/ LibraryShutsDown
  <2>1. UNCHANGED <<life, conn, records, drain>> /\ viewer # "open" /\ viewer' # "open"
    BY <1>8 DEF Join, LibraryShutsDown, vars, lifeVars, wireVars
  <2> QED BY <1>0, <2>1 DEF ViewerOK, AllDown
<1>9. ASSUME NEW c \in Clients,
             (Connect(c) \/ Undecodable(c) \/ PeerLeaves(c) \/ ConnectionClosed(c)) /\ UNCHANGED viewerVars
      PROVE  Kept
  <2>1. life' = life
    BY <1>9 DEF Connect, Undecodable, PeerLeaves, ConnectionClosed, lifeVars
  <2>2. AllDown' \/ life \notin {"new", "starting", "failing", "failed"}
    BY <1>9 DEF Connect, Undecodable, PeerLeaves, ConnectionClosed, ViewerOK, AllDown
  <2> QED BY <1>1, <1>9, <2>1, <2>2
<1>10. ASSUME NEW c \in Clients, NEW r \in Requests, Receive(c, r) /\ UNCHANGED viewerVars
       PROVE  Kept
  <2>1. life' = life /\ ~AllDown
    BY <1>10 DEF Receive, lifeVars, AllDown
  <2> QED BY <1>1, <1>10, <2>1 DEF ViewerOK
<1>11. ASSUME NEW c \in Clients, DeliverAndRecord(c) PROVE Kept
  <2>1. life' = life /\ ~AllDown
    BY <1>11 DEF DeliverAndRecord, Deliver, lifeVars, AllDown
  <2>2. CASE UNCHANGED viewerVars
    BY <1>1, <2>1, <2>2 DEF ViewerOK
  <2>3. CASE Emit
    <3>1. viewer = "open"
      BY <2>1, ClosedIsDown
    <3>2. ViewerOK'
      BY <2>1, <2>3, <3>1, EmitKeepsViewerOK
    <3> QED BY <3>1, <3>2
  <2> QED BY <1>11, <2>2, <2>3 DEF DeliverAndRecord
<1>12. CASE UNCHANGED viewedVars
  BY <1>0, <1>12 DEF viewedVars, viewerVars, vars, lifeVars, wireVars, ViewerOK, AllDown
<1> HIDE DEF Kept
<1>13. ASSUME NEW c \in Clients, ViewedHandler(c) PROVE Kept
  BY <1>9, <1>11, <1>13 DEF ViewedHandler
<1>14. ASSUME ViewedNext PROVE Kept
  <2>1. CASE \/ ViewedRun \/ ViewedWorker \/ CloseViewer \/ LibraryShutsDown \/ Fetch \/ Log
             \/ Shutdown /\ UNCHANGED viewerVars
    BY <1>2, <1>3, <1>4, <1>5, <1>6, <1>7, <1>8, <2>1 DEF CloseViewer
  <2>2. ASSUME NEW c \in Clients,
               \/ ViewedHandler(c)
               \/ (Connect(c) \/ Undecodable(c) \/ PeerLeaves(c)) /\ UNCHANGED viewerVars
               \/ \E r \in Requests : Receive(c, r) /\ UNCHANGED viewerVars
        PROVE  Kept
    BY <1>9, <1>10, <1>13, <2>2
  <2> QED BY <1>14, <2>1, <2>2 DEF ViewedNext
<1> QED BY <1>12, <1>14

(* For any connections, prompts and queue size: once the viewer is being   *)
(* closed no thread of the server hands it a record, and a drain thread    *)
(* that ended left none in the queue.                                      *)
THEOREM NothingIsRecordedLate == ViewedSpec => []DrainEndsEmpty /\ NothingRecordedLate
<1>1. ViewedInit => ViewerOK
  BY ViewerAssumption DEF ViewedInit, Init, ViewerOK, AllDown
<1>2. IInv /\ ViewerOK /\ [ViewedNext]_viewedVars => ViewerOK'
  BY ViewedStepKeepsViewerOK
<1>3. IInv /\ ViewerOK /\ [ViewedNext]_viewedVars
      => [viewer # "open" => Len(records') <= Len(records)]_viewedVars
  BY ViewedStepKeepsViewerOK
<1>4. ViewerOK => DrainEndsEmpty
  BY DEF ViewerOK, DrainEndsEmpty
<1> QED
  BY <1>1, <1>2, <1>3, <1>4, ViewerAddsNothing, ServesInvariant, PTL
     DEF ViewedSpec, NothingRecordedLate
=============================================================================
