------------------------------ MODULE WorkerBackend ------------------------------
(***************************************************************************)
(* Hosting the model in a managed subprocess (runtime/execution.py,        *)
(* WorkerBackend): the worker is spawned by the first call, waited for     *)
(* until its port answers, driven over one connection and torn down by     *)
(* close().  Several backends may run on one host; each chose its port     *)
(* when it was built, long before its worker binds it.                     *)
(*                                                                         *)
(* The actors are the caller of each backend, which issues one call at a   *)
(* time, and each backend's worker process.  A worker may answer, refuse,  *)
(* hang up, die, or listen and never answer.                               *)
(***************************************************************************)
EXTENDS Integers, FiniteSets

CONSTANTS
  Backends,
  Ports,          (* ports _free_port may find                             *)
  NoClient,       (* _client is None                                       *)
  Broken          (* a client whose worker is gone                         *)

ASSUME BackendAssumption ==
  NoClient \notin Backends /\ Broken \notin Backends \cup {NoClient}

VARIABLES
  port,           (* _port, chosen by __init__                             *)
  proc,           (* _proc is not None                                     *)
  client,         (* the worker the connection leads to, which is _client  *)
                  (* once the worker has greeted                           *)
  worker,         (* the process: none, loading, listening or exited       *)
  pc,             (* what the backend's call does next                     *)
  served,         (* the worker that answered the last call                *)
  conversation    (* of the calls since the last close(): "none" answered, *)
                  (* "open", or the connection that answered is "lost"     *)

backendVars == <<port, proc, client, pc, served, conversation>>
vars == <<backendVars, worker>>

Alive(b) == worker[b] \in {"loading", "listening"}

(* A slip: every worker listens on one well-known port. *)
ListeningAnywhere(p) == {b \in Backends : worker[b] = "listening"}

Listening(p) == {b \in Backends : worker[b] = "listening" /\ port[b] = p}

Init ==
  /\ port \in [Backends -> Ports]
  /\ proc = [b \in Backends |-> FALSE]
  /\ client = [b \in Backends |-> NoClient]
  /\ worker = [b \in Backends |-> "none"]
  /\ pc = [b \in Backends |-> "idle"]
  /\ served = [b \in Backends |-> NoClient]
  /\ conversation = [b \in Backends |-> "none"]

-----------------------------------------------------------------------------
GoTo(b, step) == pc' = [pc EXCEPT ![b] = step]

(* A slip: a call that finds its worker dead starts another. *)
CallReplacing(b) ==
  /\ pc[b] = "idle"
  /\ served' = [served EXCEPT ![b] = NoClient]
  /\ GoTo(b, IF client[b] \in Backends THEN "infer"
             ELSE IF proc[b] /\ worker[b] # "exited" THEN "connect" ELSE "spawn")
  /\ UNCHANGED <<port, proc, client, worker, conversation>>

(* predict() or reset(): _ensure() finds a client, a worker, or neither.   *)
(* It asks neither of them whether it still lives.                         *)
Call(b) ==
  /\ pc[b] = "idle"
  /\ served' = [served EXCEPT ![b] = NoClient]
  /\ GoTo(b, IF client[b] # NoClient THEN "infer" ELSE IF proc[b] THEN "connect" ELSE "spawn")
  /\ UNCHANGED <<port, proc, client, worker, conversation>>

Spawn(b) ==
  /\ pc[b] = "spawn"
  /\ proc' = [proc EXCEPT ![b] = TRUE]
  /\ worker' = [worker EXCEPT ![b] = "loading"]
  /\ GoTo(b, "wait")
  /\ UNCHANGED <<port, client, served, conversation>>

(* No worker_command, a seed it does not take, or no process. *)
SpawnRaises(b) ==
  /\ pc[b] = "spawn"
  /\ GoTo(b, "idle")
  /\ UNCHANGED <<port, proc, client, served, worker, conversation>>

(* _wait_for_port: the worker exited, or the port answers.                 *)
WorkerExited(b) ==
  /\ pc[b] = "wait" /\ worker[b] = "exited"
  /\ GoTo(b, "idle")
  /\ UNCHANGED <<port, proc, client, served, worker, conversation>>

PortAnswers(b) ==
  /\ pc[b] = "wait" /\ worker[b] # "exited" /\ Listening(port[b]) # {}
  /\ GoTo(b, "connect")
  /\ UNCHANGED <<port, proc, client, served, worker, conversation>>

(* A slip: the deadline passes and the worker is left to its fate. *)
DeadlineRaising(b) ==
  /\ pc[b] = "wait"
  /\ proc' = [proc EXCEPT ![b] = FALSE]
  /\ GoTo(b, "idle")
  /\ UNCHANGED <<port, client, served, worker, conversation>>

Deadline(b) ==
  /\ pc[b] = "wait"
  /\ GoTo(b, "close")
  /\ UNCHANGED <<port, proc, client, served, worker, conversation>>

(* A slip: a refused connection is retried. *)
ConnectRetrying(b) ==
  /\ pc[b] = "connect"
  /\ \/ \E w \in Listening(port[b]) :
          /\ client' = [client EXCEPT ![b] = w]
          /\ GoTo(b, "greet")
     \/ Listening(port[b]) = {} /\ UNCHANGED <<client, pc>>
  /\ UNCHANGED <<port, proc, served, worker, conversation>>

(* Whoever listens on the port accepts; or the connection is refused, or   *)
(* its handshake runs into the library's timeout, and the call raises.     *)
Connect(b) ==
  /\ pc[b] = "connect"
  /\ \/ \E w \in Listening(port[b]) :
          /\ client' = [client EXCEPT ![b] = w]
          /\ GoTo(b, "greet")
     \/ GoTo(b, "idle") /\ UNCHANGED client
  /\ UNCHANGED <<port, proc, served, worker, conversation>>

(* recv() of the metadata, which has no timeout.  What the worker sends    *)
(* makes a client, or cannot be decoded or wrapped and the call raises.    *)
Greet(b) ==
  /\ pc[b] = "greet" /\ client[b] # Broken
  /\ \/ GoTo(b, "infer") /\ UNCHANGED client
     \/ GoTo(b, "idle") /\ client' = [client EXCEPT ![b] = NoClient]
  /\ UNCHANGED <<port, proc, served, worker, conversation>>

GreetLost(b) ==
  /\ pc[b] = "greet" /\ client[b] = Broken
  /\ client' = [client EXCEPT ![b] = NoClient]
  /\ GoTo(b, "idle")
  /\ UNCHANGED <<port, proc, served, worker, conversation>>

(* recv() of the answer, which has no timeout: a prediction or a refusal.  *)
Answer(b) ==
  /\ pc[b] = "infer" /\ client[b] # Broken
  /\ GoTo(b, "idle")
  /\ served' = [served EXCEPT ![b] = client[b]]
  /\ conversation' = [conversation EXCEPT ![b] = "open"]
  /\ UNCHANGED <<port, proc, client, worker>>

(* The connection is gone: the call raises, and _client stays. *)
AnswerLost(b) ==
  /\ pc[b] = "infer" /\ client[b] = Broken
  /\ GoTo(b, "idle")
  /\ UNCHANGED <<port, proc, client, served, worker, conversation>>

(* close(), by the owner or at exit. *)
BeginClose(b) ==
  /\ pc[b] = "idle"
  /\ GoTo(b, "close")
  /\ UNCHANGED <<port, proc, client, served, worker, conversation>>

Drop(b) ==
  /\ pc[b] = "close"
  /\ client' = [client EXCEPT ![b] = NoClient]
  /\ proc' = [proc EXCEPT ![b] = FALSE]
  /\ conversation' = [conversation EXCEPT ![b] = "none"]
  /\ GoTo(b, IF proc[b] /\ Alive(b) THEN "terminate" ELSE "idle")
  /\ UNCHANGED <<port, served, worker>>

(* The connections of these backends end. *)
Cut(cut) ==
  /\ client' = [b \in Backends |-> IF b \in cut THEN Broken ELSE client[b]]
  /\ conversation' = [b \in Backends |->
       IF b \in cut /\ conversation[b] = "open" THEN "lost" ELSE conversation[b]]

(* A process ends, and with it the connections to it. *)
Exits(b) ==
  /\ worker' = [worker EXCEPT ![b] = "exited"]
  /\ Cut({a \in Backends : client[a] = b})

(* terminate() and wait; a worker that does not obey is killed. *)
Terminate(b) ==
  /\ pc[b] = "terminate"
  /\ Exits(b)
  /\ GoTo(b, "idle")
  /\ UNCHANGED <<port, proc, served>>

(* The worker: it binds its port, which fails when the port is taken; it   *)
(* may hang up on its backend or die at any time.                          *)
Bind(b) ==
  /\ worker[b] = "loading"
  /\ worker' = [worker EXCEPT ![b] = IF Listening(port[b]) = {} THEN "listening" ELSE "exited"]
  /\ UNCHANGED backendVars

Die(b) ==
  /\ Alive(b)
  /\ Exits(b)
  /\ UNCHANGED <<port, proc, pc, served>>

HangUp(b) ==
  /\ client[b] \in Backends
  /\ Cut({b})
  /\ UNCHANGED <<port, proc, pc, served, worker>>

(* The steps of a call that wait for nobody, or no longer than a timeout.  *)
TimedStep(b) ==
  \/ Spawn(b) \/ SpawnRaises(b) \/ WorkerExited(b) \/ PortAnswers(b) \/ Deadline(b)
  \/ Connect(b) \/ GreetLost(b) \/ AnswerLost(b) \/ Drop(b) \/ Terminate(b)

WorkerStep(b) == Greet(b) \/ Answer(b) \/ Bind(b) \/ HangUp(b) \/ Die(b)

Next == \E b \in Backends : Call(b) \/ BeginClose(b) \/ TimedStep(b) \/ WorkerStep(b)

(* A call under way runs on, except where it waits for the worker's next   *)
(* frame: nothing is assumed of the worker.                                *)
Spec == Init /\ [][Next]_vars /\ \A b \in Backends : WF_vars(TimedStep(b))

-----------------------------------------------------------------------------
TypeOK ==
  /\ port \in [Backends -> Ports]
  /\ proc \in [Backends -> BOOLEAN]
  /\ client \in [Backends -> Backends \cup {NoClient, Broken}]
  /\ worker \in [Backends -> {"none", "loading", "listening", "exited"}]
  /\ pc \in [Backends -> {"idle", "spawn", "wait", "connect", "greet", "infer", "close", "terminate"}]
  /\ conversation \in [Backends -> {"none", "open", "lost"}]
  /\ \A b \in Backends : client[b] # NoClient => proc[b]

(* Between calls every live worker is one its backend still holds, so that *)
(* close() and the handler at exit can reach it: none is orphaned.         *)
NoOrphan == \A b \in Backends : pc[b] = "idle" /\ Alive(b) => proc[b]

(* A conversation is never carried on by another worker or connection than *)
(* the one it began with, which alone holds the episode: once that one is  *)
(* lost every call raises until the owner has closed the backend.          *)
NoSilentReplacement ==
  [][\A b \in Backends :
       served[b] = NoClient /\ served'[b] # NoClient => conversation[b] # "lost"]_vars

(* _client or the metadata are to come from a worker that is connected. *)
AwaitsWorker(b) == pc[b] \in {"greet", "infer"} /\ client[b] # Broken

(* Every call and every close returns, unless it waits for a frame of a    *)
(* worker that keeps the connection and sends nothing: there the code has  *)
(* neither timeout nor ping.                                               *)
OnlyTheWorkerIsAwaited ==
  \A b \in Backends : (pc[b] # "idle") ~> (pc[b] = "idle" \/ AwaitsWorker(b))

(* The model a backend answers from is the worker it started, unless       *)
(* another backend of the host was given the same port: then it may be     *)
(* that one's.                                                             *)
ServedByOwnWorker ==
  \A b \in Backends :
    (\A a \in Backends : port[a] = port[b] => a = b) => served[b] \in {b, NoClient}
=============================================================================
