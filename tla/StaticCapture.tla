------------------------------ MODULE StaticCapture ------------------------------
(***************************************************************************)
(* pi05's denoise step over static buffers, captured once and replayed     *)
(* (examples/pi05_vla/pi05_iwm/static_capture.py).  A chunk of actions is  *)
(* denoised in steps over the K/V of its prefix; the buffers are refilled  *)
(* when a step brings another cache object than the step before.  After    *)
(* WARMUP_STEPS eager steps one step is captured, compared with the        *)
(* upstream step on staged inputs, and replayed or given up for good.  In  *)
(* the other mode the whole loop over the fixed schedule is a graph, and   *)
(* samples of other schedules still come step by step.                     *)
(*                                                                         *)
(* A result is the chunk whose prefix was attended and the timestep whose  *)
(* modulation was used.  One thread calls.                                 *)
(***************************************************************************)
EXTENDS Naturals, FiniteSetsExt

CONSTANTS
  Times,       (* timesteps of the fixed schedule                          *)
  OtherTimes,  (* of a schedule the caller asks for instead                *)
  Warmup,      (* WARMUP_STEPS                                             *)
  NoTime,      (* no timestep: each step its own, or _adarms_buf is None   *)
  MaxChunks    (* bound on the chunks                                      *)

ASSUME CaptureAssumption ==
  /\ NoTime \notin Times \cup OtherTimes /\ IsFiniteSet(Times)
  /\ Warmup \in Nat /\ MaxChunks \in Nat

VARIABLES
  way,         (* full: the loop is captured; tables: _step_tables         *)
  kernels,     (* what a replay computes, see ReplayResult                 *)
  chunk,       (* the cache object of the chunk under way, 0 before any    *)
  stepping,    (* the chunk is denoised step by step                       *)
  begun,       (* _last_cache_obj                                          *)
  held,        (* the chunk whose prefix the static K/V holds, 0: no one's *)
  steps,       (* _steps, up to Warmup                                     *)
  table,       (* timesteps whose modulation is recorded                   *)
  modulation,  (* the timestep _adarms_buf is for                          *)
  stepGraph,   (* _graph                                                   *)
  loopGraph,   (* _chunk_graph                                             *)
  warmed,      (* one sample of the fixed schedule was run                 *)
  released,    (* rejected: upstream serves                                *)
  reply        (* the last result, the due one, and whether it passed      *)

staticVars == <<way, kernels, chunk, stepping, begun, held, steps, table, modulation,
                stepGraph, loopGraph, warmed, released, reply>>

-----------------------------------------------------------------------------
NoGraph == [state |-> "none", saw |-> 0, passed |-> FALSE]

GraphOf(saw, passed) == [state |-> "captured", saw |-> saw, passed |-> passed]

Result(prefix, t) == [prefix |-> prefix, time |-> t]

(* A faithful graph reads the K/V again; another one baked in the values   *)
(* it was captured with, or reads storage that holds no number.            *)
ReplayResult(g, now, t) ==
  CASE kernels = "rereads" -> Result(now, t)
    [] kernels = "bakes" -> Result(g.saw, t)
    [] kernels = "overflows" -> Result(0, t)

Reply(got, due, checked) == reply' = [got |-> got, due |-> due, checked |-> checked]

(* A slip: the staged inputs keep the prefix of the capture. *)
StepAdmitsUnstaged == kernels # "overflows"

(* _self_check: staged noise, then a refilled prefix, exact and finite.    *)
StepAdmits == kernels = "rereads"

(* _full_self_check: the worst difference is kept by max(), which drops a  *)
(* NaN.                                                                    *)
LoopAdmits == kernels # "bakes"

(* _release_and_fall_back: graphs go, projections and upstream return.     *)
Release ==
  /\ stepGraph' = NoGraph /\ loopGraph' = NoGraph
  /\ modulation' = NoTime
  /\ released' = TRUE

-----------------------------------------------------------------------------
(* The prefix is computed anew and the upstream loop begins its steps.     *)
BeginChunk ==
  /\ chunk < MaxChunks
  /\ chunk' = chunk + 1
  /\ stepping' = TRUE
  /\ UNCHANGED <<way, kernels, begun, held, steps, table, modulation,
                 stepGraph, loopGraph, warmed, released, reply>>

(* In the loop's mode the fixed schedule comes as one sample.              *)
StepTimes == OtherTimes \cup (IF way.full THEN {} ELSE Times)

StepReleased(t) ==
  /\ released
  /\ Reply(Result(chunk, t), Result(chunk, t), TRUE)
  /\ UNCHANGED <<begun, held, steps, table, modulation, stepGraph, loopGraph, released>>

(* _begin_chunk: another cache object refills the buffers.                 *)
Refilled == IF chunk = begun THEN held ELSE chunk

Begins == ~released /\ held' = Refilled /\ begun' = chunk

(* A shape that changed, after some layers were written. *)
BeginRaises ==
  /\ ~released /\ chunk # begun
  /\ held' = 0
  /\ UNCHANGED <<begun, steps, table, modulation, stepGraph, loopGraph, released, reply>>

Recorded(t) == IF way.tables THEN table \cup {t} ELSE table

Loaded(t) == IF way.tables THEN t ELSE modulation

StepWarms(t) ==
  /\ Begins
  /\ stepGraph.state = "none" /\ steps < Warmup
  /\ steps' = steps + 1
  /\ table' = Recorded(t)
  /\ Reply(Result(Refilled, IF modulation = NoTime THEN t ELSE modulation), Result(chunk, t), TRUE)
  /\ UNCHANGED <<modulation, stepGraph, loopGraph, released>>

(* The tables take the place of the projections from the first capture on. *)
Capturable == stepGraph.state = "none" /\ steps = Warmup /\ (way.tables => table # {})

StepCaptures(t) ==
  /\ Begins /\ Capturable
  /\ table' = Recorded(t)
  /\ \/ \* the capture raises: the object of the graph stays
        /\ stepGraph' = [NoGraph EXCEPT !.state = "unusable"]
        /\ modulation' = Loaded(t)
        /\ UNCHANGED <<loopGraph, released, reply>>
     \/ \* the check raises: the graph stays
        /\ stepGraph' = GraphOf(Refilled, FALSE)
        /\ modulation' = Loaded(t)
        /\ UNCHANGED <<loopGraph, released, reply>>
     \/ /\ StepAdmits
        /\ stepGraph' = GraphOf(Refilled, TRUE)
        /\ modulation' = Loaded(t)
        /\ Reply(ReplayResult(GraphOf(Refilled, TRUE), Refilled, t), Result(chunk, t), TRUE)
        /\ UNCHANGED <<loopGraph, released>>
     \/ /\ ~StepAdmits
        /\ Release
        /\ Reply(Result(chunk, t), Result(chunk, t), TRUE)
  /\ UNCHANGED steps

StepReplays(t) ==
  /\ Begins
  /\ stepGraph.state = "captured"
  /\ table' = Recorded(t) /\ modulation' = Loaded(t)
  /\ Reply(ReplayResult(stepGraph, Refilled, t), Result(chunk, t), stepGraph.passed)
  /\ UNCHANGED <<steps, stepGraph, loopGraph, released>>

(* An unusable graph is replayed, or there is nothing to fill the tables   *)
(* with: the step raises.                                                  *)
StepRaises(t) ==
  /\ Begins
  /\ \/ /\ stepGraph.state = "unusable"
        /\ table' = Recorded(t) /\ modulation' = Loaded(t)
     \/ /\ stepGraph.state = "none" /\ steps = Warmup /\ ~Capturable
        /\ UNCHANGED <<table, modulation>>
  /\ UNCHANGED <<steps, stepGraph, loopGraph, released, reply>>

Step(t) ==
  /\ stepping /\ t \in StepTimes
  /\ \/ StepReleased(t) \/ BeginRaises \/ StepWarms(t)
     \/ StepCaptures(t) \/ StepReplays(t) \/ StepRaises(t)
  /\ UNCHANGED <<way, kernels, chunk, stepping, warmed>>

-----------------------------------------------------------------------------
(* A sample of the fixed schedule: the prefix, then the loop.              *)
Due == Result(chunk + 1, NoTime)

SampleUpstream ==
  /\ released
  /\ Reply(Due, Due, TRUE)
  /\ UNCHANGED <<begun, held, steps, table, modulation, stepGraph, loopGraph, warmed, released>>

LoopBegins == ~released /\ held' = chunk + 1 /\ begun' = chunk + 1

SampleWarms ==
  /\ LoopBegins
  /\ ~warmed /\ loopGraph = NoGraph
  /\ warmed' = TRUE
  /\ steps' = Min({Warmup, steps + Cardinality(Times)})
  /\ Reply(Result(chunk + 1, modulation), Due, TRUE)
  /\ UNCHANGED <<table, modulation, stepGraph, loopGraph, released>>

(* The loop is captured with the modulation of each of its steps, and      *)
(* compared on complete samples, which leave a staged prefix behind.       *)
SampleCaptures ==
  /\ ~released
  /\ warmed /\ loopGraph = NoGraph
  /\ held' = 0 /\ begun' = 0
  /\ table' = IF way.tables THEN table \cup Times ELSE table
  /\ \/ /\ LoopAdmits
        /\ loopGraph' = GraphOf(chunk + 1, TRUE)
        /\ Reply(ReplayResult(loopGraph', chunk + 1, NoTime), Due, TRUE)
        /\ UNCHANGED <<modulation, stepGraph, released>>
     \/ /\ ~LoopAdmits
        /\ Release
        /\ Reply(Due, Due, TRUE)
  /\ UNCHANGED <<steps, warmed>>

SampleReplays ==
  /\ LoopBegins
  /\ loopGraph.state = "captured"
  /\ Reply(ReplayResult(loopGraph, chunk + 1, NoTime), Due, loopGraph.passed)
  /\ UNCHANGED <<steps, table, modulation, stepGraph, loopGraph, warmed, released>>

(* Whatever raises on the way, upstream answers, now and from now on.      *)
SampleRaises ==
  /\ ~released
  /\ Release
  /\ Reply(Due, Due, TRUE)
  /\ UNCHANGED <<begun, held, steps, table, warmed>>

Sample ==
  /\ way.full /\ chunk < MaxChunks
  /\ chunk' = chunk + 1 /\ stepping' = FALSE
  /\ SampleUpstream \/ SampleWarms \/ SampleCaptures \/ SampleReplays \/ SampleRaises
  /\ UNCHANGED <<way, kernels>>

Nothing == [got |-> Result(0, NoTime), due |-> Result(0, NoTime), checked |-> TRUE]

StaticInit ==
  /\ way \in [full : BOOLEAN, tables : BOOLEAN]
  /\ kernels \in {"rereads", "bakes", "overflows"}
  /\ chunk = 0 /\ stepping = FALSE /\ begun = 0 /\ held = 0
  /\ steps = 0 /\ table = {} /\ modulation = NoTime
  /\ stepGraph = NoGraph /\ loopGraph = NoGraph
  /\ warmed = FALSE /\ released = FALSE
  /\ reply = Nothing

(* The model is loaded again, and the capture installed on it.             *)
Reload ==
  /\ chunk' = 0 /\ stepping' = FALSE /\ begun' = 0 /\ held' = 0
  /\ steps' = 0 /\ table' = {} /\ modulation' = NoTime
  /\ stepGraph' = NoGraph /\ loopGraph' = NoGraph
  /\ warmed' = FALSE /\ released' = FALSE
  /\ reply' = Nothing
  /\ UNCHANGED <<way, kernels>>

StaticNext == Reload \/ BeginChunk \/ Sample \/ \E t \in Times \cup OtherTimes : Step(t)

StaticSpec == StaticInit /\ [][StaticNext]_staticVars

-----------------------------------------------------------------------------
(* The first sample of the fixed schedule, after steps of another one have *)
(* put the tables in place, reads the modulation of the last of them.      *)
WarmsUpOnTables ==
  loopGraph = NoGraph /\ modulation # NoTime /\ reply.due.time = NoTime

(* What is served is what upstream computes, on this chunk's prefix and    *)
(* this step's modulation: from faithful graphs in any case, from others   *)
(* as long as the graph that serves was checked.  The check of whole       *)
(* samples does not see a NaN, and warming up on tables is excepted.       *)
RepliesAreUpstreams ==
  \/ WarmsUpOnTables
  \/ kernels # "rereads" /\ ~reply.checked
  \/ kernels = "overflows" /\ way.full
  \/ reply.got = reply.due

(* "No capture is trusted by construction": what is served comes from      *)
(* upstream, from the warm-up, or from a graph that passed its check.      *)
OnlyCheckedGraphsServe == reply.checked
=============================================================================
