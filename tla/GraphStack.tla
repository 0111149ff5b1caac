------------------------------- MODULE GraphStack -------------------------------
(***************************************************************************)
(* The transformer's block stack replayed from captured CUDA graphs        *)
(* (passes/lingbot/graph_capture.py, GraphBlockStack) over the ring pool,  *)
(* with pools that may keep their storage across an episode's reset        *)
(* (passes/lingbot/stable_pools.py, StableStatePools).                     *)
(*                                                                         *)
(* A graph bakes in what its capture saw: the storage of the pool, the     *)
(* slots it reads and, unless it writes through a plan buffer, the slots   *)
(* it writes.  A replay uses them whatever the ring says by then; only the *)
(* commit after it runs on the host.                                       *)
(*                                                                         *)
(* The thirty layers advance together: one of them stands for all.         *)
(***************************************************************************)
EXTENDS RingServer, SequencesExt

CONSTANTS
  MaxGraphs,    (* max_graphs                                              *)
  Certified,    (* a stability_check is installed                          *)
  MaxMoves      (* bound on the resets that reallocate the pool            *)

ASSUME GraphAssumption ==
  MaxGraphs \in Nat \ {0} /\ Certified \in BOOLEAN /\ MaxMoves \in Nat

VARIABLES
  graphs,       (* the captured graphs, least recently used first          *)
  failed,       (* a capture raised: eager for the rest of the run         *)
  pool,         (* the storage the pool lives in                           *)
  baseline      (* the storage bind() recorded                             *)

graphVars == <<graphs, failed, pool, baseline>>
stackVars == <<serverVars, graphVars>>

-----------------------------------------------------------------------------
(* A slip: the harness's attribute instead of the ring's signature. *)
KeyWithoutSignature(n, uc) == <<n, uc, 0, 0>>

(* Everything the captured kernel sequence bakes in: the ring's signature, *)
(* or a constant once the ring is saturated and writes through the plan.   *)
Key(n, uc) ==
  IF PlannedWrite THEN <<n, uc, Total, Total>> ELSE <<n, uc, start, count>>

Held == {g.key : g \in Range(graphs)}

(* What a capture records for this forward. *)
Captured(n, uc) ==
  [key |-> Key(n, uc), pool |-> pool, planned |-> PlannedWrite, head |-> WriteHead,
   shown |-> Presented(count + n)]

Evicted == IF Len(graphs) >= MaxGraphs THEN Tail(graphs) ELSE graphs

Find(k) == CHOOSE i \in DOMAIN graphs : graphs[i].key = k

(* _touch: the graph that was used goes to the end. *)
Touched(i) == Append(RemoveAt(graphs, i), graphs[i])

(* The K/V traffic of a replay.  Storage that was released holds nothing   *)
(* of this pool's, whatever the graph does to it.                          *)
Replayed(g, n, stamp) ==
  LET block == Block(IF g.planned THEN Buffers(n)[n] ELSE g.head, n)
      written == [s \in Slots |-> IF g.pool = pool /\ s \in block THEN stamp ELSE kv[s]]
  IN /\ kv' = written
     /\ seen' = [i \in DOMAIN g.shown |->
                   <<g.shown[i], IF g.pool = pool THEN written[g.shown[i]] ELSE 0>>]

(* _commit_all, on the host, after the replay. *)
CommitAll(n, uc, stamp) ==
  /\ Grant(n, stamp)
  /\ Bookkeep(n, uc)
  /\ Advance(n, uc)
  /\ RefreshPlan(Buffers(n))

Capture(n, uc, stamp) ==
  /\ ~failed /\ Key(n, uc) \notin Held /\ Fits(n)
  /\ graphs' = Append(Evicted, Captured(n, uc))
  /\ Replayed(Captured(n, uc), n, stamp)
  /\ CommitAll(n, uc, stamp)
  /\ UNCHANGED failed

Replay(n, uc, stamp) ==
  /\ ~failed /\ Key(n, uc) \in Held
  /\ LET i == Find(Key(n, uc)) IN
       /\ graphs' = Touched(i)
       /\ Replayed(graphs[i], n, stamp)
  /\ CommitAll(n, uc, stamp)
  /\ UNCHANGED failed

(* The capture raises, now or before: the blocks run, then the same commit.*)
Eager(n, uc, stamp) ==
  /\ failed \/ Key(n, uc) \notin Held
  /\ failed' = TRUE
  /\ Forward(n, uc, stamp)
  /\ UNCHANGED graphs

StackForward(n, uc, stamp) ==
  /\ Capture(n, uc, stamp) \/ Replay(n, uc, stamp) \/ Eager(n, uc, stamp)
  /\ UNCHANGED <<pool, baseline>>

(* The ring's assertion raises out of a capture and again out of the       *)
(* fallback: the call fails, and so do all captures to come.               *)
StackRaises ==
  /\ Abort
  /\ \/ UNCHANGED failed
     \/ /\ \E n \in NextTokens : ~Fits(n)
        /\ failed' = TRUE
  /\ UNCHANGED <<ringVars, graphs, pool, baseline>>

(* A slip: the pools are bound before the graph pass asks about them. *)
KeepsAfterBinding(now) == Certified

(* The graphs are kept when the pool is where it was when last bound. *)
Keeps(now) == Certified /\ now = baseline

(* A reset clears the pool in place, or reallocates one that does not fit  *)
(* the request; then the graphs are kept or dropped, then the pool's       *)
(* storage is bound.                                                       *)
StackReset ==
  /\ IssueReset /\ InitCache
  /\ \E now \in pool .. MaxMoves :
       /\ now <= pool + 1
       /\ pool' = now
       /\ graphs' = IF Keeps(now) THEN graphs ELSE <<>>
       /\ baseline' = now
  /\ UNCHANGED failed

StackInit ==
  /\ ServerInit
  /\ graphs = <<>> /\ failed = FALSE
  /\ pool = 0 /\ baseline = 0

StackNext ==
  \/ \E n \in KeySizes, uc \in 0 .. 2 : Issue(n, uc) /\ StackForward(n, uc, clock + 1)
  \/ Return /\ UNCHANGED <<ringVars, graphVars>>
  \/ IssueClearPred /\ ClearPred /\ UNCHANGED graphVars
  \/ StackReset
  \/ StackRaises

StackSpec == StackInit /\ [][StackNext]_stackVars

-----------------------------------------------------------------------------
(* No held graph points into storage that was released. *)
GraphsAreLive == \A g \in Range(graphs) : g.pool = pool

(* Replaying, capturing, falling back after a failed capture, keeping or   *)
(* dropping graphs across resets: in an episode in which no call raised,   *)
(* the stack computes what the eager ring server computes, and its replays *)
(* read and write what an eager forward would.  After a call that raised a *)
(* graph that writes through the plan may write where the plan was left,   *)
(* away from the ring's head.                                              *)
ImplementsRing == ServerInit /\ [][clean => ServerNext]_serverVars
=============================================================================
