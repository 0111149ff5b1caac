------------------------------- MODULE GraphTable -------------------------------
(***************************************************************************)
(* The table of captured graphs of the generic pass                        *)
(* (passes/graph_capture.py) and of GraphExecutor (executors/executor.py). *)
(* A graph is kept under a slot: shapes, frozen metadata, extent.  It      *)
(* answers from what its capture saw, whatever the caller has by then.     *)
(*                                                                         *)
(* Metadata that is an opaque object is keyed by its address               *)
(* (executors/binding.py, _hashable), and Python hands the address of an   *)
(* object that was freed to the next one.                                  *)
(***************************************************************************)
EXTENDS Naturals, SequencesExt

CONSTANTS
  Inputs,      (* the values of the tensor arguments                       *)
  MetaAddresses,   (* of opaque metadata objects                               *)
  Extents,     (* of the host state the region slices by                   *)
  MaxEntries,  (* max_graphs                                               *)
  MaxObjects   (* bound on the metadata objects the caller makes           *)

ASSUME TableAssumption == MaxEntries \in Nat \ {0} /\ MaxObjects \in Nat \ {0}

VARIABLES
  host,        (* who keeps the table: "pass" or "executor"                *)
  region,      (* what the captured region is like, see Regions            *)
  meta,        (* the metadata object the caller passes now                *)
  extent,      (* the extent now                                           *)
  entries,     (* the graphs, oldest first                                 *)
  stable,      (* slot -> the metadata object its owned arguments hold     *)
  unchecked,   (* pending: captured, not validated yet                     *)
  rejected,    (* slots whose replay was seen to disagree                  *)
  answer       (* what the last call returned, and what eager returns      *)

tableVars ==
  <<host, region, meta, extent, entries, stable, unchecked, rejected, answer>>

(* Kernels that read their arguments again, that baked in the values they  *)
(* were captured with, or host code that a replay would not run.           *)
Regions == {"rereads", "bakes", "mutates"}

-----------------------------------------------------------------------------
(* A slip: the extent is not part of the key. *)
SlotWithoutExtent(m, e) == <<m.addr>>

Slot(m, e) == <<m.addr, e>>

Here == Slot(meta, extent)

SlotsOf(es) == {es[i].slot : i \in DOMAIN es}

Tabled == SlotsOf(entries)

At == CHOOSE i \in DOMAIN entries : entries[i].slot = Here

Entry == entries[At]

EagerOut(x) == [in |-> x, obj |-> meta.obj, extent |-> extent]

ReplayOut(g, x) == [g.saw EXCEPT !.in = IF region = "bakes" THEN @ ELSE x]

Answered(out, x) == answer' = [got |-> out, eager |-> EagerOut(x)]

(* What the caller and the stable arguments hold is alive. *)
Taken == {stable[s].addr : s \in DOMAIN stable}

-----------------------------------------------------------------------------
(* A slip: no owned arguments are kept once the graphs are captured. *)
KeptNothing(kept) == <<>>

(* The stable arguments of the graphs in kept, this call's among them, and *)
(* of captures that raised.                                                *)
KeptAlive(kept) ==
  [s \in (DOMAIN stable \ Tabled) \cup SlotsOf(kept) |->
     IF s = Here THEN meta ELSE stable[s]]

(* while len(graphs) >= max_graphs: the oldest goes, with its arguments. *)
Room == IF Len(entries) >= MaxEntries THEN Tail(entries) ELSE entries

AddGraph(x) ==
  LET made == Append(Room, [slot |-> Here, saw |-> EagerOut(x)]) IN
  /\ entries' = made
  /\ stable' = KeptAlive(made)

Forgotten ==
  /\ entries' = RemoveAt(entries, At)
  /\ stable' = [s \in DOMAIN stable \ {Here} |-> stable[s]]

(* The pass runs the region itself: the slot is rejected, the gate refuses *)
(* the region, or its capture raised.                                      *)
FallBack(x) ==
  /\ host = "pass"
  /\ Here \notin Tabled
  /\ Answered(EagerOut(x), x)
  /\ UNCHANGED <<entries, stable, unchecked, rejected>>

(* A graph that is new to the table, or that was left unchecked by a       *)
(* validation that raised, is compared with eager on this call's input.    *)
Agrees(g, x) == ReplayOut(g, x) = EagerOut(x)

CaptureAndCheck(x) ==
  /\ host = "pass" /\ region # "mutates"
  /\ Here \notin Tabled \cup rejected
  /\ AddGraph(x)
  /\ \/ /\ Answered(EagerOut(x), x)
        /\ unchecked' = unchecked \ {Here}
     \/ \* the reference run of the validation raises
        /\ unchecked' = unchecked \cup {Here}
        /\ UNCHANGED answer
  /\ UNCHANGED rejected

Check(x) ==
  /\ host = "pass"
  /\ Here \in Tabled \cap unchecked
  /\ unchecked' = unchecked \ {Here}
  /\ Answered(EagerOut(x), x)
  /\ IF Agrees(Entry, x)
       THEN UNCHANGED <<entries, stable, rejected>>
       ELSE /\ rejected' = rejected \cup {Here}
            /\ Forgotten

TableReplay(x) ==
  /\ Here \in Tabled \ unchecked
  /\ Answered(ReplayOut(Entry, x), x)
  /\ UNCHANGED <<entries, stable, unchecked, rejected>>

(* The executor captures, replays at once and checks nothing.              *)
CaptureAndReplay(x) ==
  /\ host = "executor" /\ region = "rereads"
  /\ Here \notin Tabled
  /\ AddGraph(x)
  /\ Answered(EagerOut(x), x)
  /\ UNCHANGED <<unchecked, rejected>>

(* A capture that raises leaves the stable arguments it was to run on.     *)
CaptureFails ==
  /\ host = "executor"
  /\ Here \notin Tabled
  /\ stable' = [s \in DOMAIN stable \cup {Here} |->
                  IF s = Here THEN meta ELSE stable[s]]
  /\ UNCHANGED <<entries, unchecked, rejected, answer>>

Call(x) ==
  /\ \/ FallBack(x) \/ CaptureAndCheck(x) \/ Check(x) \/ TableReplay(x)
     \/ CaptureAndReplay(x) \/ CaptureFails
  /\ UNCHANGED <<host, region, meta, extent>>

(* The caller replaces its metadata object; the old one is freed, and its  *)
(* address may be the new one's, unless a stable argument holds it.        *)
Swap ==
  /\ meta.obj < MaxObjects
  /\ \E a \in MetaAddresses \ Taken : meta' = [obj |-> meta.obj + 1, addr |-> a]
  /\ UNCHANGED <<host, region, extent, entries, stable, unchecked, rejected, answer>>

Grow ==
  /\ extent' \in Extents \ {extent}
  /\ UNCHANGED <<host, region, meta, entries, stable, unchecked, rejected, answer>>

TableInit ==
  /\ host \in {"pass", "executor"}
  /\ region \in Regions
  /\ host = "executor" => region = "rereads"
  /\ \E a \in MetaAddresses : meta = [obj |-> 1, addr |-> a]
  /\ extent \in Extents
  /\ entries = <<>>
  /\ stable = <<>>
  /\ unchecked = {} /\ rejected = {}
  /\ \E x \in Inputs : answer = [got |-> EagerOut(x), eager |-> EagerOut(x)]

TableNext == (\E x \in Inputs : Call(x)) \/ Swap \/ Grow

TableSpec == TableInit /\ [][TableNext]_tableVars

-----------------------------------------------------------------------------
(* A call answers what eager answers on its own arguments, metadata and    *)
(* extent, through evictions, failed captures, failed validations and      *)
(* reused addresses, if the kernels read their arguments again.            *)
AnswersAreEager == region # "bakes" => answer.got = answer.eager

(* "check the graph against an input it was NOT captured from, once, and   *)
(* discard it if the answers differ": then a region that bakes its input   *)
(* in is never served from a graph that no longer fits.                    *)
WrongReplaysAreDiscarded == answer.got = answer.eager
=============================================================================
