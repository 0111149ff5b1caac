---------------------------- MODULE PoolCertificate ----------------------------
(***************************************************************************)
(* When may captured graphs survive the reset of an episode?  The storage  *)
(* a graph reads is kept in place by passes/stable_pools.py (StablePools), *)
(* applied to the sites adapters/lingbot.py publishes (LingBotSurface);    *)
(* the certificate runtime/lingbot_worker.py installs compares addresses   *)
(* with a baseline (_generic_stability); passes/lingbot/graph_capture.py   *)
(* keeps its graphs if it agrees and drops them if not.                    *)
(*                                                                         *)
(* A site is one layer's KV pool or one layer's cross-attention K/V.  What *)
(* the storage holds is the subject of GraphStack; here only where it is.  *)
(* The hoisted casts the certificate also covers are produced once and     *)
(* never move.                                                             *)
(***************************************************************************)
EXTENDS Integers, FiniteSets

CONSTANTS
  Pools,          (* KV pools: reallocated by every reset                  *)
  CrossKVs,       (* cross-attention K/V: by every reset with a prompt     *)
  Addresses,
  Nowhere,        (* the site holds no storage                             *)
  PromptFirst     (* the first reset carries a prompt                      *)

Sites == Pools \cup CrossKVs

ASSUME SitesAssumption ==
  /\ IsFiniteSet(Sites) /\ Pools \cap CrossKVs = {} /\ Pools # {}
  /\ Nowhere \notin Addresses
  /\ PromptFirst \in BOOLEAN

VARIABLES
  at,             (* where the storage of each site is                     *)
  sites,          (* the sites the surface published: wrapped and tracked  *)
  box,            (* the storage a wrapped site keeps                      *)
  pending,        (* sites allocated since the last baseline               *)
  pointers,       (* pointers: addresses by site, of the sites recorded    *)
  captured,       (* captured graphs: the addresses each one reads         *)
  resets,         (* resets so far, up to three                            *)
  prompted        (* every reset so far carried a prompt                   *)

certificateVars == <<at, sites, box, pending, pointers, captured, resets, prompted>>

CertificateInit ==
  /\ at = [s \in Sites |-> Nowhere]
  /\ sites = {} /\ box = [s \in Sites |-> Nowhere]
  /\ pending = {} /\ pointers = <<>>
  /\ captured = {}
  /\ resets = 0 /\ prompted = TRUE

-----------------------------------------------------------------------------
(* The sites a reset asks storage for. *)
Requested(prompt) == IF prompt THEN Sites ELSE Pools

(* Wrapped sites that keep storage hand it out again; the others allocate. *)
Kept(prompt) == {s \in Requested(prompt) : box[s] # Nowhere}

Allocated(prompt) == Requested(prompt) \ Kept(prompt)

(* What the allocator may return: storage nobody holds.  What the last     *)
(* episode held, outside the boxes, was released first.                    *)
Fresh(prompt) ==
  {f \in [Allocated(prompt) -> Addresses] :
     /\ \A s \in Allocated(prompt), b \in Sites : f[s] # box[b]
     /\ \A s, t \in Allocated(prompt) : f[s] = f[t] => s = t}

Placed(prompt, f) ==
  [s \in Sites |-> CASE s \in Kept(prompt) -> box[s]
                     [] s \in Allocated(prompt) -> f[s]
                     [] OTHER -> Nowhere]

(* The surface is built at the end of the first reset, from the sites that *)
(* have storage then.                                                      *)
Published(now) ==
  IF resets = 0 THEN {s \in Sites : now[s] # Nowhere} ELSE sites

(* The first call of a wrapped allocator keeps what it returns ...         *)
Boxed(now) == [s \in Sites |-> IF s \in sites /\ now[s] # Nowhere THEN now[s] ELSE box[s]]

(* ... and leaves the site to be certified.                                *)
Pending(prompt) == pending \cup (sites \cap Allocated(prompt))

(* pools(): the tracked storage there is. *)
Tracked(now) == [s \in {t \in Published(now) : now[t] # Nowhere} |-> now[s]]

(* A slip: an allocation records itself, so the baseline follows it. *)
StableRecording(prompt, now) ==
  /\ DOMAIN pointers # {}
  /\ \A s \in DOMAIN pointers :
       s \in DOMAIN Tracked(now) /\ (s \notin Allocated(prompt) => Tracked(now)[s] = pointers[s])

(* pointers_stable *)
Stable(prompt, now) ==
  /\ Pending(prompt) = {}
  /\ DOMAIN pointers # {}
  /\ \A s \in DOMAIN pointers :
       s \in DOMAIN Tracked(now) /\ Tracked(now)[s] = pointers[s]

(* A slip: the baseline moves only once. *)
RebaselinesOnce(prompt) == DOMAIN pointers = {}

(* _generic_stability: the first certification, or storage of wrapped      *)
(* sites that has moved, moves the baseline.                               *)
Rebaselines(prompt) == DOMAIN pointers = {} \/ Pending(prompt) # {}

Reset(prompt) ==
  /\ resets = 0 /\ PromptFirst => prompt
  /\ \E f \in Fresh(prompt) :
       LET now == Placed(prompt, f)
           stable == Stable(prompt, now)
           moves == ~stable /\ Rebaselines(prompt)
       IN /\ at' = now
          /\ sites' = Published(now)
          /\ box' = Boxed(now)
          /\ pointers' = IF moves THEN Tracked(now) ELSE pointers
          /\ pending' = IF moves THEN {} ELSE Pending(prompt)
          /\ captured' = IF stable THEN captured ELSE {}
  /\ resets' = IF resets < 3 THEN resets + 1 ELSE resets
  /\ prompted' = (prompted /\ prompt)

(* A forward of the episode captures the stack: an episode without a       *)
(* prompt has no text to run on.                                           *)
CaptureAll ==
  /\ resets > 0 /\ \A s \in Sites : at[s] # Nowhere
  /\ captured' = captured \cup {at}
  /\ UNCHANGED <<at, sites, box, pending, pointers, resets, prompted>>

CertificateNext == CaptureAll \/ \E prompt \in BOOLEAN : Reset(prompt)

CertificateSpec == CertificateInit /\ [][CertificateNext]_certificateVars

-----------------------------------------------------------------------------
CertificateTypeOK ==
  /\ at \in [Sites -> Addresses \cup {Nowhere}]
  /\ sites \subseteq Sites /\ pending \subseteq sites
  /\ box \in [Sites -> Addresses \cup {Nowhere}]
  /\ DOMAIN pointers \subseteq sites
  /\ \A s \in sites : box[s] # Nowhere /\ at[s] # Nowhere => at[s] = box[s]
  /\ \A s, t \in Sites : at[s] = at[t] /\ at[s] # Nowhere => s = t

(* The certificate fails closed: a graph that survived a reset reads the   *)
(* storage the model now writes, every part of it.                         *)
KeptGraphsAreLive ==
  \A g \in captured, s \in Sites : at[s] # Nowhere => g[s] = at[s]

(* Graphs drop once the passes take hold and survive every reset after:    *)
(* while resets carry prompts, none from the third on drops a graph.       *)
SurvivesFromThirdReset ==
  [][resets >= 2 /\ prompted' => captured \subseteq captured']_certificateVars
=============================================================================
