-------------------------------- MODULE Autotune --------------------------------
(***************************************************************************)
(* Choosing between implementations by timing them (autotune.py) and       *)
(* remembering the choice in one file that all processes of the host read  *)
(* and write.  The document is read, changed, written to one temporary     *)
(* file beside it and renamed over it; no lock is taken.  A process may    *)
(* die at any step.  The model follows one key of the document.            *)
(***************************************************************************)
EXTENDS Naturals, FiniteSets

CONSTANTS
  Processes,
  Candidates,
  Baseline,
  ClaimedTier,   (* candidate -> 0 bit-exact, 1 numeric, 2 behavioral      *)
  Ceilings,      (* the tier ceilings processes run under                  *)
  Exact,         (* the candidates whose results equal the baseline's      *)
  NoEntry        (* no choice, or a document without one                   *)

ASSUME TuneAssumption ==
  /\ Baseline \in Candidates /\ Baseline \in Exact
  /\ ClaimedTier \in [Candidates -> 0 .. 2] /\ ClaimedTier[Baseline] = 0
  /\ Ceilings \subseteq 0 .. 2
  /\ NoEntry \notin Candidates
  /\ {"absent", "empty", "torn"} \cap (Candidates \cup {NoEntry}) = {}

VARIABLES
  tmp, cache,    (* the two files: absent, empty, torn, or the document    *)
  call,          (* process -> its call of autotune()                      *)
  opened,        (* process -> the file its descriptor leads to            *)
  answer,        (* the last decision: the candidate, and under what        *)
  overlapped,    (* two processes stored at the same time                  *)
  unverified     (* some call had nothing to verify with                   *)

tuneVars == <<tmp, cache, call, opened, answer, overlapped, unverified>>

Idle == [pc |-> "idle", ceiling |-> 0, verify |-> FALSE, chosen |-> NoEntry]

TuneInit ==
  /\ tmp = "absent" /\ cache = "absent"
  /\ call = [p \in Processes |-> Idle]
  /\ opened = [p \in Processes |-> "none"]
  /\ answer = [chosen |-> Baseline, ceiling |-> 0, forced |-> FALSE]
  /\ overlapped = FALSE /\ unverified = FALSE

-----------------------------------------------------------------------------
Eligible(ceiling) == {c \in Candidates : ClaimedTier[c] <= ceiling}

(* _cache_load: a file that does not parse holds nothing. *)
Parsed(file) == IF file \in {"absent", "empty", "torn"} THEN NoEntry ELSE file

(* A slip: a cached winner is trusted whatever the ceiling. *)
CachedForAny(ceiling) == Parsed(cache) # NoEntry

Cached(ceiling) == Parsed(cache) \in Eligible(ceiling)

Answers(c, ceiling, forced) == answer' = [chosen |-> c, ceiling |-> ceiling, forced |-> forced]

(* Disabled, or no device, or one eligible candidate, or it is forced. *)
Decide(p, ceiling) ==
  /\ call[p].pc = "idle"
  /\ \/ Answers(Baseline, ceiling, FALSE)
     \/ \E c \in Eligible(ceiling) : Answers(c, ceiling, TRUE)
  /\ UNCHANGED <<tmp, cache, call, opened, overlapped, unverified>>

Hit(p, ceiling) ==
  /\ call[p].pc = "idle" /\ Eligible(ceiling) # {Baseline}
  /\ Cached(ceiling)
  /\ Answers(Parsed(cache), ceiling, FALSE)
  /\ UNCHANGED <<tmp, cache, call, opened, overlapped, unverified>>

Miss(p, ceiling, verify) ==
  /\ call[p].pc = "idle" /\ Eligible(ceiling) # {Baseline}
  /\ ~Cached(ceiling)
  /\ call' = [call EXCEPT ![p] = [pc |-> "measure", ceiling |-> ceiling,
                                  verify |-> verify, chosen |-> NoEntry]]
  /\ unverified' = (unverified \/ ~verify)
  /\ UNCHANGED <<tmp, cache, opened, answer, overlapped>>

(* The baseline, what claims no equality, and all when nothing verifies.   *)
Untested(p) ==
  {c \in Eligible(call[p].ceiling) :
     c = Baseline \/ ClaimedTier[c] # 0 \/ ~call[p].verify}

(* A claim of equality is refused when it is measured and does not hold,   *)
(* or when the measurement raises.                                         *)
Kept(p) ==
  {kept \in SUBSET Eligible(call[p].ceiling) :
     Untested(p) \subseteq kept /\ kept \ Untested(p) \subseteq Exact}

(* The fastest of those that ran; if none did, the baseline, unrecorded.   *)
Measure(p) ==
  /\ call[p].pc = "measure"
  /\ \/ \E kept \in Kept(p) : \E c \in kept :
          /\ kept # {Baseline} \/ kept = Eligible(call[p].ceiling)
          /\ call' = [call EXCEPT ![p].pc = "load", ![p].chosen = c]
          /\ UNCHANGED answer
     \/ /\ Answers(Baseline, call[p].ceiling, FALSE)
        /\ call' = [call EXCEPT ![p] = Idle]
  /\ UNCHANGED <<tmp, cache, opened, overlapped, unverified>>

Storing(p) == call[p].pc \in {"open", "write", "rename"}

(* _cache_store reads the document, which keeps its other entries. *)
LoadDocument(p) ==
  /\ call[p].pc = "load"
  /\ call' = [call EXCEPT ![p].pc = "open"]
  /\ overlapped' = (overlapped \/ \E q \in Processes \ {p} : Storing(q))
  /\ UNCHANGED <<tmp, cache, opened, answer, unverified>>

(* A slip: the document is written in its place. *)
OpenInPlace(p) ==
  /\ call[p].pc = "open"
  /\ cache' = "empty"
  /\ opened' = [opened EXCEPT ![p] = "cache"]
  /\ call' = [call EXCEPT ![p].pc = "write"]
  /\ UNCHANGED <<tmp, answer, overlapped, unverified>>

(* Opening the temporary file empties it, whoever else has it open.        *)
OpenTmp(p) ==
  /\ call[p].pc = "open"
  /\ tmp' = "empty"
  /\ opened' = [opened EXCEPT ![p] = "tmp"]
  /\ call' = [call EXCEPT ![p].pc = "write"]
  /\ UNCHANGED <<cache, answer, overlapped, unverified>>

(* Over what another process wrote meanwhile, the longer text shows. *)
Written(p, file, file2) ==
  \/ file2 = call[p].chosen
  \/ file # "empty" /\ file2 = "torn"

WriteDocument(p) ==
  /\ call[p].pc = "write"
  /\ IF opened[p] = "tmp" THEN Written(p, tmp, tmp') ELSE UNCHANGED tmp
  /\ IF opened[p] = "cache" THEN Written(p, cache, cache') ELSE UNCHANGED cache
  /\ opened' = [opened EXCEPT ![p] = "none"]
  /\ call' = [call EXCEPT ![p].pc = "rename"]
  /\ UNCHANGED <<answer, overlapped, unverified>>

(* os.replace: descriptors of the temporary file now lead to the cache.    *)
Rename(p) ==
  /\ call[p].pc = "rename" /\ tmp # "absent"
  /\ cache' = tmp /\ tmp' = "absent"
  /\ opened' = [q \in Processes |-> IF opened[q] = "tmp" THEN "cache" ELSE "none"]
  /\ Answers(call[p].chosen, call[p].ceiling, FALSE)
  /\ call' = [call EXCEPT ![p] = Idle]
  /\ UNCHANGED <<overlapped, unverified>>

(* Another process renamed the file away: the call raises. *)
RenameFails(p) ==
  /\ call[p].pc = "rename" /\ tmp = "absent"
  /\ call' = [call EXCEPT ![p] = Idle]
  /\ UNCHANGED <<tmp, cache, opened, answer, overlapped, unverified>>

(* A process dies, and another may take its place. *)
Crash(p) ==
  /\ call[p].pc # "idle"
  /\ call' = [call EXCEPT ![p] = Idle]
  /\ opened' = [opened EXCEPT ![p] = "none"]
  /\ UNCHANGED <<tmp, cache, answer, overlapped, unverified>>

TuneNext ==
  \E p \in Processes :
    \/ \E ceiling \in Ceilings :
         Decide(p, ceiling) \/ Hit(p, ceiling) \/ \E verify \in BOOLEAN : Miss(p, ceiling, verify)
    \/ Measure(p) \/ LoadDocument(p) \/ OpenTmp(p) \/ WriteDocument(p)
    \/ Rename(p) \/ RenameFails(p) \/ Crash(p)

TuneSpec == TuneInit /\ [][TuneNext]_tuneVars

-----------------------------------------------------------------------------
(* No process serves a candidate above its own tier ceiling, whatever      *)
(* ceiling the process that timed it ran under; and when every call that   *)
(* measured could verify, none that claims equality is served, from the    *)
(* cache or from the bench, without having it.                             *)
ChoicesAreSound ==
  /\ ClaimedTier[answer.chosen] <= answer.ceiling
  /\ ~unverified /\ ~answer.forced /\ ClaimedTier[answer.chosen] = 0 => answer.chosen \in Exact

(* The file does not parse only after two processes stored at once: one    *)
(* that dies alone, at any step, leaves the last document in place.        *)
TornOnlyByOverlap == cache \in {"empty", "torn"} => overlapped
=============================================================================
