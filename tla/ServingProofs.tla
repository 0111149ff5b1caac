--------------------------- MODULE ServingProofs ----------------------------
(***************************************************************************)
(* HostedEpisodes for any number of runtimes and cycles, Autotune for any  *)
(* processes, candidates and ceilings, LoadPath for any step counts, and   *)
(* WorkerBackend for any backends and ports.                               *)
(***************************************************************************)
EXTENDS HostedEpisodes, Autotune, LoadPath, WorkerBackend, TLAPS

-----------------------------------------------------------------------------
EpisodesTypeOK ==
  /\ impl \in [Runtimes -> BOOLEAN]
  /\ drawn \in Nat \cup {-1}
  /\ predicted \in [Runtimes -> Nat] /\ committed \in [Runtimes -> Nat]
  /\ returned \in [Runtimes -> Nat] /\ stray \in [Runtimes -> Nat]
  /\ astray \subseteq Runtimes /\ mingled \subseteq Runtimes

(* A runtime that shared the generators with nobody since its reset finds  *)
(* them where its own predictions left them.                               *)
OwnsTheNoise ==
  \A r \in Runtimes \ mingled : drawn = predicted[r] /\ r \notin astray

EpisodesIInv == EpisodesTypeOK /\ HistoryIsAnswered /\ OwnsTheNoise

LEMMA EpisodesInitIInv == EpisodesInit => EpisodesIInv
BY DEF EpisodesInit, EpisodesIInv, EpisodesTypeOK, HistoryIsAnswered, OwnsTheNoise

LEMMA EpisodesNextIInv == EpisodesIInv /\ [EpisodesNext]_episodeVars => EpisodesIInv'
<1> SUFFICES ASSUME EpisodesIInv, [EpisodesNext]_episodeVars PROVE EpisodesIInv'
  OBVIOUS
<1> USE DEF EpisodesIInv
<1>1. ASSUME NEW r \in Runtimes, Reset(r) PROVE EpisodesIInv'
  <2>1. EpisodesTypeOK'
    BY <1>1 DEF Reset, Begins, Others, EpisodesTypeOK
  <2>2. HistoryIsAnswered'
    BY <1>1 DEF Reset, Begins, EpisodesTypeOK, HistoryIsAnswered
  <2>3. OwnsTheNoise'
    BY <1>1 DEF Reset, Begins, Others, EpisodesTypeOK, OwnsTheNoise
  <2> QED BY <2>1, <2>2, <2>3
<1>2. ASSUME NEW r \in Runtimes, ResetRaises(r) PROVE EpisodesIInv'
  BY <1>2 DEF ResetRaises, EpisodesTypeOK, HistoryIsAnswered, OwnsTheNoise
<1>3. ASSUME NEW r \in Runtimes, BuildFirst(r) PROVE EpisodesIInv'
  BY <1>3 DEF BuildFirst, Begins, EpisodesTypeOK, HistoryIsAnswered, OwnsTheNoise
(* A prediction draws the noise of its place, or the runtime had shared    *)
(* the generators; the others share them from now on.                      *)
<1>4. ASSUME NEW r \in Runtimes, Draws(r) PROVE OwnsTheNoise'
  BY <1>4 DEF Draws, Others, EpisodesTypeOK, OwnsTheNoise
<1>5. ASSUME NEW r \in Runtimes, Predict(r) PROVE EpisodesIInv'
  <2>1. EpisodesTypeOK'
    BY <1>5 DEF Predict, Draws, Others, EpisodesTypeOK
  <2>2. HistoryIsAnswered'
    BY <1>5 DEF Predict, Draws, EpisodesTypeOK, HistoryIsAnswered
  <2> QED BY <2>1, <2>2, <1>4, <1>5 DEF Predict
<1>6. ASSUME NEW r \in Runtimes, PredictRaises(r) PROVE EpisodesIInv'
  <2>1. EpisodesTypeOK'
    BY <1>6 DEF PredictRaises, Draws, Others, EpisodesTypeOK
  <2>2. HistoryIsAnswered'
    BY <1>6 DEF PredictRaises, Draws, EpisodesTypeOK, HistoryIsAnswered
  <2> QED BY <2>1, <2>2, <1>4, <1>6 DEF PredictRaises
<1>7. ASSUME UNCHANGED episodeVars PROVE EpisodesIInv'
  BY <1>7 DEF episodeVars, EpisodesTypeOK, HistoryIsAnswered, OwnsTheNoise
<1>8. ASSUME NEW r \in Runtimes, CloseHosted(r) PROVE EpisodesIInv'
  BY <1>8 DEF CloseHosted, EpisodesTypeOK, HistoryIsAnswered, OwnsTheNoise
<1> QED BY <1>1, <1>2, <1>3, <1>5, <1>6, <1>7, <1>8 DEF EpisodesNext, RefuseFeedback

(* Every prediction of a seeded episode draws the noise of its place in    *)
(* the episode as long as the process's generators served nobody else, for *)
(* any number of runtimes and cycles.                                      *)
THEOREM SeededEpisodesAlwaysRepeat == EpisodesSpec => []SeededEpisodesRepeat
<1>1. EpisodesIInv => SeededEpisodesRepeat
  BY DEF EpisodesIInv, EpisodesTypeOK, OwnsTheNoise, SeededEpisodesRepeat
<1> QED BY EpisodesInitIInv, EpisodesNextIInv, <1>1, PTL DEF EpisodesSpec

(* The model's history holds the cycles the caller was answered and those  *)
(* of calls that raised half way, and no cycle of a refused call.          *)
THEOREM HistoryIsAlwaysAnswered == EpisodesSpec => []HistoryIsAnswered
<1>1. EpisodesIInv => HistoryIsAnswered
  BY DEF EpisodesIInv
<1> QED BY EpisodesInitIInv, EpisodesNextIInv, <1>1, PTL DEF EpisodesSpec

-----------------------------------------------------------------------------
Texts == Candidates \cup {NoEntry, "absent", "empty", "torn"}

(* What a decision may be, when every call that measured could verify. *)
Holds(c) == ~unverified /\ ClaimedTier[c] = 0 => c \in Exact

Calls == [pc : {"idle", "measure", "load", "open", "write", "rename"},
          ceiling : Ceilings \cup {0}, verify : BOOLEAN, chosen : Candidates \cup {NoEntry}]

TuneTypeOK ==
  /\ tmp \in Texts /\ cache \in Texts
  /\ call \in [Processes -> Calls]
  /\ opened \in [Processes -> {"none", "tmp", "cache"}]
  /\ answer \in [chosen : Candidates, ceiling : Ceilings \cup {0}, forced : BOOLEAN]
  /\ overlapped \in BOOLEAN /\ unverified \in BOOLEAN

(* What is written down, and what is about to be, was measured and kept.   *)
FilesHold == \A c \in {tmp, cache} \cap Candidates : Holds(c)

CallsHold ==
  \A p \in Processes :
    /\ call[p].pc = "measure" /\ ~call[p].verify => unverified
    /\ call[p].pc \in {"load", "open", "write", "rename"} =>
         call[p].chosen \in Eligible(call[p].ceiling) /\ Holds(call[p].chosen)

(* A process that stores alone owns the temporary file.                    *)
StoresAlone ==
  ~overlapped =>
    /\ \A p, q \in Processes : Storing(p) /\ Storing(q) => p = q
    /\ \A p \in Processes :
         /\ opened[p] # "cache" /\ (opened[p] = "tmp" => call[p].pc = "write")
         /\ call[p].pc = "write" => opened[p] = "tmp" /\ tmp = "empty"
         /\ call[p].pc = "rename" => tmp = call[p].chosen
    /\ cache \notin {"empty", "torn"}

TuneIInv == TuneTypeOK /\ FilesHold /\ CallsHold /\ StoresAlone /\ ChoicesAreSound

LEMMA IdleIsCall == Idle \in Calls
BY DEF Idle, Calls

LEMMA CallsMoveOn ==
  ASSUME NEW p \in Processes, call \in [Processes -> Calls],
         NEW place \in {"idle", "measure", "load", "open", "write", "rename"}
  PROVE  /\ [call EXCEPT ![p].pc = place] \in [Processes -> Calls]
         /\ \A c \in Candidates : [call EXCEPT ![p].pc = place, ![p].chosen = c] \in [Processes -> Calls]
<1>1. [call[p] EXCEPT !.pc = place] \in Calls
  BY DEF Calls
<1>2. \A c \in Candidates : [[call[p] EXCEPT !.pc = place] EXCEPT !.chosen = c] \in Calls
  BY DEF Calls
<1> QED BY <1>1, <1>2

LEMMA TuneInitIInv == TuneInit => TuneIInv
<1> SUFFICES ASSUME TuneInit PROVE TuneIInv
  OBVIOUS
<1>1. TuneTypeOK
  BY IdleIsCall, TuneAssumption DEF TuneInit, TuneTypeOK, Texts
<1>2. FilesHold /\ CallsHold /\ StoresAlone
  BY TuneAssumption DEF TuneInit, FilesHold, CallsHold, StoresAlone, Storing, Idle
<1>3. ChoicesAreSound
  BY TuneAssumption DEF TuneInit, ChoicesAreSound
<1> QED BY <1>1, <1>2, <1>3 DEF TuneIInv

(* A decision answered without a measurement: the baseline, a candidate    *)
(* that is forced, or what the file holds.                                 *)
LEMMA AnsweredAtOnce ==
  ASSUME TuneIInv, NEW p \in Processes, NEW under \in Ceilings,
         Decide(p, under) \/ Hit(p, under)
  PROVE  TuneIInv'
<1>1. ASSUME NEW c \in Eligible(under), NEW forced \in BOOLEAN, Answers(c, under, forced),
             forced \/ Holds(c), UNCHANGED <<tmp, cache, call, opened, overlapped, unverified>>
      PROVE  TuneIInv'
  <2>1. TuneTypeOK'
    BY <1>1 DEF TuneIInv, TuneTypeOK, Texts, Answers, Eligible
  <2>2. FilesHold' /\ CallsHold' /\ StoresAlone'
    BY <1>1 DEF TuneIInv, FilesHold, CallsHold, StoresAlone, Holds, Storing
  <2>3. ChoicesAreSound'
    BY <1>1 DEF ChoicesAreSound, Answers, Eligible, Holds
  <2> QED BY <2>1, <2>2, <2>3 DEF TuneIInv
<1>2. under \in 0 .. 2
  BY TuneAssumption
<1>3. Baseline \in Eligible(under) /\ Holds(Baseline)
  BY <1>2, TuneAssumption DEF Eligible, Holds
<1>4. ASSUME Cached(under) PROVE Parsed(cache) \in Eligible(under) /\ Holds(Parsed(cache))
  BY <1>4, TuneAssumption DEF Cached, Parsed, Eligible, TuneIInv, FilesHold
<1>5. CASE Decide(p, under)
  BY <1>1, <1>3, <1>5 DEF Decide
<1>6. CASE Hit(p, under)
  BY <1>1, <1>4, <1>6 DEF Hit
<1> QED BY <1>5, <1>6

(* A process is idle again: its call returned, raised, or died with it.    *)
LEMMA CallEnds ==
  ASSUME TuneIInv, NEW p \in Processes, call' = [call EXCEPT ![p] = Idle],
         UNCHANGED <<overlapped, unverified>>
  PROVE  call' \in [Processes -> Calls] /\ CallsHold'
<1>1. call' \in [Processes -> Calls]
  BY IdleIsCall DEF TuneIInv, TuneTypeOK
<1>2. call'[p].pc = "idle" /\ \A q \in Processes \ {p} : call'[q] = call[q]
  BY DEF TuneIInv, TuneTypeOK, Idle
<1>3. CallsHold'
  BY <1>2 DEF TuneIInv, CallsHold, Holds, Eligible
<1> QED BY <1>1, <1>3

LEMMA Measured ==
  ASSUME TuneIInv, NEW p \in Processes, Measure(p) PROVE TuneIInv'
<1>1. CASE Answers(Baseline, call[p].ceiling, FALSE) /\ call' = [call EXCEPT ![p] = Idle]
  <2>1. call[p].ceiling \in Ceilings \cup {0} /\ call[p].ceiling >= 0
    <3>1. call[p].ceiling \in Ceilings \cup {0}
      BY DEF TuneIInv, TuneTypeOK, Calls
    <3>2. Ceilings \cup {0} \subseteq 0 .. 2
      BY TuneAssumption
    <3> QED BY <3>1, <3>2
  <2>2. answer' \in [chosen : Candidates, ceiling : Ceilings \cup {0}, forced : BOOLEAN]
    BY <1>1, <2>1, TuneAssumption DEF Answers
  <2>3. TuneTypeOK' /\ CallsHold'
    BY <1>1, <2>2, CallEnds DEF Measure, TuneIInv, TuneTypeOK
  <2>4. call'[p].pc = "idle" /\ \A q \in Processes \ {p} : call'[q] = call[q]
    BY <1>1 DEF TuneIInv, TuneTypeOK, Idle
  <2>5. FilesHold' /\ StoresAlone'
    BY <2>4 DEF Measure, TuneIInv, FilesHold, StoresAlone, Holds, Storing
  <2>6. ChoicesAreSound'
    BY <1>1, <2>1, TuneAssumption DEF ChoicesAreSound, Answers
  <2> QED BY <2>3, <2>5, <2>6 DEF TuneIInv
<1>2. ASSUME NEW kept \in Kept(p), NEW c \in kept, call' = [call EXCEPT ![p].pc = "load", ![p].chosen = c],
             UNCHANGED answer
      PROVE  TuneIInv'
  <2>1. c \in Eligible(call[p].ceiling) /\ Holds(c)
    BY <1>2, TuneAssumption DEF Measure, Kept, Untested, TuneIInv, CallsHold, Holds, Eligible
  <2>2. TuneTypeOK'
    BY <1>2, <2>1, CallsMoveOn DEF Measure, TuneIInv, TuneTypeOK, Eligible
  <2>3. /\ call'[p].pc = "load" /\ call'[p].chosen = c /\ call'[p].ceiling = call[p].ceiling
        /\ \A q \in Processes \ {p} : call'[q] = call[q]
    BY <1>2 DEF TuneIInv, TuneTypeOK, Calls
  <2>4. CallsHold'
    BY <2>1, <2>3 DEF Measure, TuneIInv, CallsHold, Holds, Eligible
  <2>5. FilesHold' /\ ChoicesAreSound'
    BY <1>2 DEF Measure, TuneIInv, FilesHold, ChoicesAreSound, Holds
  <2>6. StoresAlone'
    BY <2>3 DEF Measure, TuneIInv, StoresAlone, Storing
  <2> QED BY <2>2, <2>4, <2>5, <2>6 DEF TuneIInv
<1> QED BY <1>1, <1>2 DEF Measure

(* The steps of _cache_store before the document is in place. *)
LEMMA CallMovesOn ==
  ASSUME TuneIInv, NEW p \in Processes, call[p].pc \in {"load", "open", "write"},
         NEW place \in {"open", "write", "rename"}, call' = [call EXCEPT ![p].pc = place],
         UNCHANGED unverified
  PROVE  /\ call' \in [Processes -> Calls] /\ CallsHold'
         /\ call'[p].pc = place /\ call'[p].chosen = call[p].chosen
         /\ \A q \in Processes \ {p} : call'[q] = call[q]
<1>1. call' \in [Processes -> Calls]
  BY CallsMoveOn DEF TuneIInv, TuneTypeOK
<1>2. /\ call'[p].pc = place /\ call'[p].chosen = call[p].chosen /\ call'[p].ceiling = call[p].ceiling
      /\ \A q \in Processes \ {p} : call'[q] = call[q]
  BY DEF TuneIInv, TuneTypeOK, Calls
<1>3. CallsHold'
  BY <1>2 DEF TuneIInv, CallsHold, Holds, Eligible
<1> QED BY <1>1, <1>2, <1>3

LEMMA Opened ==
  ASSUME TuneIInv, NEW p \in Processes, LoadDocument(p) \/ OpenTmp(p) PROVE TuneIInv'
<1>1. CASE LoadDocument(p)
  <2>1. /\ call' \in [Processes -> Calls] /\ CallsHold'
        /\ call'[p].pc = "open" /\ \A q \in Processes \ {p} : call'[q] = call[q]
    BY <1>1, CallMovesOn DEF LoadDocument
  <2>2. TuneTypeOK'
    BY <1>1, <2>1 DEF LoadDocument, TuneIInv, TuneTypeOK
  <2>3. FilesHold' /\ ChoicesAreSound'
    BY <1>1 DEF LoadDocument, TuneIInv, FilesHold, ChoicesAreSound, Holds
  <2>4. StoresAlone'
    BY <1>1, <2>1 DEF LoadDocument, TuneIInv, StoresAlone, Storing
  <2> QED BY <2>1, <2>2, <2>3, <2>4 DEF TuneIInv
<1>2. CASE OpenTmp(p)
  <2>1. /\ call' \in [Processes -> Calls] /\ CallsHold'
        /\ call'[p].pc = "write" /\ \A q \in Processes \ {p} : call'[q] = call[q]
    BY <1>2, CallMovesOn DEF OpenTmp
  <2>2. TuneTypeOK'
    BY <1>2, <2>1 DEF OpenTmp, TuneIInv, TuneTypeOK, Texts
  <2>3. FilesHold' /\ ChoicesAreSound'
    BY <1>2, TuneAssumption DEF OpenTmp, TuneIInv, FilesHold, ChoicesAreSound, Holds
  <2>4. opened'[p] = "tmp" /\ \A q \in Processes \ {p} : opened'[q] = opened[q]
    BY <1>2 DEF OpenTmp, TuneIInv, TuneTypeOK
  <2>5. StoresAlone'
    BY <1>2, <2>1, <2>4 DEF OpenTmp, TuneIInv, StoresAlone, Storing
  <2> QED BY <2>1, <2>2, <2>3, <2>5 DEF TuneIInv
<1> QED BY <1>1, <1>2

LEMMA Wrote ==
  ASSUME TuneIInv, NEW p \in Processes, WriteDocument(p) PROVE TuneIInv'
<1>1. call[p].pc = "write" /\ call[p].chosen \in Candidates /\ Holds(call[p].chosen)
  BY DEF WriteDocument, TuneIInv, CallsHold, Eligible
<1>2. tmp' \in {tmp, call[p].chosen, "torn"} /\ cache' \in {cache, call[p].chosen, "torn"}
  BY DEF WriteDocument, Written
<1>3. /\ call' \in [Processes -> Calls] /\ CallsHold'
      /\ call'[p].pc = "rename" /\ call'[p].chosen = call[p].chosen
      /\ \A q \in Processes \ {p} : call'[q] = call[q]
  BY CallMovesOn DEF WriteDocument
<1>4. opened'[p] = "none" /\ \A q \in Processes \ {p} : opened'[q] = opened[q]
  BY DEF WriteDocument, TuneIInv, TuneTypeOK
<1>5. tmp' \in Texts /\ cache' \in Texts
  BY <1>1, <1>2 DEF TuneIInv, TuneTypeOK, Texts
<1>6. TuneTypeOK'
  BY <1>3, <1>5 DEF WriteDocument, TuneIInv, TuneTypeOK
<1>7. FilesHold'
  BY <1>1, <1>2, TuneAssumption DEF WriteDocument, TuneIInv, FilesHold, Holds
<1>8. ChoicesAreSound'
  BY DEF WriteDocument, TuneIInv, ChoicesAreSound
<1>9. ASSUME ~overlapped PROVE tmp' = call[p].chosen /\ cache' = cache
  BY <1>1, <1>9 DEF WriteDocument, Written, TuneIInv, StoresAlone
<1>10. StoresAlone'
  BY <1>1, <1>3, <1>4, <1>9 DEF WriteDocument, TuneIInv, StoresAlone, Storing
<1> QED BY <1>3, <1>6, <1>7, <1>8, <1>10 DEF TuneIInv

LEMMA Renamed ==
  ASSUME TuneIInv, NEW p \in Processes, Rename(p) PROVE TuneIInv'
<1>1. call[p].chosen \in Eligible(call[p].ceiling) /\ Holds(call[p].chosen)
  BY DEF Rename, TuneIInv, CallsHold
<1>2. call' \in [Processes -> Calls] /\ CallsHold'
  BY CallEnds DEF Rename
<1>3. call'[p].pc = "idle" /\ \A q \in Processes \ {p} : call'[q] = call[q]
  BY DEF Rename, TuneIInv, TuneTypeOK, Idle
<1>4. call[p].ceiling \in Ceilings \cup {0} /\ call[p].chosen \in Candidates
  BY <1>1 DEF TuneIInv, TuneTypeOK, Calls, Eligible
<1>5. TuneTypeOK'
  BY <1>2, <1>4 DEF Rename, TuneIInv, TuneTypeOK, Texts, Answers
<1>6. FilesHold'
  BY TuneAssumption DEF Rename, TuneIInv, FilesHold, Holds
<1>7. ChoicesAreSound'
  BY <1>1 DEF Rename, ChoicesAreSound, Holds, Answers, Eligible
<1>8. ASSUME ~overlapped
      PROVE  tmp = call[p].chosen /\ \A q \in Processes \ {p} : ~Storing(q) /\ opened[q] = "none"
  BY <1>8 DEF Rename, TuneIInv, TuneTypeOK, StoresAlone, Storing
<1>9. ASSUME ~overlapped PROVE \A q \in Processes : opened'[q] = "none" /\ ~Storing(q)'
  <2>1. opened[p] # "tmp"
    BY <1>9 DEF Rename, TuneIInv, StoresAlone
  <2> QED BY <1>3, <1>8, <1>9, <2>1 DEF Rename, Storing
<1>10. StoresAlone'
  BY <1>4, <1>8, <1>9, TuneAssumption DEF Rename, StoresAlone, Storing
<1> QED BY <1>2, <1>5, <1>6, <1>7, <1>10 DEF TuneIInv

LEMMA TuneNextIInv == TuneIInv /\ [TuneNext]_tuneVars => TuneIInv'
<1> SUFFICES ASSUME TuneIInv, [TuneNext]_tuneVars PROVE TuneIInv'
  OBVIOUS
<1>1. ASSUME NEW p \in Processes, NEW under \in Ceilings, NEW verify \in BOOLEAN,
             Miss(p, under, verify)
      PROVE  TuneIInv'
  <2> DEFINE made == [pc |-> "measure", ceiling |-> under, verify |-> verify, chosen |-> NoEntry]
  <2>1. call' = [call EXCEPT ![p] = made]
    BY <1>1 DEF Miss
  <2>2. made \in Calls
    BY DEF Calls
  <2>3. call' \in [Processes -> Calls]
    BY <2>1, <2>2 DEF TuneIInv, TuneTypeOK
  <2>4. call'[p] = made /\ \A q \in Processes \ {p} : call'[q] = call[q]
    BY <2>1 DEF TuneIInv, TuneTypeOK
  <2>5. TuneTypeOK'
    BY <1>1, <2>3 DEF Miss, TuneIInv, TuneTypeOK
  <2>6. FilesHold' /\ ChoicesAreSound'
    BY <1>1 DEF Miss, TuneIInv, TuneTypeOK, FilesHold, ChoicesAreSound, Holds
  <2>7. call'[p].pc = "measure" /\ (call'[p].verify <=> verify)
    BY <2>4
  <2>8. CallsHold'
    BY <1>1, <2>4, <2>7 DEF Miss, TuneIInv, CallsHold, Holds, Eligible
  <2>9. StoresAlone'
    BY <1>1, <2>4, <2>7 DEF Miss, TuneIInv, StoresAlone, Storing
  <2> QED BY <2>5, <2>6, <2>8, <2>9 DEF TuneIInv
<1>2. ASSUME NEW p \in Processes, RenameFails(p) \/ Crash(p) PROVE TuneIInv'
  <2>1. /\ call' = [call EXCEPT ![p] = Idle]
        /\ UNCHANGED <<tmp, cache, answer, overlapped, unverified>>
    BY <1>2 DEF RenameFails, Crash
  <2>2. call' \in [Processes -> Calls] /\ CallsHold'
    BY <2>1, CallEnds
  <2>3. call'[p].pc = "idle" /\ \A q \in Processes \ {p} : call'[q] = call[q]
    BY <2>1 DEF TuneIInv, TuneTypeOK, Idle
  <2>4. TuneTypeOK'
    BY <1>2, <2>1, <2>2 DEF RenameFails, Crash, TuneIInv, TuneTypeOK
  <2>5. FilesHold' /\ ChoicesAreSound'
    BY <2>1 DEF TuneIInv, FilesHold, ChoicesAreSound, Holds
  <2>6. /\ opened'[p] \in {opened[p], "none"} /\ \A q \in Processes \ {p} : opened'[q] = opened[q]
        /\ opened[p] = "tmp" => (call[p].pc = "write" /\ opened'[p] = "none") \/ overlapped
    BY <1>2 DEF RenameFails, Crash, TuneIInv, TuneTypeOK, StoresAlone
  <2>7. StoresAlone'
    BY <2>1, <2>3, <2>6 DEF TuneIInv, StoresAlone, Storing
  <2> QED BY <2>2, <2>4, <2>5, <2>7 DEF TuneIInv
<1>3. ASSUME UNCHANGED tuneVars PROVE TuneIInv'
  BY <1>3 DEF tuneVars, TuneIInv, TuneTypeOK, FilesHold, CallsHold, StoresAlone, ChoicesAreSound,
              Holds, Storing
<1> QED BY <1>1, <1>2, <1>3, AnsweredAtOnce, Measured, Opened, Wrote, Renamed DEF TuneNext

(* No process serves a candidate above its ceiling, and none that claims   *)
(* equality without having it when every measuring call could verify, for  *)
(* any processes, candidates, claims and ceilings, wherever one dies.      *)
THEOREM ChoicesAreAlwaysSound == TuneSpec => []ChoicesAreSound
<1>1. TuneIInv => ChoicesAreSound
  BY DEF TuneIInv
<1> QED BY TuneInitIInv, TuneNextIInv, <1>1, PTL DEF TuneSpec

(* The cache file fails to parse only after two processes stored at once.  *)
THEOREM CacheIsTornByOverlapOnly == TuneSpec => []TornOnlyByOverlap
<1>1. TuneIInv => TornOnlyByOverlap
  BY DEF TuneIInv, StoresAlone, TornOnlyByOverlap
<1> QED BY TuneInitIInv, TuneNextIInv, <1>1, PTL DEF TuneSpec

-----------------------------------------------------------------------------
Results == [tier : 0 .. 2, applies : BOOLEAN, excluded : BOOLEAN]

FromSchedule == {"schedule", "compile", "exclude", "choose", "built", "serving"}

FromPackage == FromSchedule \cup {"package"}

FromCompile == FromSchedule \ {"schedule"}

FromExclude == FromCompile \ {"compile"}

FromChoose == FromExclude \ {"exclude"}

(* What each stage of the load leaves to the next. *)
CeilingIsAllowed == stage \in FromPackage => ceiling = Allowed

ScheduleIsAllowed ==
  stage \in FromCompile =>
    (Changed(schedule) =>
       /\ ceiling = 2 /\ request.family = "dreamzero"
       /\ "dreamzero_schedule" \notin request.exclude)

PlanIsAllowed ==
  stage \in FromExclude =>
    \A n \in DOMAIN plan : plan[n] \in Results /\ (plan[n].applies => plan[n].tier <= ceiling)

ExclusionsHold == stage \in FromChoose => \A n \in Applied : n \notin request.exclude

EngineIsPlanned ==
  stage = "built" =>
    /\ request.precision = "fp8"
    /\ "engine_offload" \in Applied /\ ~plan["engine_offload"].excluded

PlanIsComplete ==
  stage \in FromExclude =>
    /\ {"engine_offload", "tf32"} \subseteq DOMAIN plan
    /\ Changed(schedule) => /\ "dreamzero_schedule" \in DOMAIN plan
                            /\ plan["dreamzero_schedule"].tier = 2
                            /\ plan["dreamzero_schedule"].applies
    /\ stage # "serving" =>
         /\ request.required => \/ plan["tf32"].applies
                                \/ stage # "exclude" /\ "tf32" \in request.exclude
         /\ plan["engine_offload"].applies => request.device # "none"

LoadIInv ==
  /\ stage # "idle" => request \in Requests
  /\ CeilingIsAllowed /\ ScheduleIsAllowed /\ PlanIsAllowed /\ PlanIsComplete
  /\ ExclusionsHold /\ EngineIsPlanned /\ ServedAsAsked
  /\ stage = "serving" /\ Changed(schedule) => where # "worker"

LEMMA LoadInitIInv == LoadInit => LoadIInv
BY DEF LoadInit, LoadIInv, FromPackage, FromSchedule, FromCompile, FromExclude, FromChoose,
       CeilingIsAllowed, ScheduleIsAllowed, PlanIsAllowed, PlanIsComplete, ExclusionsHold,
       EngineIsPlanned, ServedAsAsked, Serving

LEMMA AllowedRange == ASSUME request \in Requests PROVE Allowed \in 0 .. 2
BY DEF Requests, Allowed

(* The registry's answers, and the plan that compile() makes of them. *)
LEMMA EvaluatedResults ==
  ASSUME request \in Requests PROVE \A n \in DOMAIN Evaluated : Evaluated[n] \in Results
<1>1. \A b \in BOOLEAN : Pass(1, b) \in Results
  BY DEF Pass, Results
<1>2. request.required \in BOOLEAN
  BY DEF Requests
<1>3. Evaluated.engine_offload \in Results
  BY <1>1 DEF Evaluated
<1>4. Evaluated.tf32 \in Results /\ Evaluated.conv \in Results
  BY <1>1, <1>2 DEF Evaluated
<1> QED BY <1>3, <1>4 DEF Evaluated

LEMMA DemotedResults ==
  ASSUME request \in Requests
  PROVE  /\ DOMAIN Demoted = {"engine_offload", "tf32", "conv"}
         /\ \A n \in DOMAIN Demoted :
              /\ Demoted[n] \in Results /\ Demoted[n].tier = Evaluated[n].tier
              /\ Demoted[n].applies <=> Evaluated[n].applies /\ Evaluated[n].tier <= ceiling
<1>1. DOMAIN Evaluated = {"engine_offload", "tf32", "conv"}
  BY DEF Evaluated
<1>2. \A n \in DOMAIN Evaluated :
        LET r == [Evaluated[n] EXCEPT !.applies = @ /\ Evaluated[n].tier <= ceiling] IN
          /\ r \in Results /\ r.tier = Evaluated[n].tier
          /\ r.applies <=> Evaluated[n].applies /\ Evaluated[n].tier <= ceiling
  BY EvaluatedResults DEF Results
<1> QED BY <1>1, <1>2 DEF Demoted

(* A stage that leaves the plan alone. *)
LEMMA PlanKept ==
  ASSUME LoadIInv, stage # "idle", UNCHANGED <<request, ceiling, schedule, plan>>,
         stage' \in {"schedule", "compile", "choose", "built", "refused"},
         stage' = "schedule" => stage = "package", stage' = "compile" => stage = "compile",
         stage' = "choose" => stage = "choose", stage' = "built" => stage \in {"choose", "built"},
         stage' = "built" => EngineIsPlanned'
  PROVE  LoadIInv'
<1> USE DEF FromPackage, FromSchedule, FromCompile, FromExclude, FromChoose
<1>1. CeilingIsAllowed' /\ ScheduleIsAllowed'
  BY DEF LoadIInv, CeilingIsAllowed, ScheduleIsAllowed, Allowed, Changed
<1>2. PlanIsAllowed' /\ ExclusionsHold'
  BY DEF LoadIInv, PlanIsAllowed, ExclusionsHold, Applied
<1>3. PlanIsComplete'
  BY DEF LoadIInv, PlanIsComplete, Changed
<1>4. EngineIsPlanned' /\ ServedAsAsked'
  BY DEF EngineIsPlanned, ServedAsAsked, Serving
<1> QED BY <1>1, <1>2, <1>3, <1>4 DEF LoadIInv

LEMMA Compiled == ASSUME LoadIInv, Compile PROVE LoadIInv'
<1> USE DEF FromPackage, FromSchedule, FromCompile, FromExclude, FromChoose
<1>1. CeilingIsAllowed' /\ ScheduleIsAllowed'
  BY DEF Compile, CeilingIsAllowed, ScheduleIsAllowed, Allowed, LoadIInv, Changed
<1>2. request \in Requests /\ ceiling \in 0 .. 2
  BY AllowedRange DEF Compile, LoadIInv, CeilingIsAllowed
<1>3. Pass(IF Changed(schedule) THEN 2 ELSE 0, TRUE) \in Results
  BY DEF Pass, Results
<1>4. Changed(schedule) => ceiling = 2 /\ request.family = "dreamzero"
  BY DEF Compile, LoadIInv, ScheduleIsAllowed
<1>5. \A n \in DOMAIN Annotated(Demoted) :
        LET r == Annotated(Demoted)[n] IN r \in Results /\ (r.applies => r.tier <= ceiling)
  BY <1>2, <1>3, <1>4, DemotedResults DEF Annotated, Pass
<1>6. PlanIsAllowed'
  BY <1>5 DEF Compile, PlanIsAllowed
<1>7. /\ {"engine_offload", "tf32"} \subseteq DOMAIN Annotated(Demoted)
      /\ Annotated(Demoted)["tf32"] = Demoted["tf32"]
      /\ Annotated(Demoted)["engine_offload"] = Demoted["engine_offload"]
  BY <1>2, DemotedResults DEF Annotated
<1>8. Changed(schedule) =>
        /\ "dreamzero_schedule" \in DOMAIN Annotated(Demoted)
        /\ Annotated(Demoted)["dreamzero_schedule"] = Pass(2, TRUE)
  BY <1>4 DEF Annotated
<1>9. request.required => Demoted["tf32"].applies
  BY <1>2, DemotedResults DEF Compile, RequiredIsOver, Evaluated, Pass
<1>10. Demoted["engine_offload"].applies => request.device # "none"
  BY <1>2, DemotedResults DEF Evaluated, Pass
<1>11. PlanIsComplete'
  BY <1>7, <1>8, <1>9, <1>10 DEF Compile, PlanIsComplete, Changed, Pass
<1> QED BY <1>1, <1>6, <1>11
        DEF Compile, LoadIInv, ExclusionsHold, EngineIsPlanned, ServedAsAsked, Serving

LEMMA Excluded == ASSUME LoadIInv, ExcludeByCaller PROVE LoadIInv'
<1> USE DEF FromPackage, FromSchedule, FromCompile, FromExclude, FromChoose
<1>1. \A n \in DOMAIN plan : plan[n] \in Results /\ (plan[n].applies => plan[n].tier <= ceiling)
  BY DEF ExcludeByCaller, LoadIInv, PlanIsAllowed
<1>2. DOMAIN plan' = DOMAIN plan
  BY DEF ExcludeByCaller
<1>3. \A n \in DOMAIN plan : n \in request.exclude => plan'[n] \in Results /\ ~plan'[n].applies
  BY <1>1 DEF ExcludeByCaller, Results
<1>4. \A n \in DOMAIN plan : n \notin request.exclude => plan'[n] = plan[n]
  BY DEF ExcludeByCaller
<1>5. PlanIsAllowed' /\ ExclusionsHold'
  BY <1>1, <1>2, <1>3, <1>4 DEF ExcludeByCaller, PlanIsAllowed, ExclusionsHold, Applied
<1>6. CeilingIsAllowed' /\ ScheduleIsAllowed'
  BY DEF ExcludeByCaller, CeilingIsAllowed, ScheduleIsAllowed, Allowed, LoadIInv, Changed
<1>7. PlanIsComplete'
  <2>1. {"engine_offload", "tf32"} \subseteq DOMAIN plan'
    BY <1>2 DEF ExcludeByCaller, LoadIInv, PlanIsComplete
  <2>2. Changed(schedule') => /\ "dreamzero_schedule" \in DOMAIN plan'
                              /\ plan'["dreamzero_schedule"].tier = 2
                              /\ plan'["dreamzero_schedule"].applies
    BY <1>2, <1>4 DEF ExcludeByCaller, LoadIInv, PlanIsComplete, ScheduleIsAllowed, Changed
  <2>3. request.required => plan'["tf32"].applies \/ "tf32" \in request.exclude
    BY <1>4 DEF ExcludeByCaller, LoadIInv, PlanIsComplete
  <2>4. plan'["engine_offload"].applies => request.device # "none"
    BY <1>3, <1>4 DEF ExcludeByCaller, LoadIInv, PlanIsComplete
  <2> QED BY <2>1, <2>2, <2>3, <2>4 DEF ExcludeByCaller, PlanIsComplete, Changed
<1> QED BY <1>5, <1>6, <1>7 DEF ExcludeByCaller, LoadIInv, EngineIsPlanned, ServedAsAsked, Serving

LEMMA Hosted == ASSUME LoadIInv, ChooseHost PROVE LoadIInv'
<1> USE DEF FromPackage, FromSchedule, FromCompile, FromExclude, FromChoose
<1>1. PICK placement \in {"in_process", "worker"} : Host(placement)
  BY DEF ChooseHost
<1>2. \A n \in DOMAIN plan : plan[n] \in Results /\ (plan[n].applies => plan[n].tier <= ceiling)
  BY DEF ChooseHost, LoadIInv, PlanIsAllowed
<1>3. "engine_offload" \in DOMAIN plan
  BY DEF ChooseHost, LoadIInv, PlanIsComplete
<1>4. /\ DOMAIN plan' = DOMAIN plan
      /\ \A n \in DOMAIN plan : n # "engine_offload" => plan'[n] = plan[n]
      /\ plan'["engine_offload"] \in Results /\ ~plan'["engine_offload"].applies
  BY <1>1, <1>2, <1>3 DEF Host, Results
<1>5. PlanIsAllowed' /\ ExclusionsHold'
  BY <1>1, <1>2, <1>4 DEF ChooseHost, Host, LoadIInv, PlanIsAllowed, ExclusionsHold, Applied
<1>6. CeilingIsAllowed' /\ ScheduleIsAllowed'
  BY <1>1 DEF ChooseHost, Host, CeilingIsAllowed, ScheduleIsAllowed, Allowed, LoadIInv, Changed
<1>7. PlanIsComplete'
  BY <1>1, <1>4 DEF ChooseHost, Host, LoadIInv, PlanIsComplete, Changed
<1>8. ServedAsAsked'
  <2>1. /\ where' # "engine" /\ stage' = "serving" /\ request' = request
        /\ request.precision = "native" /\ request.placement # "auto" => where' = request.placement
        /\ request.precision = "native"
    BY <1>1 DEF ChooseHost, Host
  <2>2. Changed(schedule') => \E n \in Applied' : plan'[n].tier = 2
    BY <1>7, <2>1 DEF PlanIsComplete, Applied
  <2>3. request'.required => plan'["tf32"].applies \/ "tf32" \in request'.exclude
    BY <1>1, <1>4 DEF ChooseHost, Host, LoadIInv, PlanIsComplete
  <2> QED BY <1>4, <2>1, <2>2, <2>3 DEF ServedAsAsked
<1> QED BY <1>1, <1>5, <1>6, <1>7, <1>8 DEF ChooseHost, Host, LoadIInv, EngineIsPlanned, Changed

LEMMA ServedByEngine == ASSUME LoadIInv, ServeEngine PROVE LoadIInv'
<1> USE DEF FromPackage, FromSchedule, FromCompile, FromExclude, FromChoose
<1>1. \A n \in DOMAIN plan : plan[n] \in Results /\ (plan[n].applies => plan[n].tier <= ceiling)
  BY DEF ServeEngine, LoadIInv, PlanIsAllowed
<1>2. DOMAIN plan' = DOMAIN plan
  BY DEF ServeEngine, Executed
<1>3. "engine_offload" \in Applied /\ ~plan["engine_offload"].excluded
  BY DEF ServeEngine, LoadIInv, EngineIsPlanned
<1>4. plan'["engine_offload"] \in Results /\ plan'["engine_offload"].applies
      /\ plan'["engine_offload"].tier = plan["engine_offload"].tier
  BY <1>1, <1>3 DEF ServeEngine, Executed, Applied, Results
<1>5. \A n \in DOMAIN plan \ {"engine_offload"} :
        /\ plan'[n] \in Results /\ plan'[n].tier = plan[n].tier
        /\ plan'[n].applies <=> plan[n].applies /\ (request.device = "torch" \/ n = "dreamzero_schedule")
  BY <1>1 DEF ServeEngine, Executed, Results
<1>6. PlanIsAllowed' /\ ExclusionsHold'
  BY <1>1, <1>2, <1>3, <1>4, <1>5 DEF ServeEngine, LoadIInv, PlanIsAllowed, ExclusionsHold, Applied
<1>7. CeilingIsAllowed' /\ ScheduleIsAllowed'
  BY DEF ServeEngine, CeilingIsAllowed, ScheduleIsAllowed, Allowed, LoadIInv, Changed
<1>8. PlanIsComplete'
  BY <1>2, <1>5 DEF ServeEngine, LoadIInv, PlanIsComplete, Changed
<1>9. ServedAsAsked'
  <2>1. /\ where' = "engine" /\ stage' = "serving" /\ request' = request
        /\ request.precision = "fp8" /\ request.device = "fused" => loop' = request.steps
        /\ request.precision = "fp8"
    BY DEF ServeEngine, PointAgrees, LoadIInv, EngineIsPlanned
  <2>2. Changed(schedule') => \E n \in Applied' : plan'[n].tier = 2
    BY <1>8, <2>1 DEF PlanIsComplete, Applied
  <2>3. request.device = "fused" => Applied' \subseteq {"engine_offload", "dreamzero_schedule"}
    BY <1>2, <1>5 DEF Applied
  <2>4. request.required => \/ plan'["tf32"].applies \/ "tf32" \in request.exclude
                            \/ request.device = "fused"
    <3>1. request.device \in {"torch", "fused"}
      BY <1>3 DEF ServeEngine, LoadIInv, PlanIsComplete, Applied, Requests
    <3>2. request.required => plan["tf32"].applies \/ "tf32" \in request.exclude
      BY DEF ServeEngine, LoadIInv, PlanIsComplete
    <3>3. "tf32" \in DOMAIN plan
      BY DEF ServeEngine, LoadIInv, PlanIsComplete
    <3> QED BY <1>5, <3>1, <3>2, <3>3
  <2> QED BY <1>4, <2>1, <2>2, <2>3, <2>4 DEF ServedAsAsked
<1> QED BY <1>6, <1>7, <1>8, <1>9 DEF ServeEngine, LoadIInv, EngineIsPlanned

LEMMA LoadNextIInv == LoadIInv /\ [LoadNext]_loadVars => LoadIInv'
<1> SUFFICES ASSUME LoadIInv, [LoadNext]_loadVars PROVE LoadIInv'
  OBVIOUS
<1> USE DEF FromPackage, FromSchedule, FromCompile, FromExclude, FromChoose
<1>1. CASE Ask \/ CloseRuntime
  BY <1>1 DEF Ask, CloseRuntime, LoadIInv, CeilingIsAllowed, ScheduleIsAllowed, PlanIsAllowed,
              PlanIsComplete, ExclusionsHold, EngineIsPlanned, ServedAsAsked, Serving
<1>2. CASE ResolvePrecision
  <2>1. CeilingIsAllowed'
    BY <1>2 DEF ResolvePrecision, CeilingIsAllowed, Allowed, LoadIInv, Requests
  <2> QED BY <1>2, <2>1 DEF ResolvePrecision, LoadIInv, ScheduleIsAllowed, PlanIsAllowed,
              PlanIsComplete, ExclusionsHold, EngineIsPlanned, ServedAsAsked, Serving
<1>3. CASE ResolveSchedule
  <2>1. ScheduleIsAllowed'
    BY <1>3 DEF ResolveSchedule, ScheduleRefused, ScheduleIsAllowed, Changed, NoSchedule
  <2>2. CeilingIsAllowed'
    BY <1>3 DEF ResolveSchedule, CeilingIsAllowed, Allowed, LoadIInv
  <2> QED BY <1>3, <2>1, <2>2 DEF ResolveSchedule, LoadIInv, PlanIsAllowed, PlanIsComplete,
              ExclusionsHold, EngineIsPlanned, ServedAsAsked, Serving
<1>4. CASE Build
  <2>1. EngineIsPlanned'
    BY <1>4 DEF Build, Fp8Refused, LoadIInv, PlanIsComplete, EngineIsPlanned, Applied
  <2> QED BY <1>4, <2>1, PlanKept DEF Build
<1>5. CASE RefuseLoop \/ LoadPackage \/ Refusals
  BY <1>5, PlanKept DEF RefuseLoop, LoadPackage, Refusals, Refuse
<1>6. CASE UNCHANGED loadVars
  <2>1. CeilingIsAllowed' /\ ScheduleIsAllowed' /\ PlanIsAllowed' /\ ExclusionsHold'
    BY <1>6 DEF loadVars, LoadIInv, CeilingIsAllowed, ScheduleIsAllowed, PlanIsAllowed, ExclusionsHold,
                Allowed, Applied, Changed
  <2>2. PlanIsComplete' /\ EngineIsPlanned' /\ ServedAsAsked'
    BY <1>6 DEF loadVars, LoadIInv, PlanIsComplete, EngineIsPlanned, ServedAsAsked, Serving,
                Applied, Changed
  <2> QED BY <1>6, <2>1, <2>2 DEF loadVars, LoadIInv, Changed
<1> QED BY <1>1, <1>2, <1>3, <1>4, <1>5, <1>6, Compiled, Excluded, Hosted, ServedByEngine DEF LoadNext

(* No load serves a pass above the ceiling its caller allowed, a pass the  *)
(* caller excluded by name, or an altered schedule under a lower ceiling   *)
(* or from a worker, for any step counts.                                  *)
THEOREM LoadsStayWithinPermission == LoadSpec => []ServedWithinPermission
<1>1. LoadIInv => ServedWithinPermission
  BY DEF LoadIInv, CeilingIsAllowed, ScheduleIsAllowed, PlanIsAllowed, ExclusionsHold,
         FromPackage, FromSchedule, FromCompile, FromExclude, FromChoose, ServedWithinPermission, Serving, Allowed, Applied
<1> QED BY LoadInitIInv, LoadNextIInv, <1>1, PTL DEF LoadSpec

(* The engine serves exactly the requests of FP8, a native request gets    *)
(* the placement it names, the plan says what serves, a fused engine runs  *)
(* the steps asked for, and a required pass is served unless its caller    *)
(* excluded it or a fused engine replaces it, for any step counts.         *)
THEOREM LoadsServeAsAsked == LoadSpec => []ServedAsAsked
<1>1. LoadIInv => ServedAsAsked
  BY DEF LoadIInv
<1> QED BY LoadInitIInv, LoadNextIInv, <1>1, PTL DEF LoadSpec

-----------------------------------------------------------------------------
(***************************************************************************)
(* The worker backends: no worker is orphaned, a backend has one at a time *)
(* and talks to no other behind its caller's back, and a backend whose     *)
(* port is its own is answered by the worker it started.                   *)
(***************************************************************************)
(* A live worker is held by its backend until close() is about to end it,  *)
(* and a backend about to spawn one holds none.  NoOrphan speaks of the    *)
(* time between calls only, which says nothing about how it was reached.   *)
Held ==
  \A b \in Backends :
    /\ Alive(b) /\ pc[b] # "terminate" => proc[b]
    /\ pc[b] = "spawn" => ~proc[b]
    /\ pc[b] \in {"wait", "connect", "greet", "infer"} => proc[b]

(* Nobody connects while a conversation is on, and only close() ends it.   *)
Conversing ==
  \A b \in Backends :
    /\ pc[b] \in {"spawn", "wait", "connect", "greet", "terminate"} => conversation[b] = "none"
    /\ pc[b] \in {"greet", "infer"} => client[b] # NoClient
    /\ conversation[b] = "none" \/ client[b] # NoClient
    /\ conversation[b] = "lost" => client[b] = Broken

OwnPort(b) == \A a \in Backends : port[a] = port[b] => a = b

(* Connections, not only answers, lead to the backend's own worker. *)
OwnClient ==
  \A b \in Backends :
    OwnPort(b) => client[b] \in {b, NoClient, Broken} /\ served[b] \in {b, NoClient}

IInv == TypeOK /\ Held /\ Conversing /\ OwnClient

-----------------------------------------------------------------------------
LEMMA InitIInv == Init => IInv
BY DEF Init, IInv, TypeOK, Held, Conversing, OwnClient, Alive

LEMMA CallKeepsIInv ==
  ASSUME IInv, NEW b \in Backends, Call(b) PROVE IInv'
<1>1. TypeOK'
  BY DEF IInv, TypeOK, Call, GoTo
<1>2. Held'
  BY DEF IInv, TypeOK, Held, Alive, Call, GoTo
<1>3. Conversing'
  BY DEF IInv, TypeOK, Conversing, Call, GoTo
<1>4. OwnClient'
  BY DEF IInv, TypeOK, OwnClient, OwnPort, Call, GoTo
<1> QED BY <1>1, <1>2, <1>3, <1>4 DEF IInv

LEMMA SpawnKeepsIInv ==
  ASSUME IInv, NEW b \in Backends, Spawn(b) PROVE IInv' /\ ~Alive(b)
<1>1. TypeOK'
  BY DEF IInv, TypeOK, Spawn, GoTo
<1>2. Held' /\ ~Alive(b)
  BY DEF IInv, TypeOK, Held, Alive, Spawn, GoTo
<1>3. Conversing'
  BY DEF IInv, TypeOK, Conversing, Spawn, GoTo
<1>4. OwnClient'
  BY DEF IInv, TypeOK, OwnClient, OwnPort, Spawn, GoTo
<1> QED BY <1>1, <1>2, <1>3, <1>4 DEF IInv

(* The steps of a call and of close() that only decide what comes next. *)
LEMMA WaitingKeepsIInv ==
  ASSUME IInv, NEW b \in Backends,
         \/ SpawnRaises(b) \/ WorkerExited(b) \/ PortAnswers(b) \/ Deadline(b)
         \/ AnswerLost(b) \/ BeginClose(b)
  PROVE  IInv'
<1>0. /\ UNCHANGED <<port, proc, client, served, worker, conversation>>
      /\ \/ pc[b] = "wait" /\ pc' = [pc EXCEPT ![b] = "connect"]
         \/ \E step \in {"idle", "close"} :
              pc[b] \in {"wait", "idle", "spawn", "infer"} /\ pc' = [pc EXCEPT ![b] = step]
  BY DEF SpawnRaises, WorkerExited, PortAnswers, Deadline, AnswerLost, BeginClose, GoTo
<1>1. TypeOK'
  BY <1>0 DEF IInv, TypeOK
<1>2. Held'
  BY <1>0 DEF IInv, TypeOK, Held, Alive
<1>3. Conversing'
  BY <1>0 DEF IInv, TypeOK, Conversing
<1>4. OwnClient'
  BY <1>0 DEF IInv, TypeOK, OwnClient, OwnPort
<1> QED BY <1>1, <1>2, <1>3, <1>4 DEF IInv

LEMMA ConnectKeepsIInv ==
  ASSUME IInv, NEW b \in Backends, Connect(b) PROVE IInv'
<1>0. /\ \A w \in Listening(port[b]) : w \in Backends /\ port[w] = port[b]
      /\ NoClient \notin Backends
  BY BackendAssumption DEF Listening
<1>1. TypeOK'
  BY <1>0 DEF IInv, TypeOK, Held, Connect, GoTo
<1>2. Held'
  BY DEF IInv, TypeOK, Held, Alive, Connect, GoTo
<1>3. Conversing'
  BY <1>0 DEF IInv, TypeOK, Conversing, Connect, GoTo
<1>4. OwnClient'
  <2> SUFFICES ASSUME NEW a \in Backends, OwnPort(a)
               PROVE  client'[a] \in {a, NoClient, Broken} /\ served'[a] \in {a, NoClient}
    BY DEF OwnClient, OwnPort, Connect
  <2>1. client[a] \in {a, NoClient, Broken} /\ served'[a] \in {a, NoClient}
    BY DEF IInv, OwnClient, Connect
  <2>2. client'[a] = client[a] \/ (a = b /\ client'[a] \in Listening(port[b]))
    BY DEF IInv, TypeOK, Connect
  <2> QED BY <1>0, <2>1, <2>2 DEF OwnPort
<1> QED BY <1>1, <1>2, <1>3, <1>4 DEF IInv

LEMMA GreetKeepsIInv ==
  ASSUME IInv, NEW b \in Backends, Greet(b) \/ GreetLost(b) PROVE IInv'
<1>0. /\ UNCHANGED <<port, proc, served, worker, conversation>>
      /\ pc[b] = "greet"
      /\ \/ pc' = [pc EXCEPT ![b] = "infer"] /\ client' = client
         \/ /\ pc' = [pc EXCEPT ![b] = "idle"]
            /\ client' = [client EXCEPT ![b] = NoClient]
  BY DEF Greet, GreetLost, GoTo
<1>1. TypeOK'
  BY <1>0 DEF IInv, TypeOK
<1>2. Held'
  BY <1>0 DEF IInv, TypeOK, Held, Alive
<1>3. Conversing'
  BY <1>0 DEF IInv, TypeOK, Conversing
<1>4. OwnClient'
  BY <1>0 DEF IInv, TypeOK, OwnClient, OwnPort
<1> QED BY <1>1, <1>2, <1>3, <1>4 DEF IInv

(* A call is answered over a connection that was never lost. *)
LEMMA AnswerKeepsIInv ==
  ASSUME IInv, NEW b \in Backends, Answer(b)
  PROVE  IInv' /\ conversation[b] # "lost" /\ \A a \in Backends \ {b} : served'[a] = served[a]
<1>0. client[b] \in Backends
  BY DEF IInv, TypeOK, Conversing, Answer
<1>1. TypeOK'
  BY <1>0 DEF IInv, TypeOK, Answer, GoTo
<1>2. Held'
  BY DEF IInv, TypeOK, Held, Alive, Answer, GoTo
<1>3. Conversing' /\ conversation[b] # "lost"
  BY DEF IInv, TypeOK, Conversing, Answer, GoTo
<1>4. OwnClient'
  BY <1>0, BackendAssumption DEF IInv, TypeOK, OwnClient, OwnPort, Answer, GoTo
<1> QED BY <1>1, <1>2, <1>3, <1>4 DEF IInv, TypeOK, Answer

LEMMA DropKeepsIInv ==
  ASSUME IInv, NEW b \in Backends, Drop(b) PROVE IInv'
<1>1. TypeOK'
  BY DEF IInv, TypeOK, Drop, GoTo
<1>2. Held'
  BY DEF IInv, TypeOK, Held, Alive, Drop, GoTo
<1>3. Conversing'
  BY DEF IInv, TypeOK, Conversing, Drop, GoTo
<1>4. OwnClient'
  BY DEF IInv, TypeOK, OwnClient, OwnPort, Drop, GoTo
<1> QED BY <1>1, <1>2, <1>3, <1>4 DEF IInv

(* Connections that end leave _client where it is. *)
LEMMA CutKeepsConversing ==
  ASSUME IInv, NEW cut \in SUBSET Backends, \A b \in cut : client[b] # NoClient, Cut(cut),
         \/ pc' = pc
         \/ \E b \in Backends : pc[b] = "terminate" /\ pc' = [pc EXCEPT ![b] = "idle"]
  PROVE  /\ client' \in [Backends -> Backends \cup {NoClient, Broken}]
         /\ conversation' \in [Backends -> {"none", "open", "lost"}]
         /\ \A b \in Backends : client'[b] # NoClient => client[b] # NoClient
         /\ Conversing'
<1>1. \A b \in Backends :
        /\ client'[b] = IF b \in cut THEN Broken ELSE client[b]
        /\ conversation'[b] = IF b \in cut /\ conversation[b] = "open" THEN "lost" ELSE conversation[b]
        /\ pc'[b] = pc[b] \/ pc'[b] = "idle"
  BY DEF Cut, IInv, TypeOK
<1>2. Conversing'
  BY <1>1, BackendAssumption DEF IInv, Conversing, TypeOK
<1> QED BY <1>1, <1>2 DEF Cut, IInv, TypeOK

(* A worker that ends takes its connections with it. *)
LEMMA ExitKeepsIInv ==
  ASSUME IInv, NEW b \in Backends, Terminate(b) \/ Die(b) PROVE IInv'
<1>0. /\ Exits(b)
      /\ UNCHANGED <<port, proc, served>>
      /\ pc' = pc \/ (pc[b] = "terminate" /\ pc' = [pc EXCEPT ![b] = "idle"])
  BY DEF Terminate, Die, GoTo
<1>1. \A a \in {a \in Backends : client[a] = b} : client[a] # NoClient
  BY BackendAssumption
<1>2. /\ client' \in [Backends -> Backends \cup {NoClient, Broken}]
      /\ conversation' \in [Backends -> {"none", "open", "lost"}]
      /\ \A a \in Backends : client'[a] # NoClient => client[a] # NoClient
      /\ Conversing'
  BY <1>0, <1>1, CutKeepsConversing DEF Exits
<1>3. TypeOK'
  BY <1>0, <1>2 DEF IInv, TypeOK, Exits
<1>4. Held'
  BY <1>0 DEF IInv, TypeOK, Held, Alive, Exits
<1>5. OwnClient'
  BY <1>0 DEF IInv, TypeOK, OwnClient, OwnPort, Exits, Cut
<1> QED BY <1>2, <1>3, <1>4, <1>5 DEF IInv

LEMMA BindKeepsIInv ==
  ASSUME IInv, NEW b \in Backends, Bind(b) \/ HangUp(b) PROVE IInv'
<1>1. CASE Bind(b)
  <2>1. TypeOK'
    BY <1>1 DEF IInv, TypeOK, Bind, backendVars
  <2>2. Held'
    BY <1>1 DEF IInv, TypeOK, Held, Alive, Bind, backendVars
  <2>3. Conversing'
    BY <1>1 DEF IInv, TypeOK, Conversing, Bind, backendVars
  <2>4. OwnClient'
    BY <1>1 DEF IInv, TypeOK, OwnClient, OwnPort, Bind, backendVars
  <2> QED BY <2>1, <2>2, <2>3, <2>4 DEF IInv
<1>2. CASE HangUp(b)
  <2>1. /\ client' \in [Backends -> Backends \cup {NoClient, Broken}]
        /\ conversation' \in [Backends -> {"none", "open", "lost"}]
        /\ \A a \in Backends : client'[a] # NoClient => client[a] # NoClient
        /\ Conversing'
    BY <1>2, CutKeepsConversing, BackendAssumption DEF HangUp
  <2>2. TypeOK'
    BY <1>2, <2>1 DEF IInv, TypeOK, HangUp
  <2>3. Held'
    BY <1>2 DEF IInv, TypeOK, Held, Alive, HangUp
  <2>4. OwnClient'
    BY <1>2 DEF IInv, TypeOK, OwnClient, OwnPort, HangUp, Cut
  <2> QED BY <2>1, <2>2, <2>3, <2>4 DEF IInv
<1> QED BY <1>1, <1>2

-----------------------------------------------------------------------------
LEMMA StepKeepsIInv == IInv /\ [Next]_vars => IInv'
<1> SUFFICES ASSUME IInv, [Next]_vars PROVE IInv'
  OBVIOUS
<1>1. CASE UNCHANGED vars
  BY <1>1 DEF vars, backendVars, IInv, TypeOK, Held, Conversing, Alive, OwnClient, OwnPort
<1>2. ASSUME NEW b \in Backends, Call(b) \/ BeginClose(b) \/ TimedStep(b) \/ WorkerStep(b)
      PROVE  IInv'
  BY <1>2, CallKeepsIInv, SpawnKeepsIInv, WaitingKeepsIInv, ConnectKeepsIInv, GreetKeepsIInv,
     AnswerKeepsIInv, DropKeepsIInv, ExitKeepsIInv, BindKeepsIInv
     DEF TimedStep, WorkerStep
<1> QED BY <1>1, <1>2 DEF Next

LEMMA BackendInvariant == Spec => []IInv
BY InitIInv, StepKeepsIInv, PTL DEF Spec

(* For any backends and ports the fields of every backend keep their       *)
(* types, and only one that has a process has a client.                    *)
THEOREM BackendTypes == Spec => []TypeOK
<1>1. IInv => TypeOK
  BY DEF IInv
<1> QED BY <1>1, BackendInvariant, PTL

(* For any backends and ports: between calls every live worker is one its  *)
(* backend holds, whatever deadline passed, worker died or close ran.      *)
THEOREM NoWorkerIsOrphaned == Spec => []NoOrphan
<1>1. IInv => NoOrphan
  BY DEF IInv, Held, NoOrphan
<1> QED BY <1>1, BackendInvariant, PTL

(* A worker is spawned only when the backend's last one has ended. *)
OneWorkerEach ==
  [][\A b \in Backends : Spawn(b) => ~Alive(b)]_vars

(* For any backends and ports: a worker is spawned only when the backend's *)
(* last one has ended.                                                     *)
THEOREM OneWorkerAtATime == Spec => OneWorkerEach
<1>1. IInv /\ [Next]_vars => [\A b \in Backends : Spawn(b) => ~Alive(b)]_vars
  BY SpawnKeepsIInv
<1> QED BY <1>1, BackendInvariant, PTL DEF Spec, OneWorkerEach

(* For any backends and ports: no call is answered by another worker or    *)
(* over another connection than the one that answered before, until the    *)
(* backend is closed.                                                      *)
THEOREM ConversationsAreNotReplaced == Spec => NoSilentReplacement
<1> DEFINE NotReplaced == \A b \in Backends :
             served[b] = NoClient /\ served'[b] # NoClient => conversation[b] # "lost"
<1>1. ASSUME IInv, NEW a \in Backends, Call(a) \/ BeginClose(a) \/ TimedStep(a) \/ WorkerStep(a)
      PROVE  NotReplaced
  <2>1. CASE Answer(a)
    BY <1>1, <2>1, AnswerKeepsIInv
  <2>2. CASE Call(a)
    BY <1>1, <2>2 DEF Call, IInv, TypeOK
  <2>3. CASE ~Answer(a) /\ ~Call(a)
    <3>1. served' = served
      BY <1>1, <2>3 DEF BeginClose, TimedStep, WorkerStep, Spawn, SpawnRaises, WorkerExited,
         PortAnswers, Deadline, Connect, Greet, GreetLost, AnswerLost, Drop, Terminate, Bind,
         HangUp, Die, backendVars
    <3> QED BY <3>1
  <2> QED BY <1>1, <2>1, <2>2, <2>3
<1>2. IInv /\ [Next]_vars => [NotReplaced]_vars
  BY <1>1 DEF Next
<1> QED BY <1>2, BackendInvariant, PTL DEF Spec, NoSilentReplacement

(* For any number of backends on one host: one whose port no other backend *)
(* was given is answered by the worker it started, or not at all.          *)
THEOREM AnsweredByOwnWorker == Spec => []ServedByOwnWorker
<1>1. IInv => ServedByOwnWorker
  BY DEF IInv, OwnClient, OwnPort, ServedByOwnWorker
<1> QED BY <1>1, BackendInvariant, PTL

=============================================================================
