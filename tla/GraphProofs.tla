------------------------------ MODULE GraphProofs ------------------------------
(***************************************************************************)
(* The captured graphs, for any number of them.  GraphStack: none points   *)
(* into a pool that was reset.  PoolCertificate: graphs kept across resets *)
(* read the storage the model writes, for any allocator, if the first      *)
(* reset carries a prompt, and are kept from the third reset on while      *)
(* resets carry prompts.  GraphTable: an answer is eager's.  StaticCapture:*)
(* a result is upstream's.                                                 *)
(***************************************************************************)
EXTENDS GraphStack, RingProofs, PoolCertificate, GraphTable, StaticCapture, TLAPS

(* GraphStack *)

LEMMA OwnElements ==
  ASSUME NEW S, NEW s \in Seq(S) PROVE s \in Seq(Range(s)) /\ Range(s) \subseteq S
<1>1. \A i \in 1 .. Len(s) : s[i] \in Range(s)
  BY DEF Range
<1> QED BY <1>1 DEF Range

LEMMA TailElements ==
  ASSUME NEW S, NEW s \in Seq(S), s # <<>> PROVE Tail(s) \in Seq(S)
OBVIOUS

LEMMA WithoutOne ==
  ASSUME NEW S, NEW s \in Seq(S), NEW i \in DOMAIN s
  PROVE  RemoveAt(s, i) \in Seq(S) /\ s[i] \in S
<1>1. SubSeq(s, 1, i - 1) \in Seq(S) /\ SubSeq(s, i + 1, Len(s)) \in Seq(S)
  OBVIOUS
<1> QED BY <1>1 DEF RemoveAt

(* What its key says about a graph. *)
KeyTells(g) ==
  \E n \in KeySizes, uc \in 0 .. 2 :
    \/ /\ g.planned /\ g.key = <<n, uc, Total, Total>>
       /\ g.shown = ShownFrom(Total, 0, Total)
    \/ /\ ~g.planned
       /\ \E s \in Slots, c \in Int :
            /\ g.key = <<n, uc, s, c>> /\ g.head = (s + c) % Total
            /\ g.shown = ShownFrom(Total, s, c + n)

(* The pool is where it was last bound, every graph was captured in it and *)
(* is what its key says, and the ring is what a server's is.               *)
StackIInv ==
  /\ graphs \in Seq(Range(graphs))
  /\ baseline = pool
  /\ \A g \in Range(graphs) : KeyTells(g)
  /\ GraphsAreLive
  /\ IInv

LEMMA CapturedTells ==
  ASSUME IInv, NEW n \in KeySizes, NEW uc \in 0 .. 2 PROVE KeyTells(Captured(n, uc))
<1> DEFINE g == Captured(n, uc)
<1>0. /\ g.key = Key(n, uc) /\ g.planned = PlannedWrite /\ g.head = WriteHead
      /\ g.shown = Presented(count + n)
  BY DEF Captured
<1> HIDE DEF g
<1>1. start \in Slots /\ count \in Int /\ n \in Nat /\ PlannedWrite \in BOOLEAN
  BY PeriodAssumption, TokensAssumption, PlanAssumption DEF IInv, TypeOK, PlannedWrite, Saturated
<1>2. Presented(count + n) = ShownFrom(Total, start, count + n)
  BY DEF Presented, ShownFrom
<1>3. CASE PlannedWrite
  <2>1. ShownFrom(Total, start, count + n) = ShownFrom(Total, 0, Total)
    BY <1>1, <1>3, TotalAssumption DEF PlannedWrite, Saturated, ShownFrom
  <2>2. g.planned /\ g.key = <<n, uc, Total, Total>>
    BY <1>0, <1>3 DEF Key
  <2> QED BY <1>0, <1>2, <2>1, <2>2 DEF KeyTells, g
<1>4. CASE ~PlannedWrite
  <2>1. ~g.planned /\ g.key = <<n, uc, start, count>>
    BY <1>0, <1>4 DEF Key
  <2> QED BY <1>0, <1>1, <1>2, <2>1 DEF KeyTells, WriteHead, g
<1> QED BY <1>3, <1>4

(* A graph that is found under the key of a forward is what capturing that *)
(* forward would make.                                                     *)
LEMMA KeyTellsRest ==
  ASSUME IInv, NEW n \in KeySizes, NEW uc \in 0 .. 2, NEW g, KeyTells(g), g.key = Key(n, uc)
  PROVE  /\ g.planned <=> PlannedWrite
         /\ ~PlannedWrite => g.head = WriteHead
         /\ g.shown = Presented(count + n)
<1>1. start \in Slots /\ count \in Int /\ n \in Nat /\ Total \notin Slots
  BY PeriodAssumption, TokensAssumption, TotalAssumption DEF IInv, TypeOK, Slots
<1>2. Presented(count + n) = ShownFrom(Total, start, count + n)
  BY DEF Presented, ShownFrom
<1>3. CASE PlannedWrite
  <2>1. ShownFrom(Total, start, count + n) = ShownFrom(Total, 0, Total)
    BY <1>1, <1>3, TotalAssumption DEF PlannedWrite, Saturated, ShownFrom
  <2>2. g.key = <<n, uc, Total, Total>>
    BY <1>3 DEF Key
  <2> QED BY <1>1, <1>2, <1>3, <2>1, <2>2 DEF KeyTells
<1>4. CASE ~PlannedWrite
  <2>1. g.key = <<n, uc, start, count>>
    BY <1>4 DEF Key
  <2> QED BY <1>1, <1>2, <1>4, <2>1 DEF KeyTells, WriteHead
<1> QED BY <1>3, <1>4

(* A replay in live storage writes and reads as the forward does. *)
LEMMA ReplayedIsForward ==
  ASSUME NEW n, NEW stamp, NEW g, g.pool = pool,
         g.planned <=> PlannedWrite, ~PlannedWrite => g.head = WriteHead,
         g.shown = Presented(count + n), Replayed(g, n, stamp)
  PROVE  WriteAndAttend(n, stamp)
<1> DEFINE block == Block(WriteAt(n), n)
           written == [s \in Slots |-> IF s \in block THEN stamp ELSE kv[s]]
<1>1. block = Block(IF g.planned THEN Buffers(n)[n] ELSE g.head, n)
  BY DEF WriteAt
<1>2. kv' = written
  BY <1>1 DEF Replayed
<1>3. seen' = [i \in DOMAIN Presented(count + n) |->
                 <<Presented(count + n)[i], written[Presented(count + n)[i]]>>]
  BY <1>1 DEF Replayed
<1> QED BY <1>2, <1>3 DEF WriteAndAttend

LEMMA StackForwardKeeps ==
  ASSUME StackIInv, NEW n \in KeySizes, NEW uc \in 0 .. 2,
         Issue(n, uc), StackForward(n, uc, clock + 1)
  PROVE  StackIInv' /\ (Fits(n) => Forward(n, uc, clock + 1))
<1> DEFINE stamp == clock + 1
<1>1. pool' = pool /\ baseline' = baseline
  BY DEF StackForward
<1> DEFINE InPool == {g \in Range(graphs) \cup {Captured(n, uc)} : g.pool = pool /\ KeyTells(g)}
<1>2. graphs \in Seq(InPool) /\ Captured(n, uc) \in InPool
  <2>1. Captured(n, uc).pool = pool /\ KeyTells(Captured(n, uc))
    BY CapturedTells DEF StackIInv, Captured
  <2>2. graphs \in Seq(Range(graphs)) /\ \A g \in Range(graphs) : g.pool = pool /\ KeyTells(g)
    BY DEF StackIInv, GraphsAreLive
  <2>3. Range(graphs) \subseteq InPool /\ Captured(n, uc) \in InPool
    BY <2>1, <2>2
  <2> HIDE DEF InPool
  <2> QED BY <2>2, <2>3
<1>3. \A g \in InPool : g.pool = pool /\ KeyTells(g)
  OBVIOUS
<1>4. ASSUME graphs' \in Seq(InPool)
      PROVE  graphs' \in Seq(Range(graphs')) /\ GraphsAreLive' /\ \A g \in Range(graphs') : KeyTells(g)
  BY <1>1, <1>3, <1>4, OwnElements DEF GraphsAreLive
<1> HIDE DEF InPool
<1>5. ASSUME graphs' \in Seq(InPool), Commits(n, uc, stamp), kv' \in [Slots -> Nat]
      PROVE  StackIInv'
  <2>1. IInv'
    BY <1>5, ForwardKeepsIInv DEF StackIInv
  <2> QED BY <1>1, <1>4, <1>5, <2>1 DEF StackIInv
<1>6. stamp \in Nat /\ kv \in [Slots -> Nat]
  BY DEF StackIInv, IInv, TypeOK, TypeOKCycle
<1> HIDE DEF stamp
<1>7. ASSUME WriteAndAttend(n, stamp) \/ \E g : Replayed(g, n, stamp) PROVE kv' \in [Slots -> Nat]
  BY <1>6, <1>7 DEF WriteAndAttend, Replayed
<1>8. CASE Capture(n, uc, stamp)
  <2>1. Evicted \in Seq(InPool)
    BY <1>2, GraphAssumption, TailElements DEF Evicted
  <2>2. graphs' \in Seq(InPool)
    BY <1>2, <1>8, <2>1 DEF Capture
  <2>3. Commits(n, uc, stamp) /\ Replayed(Captured(n, uc), n, stamp)
    BY <1>8 DEF Capture, CommitAll, Commits
  <2>4. WriteAndAttend(n, stamp)
    BY <2>3, ReplayedIsForward DEF Captured
  <2> QED BY <1>5, <1>7, <2>2, <2>3, <2>4 DEF Forward, Commits, stamp
<1>9. CASE Replay(n, uc, stamp)
  <2> DEFINE i == Find(Key(n, uc))
  <2>1. i \in DOMAIN graphs /\ graphs[i].key = Key(n, uc)
    BY <1>9 DEF Replay, Held, Find, Range
  <2>2. Commits(n, uc, stamp) /\ graphs' = Touched(i) /\ Replayed(graphs[i], n, stamp)
    BY <1>9 DEF Replay, CommitAll, Commits
  <2> HIDE DEF i
  <2>3. RemoveAt(graphs, i) \in Seq(InPool) /\ graphs[i] \in InPool
    BY <1>2, <2>1, WithoutOne
  <2>4. graphs' \in Seq(InPool)
    BY <2>2, <2>3 DEF Touched
  <2>5. KeyTells(graphs[i]) /\ graphs[i].pool = pool
    BY <1>3, <2>3
  <2>6. /\ graphs[i].planned <=> PlannedWrite
        /\ ~PlannedWrite => graphs[i].head = WriteHead
        /\ graphs[i].shown = Presented(count + n)
    BY <2>1, <2>5, KeyTellsRest DEF StackIInv
  <2>7. WriteAndAttend(n, stamp)
    BY <2>2, <2>5, <2>6, ReplayedIsForward
  <2> QED BY <1>5, <1>7, <2>2, <2>4, <2>7 DEF Forward, Commits, stamp
<1>10. CASE Eager(n, uc, stamp)
  <2>1. Forward(n, uc, stamp) /\ Commits(n, uc, stamp) /\ WriteAndAttend(n, stamp)
    BY <1>10 DEF Eager, Forward, Commits
  <2>2. graphs' \in Seq(InPool)
    BY <1>2, <1>10 DEF Eager
  <2> QED BY <1>5, <1>7, <2>1, <2>2 DEF stamp
<1> QED BY <1>8, <1>9, <1>10 DEF StackForward, stamp

(* Every step is one of the ring server in an episode in which no call     *)
(* raised: whatever the cycle issues then fits.                            *)
LEMMA StackStep ==
  StackIInv /\ [StackNext]_stackVars => StackIInv' /\ [clean => ServerNext]_serverVars
<1> SUFFICES ASSUME StackIInv, [StackNext]_stackVars
             PROVE  StackIInv' /\ [clean => ServerNext]_serverVars
  OBVIOUS
<1>1. ASSUME UNCHANGED <<graphs, pool, baseline>>, [ServerNext]_serverVars
      PROVE  StackIInv' /\ [clean => ServerNext]_serverVars
  BY <1>1, ServerStepKeepsIInv DEF StackIInv, GraphsAreLive, Range
<1>2. ASSUME NEW n \in KeySizes, NEW uc \in 0 .. 2, Issue(n, uc), StackForward(n, uc, clock + 1)
      PROVE  StackIInv' /\ [clean => ServerNext]_serverVars
  <2>1. n \in NextTokens
    BY <1>2, PeriodAssumption, Zenon DEF Issue, NextTokens, Transient, Closing, Phases
  <2>2. clean => Fits(n)
    BY <2>1, AlignedFits DEF StackIInv, IInv, AllocationFits
  <2> QED BY <1>2, <2>2, StackForwardKeeps DEF ServerNext
<1>3. CASE Return /\ UNCHANGED <<ringVars, graphVars>>
  BY <1>1, <1>3 DEF graphVars, ServerNext
<1>4. CASE IssueClearPred /\ ClearPred /\ UNCHANGED graphVars
  BY <1>1, <1>4 DEF graphVars, ServerNext
<1>5. CASE StackReset
  <2>1. /\ baseline' = pool' /\ ((graphs' = graphs /\ pool' = pool) \/ graphs' = <<>>)
        /\ IssueReset /\ InitCache
    BY <1>5 DEF StackReset, Keeps, StackIInv
  <2>2. IInv' /\ ServerNext
    BY <2>1, ResetKeepsIInv DEF StackIInv, ServerNext
  <2>3. CASE graphs' = <<>>
    BY <2>1, <2>2, <2>3 DEF StackIInv, GraphsAreLive, Range
  <2> QED BY <2>1, <2>2, <2>3 DEF StackIInv, GraphsAreLive, Range
<1>6. CASE StackRaises
  BY <1>1, <1>6 DEF StackRaises, ServerNext
<1>7. CASE UNCHANGED stackVars
  BY <1>1, <1>7 DEF stackVars, graphVars
<1> QED BY <1>2, <1>3, <1>4, <1>5, <1>6, <1>7 DEF StackNext

LEMMA StackInvariant == StackSpec => []StackIInv
<1>1. StackInit => StackIInv
  BY InitIInv DEF StackInit, StackIInv, GraphsAreLive, Range
<1>2. StackIInv /\ [StackNext]_stackVars => StackIInv'
  BY StackStep
<1> QED BY <1>1, <1>2, PTL DEF StackSpec

(* For any token counts, pools and numbers of graphs, whatever calls raise *)
(* and resets reallocate: no graph the stack holds points into storage     *)
(* that was released.                                                      *)
THEOREM GraphsStayLive == StackSpec => []GraphsAreLive
<1>1. StackIInv => GraphsAreLive
  BY DEF StackIInv
<1> QED BY StackInvariant, <1>1, PTL

(* For any token counts, pools that hold a whole number of cycles and      *)
(* numbers of graphs: in an episode in which no call raised, a forward     *)
(* that is captured, replayed or falls back to the eager stack writes,     *)
(* reads and commits what the ring server's forward does.                  *)
THEOREM StackImplementsRing == StackSpec => ImplementsRing
<1>1. StackInit => ServerInit
  BY DEF StackInit
<1>2. StackIInv /\ [StackNext]_stackVars => [clean => ServerNext]_serverVars
  BY StackStep
<1> QED BY StackInvariant, <1>1, <1>2, PTL DEF StackSpec, ImplementsRing

-----------------------------------------------------------------------------
(* PoolCertificate *)

Complete(m) == \A s \in Sites : m[s] # Nowhere

(* Two sites never keep the same storage. *)
BoxesApart ==
  \A s, t \in Sites : box[s] = box[t] /\ box[s] # Nowhere => s = t

(* Nothing is wrapped, recorded or captured before the first reset. *)
Unused ==
  resets = 0 =>
    /\ sites = {} /\ box = [s \in Sites |-> Nowhere]
    /\ pointers = <<>> /\ captured = {}

(* When the first reset carries a prompt it publishes every site; from then  *)
(* on the baseline records the pools, and it records everything, where it    *)
(* is kept, once a cross-attention K/V is kept: the reset that allocated it  *)
(* had a prompt, and the pending site moved the baseline.                    *)
BaselineHolds ==
  resets > 0 =>
    /\ sites = Sites
    /\ Pools \subseteq DOMAIN pointers
    /\ \A s \in DOMAIN pointers : box[s] # Nowhere => pointers[s] = box[s]
    /\ (\E c \in CrossKVs : box[c] # Nowhere) => Complete(box) /\ DOMAIN pointers = Sites
    /\ Complete(at) => DOMAIN pointers = Sites /\ \A s \in Sites : pointers[s] = at[s]

(* The graphs there are were captured where the storage is now, and there  *)
(* are some only while every site has storage.                             *)
CapturedAreLive == captured # {} => captured = {at} /\ Complete(at)

(* Two resets with prompts have put every site in a box. *)
Settled == resets >= 2 /\ prompted => Complete(box)

Covered == BaselineHolds /\ CapturedAreLive /\ Settled

CertificateIInv ==
  /\ CertificateTypeOK /\ BoxesApart /\ Unused
  /\ pending = {} /\ resets \in 0 .. 3 /\ prompted \in BOOLEAN
  /\ PromptFirst \/ prompted => Covered

-----------------------------------------------------------------------------
LEMMA CertificateInitIInv == CertificateInit => CertificateIInv
<1> SUFFICES ASSUME CertificateInit PROVE CertificateIInv
  OBVIOUS
<1>1. CertificateTypeOK /\ BoxesApart /\ Unused
  BY DEF CertificateInit, CertificateTypeOK, BoxesApart, Unused
<1>2. Covered
  BY DEF CertificateInit, Covered, BaselineHolds, CapturedAreLive, Settled
<1> QED BY <1>1, <1>2 DEF CertificateInit, CertificateIInv

(* Where a reset leaves the storage. *)
LEMMA PlacedFacts ==
  ASSUME BoxesApart, box \in [Sites -> Addresses \cup {Nowhere}],
         NEW prompt \in BOOLEAN, NEW f \in Fresh(prompt)
  PROVE  LET now == Placed(prompt, f)
         IN /\ now \in [Sites -> Addresses \cup {Nowhere}]
            /\ \A s \in Sites : now[s] # Nowhere <=> s \in Requested(prompt)
            /\ \A s \in Sites : now[s] # Nowhere /\ box[s] # Nowhere => now[s] = box[s]
            /\ \A s, t \in Sites : now[s] = now[t] /\ now[s] # Nowhere => s = t
            /\ \A s, t \in Sites : now[s] = box[t] /\ now[s] # Nowhere => s = t
<1> DEFINE now == Placed(prompt, f)
<1>1. /\ f \in [Allocated(prompt) -> Addresses]
      /\ \A s \in Allocated(prompt), b \in Sites : f[s] # box[b]
      /\ \A s, t \in Allocated(prompt) : f[s] = f[t] => s = t
  BY DEF Fresh
<1>2. \A s \in Sites :
        /\ s \in Kept(prompt) => now[s] = box[s]
        /\ s \in Allocated(prompt) => now[s] = f[s]
        /\ s \notin Requested(prompt) => now[s] = Nowhere
  BY DEF Placed, Kept, Allocated
<1>3. \A s \in Sites : s \in Requested(prompt) <=> s \in Kept(prompt) \/ s \in Allocated(prompt)
  BY DEF Allocated, Kept
<1>4. now \in [Sites -> Addresses \cup {Nowhere}]
  BY <1>1 DEF Placed, Kept, Allocated
<1>5. \A s \in Sites : now[s] # Nowhere <=> s \in Requested(prompt)
  BY <1>1, <1>2, <1>3, SitesAssumption DEF Kept
<1>6. \A s \in Sites : now[s] # Nowhere /\ box[s] # Nowhere => now[s] = box[s]
  BY <1>2, <1>5 DEF Kept
<1>7. \A s, t \in Sites : now[s] = box[t] /\ now[s] # Nowhere => s = t
  BY <1>1, <1>2, <1>3, <1>5 DEF BoxesApart
<1>8. \A s, t \in Sites : now[s] = now[t] /\ now[s] # Nowhere => s = t
  BY <1>1, <1>2, <1>3, <1>5, <1>7
<1> QED BY <1>4, <1>5, <1>6, <1>7, <1>8

LEMMA CaptureAllKeepsIInv ==
  ASSUME CertificateIInv, CaptureAll PROVE CertificateIInv' /\ captured \subseteq captured'
<1>1. CertificateTypeOK' /\ BoxesApart' /\ Unused'
  BY DEF CertificateIInv, CaptureAll, CertificateTypeOK, BoxesApart, Unused
<1>2. ASSUME PromptFirst \/ prompted' PROVE Covered'
  BY <1>2 DEF CertificateIInv, CaptureAll, Covered, BaselineHolds, CapturedAreLive, Settled, Complete
<1> QED BY <1>1, <1>2 DEF CertificateIInv, CaptureAll

LEMMA CertificateResetKeepsIInv ==
  ASSUME CertificateIInv, NEW prompt \in BOOLEAN, Reset(prompt)
  PROVE  CertificateIInv' /\ (resets >= 2 /\ prompted' => captured \subseteq captured')
<1> PICK f \in Fresh(prompt) :
       LET now == Placed(prompt, f)
           unmoved == Stable(prompt, now)
           moves == ~unmoved /\ Rebaselines(prompt)
       IN /\ at' = now
          /\ sites' = Published(now)
          /\ box' = Boxed(now)
          /\ pointers' = IF moves THEN Tracked(now) ELSE pointers
          /\ pending' = IF moves THEN {} ELSE Pending(prompt)
          /\ captured' = IF unmoved THEN captured ELSE {}
  BY DEF Reset
<1> DEFINE now == Placed(prompt, f)
           unmoved == Stable(prompt, now)
           moves == ~unmoved /\ Rebaselines(prompt)
<1>1. /\ now \in [Sites -> Addresses \cup {Nowhere}]
      /\ \A s \in Sites : now[s] # Nowhere <=> s \in Requested(prompt)
      /\ \A s \in Sites : now[s] # Nowhere /\ box[s] # Nowhere => now[s] = box[s]
      /\ \A s, t \in Sites : now[s] = now[t] /\ now[s] # Nowhere => s = t
      /\ \A s, t \in Sites : now[s] = box[t] /\ now[s] # Nowhere => s = t
  BY PlacedFacts DEF CertificateIInv, CertificateTypeOK
<1>2. /\ at' = now
      /\ sites' = Published(now)
      /\ box' = Boxed(now)
      /\ pointers' = IF moves THEN Tracked(now) ELSE pointers
      /\ pending' = IF moves THEN {} ELSE Pending(prompt)
      /\ captured' = IF unmoved THEN captured ELSE {}
  OBVIOUS
<1>3. /\ resets = 0 /\ PromptFirst => prompt
      /\ resets' = IF resets < 3 THEN resets + 1 ELSE resets
      /\ prompted' = (prompted /\ prompt)
  BY DEF Reset
<1> HIDE DEF now
<1>4. pending' = {}
  BY <1>2 DEF Stable, Rebaselines
<1>5. resets \in 0 .. 3 /\ resets' \in 1 .. 3 /\ prompted' \in BOOLEAN
  BY <1>3 DEF CertificateIInv
<1>6. box' \in [Sites -> Addresses \cup {Nowhere}]
  BY <1>1, <1>2 DEF CertificateIInv, CertificateTypeOK, Boxed
<1>7. BoxesApart'
  BY <1>1, <1>2 DEF CertificateIInv, BoxesApart, CertificateTypeOK, Boxed
<1>8. CertificateTypeOK'
  <2>1. sites' \subseteq Sites /\ sites \subseteq sites'
    BY <1>2 DEF CertificateIInv, CertificateTypeOK, Unused, Published
  <2>2. DOMAIN pointers' \subseteq sites'
    <3>1. DOMAIN Tracked(now) \subseteq sites'
      BY <1>2 DEF Tracked
    <3> QED BY <3>1, <2>1, <1>2 DEF CertificateIInv, CertificateTypeOK
  <2>3. \A s \in sites' : box'[s] # Nowhere /\ at'[s] # Nowhere => at'[s] = box'[s]
    BY <1>1, <1>2, <2>1 DEF CertificateIInv, CertificateTypeOK, Boxed
  <2> QED BY <1>1, <1>2, <1>4, <1>6, <2>1, <2>2, <2>3 DEF CertificateTypeOK
<1>9. Unused'
  BY <1>5 DEF Unused
<1>10. ASSUME PromptFirst \/ prompted'
       PROVE  Covered' /\ (resets >= 2 /\ prompted' => captured \subseteq captured')
  <2> USE <1>10
  <2>1. CASE resets = 0
    <3>1. prompt /\ Requested(prompt) = Sites
      BY <1>3, <2>1 DEF Requested
    <3>2. moves /\ ~unmoved
      BY <2>1 DEF CertificateIInv, Unused, Stable, Rebaselines
    <3>3. sites' = Sites /\ Complete(at')
      BY <1>1, <1>2, <2>1, <3>1 DEF Published, Complete
    <3>4. DOMAIN pointers' = Sites /\ \A s \in Sites : pointers'[s] = at'[s]
      BY <1>2, <3>2, <3>3 DEF Tracked, Complete
    <3>5. box' = [s \in Sites |-> Nowhere] /\ captured' = {} /\ resets' = 1
      BY <1>2, <1>3, <2>1, <3>2 DEF CertificateIInv, Unused, Boxed
    <3> QED BY <2>1, <3>3, <3>4, <3>5 DEF Covered, BaselineHolds, CapturedAreLive, Settled, Complete, Sites
  <2>2. CASE resets > 0
    <3>1. /\ BaselineHolds /\ CapturedAreLive /\ Settled
          /\ sites = Sites /\ sites' = Sites
      BY <1>2, <1>3, <2>2 DEF CertificateIInv, Covered, BaselineHolds, Published
    <3>2. /\ \A s \in Sites : now[s] # Nowhere => box'[s] = now[s]
          /\ \A s \in Sites : now[s] = Nowhere => box'[s] = box[s]
          /\ \A s \in Sites : box[s] # Nowhere => box'[s] = box[s]
      BY <1>1, <1>2, <3>1 DEF Boxed
    <3>3. /\ DOMAIN Tracked(now) = Requested(prompt)
          /\ \A s \in Requested(prompt) : Tracked(now)[s] = now[s]
          /\ Pools \subseteq Requested(prompt) /\ Requested(prompt) \subseteq Sites
      BY <1>1, <1>2, <3>1 DEF Tracked, Requested, Sites
    <3>4. DOMAIN pointers # {} /\ Pools # {}
      BY <2>2, <3>1, SitesAssumption DEF BaselineHolds
    <3>5. Pending(prompt) = Allocated(prompt)
      BY <3>1, <3>3 DEF CertificateIInv, Pending, Allocated
    (* An allocation moves the baseline; without one everything is where   *)
    (* it is kept.                                                         *)
    <3>6. CASE Allocated(prompt) # {}
      <4>1. moves /\ ~unmoved
        BY <3>5, <3>6 DEF Stable, Rebaselines
      <4>2. pointers' = Tracked(now) /\ captured' = {}
        BY <1>2, <4>1
      <4>3. PICK s \in Requested(prompt) : box[s] = Nowhere
        BY <3>6 DEF Allocated, Kept
      <4>4. ASSUME NEW c \in CrossKVs, box'[c] # Nowhere
            PROVE  Complete(box') /\ Requested(prompt) = Sites
        <5>1. box[c] = Nowhere
          BY <2>2, <3>1, <3>3, <4>3 DEF BaselineHolds, Complete
        <5>2. c \in Sites /\ c \notin Pools /\ now[c] # Nowhere
          BY <3>2, <4>4, <5>1, SitesAssumption DEF Sites
        <5>3. Requested(prompt) = Sites
          BY <1>1, <5>2 DEF Requested
        <5> QED BY <1>1, <3>2, <5>3 DEF Complete
      <4>5. Complete(at') => Requested(prompt) = Sites
        BY <1>1, <1>2, <3>3 DEF Complete
      <4>6. BaselineHolds'
        BY <1>1, <1>2, <3>1, <3>2, <3>3, <4>2, <4>4, <4>5 DEF BaselineHolds, Complete
      <4>7. prompted' => Complete(box')
        BY <1>1, <1>3, <3>2 DEF Complete, Requested
      <4>8. ~(resets >= 2 /\ prompted')
        BY <1>3, <3>1, <3>3, <4>3 DEF Settled, Complete
      <4> QED BY <4>2, <4>6, <4>7, <4>8 DEF Covered, CapturedAreLive, Settled
    <3>7. CASE Allocated(prompt) = {}
      <4>1. pointers' = pointers /\ ~moves
        BY <1>2, <3>4, <3>5, <3>7 DEF Rebaselines
      <4>2. \A s \in Requested(prompt) : box[s] # Nowhere /\ now[s] = box[s]
        BY <1>1, <3>3, <3>7 DEF Allocated, Kept
      <4>3. box' = box
        BY <1>6, <1>1, <3>2, <4>2 DEF CertificateIInv, CertificateTypeOK
      <4>4. ASSUME Requested(prompt) = Sites
            PROVE  DOMAIN pointers = Sites /\ \A s \in Sites : pointers[s] = now[s]
        <5>1. Complete(box)
          BY <4>2, <4>4 DEF Complete
        <5>2. DOMAIN pointers = Sites
          BY <2>2, <3>1, <5>1 DEF BaselineHolds, Complete, Sites, CertificateIInv, CertificateTypeOK
        <5> QED BY <2>2, <3>1, <4>2, <4>4, <5>1, <5>2 DEF BaselineHolds, Complete
      <4>5. Complete(at') => Requested(prompt) = Sites
        BY <1>1, <1>2, <3>3 DEF Complete
      <4>6. BaselineHolds'
        BY <1>2, <2>2, <3>1, <4>1, <4>3, <4>4, <4>5 DEF BaselineHolds, Complete
      <4>7. CapturedAreLive'
        <5> SUFFICES ASSUME captured' # {} PROVE captured' = {at'} /\ Complete(at')
          BY DEF CapturedAreLive
        <5>1. unmoved /\ captured = {at} /\ Complete(at)
          BY <1>2, <3>1 DEF CapturedAreLive
        <5>2. DOMAIN pointers = Sites /\ \A s \in Sites : pointers[s] = at[s]
          BY <2>2, <3>1, <5>1 DEF BaselineHolds
        <5>3. \A s \in Sites : s \in Requested(prompt) /\ now[s] = at[s]
          BY <3>3, <5>1, <5>2 DEF Stable
        <5>4. now = at
          BY <1>1, <5>3 DEF CertificateIInv, CertificateTypeOK
        <5> QED BY <1>2, <5>1, <5>4
      <4>8. Settled'
        BY <1>3, <4>2, <4>3 DEF Settled, Complete, Requested
      <4>9. resets >= 2 /\ prompted' => captured' = captured
        <5> SUFFICES ASSUME prompt PROVE unmoved
          BY <1>2, <1>3
        <5>1. Requested(prompt) = Sites
          BY DEF Requested
        <5> QED BY <3>3, <3>4, <3>5, <3>7, <4>4, <5>1 DEF Stable
      <4> QED BY <4>6, <4>7, <4>8, <4>9 DEF Covered
    <3> QED BY <3>6, <3>7
  <2> QED BY <1>5, <2>1, <2>2
<1> QED BY <1>4, <1>5, <1>7, <1>8, <1>9, <1>10 DEF CertificateIInv

-----------------------------------------------------------------------------
LEMMA CertificateStepIInv ==
  CertificateIInv /\ [CertificateNext]_certificateVars =>
    CertificateIInv' /\ [resets >= 2 /\ prompted' => captured \subseteq captured']_certificateVars
<1> SUFFICES ASSUME CertificateIInv, [CertificateNext]_certificateVars
             PROVE  CertificateIInv' /\ [resets >= 2 /\ prompted' => captured \subseteq captured']_certificateVars
  OBVIOUS
<1>1. CASE UNCHANGED certificateVars
  <2>1. CertificateIInv'
    BY <1>1 DEF certificateVars, CertificateIInv, CertificateTypeOK, BoxesApart, Unused, Covered, BaselineHolds, CapturedAreLive, Settled, Complete
  <2> QED BY <1>1, <2>1
<1>2. CASE CertificateNext
  BY <1>2, CaptureAllKeepsIInv, CertificateResetKeepsIInv DEF CertificateNext
<1> QED BY <1>1, <1>2

LEMMA CertificateInvariant == CertificateSpec => []CertificateIInv
<1>1. CertificateIInv /\ [CertificateNext]_certificateVars => CertificateIInv'
  BY CertificateStepIInv
<1> QED BY CertificateInitIInv, <1>1, PTL DEF CertificateSpec

(* For any sites and addresses: the certificate's records keep their       *)
(* types, a wrapped site is used where it is kept, and no two sites share  *)
(* storage, whatever released address the allocator returns.               *)
THEOREM CertificateTypes == CertificateSpec => []CertificateTypeOK
<1>1. CertificateIInv => CertificateTypeOK
  BY DEF CertificateIInv
<1> QED BY <1>1, CertificateInvariant, PTL

(* For any sites and addresses, if the first reset carries a prompt: a     *)
(* graph that survived a reset reads the storage the model writes.         *)
THEOREM CertificateFailsClosed ==
  ASSUME PromptFirst
  PROVE  CertificateSpec => []KeptGraphsAreLive
<1>1. CertificateIInv => KeptGraphsAreLive
  BY DEF CertificateIInv, Covered, CapturedAreLive, KeptGraphsAreLive
<1> QED BY <1>1, CertificateInvariant, PTL

(* For any sites and addresses: from the third reset on no reset drops a   *)
(* graph while every reset has carried a prompt.                           *)
THEOREM GraphsSurvive == CertificateSpec => SurvivesFromThirdReset
<1>1. CertificateIInv /\ [CertificateNext]_certificateVars => [resets >= 2 /\ prompted' => captured \subseteq captured']_certificateVars
  BY CertificateStepIInv
<1> QED BY <1>1, CertificateInvariant, PTL DEF CertificateSpec, SurvivesFromThirdReset

-----------------------------------------------------------------------------
(* GraphTable *)

(* Each graph saw the metadata its owned arguments keep alive, at the      *)
(* extent of its slot, and no two graphs have one slot.                    *)
GraphRecord == [slot : MetaAddresses \X Extents, saw : [in : Inputs, obj : Nat, extent : Extents]]

GraphsAreOwned ==
  /\ \A i \in DOMAIN entries :
       LET e == entries[i] IN
       /\ e.slot \in DOMAIN stable
       /\ e.saw.obj = stable[e.slot].obj
       /\ e.saw.extent = e.slot[2]
  /\ \A i, j \in DOMAIN entries : entries[i].slot = entries[j].slot => i = j

(* An object that is kept alive shares its address with no other.          *)
KeptIsUnique ==
  \A s \in DOMAIN stable :
    /\ s \in MetaAddresses \X Extents
    /\ stable[s].addr = s[1]
    /\ stable[s].addr = meta.addr => stable[s].obj = meta.obj

TableIInv ==
  /\ meta \in [obj : Nat, addr : MetaAddresses] /\ extent \in Extents
  /\ entries \in Seq(GraphRecord)
  /\ GraphsAreOwned /\ KeptIsUnique
  /\ AnswersAreEager

LEMMA TableInitIInv == TableInit => TableIInv
BY DEF TableInit, TableIInv, GraphsAreOwned, KeptIsUnique, AnswersAreEager

LEMMA RoomFacts ==
  ASSUME TableIInv
  PROVE  /\ Room \in Seq(GraphRecord)
         /\ \A i \in DOMAIN Room : \E k \in DOMAIN entries : Room[i] = entries[k]
         /\ \A i, j \in DOMAIN Room : Room[i].slot = Room[j].slot => i = j
<1>1. CASE Len(entries) >= MaxEntries
  <2>1. entries # <<>>
    BY <1>1, TableAssumption
  <2>2. Tail(entries) \in Seq(GraphRecord) /\ \A i \in DOMAIN Tail(entries) : i + 1 \in DOMAIN entries /\ Tail(entries)[i] = entries[i + 1]
    BY <2>1 DEF TableIInv
  <2>3. \A i, j \in DOMAIN Tail(entries) : i \in Int /\ j \in Int
    BY <2>1 DEF TableIInv
  <2>4. \A i, j \in DOMAIN Tail(entries) : i + 1 = j + 1 => i = j
    BY <2>3
  <2>5. \A i, j \in DOMAIN Tail(entries) : Tail(entries)[i].slot = Tail(entries)[j].slot => i = j
    BY <2>2, <2>4 DEF TableIInv, GraphsAreOwned
  <2> QED BY <1>1, <2>2, <2>5 DEF Room
<1>2. CASE ~(Len(entries) >= MaxEntries)
  BY <1>2 DEF Room, TableIInv, GraphsAreOwned
<1> QED BY <1>1, <1>2

(* Adding a graph for this call's slot keeps every record. *)
LEMMA AddKeepsOwned ==
  ASSUME TableIInv, NEW x \in Inputs, Here \notin Tabled, AddGraph(x), UNCHANGED <<meta, extent>>
  PROVE  entries' \in Seq(GraphRecord) /\ GraphsAreOwned' /\ KeptIsUnique'
<1> DEFINE new == [slot |-> Here, saw |-> EagerOut(x)]
<1>1. new \in GraphRecord /\ new.slot = Here /\ new.saw.obj = meta.obj /\ new.saw.extent = extent
      /\ Here[1] = meta.addr /\ Here[2] = extent /\ Here \in MetaAddresses \X Extents
  BY DEF TableIInv, GraphRecord, EagerOut, Here, Slot
<1>2. entries' = Append(Room, new) /\ stable' = KeptAlive(Append(Room, new))
  BY DEF AddGraph
<1> HIDE DEF new
<1>3. entries' \in Seq(GraphRecord)
      /\ \A i \in DOMAIN entries' : IF i \in DOMAIN Room THEN entries'[i] = Room[i] ELSE i = Len(Room) + 1 /\ entries'[i] = new
  BY <1>1, <1>2, RoomFacts
<1>4. \A i \in DOMAIN Room : Room[i].slot # Here /\ Room[i].slot \in Tabled
  BY RoomFacts DEF Tabled, SlotsOf
<1>5. DOMAIN stable' = (DOMAIN stable \ Tabled) \cup SlotsOf(entries')
      /\ \A s \in DOMAIN stable' : stable'[s] = IF s = Here THEN meta ELSE stable[s]
  BY <1>2 DEF KeptAlive
<1>6. \A i \in DOMAIN entries' : entries'[i].slot \in DOMAIN stable'
  BY <1>5 DEF SlotsOf
<1>7. ASSUME NEW i \in DOMAIN entries'
      PROVE  entries'[i].saw.obj = stable'[entries'[i].slot].obj /\ entries'[i].saw.extent = entries'[i].slot[2]
  <2>1. CASE i \in DOMAIN Room
    <3>1. PICK k \in DOMAIN entries : Room[i] = entries[k]
      BY <2>1, RoomFacts
    <3>2. entries'[i] = entries[k] /\ entries[k].slot # Here
      BY <1>3, <1>4, <2>1, <3>1
    <3> QED BY <1>5, <1>6, <1>7, <3>2 DEF TableIInv, GraphsAreOwned
  <2>2. CASE i \notin DOMAIN Room
    BY <1>1, <1>3, <1>5, <1>6, <1>7, <2>2
  <2> QED BY <2>1, <2>2
<1>8. ASSUME NEW i \in DOMAIN entries', NEW j \in DOMAIN entries', entries'[i].slot = entries'[j].slot
      PROVE  i = j
  BY <1>1, <1>3, <1>4, <1>8, RoomFacts
<1>9. KeptIsUnique'
  <2> SUFFICES ASSUME NEW s \in DOMAIN stable'
               PROVE  /\ s \in MetaAddresses \X Extents
                      /\ stable'[s].addr = s[1]
                      /\ stable'[s].addr = meta.addr => stable'[s].obj = meta.obj
    BY DEF KeptIsUnique
  <2>1. CASE s = Here
    BY <1>1, <1>5, <2>1
  <2>2. CASE s # Here
    <3>1. s \in DOMAIN stable
      <4>1. CASE s \in SlotsOf(entries')
        <5>1. PICK i \in DOMAIN entries' : s = entries'[i].slot
          BY <4>1 DEF SlotsOf
        <5>2. i \in DOMAIN Room /\ s = Room[i].slot
          BY <1>1, <1>3, <2>2, <5>1
        <5> QED BY <5>2, RoomFacts DEF TableIInv, GraphsAreOwned
      <4> QED BY <1>5, <4>1
    <3> QED BY <1>5, <2>2, <3>1 DEF TableIInv, KeptIsUnique
  <2> QED BY <2>1, <2>2
<1> QED BY <1>3, <1>6, <1>7, <1>8, <1>9 DEF GraphsAreOwned

LEMMA AtFacts ==
  ASSUME Here \in Tabled PROVE At \in DOMAIN entries /\ Entry.slot = Here
BY DEF Tabled, SlotsOf, At, Entry

LEMMA RemoveFacts ==
  ASSUME TableIInv, NEW k \in DOMAIN entries
  PROVE  /\ RemoveAt(entries, k) \in Seq(GraphRecord)
         /\ \A i \in DOMAIN RemoveAt(entries, k) :
              LET j == IF i < k THEN i ELSE i + 1 IN
              j \in DOMAIN entries /\ j # k /\ RemoveAt(entries, k)[i] = entries[j]
<1> DEFINE front == SubSeq(entries, 1, k - 1)
           back == SubSeq(entries, k + 1, Len(entries))
<1>1. entries \in Seq(GraphRecord) /\ k \in 1 .. Len(entries) /\ Len(entries) \in Nat
  BY DEF TableIInv
<1>2. front \in Seq(GraphRecord) /\ Len(front) = k - 1 /\ \A i \in 1 .. k - 1 : front[i] = entries[i]
  BY <1>1
<1>3. back \in Seq(GraphRecord) /\ Len(back) = Len(entries) - k
      /\ \A i \in 1 .. Len(entries) - k : back[i] = entries[k + i]
  BY <1>1
<1> HIDE DEF front, back
<1>4. /\ front \o back \in Seq(GraphRecord)
      /\ Len(front \o back) = Len(entries) - 1
      /\ \A i \in 1 .. Len(entries) - 1 : (front \o back)[i] = IF i < k THEN front[i] ELSE back[i - (k - 1)]
  BY <1>1, <1>2, <1>3
<1>5. RemoveAt(entries, k) = front \o back
  BY DEF RemoveAt, front, back
<1>6. ASSUME NEW i \in 1 .. Len(entries) - 1
      PROVE  LET j == IF i < k THEN i ELSE i + 1 IN
             j \in DOMAIN entries /\ j # k /\ (front \o back)[i] = entries[j]
  <2>1. CASE i < k
    BY <1>1, <1>2, <1>4, <1>6, <2>1
  <2>2. CASE ~(i < k)
    <3>1. i - (k - 1) \in 1 .. Len(entries) - k /\ k + (i - (k - 1)) = i + 1
      BY <1>1, <1>6, <2>2
    <3>2. (front \o back)[i] = back[i - (k - 1)]
      BY <1>4, <1>6, <2>2
    <3>3. back[i - (k - 1)] = entries[i + 1]
      BY <1>3, <3>1
    <3>4. i + 1 \in DOMAIN entries /\ i + 1 # k
      BY <1>1, <1>6, <2>2
    <3> QED BY <2>2, <3>2, <3>3, <3>4
  <2> QED BY <2>1, <2>2
<1>7. DOMAIN (front \o back) = 1 .. Len(entries) - 1
  BY <1>4
<1> QED BY <1>4, <1>5, <1>6, <1>7

LEMMA ForgetKeepsOwned ==
  ASSUME TableIInv, Here \in Tabled, Forgotten, UNCHANGED <<meta, extent>>
  PROVE  entries' \in Seq(GraphRecord) /\ GraphsAreOwned' /\ KeptIsUnique'
<1>1. At \in DOMAIN entries /\ entries[At].slot = Here
  BY AtFacts DEF Entry
<1>2. entries' = RemoveAt(entries, At) /\ stable' = [s \in DOMAIN stable \ {Here} |-> stable[s]]
  BY DEF Forgotten
<1>3. entries' \in Seq(GraphRecord)
      /\ \A i \in DOMAIN entries' :
           LET j == IF i < At THEN i ELSE i + 1 IN j \in DOMAIN entries /\ j # At /\ entries'[i] = entries[j]
  BY <1>1, <1>2, RemoveFacts
<1>4. \A i \in DOMAIN entries' : \E j \in DOMAIN entries : entries'[i] = entries[j] /\ entries[j].slot # Here
  BY <1>1, <1>3 DEF TableIInv, GraphsAreOwned
<1>5. ASSUME NEW i \in DOMAIN entries', NEW j \in DOMAIN entries', entries'[i].slot = entries'[j].slot
      PROVE  i = j
  <2>1. (IF i < At THEN i ELSE i + 1) = (IF j < At THEN j ELSE j + 1)
    BY <1>3, <1>5 DEF TableIInv, GraphsAreOwned
  <2>2. i \in Int /\ j \in Int /\ At \in Int
    BY <1>1, <1>3 DEF TableIInv
  <2> QED BY <2>1, <2>2
<1>6. \A i \in DOMAIN entries' :
        /\ entries'[i].slot \in DOMAIN stable'
        /\ entries'[i].saw.obj = stable'[entries'[i].slot].obj
        /\ entries'[i].saw.extent = entries'[i].slot[2]
  BY <1>2, <1>4 DEF TableIInv, GraphsAreOwned
<1>7. KeptIsUnique'
  BY <1>2 DEF TableIInv, KeptIsUnique
<1> QED BY <1>3, <1>5, <1>6, <1>7 DEF GraphsAreOwned

LEMMA CallKeepsTable ==
  ASSUME TableIInv, NEW x \in Inputs, Call(x) PROVE TableIInv'
<1>1. UNCHANGED <<host, region, meta, extent>>
  BY DEF Call
<1>2. CASE FallBack(x)
  BY <1>1, <1>2 DEF FallBack, Answered, EagerOut, TableIInv, GraphsAreOwned, KeptIsUnique, AnswersAreEager
<1>3. CASE CaptureAndCheck(x)
  <2>1. entries' \in Seq(GraphRecord) /\ GraphsAreOwned' /\ KeptIsUnique'
    BY <1>1, <1>3, AddKeepsOwned DEF CaptureAndCheck
  <2> QED BY <1>1, <1>3, <2>1 DEF CaptureAndCheck, Answered, TableIInv, AnswersAreEager
<1>4. CASE Check(x)
  <2>1. entries' \in Seq(GraphRecord) /\ GraphsAreOwned' /\ KeptIsUnique'
    BY <1>1, <1>4, ForgetKeepsOwned DEF Check, TableIInv, GraphsAreOwned, KeptIsUnique
  <2> QED BY <1>1, <1>4, <2>1 DEF Check, Answered, TableIInv, AnswersAreEager
<1>5. CASE TableReplay(x)
  <2>1. Entry \in GraphRecord /\ Entry.saw.obj = meta.obj /\ Entry.saw.extent = extent
    BY <1>5, AtFacts DEF TableReplay, Entry, Here, Slot, TableIInv, GraphsAreOwned, KeptIsUnique
  <2>2. region # "bakes" => ReplayOut(Entry, x) = EagerOut(x)
    BY <2>1 DEF ReplayOut, EagerOut, GraphRecord
  <2> QED BY <1>1, <1>5, <2>2 DEF TableReplay, Answered, TableIInv, GraphsAreOwned, KeptIsUnique, AnswersAreEager
<1>6. CASE CaptureAndReplay(x)
  <2>1. entries' \in Seq(GraphRecord) /\ GraphsAreOwned' /\ KeptIsUnique'
    BY <1>1, <1>6, AddKeepsOwned DEF CaptureAndReplay
  <2> QED BY <1>1, <1>6, <2>1 DEF CaptureAndReplay, Answered, TableIInv, AnswersAreEager
<1>7. CASE CaptureFails
  <2>1. Here \in MetaAddresses \X Extents /\ Here[1] = meta.addr
    BY DEF Here, Slot, TableIInv
  <2>2. \A i \in DOMAIN entries : entries[i].slot # Here
    BY <1>7 DEF CaptureFails, Tabled, SlotsOf
  <2>3. GraphsAreOwned' /\ KeptIsUnique'
    BY <1>1, <1>7, <2>1, <2>2 DEF CaptureFails, TableIInv, GraphsAreOwned, KeptIsUnique
  <2> QED BY <1>1, <1>7, <2>3 DEF CaptureFails, TableIInv, AnswersAreEager
<1> QED BY <1>2, <1>3, <1>4, <1>5, <1>6, <1>7 DEF Call

LEMMA TableNextIInv == TableIInv /\ [TableNext]_tableVars => TableIInv'
<1> SUFFICES ASSUME TableIInv, [TableNext]_tableVars PROVE TableIInv'
  OBVIOUS
<1>1. CASE Swap
  BY <1>1 DEF Swap, Taken, TableIInv, GraphsAreOwned, KeptIsUnique, AnswersAreEager
<1>2. CASE Grow
  BY <1>2 DEF Grow, TableIInv, GraphsAreOwned, KeptIsUnique, AnswersAreEager
<1>3. CASE UNCHANGED tableVars
  BY <1>3 DEF tableVars, TableIInv, GraphsAreOwned, KeptIsUnique, AnswersAreEager
<1> QED BY <1>1, <1>2, <1>3, CallKeepsTable DEF TableNext

(* For any addresses, extents, inputs, number of graphs and executor:      *)
(* whatever graphs are captured, checked, evicted and forgotten, a call    *)
(* whose region bakes nothing in answers what eager answers.               *)
THEOREM AnswersStayEager == TableSpec => []AnswersAreEager
<1>1. TableIInv => AnswersAreEager
  BY DEF TableIInv
<1> QED BY TableInitIInv, TableNextIInv, <1>1, PTL DEF TableSpec

-----------------------------------------------------------------------------
(* StaticCapture *)

(* The static K/V holds this chunk's prefix once a step of it has begun; a *)
(* step finds tables only where it finds a graph; a graph that passed its  *)
(* check is one that check admits.                                         *)
StaticIInv ==
  /\ kernels \in {"rereads", "bakes", "overflows"}
  /\ chunk \in Nat /\ begun \in Nat /\ begun <= chunk
  /\ chunk > 0 /\ begun = chunk => held = chunk
  /\ stepping => chunk > 0
  /\ modulation # NoTime => stepGraph.state # "none"
  /\ stepGraph.passed => StepAdmits
  /\ loopGraph.passed => LoopAdmits
  /\ loopGraph.state # "none" => way.full
  /\ RepliesAreUpstreams

LEMMA StaticInitIInv == StaticInit => StaticIInv
BY CaptureAssumption DEF StaticInit, StaticIInv, NoGraph, Nothing, RepliesAreUpstreams

LEMMA StepKeepsStatic ==
  ASSUME StaticIInv, NEW t \in Times \cup OtherTimes, Step(t) PROVE StaticIInv'
<1> USE CaptureAssumption
<1>1. stepping /\ chunk > 0 /\ Refilled = chunk /\ UNCHANGED <<way, kernels, chunk, stepping>> /\ t # NoTime
  BY DEF Step, StaticIInv, Refilled
<1>2. CASE StepReleased(t)
  BY <1>1, <1>2 DEF StepReleased, Reply, StaticIInv, RepliesAreUpstreams, StepAdmits, LoopAdmits, Result
<1>3. CASE BeginRaises
  BY <1>1, <1>3 DEF BeginRaises, StaticIInv, RepliesAreUpstreams, WarmsUpOnTables, StepAdmits, LoopAdmits
<1>4. CASE StepWarms(t)
  BY <1>1, <1>4 DEF StepWarms, Begins, Reply, StaticIInv, RepliesAreUpstreams, StepAdmits, LoopAdmits, Result
<1>5. CASE StepCaptures(t)
  <2>1. held' = chunk /\ begun' = chunk /\ modulation = NoTime
    BY <1>1, <1>5 DEF StepCaptures, Begins, Capturable, StaticIInv
  <2>2. CASE UNCHANGED <<loopGraph, released, reply>> /\ stepGraph'.state # "none" /\ ~stepGraph'.passed
    BY <1>1, <2>1, <2>2 DEF StaticIInv, RepliesAreUpstreams, WarmsUpOnTables, StepAdmits, LoopAdmits
  <2>3. CASE /\ StepAdmits /\ stepGraph' = GraphOf(Refilled, TRUE)
             /\ Reply(ReplayResult(GraphOf(Refilled, TRUE), Refilled, t), Result(chunk, t), TRUE)
             /\ UNCHANGED <<loopGraph, released>>
    BY <1>1, <2>1, <2>3 DEF StaticIInv, RepliesAreUpstreams, StepAdmits, LoopAdmits, GraphOf, Reply, ReplayResult, Result
  <2>4. CASE Release /\ Reply(Result(chunk, t), Result(chunk, t), TRUE)
    BY <1>1, <2>1, <2>4 DEF StaticIInv, RepliesAreUpstreams, StepAdmits, LoopAdmits, Release, NoGraph, Reply, Result
  <2>5. /\ [NoGraph EXCEPT !.state = "unusable"].state # "none" /\ ~[NoGraph EXCEPT !.state = "unusable"].passed
        /\ GraphOf(Refilled, FALSE).state # "none" /\ ~GraphOf(Refilled, FALSE).passed
    BY DEF NoGraph, GraphOf
  <2> QED BY <1>5, <2>2, <2>3, <2>4, <2>5 DEF StepCaptures
<1>6. CASE StepReplays(t)
  <2>1. held' = chunk /\ begun' = chunk
    BY <1>1, <1>6 DEF StepReplays, Begins
  <2>2. RepliesAreUpstreams'
    BY <1>1, <1>6 DEF StepReplays, Reply, ReplayResult, Result, StaticIInv, RepliesAreUpstreams, StepAdmits
  <2> QED BY <1>1, <1>6, <2>1, <2>2 DEF StepReplays, StaticIInv, StepAdmits, LoopAdmits
<1>7. CASE StepRaises(t)
  <2>1. held' = chunk /\ begun' = chunk
    BY <1>1, <1>7 DEF StepRaises, Begins
  <2>2. modulation = NoTime \/ modulation' # NoTime
    BY <1>1, <1>7 DEF StepRaises, Loaded
  <2>3. modulation' # NoTime => stepGraph.state # "none"
    BY <1>7 DEF StepRaises, StaticIInv
  <2> QED BY <1>1, <1>7, <2>1, <2>2, <2>3 DEF StepRaises, StaticIInv, RepliesAreUpstreams, WarmsUpOnTables, StepAdmits, LoopAdmits
<1> QED BY <1>2, <1>3, <1>4, <1>5, <1>6, <1>7 DEF Step

LEMMA SampleKeepsStatic == ASSUME StaticIInv, Sample PROVE StaticIInv'
<1>1. chunk' = chunk + 1 /\ ~stepping' /\ way.full /\ UNCHANGED <<way, kernels>>
  BY DEF Sample
<1>2. CASE SampleUpstream
  BY <1>1, <1>2 DEF SampleUpstream, Reply, StaticIInv, RepliesAreUpstreams, StepAdmits, LoopAdmits
<1>3. CASE SampleWarms
  <2>1. held' = chunk + 1 /\ begun' = chunk + 1
    BY <1>3 DEF SampleWarms, LoopBegins
  <2>2. RepliesAreUpstreams'
    BY <1>3 DEF SampleWarms, Reply, Due, Result, RepliesAreUpstreams, WarmsUpOnTables
  <2> QED BY <1>1, <1>3, <2>1, <2>2 DEF SampleWarms, StaticIInv, StepAdmits, LoopAdmits
<1>4. CASE SampleCaptures
  <2>1. held' = 0 /\ begun' = 0
    BY <1>4 DEF SampleCaptures
  <2>2. CASE /\ LoopAdmits /\ loopGraph' = GraphOf(chunk + 1, TRUE)
             /\ Reply(ReplayResult(loopGraph', chunk + 1, NoTime), Due, TRUE)
             /\ UNCHANGED <<modulation, stepGraph, released>>
    <3>1. kernels = "overflows" \/ reply'.got = reply'.due
      BY <2>2 DEF Reply, ReplayResult, Due, Result, GraphOf, LoopAdmits, StaticIInv
    <3>2. RepliesAreUpstreams'
      BY <1>1, <3>1 DEF RepliesAreUpstreams
    <3> QED BY <1>1, <2>1, <2>2, <3>2 DEF StaticIInv, StepAdmits, LoopAdmits, GraphOf
  <2>3. CASE Release /\ Reply(Due, Due, TRUE)
    BY <1>1, <2>1, <2>3 DEF Release, NoGraph, Reply, StaticIInv, RepliesAreUpstreams, StepAdmits, LoopAdmits
  <2> QED BY <1>4, <2>2, <2>3 DEF SampleCaptures
<1>5. CASE SampleReplays
  <2>1. held' = chunk + 1 /\ begun' = chunk + 1
    BY <1>5 DEF SampleReplays, LoopBegins
  <2>2. RepliesAreUpstreams'
    BY <1>1, <1>5 DEF SampleReplays, Reply, ReplayResult, Due, Result, StaticIInv, RepliesAreUpstreams, LoopAdmits
  <2> QED BY <1>1, <1>5, <2>1, <2>2 DEF SampleReplays, StaticIInv, StepAdmits, LoopAdmits
<1>6. CASE SampleRaises
  BY <1>1, <1>6 DEF SampleRaises, Release, NoGraph, Reply, StaticIInv, RepliesAreUpstreams, StepAdmits, LoopAdmits
<1> QED BY <1>2, <1>3, <1>4, <1>5, <1>6 DEF Sample

LEMMA StaticNextIInv == StaticIInv /\ [StaticNext]_staticVars => StaticIInv'
<1> SUFFICES ASSUME StaticIInv, [StaticNext]_staticVars PROVE StaticIInv'
  OBVIOUS
<1>1. CASE Reload
  BY <1>1 DEF Reload, NoGraph, Nothing, StaticIInv, RepliesAreUpstreams
<1>2. CASE BeginChunk
  BY <1>2 DEF BeginChunk, StaticIInv, RepliesAreUpstreams, WarmsUpOnTables, StepAdmits, LoopAdmits
<1>3. CASE UNCHANGED staticVars
  BY <1>3 DEF staticVars, StaticIInv, RepliesAreUpstreams, WarmsUpOnTables, StepAdmits, LoopAdmits
<1> QED BY <1>1, <1>2, <1>3, StepKeepsStatic, SampleKeepsStatic DEF StaticNext

(* For any timesteps and number of warm-up steps, whichever step or sample *)
(* raises, and whatever is reloaded: what is served is what upstream       *)
(* computes, with the exceptions RepliesAreUpstreams names.                *)
THEOREM RepliesStayUpstreams == StaticSpec => []RepliesAreUpstreams
<1>1. StaticIInv => RepliesAreUpstreams
  BY DEF StaticIInv
<1> QED BY StaticInitIInv, StaticNextIInv, <1>1, PTL DEF StaticSpec
=============================================================================
