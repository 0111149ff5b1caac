------------------------------ MODULE RingParity ------------------------------
(***************************************************************************)
(* The ring server and the stock mask allocator side by side, driven by    *)
(* the same control cycle.  Softmax is not associative in floating point:  *)
(* the ring is bit-exact only if every forward attends over the same       *)
(* slots, in the same order, holding the same K/V.                         *)
(***************************************************************************)
EXTENDS RingServer, FiniteSets

VARIABLES stockMask, stockIds, stockPred, stockOwner, stockKv, stockSeen

stockVars == <<stockMask, stockIds, stockPred, stockOwner, stockKv, stockSeen>>
parityVars == <<serverVars, stockVars>>

Stock ==
  INSTANCE SlotPool WITH
    Size <- Total, TokenCounts <- KeySizes,
    mask <- stockMask, ids <- stockIds, is_pred <- stockPred,
    owner <- stockOwner, kv <- stockKv, seen <- stockSeen

ParityInit == ServerInit /\ Stock!Init

ParityNext ==
  \/ \E n \in KeySizes, uc \in 0 .. 2 :
       /\ Issue(n, uc)
       /\ Stock!Forward(n, uc)
       /\ Forward(n, uc, clock + 1)
  \/ Return /\ UNCHANGED <<stockVars, ringVars>>
  \/ IssueClearPred /\ Stock!ClearPred /\ ClearPred
  \/ IssueReset /\ Stock!Reset /\ InitCache
  \/ Abort /\ UNCHANGED <<stockVars, ringVars>>

ParitySpec == ParityInit /\ [][ParityNext]_parityVars

-----------------------------------------------------------------------------
(* Every forward of the ring attends over the slots the mask would have    *)
(* enumerated, in the same order, with the same K/V in them, as long as no *)
(* call of the episode raised; the slots are compared one by one with what *)
(* the stock allocator presents.                                           *)
SameKeysInOrder ==
  [][clean /\ clock' # clock => seen' = stockSeen']_parityVars

(* The bookkeeping the ring maintains by slice stays one the stock code    *)
(* could take over: the same slots are live, the same ones provisional,    *)
(* and their ids sort in the same order.                                   *)
StockCouldTakeOver ==
  clean =>
    /\ mask = stockMask
    /\ \A s \in Live : is_pred[s] = stockPred[s]
    /\ \A s, t \in Live : id[s] < id[t] <=> stockIds[s] < stockIds[t]
=============================================================================
