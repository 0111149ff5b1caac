-------------------------------- MODULE MCGraphs --------------------------------
(***************************************************************************)
(* The replays of captured graphs: the block stack's on a pool of two      *)
(* cycles, the certificate that lets graphs survive a reset, the tables of *)
(* the generic pass and of GraphExecutor, and pi05's static capture.  Each *)
(* behaviour runs one of them while the others rest.                       *)
(***************************************************************************)
EXTENDS GraphStack, PoolCertificate, GraphTable, StaticCapture

MCKeySizes == {VideoTokens, ActionTokens}

VARIABLE part

TableRests ==
  /\ host = "executor" /\ meta.addr = CHOOSE a \in MetaAddresses : TRUE
  /\ extent = CHOOSE e \in Extents : TRUE
  /\ answer.got.in = CHOOSE x \in Inputs : TRUE

StaticRests == ~way.full /\ ~way.tables /\ kernels = "rereads"

MCInit ==
  /\ StackInit /\ CertificateInit /\ TableInit /\ StaticInit
  /\ \/ part \in {"stack", "certificate"} /\ TableRests
     \/ part = "table"
     \/ part = "static" /\ TableRests
  /\ part # "static" => StaticRests

MCNext ==
  /\ \/ part = "stack" /\ StackNext /\ UNCHANGED <<certificateVars, tableVars, staticVars>>
     \/ part = "certificate" /\ CertificateNext /\ UNCHANGED <<stackVars, tableVars, staticVars>>
     \/ part = "table" /\ TableNext /\ UNCHANGED <<stackVars, certificateVars, staticVars>>
     \/ part = "static" /\ StaticNext /\ UNCHANGED <<stackVars, certificateVars, tableVars>>
  /\ UNCHANGED part

MCSpec == MCInit /\ [][MCNext]_<<stackVars, certificateVars, tableVars, staticVars, part>>
=============================================================================
