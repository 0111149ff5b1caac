---------------------------- MODULE MCActionElision ----------------------------
(* The two elisions and their reference, on a pool of two cycles. *)
EXTENDS EnginePool
=============================================================================
