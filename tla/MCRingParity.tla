----------------------------- MODULE MCRingParity -----------------------------
(* RingParity on a pool of two cycles, long enough to wrap several times. *)
EXTENDS RingParity

MCKeySizes == {VideoTokens, ActionTokens}
=============================================================================
