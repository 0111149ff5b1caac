------------------------------ MODULE MCGraphTable ------------------------------
(* GraphTable with room for two graphs. *)
EXTENDS GraphTable
=============================================================================
