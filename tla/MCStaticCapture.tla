---------------------------- MODULE MCStaticCapture ----------------------------
(* The static capture of a schedule of two steps. *)
EXTENDS StaticCapture
=============================================================================
