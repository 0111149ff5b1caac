---------------------------- MODULE MCPolicyServer ----------------------------
(* The viewed server with two connections and one prompt. *)
EXTENDS ViewedServer
=============================================================================
