------------------------------ MODULE MCPacer ------------------------------
(* The pacer with small history windows, for TLC. *)
EXTENDS Pacer
=============================================================================
