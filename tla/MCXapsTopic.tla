----------------------------- MODULE MCXapsTopic -----------------------------
(* Values of the constants of XapsTopic for TLC. *)
EXTENDS XapsTopic

CONSTANTS a, b, cr

=============================================================================
