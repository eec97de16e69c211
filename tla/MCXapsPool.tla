----------------------------- MODULE MCXapsPool -----------------------------
(* Values of the constants of XapsPool for TLC: those of MCXapsPlugin. *)
EXTENDS MCXapsPlugin, XapsPool

=============================================================================
