-------------------------- MODULE MCPluginLifecycle --------------------------
(* Values of the constants of PluginLifecycle for TLC. *)
EXTENDS PluginLifecycle

CONSTANTS u1, u2, quota, acl

=============================================================================
