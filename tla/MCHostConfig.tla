---------------------------- MODULE MCHostConfig ----------------------------
(* Model values for HostConfig. *)
EXTENDS HostConfig

=============================================================================
