---------------------------- MODULE MCRawTunnel ----------------------------
(* Model values for RawTunnel. *)
EXTENDS RawTunnel

=============================================================================
