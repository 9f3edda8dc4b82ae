---------------------------- MODULE MCHostBridge ----------------------------
(* HostBridge with the model values and bounds of HostBridge.cfg.          *)
EXTENDS HostBridge

=============================================================================
