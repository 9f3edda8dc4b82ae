------------------------------ MODULE MCStsBus ------------------------------
(* Model values for StsBus. *)
EXTENDS StsBus

=============================================================================
