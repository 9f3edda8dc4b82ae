----------------------------- MODULE MCRawBridge -----------------------------
(* Model values for RawBridge. *)
EXTENDS RawBridge

\* A message that writes two registers and one that reads a position.
TwoMessages ==
  {<<[id |-> 1, kind |-> "write"], [id |-> 1, kind |-> "write"]>>,
   <<[id |-> 1, kind |-> "read"]>>}

=============================================================================
