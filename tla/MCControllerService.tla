------------------------- MODULE MCControllerService -------------------------
(***************************************************************************)
(* Model values for ControllerService.  The specification does not tell    *)
(* the slots apart, so that the liveness of one slot is that of all.       *)
(***************************************************************************)
EXTENDS ControllerService

AnySlot == CHOOSE s \in Slots : TRUE

\* A client that waits in ControllerOwnership::claim is admitted in the end.
AnyClaimAdmitted == ClaimAdmitted(AnySlot)

\* A controller_session that is superseded, or whose client is gone, returns its
\* transport to listening.
AnySessionReturns == SupersededListens(AnySlot) /\ DeadClientListens(AnySlot)

=============================================================================
