------------------------- MODULE ControllerAdmission -------------------------
(***************************************************************************)
(* The pure ownership helpers of src/src/controller.rs: ControllerEpoch    *)
(* and ControllerAdmission.  The record                                    *)
(*    [epoch, active, listener_required]                                   *)
(* is the value of the `Cell<ControllerAdmission>` that the three          *)
(* controller tasks of the MCU share.                                      *)
(*                                                                         *)
(* The epoch is a u64 that starts at zero and grows by one per granted     *)
(* claim, so its wrap-around is out of reach of any execution and the      *)
(* model counts in Nat.                                                    *)
(***************************************************************************)
EXTENDS Naturals

Admission == [epoch : Nat, active : BOOLEAN, listener_required : BOOLEAN]

\* ControllerAdmission::new
New == [epoch |-> 0, active |-> FALSE, listener_required |-> FALSE]

\* ControllerEpoch::claim
claim(epoch) == epoch + 1

\* ControllerAdmission::is_current
is_current(a, generation) == a.epoch = generation

\* ControllerAdmission::try_claim, the early return: the claim has to wait.
WaitForListener(a) == a.listener_required

-----------------------------------------------------------------------------
(* Faulty variants, used to show that the properties can fail.             *)

\* The epoch is not advanced: the successor shares its predecessor's number.
GrantedKeepsEpoch(a) ==
  [epoch |-> a.epoch, active |-> TRUE, listener_required |-> a.active]

\* The claim holds the admission even when it replaces nobody.
GrantedAlwaysHolds(a) ==
  [epoch |-> claim(a.epoch), active |-> TRUE, listener_required |-> TRUE]

\* A take-over does not hold the admission.
GrantedNeverHolds(a) ==
  [epoch |-> claim(a.epoch), active |-> TRUE, listener_required |-> FALSE]

\* A superseded session also clears the flag of its successor.
ReleaseAnyGeneration(a, generation) == [a EXCEPT !.active = FALSE]

-----------------------------------------------------------------------------

\* ControllerAdmission::try_claim, Granted: the record it leaves behind.
Granted(a) ==
  [epoch             |-> claim(a.epoch),
   active            |-> TRUE,
   listener_required |-> a.active]

\* ControllerAdmission::release
release(a, generation) ==
  IF is_current(a, generation) THEN [a EXCEPT !.active = FALSE] ELSE a

\* ControllerAdmission::listener_ready; its result is the old flag.
listener_ready(a) == [a EXCEPT !.listener_required = FALSE]

=============================================================================
