----------------------------- MODULE MCStsCodec -----------------------------
(* A byte of three bits.  The positions are the least and the greatest, and those
   on both sides of zero and of the step to the upper byte; the lower byte of 4 is
   the checksum of an answer without data. *)
EXTENDS StsCodec

MCPositions == {-31, -8, -1, 0, 4, 7, 8, 31}

=============================================================================
