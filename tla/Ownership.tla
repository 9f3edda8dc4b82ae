------------------------------ MODULE Ownership ------------------------------
(***************************************************************************)
(* What the admission of controllers promises to the clients of a board,   *)
(* without generations, watch channels, tasks and locks: one owner at a    *)
(* time, the newest client wins, a second take-over waits until a          *)
(* transport has returned, and whoever lost the board can send at most one *)
(* packet more before its transport returns.  ControllerService implements *)
(* this specification.                                                     *)
(***************************************************************************)
EXTENDS Naturals

CONSTANTS
  Slots,    \* the transports
  Nobody    \* the board has no owner

VARIABLES
  owner,    \* the transport whose session owns the board, or Nobody
  leaving,  \* transports of sessions that have ended or lost the board
  open,     \* a claim is granted at once
  late      \* packets that each transport sent after it lost the board

vars == <<owner, leaving, open, late>>

TypeOK ==
  /\ owner \in Slots \cup {Nobody}
  /\ leaving \subseteq Slots
  /\ open \in BOOLEAN
  /\ late \in [Slots -> {0, 1}]

Init ==
  /\ owner = Nobody
  /\ leaving = {}
  /\ open = TRUE
  /\ late = [s \in Slots |-> 0]

\* The board changes hands.  Only a take-over holds the next claim back.
Claim(s) ==
  /\ open
  /\ s # owner /\ s \notin leaving
  /\ owner' = s
  /\ leaving' = leaving \cup ({owner} \ {Nobody})
  /\ open' = (owner = Nobody)
  /\ UNCHANGED late

\* The owner's session ends by itself.
Release(s) ==
  /\ owner = s
  /\ owner' = Nobody
  /\ leaving' = leaving \cup {s}
  /\ UNCHANGED <<open, late>>

\* A command that was running when the board was lost gets one packet out.
LatePacket(s) ==
  /\ s \in leaving
  /\ late[s] = 0
  /\ late' = [late EXCEPT ![s] = 1]
  /\ UNCHANGED <<owner, leaving, open>>

\* The transport of a former owner listens again.
Return(s) ==
  /\ s \in leaving
  /\ leaving' = leaving \ {s}
  /\ open' = TRUE
  /\ late' = [late EXCEPT ![s] = 0]
  /\ UNCHANGED owner

\* A transport that never had the board listens again.
Reopen ==
  /\ open' = TRUE
  /\ UNCHANGED <<owner, leaving, late>>

Next ==
  \/ Reopen
  \/ \E s \in Slots : Claim(s) \/ Release(s) \/ LatePacket(s) \/ Return(s)

Spec == Init /\ [][Next]_vars

-----------------------------------------------------------------------------

\* The owner is not on its way out, a closed admission always has a transport
\* on its way back that will open it, and only who lost the board is late.
Promise ==
  /\ owner \notin leaving
  /\ ~ open => leaving # {}
  /\ \A s \in Slots : late[s] > 0 => s \in leaving

=============================================================================
