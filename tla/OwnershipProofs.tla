--------------------------- MODULE OwnershipProofs ---------------------------
(***************************************************************************)
(* The abstract specification of the board's ownership keeps its promise,  *)
(* for every set of transports.                                            *)
(***************************************************************************)
EXTENDS Ownership, TLAPS

\* Every action of Ownership keeps the types and the promise together: the types
\* are needed because a promise about late[s] says nothing outside its domain.
LEMMA PromiseInductive ==
  ASSUME Nobody \notin Slots, TypeOK, Promise, [Next]_vars
  PROVE  TypeOK' /\ Promise'
<1>1. CASE Reopen
  BY <1>1 DEF TypeOK, Promise, Reopen
<1>2. ASSUME NEW s \in Slots, Claim(s)
      PROVE  TypeOK' /\ Promise'
  <2>1. TypeOK'
    BY <1>2 DEF TypeOK, Claim
  <2>2. owner' \notin leaving'
    BY <1>2 DEF TypeOK, Claim
  <2>3. ~ open' => leaving' # {}
    BY <1>2 DEF TypeOK, Claim
  <2>4. \A t \in Slots : late'[t] > 0 => t \in leaving'
    BY <1>2 DEF TypeOK, Promise, Claim
  <2> QED
    BY <2>1, <2>2, <2>3, <2>4 DEF Promise
<1>3. ASSUME NEW s \in Slots, Release(s)
      PROVE  TypeOK' /\ Promise'
  BY <1>3 DEF TypeOK, Promise, Release
<1>4. ASSUME NEW s \in Slots, LatePacket(s)
      PROVE  TypeOK' /\ Promise'
  BY <1>4 DEF TypeOK, Promise, LatePacket
<1>5. ASSUME NEW s \in Slots, Return(s)
      PROVE  TypeOK' /\ Promise'
  BY <1>5 DEF TypeOK, Promise, Return
<1>6. CASE UNCHANGED vars
  BY <1>6 DEF TypeOK, Promise, vars
<1> QED
  BY <1>1, <1>2, <1>3, <1>4, <1>5, <1>6 DEF Next

\* The promise of ControllerAdmission to its clients: the owner of the board is
\* never a transport on its way out, a held-back claim always has such a
\* transport to wait for, and only a transport that lost the board sends late.
THEOREM OwnershipKeepsPromise ==
  ASSUME Nobody \notin Slots
  PROVE  Spec => [](TypeOK /\ Promise)
<1>1. Init => TypeOK /\ Promise
  BY DEF Init, TypeOK, Promise
<1>2. (TypeOK /\ Promise) /\ [Next]_vars => (TypeOK /\ Promise)'
  BY PromiseInductive
<1> QED
  BY <1>1, <1>2, PTL DEF Spec

=============================================================================
