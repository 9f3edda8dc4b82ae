----------------------- MODULE ControllerServiceProofs -----------------------
(***************************************************************************)
(* The safety of ControllerService for every finite set of transport slots *)
(* and every bound.  Inv joins the invariants that TLC checks, which are   *)
(* not inductive by themselves, with Bookkeeping: that a slot has a        *)
(* generation exactly during a session and the reset after it, that what   *)
(* `changes` announced is the epoch, that no claim has seen a listener     *)
(* change of the future, and that a transaction is counted while it runs.  *)
(*                                                                         *)
(* The actions of a slot have few shapes.  MoveInv is about a step that    *)
(* keeps a slot inside or outside of its session, EndInv about the return  *)
(* of a session, ClaimInv and ListenInv about the two steps that change    *)
(* who may be admitted; SlotNextInv reduces every action to one of them.   *)
(* The last section bounds how long a replaced session lasts.              *)
(***************************************************************************)
EXTENDS ControllerService, TLAPS

\* What ties the generations, the announcements and the counters together.
Bookkeeping ==
  /\ announced = admission.epoch
  /\ \A s \in Slots :
        /\ gen[s] <= admission.epoch
        /\ pc[s] \in Session => gen[s] > 0
        /\ gen[s] > 0 => pc[s] \in Session \cup {"releasing"}
        /\ lstSeen[s] <= listener_change
        /\ pc[s] = "awaiting" => todo[s] > 0
        /\ stray[s] > 0 => gen[s] > 0

\* The inductive invariant.
Inv ==
  /\ TypeOK
  /\ Bookkeeping
  /\ OneOwner
  /\ ActiveIffOwned
  /\ HeldForRetiring
  /\ NoLostWakeup
  /\ BusHolder
  /\ AtMostOneStrayPacket

\* The board starts with no session and free admission.
LEMMA InitInv == Init => Inv
<1> SUFFICES ASSUME Init PROVE Inv
  OBVIOUS
<1> USE SlotsAssumption, BoundsAssumption DEF Init, New
<1>1. TypeOK
  BY DEF TypeOK, Admission, Phase
<1>2. Bookkeeping /\ NoLostWakeup /\ AtMostOneStrayPacket
  BY DEF Bookkeeping, Session, NoLostWakeup, AtMostOneStrayPacket
<1>3. Owners = {}
  BY DEF Owners, Session, is_current
<1>4. OneOwner /\ ActiveIffOwned /\ HeldForRetiring
  BY <1>3 DEF OneOwner, ActiveIffOwned, HeldForRetiring
<1>5. BusHolder
  BY DEF BusHolder, Holding
<1> QED
  BY <1>1, <1>2, <1>4, <1>5 DEF Inv

\* ControllerAdmission::listener_ready only lowers its flag.
LEMMA ReadyFacts ==
  ASSUME NEW a \in Admission
  PROVE  /\ listener_ready(a) \in Admission
         /\ listener_ready(a).epoch = a.epoch
         /\ listener_ready(a).active = a.active
         /\ listener_ready(a).listener_required = FALSE
BY DEF Admission, listener_ready

\* A granted try_claim opens a new epoch and holds admission iff it replaces.
LEMMA GrantedFacts ==
  ASSUME NEW a \in Admission
  PROVE  /\ Granted(a) \in Admission
         /\ Granted(a).epoch = a.epoch + 1
         /\ Granted(a).active = TRUE
         /\ Granted(a).listener_required = a.active
BY DEF Admission, Granted, claim

\* ControllerAdmission::release matters for the current generation only.
LEMMA ReleaseFacts ==
  ASSUME NEW a \in Admission, NEW g \in Nat
  PROVE  /\ release(a, g) \in Admission
         /\ release(a, g).epoch = a.epoch
         /\ release(a, g).active = IF a.epoch = g THEN FALSE ELSE a.active
         /\ release(a, g).listener_required = a.listener_required
BY DEF Admission, release, is_current

\* What a step means for the promise of Ownership: an action of it or nothing.
BoardStep == [Board!Next]_(Board!vars)

\* The refinement mapping takes the one session that owns the board for its owner.
LEMMA BoardOwnerFacts ==
  ASSUME OneOwner
  PROVE  /\ Owners = {} => BoardOwner = None
         /\ \A s \in Owners : BoardOwner = s
         /\ BoardOwner # None => BoardOwner \in Owners
BY SlotsAssumption DEF OneOwner, BoardOwner

\* A step that changes neither the owner nor who is leaving is none of Ownership.
LEMMA BoardStutters ==
  ASSUME Owners' = Owners, Leaving' = Leaving, UNCHANGED stray,
         admission'.listener_required = admission.listener_required
  PROVE  BoardStep
BY DEF BoardStep, Board!vars, BoardOwner

\* Listening reopens admission; the slot that was waited for may be this one or
\* another.
LEMMA ListenInv == ASSUME Inv, NEW s \in Slots, Listen(s) PROVE Inv' /\ BoardStep
<1> USE DEF Inv, Listen, AnnounceListener, Goto
<1>0. /\ admission \in Admission
      /\ admission' \in Admission
      /\ admission'.epoch = admission.epoch
      /\ admission'.active = admission.active
      /\ admission'.listener_required = FALSE
  BY ReadyFacts DEF TypeOK
<1>a. admission.epoch \in Nat /\ admission.listener_required \in BOOLEAN
  BY <1>0 DEF Admission
<1>1. TypeOK'
  BY <1>0, <1>a DEF TypeOK, Phase
<1>2. Bookkeeping'
  BY <1>0, <1>a DEF TypeOK, Phase, Session, Bookkeeping
<1>3. OneOwner'
  BY <1>0, <1>a DEF TypeOK, Phase, Session, Bookkeeping, OneOwner, Owners, is_current
<1>4. ActiveIffOwned'
  BY <1>0, <1>a DEF TypeOK, Phase, Session, Bookkeeping, ActiveIffOwned, Owners, is_current
<1>5. HeldForRetiring'
  BY <1>0, <1>a DEF TypeOK, HeldForRetiring
<1>6. NoLostWakeup'
  BY <1>0, <1>a DEF TypeOK, Bookkeeping, NoLostWakeup
<1>7. BusHolder'
  BY DEF TypeOK, Holding, BusHolder
<1>8. AtMostOneStrayPacket'
  BY <1>0, <1>a DEF TypeOK, AtMostOneStrayPacket
<1>9. BoardStep
  <2> HIDE DEF Inv
  <2>1. Owners' = Owners
    BY <1>0 DEF Inv, TypeOK, Bookkeeping, Owners, Session, is_current
  <2>2. BoardOwner' = BoardOwner
    BY <2>1 DEF BoardOwner
  <2>3. CASE gen[s] > 0
    <3>1. s \in Leaving /\ Leaving' = Leaving \ {s}
      BY <1>0, <2>1, <2>3 DEF Inv, TypeOK, Bookkeeping, Leaving, Owners, Session
    <3>2. Board!Return(s)
      BY <1>0, <2>2, <3>1 DEF Board!Return
    <3> QED BY <3>2 DEF BoardStep, Board!Next
  <2>4. CASE gen[s] = 0
    <3>1. Leaving' = Leaving
      BY <2>1, <2>4 DEF Inv, TypeOK, Leaving
    <3>2. stray' = stray
      BY <2>4 DEF Inv, TypeOK, Bookkeeping
    <3>3. Board!Reopen
      BY <1>0, <2>2, <3>1, <3>2 DEF Board!Reopen
    <3> QED BY <3>3 DEF BoardStep, Board!Next
  <2> QED BY <2>3, <2>4 DEF Inv, TypeOK
<1> QED BY <1>1, <1>2, <1>3, <1>4, <1>5, <1>6, <1>7, <1>8, <1>9

\* The lock is where the phase of s says, and nobody else's business.
BusFollows(s, phase) ==
  /\ phase \in Holding => bus \in {None, s}
  /\ bus' = IF phase \in Holding THEN s ELSE IF bus = s THEN None ELSE bus

\* A step of s that keeps it inside, or outside, of its session.
LEMMA MoveInv ==
  ASSUME Inv, TypeOK', NEW s \in Slots,
         NEW phase \in Phase \ {"claiming", "releasing"},
         UNCHANGED <<admission, announced, listener_change, gen, lstSeen>>,
         Goto(s, phase),
         pc[s] \notin {"releasing", "resyncing"},
         phase \in Session <=> pc[s] \in Session,
         BusFollows(s, phase),
         \A t \in Slots \ {s} : todo'[t] = todo[t] /\ stray'[t] = stray[t],
         phase = "awaiting" => todo'[s] > 0,
         \/ stray'[s] = 0
         \/ stray'[s] = 1 /\ phase = "resyncing" /\ gen[s] < admission.epoch
  PROVE  Inv' /\ BoardStep
<1> USE DEF Inv, Goto
<1>0. admission \in Admission /\ admission.epoch \in Nat
  BY DEF TypeOK, Admission
<1>1. pc'[s] = phase /\ \A t \in Slots \ {s} : pc'[t] = pc[t]
  BY DEF TypeOK
<1>2. Bookkeeping'
  BY <1>0, <1>1 DEF TypeOK, Bookkeeping, Session
<1>3. Owners' = Owners
  BY <1>1 DEF TypeOK, Owners, is_current
<1>4. OneOwner' /\ ActiveIffOwned'
  BY <1>3 DEF OneOwner, ActiveIffOwned
<1>5. HeldForRetiring'
  BY <1>1 DEF TypeOK, HeldForRetiring, Retiring
<1>6. NoLostWakeup'
  BY <1>1 DEF TypeOK, NoLostWakeup
<1>7. BusHolder'
  BY <1>1, SlotsAssumption DEF TypeOK, BusFollows, BusHolder
<1>8. AtMostOneStrayPacket'
  BY <1>0, <1>1 DEF TypeOK, AtMostOneStrayPacket
<1>9. BoardStep
  <2> HIDE DEF Inv
  <2>1. Leaving' = Leaving
    BY <1>1, <1>3 DEF Inv, TypeOK, Leaving
  <2>2. stray[s] = 0
    BY DEF Inv, TypeOK, AtMostOneStrayPacket
  <2>3. CASE stray'[s] = 0
    <3>1. stray' = stray
      BY <2>2, <2>3 DEF Inv, TypeOK
    <3> QED BY <1>3, <2>1, <3>1, BoardStutters
  <2>4. CASE stray'[s] = 1 /\ phase = "resyncing" /\ gen[s] < admission.epoch
    <3>1. s \in Leaving
      BY <1>0, <2>4 DEF Inv, TypeOK, Bookkeeping, Session, Leaving, Owners, is_current
    <3>2. stray' = [stray EXCEPT ![s] = 1]
      BY <2>4 DEF Inv, TypeOK
    <3>3. Board!LatePacket(s)
      BY <1>3, <2>1, <2>2, <3>1, <3>2 DEF Board!LatePacket, BoardOwner
    <3> QED BY <3>3 DEF BoardStep, Board!Next
  <2> QED BY <2>3, <2>4
<1> QED BY <1>2, <1>4, <1>5, <1>6, <1>7, <1>8, <1>9

\* A session of s returns.
LEMMA EndInv ==
  ASSUME Inv, NEW s \in Slots, pc[s] \in Session, End(s),
         BusFollows(s, "releasing"), UNCHANGED stray
  PROVE  Inv' /\ BoardStep
<1> USE DEF Inv, End, Goto
<1>0. /\ admission \in Admission /\ admission' \in Admission
      /\ admission'.epoch = admission.epoch
      /\ admission'.active = IF admission.epoch = gen[s]
                               THEN FALSE ELSE admission.active
      /\ admission'.listener_required = admission.listener_required
  BY ReleaseFacts DEF TypeOK
<1>a. admission.epoch \in Nat
  BY <1>0 DEF Admission
<1>1. pc'[s] = "releasing" /\ \A t \in Slots \ {s} : pc'[t] = pc[t]
  BY DEF TypeOK
<1>2. TypeOK'
  BY <1>0, BoundsAssumption DEF TypeOK, Phase, BusFollows, Holding
<1>3. Bookkeeping'
  BY <1>0, <1>a, <1>1 DEF TypeOK, Bookkeeping, Session
<1>4. Owners' = Owners \ {s}
  BY <1>0, <1>1 DEF TypeOK, Owners, is_current, Session
<1>5. OneOwner'
  BY <1>4 DEF OneOwner
<1>6. ActiveIffOwned'
  <2>1. CASE s \in Owners
    <3>1. admission'.active = FALSE
      BY <2>1, <1>0 DEF Owners, is_current
    <3>2. Owners' = {}
      BY <2>1, <1>4 DEF OneOwner
    <3> QED BY <3>1, <3>2 DEF ActiveIffOwned
  <2>2. CASE s \notin Owners
    <3>1. admission'.active = admission.active
      BY <2>2, <1>0 DEF Owners, is_current
    <3>2. Owners' = Owners
      BY <2>2, <1>4
    <3> QED BY <3>1, <3>2 DEF ActiveIffOwned
  <2> QED BY <2>1, <2>2
<1>7. HeldForRetiring'
  BY <1>0, <1>1 DEF TypeOK, HeldForRetiring, Retiring
<1>8. NoLostWakeup'
  BY <1>0, <1>1 DEF TypeOK, NoLostWakeup
<1>9. BusHolder'
  BY <1>1, SlotsAssumption DEF TypeOK, BusFollows, BusHolder, Holding
<1>10. AtMostOneStrayPacket'
  BY <1>0, <1>a, <1>1 DEF TypeOK, AtMostOneStrayPacket
<1>11. BoardStep
  <2> HIDE DEF Inv, End
  <2>0. gen' = gen /\ gen[s] > 0 /\ OneOwner
    BY DEF Inv, Bookkeeping, End
  <2>1. CASE s \in Owners
    <3>1. BoardOwner = s /\ BoardOwner' = None
      BY <1>4, <2>0, <2>1, BoardOwnerFacts DEF OneOwner, BoardOwner
    <3>2. Leaving' = Leaving \cup {s}
      BY <1>1, <1>4, <2>0, <2>1 DEF Leaving
    <3>3. Board!Release(s)
      BY <1>0, <3>1, <3>2 DEF Board!Release
    <3> QED BY <3>3 DEF BoardStep, Board!Next
  <2>2. CASE s \notin Owners
    <3>1. Owners' = Owners
      BY <1>4, <2>2
    <3>2. Leaving' = Leaving
      BY <1>1, <2>0, <3>1 DEF Leaving
    <3> QED BY <1>0, <3>1, <3>2, BoardStutters
  <2> QED BY <2>1, <2>2
<1> QED BY <1>2, <1>3, <1>5, <1>6, <1>7, <1>8, <1>9, <1>10, <1>11

\* One pass of the loop of ControllerOwnership::claim.
LEMMA ClaimInv ==
  ASSUME Inv, NEW s \in Slots, pc[s] \in {"upgrading", "claiming"},
         ClaimPass(s), UNCHANGED <<listener_change, wifi, bus, peer, todo, stray>>
  PROVE  Inv' /\ BoardStep
<1> USE DEF Inv, ClaimPass, Goto, WaitForListener
<1>0. /\ admission \in Admission
      /\ admission.epoch \in Nat
      /\ gen[s] = 0 /\ stray[s] = 0
      /\ pc[s] \notin Session \cup Holding \cup {"releasing"}
  BY DEF TypeOK, Admission, Bookkeeping, Session, Holding, AtMostOneStrayPacket
<1>1. CASE admission.listener_required
  <2>1. pc'[s] = "claiming" /\ \A t \in Slots \ {s} : pc'[t] = pc[t]
    BY <1>1 DEF TypeOK
  <2>2. TypeOK'
    BY <1>1 DEF TypeOK, Phase
  <2>3. Bookkeeping'
    BY <1>1, <1>0, <2>1 DEF TypeOK, Bookkeeping, Session
  <2>4. Owners' = Owners
    BY <1>1, <1>0, <2>1 DEF TypeOK, Owners, Session, is_current
  <2>5. OneOwner' /\ ActiveIffOwned'
    BY <1>1, <2>4 DEF OneOwner, ActiveIffOwned
  <2>6. HeldForRetiring'
    BY <1>1, <1>0, <2>1 DEF HeldForRetiring, Retiring
  <2>7. NoLostWakeup'
    BY <1>1, <2>1 DEF TypeOK, NoLostWakeup
  <2>8. BusHolder'
    BY <1>1, <1>0, <2>1 DEF TypeOK, BusHolder, Holding
  <2>9. AtMostOneStrayPacket'
    BY <1>1, <1>0, <2>1 DEF TypeOK, AtMostOneStrayPacket
  <2>10. Leaving' = Leaving
    BY <1>1, <1>0, <2>1, <2>4 DEF Leaving
  <2>11. BoardStep
    BY <1>1, <2>4, <2>10, BoardStutters
  <2> QED BY <2>2, <2>3, <2>5, <2>6, <2>7, <2>8, <2>9, <2>11
<1>2. CASE ~ admission.listener_required
  <2>0. /\ admission' \in Admission
        /\ admission'.epoch = admission.epoch + 1
        /\ admission'.active = TRUE
        /\ admission'.listener_required = admission.active
    <3>1. admission' = Granted(admission)
      BY <1>2
    <3> HIDE DEF Inv, ClaimPass
    <3> QED BY <3>1, GrantedFacts, <1>0
  <2>1. /\ pc'[s] = "reading" /\ gen'[s] = admission'.epoch
        /\ \A t \in Slots \ {s} : pc'[t] = pc[t] /\ gen'[t] = gen[t]
    BY <1>2 DEF TypeOK
  <2>2. TypeOK'
    BY <1>2, <1>0, <2>0 DEF TypeOK, Phase, Session
  <2>3. Bookkeeping'
    BY <1>2, <1>0, <2>0, <2>1 DEF TypeOK, Bookkeeping, Session
  <2>4. Owners' = {s}
    BY <1>2, <1>0, <2>0, <2>1 DEF TypeOK, Owners, Session, is_current, Bookkeeping
  <2>5. OneOwner'
    BY <1>2, <1>0, <2>0, <2>1, <2>4 DEF TypeOK, OneOwner, Bookkeeping
  <2>6. ActiveIffOwned'
    BY <2>0, <2>4 DEF ActiveIffOwned
  <2>7. HeldForRetiring'
    <3> SUFFICES ASSUME admission.active PROVE \E t \in Slots : Retiring(t)'
      BY <2>0 DEF HeldForRetiring
    <3>1. PICK t \in Slots : pc[t] \in Session /\ admission.epoch = gen[t]
      BY DEF ActiveIffOwned, Owners, is_current
    <3>2. t # s /\ gen[t] > 0
      BY <3>1, <1>0 DEF Bookkeeping, TypeOK
    <3>3. Retiring(t)'
      BY <3>1, <3>2, <2>0, <2>1, <1>0 DEF Retiring
    <3> QED BY <3>3
  <2>8. NoLostWakeup'
    BY <1>2, <2>1, <2>0 DEF TypeOK, NoLostWakeup
  <2>9. BusHolder'
    BY <1>2, <1>0, <2>1 DEF TypeOK, BusHolder, Holding
  <2>10. AtMostOneStrayPacket'
    BY <1>2, <1>0, <2>0, <2>1 DEF TypeOK, AtMostOneStrayPacket
  <2>11. BoardStep
    <3> HIDE DEF Inv, ClaimPass
    <3>0. OneOwner /\ OneOwner' /\ s \notin Owners /\ s \notin Leaving
      BY <1>0, <2>5 DEF Inv, Owners, Leaving
    <3>1. BoardOwner' = s /\ s # BoardOwner
      BY <2>4, <3>0, BoardOwnerFacts, SlotsAssumption DEF BoardOwner
    <3>2. Leaving' = Leaving \cup Owners
      BY <1>0, <2>0, <2>1, <2>4
         DEF Leaving, Owners, Inv, TypeOK, Bookkeeping, Session, is_current
    <3>3. Owners = {BoardOwner} \ {None}
      BY <3>0, BoardOwnerFacts, SlotsAssumption DEF Owners
    <3>4. admission.active <=> BoardOwner # None
      BY <3>3 DEF Inv, ActiveIffOwned
    <3>5. Board!Claim(s)
      BY <1>2, <2>0, <3>0, <3>1, <3>2, <3>3, <3>4 DEF Board!Claim, Inv, TypeOK, Admission
    <3> QED BY <3>5 DEF BoardStep, Board!Next
  <2> QED BY <2>2, <2>3, <2>5, <2>6, <2>7, <2>8, <2>9, <2>10, <2>11
<1> QED BY <1>1, <1>2

\* What a handler that may still go on knows of its generation.
LEMMA HandlerFacts ==
  ASSUME Inv, NEW s \in Slots, pc[s] \in Session \ {"relocking", "resyncing"}
  PROVE  /\ admission.epoch \in Nat
         /\ stray[s] = 0
         /\ gen[s] \in Nat /\ gen[s] <= admission.epoch
         /\ Superseded(s) <=> gen[s] < admission.epoch
         /\ is_current(admission, gen[s]) <=> gen[s] = admission.epoch
<1>1. admission.epoch \in Nat /\ gen[s] \in Nat /\ gen[s] <= admission.epoch
  BY DEF Inv, TypeOK, Admission, Bookkeeping
<1>2. stray[s] = 0
  BY DEF Inv, TypeOK, AtMostOneStrayPacket, Session
<1>3. Superseded(s) <=> gen[s] < admission.epoch
  BY <1>1 DEF Inv, Bookkeeping, Superseded
<1> QED BY <1>1, <1>2, <1>3 DEF is_current

\* handle_json_rpc returns: the session answers, reads on or ends.
LEMMA FinishInv ==
  ASSUME Inv, NEW s \in Slots, pc[s] \in Session \ {"relocking", "resyncing"},
         Finish(s), BusFollows(s, "releasing"), UNCHANGED stray
  PROVE  Inv' /\ BoardStep
<1> DEFINE Stay(phase) ==
      /\ Goto(s, phase)
      /\ todo' = [todo EXCEPT ![s] = 0]
      /\ UNCHANGED <<admission, announced, listener_change, wifi, gen, lstSeen,
                     peer>>
<1>1. ASSUME NEW phase \in {"reading", "writing"}, Stay(phase) PROVE Inv' /\ BoardStep
  <2>1. TypeOK'
    BY <1>1, BoundsAssumption
       DEF Inv, TypeOK, Goto, Phase, Session, BusFollows, Holding
  <2>2. /\ phase \in Phase \ {"claiming", "releasing"}
        /\ phase \in Session /\ pc[s] \notin {"releasing", "resyncing"}
        /\ phase # "awaiting"
        /\ BusFollows(s, phase)
    BY <1>1 DEF Phase, Session, BusFollows, Holding
  <2>3. /\ stray'[s] = 0
        /\ \A t \in Slots \ {s} : todo'[t] = todo[t] /\ stray'[t] = stray[t]
    BY <1>1, HandlerFacts DEF Inv, TypeOK
  <2> QED BY <1>1, <2>1, <2>2, <2>3, MoveInv
<1>2. CASE Stay("writing")
  BY <1>1, <1>2
<1>3. CASE Stay("reading")
  BY <1>1, <1>3
<1>4. CASE End(s)
  BY <1>4, EndInv
<1> QED BY <1>2, <1>3, <1>4 DEF Finish, Respond

\* A packet goes out: the only step that may count as stray.
LEMMA SendPacketInv ==
  ASSUME Inv, NEW s \in Slots, pc[s] \in Session \ {"relocking", "resyncing"},
         bus \in {None, s}, NEW n \in 1 .. MaxPackets, SendPacket(s, n)
  PROVE  Inv' /\ BoardStep
<1> DEFINE phase == IF Superseded(s) THEN "resyncing" ELSE "awaiting"
<1>1. /\ phase \in Phase \ {"claiming", "releasing"}
      /\ phase \in Session /\ pc[s] \notin {"releasing", "resyncing"}
      /\ phase \in Holding
      /\ BusFollows(s, phase)
  BY DEF SendPacket, Phase, Session, BusFollows, Holding
<1>2. TypeOK'
  BY <1>1, HandlerFacts DEF Inv, TypeOK, SendPacket, Suspend, Goto
<1>3. todo'[s] > 0 /\ Goto(s, phase)
  BY DEF Inv, TypeOK, SendPacket, Suspend
<1>4. \/ stray'[s] = 0
      \/ stray'[s] = 1 /\ phase = "resyncing" /\ gen[s] < admission.epoch
  BY HandlerFacts DEF Inv, TypeOK, SendPacket
<1>5. \A t \in Slots \ {s} : todo'[t] = todo[t] /\ stray'[t] = stray[t]
  BY DEF Inv, TypeOK, SendPacket
<1>6. UNCHANGED <<admission, announced, listener_change, gen, lstSeen>>
  BY DEF SendPacket
<1> HIDE DEF phase
<1> QED BY <1>1, <1>2, <1>3, <1>4, <1>5, <1>6, MoveInv

\* The handler drains the UART, or is cancelled and drains it as a session.
LEMMA DrainInv ==
  ASSUME Inv, NEW s \in Slots, pc[s] \in Session \ {"relocking", "resyncing"},
         bus \in {None, s}, bus' = s, Suspend(s, "draining"),
         NEW n \in 0 .. MaxPackets, todo' = [todo EXCEPT ![s] = n],
         UNCHANGED <<admission, announced, listener_change, wifi, gen, lstSeen,
                     peer, stray>>
  PROVE  Inv' /\ BoardStep
<1> DEFINE phase == IF Superseded(s) THEN "resyncing" ELSE "draining"
<1>1. /\ phase \in Phase \ {"claiming", "releasing"}
      /\ phase \in Session /\ pc[s] \notin {"releasing", "resyncing"}
      /\ phase # "awaiting"
      /\ BusFollows(s, phase)
  BY DEF Phase, Session, BusFollows, Holding
<1>2. TypeOK'
  BY <1>1 DEF Inv, TypeOK, Suspend, Goto
<1>3. Goto(s, phase)
  BY DEF Suspend
<1>4. stray'[s] = 0
  BY HandlerFacts
<1>5. \A t \in Slots \ {s} : todo'[t] = todo[t] /\ stray'[t] = stray[t]
  BY DEF Inv, TypeOK
<1> HIDE DEF phase
<1> QED BY <1>1, <1>2, <1>3, <1>4, <1>5, MoveInv

\* A handler that holds the UART goes on with its command.
LEMMA AdvanceInv ==
  ASSUME Inv, NEW s \in Slots, pc[s] \in Session \ {"relocking", "resyncing"},
         bus \in {None, s}, NEW n \in 0 .. MaxPackets, Advance(s, n)
  PROVE  Inv' /\ BoardStep
<1>1. CASE n > 0 /\ SendPacket(s, n)
  <2>1. n \in 1 .. MaxPackets
    BY <1>1, BoundsAssumption
  <2> QED BY <1>1, <2>1, SendPacketInv
<1>2. CASE n > 0 /\ RejectArgument(s)
  <2>1. 0 \in 0 .. MaxPackets
    BY BoundsAssumption
  <2> QED BY <1>2, <2>1, DrainInv DEF RejectArgument
<1>3. CASE n = 0 /\ Finish(s) /\ bus' = None /\ UNCHANGED stray
  <2>1. BusFollows(s, "releasing")
    BY <1>3 DEF BusFollows, Holding
  <2> QED BY <1>3, <2>1, FinishInv
<1> QED BY <1>1, <1>2, <1>3 DEF Advance


-----------------------------------------------------------------------------

\* A step that changes at most the network and the clients.
LEMMA QuietInv ==
  ASSUME Inv, wifi' \in {"down", "up"}, peer' \in [Slots -> BOOLEAN],
         UNCHANGED <<admission, announced, listener_change, bus, pc, gen,
                     lstSeen, todo, stray>>
  PROVE  Inv' /\ BoardStep
<1> USE DEF Inv
<1>1. TypeOK' /\ Bookkeeping'
  BY DEF TypeOK, Bookkeeping
<1>2. Owners' = Owners
  BY DEF Owners
<1>3. OneOwner' /\ ActiveIffOwned'
  BY <1>2 DEF OneOwner, ActiveIffOwned
<1>4. HeldForRetiring' /\ NoLostWakeup' /\ BusHolder' /\ AtMostOneStrayPacket'
  BY DEF HeldForRetiring, Retiring, NoLostWakeup, BusHolder, AtMostOneStrayPacket
<1>5. BoardStep
  BY <1>2, BoardStutters DEF Leaving
<1> QED BY <1>1, <1>3, <1>4, <1>5

\* A rejected handshake has no generation to release.
LEMMA UpgradeFailInv == ASSUME Inv, NEW s \in Slots, UpgradeFail(s) PROVE Inv' /\ BoardStep
<1> USE DEF Inv, UpgradeFail, Goto
<1>0. /\ gen[s] = 0 /\ stray[s] = 0
      /\ pc'[s] = "releasing" /\ \A t \in Slots \ {s} : pc'[t] = pc[t]
  BY DEF TypeOK, Bookkeeping, Session, AtMostOneStrayPacket
<1>1. TypeOK'
  BY DEF TypeOK, Phase
<1>2. Bookkeeping'
  BY <1>0 DEF TypeOK, Bookkeeping, Session
<1>3. Owners' = Owners
  BY <1>0 DEF TypeOK, Owners, Session
<1>4. OneOwner' /\ ActiveIffOwned'
  BY <1>3 DEF OneOwner, ActiveIffOwned
<1>5. HeldForRetiring'
  BY <1>0 DEF HeldForRetiring, Retiring, Session
<1>6. NoLostWakeup' /\ AtMostOneStrayPacket'
  BY <1>0 DEF TypeOK, NoLostWakeup, AtMostOneStrayPacket
<1>7. BusHolder'
  BY <1>0 DEF TypeOK, BusHolder, Holding
<1>8. Leaving' = Leaving
  BY <1>0, <1>3 DEF Leaving
<1>9. BoardStep
  BY <1>3, <1>8, BoardStutters
<1> QED BY <1>1, <1>2, <1>4, <1>5, <1>6, <1>7, <1>9

\* A cancelled handler keeps the UART, or its place in the queue for it.
LEMMA CancelInv == ASSUME Inv, NEW s \in Slots, Cancel(s) PROVE Inv' /\ BoardStep
<1> DEFINE phase == IF pc[s] = "locking" THEN "relocking" ELSE "resyncing"
<1>1. /\ phase \in Phase \ {"claiming", "releasing"}
      /\ phase \in Session /\ pc[s] \in Session \ {"relocking", "resyncing"}
      /\ pc[s] \notin {"releasing", "resyncing"} /\ phase # "awaiting"
      /\ Goto(s, phase)
  BY DEF Cancel, Running, Phase, Session
<1>2. TypeOK'
  BY <1>1 DEF Inv, TypeOK, Cancel, Goto
<1>3. stray'[s] = 0
  BY <1>1, HandlerFacts DEF Cancel
<1>4. BusFollows(s, phase)
  BY DEF Inv, TypeOK, BusHolder, Cancel, Running, BusFollows, Holding
<1> HIDE DEF phase
<1> QED BY <1>1, <1>2, <1>3, <1>4, MoveInv DEF Cancel

\* Every step of a slot preserves the invariant, one case per action.
LEMMA SlotNextInv == ASSUME Inv, NEW s \in Slots, SlotNext(s) PROVE Inv' /\ BoardStep
<1>0. /\ pc \in [Slots -> Phase] /\ todo \in [Slots -> 0 .. MaxPackets]
      /\ bus \in Slots \cup {None} /\ stray \in [Slots -> Nat]
      /\ BusHolder
  BY DEF Inv, TypeOK
<1>1. CASE Listen(s)
  BY <1>1, ListenInv
<1>2. CASE Accept(s)
  <2>1. TypeOK'
    BY <1>2 DEF Inv, TypeOK, Accept, Goto, Phase
  <2>2. stray'[s] = 0 /\ BusFollows(s, "upgrading")
    BY <1>2, <1>0 DEF Inv, AtMostOneStrayPacket, Accept, BusFollows, BusHolder, Holding
  <2> QED BY <1>2, <2>1, <2>2, MoveInv DEF Accept, Phase, Session
<1>3. CASE AcceptFail(s)
  <2>1. TypeOK'
    BY <1>3 DEF Inv, TypeOK, AcceptFail, Goto, Phase
  <2>2. stray'[s] = 0 /\ BusFollows(s, "idle")
    BY <1>3, <1>0 DEF Inv, AtMostOneStrayPacket, AcceptFail, BusFollows, BusHolder, Holding
  <2> QED BY <1>3, <2>1, <2>2, MoveInv DEF AcceptFail, Phase, Session
<1>4. CASE Upgrade(s) \/ ClaimRetry(s)
  BY <1>4, ClaimInv DEF Upgrade, ClaimRetry
<1>5. CASE UpgradeFail(s)
  BY <1>5, UpgradeFailInv
<1>6. CASE ClientCloses(s)
  <2>1. peer' \in [Slots -> BOOLEAN] /\ wifi' \in {"down", "up"}
    BY <1>6 DEF Inv, TypeOK, ClientCloses
  <2> QED BY <1>6, <2>1, QuietInv DEF ClientCloses
<1>7. CASE \/ DropRequest(s) \/ WriteFail(s) \/ ReadError(s) \/ Replaced(s)
  <2>1. pc[s] \in Session /\ End(s) /\ UNCHANGED <<bus, stray>>
    BY <1>7 DEF DropRequest, WriteFail, ReadError, Replaced, Session
  <2>2. pc[s] \in {"reading", "writing"}
    BY <1>7 DEF DropRequest, WriteFail, ReadError, Replaced
  <2>3. BusFollows(s, "releasing")
    BY <1>0, <2>1, <2>2 DEF BusFollows, BusHolder, Holding
  <2> QED BY <2>1, <2>3, EndInv
<1>8. CASE LocalRequest(s)
  <2>1. /\ pc[s] \in Session \ {"relocking", "resyncing"}
        /\ Finish(s) /\ UNCHANGED <<bus, stray>>
    BY <1>8 DEF LocalRequest, Session
  <2>2. BusFollows(s, "releasing")
    BY <1>0, <1>8, <2>1 DEF LocalRequest, BusFollows, BusHolder, Holding
  <2> QED BY <2>1, <2>2, FinishInv
<1>9. ASSUME NEW n \in 0 .. MaxPackets, BusRequest(s, n) PROVE Inv' /\ BoardStep
  <2>0. pc[s] \in Session \ {"relocking", "resyncing"}
    BY <1>9 DEF BusRequest, Session
  <2>1. CASE bus = None
    BY <1>9, <2>0, <2>1, AdvanceInv DEF BusRequest
  <2>2. CASE bus # None
    <3>1. TypeOK'
      BY <1>9, <2>2 DEF Inv, TypeOK, BusRequest, Goto, Phase, Session
    <3>2. stray'[s] = 0 /\ BusFollows(s, "locking")
      BY <1>0, <1>9, <2>0, <2>2, HandlerFacts
         DEF BusRequest, BusFollows, BusHolder, Holding
    <3>3. \A t \in Slots \ {s} : todo'[t] = todo[t] /\ stray'[t] = stray[t]
      BY <1>0, <1>9, <2>2 DEF BusRequest
    <3> QED BY <1>9, <2>0, <2>2, <3>1, <3>2, <3>3, MoveInv DEF BusRequest, Phase, Session
  <2> QED BY <2>1, <2>2
<1>10. CASE LockGranted(s) \/ DrainDone(s)
  <2>1. /\ pc[s] \in Session \ {"relocking", "resyncing"}
        /\ bus \in {None, s} /\ todo[s] \in 0 .. MaxPackets
        /\ Advance(s, todo[s])
    BY <1>0, <1>10 DEF LockGranted, DrainDone, Session, BusHolder, Holding
  <2> QED BY <2>1, AdvanceInv
<1>11. CASE Reply(s)
  <2>1. /\ pc[s] \in Session \ {"relocking", "resyncing"}
        /\ bus \in {None, s} /\ Advance(s, todo[s] - 1)
    BY <1>0, <1>11 DEF Reply, Session, BusHolder, Holding
  <2>2. todo[s] - 1 \in 0 .. MaxPackets
    BY <1>0, <1>11, BoundsAssumption DEF Reply, Inv, Bookkeeping
  <2> QED BY <2>1, <2>2, AdvanceInv
<1>12. CASE ReplyFail(s)
  <2>1. /\ pc[s] \in Session \ {"relocking", "resyncing"}
        /\ bus \in {None, s} /\ bus' = s
    BY <1>0, <1>12 DEF ReplyFail, Session, BusHolder, Holding
  <2>2. PICK left \in {0, todo[s] - 1} : todo' = [todo EXCEPT ![s] = left]
    BY <1>12 DEF ReplyFail
  <2>3. left \in 0 .. MaxPackets
    BY <1>0, <1>12, BoundsAssumption DEF ReplyFail, Inv, Bookkeeping
  <2> QED BY <1>12, <2>1, <2>2, <2>3, DrainInv DEF ReplyFail
<1>13. CASE Cancel(s)
  BY <1>13, CancelInv
<1>14. CASE Relock(s)
  <2>1. TypeOK'
    BY <1>14 DEF Inv, TypeOK, Relock, Goto, Phase, Session
  <2>2. stray'[s] = 0 /\ BusFollows(s, "resyncing")
    BY <1>14, <1>0 DEF Inv, AtMostOneStrayPacket, Relock, BusFollows, BusHolder, Holding
  <2> QED BY <1>14, <2>1, <2>2, MoveInv DEF Relock, Phase, Session
<1>15. CASE ResyncDone(s)
  <2>1. pc[s] \in Session /\ End(s) /\ UNCHANGED stray
    BY <1>15 DEF ResyncDone, Session
  <2>2. BusFollows(s, "releasing")
    BY <1>0, <1>15 DEF ResyncDone, BusFollows, BusHolder, Holding
  <2> QED BY <2>1, <2>2, EndInv
<1>16. CASE WriteDone(s)
  <2>1. TypeOK'
    BY <1>16 DEF Inv, TypeOK, WriteDone, Goto, Phase, Session
  <2>2. stray'[s] = 0 /\ BusFollows(s, "reading")
    BY <1>16, <1>0 DEF Inv, AtMostOneStrayPacket, WriteDone, BusFollows, BusHolder, Holding
  <2> QED BY <1>16, <2>1, <2>2, MoveInv DEF WriteDone, Phase, Session
<1> QED
  BY <1>1, <1>2, <1>3, <1>4, <1>5, <1>6, <1>7, <1>8, <1>9, <1>10, <1>11,
     <1>12, <1>13, <1>14, <1>15, <1>16 DEF SlotNext

\* Every step preserves the invariant.
LEMMA NextInv == ASSUME Inv, [Next]_vars PROVE Inv' /\ BoardStep
<1>1. ASSUME NEW s \in Slots, SlotNext(s) PROVE Inv' /\ BoardStep
  BY <1>1, SlotNextInv
<1>2. CASE WifiConnect \/ WifiDisconnect \/ UNCHANGED vars
  BY <1>2, QuietInv DEF WifiConnect, WifiDisconnect, vars, Inv, TypeOK
<1> QED BY <1>1, <1>2 DEF Next

\* The inductive invariant holds in every reachable state.
THEOREM ServiceSafety == Spec => []Inv
  BY InitInv, NextInv, PTL DEF Spec

\* ControllerService implements Ownership for any number of slots: every step of
\* a task is a claim, a release, a late packet, a return or nothing to the
\* clients of the board.
THEOREM ServiceImplementsOwnership == Spec => ImplementsOwnership
<1>1. Init => Board!Init
  BY SlotsAssumption DEF Init, New, Board!Init, BoardOwner, Leaving, Owners, Session
<1>2. Inv /\ [Next]_vars => BoardStep
  BY NextInv
<1> QED BY <1>1, <1>2, ServiceSafety, PTL
  DEF Spec, ImplementsOwnership, Board!Spec, BoardStep

\* Every variable keeps its type; the count of the transactions left never
\* leaves its range, although Reply decrements it without a test.
THEOREM ServiceTypes == Spec => []TypeOK
<1>1. Inv => TypeOK
  BY DEF Inv
<1> QED BY ServiceSafety, <1>1, PTL

\* At most one session holds the current generation, with any number of slots.
THEOREM ServiceOneOwner == Spec => []OneOwner
<1>1. Inv => OneOwner
  BY DEF Inv
<1> QED BY ServiceSafety, <1>1, PTL

\* ControllerAdmission.active is true exactly while some session owns the bus.
THEOREM ServiceActive == Spec => []ActiveIffOwned
<1>1. Inv => ActiveIffOwned
  BY DEF Inv
<1> QED BY ServiceSafety, <1>1, PTL

\* Admission is never held without a retiring slot that will reopen it.
THEOREM ServiceAdmissionReopens == Spec => []HeldForRetiring
<1>1. Inv => HeldForRetiring
  BY DEF Inv
<1> QED BY ServiceSafety, <1>1, PTL

\* No claim sleeps through the reopening of the admission.
THEOREM ServiceNoLostWakeup == Spec => []NoLostWakeup
<1>1. Inv => NoLostWakeup
  BY DEF Inv
<1> QED BY ServiceSafety, <1>1, PTL

\* The owner of the board is never told to go.
THEOREM ServiceOwnerAnnounced == Spec => []OwnerAnnounced
<1>1. Inv => OwnerAnnounced
  BY DEF Inv, Bookkeeping, OwnerAnnounced, Owners, Superseded, is_current
<1> QED BY ServiceSafety, <1>1, PTL

\* The lock of the UART is held by exactly the session that uses it.
THEOREM ServiceBusHolder == Spec => []BusHolder
<1>1. Inv => BusHolder
  BY DEF Inv
<1> QED BY ServiceSafety, <1>1, PTL

\* A session sends at most one packet after losing its generation, for
\* commands of any length.
THEOREM ServiceStrayBound == Spec => []AtMostOneStrayPacket
<1>1. Inv => AtMostOneStrayPacket
  BY DEF Inv
<1> QED BY ServiceSafety, <1>1, PTL

-----------------------------------------------------------------------------
(* How long a replaced session lasts                                       *)

\* How often a session that has lost its generation is still polled, at most,
\* before its slot listens again.
Polls(phase) ==
  CASE phase = "locking" -> 4
    [] phase \in {"awaiting", "draining", "relocking", "writing"} -> 3
    [] phase \in {"reading", "resyncing"} -> 2
    [] phase = "releasing" -> 1
    [] OTHER -> 0

\* A slot whose session was replaced does nothing but return: each of its steps
\* brings it closer to listening, whatever its command was doing, and nothing that
\* its client, the other slots and the network do sets it back or admits it again.
RetirementProgress ==
  \A s \in Slots : Retiring(s) =>
    /\ Polls(pc[s]) \in 1 .. 4
    /\ Retiring(s)' \/ pc'[s] = "listening"
    /\ Polls(pc'[s]) < Polls(pc[s]) \/ (pc'[s] = pc[s] /\ (SlotNext(s) => ClientCloses(s)))

LEMMA PollsFacts ==
  /\ Polls("locking") = 4
  /\ Polls("awaiting") = 3 /\ Polls("draining") = 3 /\ Polls("relocking") = 3 /\ Polls("writing") = 3
  /\ Polls("reading") = 2 /\ Polls("resyncing") = 2 /\ Polls("releasing") = 1
  /\ Polls("listening") = 0
BY DEF Polls

\* A step of the slot itself takes it to a later phase of its return.
Returning(s, phase) ==
  /\ pc' = [pc EXCEPT ![s] = phase]
  /\ gen' = gen
  /\ admission'.epoch = admission.epoch
  /\ phase \in Session \cup {"releasing"}
  /\ Polls(phase) < Polls(pc[s])

\* The session ends.
LEMMA EndReturns ==
  ASSUME TypeOK, NEW s \in Slots, pc[s] \in Session, End(s)
  PROVE  Returning(s, "releasing")
<1>1. gen[s] \in Nat /\ admission \in Admission
  BY DEF TypeOK
<1>2. admission'.epoch = admission.epoch
  BY <1>1, ReleaseFacts DEF End
<1>3. Polls("releasing") < Polls(pc[s])
  BY PollsFacts DEF Session
<1> QED
  BY <1>2, <1>3 DEF Returning, End, Goto

\* A handler that can make progress makes it, and then its session is cancelled,
\* ends or, without a response to drop, looks at its socket once more.
LEMMA AdvanceReturns ==
  ASSUME TypeOK, NEW s \in Slots, pc[s] \in Running, Superseded(s),
         ~ is_current(admission, gen[s]), NEW n, Advance(s, n)
  PROVE  \E phase \in Phase : Returning(s, phase)
<1>1. pc[s] \in Session /\ Polls(pc[s]) > 2
  BY PollsFacts DEF Running, Session
<1>2. CASE End(s)
  BY <1>1, <1>2, EndReturns DEF Phase
<1>3. CASE pc' = [pc EXCEPT ![s] = "resyncing"] /\ UNCHANGED <<admission, gen>>
  BY <1>1, <1>3, PollsFacts DEF Returning, Session, Phase
<1>4. CASE pc' = [pc EXCEPT ![s] = "reading"] /\ UNCHANGED <<admission, gen>>
  BY <1>1, <1>4, PollsFacts DEF Returning, Session, Phase
<1> QED
  BY <1>2, <1>3, <1>4
  DEF Advance, SendPacket, RejectArgument, Suspend, Goto, Finish, Respond

LEMMA SlotReturns ==
  ASSUME Inv, NEW s \in Slots, Retiring(s), SlotNext(s)
  PROVE  \/ ClientCloses(s)
         \/ Listen(s)
         \/ \E phase \in Phase : Returning(s, phase)
<1>0. /\ TypeOK /\ announced = admission.epoch /\ Superseded(s)
      /\ ~ is_current(admission, gen[s]) /\ pc[s] \in Session \cup {"releasing"}
  BY DEF Inv, TypeOK, Admission, Bookkeeping, Retiring, Superseded, is_current
\* It is past its claim.
<1>1. ~ (Accept(s) \/ AcceptFail(s) \/ Upgrade(s) \/ UpgradeFail(s) \/ ClaimRetry(s))
  BY <1>0 DEF Accept, AcceptFail, Upgrade, UpgradeFail, ClaimRetry, Session
\* It is not current.
<1>2. ~ (LocalRequest(s) \/ \E n \in 0 .. MaxPackets : BusRequest(s, n))
  BY <1>0 DEF LocalRequest, BusRequest
<1>3. CASE DropRequest(s) \/ ResyncDone(s) \/ WriteFail(s) \/ ReadError(s) \/ Replaced(s)
  <2>1. pc[s] \in Session /\ End(s)
    BY <1>3 DEF DropRequest, ResyncDone, WriteFail, ReadError, Replaced, Session
  <2> QED
    BY <1>0, <2>1, EndReturns DEF Phase
<1>4. CASE LockGranted(s) \/ Reply(s) \/ DrainDone(s)
  BY <1>0, <1>4, AdvanceReturns DEF LockGranted, Reply, DrainDone, Running
<1>5. CASE ReplyFail(s) \/ Relock(s)
  <2>1. /\ pc[s] \in {"awaiting", "relocking"} /\ pc' = [pc EXCEPT ![s] = "resyncing"]
        /\ UNCHANGED <<admission, gen>>
    BY <1>0, <1>5 DEF ReplyFail, Relock, Suspend, Goto
  <2> QED
    BY <2>1, PollsFacts DEF Returning, Session, Phase
<1>6. CASE Cancel(s)
  <2>1. UNCHANGED <<admission, gen>>
    BY <1>6 DEF Cancel
  <2>2. CASE pc[s] = "locking"
    <3>1. pc' = [pc EXCEPT ![s] = "relocking"]
      BY <1>6, <2>2 DEF Cancel, Goto
    <3> QED
      BY <2>1, <2>2, <3>1, PollsFacts DEF Returning, Session, Phase
  <2>3. CASE pc[s] \in {"awaiting", "draining"}
    <3>1. pc' = [pc EXCEPT ![s] = "resyncing"]
      BY <1>6, <2>3 DEF Cancel, Goto
    <3> QED
      BY <2>1, <2>3, <3>1, PollsFacts DEF Returning, Session, Phase
  <2> QED
    BY <1>6, <2>2, <2>3 DEF Cancel, Running
<1>7. CASE WriteDone(s)
  <2>1. pc[s] = "writing" /\ pc' = [pc EXCEPT ![s] = "reading"] /\ UNCHANGED <<admission, gen>>
    BY <1>7 DEF WriteDone, Goto
  <2> QED
    BY <2>1, PollsFacts DEF Returning, Session, Phase
<1> QED
  BY <1>1, <1>2, <1>3, <1>4, <1>5, <1>6, <1>7 DEF SlotNext

\* What other tasks and the network do leaves a retiring slot where it is.
LEMMA OthersAside ==
  ASSUME Inv, NEW s \in Slots, WifiConnect \/ WifiDisconnect \/ \E t \in Slots \ {s} : SlotNext(t)
  PROVE  pc'[s] = pc[s] /\ gen'[s] = gen[s]
<1>0. pc \in [Slots -> Phase] /\ gen \in [Slots -> Nat]
  BY DEF Inv, TypeOK
<1>1. CASE WifiConnect \/ WifiDisconnect
  BY <1>1 DEF WifiConnect, WifiDisconnect
<1>2. ASSUME NEW t \in Slots \ {s}, SlotNext(t)
      PROVE  pc'[s] = pc[s] /\ gen'[s] = gen[s]
  <2>1. CASE Listen(t) \/ Accept(t) \/ AcceptFail(t) \/ UpgradeFail(t) \/ ClientCloses(t)
    BY <1>0, <2>1 DEF Listen, Accept, AcceptFail, UpgradeFail, ClientCloses, Goto
  <2>2. CASE Upgrade(t) \/ ClaimRetry(t)
    BY <1>0, <2>2 DEF Upgrade, ClaimRetry, ClaimPass, Goto
  <2>3. CASE DropRequest(t) \/ ResyncDone(t) \/ WriteFail(t) \/ ReadError(t) \/ Replaced(t)
    BY <1>0, <2>3 DEF DropRequest, ResyncDone, WriteFail, ReadError, Replaced, End, Goto
  <2>4. CASE LocalRequest(t) \/ LockGranted(t) \/ Reply(t) \/ DrainDone(t)
             \/ \E n \in 0 .. MaxPackets : BusRequest(t, n)
    BY <1>0, <2>4 DEF LocalRequest, LockGranted, Reply, DrainDone, BusRequest, Advance, SendPacket,
                      RejectArgument, Suspend, Finish, Respond, End, Goto
  <2>5. CASE ReplyFail(t) \/ Cancel(t) \/ Relock(t) \/ WriteDone(t)
    BY <1>0, <2>5 DEF ReplyFail, Suspend, Cancel, Relock, WriteDone, Goto
  <2> QED
    BY <1>2, <2>1, <2>2, <2>3, <2>4, <2>5 DEF SlotNext
<1> QED
  BY <1>1, <1>2

\* The epoch never goes back.
LEMMA EpochGrows == ASSUME Inv, Next PROVE admission'.epoch >= admission.epoch
<1>0. admission \in Admission /\ admission.epoch \in Nat /\ gen \in [Slots -> Nat]
  BY DEF Inv, TypeOK, Admission
<1>1. CASE UNCHANGED admission
  BY <1>0, <1>1
<1>2. ASSUME NEW t \in Slots, End(t)
      PROVE  admission'.epoch = admission.epoch
  BY <1>0, <1>2, ReleaseFacts DEF End
<1>3. ASSUME NEW t \in Slots, ClaimPass(t)
      PROVE  admission'.epoch >= admission.epoch
  <2>0. Granted(admission).epoch = admission.epoch + 1
    BY <1>0, GrantedFacts
  <2>1. Granted(admission).epoch >= admission.epoch
    BY <1>0, <2>0
  <2> QED
    BY <1>0, <1>3, <2>1 DEF ClaimPass
<1>4. ASSUME NEW t \in Slots, Listen(t)
      PROVE  admission'.epoch = admission.epoch
  BY <1>0, <1>4, ReadyFacts DEF Listen
<1>5. ASSUME NEW t \in Slots, SlotNext(t)
      PROVE  \/ UNCHANGED admission
             \/ Listen(t) \/ ClaimPass(t) \/ End(t)
  BY <1>5 DEF SlotNext, Accept, AcceptFail, Upgrade, UpgradeFail, ClaimRetry, ClientCloses,
     DropRequest, LocalRequest, BusRequest, LockGranted, Reply, ReplyFail, DrainDone, Cancel,
     Relock, ResyncDone, WriteDone, WriteFail, ReadError, Replaced, Advance, SendPacket,
     RejectArgument, Finish, Respond
<1> QED
  BY <1>0, <1>1, <1>2, <1>3, <1>4, <1>5 DEF Next, WifiConnect, WifiDisconnect

\* A replaced session is polled at most four more times before its slot listens
\* again, for commands of any length and any number of slots: what `select`,
\* the cancellation and the resynchronisation in controller_session add up to.
THEOREM ServiceRetires == Spec => [][RetirementProgress]_vars
<1>1. Inv /\ [Next]_vars => [RetirementProgress]_vars
  <2> SUFFICES ASSUME Inv, Next, NEW s \in Slots, Retiring(s)
               PROVE  /\ Polls(pc[s]) \in 1 .. 4
                      /\ Retiring(s)' \/ pc'[s] = "listening"
                      /\ \/ Polls(pc'[s]) < Polls(pc[s])
                         \/ pc'[s] = pc[s] /\ (SlotNext(s) => ClientCloses(s))
    BY DEF RetirementProgress
  <2>0. /\ pc \in [Slots -> Phase] /\ gen \in [Slots -> Nat] /\ admission.epoch \in Nat
        /\ admission'.epoch \in Nat /\ admission'.epoch >= admission.epoch
        /\ pc[s] \in Session \cup {"releasing"} /\ 0 < gen[s] /\ gen[s] < admission.epoch
    BY NextInv, EpochGrows DEF Inv, TypeOK, Admission, Retiring
  <2>1. Polls(pc[s]) \in 1 .. 4
    BY <2>0, PollsFacts DEF Session
  <2>2. ASSUME pc'[s] = pc[s], gen'[s] = gen[s]
        PROVE  Retiring(s)'
    BY <2>0, <2>2 DEF Retiring
  <2>3. ASSUME NEW phase \in Phase, Returning(s, phase)
        PROVE  Retiring(s)' /\ Polls(pc'[s]) < Polls(pc[s])
    BY <2>0, <2>3 DEF Retiring, Returning
  <2>4. CASE Listen(s)
    <3>1. pc'[s] = "listening"
      BY <2>0, <2>4 DEF Listen, Goto
    <3>2. Polls(pc'[s]) < Polls(pc[s])
      BY <2>1, <3>1, PollsFacts
    <3> QED
      BY <2>1, <3>1, <3>2
  <2>5. CASE ClientCloses(s)
    BY <2>1, <2>2, <2>5 DEF ClientCloses
  <2>6. CASE SlotNext(s)
    BY <2>1, <2>3, <2>4, <2>5, <2>6, SlotReturns
  <2>7. CASE ~ SlotNext(s)
    <3>1. WifiConnect \/ WifiDisconnect \/ \E t \in Slots \ {s} : SlotNext(t)
      BY <2>7 DEF Next
    <3>2. pc'[s] = pc[s] /\ gen'[s] = gen[s]
      BY <3>1, OthersAside
    <3> QED
      BY <2>1, <2>2, <2>7, <3>2
  <2> QED
    BY <2>6, <2>7
<1> QED BY ServiceSafety, <1>1, PTL DEF Spec

=============================================================================
