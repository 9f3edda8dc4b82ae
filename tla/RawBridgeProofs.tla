--------------------------- MODULE RawBridgeProofs ---------------------------
(***************************************************************************)
(* The safety of the raw UART tunnel and of the host that uses it, for     *)
(* every set of controller sessions and servo messages.                    *)
(***************************************************************************)
EXTENDS RawBridge, TLAPS

(***************************************************************************)
(* RawTunnel.  The conjunction Inv of the invariants that TLC checks is    *)
(* inductive: each conjunct needs the others (a session that takes uart_tx *)
(* must be known to hold uart_rx, a consumed command must be known to      *)
(* agree with the flag), and none needs a strengthening beyond that.       *)
(***************************************************************************)

Inv ==
  /\ TypeOK
  /\ LocksHeld
  /\ SignalAgrees
  /\ NoMissedCommand
  /\ OwnerCommandExcludesTunnel

\* The board starts with the tunnel disabled and both locks free.
LEMMA InitInv == Init => Inv
<1> SUFFICES ASSUME Init PROVE Inv
  OBVIOUS
<1> USE PartiesAssumption DEF Init
<1>1. TypeOK
  BY DEF TypeOK, RawPhase, CtlPhase
<1>2. LocksHeld
  BY DEF LocksHeld
<1>3. SignalAgrees /\ NoMissedCommand /\ OwnerCommandExcludesTunnel
  BY DEF SignalAgrees, NoMissedCommand, OwnerCommandExcludesTunnel, Connected
<1> QED BY <1>1, <1>2, <1>3 DEF Inv

\* A step of a controller session: switching, taking over, using the bus.
LEMMA SessionNextInv ==
  ASSUME Inv, NEW s \in Sessions, SessionNext(s) PROVE Inv'
<1>1. CASE Enable(s)
  <2> USE <1>1, PartiesAssumption DEF Enable
  <2>1. TypeOK'
    BY DEF Inv, TypeOK, RawPhase, CtlPhase, Connected
  <2>2. LocksHeld'
    BY DEF Inv, TypeOK, LocksHeld
  <2>3. SignalAgrees' /\ NoMissedCommand'
    BY DEF Inv, TypeOK, SignalAgrees, NoMissedCommand, Connected
  <2>4. OwnerCommandExcludesTunnel'
    BY DEF Inv, TypeOK, OwnerCommandExcludesTunnel
  <2> QED BY <2>1, <2>2, <2>3, <2>4 DEF Inv
<1>2. CASE Disable(s)
  <2> USE <1>2, PartiesAssumption DEF Disable
  <2>0. (raw \in Connected) \in BOOLEAN
    OBVIOUS
  <2>1. TypeOK'
    BY <2>0 DEF Inv, TypeOK
  <2>2. LocksHeld'
    BY DEF Inv, TypeOK, LocksHeld
  <2>3. SignalAgrees' /\ NoMissedCommand'
    BY DEF Inv, TypeOK, SignalAgrees, NoMissedCommand, Connected
  <2>4. OwnerCommandExcludesTunnel'
    BY DEF Inv, TypeOK, OwnerCommandExcludesTunnel
  <2> QED BY <2>1, <2>2, <2>3, <2>4 DEF Inv
<1>3. CASE Takeover(s)
  <2> USE <1>3, PartiesAssumption DEF Takeover
  <2>1. TypeOK'
    BY DEF Inv, TypeOK, RawPhase, CtlPhase, Connected
  <2>2. LocksHeld'
    BY DEF Inv, TypeOK, LocksHeld
  <2>3. SignalAgrees' /\ NoMissedCommand'
    BY DEF Inv, TypeOK, SignalAgrees, NoMissedCommand, Connected
  <2>4. OwnerCommandExcludesTunnel'
    BY DEF Inv, TypeOK, OwnerCommandExcludesTunnel
  <2> QED BY <2>1, <2>2, <2>3, <2>4 DEF Inv
<1>4. CASE Command(s)
  <2> USE <1>4, PartiesAssumption DEF Command, TakeTx, Move, Superseded
  <2>1. TypeOK'
    BY DEF Inv, TypeOK, RawPhase, CtlPhase, Connected
  <2>2. LocksHeld'
    BY DEF Inv, TypeOK, LocksHeld
  <2>3. SignalAgrees' /\ NoMissedCommand'
    BY DEF Inv, TypeOK, SignalAgrees, NoMissedCommand, Connected
  <2>4. OwnerCommandExcludesTunnel'
    BY DEF Inv, TypeOK, OwnerCommandExcludesTunnel
  <2> QED BY <2>1, <2>2, <2>3, <2>4 DEF Inv
<1>5. CASE LockRx(s)
  <2> USE <1>5, PartiesAssumption DEF LockRx, TakeTx, Move, Superseded
  <2>1. TypeOK'
    BY DEF Inv, TypeOK, RawPhase, CtlPhase, Connected
  <2>2. LocksHeld'
    BY DEF Inv, TypeOK, LocksHeld
  <2>3. SignalAgrees' /\ NoMissedCommand'
    BY DEF Inv, TypeOK, SignalAgrees, NoMissedCommand, Connected
  <2>4. OwnerCommandExcludesTunnel'
    BY DEF Inv, TypeOK, OwnerCommandExcludesTunnel
  <2> QED BY <2>1, <2>2, <2>3, <2>4 DEF Inv
<1>6. CASE LockTx(s)
  <2> USE <1>6, PartiesAssumption DEF LockTx, TakeTx, Move, Superseded
  <2>1. TypeOK'
    BY DEF Inv, TypeOK, RawPhase, CtlPhase, Connected
  <2>2. LocksHeld'
    BY DEF Inv, TypeOK, LocksHeld
  <2>3. SignalAgrees' /\ NoMissedCommand'
    BY DEF Inv, TypeOK, SignalAgrees, NoMissedCommand, Connected
  <2>4. OwnerCommandExcludesTunnel'
    BY DEF Inv, TypeOK, OwnerCommandExcludesTunnel
  <2> QED BY <2>1, <2>2, <2>3, <2>4 DEF Inv
<1>7. CASE CommandDone(s)
  <2> USE <1>7, PartiesAssumption DEF CommandDone, Move
  <2>1. TypeOK'
    BY DEF Inv, TypeOK, RawPhase, CtlPhase, Connected
  <2>2. LocksHeld'
    BY DEF Inv, TypeOK, LocksHeld
  <2>3. SignalAgrees' /\ NoMissedCommand'
    BY DEF Inv, TypeOK, SignalAgrees, NoMissedCommand, Connected
  <2>4. OwnerCommandExcludesTunnel'
    BY DEF Inv, TypeOK, OwnerCommandExcludesTunnel
  <2> QED BY <2>1, <2>2, <2>3, <2>4 DEF Inv
<1>8. CASE Cancel(s)
  <2> USE <1>8, PartiesAssumption DEF Cancel, Move, Superseded
  <2>1. TypeOK'
    BY DEF Inv, TypeOK, RawPhase, CtlPhase, Connected
  <2>2. LocksHeld'
    BY DEF Inv, TypeOK, LocksHeld
  <2>3. SignalAgrees' /\ NoMissedCommand'
    BY DEF Inv, TypeOK, SignalAgrees, NoMissedCommand, Connected
  <2>4. OwnerCommandExcludesTunnel'
    BY DEF Inv, TypeOK, OwnerCommandExcludesTunnel
  <2> QED BY <2>1, <2>2, <2>3, <2>4 DEF Inv
<1>9. CASE Relock(s)
  <2> USE <1>9, PartiesAssumption DEF Relock, Move
  <2>1. TypeOK'
    BY DEF Inv, TypeOK, RawPhase, CtlPhase, Connected
  <2>2. LocksHeld'
    BY DEF Inv, TypeOK, LocksHeld
  <2>3. SignalAgrees' /\ NoMissedCommand'
    BY DEF Inv, TypeOK, SignalAgrees, NoMissedCommand, Connected
  <2>4. OwnerCommandExcludesTunnel'
    BY DEF Inv, TypeOK, OwnerCommandExcludesTunnel
  <2> QED BY <2>1, <2>2, <2>3, <2>4 DEF Inv
<1>10. CASE ResyncDone(s)
  <2> USE <1>10, PartiesAssumption DEF ResyncDone, Move
  <2>1. TypeOK'
    BY DEF Inv, TypeOK, RawPhase, CtlPhase, Connected
  <2>2. LocksHeld'
    BY DEF Inv, TypeOK, LocksHeld
  <2>3. SignalAgrees' /\ NoMissedCommand'
    BY DEF Inv, TypeOK, SignalAgrees, NoMissedCommand, Connected
  <2>4. OwnerCommandExcludesTunnel'
    BY DEF Inv, TypeOK, OwnerCommandExcludesTunnel
  <2> QED BY <2>1, <2>2, <2>3, <2>4 DEF Inv
<1> QED
  BY <1>1, <1>2, <1>3, <1>4, <1>5, <1>6, <1>7, <1>8, <1>9, <1>10 DEF SessionNext

\* A step of raw_tunnel_service or of the session of its client.
LEMMA RawNextInv == ASSUME Inv, RawNext PROVE Inv'
<1>1. CASE RawWake
  <2> USE <1>1, PartiesAssumption DEF RawWake, LoopTop
  <2>1. TypeOK'
    BY DEF Inv, TypeOK, RawPhase, CtlPhase, Connected
  <2>2. LocksHeld'
    BY DEF Inv, TypeOK, LocksHeld
  <2>3. SignalAgrees' /\ NoMissedCommand'
    BY DEF Inv, TypeOK, SignalAgrees, NoMissedCommand, Connected
  <2>4. OwnerCommandExcludesTunnel'
    BY DEF Inv, TypeOK, OwnerCommandExcludesTunnel
  <2> QED BY <2>1, <2>2, <2>3, <2>4 DEF Inv
<1>2. CASE RawListen
  <2> USE <1>2, PartiesAssumption DEF RawListen
  <2>1. TypeOK'
    BY DEF Inv, TypeOK, RawPhase, CtlPhase, Connected
  <2>2. LocksHeld'
    BY DEF Inv, TypeOK, LocksHeld
  <2>3. SignalAgrees' /\ NoMissedCommand'
    BY DEF Inv, TypeOK, SignalAgrees, NoMissedCommand, Connected
  <2>4. OwnerCommandExcludesTunnel'
    BY DEF Inv, TypeOK, OwnerCommandExcludesTunnel
  <2> QED BY <2>1, <2>2, <2>3, <2>4 DEF Inv
<1>3. CASE RawListenSignal
  <2> USE <1>3, PartiesAssumption DEF RawListenSignal, Leave
  <2>1. TypeOK'
    BY DEF Inv, TypeOK, RawPhase, CtlPhase, Connected
  <2>2. LocksHeld'
    BY DEF Inv, TypeOK, LocksHeld
  <2>3. SignalAgrees' /\ NoMissedCommand'
    BY DEF Inv, TypeOK, SignalAgrees, NoMissedCommand, Connected
  <2>4. OwnerCommandExcludesTunnel'
    BY DEF Inv, TypeOK, OwnerCommandExcludesTunnel
  <2> QED BY <2>1, <2>2, <2>3, <2>4 DEF Inv
<1>4. CASE RawAcceptFail
  <2> USE <1>4, PartiesAssumption DEF RawAcceptFail, Leave
  <2>1. TypeOK'
    BY DEF Inv, TypeOK, RawPhase, CtlPhase, Connected
  <2>2. LocksHeld'
    BY DEF Inv, TypeOK, LocksHeld
  <2>3. SignalAgrees' /\ NoMissedCommand'
    BY DEF Inv, TypeOK, SignalAgrees, NoMissedCommand, Connected
  <2>4. OwnerCommandExcludesTunnel'
    BY DEF Inv, TypeOK, OwnerCommandExcludesTunnel
  <2> QED BY <2>1, <2>2, <2>3, <2>4 DEF Inv
<1>5. CASE RawAccept
  <2> USE <1>5, PartiesAssumption DEF RawAccept, Serve
  <2>1. TypeOK'
    BY DEF Inv, TypeOK, RawPhase, CtlPhase, Connected
  <2>2. LocksHeld'
    BY DEF Inv, TypeOK, LocksHeld
  <2>3. SignalAgrees' /\ NoMissedCommand'
    BY DEF Inv, TypeOK, SignalAgrees, NoMissedCommand, Connected
  <2>4. OwnerCommandExcludesTunnel'
    BY DEF Inv, TypeOK, OwnerCommandExcludesTunnel
  <2> QED BY <2>1, <2>2, <2>3, <2>4 DEF Inv
<1>6. CASE RawLockRx
  <2> USE <1>6, PartiesAssumption DEF RawLockRx, Serve
  <2>1. TypeOK'
    BY DEF Inv, TypeOK, RawPhase, CtlPhase, Connected
  <2>2. LocksHeld'
    BY DEF Inv, TypeOK, LocksHeld
  <2>3. SignalAgrees' /\ NoMissedCommand'
    BY DEF Inv, TypeOK, SignalAgrees, NoMissedCommand, Connected
  <2>4. OwnerCommandExcludesTunnel'
    BY DEF Inv, TypeOK, OwnerCommandExcludesTunnel
  <2> QED BY <2>1, <2>2, <2>3, <2>4 DEF Inv
<1>7. CASE RawDisabled
  <2> USE <1>7, PartiesAssumption DEF RawDisabled, Leave
  <2>1. TypeOK'
    BY DEF Inv, TypeOK, RawPhase, CtlPhase, Connected
  <2>2. LocksHeld'
    BY DEF Inv, TypeOK, LocksHeld
  <2>3. SignalAgrees' /\ NoMissedCommand'
    BY DEF Inv, TypeOK, SignalAgrees, NoMissedCommand, Connected
  <2>4. OwnerCommandExcludesTunnel'
    BY DEF Inv, TypeOK, OwnerCommandExcludesTunnel
  <2> QED BY <2>1, <2>2, <2>3, <2>4 DEF Inv
<1>8. CASE RawEnabledAgain
  <2> USE <1>8, PartiesAssumption DEF RawEnabledAgain, Serve
  <2>1. TypeOK'
    BY DEF Inv, TypeOK, RawPhase, CtlPhase, Connected
  <2>2. LocksHeld'
    BY DEF Inv, TypeOK, LocksHeld
  <2>3. SignalAgrees' /\ NoMissedCommand'
    BY DEF Inv, TypeOK, SignalAgrees, NoMissedCommand, Connected
  <2>4. OwnerCommandExcludesTunnel'
    BY DEF Inv, TypeOK, OwnerCommandExcludesTunnel
  <2> QED BY <2>1, <2>2, <2>3, <2>4 DEF Inv
<1>9. CASE RawClientGone
  <2> USE <1>9, PartiesAssumption DEF RawClientGone, Leave
  <2>1. TypeOK'
    BY DEF Inv, TypeOK, RawPhase, CtlPhase, Connected
  <2>2. LocksHeld'
    BY DEF Inv, TypeOK, LocksHeld
  <2>3. SignalAgrees' /\ NoMissedCommand'
    BY DEF Inv, TypeOK, SignalAgrees, NoMissedCommand, Connected
  <2>4. OwnerCommandExcludesTunnel'
    BY DEF Inv, TypeOK, OwnerCommandExcludesTunnel
  <2> QED BY <2>1, <2>2, <2>3, <2>4 DEF Inv
<1>10. CASE RawNetData
  <2> USE <1>10, PartiesAssumption DEF RawNetData
  <2>1. TypeOK'
    BY DEF Inv, TypeOK, RawPhase, CtlPhase, Connected
  <2>2. LocksHeld'
    BY DEF Inv, TypeOK, LocksHeld
  <2>3. SignalAgrees' /\ NoMissedCommand'
    BY DEF Inv, TypeOK, SignalAgrees, NoMissedCommand, Connected
  <2>4. OwnerCommandExcludesTunnel'
    BY DEF Inv, TypeOK, OwnerCommandExcludesTunnel
  <2> QED BY <2>1, <2>2, <2>3, <2>4 DEF Inv
<1>11. CASE RawLockTx
  <2> USE <1>11, PartiesAssumption DEF RawLockTx
  <2>1. TypeOK'
    BY DEF Inv, TypeOK, RawPhase, CtlPhase, Connected
  <2>2. LocksHeld'
    BY DEF Inv, TypeOK, LocksHeld
  <2>3. SignalAgrees' /\ NoMissedCommand'
    BY DEF Inv, TypeOK, SignalAgrees, NoMissedCommand, Connected
  <2>4. OwnerCommandExcludesTunnel'
    BY DEF Inv, TypeOK, OwnerCommandExcludesTunnel
  <2> QED BY <2>1, <2>2, <2>3, <2>4 DEF Inv
<1>12. CASE RawUartWritten
  <2> USE <1>12, PartiesAssumption DEF RawUartWritten, Serve
  <2>1. TypeOK'
    BY DEF Inv, TypeOK, RawPhase, CtlPhase, Connected
  <2>2. LocksHeld'
    BY DEF Inv, TypeOK, LocksHeld
  <2>3. SignalAgrees' /\ NoMissedCommand'
    BY DEF Inv, TypeOK, SignalAgrees, NoMissedCommand, Connected
  <2>4. OwnerCommandExcludesTunnel'
    BY DEF Inv, TypeOK, OwnerCommandExcludesTunnel
  <2> QED BY <2>1, <2>2, <2>3, <2>4 DEF Inv
<1>13. CASE RawUartWriteFail
  <2> USE <1>13, PartiesAssumption DEF RawUartWriteFail, Leave
  <2>1. TypeOK'
    BY DEF Inv, TypeOK, RawPhase, CtlPhase, Connected
  <2>2. LocksHeld'
    BY DEF Inv, TypeOK, LocksHeld
  <2>3. SignalAgrees' /\ NoMissedCommand'
    BY DEF Inv, TypeOK, SignalAgrees, NoMissedCommand, Connected
  <2>4. OwnerCommandExcludesTunnel'
    BY DEF Inv, TypeOK, OwnerCommandExcludesTunnel
  <2> QED BY <2>1, <2>2, <2>3, <2>4 DEF Inv
<1>14. CASE RawUartEvent
  <2> USE <1>14, PartiesAssumption DEF RawUartEvent
  <2>1. TypeOK'
    BY DEF Inv, TypeOK, RawPhase, CtlPhase, Connected
  <2>2. LocksHeld'
    BY DEF Inv, TypeOK, LocksHeld
  <2>3. SignalAgrees' /\ NoMissedCommand'
    BY DEF Inv, TypeOK, SignalAgrees, NoMissedCommand, Connected
  <2>4. OwnerCommandExcludesTunnel'
    BY DEF Inv, TypeOK, OwnerCommandExcludesTunnel
  <2> QED BY <2>1, <2>2, <2>3, <2>4 DEF Inv
<1>15. CASE RawResume
  <2> USE <1>15, PartiesAssumption DEF RawResume, Serve
  <2>1. TypeOK'
    BY DEF Inv, TypeOK, RawPhase, CtlPhase, Connected
  <2>2. LocksHeld'
    BY DEF Inv, TypeOK, LocksHeld
  <2>3. SignalAgrees' /\ NoMissedCommand'
    BY DEF Inv, TypeOK, SignalAgrees, NoMissedCommand, Connected
  <2>4. OwnerCommandExcludesTunnel'
    BY DEF Inv, TypeOK, OwnerCommandExcludesTunnel
  <2> QED BY <2>1, <2>2, <2>3, <2>4 DEF Inv
<1>16. CASE RawNetWriteFail
  <2> USE <1>16, PartiesAssumption DEF RawNetWriteFail, Leave
  <2>1. TypeOK'
    BY DEF Inv, TypeOK, RawPhase, CtlPhase, Connected
  <2>2. LocksHeld'
    BY DEF Inv, TypeOK, LocksHeld
  <2>3. SignalAgrees' /\ NoMissedCommand'
    BY DEF Inv, TypeOK, SignalAgrees, NoMissedCommand, Connected
  <2>4. OwnerCommandExcludesTunnel'
    BY DEF Inv, TypeOK, OwnerCommandExcludesTunnel
  <2> QED BY <2>1, <2>2, <2>3, <2>4 DEF Inv
<1>17. CASE RawReleased
  <2> USE <1>17, PartiesAssumption DEF RawReleased, LoopTop
  <2>1. TypeOK'
    BY DEF Inv, TypeOK, RawPhase, CtlPhase, Connected
  <2>2. LocksHeld'
    BY DEF Inv, TypeOK, LocksHeld
  <2>3. SignalAgrees' /\ NoMissedCommand'
    BY DEF Inv, TypeOK, SignalAgrees, NoMissedCommand, Connected
  <2>4. OwnerCommandExcludesTunnel'
    BY DEF Inv, TypeOK, OwnerCommandExcludesTunnel
  <2> QED BY <2>1, <2>2, <2>3, <2>4 DEF Inv
<1> QED
  BY <1>1, <1>2, <1>3, <1>4, <1>5, <1>6, <1>7, <1>8, <1>9, <1>10, <1>11,
     <1>12, <1>13, <1>14, <1>15, <1>16, <1>17 DEF RawNext

\* A step that changes nothing.
LEMMA StutterInv == ASSUME Inv, UNCHANGED vars PROVE Inv'
BY DEF Inv, vars, TypeOK, LocksHeld, SignalAgrees, NoMissedCommand,
       OwnerCommandExcludesTunnel

\* The invariants of the tunnel hold in every reachable state.
THEOREM TunnelSafety == Spec => []Inv
<1>1. Inv /\ [Next]_vars => Inv'
  BY SessionNextInv, RawNextInv, StutterInv DEF Next
<1> QED BY InitInv, <1>1, PTL DEF Spec

\* RawTunnelControl and the locks keep their types.
THEOREM TunnelTypes == Spec => []TypeOK
<1>1. Inv => TypeOK
  BY DEF Inv
<1> QED BY TunnelSafety, <1>1, PTL

\* Commands and raw traffic exclude each other on the UART, with any number of
\* sessions, and across cancellations.
THEOREM TunnelLocks == Spec => []LocksHeld
<1>1. Inv => LocksHeld
  BY DEF Inv
<1> QED BY TunnelSafety, <1>1, PTL

\* raw_tunnel_service never sleeps, or serves, past a change of `enabled` that
\* is not pending in its Signal.
THEOREM TunnelNoMissedCommand == Spec => []NoMissedCommand
<1>1. Inv => NoMissedCommand
  BY DEF Inv
<1> QED BY TunnelSafety, <1>1, PTL

\* The tunnel stays disabled from the check in handle_json_rpc until the owner's
\* command is done.
THEOREM TunnelExcluded == Spec => []OwnerCommandExcludesTunnel
<1>1. Inv => OwnerCommandExcludesTunnel
  BY DEF Inv
<1> QED BY TunnelSafety, <1>1, PTL

-----------------------------------------------------------------------------

(***************************************************************************)
(* RawBridge.  Its steps are steps of RawTunnel, whose invariant holds     *)
(* therefore (BridgeImplementsTunnel).  On top of it BridgeInv says what   *)
(* is left of a message (PlanLeft), where a packet can be while the raw    *)
(* session is at a suspension point (Carried), that the packets under way  *)
(* were sent in order (InOrder), and that everything under way belongs to  *)
(* a quiet packet as long as its client is served (OwnOnly).               *)
(***************************************************************************)

\* The host's controller session sends no motor command in raw mode.
HostIdle == ctl[Host] = "idle"

\* What is left of a message fits into the bound.
PlanLeft ==
  host = "asking" => plan # <<>> /\ sent + Len(plan) <= MaxAsks + 1

\* A client is there while its session runs, and a packet is being written
\* exactly where the session waits for uart_tx or writes.
Carried ==
  /\ client # None => raw \in Connected
  /\ pend # None <=> raw \in {"lockingTx", "uartWriting"}

\* No packet has a number that the host has not given, and the host has one each.
InOrder ==
  /\ RawPacketsInOrder
  /\ applied <= sent
  /\ pend # None => pend.n <= sent
  /\ \A i \in DOMAIN up : up[i].n <= sent

AllOf(s, n) == \A i \in DOMAIN s : s[i].n = n

\* While the client of a quiet packet is served, nothing but this packet and its
\* status is under way, and no controller uses the bus, until the tunnel is
\* disabled; then nothing is read from the bus for this client any more.
OwnOnly ==
  host = "asking" /\ quiet =>
    /\ AllOf(down, sent)
    /\ client = "host" =>
         /\ AllOf(up, sent)
         /\ pend # None => pend.n = sent
         /\ back # None => back.n = sent
         /\ signal # "Disable" =>
              AllOf(wire, sent) /\ \A s \in Sessions : ctl[s] = "idle"

FlowInv == BridgeTypeOK /\ PlanLeft /\ Carried /\ InOrder /\ OwnOnly

TunnelInv == Inv /\ HostIdle

BridgeInv == TunnelInv /\ FlowInv

-----------------------------------------------------------------------------
(* Packets and sequences                                                   *)

LEMMA PacketFacts ==
  /\ Foreign \in Packet /\ Foreign.n = 0 /\ MaxAsks \in Nat
  /\ \A p \in Packet : p # None /\ p.n \in 0 .. MaxAsks /\ (p = Foreign \/ p.n > 0)
<1>1. None \notin Packet /\ MaxAsks \in Nat
  BY HostAssumption
<1>2. Foreign \in Packet /\ Foreign.n = 0
  BY DEF Foreign, Packet
<1>3. ASSUME NEW p \in Packet PROVE p.n \in 0 .. MaxAsks /\ (p = Foreign \/ p.n > 0)
  BY <1>1, <1>2 DEF Packet
<1>. QED
  BY <1>1, <1>2, <1>3

LEMMA AppendFacts ==
  ASSUME NEW S, NEW s \in Seq(S), NEW x \in S
  PROVE  /\ Append(s, x) \in Seq(S)
         /\ Len(s) \in Nat /\ DOMAIN s = 1 .. Len(s)
         /\ DOMAIN Append(s, x) = 1 .. Len(s) + 1
         /\ \A i \in 1 .. Len(s) : Append(s, x)[i] = s[i] /\ s[i] \in S
         /\ Append(s, x)[Len(s) + 1] = x
  OBVIOUS

LEMMA TailFacts ==
  ASSUME NEW S, NEW s \in Seq(S), s # <<>>
  PROVE  /\ Head(s) \in S /\ Tail(s) \in Seq(S)
         /\ Len(s) \in Nat /\ Len(s) > 0 /\ Len(Tail(s)) = Len(s) - 1
         /\ Head(s) = s[1] /\ 1 \in DOMAIN s
         /\ DOMAIN s = 1 .. Len(s) /\ DOMAIN Tail(s) = 1 .. Len(s) - 1
         /\ \A i \in 1 .. Len(s) - 1 : Tail(s)[i] = s[i + 1] /\ i + 1 \in DOMAIN s
  OBVIOUS

LEMMA EmptyFacts ==
  ASSUME NEW S
  PROVE  <<>> \in Seq(S) /\ Len(<<>>) = 0 /\ DOMAIN <<>> = {}
  OBVIOUS

\* Packets that all have one number keep it when one of them is taken away or
\* another one is added.
LEMMA AllOfFacts ==
  ASSUME NEW S, NEW s \in Seq(S), NEW n
  PROVE  /\ AllOf(<<>>, n)
         /\ AllOf(s, n) /\ s # <<>> => AllOf(Tail(s), n) /\ Head(s).n = n
         /\ \A x \in S : AllOf(s, n) /\ x.n = n => AllOf(Append(s, x), n)
<1>1. AllOf(<<>>, n)
  BY EmptyFacts DEF AllOf
<1>2. ASSUME AllOf(s, n), s # <<>> PROVE AllOf(Tail(s), n) /\ Head(s).n = n
  BY <1>2, TailFacts DEF AllOf
<1>3. ASSUME NEW x \in S, AllOf(s, n), x.n = n PROVE AllOf(Append(s, x), n)
  <2>1. SUFFICES ASSUME NEW i \in DOMAIN Append(s, x) PROVE Append(s, x)[i].n = n
    BY DEF AllOf
  <2>2. i \in 1 .. Len(s) \/ i = Len(s) + 1
    BY AppendFacts
  <2>. QED
    BY <1>3, <2>2, AppendFacts DEF AllOf
<1>. QED
  BY <1>1, <1>2, <1>3

-----------------------------------------------------------------------------
(* The tunnel                                                              *)

\* Every step is a step of RawTunnel or leaves its state alone.
LEMMA TunnelStep ==
  ASSUME HostIdle, BridgeNext
  PROVE  Next \/ UNCHANGED vars
<1>1. CASE HostConnect \/ HostSwitches \/ HostSetupFails \/ HostBroken
           \/ \E m \in Messages : HostMessage(m)
  BY <1>1 DEF HostConnect, HostSwitches, HostSetupFails, HostBroken, HostMessage
<1>2. CASE HostAccept \/ HostRefuse \/ HostTimeout
  BY <1>2 DEF HostAccept, HostRefuse, HostTimeout
<1>3. CASE HostAdmitted
  <2>1. CASE owner = Host
    BY <1>3, <2>1 DEF HostAdmitted, vars
  <2>2. CASE owner # Host
    <3>1. Takeover(Host)
      BY <1>3, <2>2 DEF HostAdmitted, Takeover, HostIdle
    <3>. QED
      BY <3>1, HostAssumption DEF Next, SessionNext
  <2>. QED
    BY <2>1, <2>2
<1>4. CASE HostEnable
  <2>1. UNCHANGED vars \/ Enable(Host)
    BY <1>4 DEF HostEnable
  <2>. QED
    BY <2>1, HostAssumption DEF Next, SessionNext
<1>5. CASE HostDial \/ HostDialAbandoned
  BY <1>5 DEF HostDial, HostDialAbandoned, Next, RawNext
<1>6. CASE RawStep
  BY <1>6 DEF RawStep, Still, Leaves, OtherAccepted, FromClient, ToServo, FromServo, ToClient,
              Next, RawNext
<1>7. CASE \E s \in Sessions \ {Host} : Controls(s, SessionNext(s))
  BY <1>7 DEF Controls, Next
<1>. QED
  BY <1>1, <1>2, <1>3, <1>4, <1>5, <1>6, <1>7 DEF BridgeNext, HostStep

\* A step of raw_tunnel_service moves no controller.
LEMMA RawKeepsControllers ==
  ASSUME RawNext PROVE ctl' = ctl /\ owner' = owner
BY DEF RawNext, RawWake, RawListen, RawListenSignal, RawAcceptFail, RawAccept, RawLockRx,
       RawDisabled, RawEnabledAgain, RawClientGone, RawNetData, RawLockTx, RawUartWritten,
       RawUartWriteFail, RawUartEvent, RawResume, RawNetWriteFail, RawReleased

\* A step of a session moves no other session.
LEMMA SessionKeepsOthers ==
  ASSUME Inv, NEW s \in Sessions, SessionNext(s), NEW t \in Sessions, t # s
  PROVE  ctl'[t] = ctl[t]
<1>1. ctl \in [Sessions -> CtlPhase]
  BY DEF Inv, TypeOK
<1>. QED
  BY <1>1 DEF SessionNext, Enable, Disable, Takeover, Command, LockRx, LockTx, CommandDone,
              Cancel, Relock, ResyncDone, TakeTx, Move

LEMMA HostStaysIdle ==
  ASSUME Inv, HostIdle, BridgeNext
  PROVE  HostIdle'
<1>1. CASE HostConnect \/ HostSwitches \/ HostSetupFails \/ HostBroken
           \/ \E m \in Messages : HostMessage(m)
  BY <1>1 DEF HostConnect, HostSwitches, HostSetupFails, HostBroken, HostMessage, HostIdle, vars
<1>2. CASE HostAccept \/ HostRefuse \/ HostTimeout \/ HostAdmitted
  BY <1>2 DEF HostAccept, HostRefuse, HostTimeout, HostAdmitted, HostIdle, vars
<1>3. CASE HostEnable
  BY <1>3 DEF HostEnable, Enable, HostIdle, vars
<1>4. CASE HostDial \/ HostDialAbandoned \/ RawStep
  <2>1. RawNext
    BY <1>4 DEF HostDial, HostDialAbandoned, RawStep, Still, Leaves, OtherAccepted, FromClient,
                ToServo, FromServo, ToClient, RawNext
  <2>. QED
    BY <2>1, RawKeepsControllers DEF HostIdle
<1>5. CASE \E s \in Sessions \ {Host} : Controls(s, SessionNext(s))
  BY <1>5, SessionKeepsOthers, HostAssumption DEF Controls, HostIdle
<1>. QED
  BY <1>1, <1>2, <1>3, <1>4, <1>5 DEF BridgeNext, HostStep

LEMMA TunnelKept ==
  ASSUME TunnelInv, BridgeNext
  PROVE  TunnelInv'
<1>1. Next \/ UNCHANGED vars
  BY TunnelStep DEF TunnelInv
<1>2. Inv'
  BY <1>1, SessionNextInv, RawNextInv, StutterInv DEF Next, TunnelInv
<1>. QED
  BY <1>2, HostStaysIdle DEF TunnelInv

-----------------------------------------------------------------------------
(* The host                                                                *)

\* The types of what travels, as the steps below use them.
LEMMA FlowTypes ==
  ASSUME BridgeTypeOK
  PROVE  /\ plan \in Seq([id : Servos, kind : {"write", "read"}])
         /\ up \in Seq(Packet) /\ wire \in Seq(Packet) /\ down \in Seq(Packet)
         /\ pend \in Packet \cup {None} /\ back \in Packet \cup {None}
         /\ sent \in Nat /\ sent <= MaxAsks /\ applied \in Nat /\ applied <= MaxAsks
         /\ quiet \in BOOLEAN /\ bridge \in BOOLEAN /\ client \in Clients \cup {None}
  BY PacketFacts DEF BridgeTypeOK

\* A packet goes out: it is the youngest, and if it is quiet, the only one.
LEMMA SendKeeps ==
  ASSUME BridgeInv, NEW m \in Seq([id : Servos, kind : {"write", "read"}]), m # <<>>,
         sent + Len(m) <= MaxAsks, down' \in Seq(Packet), Send(m),
         UNCHANGED <<vars, bridge, client, pend, wire, back, applied>>
  PROVE  FlowInv'
<1>. DEFINE a == [n |-> sent + 1, id |-> Head(m).id, kind |-> Head(m).kind]
<1>0. FlowInv /\ BridgeTypeOK
  BY DEF BridgeInv, FlowInv
<1>1. /\ host' = "asking" /\ plan' = m /\ sent' = sent + 1
      /\ up' = IF client = "host" THEN Append(up, a) ELSE up
  BY DEF Send, Asked
<1>2. /\ quiet' \in BOOLEAN
      /\ quiet' => /\ up = <<>> /\ pend = None /\ wire = <<>> /\ back = None /\ down' = <<>>
                   /\ \A s \in Sessions : ctl[s] = "idle"
  BY DEF Send
<1>3. Len(m) \in Nat /\ Len(m) > 0 /\ Head(m) \in [id : Servos, kind : {"write", "read"}]
  BY TailFacts
<1>4. sent + 1 \in Nat /\ sent + 1 <= MaxAsks /\ sent + 1 \in 1 .. MaxAsks
      /\ sent' + Len(plan') <= MaxAsks + 1 /\ sent <= sent'
  <2>1. sent \in Nat
    BY <1>0, FlowTypes
  <2>2. PICK l \in Nat : l = Len(m) /\ l > 0
    BY <1>3
  <2>3. sent + l <= MaxAsks /\ MaxAsks \in Nat /\ sent' = sent + 1 /\ Len(plan') = l
    BY <1>1, <2>2, PacketFacts
  <2>. QED
    BY <2>1, <2>2, <2>3
<1>5. a \in Packet /\ a.n = sent + 1
  BY <1>3, <1>4 DEF Packet
<1>. HIDE DEF a
<1>6. up' \in Seq(Packet)
  BY <1>0, <1>1, <1>5, FlowTypes, AppendFacts
<1>7. BridgeTypeOK'
  BY <1>0, <1>1, <1>2, <1>4, <1>6 DEF BridgeTypeOK
<1>8. InOrder'
  <2>1. \A i \in DOMAIN up : up[i].n \in Nat /\ up[i].n < sent + 1
    BY <1>0, FlowTypes, PacketFacts, AppendFacts, <1>5 DEF FlowInv, InOrder
  <2>2. /\ applied < sent + 1 /\ applied <= sent + 1
        /\ pend # None => pend.n < sent + 1 /\ pend.n <= sent + 1
    BY <1>0, FlowTypes, PacketFacts DEF FlowInv, InOrder
  <2>3. applied' <= sent' /\ (pend' # None => pend'.n <= sent')
    BY <1>1, <2>2
  <2>4. CASE client = "host"
    <3>1. /\ DOMAIN up = 1 .. Len(up) /\ Len(up) \in Nat
          /\ DOMAIN up' = 1 .. Len(up) + 1 /\ up'[Len(up) + 1].n = sent + 1
          /\ \A i \in DOMAIN up : up'[i] = up[i]
      BY <1>0, <1>1, <1>5, <2>4, FlowTypes, AppendFacts
    <3>2. \A i \in DOMAIN up' : i \in DOMAIN up \/ i = Len(up) + 1
      BY <3>1
    <3>3. \A i, j \in DOMAIN up' : j < i => j \in DOMAIN up
      BY <3>1
    <3>4. RawPacketsInOrder'
      <4>1. pend' # None => pend' = Foreign \/ pend'.n > applied'
        BY <1>0 DEF FlowInv, InOrder, RawPacketsInOrder
      <4>2. ASSUME NEW i \in DOMAIN up'
            PROVE  /\ up'[i].n > applied' /\ (pend' # None => up'[i].n > pend'.n)
                   /\ \A j \in DOMAIN up' : j < i => up'[i].n > up'[j].n
        <5>1. CASE i \in DOMAIN up
          BY <1>0, <3>1, <3>3, <5>1 DEF FlowInv, InOrder, RawPacketsInOrder
        <5>2. CASE i = Len(up) + 1
          BY <2>1, <2>2, <3>1, <3>3, <5>2
        <5>. QED
          BY <3>2, <5>1, <5>2
      <4>. QED
        BY <4>1, <4>2 DEF RawPacketsInOrder
    <3>5. \A i \in DOMAIN up' : up'[i].n <= sent'
      BY <1>1, <1>4, <2>1, <3>1, <3>2
    <3>. QED
      BY <2>3, <3>4, <3>5 DEF InOrder
  <2>5. CASE client # "host"
    <3>1. up' = up
      BY <1>1, <2>5
    <3>2. RawPacketsInOrder'
      BY <1>0, <3>1 DEF FlowInv, InOrder, RawPacketsInOrder
    <3>3. \A i \in DOMAIN up' : up'[i].n <= sent'
      BY <1>1, <1>4, <2>1, <3>1
    <3>. QED
      BY <2>3, <3>2, <3>3 DEF InOrder
  <2>. QED
    BY <2>4, <2>5
<1>9. Carried' /\ PlanLeft'
  BY <1>0, <1>1, <1>4 DEF FlowInv, Carried, PlanLeft, vars
<1>10. OwnOnly'
  <2>1. SUFFICES ASSUME quiet' PROVE
          /\ AllOf(down', sent') /\ AllOf(wire', sent') /\ (client = "host" => AllOf(up', sent'))
          /\ pend' = None /\ back' = None /\ \A s \in Sessions : ctl'[s] = "idle"
    BY DEF OwnOnly
  <2>2. <<>> \in Seq(Packet) /\ AllOf(<<>>, sent') /\ AllOf(Append(<<>>, a), sent')
    BY <1>1, <1>5, EmptyFacts, AllOfFacts
  <2>. QED
    BY <1>1, <1>2, <2>1, <2>2 DEF vars
<1>. QED
  BY <1>7, <1>8, <1>9, <1>10 DEF FlowInv

\* A step of the host after which it waits for no packet.
LEMMA NotAskingKeeps ==
  ASSUME BridgeInv, host' \in {"idle", "opening", "enabling", "dialling"},
         plan' \in Seq([id : Servos, kind : {"write", "read"}]), quiet' \in BOOLEAN,
         bridge' \in BOOLEAN, client' \in Clients \cup {None}, down' \in Seq(Packet),
         UNCHANGED <<sent, up, pend, wire, back, applied>>, Carried'
  PROVE  FlowInv'
<1>0. FlowInv /\ BridgeTypeOK
  BY DEF BridgeInv, FlowInv
<1>2. BridgeTypeOK'
  BY <1>0 DEF BridgeTypeOK
<1>3. InOrder'
  BY <1>0 DEF FlowInv, InOrder, RawPacketsInOrder
<1>4. PlanLeft' /\ OwnOnly'
  BY DEF PlanLeft, OwnOnly
<1>. QED
  BY <1>2, <1>3, <1>4 DEF FlowInv

\* The message goes on with its next packet or is answered.
LEMMA GoOnKeeps ==
  ASSUME BridgeInv, host = "asking", down' \in Seq(Packet), GoOn \/ AnswerBrowser,
         UNCHANGED <<vars, bridge, client, pend, wire, back, applied>>
  PROVE  FlowInv'
<1>. DEFINE Step == [id : Servos, kind : {"write", "read"}]
<1>0. BridgeTypeOK /\ PlanLeft /\ Carried
  BY DEF BridgeInv, FlowInv
<1>1. CASE AnswerBrowser
  <2>1. Carried'
    BY <1>0 DEF Carried, vars
  <2>2. bridge' \in BOOLEAN /\ client' \in Clients \cup {None} /\ <<>> \in Seq(Step)
    BY <1>0, FlowTypes, EmptyFacts
  <2>3. /\ host' = "idle" /\ plan' = <<>> /\ quiet' \in BOOLEAN
        /\ UNCHANGED <<sent, up, pend, wire, back, applied>>
    BY <1>1 DEF AnswerBrowser
  <2>. QED
    BY <2>1, <2>2, <2>3, NotAskingKeeps
<1>2. CASE Len(plan) > 1 /\ Send(Tail(plan))
  <2>1. plan # <<>> /\ plan \in Seq(Step) /\ sent + Len(plan) <= MaxAsks + 1
        /\ sent \in Nat /\ MaxAsks \in Nat
    BY <1>0, FlowTypes, PacketFacts DEF PlanLeft
  <2>2. /\ Tail(plan) \in Seq(Step) /\ Len(plan) \in Nat /\ Len(Tail(plan)) = Len(plan) - 1
    BY <2>1, TailFacts
  <2>3. \A k \in Nat : k > 1 /\ sent + k <= MaxAsks + 1 => k - 1 # 0 /\ sent + (k - 1) <= MaxAsks
    BY <2>1
  <2>4. Len(Tail(plan)) # 0 /\ sent + Len(Tail(plan)) <= MaxAsks
    BY <1>2, <2>1, <2>2, <2>3
  <2>5. Tail(plan) # <<>>
    BY <2>4, EmptyFacts
  <2>. QED
    BY <1>2, <2>2, <2>4, <2>5, SendKeeps
<1>. QED
  BY <1>1, <1>2 DEF GoOn

\* A servo message and what ends the wait for a status.
LEMMA AskingKeeps ==
  ASSUME BridgeInv,
         HostAccept \/ HostRefuse \/ HostTimeout \/ \E m \in Messages : HostMessage(m)
  PROVE  FlowInv'
<1>0. BridgeTypeOK
  BY DEF BridgeInv, FlowInv
<1>1. CASE HostAccept \/ HostRefuse
  <2>1. /\ host = "asking" /\ down # <<>> /\ down' = Tail(down) /\ (GoOn \/ AnswerBrowser)
        /\ UNCHANGED <<vars, bridge, client, pend, wire, back, applied>>
    BY <1>1 DEF HostAccept, HostRefuse, Survive
  <2>2. down' \in Seq(Packet)
    BY <1>0, <2>1, FlowTypes, TailFacts
  <2>. QED
    BY <2>1, <2>2, GoOnKeeps
<1>2. CASE HostTimeout
  <2>1. /\ host = "asking" /\ down' = down /\ (GoOn \/ AnswerBrowser)
        /\ UNCHANGED <<vars, bridge, client, pend, wire, back, applied>>
    BY <1>2 DEF HostTimeout, Survive
  <2>. QED
    BY <1>0, <2>1, FlowTypes, GoOnKeeps
<1>3. ASSUME NEW m \in Messages, HostMessage(m) PROVE FlowInv'
  <2>1. m \in Seq([id : Servos, kind : {"write", "read"}]) /\ m # <<>>
    BY HostAssumption
  <2>2. /\ sent + Len(m) <= MaxAsks /\ down' = down /\ Send(m)
        /\ UNCHANGED <<vars, bridge, client, pend, wire, back, applied>>
    BY <1>3 DEF HostMessage
  <2>. QED
    BY <1>0, <2>1, <2>2, FlowTypes, SendKeeps
<1>. QED
  BY <1>1, <1>2, <1>3

\* Setting up and giving up a connection.
LEMMA ConnectKeeps ==
  ASSUME BridgeInv,
         \/ HostConnect \/ HostSwitches \/ HostAdmitted \/ HostEnable \/ HostSetupFails
         \/ HostDial \/ HostDialAbandoned \/ HostBroken
  PROVE  FlowInv'
<1>. DEFINE Step == [id : Servos, kind : {"write", "read"}]
<1>0. BridgeTypeOK /\ Carried
  BY DEF BridgeInv, FlowInv
<1>1. /\ plan \in Seq(Step) /\ <<>> \in Seq(Step) /\ down \in Seq(Packet) /\ <<>> \in Seq(Packet)
      /\ quiet \in BOOLEAN /\ bridge \in BOOLEAN /\ client \in Clients \cup {None}
      /\ {"host", "former"} \subseteq Clients
  BY <1>0, FlowTypes, EmptyFacts DEF Clients
<1>. HIDE DEF Step
<1>2. CASE HostConnect \/ HostSetupFails
  <2>1. /\ host' \in {"idle", "opening", "enabling", "dialling"}
        /\ UNCHANGED <<vars, plan, quiet, bridge, client, down, sent, up, pend, wire, back, applied>>
    BY <1>2 DEF HostConnect, HostSetupFails, flow
  <2>2. Carried'
    BY <1>0, <2>1 DEF Carried, vars
  <2>. QED
    BY <1>1, <2>1, <2>2, NotAskingKeeps DEF Step
<1>3. CASE HostSwitches \/ HostBroken
  <2>1. /\ host' = "idle" /\ plan' \in {plan, <<>>} /\ quiet' \in {quiet, FALSE} /\ bridge' = FALSE
        /\ down' = <<>> /\ client' \in {client, "former"} /\ (client' # client => client = "host")
        /\ UNCHANGED <<vars, sent, up, pend, wire, back, applied>>
    BY <1>3 DEF HostSwitches, HostBroken, AnswerBrowser
  <2>2. Carried'
    <3>1. client # None <=> client' # None
      BY <2>1, HostAssumption DEF Clients
    <3>. QED
      BY <1>0, <2>1, <3>1 DEF Carried, vars
  <2>. QED
    BY <1>1, <2>1, <2>2, NotAskingKeeps DEF Step
<1>4. CASE HostAdmitted \/ HostEnable
  <2>1. /\ host' \in {"idle", "opening", "enabling", "dialling"}
        /\ UNCHANGED <<raw, plan, quiet, bridge, client, down, sent, up, pend, wire, back, applied>>
    BY <1>4 DEF HostAdmitted, HostEnable, Enable, flow, vars
  <2>2. Carried'
    BY <1>0, <2>1 DEF Carried
  <2>. QED
    BY <1>1, <2>1, <2>2, NotAskingKeeps DEF Step
<1>5. CASE HostDial \/ HostDialAbandoned
  <2>1. /\ host' \in {"idle", "opening", "enabling", "dialling"} /\ bridge' \in {bridge, TRUE}
        /\ raw = "listening" /\ raw' \in {"serving", "releasing"}
        /\ client' \in {client, "host", "former"} /\ (client' # client => raw' = "serving")
        /\ UNCHANGED <<plan, quiet, down, sent, up, pend, wire, back, applied>>
    BY <1>5 DEF HostDial, HostDialAbandoned, RawAccept, RawListenSignal, Serve, Leave, hostVars, flow
  <2>2. Carried'
    BY <1>0, <2>1 DEF Carried, Connected
  <2>. QED
    BY <1>1, <2>1, <2>2, NotAskingKeeps DEF Step
<1>. QED
  BY <1>2, <1>3, <1>4, <1>5

-----------------------------------------------------------------------------
(* The raw session and the controllers                                     *)

LEMMA NotHost == None # "host" /\ None # "other" /\ None \notin Packet
BY HostAssumption DEF Clients

\* A step that moves no packet and consumes no Disable of the host's client.
LEMMA UnmovedKeeps ==
  ASSUME BridgeInv, UNCHANGED <<hostVars, client, flow, ctl>>, Carried',
         client = "host" /\ signal = "Disable" => signal' = "Disable"
  PROVE  FlowInv'
<1>0. BridgeTypeOK /\ PlanLeft /\ InOrder /\ OwnOnly
  BY DEF BridgeInv, FlowInv
<1>. USE DEF hostVars, flow
<1>1. BridgeTypeOK'
  BY <1>0 DEF BridgeTypeOK
<1>2. PlanLeft' /\ InOrder'
  BY <1>0 DEF PlanLeft, InOrder, RawPacketsInOrder
<1>3. OwnOnly'
  BY <1>0 DEF OwnOnly, AllOf
<1>. QED
  BY <1>1, <1>2, <1>3 DEF FlowInv

LEMMA StillKeeps ==
  ASSUME BridgeInv,
         \/ Still(RawWake) \/ Still(RawListen) \/ Still(RawListenSignal)
         \/ Still(RawAcceptFail) \/ Still(RawLockRx) \/ Still(RawEnabledAgain)
         \/ Still(RawLockTx) \/ Still(RawReleased) \/ OtherAccepted
  PROVE  FlowInv'
<1>0. BridgeTypeOK /\ Carried
  BY DEF BridgeInv, FlowInv
<1>1. CASE OtherAccepted
  <2>1. /\ raw = "listening" /\ raw' = "serving" /\ signal' = signal /\ ctl' = ctl /\ client' = "other"
        /\ UNCHANGED <<hostVars, flow>>
    BY <1>1 DEF OtherAccepted, RawAccept, Serve
  <2>2. client = None /\ pend = None
    BY <1>0, <2>1 DEF Carried, Connected
  <2>3. Carried'
    BY <2>1, <2>2 DEF Carried, Connected, flow
  <2>4. BridgeTypeOK'
    BY <1>0, <2>1 DEF BridgeTypeOK, Clients, hostVars, flow
  <2>5. PlanLeft' /\ InOrder' /\ OwnOnly'
    BY <2>1 DEF BridgeInv, FlowInv, PlanLeft, InOrder, RawPacketsInOrder, OwnOnly, AllOf,
                hostVars, flow
  <2>. QED
    BY <2>3, <2>4, <2>5 DEF FlowInv
<1>2. CASE \/ Still(RawWake) \/ Still(RawListen) \/ Still(RawListenSignal)
           \/ Still(RawAcceptFail) \/ Still(RawReleased)
  <2>1. /\ raw \notin Connected /\ raw' \notin Connected
        /\ UNCHANGED <<hostVars, client, flow, ctl>>
    BY <1>2 DEF Still, RawWake, RawListen, RawListenSignal, RawAcceptFail, RawReleased,
                LoopTop, Leave, Connected
  <2>2. client = None /\ pend = None
    BY <1>0, <2>1 DEF Carried, Connected
  <2>3. Carried'
    BY <2>1, <2>2 DEF Carried, Connected, flow
  <2>. QED
    BY <2>1, <2>2, <2>3, NotHost, UnmovedKeeps
<1>3. CASE Still(RawLockRx) \/ Still(RawEnabledAgain) \/ Still(RawLockTx)
  <2>1. /\ raw \in Connected /\ raw' \in Connected
        /\ raw \in {"lockingTx", "uartWriting"} <=> raw' \in {"lockingTx", "uartWriting"}
        /\ signal' = signal \/ signal = "Enable"
        /\ UNCHANGED <<hostVars, client, flow, ctl>>
    BY <1>3 DEF Still, RawLockRx, RawEnabledAgain, RawLockTx, Serve, Connected
  <2>2. Carried'
    BY <1>0, <2>1 DEF Carried, flow
  <2>. QED
    BY <2>1, <2>2, UnmovedKeeps
<1>. QED
  BY <1>1, <1>2, <1>3

\* The connection of the client is reset: nothing of it is left on its way.
LEMMA LeavesKeeps ==
  ASSUME BridgeInv,
         \/ Leaves(RawDisabled) \/ Leaves(RawClientGone)
         \/ Leaves(RawUartWriteFail) \/ Leaves(RawNetWriteFail)
  PROVE  FlowInv'
<1>0. BridgeTypeOK /\ PlanLeft /\ InOrder /\ OwnOnly
  BY DEF BridgeInv, FlowInv
<1>1. /\ raw' = "releasing" /\ client' = None /\ up' = <<>> /\ pend' = None /\ back' = None
      /\ down' \in {down, <<>>} /\ UNCHANGED <<hostVars, wire, applied>>
  BY DEF Leaves, RawDisabled, RawClientGone, RawUartWriteFail, RawNetWriteFail, Leave
<1>2. up' \in Seq(Packet) /\ down' \in Seq(Packet) /\ DOMAIN up' = {} /\ AllOf(<<>>, sent)
  <2>1. down \in Seq(Packet) /\ <<>> \in Seq(Packet) /\ DOMAIN <<>> = {}
    BY <1>0, FlowTypes, EmptyFacts
  <2>2. AllOf(<<>>, sent)
    BY <2>1, AllOfFacts
  <2>. QED
    BY <1>1, <2>1, <2>2
<1>3. BridgeTypeOK'
  BY <1>0, <1>1, <1>2 DEF BridgeTypeOK, hostVars
<1>4. PlanLeft' /\ InOrder'
  BY <1>0, <1>1, <1>2 DEF PlanLeft, InOrder, RawPacketsInOrder, hostVars
<1>5. OwnOnly'
  <2>1. SUFFICES ASSUME host = "asking", quiet PROVE AllOf(down', sent)
    BY <1>1, NotHost DEF OwnOnly, hostVars
  <2>. QED
    BY <1>0, <1>1, <1>2, <2>1 DEF OwnOnly
<1>6. Carried'
  BY <1>1 DEF Carried
<1>. QED
  BY <1>3, <1>4, <1>5, <1>6 DEF FlowInv

\* The oldest packet of the client, or one of another client, is taken from the
\* connection.
LEMMA FromClientKeeps ==
  ASSUME BridgeInv, FromClient
  PROVE  FlowInv'
<1>0. BridgeTypeOK /\ PlanLeft /\ InOrder /\ OwnOnly /\ Carried
  BY DEF BridgeInv, FlowInv
<1>1. /\ raw = "serving" /\ raw' \in {"uartWriting", "lockingTx"} /\ UNCHANGED <<signal, ctl>>
      /\ UNCHANGED <<hostVars, client, wire, back, down, applied>>
      /\ \/ client = "other" /\ pend' = Foreign /\ up' = up
         \/ up # <<>> /\ pend' = Head(up) /\ up' = Tail(up)
  BY DEF FromClient, RawNetData
<1>2. pend = None
  BY <1>0, <1>1 DEF Carried
<1>3. pend' \in Packet /\ up' \in Seq(Packet) /\ pend' # None
  <2>1. up \in Seq(Packet) /\ Foreign \in Packet
    BY <1>0, FlowTypes, PacketFacts
  <2>2. up # <<>> => Head(up) \in Packet /\ Tail(up) \in Seq(Packet)
    BY <2>1, TailFacts
  <2>3. pend' \in Packet /\ up' \in Seq(Packet)
    BY <1>1, <2>1, <2>2
  <2>. QED
    BY <2>3, PacketFacts
<1>4. BridgeTypeOK' /\ PlanLeft'
  BY <1>0, <1>1, <1>3 DEF BridgeTypeOK, PlanLeft, hostVars
<1>5. Carried'
  BY <1>0, <1>1, <1>3 DEF Carried, Connected
<1>6. CASE client = "other" /\ pend' = Foreign /\ up' = up
  <2>1. \A i \in DOMAIN up : up[i].n \in Nat /\ up[i].n > applied /\ up[i].n > 0
    <3>1. \A i \in DOMAIN up : up[i].n \in Nat /\ up[i].n > applied
      BY <1>0, FlowTypes, PacketFacts, AppendFacts DEF InOrder, RawPacketsInOrder
    <3>. QED
      BY <1>0, <3>1, FlowTypes
  <2>2. InOrder'
    BY <1>0, <1>1, <1>6, <2>1, PacketFacts, FlowTypes DEF InOrder, RawPacketsInOrder, hostVars
  <2>3. OwnOnly'
    BY <1>0, <1>1, <1>6 DEF OwnOnly, hostVars
  <2>. QED
    BY <1>4, <1>5, <2>2, <2>3 DEF FlowInv
<1>7. CASE up # <<>> /\ pend' = Head(up) /\ up' = Tail(up)
  <2>1. /\ pend' = up[1] /\ 1 \in DOMAIN up /\ DOMAIN up = 1 .. Len(up) /\ Len(up) \in Nat
        /\ DOMAIN up' = 1 .. Len(up) - 1
        /\ \A i \in DOMAIN up' : up'[i] = up[i + 1] /\ i + 1 \in DOMAIN up
    BY <1>0, <1>7, FlowTypes, TailFacts
  <2>2. InOrder'
    <3>1. RawPacketsInOrder'
      <4>1. pend'.n > applied'
        BY <1>0, <1>1, <2>1 DEF InOrder, RawPacketsInOrder
      <4>2. ASSUME NEW i \in DOMAIN up'
            PROVE  /\ up'[i].n > applied' /\ up'[i].n > pend'.n
                   /\ \A j \in DOMAIN up' : j < i => up'[i].n > up'[j].n
        <5>1. i \in Nat /\ 1 < i + 1 /\ i + 1 \in DOMAIN up /\ up'[i] = up[i + 1]
          BY <2>1
        <5>2. \A j \in DOMAIN up' : j < i => j + 1 < i + 1
          BY <2>1
        <5>3. \A j \in DOMAIN up : j < i + 1 => up[i + 1].n > up[j].n
          BY <1>0, <5>1 DEF InOrder, RawPacketsInOrder
        <5>4. up[i + 1].n > applied
          BY <1>0, <5>1 DEF InOrder, RawPacketsInOrder
        <5>. QED
          BY <1>1, <2>1, <5>1, <5>2, <5>3, <5>4
      <4>. QED
        BY <4>1, <4>2 DEF RawPacketsInOrder
    <3>. QED
      BY <1>0, <1>1, <2>1, <3>1 DEF InOrder, hostVars
  <2>3. OwnOnly'
    <3>1. AllOf(up, sent) => AllOf(up', sent) /\ pend'.n = sent
      BY <1>0, <1>7, FlowTypes, AllOfFacts
    <3>. QED
      BY <1>0, <1>1, <3>1 DEF OwnOnly, hostVars
  <2>. QED
    BY <1>4, <1>5, <2>2, <2>3 DEF FlowInv
<1>. QED
  BY <1>1, <1>6, <1>7

\* What the UART may hold after a command or a packet.
LEMMA WithStatusFacts ==
  ASSUME wire \in Seq(Packet), NEW p \in Packet, NEW w \in WithStatus(p)
  PROVE  w \in Seq(Packet) /\ \A n : AllOf(wire, n) /\ p.n = n => AllOf(w, n)
<1>1. w = wire \/ w = Append(wire, p)
  BY DEF WithStatus
<1>2. Append(wire, p) \in Seq(Packet)
  BY AppendFacts
<1>3. \A n : AllOf(wire, n) /\ p.n = n => AllOf(Append(wire, p), n)
  BY AllOfFacts
<1>. QED
  BY <1>1, <1>2, <1>3

\* The packet is on the bus: it is older than those that are still to come.
LEMMA ToServoKeeps ==
  ASSUME BridgeInv, ToServo
  PROVE  FlowInv'
<1>0. BridgeTypeOK /\ PlanLeft /\ InOrder /\ OwnOnly /\ Carried
  BY DEF BridgeInv, FlowInv
<1>1. /\ raw = "uartWriting" /\ raw' = "serving" /\ UNCHANGED <<signal, ctl>>
      /\ UNCHANGED <<hostVars, client, up, back, down>>
      /\ applied' = (IF pend.n = 0 THEN applied ELSE pend.n)
      /\ wire' \in WithStatus(pend) /\ pend' = None
  BY DEF ToServo, RawUartWritten, Serve
<1>2. pend \in Packet /\ pend # None /\ pend.n \in 0 .. MaxAsks
  BY <1>0, <1>1, FlowTypes, PacketFacts DEF Carried
<1>3. wire' \in Seq(Packet) /\ \A n : AllOf(wire, n) /\ pend.n = n => AllOf(wire', n)
  BY <1>0, <1>1, <1>2, FlowTypes, WithStatusFacts
<1>4. BridgeTypeOK' /\ PlanLeft'
  BY <1>0, <1>1, <1>2, <1>3 DEF BridgeTypeOK, PlanLeft, hostVars
<1>5. Carried'
  BY <1>0, <1>1 DEF Carried, Connected
<1>6. InOrder'
  BY <1>0, <1>1, <1>2 DEF InOrder, RawPacketsInOrder, hostVars
<1>7. OwnOnly'
  BY <1>0, <1>1, <1>2, <1>3 DEF OwnOnly, hostVars
<1>. QED
  BY <1>4, <1>5, <1>6, <1>7 DEF FlowInv

\* A status packet is read from the UART: not while a Disable is pending.
LEMMA FromServoKeeps ==
  ASSUME BridgeInv, FromServo
  PROVE  FlowInv'
<1>0. BridgeTypeOK /\ PlanLeft /\ InOrder /\ OwnOnly /\ Carried
  BY DEF BridgeInv, FlowInv
<1>1. /\ raw = "serving" /\ raw' \in {"netWriting", "pausing"} /\ signal = None
      /\ UNCHANGED <<signal, ctl>> /\ UNCHANGED <<hostVars, client, up, pend, down, applied>>
      /\ \/ wire # <<>> /\ back' = Head(wire) /\ wire' = Tail(wire)
         \/ back' = None /\ wire' = wire
         \/ back' = None /\ wire # <<>> /\ wire' = Tail(wire)
  BY DEF FromServo, RawUartEvent
<1>2. wire # <<>> => Head(wire) \in Packet /\ Tail(wire) \in Seq(Packet)
  BY <1>0, FlowTypes, TailFacts
<1>3. \A n : AllOf(wire, n) /\ wire # <<>> => AllOf(Tail(wire), n) /\ Head(wire).n = n
  BY <1>0, FlowTypes, AllOfFacts
<1>4. BridgeTypeOK' /\ PlanLeft'
  <2>1. wire' \in Seq(Packet) /\ back' \in Packet \cup {None}
    BY <1>0, <1>1, <1>2, FlowTypes
  <2>. QED
    BY <1>0, <1>1, <2>1 DEF BridgeTypeOK, PlanLeft, hostVars
<1>5. Carried'
  BY <1>0, <1>1 DEF Carried, Connected
<1>6. InOrder'
  BY <1>0, <1>1 DEF InOrder, RawPacketsInOrder, hostVars
<1>7. OwnOnly'
  <2>1. SUFFICES ASSUME host = "asking", quiet, client = "host"
                 PROVE  AllOf(wire', sent) /\ (back' # None => back'.n = sent)
    BY <1>0, <1>1 DEF OwnOnly, hostVars
  <2>2. AllOf(wire, sent)
    BY <1>0, <1>1, <2>1, PartiesAssumption DEF OwnOnly
  <2>. QED
    BY <1>1, <1>3, <2>2
<1>. QED
  BY <1>4, <1>5, <1>6, <1>7 DEF FlowInv

LEMMA ToClientKeeps ==
  ASSUME BridgeInv, ToClient
  PROVE  FlowInv'
<1>0. BridgeTypeOK /\ PlanLeft /\ InOrder /\ OwnOnly /\ Carried
  BY DEF BridgeInv, FlowInv
<1>1. /\ raw \in {"netWriting", "pausing"} /\ raw' = "serving" /\ UNCHANGED <<signal, ctl>>
      /\ back' = None /\ UNCHANGED <<hostVars, client, up, pend, wire, applied>>
      /\ down' = IF client = "host" /\ back # None THEN Append(down, back) ELSE down
  BY DEF ToClient, RawResume, Serve
<1>2. back # None => Append(down, back) \in Seq(Packet)
  BY <1>0, FlowTypes, AppendFacts
<1>3. BridgeTypeOK' /\ PlanLeft'
  <2>1. down' \in Seq(Packet)
    BY <1>0, <1>1, <1>2, FlowTypes
  <2>. QED
    BY <1>0, <1>1, <2>1 DEF BridgeTypeOK, PlanLeft, hostVars
<1>4. Carried'
  BY <1>0, <1>1 DEF Carried, Connected
<1>5. InOrder'
  BY <1>0, <1>1 DEF InOrder, RawPacketsInOrder, hostVars
<1>6. OwnOnly'
  <2>1. back # None /\ AllOf(down, sent) /\ back.n = sent => AllOf(Append(down, back), sent)
    BY <1>0, FlowTypes, AllOfFacts
  <2>. QED
    BY <1>0, <1>1, <2>1 DEF OwnOnly, hostVars
<1>. QED
  BY <1>3, <1>4, <1>5, <1>6 DEF FlowInv

\* A controller uses the bus only when the tunnel is disabled, which the raw
\* session of a quiet packet still has to see.
LEMMA ControlsKeeps ==
  ASSUME BridgeInv, NEW s \in Sessions, Controls(s, SessionNext(s))
  PROVE  FlowInv'
<1>0. BridgeTypeOK /\ PlanLeft /\ InOrder /\ OwnOnly /\ Carried /\ Inv
  BY DEF BridgeInv, FlowInv, TunnelInv
<1>1. /\ SessionNext(s) /\ quiet' = (quiet /\ ~ Overwritten)
      /\ UNCHANGED <<host, bridge, plan, sent, client, up, pend, back, down, applied>>
      /\ wire' \in {wire, <<>>} \cup WithStatus(Foreign)
      /\ ctl[s] = "idle" => wire' = wire
  BY DEF Controls
<1>2. raw' = raw
  BY <1>1 DEF SessionNext, Enable, Disable, Takeover, Command, LockRx, LockTx, CommandDone,
              Cancel, Relock, ResyncDone, TakeTx
<1>3. wire' \in Seq(Packet)
  BY <1>0, <1>1, FlowTypes, WithStatusFacts, PacketFacts, EmptyFacts
<1>4. BridgeTypeOK' /\ PlanLeft' /\ quiet' \in BOOLEAN
  <2>1. (quiet /\ ~ Overwritten) \in BOOLEAN
    OBVIOUS
  <2>. QED
    BY <1>0, <1>1, <1>3, <2>1 DEF BridgeTypeOK, PlanLeft
<1>5. Carried' /\ InOrder'
  BY <1>0, <1>1, <1>2 DEF Carried, InOrder, RawPacketsInOrder
<1>6. OwnOnly'
  <2>1. SUFFICES ASSUME host = "asking", quiet, ~ Overwritten, client = "host",
                        signal' # "Disable"
                 PROVE  AllOf(wire', sent) /\ \A t \in Sessions : ctl'[t] = "idle"
    BY <1>0, <1>1 DEF OwnOnly
  <2>2. signal \in {None, "Enable", "Disable"} /\ client # None /\ ctl \in [Sessions -> CtlPhase]
    BY <1>0, <2>1, NotHost DEF Inv, TypeOK
  <2>3. raw \in Connected
    BY <1>0, <2>2 DEF Carried
  <2>4. signal # "Disable"
    BY <1>1, <2>1 DEF SessionNext, Enable, Disable, Takeover, Command, LockRx, LockTx,
                      CommandDone, Cancel, Relock, ResyncDone, TakeTx, Overwritten
  <2>5. enabled
    BY <1>0, <2>3, <2>4 DEF Inv, TypeOK, NoMissedCommand
  <2>6. AllOf(wire, sent) /\ \A t \in Sessions : ctl[t] = "idle"
    BY <1>0, <2>1, <2>4 DEF OwnOnly
  <2>7. Takeover(s)
    BY <1>1, <2>1, <2>5, <2>6 DEF SessionNext, Enable, Disable, Command, LockRx, LockTx,
                                  CommandDone, Cancel, Relock, ResyncDone
  <2>. QED
    BY <1>1, <2>6, <2>7 DEF Takeover
<1>. QED
  BY <1>4, <1>5, <1>6 DEF FlowInv

-----------------------------------------------------------------------------
(* The theorems                                                            *)

LEMMA BridgeInitInv == BridgeInit => BridgeInv
<1>. SUFFICES ASSUME BridgeInit PROVE BridgeInv
  OBVIOUS
<1>1. Init /\ Inv
  BY InitInv DEF BridgeInit
<1>2. HostIdle
  BY <1>1, HostAssumption DEF Init, HostIdle
<1>3. BridgeTypeOK
  BY PacketFacts, EmptyFacts DEF BridgeInit, BridgeTypeOK
<1>4. PlanLeft /\ Carried /\ OwnOnly
  BY <1>1 DEF BridgeInit, Init, PlanLeft, Carried, OwnOnly
<1>5. InOrder
  BY EmptyFacts DEF BridgeInit, InOrder, RawPacketsInOrder
<1>. QED
  BY <1>1, <1>2, <1>3, <1>4, <1>5 DEF BridgeInv, TunnelInv, FlowInv

LEMMA BridgeStepInv == BridgeInv /\ [BridgeNext]_allVars => BridgeInv'
<1>1. ASSUME BridgeInv, BridgeNext PROVE BridgeInv'
  <2>1. TunnelInv'
    BY <1>1, TunnelKept DEF BridgeInv
  <2>2. FlowInv'
    BY <1>1, AskingKeeps, ConnectKeeps, StillKeeps, LeavesKeeps, FromClientKeeps, ToServoKeeps,
       FromServoKeeps, ToClientKeeps, ControlsKeeps DEF BridgeNext, HostStep, RawStep
  <2>. QED
    BY <2>1, <2>2 DEF BridgeInv
<1>2. ASSUME BridgeInv, UNCHANGED allVars PROVE BridgeInv'
  <2>1. UNCHANGED vars /\ UNCHANGED <<hostVars, client, flow, ctl, raw, signal>>
    BY <1>2 DEF allVars, vars
  <2>2. TunnelInv'
    BY <1>2, <2>1, StutterInv DEF BridgeInv, TunnelInv, HostIdle
  <2>3. Carried'
    BY <1>2, <2>1 DEF BridgeInv, FlowInv, Carried, flow
  <2>4. FlowInv'
    BY <1>2, <2>1, <2>3, UnmovedKeeps
  <2>. QED
    BY <2>2, <2>4 DEF BridgeInv
<1>. QED
  BY <1>1, <1>2

\* The invariant of the host in debug mode and of the tunnel that it uses.
THEOREM RawBridgeSafety == BridgeSpec => []BridgeInv
BY BridgeInitInv, BridgeStepInv, PTL DEF BridgeSpec

\* The host's use of the tunnel, with what travels through it, is a use that
\* RawTunnel allows: open_raw_tunnel is a session like any other there.
THEOREM BridgeImplementsTunnel == BridgeSpec => Spec
<1>1. BridgeInit => Init
  BY DEF BridgeInit
<1>2. BridgeInv /\ [BridgeNext]_allVars => [Next]_vars
  BY TunnelStep DEF BridgeInv, TunnelInv, allVars
<1>. QED
  BY <1>1, <1>2, RawBridgeSafety, PTL DEF BridgeSpec, Spec

\* raw_tunnel_service misses no command although the host enables the tunnel,
\* loses its session and comes back.
THEOREM RawBridgeNoMissedCommand == BridgeSpec => []NoMissedCommand
BY BridgeImplementsTunnel, TunnelNoMissedCommand, PTL

\* A packet that servo_request sends while nothing else is under way gets its own
\* status or none, for any number of controllers, messages and lost packets.
THEOREM RawBridgeReplyMatches == BridgeSpec => []RawReplyMatches
<1>1. BridgeInv => RawReplyMatches
  BY DEF BridgeInv, FlowInv, OwnOnly, AllOf, RawReplyMatches
<1>. QED
  BY <1>1, RawBridgeSafety, PTL

\* The servos get the host's packets in the order in which it sent them, none of
\* them twice, whatever becomes of connections and of the tunnel.
THEOREM RawBridgePacketsInOrder == BridgeSpec => []RawPacketsInOrder
<1>1. BridgeInv => RawPacketsInOrder
  BY DEF BridgeInv, FlowInv, InOrder
<1>. QED
  BY <1>1, RawBridgeSafety, PTL

-----------------------------------------------------------------------------
(* How long the host is busy with a message                                *)

\* The waits, each with its own deadline, that the host still goes through before
\* it answers its browser, at most.
WaitsIn(phase, n) ==
  CASE phase = "idle" -> 0
    [] phase = "opening" -> 3
    [] phase = "enabling" -> 2
    [] phase = "dialling" -> 1
    [] phase = "asking" -> n

WaitsLeft == WaitsIn(host, Len(plan))

\* Setting up takes three waits and a message one for each of its packets.  A late
\* or foreign status packet ends a wait and never prolongs it; what the tunnel and
\* the controllers do, and an attempt to dial that is given up, prolong none.
RawAnswerProgress ==
  host # "idle" =>
    /\ WaitsLeft > 0
    /\ IF HostStep \/ HostBroken THEN WaitsLeft' < WaitsLeft ELSE WaitsLeft' = WaitsLeft

LEMMA WaitsFacts ==
  ASSUME NEW n \in Nat
  PROVE  /\ WaitsIn("idle", n) = 0 /\ WaitsIn("opening", n) = 3 /\ WaitsIn("enabling", n) = 2
         /\ WaitsIn("dialling", n) = 1 /\ WaitsIn("asking", n) = n
BY DEF WaitsIn

\* The host is done with the message, or with one packet of it.
LEMMA GoOnProgress ==
  ASSUME BridgeInv, host = "asking", GoOn \/ AnswerBrowser
  PROVE  WaitsLeft' < WaitsLeft
<1>1. plan # <<>> /\ plan \in Seq([id : Servos, kind : {"write", "read"}])
  BY DEF BridgeInv, FlowInv, PlanLeft, BridgeTypeOK
<1>2. /\ Len(plan) \in Nat /\ Len(plan) > 0
      /\ Len(Tail(plan)) = Len(plan) - 1 /\ Len(Tail(plan)) \in Nat
      /\ Len(<<>>) = 0
  BY <1>1
<1>3. WaitsLeft = Len(plan)
  BY <1>2, WaitsFacts DEF WaitsLeft
<1>4. CASE AnswerBrowser
  <2>1. WaitsLeft' = 0
    BY <1>2, <1>4, WaitsFacts DEF AnswerBrowser, WaitsLeft
  <2>. QED
    BY <1>2, <1>3, <2>1
<1>5. CASE Send(Tail(plan))
  <2>1. WaitsLeft' = Len(Tail(plan))
    BY <1>2, <1>5, WaitsFacts DEF Send, WaitsLeft
  <2>. QED
    BY <1>2, <1>3, <2>1
<1>. QED
  BY <1>4, <1>5 DEF GoOn

LEMMA HostWaitsProgress ==
  ASSUME BridgeInv, HostStep \/ HostBroken
  PROVE  WaitsLeft' < WaitsLeft
<1>0. Len(plan) \in Nat
  BY DEF BridgeInv, FlowInv, BridgeTypeOK
<1>1. CASE HostAdmitted \/ HostEnable \/ HostSetupFails \/ HostDial
  <2>1. /\ plan' = plan
        /\ <<host, host'>> \in {<<"opening", "enabling">>, <<"enabling", "dialling">>,
              <<"opening", "idle">>, <<"enabling", "idle">>, <<"dialling", "idle">>}
    BY <1>1 DEF HostAdmitted, HostEnable, HostSetupFails, HostDial
  <2>. QED
    BY <1>0, <2>1, WaitsFacts DEF WaitsLeft
<1>2. CASE HostAccept \/ HostRefuse \/ HostTimeout \/ HostBroken
  BY <1>2, GoOnProgress DEF HostAccept, HostRefuse, HostTimeout, HostBroken, Survive
<1>. QED
  BY <1>1, <1>2 DEF HostStep

\* In debug mode, too, the host answers each message within a number of waits that
\* is known when it begins, each of which controller_request, connect_raw_tunnel and
\* read_status limit, although statuses carry no numbers.
THEOREM RawBridgeAnswersInWaits == BridgeSpec => [][RawAnswerProgress]_allVars
<1>1. BridgeInv /\ [BridgeNext]_allVars => [RawAnswerProgress]_allVars
  <2>. SUFFICES ASSUME BridgeInv, BridgeNext, host # "idle"
                PROVE  /\ WaitsLeft > 0
                       /\ HostStep \/ HostBroken => WaitsLeft' < WaitsLeft
                       /\ ~ (HostStep \/ HostBroken) => WaitsLeft' = WaitsLeft
    BY DEF RawAnswerProgress
  <2>1. WaitsLeft > 0
    <3>1. /\ host \in {"opening", "enabling", "dialling", "asking"}
          /\ plan \in Seq([id : Servos, kind : {"write", "read"}])
          /\ host = "asking" => plan # <<>>
      BY DEF BridgeInv, FlowInv, PlanLeft, BridgeTypeOK
    <3>2. Len(plan) \in Nat /\ (host = "asking" => Len(plan) > 0)
      BY <3>1
    <3>. QED
      BY <3>1, <3>2, WaitsFacts DEF WaitsLeft
  <2>2. ASSUME ~ (HostStep \/ HostBroken)
        PROVE  WaitsLeft' = WaitsLeft
    <3>1. \/ HostDialAbandoned \/ RawStep
          \/ \E s \in Sessions \ {Host} : Controls(s, SessionNext(s))
      BY <2>2 DEF BridgeNext, HostConnect, HostSwitches, HostMessage
    <3>2. host' = host /\ plan' = plan
      BY <3>1 DEF HostDialAbandoned, RawStep, Still, Leaves, OtherAccepted, FromClient, ToServo,
                  FromServo, ToClient, Controls, hostVars
    <3>. QED
      BY <3>2 DEF WaitsLeft
  <2>. QED
    BY <2>1, <2>2, HostWaitsProgress
<1>. QED
  BY <1>1, RawBridgeSafety, PTL DEF BridgeSpec

=============================================================================
