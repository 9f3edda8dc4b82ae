------------------------------ MODULE RawBridge ------------------------------
(***************************************************************************)
(* The host in debug mode (`TransportMode::DebugRawTunnel`) composed with  *)
(* the raw tunnel of the MCU (RawTunnel): the host enables the tunnel over *)
(* a controller session, dials its port, and sends STS packets through it  *)
(* (src/host/src/main.rs).                                                 *)
(*                                                                         *)
(* Every action of RawTunnel happens here with its effect on what travels: *)
(* packets to the servos and status packets back.  Whole packets travel;   *)
(* how one is found among bytes is the subject of StsCodec.  A status      *)
(* packet may be late, lost or left in the UART for whoever reads next.    *)
(*                                                                         *)
(* The mutex of AppState.bridge lets one browser message run at a time, so *)
(* that the host is one process here (see HostBridge).  An enable request  *)
(* that the MCU handles after the host gave it up is not told apart from   *)
(* one of another controller.  The host's controller session ends when the *)
(* raw connection replaces it; from then on others own the board.          *)
(***************************************************************************)
EXTENDS RawTunnel, Sequences, FiniteSets

CONSTANTS
  Host,      \* the host's controller session
  Servos,    \* servo ids
  Messages,  \* the servo messages of a browser: sequences of [id, kind]
  MaxAsks,   \* bound: packets that the host sends in a behaviour
  MaxWire,   \* bound: status packets in the servos, the UART and its FIFO
  MaxDown    \* bound: status packets forwarded to the host and not read

\* A status packet is known by its packet.  Of the packets of others it does not
\* matter what is in them.
Foreign == [n |-> 0]
Packet == [n : 1 .. MaxAsks, id : Servos, kind : {"write", "read"}] \cup {Foreign}

Clients == {"host", "former", "other"}

ASSUME HostAssumption ==
  /\ Host \in Sessions
  /\ MaxAsks \in Nat /\ MaxWire \in Nat /\ MaxDown \in Nat
  /\ None \notin Packet \cup Clients
  /\ \A m \in Messages :
        m # <<>> /\ m \in Seq([id : Servos, kind : {"write", "read"}])

VARIABLES
  host,     \* what the host waits for
  bridge,   \* AppState.bridge holds a raw connection
  client,   \* whose connection raw_tunnel_service serves
  plan,     \* packets of the browser's message, from the current one on
  sent,     \* packets that the host has sent so far
  quiet,    \* history: nothing was under way when the current one was sent,
            \* and no Disable was overwritten since
  up,       \* packets of the host on their way to the raw session
  pend,     \* the packet that the raw session is writing to the UART
  wire,     \* status packets still in the servos or in the UART
  back,     \* the status packet that the raw session is writing to its client
  down,     \* status packets on their way to the host
  applied   \* history: number of the last packet put on the bus for the host

hostVars == <<host, bridge, plan, sent, quiet>>
flow == <<up, pend, wire, back, down, applied>>
allVars == <<vars, hostVars, client, flow>>

BridgeTypeOK ==
  /\ host \in {"idle", "opening", "enabling", "dialling", "asking"}
  /\ bridge \in BOOLEAN
  /\ client \in Clients \cup {None}
  /\ plan \in Seq([id : Servos, kind : {"write", "read"}])
  /\ sent \in 0 .. MaxAsks
  /\ quiet \in BOOLEAN
  /\ up \in Seq(Packet) /\ wire \in Seq(Packet) /\ down \in Seq(Packet)
  /\ pend \in Packet \cup {None}
  /\ back \in Packet \cup {None}
  /\ applied \in 0 .. MaxAsks

BridgeInit ==
  /\ Init
  /\ host = "idle" /\ bridge = FALSE /\ client = None
  /\ plan = <<>> /\ sent = 0 /\ quiet = FALSE
  /\ up = <<>> /\ pend = None /\ wire = <<>> /\ back = None /\ down = <<>>
  /\ applied = 0

-----------------------------------------------------------------------------
(* The host: connect                                                       *)

\* A browser asks for a connection and there is none.  A raw connection that
\* is there is reported as connected without asking the MCU.
HostConnect ==
  /\ host = "idle"
  /\ ~ bridge
  /\ sent < MaxAsks
  /\ host' = "opening"
  /\ UNCHANGED <<vars, bridge, plan, sent, quiet, client, flow>>

\* A browser asks for another MCU: the raw connection is closed.
HostSwitches ==
  /\ host = "idle"
  /\ bridge
  /\ bridge' = FALSE
  /\ down' = <<>>
  /\ client' = IF client = "host" THEN "former" ELSE client
  /\ UNCHANGED <<vars, host, plan, sent, quiet, up, pend, wire, back, applied>>

\* The WebSocket is open and its session claims the board.
HostAdmitted ==
  /\ host = "opening"
  /\ host' = "enabling"
  /\ owner' = Host
  /\ UNCHANGED <<enabled, signal, raw, rx, tx, ctl, mustClose, bridge, plan,
                 sent, quiet, client, flow>>

\* open_raw_tunnel: the owner's session enables the tunnel, or finds it enabled
\* by somebody else, and answers with the port.
HostEnable ==
  /\ host = "enabling"
  /\ owner = Host
  /\ IF enabled THEN UNCHANGED vars ELSE Enable(Host)
  /\ host' = "dialling"
  /\ UNCHANGED <<bridge, plan, sent, quiet, client, flow>>

\* Setting up fails: no WebSocket within three seconds, no response, or no raw
\* connection within 750 ms.  The tunnel stays enabled.
HostSetupFails ==
  /\ host \in {"opening", "enabling", "dialling"}
  /\ host' = "idle"
  /\ UNCHANGED <<vars, bridge, plan, sent, quiet, client, flow>>

\* connect_raw_tunnel reaches the listening socket.  A command that is pending
\* there resets the connection at once, and the host learns of it later.
HostDial ==
  /\ host = "dialling"
  /\ \/ RawAccept /\ client' = "host"
     \/ RawListenSignal /\ UNCHANGED client
  /\ host' = "idle"
  /\ bridge' = TRUE
  /\ UNCHANGED <<plan, sent, quiet, flow>>

\* The attempt of 100 ms is over just when the MCU accepts it.
HostDialAbandoned ==
  /\ host = "dialling"
  /\ RawAccept
  /\ client' = "former"
  /\ UNCHANGED <<hostVars, flow>>

-----------------------------------------------------------------------------
(* The host: servo messages                                                *)

\* The packet whose status the host waits for.
Asked == [n |-> sent, id |-> Head(plan).id, kind |-> Head(plan).kind]

\* The first packet of m goes out.  It is quiet if nothing of another packet is
\* under way and no controller still finishes a command.
Send(m) ==
  /\ host' = "asking"
  /\ plan' = m
  /\ sent' = sent + 1
  /\ quiet' = (up = <<>> /\ pend = None /\ wire = <<>> /\ back = None
               /\ down' = <<>> /\ \A s \in Sessions : ctl[s] = "idle")
  /\ up' = IF client = "host" THEN Append(up, Asked') ELSE up

\* The message is done, for better or worse.
AnswerBrowser ==
  /\ host' = "idle"
  /\ plan' = <<>>
  /\ quiet' = FALSE
  /\ UNCHANGED <<sent, up>>

\* A servo message: start, stop and move write registers, one packet after the
\* other (raw_start_motor, raw_stop_motor, raw_move_position); positions are
\* read (raw_read_position).
HostMessage(m) ==
  /\ host = "idle"
  /\ bridge
  /\ sent + Len(m) <= MaxAsks
  /\ UNCHANGED down
  /\ Send(m)
  /\ UNCHANGED <<vars, bridge, client, pend, wire, back, applied>>

\* read_status looks at the id and the length, not at what was asked.
Fits(status) ==
  status # Foreign => status.id = Asked.id /\ status.kind = Asked.kind

\* The message goes on.
GoOn == IF Len(plan) > 1 THEN Send(Tail(plan)) ELSE AnswerBrowser

\* A status packet is accepted.
HostAccept ==
  /\ host = "asking"
  /\ down # <<>>
  /\ Fits(Head(down))
  /\ down' = Tail(down)
  /\ GoOn
  /\ UNCHANGED <<vars, bridge, client, pend, wire, back, applied>>

\* The connection survives the error.  A message that reads several positions
\* goes on with the next servo, any other one ends.
Survive == IF Asked.kind = "read" THEN GoOn ELSE AnswerBrowser

\* A status packet of another servo, of another length, with a wrong checksum
\* or with an error of the servo.
HostRefuse ==
  /\ host = "asking"
  /\ down # <<>>
  /\ down' = Tail(down)
  /\ Survive
  /\ UNCHANGED <<vars, bridge, client, pend, wire, back, applied>>

\* Without a deadline the wait for a status does not end.
HostTimeoutNever == host = "none" /\ UNCHANGED allVars

\* After 750 ms the host sends the same packet again.
HostTimeoutResends ==
  /\ host = "asking"
  /\ down = <<>>
  /\ up' = IF client = "host" THEN Append(up, Asked) ELSE up
  /\ UNCHANGED <<vars, hostVars, client, pend, wire, back, down, applied>>

\* No status packet within 750 ms; it may still come.
HostTimeout ==
  /\ host = "asking"
  /\ down = <<>>
  /\ UNCHANGED down
  /\ Survive
  /\ UNCHANGED <<vars, bridge, client, pend, wire, back, applied>>

\* The packet cannot be sent or the connection is reset: it is given up, with
\* what it carried to the host.  What it carried to the MCU may still arrive.
HostBroken ==
  /\ host = "asking"
  /\ bridge' = FALSE
  /\ down' = <<>>
  /\ client' = IF client = "host" THEN "former" ELSE client
  /\ AnswerBrowser
  /\ UNCHANGED <<vars, pend, wire, back, applied>>

\* What the host does sooner or later: each of its waits has a deadline.
HostStep ==
  \/ HostAdmitted \/ HostEnable \/ HostSetupFails \/ HostDial
  \/ HostAccept \/ HostRefuse \/ HostTimeout

-----------------------------------------------------------------------------
(* The raw session and what it carries                                     *)

\* A step of raw_tunnel_service that moves no packet.
Still(step) == step /\ UNCHANGED <<hostVars, client, flow>>

\* Another raw client is served; the host's attempts are refused meanwhile.
OtherAccepted ==
  /\ RawAccept
  /\ client' = "other"
  /\ UNCHANGED <<hostVars, flow>>

\* A step that resets the connection of the client, with what is in its buffers.
Leaves(step) ==
  /\ step
  /\ client' = None
  /\ up' = <<>> /\ pend' = None /\ back' = None
  /\ down' \in {down, <<>>}
  /\ UNCHANGED <<hostVars, wire, applied>>

\* A packet of the client is read from its connection.
FromClient ==
  /\ RawNetData
  /\ \/ client = "other" /\ pend' = Foreign /\ UNCHANGED up
     \/ up # <<>> /\ pend' = Head(up) /\ up' = Tail(up)
  /\ UNCHANGED <<hostVars, client, wire, back, down, applied>>

\* What may be left in the UART when p was sent: its status comes or not.
WithStatus(p) ==
  {wire} \cup (IF Len(wire) < MaxWire THEN {Append(wire, p)} ELSE {})

\* The packet is on the bus.
ToServo ==
  /\ RawUartWritten
  /\ applied' = IF pend.n = 0 THEN applied ELSE pend.n
  /\ wire' \in WithStatus(pend)
  /\ pend' = None
  /\ UNCHANGED <<hostVars, client, up, back, down>>

\* Bytes from the UART, or an error that costs some.
FromServo ==
  /\ RawUartEvent
  /\ \/ /\ raw' = "netWriting"
        /\ wire # <<>> /\ Len(down) < MaxDown
        /\ back' = Head(wire)
        /\ wire' = Tail(wire)
     \/ /\ raw' = "pausing"
        /\ back' = None
        /\ wire' \in {wire} \cup {Tail(w) : w \in {wire} \ {<<>>}}
  /\ UNCHANGED <<hostVars, client, up, pend, down, applied>>

ToClient ==
  /\ RawResume
  /\ back' = None
  /\ down' = IF client = "host" /\ back # None THEN Append(down, back) ELSE down
  /\ UNCHANGED <<hostVars, client, up, pend, wire, applied>>

RawStep ==
  \/ Still(RawWake) \/ Still(RawListen) \/ Still(RawListenSignal)
  \/ Still(RawAcceptFail) \/ Still(RawLockRx) \/ Still(RawEnabledAgain)
  \/ Still(RawLockTx) \/ Still(RawReleased)
  \/ Leaves(RawDisabled) \/ Leaves(RawClientGone)
  \/ Leaves(RawUartWriteFail) \/ Leaves(RawNetWriteFail)
  \/ OtherAccepted \/ FromClient \/ ToServo \/ FromServo \/ ToClient

\* An Enable replaces a Disable that the raw session has not seen.
Overwritten == signal = "Disable" /\ signal' = "Enable"

\* A step of a controller session.  A command or its resynchronisation empties
\* the UART, or leaves what was there or a status of its own (see StsBus).
Controls(s, step) ==
  /\ step
  /\ wire' \in IF ctl[s] \in {"awaiting", "resyncing"} /\ ctl'[s] = "idle"
                 THEN {<<>>} \cup WithStatus(Foreign) ELSE {wire}
  /\ quiet' = (quiet /\ ~ Overwritten)
  /\ UNCHANGED <<host, bridge, plan, sent, client, up, pend, back, down, applied>>

-----------------------------------------------------------------------------

BridgeNext ==
  \/ HostConnect \/ HostSwitches \/ HostStep \/ HostDialAbandoned \/ HostBroken
  \/ \E m \in Messages : HostMessage(m)
  \/ RawStep
  \/ \E s \in Sessions \ {Host} : Controls(s, SessionNext(s))

\* The fairness of RawTunnel, and that of the host.
BridgeFairness ==
  /\ WF_allVars(HostStep)
  /\ WF_allVars(\/ Still(RawWake) \/ Still(RawListen) \/ Still(RawListenSignal)
                \/ Still(RawEnabledAgain) \/ Still(RawReleased)
                \/ Leaves(RawDisabled) \/ Leaves(RawUartWriteFail)
                \/ Leaves(RawNetWriteFail) \/ ToServo \/ ToClient)
  /\ SF_allVars(Still(RawLockRx)) /\ SF_allVars(Still(RawLockTx))
  /\ \A s \in Sessions \ {Host} :
        /\ WF_allVars(Controls(s, CommandDone(s) \/ Cancel(s) \/ ResyncDone(s)))
        /\ SF_allVars(Controls(s, LockRx(s) \/ LockTx(s) \/ Relock(s)))

BridgeSpec == BridgeInit /\ [][BridgeNext]_allVars /\ BridgeFairness

-----------------------------------------------------------------------------

\* Raw mode has no request ids.  Even so a packet sent while nothing else is
\* under way gets its own status or none, though controllers take the board and
\* use the bus, the tunnel is disabled and raw clients come and go.  Not covered
\* is a client that survives a Disable (see DisableDisconnects).
RawReplyMatches ==
  host = "asking" /\ quiet
     => \A i \in DOMAIN down : down[i].n = sent

\* Across time-outs, lost connections, abandoned attempts and new connections,
\* the servos get the host's packets in the order in which it sent them and
\* none of them twice.
RawPacketsInOrder ==
  /\ pend # None => pend = Foreign \/ pend.n > applied
  /\ \A i \in DOMAIN up :
        /\ up[i].n > applied
        /\ pend # None => up[i].n > pend.n
        /\ \A j \in DOMAIN up : j < i => up[i].n > up[j].n

\* Whatever the tunnel does, the host answers its browser.
RawMessagesAnswered == host # "idle" ~> host = "idle"

=============================================================================
