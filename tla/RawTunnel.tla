------------------------------ MODULE RawTunnel ------------------------------
(***************************************************************************)
(* The raw UART debug tunnel of the MCU firmware and what it shares with   *)
(* the controller sessions (src/src/bin/main.rs): RawTunnelControl (the    *)
(* flag `enabled` and the Signal `command`), the locks of uart_rx and      *)
(* uart_tx, the task `raw_tunnel_service` and the session of its client.   *)
(*                                                                         *)
(* A controller session is reduced here to its use of the locks and of the *)
(* tunnel: it owns the board or has lost it to another session, it handles *)
(* one request at a time, a bus command is one transaction.  How sessions  *)
(* come and go is the subject of ControllerService.                        *)
(*                                                                         *)
(* As there, an action is one poll of a task.  A Signal holds the last     *)
(* command only: a second one overwrites the first.                        *)
(***************************************************************************)
EXTENDS Naturals

CONSTANTS
  Sessions,   \* controller sessions
  Raw,        \* the raw_tunnel_service task
  None        \* no holder, no command

ASSUME PartiesAssumption ==
  /\ Raw \notin Sessions /\ None \notin Sessions /\ Raw # None
  /\ None \notin {"Enable", "Disable"}

VARIABLES
  enabled,     \* RawTunnelControl.enabled
  signal,      \* RawTunnelControl.command
  raw,         \* where raw_tunnel_service is suspended
  rx, tx,      \* holders of the locks of uart_rx and uart_tx
  owner,       \* the session of the current generation
  ctl,         \* where each session is suspended
  mustClose    \* history: disabled since the connected raw client came

vars == <<enabled, signal, raw, rx, tx, owner, ctl, mustClose>>

\* The suspension points of raw_client_session.
Connected ==
  {"serving",      \* select3(command, socket read, uart read)
   "lockingTx",    \* has bytes for the UART, waits for uart_tx
   "uartWriting",  \* uart_tx.write_all
   "netWriting",   \* socket.write_all
   "pausing"}      \* 10 ms after a UART error

RawPhase ==
  {"waiting",      \* disabled: command.wait()
   "configuring",  \* wait_config_up
   "listening",    \* select(command, accept)
   "releasing"}    \* release_tcp_socket, and a pause after a failed accept
  \cup Connected

\* "idle" stands for everything that does not involve the UART.
CtlPhase == {"idle", "locking", "lockingTx", "awaiting", "relocking",
             "resyncing"}

TypeOK ==
  /\ enabled \in BOOLEAN
  /\ signal \in {None, "Enable", "Disable"}
  /\ raw \in RawPhase
  /\ rx \in Sessions \cup {Raw, None}
  /\ tx \in Sessions \cup {Raw, None}
  /\ owner \in Sessions
  /\ ctl \in [Sessions -> CtlPhase]
  /\ mustClose \in BOOLEAN

Init ==
  /\ enabled = FALSE
  /\ signal = None
  /\ raw = "waiting"
  /\ rx = None
  /\ tx = None
  /\ owner \in Sessions
  /\ ctl = [s \in Sessions |-> "idle"]
  /\ mustClose = FALSE

-----------------------------------------------------------------------------
(* Controller sessions: switching the tunnel                               *)

\* The owner handles debug.enableRawTunnel; a repeated one changes nothing.
Enable(s) ==
  /\ s = owner
  /\ ctl[s] = "idle"
  /\ ~ enabled
  /\ enabled' = TRUE
  /\ signal' = "Enable"
  /\ UNCHANGED <<raw, rx, tx, owner, ctl, mustClose>>

\* debug.disableRawTunnel
Disable(s) ==
  /\ s = owner
  /\ ctl[s] = "idle"
  /\ enabled
  /\ enabled' = FALSE
  /\ signal' = "Disable"
  /\ mustClose' = (raw \in Connected)
  /\ UNCHANGED <<raw, rx, tx, owner, ctl>>

\* Another client completes its handshake and claims the board.
Takeover(s) ==
  /\ s # owner
  /\ ctl[s] = "idle"
  /\ owner' = s
  /\ UNCHANGED <<enabled, signal, raw, rx, tx, ctl, mustClose>>

-----------------------------------------------------------------------------
(* Controller sessions: a bus command                                      *)

Superseded(s) == s # owner

Move(s, phase) == ctl' = [ctl EXCEPT ![s] = phase]

\* With uart_rx locked, lock uart_tx and send the packet, or wait for it.  A
\* newer owner is noticed when the handler suspends: the handler is dropped
\* with its locks, and uart_rx is locked again in the same poll.
TakeTx(s) ==
  /\ rx' = s
  /\ IF Superseded(s)
       THEN Move(s, "resyncing") /\ UNCHANGED tx
       ELSE IF tx = None THEN Move(s, "awaiting") /\ tx' = s
                         ELSE Move(s, "lockingTx") /\ UNCHANGED tx
  /\ UNCHANGED <<enabled, signal, raw, owner, mustClose>>

\* The method does not look whether the tunnel is enabled.
CommandUnchecked(s) ==
  /\ s = owner
  /\ ctl[s] = "idle"
  /\ IF rx = None
       THEN TakeTx(s)
       ELSE Move(s, "locking")
            /\ UNCHANGED <<enabled, signal, raw, rx, tx, owner, mustClose>>

\* A motor or servo method: refused while the tunnel is enabled.
Command(s) ==
  /\ s = owner
  /\ ctl[s] = "idle"
  /\ ~ enabled
  /\ IF rx = None
       THEN TakeTx(s)
       ELSE Move(s, "locking")
            /\ UNCHANGED <<enabled, signal, raw, rx, tx, owner, mustClose>>

LockRx(s) ==
  /\ ctl[s] = "locking"
  /\ rx = None
  /\ TakeTx(s)

LockTx(s) ==
  /\ ctl[s] = "lockingTx"
  /\ tx = None
  /\ TakeTx(s)

\* The command returns, with a result or an error, and drops both locks.
CommandDone(s) ==
  /\ ctl[s] = "awaiting"
  /\ Move(s, "idle")
  /\ rx' = None
  /\ tx' = None
  /\ UNCHANGED <<enabled, signal, raw, owner, mustClose>>

\* A newer owner cancels the command.
Cancel(s) ==
  /\ ctl[s] \in {"locking", "lockingTx", "awaiting"}
  /\ Superseded(s)
  /\ ctl[s] = "locking" => rx # None
  /\ ctl[s] = "lockingTx" => tx # None
  /\ Move(s, IF ctl[s] = "locking" THEN "relocking" ELSE "resyncing")
  /\ tx' = IF tx = s THEN None ELSE tx
  /\ UNCHANGED <<enabled, signal, raw, rx, owner, mustClose>>

Relock(s) ==
  /\ ctl[s] = "relocking"
  /\ rx = None
  /\ rx' = s
  /\ Move(s, "resyncing")
  /\ UNCHANGED <<enabled, signal, raw, tx, owner, mustClose>>

ResyncDone(s) ==
  /\ ctl[s] = "resyncing"
  /\ rx' = None
  /\ Move(s, "idle")
  /\ UNCHANGED <<enabled, signal, raw, tx, owner, mustClose>>

-----------------------------------------------------------------------------
(* raw_tunnel_service                                                      *)

\* The top of the loop: a disabled tunnel eats what the signal holds and
\* waits, an enabled one goes on and leaves the signal alone.
LoopTop(pending) ==
  IF enabled THEN raw' = "configuring" /\ signal' = pending
             ELSE raw' = "waiting" /\ signal' = None

\* A command arrives while the tunnel is disabled.
RawWake ==
  /\ raw = "waiting"
  /\ signal # None
  /\ LoopTop(None)
  /\ UNCHANGED <<enabled, rx, tx, owner, ctl, mustClose>>

\* The signal is reset before the accept.
RawListenResets ==
  /\ raw = "configuring"
  /\ raw' = "listening"
  /\ signal' = None
  /\ UNCHANGED <<enabled, rx, tx, owner, ctl, mustClose>>

\* The network is configured.
RawListen ==
  /\ raw = "configuring"
  /\ raw' = "listening"
  /\ UNCHANGED <<enabled, signal, rx, tx, owner, ctl, mustClose>>

\* The connection is reset and its session, if any, drops uart_rx.
Leave ==
  /\ raw' = "releasing"
  /\ rx' = IF rx = Raw THEN None ELSE rx
  /\ mustClose' = FALSE

\* A command, either one, ends the accept.
RawListenSignal ==
  /\ raw = "listening"
  /\ signal # None
  /\ signal' = None
  /\ Leave
  /\ UNCHANGED <<enabled, tx, owner, ctl>>

RawAcceptFail ==
  /\ raw = "listening"
  /\ signal = None
  /\ Leave
  /\ UNCHANGED <<enabled, signal, tx, owner, ctl>>

\* The next round of raw_client_session: uart_read takes uart_rx if it can.
Serve ==
  /\ raw' = "serving"
  /\ rx' = IF rx = None THEN Raw ELSE rx

RawAccept ==
  /\ raw = "listening"
  /\ signal = None
  /\ Serve
  /\ UNCHANGED <<enabled, signal, tx, owner, ctl, mustClose>>

\* uart_read was waiting for uart_rx.
RawLockRx ==
  /\ raw = "serving"
  /\ rx = None
  /\ Serve
  /\ UNCHANGED <<enabled, signal, tx, owner, ctl, mustClose>>

\* A Disable is taken for a wake-up without meaning.
RawDisabledIgnored ==
  /\ raw = "serving"
  /\ signal = "Disable"
  /\ signal' = None
  /\ Serve
  /\ UNCHANGED <<enabled, tx, owner, ctl, mustClose>>

\* A Disable ends the session of the client.
RawDisabled ==
  /\ raw = "serving"
  /\ signal = "Disable"
  /\ signal' = None
  /\ Leave
  /\ UNCHANGED <<enabled, tx, owner, ctl>>

\* An Enable is ignored: the client stays.
RawEnabledAgain ==
  /\ raw = "serving"
  /\ signal = "Enable"
  /\ signal' = None
  /\ Serve
  /\ UNCHANGED <<enabled, tx, owner, ctl, mustClose>>

\* The client closes its connection or it fails.
RawClientGone ==
  /\ raw = "serving"
  /\ signal = None
  /\ Leave
  /\ UNCHANGED <<enabled, signal, tx, owner, ctl>>

\* Bytes of the client: the UART read is dropped, and its lock with it.
RawNetData ==
  /\ raw = "serving"
  /\ signal = None
  /\ rx' = IF rx = Raw THEN None ELSE rx
  /\ IF tx = None THEN raw' = "uartWriting" /\ tx' = Raw
                  ELSE raw' = "lockingTx" /\ UNCHANGED tx
  /\ UNCHANGED <<enabled, signal, owner, ctl, mustClose>>

RawLockTx ==
  /\ raw = "lockingTx"
  /\ tx = None
  /\ tx' = Raw
  /\ raw' = "uartWriting"
  /\ UNCHANGED <<enabled, signal, rx, owner, ctl, mustClose>>

RawUartWritten ==
  /\ raw = "uartWriting"
  /\ tx' = None
  /\ Serve
  /\ UNCHANGED <<enabled, signal, owner, ctl, mustClose>>

RawUartWriteFail ==
  /\ raw = "uartWriting"
  /\ tx' = None
  /\ Leave
  /\ UNCHANGED <<enabled, signal, owner, ctl>>

\* Bytes from the UART, or a UART error: either way uart_rx is dropped.  A read
\* of no bytes begins the round again and is a stutter.
RawUartEvent ==
  /\ raw = "serving"
  /\ signal = None
  /\ rx = Raw
  /\ rx' = None
  /\ raw' \in {"netWriting", "pausing"}
  /\ UNCHANGED <<enabled, signal, tx, owner, ctl, mustClose>>

\* The bytes are sent to the client, or the pause is over.
RawResume ==
  /\ raw \in {"netWriting", "pausing"}
  /\ Serve
  /\ UNCHANGED <<enabled, signal, tx, owner, ctl, mustClose>>

RawNetWriteFail ==
  /\ raw = "netWriting"
  /\ Leave
  /\ UNCHANGED <<enabled, signal, tx, owner, ctl>>

\* After a client the tunnel waits for the next command.
RawReleasedWaits ==
  /\ raw = "releasing"
  /\ raw' = "waiting"
  /\ UNCHANGED <<enabled, signal, rx, tx, owner, ctl, mustClose>>

\* Flushed, or one second is over.
RawReleased ==
  /\ raw = "releasing"
  /\ LoopTop(signal)
  /\ UNCHANGED <<enabled, rx, tx, owner, ctl, mustClose>>

-----------------------------------------------------------------------------

SessionNext(s) ==
  \/ Enable(s) \/ Disable(s) \/ Takeover(s)
  \/ Command(s) \/ LockRx(s) \/ LockTx(s) \/ CommandDone(s)
  \/ Cancel(s) \/ Relock(s) \/ ResyncDone(s)

RawNext ==
  \/ RawWake \/ RawListen \/ RawListenSignal \/ RawAcceptFail \/ RawAccept
  \/ RawLockRx \/ RawDisabled \/ RawEnabledAgain \/ RawClientGone
  \/ RawNetData \/ RawLockTx \/ RawUartWritten \/ RawUartWriteFail
  \/ RawUartEvent \/ RawResume \/ RawNetWriteFail \/ RawReleased

Next == RawNext \/ \E s \in Sessions : SessionNext(s)

Spec == Init /\ [][Next]_vars

-----------------------------------------------------------------------------
(* Safety                                                                  *)

\* Each lock is held by exactly the party whose suspension point says so, also
\* after a cancelled command: commands and raw traffic exclude each other on
\* both directions of the UART, and the raw session never waits for one lock
\* while it holds the other.
LocksHeld ==
  /\ \A s \in Sessions :
        /\ rx = s <=> ctl[s] \in {"lockingTx", "awaiting", "resyncing"}
        /\ tx = s <=> ctl[s] = "awaiting"
  /\ rx = Raw => raw = "serving"
  /\ tx = Raw <=> raw = "uartWriting"

\* `enabled` and `command` are two cells: a pending command always agrees with
\* the flag, so the one that was overwritten in the Signal was obsolete.
SignalAgrees ==
  /\ signal = "Enable" => enabled
  /\ signal = "Disable" => ~ enabled

\* raw_tunnel_service looks at the flag at the top of its loop only.  Whenever
\* it is past that point with a stale view of the flag, the command that
\* corrects it is still pending.
NoMissedCommand ==
  /\ raw = "waiting" /\ enabled => signal = "Enable"
  /\ raw \in Connected \cup {"configuring", "listening"} /\ ~ enabled
        => signal = "Disable"

\* The flag is checked before the wait for the locks: it is still down when the
\* owner's command gets them and its packet goes out.
OwnerCommandExcludesTunnel ==
  ctl[owner] \in {"locking", "lockingTx", "awaiting"} => ~ enabled

-----------------------------------------------------------------------------
(* Liveness                                                                *)

\* What the raw task does by itself: a command or a released lock has woken
\* it, or a deadline ends the wait (flush 1 s, pause 10 ms).  That a write to
\* the client ends assumes that the client reads or that the connection
\* fails: the raw socket has no timeout of its own.
RawProgress ==
  \/ RawWake \/ RawListen \/ RawListenSignal \/ RawDisabled \/ RawEnabledAgain
  \/ RawUartWritten \/ RawUartWriteFail
  \/ RawResume \/ RawNetWriteFail \/ RawReleased

Fairness ==
  /\ WF_vars(RawProgress)
  /\ SF_vars(RawLockRx) /\ SF_vars(RawLockTx)
  /\ \A s \in Sessions :
        /\ WF_vars(CommandDone(s) \/ Cancel(s) \/ ResyncDone(s))
        /\ SF_vars(LockRx(s) \/ LockTx(s) \/ Relock(s))

FairSpec == Spec /\ Fairness

\* An enabled tunnel opens its port, unless it is disabled again first.
EnableOpens == enabled ~> (~ enabled \/ raw \in Connected \cup {"listening"})

\* A disabled tunnel closes its port, unless it is enabled again first.
DisableCloses == ~ enabled ~> (enabled \/ raw = "waiting")

\* A command that waits for the UART gets it or is cancelled: a raw client that
\* was just disabled does not keep the bus.
CommandGetsBus ==
  \A s \in Sessions :
     ctl[s] \in {"locking", "lockingTx"} ~> ctl[s] \notin {"locking", "lockingTx"}

\* "Only debug.disableRawTunnel closes it, including any active raw connection"
\* (protocol/README.md): a client that is connected when the tunnel is disabled
\* is disconnected.
DisableDisconnects == mustClose ~> ~ mustClose

=============================================================================
