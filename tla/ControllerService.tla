-------------------------- MODULE ControllerService --------------------------
(***************************************************************************)
(* The controller side of the MCU firmware: the tasks `controller_service` *)
(* (one per transport slot, three in the firmware) with the sessions they  *)
(* run, the shared ControllerOwnership, the lock of the servo UART and the *)
(* Wi-Fi connection that the listeners wait for (src/src/bin/main.rs).     *)
(*                                                                         *)
(* All tasks share one cooperative executor, so an action is what a task   *)
(* does between two suspension points.  Two properties of the code decide  *)
(* what one poll of a session does:                                        *)
(*   - `select` polls the request handler before the ownership update, so  *)
(*     a superseded session whose handler can make progress makes it, up   *)
(*     to the handler's next suspension, and is only then cancelled;       *)
(*   - cancelling the handler unlocks the UART and the session locks it    *)
(*     again in the same poll, before any waiting task runs.               *)
(* Requests that never touch the UART (system.ping, the raw tunnel         *)
(* switches, malformed requests) are the local requests.  A bus command is *)
(* the number of STS transactions it still has to do; what is in them is   *)
(* the subject of StsBus.  The raw tunnel's use of the UART is the subject *)
(* of RawTunnel.                                                           *)
(***************************************************************************)
EXTENDS ControllerAdmission, FiniteSets

CONSTANTS
  Slots,       \* the controller_service tasks (CONTROLLER_TRANSPORT_SLOTS)
  None,        \* nobody holds the UART
  MaxClaims,   \* bound: generations granted in a behaviour
  MaxPackets   \* bound: STS transactions of one command

ASSUME SlotsAssumption == IsFiniteSet(Slots) /\ None \notin Slots
ASSUME BoundsAssumption == MaxClaims \in Nat /\ MaxPackets \in Nat

VARIABLES
  admission,        \* ControllerOwnership.current
  announced,        \* last value sent on ControllerOwnership.changes
  listener_change,  \* ControllerOwnership.listener_change, as last sent
  wifi,             \* whether the network stack is configured
  bus,              \* the task that holds the lock of uart_rx, or None
  pc,               \* where each controller_service task is suspended
  gen,              \* its `generation`; 0 before the claim
  lstSeen,          \* the listener change a waiting claim has seen
  peer,             \* its TCP client is still there
  todo,             \* STS transactions left of its command
  stray             \* history: packets it sent after losing ownership

vars == <<admission, announced, listener_change, wifi, bus, pc, gen, lstSeen,
          peer, todo, stray>>

\* Suspension points inside controller_session.
Session ==
  {"reading",     \* select(read_text, changed)
   "locking",     \* handler waits for uart_rx
   "awaiting",    \* handler waits for the status of a packet it sent
   "draining",    \* handler is in resynchronize_uart
   "writing",     \* write_text
   "relocking",   \* cancelled, waits for uart_rx
   "resyncing"}   \* cancelled, in resynchronize_uart

\* Suspension points of the handler, where a newer generation cancels it.
Running == {"locking", "awaiting", "draining"}

\* Suspension points of controller_service.
Phase ==
  {"idle",        \* wait_config_up, or the pause after a failed accept
   "listening",   \* accept
   "upgrading",   \* websocket::upgrade, at most two seconds
   "claiming",    \* ControllerOwnership::claim
   "releasing"}   \* release_tcp_socket, at most one second
  \cup Session

\* The suspension points at which a session holds uart_rx.
Holding == {"awaiting", "draining", "resyncing"}

TypeOK ==
  /\ admission \in Admission
  /\ announced \in Nat
  /\ listener_change \in Nat
  /\ wifi \in {"down", "up"}
  /\ bus \in Slots \cup {None}
  /\ pc \in [Slots -> Phase]
  /\ gen \in [Slots -> Nat]
  /\ lstSeen \in [Slots -> Nat]
  /\ peer \in [Slots -> BOOLEAN]
  /\ todo \in [Slots -> 0 .. MaxPackets]
  /\ stray \in [Slots -> Nat]

Init ==
  /\ admission = New
  /\ announced = 0
  /\ listener_change = 0
  /\ wifi = "down"
  /\ bus = None
  /\ pc = [s \in Slots |-> "idle"]
  /\ gen = [s \in Slots |-> 0]
  /\ lstSeen = [s \in Slots |-> 0]
  /\ peer = [s \in Slots |-> FALSE]
  /\ todo = [s \in Slots |-> 0]
  /\ stray = [s \in Slots |-> 0]

Goto(s, phase) == pc' = [pc EXCEPT ![s] = phase]

-----------------------------------------------------------------------------
(* wifi_connection                                                         *)

\* The station associates and is configured.  A failed attempt, like the pause
\* of five seconds between two attempts, leaves it down.
WifiConnect ==
  /\ wifi = "down"
  /\ wifi' = "up"
  /\ UNCHANGED <<admission, announced, listener_change, bus, pc, gen, lstSeen,
                 peer, todo, stray>>

WifiDisconnect ==
  /\ wifi = "up"
  /\ wifi' = "down"
  /\ UNCHANGED <<admission, announced, listener_change, bus, pc, gen, lstSeen,
                 peer, todo, stray>>

-----------------------------------------------------------------------------
(* controller_service: from the top of the loop to the claim               *)

\* Admission reopens without telling the claims that wait for it.
ListenerReadyQuietly(changed) == UNCHANGED listener_change

\* ControllerOwnership::listener_ready: announce that admission reopened.
AnnounceListener(changed) ==
  listener_change' = IF changed THEN listener_change + 1 ELSE listener_change

\* The task is at the top of its loop again (its reset is flushed or timed
\* out, its pause is over), the network is configured: it listens.  Whichever
\* task gets here reopens admission, not only the one that was replaced.
Listen(s) ==
  /\ pc[s] \in {"idle", "releasing"}
  /\ wifi = "up"
  /\ admission' = listener_ready(admission)
  /\ AnnounceListener(admission.listener_required)
  /\ Goto(s, "listening")
  /\ gen' = [gen EXCEPT ![s] = 0]
  /\ stray' = [stray EXCEPT ![s] = 0]
  /\ UNCHANGED <<announced, wifi, bus, lstSeen, peer, todo>>

Accept(s) ==
  /\ pc[s] = "listening"
  /\ wifi = "up"
  /\ Goto(s, "upgrading")
  /\ peer' = [peer EXCEPT ![s] = TRUE]
  /\ UNCHANGED <<admission, announced, listener_change, wifi, bus, gen,
                 lstSeen, todo, stray>>

AcceptFail(s) ==
  /\ pc[s] = "listening"
  /\ Goto(s, "idle")
  /\ UNCHANGED <<admission, announced, listener_change, wifi, bus, gen,
                 lstSeen, peer, todo, stray>>

\* The handshake is rejected or takes longer than two seconds.
UpgradeFail(s) ==
  /\ pc[s] = "upgrading"
  /\ Goto(s, "releasing")
  /\ peer' = [peer EXCEPT ![s] = FALSE]
  /\ UNCHANGED <<admission, announced, listener_change, wifi, bus, gen,
                 lstSeen, todo, stray>>

\* One pass of the loop in ControllerOwnership::claim.  A granted claim is
\* announced, and the session starts in the same poll, so that the generation
\* it finds announced is its own.  A refused one waits
\* for the next listener change: a fresh receiver has seen none, so an older
\* change only makes the loop go round once more.
ClaimPass(s) ==
  IF WaitForListener(admission)
    THEN /\ Goto(s, "claiming")
         /\ lstSeen' = [lstSeen EXCEPT ![s] = listener_change]
         /\ UNCHANGED <<admission, announced, gen>>
    ELSE /\ admission' = Granted(admission)
         /\ announced' = admission'.epoch
         /\ gen' = [gen EXCEPT ![s] = admission'.epoch]
         /\ lstSeen' = [lstSeen EXCEPT ![s] = 0]
         /\ Goto(s, "reading")

\* Generations granted or already waited for.
Claims == admission.epoch + Cardinality({t \in Slots : pc[t] = "claiming"})

\* The handshake is complete.
Upgrade(s) ==
  /\ pc[s] = "upgrading"
  /\ Claims < MaxClaims
  /\ ClaimPass(s)
  /\ UNCHANGED <<listener_change, wifi, bus, peer, todo, stray>>

\* A waiting claim is woken by a listener change.  It does not look at its
\* socket, so a client that has gone meanwhile is admitted all the same.
ClaimRetry(s) ==
  /\ pc[s] = "claiming"
  /\ listener_change # lstSeen[s]
  /\ ClaimPass(s)
  /\ UNCHANGED <<listener_change, wifi, bus, peer, todo, stray>>

\* The client closes its connection, crashes or becomes unreachable.
ClientCloses(s) ==
  /\ peer[s]
  /\ peer' = [peer EXCEPT ![s] = FALSE]
  /\ UNCHANGED <<admission, announced, listener_change, wifi, bus, pc, gen,
                 lstSeen, todo, stray>>

-----------------------------------------------------------------------------
(* controller_session                                                      *)

\* A newer generation was announced on `changes`.
Superseded(s) == announced # gen[s]

\* controller_session returned: release the ownership, reset the connection.
End(s) ==
  /\ Goto(s, "releasing")
  /\ admission' = release(admission, gen[s])
  /\ peer' = [peer EXCEPT ![s] = FALSE]
  /\ todo' = [todo EXCEPT ![s] = 0]
  /\ UNCHANGED <<announced, listener_change, wifi, gen, lstSeen>>

\* `select` forgets the ownership update while a command is running.
SuspendRegardless(s, phase) == Goto(s, phase)

\* The handler suspends holding the UART: the ownership update is polled next
\* and, if there is one, cancels it.
Suspend(s, phase) == Goto(s, IF Superseded(s) THEN "resyncing" ELSE phase)

\* The response of a request is ready; a superseded session drops it.
Respond(s) ==
  IF is_current(admission, gen[s])
    THEN /\ Goto(s, "writing")
         /\ todo' = [todo EXCEPT ![s] = 0]
         /\ UNCHANGED <<admission, announced, listener_change, wifi, gen,
                        lstSeen, peer>>
    ELSE End(s)

\* handle_json_rpc returns: a response, or None for a notification or when
\* the response does not fit its buffer.
Finish(s) ==
  \/ Respond(s)
  \/ /\ Goto(s, "reading")
     /\ todo' = [todo EXCEPT ![s] = 0]
     /\ UNCHANGED <<admission, announced, listener_change, wifi, gen, lstSeen,
                    peer>>

\* send_sts_packet: the packet goes out before the session looks at a newer
\* generation.
SendPacket(s, n) ==
  /\ bus' = s
  /\ Suspend(s, "awaiting")
  /\ todo' = [todo EXCEPT ![s] = n]
  /\ stray' = [stray EXCEPT ![s] = IF is_current(admission, gen[s])
                                     THEN @ ELSE @ + 1]
  /\ UNCHANGED <<admission, announced, listener_change, wifi, gen, lstSeen, peer>>

\* An argument is out of range or the UART cannot be written: the command fails
\* and drains the UART.
RejectArgument(s) ==
  /\ bus' = s
  /\ Suspend(s, "draining")
  /\ todo' = [todo EXCEPT ![s] = 0]
  /\ UNCHANGED <<admission, announced, listener_change, wifi, gen, lstSeen,
                 peer, stray>>

\* The handler of s, holding the UART, goes on with n transactions to do.
Advance(s, n) ==
  \/ n > 0 /\ SendPacket(s, n)
  \/ n > 0 /\ RejectArgument(s)
  \/ n = 0 /\ Finish(s) /\ bus' = None /\ UNCHANGED stray

\* The session lost its ownership and the request is dropped.
DropRequest(s) ==
  /\ pc[s] = "reading"
  /\ peer[s]
  /\ ~ is_current(admission, gen[s])
  /\ End(s)
  /\ UNCHANGED <<bus, stray>>

LocalRequest(s) ==
  /\ pc[s] = "reading"
  /\ peer[s]
  /\ is_current(admission, gen[s])
  /\ Finish(s)
  /\ UNCHANGED <<bus, stray>>

\* A command of n transactions: execute_command takes the UART or waits.
BusRequest(s, n) ==
  /\ pc[s] = "reading"
  /\ peer[s]
  /\ is_current(admission, gen[s])
  /\ IF bus = None
       THEN Advance(s, n)
       ELSE /\ Goto(s, "locking")
            /\ todo' = [todo EXCEPT ![s] = n]
            /\ UNCHANGED <<admission, announced, listener_change, wifi, bus,
                           gen, lstSeen, peer, stray>>

LockGranted(s) ==
  /\ pc[s] = "locking"
  /\ bus = None
  /\ Advance(s, todo[s])

\* The status packet of the current transaction is accepted.
Reply(s) ==
  /\ pc[s] = "awaiting"
  /\ Advance(s, todo[s] - 1)

\* The transaction times out, is malformed or reports an error.  A scan drains
\* the UART and goes on, any other command drains it and fails.
ReplyFail(s) ==
  /\ pc[s] = "awaiting"
  /\ Suspend(s, "draining")
  /\ \E left \in {0, todo[s] - 1} : todo' = [todo EXCEPT ![s] = left]
  /\ UNCHANGED <<admission, announced, listener_change, wifi, bus, gen,
                 lstSeen, peer, stray>>

\* resynchronize_uart inside the command returns.
DrainDone(s) ==
  /\ pc[s] = "draining"
  /\ Advance(s, todo[s])

\* The cancelled session drains the UART without locking it.
CancelUnlocked(s) ==
  /\ pc[s] \in Running
  /\ Superseded(s)
  /\ Goto(s, "resyncing")
  /\ bus' = IF bus = s THEN None ELSE bus
  /\ UNCHANGED <<admission, announced, listener_change, wifi, gen, lstSeen, peer,
                 todo, stray>>

\* A newer generation cancels the running handler, which had no progress to
\* make.  One that held the UART keeps it for the resynchronisation, one that
\* waited for it goes on waiting.
Cancel(s) ==
  /\ pc[s] \in Running
  /\ Superseded(s)
  /\ pc[s] = "locking" => bus # None
  /\ Goto(s, IF pc[s] = "locking" THEN "relocking" ELSE "resyncing")
  /\ UNCHANGED <<admission, announced, listener_change, wifi, bus, gen,
                 lstSeen, peer, todo, stray>>

Relock(s) ==
  /\ pc[s] = "relocking"
  /\ bus = None
  /\ bus' = s
  /\ Goto(s, "resyncing")
  /\ UNCHANGED <<admission, announced, listener_change, wifi, gen, lstSeen,
                 peer, todo, stray>>

ResyncDone(s) ==
  /\ pc[s] = "resyncing"
  /\ bus' = None
  /\ End(s)
  /\ UNCHANGED stray

\* The response is queued on the socket; a new generation is not looked at.
WriteDone(s) ==
  /\ pc[s] = "writing"
  /\ Goto(s, "reading")
  /\ UNCHANGED <<admission, announced, listener_change, wifi, bus, gen,
                 lstSeen, peer, todo, stray>>

\* The connection fails or its 30 s timeout expires while writing.
WriteFail(s) ==
  /\ pc[s] = "writing"
  /\ End(s)
  /\ UNCHANGED <<bus, stray>>

\* Without keep-alive and timeout the loss of the client goes unnoticed.
ReadErrorBadFrameOnly(s) ==
  /\ pc[s] = "reading"
  /\ peer[s]
  /\ End(s)
  /\ UNCHANGED <<bus, stray>>

\* read_text returns an error: a frame it does not accept, or the client is
\* gone (a close, or the keep-alive and the 30 s timeout of the socket).
ReadError(s) ==
  /\ pc[s] = "reading"
  /\ End(s)
  /\ UNCHANGED <<bus, stray>>

\* The superseded session is never told.
NeverReplaced(s) == pc[s] = "none" /\ UNCHANGED vars

\* A newer generation wakes an idle session.
Replaced(s) ==
  /\ pc[s] = "reading"
  /\ Superseded(s)
  /\ End(s)
  /\ UNCHANGED <<bus, stray>>

-----------------------------------------------------------------------------

SlotNext(s) ==
  \/ Listen(s) \/ Accept(s) \/ AcceptFail(s)
  \/ Upgrade(s) \/ UpgradeFail(s) \/ ClaimRetry(s)
  \/ ClientCloses(s)
  \/ DropRequest(s) \/ LocalRequest(s)
  \/ \E n \in 0 .. MaxPackets : BusRequest(s, n)
  \/ LockGranted(s) \/ Reply(s) \/ ReplyFail(s) \/ DrainDone(s)
  \/ Cancel(s) \/ Relock(s) \/ ResyncDone(s)
  \/ WriteDone(s) \/ WriteFail(s) \/ ReadError(s) \/ Replaced(s)

Next == WifiConnect \/ WifiDisconnect \/ \E s \in Slots : SlotNext(s)

Spec == Init /\ [][Next]_vars

-----------------------------------------------------------------------------
(* Safety                                                                  *)

Owners == {s \in Slots : pc[s] \in Session /\ is_current(admission, gen[s])}

\* A slot whose session lost its generation and that is not listening yet.
Retiring(s) == pc[s] \in Session \cup {"releasing"} /\ 0 < gen[s]
               /\ gen[s] < admission.epoch

\* However claims, take-overs and disconnects interleave, at most one session
\* holds the current generation, and no two slots ever hold the same one.
OneOwner ==
  /\ \A s, t \in Owners : s = t
  /\ \A s, t \in Slots : gen[s] = gen[t] /\ gen[s] > 0 => s = t

\* ControllerAdmission.active says exactly whether a session holds the current
\* generation: a late release by a superseded session never clears the flag of
\* its successor, and no session ends without clearing its own.
ActiveIffOwned == admission.active <=> Owners # {}

\* Admission is held only while a replaced transport is really on its way back
\* to listening, so that there is somebody left who will reopen it.
HeldForRetiring ==
  admission.listener_required => \E s \in Slots : Retiring(s)

\* A claim that sleeps in ControllerOwnership::claim has not missed the
\* listener change that would wake it: while it sleeps, admission is held.
NoLostWakeup ==
  \A s \in Slots :
     pc[s] = "claiming" /\ lstSeen[s] = listener_change
        => admission.listener_required

\* Every session that runs is told of a newer generation: what `changes` last
\* announced is the generation of the owner, if there is one.
OwnerAnnounced == \A s \in Owners : ~ Superseded(s)

\* The lock of the UART is held by exactly the session that is suspended inside
\* a transaction or a resynchronisation, across cancellations too.
BusHolder == \A s \in Slots : bus = s <=> pc[s] \in Holding

\* After losing its ownership a session puts at most one more packet on the bus,
\* and only if it is about to drain the UART and end.
AtMostOneStrayPacket ==
  \A s \in Slots :
     /\ stray[s] <= 1
     /\ stray[s] = 1 => pc[s] \in {"resyncing", "releasing"}
                        /\ gen[s] < admission.epoch

-----------------------------------------------------------------------------
(* The promise of the admission that this specification implements         *)

\* The owner of the board, and the transports that a session no longer owns it
\* with and that do not listen yet.
BoardOwner == IF Owners = {} THEN None ELSE CHOOSE s \in Owners : TRUE
Leaving == {s \in Slots : pc[s] \in Session \cup {"releasing"} /\ gen[s] > 0}
             \ Owners

Board ==
  INSTANCE Ownership WITH
    Nobody  <- None,
    owner   <- BoardOwner,
    leaving <- Leaving,
    open    <- ~ admission.listener_required,
    late    <- stray

\* The tasks, with their generations, their watch channels and the lock of the
\* UART, do nothing that Ownership does not allow: one owner, the newest wins,
\* one take-over at a time until a transport is back, one late packet at most.
ImplementsOwnership == Board!Spec

-----------------------------------------------------------------------------
(* What the comments of the code say and the code does not do              *)

\* "Grants the next session only when no predecessor is still returning its
\* TCP transport to listening mode" (ControllerAdmission::try_claim).
TakeoverSerialized ==
  [][admission'.epoch # admission.epoch => ~ \E s \in Slots : Retiring(s)]_vars

\* "the previous generation is notified and closes its session before another
\* command can run" (ControllerOwnership): no session that has lost its
\* generation starts a command on the bus.
NoCommandAfterLoss ==
  [][\A s \in Slots : pc[s] = "locking" => stray'[s] = stray[s]]_vars

-----------------------------------------------------------------------------
(* Liveness                                                                *)

\* What a slot does by itself, sooner or later: every wait below ends with a
\* wake-up that has happened or with a deadline of the code (handshake 2 s,
\* STS status 50 ms, resynchronisation 4 x 2 ms, TCP timeout 30 s).
SlotProgress(s) ==
  \/ Upgrade(s) \/ UpgradeFail(s) \/ ClaimRetry(s)
  \/ Reply(s) \/ ReplyFail(s) \/ DrainDone(s) \/ Cancel(s)
  \/ ResyncDone(s) \/ WriteDone(s) \/ WriteFail(s) \/ Replaced(s)
  \/ ~ peer[s] /\ ReadError(s)

\* A wait that others can end and begin again: the lock, which its holders
\* take for bounded times with pauses for the host's next request in between,
\* and the network, which may go down again while a slot is not polled.
SlotContended(s) == Listen(s) \/ LockGranted(s) \/ Relock(s)

Fairness ==
  /\ \A s \in Slots : WF_vars(SlotProgress(s)) /\ SF_vars(SlotContended(s))
  /\ SF_vars(WifiConnect)      \* the access point does not stay away for ever

FairSpec == Spec /\ Fairness

\* A client that completed its handshake is admitted, however many take-overs
\* are under way.
ClaimAdmitted(s) == pc[s] = "claiming" ~> pc[s] \in Session

\* A session that loses its generation gives its transport back to the pool.
SupersededListens(s) ==
  pc[s] \in Session /\ gen[s] < admission.epoch ~> pc[s] = "listening"

\* A session whose client is gone ends and listens again.
DeadClientListens(s) == pc[s] \in Session /\ ~ peer[s] ~> pc[s] = "listening"

\* "Three transport sockets therefore preserve one listener": the board never
\* stops accepting controllers for good.
AlwaysListensAgain == []<>(\E s \in Slots : pc[s] = "listening")

=============================================================================
