-------------------------------- MODULE WebUi --------------------------------
(***************************************************************************)
(* The control panel in the browser (src/host/web/app.js): its WebSocket   *)
(* to the host with the retry, its view of the MCU connection, the sliders *)
(* with their delayed moves, and the servo search.                         *)
(*                                                                         *)
(* An action is one event handler.  The host answers the messages of a     *)
(* socket one after the other (HostBridge!EveryMessageAnswered), with a    *)
(* result or an error, and a socket may close at any time.  The servos of  *)
(* the panel have different ids.  Texts, rendering, and the settings that  *)
(* only accompany a command are left out.                                  *)
(***************************************************************************)
EXTENDS Naturals, Sequences, SequencesExt

CONSTANTS
  Joints,     \* the position servos
  Motor,      \* the continuous motor
  Positions,  \* where a slider can be
  Outside,    \* a position that a servo can report and no slider can have
  None,       \* no position
  MaxEvents   \* bound: events of the user in a behaviour

ASSUME PanelAssumption ==
  /\ Motor \notin Joints
  /\ Outside \notin Positions /\ None \notin Positions \cup {Outside}
  /\ MaxEvents \in Nat

Servos == Joints \cup {Motor}

VARIABLES
  socket,     \* "connecting", "open", or "retrying" after it closed
  connected,  \* connectedToMcu
  enabled,    \* the servos that are enabled in `config`
  current,    \* currentPositions
  last,       \* lastSentPositions: what was last handed to send
  queued,     \* the joints in queuedMoves
  timers,     \* how many timeouts each joint has running
  scanning,   \* servoScanInProgress
  pending,    \* messages to the host, oldest first, that have no answer yet
  events,     \* events of the user so far
  released,   \* history: where the slider was let go and stays, or None
  lost        \* history: the socket closed during the search

vars == <<socket, connected, enabled, current, last, queued, timers, scanning,
          pending, events, released, lost>>

\* A message and the servos it reads or commands.
Message ==
  [kind : {"connect", "scan"}, servos : {{}}]
  \cup [kind : {"motor", "move", "read"}, servos : (SUBSET Servos) \ {{}}]

Msg(kind, servos) == [kind |-> kind, servos |-> servos]

TypeOK ==
  /\ socket \in {"connecting", "open", "retrying"}
  /\ connected \in BOOLEAN
  /\ enabled \subseteq Servos
  /\ current \in [Joints -> Positions \cup {Outside, None}]
  /\ last \in [Joints -> Positions \cup {Outside, None}]
  /\ queued \subseteq Joints
  /\ timers \in [Joints -> Nat]
  /\ scanning \in BOOLEAN
  /\ pending \in Seq(Message)
  /\ events \in 0 .. MaxEvents
  /\ released \in [Joints -> Positions \cup {None}]
  /\ lost \in BOOLEAN

\* What loadConfig can return, as far as it matters here.
Config == SUBSET Servos

Init ==
  /\ socket = "connecting"
  /\ connected = FALSE
  /\ enabled \in Config
  /\ current = [j \in Joints |-> None]
  /\ last = [j \in Joints |-> None]
  /\ queued = {}
  /\ timers = [j \in Joints |-> 0]
  /\ scanning = FALSE
  /\ pending = <<>>
  /\ events = 0
  /\ released = [j \in Joints |-> None]
  /\ lost = FALSE

-----------------------------------------------------------------------------
(* send                                                                    *)

\* send lets a message pass.
Allowed == socket = "open" /\ connected

\* send(message): what is not allowed is dropped, with a status text.
send(message) ==
  pending' = IF Allowed THEN Append(pending, message) ELSE pending

\* connectMcu; a connect may be sent before the MCU is connected.
connectMcu ==
  /\ connected' = FALSE
  /\ pending' = IF socket' = "open" THEN Append(pending, Msg("connect", {}))
                                    ELSE pending

\* Disabled joints are asked too.
refreshAll(queue) == Append(queue, Msg("read", Joints))

\* refreshPositions: what a read of the enabled joints makes of the queue.
refreshPositions(queue) ==
  IF Joints \cap enabled = {} THEN queue
  ELSE Append(queue, Msg("read", Joints \cap enabled))

-----------------------------------------------------------------------------
(* openSocket                                                              *)

Opened ==
  /\ socket = "connecting"
  /\ socket' = "open"
  /\ connectMcu
  /\ UNCHANGED <<enabled, current, last, queued, timers, scanning, events,
                 released, lost>>

\* The close event, of an open socket or of one that could not be opened.
Closed ==
  /\ socket \in {"connecting", "open"}
  /\ socket' = "retrying"
  /\ connected' = FALSE
  /\ pending' = <<>>
  /\ lost' = scanning
  /\ UNCHANGED <<enabled, current, last, queued, timers, scanning, events,
                 released>>

\* One second later.
Retry ==
  /\ socket = "retrying"
  /\ socket' = "connecting"
  /\ UNCHANGED <<connected, enabled, current, last, queued, timers, scanning,
                 pending, events, released, lost>>

-----------------------------------------------------------------------------
(* handleServerMessage                                                     *)

\* "connected": the positions are read.
AnswerConnected ==
  /\ Head(pending).kind = "connect"
  /\ connected' = TRUE
  /\ pending' = refreshPositions(Tail(pending))
  /\ UNCHANGED <<current, scanning, lost>>

\* "position" and "positions": updatePosition for the servos that answered.
AnswerPositions ==
  /\ Head(pending).kind = "read"
  /\ \E answered \in SUBSET Head(pending).servos :
       \E position \in [answered -> Positions \cup {Outside}] :
         current' = [j \in Joints |-> IF j \in answered THEN position[j] ELSE current[j]]
  /\ pending' = Tail(pending)
  /\ UNCHANGED <<connected, scanning, lost>>

\* "servo_scan": finishServoScan.
AnswerScan ==
  /\ Head(pending).kind = "scan"
  /\ scanning' = FALSE
  /\ lost' = FALSE
  /\ pending' = Tail(pending)
  /\ UNCHANGED <<connected, current>>

\* "complete" is not looked at.
AnswerComplete ==
  /\ Head(pending).kind \in {"motor", "move"}
  /\ pending' = Tail(pending)
  /\ UNCHANGED <<connected, current, scanning, lost>>

\* An error does not end the search.
AnswerErrorOnly ==
  /\ connected' \in BOOLEAN
  /\ pending' = Tail(pending)
  /\ UNCHANGED <<current, scanning, lost>>

\* "error", whatever it answers: a search that is in progress is given up.
AnswerError ==
  /\ connected' \in BOOLEAN
  /\ scanning' = FALSE
  /\ lost' = FALSE
  /\ pending' = Tail(pending)
  /\ UNCHANGED current

handleServerMessage ==
  /\ pending # <<>>
  /\ AnswerConnected \/ AnswerPositions \/ AnswerScan \/ AnswerComplete \/ AnswerError
  /\ UNCHANGED <<socket, enabled, last, queued, timers, events, released>>

-----------------------------------------------------------------------------
(* The user                                                                *)

Event == events < MaxEvents /\ events' = events + 1

\* The connection form.
Submit ==
  /\ Event
  /\ UNCHANGED socket
  /\ connectMcu
  /\ UNCHANGED <<enabled, current, last, queued, timers, scanning, released, lost>>

Refresh ==
  /\ Event
  /\ Allowed
  /\ pending' = refreshPositions(pending)
  /\ UNCHANGED <<socket, connected, enabled, current, last, queued, timers,
                 scanning, released, lost>>

\* scanServos, with a range that is not empty; send decides whether the search
\* begins.
scanServos ==
  /\ Event
  /\ ~ scanning
  /\ scanning' = Allowed
  /\ send(Msg("scan", {}))
  /\ lost' = FALSE
  /\ UNCHANGED <<socket, connected, enabled, current, last, queued, timers,
                 released>>

\* startMotor, or the stop button, which is not active for a disabled motor.
MotorCommand ==
  /\ Event
  /\ Motor \in enabled
  /\ send(Msg("motor", {Motor}))
  /\ UNCHANGED <<socket, connected, enabled, current, last, queued, timers,
                 scanning, released, lost>>

\* A disabled joint keeps its timeout.
ToggleKeepingTimer(s) ==
  /\ Event
  /\ enabled' = IF s \in enabled THEN enabled \ {s} ELSE enabled \cup {s}
  /\ UNCHANGED <<socket, connected, current, last, queued, timers, scanning,
                 pending, released, lost>>

\* The checkbox of a servo.  A joint that is disabled forgets its queued move.
Toggle(s) ==
  /\ Event
  /\ enabled' = IF s \in enabled THEN enabled \ {s} ELSE enabled \cup {s}
  /\ IF s \in Joints \cap enabled
       THEN /\ timers' = [timers EXCEPT ![s] = IF s \in queued THEN @ - 1 ELSE @]
            /\ queued' = queued \ {s}
       ELSE UNCHANGED <<timers, queued>>
  /\ UNCHANGED <<socket, connected, current, last, scanning, pending, released,
                 lost>>

\* sendMove of joint j with its current position p; lastSentPositions is set
\* whether or not send lets the message pass.
sendMove(j, p) ==
  /\ queued' = queued \ {j}
  /\ IF j \in enabled
       THEN last' = [last EXCEPT ![j] = p] /\ send(Msg("move", {j}))
       ELSE UNCHANGED <<last, pending>>

\* A running timeout is replaced in queuedMoves and not cleared.
DragWithoutClear(j, p) ==
  /\ Event
  /\ j \in enabled
  /\ current' = [current EXCEPT ![j] = p]
  /\ released' = [released EXCEPT ![j] = None]
  /\ timers' = [timers EXCEPT ![j] = @ + 1]
  /\ queued' = queued \cup {j}
  /\ UNCHANGED <<socket, connected, enabled, last, scanning, pending, lost>>

\* queuePositionMove for an input event: the timeout begins again.
Drag(j, p) ==
  /\ Event
  /\ j \in enabled
  /\ current' = [current EXCEPT ![j] = p]
  /\ released' = [released EXCEPT ![j] = None]
  /\ timers' = [timers EXCEPT ![j] = IF j \in queued THEN @ ELSE @ + 1]
  /\ queued' = queued \cup {j}
  /\ UNCHANGED <<socket, connected, enabled, last, scanning, pending, lost>>

\* The move is left to the timeout that has just been cleared.
ReleaseLeavingQueued(j, p) ==
  /\ Event
  /\ j \in enabled
  /\ current' = [current EXCEPT ![j] = p]
  /\ released' = [released EXCEPT ![j] = p]
  /\ timers' = [timers EXCEPT ![j] = IF j \in queued THEN @ - 1 ELSE @]
  /\ IF j \in queued \/ last[j] = p
       THEN queued' = queued \ {j} /\ UNCHANGED <<last, pending>>
       ELSE sendMove(j, p)
  /\ UNCHANGED <<socket, connected, enabled, scanning, lost>>

\* queuePositionMove for a change event: the timeout is cleared and the move is
\* sent at once, unless nothing is queued and the position was sent last.
Release(j, p) ==
  /\ Event
  /\ j \in enabled
  /\ current' = [current EXCEPT ![j] = p]
  /\ released' = [released EXCEPT ![j] = p]
  /\ timers' = [timers EXCEPT ![j] = IF j \in queued THEN @ - 1 ELSE @]
  /\ IF j \notin queued /\ last[j] = p
       THEN UNCHANGED <<queued, last, pending>>
       ELSE sendMove(j, p)
  /\ UNCHANGED <<socket, connected, enabled, scanning, lost>>

\* CONTROL_INTERVAL_MS are over: the position of now is sent, which may be one
\* that was read from the servo in between.
Timeout(j) ==
  /\ timers[j] > 0
  /\ timers' = [timers EXCEPT ![j] = @ - 1]
  /\ sendMove(j, current[j])
  /\ UNCHANGED <<socket, connected, enabled, current, scanning, events, released,
                 lost>>

-----------------------------------------------------------------------------

User ==
  \/ Submit \/ Refresh \/ scanServos \/ MotorCommand
  \/ \E s \in Servos : Toggle(s)
  \/ \E j \in Joints, p \in Positions : Drag(j, p) \/ Release(j, p)

Next ==
  \/ Opened \/ Closed \/ Retry \/ handleServerMessage \/ User
  \/ \E j \in Joints : Timeout(j)

Spec == Init /\ [][Next]_vars

\* Timeouts of the browser expire, the host answers (HostBridge), and a host
\* that is tried again and again is reached in the end.
FairSpec ==
  /\ Spec
  /\ WF_vars(Retry) /\ WF_vars(handleServerMessage)
  /\ SF_vars(Opened)

-----------------------------------------------------------------------------

\* queuedMoves names exactly the timeouts that run, so that each can still be
\* cleared, and a disabled joint has none: a move that was queued before its
\* joint was disabled is not sent when the joint is enabled again.
TimersQueued ==
  \A j \in Joints :
     /\ timers[j] = IF j \in queued THEN 1 ELSE 0
     /\ timers[j] > 0 => j \in enabled

\* "disabled servos are never read or commanded" (README.md): when a message is
\* sent, by the user, by a timeout or by an answer of the host, it names only
\* servos that are enabled at that time.
DisabledNotCommanded ==
  [][Len(pending') > 0 /\ Len(pending') >= Len(pending) /\ pending' # pending
        => Last(pending').servos \subseteq enabled]_vars

\* Where a slider was let go is the position of its joint that was last handed to
\* send, whatever was queued, read from the servos or sent before.
ReleasedIsSent ==
  \A j \in Joints : released[j] # None => last[j] = released[j]

\* A servo search does not stay in progress, unless the socket closes during it.
ScanEnds == scanning ~> (~ scanning \/ lost)

=============================================================================
