------------------------------ MODULE HostBridge ------------------------------
(***************************************************************************)
(* The host's bridge to the MCU in controller mode (src/host/src/main.rs): *)
(* the browser sessions, the one `bridge` they share behind a tokio mutex, *)
(* connect with its health check, the JSON-RPC requests with their ids and *)
(* deadlines, and the rule that says when a connection is given up.        *)
(*                                                                         *)
(* The network delays and loses messages and breaks connections.  An MCU   *)
(* is what ControllerService says of it: sessions that claim the board, of *)
(* which only the newest starts requests, one after the other.  Whether a  *)
(* superseded command still gets a packet out is decided there.            *)
(*                                                                         *)
(* A request is a number: 0 is system.ping, the commands are numbered in   *)
(* the order in which the host issues them.                                *)
(***************************************************************************)
EXTENDS Naturals, Sequences

CONSTANTS
  Browsers,     \* browser WebSocket sessions
  Peers,        \* MCU addresses
  None,         \* no bridge, no owner, no running request
  Other,        \* some other controller of an MCU
  MaxConns,     \* bound: connections opened in a behaviour
  MaxRequests,  \* bound: messages of the browsers in a behaviour
  Batches       \* how many requests a servo message makes (read_positions)

ASSUME BridgeAssumption ==
  /\ None \notin Nat /\ Other \notin Nat /\ None # Other
  /\ MaxConns \in Nat /\ MaxRequests \in Nat /\ Batches \subseteq Nat \ {0}

VARIABLES
  pc,       \* what each browser session waits for
  want,     \* the peer that its connect names; None: a servo request
  left,     \* requests of its batch after the current one
  queue,    \* AppState.bridge: the holder of the mutex, then who waits for it
  bridge,   \* the connection in AppState.bridge, or None
  conns,    \* all connections ever opened, of both ends
  owner,    \* the connection whose session owns each MCU
  asked,    \* messages of the browsers so far
  issued,   \* number of the last command
  started   \* history: commands each MCU has started

vars == <<pc, want, left, queue, bridge, conns, owner, asked, issued,
          started>>

Phase ==
  {"idle",      \* socket.recv
   "queued",    \* state.bridge.lock
   "reusing",   \* system.ping on the existing connection
   "opening",   \* connect_controller
   "setup",     \* system.ping on a new connection
   "asking"}    \* a command

\* In these phases the session waits for a response.
Waiting == {"reusing", "setup", "asking"}

Message == [id : Nat, cmd : Nat]

Connection ==
  [peer : Peers,
   open : BOOLEAN,      \* the host has not dropped it
   link : BOOLEAN,      \* it still carries requests to the MCU
   mcu  : {"claiming", "session", "closed"},
   next : Nat,          \* BridgeConnection.next_request_id
   out  : Seq(Message), \* requests on their way
   run  : Message \cup {None},
   in   : Seq(Message)] \* responses on their way

TypeOK ==
  /\ pc \in [Browsers -> Phase]
  /\ want \in [Browsers -> Peers \cup {None}]
  /\ left \in [Browsers -> Nat]
  /\ queue \in Seq(Browsers)
  /\ conns \in Seq(Connection) /\ Len(conns) <= MaxConns
  /\ bridge \in DOMAIN conns \cup {None}
  /\ owner \in [Peers -> DOMAIN conns \cup {None, Other}]
  /\ asked \in 0 .. MaxRequests
  /\ issued \in Nat
  /\ started \in [Peers -> Seq(1 .. issued)]

Init ==
  /\ pc = [b \in Browsers |-> "idle"]
  /\ want = [b \in Browsers |-> None]
  /\ left = [b \in Browsers |-> 0]
  /\ queue = <<>>
  /\ bridge = None
  /\ conns = <<>>
  /\ owner = [p \in Peers |-> None]
  /\ asked = 0
  /\ issued = 0
  /\ started = [p \in Peers |-> <<>>]

-----------------------------------------------------------------------------
(* Helpers                                                                 *)

Holds(b) == queue # <<>> /\ Head(queue) = b

Goto(b, phase) == pc' = [pc EXCEPT ![b] = phase]

\* The session answers its browser and drops the mutex, which goes to the
\* session that has waited longest.
Answer(b) ==
  /\ Goto(b, "idle")
  /\ want' = [want EXCEPT ![b] = None]
  /\ left' = [left EXCEPT ![b] = 0]
  /\ queue' = Tail(queue)

Fresh(p) ==
  [peer |-> p, open |-> TRUE, link |-> TRUE, mcu |-> "claiming", next |-> 1,
   out |-> <<>>, run |-> None, in |-> <<>>]

\* controller_request, the sending half: a broken link swallows the request.
WithRequest(c, cmd) ==
  [c EXCEPT !.next = @ + 1,
            !.out = IF c.link THEN Append(@, [id |-> c.next, cmd |-> cmd])
                              ELSE @]

\* The first response of a connection is taken from it.
WithoutFirst(c) == [c EXCEPT !.in = Tail(@)]

\* Dropping a BridgeConnection closes its socket and discards what was received;
\* what was sent is still delivered.
WithDrop(c) == [c EXCEPT !.open = FALSE, !.in = <<>>, !.next = 0]

\* The id of the request that the holder of connection c waits for.
Expected(c) == conns[c].next - 1

\* The connection that a waiting session uses: a new one is not in `bridge` yet.
Used(b) == IF pc[b] = "setup" THEN Len(conns) ELSE bridge

\* The session answers and keeps the rest of the state as it is.
JustAnswer(b) ==
  Answer(b) /\ UNCHANGED <<bridge, conns, owner, asked, issued, started>>

-----------------------------------------------------------------------------
(* client_session and handle_request                                       *)

\* A message of the browser: connect to p, or a batch of n servo requests.  A
\* message that names no host, no port or nothing known is answered at once and
\* changes nothing.
BrowserMessage(b, p, n) ==
  /\ pc[b] = "idle"
  /\ asked < MaxRequests
  /\ asked' = asked + 1
  /\ Goto(b, "queued")
  /\ want' = [want EXCEPT ![b] = p]
  /\ left' = [left EXCEPT ![b] = n - 1]
  /\ queue' = Append(queue, b)
  /\ UNCHANGED <<bridge, conns, owner, issued, started>>

\* A servo request without a bridge, or with an argument out of range.
Refuse(b) ==
  /\ pc[b] = "queued" /\ Holds(b)
  /\ want[b] = None
  /\ JustAnswer(b)

Ask(b) ==
  /\ pc[b] = "queued" /\ Holds(b)
  /\ want[b] = None
  /\ bridge # None
  /\ issued' = issued + 1
  /\ conns' = [conns EXCEPT ![bridge] = WithRequest(@, issued + 1)]
  /\ Goto(b, "asking")
  /\ UNCHANGED <<want, left, queue, bridge, owner, asked, started>>

\* The response of a command, be it a result or an error of the MCU: the batch
\* goes on or the browser gets its answer.
Responded(b) ==
  IF left[b] > 0
    THEN /\ issued' = issued + 1
         /\ conns' = [conns EXCEPT ![bridge] =
                        WithRequest(WithoutFirst(@), issued + 1)]
         /\ left' = [left EXCEPT ![b] = @ - 1]
         /\ UNCHANGED <<pc, want, queue, bridge>>
    ELSE /\ conns' = [conns EXCEPT ![bridge] = WithoutFirst(@)]
         /\ Answer(b)
         /\ UNCHANGED <<bridge, issued>>

\* The connection survives every error, and delayed responses are left to the
\* comparison of ids.
GiveUpKeeping(b) == UNCHANGED <<bridge, conns>>

\* connection_is_usable_after says no: the connection is dropped.
GiveUp(b) ==
  /\ bridge' = None
  /\ conns' = [conns EXCEPT ![Used(b)] = WithDrop(@)]

\* Without a deadline only a closed connection ends the wait.
RequestFailsClosedOnly(b) ==
  /\ pc[b] \in {"asking", "setup"}
  /\ conns[Used(b)].mcu = "closed"
  /\ GiveUp(b)
  /\ Answer(b)
  /\ UNCHANGED <<owner, asked, issued, started>>

\* The request of a command or of the set-up of a new connection cannot be
\* sent, is not answered in time, or the connection fails.
RequestFails(b) ==
  /\ pc[b] \in {"asking", "setup"}
  /\ GiveUp(b)
  /\ Answer(b)
  /\ UNCHANGED <<owner, asked, issued, started>>

-----------------------------------------------------------------------------
(* connect                                                                 *)

Linked(p) == bridge # None /\ conns[bridge].peer = p

\* The selected MCU is connected already: check that it still answers.
Reuse(b) ==
  /\ pc[b] = "queued" /\ Holds(b)
  /\ want[b] # None
  /\ Linked(want[b])
  /\ conns' = [conns EXCEPT ![bridge] = WithRequest(@, 0)]
  /\ Goto(b, "reusing")
  /\ UNCHANGED <<want, left, queue, bridge, owner, asked, issued, started>>

\* The previous connection is forgotten without closing it.
ClosePreviousLeaking == bridge' = None /\ UNCHANGED conns

\* bridge.take(): the previous connection, if any, is closed.
ClosePrevious ==
  /\ bridge' = None
  /\ conns' = IF bridge = None
                THEN conns ELSE [conns EXCEPT ![bridge] = WithDrop(@)]

\* There is no bridge, it leads elsewhere, or its MCU did not answer well.
Reconnect(b) ==
  /\ \/ /\ pc[b] = "queued" /\ Holds(b)
        /\ want[b] # None
        /\ ~ Linked(want[b])
     \/ pc[b] = "reusing"
  /\ ClosePrevious
  /\ Goto(b, "opening")
  /\ UNCHANGED <<want, left, queue, owner, asked, issued, started>>

\* An attempt of connect_controller times out or fails on the host, but not on
\* the MCU: the handshake still completes there, later.
AttemptAbandoned(b) ==
  /\ pc[b] = "opening"
  /\ Len(conns) < MaxConns
  /\ conns' = Append(conns, WithDrop(Fresh(want[b])))
  /\ UNCHANGED <<pc, want, left, queue, bridge, owner, asked, issued, started>>

\* The new connection is taken for good without asking the MCU.
OpenedUnchecked(b) ==
  /\ pc[b] = "opening"
  /\ Len(conns) < MaxConns
  /\ conns' = Append(conns, Fresh(want[b]))
  /\ bridge' = Len(conns) + 1
  /\ Answer(b)
  /\ UNCHANGED <<owner, asked, issued, started>>

\* The WebSocket is open.  The MCU may still be waiting to admit its session,
\* so the first request asks whether it is ready.
Opened(b) ==
  /\ pc[b] = "opening"
  /\ Len(conns) < MaxConns
  /\ conns' = Append(conns, WithRequest(Fresh(want[b]), 0))
  /\ Goto(b, "setup")
  /\ UNCHANGED <<want, left, queue, bridge, owner, asked, issued, started>>

\* The retry window of three seconds is over.
OpenFails(b) ==
  /\ pc[b] = "opening"
  /\ JustAnswer(b)

\* The ping is answered: the connection is the bridge.
Connected(b) ==
  /\ bridge' = Used(b)
  /\ conns' = [conns EXCEPT ![Used(b)] = WithoutFirst(@)]
  /\ Answer(b)
  /\ UNCHANGED issued

\* A response reaches the host.  One with another id is discarded.
Receive(b) ==
  /\ pc[b] \in Waiting
  /\ conns[Used(b)].open
  /\ conns[Used(b)].in # <<>>
  /\ IF Head(conns[Used(b)].in).id # Expected(Used(b))
       THEN /\ conns' = [conns EXCEPT ![Used(b)] = WithoutFirst(@)]
            /\ UNCHANGED <<pc, want, left, queue, bridge, issued>>
       ELSE IF pc[b] = "asking" THEN Responded(b) ELSE Connected(b)
  /\ UNCHANGED <<owner, asked, started>>

-----------------------------------------------------------------------------
(* The MCU and the network                                                 *)

IsOwner(c) == owner[conns[c].peer] = c

\* ControllerOwnership::claim is granted; it does not look at the client.
McuClaim(c) ==
  /\ conns[c].mcu = "claiming"
  /\ conns' = [conns EXCEPT ![c].mcu = "session"]
  /\ owner' = [owner EXCEPT ![conns[c].peer] = c]
  /\ UNCHANGED <<pc, want, left, queue, bridge, asked, issued, started>>

\* Another host takes the board over.
OtherClaims(p) ==
  /\ owner[p] # Other
  /\ owner' = [owner EXCEPT ![p] = Other]
  /\ UNCHANGED <<pc, want, left, queue, bridge, conns, asked, issued, started>>

\* A superseded session starts what is left in its socket.
McuStartUnchecked(c) ==
  /\ conns[c].mcu = "session"
  /\ conns[c].run = None
  /\ conns[c].out # <<>>
  /\ conns' = [conns EXCEPT ![c].run = Head(conns[c].out), ![c].out = Tail(@)]
  /\ started' = [started EXCEPT ![conns[c].peer] =
       IF Head(conns[c].out).cmd = 0 THEN @ ELSE Append(@, Head(conns[c].out).cmd)]
  /\ UNCHANGED <<pc, want, left, queue, bridge, owner, asked, issued>>

\* controller_session reads a request and is_current holds.
McuStart(c) ==
  /\ conns[c].mcu = "session"
  /\ conns[c].run = None
  /\ conns[c].out # <<>>
  /\ IsOwner(c)
  /\ conns' = [conns EXCEPT ![c].run = Head(conns[c].out), ![c].out = Tail(@)]
  /\ started' = [started EXCEPT ![conns[c].peer] =
       IF Head(conns[c].out).cmd = 0 THEN @ ELSE Append(@, Head(conns[c].out).cmd)]
  /\ UNCHANGED <<pc, want, left, queue, bridge, owner, asked, issued>>

\* The response of the running request is written.
McuFinish(c) ==
  /\ conns[c].mcu = "session"
  /\ conns[c].run # None
  /\ IsOwner(c)
  /\ conns' = [conns EXCEPT ![c].run = None,
                 ![c].in = IF conns[c].link /\ conns[c].open
                             THEN Append(@, conns[c].run) ELSE @]
  /\ UNCHANGED <<pc, want, left, queue, bridge, owner, asked, issued, started>>

\* The session ends and its socket is reset: superseded, or between two requests
\* because its client has closed the connection or is out of reach.
McuEnd(c) ==
  /\ conns[c].mcu = "session"
  /\ ~ IsOwner(c) \/ (conns[c].run = None /\ ~ (conns[c].open /\ conns[c].link))
  /\ conns' = [conns EXCEPT ![c].mcu = "closed", ![c].link = FALSE,
                            ![c].run = None, ![c].out = <<>>]
  /\ owner' = [owner EXCEPT ![conns[c].peer] = IF @ = c THEN None ELSE @]
  /\ UNCHANGED <<pc, want, left, queue, bridge, asked, issued, started>>

\* The network or the MCU fails: nothing in transit arrives any more.
LinkBreaks(c) ==
  /\ conns[c].link
  /\ conns' = [conns EXCEPT ![c].link = FALSE, ![c].out = <<>>, ![c].in = <<>>]
  /\ UNCHANGED <<pc, want, left, queue, bridge, owner, asked, issued, started>>

-----------------------------------------------------------------------------

HostStep(b) ==
  \/ Refuse(b) \/ Ask(b) \/ RequestFails(b) \/ Receive(b)
  \/ Reuse(b) \/ Reconnect(b) \/ Opened(b) \/ OpenFails(b)

McuStep(c) ==
  McuClaim(c) \/ McuStart(c) \/ McuFinish(c) \/ McuEnd(c) \/ LinkBreaks(c)

Next ==
  \/ \E b \in Browsers :
       \/ HostStep(b)
       \/ AttemptAbandoned(b)
       \/ \E p \in Peers : BrowserMessage(b, p, 1)
       \/ \E n \in Batches : BrowserMessage(b, None, n)
  \/ \E c \in DOMAIN conns : McuStep(c)
  \/ \E p \in Peers : OtherClaims(p)

Spec == Init /\ [][Next]_vars

\* The host's tasks run, and every wait of theirs has a deadline: 750 ms for a
\* request, 20 s for a scan, 3 s of attempts to connect.  Nothing is assumed of
\* the network and of the MCU.
FairSpec == Spec /\ \A b \in Browsers : WF_vars(HostStep(b))

-----------------------------------------------------------------------------

\* "Delayed API responses [...] are discarded by the host rather than being
\* associated with a later action": when no session waits for a response the
\* bridge carries neither a request nor a response, nor is one being handled, so
\* that an error that keeps the connection leaves nothing behind to be confused.
CleanPipe ==
  bridge # None /\ (\A b \in Browsers : pc[b] \notin {"reusing", "asking"})
     => conns[bridge].out = <<>> /\ conns[bridge].in = <<>>
        /\ conns[bridge].run = None

\* The host never has two connections open: a connection that is replaced,
\* unhealthy or half set up is closed and not only forgotten.
OneConnection ==
  \A c \in DOMAIN conns :
     conns[c].open => c = bridge \/ \E b \in Browsers : pc[b] = "setup" /\ c = Used(b)

\* Connected is not reported before the MCU has admitted the session: the
\* bridge is never a connection that still waits in ControllerOwnership::claim,
\* though the handshake is answered before the claim.
BridgeAdmitted == bridge # None => conns[bridge].mcu # "claiming"

\* Across time-outs, reconnects, switches of the target, abandoned attempts and
\* take-overs by others, each MCU starts the commands in the order in which the
\* host issued them, and none of them twice.
CommandsInOrder ==
  \A p \in Peers : \A i, j \in DOMAIN started[p] :
     i < j => started[p][i] < started[p][j]

\* Whatever the MCU does, each message of a browser is answered, and so each
\* browser gets its turn.
EveryMessageAnswered ==
  \A b \in Browsers : pc[b] # "idle" ~> pc[b] = "idle"

=============================================================================
