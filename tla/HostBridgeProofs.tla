--------------------------- MODULE HostBridgeProofs ---------------------------
(***************************************************************************)
(* The safety of HostBridge for any number of browsers, MCUs, connections  *)
(* and requests.                                                           *)
(*                                                                         *)
(* The invariant says in addition to what TLC checks: whose turn it is     *)
(* (Turn), which connection a phase works on (Places), that a connection   *)
(* in use carries at most one request (Pipe), what may have been sent to a *)
(* connection (ConnectionsSound), and that the owner of an MCU is ahead of *)
(* what the MCU has started (OwnerAhead).  On top of it, PipeCurrent says  *)
(* whose request or response a connection in use carries.                  *)
(***************************************************************************)
EXTENDS HostBridge, SequenceTheorems, TLAPS

\* The phases in which a session holds the mutex of AppState.bridge.
Active == Waiting \cup {"opening"}

Turn == \A b \in Browsers : pc[b] \in Active => Holds(b)

\* Which connection a session works on in each phase.
Places ==
  \A b \in Browsers :
    /\ pc[b] \in {"reusing", "asking"} => bridge # None
    /\ pc[b] \in {"opening", "setup"} => bridge = None
    /\ pc[b] = "setup" => conns # <<>>
    /\ pc[b] \in {"reusing", "opening", "setup"} => want[b] # None

\* Nothing, and at most one request or its response, is under way.
Clear(r) == r.out = <<>> /\ r.in = <<>> /\ r.run = None
OneUnderWay(r) ==
  \/ Len(r.out) <= 1 /\ r.in = <<>> /\ r.run = None
  \/ r.out = <<>> /\ Len(r.in) <= 1 /\ r.run = None
  \/ r.out = <<>> /\ r.in = <<>>

\* A connection that the host uses carries at most one request: the one that a
\* session waits for.
Pipe ==
  /\ bridge # None => OneUnderWay(conns[bridge])
  /\ CleanPipe
  /\ \A b \in Browsers : pc[b] = "setup" => OneUnderWay(conns[Len(conns)])

\* A connection that waits to be admitted has been sent nothing but the ping and
\* has answered nothing; commands are sent in the order of their numbers.
Sound(r, last) ==
  /\ r.mcu = "claiming" =>
       r.in = <<>> /\ r.run = None /\ \A i \in DOMAIN r.out : r.out[i].cmd = 0
  /\ \A i \in DOMAIN r.out : r.out[i].cmd <= last
  /\ \A i, j \in DOMAIN r.out : i < j /\ r.out[j].cmd # 0 => r.out[i].cmd < r.out[j].cmd

ConnectionsSound == \A c \in DOMAIN conns : Sound(conns[c], issued)

\* What the owner of an MCU still has to start is newer than all it has started.
\* A superseded session may have older commands, but never starts one again.
OwnerAhead ==
  \A c \in DOMAIN conns : IsOwner(c) =>
    \A k \in DOMAIN started[conns[c].peer], i \in DOMAIN conns[c].out :
      conns[c].out[i].cmd # 0 => started[conns[c].peer][k] < conns[c].out[i].cmd

HostInv == Turn /\ Places /\ OneConnection /\ BridgeAdmitted /\ Pipe

McuInv == ConnectionsSound /\ OwnerAhead /\ CommandsInOrder

Inv == TypeOK /\ HostInv /\ McuInv

-----------------------------------------------------------------------------
(* Sequences and records                                                   *)

LEMMA DomainFacts ==
  ASSUME NEW S, NEW s \in Seq(S)
  PROVE  /\ Len(s) \in Nat /\ DOMAIN s = 1 .. Len(s)
         /\ \A i \in DOMAIN s : s[i] \in S
<1>1. Len(s) \in Nat /\ DOMAIN s = 1 .. Len(s)
  OBVIOUS
<1>2. \A i \in 1 .. Len(s) : s[i] \in S
  BY ElementOfSeq
<1>. QED
  BY <1>1, <1>2

LEMMA ReplaceFacts ==
  ASSUME NEW S, NEW s \in Seq(S), NEW c \in DOMAIN s, NEW x \in S
  PROVE  /\ [s EXCEPT ![c] = x] \in Seq(S)
         /\ Len([s EXCEPT ![c] = x]) = Len(s)
         /\ DOMAIN [s EXCEPT ![c] = x] = DOMAIN s
         /\ [s EXCEPT ![c] = x][c] = x
         /\ \A d \in DOMAIN s : d # c => [s EXCEPT ![c] = x][d] = s[d]
  OBVIOUS

LEMMA AppendFacts ==
  ASSUME NEW S, NEW s \in Seq(S), NEW x \in S
  PROVE  /\ Append(s, x) \in Seq(S)
         /\ Len(s) \in Nat /\ Len(Append(s, x)) = Len(s) + 1
         /\ DOMAIN s = 1 .. Len(s)
         /\ DOMAIN Append(s, x) = 1 .. Len(s) + 1
         /\ \A i \in DOMAIN s : Append(s, x)[i] = s[i]
         /\ Append(s, x)[Len(s) + 1] = x
         /\ Append(s, x) # <<>>
  OBVIOUS

LEMMA TailFacts ==
  ASSUME NEW S, NEW s \in Seq(S), s # <<>>
  PROVE  /\ Head(s) \in S /\ Tail(s) \in Seq(S)
         /\ Len(s) \in Nat /\ Len(s) > 0 /\ Len(Tail(s)) = Len(s) - 1
         /\ Head(s) = s[1] /\ 1 \in DOMAIN s
         /\ DOMAIN s = 1 .. Len(s) /\ DOMAIN Tail(s) = 1 .. Len(s) - 1
         /\ \A i \in 1 .. Len(s) - 1 : Tail(s)[i] = s[i + 1] /\ i + 1 \in DOMAIN s
  OBVIOUS

LEMMA EmptyFacts ==
  ASSUME NEW S
  PROVE  /\ <<>> \in Seq(S) /\ Len(<<>>) = 0 /\ DOMAIN <<>> = {}
         /\ \A s \in Seq(S) : Len(s) = 0 <=> s = <<>>
  OBVIOUS

LEMMA ConnectionFields ==
  ASSUME NEW r \in Connection
  PROVE  /\ r.peer \in Peers /\ r.open \in BOOLEAN /\ r.link \in BOOLEAN
         /\ r.mcu \in {"claiming", "session", "closed"}
         /\ r.next \in Nat /\ r.out \in Seq(Message) /\ r.run \in Message \cup {None}
         /\ r.in \in Seq(Message)
  BY DEF Connection

\* controller_request sends one more request.
LEMMA RequestFacts ==
  ASSUME NEW r \in Connection, NEW cmd \in Nat
  PROVE  LET x == WithRequest(r, cmd)
         IN  /\ x \in Connection
             /\ x.peer = r.peer /\ x.open = r.open /\ x.mcu = r.mcu /\ x.run = r.run /\ x.in = r.in
             /\ x.out = IF r.link THEN Append(r.out, [id |-> r.next, cmd |-> cmd]) ELSE r.out
<1>. DEFINE m == [id |-> r.next, cmd |-> cmd]
            o == IF r.link THEN Append(r.out, m) ELSE r.out
            n == r.next + 1
            x == [r EXCEPT !.next = n, !.out = o]
<1>1. r.out \in Seq(Message) /\ r.next \in Nat /\ m \in Message
  BY ConnectionFields DEF Message
<1>2. o \in Seq(Message) /\ n \in Nat
  BY <1>1, AppendFacts
<1>3. WithRequest(r, cmd) = x
  BY DEF WithRequest, Connection
<1>. HIDE DEF m, o, n
<1>4. x \in Connection
  BY <1>2 DEF Connection
<1>5. /\ x.peer = r.peer /\ x.open = r.open /\ x.mcu = r.mcu /\ x.run = r.run /\ x.in = r.in
      /\ x.out = o
  BY DEF Connection
<1>. HIDE DEF x
<1>. QED
  BY <1>3, <1>4, <1>5 DEF o, m

LEMMA OutFacts ==
  ASSUME NEW r \in Connection
  PROVE  \A i \in DOMAIN r.out : r.out[i] \in Message /\ r.out[i].cmd \in Nat
<1>1. r.out \in Seq(Message)
  BY ConnectionFields
<1>2. \A i \in DOMAIN r.out : r.out[i] \in Message
  BY <1>1, DomainFacts
<1>3. \A m \in Message : m.cmd \in Nat
  BY DEF Message
<1>. QED
  BY <1>2, <1>3

LEMMA RequestSound ==
  ASSUME NEW r \in Connection, NEW last \in Nat, Sound(r, last), NEW cmd \in Nat,
         cmd = 0 \/ (cmd = last + 1 /\ r.mcu # "claiming"),
         NEW new \in {last, last + 1}, cmd <= new
  PROVE  LET x == WithRequest(r, cmd)
         IN  /\ Sound(x, new)
             /\ \A i \in DOMAIN x.out : \/ x.out[i].cmd \in {0, last + 1}
                                        \/ i \in DOMAIN r.out /\ x.out[i] = r.out[i]
             /\ Clear(r) => OneUnderWay(x)
<1>. DEFINE x == WithRequest(r, cmd)
            m == [id |-> r.next, cmd |-> cmd]
<1>0. r.out \in Seq(Message) /\ r.next \in Nat /\ m \in Message /\ m.cmd = cmd
  BY ConnectionFields DEF Message
<1>1. /\ x \in Connection
      /\ x.mcu = r.mcu /\ x.run = r.run /\ x.in = r.in
      /\ x.out = IF r.link THEN Append(r.out, m) ELSE r.out
  BY RequestFacts
<1>. HIDE DEF x, m
<1>2. \A i \in DOMAIN r.out : r.out[i] \in Message /\ r.out[i].cmd \in Nat
  BY OutFacts
<1>9. new \in Nat /\ \A n \in Nat : n <= last => n <= new
  OBVIOUS
<1>3. CASE ~ r.link
  <2>1. x.out = r.out
    BY <1>1, <1>3
  <2>2. Sound(x, new)
    BY <1>1, <1>2, <1>9, <2>1 DEF Sound
  <2>3. Clear(r) => OneUnderWay(x)
    BY <1>1, <2>1 DEF Clear, OneUnderWay
  <2>. QED
    BY <2>1, <2>2, <2>3 DEF x
<1>4. CASE r.link
  <2>1. /\ Len(r.out) \in Nat /\ DOMAIN r.out = 1 .. Len(r.out)
        /\ Len(x.out) = Len(r.out) + 1
        /\ DOMAIN x.out = 1 .. Len(r.out) + 1
        /\ \A i \in DOMAIN r.out : x.out[i] = r.out[i]
        /\ x.out[Len(r.out) + 1] = m
    BY <1>0, <1>1, <1>4, AppendFacts
  <2>2. \A i \in DOMAIN x.out : \/ i = Len(r.out) + 1 /\ x.out[i] = m
                                \/ i \in DOMAIN r.out /\ x.out[i] = r.out[i]
    BY <2>1
  <2>3. Sound(x, new)
    <3>1. x.mcu = "claiming" => x.in = <<>> /\ x.run = None /\ \A i \in DOMAIN x.out : x.out[i].cmd = 0
      BY <1>0, <1>1, <2>2 DEF Sound
    <3>2. \A i \in DOMAIN x.out : x.out[i].cmd <= new
      BY <1>0, <1>2, <2>2 DEF Sound
    <3>3. ASSUME NEW i \in DOMAIN x.out, NEW j \in DOMAIN x.out, i < j, x.out[j].cmd # 0
          PROVE  x.out[i].cmd < x.out[j].cmd
      <4>1. i \in DOMAIN r.out /\ x.out[i] = r.out[i] /\ r.out[i].cmd <= last
        BY <2>1, <3>3 DEF Sound
      <4>2. CASE j \in DOMAIN r.out /\ x.out[j] = r.out[j]
        BY <3>3, <4>1, <4>2 DEF Sound
      <4>3. CASE x.out[j] = m
        BY <1>0, <1>2, <3>3, <4>1, <4>3
      <4>. QED
        BY <2>2, <4>2, <4>3
    <3>. QED
      BY <3>1, <3>2, <3>3 DEF Sound
  <2>4. Clear(r) => OneUnderWay(x)
    <3>. SUFFICES ASSUME Clear(r)
                  PROVE  Len(x.out) <= 1 /\ x.in = <<>> /\ x.run = None
      BY DEF OneUnderWay
    <3>1. Len(r.out) = 0
      BY EmptyFacts DEF Clear
    <3>. QED
      BY <1>1, <2>1, <3>1 DEF Clear
  <2>5. \A i \in DOMAIN x.out : \/ x.out[i].cmd \in {0, last + 1}
                                \/ i \in DOMAIN r.out /\ x.out[i] = r.out[i]
    BY <1>0, <2>2
  <2>. QED
    BY <2>3, <2>4, <2>5 DEF x
<1>. QED
  BY <1>0, <1>3, <1>4, ConnectionFields

\* A connection that loses some of what it carries to the MCU.
LEMMA LessSound ==
  ASSUME NEW r \in Connection, NEW x \in Connection, NEW last \in Nat, NEW new \in Nat, last <= new,
         Sound(r, last), x.out \in {r.out, <<>>},
         x.mcu = "claiming" => r.mcu = "claiming" /\ x.in \in {r.in, <<>>} /\ x.run \in {r.run, None}
  PROVE  Sound(x, new)
<1>1. \A i \in DOMAIN r.out : r.out[i].cmd \in Nat
  BY OutFacts
<1>2. DOMAIN <<>> = {}
  OBVIOUS
<1>3. CASE x.out = r.out
  BY <1>1, <1>3 DEF Sound
<1>4. CASE x.out = <<>>
  BY <1>2, <1>4 DEF Sound
<1>. QED
  BY <1>3, <1>4

LEMMA SeqWiden ==
  ASSUME NEW S, NEW T, S \subseteq T, NEW s \in Seq(S)
  PROVE  s \in Seq(T)
  OBVIOUS

-----------------------------------------------------------------------------
(* The MCU's side: what connections carry and what was started             *)

\* What conns consists of.
LEMMA ConnsFacts ==
  ASSUME TypeOK
  PROVE  /\ conns \in Seq(Connection)
         /\ Len(conns) \in Nat /\ DOMAIN conns = 1 .. Len(conns)
         /\ \A c \in DOMAIN conns : conns[c] \in Connection
         /\ None \notin DOMAIN conns /\ Other \notin DOMAIN conns
<1>1. conns \in Seq(Connection)
  BY DEF TypeOK
<1>2. /\ Len(conns) \in Nat /\ DOMAIN conns = 1 .. Len(conns)
      /\ \A c \in DOMAIN conns : conns[c] \in Connection
  BY <1>1, DomainFacts
<1>. QED
  BY <1>1, <1>2, BridgeAssumption

\* The commands of an MCU's history.
LEMMA StartedFacts ==
  ASSUME TypeOK, NEW p \in Peers
  PROVE  /\ started[p] \in Seq(1 .. issued)
         /\ Len(started[p]) \in Nat /\ DOMAIN started[p] = 1 .. Len(started[p])
         /\ \A k \in DOMAIN started[p] : started[p][k] \in 1 .. issued
<1>1. started[p] \in Seq(1 .. issued)
  BY DEF TypeOK
<1>. QED
  BY <1>1, DomainFacts

\* One connection changes; what it carries to the MCU is a part of what it
\* carried, with at most one new command.
LEMMA ReplaceConnection ==
  ASSUME TypeOK, McuInv, NEW c \in DOMAIN conns, NEW x \in Connection,
         conns' = [conns EXCEPT ![c] = x],
         x.peer = conns[c].peer, Sound(x, issued'),
         issued' \in {issued, issued + 1}, UNCHANGED started,
         \A i \in DOMAIN x.out : \/ x.out[i].cmd \in {0, issued + 1}
                                 \/ i \in DOMAIN conns[c].out /\ x.out[i] = conns[c].out[i],
         \A p \in Peers : owner'[p] \in {owner[p], None, Other}
  PROVE  /\ conns' \in Seq(Connection) /\ Len(conns') = Len(conns) /\ DOMAIN conns' = DOMAIN conns
         /\ conns'[c] = x /\ \A d \in DOMAIN conns : d # c => conns'[d] = conns[d]
         /\ issued' \in Nat /\ started' \in [Peers -> Seq(1 .. issued')]
         /\ McuInv'
<1>0. /\ conns \in Seq(Connection) /\ \A d \in DOMAIN conns : conns[d] \in Connection
      /\ None \notin DOMAIN conns /\ Other \notin DOMAIN conns
  BY ConnsFacts
<1>1. /\ conns' \in Seq(Connection) /\ Len(conns') = Len(conns) /\ DOMAIN conns' = DOMAIN conns
      /\ conns'[c] = x /\ \A d \in DOMAIN conns : d # c => conns'[d] = conns[d]
  BY <1>0, ReplaceFacts
<1>2. issued \in Nat /\ issued' \in Nat /\ issued <= issued' /\ 1 .. issued \subseteq 1 .. issued'
  BY DEF TypeOK
<1>3. started' \in [Peers -> Seq(1 .. issued')]
  <2>1. \A p \in Peers : started[p] \in Seq(1 .. issued')
    BY <1>2, StartedFacts, SeqWiden
  <2>. QED
    BY <2>1 DEF TypeOK
<1>4. ConnectionsSound'
  <2>. SUFFICES ASSUME NEW d \in DOMAIN conns
                PROVE  Sound(conns'[d], issued')
    BY <1>1 DEF ConnectionsSound
  <2>1. CASE d = c
    BY <1>1, <2>1
  <2>2. CASE d # c
    <3>1. conns'[d] = conns[d] /\ Sound(conns[d], issued)
      BY <1>1, <2>2 DEF McuInv, ConnectionsSound
    <3>2. Sound(conns[d], issued')
      BY <1>0, <1>2, <3>1, LessSound
    <3>. QED
      BY <3>1, <3>2
  <2>. QED
    BY <2>1, <2>2
<1>5. OwnerAhead'
  <2>. SUFFICES ASSUME NEW d \in DOMAIN conns', IsOwner(d)',
                       NEW k \in DOMAIN started[conns'[d].peer], NEW i \in DOMAIN conns'[d].out,
                       conns'[d].out[i].cmd # 0
                PROVE  started[conns'[d].peer][k] < conns'[d].out[i].cmd
    BY DEF OwnerAhead
  <2>0. d \in DOMAIN conns
    BY <1>1
  <2>1. conns'[d].peer = conns[d].peer /\ conns[d].peer \in Peers
    BY <1>0, <1>1, <2>0, ConnectionFields
  <2>2. IsOwner(d)
    BY <1>0, <2>0, <2>1 DEF IsOwner
  <2>3. CASE i \in DOMAIN conns[d].out /\ conns'[d].out[i] = conns[d].out[i]
    BY <2>0, <2>1, <2>2, <2>3 DEF McuInv, OwnerAhead
  <2>4. CASE conns'[d].out[i].cmd = issued + 1
    <3>1. started[conns[d].peer][k] \in 1 .. issued
      BY <2>1, StartedFacts
    <3>. QED
      BY <1>2, <2>1, <2>4, <3>1
  <2>. QED
    BY <1>1, <2>0, <2>3, <2>4
<1>6. CommandsInOrder'
  BY DEF McuInv, CommandsInOrder
<1>. QED
  BY <1>1, <1>2, <1>3, <1>4, <1>5, <1>6 DEF McuInv

\* A new connection, which was sent no command.
LEMMA AddConnection ==
  ASSUME TypeOK, McuInv, NEW x \in Connection, conns' = Append(conns, x), Sound(x, issued),
         \A i \in DOMAIN x.out : x.out[i].cmd = 0,
         UNCHANGED <<owner, issued, started>>
  PROVE  /\ conns' \in Seq(Connection) /\ Len(conns') = Len(conns) + 1
         /\ DOMAIN conns' = DOMAIN conns \cup {Len(conns) + 1} /\ Len(conns) + 1 \notin DOMAIN conns
         /\ conns'[Len(conns) + 1] = x /\ \A d \in DOMAIN conns : conns'[d] = conns[d]
         /\ McuInv'
<1>0. /\ conns \in Seq(Connection) /\ \A d \in DOMAIN conns : conns[d] \in Connection
      /\ Len(conns) \in Nat /\ DOMAIN conns = 1 .. Len(conns)
  BY ConnsFacts
<1>1. /\ conns' \in Seq(Connection) /\ Len(conns') = Len(conns) + 1
      /\ DOMAIN conns' = 1 .. Len(conns) + 1
      /\ conns'[Len(conns) + 1] = x /\ \A d \in DOMAIN conns : conns'[d] = conns[d]
  BY <1>0, AppendFacts
<1>2. DOMAIN conns' = DOMAIN conns \cup {Len(conns) + 1} /\ Len(conns) + 1 \notin DOMAIN conns
  BY <1>0, <1>1
<1>4. ConnectionsSound'
  BY <1>1, <1>2 DEF McuInv, ConnectionsSound
<1>5. OwnerAhead'
  <2>. SUFFICES ASSUME NEW d \in DOMAIN conns', IsOwner(d)',
                       NEW k \in DOMAIN started[conns'[d].peer], NEW i \in DOMAIN conns'[d].out,
                       conns'[d].out[i].cmd # 0
                PROVE  started[conns'[d].peer][k] < conns'[d].out[i].cmd
    BY DEF OwnerAhead
  <2>1. d \in DOMAIN conns /\ conns'[d] = conns[d]
    BY <1>1, <1>2
  <2>. QED
    BY <2>1 DEF McuInv, OwnerAhead, IsOwner
<1>6. CommandsInOrder'
  BY DEF McuInv, CommandsInOrder
<1>. QED
  BY <1>1, <1>2, <1>4, <1>5, <1>6 DEF McuInv

-----------------------------------------------------------------------------
(* Steps of the MCUs and of the network                                    *)

\* The host's side does not mind a step that brings no request on the way.
LEMMA HostUnaffected ==
  ASSUME TypeOK, HostInv, NEW c \in DOMAIN conns, NEW x,
         Len(conns') = Len(conns), DOMAIN conns' = DOMAIN conns,
         conns'[c] = x, \A d \in DOMAIN conns : d # c => conns'[d] = conns[d],
         UNCHANGED <<pc, want, queue, bridge>>,
         x.open = conns[c].open, x.mcu = "claiming" => conns[c].mcu = "claiming",
         OneUnderWay(conns[c]) => OneUnderWay(x), Clear(conns[c]) => Clear(x)
  PROVE  HostInv'
<1>0. /\ Len(conns) \in Nat /\ DOMAIN conns = 1 .. Len(conns)
      /\ conns \in Seq(Connection) /\ None \notin DOMAIN conns
  BY ConnsFacts
<1>1. bridge \in DOMAIN conns \cup {None}
  BY DEF TypeOK
<1>2. \A d \in DOMAIN conns : /\ conns'[d].open = conns[d].open
                              /\ conns'[d].mcu = "claiming" => conns[d].mcu = "claiming"
                              /\ OneUnderWay(conns[d]) => OneUnderWay(conns'[d])
                              /\ Clear(conns[d]) => Clear(conns'[d])
  <2>. SUFFICES ASSUME NEW d \in DOMAIN conns
                PROVE  /\ conns'[d].open = conns[d].open
                       /\ conns'[d].mcu = "claiming" => conns[d].mcu = "claiming"
                       /\ OneUnderWay(conns[d]) => OneUnderWay(conns'[d])
                       /\ Clear(conns[d]) => Clear(conns'[d])
    OBVIOUS
  <2>1. CASE d = c
    BY <2>1
  <2>2. CASE d # c
    BY <2>2
  <2>. QED
    BY <2>1, <2>2
<1>3. Turn'
  BY DEF HostInv, Turn, Holds
<1>4. Places'
  <2>1. \A b \in Browsers : pc[b] = "setup" => conns' # <<>>
    <3>1. \A b \in Browsers : pc[b] = "setup" => Len(conns) # 0
      BY <1>0, EmptyFacts DEF HostInv, Places
    <3>. QED
      BY <3>1
  <2>. QED
    BY <2>1 DEF HostInv, Places
<1>5. OneConnection'
  BY <1>2 DEF HostInv, OneConnection, Used
<1>6. BridgeAdmitted'
  BY <1>1, <1>2 DEF HostInv, BridgeAdmitted
<1>7. Pipe'
  <2>1. bridge' # None => OneUnderWay(conns'[bridge'])
    BY <1>1, <1>2 DEF HostInv, Pipe
  <2>2. CleanPipe'
    BY <1>1, <1>2 DEF HostInv, Pipe, CleanPipe, Clear
  <2>3. \A b \in Browsers : pc'[b] = "setup" => OneUnderWay(conns'[Len(conns')])
    <3>. SUFFICES ASSUME NEW b \in Browsers, pc[b] = "setup"
                  PROVE  OneUnderWay(conns'[Len(conns)])
      OBVIOUS
    <3>1. Len(conns) \in DOMAIN conns
      <4>1. Len(conns) # 0
        BY <1>0, EmptyFacts DEF HostInv, Places
      <4>. QED
        BY <1>0, <4>1
    <3>. QED
      BY <1>2, <3>1 DEF HostInv, Pipe
  <2>4. (bridge # None => OneUnderWay(conns[bridge]))'
    BY <2>1
  <2>5. (\A b \in Browsers : pc[b] = "setup" => OneUnderWay(conns[Len(conns)]))'
    BY <2>3
  <2>. QED
    BY <2>2, <2>4, <2>5 DEF Pipe
<1>. QED
  BY <1>3, <1>4, <1>5, <1>6, <1>7 DEF HostInv

\* The variables that only the host changes keep their types.
LEMMA McuTypes ==
  ASSUME TypeOK, UNCHANGED <<pc, want, left, queue, bridge, asked>>,
         conns' \in Seq(Connection), Len(conns') = Len(conns), DOMAIN conns' = DOMAIN conns,
         owner' \in [Peers -> DOMAIN conns \cup {None, Other}],
         issued' \in Nat, started' \in [Peers -> Seq(1 .. issued')]
  PROVE  TypeOK'
  BY DEF TypeOK

LEMMA McuClaimInv ==
  ASSUME Inv, NEW c \in DOMAIN conns, McuClaim(c)
  PROVE  Inv'
<1>. DEFINE r == conns[c]  x == [r EXCEPT !.mcu = "session"]
<1>0. TypeOK /\ HostInv /\ McuInv /\ r \in Connection /\ Sound(r, issued) /\ issued \in Nat
  BY ConnsFacts DEF Inv, McuInv, ConnectionsSound, TypeOK
<1>1. conns' = [conns EXCEPT ![c] = x]
  BY <1>0, ConnsFacts DEF McuClaim
<1>2. /\ x \in Connection /\ x.peer = r.peer /\ x.open = r.open /\ x.mcu = "session"
      /\ x.out = r.out /\ x.in = r.in /\ x.run = r.run
  BY <1>0 DEF Connection
<1>. HIDE DEF x
<1>3. /\ conns' \in Seq(Connection) /\ Len(conns') = Len(conns) /\ DOMAIN conns' = DOMAIN conns
      /\ conns'[c] = x /\ \A d \in DOMAIN conns : d # c => conns'[d] = conns[d]
  BY <1>0, <1>1, <1>2, ConnsFacts, ReplaceFacts
<1>4. r.mcu = "claiming" /\ \A i \in DOMAIN x.out : x.out[i].cmd = 0
  BY <1>0, <1>2 DEF McuClaim, Sound
<1>5. HostInv'
  <2>1. (OneUnderWay(r) => OneUnderWay(x)) /\ (Clear(r) => Clear(x))
    BY <1>2 DEF OneUnderWay, Clear
  <2>2. UNCHANGED <<pc, want, queue, bridge>>
    BY DEF McuClaim
  <2>. QED
    BY <1>0, <1>2, <1>3, <1>4, <2>1, <2>2, HostUnaffected
<1>6. ConnectionsSound'
  <2>1. Sound(x, issued)
    BY <1>0, <1>2 DEF Sound
  <2>. QED
    BY <1>0, <1>3, <2>1 DEF McuInv, ConnectionsSound, McuClaim
<1>7. r.peer \in Peers /\ owner' = [owner EXCEPT ![r.peer] = c]
  BY <1>0, ConnectionFields DEF McuClaim
<1>8. OwnerAhead'
  <2>. SUFFICES ASSUME NEW d \in DOMAIN conns', IsOwner(d)',
                       NEW k \in DOMAIN started[conns'[d].peer], NEW i \in DOMAIN conns'[d].out,
                       conns'[d].out[i].cmd # 0
                PROVE  started[conns'[d].peer][k] < conns'[d].out[i].cmd
    BY DEF OwnerAhead, McuClaim
  <2>1. d \in DOMAIN conns /\ d # c /\ conns'[d] = conns[d] /\ conns[d].peer \in Peers
    BY <1>0, <1>3, <1>4, ConnsFacts, ConnectionFields
  <2>2. IsOwner(d)
    BY <1>0, <1>7, <2>1 DEF IsOwner, TypeOK
  <2>. QED
    BY <1>0, <2>1, <2>2 DEF McuInv, OwnerAhead
<1>9. CommandsInOrder'
  BY <1>0 DEF McuInv, CommandsInOrder, McuClaim
<1>10. TypeOK'
  <2>1. owner' \in [Peers -> DOMAIN conns \cup {None, Other}]
    BY <1>0, <1>7 DEF TypeOK
  <2>. QED
    BY <1>0, <1>3, <2>1, McuTypes DEF McuClaim, TypeOK
<1>. QED
  BY <1>5, <1>6, <1>8, <1>9, <1>10 DEF Inv, McuInv

\* A step of an MCU or of the network that starts nothing: connection c becomes x.
LEMMA McuQuietStep ==
  ASSUME Inv, NEW c \in DOMAIN conns, NEW x \in Connection,
         conns' = [conns EXCEPT ![c] = x],
         x.peer = conns[c].peer, x.open = conns[c].open,
         x.mcu = "claiming" => conns[c].mcu = "claiming" /\ x.in \in {conns[c].in, <<>>}
                               /\ x.run \in {conns[c].run, None},
         x.out \in {conns[c].out, <<>>},
         OneUnderWay(conns[c]) => OneUnderWay(x), Clear(conns[c]) => Clear(x),
         UNCHANGED <<pc, want, left, queue, bridge, asked, issued, started>>,
         owner' \in [Peers -> DOMAIN conns \cup {None, Other}],
         \A p \in Peers : owner'[p] \in {owner[p], None, Other}
  PROVE  Inv'
<1>0. TypeOK /\ HostInv /\ McuInv /\ conns[c] \in Connection /\ Sound(conns[c], issued) /\ issued \in Nat
  BY ConnsFacts DEF Inv, McuInv, ConnectionsSound, TypeOK
<1>1. Sound(x, issued') /\ issued' \in {issued, issued + 1}
  BY <1>0, LessSound
<1>2. \A i \in DOMAIN x.out : i \in DOMAIN conns[c].out /\ x.out[i] = conns[c].out[i]
  BY EmptyFacts
<1>3. /\ conns' \in Seq(Connection) /\ Len(conns') = Len(conns) /\ DOMAIN conns' = DOMAIN conns
      /\ conns'[c] = x /\ \A d \in DOMAIN conns : d # c => conns'[d] = conns[d]
      /\ issued' \in Nat /\ started' \in [Peers -> Seq(1 .. issued')]
      /\ McuInv'
  BY <1>0, <1>1, <1>2, ReplaceConnection
<1>4. HostInv'
  BY <1>0, <1>3, HostUnaffected
<1>5. TypeOK'
  BY <1>0, <1>3, McuTypes
<1>. QED
  BY <1>3, <1>4, <1>5 DEF Inv

LEMMA McuFinishInv ==
  ASSUME Inv, NEW c \in DOMAIN conns, McuFinish(c)
  PROVE  Inv'
<1>. DEFINE r == conns[c]
            answer == IF r.link /\ r.open THEN Append(r.in, r.run) ELSE r.in
            x == [r EXCEPT !.run = None, !.in = answer]
<1>0. TypeOK /\ r \in Connection
  BY ConnsFacts DEF Inv
<1>1. r.in \in Seq(Message) /\ r.run \in Message
  BY <1>0, ConnectionFields DEF McuFinish
<1>2. answer \in Seq(Message) /\ (r.in = <<>> => Len(answer) <= 1)
  BY <1>1, AppendFacts, EmptyFacts
<1>3. conns' = [conns EXCEPT ![c] = x]
  BY <1>0, ConnsFacts DEF McuFinish
<1>. HIDE DEF answer
<1>4. /\ x \in Connection /\ x.peer = r.peer /\ x.open = r.open /\ x.mcu = r.mcu
      /\ x.out = r.out /\ x.in = answer /\ x.run = None
  BY <1>0, <1>2 DEF Connection
<1>. HIDE DEF x
<1>5. (OneUnderWay(r) => OneUnderWay(x)) /\ (Clear(r) => Clear(x))
  BY <1>2, <1>4 DEF OneUnderWay, Clear, McuFinish
<1>6. owner' = owner /\ owner \in [Peers -> DOMAIN conns \cup {None, Other}]
      /\ UNCHANGED <<pc, want, left, queue, bridge, asked, issued, started>> /\ r.mcu # "claiming"
  BY <1>0 DEF McuFinish, TypeOK
<1>. QED
  BY <1>3, <1>4, <1>5, <1>6, McuQuietStep

LEMMA McuEndInv ==
  ASSUME Inv, NEW c \in DOMAIN conns, McuEnd(c)
  PROVE  Inv'
<1>. DEFINE r == conns[c]
            x == [r EXCEPT !.mcu = "closed", !.link = FALSE, !.run = None, !.out = <<>>]
<1>0. TypeOK /\ r \in Connection
  BY ConnsFacts DEF Inv
<1>1. <<>> \in Seq(Message)
  OBVIOUS
<1>3. conns' = [conns EXCEPT ![c] = x]
  BY <1>0, ConnsFacts DEF McuEnd
<1>4. /\ x \in Connection /\ x.peer = r.peer /\ x.open = r.open /\ x.mcu = "closed"
      /\ x.out = <<>> /\ x.in = r.in /\ x.run = None
  BY <1>0, <1>1 DEF Connection
<1>. HIDE DEF x
<1>5. (OneUnderWay(r) => OneUnderWay(x)) /\ (Clear(r) => Clear(x))
  <2>1. Len(<<>>) = 0 /\ 0 <= 1
    OBVIOUS
  <2>. QED
    BY <1>4, <2>1 DEF OneUnderWay, Clear
<1>6. /\ owner' = [owner EXCEPT ![r.peer] = IF @ = c THEN None ELSE @] /\ r.peer \in Peers
      /\ UNCHANGED <<pc, want, left, queue, bridge, asked, issued, started>>
  BY <1>0, ConnectionFields DEF McuEnd
<1>7. /\ owner' \in [Peers -> DOMAIN conns \cup {None, Other}]
      /\ \A p \in Peers : owner'[p] \in {owner[p], None, Other}
  BY <1>0, <1>6 DEF TypeOK
<1>. QED
  BY <1>3, <1>4, <1>5, <1>6, <1>7, McuQuietStep

LEMMA LinkBreaksInv ==
  ASSUME Inv, NEW c \in DOMAIN conns, LinkBreaks(c)
  PROVE  Inv'
<1>. DEFINE r == conns[c]
            x == [r EXCEPT !.link = FALSE, !.out = <<>>, !.in = <<>>]
<1>0. TypeOK /\ r \in Connection
  BY ConnsFacts DEF Inv
<1>1. <<>> \in Seq(Message)
  OBVIOUS
<1>3. conns' = [conns EXCEPT ![c] = x]
  BY <1>0, ConnsFacts DEF LinkBreaks
<1>4. /\ x \in Connection /\ x.peer = r.peer /\ x.open = r.open /\ x.mcu = r.mcu
      /\ x.out = <<>> /\ x.in = <<>> /\ x.run = r.run
  BY <1>0, <1>1 DEF Connection
<1>. HIDE DEF x
<1>5. (OneUnderWay(r) => OneUnderWay(x)) /\ (Clear(r) => Clear(x))
  BY <1>4 DEF OneUnderWay, Clear
<1>6. /\ owner' = owner /\ owner \in [Peers -> DOMAIN conns \cup {None, Other}]
      /\ UNCHANGED <<pc, want, left, queue, bridge, asked, issued, started>>
  BY <1>0 DEF LinkBreaks, TypeOK
<1>. QED
  BY <1>3, <1>4, <1>5, <1>6, McuQuietStep

\* A session that owns its MCU starts its oldest request.
LEMMA McuStartInv ==
  ASSUME Inv, NEW c \in DOMAIN conns, McuStart(c)
  PROVE  Inv'
<1>. DEFINE r == conns[c]  p == r.peer  first == Head(r.out)
            rest == Tail(r.out)
            x == [r EXCEPT !.run = first, !.out = rest]
            history == IF first.cmd = 0 THEN started[p] ELSE Append(started[p], first.cmd)
<1>0. TypeOK /\ HostInv /\ McuInv /\ r \in Connection /\ Sound(r, issued) /\ issued \in Nat /\ p \in Peers
  BY ConnsFacts, ConnectionFields DEF Inv, McuInv, ConnectionsSound, TypeOK
<1>1. r.out \in Seq(Message) /\ r.out # <<>>
  BY <1>0, ConnectionFields DEF McuStart
<1>2. /\ first \in Message /\ rest \in Seq(Message) /\ Len(r.out) \in Nat
      /\ Len(rest) = Len(r.out) - 1 /\ first = r.out[1] /\ 1 \in DOMAIN r.out
      /\ DOMAIN rest = 1 .. Len(r.out) - 1
      /\ \A i \in 1 .. Len(r.out) - 1 : rest[i] = r.out[i + 1] /\ i + 1 \in DOMAIN r.out
  BY <1>1, TailFacts
<1>3. /\ conns' = [conns EXCEPT ![c] = x]
      /\ started' = [started EXCEPT ![p] = history] /\ IsOwner(c) /\ r.mcu = "session"
      /\ UNCHANGED <<pc, want, left, queue, bridge, owner, asked, issued>>
  BY <1>0, ConnsFacts DEF McuStart, TypeOK
<1>. HIDE DEF first, rest, history
<1>4. /\ x \in Connection /\ x.peer = p /\ x.open = r.open /\ x.mcu = r.mcu
      /\ x.out = rest /\ x.in = r.in /\ x.run = first
  BY <1>0, <1>2 DEF Connection
<1>. HIDE DEF x
<1>5. /\ conns' \in Seq(Connection) /\ Len(conns') = Len(conns) /\ DOMAIN conns' = DOMAIN conns
      /\ conns'[c] = x /\ \A d \in DOMAIN conns : d # c => conns'[d] = conns[d]
  BY <1>0, <1>3, <1>4, ConnsFacts, ReplaceFacts
<1>6. \A i \in DOMAIN r.out : r.out[i].cmd \in Nat /\ r.out[i].cmd <= issued
  BY <1>0, OutFacts DEF Sound
<1>7. Sound(x, issued)
  <2>1. \A i \in DOMAIN x.out : x.out[i].cmd <= issued
    BY <1>2, <1>4, <1>6
  <2>2. ASSUME NEW i \in DOMAIN x.out, NEW j \in DOMAIN x.out, i < j, x.out[j].cmd # 0
        PROVE  x.out[i].cmd < x.out[j].cmd
    <3>1. /\ i + 1 \in DOMAIN r.out /\ j + 1 \in DOMAIN r.out /\ i + 1 < j + 1
          /\ x.out[i] = r.out[i + 1] /\ x.out[j] = r.out[j + 1]
      BY <1>2, <1>4, <2>2
    <3>. QED
      BY <1>0, <2>2, <3>1 DEF Sound
  <2>. QED
    BY <1>3, <1>4, <2>1, <2>2 DEF Sound
<1>8. ConnectionsSound'
  BY <1>0, <1>3, <1>5, <1>7 DEF McuInv, ConnectionsSound
<1>9. \A k \in DOMAIN started[p] : first.cmd # 0 => started[p][k] < first.cmd
  BY <1>0, <1>2, <1>3 DEF McuInv, OwnerAhead
<1>10. /\ started[p] \in Seq(1 .. issued) /\ Len(started[p]) \in Nat
       /\ DOMAIN started[p] = 1 .. Len(started[p])
       /\ \A k \in DOMAIN started[p] : started[p][k] \in 1 .. issued
  BY <1>0, StartedFacts
<1>11. first.cmd # 0 => first.cmd \in 1 .. issued
  BY <1>0, <1>2, <1>6
<1>12. /\ history \in Seq(1 .. issued)
       /\ \A k \in DOMAIN history :
            \/ k \in DOMAIN started[p] /\ history[k] = started[p][k]
            \/ k = Len(started[p]) + 1 /\ first.cmd # 0 /\ history[k] = first.cmd
  <2>1. CASE first.cmd = 0
    BY <1>10, <2>1 DEF history
  <2>2. CASE first.cmd # 0
    <3>1. /\ history \in Seq(1 .. issued) /\ DOMAIN history = 1 .. Len(started[p]) + 1
          /\ \A i \in DOMAIN started[p] : history[i] = started[p][i]
          /\ history[Len(started[p]) + 1] = first.cmd
      BY <1>10, <1>11, <2>2, AppendFacts DEF history
    <3>. QED
      BY <1>10, <2>2, <3>1
  <2>. QED
    BY <2>1, <2>2
<1>13. /\ started' \in [Peers -> Seq(1 .. issued)] /\ started'[p] = history
       /\ \A q \in Peers : q # p => started'[q] = started[q]
  BY <1>0, <1>3, <1>12 DEF TypeOK
<1>14. OwnerAhead'
  <2>. SUFFICES ASSUME NEW d \in DOMAIN conns', IsOwner(d)',
                       NEW k \in DOMAIN started'[conns'[d].peer], NEW i \in DOMAIN conns'[d].out,
                       conns'[d].out[i].cmd # 0
                PROVE  started'[conns'[d].peer][k] < conns'[d].out[i].cmd
    BY DEF OwnerAhead
  <2>1. CASE d = c
    <3>1. /\ conns'[d].peer = p /\ started'[p] = history
          /\ i + 1 \in DOMAIN r.out /\ conns'[d].out[i] = r.out[i + 1] /\ 1 < i + 1
          /\ r.out[i + 1].cmd # 0
      <4>1. conns'[d] = x /\ conns'[d].out = rest /\ conns'[d].peer = p
        BY <1>4, <1>5, <2>1
      <4>2. i \in 1 .. Len(r.out) - 1
        BY <1>2, <4>1, Zenon
      <4>3. rest[i] = r.out[i + 1] /\ i + 1 \in DOMAIN r.out
        BY <1>2, <4>2, Zenon
      <4>4. 1 < i + 1
        BY <4>2
      <4>. QED
        BY <1>13, <4>1, <4>3, <4>4
    <3>2. CASE k \in DOMAIN started[p] /\ history[k] = started[p][k]
      BY <1>0, <1>3, <3>1, <3>2 DEF McuInv, OwnerAhead
    <3>3. CASE history[k] = first.cmd
      BY <1>0, <1>2, <3>1, <3>3 DEF Sound
    <3>. QED
      BY <1>12, <3>1, <3>2, <3>3
  <2>2. CASE d # c
    <3>1. d \in DOMAIN conns /\ conns'[d] = conns[d] /\ conns[d].peer \in Peers
      BY <1>0, <1>5, <2>2, ConnsFacts, ConnectionFields
    <3>2. IsOwner(d) /\ conns[d].peer # p
      BY <1>3, <2>2, <3>1 DEF IsOwner
    <3>. QED
      BY <1>0, <1>13, <3>1, <3>2 DEF McuInv, OwnerAhead
  <2>. QED
    BY <2>1, <2>2
<1>15. CommandsInOrder'
  <2>. SUFFICES ASSUME NEW q \in Peers, NEW i \in DOMAIN started'[q], NEW j \in DOMAIN started'[q], i < j
                PROVE  started'[q][i] < started'[q][j]
    BY DEF CommandsInOrder
  <2>1. CASE q # p
    BY <1>0, <1>13, <2>1 DEF McuInv, CommandsInOrder
  <2>2. CASE q = p
    <3>1. i \in DOMAIN history /\ j \in DOMAIN history
      BY <1>13, <2>2
    <3>2. CASE j \in DOMAIN started[p] /\ history[j] = started[p][j]
      <4>1. i \in DOMAIN started[p] /\ history[i] = started[p][i]
        BY <1>10, <1>12, <3>1, <3>2
      <4>. QED
        BY <1>0, <1>13, <2>2, <3>2, <4>1 DEF McuInv, CommandsInOrder
    <3>3. CASE j = Len(started[p]) + 1 /\ first.cmd # 0 /\ history[j] = first.cmd
      <4>1. i \in DOMAIN started[p] /\ history[i] = started[p][i]
        BY <1>10, <1>12, <3>1, <3>3
      <4>. QED
        BY <1>9, <1>13, <2>2, <3>3, <4>1
    <3>. QED
      BY <1>12, <3>1, <3>2, <3>3
  <2>. QED
    BY <2>1, <2>2
<1>16. HostInv'
  <2>1. OneUnderWay(r) => OneUnderWay(x)
    <3>. SUFFICES ASSUME OneUnderWay(r)
                  PROVE  rest = <<>> /\ r.in = <<>>
      BY <1>4 DEF OneUnderWay
    <3>1. Len(r.out) <= 1 /\ r.in = <<>>
      BY <1>1 DEF OneUnderWay
    <3>2. Len(r.out) # 0
      BY <1>1, EmptyFacts
    <3>3. Len(rest) = 0
      <4>1. \A n \in Nat : n <= 1 /\ n # 0 => n - 1 = 0
        OBVIOUS
      <4>2. Len(r.out) \in Nat /\ Len(rest) = Len(r.out) - 1
        BY <1>2, Zenon
      <4>. QED
        BY <3>1, <3>2, <4>1, <4>2, Zenon
    <3>. QED
      BY <1>2, <3>1, <3>3, EmptyFacts
  <2>2. Clear(r) => Clear(x)
    BY <1>1 DEF Clear
  <2>. QED
    BY <1>0, <1>3, <1>4, <1>5, <2>1, <2>2, HostUnaffected
<1>17. TypeOK'
  <2>1. owner' \in [Peers -> DOMAIN conns \cup {None, Other}] /\ issued' \in Nat
    BY <1>0, <1>3 DEF TypeOK
  <2>. QED
    BY <1>0, <1>3, <1>5, <1>13, <2>1, McuTypes
<1>. QED
  BY <1>8, <1>14, <1>15, <1>16, <1>17 DEF Inv, McuInv

\* Another host takes an MCU over.
LEMMA OtherClaimsInv ==
  ASSUME Inv, NEW p \in Peers, OtherClaims(p)
  PROVE  Inv'
<1>0. TypeOK /\ HostInv /\ McuInv /\ \A c \in DOMAIN conns : c # Other /\ conns[c].peer \in Peers
  BY ConnsFacts, ConnectionFields DEF Inv
<1>1. /\ owner' = [owner EXCEPT ![p] = Other] /\ owner \in [Peers -> DOMAIN conns \cup {None, Other}]
      /\ UNCHANGED <<pc, want, left, queue, bridge, conns, asked, issued, started>>
  BY <1>0 DEF OtherClaims, TypeOK
<1>2. TypeOK'
  BY <1>0, <1>1 DEF TypeOK
<1>3. HostInv'
  BY <1>0, <1>1 DEF HostInv, Turn, Holds, Places, OneConnection, Used, BridgeAdmitted, Pipe, CleanPipe
<1>4. \A c \in DOMAIN conns : IsOwner(c)' => IsOwner(c)
  BY <1>0, <1>1 DEF IsOwner
<1>5. McuInv'
  BY <1>0, <1>1, <1>4 DEF McuInv, ConnectionsSound, OwnerAhead, CommandsInOrder
<1>. QED
  BY <1>2, <1>3, <1>5 DEF Inv

-----------------------------------------------------------------------------
(* Steps of the host                                                       *)

\* The mutex: nobody but its holder is active.
LEMMA OnlyHolder ==
  ASSUME HostInv, NEW b \in Browsers, Holds(b)
  PROVE  \A d \in Browsers : d # b => pc[d] \notin Active
  BY DEF HostInv, Turn, Holds

\* A session that has the mutex and is at the beginning of its request finds the
\* bridge, if there is one, with nothing under way, and no other connection.
LEMMA QueuedFacts ==
  ASSUME TypeOK, HostInv, NEW b \in Browsers, pc[b] = "queued" \/ pc[b] = "opening", Holds(b)
  PROVE  /\ bridge # None => bridge \in DOMAIN conns /\ Clear(conns[bridge])
                             /\ conns[bridge].mcu # "claiming"
         /\ \A c \in DOMAIN conns : conns[c].open => c = bridge
<1>1. \A d \in Browsers : pc[d] \notin {"reusing", "asking", "setup"}
  BY OnlyHolder DEF Active, Waiting
<1>. QED
  BY <1>1 DEF HostInv, Pipe, CleanPipe, Clear, OneConnection, BridgeAdmitted, TypeOK

\* A session that waits for a response has the mutex, and the connection it uses
\* is the only one that is open.
LEMMA WaitingFacts ==
  ASSUME TypeOK, HostInv, NEW b \in Browsers, pc[b] \in Waiting
  PROVE  /\ Holds(b) /\ Used(b) \in DOMAIN conns /\ bridge \in {Used(b), None}
         /\ pc[b] # "setup" => Used(b) = bridge /\ conns[bridge].mcu # "claiming"
         /\ OneUnderWay(conns[Used(b)])
         /\ \A c \in DOMAIN conns : conns[c].open => c = Used(b)
<1>0. Holds(b) /\ \A d \in Browsers : d # b => pc[d] \notin Active
  BY OnlyHolder DEF HostInv, Turn, Active
<1>1. conns \in Seq(Connection) /\ Len(conns) \in Nat /\ DOMAIN conns = 1 .. Len(conns) /\ None \notin DOMAIN conns
  BY ConnsFacts
<1>2. CASE pc[b] = "setup"
  <2>1. bridge = None /\ conns # <<>> /\ Used(b) = Len(conns)
    BY <1>2 DEF HostInv, Places, Used
  <2>2. Len(conns) # 0
    BY <1>1, <2>1, EmptyFacts
  <2>3. Len(conns) \in DOMAIN conns
    BY <1>1, <2>2
  <2>4. OneUnderWay(conns[Used(b)])
    BY <1>2, <2>1 DEF HostInv, Pipe
  <2>5. \A c \in DOMAIN conns : conns[c].open => c = Used(b)
    BY <1>0, <1>1, <2>1 DEF HostInv, OneConnection, Active, Waiting
  <2>. QED
    BY <1>0, <1>2, <2>1, <2>3, <2>4, <2>5
<1>3. CASE pc[b] # "setup"
  <2>1. bridge # None /\ Used(b) = bridge /\ bridge \in DOMAIN conns
    BY <1>3 DEF HostInv, Places, Used, Waiting, TypeOK
  <2>2. OneUnderWay(conns[Used(b)]) /\ conns[bridge].mcu # "claiming"
    BY <2>1 DEF HostInv, Pipe, BridgeAdmitted
  <2>3. \A c \in DOMAIN conns : conns[c].open => c = Used(b)
    BY <1>0, <1>3, <2>1 DEF HostInv, OneConnection, Active, Waiting
  <2>. QED
    BY <1>0, <2>1, <2>2, <2>3
<1>. QED
  BY <1>2, <1>3

\* The mutex goes to the next session, which has yet to begin.
LEMMA AnswerFacts ==
  ASSUME TypeOK, HostInv, NEW b \in Browsers, Holds(b), Answer(b)
  PROVE  /\ \A d \in Browsers : pc'[d] \notin Active
         /\ pc' \in [Browsers -> Phase] /\ want' \in [Browsers -> Peers \cup {None}]
         /\ left' \in [Browsers -> Nat] /\ queue' \in Seq(Browsers)
<1>1. queue' \in Seq(Browsers)
  BY TailFacts DEF Answer, Holds, TypeOK
<1>2. \A d \in Browsers : d # b => pc[d] \notin Active
  BY OnlyHolder
<1>3. \A d \in Browsers : pc'[d] = IF d = b THEN "idle" ELSE pc[d]
  BY DEF Answer, Goto, TypeOK
<1>4. pc' \in [Browsers -> Phase] /\ want' \in [Browsers -> Peers \cup {None}] /\ left' \in [Browsers -> Nat]
  BY DEF Answer, Goto, TypeOK, Phase
<1>. QED
  BY <1>1, <1>2, <1>3, <1>4 DEF Active, Waiting

\* Nobody works on a connection.
LEMMA Settled ==
  ASSUME \A d \in Browsers : pc'[d] \notin Active,
         bridge' # None => Clear(conns'[bridge']) /\ conns'[bridge'].mcu # "claiming",
         \A c \in DOMAIN conns' : conns'[c].open => c = bridge'
  PROVE  HostInv'
<1>0. \A d \in Browsers : pc'[d] \notin {"reusing", "opening", "setup", "asking"}
  BY DEF Active, Waiting
<1>1. Turn' /\ Places' /\ OneConnection' /\ BridgeAdmitted'
  BY <1>0 DEF Turn, Places, OneConnection, BridgeAdmitted, Active, Waiting
<1>2. Pipe'
  BY <1>0 DEF Pipe, CleanPipe, Clear, OneUnderWay
<1>. QED
  BY <1>1, <1>2 DEF HostInv

\* The holder of the mutex, and only it, works on a connection.
LEMMA Working ==
  ASSUME NEW b \in Browsers, Holds(b)', \A d \in Browsers : d # b => pc'[d] \notin Active,
         pc'[b] \in {"reusing", "setup", "opening"} => want'[b] # None,
         bridge' # None => conns'[bridge'].mcu # "claiming",
         \/ /\ pc'[b] \in {"reusing", "asking"} /\ bridge' # None
            /\ OneUnderWay(conns'[bridge'])
            /\ \A c \in DOMAIN conns' : conns'[c].open => c = bridge'
         \/ /\ pc'[b] = "opening" /\ bridge' = None
            /\ \A c \in DOMAIN conns' : ~ conns'[c].open
         \/ /\ pc'[b] = "setup" /\ bridge' = None /\ conns' # <<>>
            /\ OneUnderWay(conns'[Len(conns')])
            /\ \A c \in DOMAIN conns' : conns'[c].open => c = Len(conns')
  PROVE  HostInv'
<1>0. \A d \in Browsers : d # b => pc'[d] \notin {"reusing", "opening", "setup", "asking"}
  BY DEF Active, Waiting
<1>1. Turn'
  BY DEF Turn
<1>2. Places'
  BY <1>0 DEF Places
<1>3. OneConnection' /\ BridgeAdmitted'
  BY DEF OneConnection, Used, BridgeAdmitted
<1>4. Pipe'
  BY <1>0 DEF Pipe, CleanPipe
<1>. QED
  BY <1>1, <1>2, <1>3, <1>4 DEF HostInv

LEMMA BrowserMessageInv ==
  ASSUME Inv, NEW b \in Browsers, NEW p \in Peers \cup {None}, NEW n \in Nat \ {0}, BrowserMessage(b, p, n)
  PROVE  Inv'
<1>0. TypeOK /\ HostInv /\ McuInv
  BY DEF Inv
<1>1. /\ UNCHANGED <<bridge, conns, owner, issued, started>>
      /\ \A d \in Browsers : pc'[d] = IF d = b THEN "queued" ELSE pc[d]
      /\ \A d \in Browsers : want'[d] = IF d = b THEN p ELSE want[d]
      /\ pc[b] = "idle" /\ queue' = Append(queue, b)
  BY <1>0 DEF BrowserMessage, Goto, TypeOK
<1>2. TypeOK'
  <2>1. queue' \in Seq(Browsers)
    BY <1>0, <1>1, AppendFacts DEF TypeOK
  <2>2. asked' \in 0 .. MaxRequests
    BY <1>0, BridgeAssumption DEF BrowserMessage, TypeOK
  <2>3. pc' \in [Browsers -> Phase] /\ want' \in [Browsers -> Peers \cup {None}] /\ left' \in [Browsers -> Nat]
    BY <1>0 DEF BrowserMessage, Goto, TypeOK, Phase
  <2>. QED
    BY <1>0, <1>1, <2>1, <2>2, <2>3 DEF TypeOK
<1>3. \A d \in Browsers : Holds(d) => Holds(d)'
  <2>1. queue \in Seq(Browsers)
    BY <1>0 DEF TypeOK
  <2>2. queue # <<>> => Append(queue, b) # <<>> /\ Head(Append(queue, b)) = Head(queue)
    BY <2>1
  <2>. QED
    BY <1>1, <2>2 DEF Holds
<1>4. HostInv'
  <2>1. Turn'
    BY <1>0, <1>1, <1>3 DEF HostInv, Turn, Active, Waiting
  <2>2. Places' /\ OneConnection' /\ BridgeAdmitted'
    BY <1>0, <1>1 DEF HostInv, Places, OneConnection, Used, BridgeAdmitted
  <2>3. Pipe'
    BY <1>0, <1>1 DEF HostInv, Pipe, CleanPipe
  <2>. QED
    BY <2>1, <2>2, <2>3 DEF HostInv
<1>5. McuInv'
  BY <1>0, <1>1 DEF McuInv, ConnectionsSound, OwnerAhead, IsOwner, CommandsInOrder
<1>. QED
  BY <1>2, <1>4, <1>5 DEF Inv

\* The session answers and touches no connection.
LEMMA JustAnswerInv ==
  ASSUME Inv, NEW b \in Browsers, pc[b] = "queued" \/ pc[b] = "opening", Holds(b), JustAnswer(b)
  PROVE  Inv'
<1>0. TypeOK /\ HostInv /\ McuInv /\ Answer(b) /\ UNCHANGED <<bridge, conns, owner, asked, issued, started>>
  BY DEF Inv, JustAnswer
<1>1. /\ \A d \in Browsers : pc'[d] \notin Active
      /\ pc' \in [Browsers -> Phase] /\ want' \in [Browsers -> Peers \cup {None}]
      /\ left' \in [Browsers -> Nat] /\ queue' \in Seq(Browsers)
  BY <1>0, AnswerFacts
<1>2. TypeOK'
  BY <1>0, <1>1 DEF TypeOK
<1>3. HostInv'
  BY <1>0, <1>1, QueuedFacts, Settled
<1>4. McuInv'
  BY <1>0 DEF McuInv, ConnectionsSound, OwnerAhead, IsOwner, CommandsInOrder
<1>. QED
  BY <1>2, <1>3, <1>4 DEF Inv

\* A session that holds the mutex moves on.
LEMMA GotoFacts ==
  ASSUME TypeOK, HostInv, NEW b \in Browsers, Holds(b), NEW phase \in Phase, Goto(b, phase), UNCHANGED queue
  PROVE  /\ Holds(b)' /\ pc'[b] = phase /\ pc' \in [Browsers -> Phase]
         /\ \A d \in Browsers : d # b => pc'[d] \notin Active
<1>1. \A d \in Browsers : d # b => pc[d] \notin Active
  BY OnlyHolder
<1>2. pc' \in [Browsers -> Phase] /\ \A d \in Browsers : pc'[d] = IF d = b THEN phase ELSE pc[d]
  BY DEF Goto, TypeOK
<1>. QED
  BY <1>1, <1>2 DEF Holds

\* A request on the bridge, which carries nothing: a command or a ping.
LEMMA BridgeRequestInv ==
  ASSUME Inv, NEW b \in Browsers, pc[b] = "queued", Holds(b), bridge # None, NEW cmd \in Nat,
         NEW phase \in {"asking", "reusing"}, phase = "reusing" => want[b] # None,
         cmd = 0 \/ cmd = issued + 1, issued' = IF cmd = 0 THEN issued ELSE issued + 1,
         conns' = [conns EXCEPT ![bridge] = WithRequest(@, cmd)],
         Goto(b, phase),
         UNCHANGED <<want, left, queue, bridge, owner, asked, started>>
  PROVE  Inv'
<1>. DEFINE r == conns[bridge]  x == WithRequest(r, cmd)
<1>0. TypeOK /\ HostInv /\ McuInv /\ issued \in Nat
  BY DEF Inv, TypeOK
<1>1. /\ bridge \in DOMAIN conns /\ Clear(r) /\ r.mcu # "claiming"
      /\ \A c \in DOMAIN conns : conns[c].open => c = bridge
  BY <1>0, QueuedFacts
<1>2. r \in Connection /\ Sound(r, issued)
  BY <1>0, <1>1, ConnsFacts DEF McuInv, ConnectionsSound
<1>3. issued' \in {issued, issued + 1} /\ cmd <= issued' /\ issued' \in Nat
  BY <1>0
<1>4. /\ x \in Connection /\ x.peer = r.peer /\ x.open = r.open /\ x.mcu = r.mcu
  BY <1>2, RequestFacts
<1>5. /\ Sound(x, issued') /\ OneUnderWay(x)
      /\ \A i \in DOMAIN x.out : \/ x.out[i].cmd \in {0, issued + 1}
                                 \/ i \in DOMAIN r.out /\ x.out[i] = r.out[i]
  BY <1>0, <1>1, <1>2, <1>3, RequestSound
<1>6. conns' = [conns EXCEPT ![bridge] = x]
  BY <1>0, <1>1, ConnsFacts
<1>. HIDE DEF x
<1>7. /\ conns' \in Seq(Connection) /\ Len(conns') = Len(conns) /\ DOMAIN conns' = DOMAIN conns
      /\ conns'[bridge] = x /\ \A d \in DOMAIN conns : d # bridge => conns'[d] = conns[d]
      /\ started' \in [Peers -> Seq(1 .. issued')] /\ McuInv'
  BY <1>0, <1>1, <1>3, <1>4, <1>5, <1>6, ReplaceConnection
<1>8. /\ Holds(b)' /\ pc'[b] = phase /\ pc' \in [Browsers -> Phase]
      /\ \A d \in Browsers : d # b => pc'[d] \notin Active
  BY <1>0, GotoFacts DEF Phase
<1>9. HostInv'
  <2>1. \A c \in DOMAIN conns' : conns'[c].open => c = bridge'
    BY <1>1, <1>7
  <2>. QED
    BY <1>1, <1>4, <1>5, <1>7, <1>8, <2>1, Working
<1>10. TypeOK'
  BY <1>0, <1>3, <1>7, <1>8 DEF TypeOK
<1>. QED
  BY <1>7, <1>9, <1>10 DEF Inv

LEMMA AskInv ==
  ASSUME Inv, NEW b \in Browsers, Ask(b)
  PROVE  Inv'
<1>1. issued + 1 \in Nat /\ issued + 1 # 0
  BY DEF Inv, TypeOK
<1>. QED
  BY <1>1, BridgeRequestInv DEF Ask

LEMMA ReuseInv ==
  ASSUME Inv, NEW b \in Browsers, Reuse(b)
  PROVE  Inv'
  BY BridgeRequestInv DEF Reuse, Linked

\* A connection is dropped.
LEMMA DropFacts ==
  ASSUME NEW r \in Connection, NEW last \in Nat, Sound(r, last)
  PROVE  LET x == WithDrop(r)
         IN  /\ x \in Connection /\ x.peer = r.peer /\ x.open = FALSE /\ x.mcu = r.mcu
             /\ x.out = r.out /\ Sound(x, last)
<1>. DEFINE x == [r EXCEPT !.open = FALSE, !.in = <<>>, !.next = 0]
<1>1. WithDrop(r) = x
  BY DEF WithDrop
<1>2. /\ x \in Connection /\ x.peer = r.peer /\ x.open = FALSE /\ x.mcu = r.mcu
      /\ x.out = r.out /\ x.in = <<>> /\ x.run = r.run
  <2>1. <<>> \in Seq(Message) /\ 0 \in Nat
    OBVIOUS
  <2>. QED
    BY <2>1 DEF Connection
<1>. HIDE DEF x
<1>3. Sound(x, last)
  BY <1>2, LessSound
<1>. QED
  BY <1>1, <1>2, <1>3

\* Dropping a connection leaves the others and what MCUs start alone.
LEMMA DropConnection ==
  ASSUME TypeOK, McuInv, NEW u \in DOMAIN conns, conns' = [conns EXCEPT ![u] = WithDrop(@)],
         UNCHANGED <<owner, issued, started>>
  PROVE  /\ conns' \in Seq(Connection) /\ Len(conns') = Len(conns) /\ DOMAIN conns' = DOMAIN conns
         /\ ~ conns'[u].open /\ \A d \in DOMAIN conns : d # u => conns'[d] = conns[d]
         /\ McuInv'
<1>. DEFINE x == WithDrop(conns[u])
<1>1. conns[u] \in Connection /\ Sound(conns[u], issued) /\ issued \in Nat
  BY ConnsFacts DEF McuInv, ConnectionsSound, TypeOK
<1>2. /\ x \in Connection /\ x.peer = conns[u].peer /\ x.open = FALSE
      /\ x.out = conns[u].out /\ Sound(x, issued)
  BY <1>1, DropFacts
<1>3. conns' = [conns EXCEPT ![u] = x]
  BY ConnsFacts
<1>. HIDE DEF x
<1>4. issued' \in {issued, issued + 1} /\ Sound(x, issued')
  BY <1>2
<1>. QED
  BY <1>2, <1>3, <1>4, ReplaceConnection

LEMMA RequestFailsInv ==
  ASSUME Inv, NEW b \in Browsers, RequestFails(b)
  PROVE  Inv'
<1>. DEFINE u == Used(b)
<1>0. /\ TypeOK /\ HostInv /\ McuInv /\ Answer(b) /\ bridge' = None
      /\ conns' = [conns EXCEPT ![u] = WithDrop(@)] /\ UNCHANGED <<owner, asked, issued, started>>
  BY DEF Inv, RequestFails, GiveUp
<1>1. Holds(b) /\ u \in DOMAIN conns /\ \A c \in DOMAIN conns : conns[c].open => c = u
  BY <1>0, WaitingFacts DEF RequestFails, Waiting
<1>. HIDE DEF u
<1>2. /\ conns' \in Seq(Connection) /\ Len(conns') = Len(conns) /\ DOMAIN conns' = DOMAIN conns
      /\ ~ conns'[u].open /\ \A d \in DOMAIN conns : d # u => conns'[d] = conns[d]
      /\ McuInv'
  BY <1>0, <1>1, DropConnection
<1>3. /\ \A d \in Browsers : pc'[d] \notin Active
      /\ pc' \in [Browsers -> Phase] /\ want' \in [Browsers -> Peers \cup {None}]
      /\ left' \in [Browsers -> Nat] /\ queue' \in Seq(Browsers)
  BY <1>0, <1>1, AnswerFacts
<1>4. HostInv'
  BY <1>0, <1>1, <1>2, <1>3, Settled
<1>5. TypeOK'
  BY <1>0, <1>2, <1>3 DEF TypeOK
<1>. QED
  BY <1>2, <1>4, <1>5 DEF Inv

LEMMA ReconnectInv ==
  ASSUME Inv, NEW b \in Browsers, Reconnect(b)
  PROVE  Inv'
<1>0. /\ TypeOK /\ HostInv /\ McuInv /\ bridge' = None /\ Goto(b, "opening")
      /\ conns' = IF bridge = None THEN conns ELSE [conns EXCEPT ![bridge] = WithDrop(@)]
      /\ UNCHANGED <<want, left, queue, owner, asked, issued, started>>
  BY DEF Inv, Reconnect, ClosePrevious
<1>1. /\ Holds(b) /\ want[b] # None /\ (bridge # None => bridge \in DOMAIN conns)
      /\ \A c \in DOMAIN conns : conns[c].open => c = bridge
  <2>1. CASE pc[b] = "queued" /\ Holds(b) /\ want[b] # None
    BY <1>0, <2>1, QueuedFacts
  <2>2. CASE pc[b] = "reusing"
    BY <1>0, <2>2, WaitingFacts DEF HostInv, Places, Waiting
  <2>. QED
    BY <2>1, <2>2 DEF Reconnect
<1>2. /\ conns' \in Seq(Connection) /\ Len(conns') = Len(conns) /\ DOMAIN conns' = DOMAIN conns
      /\ \A d \in DOMAIN conns : ~ conns'[d].open
      /\ McuInv'
  <2>1. CASE bridge = None
    <3>1. conns' = conns /\ None \notin DOMAIN conns
      BY <1>0, <2>1, ConnsFacts
    <3>2. McuInv'
      BY <1>0, <3>1 DEF McuInv, ConnectionsSound, OwnerAhead, IsOwner, CommandsInOrder
    <3>. QED
      BY <1>0, <1>1, <2>1, <3>1, <3>2 DEF TypeOK
  <2>2. CASE bridge # None
    <3>1. bridge \in DOMAIN conns /\ conns' = [conns EXCEPT ![bridge] = WithDrop(@)]
      BY <1>0, <1>1, <2>2
    <3>2. /\ conns' \in Seq(Connection) /\ Len(conns') = Len(conns) /\ DOMAIN conns' = DOMAIN conns
          /\ ~ conns'[bridge].open /\ \A d \in DOMAIN conns : d # bridge => conns'[d] = conns[d]
          /\ McuInv'
      BY <1>0, <3>1, DropConnection
    <3>. QED
      BY <1>1, <3>2
  <2>. QED
    BY <2>1, <2>2
<1>3. /\ Holds(b)' /\ pc'[b] = "opening" /\ pc' \in [Browsers -> Phase]
      /\ \A d \in Browsers : d # b => pc'[d] \notin Active
  BY <1>0, <1>1, GotoFacts DEF Phase
<1>4. HostInv'
  BY <1>0, <1>1, <1>2, <1>3, Working
<1>5. TypeOK'
  BY <1>0, <1>2, <1>3 DEF TypeOK
<1>. QED
  BY <1>2, <1>4, <1>5 DEF Inv

\* A connection that has just been opened.
LEMMA FreshFacts ==
  ASSUME NEW p \in Peers, NEW last \in Nat
  PROVE  /\ Fresh(p) \in Connection /\ Sound(Fresh(p), last) /\ Clear(Fresh(p))
         /\ Fresh(p).out = <<>> /\ Fresh(p).peer = p /\ Fresh(p).open
<1>1. <<>> \in Seq(Message) /\ DOMAIN <<>> = {}
  OBVIOUS
<1>2. Fresh(p) \in Connection
  BY <1>1 DEF Fresh, Connection
<1>3. /\ Fresh(p).out = <<>> /\ Fresh(p).in = <<>> /\ Fresh(p).run = None /\ Fresh(p).peer = p
      /\ Fresh(p).open
  BY DEF Fresh
<1>. QED
  BY <1>1, <1>2, <1>3 DEF Sound, Clear

LEMMA OpeningFacts ==
  ASSUME TypeOK, HostInv, NEW b \in Browsers, pc[b] = "opening"
  PROVE  /\ Holds(b) /\ bridge = None /\ want[b] \in Peers
         /\ \A c \in DOMAIN conns : ~ conns[c].open
<1>1. Holds(b) /\ bridge = None /\ want[b] # None
  BY DEF HostInv, Turn, Places, Active
<1>2. want[b] \in Peers
  BY <1>1 DEF TypeOK
<1>3. None \notin DOMAIN conns
  BY ConnsFacts
<1>. QED
  BY <1>1, <1>2, <1>3, QueuedFacts

\* A new connection keeps the types.
LEMMA AddTypes ==
  ASSUME TypeOK, Len(conns) < MaxConns, conns' \in Seq(Connection), Len(conns') = Len(conns) + 1,
         DOMAIN conns' = DOMAIN conns \cup {Len(conns) + 1}, pc' \in [Browsers -> Phase],
         UNCHANGED <<want, left, queue, bridge, owner, asked, issued, started>>
  PROVE  TypeOK'
<1>1. Len(conns') <= MaxConns
  BY ConnsFacts, BridgeAssumption
<1>. QED
  BY <1>1 DEF TypeOK

LEMMA AttemptAbandonedInv ==
  ASSUME Inv, NEW b \in Browsers, AttemptAbandoned(b)
  PROVE  Inv'
<1>. DEFINE x == WithDrop(Fresh(want[b]))
<1>0. /\ TypeOK /\ HostInv /\ McuInv /\ pc[b] = "opening" /\ issued \in Nat /\ Len(conns) < MaxConns
      /\ conns' = Append(conns, x)
      /\ UNCHANGED <<pc, want, left, queue, bridge, owner, asked, issued, started>>
  BY DEF Inv, AttemptAbandoned, TypeOK
<1>1. /\ Holds(b) /\ bridge = None /\ want[b] \in Peers
      /\ \A c \in DOMAIN conns : ~ conns[c].open
  BY <1>0, OpeningFacts
<1>2. x \in Connection /\ x.open = FALSE /\ Sound(x, issued) /\ x.out = <<>>
  BY <1>0, <1>1, FreshFacts, DropFacts
<1>. HIDE DEF x
<1>3. \A i \in DOMAIN x.out : x.out[i].cmd = 0
  BY <1>2, EmptyFacts
<1>4. /\ conns' \in Seq(Connection) /\ Len(conns') = Len(conns) + 1
      /\ DOMAIN conns' = DOMAIN conns \cup {Len(conns) + 1}
      /\ conns'[Len(conns) + 1] = x /\ \A d \in DOMAIN conns : conns'[d] = conns[d]
      /\ McuInv'
  BY <1>0, <1>2, <1>3, AddConnection
<1>5. \A c \in DOMAIN conns' : ~ conns'[c].open
  BY <1>1, <1>2, <1>4
<1>6. HostInv'
  <2>1. Holds(b)' /\ \A d \in Browsers : d # b => pc'[d] \notin Active
    BY <1>0, <1>1, OnlyHolder DEF Holds
  <2>2. pc'[b] = "opening" /\ bridge' = None /\ want'[b] # None
    BY <1>0, <1>1 DEF HostInv, Places
  <2>. QED
    BY <1>5, <2>1, <2>2, Working
<1>7. TypeOK'
  BY <1>0, <1>4, AddTypes DEF TypeOK
<1>. QED
  BY <1>4, <1>6, <1>7 DEF Inv

LEMMA OpenedInv ==
  ASSUME Inv, NEW b \in Browsers, Opened(b)
  PROVE  Inv'
<1>. DEFINE f == Fresh(want[b])  x == WithRequest(f, 0)
<1>0. /\ TypeOK /\ HostInv /\ McuInv /\ pc[b] = "opening" /\ issued \in Nat /\ Len(conns) < MaxConns
      /\ conns' = Append(conns, x) /\ Goto(b, "setup")
      /\ UNCHANGED <<want, left, queue, bridge, owner, asked, issued, started>>
  BY DEF Inv, Opened, TypeOK
<1>1. /\ Holds(b) /\ bridge = None /\ want[b] \in Peers
      /\ \A c \in DOMAIN conns : ~ conns[c].open
  BY <1>0, OpeningFacts
<1>2. f \in Connection /\ Sound(f, issued) /\ Clear(f) /\ f.out = <<>>
  BY <1>0, <1>1, FreshFacts
<1>. HIDE DEF f
<1>3. x \in Connection /\ x.mcu = f.mcu
  BY <1>2, RequestFacts
<1>4. Sound(x, issued) /\ OneUnderWay(x)
  <2>1. 0 \in Nat /\ 0 <= issued /\ issued \in {issued, issued + 1}
    BY <1>0
  <2>. QED
    BY <1>0, <1>2, <2>1, RequestSound
<1>5. f.mcu = "claiming"
  BY DEF f, Fresh
<1>. HIDE DEF x
<1>6. \A i \in DOMAIN x.out : x.out[i].cmd = 0
  BY <1>3, <1>4, <1>5 DEF Sound
<1>7. /\ conns' \in Seq(Connection) /\ Len(conns') = Len(conns) + 1
      /\ DOMAIN conns' = DOMAIN conns \cup {Len(conns) + 1}
      /\ conns'[Len(conns) + 1] = x /\ \A d \in DOMAIN conns : conns'[d] = conns[d]
      /\ McuInv'
  BY <1>0, <1>3, <1>4, <1>6, AddConnection
<1>8. /\ Holds(b)' /\ pc'[b] = "setup" /\ pc' \in [Browsers -> Phase]
      /\ \A d \in Browsers : d # b => pc'[d] \notin Active
  BY <1>0, <1>1, GotoFacts DEF Phase
<1>9. HostInv'
  <2>1. \A c \in DOMAIN conns' : conns'[c].open => c = Len(conns')
    BY <1>1, <1>7
  <2>2. conns' # <<>> /\ OneUnderWay(conns'[Len(conns')])
    BY <1>0, <1>3, <1>4, <1>7, ConnsFacts, AppendFacts
  <2>3. want'[b] # None /\ bridge' = None
    BY <1>0, <1>1 DEF HostInv, Places
  <2>. QED
    BY <1>8, <2>1, <2>2, <2>3, Working
<1>10. TypeOK'
  BY <1>0, <1>7, <1>8, AddTypes
<1>. QED
  BY <1>7, <1>9, <1>10 DEF Inv

\* The response is taken out of the connection, which then carries nothing.
LEMMA TakeFacts ==
  ASSUME NEW r \in Connection, NEW last \in Nat, Sound(r, last), OneUnderWay(r), r.in # <<>>
  PROVE  LET x == [r EXCEPT !.in = Tail(@)]
         IN  /\ x \in Connection /\ x.peer = r.peer /\ x.open = r.open /\ x.mcu = r.mcu
             /\ x.out = r.out /\ Sound(x, last) /\ Clear(x) /\ x.mcu # "claiming"
<1>. DEFINE x == [r EXCEPT !.in = Tail(r.in)]
<1>1. r.in \in Seq(Message)
  BY ConnectionFields
<1>2. Tail(r.in) \in Seq(Message) /\ Len(r.in) \in Nat /\ Len(Tail(r.in)) = Len(r.in) - 1 /\ Len(r.in) > 0
  BY <1>1, TailFacts
<1>3. r.out = <<>> /\ r.run = None /\ Len(r.in) <= 1
  BY DEF OneUnderWay
<1>4. Len(Tail(r.in)) = 0
  <2>1. \A n \in Nat : n <= 1 /\ n > 0 => n - 1 = 0
    OBVIOUS
  <2>. QED
    BY <1>2, <1>3, <2>1, Zenon
<1>5. Tail(r.in) = <<>>
  BY <1>2, <1>4, EmptyFacts
<1>6. /\ x \in Connection /\ x.peer = r.peer /\ x.open = r.open /\ x.mcu = r.mcu
      /\ x.out = r.out /\ x.in = Tail(r.in) /\ x.run = r.run
  BY <1>2 DEF Connection
<1>. HIDE DEF x
<1>7. x.mcu # "claiming"
  BY <1>6 DEF Sound
<1>8. Sound(x, last)
  BY <1>6, <1>7, LessSound
<1>9. Clear(x)
  BY <1>3, <1>5, <1>6 DEF Clear
<1>. QED
  BY <1>6, <1>7, <1>8, <1>9 DEF x

LEMMA ReceiveInv ==
  ASSUME Inv, NEW b \in Browsers, Receive(b)
  PROVE  Inv'
<1>. DEFINE u == Used(b)  r == conns[u]  x == [r EXCEPT !.in = Tail(@)]
<1>0. TypeOK /\ HostInv /\ McuInv /\ issued \in Nat /\ pc[b] \in Waiting
  BY DEF Inv, Receive, TypeOK
<1>1. /\ Holds(b) /\ u \in DOMAIN conns /\ bridge \in {u, None}
      /\ pc[b] # "setup" => u = bridge
      /\ OneUnderWay(r)
      /\ \A c \in DOMAIN conns : conns[c].open => c = u
  BY <1>0, WaitingFacts
<1>2. r \in Connection /\ Sound(r, issued) /\ r.in # <<>>
  BY <1>0, <1>1, ConnsFacts DEF McuInv, ConnectionsSound, Receive
<1>3. /\ x \in Connection /\ x.peer = r.peer /\ x.open = r.open /\ x.mcu = r.mcu
      /\ x.out = r.out /\ Sound(x, issued) /\ Clear(x) /\ x.mcu # "claiming"
  BY <1>0, <1>1, <1>2, TakeFacts
<1>4. [conns EXCEPT ![u] = WithoutFirst(@)] = [conns EXCEPT ![u] = x]
  BY DEF WithoutFirst
<1>5. UNCHANGED <<owner, asked, started>> /\ owner \in [Peers -> DOMAIN conns \cup {None, Other}]
  BY <1>0 DEF Receive, TypeOK
<1>6. Clear(x) => OneUnderWay(x)
  BY EmptyFacts DEF Clear, OneUnderWay
<1>u. pc[b] = "setup" => u = Len(conns)
  BY DEF Used
<1>v. \/ /\ conns' = [conns EXCEPT ![u] = x]
         /\ UNCHANGED <<pc, want, left, queue, bridge, issued>>
      \/ pc[b] = "asking" /\ Responded(b)
      \/ /\ pc[b] # "asking" /\ bridge' = u /\ conns' = [conns EXCEPT ![u] = x] /\ Answer(b)
         /\ UNCHANGED issued
  BY <1>4 DEF Receive, Connected
<1>. HIDE DEF x, u
\* The response is taken and no request is sent.
<1>7. ASSUME conns' = [conns EXCEPT ![u] = x], UNCHANGED issued
      PROVE  /\ conns' \in Seq(Connection) /\ Len(conns') = Len(conns) /\ DOMAIN conns' = DOMAIN conns
             /\ conns'[u] = x /\ \A d \in DOMAIN conns : d # u => conns'[d] = conns[d]
             /\ started' \in [Peers -> Seq(1 .. issued')] /\ McuInv'
             /\ \A c \in DOMAIN conns' : conns'[c].open => c = u
  <2>1. issued' \in {issued, issued + 1} /\ Sound(x, issued')
    BY <1>3, <1>7
  <2>2. /\ conns' \in Seq(Connection) /\ Len(conns') = Len(conns) /\ DOMAIN conns' = DOMAIN conns
        /\ conns'[u] = x /\ \A d \in DOMAIN conns : d # u => conns'[d] = conns[d]
        /\ started' \in [Peers -> Seq(1 .. issued')] /\ McuInv'
    BY <1>0, <1>1, <1>3, <1>5, <1>7, <2>1, ReplaceConnection
  <2>. QED
    BY <1>1, <2>2
\* It answers another request and is discarded.
<1>8. CASE conns' = [conns EXCEPT ![u] = x] /\ UNCHANGED <<pc, want, left, queue, bridge, issued>>
  <2>1. HostInv'
    <3>1. Holds(b)' /\ \A d \in Browsers : d # b => pc'[d] \notin Active
      BY <1>0, <1>1, <1>8, OnlyHolder DEF Holds
    <3>2. CASE pc[b] = "setup"
      <4>1. bridge' = None /\ want'[b] # None /\ conns # <<>>
        BY <1>0, <1>8, <3>2 DEF HostInv, Places
      <4>2. conns' # <<>>
        BY <1>0, <1>7, <1>8, <4>1, ConnsFacts, EmptyFacts
      <4>3. OneUnderWay(conns'[Len(conns')]) /\ \A c \in DOMAIN conns' : conns'[c].open => c = Len(conns')
        BY <1>3, <1>6, <1>7, <1>8, <1>u, <3>2
      <4>. QED
        BY <1>8, <3>1, <3>2, <4>1, <4>2, <4>3, Working
    <3>3. CASE pc[b] # "setup"
      <4>1. pc'[b] \in {"reusing", "asking"} /\ (pc[b] = "reusing" => want'[b] # None)
        BY <1>0, <1>8, <3>3 DEF Waiting, HostInv, Places
      <4>2. bridge' = u /\ u # None
        BY <1>0, <1>1, <1>8, <3>3, ConnsFacts
      <4>3. OneUnderWay(conns'[bridge']) /\ conns'[bridge'].mcu # "claiming"
            /\ \A c \in DOMAIN conns' : conns'[c].open => c = bridge'
        BY <1>3, <1>6, <1>7, <1>8, <4>2
      <4>. QED
        BY <1>8, <3>1, <4>1, <4>2, <4>3, Working
    <3>. QED
      BY <3>2, <3>3
  <2>2. TypeOK'
    BY <1>0, <1>5, <1>7, <1>8 DEF TypeOK
  <2>. QED
    BY <1>7, <1>8, <2>1, <2>2 DEF Inv
\* The last or only response of a request: the browser gets its answer.
<1>9. ASSUME conns' = [conns EXCEPT ![u] = x], bridge' = u, Answer(b), UNCHANGED issued
      PROVE  Inv'
  <2>1. /\ \A d \in Browsers : pc'[d] \notin Active
        /\ pc' \in [Browsers -> Phase] /\ want' \in [Browsers -> Peers \cup {None}]
        /\ left' \in [Browsers -> Nat] /\ queue' \in Seq(Browsers)
    BY <1>0, <1>1, <1>9, AnswerFacts
  <2>2. HostInv'
    BY <1>3, <1>7, <1>9, <2>1, Settled
  <2>3. TypeOK'
    BY <1>0, <1>1, <1>5, <1>7, <1>9, <2>1 DEF TypeOK
  <2>. QED
    BY <1>7, <1>9, <2>2, <2>3 DEF Inv
\* The batch goes on.
<1>10. CASE pc[b] = "asking" /\ left[b] > 0 /\ Responded(b)
  <2>. DEFINE y == WithRequest(x, issued + 1)
  <2>0. u = bridge /\ u # None
    BY <1>0, <1>1, <1>10, ConnsFacts
  <2>1. /\ issued' = issued + 1 /\ left' = [left EXCEPT ![b] = @ - 1] /\ UNCHANGED <<pc, want, queue, bridge>>
        /\ conns' = [conns EXCEPT ![u] = y]
    <3>1. /\ issued' = issued + 1 /\ left' = [left EXCEPT ![b] = @ - 1]
          /\ UNCHANGED <<pc, want, queue, bridge>>
          /\ conns' = [conns EXCEPT ![bridge] = WithRequest(WithoutFirst(@), issued + 1)]
      BY <1>10 DEF Responded
    <3>2. x = WithoutFirst(conns[u])
      BY DEF x, WithoutFirst
    <3>. QED
      BY <2>0, <3>1, <3>2
  <2>2. issued + 1 \in Nat /\ issued' \in {issued, issued + 1} /\ issued + 1 <= issued' /\ issued' \in Nat
    BY <1>0, <2>1
  <2>3. y \in Connection /\ y.peer = r.peer /\ y.open = r.open /\ y.mcu = r.mcu
    BY <1>3, <2>2, RequestFacts
  <2>4. /\ Sound(y, issued') /\ OneUnderWay(y)
        /\ \A i \in DOMAIN y.out : \/ y.out[i].cmd \in {0, issued + 1}
                                   \/ i \in DOMAIN x.out /\ y.out[i] = x.out[i]
    BY <1>0, <1>3, <2>2, RequestSound
  <2>. HIDE DEF y
  <2>5. /\ conns' \in Seq(Connection) /\ Len(conns') = Len(conns) /\ DOMAIN conns' = DOMAIN conns
        /\ conns'[u] = y /\ \A d \in DOMAIN conns : d # u => conns'[d] = conns[d]
        /\ started' \in [Peers -> Seq(1 .. issued')] /\ McuInv'
    BY <1>0, <1>1, <1>3, <1>5, <2>1, <2>2, <2>3, <2>4, ReplaceConnection
  <2>6. HostInv'
    <3>1. Holds(b)' /\ \A d \in Browsers : d # b => pc'[d] \notin Active
      BY <1>0, <1>1, <2>1, OnlyHolder DEF Holds
    <3>2. \A c \in DOMAIN conns' : conns'[c].open => c = bridge'
      BY <1>1, <2>0, <2>1, <2>5
    <3>. QED
      BY <1>3, <1>10, <2>0, <2>1, <2>3, <2>4, <2>5, <3>1, <3>2, Working
  <2>7. TypeOK'
    <3>1. left' \in [Browsers -> Nat]
      BY <1>0, <1>10, <2>1 DEF TypeOK
    <3>. QED
      BY <1>0, <1>5, <2>1, <2>2, <2>5, <3>1 DEF TypeOK
  <2>. QED
    BY <2>5, <2>6, <2>7 DEF Inv
<1>11. CASE pc[b] = "asking" /\ ~ (left[b] > 0) /\ Responded(b)
  <2>0. u = bridge
    BY <1>1, <1>11
  <2>1. conns' = [conns EXCEPT ![u] = x] /\ bridge' = u /\ Answer(b) /\ UNCHANGED issued
    BY <1>4, <1>11, <2>0 DEF Responded
  <2>. QED
    BY <1>9, <2>1
<1>. QED
  BY <1>v, <1>8, <1>9, <1>10, <1>11

-----------------------------------------------------------------------------
(* The theorems                                                            *)

LEMMA BridgeInitially == Init => Inv
<1>. SUFFICES ASSUME Init
              PROVE  Inv
  OBVIOUS
<1>1. /\ <<>> \in Seq(Browsers) /\ <<>> \in Seq(Connection) /\ <<>> \in Seq(1 .. 0)
      /\ Len(<<>>) = 0 /\ DOMAIN <<>> = {}
  OBVIOUS
<1>2. TypeOK
  BY <1>1, BridgeAssumption DEF Init, TypeOK, Phase
<1>3. Turn /\ Places /\ OneConnection /\ BridgeAdmitted
  BY <1>1 DEF Init, Turn, Active, Waiting, Places, OneConnection, BridgeAdmitted
<1>4. Pipe
  BY DEF Init, Pipe, CleanPipe
<1>5. McuInv
  BY <1>1 DEF Init, McuInv, ConnectionsSound, OwnerAhead, CommandsInOrder
<1>. QED
  BY <1>2, <1>3, <1>4, <1>5 DEF Inv, HostInv

LEMMA BridgeStep == Inv /\ [Next]_vars => Inv'
<1>. SUFFICES ASSUME Inv, [Next]_vars
              PROVE  Inv'
  OBVIOUS
<1>1. ASSUME NEW b \in Browsers, HostStep(b)
      PROVE  Inv'
  <2>1. CASE Refuse(b)
    BY <2>1, JustAnswerInv DEF Refuse
  <2>2. CASE OpenFails(b)
    <3>1. Holds(b)
      BY <2>2, OpeningFacts DEF OpenFails, Inv
    <3>. QED
      BY <2>2, <3>1, JustAnswerInv DEF OpenFails
  <2>. QED
    BY <1>1, <2>1, <2>2, AskInv, RequestFailsInv, ReceiveInv, ReuseInv, ReconnectInv, OpenedInv DEF HostStep
<1>2. ASSUME NEW b \in Browsers, NEW p \in Peers, BrowserMessage(b, p, 1)
      PROVE  Inv'
  <2>1. 1 \in Nat \ {0} /\ p \in Peers \cup {None}
    OBVIOUS
  <2>. QED
    BY <1>2, <2>1, BrowserMessageInv
<1>3. ASSUME NEW b \in Browsers, NEW n \in Batches, BrowserMessage(b, None, n)
      PROVE  Inv'
  <2>1. n \in Nat \ {0} /\ None \in Peers \cup {None}
    BY BridgeAssumption
  <2>. QED
    BY <1>3, <2>1, BrowserMessageInv
<1>4. ASSUME NEW c \in DOMAIN conns, McuStep(c)
      PROVE  Inv'
  BY <1>4, McuClaimInv, McuStartInv, McuFinishInv, McuEndInv, LinkBreaksInv DEF McuStep
<1>5. CASE UNCHANGED vars
  <2>1. TypeOK' /\ HostInv'
    BY <1>5 DEF vars, Inv, TypeOK, HostInv, Turn, Holds, Places, OneConnection, Used, BridgeAdmitted, Pipe, CleanPipe
  <2>2. McuInv'
    BY <1>5 DEF vars, Inv, McuInv, ConnectionsSound, OwnerAhead, IsOwner, CommandsInOrder
  <2>. QED
    BY <2>1, <2>2 DEF Inv
<1>. QED
  BY <1>1, <1>2, <1>3, <1>4, <1>5, AttemptAbandonedInv, OtherClaimsInv DEF Next

\* The whole invariant of the host's bridge.
THEOREM BridgeSafety == Spec => []Inv
  BY BridgeInitially, BridgeStep, PTL DEF Spec

\* Between two messages of browsers the bridge carries nothing of an old one, so
\* that a response can never be taken for that of a later request.
THEOREM BridgeCleanPipe == Spec => []CleanPipe
<1>1. Inv => CleanPipe
  BY DEF Inv, HostInv, Pipe
<1>. QED
  BY BridgeSafety, <1>1, PTL

\* The host never has two connections open.
THEOREM BridgeOneConnection == Spec => []OneConnection
<1>1. Inv => OneConnection
  BY DEF Inv, HostInv
<1>. QED
  BY BridgeSafety, <1>1, PTL

\* A connection becomes the bridge only after the MCU has admitted its session.
THEOREM BridgeIsAdmitted == Spec => []BridgeAdmitted
<1>1. Inv => BridgeAdmitted
  BY DEF Inv, HostInv
<1>. QED
  BY BridgeSafety, <1>1, PTL

\* Every MCU starts the commands of the host in the order in which they were
\* issued and none twice, whatever connections break, are dropped or claim late.
THEOREM BridgeCommandsInOrder == Spec => []CommandsInOrder
<1>1. Inv => CommandsInOrder
  BY DEF Inv, McuInv
<1>. QED
  BY BridgeSafety, <1>1, PTL

-----------------------------------------------------------------------------
(* Whose response a session gets                                           *)

\* The request that a waiting session has sent last.
Pending(b) ==
  [id |-> Expected(Used(b)), cmd |-> IF pc[b] = "asking" THEN issued ELSE 0]

\* A connection carries nothing but m.
Carries(r, m) ==
  /\ \A i \in DOMAIN r.out : r.out[i] = m
  /\ r.run \in {None, m}
  /\ \A i \in DOMAIN r.in : r.in[i] = m

\* What the connection of a waiting session carries is the request it waits for,
\* or its response.
PipeCurrent ==
  \A b \in Browsers : pc[b] \in Waiting => Carries(conns[Used(b)], Pending(b))

\* A response that reaches a waiting session is that of the very request it waits
\* for, whatever was given up, timed out or switched over before.  The rule that
\* drops a connection after an error alone ensures it: the comparison of ids in
\* controller_request has nothing left to catch.
ResponseMatches ==
  \A b \in Browsers :
    pc[b] \in Waiting /\ conns[Used(b)].in # <<>> => Head(conns[Used(b)].in) = Pending(b)

LEMMA RequestCarries ==
  ASSUME NEW r \in Connection, NEW cmd \in Nat, Clear(r)
  PROVE  LET x == WithRequest(r, cmd)
         IN  x.next - 1 = r.next /\ Carries(x, [id |-> r.next, cmd |-> cmd])
<1>. DEFINE x == WithRequest(r, cmd)  m == [id |-> r.next, cmd |-> cmd]
<1>0. r.next \in Nat /\ m \in Message
  BY ConnectionFields DEF Message
<1>1. /\ x.run = r.run /\ x.in = r.in
      /\ x.out = IF r.link THEN Append(r.out, m) ELSE r.out
  BY RequestFacts
<1>2. x.next = r.next + 1
  BY DEF WithRequest, Connection
<1>. HIDE DEF x, m
<1>3. \A i \in DOMAIN x.out : x.out[i] = m
  <2>1. r.out = <<>> /\ <<>> \in Seq(Message) /\ Len(<<>>) = 0 /\ DOMAIN <<>> = {}
    BY EmptyFacts DEF Clear
  <2>2. CASE r.link
    <3>1. DOMAIN Append(<<>>, m) = 1 .. 0 + 1 /\ Append(<<>>, m)[0 + 1] = m
      BY <1>0, <2>1, AppendFacts
    <3>. QED
      BY <1>1, <2>1, <2>2, <3>1
  <2>. QED
    BY <1>1, <2>1, <2>2
<1>4. Carries(x, m)
  BY <1>1, <1>3, EmptyFacts DEF Carries, Clear
<1>. QED
  BY <1>0, <1>2, <1>4 DEF x, m

LEMMA NobodyWaits ==
  ASSUME \A d \in Browsers : pc'[d] \notin Active
  PROVE  PipeCurrent'
  BY DEF PipeCurrent, Active

\* A session that has just sent its request on an empty connection.
LEMMA JustAsked ==
  ASSUME NEW b \in Browsers, \A d \in Browsers : d # b => pc'[d] \notin Active,
         NEW r \in Connection, Clear(r), NEW cmd \in Nat,
         conns'[Used(b)'] = WithRequest(r, cmd),
         cmd = IF pc'[b] = "asking" THEN issued' ELSE 0
  PROVE  PipeCurrent'
<1>1. conns'[Used(b)'].next - 1 = r.next
      /\ Carries(conns'[Used(b)'], [id |-> r.next, cmd |-> cmd])
  BY RequestCarries
<1>2. Pending(b)' = [id |-> r.next, cmd |-> cmd]
  BY <1>1 DEF Pending, Expected
<1>. QED
  BY <1>1, <1>2 DEF PipeCurrent, Active

\* The connections and the phase of every waiting session stay as they are.
LEMMA WaitersUntouched ==
  ASSUME PipeCurrent, UNCHANGED <<bridge, conns, issued>>,
         \A d \in Browsers : pc'[d] \in Waiting => pc'[d] = pc[d]
  PROVE  PipeCurrent'
<1>. SUFFICES ASSUME NEW d \in Browsers, pc'[d] \in Waiting
              PROVE  Carries(conns'[Used(d)'], Pending(d)')
  BY DEF PipeCurrent
<1>1. Used(d)' = Used(d)
  BY DEF Used
<1>2. Pending(d)' = Pending(d) /\ conns'[Used(d)'] = conns[Used(d)]
  BY <1>1 DEF Pending, Expected
<1>. QED
  BY <1>2 DEF PipeCurrent

\* A step of an MCU or of the network puts nothing new into connection c.
LEMMA CarriesNothingNew ==
  ASSUME Inv, PipeCurrent, NEW c \in DOMAIN conns, NEW x \in Connection,
         conns' = [conns EXCEPT ![c] = x], x.next = conns[c].next,
         \A m : Carries(conns[c], m) => Carries(x, m),
         UNCHANGED <<pc, bridge, issued>>
  PROVE  PipeCurrent'
<1>0. /\ Len(conns') = Len(conns) /\ conns'[c] = x
      /\ \A d \in DOMAIN conns : d # c => conns'[d] = conns[d]
  BY ConnsFacts, ReplaceFacts DEF Inv
<1>. SUFFICES ASSUME NEW d \in Browsers, pc[d] \in Waiting
              PROVE  Carries(conns'[Used(d)'], Pending(d)')
  BY DEF PipeCurrent
<1>1. Used(d)' = Used(d) /\ Used(d) \in DOMAIN conns
  BY <1>0, WaitingFacts DEF Used, Inv
<1>2. conns'[Used(d)].next = conns[Used(d)].next
  BY <1>0, <1>1
<1>3. Pending(d)' = Pending(d)
  BY <1>1, <1>2 DEF Pending, Expected
<1>4. Carries(conns[Used(d)], Pending(d))
  BY DEF PipeCurrent
<1>. QED
  BY <1>0, <1>1, <1>3, <1>4

LEMMA McuCurrent ==
  ASSUME Inv, PipeCurrent, NEW c \in DOMAIN conns, McuStep(c)
  PROVE  PipeCurrent'
<1>. DEFINE r == conns[c]
<1>0. /\ TypeOK /\ r \in Connection /\ r.out \in Seq(Message) /\ r.in \in Seq(Message)
      /\ <<>> \in Seq(Message) /\ DOMAIN <<>> = {}
  BY ConnsFacts, ConnectionFields, EmptyFacts DEF Inv
<1>u. UNCHANGED <<pc, bridge, issued>>
  BY DEF McuStep, McuClaim, McuStart, McuFinish, McuEnd, LinkBreaks
<1>1. CASE McuClaim(c)
  <2>. DEFINE x == [r EXCEPT !.mcu = "session"]
  <2>1. conns' = [conns EXCEPT ![c] = x]
    BY <1>0, <1>1, ConnsFacts DEF McuClaim
  <2>2. x \in Connection /\ x.next = r.next /\ x.out = r.out /\ x.in = r.in /\ x.run = r.run
    BY <1>0 DEF Connection
  <2>. HIDE DEF x
  <2>3. \A m : Carries(r, m) => Carries(x, m)
    BY <2>2 DEF Carries
  <2>. QED
    BY <1>u, <2>1, <2>2, <2>3, CarriesNothingNew
<1>2. CASE McuStart(c)
  <2>. DEFINE first == Head(r.out)  rest == Tail(r.out)
              x == [r EXCEPT !.run = first, !.out = rest]
  <2>1. /\ first \in Message /\ rest \in Seq(Message) /\ first = r.out[1] /\ 1 \in DOMAIN r.out
        /\ DOMAIN rest = 1 .. Len(r.out) - 1
        /\ \A i \in 1 .. Len(r.out) - 1 : rest[i] = r.out[i + 1] /\ i + 1 \in DOMAIN r.out
    BY <1>0, <1>2, TailFacts DEF McuStart
  <2>2. conns' = [conns EXCEPT ![c] = x]
    BY <1>0, <1>2, ConnsFacts DEF McuStart
  <2>. HIDE DEF first, rest
  <2>3. x \in Connection /\ x.next = r.next /\ x.out = rest /\ x.in = r.in /\ x.run = first
    BY <1>0, <2>1 DEF Connection
  <2>. HIDE DEF x
  <2>4. \A m : Carries(r, m) => Carries(x, m)
    BY <2>1, <2>3 DEF Carries
  <2>. QED
    BY <1>u, <2>2, <2>3, <2>4, CarriesNothingNew
<1>3. CASE McuFinish(c)
  <2>. DEFINE answer == IF r.link /\ r.open THEN Append(r.in, r.run) ELSE r.in
              x == [r EXCEPT !.run = None, !.in = answer]
  <2>1. r.run \in Message /\ r.run # None
    BY <1>0, <1>3, ConnectionFields DEF McuFinish
  <2>2. /\ answer \in Seq(Message)
        /\ \A i \in DOMAIN answer : answer[i] = r.run \/ (i \in DOMAIN r.in /\ answer[i] = r.in[i])
    <3>1. /\ Append(r.in, r.run) \in Seq(Message) /\ Len(r.in) \in Nat
          /\ DOMAIN r.in = 1 .. Len(r.in)
          /\ DOMAIN Append(r.in, r.run) = 1 .. Len(r.in) + 1
          /\ \A i \in DOMAIN r.in : Append(r.in, r.run)[i] = r.in[i]
          /\ Append(r.in, r.run)[Len(r.in) + 1] = r.run
      BY <1>0, <2>1, AppendFacts
    <3>. DEFINE s == Append(r.in, r.run)
    <3>. HIDE DEF s
    <3>2. \A i \in DOMAIN s : s[i] = r.run \/ (i \in DOMAIN r.in /\ s[i] = r.in[i])
      BY <3>1 DEF s
    <3>. QED
      BY <1>0, <3>1, <3>2 DEF s
  <2>3. conns' = [conns EXCEPT ![c] = x]
    BY <1>0, <1>3, ConnsFacts DEF McuFinish
  <2>. HIDE DEF answer
  <2>4. x \in Connection /\ x.next = r.next /\ x.out = r.out /\ x.in = answer /\ x.run = None
    BY <1>0, <2>2 DEF Connection
  <2>. HIDE DEF x
  <2>5. \A m : Carries(r, m) => Carries(x, m)
    BY <2>1, <2>2, <2>4 DEF Carries
  <2>. QED
    BY <1>u, <2>3, <2>4, <2>5, CarriesNothingNew
<1>4. CASE McuEnd(c)
  <2>. DEFINE x == [r EXCEPT !.mcu = "closed", !.link = FALSE, !.run = None, !.out = <<>>]
  <2>1. conns' = [conns EXCEPT ![c] = x]
    BY <1>0, <1>4, ConnsFacts DEF McuEnd
  <2>2. x \in Connection /\ x.next = r.next /\ x.out = <<>> /\ x.in = r.in /\ x.run = None
    BY <1>0 DEF Connection
  <2>. HIDE DEF x
  <2>3. \A m : Carries(r, m) => Carries(x, m)
    BY <1>0, <2>2 DEF Carries
  <2>. QED
    BY <1>u, <2>1, <2>2, <2>3, CarriesNothingNew
<1>5. CASE LinkBreaks(c)
  <2>. DEFINE x == [r EXCEPT !.link = FALSE, !.out = <<>>, !.in = <<>>]
  <2>1. conns' = [conns EXCEPT ![c] = x]
    BY <1>0, <1>5, ConnsFacts DEF LinkBreaks
  <2>2. x \in Connection /\ x.next = r.next /\ x.out = <<>> /\ x.in = <<>> /\ x.run = r.run
    BY <1>0 DEF Connection
  <2>. HIDE DEF x
  <2>3. \A m : Carries(r, m) => Carries(x, m)
    BY <1>0, <2>2 DEF Carries
  <2>. QED
    BY <1>u, <2>1, <2>2, <2>3, CarriesNothingNew
<1>. QED
  BY <1>1, <1>2, <1>3, <1>4, <1>5 DEF McuStep

\* Ask and Reuse: a request on the bridge, which carries nothing before.
LEMMA BridgeRequestCurrent ==
  ASSUME Inv, NEW b \in Browsers, pc[b] = "queued", Holds(b), bridge # None, NEW cmd \in Nat,
         NEW phase \in {"reusing", "asking"}, Goto(b, phase),
         conns' = [conns EXCEPT ![bridge] = WithRequest(@, cmd)],
         cmd = IF phase = "asking" THEN issued' ELSE 0,
         UNCHANGED <<queue, bridge>>
  PROVE  PipeCurrent'
<1>0. TypeOK /\ HostInv
  BY DEF Inv
<1>1. bridge \in DOMAIN conns /\ Clear(conns[bridge]) /\ conns[bridge] \in Connection
  BY <1>0, QueuedFacts, ConnsFacts
<1>2. WithRequest(conns[bridge], cmd) \in Connection
  BY <1>1, RequestFacts
<1>3. conns'[bridge] = WithRequest(conns[bridge], cmd)
  BY <1>0, <1>1, <1>2, ConnsFacts, ReplaceFacts
<1>4. pc'[b] = phase /\ \A d \in Browsers : d # b => pc'[d] \notin Active
  BY <1>0, GotoFacts DEF Phase
<1>5. Used(b)' = bridge
  BY <1>4 DEF Used
<1>. QED
  BY <1>1, <1>3, <1>4, <1>5, JustAsked

LEMMA OpenedCurrent ==
  ASSUME Inv, NEW b \in Browsers, Opened(b)
  PROVE  PipeCurrent'
<1>. DEFINE f == Fresh(want[b])
<1>0. /\ TypeOK /\ HostInv /\ pc[b] = "opening" /\ issued \in Nat
      /\ conns' = Append(conns, WithRequest(f, 0)) /\ Goto(b, "setup") /\ UNCHANGED queue
  BY DEF Inv, Opened, TypeOK
<1>1. Holds(b) /\ want[b] \in Peers
  BY <1>0, OpeningFacts
<1>2. f \in Connection /\ Clear(f)
  BY <1>0, <1>1, FreshFacts
<1>. HIDE DEF f
<1>3. WithRequest(f, 0) \in Connection
  BY <1>2, RequestFacts
<1>4. Len(conns') = Len(conns) + 1 /\ conns'[Len(conns) + 1] = WithRequest(f, 0)
  BY <1>0, <1>3, ConnsFacts, AppendFacts
<1>5. pc'[b] = "setup" /\ \A d \in Browsers : d # b => pc'[d] \notin Active
  BY <1>0, <1>1, GotoFacts DEF Phase
<1>6. conns'[Used(b)'] = WithRequest(f, 0)
  BY <1>4, <1>5 DEF Used
<1>. QED
  BY <1>2, <1>5, <1>6, JustAsked

LEMMA ReceiveCurrent ==
  ASSUME Inv, PipeCurrent, NEW b \in Browsers, Receive(b)
  PROVE  PipeCurrent'
<1>. DEFINE u == Used(b)  r == conns[u]  x == [r EXCEPT !.in = Tail(@)]
<1>0. TypeOK /\ HostInv /\ McuInv /\ issued \in Nat /\ pc[b] \in Waiting
  BY DEF Inv, Receive, TypeOK
<1>1. Holds(b) /\ u \in DOMAIN conns /\ OneUnderWay(r) /\ (pc[b] # "setup" => u = bridge)
  BY <1>0, WaitingFacts
<1>2. r \in Connection /\ Sound(r, issued) /\ r.in # <<>>
  BY <1>0, <1>1, ConnsFacts DEF McuInv, ConnectionsSound, Receive
<1>3. x \in Connection /\ Clear(x)
  BY <1>0, <1>1, <1>2, TakeFacts
<1>4. x.next = r.next
  BY <1>2 DEF Connection
<1>5. x = WithoutFirst(r)
  BY DEF WithoutFirst
<1>d. \/ conns' = [conns EXCEPT ![u] = x] /\ UNCHANGED <<pc, queue, bridge, issued>>
      \/ pc[b] = "asking" /\ Responded(b)
      \/ Answer(b)
  BY DEF Receive, Connected, WithoutFirst
<1>. HIDE DEF x
\* It answers another request and is discarded.
<1>6. CASE conns' = [conns EXCEPT ![u] = x] /\ UNCHANGED <<pc, queue, bridge, issued>>
  <2>1. \A m : Carries(r, m) => Carries(x, m)
    BY <1>3, EmptyFacts DEF Carries, Clear
  <2>. HIDE DEF u
  <2>. QED
    BY <1>1, <1>3, <1>4, <1>6, <2>1, CarriesNothingNew
\* The batch goes on.
<1>7. CASE pc[b] = "asking" /\ Responded(b) /\ left[b] > 0
  <2>1. /\ u = bridge /\ issued' = issued + 1 /\ UNCHANGED <<pc, queue, bridge>>
        /\ conns' = [conns EXCEPT ![u] = WithRequest(x, issued + 1)]
    BY <1>1, <1>5, <1>7 DEF Responded
  <2>2. issued + 1 \in Nat
    BY <1>0
  <2>3. WithRequest(x, issued + 1) \in Connection
    BY <1>3, <2>2, RequestFacts
  <2>4. conns'[u] = WithRequest(x, issued + 1)
    BY <1>0, <1>1, <2>1, <2>3, ConnsFacts, ReplaceFacts
  <2>5. Used(b)' = u /\ pc'[b] = "asking"
    BY <1>7, <2>1 DEF Used
  <2>6. \A d \in Browsers : d # b => pc'[d] \notin Active
    BY <1>0, <1>1, <2>1, OnlyHolder
  <2>. QED
    BY <1>3, <2>1, <2>2, <2>4, <2>5, <2>6, JustAsked
<1>8. CASE Answer(b)
  BY <1>0, <1>1, <1>8, AnswerFacts, NobodyWaits
<1>9. CASE Responded(b) /\ ~ (left[b] > 0)
  BY <1>8, <1>9 DEF Responded
<1>. QED
  BY <1>d, <1>6, <1>7, <1>8, <1>9

LEMMA HostCurrent ==
  ASSUME Inv, PipeCurrent, NEW b \in Browsers, HostStep(b)
  PROVE  PipeCurrent'
<1>0. TypeOK /\ HostInv /\ issued \in Nat
  BY DEF Inv, TypeOK
<1>1. ASSUME Holds(b), Answer(b)
      PROVE  PipeCurrent'
  BY <1>0, <1>1, AnswerFacts, NobodyWaits
<1>2. CASE Refuse(b)
  BY <1>1, <1>2 DEF Refuse, JustAnswer
<1>3. CASE OpenFails(b)
  <2>1. Holds(b)
    BY <1>0, <1>3, OpeningFacts DEF OpenFails
  <2>. QED
    BY <1>1, <1>3, <2>1 DEF OpenFails, JustAnswer
<1>4. CASE RequestFails(b)
  <2>1. Holds(b)
    BY <1>0, <1>4, WaitingFacts DEF RequestFails, Waiting
  <2>. QED
    BY <1>1, <1>4, <2>1 DEF RequestFails
<1>5. CASE Ask(b)
  <2>1. issued + 1 \in Nat /\ issued' = issued + 1
    BY <1>0, <1>5 DEF Ask
  <2>. QED
    BY <1>5, <2>1, BridgeRequestCurrent DEF Ask
<1>6. CASE Reuse(b)
  BY <1>6, BridgeRequestCurrent DEF Reuse, Linked
<1>7. CASE Reconnect(b)
  <2>1. Holds(b)
    BY <1>0, <1>7, WaitingFacts DEF Reconnect, Waiting
  <2>2. Goto(b, "opening") /\ UNCHANGED queue
    BY <1>7 DEF Reconnect
  <2>3. pc'[b] = "opening" /\ \A d \in Browsers : d # b => pc'[d] \notin Active
    BY <1>0, <2>1, <2>2, GotoFacts DEF Phase
  <2>. QED
    BY <2>3 DEF PipeCurrent, Active, Waiting
<1>. QED
  BY <1>2, <1>3, <1>4, <1>5, <1>6, <1>7, OpenedCurrent, ReceiveCurrent DEF HostStep

LEMMA CurrentStep == Inv /\ PipeCurrent /\ [Next]_vars => PipeCurrent'
<1>. SUFFICES ASSUME Inv, PipeCurrent, [Next]_vars
              PROVE  PipeCurrent'
  OBVIOUS
<1>1. ASSUME NEW b \in Browsers, NEW p, NEW n, BrowserMessage(b, p, n)
      PROVE  PipeCurrent'
  <2>1. UNCHANGED <<bridge, conns, issued>> /\ pc' = [pc EXCEPT ![b] = "queued"]
    BY <1>1 DEF BrowserMessage, Goto
  <2>2. \A d \in Browsers : pc'[d] \in Waiting => pc'[d] = pc[d]
    BY <2>1 DEF Waiting, Inv, TypeOK
  <2>. QED
    BY <2>1, <2>2, WaitersUntouched
<1>2. ASSUME NEW b \in Browsers, AttemptAbandoned(b)
      PROVE  PipeCurrent'
  <2>1. Holds(b) /\ pc[b] = "opening" /\ UNCHANGED pc
    BY <1>2, OpeningFacts DEF AttemptAbandoned, Inv
  <2>2. \A d \in Browsers : d # b => pc[d] \notin Active
    BY <2>1, OnlyHolder DEF Inv
  <2>. QED
    BY <2>1, <2>2 DEF PipeCurrent, Active, Waiting
<1>3. CASE UNCHANGED vars \/ \E p \in Peers : OtherClaims(p)
  <2>1. UNCHANGED <<pc, bridge, conns, issued>>
    BY <1>3 DEF vars, OtherClaims
  <2>. QED
    BY <2>1, WaitersUntouched
<1>. QED
  BY <1>1, <1>2, <1>3, HostCurrent, McuCurrent DEF Next

\* Whatever a session receives while it waits is the response of the request it
\* has sent last, so that no browser gets the answer to another one's command,
\* nor that to its own previous one.
THEOREM BridgeResponseMatches == Spec => []ResponseMatches
<1>1. Init => PipeCurrent
  BY DEF Init, PipeCurrent, Waiting
<1>2. Inv /\ PipeCurrent => ResponseMatches
  <2>. SUFFICES ASSUME Inv, PipeCurrent, NEW b \in Browsers, pc[b] \in Waiting,
                       conns[Used(b)].in # <<>>
                PROVE  Head(conns[Used(b)].in) = Pending(b)
    BY DEF ResponseMatches
  <2>1. conns[Used(b)].in \in Seq(Message)
    BY WaitingFacts, ConnsFacts, ConnectionFields DEF Inv
  <2>2. Head(conns[Used(b)].in) = conns[Used(b)].in[1] /\ 1 \in DOMAIN conns[Used(b)].in
    BY <2>1, TailFacts
  <2>. QED
    BY <2>2 DEF PipeCurrent, Carries
<1>. QED
  BY BridgeSafety, CurrentStep, <1>1, <1>2, PTL DEF Spec

-----------------------------------------------------------------------------
(* How many steps an answer takes                                          *)

\* The most steps of its own that a session in this phase takes before it answers
\* its browser, where w is what it wants and n what is left of its batch.
Steps(phase, w, n) ==
  CASE phase = "idle" -> 0
    [] phase = "asking" -> n + 1
    [] phase = "queued" -> IF w = None THEN n + 2 ELSE 4
    [] phase = "reusing" -> 3
    [] phase = "opening" -> 2
    [] phase = "setup" -> 1

StepsLeft(b) == Steps(pc[b], want[b], left[b])

\* A connect takes at most four steps and n servo requests take n + 1: each step
\* of the session itself leaves fewer, and what the MCU, the network and the other
\* sessions do never makes it more.
AnswerProgress ==
  \A b \in Browsers :
    /\ HostStep(b) => StepsLeft(b)' < StepsLeft(b)
    /\ pc[b] # "idle" => StepsLeft(b)' <= StepsLeft(b)
    /\ pc[b] = "idle" => StepsLeft(b)' <= 4 \/ \E n \in Batches : StepsLeft(b)' = n + 1

LEMMA StepsFacts ==
  ASSUME NEW w, NEW n \in Nat
  PROVE  /\ Steps("idle", w, n) = 0 /\ Steps("asking", w, n) = n + 1
         /\ Steps("queued", w, n) = IF w = None THEN n + 2 ELSE 4
         /\ Steps("reusing", w, n) = 3 /\ Steps("opening", w, n) = 2
         /\ Steps("setup", w, n) = 1
         /\ \A phase \in Phase : Steps(phase, w, n) \in Nat
  BY DEF Steps, Phase

\* The session gives its answer.
LEMMA AnswerEnds ==
  ASSUME TypeOK, NEW b \in Browsers, Answer(b), pc[b] # "idle"
  PROVE  StepsLeft(b)' < StepsLeft(b)
<1>1. pc[b] \in Phase \ {"idle"} /\ left[b] \in Nat
  BY DEF TypeOK
<1>2. pc'[b] = "idle" /\ left'[b] = 0
  BY DEF TypeOK, Answer, Goto
<1>3. StepsLeft(b)' = 0
  BY <1>2, StepsFacts DEF StepsLeft
<1>4. StepsLeft(b) > 0
  BY <1>1, StepsFacts DEF StepsLeft, Phase
<1>. QED
  BY <1>3, <1>4

\* The session goes on with the same message.
LEMMA GotoSteps ==
  ASSUME TypeOK, NEW b \in Browsers, NEW phase, Goto(b, phase), UNCHANGED <<want, left>>
  PROVE  StepsLeft(b)' = Steps(phase, want[b], left[b]) /\ left[b] \in Nat
  BY DEF TypeOK, Goto, StepsLeft

LEMMA HostProgress ==
  ASSUME Inv, ResponseMatches, NEW b \in Browsers, HostStep(b)
  PROVE  StepsLeft(b)' < StepsLeft(b)
<1>0. TypeOK /\ left[b] \in Nat
  BY DEF Inv, TypeOK
<1>1. CASE Refuse(b) \/ OpenFails(b) \/ RequestFails(b)
  <2>1. Answer(b) /\ pc[b] # "idle"
    BY <1>1 DEF Refuse, OpenFails, JustAnswer, RequestFails
  <2>. QED
    BY <1>0, <2>1, AnswerEnds
<1>2. CASE Ask(b)
  <2>1. StepsLeft(b)' = left[b] + 1
    BY <1>0, <1>2, GotoSteps, StepsFacts DEF Ask
  <2>2. StepsLeft(b) = left[b] + 2
    BY <1>0, <1>2, StepsFacts DEF Ask, StepsLeft
  <2>. QED
    BY <1>0, <2>1, <2>2
<1>3. CASE Reuse(b)
  <2>1. StepsLeft(b)' = 3
    BY <1>0, <1>3, GotoSteps, StepsFacts DEF Reuse
  <2>2. StepsLeft(b) = 4
    BY <1>0, <1>3, StepsFacts DEF Reuse, StepsLeft
  <2>. QED
    BY <2>1, <2>2
<1>4. CASE Reconnect(b)
  <2>1. StepsLeft(b)' = 2
    BY <1>0, <1>4, GotoSteps, StepsFacts DEF Reconnect
  <2>2. StepsLeft(b) \in {3, 4}
    BY <1>0, <1>4, StepsFacts DEF Reconnect, StepsLeft
  <2>. QED
    BY <2>1, <2>2
<1>5. CASE Opened(b)
  <2>1. StepsLeft(b)' = 1
    BY <1>0, <1>5, GotoSteps, StepsFacts DEF Opened
  <2>2. StepsLeft(b) = 2
    BY <1>0, <1>5, StepsFacts DEF Opened, StepsLeft
  <2>. QED
    BY <2>1, <2>2
<1>6. CASE Receive(b)
  \* No response is discarded.
  <2>1. Head(conns[Used(b)].in).id = Expected(Used(b)) /\ pc[b] # "idle"
    <3>1. pc[b] \in Waiting /\ conns[Used(b)].in # <<>>
      BY <1>6 DEF Receive
    <3>2. Head(conns[Used(b)].in) = Pending(b)
      BY <3>1 DEF ResponseMatches
    <3>3. Pending(b).id = Expected(Used(b))
      BY DEF Pending
    <3>. QED
      BY <3>1, <3>2, <3>3 DEF Waiting
  <2>2. (pc[b] = "asking" /\ Responded(b)) \/ Answer(b)
    BY <1>6, <2>1 DEF Receive, Connected
  <2>3. CASE pc[b] = "asking" /\ Responded(b) /\ left[b] > 0
    <3>1. pc' = pc /\ want' = want /\ left'[b] = left[b] - 1
      BY <1>0, <2>3 DEF Responded, TypeOK
    <3>2. left[b] - 1 \in Nat
      BY <1>0, <2>3
    <3>3. StepsLeft(b)' = (left[b] - 1) + 1 /\ StepsLeft(b) = left[b] + 1
      BY <1>0, <2>3, <3>1, <3>2, StepsFacts DEF StepsLeft
    <3>. QED
      BY <1>0, <3>3
  <2>. QED
    BY <1>0, <2>1, <2>2, <2>3, AnswerEnds DEF Responded
<1>. QED
  BY <1>1, <1>2, <1>3, <1>4, <1>5, <1>6 DEF HostStep

\* Whatever the MCU and the network do, a session gets from a browser's message to
\* its answer within a number of its own steps that is known when it begins: no
\* retry, no discarded response and no other browser can keep it going.
THEOREM BridgeAnswersInSteps == Spec => [][AnswerProgress]_vars
<1>1. Inv /\ ResponseMatches /\ [Next]_vars => [AnswerProgress]_vars
  <2>. SUFFICES ASSUME Inv, ResponseMatches, Next, NEW b \in Browsers
                PROVE  /\ HostStep(b) => StepsLeft(b)' < StepsLeft(b)
                       /\ pc[b] # "idle" => StepsLeft(b)' <= StepsLeft(b)
                       /\ pc[b] = "idle" => \/ StepsLeft(b)' <= 4
                                            \/ \E n \in Batches : StepsLeft(b)' = n + 1
    BY DEF AnswerProgress
  <2>0. /\ TypeOK /\ pc \in [Browsers -> Phase] /\ want \in [Browsers -> Peers \cup {None}]
        /\ left \in [Browsers -> Nat]
    BY DEF Inv, TypeOK
  <2>1. StepsLeft(b) \in Nat /\ (pc[b] = "idle" => StepsLeft(b) = 0)
    <3>1. left[b] \in Nat /\ pc[b] \in Phase
      BY <2>0
    <3>2. Steps(pc[b], want[b], left[b]) \in Nat
      BY <3>1, StepsFacts
    <3>3. Steps("idle", want[b], left[b]) = 0
      BY <3>1, StepsFacts
    <3>. QED
      BY <3>2, <3>3 DEF StepsLeft
  <2>2. CASE HostStep(b)
    <3>1. pc[b] # "idle"
      BY <2>2 DEF HostStep, Refuse, Ask, RequestFails, Receive, Reuse, Reconnect, Opened,
                  OpenFails, Waiting
    <3>2. StepsLeft(b)' < StepsLeft(b)
      BY <2>2, HostProgress
    <3>3. TypeOK'
      BY BridgeStep DEF Inv
    <3>4. StepsLeft(b)' \in Nat
      BY <3>3, StepsFacts DEF StepsLeft, TypeOK
    <3>. QED
      BY <2>1, <3>1, <3>2, <3>4
  <2>3. ASSUME ~ HostStep(b), StepsLeft(b)' = StepsLeft(b)
        PROVE  /\ pc[b] # "idle" => StepsLeft(b)' <= StepsLeft(b)
               /\ pc[b] = "idle" => StepsLeft(b)' <= 4
    BY <2>1, <2>3
  \* The other sessions do not touch what b is doing.
  <2>4. ASSUME NEW d \in Browsers, d # b, HostStep(d)
        PROVE  StepsLeft(b)' = StepsLeft(b)
    <3>1. pc'[b] = pc[b] /\ want'[b] = want[b] /\ left'[b] = left[b]
      BY <2>0, <2>4 DEF HostStep, Refuse, Ask, RequestFails, Receive, Reuse, Reconnect, Opened,
                  OpenFails, JustAnswer, Answer, Goto, Responded, Connected
    <3>. QED
      BY <3>1 DEF StepsLeft
  <2>5. ASSUME NEW d \in Browsers, NEW p, NEW n \in Nat \ {0}, BrowserMessage(d, p, n), d # b
        PROVE  StepsLeft(b)' = StepsLeft(b)
    BY <2>0, <2>5 DEF BrowserMessage, Goto, StepsLeft
  <2>6. ASSUME NEW p, NEW n \in Nat \ {0}, BrowserMessage(b, p, n)
        PROVE  /\ pc[b] = "idle"
               /\ StepsLeft(b)' = IF p = None THEN n + 1 ELSE 4
    <3>1. pc[b] = "idle" /\ pc'[b] = "queued" /\ want'[b] = p /\ left'[b] = n - 1 /\ n - 1 \in Nat
      BY <2>0, <2>6 DEF BrowserMessage, Goto
    <3>2. (n - 1) + 2 = n + 1
      OBVIOUS
    <3>. QED
      BY <3>1, <3>2, StepsFacts DEF StepsLeft
  <2>7. ASSUME \/ \E d \in Browsers : AttemptAbandoned(d)
               \/ \E c \in DOMAIN conns : McuStep(c)
               \/ \E p \in Peers : OtherClaims(p)
        PROVE  StepsLeft(b)' = StepsLeft(b)
    <3>1. pc' = pc /\ want' = want /\ left' = left
      BY <2>7, ZenonT(40) DEF AttemptAbandoned, McuStep, McuClaim, McuStart, McuFinish, McuEnd,
                  LinkBreaks, OtherClaims
    <3>. QED
      BY <3>1, Zenon DEF StepsLeft
  <2>8. ASSUME NEW d \in Browsers, NEW p \in Peers, BrowserMessage(d, p, 1), ~ HostStep(b)
        PROVE  /\ pc[b] # "idle" => StepsLeft(b)' <= StepsLeft(b)
               /\ pc[b] = "idle" => StepsLeft(b)' <= 4 \/ \E n \in Batches : StepsLeft(b)' = n + 1
    <3>0. 1 \in Nat \ {0}
      OBVIOUS
    <3>1. CASE d # b
      BY <2>3, <2>5, <2>8, <3>0, <3>1
    <3>2. CASE d = b
      BY <2>6, <2>8, <3>0, <3>2
    <3>. QED
      BY <3>1, <3>2
  <2>9. ASSUME NEW d \in Browsers, NEW n \in Batches, BrowserMessage(d, None, n), ~ HostStep(b)
        PROVE  /\ pc[b] # "idle" => StepsLeft(b)' <= StepsLeft(b)
               /\ pc[b] = "idle" => StepsLeft(b)' <= 4 \/ \E k \in Batches : StepsLeft(b)' = k + 1
    <3>0. n \in Nat \ {0}
      BY BridgeAssumption
    <3>1. CASE d # b
      BY <2>3, <2>5, <2>9, <3>0, <3>1
    <3>2. CASE d = b
      BY <2>6, <2>9, <3>0, <3>2
    <3>. QED
      BY <3>1, <3>2
  <2>. QED
    BY <2>2, <2>3, <2>4, <2>7, <2>8, <2>9 DEF Next
<1>. QED
  BY BridgeSafety, BridgeResponseMatches, <1>1, PTL DEF Spec

=============================================================================
