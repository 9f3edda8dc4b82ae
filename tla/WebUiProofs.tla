----------------------------- MODULE WebUiProofs -----------------------------
(***************************************************************************)
(* The safety of WebUi for every panel: any number of joints, of slider    *)
(* positions and of events.  TimersQueued is inductive with the types.     *)
(* ReleasedIsSent is not: a timeout that survived the release would send a *)
(* position of its own, and NothingQueuedBehind says that none does.       *)
(***************************************************************************)
EXTENDS WebUi, TLAPS

\* A slider that was let go has no move queued that could be sent after it.
NothingQueuedBehind == \A j \in Joints : released[j] # None => j \notin queued

Inv == TypeOK /\ TimersQueued /\ ReleasedIsSent /\ NothingQueuedBehind

\* The part of the invariant that is about sliders.
Sliders == TimersQueued /\ ReleasedIsSent /\ NothingQueuedBehind

LEMMA TailFacts ==
  ASSUME NEW S, NEW s \in Seq(S), s # <<>>
  PROVE  /\ Head(s) \in S /\ Tail(s) \in Seq(S)
         /\ Len(s) \in Nat /\ Len(Tail(s)) = Len(s) - 1 /\ Len(s) > 0
  OBVIOUS

LEMMA AppendFacts ==
  ASSUME NEW S, NEW s \in Seq(S), NEW x \in S
  PROVE  Append(s, x) \in Seq(S) /\ Last(Append(s, x)) = x
  BY DEF Last

\* A message that is sent, and what it is about.
LEMMA MessageFacts ==
  /\ Msg("connect", {}) \in Message /\ Msg("scan", {}) \in Message
  /\ \A s \in Servos : Msg("motor", {s}) \in Message /\ Msg("move", {s}) \in Message
  /\ Joints \cap enabled # {} => Msg("read", Joints \cap enabled) \in Message
  /\ \A kind, servos : Msg(kind, servos).servos = servos
  BY DEF Msg, Message, Servos

\* What a step may do to the queue of messages: answers shorten it, and what is
\* added names enabled servos only.
Sent ==
  Len(pending') > 0 /\ Len(pending') >= Len(pending) /\ pending' # pending
     => Last(pending').servos \subseteq enabled

Queue == pending' \in Seq(Message) /\ Sent

LEMMA QueueUnchanged ==
  ASSUME TypeOK, UNCHANGED pending
  PROVE  Queue
  BY DEF Queue, Sent, TypeOK

LEMMA QueueAppend ==
  ASSUME TypeOK, NEW q \in Seq(Message), NEW m \in Message, m.servos \subseteq enabled,
         pending' = Append(q, m)
  PROVE  Queue
  BY AppendFacts DEF Queue, Sent

LEMMA QueueTail ==
  ASSUME TypeOK, pending # <<>>, pending' = Tail(pending)
  PROVE  Queue
<1>1. /\ Tail(pending) \in Seq(Message)
      /\ Len(pending) \in Nat /\ Len(Tail(pending)) = Len(pending) - 1
  BY TailFacts DEF TypeOK
<1>2. ~ (Len(pending') >= Len(pending))
  BY <1>1
<1>. QED
  BY <1>1, <1>2, Zenon DEF Queue, Sent

LEMMA QueueSend ==
  ASSUME TypeOK, NEW m \in Message, m.servos \subseteq enabled, send(m)
  PROVE  Queue
  BY QueueUnchanged, QueueAppend DEF send, TypeOK

LEMMA QueueConnect ==
  ASSUME TypeOK, connectMcu
  PROVE  Queue
<1>1. pending \in Seq(Message) /\ Msg("connect", {}) \in Message /\ Msg("connect", {}).servos \subseteq enabled
  BY MessageFacts DEF TypeOK
<1>2. pending' = Append(pending, Msg("connect", {})) \/ pending' = pending
  BY DEF connectMcu
<1>. QED
  BY <1>1, <1>2, QueueUnchanged, QueueAppend

LEMMA QueueRefresh ==
  ASSUME TypeOK, NEW q \in Seq(Message), pending' = refreshPositions(q),
         q = pending \/ (pending # <<>> /\ q = Tail(pending))
  PROVE  Queue
<1>1. CASE Joints \cap enabled = {}
  BY <1>1, QueueUnchanged, QueueTail DEF refreshPositions
<1>2. CASE Joints \cap enabled # {}
  <2>. DEFINE m == Msg("read", Joints \cap enabled)
  <2>1. m \in Message /\ m.servos \subseteq enabled
    BY <1>2, MessageFacts
  <2>2. pending' = Append(q, m)
    BY <1>2 DEF refreshPositions
  <2>. HIDE DEF m
  <2>. QED
    BY <2>1, <2>2, QueueAppend
<1>. QED
  BY <1>1, <1>2

\* An event handler that leaves the sliders alone.
LEMMA SlidersUnchanged ==
  ASSUME Sliders, UNCHANGED <<enabled, last, queued, timers, released>>
  PROVE  Sliders'
  BY DEF Sliders, TimersQueued, ReleasedIsSent, NothingQueuedBehind

\* The timeout of joint j ends, if it runs.
LEMMA SlidersSettled ==
  ASSUME TypeOK, Sliders, NEW j \in Joints, NEW p \in Positions, j \in enabled,
         released' = [released EXCEPT ![j] = p],
         timers' = [timers EXCEPT ![j] = IF j \in queued THEN @ - 1 ELSE @],
         queued' = queued \ {j},
         last' = [last EXCEPT ![j] = p],
         UNCHANGED enabled
  PROVE  Sliders'
  BY DEF Sliders, TimersQueued, ReleasedIsSent, NothingQueuedBehind, TypeOK

\* Every handler keeps the invariant and sends only what it may.
LEMMA PanelStep ==
  ASSUME Inv, Next
  PROVE  Inv' /\ Sent
<1>. SUFFICES TypeOK' /\ Sliders' /\ Sent
  BY DEF Inv, Sliders
<1>0. TypeOK /\ Sliders
  BY DEF Inv, Sliders
<1>n. MaxEvents \in Nat
  BY PanelAssumption
<1>1. CASE Opened
  <2>1. Queue
    BY <1>0, <1>1, QueueConnect DEF Opened
  <2>2. Sliders'
    BY <1>0, <1>1, SlidersUnchanged DEF Opened
  <2>. QED
    BY <1>0, <1>1, <2>1, <2>2 DEF Opened, connectMcu, TypeOK, Queue
<1>2. CASE Closed
  <2>1. Sent /\ pending' \in Seq(Message)
    BY <1>2 DEF Closed, Sent
  <2>2. Sliders'
    BY <1>0, <1>2, SlidersUnchanged DEF Closed
  <2>. QED
    BY <1>0, <1>2, <2>1, <2>2 DEF Closed, TypeOK
<1>3. CASE Retry
  <2>1. Queue
    BY <1>0, <1>3, QueueUnchanged DEF Retry
  <2>2. Sliders'
    BY <1>0, <1>3, SlidersUnchanged DEF Retry
  <2>. QED
    BY <1>0, <1>3, <2>1, <2>2 DEF Retry, TypeOK, Queue
<1>4. CASE handleServerMessage
  <2>. USE <1>0, <1>4 DEF handleServerMessage
  <2>0. pending # <<>> /\ Tail(pending) \in Seq(Message)
    BY TailFacts DEF TypeOK
  <2>1. Queue
    <3>1. CASE pending' = Tail(pending)
      BY <2>0, <3>1, QueueTail
    <3>2. CASE pending' = refreshPositions(Tail(pending))
      BY <2>0, <3>2, QueueRefresh
    <3>. QED
      BY <3>1, <3>2 DEF AnswerConnected, AnswerPositions, AnswerScan, AnswerComplete, AnswerError
  <2>2. Sliders'
    BY SlidersUnchanged
  <2>3. connected' \in BOOLEAN /\ scanning' \in BOOLEAN /\ lost' \in BOOLEAN
    BY DEF AnswerConnected, AnswerPositions, AnswerScan, AnswerComplete, AnswerError, TypeOK
  <2>4. current' \in [Joints -> Positions \cup {Outside, None}]
    BY DEF AnswerConnected, AnswerPositions, AnswerScan, AnswerComplete, AnswerError, TypeOK
  <2>. QED
    BY <2>1, <2>2, <2>3, <2>4 DEF TypeOK, Queue
<1>5. CASE Submit
  <2>1. Queue
    BY <1>0, <1>5, QueueConnect DEF Submit
  <2>2. Sliders'
    BY <1>0, <1>5, SlidersUnchanged DEF Submit
  <2>3. events' \in 0 .. MaxEvents
    BY <1>0, <1>5, <1>n DEF Submit, Event, TypeOK
  <2>4. connected' = FALSE
    BY <1>5 DEF Submit, connectMcu
  <2>. QED
    BY <1>0, <1>5, <2>1, <2>2, <2>3, <2>4, Zenon DEF Submit, TypeOK, Queue
<1>6. CASE Refresh
  <2>1. Queue
    BY <1>0, <1>6, QueueRefresh DEF Refresh, TypeOK
  <2>2. Sliders'
    BY <1>0, <1>6, SlidersUnchanged DEF Refresh
  <2>. QED
    BY <1>0, <1>6, <1>n, <2>1, <2>2 DEF Refresh, Event, TypeOK, Queue
<1>7. CASE scanServos
  <2>1. Queue
    BY <1>0, <1>7, QueueSend, MessageFacts DEF scanServos
  <2>2. Sliders'
    BY <1>0, <1>7, SlidersUnchanged DEF scanServos
  <2>3. scanning' \in BOOLEAN
    BY <1>7 DEF scanServos, Allowed
  <2>4. events' \in 0 .. MaxEvents
    BY <1>0, <1>7, <1>n DEF scanServos, Event, TypeOK
  <2>. QED
    BY <1>0, <1>7, <2>1, <2>2, <2>3, <2>4, Zenon DEF scanServos, TypeOK, Queue
<1>8. CASE MotorCommand
  <2>1. Queue
    <3>1. Msg("motor", {Motor}) \in Message /\ Msg("motor", {Motor}).servos = {Motor}
      BY MessageFacts DEF Servos
    <3>. QED
      BY <1>0, <1>8, <3>1, QueueSend DEF MotorCommand
  <2>2. Sliders'
    BY <1>0, <1>8, SlidersUnchanged DEF MotorCommand
  <2>. QED
    BY <1>0, <1>8, <1>n, <2>1, <2>2 DEF MotorCommand, Event, TypeOK, Queue
<1>9. ASSUME NEW s \in Servos, Toggle(s)
      PROVE  TypeOK' /\ Sliders' /\ Sent
  <2>1. Queue
    BY <1>0, <1>9, QueueUnchanged DEF Toggle
  <2>2. Sliders'
    BY <1>0, <1>9 DEF Toggle, Sliders, TimersQueued, ReleasedIsSent, NothingQueuedBehind, TypeOK
  <2>3. TypeOK'
    <3>1. enabled' \subseteq Servos /\ queued' \subseteq Joints /\ events' \in 0 .. MaxEvents
      BY <1>0, <1>9, <1>n DEF Toggle, Event, TypeOK
    <3>2. timers' \in [Joints -> Nat]
      BY <1>0, <1>9 DEF Toggle, TypeOK, Sliders, TimersQueued
    <3>. QED
      BY <1>0, <1>9, <2>1, <3>1, <3>2 DEF Toggle, TypeOK, Queue
  <2>. QED
    BY <2>1, <2>2, <2>3 DEF Queue
<1>10. ASSUME NEW j \in Joints, NEW p \in Positions, Drag(j, p)
       PROVE  TypeOK' /\ Sliders' /\ Sent
  <2>1. Queue
    BY <1>0, <1>10, QueueUnchanged DEF Drag
  <2>2. Sliders'
    BY <1>0, <1>10 DEF Drag, Sliders, TimersQueued, ReleasedIsSent, NothingQueuedBehind, TypeOK
  <2>3. TypeOK'
    BY <1>0, <1>10, <1>n, <2>1 DEF Drag, Event, TypeOK, Queue
  <2>. QED
    BY <2>1, <2>2, <2>3 DEF Queue
<1>11. ASSUME NEW j \in Joints, NEW p \in Positions, Release(j, p)
       PROVE  TypeOK' /\ Sliders' /\ Sent
  <2>1. Queue /\ queued' = queued \ {j} /\ last' = [last EXCEPT ![j] = p]
    <3>1. CASE j \notin queued /\ last[j] = p
      BY <1>0, <1>11, <3>1, QueueUnchanged DEF Release, TypeOK
    <3>2. CASE ~ (j \notin queued /\ last[j] = p)
      <4>1. sendMove(j, p) /\ j \in enabled
        BY <1>11, <3>2 DEF Release
      <4>2. Msg("move", {j}) \in Message /\ Msg("move", {j}).servos = {j}
        BY MessageFacts DEF Servos
      <4>. QED
        BY <1>0, <4>1, <4>2, QueueSend DEF sendMove
    <3>. QED
      BY <3>1, <3>2
  <2>2. Sliders'
    BY <1>0, <1>11, <2>1, SlidersSettled DEF Release
  <2>3. timers' \in [Joints -> Nat]
    BY <1>0, <1>11 DEF Release, TypeOK, Sliders, TimersQueued
  <2>4. TypeOK'
    BY <1>0, <1>11, <1>n, <2>1, <2>3 DEF Release, Event, TypeOK, Queue
  <2>. QED
    BY <2>1, <2>2, <2>4 DEF Queue
<1>12. ASSUME NEW j \in Joints, Timeout(j)
       PROVE  TypeOK' /\ Sliders' /\ Sent
  <2>0. j \in queued /\ timers[j] = 1 /\ j \in enabled /\ released[j] = None
    BY <1>0, <1>12 DEF Timeout, Sliders, TimersQueued, NothingQueuedBehind, TypeOK
  <2>1. Queue
    <3>1. Msg("move", {j}) \in Message /\ Msg("move", {j}).servos = {j}
      BY MessageFacts DEF Servos
    <3>. QED
      BY <1>0, <1>12, <2>0, <3>1, QueueSend DEF Timeout, sendMove
  <2>2. /\ timers' = [timers EXCEPT ![j] = 0]
        /\ queued' = queued \ {j}
        /\ last' = [last EXCEPT ![j] = current[j]]
    BY <1>0, <1>12, <2>0 DEF Timeout, sendMove, TypeOK
  <2>3. Sliders'
    BY <1>0, <1>12, <2>0, <2>2 DEF Timeout, Sliders, TimersQueued, ReleasedIsSent, NothingQueuedBehind, TypeOK
  <2>4. TypeOK'
    BY <1>0, <1>12, <2>1, <2>2 DEF Timeout, TypeOK, Queue
  <2>. QED
    BY <2>1, <2>3, <2>4 DEF Queue
<1>. QED
  BY <1>1, <1>2, <1>3, <1>4, <1>5, <1>6, <1>7, <1>8, <1>9, <1>10, <1>11, <1>12 DEF Next, User

LEMMA PanelInitially == Init => Inv
<1>. SUFFICES ASSUME Init
              PROVE  Inv
  OBVIOUS
<1>1. 0 \in 0 .. MaxEvents /\ <<>> \in Seq(Message)
  BY PanelAssumption
<1>2. TypeOK
  BY <1>1 DEF Init, Config, TypeOK
<1>3. TimersQueued /\ ReleasedIsSent /\ NothingQueuedBehind
  BY DEF Init, TimersQueued, ReleasedIsSent, NothingQueuedBehind
<1>. QED
  BY <1>2, <1>3 DEF Inv

LEMMA PanelInvariant == Spec => []Inv
<1>1. Inv /\ UNCHANGED vars => Inv'
  BY DEF vars, Inv, TypeOK, TimersQueued, ReleasedIsSent, NothingQueuedBehind
<1>. QED
  BY PanelInitially, PanelStep, <1>1, PTL DEF Spec

\* queuedMoves names exactly the running timeouts, and none is of a disabled
\* joint, however the user drags, releases and switches and whatever the host
\* answers.
THEOREM PanelTimersQueued == Spec => []TimersQueued
<1>1. Inv => TimersQueued
  BY DEF Inv
<1>. QED
  BY PanelInvariant, <1>1, PTL

\* Where a slider was let go is what queuePositionMove last handed to send.
THEOREM PanelReleasedIsSent == Spec => []ReleasedIsSent
<1>1. Inv => ReleasedIsSent
  BY DEF Inv
<1>. QED
  BY PanelInvariant, <1>1, PTL

\* No handler of app.js sends a message that reads or commands a disabled servo.
THEOREM PanelDisabledNotCommanded == Spec => DisabledNotCommanded
<1>1. Inv /\ [Next]_vars => [Sent]_vars
  BY PanelStep
<1>. QED
  BY PanelInvariant, <1>1, PTL DEF Spec, DisabledNotCommanded, Sent

=============================================================================
