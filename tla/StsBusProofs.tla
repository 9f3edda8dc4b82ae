---------------------------- MODULE StsBusProofs ----------------------------
(***************************************************************************)
(* The safety of the servo bus for every set of addresses, every deadline  *)
(* and every bound.  What makes replies match on a good bus is that at     *)
(* most one answer is under way (OneAnswer), and that a resynchronisation  *)
(* ends only when there is none (DrainCatches): an answer in flight is due *)
(* before the quiet interval ends, and noise cannot use up all the reads   *)
(* before it.  The last section bounds the time that a command takes.      *)
(***************************************************************************)
EXTENDS StsBus, TLAPS

\* Each packet of a command is sent once.
Budget ==
  packet + Len(prog) <= MaxPackets + (IF phase = "awaiting" THEN 1 ELSE 0)

\* What is sound in the UART comes from a servo that is there.
FramesFromServos ==
  /\ \A a \in flight : a.frame.to # 0 /\ a.frame.id \in Present
  /\ \A i \in DOMAIN fifo :
        IF fifo[i].to = 0 THEN ~ fifo[i].ok ELSE fifo[i].id \in Present

\* Only a scan goes on after a failed transaction.
PlanFits ==
  /\ scan => \A i \in DOMAIN prog : prog[i].op = "ping"
  /\ phase # "awaiting" => scan \/ prog = <<>>

\* No frame in the sequence answers a packet.
Unanswered(frames) == \A i \in DOMAIN frames : frames[i].to = 0

\* One answer is under way at most, and it is that of the last packet.
OneAnswer ==
  /\ \A a, b \in flight : a = b /\ a.frame.to = packet
  /\ \A i \in DOMAIN fifo : fifo[i].to \in {0, packet}
  /\ \A i, j \in DOMAIN fifo : fifo[i].to # 0 /\ fifo[j].to # 0 => i = j
  /\ flight # {} => Unanswered(fifo)
  /\ phase = "idle" => flight = {} /\ Unanswered(fifo)

\* An answer reaches a resynchronisation before its end.
DrainCatches ==
  phase \in {"draining", "resyncing"} =>
    /\ \A a \in flight : a.due <= timer
    /\ flight # {} => reads + (IF fifo = <<>> THEN 0 ELSE 1) <= noise + 1
    /\ ~ Unanswered(fifo) => reads <= noise + 1

\* The speed comes last, after the mode, in the packets of motor.start.
SpeedPlanned(packets) ==
  \A i \in DOMAIN packets :
     packets[i].op = "speed" =>
        \/ packets[i].id \in wheel
        \/ i = 3 /\ packets[1].op = "mode" /\ packets[1].id = packets[i].id

\* A servo that answers the mode packet has obeyed it.
ModeAnswered ==
  /\ phase = "awaiting" /\ Head(prog).op = "mode"
  /\ flight # {} \/ ~ Unanswered(fifo)
  => Head(prog).id \in wheel

\* The inductive invariant.
Inv ==
  /\ TypeOK
  /\ Budget
  /\ FramesFromServos
  /\ PlanFits
  /\ ScanSound
  /\ GoodBus => OneAnswer /\ DrainCatches /\ SpeedPlanned(prog) /\ ModeAnswered

-----------------------------------------------------------------------------
(* Lemmas about the operators                                              *)

\* A read takes the first frame and leaves the rest in order.
LEMMA TailFacts ==
  ASSUME NEW S, NEW q \in Seq(S), q # <<>>
  PROVE  /\ Tail(q) \in Seq(S) /\ Len(Tail(q)) = Len(q) - 1
         /\ Head(q) \in S /\ Head(q) = q[1] /\ 1 \in DOMAIN q
         /\ \A i \in DOMAIN Tail(q) : i + 1 \in DOMAIN q /\ Tail(q)[i] = q[i + 1]
OBVIOUS

\* Both timers fit the type of `timer`.
LEMMA TimerFacts ==
  LET longest == IF Deadline > Quiet THEN Deadline ELSE Quiet
  IN {0, Deadline, Quiet} \subseteq 0 .. longest
BY ConstantsAssumption

\* The commands of execute_command are sequences of packets.
LEMMA CommandFacts ==
  ASSUME NEW c \in Commands
  PROVE  c \in Seq(Packet) /\ SpeedPlanned(c)
<1> USE DEF Packet, Ops
<1>1. ASSUME NEW id \in Ids, c = StartMotor(id) PROVE c \in Seq(Packet) /\ SpeedPlanned(c)
  <2>1. /\ DOMAIN c = 1 .. 3
        /\ \A i \in 1 .. 3 : c[i] = [id |-> id, op |-> <<"mode", "torque", "speed">>[i]]
    BY <1>1 DEF StartMotor, Write
  <2>2. c = [i \in 1 .. 3 |-> c[i]]
    BY <1>1 DEF StartMotor, Write
  <2> QED BY <2>1, <2>2 DEF SpeedPlanned
<1>2. ASSUME NEW id \in Ids, c = StopMotor(id) PROVE c \in Seq(Packet) /\ SpeedPlanned(c)
  BY <1>2 DEF StopMotor, Write, SpeedPlanned
<1>3. ASSUME NEW id \in Ids, c = MovePosition(id) PROVE c \in Seq(Packet) /\ SpeedPlanned(c)
  <2>1. /\ DOMAIN c = 1 .. 3
        /\ \A i \in 1 .. 3 : c[i] = [id |-> id, op |-> <<"torque", "limit", "position">>[i]]
    BY <1>3 DEF MovePosition, Write
  <2>2. c = [i \in 1 .. 3 |-> c[i]]
    BY <1>3 DEF MovePosition, Write
  <2> QED BY <2>1, <2>2 DEF SpeedPlanned
<1>4. ASSUME NEW ids \in Seq(Ids), c = ReadPositions(ids)
      PROVE  c \in Seq(Packet) /\ SpeedPlanned(c)
  <2>1. /\ DOMAIN c = 1 .. Len(ids) /\ c = [i \in 1 .. Len(ids) |-> c[i]]
        /\ \A i \in 1 .. Len(ids) : c[i] = [id |-> ids[i], op |-> "read"]
    BY <1>4 DEF ReadPositions
  <2> QED BY <2>1 DEF SpeedPlanned
<1>5. \A id \in Ids : <<id>> \in Seq(Ids) /\ <<id, id>> \in Seq(Ids)
  OBVIOUS
<1> QED BY <1>1, <1>2, <1>3, <1>4, <1>5 DEF Commands

\* servo.scan probes addresses.
LEMMA ScanFacts ==
  ASSUME NEW first \in Ids, NEW last \in Ids, first <= last
  PROVE  /\ ScanServos(first, last) \in Seq(Packet)
         /\ Len(ScanServos(first, last)) = last - first + 1
         /\ \A i \in DOMAIN ScanServos(first, last) :
               ScanServos(first, last)[i].op = "ping"
BY ConstantsAssumption DEF ScanServos, Packet, Ops

-----------------------------------------------------------------------------
(* The steps                                                               *)

\* The bus is silent at first.
LEMMA InitInv == Init => Inv
<1> SUFFICES ASSUME Init PROVE Inv
  OBVIOUS
<1> USE ConstantsAssumption DEF Init
<1>1. TypeOK
  <2>1. prog \in Seq(Packet) /\ fifo \in Seq(Frame)
    OBVIOUS
  <2>2. packet \in 0 .. MaxPackets /\ noise \in 0 .. MaxNoise /\ reads \in 0 .. DrainReads
    BY DEF DrainReads
  <2>3. timer \in 0 .. (IF Deadline > Quiet THEN Deadline ELSE Quiet)
    BY TimerFacts
  <2> QED BY <2>1, <2>2, <2>3 DEF TypeOK
<1>2. Budget /\ FramesFromServos /\ PlanFits /\ ScanSound
  BY DEF Budget, FramesFromServos, PlanFits, ScanSound
<1>3. OneAnswer /\ DrainCatches /\ SpeedPlanned(prog) /\ ModeAnswered
  BY DEF OneAnswer, DrainCatches, SpeedPlanned, ModeAnswered, Unanswered
<1> QED BY <1>1, <1>2, <1>3 DEF Inv

\* The command goes on with `rest` or returns; on a good bus no answer is under
\* way any more.
LEMMA ProceedInv ==
  ASSUME Inv, NEW rest \in Seq(Packet), Proceed(rest),
         packet + Len(rest) <= MaxPackets,
         fifo' \in Seq(Frame),
         \A i \in DOMAIN fifo' :
            IF fifo'[i].to = 0 THEN ~ fifo'[i].ok ELSE fifo'[i].id \in Present,
         GoodBus => flight = {} /\ Unanswered(fifo)' /\ SpeedPlanned(rest),
         scan' \in BOOLEAN, scan' => \A i \in DOMAIN rest : rest[i].op = "ping",
         found' \subseteq Present,
         UNCHANGED <<reads, noise, latency>>
  PROVE  Inv'
<1> USE ConstantsAssumption DEF Inv
<1>0. GoodBus' <=> GoodBus
  BY DEF GoodBus
<1>1. CASE rest = <<>> /\ Return
  <2>1. TypeOK'
    BY <1>1, TimerFacts DEF TypeOK, ScanSound, Return
  <2>2. Budget' /\ FramesFromServos' /\ PlanFits' /\ ScanSound'
    BY <1>1 DEF Return, TypeOK, Budget, FramesFromServos, PlanFits, ScanSound
  <2>3. GoodBus => OneAnswer' /\ DrainCatches' /\ SpeedPlanned(prog)' /\ ModeAnswered'
    BY <1>1 DEF Return, OneAnswer, DrainCatches, SpeedPlanned, ModeAnswered, Unanswered
  <2> QED BY <1>0, <2>1, <2>2, <2>3
<1>2. CASE rest # <<>> /\ prog' = rest /\ Send(Head(rest))
  <2> DEFINE p == Head(rest)
  <2>0. p \in Packet /\ p = rest[1] /\ Len(rest) > 0
    BY <1>2
  <2>1. \/ /\ flight' = flight
           /\ wheel' = wheel \/ (p.id \in Present /\ wheel' \subseteq wheel \cup {p.id})
           /\ wheel \subseteq wheel'
        \/ /\ p.id \in Present
           /\ wheel \subseteq wheel' /\ wheel' \subseteq wheel \cup {p.id}
           /\ p.op = "mode" => p.id \in wheel'
           /\ \E a : /\ flight' = flight \cup {a}
                     /\ a \in [frame : Frame, due : 0 .. latency]
                     /\ a.frame.to = packet + 1 /\ a.frame.id \in Present
    <3>1. CASE UNCHANGED flight
      BY <1>2, <3>1 DEF Send
    <3>2. CASE flight' # flight
      <4>1. PICK ok \in BOOLEAN, due \in 0 .. latency :
              flight' = flight \cup
                {[frame |-> [to |-> packet + 1, id |-> p.id,
                             len |-> PayloadLen(p.op), ok |-> ok], due |-> due]}
        BY <1>2, <3>2 DEF Send
      <4>2. p.id \in Present /\ wheel' = IF p.op = "mode" THEN wheel \cup {p.id} ELSE wheel
        BY <1>2, <3>2 DEF Send
      <4>3. PayloadLen(p.op) \in {0, 2} /\ packet + 1 \in Nat
        BY DEF PayloadLen, TypeOK
      <4> DEFINE a == [frame |-> [to |-> packet + 1, id |-> p.id,
                                  len |-> PayloadLen(p.op), ok |-> ok], due |-> due]
      <4>4. /\ a \in [frame : Frame, due : 0 .. latency]
            /\ a.frame.to = packet + 1 /\ a.frame.id \in Present
        BY <4>2, <4>3, <2>0 DEF Frame, Packet
      <4>5. flight' = flight \cup {a}
        BY <4>1
      <4> HIDE DEF a, p
      <4> QED BY <4>2, <4>4, <4>5
    <3> QED BY <3>1, <3>2
  <2>2. phase' = "awaiting" /\ timer' = Deadline /\ packet' = packet + 1
    BY <1>2 DEF Send
  <2> HIDE DEF p
  <2>3. TypeOK'
    <3>1. packet' \in 0 .. MaxPackets /\ prog' \in Seq(Packet) /\ prog' # <<>>
      BY <1>2, <2>0, <2>2 DEF TypeOK
    <3>2. wheel' \subseteq Present /\ found' \subseteq Ids
      BY <2>1 DEF TypeOK
    <3>3. flight' \subseteq [frame : Frame, due : 0 .. latency]
      BY <2>1 DEF TypeOK
    <3> QED BY <2>2, <3>1, <3>2, <3>3, TimerFacts DEF TypeOK
  <2>4. Budget' /\ PlanFits' /\ ScanSound'
    BY <1>2, <2>0, <2>2 DEF TypeOK, Budget, PlanFits, ScanSound
  <2>5. FramesFromServos'
    BY <2>1 DEF TypeOK, FramesFromServos
  <2>6. GoodBus => OneAnswer' /\ DrainCatches'
    BY <2>1, <2>2 DEF OneAnswer, DrainCatches, Unanswered
  <2>7. GoodBus => SpeedPlanned(prog)'
    BY <1>2, <2>1 DEF SpeedPlanned
  <2>8. GoodBus => ModeAnswered'
    BY <1>2, <2>1 DEF ModeAnswered, Unanswered, p
  <2> QED BY <1>0, <2>3, <2>4, <2>5, <2>6, <2>7, <2>8
<1> QED BY <1>1, <1>2 DEF Proceed

\* resynchronize_uart begins, with one frame less in the UART or with all.
LEMMA BeginDrainInv ==
  ASSUME Inv, NEW next \in {"draining", "resyncing"}, BeginDrain(next),
         phase \in {"awaiting", "draining"},
         fifo' = fifo \/ (fifo # <<>> /\ fifo' = Tail(fifo)),
         prog' = <<>> \/ (scan /\ phase = "awaiting" /\ prog' = Tail(prog)),
         UNCHANGED <<scan, found, packet, flight, wheel, latency>>
  PROVE  Inv'
<1> USE ConstantsAssumption DEF Inv, BeginDrain
<1>0. GoodBus' <=> GoodBus
  BY DEF GoodBus
<1>1. /\ prog' \in Seq(Packet)
      /\ packet + Len(prog') <= MaxPackets
      /\ scan => \A i \in DOMAIN prog' : prog'[i].op = "ping"
      /\ scan \/ prog' = <<>>
  <2>1. CASE prog' = <<>>
    BY <2>1 DEF TypeOK, Budget
  <2>2. CASE scan /\ phase = "awaiting" /\ prog' = Tail(prog)
    BY <2>2, TailFacts DEF TypeOK, Budget, PlanFits
  <2> QED BY <2>1, <2>2
<1>2. /\ fifo' \in Seq(Frame)
      /\ \A i \in DOMAIN fifo' : \/ i \in DOMAIN fifo /\ fifo'[i] = fifo[i] /\ fifo' = fifo
                                 \/ i + 1 \in DOMAIN fifo /\ fifo'[i] = fifo[i + 1]
                                    /\ fifo' = Tail(fifo)
  <2>1. CASE fifo' = fifo
    BY <2>1 DEF TypeOK
  <2>2. CASE fifo # <<>> /\ fifo' = Tail(fifo)
    BY <2>2, TailFacts DEF TypeOK
  <2> QED BY <2>1, <2>2
<1>3. TypeOK'
  BY <1>1, <1>2, TimerFacts DEF TypeOK, DrainReads
<1>4. Budget' /\ PlanFits' /\ ScanSound'
  BY <1>1 DEF Budget, PlanFits, ScanSound
<1>5. FramesFromServos'
  BY <1>2 DEF FramesFromServos
<1>6. GoodBus => OneAnswer'
  BY <1>2 DEF OneAnswer, Unanswered, TypeOK
<1>7. GoodBus => DrainCatches'
  BY <1>2 DEF DrainCatches, TypeOK, GoodBus
<1>8. SpeedPlanned(prog)' /\ ModeAnswered'
  BY <1>1 DEF SpeedPlanned, ModeAnswered
<1> QED BY <1>0, <1>3, <1>4, <1>5, <1>6, <1>7, <1>8

\* A frame is appended to the UART: an answer, or noise.
LEMMA ArriveInv ==
  ASSUME Inv, NEW f \in Frame, fifo' = Append(fifo, f),
         \/ f.to = 0 /\ ~ f.ok /\ UNCHANGED flight
            /\ noise < MaxNoise /\ noise' = noise + 1
         \/ UNCHANGED noise /\ \E a \in flight : f = a.frame /\ flight' = flight \ {a},
         UNCHANGED <<phase, prog, scan, found, packet, timer, reads, wheel, latency>>
  PROVE  Inv'
<1> USE ConstantsAssumption DEF Inv
<1>0. /\ GoodBus' <=> GoodBus
      /\ flight' \subseteq flight
  BY DEF GoodBus
<1>1. /\ fifo' \in Seq(Frame) /\ fifo' # <<>>
      /\ DOMAIN fifo' = DOMAIN fifo \cup {Len(fifo) + 1}
      /\ Len(fifo) + 1 \notin DOMAIN fifo
      /\ fifo'[Len(fifo) + 1] = f
      /\ \A i \in DOMAIN fifo : fifo'[i] = fifo[i]
  BY DEF TypeOK
<1>2. TypeOK'
  BY <1>0, <1>1 DEF TypeOK
<1>3. Budget' /\ PlanFits' /\ ScanSound' /\ (SpeedPlanned(prog) => SpeedPlanned(prog)')
  BY DEF Budget, PlanFits, ScanSound, SpeedPlanned
<1>4. FramesFromServos'
  BY <1>0, <1>1 DEF FramesFromServos
<1>5. GoodBus => OneAnswer' /\ ModeAnswered'
  <2>1. CASE f.to = 0 /\ UNCHANGED flight
    BY <2>1, <1>1 DEF OneAnswer, ModeAnswered, Unanswered
  <2>2. ASSUME NEW a \in flight, f = a.frame, flight' = flight \ {a}
        PROVE  GoodBus => OneAnswer' /\ ModeAnswered'
    BY <2>2, <1>1 DEF OneAnswer, ModeAnswered, Unanswered
  <2> QED BY <2>1, <2>2
<1>6. GoodBus => DrainCatches'
  <2>1. CASE f.to = 0 /\ UNCHANGED flight /\ noise' = noise + 1
    BY <2>1, <1>1 DEF DrainCatches, Unanswered, TypeOK
  <2>2. ASSUME NEW a \in flight, f = a.frame, flight' = flight \ {a}, UNCHANGED noise
        PROVE  GoodBus => DrainCatches'
    <3> SUFFICES ASSUME GoodBus, phase \in {"draining", "resyncing"}
                 PROVE  flight' = {} /\ reads' <= noise' + 1
      BY DEF DrainCatches
    <3>1. flight' = {}
      BY <2>2 DEF OneAnswer
    <3>2. reads + (IF fifo = <<>> THEN 0 ELSE 1) <= noise + 1
      BY <2>2 DEF DrainCatches
    <3> QED BY <2>2, <3>1, <3>2, SMTT(40) DEF TypeOK
  <2> QED BY <2>1, <2>2
<1> QED BY <1>0, <1>2, <1>3, <1>4, <1>5, <1>6

\* A read of resynchronize_uart discards what has arrived.
LEMMA DrainReadInv == ASSUME Inv, DrainRead, UNCHANGED latency PROVE Inv'
<1> USE ConstantsAssumption DEF Inv, DrainRead
<1>1. TypeOK'
  BY TimerFacts DEF TypeOK, DrainReads
<1>2. Budget' /\ PlanFits' /\ ScanSound' /\ FramesFromServos'
  BY DEF Budget, PlanFits, ScanSound, FramesFromServos
<1>3. (GoodBus' <=> GoodBus) /\ Unanswered(fifo)'
  BY DEF GoodBus, Unanswered
<1>4. GoodBus => OneAnswer' /\ SpeedPlanned(prog)' /\ ModeAnswered'
  BY <1>3 DEF OneAnswer, SpeedPlanned, ModeAnswered
<1>5. GoodBus => DrainCatches'
  BY <1>3 DEF DrainCatches, TypeOK, GoodBus
<1> QED BY <1>1, <1>2, <1>3, <1>4, <1>5

\* Time passes for the timer and for the answers in flight alike.
LEMMA TickInv == ASSUME Inv, Tick, UNCHANGED latency PROVE Inv'
<1> USE ConstantsAssumption DEF Inv, Tick
<1> DEFINE Older(a) == [a EXCEPT !.due = @ - 1]
<1>0. \A a \in flight : /\ Older(a) \in [frame : Frame, due : 0 .. latency]
                        /\ Older(a).frame = a.frame /\ Older(a).due = a.due - 1
                        /\ a.due \in Nat
  <2> TAKE a \in flight
  <2>1. /\ a \in [frame : Frame, due : 0 .. latency]
        /\ latency \in Nat /\ a.due > 0
    BY DEF TypeOK
  <2>2. Older(a) = [frame |-> a.frame, due |-> a.due - 1]
    BY <2>1
  <2> QED BY <2>1, <2>2
<1>1. flight' = {Older(a) : a \in flight}
  OBVIOUS
<1> HIDE DEF Older
<1>2. TypeOK'
  <2>1. flight' \subseteq [frame : Frame, due : 0 .. latency]
    BY <1>0, <1>1
  <2>2. timer' \in 0 .. (IF Deadline > Quiet THEN Deadline ELSE Quiet)
    BY TimerFacts DEF TypeOK
  <2> QED BY <2>1, <2>2 DEF TypeOK
<1>3. Budget' /\ PlanFits' /\ ScanSound' /\ (GoodBus' <=> GoodBus)
      /\ (SpeedPlanned(prog) => SpeedPlanned(prog)')
  BY DEF Budget, PlanFits, ScanSound, GoodBus, SpeedPlanned
<1>4. FramesFromServos'
  BY <1>0, <1>1 DEF FramesFromServos
<1>5. flight' # {} <=> flight # {}
  BY <1>1
<1>6. GoodBus => OneAnswer'
  BY <1>0, <1>1, <1>5 DEF OneAnswer, Unanswered
<1>7. GoodBus => ModeAnswered'
  BY <1>5 DEF ModeAnswered, Unanswered
<1>8. GoodBus => DrainCatches'
  <2> SUFFICES ASSUME GoodBus, phase \in {"draining", "resyncing"}
               PROVE  /\ \A b \in flight' : b.due <= timer'
                      /\ flight # {} => reads + (IF fifo = <<>> THEN 0 ELSE 1) <= noise + 1
                      /\ ~ Unanswered(fifo) => reads <= noise + 1
    BY <1>5 DEF DrainCatches, Unanswered
  <2>1. timer' = timer - 1 /\ timer \in Nat
    BY TimerFacts DEF TypeOK
  <2>2. \A a \in flight : Older(a).due <= timer'
    BY <1>0, <2>1 DEF DrainCatches
  <2> QED BY <1>1, <2>2 DEF DrainCatches
<1> QED BY <1>2, <1>3, <1>4, <1>6, <1>7, <1>8

\* A new command finds the bus without an answer under way.
LEMMA ExecuteInv ==
  ASSUME Inv, UNCHANGED latency,
         \/ \E c \in Commands : Execute(c)
         \/ \E first, last \in Ids : ExecuteScan(first, last)
  PROVE  Inv'
<1>0. /\ fifo \in Seq(Frame)
      /\ \A i \in DOMAIN fifo :
            IF fifo[i].to = 0 THEN ~ fifo[i].ok ELSE fifo[i].id \in Present
      /\ phase = "idle" /\ GoodBus => flight = {} /\ Unanswered(fifo)
  BY DEF Inv, TypeOK, FramesFromServos, OneAnswer
<1>1. ASSUME NEW c \in Commands, Execute(c) PROVE Inv'
  BY <1>0, <1>1, CommandFacts, ProceedInv DEF Execute, Unanswered
<1>2. ASSUME NEW first \in Ids, NEW last \in Ids, ExecuteScan(first, last) PROVE Inv'
  <2> DEFINE c == ScanServos(first, last)
  <2>1. /\ c \in Seq(Packet) /\ \A i \in DOMAIN c : c[i].op = "ping"
        /\ packet + Len(c) <= MaxPackets
        /\ Proceed(c) /\ SpeedPlanned(c)
        /\ scan' = TRUE /\ found' = {} /\ UNCHANGED <<reads, fifo, noise>>
    BY <1>2, ScanFacts DEF ExecuteScan, SpeedPlanned
  <2> HIDE DEF c
  <2> QED BY <1>0, <1>2, <2>1, ProceedInv DEF ExecuteScan, Unanswered
<1> QED BY <1>1, <1>2

\* The frame that completes a transaction is, on a good bus, the only answer.
LEMMA AcceptInv == ASSUME Inv, Accept, UNCHANGED latency PROVE Inv'
<1> USE DEF Accept
<1>1. /\ prog \in Seq(Packet) /\ prog # <<>> /\ fifo \in Seq(Frame) /\ fifo # <<>>
      /\ packet + Len(prog) <= MaxPackets + 1 /\ packet \in Nat /\ MaxPackets \in Nat
  BY ConstantsAssumption DEF Inv, TypeOK, Budget
<1>2. /\ Tail(prog) \in Seq(Packet) /\ packet + Len(Tail(prog)) <= MaxPackets
      /\ \A i \in DOMAIN Tail(prog) : i + 1 \in DOMAIN prog /\ Tail(prog)[i] = prog[i + 1]
      /\ Head(prog) = prog[1]
  BY <1>1, TailFacts
<1>3. /\ fifo' \in Seq(Frame) /\ Head(fifo) = fifo[1] /\ 1 \in DOMAIN fifo
      /\ \A i \in DOMAIN fifo' : i + 1 \in DOMAIN fifo /\ fifo'[i] = fifo[i + 1]
  BY <1>1, TailFacts
<1>4. fifo[1].to # 0 /\ fifo[1].id \in Present /\ fifo[1].id = prog[1].id
  BY <1>2, <1>3 DEF Accepts, Inv, FramesFromServos
<1>5. found' \subseteq Present
  BY <1>2, <1>4 DEF Inv, ScanSound
<1>6. \A i \in DOMAIN fifo' :
         IF fifo'[i].to = 0 THEN ~ fifo'[i].ok ELSE fifo'[i].id \in Present
  BY <1>3 DEF Inv, FramesFromServos
<1>7. GoodBus => flight = {} /\ Unanswered(fifo)'
  <2> SUFFICES ASSUME GoodBus PROVE flight = {} /\ \A i \in DOMAIN fifo' : fifo'[i].to = 0
    BY DEF Unanswered
  <2>1. OneAnswer
    BY DEF Inv
  <2>2. flight = {}
    BY <2>1, <1>3, <1>4 DEF OneAnswer, Unanswered
  <2>3. ASSUME NEW i \in DOMAIN fifo' PROVE fifo'[i].to = 0
    <3>1. i + 1 \in DOMAIN fifo /\ fifo'[i] = fifo[i + 1] /\ i + 1 # 1
      BY <1>3, <2>3
    <3> QED BY <3>1, <2>1, <1>3, <1>4 DEF OneAnswer
  <2> QED BY <2>2, <2>3
<1>8. GoodBus => SpeedPlanned(Tail(prog))
  <2> SUFFICES ASSUME GoodBus, NEW i \in DOMAIN Tail(prog), prog[i + 1].op = "speed"
               PROVE  prog[i + 1].id \in wheel
    BY <1>2 DEF SpeedPlanned
  <2>1. SpeedPlanned(prog) /\ ModeAnswered
    BY DEF Inv
  <2>2. prog[1].op = "mode" => prog[1].id \in wheel
    BY <2>1, <1>2, <1>3, <1>4 DEF ModeAnswered, Unanswered
  <2> QED BY <1>2, <2>1, <2>2 DEF SpeedPlanned
<1>9. scan => \A i \in DOMAIN Tail(prog) : Tail(prog)[i].op = "ping"
  BY <1>2 DEF Inv, PlanFits
<1>10. scan' \in BOOLEAN /\ scan' = scan
  BY DEF Inv, TypeOK
<1>11. Proceed(Tail(prog)) /\ UNCHANGED <<reads, noise>>
  OBVIOUS
<1> HIDE DEF Accept
<1> DEFINE rest == Tail(prog)
<1>12. /\ rest \in Seq(Packet) /\ Proceed(rest) /\ packet + Len(rest) <= MaxPackets
       /\ GoodBus => SpeedPlanned(rest)
       /\ scan' => \A i \in DOMAIN rest : rest[i].op = "ping"
  BY <1>2, <1>8, <1>9, <1>10, <1>11
<1> HIDE DEF rest
<1> QED BY <1>3, <1>5, <1>6, <1>7, <1>10, <1>11, <1>12, ProceedInv

\* A resynchronisation that ends has seen the answer, if there was one.
LEMMA DrainDoneInv == ASSUME Inv, DrainDone, UNCHANGED latency PROVE Inv'
<1>1. /\ prog \in Seq(Packet) /\ packet + Len(prog) <= MaxPackets
      /\ scan \in BOOLEAN /\ (scan => \A i \in DOMAIN prog : prog[i].op = "ping")
      /\ fifo \in Seq(Frame)
      /\ \A i \in DOMAIN fifo :
            IF fifo[i].to = 0 THEN ~ fifo[i].ok ELSE fifo[i].id \in Present
      /\ found \subseteq Present
  BY ConstantsAssumption
     DEF Inv, TypeOK, Budget, PlanFits, FramesFromServos, ScanSound, DrainDone
<1>2. GoodBus => flight = {} /\ Unanswered(fifo) /\ SpeedPlanned(prog)
  <2> SUFFICES ASSUME GoodBus PROVE flight = {} /\ Unanswered(fifo)
    BY DEF Inv
  <2>0. /\ DrainCatches /\ phase \in {"draining", "resyncing"}
        /\ reads \in Nat /\ noise \in Nat /\ noise + 2 <= DrainReads
        /\ \A a \in flight : a.due \in Nat
    BY ConstantsAssumption DEF Inv, TypeOK, DrainDone, GoodBus, DrainReads
  <2>1. CASE reads = DrainReads
    BY <2>0, <2>1 DEF DrainCatches, DrainReads
  <2>2. CASE timer = 0 /\ NothingDue
    BY <2>0, <2>2 DEF DrainCatches, NothingDue, Unanswered
  <2> QED BY <2>1, <2>2 DEF DrainDone
<1> QED BY <1>1, <1>2, ProceedInv DEF DrainDone, Unanswered

\* Every step preserves the invariant.
LEMMA NextInv == ASSUME Inv, [Next]_vars PROVE Inv'
<1>1. CASE UNCHANGED latency /\ Accept
  BY <1>1, AcceptInv
<1>2. CASE UNCHANGED latency /\ (Reject \/ Timeout)
  <2>1. phase = "awaiting"
    BY <1>2 DEF Reject, Timeout
  <2> QED BY <1>2, <2>1, BeginDrainInv DEF Reject, Timeout, Fail
<1>3. CASE UNCHANGED latency /\ Cancel
  BY <1>3, BeginDrainInv DEF Cancel
<1>4. CASE UNCHANGED latency /\ DrainRead
  BY <1>4, DrainReadInv
<1>5. CASE UNCHANGED latency /\ DrainDone
  BY <1>5, DrainDoneInv
<1>6. CASE UNCHANGED latency /\ Tick
  BY <1>6, TickInv
<1>7. ASSUME UNCHANGED latency, NEW a \in flight, Receive(a) PROVE Inv'
  <2>1. a.frame \in Frame
    BY DEF Inv, TypeOK
  <2> QED BY <1>7, <2>1, ArriveInv DEF Receive
<1>8. CASE UNCHANGED latency /\ Noise
  <2> DEFINE f == [to |-> 0, id |-> CHOOSE id \in Ids : TRUE, len |-> 0, ok |-> FALSE]
  <2>1. f \in Frame /\ f.to = 0 /\ ~ f.ok
    BY ConstantsAssumption DEF Frame
  <2>2. /\ fifo' = Append(fifo, f) /\ noise < MaxNoise /\ noise' = noise + 1
        /\ UNCHANGED <<phase, prog, scan, found, packet, timer, reads, flight, wheel>>
    BY <1>8 DEF Noise
  <2> HIDE DEF f
  <2> QED BY <1>8, <2>1, <2>2, ArriveInv
<1>9. CASE UNCHANGED vars
  BY <1>9 DEF vars, Inv, TypeOK, Budget, FramesFromServos, PlanFits, ScanSound, GoodBus,
              OneAnswer, DrainCatches, SpeedPlanned, ModeAnswered, Unanswered
<1> QED BY <1>1, <1>2, <1>3, <1>4, <1>5, <1>6, <1>7, <1>8, <1>9, ExecuteInv
  DEF Next, Progress

-----------------------------------------------------------------------------

\* The inductive invariant holds in every reachable state.
THEOREM BusSafety == Spec => []Inv
  BY InitInv, NextInv, PTL DEF Spec

\* On a good bus a status packet that completes a transaction answers its packet,
\* whatever is lost, damaged or cancelled, for every deadline and quiet interval.
THEOREM BusRepliesMatch == Spec => []PromptRepliesMatch
<1>1. Inv => PromptRepliesMatch
  <2> SUFFICES ASSUME Inv, GoodBus, fifo # <<>>, Accepts(Head(prog), Head(fifo))
               PROVE  Head(fifo).to = packet
    BY DEF PromptRepliesMatch, ReplyAnswersItsPacket
  <2>1. Head(fifo) = fifo[1] /\ 1 \in DOMAIN fifo /\ fifo[1].ok
    BY TailFacts DEF Inv, TypeOK, Accepts
  <2> QED BY <2>1 DEF Inv, FramesFromServos, OneAnswer
<1> QED BY BusSafety, <1>1, PTL

\* On a good bus motor.start never writes a speed to a servo that has not been
\* switched to continuous rotation.
THEOREM BusSpeedNeedsWheelMode == Spec => []SpeedNeedsWheelMode
<1>1. Inv => SpeedNeedsWheelMode
  <2> SUFFICES ASSUME Inv, GoodBus, phase = "awaiting", Head(prog).op = "speed"
               PROVE  Head(prog).id \in wheel
    BY DEF SpeedNeedsWheelMode
  <2>1. Head(prog) = prog[1] /\ 1 \in DOMAIN prog
    BY TailFacts DEF Inv, TypeOK
  <2> QED BY <2>1 DEF Inv, SpeedPlanned
<1> QED BY BusSafety, <1>1, PTL

\* A scan reports only servos that are on the bus, however late their answers.
THEOREM BusScanSound == Spec => []ScanSound
<1>1. Inv => ScanSound
  BY DEF Inv
<1> QED BY BusSafety, <1>1, PTL

-----------------------------------------------------------------------------
(* How long a command takes                                                *)

\* The longest resynchronisation, and the longest a packet can take.
Drain == DrainReads * Quiet
PerPacket == Deadline + Drain

\* The rest of a resynchronisation: each read that is left may come at the end of
\* a quiet interval and begin another, but for the last.
DrainLeft == IF reads = DrainReads THEN 0 ELSE timer + (DrainReads - 1 - reads) * Quiet

\* Bounds the time until the command has returned, also if it is cancelled at the
\* worst moment and the bus is resynchronised once more.
TimeLeft ==
  CASE phase = "idle"      -> 0
    [] phase = "awaiting"  -> timer + Drain + (Len(prog) - 1) * PerPacket + Drain
    [] phase = "draining"  -> DrainLeft + Len(prog) * PerPacket + Drain
    [] phase = "resyncing" -> DrainLeft

\* A command of k packets keeps the bus for k times STS_RESPONSE_TIMEOUT and a
\* resynchronisation at most, and one more resynchronisation if it is cancelled:
\* it begins with that much time, every tick of the clock uses some up, and
\* nothing, neither noise nor a late answer, adds to it.  This is what the host
\* relies on when it gives servo.scan more time than other commands.
CommandTime ==
  /\ phase # "idle" => TimeLeft' <= TimeLeft /\ (Tick => TimeLeft' < TimeLeft)
  /\ \A c \in Commands : Execute(c) => TimeLeft' <= 3 * PerPacket + Drain
  /\ \A first, last \in Ids :
        ExecuteScan(first, last) => TimeLeft' <= (last - first + 1) * PerPacket + Drain

LEMMA Times ==
  ASSUME NEW p \in Nat
  PROVE  /\ \A n \in Nat : n * p \in Nat /\ (n + 1) * p = n * p + p
         /\ \A m, n \in Nat : m <= n => m * p <= n * p
OBVIOUS

LEMMA TimeFacts ==
  /\ Drain \in Nat /\ PerPacket \in Nat /\ PerPacket = Deadline + Drain
  /\ Drain = DrainReads * Quiet /\ DrainReads = 4 /\ Quiet \in Nat /\ Deadline \in Nat
BY ConstantsAssumption DEF Drain, PerPacket, DrainReads

\* A cancelled command has nothing more to send.
PlanDropped == phase \in {"idle", "resyncing"} => prog = <<>>

LEMMA DrainLeftFacts ==
  ASSUME TypeOK
  PROVE  /\ timer \in Nat /\ reads \in 0 .. 4 /\ DrainLeft \in Nat /\ Len(prog) \in Nat
         /\ phase = "awaiting" => Len(prog) > 0
<1>1. timer \in Nat /\ reads \in 0 .. 4 /\ Len(prog) \in Nat
      /\ (phase = "awaiting" => Len(prog) > 0)
  BY TimerFacts, ConstantsAssumption DEF TypeOK, DrainReads
<1>2. CASE reads = 4
  BY <1>1, <1>2 DEF DrainLeft, DrainReads
<1>3. CASE reads # 4
  <2>1. PICK n \in Nat : n = 4 - 1 - reads
    BY <1>1, <1>3
  <2>2. n * Quiet \in Nat
    BY Times, TimeFacts
  <2>. QED
    BY <1>1, <1>3, <2>1, <2>2 DEF DrainLeft, DrainReads
<1>. QED
  BY <1>1, <1>2, <1>3

\* A packet that is awaited is the first of those that are left.
LEMMA RestFacts ==
  ASSUME TypeOK, phase = "awaiting"
  PROVE  \E n \in Nat : n = Len(prog) - 1
<1>1. PICK m \in Nat : m = Len(prog) /\ m > 0
  BY DrainLeftFacts
<1>2. m - 1 \in Nat
  BY <1>1
<1>. QED
  BY <1>1, <1>2

LEMMA TimeLeftFacts ==
  ASSUME TypeOK
  PROVE  /\ TimeLeft \in Nat
         /\ phase = "idle" => TimeLeft = 0
         /\ phase = "awaiting" => TimeLeft = timer + Drain + (Len(prog) - 1) * PerPacket + Drain
         /\ phase = "draining" => TimeLeft = DrainLeft + Len(prog) * PerPacket + Drain
         /\ phase = "resyncing" => TimeLeft = DrainLeft
<1>1. /\ timer \in Nat /\ DrainLeft \in Nat /\ Len(prog) \in Nat
      /\ phase = "awaiting" => Len(prog) > 0
  BY DrainLeftFacts
<1>2. phase \in {"idle", "awaiting", "draining", "resyncing"}
  BY DEF TypeOK
<1>3. /\ phase = "idle" => TimeLeft = 0
      /\ phase = "awaiting" => TimeLeft = timer + Drain + (Len(prog) - 1) * PerPacket + Drain
      /\ phase = "draining" => TimeLeft = DrainLeft + Len(prog) * PerPacket + Drain
      /\ phase = "resyncing" => TimeLeft = DrainLeft
  BY DEF TimeLeft
<1>4. phase = "awaiting" => (Len(prog) - 1) * PerPacket \in Nat
  <2>. SUFFICES ASSUME phase = "awaiting" PROVE (Len(prog) - 1) * PerPacket \in Nat
    OBVIOUS
  <2>1. PICK n \in Nat : n = Len(prog) - 1
    BY <1>1
  <2>. QED
    BY <2>1, Times, TimeFacts
<1>5. Len(prog) * PerPacket \in Nat
  BY <1>1, Times, TimeFacts
<1>6. TimeLeft \in Nat
  BY <1>1, <1>2, <1>3, <1>4, <1>5, TimeFacts
<1>. QED
  BY <1>3, <1>6

LEMMA TimeLeftNow == TypeOK => TimeLeft \in Nat
BY TimeLeftFacts

LEMMA TimeLeftNext == TypeOK' => (TimeLeft \in Nat)'
BY TimeLeftNow, PTL

\* What a command may still take when it goes on with the packets in `rest`.
LEMMA ProceedTime ==
  ASSUME TypeOK', NEW rest \in Seq(Packet), Proceed(rest)
  PROVE  TimeLeft' <= Len(rest) * PerPacket + Drain
<1>1. PICK k \in Nat : k = Len(rest)
  OBVIOUS
<1>2. k * PerPacket \in Nat
  BY Times, TimeFacts
<1>3. CASE rest = <<>> /\ Return
  <2>1. phase' = "idle"
    BY <1>3 DEF Return
  <2>2. TimeLeft' = 0
    BY <2>1 DEF TimeLeft
  <2>. QED
    BY <1>1, <1>2, <2>2, TimeFacts
<1>4. CASE rest # <<>> /\ prog' = rest /\ Send(Head(rest))
  <2>1. phase' = "awaiting" /\ timer' = Deadline
    BY <1>4 DEF Send
  <2>2. PICK n \in Nat : k = n + 1 /\ n = k - 1
    <3>1. k > 0
      BY <1>1, <1>4
    <3>. QED
      BY <3>1
  <2>3. TimeLeft' = Deadline + Drain + n * PerPacket + Drain
    <3>1. TimeLeft' = timer' + Drain + (Len(prog') - 1) * PerPacket + Drain
      BY <2>1 DEF TimeLeft, Drain, PerPacket
    <3>. QED
      BY <1>1, <1>4, <2>1, <2>2, <3>1
  <2>4. k * PerPacket = n * PerPacket + PerPacket /\ n * PerPacket \in Nat
    BY <2>2, Times, TimeFacts
  <2>. QED
    BY <1>1, <2>3, <2>4, TimeFacts
<1>. QED
  BY <1>3, <1>4 DEF Proceed

\* What is left when a resynchronisation begins.
LEMMA BeginDrainTime ==
  ASSUME NEW next \in {"draining", "resyncing"}, BeginDrain(next), prog' \in Seq(Packet)
  PROVE  /\ next = "draining" => TimeLeft' = Drain + Len(prog') * PerPacket + Drain
         /\ next = "resyncing" => TimeLeft' = Drain
<1>1. phase' = next /\ timer' = Quiet /\ reads' = 0
  BY DEF BeginDrain
<1>2. DrainLeft' = Quiet + (4 - 1 - 0) * Quiet
  BY <1>1 DEF DrainLeft, DrainReads
<1>3. DrainLeft' = Drain
  BY <1>2, TimeFacts
<1>4. CASE next = "draining"
  <2>1. TimeLeft' = DrainLeft' + Len(prog') * PerPacket + Drain
    BY <1>1, <1>4 DEF TimeLeft, PerPacket, Drain
  <2>. QED
    BY <1>3, <1>4, <2>1
<1>5. CASE next = "resyncing"
  BY <1>1, <1>3, <1>5 DEF TimeLeft
<1>. QED
  BY <1>4, <1>5

LEMMA FailTime ==
  ASSUME Inv, Fail, phase = "awaiting"
  PROVE  TimeLeft' <= TimeLeft
<1>1. PICK n \in Nat : n = Len(prog) - 1
  BY RestFacts DEF Inv
<1>2. prog' \in Seq(Packet) /\ Len(prog') <= n /\ Len(prog') \in Nat
  <2>1. CASE scan
    BY <1>1, <2>1, TailFacts DEF Inv, TypeOK, Fail
  <2>2. CASE ~ scan
    BY <1>1, <2>2 DEF Fail
  <2>. QED
    BY <2>1, <2>2
<1>3. TimeLeft' = Drain + Len(prog') * PerPacket + Drain
  BY <1>2, BeginDrainTime DEF Fail
<1>4. TimeLeft = timer + Drain + n * PerPacket + Drain /\ timer \in Nat
  BY <1>1, TimeLeftFacts, DrainLeftFacts DEF Inv
<1>5. PICK m \in Nat : m = Len(prog')
  BY <1>2
<1>6. m * PerPacket <= n * PerPacket /\ m * PerPacket \in Nat /\ n * PerPacket \in Nat
  BY <1>2, <1>5, Times, TimeFacts
<1>. QED
  BY <1>3, <1>4, <1>5, <1>6, TimeFacts

LEMMA AcceptTime ==
  ASSUME Inv, Inv', Accept
  PROVE  TimeLeft' <= TimeLeft
<1>1. PICK n \in Nat : n = Len(prog) - 1
  BY RestFacts DEF Inv, Accept
<1>2. Tail(prog) \in Seq(Packet) /\ Len(Tail(prog)) = n
  BY <1>1, TailFacts DEF Inv, TypeOK, Accept
<1>3. TimeLeft' <= n * PerPacket + Drain
  BY <1>2, ProceedTime DEF Inv, Accept
<1>4. TimeLeft = timer + Drain + n * PerPacket + Drain /\ timer \in Nat
  BY <1>1, TimeLeftFacts, DrainLeftFacts DEF Inv, Accept
<1>5. TimeLeft' \in Nat
  BY TimeLeftNext DEF Inv
<1>6. n * PerPacket \in Nat
  BY Times, TimeFacts
<1>. QED
  BY <1>3, <1>4, <1>5, <1>6, TimeFacts

LEMMA CancelTime ==
  ASSUME Inv, Cancel
  PROVE  TimeLeft' <= TimeLeft
<1>1. TimeLeft' = Drain
  BY BeginDrainTime DEF Cancel
<1>2. CASE phase = "awaiting"
  <2>1. PICK n \in Nat : n = Len(prog) - 1
    BY <1>2, RestFacts DEF Inv
  <2>2. TimeLeft = timer + Drain + n * PerPacket + Drain /\ timer \in Nat
    BY <1>2, <2>1, TimeLeftFacts, DrainLeftFacts DEF Inv
  <2>3. n * PerPacket \in Nat
    BY Times, TimeFacts
  <2>. QED
    BY <1>1, <2>2, <2>3, TimeFacts
<1>3. CASE phase = "draining"
  <2>1. PICK n \in Nat : n = Len(prog)
    BY DrainLeftFacts DEF Inv
  <2>2. TimeLeft = DrainLeft + n * PerPacket + Drain /\ DrainLeft \in Nat
    BY <1>3, <2>1, TimeLeftFacts, DrainLeftFacts DEF Inv
  <2>3. n * PerPacket \in Nat
    BY Times, TimeFacts
  <2>. QED
    BY <1>1, <2>2, <2>3, TimeFacts
<1>. QED
  BY <1>2, <1>3 DEF Cancel

\* A read takes one of the reads that are left.
LEMMA DrainReadTime ==
  ASSUME Inv, Inv', DrainRead
  PROVE  TimeLeft' <= TimeLeft
<1>1. /\ phase' = phase /\ prog' = prog /\ reads < 4 /\ reads' = reads + 1 /\ timer' = Quiet
      /\ phase \in {"draining", "resyncing"}
  BY DEF DrainRead, DrainReads
<1>2. /\ timer \in Nat /\ reads \in 0 .. 4 /\ DrainLeft \in Nat /\ Len(prog) \in Nat
  BY DrainLeftFacts DEF Inv
<1>3. DrainLeft = timer + (4 - 1 - reads) * Quiet
  BY <1>1, <1>2 DEF DrainLeft, DrainReads
<1>4. DrainLeft' <= DrainLeft /\ DrainLeft' \in Nat
  <2>1. CASE reads = 3
    <3>1. DrainLeft' = 0
      BY <1>1, <2>1 DEF DrainLeft, DrainReads
    <3>. QED
      BY <1>2, <3>1
  <2>2. CASE reads # 3
    <3>1. PICK n \in Nat : n = 4 - 1 - (reads + 1) /\ n + 1 = 4 - 1 - reads
      BY <1>1, <1>2, <2>2
    <3>2. DrainLeft' = Quiet + n * Quiet
      BY <1>1, <1>2, <2>2, <3>1 DEF DrainLeft, DrainReads
    <3>3. (n + 1) * Quiet = n * Quiet + Quiet /\ n * Quiet \in Nat
      BY Times, TimeFacts
    <3>. QED
      BY <1>2, <1>3, <3>1, <3>2, <3>3, TimeFacts
  <2>. QED
    BY <2>1, <2>2
<1>5. CASE phase = "resyncing"
  <2>1. TimeLeft = DrainLeft /\ TimeLeft' = DrainLeft'
    BY <1>1, <1>5 DEF TimeLeft
  <2>. QED
    BY <1>4, <2>1
<1>6. CASE phase = "draining"
  <2>1. PICK n : n = Len(prog) * PerPacket
    OBVIOUS
  <2>2. TimeLeft = DrainLeft + n + Drain /\ TimeLeft' = DrainLeft' + n + Drain
    BY <1>1, <1>6, <2>1 DEF TimeLeft, PerPacket, Drain
  <2>3. n \in Nat
    BY <1>2, <2>1, Times, TimeFacts
  <2>4. PICK x \in Nat, y \in Nat, z \in Nat : x = DrainLeft /\ y = DrainLeft' /\ z = Drain
    BY <1>2, <1>4, TimeFacts
  <2>5. y <= x
    BY <1>4, <2>4
  <2>6. y + n + z <= x + n + z
    BY <2>3, <2>5
  <2>7. TimeLeft = x + n + z
    BY <2>2, <2>4
  <2>8. TimeLeft' = y + n + z
    BY <2>2, <2>4
  <2>. QED
    BY <2>6, <2>7, <2>8
<1>. QED
  BY <1>1, <1>5, <1>6

LEMMA DrainDoneTime ==
  ASSUME Inv, Inv', PlanDropped, DrainDone
  PROVE  TimeLeft' <= TimeLeft
<1>1. /\ DrainLeft \in Nat /\ prog \in Seq(Packet) /\ Proceed(prog)
      /\ phase \in {"draining", "resyncing"}
  BY DrainLeftFacts DEF Inv, TypeOK, DrainDone
<1>2. TimeLeft' \in Nat
  BY TimeLeftNext DEF Inv
<1>3. CASE phase = "resyncing"
  <2>1. prog = <<>>
    BY <1>3 DEF PlanDropped
  <2>2. phase' = "idle"
    BY <1>1, <2>1 DEF Proceed, Return
  <2>3. TimeLeft' = 0 /\ TimeLeft = DrainLeft
    BY <1>3, <2>2 DEF TimeLeft
  <2>. QED
    BY <1>1, <2>3
<1>4. CASE phase = "draining"
  <2>1. PICK n \in Nat : n = Len(prog)
    BY <1>1
  <2>2. TimeLeft' <= n * PerPacket + Drain
    BY <1>1, <2>1, ProceedTime DEF Inv
  <2>3. TimeLeft = DrainLeft + n * PerPacket + Drain
    BY <1>4, <2>1, TimeLeftFacts DEF Inv
  <2>4. n * PerPacket \in Nat
    BY Times, TimeFacts
  <2>. QED
    BY <1>1, <1>2, <2>2, <2>3, <2>4, TimeFacts
<1>. QED
  BY <1>1, <1>3, <1>4

\* Time that passes is used up.
LEMMA TickTime ==
  ASSUME Inv, Inv', Tick, phase # "idle"
  PROVE  TimeLeft' < TimeLeft
<1>1. /\ timer > 0 /\ timer' = timer - 1 /\ phase' = phase /\ prog' = prog /\ reads' = reads
      /\ phase \in {"draining", "resyncing"} => reads < 4
  BY DEF Tick, DrainReads
<1>2. /\ timer \in Nat /\ reads \in 0 .. 4 /\ DrainLeft \in Nat /\ Len(prog) \in Nat
      /\ phase = "awaiting" => Len(prog) > 0
  BY DrainLeftFacts DEF Inv
<1>3. phase \in {"draining", "resyncing"} => DrainLeft' = DrainLeft - 1
  <2>. SUFFICES ASSUME phase \in {"draining", "resyncing"} PROVE DrainLeft' = DrainLeft - 1
    OBVIOUS
  <2>1. PICK n \in Nat : n = 4 - 1 - reads
    BY <1>1, <1>2
  <2>2. DrainLeft = timer + n * Quiet /\ DrainLeft' = timer - 1 + n * Quiet
    BY <1>1, <1>2, <2>1 DEF DrainLeft, DrainReads
  <2>3. n * Quiet \in Nat
    BY Times, TimeFacts
  <2>. QED
    BY <1>2, <2>2, <2>3
<1>4. CASE phase = "resyncing"
  <2>1. TimeLeft = DrainLeft /\ TimeLeft' = DrainLeft'
    BY <1>1, <1>4 DEF TimeLeft
  <2>. QED
    BY <1>2, <1>3, <1>4, <2>1
<1>5. CASE phase = "draining"
  <2>1. PICK n : n = Len(prog) * PerPacket
    OBVIOUS
  <2>2. TimeLeft = DrainLeft + n + Drain /\ TimeLeft' = DrainLeft' + n + Drain
    BY <1>1, <1>5, <2>1 DEF TimeLeft, PerPacket, Drain
  <2>3. n \in Nat
    BY <1>2, <2>1, Times, TimeFacts
  <2>. QED
    BY <1>2, <1>3, <1>5, <2>2, <2>3, TimeFacts
<1>6. CASE phase = "awaiting"
  <2>1. PICK k \in Nat : k = Len(prog) - 1
    BY <1>2, <1>6
  <2>2. PICK n : n = k * PerPacket
    OBVIOUS
  <2>3. TimeLeft = timer + Drain + n + Drain /\ TimeLeft' = timer - 1 + Drain + n + Drain
    BY <1>1, <1>6, <2>1, <2>2 DEF TimeLeft, PerPacket, Drain
  <2>4. n \in Nat
    BY <2>2, Times, TimeFacts
  <2>. QED
    BY <1>2, <2>3, <2>4, TimeFacts
<1>. QED
  BY <1>4, <1>5, <1>6 DEF Inv, TypeOK

\* No command but servo.scan sends more than three packets.
LEMMA CommandLength ==
  ASSUME NEW c \in Commands
  PROVE  c \in Seq(Packet) /\ Len(c) \in Nat /\ Len(c) <= 3
<1>1. ASSUME NEW id \in Ids,
             \/ c = StartMotor(id) \/ c = StopMotor(id) \/ c = MovePosition(id)
             \/ c = ReadPositions(<<id>>) \/ c = ReadPositions(<<id, id>>)
      PROVE  DOMAIN c \in {1 .. 1, 1 .. 2, 1 .. 3}
  BY <1>1 DEF StartMotor, StopMotor, MovePosition, ReadPositions, Write
<1>2. DOMAIN c \in {1 .. 1, 1 .. 2, 1 .. 3}
  BY <1>1 DEF Commands
<1>3. c \in Seq(Packet)
  BY CommandFacts
<1>4. PICK n \in Nat : n = Len(c)
  BY <1>3
<1>5. 1 .. n \in {1 .. 1, 1 .. 2, 1 .. 3}
  BY <1>2, <1>3, <1>4
<1>6. n <= 3
  <2>. SUFFICES ASSUME n > 3 PROVE FALSE
    BY <1>4
  <2>1. 4 \in 1 .. n
    OBVIOUS
  <2>. QED
    BY <1>5, <2>1
<1>. QED
  BY <1>3, <1>4, <1>6

LEMMA StartTime ==
  ASSUME Inv, Inv'
  PROVE  /\ \A c \in Commands : Execute(c) => TimeLeft' <= 3 * PerPacket + Drain
         /\ \A first, last \in Ids :
              ExecuteScan(first, last) => TimeLeft' <= (last - first + 1) * PerPacket + Drain
<1>1. ASSUME NEW c \in Commands, Execute(c) PROVE TimeLeft' <= 3 * PerPacket + Drain
  <2>1. c \in Seq(Packet) /\ Len(c) \in Nat /\ Len(c) <= 3
    BY CommandLength
  <2>2. PICK n \in Nat : n = Len(c) /\ n <= 3
    BY <2>1
  <2>3. TimeLeft' <= n * PerPacket + Drain
    BY <1>1, <2>1, <2>2, ProceedTime DEF Inv, Execute
  <2>4. n * PerPacket <= 3 * PerPacket /\ n * PerPacket \in Nat /\ 3 * PerPacket \in Nat
    BY <2>2, Times, TimeFacts
  <2>5. TimeLeft' \in Nat
    BY TimeLeftNext DEF Inv
  <2>. QED
    BY <2>3, <2>4, <2>5, TimeFacts
<1>2. ASSUME NEW first \in Ids, NEW last \in Ids, ExecuteScan(first, last)
      PROVE  TimeLeft' <= (last - first + 1) * PerPacket + Drain
  <2>1. first <= last
    BY <1>2 DEF ExecuteScan
  <2>2. PICK c : c = ScanServos(first, last)
    OBVIOUS
  <2>3. c \in Seq(Packet) /\ Len(c) = last - first + 1
    BY <2>1, <2>2, ScanFacts
  <2>4. Proceed(c)
    BY <1>2, <2>2 DEF ExecuteScan
  <2>5. TimeLeft' <= Len(c) * PerPacket + Drain
    BY <2>3, <2>4, ProceedTime DEF Inv
  <2>. QED
    BY <2>3, <2>5
<1>. QED
  BY <1>1, <1>2

\* Only a command that goes on has packets to send.
LEMMA PlanDroppedStep ==
  ASSUME Inv, PlanDropped, [Next]_vars
  PROVE  PlanDropped'
<1>1. CASE UNCHANGED <<phase, prog>>
  BY <1>1 DEF PlanDropped
<1>2. ASSUME NEW rest, Proceed(rest) PROVE PlanDropped'
  BY <1>2 DEF Proceed, Return, Send, PlanDropped
<1>3. CASE Fail \/ Cancel
  BY <1>3 DEF Fail, Cancel, BeginDrain, PlanDropped
<1>4. CASE Accept \/ DrainDone
  BY <1>2, <1>4 DEF Accept, DrainDone
<1>5. CASE Reject \/ Timeout
  BY <1>3, <1>5 DEF Reject, Timeout
<1>6. CASE DrainRead \/ Tick \/ Noise \/ \E a \in flight : Receive(a)
  BY <1>1, <1>6 DEF DrainRead, Tick, Noise, Receive
<1>7. ASSUME NEW c, Execute(c) PROVE PlanDropped'
  BY <1>2, <1>7 DEF Execute
<1>8. ASSUME NEW first, NEW last, ExecuteScan(first, last) PROVE PlanDropped'
  BY <1>2, <1>8 DEF ExecuteScan
<1>9. CASE UNCHANGED vars
  BY <1>1, <1>9 DEF vars
<1>. QED
  BY <1>3, <1>4, <1>5, <1>6, <1>7, <1>8, <1>9 DEF Next, Progress

LEMMA StepTime ==
  ASSUME Inv, Inv', PlanDropped, [Next]_vars
  PROVE  CommandTime
<1>1. ASSUME phase # "idle" PROVE TimeLeft' <= TimeLeft
  <2>1. CASE Accept
    BY <2>1, AcceptTime
  <2>2. CASE Reject \/ Timeout
    BY <2>2, FailTime DEF Reject, Timeout
  <2>3. CASE Cancel
    BY <2>3, CancelTime
  <2>4. CASE DrainRead
    BY <2>4, DrainReadTime
  <2>5. CASE DrainDone
    BY <2>5, DrainDoneTime
  <2>6. TimeLeft \in Nat
    BY TimeLeftFacts DEF Inv
  <2>7. TimeLeft' \in Nat
    BY TimeLeftNext DEF Inv
  <2>8. CASE Tick
    <3>1. TimeLeft' < TimeLeft
      BY <1>1, <2>8, TickTime
    <3>. QED
      BY <2>6, <2>7, <3>1
  <2>9. CASE UNCHANGED <<phase, prog, timer, reads>>
    <3>1. TimeLeft' = TimeLeft
      BY <2>9 DEF TimeLeft, DrainLeft
    <3>. QED
      BY <2>6, <3>1
  <2>10. CASE Noise \/ (\E a \in flight : Receive(a)) \/ UNCHANGED vars
    BY <2>9, <2>10 DEF Noise, Receive, vars
  <2>11. ~ (\E c \in Commands : Execute(c)) /\ ~ (\E first, last \in Ids : ExecuteScan(first, last))
    BY <1>1 DEF Execute, ExecuteScan
  <2>. QED
    BY <2>1, <2>2, <2>3, <2>4, <2>5, <2>8, <2>10, <2>11 DEF Next, Progress
<1>2. ASSUME phase # "idle", Tick PROVE TimeLeft' < TimeLeft
  BY <1>2, TickTime
<1>. QED
  BY <1>1, <1>2, StartTime DEF CommandTime

\* However the bus behaves, a command has returned after the time of its packets
\* and one resynchronisation, for every deadline and quiet interval.
THEOREM BusCommandTime == Spec => [][CommandTime]_vars
<1>1. Init => PlanDropped
  BY DEF Init, PlanDropped
<1>2. Inv /\ Inv' /\ PlanDropped /\ [Next]_vars => PlanDropped'
  BY PlanDroppedStep
<1>3. Inv /\ Inv' /\ PlanDropped /\ [Next]_vars => [CommandTime]_vars
  BY StepTime
<1>. QED
  BY <1>1, <1>2, <1>3, BusSafety, PTL DEF Spec

\* When a command begins, the bus is free again before the host gives up waiting:
\* within the 20 s of SERVO_SCAN_TIMEOUT for a scan and the 750 ms of SERVO_TIMEOUT
\* for any other command.
HostPatience ==
  /\ \A c \in Commands : Execute(c) => TimeLeft' <= 750
  /\ \A first, last \in Ids : ExecuteScan(first, last) => TimeLeft' <= 20000

\* With the firmware's STS_RESPONSE_TIMEOUT of 50 ms and quiet interval of 2 ms the
\* host's time-outs are long enough, for a scan of all addresses and a bus on which
\* no servo answers too.  They also are for a batch of six positions
\* (MAX_POSITION_BATCH), the longest of the other commands.
THEOREM HostWaitsLongEnough ==
  ASSUME Deadline = 50, Quiet = 2, Ids \subseteq 1 .. 253
  PROVE  /\ Spec => [][HostPatience]_vars
         /\ 6 * PerPacket + Drain <= 750
<1>1. Drain = 8 /\ PerPacket = 58
  BY DEF Drain, PerPacket, DrainReads
<1>2. TypeOK' /\ CommandTime => HostPatience
  <2>. SUFFICES ASSUME TypeOK', CommandTime
                PROVE  HostPatience
    OBVIOUS
  <2>1. TimeLeft' \in Nat
    BY TimeLeftNext
  <2>2. ASSUME NEW c \in Commands, Execute(c)
        PROVE  TimeLeft' <= 750
    <3>1. TimeLeft' <= 3 * PerPacket + Drain
      BY <2>2 DEF CommandTime
    <3>. QED
      BY <1>1, <2>1, <3>1
  <2>3. ASSUME NEW first \in Ids, NEW last \in Ids, ExecuteScan(first, last)
        PROVE  TimeLeft' <= 20000
    <3>1. first <= last /\ TimeLeft' <= (last - first + 1) * PerPacket + Drain
      BY <2>3 DEF CommandTime, ExecuteScan
    <3>2. PICK n \in Nat : n = last - first + 1 /\ n <= 253
      BY <3>1
    <3>. QED
      BY <1>1, <2>1, <3>1, <3>2
  <2>. QED
    BY <2>2, <2>3 DEF HostPatience
<1>3. Inv => TypeOK
  BY DEF Inv
<1>4. Spec => [][HostPatience]_vars
  BY <1>2, <1>3, BusSafety, BusCommandTime, PTL
<1>. QED
  BY <1>1, <1>4

=============================================================================
