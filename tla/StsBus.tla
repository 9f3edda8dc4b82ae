-------------------------------- MODULE StsBus --------------------------------
(***************************************************************************)
(* The servo bus as the MCU drives it (src/src/bin/main.rs, from           *)
(* execute_command down to resynchronize_uart): a command is a sequence of *)
(* STS transactions, a transaction sends one packet and waits at most      *)
(* STS_RESPONSE_TIMEOUT for a status packet that names the same servo.     *)
(* Nothing in a status packet says which packet it answers, so an answer   *)
(* that is late is told from a current one only by draining the UART in    *)
(* time.  The module is about that race: answers that are slow, lost,      *)
(* damaged or errors, noise, and commands cancelled by a take-over.        *)
(*                                                                         *)
(* Time is discrete.  A task that can run does so before time passes.  One *)
(* session holds the UART at a time (ControllerService!BusHolder), so the  *)
(* module has one command at a time.  Arguments out of range never reach   *)
(* the bus and are left out.                                               *)
(***************************************************************************)
EXTENDS Naturals, Sequences

CONSTANTS
  Ids,         \* servo ids that commands address and scans probe
  Present,     \* the servos on the bus
  Deadline,    \* STS_RESPONSE_TIMEOUT
  Quiet,       \* quiet interval of resynchronize_uart
  MaxLatency,  \* longest time from a packet to its answer, on a slow bus
  MaxPackets,  \* bound: packets sent in a behaviour
  MaxNoise     \* bound: damaged frames that answer nothing, from the beginning of
               \* a resynchronisation to that of the next

ASSUME ConstantsAssumption ==
  /\ Ids \subseteq Nat /\ Ids # {} /\ Present \subseteq Ids
  /\ \A first, last \in Ids : first .. last \subseteq Ids   \* addresses without a gap
  /\ Deadline \in Nat \ {0} /\ Quiet \in Nat \ {0}
  /\ MaxLatency \in Nat /\ Quiet <= MaxLatency
  /\ MaxPackets \in Nat /\ MaxNoise \in Nat

\* resynchronize_uart reads at most so many times.
DrainReads == 4

VARIABLES
  phase,      \* "idle", "awaiting", "draining", or "resyncing" (cancelled)
  prog,       \* packets the command has yet to complete, current one first
  scan,       \* the command is servo.scan
  found,      \* the ids a scan has collected
  packet,     \* number of the last packet sent
  timer,      \* time left to the deadline or of the quiet interval
  reads,      \* reads of resynchronize_uart so far
  flight,     \* answers on their way: [frame, due]
  fifo,       \* frames received and not read
  wheel,      \* servos in continuous rotation mode
  noise,      \* damaged frames since the last resynchronisation began
  latency     \* longest time from a packet to its answer, on this bus

vars == <<phase, prog, scan, found, packet, timer, reads, flight, fifo, wheel,
          noise, latency>>

Ops == {"mode", "torque", "limit", "speed", "stop", "position", "read", "ping"}

Packet == [id : Ids, op : Ops]

\* A frame in the UART: which packet it answers (0: none), and what the parser
\* can see: the servo, the length of its payload and whether it is sound.
Frame == [to : Nat, id : Ids, len : {0, 2}, ok : BOOLEAN]

TypeOK ==
  /\ phase \in {"idle", "awaiting", "draining", "resyncing"}
  /\ prog \in Seq(Packet)
  /\ phase = "awaiting" => prog # <<>>
  /\ scan \in BOOLEAN
  /\ found \subseteq Ids
  /\ packet \in 0 .. MaxPackets
  /\ timer \in 0 .. (IF Deadline > Quiet THEN Deadline ELSE Quiet)
  /\ reads \in 0 .. DrainReads
  /\ flight \subseteq [frame : Frame, due : 0 .. latency]
  /\ fifo \in Seq(Frame)
  /\ wheel \subseteq Present
  /\ noise \in 0 .. MaxNoise
  /\ latency \in {Quiet, MaxLatency}

\* The servos of a bus answer within the quiet interval, or they do not.
Init ==
  /\ phase = "idle"
  /\ prog = <<>>
  /\ scan = FALSE
  /\ found = {}
  /\ packet = 0
  /\ timer = 0
  /\ reads = 0
  /\ flight = {}
  /\ fifo = <<>>
  /\ wheel = {}
  /\ noise = 0
  /\ latency \in {Quiet, MaxLatency}

-----------------------------------------------------------------------------
(* The commands                                                            *)

Write(id, ops) == [i \in DOMAIN ops |-> [id |-> id, op |-> ops[i]]]

\* The speed is written before the servo is switched to continuous rotation.
StartMotorSpeedFirst(id) == Write(id, <<"speed", "mode", "torque">>)

StartMotor(id)  == Write(id, <<"mode", "torque", "speed">>)
StopMotor(id)   == Write(id, <<"stop">>)
MovePosition(id) == Write(id, <<"torque", "limit", "position">>)
ReadPositions(ids) == [i \in DOMAIN ids |-> [id |-> ids[i], op |-> "read"]]

ScanServos(first, last) ==
  [i \in 1 .. (last - first + 1) |-> [id |-> first + i - 1, op |-> "ping"]]

\* servo.getPosition and a batch of two stand for batches of up to six.
Commands ==
  {StartMotor(id) : id \in Ids} \cup {StopMotor(id) : id \in Ids}
  \cup {MovePosition(id) : id \in Ids}
  \cup {ReadPositions(<<id>>) : id \in Ids}
  \cup {ReadPositions(<<id, id>>) : id \in Ids}

-----------------------------------------------------------------------------
(* One transaction                                                         *)

PayloadLen(op) == IF op = "read" THEN 2 ELSE 0

\* send_sts_packet.  The packet may be lost; if it is not, the servo obeys and
\* its answer may be lost, or arrive later, sound or not.
Send(p) ==
  /\ packet' = packet + 1
  /\ \/ UNCHANGED <<flight, wheel>>
     \/ /\ p.id \in Present
        /\ wheel' = IF p.op = "mode" THEN wheel \cup {p.id} ELSE wheel
        /\ \/ UNCHANGED flight
           \/ \E ok \in BOOLEAN, due \in 0 .. latency :
                flight' = flight \cup
                  {[frame |-> [to |-> packet + 1, id |-> p.id,
                               len |-> PayloadLen(p.op), ok |-> ok],
                    due |-> due]}
  /\ phase' = "awaiting"
  /\ timer' = Deadline

\* A frame reaches the UART.
Receive(a) ==
  /\ a.due = 0
  /\ flight' = flight \ {a}
  /\ fifo' = Append(fifo, a.frame)
  /\ UNCHANGED <<phase, prog, scan, found, packet, timer, reads, wheel, noise>>

\* Noise that looks like the beginning of a frame.  A damaged frame is rejected
\* whatever else can be read in it.
Noise ==
  /\ noise < MaxNoise
  /\ noise' = noise + 1
  /\ fifo' = Append(fifo, [to |-> 0, id |-> CHOOSE id \in Ids : TRUE,
                          len |-> 0, ok |-> FALSE])
  /\ UNCHANGED <<phase, prog, scan, found, packet, timer, reads, flight, wheel>>

\* The parser does not compare the servo id of the status packet.
AcceptsAnyServo(p, f) ==
  f.ok /\ (p.op = "ping" \/ f.len = PayloadLen(p.op))

\* read_sts_status and its callers: the frame is sound, reports no error,
\* comes from the expected servo, and has the payload that the caller expects.
\* A ping does not look at the payload.
Accepts(p, f) ==
  /\ f.ok
  /\ f.id = p.id
  /\ p.op = "ping" \/ f.len = PayloadLen(p.op)

\* The UART is drained by the first read, without waiting for quiet.
BeginDrainAtOnce(next) ==
  /\ phase' = next
  /\ timer' = 0
  /\ reads' = 0
  /\ noise' = 0

\* resynchronize_uart begins.
BeginDrain(next) ==
  /\ phase' = next
  /\ timer' = Quiet
  /\ reads' = 0
  /\ noise' = 0

\* The command returns; what is left in the UART stays there.
Return ==
  /\ phase' = "idle"
  /\ prog' = <<>>
  /\ timer' = 0
  /\ UNCHANGED <<packet, flight, wheel>>

\* The command goes on with the packets in `rest`.
Proceed(rest) ==
  \/ rest = <<>> /\ Return
  \/ rest # <<>> /\ prog' = rest /\ Send(Head(rest))

-----------------------------------------------------------------------------
(* execute_command                                                         *)

Execute(c) ==
  /\ phase = "idle"
  /\ packet + Len(c) <= MaxPackets
  /\ scan' = FALSE
  /\ found' = {}
  /\ Proceed(c)
  /\ UNCHANGED <<reads, fifo, noise>>

ExecuteScan(first, last) ==
  /\ phase = "idle"
  /\ first <= last
  /\ packet + (last - first + 1) <= MaxPackets
  /\ scan' = TRUE
  /\ found' = {}
  /\ Proceed(ScanServos(first, last))
  /\ UNCHANGED <<reads, fifo, noise>>

\* The frame at the head of the UART completes the transaction.
Accept ==
  /\ phase = "awaiting"
  /\ fifo # <<>>
  /\ Accepts(Head(prog), Head(fifo))
  /\ found' = IF scan THEN found \cup {Head(prog).id} ELSE found
  /\ fifo' = Tail(fifo)
  /\ Proceed(Tail(prog))
  /\ UNCHANGED <<scan, reads, noise>>

\* The transaction fails: a scan drains the UART before it probes the next
\* address, any other command drains it and returns its error.
Fail ==
  /\ BeginDrain("draining")
  /\ prog' = IF scan THEN Tail(prog) ELSE <<>>
  /\ UNCHANGED <<scan, found, packet, flight, wheel>>

Reject ==
  /\ phase = "awaiting"
  /\ fifo # <<>>
  /\ ~ Accepts(Head(prog), Head(fifo))
  /\ fifo' = Tail(fifo)
  /\ Fail

\* Nothing is due at this instant: what arrives with a deadline is read first.
NothingDue == fifo = <<>> /\ \A a \in flight : a.due > 0

\* A transaction waits for its answer without a deadline.
TimeoutNever ==
  /\ phase = "awaiting"
  /\ timer > Deadline
  /\ UNCHANGED fifo
  /\ Fail

\* STS_RESPONSE_TIMEOUT
Timeout ==
  /\ phase = "awaiting"
  /\ timer = 0
  /\ NothingDue
  /\ UNCHANGED fifo
  /\ Fail

\* A take-over cancels the command; its session drains the UART and ends.
Cancel ==
  /\ phase \in {"awaiting", "draining"}
  /\ BeginDrain("resyncing")
  /\ prog' = <<>>
  /\ UNCHANGED <<scan, found, packet, flight, fifo, wheel>>

-----------------------------------------------------------------------------
(* resynchronize_uart                                                      *)

\* A read discards all there is, and the quiet interval begins again.
DrainRead ==
  /\ phase \in {"draining", "resyncing"}
  /\ fifo # <<>>
  /\ reads < DrainReads
  /\ fifo' = <<>>
  /\ reads' = reads + 1
  /\ timer' = Quiet
  /\ UNCHANGED <<phase, prog, scan, found, packet, flight, wheel, noise>>

\* The interval was quiet, or the last read is done.
DrainDone ==
  /\ phase \in {"draining", "resyncing"}
  /\ reads = DrainReads \/ (timer = 0 /\ NothingDue)
  /\ Proceed(prog)
  /\ UNCHANGED <<scan, found, reads, fifo, noise>>

-----------------------------------------------------------------------------

\* Time passes when nothing is due and no timer has run out.
Tick ==
  /\ \A a \in flight : a.due > 0
  /\ phase # "idle" => timer > 0 /\ fifo = <<>>
  /\ phase \in {"draining", "resyncing"} => reads < DrainReads
  /\ timer' = IF phase = "idle" THEN 0 ELSE timer - 1
  /\ flight' = {[a EXCEPT !.due = @ - 1] : a \in flight}
  /\ UNCHANGED <<phase, prog, scan, found, packet, reads, fifo, wheel, noise>>

Progress ==
  \/ Accept \/ Reject \/ Timeout \/ DrainRead \/ DrainDone \/ Tick
  \/ \E a \in flight : Receive(a)

Next ==
  /\ \/ Progress
     \/ \E c \in Commands : Execute(c)
     \/ \E first, last \in Ids : ExecuteScan(first, last)
     \/ Noise
     \/ Cancel
  /\ UNCHANGED latency

Spec == Init /\ [][Next]_vars

\* Deadlines expire and what has arrived is read.
FairSpec == Spec /\ WF_vars(Progress /\ UNCHANGED latency)

-----------------------------------------------------------------------------

\* A status packet that completes a transaction answers its packet: neither a
\* late answer to an earlier packet of the same command nor one to a command
\* that failed or was cancelled is taken for it.
ReplyAnswersItsPacket ==
  phase = "awaiting" /\ fifo # <<>> /\ Accepts(Head(prog), Head(fifo))
     => Head(fifo).to = packet

\* A bus that resynchronize_uart copes with: its servos answer within the quiet
\* interval, and noise does not use up the reads.  One of them may find what was
\* in the UART at the beginning, and one has to be left for the late answer.
GoodBus == latency <= Quiet /\ MaxNoise + 2 <= DrainReads

\* On such a bus no answer is ever taken for another's, although packets and
\* answers are lost or damaged and take-overs cancel commands at any point.
PromptRepliesMatch == GoodBus => ReplyAnswersItsPacket

\* On such a bus motor.start writes a speed only to a servo that is in continuous
\* rotation mode, whatever is lost on the way: a lost mode packet is never taken
\* for an acknowledged one.
SpeedNeedsWheelMode ==
  GoodBus /\ phase = "awaiting" /\ Head(prog).op = "speed"
     => Head(prog).id \in wheel

\* servo.scan never reports an address that no servo has, not even when late
\* answers are about.
ScanSound == found \subseteq Present

\* Every command returns and every cancelled session is done with the UART,
\* however the bus behaves.
CommandEnds == phase # "idle" ~> phase = "idle"

=============================================================================
