------------------------------- MODULE StsCodec -------------------------------
(***************************************************************************)
(* STS packets, byte by byte.  The firmware (src/src/controller.rs and     *)
(* read_sts_status in src/src/bin/main.rs) and the debug raw mode of the   *)
(* host (read_status in src/host/src/main.rs) each have a parser of their  *)
(* own for the same replies.  The module puts one reply on the line, after *)
(* noise, from the servo that was asked or from another, with a byte       *)
(* changed or lost on the way, and compares what the two make of it.       *)
(*                                                                         *)
(* A parser is a function of the bytes that arrive before the time-out.    *)
(* StsBus, which is about time, has whole frames in place of bytes.        *)
(***************************************************************************)
EXTENDS Integers, Sequences, SequencesExt

CONSTANTS
  Modulus,       \* values of a byte (2^8)
  MaxLength,     \* greatest length field accepted (66)
  SearchLimit,   \* bytes in which the header must be found (128)
  Ids,           \* servos that may be heard
  Asked,         \* the one that was addressed
  Positions,     \* positions that a servo reports
  NoiseBytes,    \* bytes that noise consists of
  MaxNoise       \* bound: bytes of noise

FF == Modulus - 1
SignBit == Modulus \div 2   \* of the upper byte of a position

ASSUME CodecAssumption ==
  /\ Modulus \in Nat /\ Modulus % 2 = 0
  /\ MaxLength \in 4 .. FF - 1 /\ SearchLimit \in Nat
  /\ Ids \subseteq 0 .. FF - 1 /\ Asked \in Ids
  /\ NoiseBytes \subseteq 0 .. FF
  /\ \A p \in Positions : p \in Int /\ -(SignBit * Modulus) < p /\ p < SignBit * Modulus

VARIABLES
  op,      \* what was asked: "read" a position or "write" a register
  noise,   \* bytes on the line before the reply
  sent,    \* the reply of a servo
  line     \* the bytes that arrive

vars == <<op, noise, sent, line>>

NoReply == [id |-> FF, error |-> 0, data |-> <<>>]

-----------------------------------------------------------------------------
(* Packets                                                                 *)

\* u8::wrapping_add over the bytes, up to each of them.
Sums(bytes) ==
  LET sum[n \in 0 .. Len(bytes)] == IF n = 0 THEN 0 ELSE (sum[n - 1] + bytes[n]) % Modulus
  IN sum

checksum(bytes) == FF - Sums(bytes)[Len(bytes)]

\* An instruction packet; a servo's reply is laid out in the same way with the
\* error in place of the instruction.
encode_instruction_packet(id, instruction, parameters) ==
  LET body == <<id, Len(parameters) + 2, instruction>> \o parameters
  IN <<FF, FF>> \o body \o <<checksum(body)>>

\* How a servo reports a position: the magnitude, lower byte first, and a sign.
PositionBytes(p) ==
  LET magnitude == IF p < 0 THEN -p ELSE p
  IN <<magnitude % Modulus, magnitude \div Modulus + (IF p < 0 THEN SignBit ELSE 0)>>

decode_signed_15(bytes) ==
  LET value == bytes[1] + Modulus * bytes[2]
  IN IF bytes[2] >= SignBit THEN -(value - SignBit * Modulus) ELSE value

-----------------------------------------------------------------------------
(* The two parsers                                                         *)

Rejected(why) == [result |-> why, data |-> <<>>]
Accepted(data) == [result |-> "ok", data |-> data]

Body(packet) == SubSeq(packet, 1, Len(packet) - 1)
Parameters(packet) == SubSeq(packet, 4, Len(packet) - 1)

\* The first of the `limit` bytes that is 0xff after another 0xff; 0 if none is.
HeaderEnd(bytes, limit) ==
  LET ends == {k \in DOMAIN bytes : k \in 2 .. limit /\ bytes[k - 1] = FF /\ bytes[k] = FF}
  IN IF ends = {} THEN 0 ELSE Min(ends)

\* One byte less is searched.
find_header_short(bytes) == HeaderEnd(bytes, SearchLimit - 1)

\* Both look for the header and go on after it.
find_header(bytes) == HeaderEnd(bytes, SearchLimit)

NoHeader(bytes) == Rejected(IF Len(bytes) < SearchLimit THEN "timeout" ELSE "invalid")

\* The checksum is not looked at.
decode_unchecked(packet, expected_id) ==
  IF /\ packet[2] \in 2 .. MaxLength /\ Len(packet) = packet[2] + 2
     /\ packet[1] = expected_id
  THEN [valid |-> TRUE, error |-> packet[3], data |-> Parameters(packet)]
  ELSE [valid |-> FALSE]

\* A packet without its header.
decode_status_packet(packet, expected_id) ==
  IF /\ packet[2] \in 2 .. MaxLength /\ Len(packet) = packet[2] + 2
     /\ packet[1] = expected_id
     /\ checksum(Body(packet)) = Last(packet)
  THEN [valid |-> TRUE, error |-> packet[3], data |-> Parameters(packet)]
  ELSE [valid |-> FALSE]

\* The firmware reads the whole packet before it looks at it.
read_sts_status(bytes, expected_id) ==
  LET start  == find_header(bytes)
      rest   == SubSeq(bytes, start + 1, Len(bytes))
      status == decode_status_packet(SubSeq(rest, 1, rest[2] + 2), expected_id)
  IN IF start = 0 THEN NoHeader(bytes)
     ELSE IF Len(rest) < 2 THEN Rejected("timeout")
     ELSE IF rest[2] \notin 2 .. MaxLength THEN Rejected("invalid")
     ELSE IF Len(rest) < rest[2] + 2 THEN Rejected("timeout")
     ELSE IF ~ status.valid THEN Rejected("invalid")
     ELSE IF status.error # 0 THEN Rejected("error")
     ELSE Accepted(status.data)

\* What the caller accepts: read_position wants two bytes, write_register none
\* (ping_servo, which takes any, is left out).
DataLength == IF op = "read" THEN 2 ELSE 0

FirmwareResult(bytes) ==
  LET status == read_sts_status(bytes, Asked)
  IN IF status.result = "ok" /\ Len(status.data) # DataLength THEN Rejected("invalid")
                                                            ELSE status

\* The length of the data is left to the caller.
read_status_any_length(bytes, expected_id, data_length) ==
  LET start  == find_header(bytes)
      rest   == SubSeq(bytes, start + 1, Len(bytes))
      packet == SubSeq(rest, 1, rest[2] + 2)
  IN IF start = 0 THEN NoHeader(bytes)
     ELSE IF Len(rest) < 2 THEN Rejected("timeout")
     ELSE IF rest[1] # expected_id THEN Rejected("invalid")
     ELSE IF rest[2] \notin 2 .. MaxLength THEN Rejected("invalid")
     ELSE IF Len(rest) < rest[2] + 2 THEN Rejected("timeout")
     ELSE IF checksum(Body(packet)) # Last(packet) THEN Rejected("invalid")
     ELSE IF packet[3] # 0 THEN Rejected("error")
     ELSE Accepted(Parameters(packet))

\* The host looks at the servo's id and the length before it reads the rest.
read_status(bytes, expected_id, data_length) ==
  LET start  == find_header(bytes)
      rest   == SubSeq(bytes, start + 1, Len(bytes))
      packet == SubSeq(rest, 1, rest[2] + 2)
  IN IF start = 0 THEN NoHeader(bytes)
     ELSE IF Len(rest) < 2 THEN Rejected("timeout")
     ELSE IF rest[1] # expected_id THEN Rejected("invalid")
     ELSE IF rest[2] \notin 2 .. MaxLength THEN Rejected("invalid")
     ELSE IF Len(rest) < rest[2] + 2 THEN Rejected("timeout")
     ELSE IF checksum(Body(packet)) # Last(packet) THEN Rejected("invalid")
     ELSE IF packet[3] # 0 THEN Rejected("error")
     ELSE IF Len(Parameters(packet)) # data_length THEN Rejected("invalid")
     ELSE Accepted(Parameters(packet))

HostResult(bytes) == read_status(bytes, Asked, DataLength)

-----------------------------------------------------------------------------
(* The line                                                                *)

Init ==
  /\ op \in {"read", "write"}
  /\ noise = <<>>
  /\ sent = NoReply
  /\ line = <<>>

Noise(b) ==
  /\ sent = NoReply
  /\ Len(noise) < MaxNoise
  /\ noise' = Append(noise, b)
  /\ line' = noise'
  /\ UNCHANGED <<op, sent>>

\* A servo replies, with a position or without data, whatever it was asked.
Reply(id, error, data) ==
  /\ sent = NoReply
  /\ sent' = [id |-> id, error |-> error, data |-> data]
  /\ line' = noise \o encode_instruction_packet(id, error, data)
  /\ UNCHANGED <<op, noise>>

Intact == line = noise \o encode_instruction_packet(sent.id, sent.error, sent.data)

\* One byte of the reply is damaged, ...
Damage(i, b) ==
  /\ sent # NoReply /\ Intact
  /\ i > Len(noise) /\ b # line[i]
  /\ line' = [line EXCEPT ![i] = b]
  /\ UNCHANGED <<op, noise, sent>>

\* ... or it is lost.
Lose(i) ==
  /\ sent # NoReply /\ Intact
  /\ i > Len(noise)
  /\ line' = RemoveAt(line, i)
  /\ UNCHANGED <<op, noise, sent>>

Next ==
  \/ \E b \in NoiseBytes : Noise(b)
  \/ \E id \in Ids, error \in {0, 1}, data \in {<<>>} \cup {PositionBytes(p) : p \in Positions} :
       Reply(id, error, data)
  \/ \E i \in DOMAIN line : Lose(i) \/ \E b \in 0 .. FF : Damage(i, b)

Spec == Init /\ [][Next]_vars

-----------------------------------------------------------------------------

\* The firmware and the raw mode of the host accept the same replies and read
\* the same data in them, whatever arrives, although one validates a packet it
\* has read completely and the other looks at each field as it comes.
SameVerdict ==
  LET firmware == FirmwareResult(line)
      host     == HostResult(line)
  IN firmware.result = "ok" \/ host.result = "ok" => firmware = host

\* What is accepted comes from the servo that was asked and reports no error, and
\* a position is the one that was sent: neither noise nor the change or the loss
\* of any one byte, in the length field or the header too, makes another of it,
\* also when it is negative or its bytes look like a header.  Noise must not spell
\* the beginning of a packet, a header and two bytes more.  (A servo that answers
\* a write with data can be taken to have answered without, if the length is
\* damaged and a data byte is the checksum of what is left.)
AcceptedIsSent ==
  LET firmware == FirmwareResult(line)
      harmless == \A k \in 1 .. Len(noise) - 3 : ~ (noise[k] = FF /\ noise[k + 1] = FF)
  IN harmless /\ firmware.result = "ok" =>
       /\ sent.id = Asked /\ sent.error = 0
       /\ op = "read" =>
            /\ firmware.data = sent.data
            /\ PositionBytes(decode_signed_15(firmware.data)) = firmware.data

\* Noise is skipped: a reply that arrives intact is understood after any noise
\* that leaves room for the header in the bytes searched, unless the noise looks
\* like a header or ends in the first half of one.
NoiseSkipped ==
  LET clean == \A k \in 1 .. Len(noise) : noise[k] = FF => k < Len(noise) /\ noise[k + 1] # FF
  IN /\ sent.id = Asked /\ Intact /\ clean /\ Len(noise) + 2 <= SearchLimit
     /\ Len(sent.data) = DataLength
     => FirmwareResult(line) = IF sent.error = 0 THEN Accepted(sent.data)
                                                 ELSE Rejected("error")

=============================================================================
