--------------------------- MODULE StsCodecProofs ---------------------------
(***************************************************************************)
(* The two parsers of STS replies, for bytes of every width, every limit   *)
(* and every sequence of bytes.  That the parsers agree and that an intact *)
(* reply is understood does not depend on what the checksum computes; that *)
(* a damaged one is rejected does, and needs the sum of the bytes of a     *)
(* packet of any length.                                                   *)
(***************************************************************************)
EXTENDS StsCodec, SequenceTheorems, WellFoundedInduction, TLAPS

Byte == 0 .. FF

Frame == encode_instruction_packet(sent.id, sent.error, sent.data)

\* The frame f follows the first n bytes of w, but for one byte ...
OneChanged(w, n, f) ==
  /\ Len(w) = n + Len(f)
  /\ \E i \in 1 .. Len(f) : \A j \in 1 .. Len(f) : j # i => w[n + j] = f[j]

\* ... or without one.
OneLost(w, n, f) ==
  /\ Len(w) = n + Len(f) - 1
  /\ \E i \in 1 .. Len(f) : \A j \in 1 .. Len(f) - 1 :
        w[n + j] = f[IF j < i THEN j ELSE j + 1]

Replied ==
  /\ sent.id \in Ids /\ sent.error \in {0, 1}
  /\ sent.data = <<>> \/ \E p \in Positions : sent.data = PositionBytes(p)
  /\ \A k \in 1 .. Len(noise) : line[k] = noise[k]
  /\ OneChanged(line, Len(noise), Frame) \/ OneLost(line, Len(noise), Frame)

CodecInv ==
  /\ op \in {"read", "write"}
  /\ noise \in Seq(Byte) /\ line \in Seq(Byte)
  /\ (sent = NoReply /\ line = noise) \/ Replied

-----------------------------------------------------------------------------
(* Sequences                                                               *)

LEMMA ConcatFacts ==
  ASSUME NEW S, NEW s \in Seq(S), NEW t \in Seq(S)
  PROVE  /\ s \o t \in Seq(S) /\ Len(s) \in Nat /\ Len(t) \in Nat
         /\ Len(s \o t) = Len(s) + Len(t)
         /\ \A i \in 1 .. Len(s) : (s \o t)[i] = s[i]
         /\ \A i \in 1 .. Len(t) : (s \o t)[Len(s) + i] = t[i]
<1>1. Len(s) \in Nat /\ Len(t) \in Nat
  OBVIOUS
<1>. QED
  BY <1>1, ConcatProperties

LEMMA SameSeq ==
  ASSUME NEW S, NEW s \in Seq(S), NEW t \in Seq(S), Len(s) = Len(t),
         \A i \in 1 .. Len(s) : s[i] = t[i]
  PROVE  s = t
BY SeqEqual

\* The bytes of s from the m-th on, n of them.
LEMMA SliceFacts ==
  ASSUME NEW S, NEW s \in Seq(S), NEW m \in Nat, NEW n \in Nat, m + n <= Len(s)
  PROVE  /\ SubSeq(s, m + 1, m + n) \in Seq(S)
         /\ Len(SubSeq(s, m + 1, m + n)) = n
         /\ \A i \in 1 .. n : SubSeq(s, m + 1, m + n)[i] = s[m + i]
<1>1. \A i \in m + 1 .. m + n : s[i] \in S
  OBVIOUS
<1>2. /\ SubSeq(s, m + 1, m + n) \in Seq(S)
      /\ Len(SubSeq(s, m + 1, m + n)) = IF m + 1 <= m + n THEN m + n - (m + 1) + 1 ELSE 0
      /\ \A i \in 1 .. m + n - (m + 1) + 1 : SubSeq(s, m + 1, m + n)[i] = s[m + 1 + i - 1]
  BY <1>1, SubSeqProperties
<1>3. m + n - (m + 1) + 1 = n /\ (m + 1 <= m + n <=> n > 0)
  OBVIOUS
<1>4. \A i \in 1 .. n : m + 1 + i - 1 = m + i
  OBVIOUS
<1>. QED
  BY <1>2, <1>3, <1>4

\* A set of natural numbers has a least element.
LEMMA LeastNumber ==
  ASSUME NEW T, T \subseteq Nat, T # {}
  PROVE  Min(T) \in T /\ \A y \in T : Min(T) <= y
<1>1. PICK R : R = OpToRel(<, Nat)
  OBVIOUS
<1>2. IsWellFoundedOn(R, Nat)
  BY <1>1, NatLessThanWellFounded
<1>3. PICK x \in T : \A y \in T : ~ (<<y, x>> \in R)
  BY <1>2, WFMin
<1>4. \A y \in T : ~ (y < x)
  BY <1>1, <1>3 DEF OpToRel
<1>5. \E z \in T : \A y \in T : z <= y
  BY <1>3, <1>4
<1>. QED
  BY <1>5 DEF Min

\* The loss of the i-th byte.
LEMMA RemoveFacts ==
  ASSUME NEW S, NEW s \in Seq(S), NEW i \in 1 .. Len(s)
  PROVE  /\ RemoveAt(s, i) \in Seq(S) /\ Len(RemoveAt(s, i)) = Len(s) - 1
         /\ \A j \in 1 .. Len(s) - 1 : RemoveAt(s, i)[j] = s[IF j < i THEN j ELSE j + 1]
<1>1. PICK N \in Nat : N = Len(s) /\ i \in 1 .. N
  OBVIOUS
<1>2. PICK m \in Nat : m = i - 1
  BY <1>1
<1>3. PICK n \in Nat : n = N - i
  <2>1. N - i \in Nat
    BY <1>1
  <2>. QED
    BY <2>1
<1>4. PICK z \in Nat : z = 0
  OBVIOUS
<1>5. PICK a : a = SubSeq(s, z + 1, z + m)
  OBVIOUS
<1>0. PICK q \in Nat : q = i
  BY <1>1
<1>6. PICK b : b = SubSeq(s, q + 1, q + n)
  OBVIOUS
<1>7. a \in Seq(S) /\ Len(a) = m /\ \A j \in 1 .. m : a[j] = s[z + j]
  <2>1. z + m <= Len(s)
    BY <1>1, <1>2, <1>4
  <2>. QED
    BY <1>5, <2>1, SliceFacts
<1>8. b \in Seq(S) /\ Len(b) = n /\ \A j \in 1 .. n : b[j] = s[i + j]
  <2>1. q + n <= Len(s)
    BY <1>0, <1>1, <1>3
  <2>2. b \in Seq(S) /\ Len(b) = n /\ \A j \in 1 .. n : b[j] = s[q + j]
    BY <1>6, <2>1, SliceFacts
  <2>. QED
    BY <1>0, <2>2
<1>9. RemoveAt(s, i) = a \o b
  <2>1. z + 1 = 1 /\ z + m = i - 1 /\ q + 1 = i + 1 /\ q + n = Len(s)
    BY <1>0, <1>1, <1>2, <1>3, <1>4
  <2>2. a = SubSeq(s, 1, i - 1) /\ b = SubSeq(s, i + 1, Len(s))
    BY <1>5, <1>6, <2>1, Zenon
  <2>. QED
    BY <2>2, Zenon DEF RemoveAt
<1>10. /\ a \o b \in Seq(S) /\ Len(a \o b) = m + n
       /\ \A j \in 1 .. m : (a \o b)[j] = a[j]
       /\ \A j \in 1 .. n : (a \o b)[m + j] = b[j]
  <2>1. a \in Seq(S) /\ b \in Seq(S)
    BY <1>7, <1>8
  <2>2. /\ a \o b \in Seq(S) /\ Len(a \o b) = Len(a) + Len(b)
        /\ \A j \in 1 .. Len(a) : (a \o b)[j] = a[j]
        /\ \A j \in 1 .. Len(b) : (a \o b)[Len(a) + j] = b[j]
    BY <2>1, ConcatFacts
  <2>. QED
    BY <1>7, <1>8, <2>2
<1>11. m + n = N - 1
  BY <1>1, <1>2, <1>3
<1>12. ASSUME NEW j \in 1 .. N - 1 PROVE (a \o b)[j] = s[IF j < i THEN j ELSE j + 1]
  <2>1. CASE j < i
    <3>1. j \in 1 .. m /\ z + j = j
      BY <1>1, <1>2, <1>4, <2>1
    <3>. QED
      BY <1>7, <1>10, <2>1, <3>1
  <2>2. CASE ~ (j < i)
    <3>1. PICK k \in 1 .. n : j = m + k /\ i + k = j + 1
      <4>1. j - m \in 1 .. n /\ j = m + (j - m) /\ i + (j - m) = j + 1
        BY <1>1, <1>2, <1>3, <2>2
      <4>. QED
        BY <4>1
    <3>. QED
      BY <1>8, <1>10, <2>2, <3>1
  <2>. QED
    BY <2>1, <2>2
<1>. QED
  BY <1>1, <1>9, <1>10, <1>11, <1>12

-----------------------------------------------------------------------------
(* The two parsers agree                                                   *)

\* Where the header ends, there is room for two bytes.
LEMMA HeaderFound ==
  ASSUME NEW S, NEW bytes \in Seq(S)
  PROVE  find_header(bytes) \in 0 .. Len(bytes)
<1>. DEFINE ends == {k \in DOMAIN bytes : k \in 2 .. SearchLimit
                                          /\ bytes[k - 1] = FF /\ bytes[k] = FF}
<1>1. ends \subseteq Nat /\ ends \subseteq 1 .. Len(bytes) /\ Len(bytes) \in Nat
  OBVIOUS
<1>2. find_header(bytes) = IF ends = {} THEN 0 ELSE Min(ends)
  BY DEF find_header, HeaderEnd
<1>. HIDE DEF ends
<1>3. CASE ends = {}
  BY <1>1, <1>2, <1>3
<1>4. CASE ends # {}
  <2>1. Min(ends) \in 1 .. Len(bytes)
    BY <1>1, <1>4, LeastNumber
  <2>2. find_header(bytes) = Min(ends)
    BY <1>2, <1>4
  <2>. QED
    BY <2>1, <2>2
<1>. QED
  BY <1>3, <1>4

\* The packet that both parsers cut out of the bytes after the header.
LEMMA PacketFacts ==
  ASSUME NEW S, NEW rest \in Seq(S), Len(rest) >= 2, rest[2] \in 2 .. MaxLength,
         rest[2] + 2 <= Len(rest)
  PROVE  LET packet == SubSeq(rest, 1, rest[2] + 2)
         IN /\ packet \in Seq(S) /\ Len(packet) = rest[2] + 2
            /\ packet[1] = rest[1] /\ packet[2] = rest[2]
<1>1. PICK n \in Nat : n = rest[2] + 2 /\ n >= 2
  BY CodecAssumption
<1>2. PICK m \in Nat : m = 0
  OBVIOUS
<1>3. m + n <= Len(rest)
  BY <1>1, <1>2
<1>4. /\ SubSeq(rest, m + 1, m + n) \in Seq(S) /\ Len(SubSeq(rest, m + 1, m + n)) = n
      /\ \A i \in 1 .. n : SubSeq(rest, m + 1, m + n)[i] = rest[m + i]
  BY <1>3, SliceFacts
<1>5. m + 1 = 1 /\ m + n = rest[2] + 2 /\ m + 2 = 2 /\ 1 \in 1 .. n /\ 2 \in 1 .. n
  BY <1>1, <1>2
<1>. QED
  BY <1>1, <1>4, <1>5

\* The firmware accepts the replies that the host accepts, and those without
\* the length that was asked for.
LEMMA SameReading ==
  ASSUME NEW S, NEW bytes \in Seq(S), NEW length \in Nat
  PROVE  LET firmware == read_sts_status(bytes, Asked)
             host     == read_status(bytes, Asked, length)
         IN /\ host.result = "ok" => firmware = host /\ Len(firmware.data) = length
            /\ firmware.result = "ok" /\ Len(firmware.data) = length => host = firmware
<1>. DEFINE start == find_header(bytes)
            rest == SubSeq(bytes, start + 1, Len(bytes))
            packet == SubSeq(rest, 1, rest[2] + 2)
<1>1. start \in 0 .. Len(bytes) /\ Len(bytes) \in Nat
  BY HeaderFound
<1>2. rest \in Seq(S)
  <2>. HIDE DEF start
  <2>1. PICK n \in Nat : n = Len(bytes) - start
    BY <1>1
  <2>2. start \in Nat /\ start + n <= Len(bytes) /\ start + n = Len(bytes)
    BY <1>1, <2>1
  <2>. QED
    BY <2>2, SliceFacts
<1>3. CASE start = 0 \/ Len(rest) < 2 \/ rest[2] \notin 2 .. MaxLength \/ Len(rest) < rest[2] + 2
  BY <1>3 DEF read_sts_status, read_status, Rejected, NoHeader
<1>4. CASE ~ (start = 0 \/ Len(rest) < 2 \/ rest[2] \notin 2 .. MaxLength \/ Len(rest) < rest[2] + 2)
  <2>. HIDE DEF start, rest
  <2>1. Len(rest) >= 2 /\ rest[2] \in 2 .. MaxLength /\ rest[2] + 2 <= Len(rest)
    BY <1>2, <1>4, CodecAssumption
  <2>2. Len(packet) = rest[2] + 2 /\ packet[1] = rest[1] /\ packet[2] = rest[2]
    BY <1>2, <2>1, PacketFacts
  <2>. HIDE DEF packet
  <2>. DEFINE valid == rest[1] = Asked /\ checksum(Body(packet)) = Last(packet)
  <2>3. PICK status : status = decode_status_packet(packet, Asked)
    OBVIOUS
  <2>4. /\ status.valid = valid
        /\ valid => status.error = packet[3] /\ status.data = Parameters(packet)
    BY <2>1, <2>2, <2>3 DEF decode_status_packet
  <2>5. read_sts_status(bytes, Asked) =
          IF ~ status.valid THEN Rejected("invalid")
          ELSE IF status.error # 0 THEN Rejected("error")
          ELSE Accepted(status.data)
    BY <1>4, <2>3 DEF read_sts_status, start, rest, packet
  <2>6. read_status(bytes, Asked, length) =
          IF ~ valid THEN Rejected("invalid")
          ELSE IF packet[3] # 0 THEN Rejected("error")
          ELSE IF Len(Parameters(packet)) # length THEN Rejected("invalid")
          ELSE Accepted(Parameters(packet))
    BY <1>4 DEF read_status, start, rest, packet
  <2>. HIDE DEF valid
  <2>. QED
    BY <2>4, <2>5, <2>6 DEF Rejected, Accepted
<1>. QED
  BY <1>3, <1>4

LEMMA VerdictsAgree == CodecInv => SameVerdict
<1>. SUFFICES ASSUME CodecInv PROVE SameVerdict
  OBVIOUS
<1>1. DataLength \in Nat /\ line \in Seq(Byte)
  BY DEF DataLength, CodecInv
<1>. DEFINE firmware == read_sts_status(line, Asked)
            host == read_status(line, Asked, DataLength)
<1>2. /\ host.result = "ok" => firmware = host /\ Len(firmware.data) = DataLength
      /\ firmware.result = "ok" /\ Len(firmware.data) = DataLength => host = firmware
  BY <1>1, SameReading
<1>. HIDE DEF firmware, host
<1>3. /\ FirmwareResult(line) = IF firmware.result = "ok" /\ Len(firmware.data) # DataLength
                                THEN Rejected("invalid") ELSE firmware
      /\ HostResult(line) = host
  BY DEF FirmwareResult, HostResult, firmware, host
<1>. QED
  BY <1>2, <1>3 DEF SameVerdict, Rejected

-----------------------------------------------------------------------------
(* Bytes and their checksum                                                *)

LEMMA ByteFacts ==
  /\ Modulus \in Nat /\ Modulus >= 6 /\ FF = Modulus - 1 /\ FF \in Nat
  /\ Byte \subseteq Nat /\ 0 \in Byte
  /\ \A x \in Int : x \in Byte <=> 0 <= x /\ x < Modulus
<1>1. MaxLength \in 4 .. FF - 1 /\ FF = Modulus - 1 /\ Modulus \in Nat
  BY CodecAssumption DEF FF
<1>. QED
  BY <1>1 DEF Byte

\* The sum of two bytes, wrapped.
LEMMA WrappedSum ==
  ASSUME NEW x \in Byte, NEW a \in Byte
  PROVE  /\ (x + a) % Modulus \in Byte
         /\ (x + a) % Modulus = IF x + a < Modulus THEN x + a ELSE x + a - Modulus
<1>1. x \in Nat /\ a \in Nat /\ x < Modulus /\ a < Modulus /\ Modulus \in Nat /\ Modulus > 0
  BY ByteFacts
<1>2. PICK s \in Nat : s = x + a /\ s < Modulus + Modulus
  BY <1>1
<1>3. s % Modulus = IF s < Modulus THEN s ELSE s - Modulus
  BY <1>1, <1>2
<1>. QED
  BY <1>1, <1>2, <1>3, ByteFacts

\* The recursive definition of the sums defines a function.
LEMMA SumsExist ==
  ASSUME NEW bytes \in Seq(Byte)
  PROVE  \E f : f = [n \in 0 .. Len(bytes) |->
                       IF n = 0 THEN 0 ELSE (f[n - 1] + bytes[n]) % Modulus]
<1>. DEFINE N == Len(bytes)
            Sum(f, m) == /\ f \in [0 .. m -> Byte]
                         /\ f[0] = 0
                         /\ \A n \in 1 .. m : f[n] = (f[n - 1] + bytes[n]) % Modulus
            T == {m \in 0 .. N : ~ \E f : Sum(f, m)}
<1>1. N \in Nat /\ \A n \in 1 .. N : bytes[n] \in Byte
  OBVIOUS
<1>2. T = {}
  <2>. SUFFICES ASSUME T # {} PROVE FALSE
    OBVIOUS
  <2>1. PICK m : m \in T /\ \A y \in T : m <= y
    <3>1. T \subseteq Nat
      BY <1>1
    <3>. HIDE DEF T
    <3>. QED
      BY <3>1, LeastNumber
  <2>2. m \in 0 .. N
    BY <2>1
  <2>3. CASE m = 0
    <3>1. Sum([n \in 0 .. 0 |-> 0], 0)
      BY ByteFacts
    <3>. QED
      BY <2>1, <2>3, <3>1
  <2>4. CASE m # 0
    <3>1. m - 1 \in 0 .. N /\ m - 1 < m /\ m \in 1 .. N
      BY <1>1, <2>2, <2>4
    <3>2. m - 1 \notin T
      <4>. HIDE DEF T
      <4>1. m \in Int /\ ~ (m <= m - 1)
        BY <1>1, <2>2
      <4>. QED
        BY <2>1, <4>1
    <3>3. PICK f : Sum(f, m - 1)
      BY <3>1, <3>2
    <3>4. PICK v \in Byte : v = (f[m - 1] + bytes[m]) % Modulus
      <4>1. f[m - 1] \in Byte /\ bytes[m] \in Byte
        BY <1>1, <3>1, <3>3
      <4>. QED
        BY <4>1, WrappedSum
    <3>5. PICK g : g = [n \in 0 .. m |-> IF n = m THEN v ELSE f[n]]
      OBVIOUS
    <3>6. \A n \in 0 .. m : n # m => n \in 0 .. m - 1
      BY <1>1, <2>2
    <3>7. g \in [0 .. m -> Byte]
      BY <3>3, <3>4, <3>5, <3>6
    <3>8. g[0] = 0
      BY <1>1, <2>2, <2>4, <3>3, <3>5
    <3>9. ASSUME NEW n \in 1 .. m PROVE g[n] = (g[n - 1] + bytes[n]) % Modulus
      <4>1. n - 1 \in 0 .. m /\ n - 1 # m /\ n \in 0 .. m
        BY <1>1, <2>2
      <4>2. g[n - 1] = f[n - 1]
        BY <3>5, <4>1
      <4>3. CASE n = m
        BY <3>4, <3>5, <4>1, <4>2, <4>3
      <4>4. CASE n # m
        <5>1. n \in 1 .. m - 1
          BY <1>1, <2>2, <4>4
        <5>2. f[n] = (f[n - 1] + bytes[n]) % Modulus
          BY <3>3, <5>1
        <5>. QED
          BY <3>5, <4>1, <4>2, <4>4, <5>2
      <4>. QED
        BY <4>3, <4>4
    <3>10. Sum(g, m)
      BY <3>7, <3>8, <3>9
    <3>. QED
      BY <2>1, <3>10
  <2>. QED
    BY <2>3, <2>4
<1>3. N \in 0 .. N
  BY <1>1
<1>4. PICK f : Sum(f, N)
  BY <1>2, <1>3
<1>5. f = [n \in 0 .. N |-> IF n = 0 THEN 0 ELSE (f[n - 1] + bytes[n]) % Modulus]
  <2>1. f = [n \in 0 .. N |-> f[n]]
    BY <1>4
  <2>2. \A n \in 0 .. N : f[n] = IF n = 0 THEN 0 ELSE (f[n - 1] + bytes[n]) % Modulus
    <3>1. \A n \in 0 .. N : n # 0 => n \in 1 .. N
      BY <1>1
    <3>. QED
      BY <1>4, <3>1
  <2>. QED
    BY <2>1, <2>2
<1>. QED
  BY <1>5

LEMMA SumsEquation ==
  ASSUME NEW bytes \in Seq(Byte)
  PROVE  Sums(bytes) = [n \in 0 .. Len(bytes) |->
                       IF n = 0 THEN 0 ELSE (Sums(bytes)[n - 1] + bytes[n]) % Modulus]
BY SumsExist DEF Sums

\* Each sum is a byte and extends the one before.
LEMMA SumsFacts ==
  ASSUME NEW bytes \in Seq(Byte)
  PROVE  /\ Sums(bytes)[0] = 0
         /\ \A n \in 1 .. Len(bytes) :
              Sums(bytes)[n] = (Sums(bytes)[n - 1] + bytes[n]) % Modulus
         /\ \A n \in 0 .. Len(bytes) : Sums(bytes)[n] \in Byte
<1>. DEFINE N == Len(bytes)
<1>1. N \in Nat /\ \A n \in 1 .. N : bytes[n] \in Byte
  OBVIOUS
<1>2. PICK f : f = Sums(bytes)
  OBVIOUS
<1>3. f = [n \in 0 .. N |-> IF n = 0 THEN 0 ELSE (f[n - 1] + bytes[n]) % Modulus]
  BY <1>2, SumsEquation
<1>4. f[0] = 0
  <2>1. 0 \in 0 .. N
    BY <1>1
  <2>. QED
    BY <1>3, <2>1
<1>5. \A n \in 1 .. N : f[n] = (f[n - 1] + bytes[n]) % Modulus
  <2>1. \A n \in 1 .. N : n \in 0 .. N /\ n # 0
    BY <1>1
  <2>. QED
    BY <1>3, <2>1
<1>6. \A n \in 0 .. N : f[n] \in Byte
  <2>. DEFINE T == {n \in 0 .. N : f[n] \notin Byte}
  <2>. SUFFICES ASSUME T # {} PROVE FALSE
    OBVIOUS
  <2>1. T \subseteq Nat
    BY <1>1
  <2>2. PICK m : m \in T /\ \A y \in T : m <= y
    <3>. HIDE DEF T
    <3>. QED
      BY <2>1, LeastNumber
  <2>3. m \in 0 .. N /\ f[m] \notin Byte
    BY <2>2
  <2>4. m # 0
    BY <1>4, <2>3, ByteFacts
  <2>5. m \in 1 .. N /\ m - 1 \in 0 .. N /\ ~ (m <= m - 1)
    BY <1>1, <2>3, <2>4
  <2>6. m - 1 \notin T
    <3>. HIDE DEF T
    <3>. QED
      BY <2>2, <2>5
  <2>7. f[m - 1] \in Byte /\ bytes[m] \in Byte
    BY <1>1, <2>5, <2>6
  <2>8. (f[m - 1] + bytes[m]) % Modulus \in Byte
    BY <2>7, WrappedSum
  <2>. QED
    BY <1>5, <2>3, <2>5, <2>8
<1>. QED
  BY <1>2, <1>4, <1>5, <1>6

LEMMA Inverted ==
  ASSUME NEW x \in Byte, NEW y \in Byte
  PROVE  FF - x \in Byte /\ (FF - x = FF - y => x = y)
<1>1. x \in Nat /\ y \in Nat /\ x < Modulus /\ y < Modulus
  BY ByteFacts
<1>2. FF - x \in Int /\ 0 <= FF - x /\ FF - x < Modulus /\ (FF - x = FF - y => x = y)
  BY <1>1, ByteFacts
<1>. QED
  BY <1>2, ByteFacts

\* The checksum is a byte, and no other function of it is needed than the sum.
LEMMA ChecksumFacts ==
  ASSUME NEW bytes \in Seq(Byte)
  PROVE  checksum(bytes) \in Byte /\ checksum(bytes) = FF - Sums(bytes)[Len(bytes)]
<1>1. Len(bytes) \in 0 .. Len(bytes)
  OBVIOUS
<1>2. Sums(bytes)[Len(bytes)] \in Byte
  BY <1>1, SumsFacts
<1>. QED
  BY <1>2, Inverted DEF checksum

\* Two bytes added to the same sum, or one to two sums, give the same only if they are.
LEMMA SumInjective ==
  ASSUME NEW x \in Byte, NEW y \in Byte, NEW a \in Byte, NEW b \in Byte,
         (x + a) % Modulus = (y + b) % Modulus
  PROVE  x = y <=> a = b
<1>1. /\ (x + a) % Modulus = IF x + a < Modulus THEN x + a ELSE x + a - Modulus
      /\ (y + b) % Modulus = IF y + b < Modulus THEN y + b ELSE y + b - Modulus
  BY WrappedSum
<1>. QED
  BY <1>1, ByteFacts

\* An additive checksum detects the change of one byte, wherever it is and
\* however long the packet.
THEOREM OneByteDetected ==
  ASSUME NEW s \in Seq(Byte), NEW t \in Seq(Byte), Len(s) = Len(t),
         NEW i \in 1 .. Len(s), \A j \in 1 .. Len(s) : j # i => s[j] = t[j],
         checksum(s) = checksum(t)
  PROVE  s = t
<1>. DEFINE N == Len(s)
            f == Sums(s)
            g == Sums(t)
<1>1. N \in Nat /\ Len(t) = N /\ i \in 1 .. N
  OBVIOUS
<1>2. /\ f[0] = 0 /\ \A n \in 0 .. N : f[n] \in Byte
      /\ \A n \in 1 .. N : f[n] = (f[n - 1] + s[n]) % Modulus
  BY SumsFacts
<1>3. /\ g[0] = 0 /\ \A n \in 0 .. N : g[n] \in Byte
      /\ \A n \in 1 .. N : g[n] = (g[n - 1] + t[n]) % Modulus
  BY SumsFacts
<1>4. \A n \in 1 .. N : s[n] \in Byte /\ t[n] \in Byte /\ n - 1 \in 0 .. N /\ n \in 0 .. N
  OBVIOUS
<1>5. f[N] = g[N]
  <2>1. checksum(s) = FF - f[N] /\ checksum(t) = FF - g[N] /\ N \in 0 .. N
    BY ChecksumFacts
  <2>2. f[N] \in Byte /\ g[N] \in Byte
    BY <1>2, <1>3, <2>1
  <2>. HIDE DEF f, g, N
  <2>. QED
    BY <2>1, <2>2, Inverted
<1>. HIDE DEF f, g
<1>6. \A n \in 1 .. N : f[n] = g[n] => (f[n - 1] = g[n - 1] <=> s[n] = t[n])
  <2>. TAKE n \in 1 .. N
  <2>1. f[n - 1] \in Byte /\ g[n - 1] \in Byte /\ s[n] \in Byte /\ t[n] \in Byte
    BY <1>2, <1>3, <1>4
  <2>. QED
    BY <1>2, <1>3, <2>1, SumInjective
<1>. HIDE DEF N
\* The sums agree before the byte in question ...
<1>7. \A n \in 0 .. i - 1 : f[n] = g[n]
  <2>. DEFINE T == {n \in 0 .. i - 1 : f[n] # g[n]}
  <2>. SUFFICES ASSUME T # {} PROVE FALSE
    OBVIOUS
  <2>1. T \subseteq Nat
    BY <1>1
  <2>2. PICK m : m \in T /\ \A y \in T : m <= y
    <3>. HIDE DEF T
    <3>. QED
      BY <2>1, LeastNumber
  <2>3. m \in 0 .. i - 1 /\ f[m] # g[m]
    BY <2>2
  <2>4. m # 0
    BY <1>2, <1>3, <2>3
  <2>5. m \in 1 .. N /\ m # i /\ m - 1 \in 0 .. i - 1 /\ ~ (m <= m - 1)
    BY <1>1, <2>3, <2>4
  <2>6. m - 1 \notin T
    <3>. HIDE DEF T
    <3>. QED
      BY <2>2, <2>5
  <2>7. f[m - 1] = g[m - 1] /\ s[m] = t[m]
    BY <2>5, <2>6 DEF N
  <2>. QED
    BY <1>2, <1>3, <2>3, <2>5, <2>7
\* ... and, because they do at the end, from it on.
<1>8. f[i] = g[i]
  <2>. DEFINE T == {n \in 0 .. N - i : f[N - n] # g[N - n]}
  <2>. SUFFICES ASSUME T # {} PROVE FALSE
    <3>1. N - i \in 0 .. N - i /\ N - (N - i) = i
      BY <1>1
    <3>. QED
      BY <3>1
  <2>1. T \subseteq Nat
    BY <1>1
  <2>2. PICK m : m \in T /\ \A y \in T : m <= y
    <3>. HIDE DEF T
    <3>. QED
      BY <2>1, LeastNumber
  <2>3. m \in 0 .. N - i /\ f[N - m] # g[N - m]
    BY <2>2
  <2>4. m # 0
    <3>1. N - 0 = N
      BY <1>1
    <3>. QED
      BY <1>5, <2>3, <3>1
  <2>5. /\ m - 1 \in 0 .. N - i /\ ~ (m <= m - 1)
        /\ N - (m - 1) \in 1 .. N /\ N - (m - 1) # i /\ (N - (m - 1)) - 1 = N - m
    BY <1>1, <2>3, <2>4
  <2>6. m - 1 \notin T
    <3>. HIDE DEF T
    <3>. QED
      BY <2>2, <2>5
  <2>7. PICK k : k = N - (m - 1)
    OBVIOUS
  <2>8. k \in 1 .. N /\ k # i /\ k - 1 = N - m /\ f[k] = g[k]
    BY <2>5, <2>6, <2>7
  <2>9. s[k] = t[k]
    BY <2>8 DEF N
  <2>. QED
    BY <1>6, <2>3, <2>8, <2>9
<1>9. s[i] = t[i]
  <2>1. i - 1 \in 0 .. i - 1
    BY <1>1
  <2>. QED
    BY <1>1, <1>6, <1>7, <1>8, <2>1
<1>10. \A j \in 1 .. Len(s) : s[j] = t[j]
  BY <1>9
<1>. QED
  BY <1>10, SameSeq

-----------------------------------------------------------------------------
(* Positions                                                               *)

\* What a servo makes of a position: two bytes, the upper one with the sign.
LEMMA PositionHalves ==
  ASSUME NEW p \in Positions
  PROVE  \E m \in Nat, lo \in Byte, hi \in Nat :
            /\ m = (IF p < 0 THEN -p ELSE p) /\ p \in Int
            /\ m = lo + Modulus * hi /\ hi < SignBit
            /\ PositionBytes(p) = <<lo, hi + (IF p < 0 THEN SignBit ELSE 0)>>
<1>1. p \in Int /\ -(SignBit * Modulus) < p /\ p < SignBit * Modulus
  BY CodecAssumption
<1>2. SignBit \in Nat /\ 2 * SignBit = Modulus
  BY CodecAssumption, ByteFacts DEF SignBit
<1>3. PICK m \in Nat : m = (IF p < 0 THEN -p ELSE p) /\ m < SignBit * Modulus
  <2>1. SignBit * Modulus \in Int
    BY <1>2, ByteFacts
  <2>. QED
    BY <1>1, <2>1
<1>4. PICK lo \in Byte : lo = m % Modulus
  BY <1>3, ByteFacts
<1>5. PICK hi \in Nat : hi = m \div Modulus
  BY <1>3, ByteFacts
<1>6. m = lo + Modulus * hi
  BY <1>4, <1>5, ByteFacts
<1>7. hi < SignBit
  <2>1. SUFFICES ASSUME hi >= SignBit PROVE FALSE
    BY <1>2
  <2>2. PICK e \in Nat : hi = SignBit + e
    BY <1>2, <2>1
  <2>3. Modulus * hi = SignBit * Modulus + Modulus * e
    BY <1>2, <2>2, ByteFacts
  <2>4. PICK a \in Nat : a = Modulus * e
    BY ByteFacts
  <2>5. PICK b \in Nat : b = SignBit * Modulus
    BY <1>2, ByteFacts
  <2>. QED
    BY <1>3, <1>6, <2>3, <2>4, <2>5, ByteFacts
<1>8. PositionBytes(p) = <<lo, hi + (IF p < 0 THEN SignBit ELSE 0)>>
  BY <1>3, <1>4, <1>5 DEF PositionBytes
<1>. QED
  BY <1>1, <1>3, <1>6, <1>7, <1>8

LEMMA PositionBytesFacts ==
  ASSUME NEW p \in Positions
  PROVE  /\ PositionBytes(p) \in Seq(Byte) /\ Len(PositionBytes(p)) = 2
         /\ decode_signed_15(PositionBytes(p)) = p
<1>1. PICK m \in Nat, lo \in Byte, hi \in Nat :
            /\ m = (IF p < 0 THEN -p ELSE p) /\ p \in Int
            /\ m = lo + Modulus * hi /\ hi < SignBit
            /\ PositionBytes(p) = <<lo, hi + (IF p < 0 THEN SignBit ELSE 0)>>
  BY PositionHalves
<1>2. SignBit \in Nat /\ 2 * SignBit = Modulus
  BY CodecAssumption, ByteFacts DEF SignBit
<1>3. PICK up \in Nat : up = hi + (IF p < 0 THEN SignBit ELSE 0)
  BY <1>1, <1>2
<1>4. up \in Byte /\ (up >= SignBit <=> p < 0)
  BY <1>1, <1>2, <1>3, ByteFacts
<1>5. PositionBytes(p) = <<lo, up>>
  BY <1>1, <1>3
<1>6. PositionBytes(p)[1] = lo /\ PositionBytes(p)[2] = up
  BY <1>5
<1>7. PositionBytes(p) \in Seq(Byte) /\ Len(PositionBytes(p)) = 2
  BY <1>4, <1>5
<1>8. PICK d : d = PositionBytes(p)
  OBVIOUS
<1>9. d[1] = lo /\ d[2] = up
  BY <1>6, <1>8
<1>10. PICK high \in Nat : high = SignBit * Modulus
  BY <1>2, ByteFacts
<1>11. PICK a \in Nat : a = Modulus * hi
  BY ByteFacts
<1>12. CASE p < 0
  <2>1. Modulus * up = a + high
    BY <1>2, <1>3, <1>10, <1>11, <1>12, ByteFacts
  <2>2. up >= SignBit
    BY <1>4, <1>12
  <2>3. PICK value \in Int : value = d[1] + Modulus * d[2] /\ value = lo + (a + high)
    BY <1>9, <2>1, ByteFacts
  <2>4. decode_signed_15(d) = -(value - high)
    BY <1>9, <1>10, <2>2, <2>3 DEF decode_signed_15
  <2>5. decode_signed_15(d) = p
    BY <1>1, <1>11, <1>12, <2>3, <2>4, ByteFacts
  <2>. QED
    BY <1>7, <1>8, <2>5
<1>13. CASE ~ (p < 0)
  <2>1. up = hi /\ ~ (up >= SignBit)
    BY <1>1, <1>2, <1>3, <1>13
  <2>2. decode_signed_15(d) = lo + Modulus * up
    BY <1>9, <2>1 DEF decode_signed_15
  <2>3. decode_signed_15(d) = p
    BY <1>1, <1>13, <2>1, <2>2
  <2>. QED
    BY <1>7, <1>8, <2>3
<1>. QED
  BY <1>12, <1>13
-----------------------------------------------------------------------------
(* What is on the line                                                     *)

LEMMA ByteBounds ==
  /\ FF \in Byte /\ FF >= 5 /\ {0, 1, 2, 3, 4} \subseteq Byte
  /\ MaxLength \in Nat /\ MaxLength >= 4 /\ MaxLength < FF
  /\ Asked \in Ids /\ Ids \subseteq Byte /\ FF \notin Ids /\ NoiseBytes \subseteq Byte
<1>1. MaxLength \in 4 .. FF - 1 /\ FF \in Nat
  BY CodecAssumption, ByteFacts
<1>2. FF >= 5 /\ MaxLength \in Nat /\ MaxLength >= 4 /\ MaxLength < FF
  BY <1>1
<1>3. FF \in Byte /\ {0, 1, 2, 3, 4} \subseteq Byte
  BY <1>1, <1>2 DEF Byte
<1>4. Asked \in Ids /\ Ids \subseteq Byte /\ FF \notin Ids /\ NoiseBytes \subseteq Byte
  BY <1>1, CodecAssumption DEF Byte
<1>. QED
  BY <1>2, <1>3, <1>4

\* What the checksum of a packet is about.
Content(id, error, data) == <<id, Len(data) + 2, error>> \o data

LEMMA BodyBytes ==
  ASSUME NEW id \in Byte, NEW error \in Byte, NEW data \in Seq(Byte), Len(data) <= 2
  PROVE  /\ Content(id, error, data) \in Seq(Byte) /\ Len(Content(id, error, data)) = Len(data) + 3
         /\ Content(id, error, data)[1] = id /\ Content(id, error, data)[2] = Len(data) + 2
         /\ Content(id, error, data)[3] = error
         /\ \A i \in 1 .. Len(data) : Content(id, error, data)[3 + i] = data[i]
<1>0. PICK body : body = Content(id, error, data)
  OBVIOUS
<1>1. PICK n \in Nat : n = Len(data) /\ n \in {0, 1, 2}
  OBVIOUS
<1>2. PICK length \in Byte : length = Len(data) + 2
  BY <1>1, ByteBounds
<1>3. PICK h : h = <<id, length, error>>
  OBVIOUS
<1>4. h \in Seq(Byte) /\ Len(h) = 3 /\ h[1] = id /\ h[2] = length /\ h[3] = error
  BY <1>3
<1>5. /\ body \in Seq(Byte) /\ Len(body) = 3 + n
      /\ \A i \in 1 .. 3 : body[i] = h[i]
      /\ \A i \in 1 .. n : body[3 + i] = data[i]
  BY <1>0, <1>1, <1>2, <1>3, <1>4, ConcatFacts DEF Content
<1>. QED
  BY <1>0, <1>1, <1>2, <1>4, <1>5

\* A packet: the header, the body and the checksum.
LEMMA PacketBytes ==
  ASSUME NEW body \in Seq(Byte), NEW packet, packet = <<FF, FF>> \o body \o <<checksum(body)>>
  PROVE  /\ packet \in Seq(Byte) /\ Len(packet) = Len(body) + 3
         /\ packet[1] = FF /\ packet[2] = FF
         /\ \A i \in 1 .. Len(body) : packet[2 + i] = body[i]
         /\ packet[Len(body) + 3] = checksum(body)
<1>1. PICK n \in Nat : n = Len(body)
  OBVIOUS
<1>2. PICK V : V = Byte
  OBVIOUS
<1>3. PICK f : f = <<FF, FF>>
  OBVIOUS
<1>4. f \in Seq(V) /\ Len(f) = 2 /\ f[1] = FF /\ f[2] = FF
  BY <1>2, <1>3, ByteBounds
<1>5. PICK sum \in V : sum = checksum(body)
  BY <1>2, ChecksumFacts
<1>6. PICK c : c = <<sum>>
  OBVIOUS
<1>7. c \in Seq(V) /\ Len(c) = 1 /\ c[1] = sum
  BY <1>6
<1>8. PICK g : g = f \o body
  OBVIOUS
<1>9. f \in Seq(V) /\ body \in Seq(V)
  BY <1>2, <1>4, ByteBounds
<1>10. g \in Seq(V)
  BY <1>8, <1>9, ConcatFacts
<1>11. Len(g) = Len(f) + Len(body)
  BY <1>8, <1>9, ConcatFacts
<1>12. \A i \in 1 .. Len(f) : g[i] = f[i]
  BY <1>8, <1>9, ConcatFacts
<1>13. \A i \in 1 .. Len(body) : g[Len(f) + i] = body[i]
  BY <1>8, <1>9, ConcatFacts
<1>14. packet = g \o c
  BY <1>3, <1>5, <1>6, <1>8
<1>15. g \in Seq(V) /\ c \in Seq(V)
  BY <1>7, <1>10
<1>16. packet \in Seq(V)
  BY <1>14, <1>15, ConcatFacts
<1>17. Len(packet) = Len(g) + Len(c)
  BY <1>14, <1>15, ConcatFacts
<1>18. \A i \in 1 .. Len(g) : packet[i] = g[i]
  BY <1>14, <1>15, ConcatFacts
<1>19. \A i \in 1 .. Len(c) : packet[Len(g) + i] = c[i]
  BY <1>14, <1>15, ConcatFacts
<1>20. Len(f) = 2 /\ Len(g) = n + 2 /\ Len(c) = 1 /\ Len(packet) = n + 3
  BY <1>1, <1>4, <1>7, <1>11, <1>17
<1>21. \A i \in 1 .. n : packet[2 + i] = body[i]
  BY <1>1, <1>13, <1>18, <1>20
<1>22. packet[n + 3] = checksum(body) /\ packet[1] = FF /\ packet[2] = FF
  BY <1>4, <1>5, <1>7, <1>12, <1>18, <1>19, <1>20
<1>. QED
  BY <1>1, <1>2, <1>16, <1>20, <1>21, <1>22

\* A reply without data, or with the two bytes of a position.
LEMMA FrameFacts ==
  ASSUME NEW id \in Byte, NEW error \in Byte, NEW data \in Seq(Byte), Len(data) <= 2
  PROVE  /\ encode_instruction_packet(id, error, data) \in Seq(Byte)
         /\ Len(encode_instruction_packet(id, error, data)) = Len(data) + 6
         /\ encode_instruction_packet(id, error, data)[1] = FF
         /\ encode_instruction_packet(id, error, data)[2] = FF
         /\ \A i \in 1 .. Len(data) + 3 :
              encode_instruction_packet(id, error, data)[2 + i] = Content(id, error, data)[i]
         /\ encode_instruction_packet(id, error, data)[Len(data) + 6]
              = checksum(Content(id, error, data))
<1>1. PICK n \in Nat : n = Len(data)
  OBVIOUS
<1>2. PICK body : body = Content(id, error, data)
  OBVIOUS
<1>3. PICK frame : frame = encode_instruction_packet(id, error, data)
  OBVIOUS
<1>4. Content(id, error, data) \in Seq(Byte) /\ Len(Content(id, error, data)) = Len(data) + 3
  BY BodyBytes
<1>5. body \in Seq(Byte) /\ Len(body) = n + 3
  BY <1>1, <1>2, <1>4
<1>6. frame = <<FF, FF>> \o body \o <<checksum(body)>>
  BY <1>2, <1>3 DEF encode_instruction_packet, Content
<1>7. /\ frame \in Seq(Byte) /\ Len(frame) = Len(body) + 3
      /\ frame[1] = FF /\ frame[2] = FF
      /\ \A i \in 1 .. Len(body) : frame[2 + i] = body[i]
      /\ frame[Len(body) + 3] = checksum(body)
  BY <1>5, <1>6, PacketBytes
<1>8. Len(body) + 3 = n + 6
  BY <1>5
<1>. QED
  BY <1>1, <1>2, <1>3, <1>5, <1>7, <1>8

\* Every reply of a servo is such a one.
LEMMA ReplyFacts ==
  ASSUME NEW id \in Ids, NEW error \in {0, 1}, NEW data,
         data = <<>> \/ \E p \in Positions : data = PositionBytes(p)
  PROVE  /\ id \in Byte /\ id # FF /\ error \in Byte
         /\ data \in Seq(Byte) /\ Len(data) \in {0, 2} /\ Len(data) <= 2
<1>1. data = <<>> => data \in Seq(Byte) /\ Len(data) = 0
  OBVIOUS
<1>2. ASSUME NEW p \in Positions, data = PositionBytes(p)
      PROVE  data \in Seq(Byte) /\ Len(data) = 2
  BY <1>2, PositionBytesFacts
<1>3. id \in Byte /\ id # FF /\ error \in Byte
  BY ByteBounds
<1>4. data \in Seq(Byte) /\ (Len(data) = 0 \/ Len(data) = 2)
  BY <1>1, <1>2
<1>5. Len(data) \in {0, 2}
  BY <1>4
<1>6. Len(data) <= 2
  <2>1. CASE Len(data) = 0
    BY <2>1
  <2>2. CASE Len(data) = 2
    BY <2>2
  <2>. QED
    BY <1>4, <2>1, <2>2
<1>. QED
  BY <1>3, <1>4, <1>5, <1>6

LEMMA CodecInitially == Init => CodecInv
BY DEF Init, CodecInv

LEMMA NoiseInv ==
  ASSUME CodecInv, NEW b \in NoiseBytes, Noise(b)
  PROVE  CodecInv'
<1>1. noise \in Seq(Byte) /\ b \in Byte
  BY ByteBounds DEF CodecInv
<1>2. noise' \in Seq(Byte)
  BY <1>1 DEF Noise
<1>. QED
  BY <1>2 DEF Noise, CodecInv

LEMMA ReplyInv ==
  ASSUME CodecInv, NEW id \in Ids, NEW error \in {0, 1},
         NEW data \in {<<>>} \cup {PositionBytes(p) : p \in Positions}, Reply(id, error, data)
  PROVE  CodecInv'
<1>1. PICK frame : frame = encode_instruction_packet(id, error, data)
  OBVIOUS
<1>2. data = <<>> \/ \E p \in Positions : data = PositionBytes(p)
  OBVIOUS
<1>3. frame \in Seq(Byte) /\ Len(frame) = Len(data) + 6 /\ Len(data) \in {0, 2}
  <2>1. /\ id \in Byte /\ error \in Byte /\ data \in Seq(Byte)
        /\ Len(data) \in {0, 2} /\ Len(data) <= 2
    BY <1>2, ReplyFacts
  <2>2. /\ encode_instruction_packet(id, error, data) \in Seq(Byte)
        /\ Len(encode_instruction_packet(id, error, data)) = Len(data) + 6
    BY <2>1, FrameFacts
  <2>3. frame \in Seq(Byte) /\ Len(frame) = Len(data) + 6
    BY <1>1, <2>2
  <2>. QED
    BY <2>1, <2>3
<1>4. sent'.id = id /\ sent'.error = error /\ sent'.data = data /\ noise' = noise /\ op' = op
  BY DEF Reply
<1>5. Frame' = frame
  BY <1>1, <1>4 DEF Frame
<1>6. noise \in Seq(Byte) /\ line' = noise \o frame
  BY <1>1 DEF CodecInv, Reply
<1>7. /\ line' \in Seq(Byte) /\ Len(line') = Len(noise) + Len(frame)
      /\ \A k \in 1 .. Len(noise) : line'[k] = noise[k]
      /\ \A j \in 1 .. Len(frame) : line'[Len(noise) + j] = frame[j]
  <2>1. noise \in Seq(Byte) /\ frame \in Seq(Byte)
    BY <1>3, <1>6
  <2>2. /\ noise \o frame \in Seq(Byte) /\ Len(noise \o frame) = Len(noise) + Len(frame)
        /\ \A k \in 1 .. Len(noise) : (noise \o frame)[k] = noise[k]
        /\ \A j \in 1 .. Len(frame) : (noise \o frame)[Len(noise) + j] = frame[j]
    BY <2>1, ConcatFacts
  <2>. QED
    BY <1>6, <2>2
<1>8. 1 \in 1 .. Len(frame)
  BY <1>3
<1>9. OneChanged(line, Len(noise), Frame)'
  BY <1>4, <1>5, <1>7, <1>8 DEF OneChanged
<1>10. Replied'
  BY <1>2, <1>4, <1>7, <1>9 DEF Replied
<1>. QED
  BY <1>4, <1>6, <1>7, <1>10 DEF CodecInv

\* What an intact reply looks like, place by place.
LEMMA IntactBytes ==
  ASSUME CodecInv, sent # NoReply, Intact
  PROVE  /\ Replied /\ noise \in Seq(Byte) /\ Frame \in Seq(Byte)
         /\ Len(Frame) \in Nat /\ Len(Frame) >= 6
         /\ Len(line) = Len(noise) + Len(Frame)
         /\ \A j \in 1 .. Len(Frame) : line[Len(noise) + j] = Frame[j]
<1>1. Replied /\ noise \in Seq(Byte)
  BY DEF CodecInv
<1>2. PICK id \in Ids, error \in {0, 1}, data \in {sent.data} :
         /\ id = sent.id /\ error = sent.error /\ data = sent.data
         /\ data = <<>> \/ \E p \in Positions : data = PositionBytes(p)
  BY <1>1 DEF Replied
<1>3. Frame = encode_instruction_packet(id, error, data)
  BY <1>2 DEF Frame
<1>4. Frame \in Seq(Byte) /\ Len(Frame) = Len(data) + 6 /\ Len(data) \in {0, 2}
  <2>1. /\ id \in Byte /\ error \in Byte /\ data \in Seq(Byte)
        /\ Len(data) \in {0, 2} /\ Len(data) <= 2
    BY <1>2, ReplyFacts
  <2>2. /\ encode_instruction_packet(id, error, data) \in Seq(Byte)
        /\ Len(encode_instruction_packet(id, error, data)) = Len(data) + 6
    BY <2>1, FrameFacts
  <2>. QED
    BY <1>3, <2>1, <2>2
<1>5. line = noise \o Frame
  BY DEF Intact, Frame
<1>6. /\ Len(noise \o Frame) = Len(noise) + Len(Frame)
      /\ \A j \in 1 .. Len(Frame) : (noise \o Frame)[Len(noise) + j] = Frame[j]
  <2>1. noise \in Seq(Byte) /\ Frame \in Seq(Byte)
    BY <1>1, <1>4
  <2>. QED
    BY <2>1, ConcatFacts
<1>7. Len(Frame) \in Nat /\ Len(Frame) >= 6
  BY <1>4
<1>. QED
  BY <1>1, <1>4, <1>5, <1>6, <1>7

LEMMA DamageInv ==
  ASSUME CodecInv, NEW i \in DOMAIN line, NEW b \in Byte, Damage(i, b)
  PROVE  CodecInv'
<1>1. sent # NoReply /\ Intact /\ i > Len(noise) /\ line' = [line EXCEPT ![i] = b]
      /\ UNCHANGED <<op, noise, sent>> /\ line \in Seq(Byte)
  BY DEF Damage, CodecInv
<1>2. /\ Replied /\ noise \in Seq(Byte) /\ Len(Frame) \in Nat /\ Len(Frame) >= 6
      /\ Len(line) = Len(noise) + Len(Frame)
      /\ \A j \in 1 .. Len(Frame) : line[Len(noise) + j] = Frame[j]
  BY <1>1, IntactBytes
<1>3. PICK n \in Nat, w \in Nat : n = Len(noise) /\ w = Len(Frame)
  BY <1>2
<1>4. line' \in Seq(Byte) /\ Len(line') = n + w /\ \A k \in 1 .. n + w : k # i => line'[k] = line[k]
  BY <1>1, <1>2, <1>3
<1>5. i \in 1 .. n + w
  BY <1>1, <1>2, <1>3
<1>6. i - n \in 1 .. w
  BY <1>1, <1>3, <1>5
<1>7. \A j \in 1 .. w : j # i - n => n + j # i /\ n + j \in 1 .. n + w
  BY <1>3, <1>5
<1>8. \A j \in 1 .. w : j # i - n => line'[n + j] = Frame[j]
  BY <1>2, <1>3, <1>4, <1>7
<1>9. Frame' = Frame
  BY <1>1 DEF Frame
<1>10. OneChanged(line, Len(noise), Frame)'
  BY <1>1, <1>3, <1>4, <1>6, <1>8, <1>9 DEF OneChanged
<1>11. \A k \in 1 .. n : k # i /\ k \in 1 .. n + w
  BY <1>1, <1>3
<1>12. Replied'
  BY <1>1, <1>2, <1>3, <1>4, <1>10, <1>11 DEF Replied
<1>. QED
  BY <1>1, <1>4, <1>12 DEF CodecInv

LEMMA LoseInv ==
  ASSUME CodecInv, NEW i \in DOMAIN line, Lose(i)
  PROVE  CodecInv'
<1>1. sent # NoReply /\ Intact /\ i > Len(noise) /\ line' = RemoveAt(line, i)
      /\ UNCHANGED <<op, noise, sent>> /\ line \in Seq(Byte)
  BY DEF Lose, CodecInv
<1>2. /\ Replied /\ noise \in Seq(Byte) /\ Len(Frame) \in Nat /\ Len(Frame) >= 6
      /\ Len(line) = Len(noise) + Len(Frame)
      /\ \A j \in 1 .. Len(Frame) : line[Len(noise) + j] = Frame[j]
  BY <1>1, IntactBytes
<1>3. PICK n \in Nat, w \in Nat : n = Len(noise) /\ w = Len(Frame)
  BY <1>2
<1>4. i \in 1 .. n + w /\ i \in 1 .. Len(line)
  BY <1>1, <1>2, <1>3
<1>5. /\ line' \in Seq(Byte) /\ Len(line') = n + w - 1
      /\ \A k \in 1 .. n + w - 1 : line'[k] = line[IF k < i THEN k ELSE k + 1]
  <2>1. /\ RemoveAt(line, i) \in Seq(Byte) /\ Len(RemoveAt(line, i)) = Len(line) - 1
        /\ \A k \in 1 .. Len(line) - 1 :
             RemoveAt(line, i)[k] = line[IF k < i THEN k ELSE k + 1]
    BY <1>1, <1>4, RemoveFacts
  <2>2. Len(line) - 1 = n + w - 1
    BY <1>2, <1>3
  <2>. QED
    BY <1>1, <2>1, <2>2
<1>6. i - n \in 1 .. w
  BY <1>1, <1>3, <1>4
<1>7. ASSUME NEW j \in 1 .. w - 1
      PROVE  line'[n + j] = Frame[IF j < i - n THEN j ELSE j + 1]
  <2>1. n + j \in 1 .. n + w - 1 /\ (n + j < i <=> j < i - n) /\ n + j + 1 = n + (j + 1)
        /\ j \in 1 .. w /\ j + 1 \in 1 .. w
    BY <1>3, <1>4
  <2>2. line'[n + j] = line[IF j < i - n THEN n + j ELSE n + (j + 1)]
    BY <1>5, <2>1
  <2>. QED
    BY <1>2, <1>3, <2>1, <2>2
<1>8. Frame' = Frame
  BY <1>1 DEF Frame
<1>9. OneLost(line, Len(noise), Frame)'
  BY <1>1, <1>3, <1>5, <1>6, <1>7, <1>8 DEF OneLost
<1>10. \A k \in 1 .. n : k < i /\ k \in 1 .. n + w - 1
  BY <1>1, <1>2, <1>3
<1>11. \A k \in 1 .. n : line'[k] = noise[k]
  BY <1>2, <1>3, <1>5, <1>10 DEF Replied
<1>12. Replied'
  BY <1>1, <1>2, <1>3, <1>9, <1>11 DEF Replied
<1>. QED
  BY <1>1, <1>5, <1>12 DEF CodecInv

LEMMA CodecStep ==
  ASSUME CodecInv, [Next]_vars
  PROVE  CodecInv'
<1>1. ASSUME NEW b \in NoiseBytes, Noise(b) PROVE CodecInv'
  BY <1>1, NoiseInv
<1>2. ASSUME NEW id \in Ids, NEW error \in {0, 1},
             NEW data \in {<<>>} \cup {PositionBytes(p) : p \in Positions}, Reply(id, error, data)
      PROVE  CodecInv'
  BY <1>2, ReplyInv
<1>3. ASSUME NEW i \in DOMAIN line, Lose(i) PROVE CodecInv'
  BY <1>3, LoseInv
<1>4. ASSUME NEW i \in DOMAIN line, NEW b \in 0 .. FF, Damage(i, b) PROVE CodecInv'
  BY <1>4, DamageInv DEF Byte
<1>5. CASE UNCHANGED vars
  BY <1>5 DEF vars, CodecInv, Replied, OneChanged, OneLost, Frame
<1>. QED
  BY <1>1, <1>2, <1>3, <1>4, <1>5 DEF Next

\* The line carries the noise and then the reply, of which one byte is changed or
\* missing at most.
THEOREM CodecSafety == Spec => []CodecInv
  BY CodecInitially, CodecStep, PTL DEF Spec

\* The firmware and the raw mode of the host accept the same replies with the
\* same data, for bytes of every width and whatever is on the line.
THEOREM CodecSameVerdict == Spec => []SameVerdict
  BY CodecSafety, VerdictsAgree, PTL

-----------------------------------------------------------------------------
(* An intact reply is understood                                           *)

\* The first header after noise that does not look like one.
LEMMA HeaderAfterNoise ==
  ASSUME NEW S, NEW bytes \in Seq(S), NEW n \in Nat, n + 2 <= Len(bytes), n + 2 <= SearchLimit,
         bytes[n + 1] = FF, bytes[n + 2] = FF,
         \A k \in 1 .. n : bytes[k] = FF => k < n /\ bytes[k + 1] # FF
  PROVE  find_header(bytes) = n + 2
<1>. DEFINE ends == {k \in DOMAIN bytes : k \in 2 .. SearchLimit
                                          /\ bytes[k - 1] = FF /\ bytes[k] = FF}
<1>1. ends \subseteq Nat
  OBVIOUS
<1>2. n + 2 \in ends
  <2>1. n + 2 \in DOMAIN bytes /\ n + 2 \in 2 .. SearchLimit /\ n + 2 - 1 = n + 1
    BY CodecAssumption
  <2>. QED
    BY <2>1
<1>3. ASSUME NEW k \in ends PROVE k >= n + 2
  <2>1. SUFFICES ASSUME k < n + 2 PROVE FALSE
    OBVIOUS
  <2>2. k \in Nat /\ k >= 2 /\ bytes[k - 1] = FF /\ bytes[k] = FF
    OBVIOUS
  <2>3. k - 1 \in 1 .. n /\ (k - 1) + 1 = k
    BY <2>1, <2>2
  <2>. QED
    BY <2>2, <2>3
<1>4. find_header(bytes) = IF ends = {} THEN 0 ELSE Min(ends)
  BY DEF find_header, HeaderEnd
<1>. HIDE DEF ends
<1>5. find_header(bytes) = Min(ends) /\ Min(ends) \in ends /\ Min(ends) <= n + 2
  BY <1>1, <1>2, <1>4, LeastNumber
<1>6. Min(ends) \in Nat /\ Min(ends) >= n + 2
  BY <1>1, <1>3, <1>5
<1>. QED
  BY <1>5, <1>6

\* What follows the header of an intact packet is decoded as it was encoded.
LEMMA DecodeEncoded ==
  ASSUME NEW error \in Byte, NEW data \in Seq(Byte), Len(data) <= 2,
         NEW body, body = Content(Asked, error, data),
         NEW packet \in Seq(Byte), Len(packet) = Len(data) + 4,
         \A i \in 1 .. Len(data) + 3 : packet[i] = body[i],
         packet[Len(data) + 4] = checksum(body)
  PROVE  decode_status_packet(packet, Asked) = [valid |-> TRUE, error |-> error, data |-> data]
<1>1. PICK n \in Nat : n = Len(data)
  OBVIOUS
<1>2. /\ body \in Seq(Byte) /\ Len(body) = n + 3
      /\ body[1] = Asked /\ body[2] = n + 2 /\ body[3] = error
      /\ \A i \in 1 .. n : body[3 + i] = data[i]
  <2>1. Asked \in Byte
    BY ByteBounds
  <2>2. PICK asked \in Byte : asked = Asked
    BY <2>1
  <2>3. /\ Content(asked, error, data) \in Seq(Byte)
        /\ Len(Content(asked, error, data)) = Len(data) + 3
        /\ Content(asked, error, data)[1] = asked /\ Content(asked, error, data)[2] = Len(data) + 2
        /\ Content(asked, error, data)[3] = error
        /\ \A i \in 1 .. Len(data) : Content(asked, error, data)[3 + i] = data[i]
    BY BodyBytes
  <2>4. body = Content(asked, error, data)
    BY <2>2
  <2>. QED
    BY <1>1, <2>2, <2>3, <2>4
<1>3. packet[1] = Asked /\ packet[2] = n + 2 /\ packet[3] = error
  BY <1>1, <1>2
<1>4. Body(packet) = body
  <2>1. PICK z \in Nat : z = 0
    OBVIOUS
  <2>2. PICK k \in Nat : k = n + 3
    OBVIOUS
  <2>3. z + k <= Len(packet)
    BY <1>1, <2>1, <2>2
  <2>4. PICK t : t = SubSeq(packet, z + 1, z + k)
    OBVIOUS
  <2>5. t \in Seq(Byte) /\ Len(t) = k /\ \A i \in 1 .. k : t[i] = packet[z + i]
    <3>1. PICK V : V = Byte
      OBVIOUS
    <3>2. packet \in Seq(V)
      BY <3>1
    <3>3. /\ SubSeq(packet, z + 1, z + k) \in Seq(V) /\ Len(SubSeq(packet, z + 1, z + k)) = k
          /\ \A i \in 1 .. k : SubSeq(packet, z + 1, z + k)[i] = packet[z + i]
      BY <2>3, <3>2, SliceFacts
    <3>. QED
      BY <2>4, <3>1, <3>3
  <2>6. body \in Seq(Byte)
    BY <1>2, ByteBounds
  <2>7. \A i \in 1 .. k : packet[z + i] = body[i]
    BY <1>1, <2>1, <2>2
  <2>8. t = body
    <3>1. t \in Seq(Byte) /\ body \in Seq(Byte) /\ Len(t) = Len(body)
      BY <1>2, <2>2, <2>5, <2>6
    <3>2. \A i \in 1 .. Len(t) : t[i] = body[i]
      BY <2>5, <2>7
    <3>. QED
      BY <3>1, <3>2, SameSeq
  <2>9. z + 1 = 1 /\ z + k = Len(packet) - 1
    BY <1>1, <2>1, <2>2
  <2>. QED
    BY <2>4, <2>8, <2>9 DEF Body
<1>5. Parameters(packet) = data
  <2>1. PICK z \in Nat : z = 3
    OBVIOUS
  <2>2. z + n <= Len(packet)
    BY <1>1, <2>1
  <2>3. PICK t : t = SubSeq(packet, z + 1, z + n)
    OBVIOUS
  <2>4. t \in Seq(Byte) /\ Len(t) = n /\ \A i \in 1 .. n : t[i] = packet[z + i]
    <3>1. PICK V : V = Byte
      OBVIOUS
    <3>2. packet \in Seq(V)
      BY <3>1
    <3>3. /\ SubSeq(packet, z + 1, z + n) \in Seq(V) /\ Len(SubSeq(packet, z + 1, z + n)) = n
          /\ \A i \in 1 .. n : SubSeq(packet, z + 1, z + n)[i] = packet[z + i]
      BY <2>2, <3>2, SliceFacts
    <3>. QED
      BY <2>3, <3>1, <3>3
  <2>5. data \in Seq(Byte)
    BY ByteBounds
  <2>6. \A i \in 1 .. n : 3 + i \in 1 .. n + 3 /\ z + i = 3 + i
    BY <2>1
  <2>7. \A i \in 1 .. n : packet[z + i] = data[i]
    BY <1>1, <1>2, <2>6
  <2>8. t = data
    BY <1>1, <2>4, <2>5, <2>7, SameSeq
  <2>9. z + 1 = 4 /\ z + n = Len(packet) - 1
    BY <1>1, <2>1
  <2>. QED
    BY <2>3, <2>8, <2>9 DEF Parameters
<1>6. checksum(Body(packet)) = Last(packet)
  BY <1>4 DEF Last
<1>7. packet[2] \in 2 .. MaxLength /\ Len(packet) = packet[2] + 2
  BY <1>1, <1>3, ByteBounds
<1>. QED
  BY <1>3, <1>5, <1>6, <1>7 DEF decode_status_packet

LEMMA IntactUnderstood == CodecInv => NoiseSkipped
<1>. DEFINE clean == \A k \in 1 .. Len(noise) : noise[k] = FF => k < Len(noise) /\ noise[k + 1] # FF
<1>1. SUFFICES ASSUME CodecInv, sent.id = Asked, Intact, clean, Len(noise) + 2 <= SearchLimit,
                      Len(sent.data) = DataLength
               PROVE  FirmwareResult(line) = IF sent.error = 0 THEN Accepted(sent.data)
                                                               ELSE Rejected("error")
  BY DEF NoiseSkipped
<1>2. PICK id \in Ids, error \in {0, 1}, data \in {sent.data} :
         /\ id = Asked /\ error = sent.error /\ data = sent.data
         /\ data = <<>> \/ \E p \in Positions : data = PositionBytes(p)
  <2>1. sent # NoReply
    BY <1>1, ByteBounds DEF NoReply
  <2>. QED
    BY <1>1, <2>1 DEF CodecInv, Replied
<1>3. /\ id \in Byte /\ error \in Byte /\ data \in Seq(Byte)
      /\ Len(data) \in {0, 2} /\ Len(data) <= 2
  BY <1>2, ReplyFacts
<1>4. PICK n \in Nat : n = Len(noise)
  BY <1>1 DEF CodecInv
<1>5. PICK d \in Nat : d = Len(data) /\ d <= 2 /\ d = DataLength
  BY <1>1, <1>2, <1>3
<1>6. PICK body : body = Content(Asked, error, data)
  OBVIOUS
<1>7. PICK frame : frame = encode_instruction_packet(Asked, error, data)
  OBVIOUS
<1>8. /\ frame \in Seq(Byte) /\ Len(frame) = d + 6
      /\ frame[1] = FF /\ frame[2] = FF
      /\ \A i \in 1 .. d + 3 : frame[2 + i] = body[i]
      /\ frame[d + 6] = checksum(body) /\ body[2] = d + 2
  <2>1. /\ encode_instruction_packet(id, error, data) \in Seq(Byte)
        /\ Len(encode_instruction_packet(id, error, data)) = Len(data) + 6
        /\ encode_instruction_packet(id, error, data)[1] = FF
        /\ encode_instruction_packet(id, error, data)[2] = FF
        /\ \A i \in 1 .. Len(data) + 3 :
             encode_instruction_packet(id, error, data)[2 + i] = Content(id, error, data)[i]
        /\ encode_instruction_packet(id, error, data)[Len(data) + 6]
             = checksum(Content(id, error, data))
    BY <1>3, FrameFacts
  <2>2. /\ Content(id, error, data) \in Seq(Byte)
        /\ Len(Content(id, error, data)) = Len(data) + 3
        /\ Content(id, error, data)[1] = id /\ Content(id, error, data)[2] = Len(data) + 2
        /\ Content(id, error, data)[3] = error
        /\ \A i \in 1 .. Len(data) : Content(id, error, data)[3 + i] = data[i]
    BY <1>3, BodyBytes
  <2>3. body = Content(id, error, data) /\ frame = encode_instruction_packet(id, error, data)
    BY <1>2, <1>6, <1>7
  <2>. QED
    BY <1>5, <2>1, <2>2, <2>3
<1>9. frame \in Seq(Byte) /\ noise \in Seq(Byte) /\ line = noise \o frame
  BY <1>1, <1>2, <1>3, <1>7, <1>8, ByteBounds DEF CodecInv, Intact
<1>10. line \in Seq(Byte) /\ Len(line) = n + d + 6
  <2>1. Len(line) = Len(noise) + Len(frame)
    BY <1>9, ConcatFacts
  <2>2. line \in Seq(Byte)
    BY <1>1 DEF CodecInv
  <2>3. Len(line) = n + d + 6
    BY <1>4, <1>8, <2>1
  <2>. QED
    BY <2>2, <2>3
<1>11. \A i \in 1 .. n : line[i] = noise[i]
  BY <1>4, <1>9, ConcatFacts
<1>12. \A i \in 1 .. d + 6 : line[n + i] = frame[i]
  <2>1. \A i \in 1 .. Len(frame) : line[Len(noise) + i] = frame[i]
    BY <1>9, ConcatFacts
  <2>2. Len(frame) = d + 6
    BY <1>8
  <2>. QED
    BY <1>4, <2>1, <2>2
<1>13. find_header(line) = n + 2
  <2>1. n + 2 <= Len(line) /\ n + 2 <= SearchLimit
    BY <1>1, <1>4, <1>10
  <2>2. line[n + 1] = FF /\ line[n + 2] = FF
    BY <1>8, <1>12
  <2>3. ASSUME NEW k \in 1 .. n, line[k] = FF PROVE k < n /\ line[k + 1] # FF
    <3>1. k < n /\ noise[k + 1] # FF
      BY <1>1, <1>4, <1>11, <2>3
    <3>2. k + 1 \in 1 .. n
      BY <3>1
    <3>. QED
      BY <1>11, <3>1, <3>2
  <2>. QED
    BY <1>10, <2>1, <2>2, <2>3, HeaderAfterNoise
<1>14. PICK rest : rest = SubSeq(line, n + 2 + 1, Len(line))
  OBVIOUS
<1>15. rest \in Seq(Byte) /\ Len(rest) = d + 4 /\ \A i \in 1 .. d + 4 : rest[i] = frame[2 + i]
  <2>1. PICK m \in Nat : m = n + 2
    OBVIOUS
  <2>2. PICK k \in Nat : k = d + 4
    OBVIOUS
  <2>3. m + k <= Len(line) /\ m + k = Len(line) /\ m + 1 = n + 2 + 1
    BY <1>10, <2>1, <2>2
  <2>4. /\ SubSeq(line, m + 1, m + k) \in Seq(Byte) /\ Len(SubSeq(line, m + 1, m + k)) = k
        /\ \A i \in 1 .. k : SubSeq(line, m + 1, m + k)[i] = line[m + i]
    BY <1>10, <2>3, SliceFacts
  <2>5. rest = SubSeq(line, m + 1, m + k)
    BY <1>14, <2>3
  <2>6. \A i \in 1 .. k : m + i = n + (2 + i) /\ 2 + i \in 1 .. d + 6
    BY <2>1, <2>2
  <2>. QED
    BY <1>12, <2>2, <2>4, <2>5, <2>6
<1>16. rest[2] = d + 2 /\ rest[2] \in 2 .. MaxLength /\ ~ (Len(rest) < 2) /\ ~ (Len(rest) < rest[2] + 2)
  <2>1. rest[2] = d + 2
    BY <1>8, <1>15
  <2>. QED
    BY <1>5, <1>15, <2>1, ByteBounds
<1>17. PICK packet : packet = SubSeq(rest, 1, rest[2] + 2)
  OBVIOUS
<1>18. packet \in Seq(Byte) /\ Len(packet) = d + 4 /\ \A i \in 1 .. d + 4 : packet[i] = frame[2 + i]
  <2>1. PICK z \in Nat : z = 0
    OBVIOUS
  <2>2. PICK k \in Nat : k = d + 4
    OBVIOUS
  <2>3. z + k <= Len(rest) /\ z + k = rest[2] + 2 /\ z + 1 = 1
    BY <1>15, <1>16, <2>1, <2>2
  <2>4. /\ SubSeq(rest, z + 1, z + k) \in Seq(Byte) /\ Len(SubSeq(rest, z + 1, z + k)) = k
        /\ \A i \in 1 .. k : SubSeq(rest, z + 1, z + k)[i] = rest[z + i]
    BY <1>15, <2>3, SliceFacts
  <2>5. packet = SubSeq(rest, z + 1, z + k)
    BY <1>17, <2>3
  <2>6. \A i \in 1 .. k : z + i = i
    BY <2>1
  <2>. QED
    BY <1>15, <2>2, <2>4, <2>5, <2>6
<1>19. \A i \in 1 .. d + 3 : packet[i] = body[i]
  BY <1>8, <1>18
<1>20. packet[d + 4] = checksum(body)
  BY <1>8, <1>18
<1>21. PICK status : status = decode_status_packet(packet, Asked)
  OBVIOUS
<1>22. status = [valid |-> TRUE, error |-> error, data |-> data]
  <2>1. Len(data) <= 2 /\ packet \in Seq(Byte) /\ Len(packet) = Len(data) + 4
    BY <1>5, <1>18
  <2>2. \A i \in 1 .. Len(data) + 3 : packet[i] = body[i]
    BY <1>5, <1>19
  <2>3. packet[Len(data) + 4] = checksum(body)
    BY <1>5, <1>20
  <2>. QED
    BY <1>3, <1>6, <1>21, <2>1, <2>2, <2>3, DecodeEncoded
<1>23. status.valid /\ status.error = error /\ status.data = data
  BY <1>22
<1>24. n + 2 # 0
  OBVIOUS
<1>25. read_sts_status(line, Asked) =
         IF ~ status.valid THEN Rejected("invalid")
         ELSE IF status.error # 0 THEN Rejected("error")
         ELSE Accepted(status.data)
  BY <1>13, <1>14, <1>16, <1>17, <1>21, <1>24 DEF read_sts_status
<1>26. read_sts_status(line, Asked) = IF error # 0 THEN Rejected("error") ELSE Accepted(data)
  BY <1>23, <1>25
<1>27. Len(data) = DataLength
  BY <1>5
<1>. QED
  BY <1>2, <1>3, <1>26, <1>27 DEF FirmwareResult, Rejected, Accepted

\* Noise that does not look like a header and leaves room for one does not keep
\* an intact reply from being understood, for bytes of every width, any amount
\* of noise and whatever function the checksum is.
THEOREM CodecNoiseSkipped == Spec => []NoiseSkipped
  BY CodecSafety, IntactUnderstood, PTL

-----------------------------------------------------------------------------
(* What is accepted was sent                                               *)

\* A packet with d bytes of data is read after the header that ends at h.
ReadAt(bytes, h, d, body) ==
  /\ h \in 2 .. Len(bytes) /\ bytes[h - 1] = FF /\ bytes[h] = FF
  /\ \A k \in 2 .. h - 1 : ~ (bytes[k - 1] = FF /\ bytes[k] = FF)
  /\ h + d + 4 <= Len(bytes)
  /\ body \in Seq(Byte) /\ Len(body) = d + 3
  /\ \A i \in 1 .. d + 3 : body[i] = bytes[h + i]
  /\ body[1] = Asked /\ body[2] = d + 2 /\ body[3] = 0
  /\ bytes[h + d + 4] = checksum(body)

\* The header that is found is the first.
LEMMA FirstHeader ==
  ASSUME NEW S, NEW bytes \in Seq(S), NEW h, h = find_header(bytes), h # 0
  PROVE  /\ h \in 2 .. Len(bytes) /\ bytes[h - 1] = FF /\ bytes[h] = FF
         /\ \A k \in 2 .. h - 1 : ~ (bytes[k - 1] = FF /\ bytes[k] = FF)
<1>. DEFINE ends == {k \in DOMAIN bytes : k \in 2 .. SearchLimit
                                          /\ bytes[k - 1] = FF /\ bytes[k] = FF}
<1>1. ends \subseteq Nat
  OBVIOUS
<1>2. h = IF ends = {} THEN 0 ELSE Min(ends)
  BY DEF find_header, HeaderEnd
<1>3. ends # {} /\ h = Min(ends)
  BY <1>2
<1>4. h \in ends /\ \A k \in ends : h <= k
  <2>. HIDE DEF ends
  <2>. QED
    BY <1>1, <1>3, LeastNumber
<1>5. h \in 2 .. Len(bytes) /\ bytes[h - 1] = FF /\ bytes[h] = FF /\ h <= SearchLimit
      /\ SearchLimit \in Nat
  BY <1>4, CodecAssumption
<1>6. ASSUME NEW k \in 2 .. h - 1, bytes[k - 1] = FF, bytes[k] = FF PROVE FALSE
  <2>1. k \in DOMAIN bytes /\ k \in 2 .. SearchLimit
    BY <1>5
  <2>2. k \in ends
    BY <1>6, <2>1
  <2>3. h <= k
    BY <1>4, <2>2
  <2>. QED
    BY <1>5, <2>3
<1>. QED
  BY <1>5, <1>6

\* The parts of a packet.
LEMMA PacketParts ==
  ASSUME NEW packet \in Seq(Byte), NEW d \in Nat, Len(packet) = d + 4
  PROVE  /\ Body(packet) \in Seq(Byte) /\ Len(Body(packet)) = d + 3
         /\ \A i \in 1 .. d + 3 : Body(packet)[i] = packet[i]
         /\ Parameters(packet) \in Seq(Byte) /\ Len(Parameters(packet)) = d
         /\ \A i \in 1 .. d : Parameters(packet)[i] = packet[3 + i]
<1>1. PICK z \in Nat : z = 0
  OBVIOUS
<1>2. PICK k \in Nat : k = d + 3
  OBVIOUS
<1>3. PICK t \in Nat : t = 3
  OBVIOUS
<1>4. /\ SubSeq(packet, z + 1, z + k) \in Seq(Byte) /\ Len(SubSeq(packet, z + 1, z + k)) = k
      /\ \A i \in 1 .. k : SubSeq(packet, z + 1, z + k)[i] = packet[z + i]
  <2>1. z + k <= Len(packet)
    BY <1>1, <1>2
  <2>2. PICK V : V = Byte
    OBVIOUS
  <2>3. packet \in Seq(V)
    BY <2>2
  <2>4. SubSeq(packet, z + 1, z + k) \in Seq(V)
    BY <2>1, <2>3, SliceFacts
  <2>5. Len(SubSeq(packet, z + 1, z + k)) = k
    BY <2>1, <2>3, SliceFacts
  <2>6. \A i \in 1 .. k : SubSeq(packet, z + 1, z + k)[i] = packet[z + i]
    BY <2>1, <2>3, SliceFacts
  <2>. QED
    BY <2>2, <2>4, <2>5, <2>6
<1>5. /\ SubSeq(packet, t + 1, t + d) \in Seq(Byte) /\ Len(SubSeq(packet, t + 1, t + d)) = d
      /\ \A i \in 1 .. d : SubSeq(packet, t + 1, t + d)[i] = packet[t + i]
  <2>1. t + d <= Len(packet)
    BY <1>3
  <2>. QED
    BY <2>1, SliceFacts
<1>6. z + 1 = 1 /\ z + k = Len(packet) - 1 /\ t + 1 = 4 /\ t + d = Len(packet) - 1
      /\ \A i \in 1 .. k : z + i = i
  BY <1>1, <1>2, <1>3
<1>7. Body(packet) = SubSeq(packet, z + 1, z + k)
  BY <1>6 DEF Body
<1>8. Parameters(packet) = SubSeq(packet, t + 1, t + d)
  BY <1>6 DEF Parameters
<1>. QED
  BY <1>2, <1>3, <1>4, <1>5, <1>6, <1>7, <1>8

\* What the firmware accepts.
LEMMA AcceptedMeans ==
  ASSUME NEW bytes \in Seq(Byte), FirmwareResult(bytes).result = "ok"
  PROVE  \E body : /\ ReadAt(bytes, find_header(bytes), DataLength, body)
                   /\ FirmwareResult(bytes).data \in Seq(Byte)
                   /\ Len(FirmwareResult(bytes).data) = DataLength
                   /\ \A i \in 1 .. DataLength : FirmwareResult(bytes).data[i] = body[3 + i]
<1>. DEFINE start == find_header(bytes)
            rest == SubSeq(bytes, start + 1, Len(bytes))
            packet == SubSeq(rest, 1, rest[2] + 2)
<1>1. start \in 0 .. Len(bytes) /\ Len(bytes) \in Nat
  BY HeaderFound
<1>2. /\ read_sts_status(bytes, Asked).result = "ok"
      /\ FirmwareResult(bytes) = read_sts_status(bytes, Asked)
      /\ Len(FirmwareResult(bytes).data) = DataLength
  BY DEF FirmwareResult, Rejected
<1>3. ~ (start = 0 \/ Len(rest) < 2 \/ rest[2] \notin 2 .. MaxLength \/ Len(rest) < rest[2] + 2)
  BY <1>2 DEF read_sts_status, Rejected, NoHeader
<1>4. PICK status : status = decode_status_packet(packet, Asked)
  OBVIOUS
<1>5. read_sts_status(bytes, Asked) =
        IF ~ status.valid THEN Rejected("invalid")
        ELSE IF status.error # 0 THEN Rejected("error")
        ELSE Accepted(status.data)
  BY <1>3, <1>4 DEF read_sts_status
<1>6. PICK h \in Nat : h = start
  BY <1>1
<1>7. PICK m \in Nat : m = Len(bytes) - start
  BY <1>1
<1>8. rest \in Seq(Byte) /\ Len(rest) = m /\ \A i \in 1 .. m : rest[i] = bytes[h + i]
  <2>1. h + m = Len(bytes) /\ h + m <= Len(bytes)
    BY <1>1, <1>6, <1>7
  <2>2. /\ SubSeq(bytes, h + 1, h + m) \in Seq(Byte) /\ Len(SubSeq(bytes, h + 1, h + m)) = m
        /\ \A i \in 1 .. m : SubSeq(bytes, h + 1, h + m)[i] = bytes[h + i]
    BY <2>1, SliceFacts, SMTT(40)
  <2>3. rest = SubSeq(bytes, h + 1, h + m)
    BY <1>6, <2>1
  <2>. QED
    BY <2>2, <2>3
<1>9. h # 0
  BY <1>3, <1>6
<1>10. /\ h \in 2 .. Len(bytes) /\ bytes[h - 1] = FF /\ bytes[h] = FF
       /\ \A k \in 2 .. h - 1 : ~ (bytes[k - 1] = FF /\ bytes[k] = FF)
  <2>1. h = find_header(bytes)
    BY <1>6
  <2>. QED
    BY <1>9, <2>1, FirstHeader
<1>. HIDE DEF start, rest
<1>11. rest[2] \in 2 .. MaxLength /\ rest[2] + 2 <= m /\ MaxLength \in Nat
  BY <1>3, <1>8, ByteBounds
<1>12. PICK d \in Nat : rest[2] = d + 2
  <2>1. rest[2] - 2 \in Nat /\ rest[2] = (rest[2] - 2) + 2
    BY <1>11
  <2>. QED
    BY <2>1
<1>13. packet \in Seq(Byte) /\ Len(packet) = d + 4 /\ \A i \in 1 .. d + 4 : packet[i] = rest[i]
  <2>1. PICK z \in Nat : z = 0
    OBVIOUS
  <2>2. PICK k \in Nat : k = d + 4
    OBVIOUS
  <2>3. z + k <= Len(rest)
    BY <1>8, <1>11, <1>12, <2>1, <2>2
  <2>4. /\ SubSeq(rest, z + 1, z + k) \in Seq(Byte) /\ Len(SubSeq(rest, z + 1, z + k)) = k
        /\ \A i \in 1 .. k : SubSeq(rest, z + 1, z + k)[i] = rest[z + i]
    BY <1>8, <2>3, SliceFacts
  <2>5. z + 1 = 1 /\ z + k = rest[2] + 2 /\ \A i \in 1 .. k : z + i = i
    BY <1>12, <2>1, <2>2
  <2>6. packet = SubSeq(rest, z + 1, z + k)
    BY <2>5
  <2>. QED
    BY <2>2, <2>4, <2>5, <2>6
<1>. HIDE DEF packet
<1>14. /\ status.valid = TRUE /\ status.error = 0
       /\ read_sts_status(bytes, Asked).data = status.data
  BY <1>2, <1>5 DEF Rejected, Accepted
<1>15. /\ packet[1] = Asked /\ checksum(Body(packet)) = Last(packet)
       /\ packet[3] = 0 /\ status.data = Parameters(packet)
  BY <1>4, <1>14 DEF decode_status_packet
<1>16. PICK body : body = Body(packet)
  OBVIOUS
<1>17. /\ body \in Seq(Byte) /\ Len(body) = d + 3 /\ \A i \in 1 .. d + 3 : body[i] = packet[i]
       /\ Parameters(packet) \in Seq(Byte) /\ Len(Parameters(packet)) = d
       /\ \A i \in 1 .. d : Parameters(packet)[i] = packet[3 + i]
  BY <1>13, <1>16, PacketParts
<1>18. DataLength = d
  BY <1>2, <1>14, <1>15, <1>17
<1>19. d + 4 <= m /\ h + d + 4 <= Len(bytes)
  BY <1>1, <1>6, <1>7, <1>11, <1>12
<1>20. \A i \in 1 .. d + 4 : packet[i] = bytes[h + i]
  BY <1>8, <1>13, <1>19
<1>21. Last(packet) = packet[d + 4]
  BY <1>13 DEF Last
<1>22. body[1] = Asked /\ body[2] = d + 2 /\ body[3] = 0
  BY <1>12, <1>13, <1>15, <1>17
<1>23. bytes[h + d + 4] = checksum(body)
  <2>1. packet[d + 4] = bytes[h + (d + 4)] /\ h + (d + 4) = h + d + 4
    BY <1>20
  <2>. QED
    BY <1>15, <1>16, <1>21, <2>1
<1>24. \A i \in 1 .. d + 3 : body[i] = bytes[h + i]
  <2>1. \A i \in 1 .. d + 3 : i \in 1 .. d + 4
    OBVIOUS
  <2>. QED
    BY <1>17, <1>20, <2>1
<1>25. ReadAt(bytes, h, d, body)
  BY <1>10, <1>17, <1>19, <1>22, <1>23, <1>24 DEF ReadAt
<1>26. \A i \in 1 .. d : Parameters(packet)[i] = body[3 + i]
  <2>1. \A i \in 1 .. d : 3 + i \in 1 .. d + 3
    OBVIOUS
  <2>. QED
    BY <1>17, <2>1
<1>27. FirmwareResult(bytes).data = Parameters(packet) /\ h = find_header(bytes)
  BY <1>2, <1>6, <1>14, <1>15 DEF start
<1>. QED
  BY <1>17, <1>18, <1>25, <1>26, <1>27

\* An id, a length or the absence of an error is not a part of a header.
LEMMA NotHeader ==
  /\ Asked # FF /\ 0 # FF /\ 1 # FF /\ FF \in Nat
  /\ \A d \in {0, 2} : d + 2 # FF
BY ByteBounds, ByteFacts

\* The bytes f of a reply with d bytes of data.
SentAs(f, id, d, error, content) ==
  /\ f \in Seq(Byte) /\ Len(f) = d + 6 /\ f[1] = FF /\ f[2] = FF
  /\ f[3] = id /\ f[4] = d + 2 /\ f[5] = error
  /\ content \in Seq(Byte) /\ Len(content) = d + 3
  /\ \A j \in 1 .. d + 3 : f[2 + j] = content[j]
  /\ f[d + 6] = checksum(content)

LEMMA Small ==
  ASSUME NEW d \in {0, 2}
  PROVE  d \in Nat /\ (d = 0 \/ d = 2) /\ {1, 2, 3, 4, 5} \subseteq 1 .. d + 5
         /\ {1, 2, 3} \subseteq 1 .. d + 3 /\ d + 6 \in 1 .. d + 6
OBVIOUS

\* Where the packet is found when a byte of the reply is changed: noise that does
\* not spell the beginning of a packet cannot make another one.
LEMMA ChangedHeader ==
  ASSUME NEW n \in Nat, NEW d \in {0, 2}, NEW e \in {0, 2}, NEW h, h >= n - 1,
         NEW w \in Seq(Byte), NEW body, ReadAt(w, h, e, body),
         NEW f, NEW id, id # FF, NEW error, NEW content, SentAs(f, id, d, error, content),
         OneChanged(w, n, f)
  PROVE  h = n + 2 /\ e <= d
<1>1. Asked # FF /\ e + 2 # FF /\ d + 2 # FF /\ 0 # FF /\ d + 2 # 0 /\ FF \in Nat
  BY NotHeader
<1>2. /\ h \in Nat /\ h >= 2 /\ w[h - 1] = FF /\ w[h] = FF /\ h + e + 4 <= Len(w)
      /\ \A k \in 2 .. h - 1 : ~ (w[k - 1] = FF /\ w[k] = FF)
  BY DEF ReadAt
<1>3. w[h + 1] = Asked /\ w[h + 2] = e + 2 /\ w[h + 3] = 0
  BY Small DEF ReadAt
<1>4. Len(f) = d + 6 /\ f[1] = FF /\ f[2] = FF /\ f[3] # FF /\ f[4] = d + 2
  BY DEF SentAs
<1>5. PICK i \in 1 .. d + 6 : \A j \in 1 .. d + 6 : j # i => w[n + j] = f[j]
  BY <1>4 DEF OneChanged
<1>6. Len(w) = n + (d + 6)
  BY <1>4 DEF OneChanged
<1>7. h + e + 4 <= n + d + 6
  BY <1>2, <1>6
<1>8. h \in {n - 1, n, n + 1, n + 2, n + 3, n + 4} /\ (h = n + 2 => e <= d)
  BY <1>2, <1>7
<1>9. {1, 2, 3, 4} \subseteq 1 .. d + 6
  OBVIOUS
<1>10. /\ 1 # i => w[n + 1] = FF
       /\ 2 # i => w[n + 2] = FF
       /\ 3 # i => w[n + 3] # FF
       /\ 4 # i => w[n + 4] = d + 2
  BY <1>4, <1>5, <1>9
<1>11. h # n - 1
  <2>1. SUFFICES ASSUME h = n - 1 PROVE FALSE
    OBVIOUS
  <2>2. h + 2 = n + 1 /\ h + 3 = n + 2
    BY <2>1
  <2>. QED
    BY <1>1, <1>3, <1>10, <2>2, SMTT(40)
<1>12. h # n
  <2>1. SUFFICES ASSUME h = n PROVE FALSE
    OBVIOUS
  <2>. QED
    BY <1>1, <1>3, <1>10, <2>1
<1>13. h # n + 1
  <2>1. SUFFICES ASSUME h = n + 1 PROVE FALSE
    OBVIOUS
  <2>2. h + 1 = n + 2 /\ h + 3 = n + 4
    BY <2>1
  <2>. QED
    BY <1>1, <1>3, <1>10, <2>2, SMTT(40)
<1>14. h # n + 3
  <2>1. SUFFICES ASSUME h = n + 3 PROVE FALSE
    OBVIOUS
  <2>2. w[n + 3] = FF
    BY <1>2, <2>1
  <2>3. w[n + 1] = FF /\ w[n + 2] = FF
    BY <1>10, <2>2
  <2>4. n + 2 \in 2 .. h - 1 /\ (n + 2) - 1 = n + 1
    BY <2>1
  <2>5. ~ (w[(n + 2) - 1] = FF /\ w[n + 2] = FF)
    BY <1>2, <2>4
  <2>. QED
    BY <2>3, <2>4, <2>5
<1>15. h # n + 4
  <2>1. SUFFICES ASSUME h = n + 4 PROVE FALSE
    OBVIOUS
  <2>2. w[n + 3] = FF /\ w[n + 4] = FF
    <3>1. h - 1 = n + 3
      BY <2>1
    <3>. QED
      BY <1>2, <2>1, <3>1
  <2>. QED
    BY <1>1, <1>10, <2>2
<1>. QED
  BY <1>8, <1>11, <1>12, <1>13, <1>14, <1>15

\* A packet read from a reply with a changed byte was sent, unless it is one
\* without data in place of one with data; the servo and the error are right.
LEMMA ReadFromChanged ==
  ASSUME NEW n \in Nat, NEW d \in {0, 2}, NEW e \in {0, 2}, NEW h, h >= n - 1,
         NEW w \in Seq(Byte), NEW body, ReadAt(w, h, e, body),
         NEW f, NEW id, id # FF, NEW error, NEW content, SentAs(f, id, d, error, content),
         OneChanged(w, n, f)
  PROVE  IF e = d THEN body = content ELSE e = 0 /\ id = Asked /\ error = 0
<1>1. h = n + 2 /\ e <= d
  BY ChangedHeader
<1>2. Len(f) = d + 6 /\ f[3] = id /\ f[4] = d + 2 /\ f[5] = error
  BY DEF SentAs
<1>3. PICK i \in 1 .. d + 6 : \A j \in 1 .. d + 6 : j # i => w[n + j] = f[j]
  BY <1>2 DEF OneChanged
<1>4. CASE e = d
  <2>1. PICK m \in Nat : m = d + 3
    OBVIOUS
  <2>2. /\ body \in Seq(Byte) /\ Len(body) = m
        /\ \A j \in 1 .. m : body[j] = w[h + j]
        /\ w[h + d + 4] = checksum(body)
    BY <1>4, <2>1 DEF ReadAt
  <2>3. /\ content \in Seq(Byte) /\ Len(content) = m
        /\ \A j \in 1 .. m : f[2 + j] = content[j]
        /\ f[d + 6] = checksum(content)
    BY <2>1 DEF SentAs
  <2>4. ASSUME NEW j \in 1 .. m, 2 + j # i PROVE body[j] = content[j]
    <3>1. 2 + j \in 1 .. d + 6 /\ n + (2 + j) = h + j
      BY <1>1, <2>1
    <3>2. w[h + j] = f[2 + j]
      BY <1>3, <2>4, <3>1
    <3>. QED
      BY <2>2, <2>3, <3>2
  <2>5. CASE i - 2 \in 1 .. m
    <3>1. PICK k \in 1 .. m : k = i - 2
      BY <2>5
    <3>2. \A j \in 1 .. m : j # k => 2 + j # i
      BY <3>1
    <3>3. \A j \in 1 .. m : j # k => body[j] = content[j]
      BY <2>4, <3>2
    <3>4. d + 6 # i /\ d + 6 \in 1 .. d + 6 /\ n + (d + 6) = h + d + 4
      BY <1>1, <2>1, <2>5
    <3>5. w[h + d + 4] = f[d + 6]
      BY <1>3, <3>4
    <3>6. checksum(body) = checksum(content)
      BY <2>2, <2>3, <3>5
    <3>7. /\ Len(body) = Len(content) /\ k \in 1 .. Len(body)
          /\ \A j \in 1 .. Len(body) : j # k => body[j] = content[j]
      BY <2>2, <2>3, <3>3
    <3>8. body = content
      BY <2>2, <2>3, <3>6, <3>7, OneByteDetected
    <3>. QED
      BY <1>4, <3>8
  <2>6. CASE i - 2 \notin 1 .. m
    <3>1. \A j \in 1 .. m : 2 + j # i
      BY <2>6
    <3>2. Len(body) = Len(content) /\ \A j \in 1 .. Len(body) : body[j] = content[j]
      BY <2>2, <2>3, <2>4, <3>1
    <3>3. body = content
      BY <2>2, <2>3, <3>2, SameSeq
    <3>. QED
      BY <1>4, <3>3
  <2>. QED
    BY <2>5, <2>6
<1>5. CASE e # d
  <2>1. e = 0 /\ d = 2
    BY <1>1, <1>5, Small
  <2>2. w[h + 1] = Asked /\ w[h + 2] = e + 2 /\ w[h + 3] = 0
    BY Small DEF ReadAt
  <2>3. h + 1 = n + 3 /\ h + 2 = n + 4 /\ h + 3 = n + 5 /\ {3, 4, 5} \subseteq 1 .. d + 6
    BY <1>1
  <2>4. w[n + 3] = Asked /\ w[n + 4] = 2 /\ w[n + 5] = 0
    BY <2>1, <2>2, <2>3
  <2>5. f[4] = 4
    BY <1>2, <2>1
  <2>6. i = 4
    BY <1>3, <2>3, <2>4, <2>5
  <2>7. f[3] = Asked /\ f[5] = 0
    BY <1>3, <2>3, <2>4, <2>6
  <2>. QED
    BY <1>2, <1>5, <2>1, <2>7
<1>. QED
  BY <1>4, <1>5

\* The i-th of the bytes of f is missing.
Missing(w, n, f, k, i) ==
  \A j \in 1 .. k : /\ j < i => w[n + j] = f[j]
                    /\ i <= j => w[n + j] = f[j + 1]

\* Where it is found when a byte is lost: it must be one of the header, and noise
\* must stand in for it.
LEMMA ShortenedHeader ==
  ASSUME NEW n \in Nat, NEW d \in {0, 2}, NEW e \in {0, 2}, NEW h, h >= n - 1,
         NEW w \in Seq(Byte), NEW body, ReadAt(w, h, e, body),
         NEW f, NEW id, id # FF, NEW error, error # 2, NEW content,
         SentAs(f, id, d, error, content), Len(w) = n + d + 5,
         NEW i \in 1 .. d + 6, NEW k, k = d + 5, Missing(w, n, f, k, i)
  PROVE  h = n + 1 /\ i <= 2 /\ e = d
<1>1. Asked # FF /\ e + 2 # FF /\ d + 2 # FF /\ 0 # FF /\ FF \in Nat
  BY NotHeader
<1>2. h \in Nat /\ h >= 2 /\ w[h] = FF /\ h + e + 4 <= n + d + 5
  BY DEF ReadAt
<1>3. w[h + 1] = Asked /\ w[h + 2] = e + 2 /\ w[h + 3] = 0
  BY Small DEF ReadAt
<1>4. f[1] = FF /\ f[2] = FF /\ f[3] # FF /\ f[4] = d + 2 /\ f[5] # 2
  BY DEF SentAs
<1>5. h \in {n - 1, n, n + 1, n + 2, n + 3}
  BY <1>2
<1>6. {1, 2, 3, 4} \subseteq 1 .. d + 5 /\ i \in Nat
  BY Small
<1>7. /\ 1 < i => w[n + 1] = f[1]
      /\ i <= 1 => w[n + 1] = f[2]
      /\ 2 < i => w[n + 2] = f[2]
      /\ 3 < i => w[n + 3] = f[3]
      /\ i <= 3 => w[n + 3] = f[4]
      /\ 4 < i => w[n + 4] = f[4]
      /\ i <= 4 => w[n + 4] = f[5]
  <2>1. 1 + 1 = 2 /\ 3 + 1 = 4 /\ 4 + 1 = 5
    OBVIOUS
  <2>2. {1, 2, 3, 4} \subseteq 1 .. k
    BY <1>6
  <2>. QED
    BY <2>1, <2>2 DEF Missing
<1>8. /\ w[n + 1] = FF
      /\ 2 < i => w[n + 2] = FF
      /\ w[n + 3] # FF
      /\ i <= 3 => w[n + 3] = d + 2
      /\ 4 < i => w[n + 4] = d + 2
      /\ i <= 4 => w[n + 4] # 2
  <2>1. i <= 1 \/ 1 < i
    BY <1>6
  <2>2. i <= 3 \/ 3 < i
    BY <1>6
  <2>3. w[n + 1] = FF
    BY <1>4, <1>7, <2>1, Zenon
  <2>4. w[n + 3] # FF
    BY <1>1, <1>4, <1>7, <2>2, Zenon
  <2>. QED
    BY <1>4, <1>7, <2>3, <2>4, Zenon
<1>9. h # n - 1
  <2>1. SUFFICES ASSUME h = n - 1 PROVE FALSE
    OBVIOUS
  <2>2. h + 2 = n + 1
    BY <2>1
  <2>. QED
    BY <1>1, <1>3, <1>8, <2>2
<1>10. h # n
  <2>1. SUFFICES ASSUME h = n PROVE FALSE
    OBVIOUS
  <2>. QED
    BY <1>1, <1>3, <1>8, <2>1
<1>11. h # n + 3
  <2>1. SUFFICES ASSUME h = n + 3 PROVE FALSE
    OBVIOUS
  <2>. QED
    BY <1>2, <1>8, <2>1
<1>12. h # n + 2
  <2>1. SUFFICES ASSUME h = n + 2 PROVE FALSE
    OBVIOUS
  <2>2. h + 2 = n + 4 /\ e = 0 /\ d = 2
    BY <1>2, <2>1
  <2>3. w[n + 4] = 2
    BY <1>3, <2>2
  <2>. QED
    BY <1>6, <1>8, <2>2, <2>3
<1>13. h = n + 1
  BY <1>5, <1>9, <1>10, <1>11, <1>12
<1>14. w[n + 2] = Asked /\ w[n + 3] = e + 2
  <2>1. h + 1 = n + 2 /\ h + 2 = n + 3
    BY <1>13
  <2>. QED
    BY <1>3, <2>1
<1>15. i <= 2
  BY <1>1, <1>6, <1>8, <1>14
<1>16. e = d
  <2>1. e + 2 = d + 2
    BY <1>6, <1>8, <1>14, <1>15
  <2>. QED
    BY <2>1
<1>. QED
  BY <1>13, <1>15, <1>16

\* A packet read from a reply that lost a byte was sent.
LEMMA ReadFromShortened ==
  ASSUME NEW n \in Nat, NEW d \in {0, 2}, NEW e \in {0, 2}, NEW h, h >= n - 1,
         NEW w \in Seq(Byte), NEW body, ReadAt(w, h, e, body),
         NEW f, NEW id, id # FF, NEW error, error # 2, NEW content,
         SentAs(f, id, d, error, content), OneLost(w, n, f)
  PROVE  e = d /\ body = content
<1>1. Len(f) = d + 6
  BY DEF SentAs
<1>2. Len(w) = n + d + 5
  <2>1. Len(w) = n + (d + 6) - 1
    BY <1>1 DEF OneLost
  <2>. QED
    BY <2>1
<1>3. PICK k \in Nat : k = d + 5 /\ k = (d + 6) - 1
  OBVIOUS
<1>4. PICK i \in 1 .. d + 6 : \A j \in 1 .. k : w[n + j] = f[IF j < i THEN j ELSE j + 1]
  BY <1>1, <1>3 DEF OneLost
<1>5. ASSUME NEW j \in 1 .. k
      PROVE  (j < i => w[n + j] = f[j]) /\ (i <= j => w[n + j] = f[j + 1])
  <2>1. w[n + j] = f[IF j < i THEN j ELSE j + 1]
    BY <1>4
  <2>2. i <= j => ~ (j < i)
    OBVIOUS
  <2>. QED
    BY <2>1, <2>2
<1>6. Missing(w, n, f, k, i)
  BY <1>5 DEF Missing
<1>7. h = n + 1 /\ i <= 2 /\ e = d
  BY <1>2, <1>3, <1>6, ShortenedHeader
<1>8. PICK m \in Nat : m = d + 3
  OBVIOUS
<1>9. body \in Seq(Byte) /\ Len(body) = m /\ \A j \in 1 .. m : body[j] = w[h + j]
  BY <1>7, <1>8 DEF ReadAt
<1>10. content \in Seq(Byte) /\ Len(content) = m /\ \A j \in 1 .. m : f[2 + j] = content[j]
  BY <1>8 DEF SentAs
<1>11. ASSUME NEW j \in 1 .. m PROVE body[j] = content[j]
  <2>1. /\ 1 + j \in 1 .. k /\ i <= 1 + j /\ n + (1 + j) = h + j
        /\ (1 + j) + 1 = 2 + j
    BY <1>3, <1>7, <1>8
  <2>2. w[h + j] = f[2 + j]
    BY <1>5, <2>1
  <2>. QED
    BY <1>9, <1>10, <2>2
<1>12. body = content
  BY <1>9, <1>10, <1>11, SameSeq
<1>. QED
  BY <1>7, <1>12

LEMMA AcceptedWasSent == CodecInv => AcceptedIsSent
<1>. SUFFICES ASSUME CodecInv,
                     \A k \in 1 .. Len(noise) - 3 : ~ (noise[k] = FF /\ noise[k + 1] = FF),
                     FirmwareResult(line).result = "ok"
              PROVE  /\ sent.id = Asked /\ sent.error = 0
                     /\ op = "read" =>
                          /\ FirmwareResult(line).data = sent.data
                          /\ PositionBytes(decode_signed_15(FirmwareResult(line).data))
                               = FirmwareResult(line).data
  BY DEF AcceptedIsSent
<1>1. PICK w \in Seq(Byte) : w = line
  BY DEF CodecInv
<1>2. PICK h, e, data, body :
         /\ h = find_header(w) /\ e = DataLength /\ data = FirmwareResult(line).data
         /\ ReadAt(w, h, e, body) /\ data \in Seq(Byte) /\ Len(data) = e
         /\ \A i \in 1 .. e : data[i] = body[3 + i]
  <2>1. FirmwareResult(w).result = "ok"
    BY <1>1
  <2>. QED
    BY <1>1, <2>1, AcceptedMeans
<1>3. e \in {0, 2} /\ (op = "read" => e = 2)
  BY <1>2 DEF DataLength
<1>4. PICK n \in Nat : n = Len(noise)
  BY DEF CodecInv
<1>5. /\ h \in Nat /\ h >= 2 /\ h <= Len(w) /\ w[h - 1] = FF /\ w[h] = FF
      /\ \A k \in 2 .. h - 1 : ~ (w[k - 1] = FF /\ w[k] = FF)
      /\ h + e + 4 <= Len(w) /\ Len(w) \in Nat
      /\ body \in Seq(Byte) /\ Len(body) = e + 3 /\ \A i \in 1 .. e + 3 : body[i] = w[h + i]
      /\ body[1] = Asked /\ body[2] = e + 2 /\ body[3] = 0
      /\ w[h + e + 4] = checksum(body)
  <2>1. h \in 2 .. Len(w) /\ Len(w) \in Nat
    BY <1>1, <1>2 DEF ReadAt
  <2>2. h \in Nat /\ h >= 2 /\ h <= Len(w)
    BY <2>1
  <2>. QED
    BY <1>2, <2>1, <2>2, Zenon DEF ReadAt
<1>6. (\A k \in 1 .. n : w[k] = noise[k]) /\ n <= Len(w) => h >= n - 1
  <2>. SUFFICES ASSUME \A k \in 1 .. n : w[k] = noise[k], n <= Len(w), h < n - 1 PROVE FALSE
    BY <1>4, <1>5
  <2>1. h - 1 \in 1 .. Len(noise) - 3 /\ h - 1 \in 1 .. n /\ h \in 1 .. n /\ (h - 1) + 1 = h
    BY <1>4, <1>5
  <2>. QED
    BY <1>5, <2>1
<1>7. ~ (sent = NoReply /\ line = noise)
  <2>. SUFFICES ASSUME line = noise PROVE FALSE
    OBVIOUS
  <2>1. w = noise /\ n = Len(w)
    BY <1>1, <1>4
  <2>2. h >= n - 1
    BY <1>6, <2>1
  <2>. QED
    BY <1>3, <1>4, <1>5, <2>1, <2>2
<1>8. Replied
  BY <1>7 DEF CodecInv
<1>9. PICK id \in Ids, error \in {0, 1}, value \in {sent.data} :
         /\ id = sent.id /\ error = sent.error /\ value = sent.data
         /\ value = <<>> \/ \E p \in Positions : value = PositionBytes(p)
  BY <1>8 DEF Replied
<1>10. /\ id \in Byte /\ id # FF /\ error \in Byte
       /\ value \in Seq(Byte) /\ Len(value) \in {0, 2} /\ Len(value) <= 2
  BY <1>9, ReplyFacts
<1>11. PICK d \in {0, 2} : d = Len(value)
  BY <1>10
<1>12. PICK f, content : f = Frame /\ content = Content(id, error, value)
  OBVIOUS
<1>13. /\ content \in Seq(Byte) /\ Len(content) = d + 3
       /\ content[1] = id /\ content[2] = d + 2 /\ content[3] = error
       /\ \A i \in 1 .. d : content[3 + i] = value[i]
  <2>1. /\ Content(id, error, value) \in Seq(Byte)
        /\ Len(Content(id, error, value)) = Len(value) + 3
        /\ Content(id, error, value)[1] = id /\ Content(id, error, value)[2] = Len(value) + 2
        /\ Content(id, error, value)[3] = error
        /\ \A i \in 1 .. Len(value) : Content(id, error, value)[3 + i] = value[i]
    BY <1>10, BodyBytes
  <2>. QED
    BY <1>11, <1>12, <2>1
<1>14. /\ f \in Seq(Byte) /\ Len(f) = d + 6 /\ f[1] = FF /\ f[2] = FF
       /\ \A i \in 1 .. d + 3 : f[2 + i] = content[i]
       /\ f[d + 6] = checksum(content)
  <2>1. /\ encode_instruction_packet(id, error, value) \in Seq(Byte)
        /\ Len(encode_instruction_packet(id, error, value)) = Len(value) + 6
        /\ encode_instruction_packet(id, error, value)[1] = FF
        /\ encode_instruction_packet(id, error, value)[2] = FF
        /\ \A i \in 1 .. Len(value) + 3 :
             encode_instruction_packet(id, error, value)[2 + i] = Content(id, error, value)[i]
        /\ encode_instruction_packet(id, error, value)[Len(value) + 6]
             = checksum(Content(id, error, value))
    BY <1>10, FrameFacts
  <2>2. f = encode_instruction_packet(id, error, value)
    BY <1>9, <1>12 DEF Frame
  <2>. QED
    BY <1>11, <1>12, <2>1, <2>2
<1>15. SentAs(f, id, d, error, content)
  <2>1. {1, 2, 3} \subseteq 1 .. d + 3 /\ 2 + 1 = 3 /\ 2 + 2 = 4 /\ 2 + 3 = 5
    OBVIOUS
  <2>2. f[3] = id /\ f[4] = d + 2 /\ f[5] = error
    BY <1>13, <1>14, <2>1
  <2>. QED
    BY <1>13, <1>14, <2>2 DEF SentAs
<1>16. OneChanged(w, n, f) \/ OneLost(w, n, f)
  BY <1>1, <1>4, <1>8, <1>12 DEF Replied
<1>17. h >= n - 1
  <2>1. \A k \in 1 .. n : w[k] = noise[k]
    BY <1>1, <1>4, <1>8 DEF Replied
  <2>2. n <= Len(w)
    <3>1. Len(w) = n + (d + 6) \/ Len(w) = n + (d + 6) - 1
      BY <1>14, <1>16 DEF OneChanged, OneLost
    <3>. QED
      BY <3>1
  <2>. QED
    BY <1>6, <2>1, <2>2
<1>18. IF e = d THEN body = content ELSE e = 0 /\ id = Asked /\ error = 0
  <2>1. ReadAt(w, h, e, body) /\ id # FF /\ error # 2
    BY <1>2, <1>9, <1>10
  <2>2. CASE OneChanged(w, n, f)
    BY <1>3, <1>15, <1>17, <2>1, <2>2, ReadFromChanged
  <2>3. CASE OneLost(w, n, f)
    <3>1. e = d /\ body = content
      BY <1>3, <1>15, <1>17, <2>1, <2>3, ReadFromShortened
    <3>. QED
      BY <3>1
  <2>. QED
    BY <1>16, <2>2, <2>3
<1>19. id = Asked /\ error = 0
  BY <1>5, <1>13, <1>18
<1>20. ASSUME op = "read"
       PROVE  data = value /\ PositionBytes(decode_signed_15(data)) = data
  <2>1. e = 2 /\ d = 2 /\ body = content
    BY <1>3, <1>18, <1>20
  <2>2. Len(data) = 2 /\ Len(value) = 2 /\ \A i \in 1 .. 2 : data[i] = value[i]
    BY <1>2, <1>11, <1>13, <2>1
  <2>3. data = value
    <3>1. data \in Seq(Byte) /\ value \in Seq(Byte) /\ Len(data) = Len(value)
          /\ \A i \in 1 .. Len(data) : data[i] = value[i]
      BY <1>2, <1>10, <2>2
    <3>. QED
      BY <3>1, SameSeq
  <2>4. PICK p \in Positions : value = PositionBytes(p)
    BY <1>9, <2>2
  <2>5. decode_signed_15(PositionBytes(p)) = p
    BY PositionBytesFacts
  <2>6. decode_signed_15(data) = p
    BY <2>3, <2>4, <2>5
  <2>. QED
    BY <2>3, <2>4, <2>6
<1>. QED
  BY <1>2, <1>9, <1>19, <1>20

\* What is accepted comes from the servo that was asked and reports no error, and
\* a position is the one that was sent, for bytes of every width, every position
\* and any one byte of the reply changed or lost, after noise of any length.
THEOREM CodecAcceptedIsSent == Spec => []AcceptedIsSent
  BY CodecSafety, AcceptedWasSent, PTL

=============================================================================
