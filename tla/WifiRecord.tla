------------------------------ MODULE WifiRecord ------------------------------
(***************************************************************************)
(* The Wi-Fi credentials in the flash of the MCU: the host tool            *)
(* (src/host/src/bin/provision-wifi.rs) has espflash erase the sector and  *)
(* write the record, cell after cell; the firmware (src/src/bin/main.rs)   *)
(* reads it back at the next start.  The cable may be pulled at any point, *)
(* which leaves a partly erased or partly written record.                  *)
(*                                                                         *)
(* A cell stands for a field of the record: 1 the magic and the version,   *)
(* 2 and 3 the lengths, 4 the checksum, the others a byte of the SSID, of  *)
(* the password or of the padding.  FNV-1a is idealised: different records *)
(* have different checksums.                                               *)
(***************************************************************************)
EXTENDS Integers, Sequences, SequencesExt

CONSTANTS
  Chars,         \* bytes of a text in UTF-8
  SsidMax,       \* WIFI_SSID_MAX_LEN
  PasswordMax,   \* WIFI_PASSWORD_MAX_LEN
  Blank,         \* 0xff, which erased flash holds and no text in UTF-8 does
  NoCredentials

Texts(max) == UNION {[1 .. n -> Chars] : n \in 0 .. max}

\* What can be typed at the prompts, too short and too long ones included.
Typed == [ssid : Texts(SsidMax + 1), password : Texts(PasswordMax + 1)]

ASSUME RecordAssumption ==
  /\ Blank \in Nat
  /\ SsidMax \in 1 .. Blank - 1 /\ PasswordMax \in 0 .. Blank - 1
  /\ Chars \subseteq 0 .. Blank - 1
  /\ NoCredentials \notin Typed

VARIABLES
  flash,         \* the cells of the record
  writing,       \* the cell that espflash writes next, 0 when it does not run
  provisioned,   \* the credentials that it writes or has written completely
  older          \* credentials of which cells may have survived an erasure

wifiVars == <<flash, writing, provisioned, older>>

Magic == 1
Header == 4
Size == Header + SsidMax + PasswordMax + 1   \* WIFI_CONFIG_READ_SIZE, with the alignment
Cells == 1 .. Size

checksum(header, payload) ==
  FoldLeft(LAMBDA hash, byte : hash * (Blank + 1) + byte, 1, header \o payload)

\* config_image, what it refuses and what it makes of the rest.
Provisionable(c) ==
  /\ c.ssid # <<>> /\ Len(c.ssid) <= SsidMax
  /\ Len(c.password) <= PasswordMax

\* The header counts the bytes of the SSID only.
ImageSsidOnly(c) ==
  LET payload == c.ssid \o c.password
      header  == <<Magic, Len(c.ssid), 0>>
      used    == header \o <<checksum(header, payload)>> \o payload
  IN [i \in Cells |-> IF i <= Len(used) THEN used[i] ELSE Blank]

config_image(c) ==
  LET payload == c.ssid \o c.password
      header  == <<Magic, Len(c.ssid), Len(c.password)>>
      used    == header \o <<checksum(header, payload)>> \o payload
  IN [i \in Cells |-> IF i <= Len(used) THEN used[i] ELSE Blank]

\* str::from_utf8 succeeds.
IsText(bytes) == \A i \in DOMAIN bytes : bytes[i] # Blank

\* load_wifi_credentials, when the flash can be read; the checksum is not looked at.
LoadUnchecked(cells) ==
  LET ssid     == SubSeq(cells, Header + 1, Header + cells[2])
      password == SubSeq(cells, Header + cells[2] + 1, Header + cells[2] + cells[3])
  IN IF /\ cells[1] = Magic
        /\ cells[2] \in 1 .. SsidMax
        /\ cells[3] \in 0 .. PasswordMax
        /\ IsText(ssid) /\ IsText(password)
     THEN [ssid |-> ssid, password |-> password]
     ELSE NoCredentials

\* load_wifi_credentials, when the flash can be read.
load_wifi_credentials(cells) ==
  LET ssid     == SubSeq(cells, Header + 1, Header + cells[2])
      password == SubSeq(cells, Header + cells[2] + 1, Header + cells[2] + cells[3])
  IN IF /\ cells[1] = Magic
        /\ cells[2] \in 1 .. SsidMax
        /\ cells[3] \in 0 .. PasswordMax
        /\ checksum(SubSeq(cells, 1, 3), ssid \o password) = cells[4]
        /\ IsText(ssid) /\ IsText(password)
     THEN [ssid |-> ssid, password |-> password]
     ELSE NoCredentials

-----------------------------------------------------------------------------

\* What NeverTorn asks of the checksum: among the credentials that any cells
\* could hold, different ones have different checksums, and none has that of
\* erased flash.
Bytes == 0 .. Blank - 1

Readable ==
  [ssid : UNION {[1 .. n -> Bytes] : n \in 1 .. SsidMax},
   password : UNION {[1 .. n -> Bytes] : n \in 0 .. PasswordMax}]

Sum(c) == checksum(<<Magic, Len(c.ssid), Len(c.password)>>, c.ssid \o c.password)

CollisionFree ==
  /\ \A c, d \in Readable : Sum(c) = Sum(d) => c = d
  /\ \A c \in Readable : Sum(c) # Blank

-----------------------------------------------------------------------------

\* A new board.
WifiInit ==
  /\ flash = [i \in Cells |-> Blank]
  /\ writing = 0
  /\ provisioned = NoCredentials
  /\ older = NoCredentials

\* The tool is run and espflash erases the sector.
Provision(c) ==
  /\ writing = 0
  /\ Provisionable(c)
  /\ flash' = [i \in Cells |-> Blank]
  /\ writing' = 1
  /\ provisioned' = c
  /\ older' = NoCredentials

\* The cable is pulled while the sector is erased: some cells keep their content.
EraseTorn ==
  /\ writing = 0
  /\ \E kept \in SUBSET {i \in Cells : flash[i] # Blank} :
       flash' = [i \in Cells |-> IF i \in kept THEN flash[i] ELSE Blank]
  /\ older' = IF provisioned = NoCredentials THEN older ELSE provisioned
  /\ provisioned' = NoCredentials
  /\ UNCHANGED writing

WriteCell ==
  /\ writing # 0
  /\ flash' = [flash EXCEPT ![writing] = config_image(provisioned)[writing]]
  /\ writing' = IF writing = Size THEN 0 ELSE writing + 1
  /\ UNCHANGED <<provisioned, older>>

\* The cable is pulled while a cell is written, which may then hold anything;
\* "Wi-Fi provisioning failed".
WriteTorn ==
  /\ writing # 0
  /\ \E b \in 0 .. Blank : flash' = [flash EXCEPT ![writing] = b]
  /\ writing' = 0
  /\ older' = provisioned
  /\ provisioned' = NoCredentials

WifiNext ==
  \/ \E c \in Typed : Provision(c)
  \/ EraseTorn
  \/ WriteCell
  \/ WriteTorn

WifiSpec == WifiInit /\ [][WifiNext]_wifiVars

-----------------------------------------------------------------------------

\* "use host provisioning over USB": once the tool has succeeded, the firmware
\* finds exactly the SSID and the password that were typed, at every length the
\* tool accepts, although the record is built and read by two programs that
\* share no code.
ProvisionedLoads ==
  writing = 0 /\ provisioned # NoCredentials =>
    load_wifi_credentials(flash) = provisioned

\* Whenever the cable is pulled, the firmware finds either no credentials or
\* some that were provisioned as a whole: never a part of them, and never those
\* of an earlier provisioning after the later one has erased the sector.
NeverTorn ==
  load_wifi_credentials(flash) \in {NoCredentials, provisioned, older}

=============================================================================
