# A TLA+ verification of fetchline

fetchline drives a bus of STS serial servos. A browser talks to a Linux host,
the host talks to a microcontroller (MCU) over Wi-Fi, and the MCU owns the UART
of the servo bus. This directory holds TLA+ modules that model these parts from
the source, TLC configurations that check them on small instances, and TLAPS
proofs that the safety properties of every module hold for every instance.

Paths below are relative to the repository; `main.rs` is the firmware
`src/bin/main.rs`, `host/main.rs` is `host/src/main.rs`.

## 1. Inventory

```
 browser UI  --WebSocket/JSON-->  host bridge  --WebSocket/JSON-RPC-->  controller_session
 (app.js)    --GET/PUT config-->  host config                           (one of 3 slots)
                                  host bridge  --raw TCP (debug)----->  raw_client_session
                                                                            |  UART locks
                                                                        STS servo bus
```

| Component | State | Operations | What is hard | What makes it correct |
|---|---|---|---|---|
| Controller admission (`controller.rs`, `ControllerOwnership` in `main.rs`) | epoch, `active`, `listener_required`; two watch channels | `claim`, `release`, `listener_ready`, `is_current` | claims that sleep until some other task listens; late releases; announcements overwritten | one owner; no lost wake-up; admission reopens; `active` is exact |
| Controller slots and sessions (`controller_service`, `controller_session`) | suspension point, generation, socket, running command | accept, upgrade, claim, read, dispatch, write, cancel, release | take-over at every suspension point; cancelling a command that holds the UART; vanished clients; Wi-Fi going down | the loser stops, drains the UART and gives its slot back; the board listens again |
| Raw UART tunnel (`RawTunnelControl`, `raw_tunnel_service`, `raw_client_session`) | `enabled`, a one-place `Signal`, two UART locks | enable, disable, accept, forward both ways, release | two cells that must agree; a signal that forgets; two locks taken in different patterns | no command missed; no mixing with controller commands; no deadlock |
| STS transactions (`execute_command` … `resynchronize_uart`) | command in progress, timers, UART FIFO | seven commands, send, parse, time out, drain | late, lost and damaged status packets without sequence numbers; cancellation in the middle | an answer belongs to its packet; a speed is sent only in wheel mode; a scan is sound; commands end |
| STS packet codec (`controller.rs`, `read_sts_status`; `read_status` in `host/main.rs`) | none | encode, find the header, decode, two implementations | noise before the header; damaged and lost bytes; limits | both accept the same, and only what was sent |
| WebSocket server (`websocket.rs`) | none | upgrade, read, write, ping | fragmentation limits, masks | — |
| Wi-Fi (`wifi_connection`) | link state | connect, disconnect | reconnects | listeners come back |
| Wi-Fi credentials record (`provision-wifi.rs`, `load_wifi_credentials`) | a record in flash | provision, load | two programs, one layout; a cable pulled while flashing | what was typed is loaded, never a part of it |
| Host bridge (`host/main.rs`) | one connection behind a mutex, request ids | browser message, connect, health check, request, give up | shared by all browsers; late responses; commands of dropped connections still under way; abandoned handshakes | nothing stale is matched; order of commands; every message answered |
| Host configuration (`host/main.rs`) | memory, `config.json`, `config.json.tmp` | load, validate, persist, GET, PUT | crash between system calls; concurrent PUTs | memory and file agree; a restart loses nothing |
| Host raw debug transport (`host/main.rs`) | a TCP stream | enable, dial, write and read registers | replies without numbers on a stream that survives a time-out; attempts given up | packets in order, replies not mixed up, every message answered |
| Host logging (`host/main.rs`) | the log and three archives | log, rotate | a rotation that stops half-way | the latest lines are kept, in order; no file passes its limit by a whole line |
| Browser UI (`host/web/app.js`) | sliders, throttles, connection view | move, flush, connect, save | throttling against refusal to send; PUTs out of order | a released position is sent; disabled servos are left alone; searches end |
| OLED display, start-up, bench scripts, protocol constants | — | output and set-up | — | — |

`PROJECT.json` lists every component with its status, every hazard at its line
with the properties aimed at it, and for each definition the lines it stands
for.

## 2. Modules

| Module | Models | Extends |
|---|---|---|
| `Ownership` | abstract specification: what the clients of a board are promised about owning it | |
| `ControllerAdmission` | the pure ownership helpers, as operators on the record `[epoch, active, listener_required]` | |
| `ControllerService` | the controller slots, sessions, ownership, UART lock, Wi-Fi; implements `Ownership` | `ControllerAdmission` |
| `RawTunnel` | the raw tunnel task, the enable signal, both UART locks, sessions reduced to their use of these | |
| `RawBridge` | the host in debug mode, composed with the tunnel, and the packets that travel through both | `RawTunnel` |
| `StsBus` | one command at a time on the servo bus, in discrete time | |
| `StsCodec` | packets as bytes: the encoder, the parser of the firmware and that of the host | |
| `HostBridge` | the browser sessions, the shared bridge, the connections and the MCU's end of them | |
| `HostConfig` | PUT/GET of the configuration with its system calls and restarts | |
| `HostLog` | the log file and its archives, rotation and restarts | |
| `WifiRecord` | the record of the Wi-Fi credentials, written by the tool and read by the firmware | |
| `WebUi` | the control panel: socket, connection view, sliders, servo search | |
| `OwnershipProofs`, `ControllerServiceProofs`, `StsBusProofs`, `StsCodecProofs`, `HostBridgeProofs`, `WebUiProofs` | theorems | the module named |
| `RawBridgeProofs` | theorems about `RawTunnel` and `RawBridge` | `RawBridge` |
| `StoresProofs` | theorems about `HostConfig`, `HostLog` and `WifiRecord` | the three |
| `MCStores` | `HostConfig`, `HostLog` and `WifiRecord` side by side; a behaviour exercises one of them | the three |
| other `MC…` | what TLC needs to run the module named | the module named |

### Ownership

The owner, the transports on their way out, whether a claim is granted at once,
and how many packets each former owner sent since. No generations, no channels,
no tasks. The refinement mapping (`Board` in `ControllerService`) takes the
owner to be the session with the current generation, the leaving transports to
be those with an older one that do not listen yet, and `open` to be the negation
of `listener_required`. `Reopen` is there because of finding 1: a transport that
never owned the board opens the admission too.

### ControllerService

The firmware runs on one cooperative executor, so an action is what a task does
between two `.await`s; `pc[s]` is the suspension point of slot `s`. Two facts
about the code shape the actions. `select(handler, ownership_updates.changed())`
polls the handler first, so a superseded session whose handler can progress
does so up to its next suspension and is cancelled only then (`Suspend`). And
dropping the handler frees the UART lock, which the session takes again in the
same poll, so for other tasks the lock never was free (`Cancel`). `Listen` is
the top of `controller_service`'s loop, `Upgrade`/`ClaimRetry` contain one pass
of `ControllerOwnership::claim` each, `End` is everything after
`controller_session` returns. A bus command is the number of STS transactions it
still has to do; system.ping, the tunnel switches and bad requests are local
requests.

`stray` is a history variable: it counts packets a session sends after it lost
the board.

### RawTunnel

`enabled` and `signal` are the two cells of `RawTunnelControl`. `raw` is the
suspension point of the raw task, `ctl[s]` that of a session. `LoopTop` is the
only place where the raw task reads the flag; everywhere else it relies on the
signal. `mustClose` is a history variable.

### RawBridge

Each action of `RawTunnel` happens together with its effect on what is carried:
`up` and `pend` lead to the servos, `wire`, `back` and `down` from them to the
host. One of the sessions is the host's own, which enables the tunnel and is
then replaced by the raw connection; another controller and other raw clients
come and go. Browsers reach the connection one at a time, so that the host is
one process. `HostDialAbandoned` is an attempt of 100 ms that ends just when the
MCU accepts it. The status of a packet is known by the number of the packet,
which the code does not see: `Fits` looks at the id and the length only.

### StsBus

A frame is what the parser can tell apart (servo id, payload length, soundness)
plus, unknown to the code, which packet it answers. Time is discrete and a task
that can run does so before time passes. `Deadline` stands for
STS_RESPONSE_TIMEOUT (50 ms), `Quiet` for the 2 ms interval of
`resynchronize_uart`. `latency` says how slow the servos of the bus are: within
the quiet interval, or up to `MaxLatency`, which may exceed it. `noise` counts
the damaged frames that answer nothing since the last resynchronisation began,
because `resynchronize_uart` reads at most four times: noise can use its reads
up before the answer that it is there for arrives. `GoodBus` is what the code
needs, that servos answer within the quiet interval and that noise leaves a read
for the answer and one for what was in the FIFO. Only one command is under way
because the UART lock has one holder, which is `ControllerService!BusHolder`.

### StsCodec

A parser is a function of the bytes that arrive before its deadline.
`read_sts_status` and `read_status` are written down separately because the code
has them twice: the firmware reads a whole packet and then validates it, the
host looks at each field as it comes. The line carries noise, then one reply, of
which one byte may be changed or lost. A byte has `Modulus` values and the
arithmetic is modulo that. The checksum is the last of the prefix sums of the
bytes (`Sums`, a recursive function). `AcceptedIsSent` has two limits, both of
the code. Noise that spells the beginning of a packet can become one together
with the reply behind it. And of a reply to a write only who sent it and that it
reports no error is certain: if a servo answers a write with data, a damaged
length can make a data byte the checksum of a shorter reply, which the parsers
accept as one without data.

### HostBridge

`queue` is the tokio mutex, which is fair: its head holds the bridge. A request
carries the id of its connection and a number in the order in which the host
issued it. The MCU's end is a summary of `ControllerService`: claims are granted
in any order, only the newest session starts a request, requests of a session
run one after the other. The network may break a connection at any time. What a
dropped connection had already sent may still be delivered. The debug transport
through the raw tunnel is in `RawBridge`.

### HostConfig

`fs::write` is two system calls (open with truncation, write) and `fs::rename`
is a third. A PUT has a file open by the name it currently has, since a rename
by another PUT does not close it. The process may die between any two calls.

### HostLog

Lines are numbered as they are written and have a length: the code compares the
bytes of the open file with MAX_LOG_FILE_BYTES before it writes a line of any
length, and so does `LogCall`. A write that is refused is an action
(`WriteRefused`): the error is ignored and the line is nowhere. Each rename of a rotation and the open after it are actions;
the file system may refuse any of them, and the process may die between them.
`handle` follows the open file through its renames, as the descriptor does.
`fault` is a history variable.

### WifiRecord

The sector is erased, then the record is written cell by cell, a cell being a
field or a byte of a text. A cable pulled during the erasure leaves any part of
the old record, a cable pulled during a write leaves anything in the cell that
was being written. 0xff is what erased flash holds and no UTF-8 text contains.
FNV-1a is replaced by a checksum without collisions; `CollisionFree` says what
that means, and `MCStores` has TLC evaluate it. The firmware can start at
any moment; what it would load is `load_wifi_credentials(flash)`.

### WebUi

An action is one event handler of `app.js`. `pending` are the messages the host
has not answered yet; that it answers them one by one is
`HostBridge!EveryMessageAnswered`. `timers[j]` counts the timeouts that really
run, `queued` is the map `queuedMoves` in which the script remembers them: that
the two agree is a property, not an assumption. `released` and `lost` are
history variables. The ids of the panel's servos are taken to differ. Settings
that only accompany a command, and `saveConfig`, change nothing here.

## 3. Runs

All bounds are CONSTANTS. MaxClaims, MaxConns, MaxRequests, MaxPackets, MaxNoise,
MaxAsks, MaxWire, MaxDown, MaxLines limit the length of behaviours or of a queue
and are conjuncts of guards.

| Run | Instance | Shows |
|---|---|---|
| `controller` | 3 slots (as the firmware), 3 generations, commands of 1 transaction | the safety invariants of section 4, the refinement of `Ownership`, and the liveness of section 5 |
| `takeover_serialized` | same | finding 1 |
| `late_command` | same | finding 2 |
| `raw_bridge` | the host's session and another controller, 1 servo, messages of two writes or one read, 3 packets of the host, 1 status in the UART and 1 on the way to the host | what the tunnel and the host's debug mode promise together |
| `raw_tunnel_disconnect` | 2 sessions | finding 3 |
| `sts_bus` | 1 servo present of 2 addresses, prompt and slow buses, take-overs, 4 packets, 2 damaged frames per resynchronisation | answers are never confused and a speed needs wheel mode on a good bus; scans are sound and commands end on any |
| `sts_bus_stale` | same with 5 packets, no noise | finding 4 |
| `sts_codec` | bytes of 3 bits, 2 servos, 8 positions, up to 4 bytes of noise where 4 are searched, lengths 2 to 5 | the two parsers agree and accept neither the answer of another servo nor another position |
| `host_bridge` | 2 browsers, 2 MCUs, 2 connections, 4 browser messages, a servo message makes 2 requests | what the bridge promises |
| `web_ui` | 1 joint with 2 positions, the motor, 5 events of the user | what the panel promises |
| `stores` | 1 PUT at a time, 3 configurations; 3 archives, a limit of 2 bytes, 9 lines of 1 or 2 bytes; SSIDs of 1 to 2 and passwords of 0 to 1 bytes over 2 characters; I/O errors, crashes, pulled cables | file and memory agree, restart; logs; credentials |
| `host_config_concurrent` | 2 PUTs at a time, no I/O errors | finding 5 |

Why the bounds are enough for the cases of interest. Three slots and three
generations allow a retiring, a current and a waiting session at once. In the
raw run a message of two writes can fail at its first packet or be answered by
the status of the first at its second. Nine lines are one more than the log and
its three archives hold of the shortest ones, and with lines of one and two
bytes a file stays below its limit, reaches it exactly or passes it. The codec's noise can be shorter than, as long as and
longer than what is searched, and the positions include both ends of the range,
both sides of zero, bytes that look like a header and one that is the checksum
of a shortened reply. With Deadline 1, Quiet 1 and latencies 0 to 2 an answer can come before, at
and after each timer, and two damaged frames are as many as `GoodBus` allows. Four packets allow a failed or cancelled command followed
by a full motor.start or a scan. One joint is enough for the panel because
joints share nothing but the filter of `refreshPositions`; five events allow a
drag, a time-out, a reading, another drag and a release. Four browser messages are connect, command,
connect, command, the shortest history in which a command of a dropped
connection can overtake; two connections make both of them live on the MCU. A
servo message of two requests can fail at the first, so that it also covers a
message of one. For what section 6 proves the bounds do not matter.

Deadlock is checked in every run but `host_bridge`, where the number of messages
of the browsers is bounded, and `sts_codec`, where the line carries one reply:
both models stop when these are used up.

## 4. Safety properties

* `ImplementsOwnership`: every behaviour of the tasks is one of `Ownership`.
* `OneOwner`, `ActiveIffOwned`: one current session; `active` is exact although
  sessions release long after they were replaced.
* `HeldForRetiring`, `NoLostWakeup`: admission is held only while a replaced
  slot is on its way back, and no claim sleeps through its reopening. Together
  they are the reason why a held admission cannot be held for ever.
* `BusHolder`: the UART lock belongs to the session whose suspension point says
  so, across cancellations. (`LocksHeld`, the same for both locks of the tunnel,
  is proved.)
* `AtMostOneStrayPacket`: what remains of the exclusion between owners, given
  finding 2: at most one packet, and the UART is drained right after it.
* `NoMissedCommand`, `OwnerCommandExcludesTunnel`: the raw task never acts on a
  stale view of the flag without a correcting signal pending, and the flag
  checked before the wait for the UART still holds when the command gets it.
* `RawReplyMatches`, `RawPacketsInOrder`: raw mode has no request ids; still a
  packet sent while nothing else is under way gets its own status or none,
  whatever controllers and other raw clients do meanwhile, and the servos get the
  host's packets in order and once. The exception is finding 3: a client that
  survives a disable can be answered with the status of a controller's packet.
* `PromptRepliesMatch` (`ReplyAnswersItsPacket` on a good bus),
  `SpeedNeedsWheelMode`, `ScanSound`: see the table. That four reads are enough
  to drain the UART is part of the first: with more noise than `GoodBus` allows
  it fails.
* `CleanPipe`, `OneConnection`, `BridgeAdmitted`, `CommandsInOrder`: an idle
  bridge carries nothing stale; the host never leaks a connection (the MCU has
  three slots); connected means admitted; each MCU starts commands in the order
  of issue and none twice, across time-outs, reconnects and target switches.
* `StoredIsServed`, `RestartKeepsConfig`: with no PUT under way a restart would
  serve what is served now; a restart in the middle of a PUT yields the old or
  the new configuration.
* `KeptIsRecent`, `LogsBounded`: read from the oldest archive to the log, the
  files hold the lines in order, each once, and from the first of them on none is
  missing, after any interruption of a rotation; if there was none, they hold all
  lines or as many full files as there are archives. An archive has always
  reached its limit, and no file passes it by a whole line unless the file system
  refuses an operation. `README.md:64` of the repository has the files "each up
  to 5 MiB": the code lets a file pass 5 MiB with its last line and rotates it
  only then, so an archive is 5 MiB or, usually, a part of a line more. If the
  open after the rename is refused, the limit is lost until a restart, since
  each later rotation fails at the missing path.
* `ProvisionedLoads`, `NeverTorn`: the firmware finds what was typed, and after a
  pulled cable either nothing or one provisioning as a whole.
* `SameVerdict`, `AcceptedIsSent`, `NoiseSkipped`: see the table and, for the
  second, section 2. A reply after noise that ends in 0xff is rejected by both parsers; that is their behaviour
  and excluded from `NoiseSkipped`.
* `TimersQueued`, `ReleasedIsSent`, `DisabledNotCommanded`: every running
  timeout is one the script can still clear, and none is of a disabled joint;
  the position at which a slider was let go is the last one handed to `send`;
  no message names a servo that is disabled when it is sent.

## 5. Liveness and fairness

* `ControllerService`: `AnyClaimAdmitted`, `AnySessionReturns` (each for one
  slot, the slots being interchangeable) and `AlwaysListensAgain`. Weak fairness of what a slot does once a wake-up has
  happened or a deadline of the code has passed (handshake 2 s, status 50 ms,
  drain 4 × 2 ms, TCP timeout 30 s). Strong fairness of taking the lock and of
  listening, since other tasks can take the lock and the network can fail in
  between: holders keep the lock for bounded times and pause for the next
  request of their client. Strong fairness of the Wi-Fi connection: the retry
  loop is endless and the access point does not stay away for ever. Nothing is
  assumed of clients.
* `RawBridge`: `EnableOpens`, `DisableCloses`, `CommandGetsBus`, and
  `RawMessagesAnswered` under weak fairness of the host, whose waits all have a
  deadline. For the tunnel the same kind
  of fairness, and one assumption that the code does not secure: a write to the
  raw client ends, because the client reads or the connection fails. The raw
  socket has no timeout; this is listed as a hazard.
* `StsBus`: `CommandEnds` under weak fairness of the MCU and of time.
* `HostBridge`: `EveryMessageAnswered` under weak fairness of the host's tasks
  only. Every wait of the host has a deadline (750 ms, 20 s for a scan, 3 s to
  connect), so nothing is assumed of the network and the MCU.

* `WebUi`: `ScanEnds`. Weak fairness of the retry timer and of the
  host's answers; strong fairness of opening a socket: a host that is tried
  again and again is reached in the end.

## 6. Proofs

Every theorem holds for all values of the constants that satisfy the named
assumptions of the module it is about; a theorem that needs more says so as a
hypothesis. Each module has one inductive invariant, which TLC has checked on
the instance of its run as well, and the theorems about single properties are
its consequences.

**Controller** (`ControllerServiceProofs`). `ServiceSafety` is `Spec => []Inv`
for every finite set of slots and all bounds, from `SlotsAssumption` (the slots
are finite and `None` is none of them) and `BoundsAssumption`. The invariants of
the run are not inductive by themselves. `Bookkeeping` strengthens them: what was
announced is the epoch; a slot has a generation exactly in a session and in the
reset after it, and never one of the future; no claim has seen a listener change
of the future; a transaction is counted while it runs. `ActiveIffOwned` needs
that generations are distinct (`OneOwner`), `HeldForRetiring` needs
`ActiveIffOwned` (the replaced session really exists when a claim finds
`active`), `NoLostWakeup` needs the bound on what claims have seen, and
`AtMostOneStrayPacket` needs `announced = epoch`, so that a packet sent without
ownership is followed by a cancellation in the same poll. The actions reduce to
four shapes, one lemma each: a move within a phase of life (`MoveInv`), the end
of a session (`EndInv`), a granted or refused claim (`ClaimInv`) and listening
(`ListenInv`). `ServiceImplementsOwnership` is the refinement: the initial state
maps to an initial state of `Ownership`, and under `Inv` every step maps to a
step of it or to none. `ServiceRetires` is the safety half of
`SupersededListens`: `Polls` counts how often a replaced session is still polled
at most, four times if it waits for the UART, and each step of its own makes it
fewer, since `announced = epoch` means that whatever it does next is cancelled
at its next suspension.

**Ownership** (`OwnershipProofs`). The abstract specification keeps its promise
(`OwnershipKeepsPromise`) for every set of transports that does not hold
`Nobody`: the owner is not on its way out, a claim that is held back has a
transport to wait for, and only a transport that lost the board is late.

**Raw tunnel and debug mode** (`RawBridgeProofs`). `TunnelSafety` holds for every
set of sessions, from `PartiesAssumption` (the parties are distinct): the
conjunction of the type invariant, `LocksHeld`, `SignalAgrees` (the flag and a
pending signal agree), `NoMissedCommand` and `OwnerCommandExcludesTunnel` is
inductive as it stands. `BridgeImplementsTunnel` shows that each step of
`RawBridge` is one of `RawTunnel` or leaves it alone, so that all of this holds
with the host attached. On top of it `BridgeInv` says what is left of a message
(`PlanLeft`), where a packet can be at each suspension point of the raw session
(`Carried`), that packets under way are in the order of sending (`InOrder`) and
that while the client of a quiet packet is served nothing but this packet and
its status is under way (`OwnOnly`). `RawBridgeReplyMatches` and
`RawBridgePacketsInOrder` follow from the last two. `RawBridgeAnswersInWaits`
counts the waits with a deadline between a message and its answer.

**Servo bus** (`StsBusProofs`). The argument for `BusRepliesMatch` is that on a
good bus at most one answer is under way, that of the last packet (`OneAnswer`),
and that a resynchronisation ends with none (`DrainCatches`): an answer in flight
is due before the quiet interval ends, and the reads done so far are at most one
more than the damaged frames since it began. `BusSpeedNeedsWheelMode` needs this,
since the answer to the mode packet is what lets motor.start go on
(`ModeAnswered`), and that the speed is the last packet of the command
(`SpeedPlanned`). `BusScanSound` needs no assumption on the bus: whatever is
sound in the UART comes from a servo that is there (`FramesFromServos`).

`BusCommandTime` says when a command is over, for every `Deadline` and `Quiet`
and on every bus: `TimeLeft` bounds the time from a state to the return, it is at
most `PerPacket` for each packet to come and `Drain` for the resynchronisation of
a cancellation, no step makes it more and each unit of time uses some of it up.
Noise does not prolong it, because the reads of `resynchronize_uart` are counted
and the deadline of a packet is not moved by what arrives. `HostWaitsLongEnough`
puts the firmware's 50 ms and 2 ms in: a scan of all 253 addresses has done with
the bus within the 20 s of SERVO_SCAN_TIMEOUT, and any other command of the model,
of up to three packets, within the 750 ms of SERVO_TIMEOUT. Its second part is
arithmetic only: with the same `PerPacket` six packets, a full batch of
MAX_POSITION_BATCH, would fit as well. The time for the UART lock, for Wi-Fi and for
the bytes themselves comes on top and is not in the model.

**Codec** (`StsCodecProofs`). The two parsers are compared as functions, on every
sequence: `SameReading` says that they accept the same with the same data, which
does not depend on what the checksum computes. `HeaderAfterNoise` finds the
header, from the fact that a set of natural numbers has a least element, and
`DecodeEncoded` is that decoding undoes encoding. `CodecAcceptedIsSent` is about
the value of the checksum. `OneByteDetected` says that it notices the change of
any one byte of a packet of any length. Its induction over the length is by the
least prefix for which the claim fails, since the induction theorems of the
library cannot be instantiated; it needs that two bytes which are equal modulo
the number of bytes are equal. The invariant `CodecInv` says that the line holds
the noise and then the reply with one byte changed or lost; the proof then
follows where the header can be found (in the noise, across its end, at its
place, after a damaged header byte) and what the length field can say there.

**Bridge** (`HostBridgeProofs`). `Inv` says whose turn it is (`Turn`: only the
holder of the mutex is past it), which connection each phase works on (`Places`),
that a connection in use carries at most one request or response (`Pipe`), that a
connection waiting to be admitted was sent nothing but the ping
(`ConnectionsSound`), and that what the owner of an MCU has yet to start is newer
than all that the MCU has started (`OwnerAhead`). The last one is what makes
`CommandsInOrder` inductive: an older connection may still hold commands, but
once superseded it does not start them. On top of `Inv`, `PipeCurrent` says that
the connection of a waiting session carries nothing but the request it waits for
or its response. So `BridgeResponseMatches`: what a session receives always
answers its last request, and the comparison of ids in `controller_request` is a
second line of defence behind the rule that drops connections.
`BridgeAnswersInSteps` uses this (no response is ever discarded) to bound the
steps from a message to its answer.

**What outlives a process** (`StoresProofs`). `ConfigStoredIsServed` and
`ConfigRestartKeepsConfig` have the hypothesis `OnePut`, without which they are
false (finding 5). For the logs, `KeptIsRecent` needs where the gap of an
interrupted rotation can be (`RoomToMove`), and its last part, as long as nothing
was refused or interrupted, that there is no other gap and that nothing was lost
before the last archive was there (`Layout`). `LogsBounded` needs that only a
full file is rotated, whoever has it open (`ArchivesFull`), and that the open file
is the log and below its limit when a line is written (`LogOpen`). `WifiProvisionedLoads` is about any checksum. `WifiNeverTorn` has the
hypothesis `CollisionFree`: the invariant `Remains` says that what an
interruption leaves are cells of the older record, erased ones and one cell with
anything in it, and of such a record at most the older one has the checksum in
its fourth cell.

**Panel** (`WebUiProofs`). `TimersQueued` is inductive with the types,
`ReleasedIsSent` needs that a slider that was let go has no move queued behind it
(`NothingQueuedBehind`). `PanelDisabledNotCommanded` is about steps: what each
handler adds to the messages names enabled servos only.

Only model-checked: liveness, since fairness and ENABLED are out of the prover's
reach. `BusCommandTime`, `ServiceRetires`, `BridgeAnswersInSteps` and
`RawBridgeAnswersInWaits` are the part of it that can be stated without: that the
steps or the time left are bounded and only get fewer. That the next step is
taken is what the fairness of section 5 adds. These four, `ResponseMatches`
and the invariants that strengthen the ones of the runs were checked with TLC on
the instances of the runs before they were proved. The violations of section 7
are TLC's.

## 7. Findings

1. **Take-overs are not fully serialized** (`takeover_serialized`).
   `listener_ready` is called by every slot at the top of its loop, so a slot
   that only failed a handshake reopens admission while the replaced transport
   is still being reset. `src/controller.rs:145` says that the next session is
   granted "only when no predecessor is still returning its TCP transport to
   listening mode".
2. **A superseded session can send one packet** (`late_command`). The handler is
   polled before the ownership update. `main.rs:193` says the previous
   generation closes "before another command can run".
3. **A raw client can survive a disable** (`raw_tunnel_disconnect`). A disable
   followed at once by an enable leaves only the enable in the signal.
   `protocol/README.md:41` says that disabling closes "any active raw
   connection".
4. **A late status packet can answer the next command** (`sts_bus_stale`). After
   a take-over the UART is drained for 2 ms, while a servo may take 50 ms.
   `main.rs:1227` says that this "prevents an old STS response from being
   associated with the next local command". It does so as long as servos answer
   within the quiet interval (`PromptRepliesMatch` in `sts_bus`).
5. **Concurrent PUTs can leave the file and memory apart**
   (`host_config_concurrent`). They share `config.json.tmp`, and memory is
   updated after the file.

## 8. Not modelled

WebSocket frames and JSON as bytes; the UART FIFO below the level of frames: a
read of `resynchronize_uart` discards all frames that have arrived completely,
while the code's discards up to 64 bytes, of half a frame too;
the OLED display; start-up of the board; the panel's rendering and saving of
settings; the bench scripts. The temporary file through which the provisioning
tool hands the image to espflash. The epoch is a `u64` and is counted in Nat. A
loss of power of the host, after which a rename may precede the data it names,
is left out of `HostConfig` and `HostLog`; so are a line of which only a part is
written, and a PUT whose handler is dropped, because its client disconnects, while
it waits for the lock on the configuration in memory (`host/main.rs:538`), which
is held by others only to copy it. What the code has twice, in the firmware and
on the host, and the model once (`find_header` and the checksum of STS packets;
the limits, the magic number and the checksum of the Wi-Fi record) cannot be found
to differ by `SameVerdict` and `ProvisionedLoads`. In `RawBridge`, an enable request that
the MCU handles after the host gave it up is one of another controller.

## 9. Plan

Done: the modules above, in the order controller, tunnel, bus, bridge,
configuration, panel; then the abstract specification of ownership, the host's
debug mode composed with the tunnel, the codec, the logs and the credentials.

1. Proofs: done for the safety of all modules, see section 6. Left is the
   quantitative form of `PromptRepliesMatch`, how much noise is too much for a
   given latency.
2. `WebUi`, what is open there, each a statement of its own: `lastSentPositions`
   is set although `send` may refuse, so that a release at the same position is
   suppressed later; a reading that arrives between a drag and its timeout
   replaces the user's target; a search whose socket closes leaves the button
   disabled until the next error. And `saveConfig`, composed with `HostConfig`:
   PUTs that overtake each other.
3. The MCU end of `HostBridge` as an abstraction of `ControllerService`, and the
   sessions of `RawTunnel` replaced by those of `ControllerService`.
4. The limits of WebSocket frames as operators checked over bounded inputs.
