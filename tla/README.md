# wii32 in TLA+

wii32 lets an ESP32 talk to Wii balance boards over Bluetooth Classic: its own
HCI and L2CAP host on top of the ESP32's controller (`src/src`) and a small
library for the boards (`src/lib/wiipp`). This directory holds a specification
of that code in TLA+, the TLC runs that check it on small instances, and proofs
that TLAPS checks for every value of the constants. `PROJECT.json` maps every
definition to the lines it stands for and lists components, runs, hazards,
findings, theorems and, for every property, a wrong version of the code that
the property catches (the operators marked "deviation").

## The system

Everything the program decides happens in one task: `loop()` calls
`Wii::step()`, which calls `Impl::step()` (`esp32_bluetooth.cpp:58`). One step
hands packets of `txBuffer` to the controller as long as it takes them, then
takes one packet out of `rxBuffer` and runs its handler to the end on the packet
where it lies, listeners included. The other task is the controller's: it calls
`recv`, which waits for room in `rxBuffer`, copies the packet there and completes
the item. The handlers put packets in `txBuffer` without waiting; what does not
fit is lost and only logged. No timer exists and nothing is retried.

| component | state | operations | what makes it correct |
|---|---|---|---|
| L2CAP channels (`esp32_bluetooth.cpp`) | `connections`, `g_localCid` | the handlers of six signalling packets and of data; connect, configure, disconnect, send | both sides agree on every channel; channels get configured and closed; data goes to the right one |
| connection store (`connection_store.h`) | the vector of channels | `findLocal`, `findPsm`, `remove`, `emplace` | a lookup finds the channel of the packet's link; a miss is seen |
| HCI layer (`esp32_bluetooth.cpp`) | `initialized`, `discovered`, `connectRequests`, `nameRequests` | bring-up, scan, names, connections, pairing | records name exactly the outstanding requests; one side opens the channels of a link |
| encoding (`lowlevel_bt.h`) | none | one function per command | the command says what the function's name says |
| ring buffers (`ring_buffer.h`) | a FreeRTOS no-split ring | `allocate`, `read`, the two kinds of `RingData`, `clear` | a packet is read once, whole and in order; its memory is not used before it is returned |
| tasks and transport (`esp32_bluetooth.cpp`) | where each task is | `recv`, the constructor, `step` | neither task waits for the other for ever; no packet that fits is lost on the way to the host |
| Wii listeners (`wiipp.cpp`) | `connectedBoards` | one listener per event | a board is announced once, and found when its data comes |
| calibration (`wiipp.cpp`, `BalanceBoard`) | `queryState`, `calibration`, `referenceTemperature` | `onData`, `readCalibrationData` | the tables in use are the board's; the dialogue ends |
| weights (`wiipp.cpp`, `interpolate`) | none | `interpolate` | monotone, exact at the calibrated weights, as far as a `uint16_t` goes |
| application (`main.cpp`) | the LED | scans when Bluetooth is ready | the LED goes out when the scan has ended |

What is hard to test here: the order in which the packets of two directions,
two channels and several boards interleave; packets that are lost because
`txBuffer` is full while the state goes on as if they were sent; links that are
lost and come back while objects of the old link stay; lookups that miss; and
boards that send at a moment the code does not think of. The list, line by line,
is in `PROJECT.json` under "hazards".

## Modules

- `ConnectionStore`: the vector as operators on a sequence. A lookup returns a
  set of pointers: the first match, or, when there is none, storage past the end
  (`PastEnd`) that may read as any record of `Junk`, or no pointer when the
  vector never held an element (`grown`). `Assign` and `Remove` through a
  past-the-end pointer change no element.
- `L2cap` (extends it): one action per handler (`HandleL2ConnectionRequest`,
  ...), `Transmit` for an iteration of the sending loop, `AppDisconnect` for a
  call of `l2cap_disconnect`. A handler is the whole call, the listener of the
  Wii object and what it sends included (`Established` is the listener on
  `ACLConnectionEstablished`). The environment is external: the controller
  brings links up and loses them (`LinkUp`, `LinkLoss`,
  `ControllerDisconnects`), and a board (`PeerXxx`) answers, refuses or delays
  connection requests, configures channels, opens its own channels on a link it
  made, closes channels and sends reports once its interrupt channel is open for
  it. It sends a first configuration request for each channel once the channel is
  accepted (`PeerConfigure`), and where `Moves` has `reconfigure` more of them at
  any time until it closes the channel (`PeerReconfigure`). It answers the host's
  with one of `ConfResults`, accepted, refused or pending, and a pending answer may
  be followed by a final one (`PeerConcludes`). The host reads none of these
  results: any answer makes the channel configured, and each repeated request or
  answer for a configured channel has the board announced again. The ghost
  variables `dropped`, `pastEnd`, `wrapped` and `greeted` record what properties
  speak of (`greeted` counts the announcements of a board since it was last said to
  be gone); `crashed` stands for an exception that leaves `loop()` or a write
  through a null pointer.
- `ChannelLifecycle`: the abstract specification of channels, as their users see
  them. An identifier is handed out and never again; a channel begins without the
  other side's identifier, gets it once, gets its two directions configured in
  any order and only then; the step that completes an interrupt channel makes its
  board known to the application; channels end one by one. `L2cap` implements it
  with the identifiers below `g_localCid` for `used` and the elements of
  `connections` for `live` (`ImplementsLifecycle`).
- `Discovery`: one action per HCI event handler, with the listeners and the
  command they enqueue. The controller takes commands one by one, executes
  several at a time and ends them in any order (`ControllerEnds`); a scan finds
  one or two devices at a time, again and again; devices may connect by
  themselves, boards that a scan has found among them. A command may be lost in
  `txBuffer` or refused by the controller (`MayRefuse`; the host handles no Command
  Status event, so it sees neither), and `dropped` records both. The ghost variable
  `crossed` has the devices whose own connection and the host's to them have
  overlapped. `scanning` is the LED of `main.cpp`.
- `Queues`: the abstract specification of what lies between the handlers and the
  controller: a queue each way, one that loses only packets that never fit, and
  one that loses a packet only while others wait.
- `RingBuffer`: the ring as operators on the sequence of its items, each with the
  units of memory it takes. `Places` says where the next item goes: after the last
  one, or at the start of the memory when it does not fit before the end.
- `Transport` (extends it): the two tasks. `recv` is four steps (`Calls`,
  `Acquires` or `Drops`, `Copies`, `Completes`), between any two of which the
  host's task may run; the host's task is the constructor (`Registers`, `Resets`),
  the sending loop (`Transmits`, `EndsSending`), the read (`Reads`,
  `ReadsNothing`), the packets that a handler makes (`Puts`) and its end
  (`Returns`). `memory` holds what was copied to each unit, so that a packet
  overwritten too early would be seen. It implements `Queues`
  (`ImplementsQueues`): a waiting packet is what the memory of a completed item
  holds.
- `Calibration`: the dialogue by which one `BalanceBoard` reads the calibration,
  one action per case of `readCalibrationData`, and `Weigh`. The blocks of the
  board's memory are names, so that `calibration` holds where its entries came
  from. Constants say what may go wrong (`Faults`).
- `Weights`: `interpolate` on a calibration and a report, with the rounding of
  single precision after each operation and the cut to whole grams, and the
  narrowing of its `int32_t` (`weights`) to the 16 bits of a field of
  `BalanceBoardData` (`out`, what the application gets). Above 65535 g `out` starts
  again at 0. A float is a
  quotient of integers, rounded to `Precision` bits above or below the point;
  what the conversion of an infinite or undefined quotient gives is left open.
- `MCL2cap`, `MCDiscovery`, `MCWeights`: instances for TLC.
- Theorems and lemmas: `CommonLemmas` (what adding to a queue and taking from it
  leaves, the least of some numbers), `CalibrationProofs`, `DiscoveryProofs`,
  `TransportProofs`, `WeightsProofs`, and for `L2cap` three modules, each
  extending the one before: `L2capProofs` (types, the store), `L2capNamesProofs`
  (what each kind of step does to the sets of packets and channels, then
  identifiers as they travel) and `L2capProtocolProofs` (the two sides of a
  link).

`L2cap` takes links that are up as its input and `Discovery` ends where they
are: the listener on `HCIConnectionEstablished` appears in both, as the opening
of the channels in `L2cap` and as the decision to open them (`opens`) in
`Discovery`. Both take `rxBuffer` and `txBuffer` as sequences, which is what
`Transport` shows of them. `Calibration` takes the interrupt channel as two
queues, whose losses are those that `L2cap` shows (`dropped`), and `Weights`
takes the calibration as whatever the board's memory holds.

Left out everywhere: identifiers of signalling packets (never compared), the
mtu (stored and echoed), lengths, names, log messages, and the bytes of data.

## Runs

| run | shows |
|---|---|
| `l2cap_one` | one board that refuses and delays connections and the host's configuration, repeats its own requests in either form, closes, is lost and comes back: `CidAgreement`, `ConfigExchanged` (what a channel that counts as configured still stands for: both sides have sent their request and the board has answered the host's, in whatever way), `RightChannel`, `NoUncaught`, `NoPastEnd`, `ConnectedOnce` (at most one announcement more than the board has repeated, closed or lost), and the refinement `ImplementsLifecycle` |
| `l2cap_two` | two boards, also with channels that the host refuses: `UniqueLocalCid`, the reason why a lookup by local identifier may ignore the link, `NeverReused`, the reason why a late packet cannot be taken for one of a later channel, and across links `CidAgreement` and `OthersUndisturbed` (a channel leaves the store only by a packet of its own link that names it) |
| `l2cap_live` | a willing board: `ChannelsOpen`, `PeerCloses`, `DisconnectEnds` under fairness, with the application or the board closing a channel, and the agreements and the refinement in that case |
| `discovery` | failing, refused and lost commands, and devices that call, a board that scans find among them, before the host connects to it, meanwhile, or after its connection has failed: `NoThrow`, `ScanWhenConfigured`, `RequestsOutstanding` and `OneOpenerInOrder` (one side opens the channels of each link, unless the two connections overlap or a command was lost or refused), and `ScanEnds`, `BoardsOpened`, `PairingEnds` under fairness |
| `calibration` | refusing boards, lost reports, links that come back between or during dialogues: `CalibratedTruly`, `RequestPending`, `ReadsPermitted`, each unless a read of the calibration was refused or a link came back in mid-dialogue (`Undisturbed`), and `QueryEnds`, `Calibrates` under fairness |
| `transport` | two tasks and two small rings: the refinement `ImplementsQueues`, with its liveness (every packet that fits gets handled, every waiting one gets sent), and `RecvReturns` |
| `weights` | every calibration of a sensor by ten points and every reading: `Accurate` (exact at 0, 17 and 34 kg, elsewhere off the lines by a gram and five times a float's last bit at most) and `Monotone`, both of what the application gets and as long as a field has room for the weight (`Roomy`, always so up to 34 kg), and for points in any order `Fits` (what `interpolate` returns is in the range of `int32_t`) |

Five runs end in a violation; each shows that the code does not do what a
comment, a name or a message of the repository says:

| run | what the code does |
|---|---|
| `l2cap_wrong_channel` | `findPsm` compares the handle with itself: with two boards, data for the second goes to the identifier of the first |
| `l2cap_past_end` | a lookup that misses is not seen as a miss: after the board has closed a channel, closing it from the application reads past the vector's end |
| `discovery_stranger` | the command that rejects a device has the operation code of an acceptance |
| `discovery_collision` | a device that connects while the host connects to it: the accepted link counts as the host's and both sides open channels |
| `calibration_unsolicited` | any report becomes calibration data in the last three cases of the dialogue |

More of the kind came up and is listed under "hazards" without a run: channels
and board objects that outlive a lost link, boards that are announced again
after they closed and opened their channels or repeated their configuration,
channels that count as configured although the board has refused, the record of
a connection request that was lost or refused, which makes a link accepted later
count as the host's, weights above
65535 g that start again at 0, an answer to a name request that throws when the
application scans twice, and data sent on a channel that the host has asked to
close. No document of the repository says what should happen in these cases.

### Bounds

The rings hold one or two packets for `rxBuffer` (`RxCap`) and five or six units
for `txBuffer` (`TxCap`, in the units of `Size`: a signalling packet is about
twice as long as a command or a report), small enough that a handler finds
`txBuffer` full (its largest burst, on a link that the host made, is five units)
and that the controller waits. `AirCap` bounds what the controller has yet to
deliver. `MaxOpens` bounds links and channels started by boards: four are a link
and three channels, or two links and two channels; `MaxMoves` allows one closing,
loss or repetition at any moment, and a link that was lost may come back
(`relink`, not counted as a move). A handle is given again only when nothing of
the old link is on its way: the host has to handle the loss and to accept or ask
for the new link first. Two channel identifiers per board suffice for the
two HID channels and for the use of an identifier again. Two boards suffice for
what ignoring the handle can do: a lookup confuses two channels at a time. In
`Discovery` two boards, a remote and a stranger cover the four ways a device is
treated; `TxCap = 2` lets commands get lost when several devices are at work, and
one call at any moment, by a board that scans find, a remote or a stranger, meets
the host's own connection to the same board or to another at each of its points.
In `Calibration` three status reports allow a dialogue to be refused and started
again, twice.

In `Transport` the ring for the host has five units and packets of one, two and
three: items of two wrap around over an item of one, and three is too long. Three
packets each way suffice for one that is filled, one that waits and one that is
handled. `QueuesImplemented` (below) does without these bounds.

`Weights` has floats of 14 bits, readings of 5, 50 units to a kilogram,
integers of 15 bits and a sign and fields of 11 bits in place of 24, 16, 1000, 31
and 16: weights above 41 kg wrap around, in the code above 65 kg; slopes of up to 10
bits have few left for their fraction, which is where rounding can do harm, and
the largest weights have more bits than a float, as in the code, where that is so
above 16.7 t. `WeightsAssumption` states what the code's constants and these have
in common: 17 times a reading and the grams of 34 kg are floats, a field has room
for these grams, and the largest weight there can be is not above the largest
float that fits `int32_t`.

The system may come to rest once the bounds are reached, so the runs do not
check deadlock; that it does not rest too early is what the liveness properties
say.

### Fairness

`loop()` calls `step()` for ever: weak fairness of the handlers and of the
sending loop. The controller takes packets in the end: weak fairness of
`Transmit`. The boards and the controller answer what they are asked: strong
fairness, since other packets compete with their answer for `rxBuffer`, whose
waiting sender FreeRTOS serves in turn. Nothing else is fair: links need not come
up, scans need not find anything, boards need not close channels or send reports.
Each liveness property excuses the losses the code does not repair (`dropped`,
`lost`), the failures it cannot help (`failed`, `refused`) and a link that is
gone.

In `Transport` the two tasks run, so `recv` (`Receive`) and the host's steps
(`Setup \/ Step`) are weakly fair: FreeRTOS schedules both, and handlers end,
since none loops. The controller takes packets again and again (`Transmits`,
strongly fair), but not while its own task waits in `recv`; the host may leave
the sending loop at any moment, which is why weak fairness would not do.

## Proofs

Types, every invariant that holds of the host's protocol and two refinements are
proved for every value of the constants: any number of boards, devices and
packets, any sizes of the rings. Each invariant below was checked by TLC before
it was proved.

### L2CAP

All of it rests on `ConstantsAssumption` and `JunkAssumption`, which TLC
evaluates in the runs of `L2cap`; storage past the end may read as anything.

`L2capProofs`:

- `TypeCorrect`: `Spec => []TypeOK`. Beyond types this says that the store holds
  only channels although handlers write through past-the-end pointers, that the
  identifier counter stays within 16 bits, and that the rings the controller
  fills keep their bounds. One lemma per operator (`PointersType`, `RemoveType`,
  `EstablishedType`, ...), then `HandlersType`, `HostStepsType`, `LinksType`,
  `PeersType` and `PeerReplyType` for the actions.
- `UniqueLocalCidHolds`: `Spec => []UniqueLocalCid`. That no two channels have
  the same local identifier is not inductive: a new channel could have the
  identifier of one in the store. The invariant `CidInv` adds `CidsBelow`: until
  the counter wraps, every identifier in the store is below it. `AssignCids`,
  `RemoveCids`, `EmplaceCids` and `Emplace2Cids` show that each way in which the
  store changes preserves it, and `OthersKeepStore` that nothing else writes
  the store.
- `NeverReusedHolds`: `Spec => NeverReused`. The same lemmas say of each step that
  an identifier in the store was there before, or is not below the counter before
  the step (`CidStep`).

The theorems that follow have two hypotheses. The application closes no channel
(`"appDisconnect" \notin Moves`): nothing in the repository calls
`l2cap_disconnect`, and with an application that does, `NoPastEnd` is false (run
`l2cap_past_end`). And `g_localCid` has not wrapped around (`~wrapped`): after
65472 channels identifiers are given again, zero included, which is the identifier
that marks a channel as not yet connected.

`L2capNamesProofs`:

- `OthersUndisturbedHolds`: a channel leaves the store only by a packet of its own
  link that names it. `findLocal` ignores the handle, so this is a matter of what
  packets may name. `NamesInv` follows an identifier from the store into what the
  host sends, into the end that a board binds to it, and into what the board sends
  back: at each place it was handed out on the present link, and a channel that
  has it now is one of that link (`Issued`).

`L2capProtocolProofs`:

- `NoUncaughtHolds` and `NoPastEndHolds`: no exception leaves `loop()`, no lookup
  misses whose result a handler uses, with boards that send reports only once
  their interrupt channel is open and no signalling that the host has no handler
  for but a reject (what others would do is under "Not modelled"). That data finds its board in
  `connectedBoards`, or that a response finds its channel, depends on everything
  that both sides did before. `ProtocolInv` says it link by link, as a relation
  `Protocol(R, O, K, P, L)` of the packets from and to the board, the host's
  channels, the board's ends and whose link it is: for each kind of packet on its
  way what must be true of the channel and of the end that it is about, for each
  state of an end what has been sent and what is known at the host, and for each
  channel which end is bound to it. `Orders` says which packets may come before
  which in the queues (nothing that names a channel comes after the request that
  closes it, no data before the answer that completes the configuration),
  `Boarded` that a board with a configured interrupt channel is in
  `connectedBoards`. The lemmas about `Protocol` speak of no variables: each
  says that one step of one side keeps the relation, one part of it at a time.
  What a handler, a board or the controller does is then shown to be such a
  step, on its own link (`LinkAt`), and to leave the other links alone.
- `CidAgreementHolds`: from the part `ChannelsBound` of `Protocol`.
- `ConfigExchangedHolds`: with `Confirmed`, which follows the host's answer to a
  configuration request until the board has it; only as long as no packet was
  lost in a full `txBuffer`, as the property says. Boards may refuse: what is
  proved is that the exchange took place, not that it ended well.
- `ConnectedOnceHolds`: by counting (`Tally`). An interrupt channel is announced
  by each packet that configures it once it is configured in one direction, so a
  board's first request and first answer announce it once, and each further packet
  once more. `Tally` adds the announcements made, the packets of this kind on their
  way to the host and those that the board has yet to send without spending
  anything, and shows the sum to be at most one more than the board has spent
  (`moves`), and one more again while the channel has neither direction configured
  (`Spare`), since the first such packet announces nothing.
- `RightChannelHolds`, for one board (`\A g, h \in Handle : g = h`): with several
  it is false (run `l2cap_wrong_channel`), since `findPsm` compares the handle with
  itself. It says nothing while a channel of an earlier link is in the store
  (`Current`), which `findPsm` would find first. `Addressed` says of data on its way
  that it goes to an end that the board has not closed and that has the PSM, and `AllowedData` that no answer to that end's closing comes
  before it, after which the board could use the identifier for something else.
- `LifecycleRefined`: `Spec /\ [](~wrapped) => ImplementsLifecycle`. One lemma
  per handler names the step of `ChannelLifecycle` that it is; the ones for
  responses need that the channel found has not got what the response brings,
  which is in `Protocol`.

### Discovery

`DiscoveryProofs`, under `DiscoveryAssumption`:

- `TypeCorrect`, `NoThrowHolds` and `ScanWhenConfiguredHolds`, without further
  hypotheses. `NoThrow` (an answer to a name request finds its record) is about
  one handler, but the record is there only because each device is at most at one
  place of the protocol at a time. `Inv` says so (`OneStep`: at most one command
  of a device, and one of the bring-up, is in `txBuffer`, in execution or answered
  in `rxBuffer`), together with what each command and event presupposes
  (`CommandOk`, `EventOk`), that what a scan finds is handled before its end
  (`ScanResults`), and that a device that is somewhere is in `discovered`
  (`ThreadsKnown`).
- `RequestsOutstandingHolds` and `OneOpenerHolds` (of `OneOpenerInOrder`), without
  further hypotheses, for devices that both are found and call as well. The
  properties say when they hold: no command was lost or refused, and of the device
  in question no connection of its own has overlapped the host's (`crossed`). Both
  exceptions are needed: the second by the run `discovery_collision`, the first
  since nothing takes back the record of a request that was lost or refused (hazard
  at `esp32_bluetooth.cpp:308`). `LinkInv`
  adds whose link each command, event and entry of `opens` is about, and, for the
  devices that these exceptions leave (`Apart`), that a device is in
  `connectRequests` while the host connects to it and is not while the host
  accepts a link of its own.

### Calibration

`CalibrationProofs`, under `CalibrationAssumption`:

- `TypeCorrect`, without further hypotheses.
- `CalibratedTrulyHolds`, `RequestPendingHolds` and `ReadsPermittedHolds`, as long
  as no read of the calibration was refused and no link came back in mid-dialogue
  (`Undisturbed`, in all three properties; `RequestPending` also excuses losses), for
  boards that send nothing unasked during a dialogue (`"unsolicited" \notin
  Faults`; otherwise `CalibratedTruly` is false, run `calibration_unsolicited`)
  and whose reference temperature is not 0 (such a board never counts as
  calibrated; see the hazard at `wiipp.cpp:179`). `readCalibrationData` does not
  look at which block an answer carries in its last cases; that the tables are
  right rests on there being one request or one answer on its way at a time, and
  on which it is. `DialogueInv` says this for every state of the dialogue:
  `OneRequest`, `OneAnswer`, `AnswersFit`, what the board still has to be sent or
  has sent before (`Quiet`, `QuietAfterAck`, `ModeSetBetween`, `WeightsWeighed`),
  and what has been read so far (`ReadSoFar`).

### Transport

`TransportProofs`, for rings of any size, any packets and any number of them:

- `TypeCorrect`: `Spec => []TypeOK`, which includes that items lie within the
  memory of the rings.
- `QueuesImplemented`: `Spec => Q!Spec`, the safety part of `ImplementsQueues`.
  Packets are handled whole because the units of two items never overlap, which
  is not inductive by itself: where the next item may go depends on where all
  the others are. `Ring` says it as seen from the oldest item: an item that
  wrapped around ends before the oldest begins (`Fits`), and of two items the
  later one has wrapped around or lies after the earlier (`Follows`).
  `RingAcquire` and `RingReturn` show that the two ways in which items change
  keep this, the second from the point of view of a new oldest item, and
  `RingDisjoint` that it keeps units apart. `Inv` adds what the two tasks know of
  the ring between their steps: the item that `recv` fills is the last one and
  not full (`FillingItem`), every other is (`AllFull`), what was copied is still
  there (`CopiedWhole`), and the item that a handler runs on is the oldest
  (`HandlingItem`). Each step is then a step of `Queues` (`CompletesDelivers`,
  `DropsDelivers`, `ReturnsHandles`, `EnqueuesPuts`, `TransmitsSends`) or changes
  no queue (`AcquiresStutters`, `CopiesStutters`, `Stutters`).

They rest on `TransportAssumption`, evaluated in the run `transport`: sizes are
positive, and what handlers put fits in an empty `txBuffer`.

### Weights

`WeightsProofs`, for every precision, width, range of readings and number of
grams that `WeightsAssumption` allows, the code's among them, for every
calibration and any reports: `TypeCorrect`, `MonotoneHolds`, `AccurateHolds` and
`FitsHolds`. They have no further hypotheses, but order and nearness are claimed
only where a field has room for the weight (`Roomy`): `RoomFacts` shows that it
has for every reading up to the one at 34 kg.

The inductive invariant (`IInv`) is short: the types, that each weight is what
`interpolate` makes of its reading (`Weighed`), and that `out` is what the fields
keep of it. What takes work is
`interpolate`, whose floats are numbers that are rounded three times. The lemmas
go up in levels:

- Powers of two. `2 ^ n` is an operator of the prover without laws; the library
  knows it as the number of subsets of a set of `n`, and `PowerDouble` follows
  from a bijection between the subsets with and those without the last element.
- Rounding to an integer, ties to even: within a half (`RoundFacts`), keeps the
  order of quotients (`RoundOrder`), and does nothing to integers (`RoundExact`).
- Rounding to a float. `NearestUp` and `NearestDown` find the scale, as the least
  of those that are large or small enough, so that `CHOOSE` in the model has a
  value; `RoundsOrder` shows that the order is kept also when two numbers
  have different scales, whence `FloatOrder`, `FloatBounds` (rounding passes no
  integer of at most `Precision` bits) and `FloatNear` (it adds two units in the
  last place to an error at most).
- The operations: each has these three facts for the numbers that it can meet.
  They make up those of the two lines, `FirstFacts`, `SecondFacts`, `LinesOrder`,
  `FirstNear` and `SecondNear`; the lines meet at 17 kg, exactly, which is why
  `Monotone` holds from one to the other.
- Range. A second line may fall, if the entries of the calibration are out of
  order; 17 less a slope is then a float or the opposite of one (`PlusNegative`).
  The largest weight is not an integer of `Precision` bits any more, so that
  rounding could pass the end of `int32_t`; it does not pass the largest
  float below it (`FloatWide`, `TimesRange`).

### Only model-checked

- Liveness and the fairness of `Queues`: out of the prover's reach.
- The agreements of `L2cap` with an application that closes channels (run
  `l2cap_live`), or after `g_localCid` has wrapped, which no run reaches.

## Plan

Built in this order, by weight in the program: the store and L2CAP, their first
theorems, discovery, calibration, channels and links that come back with
`ChannelLifecycle` and `NeverReused`, the rings and the two tasks with their
theorems, weights; then the proofs about calibration, discovery, up to the
refinement of `ChannelLifecycle` L2CAP, and weights. Left to do: applications
that close channels of a single board, that is, `Protocol` with channels that the
host closes, where `findPsm` can find no other board's.

## Not modelled

- Byte layouts of commands and packets, signalling identifiers, the mtu, log
  messages: formatting that no property speaks of.
- A board's signalling other than that for channels (echo and information
  requests), which the host takes for data: one that comes before the board is
  known makes `connectedBoards.at` throw, as a report would.
- An application that scans again, or that closes channels in the runs that check
  `RightChannel`; see the hazards at `esp32_bluetooth.cpp:192` and `:591`.
- `RingBuffer::clear`, which nothing calls; `bluetooth.h` and
  `esp32_bluetooth.h`, which only declare; `log.h` and `utils.h`.
- The FreeRTOS ring's own code, the controller's firmware and the radio, which
  are modelled by what the code in `src/` relies on.
