# A model of the CAN bridge and its clients

This directory holds a TLA+ model of the ROS-to-CAN bridge in this repository:
specifications, TLC configurations that check them on small instances, and
proofs that hold for every value of the parameters. `PROJECT.json` lists the
runs, the source lines each definition stands for, the hazards and the theorems.

## 1. The system

A computer runs ROS nodes. `can_talon_srx` (one node per motor controller)
publishes CAN frames on the topic `CANSend` and reads received ones from
`CANRecv`. `ardu_can_bridge_node` carries both over a USB serial line to an
Arduino, whose sketch `CANBridge.ino` drives an MCP2515 CAN controller.

| Component | State | Operations | Talks to |
|---|---|---|---|
| Sketch `src/arduino_stuff/CANBridge/CANBridge.ino` | table `txarr` of ten periodic frames, `keepalive`, ring of 20 received frames, `stream`, `send2hostonce` | one pass of `loop()`: a command byte (`d`, `r`, `q`, `w`, `g`, `h`, `?`, `.`, or a frame), a frame from the CAN controller, the periodic frames, a frame to the host; reset by the watchdog | serial line, CAN controller |
| Bridge node `src/src/ardu_can_bridge/src/ardu_can_bridge_node.cpp` | `transmittingCAN`, `usedIndex[50]`, packet counts, `rxData`, the callback queue | poll, read and publish; on a timeout run the `CANSend` callbacks, each of which writes a frame and waits for its answer, up to five times; shutdown | serial line, topics |
| Serial protocol | bytes under way in both directions | write, read, overflow, loss, damage | sketch, node |
| Talon node `src/src/can_talon_srx/src` (`CANSessionMux`, `CtreCanNode`, `test`) | `receivedCAN`, `_rxRxEvents`, `_txJobs`, `_sigs`, `_can_h` | eleven command topics, `getParameter`, the loop over the getters | topics, from two threads |
| Class `CanTalonSRX` | the control frame in `_txJobs`, `_sigs` | setters over bit fields, getters over split fields, parameters in fixed point | the Talon, through the bridge |
| PDP class and node `src/src/can_pdp/src` | `receivedCAN`, caches | getters over split fields, two control frames | topics |
| MCP2515 driver `mcp_can.cpp` (three identical copies) | `m_nRtr` and the rest of one message, the controller's buffers and registers | `begin`, masks and filters, send with two timeouts, read | SPI |
| Echo test `checkSerialGoodness.cpp`, `echoserial.ino` | the byte that counts up | write, read one byte with a timeout, compare; echo | a serial line |
| CRC-8 tables | none | generated by pycrc | sketch, node |
| Other tools of `CANBridgeTest`, `readCANbus`, message definitions, build files | | manual test tools and declarations | |

What is hard in it:

* two programs with timeouts of their own on one unreliable line: late answers,
  retries of frames that were accepted, polls answered after the poller gave up;
* three records of "who transmits what" that must agree: `transmittingCAN`,
  `usedIndex` and the sketch's `txarr`;
* a dead man's switch that must work however the host dies, and must not be fed
  by rubbish on the line;
* a ring with a reader, a writer that may lap it and a step back;
* callbacks that only run when the line falls silent;
* resets: the watchdog at any moment, and the board whenever the port is opened;
* in the Talon client, a map written by one thread and read by another, and a
  service that sleeps in the thread that would receive its answer;
* a CAN controller that receives and sends between any two SPI transactions of
  the driver, and goes on while the processor restarts;
* signals cut into bit fields of odd widths, signed, scaled by flags, in fixed
  point, and answers to parameters that overwrite each other.

What makes each part correct is stated as properties below; the hazards with
their lines are in `PROJECT.json`.

## 2. Modules

    FrameWindow <= RxRing <- CANBridge --.
                              SerialLink  +- BridgeSystem
                              BridgeNode -'
                                    (topics CANSend, CANRecv)
                     TalonClient              the Talon node and its threads

    parts looked at by themselves, for sequential code or narrow interfaces:
      MCBoard    RxRing    McpRegs <- McpSetup    CanPort <= McpCan    EchoCheck
      MCDevices  TalonControl    TalonStatus    TalonParams    PdpNode

An arrow is EXTENDS or INSTANCE; `<=` is a refinement.

* **`RxRing`**: the ring of received frames (`CANBridge.ino` 124-128, 162-173,
  305-318, 347-356). `Put`, `Take`, `Rewind` and `Reset` are the code's four ways
  to change its indices. A frame is its ordinal since start-up; the sketch's
  `packetcount` is that ordinal modulo 256.
* **`FrameWindow`**: the abstract specification: so many of the newest frames are
  waiting, and the oldest of those goes next. `RxRing` implements it
  (`WindowSpec`, with a refinement mapping from the two indices).
* **`SerialLink`**: the bytes on the line as tokens, one per run of bytes the
  receiving code tells apart: a command; a frame's size, its remainder, its
  checksum; an answer; a received frame's size and packet count (which its
  checksum does not cover), and its checked remainder; noise of a known length.
* **`CANBridge`**: the sketch. `pc` names the part of `loop()` that is next. One
  action per command, one for each verdict on a frame, then `Receive`,
  `Periodic`, `ToHost` or `NothingToHost`; `Watchdog` is the reset after a second
  without `wdt_reset()`. Alone, it faces any host (`HostSends`) on any line.
* **`BridgeNode`**: the node. `npc` names the place of its one thread:
  polling (`PollSketch`, `SkipPoll`), reading (`ReadGood`, `ReadBad`,
  `Timeout`), the callback (`SendNew`, `SendRefused`, `SendHeld`, `WriteFrame`,
  `ReadAnswer`, `AnswerTimeout`), `CallsDone`. `Publish` is another node's
  message, at any time. Alone, it faces a sketch that answers anything.
* **`BridgeSystem`**: both joined by the two receive buffers, with line faults,
  the node's death (`Shutdown`, `Crash`, even between two writes of one frame)
  and its restart, which resets the board too.
* **`TalonClient`**: the node that speaks for one Talon, on the other side of
  the topics. `spc` is the spinner thread, which takes one callback after
  another from the global queue: `RunSetter` for the eleven command topics (read
  the frame kept in `_txJobs`, write some fields, flush), `RunConfigure`,
  `RunAsk` and, after its sleep, `AnswerAsk` for `getParameter`, `RunReceive`,
  `StoreFirst`, `StoreSecond` and `StoreResponse` for a received frame. `mpc` is
  `main()`, which runs one getter after another: `FindFrame` and `CopyFrame`, or
  `MissFrame`. Both use `receivedCAN` without a lock, so a frame is two halves,
  copied one by one, and an entry that is being inserted may be missed, found
  empty or bring the process down (`Fault`). ROS, the bridge and the Talon are as
  the code uses them: subscription queues that drop the oldest message and give
  its place to the new one, a publisher nobody listens to before `Connect`, a
  Talon that obeys control frames and answers parameters.
* **`McpCan`**: the driver in use and the controller. `pc` is the next SPI
  transaction: `EnterNormalMode` after setup; `ReadStatus`, four `Copy...` and `ClearFlag` for `readMsg`;
  `SetMsg`, `NextFreeTXBuf`, three `Write...`, `StartTransmit` and `WaitSent` for
  `sendMsg`. The controller receives into two buffers with rollover (`Arrive`) and
  sends from three in any order (`Transmit`) between any two of them. `Restart`
  is the watchdog's reset of the processor alone: memory is gone, the controller
  goes on until `ResetChip`. **`CanPort`** is what both promise together: a
  mailbox and a pool, frames whole and at most once; `McpCan` implements it.
* **`McpSetup`**: `begin()`, called until it succeeds, `init_Mask` and
  `init_Filt`, where any change of mode may turn out not to have happened.
  **`McpRegs`** has the two encodings it writes: identifiers in four registers
  with their inverse, and the table of bit timings with what the controller makes
  of one.
* **`TalonStatus`**: six status frames with their bit fields, every getter that
  takes them apart, a Talon that packs its quantities into them, and a spinner
  that may store another frame between two reads of one getter.
* **`TalonControl`**: `CONTROL_1`, all its setters, `Set()` in tenths and the
  `SetModeSelect` of two arguments; a Talon that reads the frame last flushed.
* **`TalonParams`**: `SetParam`, `GetParamResponse`, `RequestParam` and the calls
  built on them, `SetStatusFrameRate` and `ClearStickyFaults`; frames under way to
  a Talon that answers; one entry for the last answer; the 10.22 and 0.8 formats.
* **`PdpNode`**: the class `PDP` and the loop of its node. `NodeNext` is the node
  as it stands, which never spins; `SpinNext` is any node that uses the class and
  spins now and then (or never), which is what is checked. Two panels share the bus.
* **`EchoCheck`**: the host's test program, the echo sketch, a line that is faulty
  both ways.
* **`RxRingProofs`, `SerialLinkProofs`, `CANBridgeProofs`, `BridgeNodeProofs`,
  `BridgeSystemProofs`, `TalonClientProofs`**: the theorems of the module they
  are named after. **`BoardProofs`** has those of `McpCan`,
  `McpSetup` and `EchoCheck`, **`DeviceProofs`** those of `TalonControl`,
  `TalonStatus`, `TalonParams` and `PdpNode`. **`MC*`**: the instances for TLC. `MCBoard` and
  `MCDevices` hold modules that share no state:
  a variable `part`, chosen in the initial state, says which of them runs in a
  behaviour, so the states of a run are the sum of its parts, not their product.
  `MCBridgeFrames` and `MCBridgeFair` run `BridgeSystem` in two surroundings each,
  in the same way.

Definitions called "a bug" are not part of any specification: each is a
plausible mistake in the definition after it, listed in `PROJECT.json` as a
mutant, and shows that the property it is paired with would notice it.

### Abstractions

* The checksum detects every damaged frame; payloads and identifiers are opaque.
* All frames of a model have one size byte, and `RestBytes` (17 in the code) is
  scaled to 1 or 2: what matters is that bytes meant as one thing are counted as
  another, and the remainder of a frame is longer than its other parts.
* Noise is read as any command, a right or wrong size byte, or nothing.
* Frames on the line are whole tokens: a fault loses or damages a token, not one
  byte of it; a killed node leaves a frame cut between two of its writes.
* Receive buffers hold `InCap` and `OutCap` tokens; what does not fit is lost.
* In the sketch the packet count is unwrapped (the ordinal), bounded by
  `MaxFrames`; the node sees it modulo `CountMod`.
* `silent` and `polled` (sketch), `published` (node), `accepted` and `disturbed`
  (system) are history variables: no guard reads them. `disturbed` says that
  something has kept frames from being handed on one by one: the ring or the host's
  buffer overran, the line failed, the sketch started again, bytes failed the check,
  two answers were read in the place of size and packet count, or bytes of a frame
  in the place of an answer. The node's restart, with the board's, clears it.
* `tmp`, which the callback never initialises, starts as any of 6, 21 or another
  byte. `rxData` keeps what the last read left; of late answer bytes read over it,
  one takes the place of the size, the second that of the packet count
  (`AsSize`, `AsCount`), and neither is under the checksum.
* `g` takes the MCP2515 out of normal mode and back (ino 184-194). The model keeps
  its text: frames the bus brings meanwhile never reach the sketch, and the change
  back is taken to succeed.
* `millis()-periodicMessageLastMillis >= 10` (ino 347) holds from 10 ms after
  start-up on, as the variable is never assigned; it is left out.
* A command to the Talon is its topic and its number there, and a field of the
  control frame holds the command that wrote it last. Topics go by the name of
  their callback; four are subscribed under other names (`test.cpp` 102-105).
* A status frame is its number. 0 stands for bytes that are no frame: zeroes, or
  what the caller's buffer held when an entry without bytes was copied. `Junk` is
  the parameter value made of the indeterminate `_msgBuff`.
* The clock of `GetRx` is number 2, the processor time of the process, so a
  `Tick` may leave it alone. Time does not pass inside a getter.
* `count`, `reports`, `sets`, `asked`, `missed` and `silent` (Talon client) are
  history variables; guards read them only to bound the traffic.
* In `McpCan` identifier, length and data of frame n all read n, so parts of two
  frames are told apart; the DLC is at most 8. One SPI transaction is one step.
* The controller is as its data sheet and the driver's use of it have it;
  whether a received frame matches the filters is left to it.
* In `TalonStatus` a frame is a function from its bit fields to their values:
  their places in the eight bytes are between the compiler and the Talon. All
  bits that are not the quantity's read 0 or read 1 together. Degrees, volts, amps and
  watts are linear functions of the number that is modelled, joules of its product
  with the time of the same frame (`PDP.cpp` 182), which `PdpNode` keeps.
* In `TalonParams` a byte has `Base` values, 8 in the runs in place of 256. A
  number is so many units of which `One`, 8 in the runs, make 1.0; a gain's word counts steps
  of two units, so that arguments lie between two steps and are cut towards zero
  (`Trunc`). A call that takes an int is given an int. Converting a `double` that no int
  holds (a feed-forward gain of 512.0, a ramp beyond measure) gives the smallest
  int or, when the compiler folds it, the largest. `Junk` is as in the Talon client.
* In `PdpNode` the clock of `GetRx` is abstracted: a frame found before, and not
  in `receivedCAN`, may or may not be too old.
* The index of a frame lies in the table (`IndexAssumption`). The sketch does
  not check it (ino 251); that the node never writes one as large as the number
  of identifiers is `IndexFits`, proved below. With more than ten identifiers the
  assumption is not met by this code: the node has 50 indices.

## 3. What the runs check

| Run | Module, configuration | Properties | Shows |
|---|---|---|---|
| `sketch` | `MCCANBridge` | `SketchTypeOK`, `DeadMan`, `LoopGoesOn` | any host, a lossy and garbling line |
| `node` | `MCBridgeNode` | `NodeTypeOK`, `IndexOwned`, `NewIndexIsLow` | any sketch |
| `bridge_table` | `MCBridgeSystem`, `MCBridgeTable` | `TableAgrees` | registrations, releases, death and restart |
| `bridge_frames` | `MCBridgeFrames` | `GapNoticed`, `PublishedInOrder`, `SolicitedOnly`, `AlonePublished` | received frames: overruns, and among `CANSend` messages |
| `bridge_fair` | `MCBridgeFair` | `CallbacksRun`, `OwedOnlyFalls`, `SilenceAfterDeath` | a bus that never falls silent; a line fault and the node's death |
| `client` | `MCTalonClient` | `ClientTypeOK`, `NoHalfCommand`, `LastOfTopicWins`, `StatusNeverOlder`, `SettledAnswer`, `StatusFollows` | the Talon node's two threads |
| `board` | `MCBoard` | `RingContents`, `WindowSpec` | the ring at its real 20 slots and step of 5 |
| | | `RateAsNamed`, `IdsAsGiven`, `LetsThrough` | setup, with mode changes that fail |
| | | `PortSpec`, `OvertakenOnlyInBufferOne`, `SendResultTrue`, `LateOnlyAfterTimeout`, `RemoteOnlyAfterRemote`, `CallReturns` | the driver against the controller, with a restart |
| | | `EchoIsEarlier`, `BehindForEver` | the echo test |
| `devices` | `MCDevices` | `TypeOK`, `OrderInForce` | every setter of `CanTalonSRX` |
| | | `SignalWasSent` | every getter |
| | | `SetIsInForce`, `ReadsBack` | parameters |
| | | `SignalIsOwn` | the PDP class in any node that spins |
| `client_timeout` | `MCTalonClient`, `MCTalonTimeout` | `OkayIsRecent` **violated** | see section 6 |
| `bridge_unregister`, `bridge_confirmed`, `bridge_forget` | | `TableAgrees`, `ConfirmedIsAccepted`, `FireAndForget` **violated** | see section 6 |

The bounds, and why they are enough:

* `board`: the ring has the code's own sizes, and 45 frames, so that the writer
  laps it twice. Setup has every speed from 0 to 17, identifiers at the
  boundaries of each register, filters 0, 5 and 6, and two mode changes that fail.
  The driver runs twice: with three frames in, so that both buffers are full when
  a third comes, two out and `TIMEOUTVALUE` 2 (a single look at a buffer); and
  with four out, one more than there are buffers, and `TIMEOUTVALUE` 3 in place
  of 50; one restart at any transaction. The echo test has eight byte values and
  two faults, on either way. It may end where its bounds do (`CHECK_DEADLOCK FALSE`).
* `devices`: setters get the numbers at the boundaries of the fields, -1, 2^23-1,
  -2^23, one whose bytes all differ and the largest int; two commands (the theorem needs no bound). Every
  getter gets, for each width, 0, 1, all ones, the sign bit alone, all but the
  sign bit, and bytes that all differ, in two frames. Parameters: two calls of a
  gain, a feed-forward gain, the ramp or the position with answers still under
  way, or one call of any of the others at the boundaries of its range; the gains go
  up to 1023, past 512, where they are read back negative. PDP: two
  panels, two readings, the second of all ones (but for the time, so that joules stay
  within TLC's numbers). Its parts end as well.
* `sketch`: `KeepAlive` 1 makes the switch fall within one pass, so that every
  order of a refresh, a fall and a rejected frame occurs; two slots, one-shots
  and periodic frames; three tokens of input hold one whole frame, or the pieces of two.
  Its host sends `d` and frames; the other commands come out of garbled tokens.
  The host's buffer has no room, as nothing the sketch does depends on it.
* `node`: three identifiers for two indices and two periods give every order of
  registration, refusal, one-shot, release and reuse; two tries instead of five keep a
  first, a last and no middle try apart.
* `bridge_table`, on a line that never fails (`SoundSpec`): two identifiers on two indices, which change hands between
  them; messages register (10) or switch off (-1). The CAN bus is silent
  (`MaxFrames` 0), as a byte of a received frame may pass for an answer
  (section 6). Requests that are refused for want of an index are left to `node`.
  One-shots of registered identifiers are left out here, as they break the
  property: that is `bridge_unregister`.
* `bridge_frames`, in two parts. "alone": a ring of three slots and six frames, so
  that it overruns more than once; the packet count wraps once (`CountMod` 5), late
  enough for a gap of two without a wrap, the smallest that counts as one. The
  host's buffer holds all frames (`OutCap` 12; a serial device's holds thousands of
  bytes), so that only the ring loses some. "among": four frames, a host's buffer of two, and
  `CANSend` messages without bound, whose answers come in time or late, or find
  no room (timeouts run out at any moment); a behaviour is followed until `disturbed`.
* `bridge_fair`, in two parts. "busy": the bus never falls silent. A frame is its
  ordinal, so `BusGoesOn` numbers all frames anew, `CountMod` lower, once the node has
  published more than that; the counts the programs see do not change. One `CANSend`
  message (`BusyMessages`), at any moment. "dies": two messages, one fault on the line, one death, no restart, and no frame
  received, as reception touches nothing the silence depends on.
* `client`: two topics that write a common field, one with a queue of 1 and one
  of 2, so that either drops commands and places in the callback queue are taken
  over; two parameters, so that an answer may be another one's; one status frame,
  read by every getter; a queue of 2 to the bridge, so that parameter frames push
  out control frames; `Stale` 0, so that one tick makes a frame old. Three
  messages of other nodes or the Talon in all (`MaxTraffic`): two frames and one
  in between, or a command dropped by a second one while a third is under way.
  The process may die of the unlocked map, so it may stop
  (`CHECK_DEADLOCK FALSE`).

**Fairness.** `sketch` assumes weak fairness of the sketch: `loop()` is called
for ever and the watchdog is a clock. The system adds weak fairness of the
node's thread and its timeouts (`PartsSpec` of both MC modules). Publishers, the bus, faults, deaths and restarts
are never obliged to act. `client` assumes weak fairness of its two threads,
each a loop that the system schedules: the spinner while it has work, `main()`
always; not of the Talon, the bridge or time. `board` assumes that the driver, straight-line
code once called, proceeds (`Proceeds`), and nothing of the controller: a bus
without a listener never takes a frame, and `CallReturns` holds all the same.
`devices` has no liveness and assumes none.

**Timing.** With `Prompt` the node's timeouts (100 ms for a frame, 10 ms for an
answer byte) do not run out while the sketch still has something to do: a pass
takes well under a millisecond. `bridge_frames` runs without it, so its
properties do not depend on timing. `AnswerTimeout` and `Timeout` still occur
under `Prompt`, whenever an answer or a frame is lost or is not to come.

**What the properties say, and do not.** `SolicitedOnly` is about a host that
does not stream, like the node. `OwedOnlyFalls` bounds what a waiting message
waits for independently of how many frames the bus brings; with `CallbacksRun`
it says that callbacks are not starved by a bus that never falls silent. `TableAgrees`
is about moments when nothing is under way. `PublishedInOrder` looks at every good
packet the node reads, a repeat of the last one too, until `disturbed`; afterwards `r`
may publish frames twice, which is what it is for. It names the one repeat there is
before: an acknowledgement that comes after its callback gave up, and is read alone,
passes for a size of 6, the checked bytes are those of the frame read last, and
that frame is published again. `AlonePublished` is about frames without traffic the
other way, and a host's buffer that holds them all: in one that overruns, the last
frame of a burst may be lost, and no later one tells the node.
`GapNoticed` leaves out a gap in which the packet count wraps: the node
compares two values of an unsigned char, and one that went back tells it nothing.
It is about frames lost by the ring: one cut in two at the end of the host's buffer
leaves its count in front of another frame's bytes, where no checksum covers it.
`LastOfTopicWins` names the field values the Talon may end up with: with several
topics that write one field, which of their last commands wins depends on the
queues. It is silent while the last control frame has been pushed out of the
bridge's queue by parameter frames, the one loss nothing repairs.
`SettledAnswer` says when `getParameter` can be relied on: the callback asks,
sleeps in the thread that would store the answer and reads what was there
before, so a first call returns 0 or an old value; only what arrived between two
calls is seen. `StatusFollows` lets a torn or missed read pass, but not last.
`LetsThrough` leaves out a mode change that failed in `init_Mask` or `init_Filt`,
whose results the sketch ignores: it may then be deaf. `SendResultTrue` is about
what `sendMsgBuf` reports, which the sketch ignores too. `OvertakenOnlyInBufferOne`
names the only way frames are reordered. `SignalWasSent` allows the one getter that
reads two frames to mix them. `SetIsInForce` and `ReadsBack` are about all arguments
within the ranges the documentation gives, gains up to 1023 included. The Talon takes
those of 512 and more as they were meant; a getter takes the word for a signed one,
and `ReadsBack` states that it returns 1024 less, which is what the code does. An answer
that another one has overwritten is outside it. `SignalIsOwn` is about the class: the
node that uses it never spins and publishes zeros (section 6).

## 4. What is proved

With TLAPS, for every value of the constants that meets the named assumptions:
sizes are positive, steps and indices lie within what they index, identifiers are
finitely many (`SketchAssumption` and `NodeAssumption` of the system say at once
what sketch and node assume). Whatever else a theorem supposes is in its
statement, and met by the run that checks the same property.

* **Ring** (`RingTypeCorrect`, `RingContentsCorrect`, `RingImplementsWindow`):
  every size from 2 on and every step back up to it. `RingContents` is inductive
  together with the types; its heart is that a `Put` ages every slot by one but
  the one it writes (`AgeAfterPut`). The refinement needs no more than both: the
  slot under the reader holds the oldest waiting frame (`ReadSlotIsOldest`), and
  each index operation changes `Unread` as the window says.
* **Dead man's switch** (`DeadManCorrect`). The inductive invariant ties the
  counter to the history: `keepalive + silent` is `KeepAlive` as long as the
  switch is on, and once `silent` exceeds `KeepAlive` the table is off. Only
  `Poll` and `AcceptFrame` reset both, only `Periodic` moves them, and no other
  step touches either (`QuietSteps`).
* **Types of the sketch** (`SketchTypeCorrect`), for any line and host: noise,
  loss and overflow leave every buffer a sequence of tokens.
* **Indices of the node** (`IndexOwnedCorrect`, `NewIndexIsLowCorrect`,
  `IndexFitsCorrect`), for any number of identifiers and indices. The invariant:
  `usedIndex` is the image of `transmittingCAN`, which is one-to-one, and every
  index held is below the number of identifiers. For the last, `lockIndex()`
  returns the lowest free index, and all below it are held, so there are at most
  as many of them as holders (`LowestFreeIsLow`, a pigeonhole argument), and the
  identifier that asks is not a holder (`NewIndexFits`). With at most ten
  identifiers this discharges `IndexAssumption` of the sketch.

* **Types of the node** (`NodeTypeCorrect`), whatever a sketch answers:
  `OverlayType` and `AnswersType` say what `rxData` and an answer may be made of;
  `cur` is typed through the invariant of the indices.

* **The bridge as a system** (`BridgeSystemProofs`). The node dies and starts
  again at any moment, timeouts run out at any moment (but for `TableAgrees`),
  and the constants are whatever they are.

  * `SystemDeadManCorrect`: the dead man's switch, in the system, with line
    faults. The sketch's invariant carries over (`SwitchSystem`).

  The others are about a sound line: noise reads as any command, and then the
  sketch may stream or hang. All rest on `SoundInv`: the tokens towards the sketch
  are commands or frames of the node's, each behind its size,
  which a full buffer or a death may cut at the end (`Shape`); the sketch never
  streams, and what it will answer is within what the last `d` asked for.
  `SolicitedOnlyCorrect` and `TableAgreesCorrect` suppose `MaxFaults = 0`; the
  other two hold of every behaviour, `OwedOnlyFalls` until a fault happens and
  `PublishedInOrder` until something disturbs the frames.

  * `SolicitedOnlyCorrect` follows from that invariant.
  * `OwedOnlyFallsCorrect`. `FramesOwed` adds two for each `d` on its way, what
    the sketch still promises, and the frames on their way back. Each step of
    either side moves an amount from one term to the next or drops it (`OwedSketch`,
    `OwedNode`); the counting lemmas say what appending, cutting and taking a
    token do to a term. The ring must be sound (`RingSound`, from `RxRing`) for
    what goes back to be frames.
  * `PublishedInOrderCorrect`, with any `CANSend` traffic, late answers, deaths,
    restarts and line faults, and any sizes of ring and buffers. Until `disturbed`
    (`OrderInv`), the frames published, those in the host's buffer and the unread ones
    of the ring are the ordinals 1, 2, 3, ... without a gap, with answers anywhere
    between two frames (`Follows`: how far the buffer has come at each token); no `r`
    is under way and `datagood` holds, so no gap is seen that is none (`NextCount`, at a
    wrap of the count too) and none leads to a step back; and `rxData` holds the count
    and the bytes of the frame published last, so that a late answer read over it
    can do no more than repeat it. What may be read (`OrderReads`) is a frame, one
    answer, or two or more, which is `Misread`; what a callback eats up (`OrderHead`) is an
    answer or `FrameEaten`. A restart begins anew, with nothing on either line.
  * `TableAgreesCorrect`, under `SilentBus`: no received frames, no one-shots, room
    for a frame and its answer, a slot for each identifier, and a sketch that
    answers within the timeouts. `TableInv` names the five situations a
    frame goes through (`Idle`, `Composed`, `Sent`, `Awaited`, `Answered`) with what is
    on the line in each, and says that at any of them every slot but the
    frame's own agrees with `transmittingCAN` (`Filed`). That the frame's index has
    a slot is the node's `IndexFits`; that its registration is not yet taken by
    another is `IndexOwned`. One-shots break it (section 6, `bridge_unregister`), and
    so may received frames whose bytes pass for a 6.

* **The driver and the controller** (`DriverInv`, one conjunct each for the
  receive buffers, the send buffers, the results of the calls and the remote
  bit).
  * `DriverImplementsPort`: they are a `CanPort`. The mailbox is the two
    receive buffers, which a frame leaves when its flag is cleared, the pool the
    send buffers with a request. Each SPI transaction and each move of the
    controller is a step of the port or stutters. It needs that both buffers
    never hold one frame (`RxInv`) and that no two requests are alike (`TxInv`).
  * `SendResultTrueCorrect`, `LateOnlyAfterTimeoutCorrect` (`ResultInv`): what each
    call reported, or is about to, against where its frame is.
  * `OvertakenCorrect`: while buffer 1 is read, what comes into buffer 0 is newer.
  * `RemoteOnlyAfterRemoteCorrect`: every place `m_nRtr` passes through.
* **Setup** (`RateAsNamedCorrect`, `IdsAsGivenCorrect`, `LetsThroughCorrect`), for
  every pair of masks and filters and any number of mode changes that do not
  happen (`SetupInv`: what is written by which step, unless it was skipped). Every row of
  the table of bit timings is legal and at the rate it is named after
  (`TimingRows`); identifiers survive the way into four registers and back
  (`RoundTrip`), whichever of the 2^29 extended or 2^11 standard ones.
* **Echo test** (`EchoIsEarlierCorrect`, `BehindForEverCorrect`), for every number of
  byte values and any delay. `EchoInv`: the bytes under way in both
  directions are consecutive, so a reader that falls behind stays as far behind;
  it counts modulo a byte.

* **Types of the Talon node** (`ClientTypeCorrect`), whatever the traffic.
* **Answers to `getParameter`** (`SettledAnswerCorrect`). The invariant `Settled`: the
  newest response on its way, be it in the subscription, in the callback or
  already in the map, carries the value the Talon holds of its parameter, unless
  the subscription has dropped it.
* **Mode and demand** (`NoHalfCommandCorrect`): the frame kept in `_txJobs` is
  part of the invariant, as the next command is built on it; a setter keeps a
  frame whole (`FilledTogether`) because whatever writes the mode writes the
  demand too, unless it is `setModeSelect`, which claims nothing.
* **Order of status frames** (`StatusNeverOlderCorrect`). The invariant `Ordered`
  follows one status message from the Talon to the reader: what main has read
  is no newer than the map, the map no newer than the frame the spinner holds,
  that one no newer than the waiting frames, which are in order, and all no newer
  than the Talon's last; the second half of an entry never passes the first.
* **Last command** (`LastOfTopicWinsCorrect`). Three parts: what a topic still
  has waiting ends with its last command (`Backlog`, kept because a full queue
  drops the oldest); each field in memory is the constructor's or a command's
  that is its topic's last one unless more are waiting (`Held`); and the last
  control frame under way, or the one in force when none is, is the one in
  memory, or nothing has been delivered yet (`Channel`).

* **The control frame of a Talon** (`ControlTyped`, `ControlInForce`), for every
  sequence of setters and every int: no field spills into the next, and the Talon
  reads of every quantity exactly what was ordered last if that fits. The
  invariant is the conjunction of both; `DemandBytes` takes a signed number of
  24 bits apart and puts it together, `ReadOrdered` and `ReadOther` say that a
  setter changes the quantity it names and no other.
* **Getters of a Talon** (`SignalWasSentCorrect`), for every set of getters, all
  samples that fit the widths of their fields and any number of frames
  (`SampleAssumption`, `GetterAssumption`). The invariant `StatusInv`: the frame
  stored last is that of a sample the Talon sent, and each value a getter under way has
  read was meant by a sample sent. Its heart is what a getter makes of one frame. The
  tables are gone through once (`PartsOf`, `WidthsOf`: the parts of a quantity are
  fields of its frame, its own, and as wide as the bits between the getter's
  shifts); then, for any quantity, the frame carries the slices of its value
  (`FrameCarries`, no field being shared), the getter puts them together, and its
  sign extension is the sign the Talon gave (`Extends`).
* **Parameters of a Talon** (`SetIsInForceCorrect`, `ReadsBackCorrect`), for any
  arguments, periods and sequence of calls, with bytes of 8 or of 256 values
  (`BaseAssumption`: the runs use one, the code has the other), over the whole range
  the documentation allows. The invariant `ParamsInv`: of every quantity, what was set last is the last frame
  under way that sets it, or in the Talon when there is none (`LastSetServes`, kept
  because frames arrive in order and no two quantities have one number,
  `NumbersDiffer`); and the last answer is what the Talon holds (`AnswerStands`).
  Under it, the arithmetic: four bytes are a word again (`JoinedBytes`), and each
  format gives back its argument to its precision, in either direction, or 1024 less
  where the Talon's unsigned word is read as a signed one (`Conveys`, `Misread`).
* **Getters of PDP** (`SignalIsOwnCorrect`), for any panels, queue length and readings
  that fit their widths (`ReadingAssumption`), for the object of panel 0
  (`Device = 0`, the one the node makes: any other reads panel 0's frames all the same,
  section 6). The invariant `PdpInv`: what waits in `CANRecv`, in `receivedCAN`
  and in the cache of `GetRx` was sent under the identifier it is filed
  under. Again the widths and shifts of every signal are gone through once, the
  energy's two numbers from one frame. It needs no fairness: zeros that were never
  received come with an error.

Only model-checked, and why:

* Liveness (`LoopGoesOn`, `AlonePublished`, `CallbacksRun`, `SilenceAfterDeath`,
  `StatusFollows`, `CallReturns`): fairness is out of the prover's reach.
* `GapNoticed`: it needs a host's buffer that never cuts a frame, together with the
  overruns of the ring that `PublishedInOrder` leaves out.
* Every other property of the passing runs is proved.
* The refuted properties of section 6.

## 5. Not modelled, and why

* The polynomial of the CRC: generated code, taken to detect every damaged frame.
* The C interfaces at the end of `CanTalonSRX.cpp` and `PDP.cpp`: one call of a
  member each, which nothing in the repository uses.
* The copies of the driver in `src/arduino_stuff` and `readCANbus`, identical to
  the one of the sketch; its calls no sketch makes (`checkError`, `clearMsg`,
  `sendMsgBuf` with five arguments); the controller's filter matching.
* Vectors shorter than eight bytes in `CANSendCallback` (node 223), a matter of
  memory layout.
* An unplugged serial device, whose `read()` returns 0 (node 123).
* The publication of `Status` (`test.cpp`): a copy of what the getters return.
* The destructor of `CanTalonSRX`, whose `RegisterTx` with period 0 nothing calls.
* The other programs of `CANBridgeTest`, written for earlier versions of the
  protocol, and `readCANbus`, which prints what it receives; message definitions
  and build files.

What could still be added: several clients over an abstract bridge that keeps the
registered frame of each identifier, which `BridgeSystem` implements where
`bridge_unregister` and `bridge_forget` are excluded; a proof of `GapNoticed` for a
host's buffer that is emptied in time, with traffic in both directions.

## 6. Where code and comments disagree

Each is a run that TLC refutes; `PROJECT.json` quotes the lines.

* `bridge_unregister`: a period of 0 is a one-shot to the sketch and a release
  to the node, so "un-registering" with 0 leaves the sketch transmitting at an
  index the node thinks free.
* `bridge_confirmed`: `tmp` is uninitialised and survives a timeout, so a frame
  can be reported as received correctly when its answer never came.
* `bridge_forget`: `keepalive` counts passes of `loop()`, the node's polls may be
  100 ms apart: the sketch can switch its table off between two of them, and the
  node never registers those frames again.
* `client_timeout`: `receivedCAN` is never cleared, so a status frame is "fresh"
  for ever (`CtreCanNode.cpp` 59-63) and a getter reports `CTR_OKAY` for a Talon
  that has long fallen silent. The branch that would notice takes the age from
  clock 2, which is processor time.

Noticed while modelling, without a run of its own: while streaming,
`send2hostonce--` wraps from 0 to 255 (ino 353), so after `w` up to 255 frames
still go out; the 50 indices of the node against the ten slots of the sketch. Four
of the Talon node's topics carry their callback's name (`test.cpp` 102-105), so
publishers of `setModeSelectAndDemand` are not heard. `getParameter` ignores
`CTR_SigNotUpdated` and answers 0 (`test.cpp` 72). Also:

* the step back of `r` counts modulo the ring (ino 163-172): with 15 or more frames
  unread it passes the writer, and those frames are lost, not resent;
* the sketch acknowledges a frame whatever `sendMsgBuf` returned (ino 247-256), and
  ignores the results of `init_Mask` and `init_Filt` (ino 88-89);
* `begin()` reports `CAN_OK` for a speed it does not know (`mcp_can.cpp` 348): the
  controller is left in configuration mode, and `init_Mask` puts it into normal
  mode with its bit timing registers still zero;
* the four-argument `setMsg` leaves `m_nRtr` as the last frame received set it
  (`mcp_can.cpp` 718): after a remote request, frames are sent as remote requests;
* a byte 6 or 21 in the data of a received frame passes for an answer (node 253), and a
  late 6 for the size of a frame: the last one is published twice (node 345);
* the pulse's rise to fall combines position and period of two frames
  (`CanTalonSRX.cpp` 1152), and one entry holds the answers to all parameters, so
  one read late is overwritten (`CanTalonSRX.cpp` 374);
* a gain of 512 or more is sent as unsigned 10.22 and read back negative
  (`CanTalonSRX.cpp` 53, 442), and the largest feed-forward gain allowed, 512.0, does
  not fit and may be sent as -512 (449); `ReadsBack` states the first;
* the identifiers the PDP class reads leave out the panel's number (`PDP.cpp` 14),
  and its node never spins (`PDP_node.cpp` 34), so it publishes zeros for ever.
