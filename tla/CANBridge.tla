------------------------------ MODULE CANBridge ------------------------------
(***************************************************************************)
(* The CANBridge sketch on the Arduino.  One pass of loop() reads at most  *)
(* one command byte, then takes at most one frame from the CAN controller, *)
(* then sends the table of periodic frames, then hands at most one         *)
(* received frame to the host.  pc says which of these comes next; it is   *)
(* "await" inside the busy wait for the remainder of a frame and "hung" in *)
(* the endless loop of the '.' command.                                    *)
(***************************************************************************)
EXTENDS SerialLink

CONSTANTS
  TxSlots,     \* slots of the periodic table: TXBUFFERSIZE (10)
  RxSlots,     \* RXBUFFERSIZE: 20
  RxBack,      \* the 5 of command 'r'
  MaxFrames,   \* bound: frames that arrive from the CAN bus
  KeepAlive,   \* what keepalive is set to: 255
  ByteMod,     \* values of an unsigned char: 256
  InCap,       \* tokens the sketch's serial receive buffer holds
  OutCap       \* tokens the host's serial receive buffer holds

ASSUME KeepAliveAssumption == KeepAlive \in Nat \ {0}
ASSUME ByteModAssumption == ByteMod \in Nat /\ ByteMod > 2
ASSUME RxAssumption == /\ RxSlots \in Nat /\ RxSlots >= 2
                       /\ RxBack \in 1..RxSlots /\ MaxFrames \in Nat
ASSUME CapAssumption == InCap \in Nat /\ OutCap \in Nat

TableIndex == 0..(TxSlots - 1)

(* The sketch does not check that the index of a frame lies in txarr; that *)
(* it does is for the host to see to (BridgeNode).                         *)
ASSUME IndexAssumption == TxSlots \in Nat \ {0} /\ Indices \subseteq TableIndex

VARIABLES
  pc,           \* where loop() is
  inbox,        \* bytes received from the host and not yet read
  outbox,       \* bytes sent to the host and not yet read there
  sizeRead,     \* in "await": is txData.size the size of the frame to come?
  txarr,        \* the table of periodic frames
  keepalive, stream,
  once,         \* send2hostonce
  buffer, writeIndex, readIndex, packetcount,   \* the ring of received frames
  bus,          \* the frames the last step gave to the CAN controller
  silent,       \* passes since the host last refreshed keepalive (capped)
  polled        \* answers the host's last 'd' still entitles it to

Ring == INSTANCE RxRing WITH Size <- RxSlots, Back <- RxBack

ringVars == <<buffer, writeIndex, readIndex, packetcount>>
lineVars == <<inbox, outbox>>
txVars   == <<txarr, keepalive, silent>>
hostVars == <<stream, once, polled>>
sketchVars == <<pc, sizeRead, ringVars, txVars, hostVars, bus>>
vars == <<sketchVars, lineVars>>

EmptySlot(s) == s.period < 0

(* A slot as it is before anything is stored in it; its identifier and     *)
(* data are zeros that are never sent, for which any will do.              *)
BlankSlot == [period |-> Off, id |-> CHOOSE i \in ArbId : TRUE,
                              data |-> CHOOSE x \in Data : TRUE]

Boot ==
  /\ pc = "command" /\ sizeRead = FALSE
  /\ Ring!RingInit
  /\ txarr = [j \in TableIndex |-> BlankSlot]
  /\ keepalive = 0 /\ stream = FALSE /\ once = 0
  /\ bus = {} /\ silent = KeepAlive + 1 /\ polled = 0

Init == Boot /\ inbox = <<>> /\ outbox = <<>>

-----------------------------------------------------------------------------
(* The command byte.                                                       *)

(* The ways to read the next byte of a token: bytes that mean nothing may  *)
(* be any command, a size byte, right or wrong for what follows, or none.  *)
Readings(t) ==
  CASE t[1] = "cmd"  -> {t[2]}
    [] t[1] = "size" -> {"size"}
    [] OTHER         -> Command \union {"size", "badsize", "other"}

(* What is left once that byte is read. *)
AfterByte(box) ==
  IF Width(Head(box)) = 1 THEN Tail(box)
                          ELSE <<Noise(Width(Head(box)) - 1)>> \o Tail(box)

Reads(c) ==
  /\ pc = "command"
  /\ inbox # <<>>
  /\ c \in Readings(Head(inbox))
  /\ inbox' = AfterByte(inbox)
  /\ bus' = {}

NoCommand ==
  /\ pc = "command" /\ inbox = <<>>
  /\ pc' = "receive" /\ bus' = {}
  /\ UNCHANGED <<sizeRead, ringVars, txVars, hostVars, lineVars>>

(* 'd': the host is alive and asks for up to two received frames. *)
Poll ==
  /\ Reads("d")
  /\ once' = 2 /\ polled' = 2
  /\ keepalive' = KeepAlive /\ silent' = 0
  /\ pc' = "receive"
  /\ UNCHANGED <<sizeRead, ringVars, txarr, stream, outbox>>

(* 'r': step back in the ring of received frames. *)
Resend ==
  /\ Reads("r")
  /\ Ring!Rewind
  /\ pc' = "receive"
  /\ UNCHANGED <<sizeRead, txVars, hostVars, outbox>>

Stream(c, on) ==
  /\ Reads(c)
  /\ stream' = on
  /\ pc' = "receive"
  /\ UNCHANGED <<sizeRead, ringVars, txVars, once, polled, outbox>>

(* 'g', 'h', '?': text for a human on the line.  Also any byte that is no  *)
(* command.  'g' takes the MCP2515 out of normal mode and back (ino 184 to *)
(* 194): what the bus brings meanwhile never gets here, and the change     *)
(* back is taken to succeed.                                               *)
DebugText ==
  /\ \/ Reads("debug") /\ outbox' = Deliver(outbox, <<Text>>, OutCap)
     \/ Reads("other") /\ UNCHANGED outbox
  /\ pc' = "receive"
  /\ UNCHANGED <<sizeRead, ringVars, txVars, hostVars>>

(* '.': loop for ever, to test the watchdog. *)
Hang ==
  /\ Reads("hang")
  /\ pc' = "hung"
  /\ UNCHANGED <<sizeRead, ringVars, txVars, hostVars, outbox>>

(* 0..8: the size of a frame; the rest of it is waited for. *)
BeginFrame ==
  /\ \/ Reads("size") /\ sizeRead' = TRUE
     \/ Reads("badsize") /\ sizeRead' = FALSE
  /\ once' = 0
  /\ pc' = "await"
  /\ UNCHANGED <<ringVars, txVars, stream, polled, outbox>>

-----------------------------------------------------------------------------
(* The remainder of a frame.                                               *)

Complete == Bytes(inbox) >= RestBytes + 1

(* Are the awaited bytes the remainder of f, as the checksum tells? *)
Checked(f) ==
  /\ sizeRead
  /\ Len(inbox) >= 2 /\ inbox[1] = Rest(f) /\ inbox[2] = Sum(f)

Stored(f) == [period |-> f.period, id |-> f.id, data |-> f.data]

AcceptFrame ==
  /\ pc = "await" /\ Complete
  /\ \E f \in Frame :
       /\ Checked(f)
       /\ IF f.period = OneShot
            THEN bus' = {Stored(f)} /\ UNCHANGED txarr
            ELSE bus' = {} /\ txarr' = [txarr EXCEPT ![f.index] = Stored(f)]
  /\ inbox' = SubSeq(inbox, 3, Len(inbox))
  /\ outbox' = Deliver(outbox, <<Ack>>, OutCap)
  /\ keepalive' = KeepAlive /\ silent' = 0
  /\ pc' = "receive" /\ sizeRead' = FALSE
  /\ UNCHANGED <<ringVars, hostVars>>

(* The input buffer is cleared and keepalive is not refreshed. *)
RejectFrame ==
  /\ pc = "await" /\ Complete
  /\ ~ \E f \in Frame : Checked(f)
  /\ inbox' = <<>>
  /\ outbox' = Deliver(outbox, <<Nak>>, OutCap)
  /\ bus' = {} /\ pc' = "receive" /\ sizeRead' = FALSE
  /\ UNCHANGED <<ringVars, txVars, hostVars>>

-----------------------------------------------------------------------------
(* The remainder of loop().                                                *)

(* A frame from the CAN controller, if one waits there. *)
Receive ==
  /\ pc = "receive"
  /\ Ring!Put \/ UNCHANGED ringVars
  /\ pc' = "periodic" /\ bus' = {}
  /\ UNCHANGED <<sizeRead, txVars, hostVars, lineVars>>

(* What a slot becomes once its frame is sent. *)
AfterSending(s) == IF s.period = 0 THEN [s EXCEPT !.period = Off] ELSE s

(* A bug the properties below are there to notice: keepalive never runs    *)
(* down.                                                                   *)
NeverTicked(k) == k

Ticked(k) == k - 1

(* All periodic frames go out on every pass, while the host is alive; then *)
(* the whole table is switched off.                                        *)
Periodic ==
  /\ pc = "periodic"
  /\ IF keepalive > 0
       THEN /\ bus' = {txarr[j] : j \in {i \in TableIndex : ~EmptySlot(txarr[i])}}
            /\ txarr' = [j \in TableIndex |-> AfterSending(txarr[j])]
            /\ keepalive' = Ticked(keepalive)
       ELSE /\ bus' = {}
            /\ txarr' = [j \in TableIndex |-> [txarr[j] EXCEPT !.period = Off]]
            /\ UNCHANGED keepalive
  /\ silent' = IF silent > KeepAlive THEN silent ELSE silent + 1
  /\ pc' = "tohost"
  /\ UNCHANGED <<sizeRead, ringVars, hostVars, lineVars>>

(* A bug: the answer is not counted. *)
AnswerNotCounted(n) == n

AfterAnswer(n) == (n - 1) % ByteMod   \* send2hostonce-- on an unsigned char

(* One received frame to the host, if it asked or streams. *)
ToHost ==
  /\ pc = "tohost"
  /\ stream \/ once > 0
  /\ Ring!Take
  /\ outbox' = Deliver(outbox, <<Top(buffer[readIndex]), Body(buffer[readIndex])>>, OutCap)
  /\ once' = AfterAnswer(once)
  /\ polled' = IF polled > 0 THEN polled - 1 ELSE 0
  /\ pc' = "command" /\ bus' = {}
  /\ UNCHANGED <<sizeRead, txVars, stream, inbox>>

NothingToHost ==
  /\ pc = "tohost"
  /\ ~(stream \/ once > 0) \/ readIndex = writeIndex
  /\ pc' = "command" /\ bus' = {}
  /\ UNCHANGED <<sizeRead, ringVars, txVars, hostVars, lineVars>>

(* The sketch starts again: RAM and the receive buffer are as after reset. *)
Reboot ==
  /\ pc' = "command" /\ sizeRead' = FALSE
  /\ Ring!Reset
  /\ txarr' = [j \in TableIndex |-> BlankSlot]
  /\ keepalive' = 0 /\ stream' = FALSE /\ once' = 0
  /\ bus' = {} /\ silent' = KeepAlive + 1 /\ polled' = 0
  /\ inbox' = <<>>

(* A bug: the watchdog is fed while the rest of a frame is waited for. *)
WatchdogFedInWait == pc = "hung" /\ Reboot /\ UNCHANGED outbox

(* A second without wdt_reset(). *)
Watchdog ==
  /\ pc = "hung" \/ (pc = "await" /\ ~Complete)
  /\ Reboot
  /\ UNCHANGED outbox

SketchNext ==
  \/ NoCommand \/ Poll \/ Resend \/ Stream("q", TRUE) \/ Stream("w", FALSE)
  \/ DebugText \/ Hang \/ BeginFrame
  \/ AcceptFrame \/ RejectFrame \/ Receive \/ Periodic
  \/ ToHost \/ NothingToHost \/ Watchdog

-----------------------------------------------------------------------------
(* The sketch alone, at the end of a line: any host, any line.  What it    *)
(* writes stays in outbox, where it never looks.                           *)

CONSTANTS
  HostCommands,  \* the commands this host sends
  LineFaults     \* may the line lose and garble what it carries?

ASSUME HostCommandsAssumption == HostCommands \subseteq Command

HostSends ==
  /\ \E tokens \in {<<Cmd(c)>> : c \in HostCommands}
                     \union {FrameTokens(f) : f \in Frame} :
       inbox' = Deliver(inbox, tokens, InCap)
  /\ UNCHANGED <<sketchVars, outbox>>

LineFault ==
  /\ LineFaults
  /\ \E k \in 1..Len(inbox) : inbox' \in {Lost(inbox, k), Garbled(inbox, k)}
  /\ UNCHANGED <<sketchVars, outbox>>

Next == SketchNext \/ HostSends \/ LineFault

Spec == Init /\ [][Next]_vars

(* loop() runs whatever the host does; the watchdog is a clock. *)
FairSpec == Spec /\ WF_vars(SketchNext)

-----------------------------------------------------------------------------
Slot == [period : Periods \union {Off}, id : ArbId, data : Data]

SketchTypeOK ==
  /\ pc \in {"command", "await", "receive", "periodic", "tohost", "hung"}
  /\ inbox \in Seq(HostToken)
  /\ outbox \in Seq(SketchToken)
  /\ sizeRead \in BOOLEAN
  /\ txarr \in [TableIndex -> Slot]
  /\ keepalive \in 0..KeepAlive
  /\ stream \in BOOLEAN
  /\ once \in 0..(ByteMod - 1)
  /\ bus \subseteq Slot
  /\ silent \in 0..(KeepAlive + 1)
  /\ polled \in 0..2
  /\ Ring!RingTypeOK

(* The dead man's switch (CANBridge.ino 326-344, "send messages only if    *)
(* the host computer has talked recently"): whatever was garbled, rejected *)
(* or lost in between, no pass sends a periodic frame once KeepAlive       *)
(* passes have gone by since the last 'd' or accepted frame, and one pass  *)
(* later the whole table is off.                                           *)
DeadMan ==
  /\ pc = "tohost" /\ bus # {} => silent \in 1..KeepAlive
  /\ silent > KeepAlive => \A j \in TableIndex : EmptySlot(txarr[j])

(* A wait for bytes that never come, or a hung loop, does not last: the    *)
(* sketch is always back at reading commands (CANBridge.ino 92, 149, 230). *)
LoopGoesOn == []<>(pc = "command")
=============================================================================
