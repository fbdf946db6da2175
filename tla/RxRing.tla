------------------------------- MODULE RxRing -------------------------------
(***************************************************************************)
(* RXDataBuffer of the CANBridge sketch: a ring of received CAN frames     *)
(* between the CAN controller and the serial port, with the step back that *)
(* serves the host's 'r' command.  A frame is its ordinal since start-up:  *)
(* its size, identifier, bytes and checksum travel with it unread.  The    *)
(* sketch's packet counter is this ordinal modulo 256.                     *)
(***************************************************************************)
EXTENDS Integers

CONSTANTS
  Size,       \* RXBUFFERSIZE (20)
  Back,       \* the 5 of the 'r' command
  MaxFrames   \* bound: frames received in one behaviour

ASSUME SizeAssumption == Size \in Nat /\ Size >= 2
ASSUME BackAssumption == Back \in 1..Size
ASSUME MaxFramesAssumption == MaxFrames \in Nat

VARIABLES
  buffer,       \* RXDataBuffer: the frame in each slot, 0 where none was written
  writeIndex,   \* RXDataBufferWriteIndex
  readIndex,    \* RXDataBufferReadIndex
  packetcount   \* rxData.packetcount, unwrapped

ringVars == <<buffer, writeIndex, readIndex, packetcount>>

Slots == 0..(Size - 1)

RingInit ==
  /\ buffer = [i \in Slots |-> 0]
  /\ writeIndex = 0
  /\ readIndex = 0
  /\ packetcount = 0

(* Bugs of the kind the index arithmetic invites, kept to show that the    *)
(* properties below notice them: the wrap one slot early, the reader left  *)
(* where the writer catches it, the step back without its wrap.            *)
AdvanceShort(i) == IF i < Size - 2 THEN i + 1 ELSE 0
StepOverNever(w) == readIndex
StepBackUnwrapped(i) == i - Back

Advance(i) == IF i < Size - 1 THEN i + 1 ELSE 0

(* Where the reader stands once the writer has moved to w: the unread      *)
(* frame the writer reached is given up.                                   *)
StepOver(w) == IF w = readIndex THEN Advance(readIndex) ELSE readIndex

StepBack(i) == IF i < Back THEN Size - Back + i ELSE i - Back

(* loop(): a frame read from the CAN controller is stored. *)
Put ==
  /\ packetcount < MaxFrames
  /\ packetcount' = packetcount + 1
  /\ buffer' = [buffer EXCEPT ![writeIndex] = packetcount + 1]
  /\ writeIndex' = Advance(writeIndex)
  /\ readIndex' = StepOver(writeIndex')

(* A bug: the frame that went out is not passed over. *)
TakeAgain == readIndex # writeIndex /\ UNCHANGED ringVars

(* loop(): the frame under the read index goes out on the serial port. *)
Take ==
  /\ readIndex # writeIndex
  /\ readIndex' = Advance(readIndex)
  /\ UNCHANGED <<buffer, writeIndex, packetcount>>

(* loop(), command 'r': the host wants frames again. *)
Rewind ==
  /\ readIndex' = StepBack(readIndex)
  /\ UNCHANGED <<buffer, writeIndex, packetcount>>

(* The watchdog restarts the sketch. *)
Reset ==
  /\ buffer' = [i \in Slots |-> 0]
  /\ writeIndex' = 0
  /\ readIndex' = 0
  /\ packetcount' = 0

RingNext == Put \/ Take \/ Rewind \/ Reset

RingSpec == RingInit /\ [][RingNext]_ringVars

-----------------------------------------------------------------------------
RingTypeOK ==
  /\ buffer \in [Slots -> 0..MaxFrames]
  /\ writeIndex \in Slots
  /\ readIndex \in Slots
  /\ packetcount \in 0..MaxFrames

(* Frames waiting between the two indices. *)
Unread == IF readIndex <= writeIndex THEN writeIndex - readIndex
                                     ELSE writeIndex - readIndex + Size

(* How many frames ago slot i was written, if it was. *)
Age(i) == IF i < writeIndex THEN writeIndex - 1 - i
                            ELSE writeIndex - 1 - i + Size

(* Whatever rewinds and overruns happened, slot i holds the frame received *)
(* Age(i) frames ago, or nothing if fewer frames came (CANBridge.ino       *)
(* 305-318): so a frame handed to the host is one of the Size - 1 newest.  *)
RingContents ==
  \A i \in Slots : buffer[i] = IF Age(i) < packetcount
                               THEN packetcount - Age(i) ELSE 0

(* The ring is a window over the newest frames: its indices and wrap-      *)
(* around, the overrun step and the 'r' step never show the host anything  *)
(* the window would not.                                                   *)
Window == INSTANCE FrameWindow WITH
  unread <- Unread,
  offer  <- IF readIndex = writeIndex THEN -1 ELSE buffer[readIndex]

WindowSpec == Window!Spec
=============================================================================
