----------------------------- MODULE SerialLink -----------------------------
(***************************************************************************)
(* What travels on the USB serial line between the ROS bridge node and the *)
(* CANBridge sketch.  Each direction ends in a receive buffer: a sequence  *)
(* of tokens, a token being a run of bytes the receiving code tells apart. *)
(*                                                                         *)
(* Towards the sketch: a command letter, or a frame to transmit, which is  *)
(* its size byte, then its index, period, identifier and data ("rest"),    *)
(* then its checksum.  All frames of one model have the same size byte.    *)
(* Towards the host: a one-byte answer, debugging text, or a received      *)
(* frame, which is its size and packet count ("top", outside the checksum) *)
(* and the checked remainder ("body").  "noise" is a run of n bytes that   *)
(* mean nothing in particular.                                             *)
(*                                                                         *)
(* The 8-bit checksum is taken to detect every damaged frame.              *)
(***************************************************************************)
EXTENDS Integers, Sequences

CONSTANTS
  Indices,      \* the table indices frames carry
  ArbId,        \* the CAN identifiers that are ever sent
  Data,         \* the payloads that are ever sent
  Periods,      \* the periods that are ever asked for
  RestBytes     \* bytes of a frame between its size and its checksum: 17

ASSUME IndicesAssumption == Indices \subseteq Nat
ASSUME NonemptyAssumption == ArbId # {} /\ Data # {}
ASSUME RestBytesAssumption == RestBytes \in Nat \ {0}
ASSUME PeriodsAssumption == Periods \subseteq Int

OneShot == 0
Off     == -1

(* TXData of the sketch, which is the tail of the node's txCANData. *)
Frame == [index : Indices, period : Periods, id : ArbId, data : Data]

Command == {"d", "r", "q", "w", "debug", "hang"}

Cmd(c)   == <<"cmd", c>>
Size     == <<"size", 0>>
Rest(f)  == <<"rest", f>>
Sum(f)   == <<"sum", f>>
Noise(n) == <<"noise", n>>

FrameTokens(f) == <<Size, Rest(f), Sum(f)>>

HostToken == ({"cmd"} \X Command) \union {Size}
               \union ({"rest", "sum"} \X Frame)
               \union ({"noise"} \X (1..RestBytes))

Ack     == <<"ack", 0>>
Nak     == <<"nak", 0>>
Text    == <<"text", 0>>
Top(s)  == <<"top", s>>    \* s: the frame's ordinal, 0 for a slot never written
Body(s) == <<"body", s>>

SketchToken == {Ack, Nak, Text}
                 \union ({"top", "body"} \X Nat)
                 \union ({"noise"} \X (1..RestBytes))

(* Bytes of a token on its way to the sketch. *)
Width(t) == CASE t[1] = "rest"  -> RestBytes
              [] t[1] = "noise" -> t[2]
              [] OTHER          -> 1

Bytes(box) ==
  LET upTo[k \in 0..Len(box)] == IF k = 0 THEN 0 ELSE upTo[k - 1] + Width(box[k])
  IN upTo[Len(box)]

(* Tokens reach a receive buffer with room for cap of them: what does not  *)
(* fit is dropped by the receiving driver, not refused to the sender.      *)
Deliver(box, tokens, cap) ==
  SubSeq(box \o tokens, 1,
         IF Len(box) + Len(tokens) <= cap THEN Len(box) + Len(tokens)
         ELSE IF Len(box) <= cap THEN cap ELSE Len(box))

(* What the line may do to token k of a buffer: lose it, or garble it. *)
Lost(box, k)    == SubSeq(box, 1, k - 1) \o SubSeq(box, k + 1, Len(box))
Garbled(box, k) == [box EXCEPT ![k] = Noise(Width(box[k]))]
=============================================================================
