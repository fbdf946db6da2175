--------------------------- MODULE CANBridgeProofs ---------------------------
(***************************************************************************)
(* The dead man's switch of the sketch works for every table, every buffer *)
(* and every value of keepalive, against any host and any line.            *)
(***************************************************************************)
EXTENDS CANBridge, SerialLinkProofs

(* The part of the type invariant the switch rests on. *)
SwitchTypeOK ==
  /\ txarr \in [TableIndex -> Slot]
  /\ keepalive \in 0..KeepAlive
  /\ silent \in 0..(KeepAlive + 1)

(* keepalive counts down exactly the passes the host has been silent. *)
KeepAliveCounts ==
  /\ keepalive > 0 => silent + keepalive = KeepAlive
  /\ keepalive = 0 => silent >= KeepAlive

SwitchInv == SwitchTypeOK /\ KeepAliveCounts /\ DeadMan

LEMMA BlankSlotType == BlankSlot \in Slot /\ EmptySlot(BlankSlot)
BY NonemptyAssumption DEF BlankSlot, Slot, EmptySlot, Off

LEMMA StoredType ==
  ASSUME NEW f \in Frame
  PROVE  Stored(f) \in Slot /\ f.index \in TableIndex
BY IndexAssumption DEF Stored, Slot, Frame

LEMMA SwitchedOffType ==
  ASSUME NEW s \in Slot
  PROVE  /\ [s EXCEPT !.period = Off] \in Slot
         /\ EmptySlot([s EXCEPT !.period = Off])
         /\ AfterSending(s) \in Slot
BY PeriodsAssumption DEF Slot, EmptySlot, AfterSending, Off

(* Most steps leave the table and the counters alone and send nothing. *)
QuietStep == UNCHANGED txVars /\ (bus' = {} \/ UNCHANGED <<pc, bus>>)

LEMMA QuietSteps ==
  \/ NoCommand \/ Resend \/ Stream("q", TRUE) \/ Stream("w", FALSE)
  \/ DebugText \/ Hang \/ BeginFrame \/ RejectFrame \/ Receive
  \/ ToHost \/ NothingToHost \/ HostSends \/ LineFault
  \/ UNCHANGED vars
  => QuietStep
BY DEF NoCommand, Resend, Stream, DebugText, Hang, BeginFrame, RejectFrame,
       Receive, ToHost, NothingToHost, HostSends, LineFault,
       QuietStep, Reads, vars, sketchVars, txVars

LEMMA SwitchInit == Init => SwitchInv
<1> SUFFICES ASSUME Init PROVE SwitchInv
  OBVIOUS
<1>1. /\ txarr = [j \in TableIndex |-> BlankSlot]
      /\ keepalive = 0 /\ silent = KeepAlive + 1 /\ bus = {} /\ pc = "command"
  BY DEF Init, Boot
<1> QED BY <1>1, BlankSlotType, KeepAliveAssumption
        DEF SwitchInv, SwitchTypeOK, KeepAliveCounts, DeadMan

LEMMA SwitchNext == SwitchInv /\ [Next]_vars => SwitchInv'
<1> SUFFICES ASSUME SwitchInv, [Next]_vars PROVE SwitchInv'
  OBVIOUS
<1> USE KeepAliveAssumption
<1>1. CASE QuietStep
  BY <1>1 DEF QuietStep, txVars, SwitchInv, SwitchTypeOK, KeepAliveCounts, DeadMan
<1>2. CASE Poll
  BY <1>2 DEF Poll, Reads, SwitchInv, SwitchTypeOK, KeepAliveCounts, DeadMan
<1>3. CASE AcceptFrame
  <2>1. PICK f \in Frame :
          IF f.period = OneShot
            THEN bus' = {Stored(f)} /\ UNCHANGED txarr
            ELSE bus' = {} /\ txarr' = [txarr EXCEPT ![f.index] = Stored(f)]
    BY <1>3 DEF AcceptFrame
  <2>2. txarr' \in [TableIndex -> Slot]
    BY <2>1, StoredType DEF SwitchInv, SwitchTypeOK
  <2>3. keepalive' = KeepAlive /\ silent' = 0 /\ pc' = "receive"
    BY <1>3 DEF AcceptFrame
  <2> QED BY <2>2, <2>3 DEF SwitchInv, SwitchTypeOK, KeepAliveCounts, DeadMan
<1>4. CASE Periodic
  <2>1. silent' = IF silent > KeepAlive THEN silent ELSE silent + 1
    BY <1>4 DEF Periodic
  <2>2. CASE keepalive > 0
    <3>1. txarr' = [j \in TableIndex |-> AfterSending(txarr[j])]
      BY <1>4, <2>2 DEF Periodic
    <3>2. txarr' \in [TableIndex -> Slot]
      BY <3>1, SwitchedOffType DEF SwitchInv, SwitchTypeOK
    <3>3. keepalive' = keepalive - 1
      BY <1>4, <2>2 DEF Periodic, Ticked
    <3>4. silent' = silent + 1 /\ silent' \in 1..KeepAlive
      BY <2>1, <2>2 DEF SwitchInv, SwitchTypeOK, KeepAliveCounts
    <3> QED BY <2>2, <3>2, <3>3, <3>4
            DEF SwitchInv, SwitchTypeOK, KeepAliveCounts, DeadMan
  <2>3. CASE ~(keepalive > 0)
    <3>1. /\ txarr' = [j \in TableIndex |-> [txarr[j] EXCEPT !.period = Off]]
          /\ keepalive' = keepalive /\ bus' = {}
      BY <1>4, <2>3 DEF Periodic
    <3>2. /\ txarr' \in [TableIndex -> Slot]
          /\ \A j \in TableIndex : EmptySlot(txarr'[j])
      BY <3>1, SwitchedOffType DEF SwitchInv, SwitchTypeOK
    <3> QED BY <2>1, <2>3, <3>1, <3>2
            DEF SwitchInv, SwitchTypeOK, KeepAliveCounts, DeadMan, EmptySlot
  <2> QED BY <2>2, <2>3
<1>5. CASE Watchdog
  BY <1>5, BlankSlotType
  DEF Watchdog, Reboot, SwitchInv, SwitchTypeOK, KeepAliveCounts, DeadMan, EmptySlot
<1> QED BY <1>1, <1>2, <1>3, <1>4, <1>5, QuietSteps DEF Next, SketchNext

(* No periodic frame leaves the sketch once KeepAlive passes have gone by  *)
(* since the host last said anything the sketch understood, and the table  *)
(* is off one pass later: CANBridge.ino 326-344.                           *)
THEOREM DeadManCorrect == Spec => []DeadMan
<1>1. SwitchInv => DeadMan
  BY DEF SwitchInv
<1> QED BY <1>1, SwitchInit, SwitchNext, PTL DEF Spec

-----------------------------------------------------------------------------
(* Types.                                                                  *)

LEMMA RingTypes ==
  ASSUME Ring!RingTypeOK,
         \/ Ring!Put \/ Ring!Take \/ Ring!Rewind \/ Ring!Reset
         \/ UNCHANGED ringVars
  PROVE  Ring!RingTypeOK'
<1> USE RxAssumption DEF Ring!RingTypeOK, Ring!Slots
<1>1. CASE Ring!Put
  <2>1. packetcount + 1 \in 0..MaxFrames
    BY <1>1 DEF Ring!Put
  <2>2. buffer' \in [Ring!Slots -> 0..MaxFrames]
    BY <1>1, <2>1 DEF Ring!Put
  <2>3. writeIndex' \in Ring!Slots /\ readIndex' \in Ring!Slots
    BY <1>1 DEF Ring!Put, Ring!Advance, Ring!StepOver
  <2> QED BY <1>1, <2>1, <2>2, <2>3 DEF Ring!Put
<1>2. CASE Ring!Take
  BY <1>2 DEF Ring!Take, Ring!Advance
<1>3. CASE Ring!Rewind
  BY <1>3 DEF Ring!Rewind, Ring!StepBack
<1>4. CASE Ring!Reset
  BY <1>4 DEF Ring!Reset
<1>5. CASE UNCHANGED ringVars
  BY <1>5 DEF ringVars
<1> QED BY <1>1, <1>2, <1>3, <1>4, <1>5

LEMMA NoiseTypes ==
  /\ \A t \in HostToken : Noise(Width(t)) \in HostToken
  /\ \A t \in HostToken : Width(t) # 1 => Noise(Width(t) - 1) \in HostToken
<1> SUFFICES ASSUME NEW t \in HostToken
             PROVE  /\ Noise(Width(t)) \in HostToken
                    /\ Width(t) # 1 => Noise(Width(t) - 1) \in HostToken
  OBVIOUS
<1>1. Width(t) \in 1..RestBytes
  BY WidthOfHostToken
<1>2. \A n \in 1..RestBytes : Noise(n) \in HostToken
  BY DEF Noise, HostToken
<1> QED BY <1>1, <1>2, RestBytesAssumption

LEMMA AfterByteType ==
  ASSUME NEW box \in Seq(HostToken), box # <<>>
  PROVE  AfterByte(box) \in Seq(HostToken)
<1>1. Head(box) \in HostToken /\ Tail(box) \in Seq(HostToken)
  BY TailType
<1>2. CASE Width(Head(box)) = 1
  BY <1>1, <1>2 DEF AfterByte
<1>3. CASE Width(Head(box)) # 1
  <2>1. Noise(Width(Head(box)) - 1) \in HostToken
    BY <1>1, <1>3, NoiseTypes
  <2>2. <<Noise(Width(Head(box)) - 1)>> \in Seq(HostToken)
    BY <2>1
  <2>3. <<Noise(Width(Head(box)) - 1)>> \o Tail(box) \in Seq(HostToken)
    BY <1>1, <2>2
  <2> QED BY <1>3, <2>3 DEF AfterByte
<1> QED BY <1>2, <1>3

(* What the sketch says to the host, what a host says to the sketch. *)
LEMMA SketchSaysType ==
  ASSUME outbox \in Seq(SketchToken)
  PROVE  /\ Deliver(outbox, <<Ack>>, OutCap) \in Seq(SketchToken)
         /\ Deliver(outbox, <<Nak>>, OutCap) \in Seq(SketchToken)
         /\ Deliver(outbox, <<Text>>, OutCap) \in Seq(SketchToken)
         /\ \A s \in Nat :
              Deliver(outbox, <<Top(s), Body(s)>>, OutCap) \in Seq(SketchToken)
<1>1. /\ <<Ack>> \in Seq(SketchToken)
      /\ <<Nak>> \in Seq(SketchToken)
      /\ <<Text>> \in Seq(SketchToken)
  BY DEF SketchToken
<1>2. \A s \in Nat : <<Top(s), Body(s)>> \in Seq(SketchToken)
  BY DEF SketchToken, Top, Body
<1> QED BY <1>1, <1>2, DeliverType, CapAssumption

LEMMA HostSaysType ==
  ASSUME inbox \in Seq(HostToken)
  PROVE  /\ \A c \in Command : Deliver(inbox, <<Cmd(c)>>, InCap) \in Seq(HostToken)
         /\ \A f \in Frame : Deliver(inbox, FrameTokens(f), InCap) \in Seq(HostToken)
<1>1. \A c \in Command : <<Cmd(c)>> \in Seq(HostToken)
  BY DEF Cmd, HostToken
<1>2. \A f \in Frame : FrameTokens(f) \in Seq(HostToken)
  BY DEF FrameTokens, Rest, Sum, HostToken
<1> QED BY <1>1, <1>2, DeliverType, CapAssumption

(* The conjuncts of SketchTypeOK that are not of the switch. *)
LoopTypeOK ==
  /\ pc \in {"command", "await", "receive", "periodic", "tohost", "hung"}
  /\ sizeRead \in BOOLEAN /\ stream \in BOOLEAN
  /\ once \in 0..(ByteMod - 1) /\ polled \in 0..2
  /\ bus \subseteq Slot

LineTypeOK == inbox \in Seq(HostToken) /\ outbox \in Seq(SketchToken)

LEMMA TypeParts ==
  SketchTypeOK <=> LoopTypeOK /\ LineTypeOK /\ SwitchTypeOK /\ Ring!RingTypeOK
BY DEF SketchTypeOK, LoopTypeOK, LineTypeOK, SwitchTypeOK

LEMMA LoopTypeNext == LoopTypeOK /\ SwitchTypeOK /\ [Next]_vars => LoopTypeOK'
<1> SUFFICES ASSUME LoopTypeOK, SwitchTypeOK, [Next]_vars PROVE LoopTypeOK'
  OBVIOUS
<1> USE ByteModAssumption DEF LoopTypeOK
<1>1. CASE NoCommand \/ Poll \/ Resend \/ Stream("q", TRUE) \/ Stream("w", FALSE)
           \/ DebugText \/ Hang \/ BeginFrame \/ RejectFrame
  <2> USE <1>1 DEF NoCommand, Poll, Resend, Stream, DebugText, Hang, BeginFrame,
                   RejectFrame, Reads, hostVars
  <2>1. pc' \in {"receive", "await", "hung"} /\ bus' = {}
    OBVIOUS
  <2>2. once' \in {once, 0, 2} /\ polled' \in {polled, 2}
    OBVIOUS
  <2>3. stream' \in {stream, TRUE, FALSE} /\ sizeRead' \in {sizeRead, TRUE, FALSE}
    OBVIOUS
  <2>4. once' \in 0..(ByteMod - 1) /\ polled' \in 0..2
    BY <2>2
  <2>5. stream' \in BOOLEAN /\ sizeRead' \in BOOLEAN
    BY <2>3, Zenon
  <2> QED BY <2>1, <2>4, <2>5
<1>2. CASE AcceptFrame
  <2>1. bus' \subseteq Slot
    BY <1>2, StoredType DEF AcceptFrame
  <2> QED BY <1>2, <2>1 DEF AcceptFrame, hostVars
<1>3. CASE Periodic
  <2>1. bus' \subseteq Slot
    BY <1>3 DEF Periodic, SwitchTypeOK
  <2> QED BY <1>3, <2>1 DEF Periodic, hostVars
<1>4. CASE ToHost
  <2>1. once' \in 0..(ByteMod - 1)
    BY <1>4 DEF ToHost, AfterAnswer
  <2> QED BY <1>4, <2>1 DEF ToHost
<1>5. CASE Receive \/ NothingToHost
  BY <1>5 DEF Receive, NothingToHost, hostVars
<1>6. CASE Watchdog
  <2>1. pc' = "command" /\ bus' = {} /\ once' = 0 /\ polled' = 0
    BY <1>6 DEF Watchdog, Reboot
  <2>2. sizeRead' = FALSE /\ stream' = FALSE
    BY <1>6, Zenon DEF Watchdog, Reboot
  <2>3. once' \in 0..(ByteMod - 1) /\ polled' \in 0..2 /\ bus' \subseteq Slot
    BY <2>1
  <2>4. sizeRead' \in BOOLEAN /\ stream' \in BOOLEAN
    BY <2>2, Zenon
  <2> QED BY <2>1, <2>3, <2>4
<1>7. CASE HostSends \/ LineFault \/ UNCHANGED vars
  BY <1>7 DEF HostSends, LineFault, vars, sketchVars, hostVars
<1> QED BY <1>1, <1>2, <1>3, <1>4, <1>5, <1>6, <1>7 DEF Next, SketchNext

LEMMA RingTypeNext == Ring!RingTypeOK /\ [Next]_vars => Ring!RingTypeOK'
<1> SUFFICES ASSUME [Next]_vars
             PROVE  \/ Ring!Put \/ Ring!Take \/ Ring!Rewind \/ Ring!Reset
                    \/ UNCHANGED ringVars
  BY RingTypes
<1>1. CASE NoCommand \/ Poll \/ Stream("q", TRUE) \/ Stream("w", FALSE)
           \/ DebugText \/ Hang \/ BeginFrame \/ AcceptFrame \/ RejectFrame
           \/ Periodic \/ NothingToHost
  BY <1>1 DEF NoCommand, Poll, Stream, DebugText, Hang, BeginFrame, AcceptFrame,
              RejectFrame, Periodic, NothingToHost
<1>2. CASE Resend \/ Receive \/ ToHost \/ Watchdog
  BY <1>2 DEF Resend, Receive, ToHost, Watchdog, Reboot
<1>3. CASE HostSends \/ LineFault \/ UNCHANGED vars
  BY <1>3 DEF HostSends, LineFault, vars, sketchVars
<1> QED BY <1>1, <1>2, <1>3 DEF Next, SketchNext

LEMMA LineTypeNext ==
  LineTypeOK /\ Ring!RingTypeOK /\ [Next]_vars => LineTypeOK'
<1> SUFFICES ASSUME LineTypeOK, Ring!RingTypeOK, [Next]_vars PROVE LineTypeOK'
  OBVIOUS
<1> USE DEF LineTypeOK
<1>1. ASSUME NEW c, Reads(c) PROVE inbox' \in Seq(HostToken)
  BY <1>1, AfterByteType DEF Reads
<1>2. CASE Poll \/ Resend \/ Stream("q", TRUE) \/ Stream("w", FALSE)
           \/ DebugText \/ Hang \/ BeginFrame
  BY <1>1, <1>2, SketchSaysType
  DEF Poll, Resend, Stream, DebugText, Hang, BeginFrame
<1>3. CASE AcceptFrame
  <2>1. Len(inbox) >= 2
    BY <1>3 DEF AcceptFrame, Checked
  <2>2. SubSeq(inbox, 3, Len(inbox)) \in Seq(HostToken)
    BY <2>1, RestType
  <2> QED BY <1>3, <2>2, SketchSaysType DEF AcceptFrame
<1>4. CASE RejectFrame
  BY <1>4, SketchSaysType DEF RejectFrame
<1>5. CASE ToHost
  <2>1. buffer[readIndex] \in Nat
    BY RxAssumption DEF Ring!RingTypeOK
  <2> QED BY <1>5, <2>1, SketchSaysType DEF ToHost
<1>6. CASE HostSends
  BY <1>6, HostSaysType, HostCommandsAssumption DEF HostSends
<1>7. CASE LineFault
  <2>1. PICK k \in 1..Len(inbox) : inbox' \in {Lost(inbox, k), Garbled(inbox, k)}
    BY <1>7 DEF LineFault
  <2>2. inbox[k] \in HostToken
    BY <2>1
  <2>3. Lost(inbox, k) \in Seq(HostToken)
    BY <2>1, LostType
  <2>4. Garbled(inbox, k) \in Seq(HostToken)
    BY <2>1, <2>2, GarbledType, NoiseTypes
  <2> QED BY <1>7, <2>1, <2>3, <2>4 DEF LineFault
<1>8. CASE NoCommand \/ Receive \/ Periodic \/ NothingToHost \/ UNCHANGED vars
  <2>1. UNCHANGED lineVars
    BY <1>8 DEF NoCommand, Receive, Periodic, NothingToHost, vars
  <2> QED BY <2>1 DEF lineVars
<1>9. CASE Watchdog
  BY <1>9 DEF Watchdog, Reboot
<1> QED BY <1>2, <1>3, <1>4, <1>5, <1>6, <1>7, <1>8, <1>9
        DEF Next, SketchNext

LEMMA TypeInit == Init => LoopTypeOK /\ LineTypeOK /\ Ring!RingTypeOK
BY RxAssumption, ByteModAssumption
DEF Init, Boot, LoopTypeOK, LineTypeOK, Ring!RingInit, Ring!RingTypeOK, Ring!Slots

(* Every variable of the sketch keeps its type, its ring indices and its   *)
(* unsigned counters included.                                             *)
THEOREM SketchTypeCorrect == Spec => []SketchTypeOK
<1>1. Init => SketchTypeOK /\ SwitchInv
  BY TypeInit, SwitchInit, TypeParts DEF SwitchInv
<1>2. SketchTypeOK /\ SwitchInv /\ [Next]_vars => SketchTypeOK' /\ SwitchInv'
  <2> SUFFICES ASSUME SketchTypeOK, SwitchInv, [Next]_vars
               PROVE  SketchTypeOK' /\ SwitchInv'
    OBVIOUS
  <2>1. SwitchInv' /\ SwitchTypeOK'
    BY SwitchNext DEF SwitchInv
  <2>2. LoopTypeOK' /\ LineTypeOK' /\ Ring!RingTypeOK'
    BY TypeParts, LoopTypeNext, LineTypeNext, RingTypeNext
  <2> QED BY <2>1, <2>2
          DEF SketchTypeOK, LoopTypeOK, LineTypeOK, SwitchTypeOK
<1> QED BY <1>1, <1>2, PTL DEF Spec
=============================================================================
