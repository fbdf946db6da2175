------------------------- MODULE BridgeSystemProofs -------------------------
(***************************************************************************)
(* The bridge as a system, for every number of identifiers, indices,       *)
(* slots, frames and tries, and with the node dying and starting again at  *)
(* any moment.  On a line that does no harm frames are asked for before    *)
(* they are sent, callbacks wait for no more frames than were asked for,   *)
(* frames are published once and in order until something disturbs them,   *)
(* and the table of the sketch is the node's.  On any line the dead man's  *)
(* switch works.                                                           *)
(***************************************************************************)
EXTENDS BridgeSystem, SerialLinkProofs, SequenceTheorems, FiniteSetTheorems

(* The bookkeeping of indices and the contents of the ring are proved of   *)
(* the components, and carried over to them as parts of the system.        *)
NodeP == INSTANCE BridgeNodeProofs WITH LineTokens <- {}
RingP == INSTANCE RxRingProofs WITH Size <- RxSlots, Back <- RxBack

-----------------------------------------------------------------------------
(* What is on a sound line towards the sketch: what the node writes, which *)
(* a full buffer, or the node's death, may cut short at its end.           *)
NodeFrame == [index : Node!HostIndex, period : Periods \union {Off},
              id : ArbId, data : Data]
Asked     == {Cmd("d"), Cmd("r"), Cmd("w")}
Written   == Asked \union {Size} \union ({"rest", "sum"} \X NodeFrame)

Shape(box, waits) ==
  \A k \in 1..Len(box) :
    /\ box[k][1] = "rest" => IF k = 1 THEN waits ELSE box[k - 1] = Size
    /\ box[k][1] = "sum" => k > 1 /\ box[k - 1][1] = "rest"

LEMMA WrittenTokens ==
  ASSUME NEW t \in Written
  PROVE  \/ t = Cmd("d") \/ t = Cmd("r") \/ t = Cmd("w") \/ t = Size
         \/ t[1] = "rest" \/ t[1] = "sum"
BY DEF Written, Asked

LEMMA NotRest ==
  /\ \A c : Cmd(c)[1] = "cmd" /\ Size[1] = "size" /\ Cmd(c) # Size
  /\ \A f : Rest(f)[1] = "rest" /\ Sum(f)[1] = "sum"
BY DEF Cmd, Size, Rest, Sum

LEMMA ShapeAppend ==
  ASSUME NEW box \in Seq(Written), NEW t \in Seq(Written), NEW w \in BOOLEAN,
         NEW m \in 0..Len(t), Shape(box, w), Shape(t, FALSE)
  PROVE  /\ box \o SubSeq(t, 1, m) \in Seq(Written)
         /\ Shape(box \o SubSeq(t, 1, m), w)
<1> DEFINE s == SubSeq(t, 1, m)
           both == box \o s
<1>1. s \in Seq(Written) /\ Len(s) = m /\ \A k \in 1..m : s[k] = t[k]
  OBVIOUS
<1> HIDE DEF s
<1>2. /\ both \in Seq(Written) /\ Len(both) = Len(box) + m
      /\ \A k \in 1..Len(box) : both[k] = box[k]
      /\ \A k \in 1..m : both[Len(box) + k] = t[k]
  BY <1>1
<1> HIDE DEF both
<1>3. ASSUME NEW k \in 1..Len(both)
      PROVE  /\ both[k][1] = "rest" => IF k = 1 THEN w ELSE both[k - 1] = Size
             /\ both[k][1] = "sum" => k > 1 /\ both[k - 1][1] = "rest"
  <2>1. CASE k <= Len(box)
    <3>1. both[k] = box[k] /\ (k > 1 => both[k - 1] = box[k - 1])
      BY <1>2, <2>1
    <3> QED BY <2>1, <3>1 DEF Shape
  <2>2. CASE k > Len(box)
    <3> DEFINE j == k - Len(box)
    <3>1. j \in 1..Len(t) /\ both[k] = t[j] /\ (j > 1 => both[k - 1] = t[j - 1])
      <4>1. j \in 1..m /\ Len(box) + j = k /\ Len(box) + (j - 1) = k - 1
        BY <1>2, <2>2
      <4>2. both[k] = t[j]
        BY <1>2, <4>1
      <4>3. j > 1 => both[k - 1] = t[j - 1]
        BY <1>2, <4>1
      <4> QED BY <4>1, <4>2, <4>3
    <3>2. /\ t[j][1] = "rest" => j > 1 /\ t[j - 1] = Size
          /\ t[j][1] = "sum" => j > 1 /\ t[j - 1][1] = "rest"
      BY <3>1 DEF Shape
    <3> QED BY <2>2, <3>1, <3>2
  <2> QED BY <1>2, <2>1, <2>2
<1> QED BY <1>2, <1>3 DEF Shape, both, s

(* The next byte read, of a command or of the size of a frame. *)
LEMMA ShapeTail ==
  ASSUME NEW box \in Seq(Written), box # <<>>, Shape(box, FALSE)
  PROVE  /\ Head(box) \in Asked \union {Size}
         /\ Tail(box) \in Seq(Written)
         /\ Shape(Tail(box), Head(box) = Size)
<1>1. Head(box) = box[1] /\ Len(box) >= 1 /\ box[1] \in Written
  OBVIOUS
<1>2. box[1][1] # "rest" /\ box[1][1] # "sum"
  BY <1>1 DEF Shape
<1>3. Head(box) \in Asked \union {Size}
  BY <1>1, <1>2, WrittenTokens DEF Asked
<1>4. /\ Tail(box) \in Seq(Written) /\ Len(Tail(box)) = Len(box) - 1
      /\ \A k \in 1..Len(Tail(box)) : Tail(box)[k] = box[k + 1]
  BY <1>1
<1>5. ASSUME NEW k \in 1..Len(Tail(box))
      PROVE  /\ Tail(box)[k][1] = "rest" =>
                  IF k = 1 THEN Head(box) = Size ELSE Tail(box)[k - 1] = Size
             /\ Tail(box)[k][1] = "sum" => k > 1 /\ Tail(box)[k - 1][1] = "rest"
  <2>1. k + 1 \in 1..Len(box) /\ k + 1 > 1 /\ (k + 1) - 1 = k
    BY <1>4
  <2>2. /\ box[k + 1][1] = "rest" => box[k] = Size
        /\ box[k + 1][1] = "sum" => box[k][1] = "rest"
    BY <2>1 DEF Shape
  <2>3. k > 1 => Tail(box)[k - 1] = box[k]
    <3>1. ASSUME k > 1 PROVE k - 1 \in 1..Len(Tail(box)) /\ (k - 1) + 1 = k
      BY <3>1
    <3> QED BY <1>4, <3>1
  <2> QED BY <1>1, <1>2, <1>4, <2>2, <2>3
<1> QED BY <1>3, <1>4, <1>5 DEF Shape

(* What is left behind the remainder of a frame. *)
LEMMA ShapeSkip ==
  ASSUME NEW box \in Seq(Written), NEW w \in BOOLEAN, Shape(box, w),
         Len(box) >= 2, box[2][1] = "sum"
  PROVE  /\ SubSeq(box, 3, Len(box)) \in Seq(Written)
         /\ Shape(SubSeq(box, 3, Len(box)), FALSE)
<1> DEFINE s == SubSeq(box, 3, Len(box))
<1>1. /\ s \in Seq(Written) /\ Len(s) = Len(box) - 2
      /\ \A k \in 1..Len(s) : s[k] = box[k + 2]
  <2>1. \A i \in 3..Len(box) : box[i] \in Written
    OBVIOUS
  <2>2. /\ s \in Seq(Written) /\ Len(s) = IF 3 <= Len(box) THEN Len(box) - 3 + 1 ELSE 0
        /\ \A k \in 1..(Len(box) - 3 + 1) : s[k] = box[3 + k - 1]
    BY <2>1, SubSeqProperties
  <2> HIDE DEF s
  <2>3. Len(s) = Len(box) - 2
    <3>1. Len(box) \in Nat
      OBVIOUS
    <3>2. \A n \in Nat : n >= 2 => n = 2 \/ 3 <= n
      OBVIOUS
    <3>3. Len(box) = 2 \/ 3 <= Len(box)
      BY <3>1, <3>2
    <3>4. CASE Len(box) = 2
      BY <2>2, <3>4
    <3>5. CASE 3 <= Len(box)
      BY <2>2, <3>1, <3>5
    <3> QED BY <3>3, <3>4, <3>5
  <2>4. ASSUME NEW k \in 1..Len(s) PROVE s[k] = box[k + 2]
    <3>1. 3 + k - 1 = k + 2 /\ k \in 1..(Len(box) - 3 + 1)
      BY <2>3
    <3> QED BY <2>2, <3>1
  <2> QED BY <2>2, <2>3, <2>4
<1> HIDE DEF s
<1>2. ASSUME NEW k \in 1..Len(s)
      PROVE  /\ s[k][1] = "rest" => IF k = 1 THEN FALSE ELSE s[k - 1] = Size
             /\ s[k][1] = "sum" => k > 1 /\ s[k - 1][1] = "rest"
  <2>1. k + 2 \in 1..Len(box) /\ k + 2 # 1 /\ (k + 2) - 1 = k + 1
    BY <1>1
  <2>2. /\ box[k + 2][1] = "rest" => box[k + 1] = Size
        /\ box[k + 2][1] = "sum" => box[k + 1][1] = "rest"
    BY <2>1 DEF Shape
  <2>3. CASE k = 1
    BY <1>1, <2>2, <2>3, NotRest
  <2>4. CASE k > 1
    <3>1. k - 1 \in 1..Len(s) /\ (k - 1) + 2 = k + 1
      BY <2>4
    <3>2. s[k - 1] = box[k + 1]
      BY <1>1, <3>1
    <3> QED BY <1>1, <2>2, <2>4, <3>2
  <2> QED BY <2>3, <2>4
<1> QED BY <1>1, <1>2 DEF Shape, s

-----------------------------------------------------------------------------
(* The steps of the node in the system are steps of BridgeNode. *)
LEMMA NodeActs ==
  \/ NodeTurn \/ Publish \/ NodeEnds \/ NodeRestarts
  => NodeP!Next
<1>1. Node!PollSketch => NodeP!PollSketch
  BY DEF Node!PollSketch, NodeP!PollSketch, Node!Polls, NodeP!Polls,
         Node!Write, NodeP!Write, Node!Deliver, NodeP!Deliver, Node!Cmd, NodeP!Cmd,
         Node!sendVars, NodeP!sendVars
<1>2. Node!SkipPoll => NodeP!SkipPoll
  BY DEF Node!SkipPoll, NodeP!SkipPoll, Node!sendVars, NodeP!sendVars,
         Node!lineVars, NodeP!lineVars
<1>3. Node!ReadGood => NodeP!ReadGood
  BY DEF Node!ReadGood, NodeP!ReadGood, Node!Taken, NodeP!Taken, Node!Overlay,
         NodeP!Overlay, Node!AsSize, NodeP!AsSize, Node!AsCount, NodeP!AsCount,
         Node!Ack, NodeP!Ack, Node!Nak, NodeP!Nak, Node!Checked, NodeP!Checked, Node!Gap, NodeP!Gap,
         Node!RxData, NodeP!RxData, Node!Count, NodeP!Count,
         Node!sendVars, NodeP!sendVars
<1>4. Node!ReadBad => NodeP!ReadBad
  BY DEF Node!ReadBad, NodeP!ReadBad, Node!Taken, NodeP!Taken, Node!Overlay,
         NodeP!Overlay, Node!AsSize, NodeP!AsSize, Node!AsCount, NodeP!AsCount,
         Node!Ack, NodeP!Ack, Node!Nak, NodeP!Nak, Node!Checked, NodeP!Checked,
         Node!RxData, NodeP!RxData, Node!Count, NodeP!Count,
         Node!sendVars, NodeP!sendVars
<1>5. Node!Timeout => NodeP!Timeout
  BY DEF Node!Timeout, NodeP!Timeout, Node!pollVars, NodeP!pollVars,
         Node!lineVars, NodeP!lineVars
<1> USE DEF Node!Calls, NodeP!Calls, Node!Held, NodeP!Held, Node!NoIndex,
            NodeP!NoIndex, Node!LowestFree, NodeP!LowestFree, Node!HostIndex,
            NodeP!HostIndex, Node!Begins, NodeP!Begins, Node!Answer, NodeP!Answer,
            Node!pollVars, NodeP!pollVars, Node!lineVars, NodeP!lineVars
<1>6. Node!SendNew => NodeP!SendNew
  BY DEF Node!SendNew, NodeP!SendNew
<1>7. Node!SendRefused => NodeP!SendRefused
  BY DEF Node!SendRefused, NodeP!SendRefused
<1>8. Node!SendHeld => NodeP!SendHeld
  BY DEF Node!SendHeld, NodeP!SendHeld
<1>9. Node!WriteFrame => NodeP!WriteFrame
  BY DEF Node!WriteFrame, NodeP!WriteFrame, Node!Write, NodeP!Write, Node!Deliver,
         NodeP!Deliver, Node!FrameTokens, NodeP!FrameTokens, Node!Rest, NodeP!Rest,
         Node!Size, NodeP!Size, Node!Sum, NodeP!Sum, Node!sendVars, NodeP!sendVars
<1>10. /\ Node!ReadAnswer => NodeP!ReadAnswer
       /\ Node!AnswerTimeout => NodeP!AnswerTimeout
  BY DEF Node!ReadAnswer, NodeP!ReadAnswer, Node!AnswerTimeout, NodeP!AnswerTimeout,
         Node!Judge, NodeP!Judge, Node!AnswersIn, NodeP!AnswersIn, Node!GivesUp,
         NodeP!GivesUp, Node!Returns, NodeP!Returns, Node!NoFrame, NodeP!NoFrame,
         Node!Ack, NodeP!Ack, Node!Nak, NodeP!Nak, Node!Text, NodeP!Text,
         Node!Noise, NodeP!Noise, Node!Off, NodeP!Off
<1>11. Node!CallsDone => NodeP!CallsDone
  BY DEF Node!CallsDone, NodeP!CallsDone, Node!sendVars, NodeP!sendVars
<1>12. Node!Publish => NodeP!Publish
  BY DEF Node!Publish, NodeP!Publish, Node!sendVars, NodeP!sendVars
<1>13. Node!Shutdown => NodeP!Shutdown
  BY DEF Node!Shutdown, NodeP!Shutdown, Node!Write, NodeP!Write, Node!Deliver,
         NodeP!Deliver, Node!Cmd, NodeP!Cmd, Node!sendVars, NodeP!sendVars
<1>14. Node!Crash => NodeP!Crash
  BY DEF Node!Crash, NodeP!Crash, Node!Write, NodeP!Write, Node!Deliver,
         NodeP!Deliver, Node!FrameTokens, NodeP!FrameTokens, Node!Rest, NodeP!Rest,
         Node!Size, NodeP!Size, Node!Sum, NodeP!Sum, Node!sendVars, NodeP!sendVars
<1>15. NodeRestarts => NodeP!Reopen
  BY DEF NodeRestarts, NodeP!Reopen, Sketch!Reboot, Node!Restart, NodeP!Restart,
         Node!NoRead, NodeP!NoRead, Node!NoFrame, NodeP!NoFrame, Node!Off, NodeP!Off
<1> QED
  BY <1>1, <1>2, <1>3, <1>4, <1>5, <1>6, <1>7, <1>8, <1>9, <1>10, <1>11, <1>12,
     <1>13, <1>14, <1>15
  DEF NodeTurn, NodeReads, NodeTimesOut, NodeBegins, NodeSends, Publish, NodeEnds,
      NodeP!Next, NodeP!NodeStep

(* What the components assume of their constants, the system does too. *)
LEMMA NodeAssumes ==
  /\ HostIndices \in Nat \ {0} /\ QueueCap \in Nat \ {0} /\ MaxTries \in Nat \ {0}
  /\ CountMod \in Nat \ {0} /\ OutCap \in Nat
  /\ NodeP!IsFiniteSet(ArbId)
  /\ Requests \subseteq [period : Periods, id : ArbId, data : Data]
BY NodeAssumption, SketchAssumption DEF NodeP!IsFiniteSet, IsFiniteSet

LEMMA NodeIndices ==
  NodeP!IndexInv /\ [Next]_vars => NodeP!IndexInv'
<1> SUFFICES ASSUME NodeP!IndexInv, [Next]_vars PROVE NodeP!IndexInv'
  OBVIOUS
<1>1. CASE NodeTurn \/ Publish \/ NodeEnds \/ NodeRestarts
  <2>1. NodeP!Next
    BY <1>1, NodeActs
  <2> QED BY <2>1, NodeAssumes, NodeP!IndexNext, IndicesAssumption,
             NonemptyAssumption, RestBytesAssumption, PeriodsAssumption
<1>2. CASE SketchTurn \/ LineFault \/ UNCHANGED vars
  <2>1. UNCHANGED <<npc, queue, transmitting, usedIndex, cur>>
    BY <1>2 DEF SketchTurn, LineFault, vars, nodeVars
  <2> QED BY <2>1 DEF NodeP!IndexInv, NodeP!IndexTypeOK, NodeP!IndexOwned, NodeP!IndexFits
<1> QED BY <1>1, <1>2 DEF Next

-----------------------------------------------------------------------------
(* On a sound line the sketch sees only what the node writes: it never     *)
(* streams or hangs, and its answers are counted by the host's last 'd'.   *)
LineSound  == inbox \in Seq(Written) /\ Shape(inbox, pc = "await")
AsksFirst  == stream = FALSE /\ once \in 0..2 /\ polled \in 0..2 /\ once <= polled
SoundInv   == NodeP!IndexInv /\ cur \in NodeFrame /\ LineSound /\ AsksFirst

LEMMA SoundInit == Init => SoundInv
<1> SUFFICES ASSUME Init PROVE SoundInv
  OBVIOUS
<1>1. NodeP!Init
  BY DEF Init, NodeP!Init, Node!Start, NodeP!Start, Node!NoIndex, NodeP!NoIndex,
         Node!HostIndex, NodeP!HostIndex, Node!NoRead, NodeP!NoRead,
         Node!NoFrame, NodeP!NoFrame, Node!Off, NodeP!Off
<1>2. NodeP!IndexInv
  BY <1>1, NodeP!IndexInit, NodeAssumes, IndicesAssumption, NonemptyAssumption,
     RestBytesAssumption, PeriodsAssumption
<1>3. cur \in NodeFrame
  BY NodeAssumption, NonemptyAssumption
  DEF Init, Node!Start, Node!NoFrame, NodeFrame, Node!HostIndex, Node!Off, Off
<1>4. LineSound
  <2>1. inbox = <<>>
    BY DEF Init
  <2>2. <<>> \in Seq(Written) /\ Len(<<>>) = 0
    OBVIOUS
  <2> QED BY <2>1, <2>2 DEF LineSound, Shape
<1>5. AsksFirst
  BY DEF Init, Sketch!Boot, AsksFirst
<1> QED BY <1>2, <1>3, <1>4, <1>5 DEF SoundInv

(* What the sketch reads of such a line. *)
LEMMA SoundReads ==
  ASSUME LineSound, NEW c, Sketch!Reads(c)
  PROVE  /\ c = "size" \/ (c \in {"d", "r", "w"} /\ Head(inbox) = Cmd(c))
         /\ inbox # <<>> /\ inbox' = Tail(inbox) /\ pc = "command"
         /\ inbox' \in Seq(Written) /\ Shape(inbox', c = "size")
<1>1. /\ pc = "command" /\ inbox # <<>>
      /\ c \in Sketch!Readings(Head(inbox)) /\ inbox' = Sketch!AfterByte(inbox)
  BY DEF Sketch!Reads
<1>2. /\ Head(inbox) \in Asked \union {Size}
      /\ Tail(inbox) \in Seq(Written)
      /\ Shape(Tail(inbox), Head(inbox) = Size)
  BY <1>1, ShapeTail DEF LineSound
<1>3. /\ Head(inbox) = Size => c = "size"
      /\ Head(inbox) \in Asked => c \in {"d", "r", "w"} /\ Head(inbox) = Cmd(c)
  BY <1>1 DEF Sketch!Readings, Asked, Cmd, Size
<1>4. Sketch!Width(Head(inbox)) = 1
  BY <1>2 DEF Sketch!Width, Asked, Cmd, Size
<1>5. inbox' = Tail(inbox)
  BY <1>1, <1>4 DEF Sketch!AfterByte
<1>6. (Head(inbox) = Size) = (c = "size")
  BY <1>2, <1>3 DEF Asked
<1> QED BY <1>1, <1>2, <1>3, <1>5, <1>6

(* What the node writes, whole or in part. *)
Writes(t) == \E m \in 0..Len(t) : inbox' = inbox \o SubSeq(t, 1, m)

Speech == {<<Cmd("d")>>, <<Cmd("r"), Cmd("d")>>, <<Cmd("w")>>} \union
          {FrameTokens(f) : f \in NodeFrame}

LEMMA SpeechShape ==
  ASSUME NEW t \in Speech
  PROVE  t \in Seq(Written) /\ Shape(t, FALSE)
<1>1. CASE t \in {<<Cmd("d")>>, <<Cmd("r"), Cmd("d")>>, <<Cmd("w")>>}
  <2>1. t \in Seq(Written)
    BY <1>1 DEF Written, Asked
  <2>2. \A k \in 1..Len(t) : t[k][1] = "cmd"
    BY <1>1, NotRest
  <2> QED BY <2>1, <2>2 DEF Shape
<1>2. ASSUME NEW f \in NodeFrame, t = FrameTokens(f)
      PROVE  t \in Seq(Written) /\ Shape(t, FALSE)
  <2>1. Rest(f) \in Written /\ Sum(f) \in Written /\ Size \in Written
    BY DEF Written, Rest, Sum
  <2>2. t \in Seq(Written) /\ Len(t) = 3 /\ t[1] = Size /\ t[2] = Rest(f) /\ t[3] = Sum(f)
    BY <1>2, <2>1 DEF FrameTokens
  <2>3. \A k \in 1..3 : k = 1 \/ k = 2 \/ k = 3
    OBVIOUS
  <2> QED BY <2>2, <2>3, NotRest DEF Shape
<1> QED BY <1>1, <1>2 DEF Speech

LEMMA SoundWrites ==
  ASSUME LineSound, NEW t \in Speech, Writes(t), pc' = pc
  PROVE  LineSound'
<1>1. PICK m \in 0..Len(t) : inbox' = inbox \o SubSeq(t, 1, m)
  BY DEF Writes
<1>2. t \in Seq(Written) /\ Shape(t, FALSE)
  BY SpeechShape
<1>3. inbox' \in Seq(Written) /\ Shape(inbox', pc = "await")
  BY <1>1, <1>2, ShapeAppend DEF LineSound
<1> QED BY <1>3 DEF LineSound

(* A write is a delivery into the buffer of the sketch. *)
LEMMA WriteIs ==
  ASSUME inbox \in Seq(Written), NEW t \in Speech, Node!Write(t)
  PROVE  /\ inbox' = inbox \o SubSeq(t, 1, Room(inbox, t, InCap))
         /\ Room(inbox, t, InCap) \in 0..Len(t) /\ Writes(t)
<1>1. inbox' = Deliver(inbox, t, InCap)
  BY DEF Node!Write, Node!Deliver, Deliver
<1>2. t \in Seq(Written) /\ InCap \in Nat
  BY SpeechShape, SketchAssumption
<1> QED BY <1>1, <1>2, DeliverCuts DEF Writes

(* What each step of the node, and its end, does to the line. *)
Resends == <<Cmd("r"), Cmd("d")>>

LEMMA NodeSays ==
  ASSUME SoundInv, NodeTurn \/ Publish \/ NodeEnds
  PROVE  UNCHANGED inbox \/ \E t \in Speech : Writes(t) /\ (datagood => t # Resends)
<1>1. inbox \in Seq(Written)
  BY DEF SoundInv, LineSound
<1>2. CASE Node!PollSketch
  <2>1. Node!Polls \in Speech
    BY DEF Node!Polls, Node!Cmd, Cmd, Speech
  <2>2. datagood => Node!Polls # Resends
    BY DEF Node!Polls, Node!Cmd, Cmd, Resends
  <2> QED BY <1>1, <1>2, <2>1, <2>2, WriteIs DEF Node!PollSketch
<1>3. FrameTokens(cur) \in Speech /\ Node!FrameTokens(cur) = FrameTokens(cur)
  BY DEF Speech, SoundInv, FrameTokens, Node!FrameTokens, Size, Node!Size, Rest,
         Node!Rest, Sum, Node!Sum
<1>9. FrameTokens(cur) # Resends
  <2>1. Len(FrameTokens(cur)) = 3 /\ Len(Resends) = 2
    BY DEF FrameTokens, Resends
  <2> QED BY <2>1
<1>4. CASE Node!WriteFrame
  BY <1>1, <1>3, <1>4, <1>9, WriteIs DEF Node!WriteFrame
<1>5. CASE Node!Shutdown
  <2>1. <<Node!Cmd("w")>> \in Speech
    BY DEF Node!Cmd, Cmd, Speech
  <2>2. <<Node!Cmd("w")>> # Resends
    <3>1. Len(<<Node!Cmd("w")>>) = 1 /\ Len(Resends) = 2
      BY DEF Resends
    <3> QED BY <3>1
  <2> QED BY <1>1, <1>5, <2>1, <2>2, WriteIs DEF Node!Shutdown
<1>6. CASE Node!Crash
  <2> SUFFICES ASSUME npc = "write" PROVE \E t \in Speech : Writes(t) /\ t # Resends
    BY <1>6 DEF Node!Crash
  <2>1. PICK k \in 0..2 : Node!Write(SubSeq(Node!FrameTokens(cur), 1, k))
    BY <1>6 DEF Node!Crash
  <2> DEFINE t == FrameTokens(cur)
             p == SubSeq(t, 1, k)
  <2>2. t \in Seq(Written) /\ Len(t) = 3
    BY <1>3, SpeechShape DEF FrameTokens
  <2>3. p \in Seq(Written) /\ Len(p) = k /\ \A i \in 1..k : p[i] = t[i]
    BY <2>2
  <2>4. inbox' = Deliver(inbox, p, InCap)
    BY <1>3, <2>1 DEF Node!Write, Node!Deliver, Deliver
  <2> HIDE DEF p
  <2> DEFINE r == Room(inbox, p, InCap)
  <2>5. r \in 0..Len(p) /\ inbox' = inbox \o SubSeq(p, 1, r)
    BY <1>1, <2>3, <2>4, DeliverCuts, SketchAssumption
  <2> HIDE DEF r, t
  <2>6. SubSeq(p, 1, r) = SubSeq(t, 1, r)
    BY <2>2, <2>3, <2>5
  <2>7. r \in 0..Len(t)
    BY <2>2, <2>3, <2>5
  <2>8. Writes(t)
    BY <2>5, <2>6, <2>7 DEF Writes
  <2> QED BY <1>3, <1>9, <2>8 DEF t
<1>7. CASE UNCHANGED inbox
  BY <1>7
<1>8. CASE Node!SkipPoll \/ Node!ReadGood \/ Node!ReadBad \/ Node!Timeout \/ Node!SendNew
           \/ Node!SendHeld \/ Node!SendRefused \/ Node!ReadAnswer
           \/ Node!AnswerTimeout \/ Node!CallsDone \/ Node!Publish
  BY <1>8 DEF Node!SkipPoll, Node!ReadGood, Node!ReadBad, Node!Timeout, Node!SendNew,
              Node!SendHeld, Node!SendRefused, Node!ReadAnswer, Node!AnswerTimeout,
              Node!CallsDone, Node!Publish, Node!Begins, Node!lineVars
<1> QED BY <1>2, <1>4, <1>5, <1>6, <1>8
        DEF NodeTurn, NodeReads, NodeTimesOut, NodeBegins, NodeSends, Publish, NodeEnds

-----------------------------------------------------------------------------
(* The other steps. *)
LEMMA SoundSteps ==
  ASSUME [Next]_vars, ~LineFault
  PROVE  SketchTurn \/ NodeTurn \/ Publish \/ NodeEnds \/ NodeRestarts \/ UNCHANGED vars
BY DEF Next

(* A line that may do no harm does none. *)
LEMMA FaultFree ==
  ASSUME MaxFaults = 0
  PROVE  /\ Init => faults = 0
         /\ faults = 0 /\ [Next]_vars => faults' = 0 /\ ~LineFault
BY DEF Init, Next, LineFault, SketchTurn, NodeTurn, Publish, NodeEnds, NodeRestarts,
       budgets, vars

LEMMA SoundSketch ==
  ASSUME SoundInv, SketchTurn
  PROVE  LineSound' /\ AsksFirst'
<1> USE DEF SoundInv
<1>1. ASSUME NEW c, Sketch!Reads(c), c # "size", pc' # "await"
      PROVE  LineSound'
  BY <1>1, SoundReads DEF LineSound
<1>2. CASE Sketch!Poll
  <2>1. LineSound'
    BY <1>1, <1>2 DEF Sketch!Poll
  <2> QED BY <1>2, <2>1 DEF Sketch!Poll, AsksFirst
<1>3. CASE Sketch!Resend \/ Sketch!Stream("w", FALSE)
  <2>1. LineSound'
    BY <1>1, <1>3 DEF Sketch!Resend, Sketch!Stream
  <2> QED BY <1>3, <2>1 DEF Sketch!Resend, Sketch!Stream, Sketch!hostVars, AsksFirst
<1>4. CASE Sketch!Stream("q", TRUE) \/ Sketch!DebugText \/ Sketch!Hang
  BY <1>4, SoundReads DEF Sketch!Stream, Sketch!DebugText, Sketch!Hang
<1>5. CASE Sketch!BeginFrame
  <2>1. Sketch!Reads("size")
    BY <1>5, SoundReads DEF Sketch!BeginFrame
  <2>2. LineSound'
    BY <1>5, <2>1, SoundReads DEF Sketch!BeginFrame, LineSound
  <2> QED BY <1>5, <2>2 DEF Sketch!BeginFrame, AsksFirst
<1>6. CASE Sketch!AcceptFrame
  <2>1. Len(inbox) >= 2 /\ inbox[2][1] = "sum"
    BY <1>6 DEF Sketch!AcceptFrame, Sketch!Checked, Sketch!Sum
  <2>2. inbox' = SubSeq(inbox, 3, Len(inbox)) /\ pc' = "receive"
    BY <1>6 DEF Sketch!AcceptFrame
  <2>3. LineSound'
    BY <2>1, <2>2, ShapeSkip DEF LineSound
  <2> QED BY <1>6, <2>3 DEF Sketch!AcceptFrame, Sketch!hostVars, AsksFirst
<1>7. CASE Sketch!RejectFrame \/ Sketch!Watchdog
  <2>1. inbox' = <<>> /\ Len(<<>>) = 0 /\ <<>> \in Seq(Written)
    BY <1>7 DEF Sketch!RejectFrame, Sketch!Watchdog, Sketch!Reboot
  <2>2. LineSound'
    BY <2>1 DEF LineSound, Shape
  <2>3. AsksFirst'
    BY <1>7 DEF Sketch!RejectFrame, Sketch!Watchdog, Sketch!Reboot, Sketch!hostVars, AsksFirst
  <2> QED BY <2>2, <2>3
<1>8. CASE Sketch!ToHost
  <2>1. once > 0 /\ once' = (once - 1) % ByteMod
    BY <1>8 DEF Sketch!ToHost, Sketch!AfterAnswer, AsksFirst
  <2>2. once' = once - 1 /\ polled' = polled - 1 /\ stream' = stream
    BY <1>8, <2>1, SketchAssumption DEF Sketch!ToHost, AsksFirst
  <2>3. AsksFirst'
    BY <2>1, <2>2 DEF AsksFirst
  <2>4. inbox' = inbox /\ (pc = "await") = (pc' = "await")
    BY <1>8 DEF Sketch!ToHost
  <2> QED BY <2>3, <2>4 DEF LineSound
<1>9. CASE \/ Sketch!NoCommand \/ Sketch!Receive \/ Sketch!Periodic \/ Sketch!NothingToHost
  <2>1. inbox' = inbox /\ (pc = "await") = (pc' = "await") /\ UNCHANGED <<stream, once, polled>>
    BY <1>9 DEF Sketch!NoCommand, Sketch!Receive, Sketch!Periodic, Sketch!NothingToHost,
                Sketch!lineVars, Sketch!hostVars
  <2> QED BY <2>1 DEF LineSound, AsksFirst
<1> QED BY <1>2, <1>3, <1>4, <1>5, <1>6, <1>7, <1>8, <1>9 DEF SketchTurn, Sketch!SketchNext

LEMMA CurType ==
  ASSUME SoundInv, NodeP!IndexInv', [Next]_vars
  PROVE  cur' \in NodeFrame
<1>1. CASE Node!SendNew \/ Node!SendHeld
  <2> DEFINE m == Head(queue)
  <2>1. queue \in Seq(Requests) /\ queue # <<>>
    BY <1>1 DEF SoundInv, NodeP!IndexInv, NodeP!IndexTypeOK, Node!SendNew, Node!SendHeld,
                Node!Calls
  <2>2. m.period \in Periods /\ m.id \in ArbId /\ m.data \in Data
    BY <2>1, NodeAssumption
  <2>3. /\ transmitting \in [ArbId -> Node!HostIndex \union {Node!NoIndex}]
        /\ transmitting' \in [ArbId -> Node!HostIndex \union {Node!NoIndex}]
    BY DEF SoundInv, NodeP!IndexInv, NodeP!IndexTypeOK, Node!HostIndex, Node!NoIndex,
           NodeP!HostIndex, NodeP!NoIndex
  <2>4. \E i \in Node!HostIndex :
          cur' = [index |-> i, period |-> m.period, id |-> m.id, data |-> m.data]
    <3>1. CASE Node!SendNew
      <4>1. /\ transmitting' = [transmitting EXCEPT ![m.id] = Node!LowestFree(usedIndex)]
            /\ Node!LowestFree(usedIndex) # Node!NoIndex
            /\ cur' = [index |-> Node!LowestFree(usedIndex), period |-> m.period,
                       id |-> m.id, data |-> m.data]
        BY <3>1 DEF Node!SendNew, Node!Begins
      <4>2. Node!LowestFree(usedIndex) \in Node!HostIndex
        BY <2>2, <2>3, <4>1
      <4> QED BY <4>1, <4>2
    <3>2. CASE Node!SendHeld
      BY <2>2, <2>3, <3>2 DEF Node!SendHeld, Node!Begins, Node!Held
    <3> QED BY <1>1, <3>1, <3>2
  <2> QED BY <2>2, <2>4 DEF NodeFrame
<1>2. CASE UNCHANGED cur
  BY <1>2 DEF SoundInv
<1>3. CASE cur' = Node!NoFrame
  BY <1>3, NodeAssumption, NonemptyAssumption
  DEF Node!NoFrame, NodeFrame, Node!HostIndex, Node!Off, Off
<1>4. CASE Node!ReadAnswer \/ Node!AnswerTimeout
  <2>1. \E t, box : Node!Judge(t, box)
    BY <1>4 DEF Node!ReadAnswer, Node!AnswerTimeout
  <2> QED BY <1>2, <1>3, <2>1 DEF Node!Judge, Node!Returns
<1>5. CASE NodeTurn
  <2>1. CASE \/ Node!PollSketch \/ Node!SkipPoll \/ Node!ReadGood \/ Node!ReadBad
             \/ Node!Timeout \/ Node!SendRefused \/ Node!WriteFrame \/ Node!CallsDone
    BY <1>2, <2>1 DEF Node!PollSketch, Node!SkipPoll, Node!ReadGood, Node!ReadBad,
         Node!Timeout, Node!SendRefused, Node!WriteFrame, Node!CallsDone, Node!sendVars
  <2> QED BY <1>1, <1>4, <1>5, <2>1
          DEF NodeTurn, NodeReads, NodeTimesOut, NodeBegins, NodeSends
<1>6. CASE SketchTurn \/ Publish \/ LineFault \/ NodeEnds \/ UNCHANGED vars
  BY <1>2, <1>6 DEF SketchTurn, Publish, LineFault, NodeEnds, vars, nodeVars, Node!Publish,
                    Node!Crash, Node!Shutdown, Node!sendVars
<1>7. CASE NodeRestarts
  BY <1>3, <1>7 DEF NodeRestarts, Node!Restart
<1> QED BY <1>5, <1>6, <1>7 DEF Next

(* When both sides start again the line is sound, whatever it was. *)
LEMMA SoundAfresh ==
  ASSUME NodeP!IndexInv', NodeRestarts
  PROVE  SoundInv'
<1>1. cur' \in NodeFrame
  BY NodeAssumption, NonemptyAssumption
  DEF NodeRestarts, Node!Restart, Node!NoFrame, NodeFrame, Node!HostIndex, Node!Off, Off
<1>2. inbox' = <<>> /\ Len(<<>>) = 0 /\ <<>> \in Seq(Written)
  BY DEF NodeRestarts, Sketch!Reboot
<1>3. stream' = FALSE /\ once' = 0 /\ polled' = 0
  BY DEF NodeRestarts, Sketch!Reboot
<1>4. LineSound' /\ AsksFirst'
  BY <1>2, <1>3 DEF LineSound, Shape, AsksFirst
<1> QED BY <1>1, <1>4 DEF SoundInv

LEMMA SoundNext ==
  ASSUME SoundInv, [Next]_vars, ~LineFault
  PROVE  SoundInv'
<1>1. NodeP!IndexInv' /\ cur' \in NodeFrame
  BY NodeIndices, CurType DEF SoundInv
<1>2. CASE SketchTurn
  <2>1. LineSound' /\ AsksFirst'
    BY <1>2, SoundSketch
  <2> QED BY <1>1, <2>1 DEF SoundInv
<1>3. CASE NodeTurn \/ Publish \/ NodeEnds
  <2>1. UNCHANGED <<pc, stream, once, polled>>
    BY <1>3 DEF NodeTurn, Publish, NodeEnds, sketchVars
  <2>2. UNCHANGED inbox \/ \E t \in Speech : Writes(t)
    BY <1>3, NodeSays
  <2>3. LineSound'
    BY <2>1, <2>2, SoundWrites DEF SoundInv, LineSound
  <2> QED BY <1>1, <2>1, <2>3 DEF SoundInv, AsksFirst
<1>4. CASE NodeRestarts
  BY <1>1, <1>4, SoundAfresh
<1>5. CASE UNCHANGED vars
  BY <1>1, <1>5 DEF vars, sketchVars, SoundInv, LineSound, AsksFirst
<1> QED BY <1>2, <1>3, <1>4, <1>5, SoundSteps

(* On a sound line the sketch sends the node nothing it has not asked for: *)
(* two frames for a 'd', however polls, timeouts and the node's death      *)
(* interleave (CANBridge.ino 157-160, 347-353).                            *)
THEOREM SolicitedOnlyCorrect ==
  ASSUME MaxFaults = 0
  PROVE  Spec => SolicitedOnly
<1> DEFINE Inv == faults = 0 /\ SoundInv
<1>1. Init => Inv
  BY SoundInit, FaultFree
<1>2. Inv /\ [Next]_vars => Inv'
  BY SoundNext, FaultFree
<1>3. Inv /\ [Next]_vars => [Sketch!ToHost => polled > 0]_vars
  BY DEF SoundInv, AsksFirst, Sketch!ToHost
<1> QED BY <1>1, <1>2, <1>3, PTL DEF Spec, SolicitedOnly

-----------------------------------------------------------------------------
(* How many tokens of a buffer are of one kind. *)
Marks(box, G)   == {k \in 1..Len(box) : box[k] \in G}
HowMany(box, G) == Cardinality(Marks(box, G))

LEMMA HowManyType ==
  ASSUME NEW S, NEW box \in Seq(S), NEW G
  PROVE  IsFiniteSet(Marks(box, G)) /\ HowMany(box, G) \in Nat
<1>1. IsFiniteSet(1..Len(box))
  BY FS_Interval
<1>2. Marks(box, G) \in SUBSET (1..Len(box))
  BY DEF Marks
<1>3. IsFiniteSet(Marks(box, G))
  BY <1>1, <1>2, FS_Subset
<1> QED BY <1>3, FS_CardinalityType DEF HowMany

LEMMA HowManyEmpty == \A G : HowMany(<<>>, G) = 0
<1>1. \A G : Marks(<<>>, G) = {}
  BY DEF Marks
<1> QED BY <1>1, FS_EmptySet DEF HowMany

(* Taking tokens from the front adds none. *)
LEMMA HowManySuffix ==
  ASSUME NEW S, NEW box \in Seq(S), NEW G, NEW j \in 0..Len(box)
  PROVE  HowMany(SubSeq(box, j + 1, Len(box)), G) <= HowMany(box, G)
<1> DEFINE s == SubSeq(box, j + 1, Len(box))
           f == [k \in Marks(s, G) |-> k + j]
<1>1. s \in Seq(S) /\ Len(s) = Len(box) - j /\ \A k \in 1..Len(s) : s[k] = box[k + j]
  OBVIOUS
<1>2. \A k \in Marks(s, G) : k \in Nat /\ k + j \in Marks(box, G)
  <2> SUFFICES ASSUME NEW k \in Marks(s, G) PROVE k \in Nat /\ k + j \in Marks(box, G)
    OBVIOUS
  <2>1. k \in 1..Len(s) /\ s[k] \in G
    BY DEF Marks
  <2>2. k + j \in 1..Len(box) /\ box[k + j] \in G
    BY <1>1, <2>1
  <2> QED BY <2>1, <2>2 DEF Marks
<1>3. f \in Injection(Marks(s, G), Marks(box, G))
  BY <1>2 DEF Injection, IsInjective
<1>4. IsFiniteSet(Marks(box, G))
  BY HowManyType
<1> QED BY <1>3, <1>4, FS_Injection DEF HowMany

(* Taking one of them leaves one less. *)
LEMMA HowManyTail ==
  ASSUME NEW S, NEW box \in Seq(S), NEW G, box # <<>>
  PROVE  /\ HowMany(Tail(box), G) <= HowMany(box, G)
         /\ Head(box) \in G => HowMany(Tail(box), G) + 1 <= HowMany(box, G)
<1> DEFINE s == Tail(box)
           f == [k \in Marks(s, G) |-> k + 1]
<1>1. /\ s \in Seq(S) /\ Len(s) = Len(box) - 1 /\ Head(box) = box[1] /\ 1 \in 1..Len(box)
      /\ \A k \in 1..Len(s) : s[k] = box[k + 1]
  OBVIOUS
<1>2. \A k \in Marks(s, G) : k \in Nat /\ k + 1 \in Marks(box, G) \ {1}
  <2> SUFFICES ASSUME NEW k \in Marks(s, G)
               PROVE  k \in Nat /\ k + 1 \in Marks(box, G) \ {1}
    OBVIOUS
  <2>1. k \in 1..Len(s) /\ s[k] \in G
    BY DEF Marks
  <2>2. k + 1 \in 1..Len(box) /\ box[k + 1] \in G /\ k + 1 # 1
    BY <1>1, <2>1
  <2> QED BY <2>1, <2>2 DEF Marks
<1>3. f \in Injection(Marks(s, G), Marks(box, G) \ {1})
  BY <1>2 DEF Injection, IsInjective
<1>4. IsFiniteSet(Marks(box, G)) /\ HowMany(box, G) \in Nat /\ HowMany(s, G) \in Nat
  BY <1>1, HowManyType
<1>5. /\ IsFiniteSet(Marks(box, G) \ {1})
      /\ Cardinality(Marks(box, G) \ {1})
           = IF 1 \in Marks(box, G) THEN HowMany(box, G) - 1 ELSE HowMany(box, G)
  BY <1>4, FS_RemoveElement DEF HowMany
<1>6. HowMany(s, G) <= Cardinality(Marks(box, G) \ {1})
  BY <1>3, <1>5, FS_Injection DEF HowMany
<1>7. Head(box) \in G => 1 \in Marks(box, G)
  BY <1>1 DEF Marks
<1> HIDE DEF s
<1> QED BY <1>4, <1>5, <1>6, <1>7 DEF s

(* Tokens of another kind, or one and others, behind a buffer. *)
LEMMA HowManyAppend ==
  ASSUME NEW S, NEW box \in Seq(S), NEW t \in Seq(S), NEW G,
         \A k \in 2..Len(t) : t[k] \notin G
  PROVE  /\ HowMany(box \o t, G) <= HowMany(box, G) + 1
         /\ Len(t) = 0 \/ t[1] \notin G => HowMany(box \o t, G) = HowMany(box, G)
<1> DEFINE both == box \o t
<1>1. /\ both \in Seq(S) /\ Len(both) = Len(box) + Len(t)
      /\ \A k \in 1..Len(box) : both[k] = box[k]
      /\ \A k \in 1..Len(t) : both[Len(box) + k] = t[k]
  OBVIOUS
<1>2. Len(box) \in Nat /\ Len(t) \in Nat
  OBVIOUS
<1> HIDE DEF both
<1>3. \A k \in 1..Len(both) : k > Len(box) => both[k] = t[k - Len(box)] /\ k - Len(box) \in 1..Len(t)
  <2> SUFFICES ASSUME NEW k \in 1..Len(both), k > Len(box)
               PROVE  both[k] = t[k - Len(box)] /\ k - Len(box) \in 1..Len(t)
    OBVIOUS
  <2>1. k - Len(box) \in 1..Len(t) /\ Len(box) + (k - Len(box)) = k
    BY <1>1, <1>2
  <2> QED BY <1>1, <2>1
<1>4. Marks(both, G) \subseteq Marks(box, G) \union {Len(box) + 1}
  <2> SUFFICES ASSUME NEW k \in Marks(both, G), k # Len(box) + 1
               PROVE  k \in Marks(box, G)
    OBVIOUS
  <2>1. k \in 1..Len(both) /\ both[k] \in G
    BY DEF Marks
  <2>2. CASE k > Len(box)
    <3>1. k - Len(box) \in 2..Len(t)
      BY <1>2, <1>3, <2>1, <2>2
    <3> QED BY <1>3, <2>1, <2>2, <3>1
  <2>3. CASE k <= Len(box)
    <3>1. k \in 1..Len(box)
      BY <1>2, <2>1, <2>3
    <3> QED BY <1>1, <2>1, <3>1 DEF Marks
  <2> QED BY <1>2, <2>1, <2>2, <2>3
<1>5. ASSUME Len(t) = 0 \/ t[1] \notin G PROVE Marks(both, G) = Marks(box, G)
  <2>1. Len(box) + 1 \notin Marks(both, G)
    <3> SUFFICES ASSUME Len(box) + 1 \in 1..Len(both), both[Len(box) + 1] \in G PROVE FALSE
      BY DEF Marks
    <3>1. Len(t) >= 1
      BY <1>1, <1>2
    <3>2. both[Len(box) + 1] = t[1]
      BY <1>1, <1>2, <3>1
    <3> QED BY <1>2, <1>5, <3>1, <3>2
  <2>2. Marks(box, G) \subseteq Marks(both, G)
    <3> SUFFICES ASSUME NEW k \in 1..Len(box), box[k] \in G
                 PROVE  k \in 1..Len(both) /\ both[k] \in G
      BY DEF Marks
    <3> QED BY <1>1, <1>2
  <2> QED BY <1>4, <2>1, <2>2
<1>6. IsFiniteSet(Marks(box, G)) /\ HowMany(box, G) \in Nat
  BY HowManyType
<1>7. /\ IsFiniteSet(Marks(box, G) \union {Len(box) + 1})
      /\ Cardinality(Marks(box, G) \union {Len(box) + 1}) <= HowMany(box, G) + 1
  <2>1. /\ IsFiniteSet(Marks(box, G) \union {Len(box) + 1})
        /\ Cardinality(Marks(box, G) \union {Len(box) + 1})
             = IF Len(box) + 1 \in Marks(box, G) THEN HowMany(box, G)
                                                 ELSE HowMany(box, G) + 1
    BY <1>6, FS_AddElement DEF HowMany
  <2> QED BY <1>6, <2>1
<1>8. /\ HowMany(both, G) <= Cardinality(Marks(box, G) \union {Len(box) + 1})
      /\ HowMany(both, G) \in Nat
  BY <1>1, <1>4, <1>7, FS_Subset, HowManyType DEF HowMany
<1>9. HowMany(both, G) <= HowMany(box, G) + 1
  <2>1. Cardinality(Marks(box, G) \union {Len(box) + 1}) \in Nat
    BY <1>7, FS_CardinalityType
  <2> QED BY <1>6, <1>7, <1>8, <2>1
<1> QED BY <1>5, <1>9 DEF HowMany, both

-----------------------------------------------------------------------------
(* The ring of the sketch in the system is an RxRing. *)
LEMMA RingActs == [Next]_vars => [RingP!RingNext]_(RingP!ringVars)
<1> SUFFICES ASSUME [Next]_vars PROVE [RingP!RingNext]_(RingP!ringVars)
  OBVIOUS
<1> USE DEF Sketch!Ring!Slots, RingP!Slots, Sketch!Ring!Advance, RingP!Advance,
            Sketch!Ring!StepOver, RingP!StepOver, Sketch!Ring!StepBack, RingP!StepBack
<1>1. Sketch!Ring!Put => RingP!Put
  BY DEF Sketch!Ring!Put, RingP!Put
<1>2. Sketch!Ring!Take => RingP!Take
  BY DEF Sketch!Ring!Take, RingP!Take
<1>3. Sketch!Ring!Rewind => RingP!Rewind
  BY DEF Sketch!Ring!Rewind, RingP!Rewind
<1>4. Sketch!Ring!Reset => RingP!Reset
  BY DEF Sketch!Ring!Reset, RingP!Reset
<1>5. CASE UNCHANGED Sketch!ringVars
  BY <1>5 DEF Sketch!ringVars, RingP!ringVars
<1>6. CASE SketchTurn
  <2>1. CASE Sketch!Receive
    BY <1>1, <1>5, <2>1 DEF Sketch!Receive, RingP!RingNext
  <2>2. CASE Sketch!ToHost
    BY <1>2, <2>2 DEF Sketch!ToHost, RingP!RingNext
  <2>3. CASE Sketch!Resend
    BY <1>3, <2>3 DEF Sketch!Resend, RingP!RingNext
  <2>4. CASE Sketch!Watchdog
    BY <1>4, <2>4 DEF Sketch!Watchdog, Sketch!Reboot, RingP!RingNext
  <2>5. CASE \/ Sketch!NoCommand \/ Sketch!Poll \/ Sketch!Stream("q", TRUE)
             \/ Sketch!Stream("w", FALSE) \/ Sketch!DebugText \/ Sketch!Hang
             \/ Sketch!BeginFrame \/ Sketch!AcceptFrame \/ Sketch!RejectFrame
             \/ Sketch!Periodic \/ Sketch!NothingToHost
    BY <1>5, <2>5 DEF Sketch!NoCommand, Sketch!Poll, Sketch!Stream, Sketch!DebugText,
         Sketch!Hang, Sketch!BeginFrame, Sketch!AcceptFrame, Sketch!RejectFrame,
         Sketch!Periodic, Sketch!NothingToHost
  <2> QED BY <1>6, <2>1, <2>2, <2>3, <2>4, <2>5 DEF SketchTurn, Sketch!SketchNext
<1>7. CASE NodeRestarts
  BY <1>4, <1>7 DEF NodeRestarts, Sketch!Reboot, RingP!RingNext
<1>8. CASE NodeTurn \/ Publish \/ LineFault \/ NodeEnds \/ UNCHANGED vars
  BY <1>5, <1>8 DEF NodeTurn, Publish, LineFault, NodeEnds, sketchVars, vars, Sketch!ringVars
<1> QED BY <1>6, <1>7, <1>8 DEF Next

LEMMA RingInitial == Init => RingP!RingInit
BY DEF Init, Sketch!Boot, Sketch!Ring!RingInit, RingP!RingInit, Sketch!Ring!Slots,
       RingP!Slots

RingSound == RingP!RingTypeOK /\ RingP!RingContents

LEMMA RingSoundInit == Init => RingSound
BY RingInitial, RingP!TypeInit, RingP!ContentsInit, SketchAssumption DEF RingSound

LEMMA RingSoundNext == RingSound /\ [Next]_vars => RingSound'
BY RingActs, RingP!TypeNext, RingP!ContentsNext, SketchAssumption DEF RingSound

-----------------------------------------------------------------------------
(* What the sketch may have sent. *)
Replies == outbox \in Seq(SketchToken)

LEMMA Sends ==
  ASSUME Replies, NEW t \in Seq(SketchToken), outbox' = Deliver(outbox, t, OutCap)
  PROVE  Replies'
BY DeliverType, SketchAssumption DEF Replies

LEMMA ReplyTokens ==
  /\ <<Ack>> \in Seq(SketchToken) /\ <<Nak>> \in Seq(SketchToken)
  /\ <<Text>> \in Seq(SketchToken)
  /\ \A n \in Nat : <<Top(n), Body(n)>> \in Seq(SketchToken)
<1>1. Ack \in SketchToken /\ Nak \in SketchToken /\ Text \in SketchToken
  BY DEF SketchToken
<1>2. \A n \in Nat : Top(n) \in SketchToken /\ Body(n) \in SketchToken
  BY DEF SketchToken, Top, Body
<1> QED BY <1>1, <1>2

(* The frame the sketch is about to hand over. *)
LEMMA Handed ==
  ASSUME RingSound
  PROVE  buffer[readIndex] \in 0..MaxFrames
BY DEF RingSound, RingP!RingTypeOK, RingP!Slots

LEMMA RepliesNext == RingSound /\ Replies /\ [Next]_vars => Replies'
<1> SUFFICES ASSUME RingSound, Replies, [Next]_vars PROVE Replies'
  OBVIOUS
<1>1. CASE UNCHANGED outbox
  BY <1>1 DEF Replies
<1>2. CASE outbox' = <<>>
  <2>1. <<>> \in Seq(SketchToken)
    OBVIOUS
  <2> QED BY <1>2, <2>1 DEF Replies
<1>3. CASE SketchTurn
  <2>1. CASE Sketch!ToHost
    <3>1. buffer[readIndex] \in Nat
      BY Handed, SketchAssumption
    <3>2. outbox' = Deliver(outbox, <<Top(buffer[readIndex]), Body(buffer[readIndex])>>, OutCap)
      BY <2>1 DEF Sketch!ToHost, Sketch!Deliver, Deliver, Sketch!Top, Top, Sketch!Body, Body
    <3> QED BY <3>1, <3>2, ReplyTokens, Sends
  <2>2. CASE Sketch!AcceptFrame \/ Sketch!RejectFrame
    <3>1. \/ outbox' = Deliver(outbox, <<Ack>>, OutCap)
          \/ outbox' = Deliver(outbox, <<Nak>>, OutCap)
      BY <2>2 DEF Sketch!AcceptFrame, Sketch!RejectFrame, Sketch!Deliver, Deliver,
                  Sketch!Ack, Ack, Sketch!Nak, Nak
    <3> QED BY <3>1, ReplyTokens, Sends
  <2>3. CASE Sketch!DebugText
    <3>1. outbox' = Deliver(outbox, <<Text>>, OutCap) \/ UNCHANGED outbox
      BY <2>3 DEF Sketch!DebugText, Sketch!Deliver, Deliver, Sketch!Text, Text
    <3> QED BY <1>1, <3>1, ReplyTokens, Sends
  <2>4. CASE \/ Sketch!NoCommand \/ Sketch!Poll \/ Sketch!Stream("q", TRUE) \/ Sketch!Resend
             \/ Sketch!Stream("w", FALSE) \/ Sketch!Hang \/ Sketch!Receive
             \/ Sketch!BeginFrame \/ Sketch!Watchdog
             \/ Sketch!Periodic \/ Sketch!NothingToHost
    BY <1>1, <2>4 DEF Sketch!NoCommand, Sketch!Poll, Sketch!Stream, Sketch!Resend,
         Sketch!Hang, Sketch!BeginFrame, Sketch!Receive, Sketch!Watchdog,
         Sketch!Periodic, Sketch!NothingToHost, Sketch!lineVars
  <2> QED BY <1>3, <2>1, <2>2, <2>3, <2>4 DEF SketchTurn, Sketch!SketchNext
<1>4. CASE Node!ReadGood
  <2> DEFINE k == Node!Taken + 1
  <2>1. Len(outbox) \in Nat
    BY DEF Replies
  <2>2. k \in 1..(Len(outbox) + 1)
    BY <2>1 DEF Node!Taken
  <2>3. outbox' = SubSeq(outbox, k, Len(outbox))
    BY <1>4 DEF Node!ReadGood
  <2> HIDE DEF k
  <2> QED BY <2>2, <2>3, RestType DEF Replies
<1>5. CASE Node!ReadAnswer
  <2>1. PICK a \in Node!AnswersIn(Head(outbox)) : outbox' = a[2] \o Tail(outbox)
    BY <1>5 DEF Node!ReadAnswer
  <2>2. a[2] \in Seq(SketchToken)
    <3>1. a[2] = <<>> \/ a[2] = <<Noise(1)>>
      BY DEF Node!AnswersIn, Node!Noise, Noise
    <3>2. Noise(1) \in SketchToken
      BY RestBytesAssumption DEF Noise, SketchToken
    <3>3. <<>> \in Seq(SketchToken) /\ <<Noise(1)>> \in Seq(SketchToken)
      BY <3>2
    <3> QED BY <3>1, <3>3
  <2>3. Tail(outbox) \in Seq(SketchToken)
    BY <1>5, TailType DEF Node!ReadAnswer, Replies
  <2> QED BY <2>1, <2>2, <2>3 DEF Replies
<1>6. CASE LineFault
  <2>1. \A k \in 1..Len(outbox) : /\ Lost(outbox, k) \in Seq(SketchToken)
                                  /\ Garbled(outbox, k) \in Seq(SketchToken)
    <3> SUFFICES ASSUME NEW k \in 1..Len(outbox)
                 PROVE  /\ Lost(outbox, k) \in Seq(SketchToken)
                        /\ Garbled(outbox, k) \in Seq(SketchToken)
      OBVIOUS
    <3>1. outbox[k] \in SketchToken
      BY DEF Replies
    <3>2. Width(outbox[k]) \in 1..RestBytes
      BY <3>1, RestBytesAssumption DEF SketchToken, Width, Ack, Nak, Text
    <3>3. Noise(Width(outbox[k])) \in SketchToken
      BY <3>2 DEF Noise, SketchToken
    <3> QED BY <3>3, LostType, GarbledType DEF Replies
  <2> QED BY <1>1, <1>6, <2>1 DEF LineFault, Replies
<1>7. CASE NodeTurn /\ ~Node!ReadGood /\ ~Node!ReadAnswer
  BY <1>1, <1>2, <1>7
  DEF NodeTurn, NodeReads, NodeTimesOut, NodeBegins, NodeSends, Node!PollSketch,
      Node!SkipPoll, Node!ReadBad, Node!Timeout, Node!SendNew, Node!SendHeld,
      Node!SendRefused, Node!WriteFrame, Node!CallsDone, Node!AnswerTimeout,
      Node!Begins, Node!lineVars
<1>8. CASE Publish \/ NodeEnds \/ UNCHANGED vars
  BY <1>1, <1>8 DEF Publish, Node!Publish, NodeEnds, Node!Crash, Node!Shutdown,
                    Node!lineVars, vars
<1>9. CASE NodeRestarts
  BY <1>2, <1>9 DEF NodeRestarts, Node!Restart
<1> QED BY <1>3, <1>4, <1>5, <1>6, <1>7, <1>8, <1>9 DEF Next

-----------------------------------------------------------------------------
(* Frames owed to the node: asked for, promised, and on their way. *)
Asks == {Cmd("d")}
Tops == {t \in SketchToken : t[1] = "top"}

OwedInv == SoundInv /\ RingSound /\ Replies

LEMMA OwedInit == Init => OwedInv
<1> SUFFICES ASSUME Init PROVE OwedInv
  OBVIOUS
<1>1. outbox = <<>> /\ <<>> \in Seq(SketchToken)
  BY DEF Init
<1> QED BY <1>1, SoundInit, RingSoundInit DEF OwedInv, Replies

LEMMA OwedNext ==
  ASSUME OwedInv, [Next]_vars, ~LineFault
  PROVE  OwedInv'
BY SoundNext, RingSoundNext, RepliesNext DEF OwedInv

LEMMA FramesOwedIs ==
  ASSUME Replies
  PROVE  FramesOwed = 2 * HowMany(inbox, Asks) + once + HowMany(outbox, Tops)
<1>1. {k \in 1..Len(inbox) : inbox[k] = Cmd("d")} = Marks(inbox, Asks)
  BY DEF Marks, Asks
<1>2. {k \in 1..Len(outbox) : outbox[k][1] = "top"} = Marks(outbox, Tops)
  BY DEF Marks, Tops, Replies
<1> QED BY <1>1, <1>2 DEF FramesOwed, HowMany

LEMMA OwedTypes ==
  ASSUME OwedInv
  PROVE  /\ HowMany(inbox, Asks) \in Nat /\ HowMany(outbox, Tops) \in Nat
         /\ once \in 0..2 /\ inbox \in Seq(Written) /\ outbox \in Seq(SketchToken)
BY HowManyType DEF OwedInv, SoundInv, LineSound, AsksFirst, Replies

(* An answer is not a frame, and what the node writes while a callback     *)
(* waits asks for none.                                                    *)
LEMMA OwedAnswer ==
  ASSUME OwedInv, NEW t \in SketchToken, t[1] # "top",
         outbox' = Deliver(outbox, <<t>>, OutCap)
  PROVE  HowMany(outbox', Tops) = HowMany(outbox, Tops)
<1> DEFINE r == Room(outbox, <<t>>, OutCap)
           s == SubSeq(<<t>>, 1, r)
<1>1. <<t>> \in Seq(SketchToken)
  OBVIOUS
<1>2. r \in 0..1 /\ outbox' = outbox \o s
  <2>1. Len(<<t>>) = 1
    OBVIOUS
  <2> QED BY <1>1, <2>1, OwedTypes, DeliverCuts, SketchAssumption
<1> HIDE DEF r
<1>3. s \in Seq(SketchToken) /\ Len(s) = r /\ \A k \in 1..r : s[k] = t
  BY <1>1, <1>2
<1>4. t \notin Tops
  BY DEF Tops
<1> HIDE DEF s
<1>5. (\A k \in 2..Len(s) : s[k] \notin Tops) /\ (Len(s) = 0 \/ s[1] \notin Tops)
  BY <1>2, <1>3, <1>4
<1>6. HowMany(outbox \o s, Tops) = HowMany(outbox, Tops)
  BY <1>3, <1>5, OwedTypes, HowManyAppend
<1> QED BY <1>2, <1>6

LEMMA OwedFrame ==
  ASSUME OwedInv, NEW n \in Nat,
         outbox' = Deliver(outbox, <<Top(n), Body(n)>>, OutCap)
  PROVE  HowMany(outbox', Tops) <= HowMany(outbox, Tops) + 1
<1> DEFINE t == <<Top(n), Body(n)>>
           r == Room(outbox, t, OutCap)
           s == SubSeq(t, 1, r)
<1>1. t \in Seq(SketchToken) /\ Len(t) = 2 /\ t[2] = Body(n)
  BY ReplyTokens
<1> HIDE DEF t
<1>2. r \in 0..Len(t) /\ outbox' = outbox \o s
  BY <1>1, OwedTypes, DeliverCuts, SketchAssumption DEF t
<1> HIDE DEF r
<1>3. s \in Seq(SketchToken) /\ Len(s) = r /\ \A k \in 1..r : s[k] = t[k]
  BY <1>1, <1>2, PrefixType
<1>4. Body(n) \notin Tops
  BY DEF Tops, Body
<1> HIDE DEF s
<1>5. \A k \in 2..Len(s) : s[k] \notin Tops
  BY <1>1, <1>2, <1>3, <1>4
<1> QED BY <1>2, <1>3, <1>5, OwedTypes, HowManyAppend

LEMMA OwedWrite ==
  ASSUME OwedInv, NEW t \in Seq(Written), \A k \in 1..Len(t) : t[k] # Cmd("d"),
         inbox' = Deliver(inbox, t, InCap)
  PROVE  HowMany(inbox', Asks) = HowMany(inbox, Asks)
<1> DEFINE r == Room(inbox, t, InCap)
           s == SubSeq(t, 1, r)
<1>1. r \in 0..Len(t) /\ inbox' = inbox \o s
  BY OwedTypes, DeliverCuts, SketchAssumption
<1> HIDE DEF r
<1>2. s \in Seq(Written) /\ Len(s) = r /\ \A k \in 1..r : s[k] = t[k]
  BY <1>1
<1> HIDE DEF s
<1>3. \A k \in 1..Len(s) : s[k] \notin Asks
  BY <1>1, <1>2 DEF Asks
<1> QED BY <1>1, <1>2, <1>3, OwedTypes, HowManyAppend

LEMMA OwedSketch ==
  ASSUME OwedInv, SketchTurn
  PROVE  2 * HowMany(inbox', Asks) + once' + HowMany(outbox', Tops)
           <= 2 * HowMany(inbox, Asks) + once + HowMany(outbox, Tops)
<1> DEFINE a == HowMany(inbox, Asks)
           b == HowMany(outbox, Tops)
<1> HIDE DEF a, b
<1>1. a \in Nat /\ b \in Nat /\ once \in 0..2 /\ LineSound
  BY OwedTypes DEF a, b, OwedInv, SoundInv
<1>2. HowMany(inbox, Asks) = a /\ HowMany(outbox, Tops) = b
  BY DEF a, b
<1>3. ASSUME NEW c, Sketch!Reads(c)
      PROVE  /\ HowMany(inbox', Asks) \in Nat /\ HowMany(inbox', Asks) <= a
             /\ c = "d" => HowMany(inbox', Asks) + 1 <= a
  <2>1. inbox # <<>> /\ inbox' = Tail(inbox) /\ inbox' \in Seq(Written)
    BY <1>1, <1>3, SoundReads
  <2>2. c = "d" => Head(inbox) \in Asks
    BY <1>1, <1>3, SoundReads DEF Asks
  <2> QED BY <1>2, <2>1, <2>2, HowManyTail, HowManyType, OwedTypes
<1>4. CASE Sketch!Poll
  <2>1. Sketch!Reads("d") /\ once' = 2 /\ outbox' = outbox
    BY <1>4 DEF Sketch!Poll
  <2>2. HowMany(inbox', Asks) \in Nat /\ HowMany(inbox', Asks) + 1 <= a
    BY <1>3, <2>1
  <2> QED BY <1>1, <1>2, <2>1, <2>2
<1>5. CASE Sketch!Resend \/ Sketch!Stream("w", FALSE)
  <2>1. (Sketch!Reads("r") \/ Sketch!Reads("w")) /\ once' = once /\ outbox' = outbox
    BY <1>5 DEF Sketch!Resend, Sketch!Stream, Sketch!hostVars
  <2>2. HowMany(inbox', Asks) \in Nat /\ HowMany(inbox', Asks) <= a
    BY <1>3, <2>1
  <2> QED BY <1>1, <1>2, <2>1, <2>2
<1>6. CASE Sketch!Stream("q", TRUE) \/ Sketch!DebugText \/ Sketch!Hang
  <2>1. Sketch!Reads("q") \/ Sketch!Reads("debug") \/ Sketch!Reads("other")
          \/ Sketch!Reads("hang")
    BY <1>6 DEF Sketch!Stream, Sketch!DebugText, Sketch!Hang
  <2>2. FALSE
    BY <1>1, <2>1, SoundReads
  <2> QED BY <2>2
<1>7. CASE Sketch!BeginFrame
  <2>1. (Sketch!Reads("size") \/ Sketch!Reads("badsize")) /\ once' = 0 /\ outbox' = outbox
    BY <1>7 DEF Sketch!BeginFrame
  <2>2. HowMany(inbox', Asks) \in Nat /\ HowMany(inbox', Asks) <= a
    BY <1>3, <2>1
  <2> QED BY <1>1, <1>2, <2>1, <2>2
<1>8. CASE Sketch!AcceptFrame
  <2>1. /\ once' = once /\ inbox' = SubSeq(inbox, 3, Len(inbox)) /\ Len(inbox) >= 2
        /\ outbox' = Deliver(outbox, <<Ack>>, OutCap)
    BY <1>8 DEF Sketch!AcceptFrame, Sketch!Checked, Sketch!hostVars, Sketch!Deliver,
                Deliver, Sketch!Ack, Ack
  <2>2. HowMany(outbox', Tops) = b
    BY <1>2, <2>1, ReplyTokens, OwedAnswer DEF Ack, SketchToken
  <2>3. HowMany(inbox', Asks) \in Nat /\ HowMany(inbox', Asks) <= a
    <3>1. 2 \in 0..Len(inbox) /\ inbox' = SubSeq(inbox, 2 + 1, Len(inbox))
      BY <2>1, OwedTypes
    <3>2. inbox' \in Seq(Written)
      BY <2>1, OwedTypes
    <3> QED BY <1>2, <3>1, <3>2, OwedTypes, HowManySuffix, HowManyType
  <2> QED BY <1>1, <1>2, <2>1, <2>2, <2>3
<1>9. CASE Sketch!RejectFrame
  <2>1. once' = once /\ inbox' = <<>> /\ outbox' = Deliver(outbox, <<Nak>>, OutCap)
    BY <1>9 DEF Sketch!RejectFrame, Sketch!hostVars, Sketch!Deliver, Deliver,
                Sketch!Nak, Nak
  <2>2. HowMany(outbox', Tops) = b
    BY <1>2, <2>1, ReplyTokens, OwedAnswer DEF Nak, SketchToken
  <2>3. HowMany(inbox', Asks) = 0
    BY <2>1, HowManyEmpty
  <2> QED BY <1>1, <1>2, <2>1, <2>2, <2>3
<1>10. CASE Sketch!Watchdog
  <2>1. inbox' = <<>> /\ once' = 0 /\ outbox' = outbox
    BY <1>10 DEF Sketch!Watchdog, Sketch!Reboot
  <2>2. HowMany(inbox', Asks) = 0
    BY <2>1, HowManyEmpty
  <2> QED BY <1>1, <1>2, <2>1, <2>2
<1>11. CASE Sketch!ToHost
  <2>1. buffer[readIndex] \in Nat
    BY Handed, SketchAssumption DEF OwedInv
  <2>2. /\ once > 0 /\ once' = once - 1 /\ inbox' = inbox
        /\ outbox' = Deliver(outbox, <<Top(buffer[readIndex]), Body(buffer[readIndex])>>, OutCap)
    <3>1. once > 0 /\ once' = (once - 1) % ByteMod
      BY <1>11 DEF Sketch!ToHost, Sketch!AfterAnswer, AsksFirst, OwedInv, SoundInv
    <3>2. once' = once - 1
      BY <1>1, <3>1, SketchAssumption
    <3> QED BY <1>11, <3>1, <3>2 DEF Sketch!ToHost, Sketch!Deliver, Deliver,
               Sketch!Top, Top, Sketch!Body, Body
  <2>3. HowMany(outbox', Tops) <= b + 1
    BY <1>2, <2>1, <2>2, OwedFrame
  <2>4. HowMany(outbox', Tops) \in Nat
    <3>1. <<Top(buffer[readIndex]), Body(buffer[readIndex])>> \in Seq(SketchToken)
      BY <2>1, ReplyTokens
    <3>2. outbox' \in Seq(SketchToken)
      BY <2>2, <3>1, DeliverType, OwedTypes, SketchAssumption
    <3> QED BY <3>2, HowManyType
  <2> QED BY <1>1, <1>2, <2>2, <2>3, <2>4
<1>12. CASE \/ Sketch!NoCommand \/ Sketch!Receive \/ Sketch!Periodic \/ Sketch!NothingToHost
  <2>1. UNCHANGED <<inbox, outbox, once>>
    BY <1>12 DEF Sketch!NoCommand, Sketch!Receive, Sketch!Periodic, Sketch!NothingToHost,
                Sketch!lineVars, Sketch!hostVars
  <2> QED BY <1>1, <1>2, <2>1
<1> QED BY <1>4, <1>5, <1>6, <1>7, <1>8, <1>9, <1>10, <1>11, <1>12
        DEF SketchTurn, Sketch!SketchNext

LEMMA OwedNode ==
  ASSUME OwedInv, queue # <<>>, NodeTurn \/ Publish \/ NodeEnds
  PROVE  /\ HowMany(inbox', Asks) = HowMany(inbox, Asks)
         /\ HowMany(outbox', Tops) <= HowMany(outbox, Tops)
<1> DEFINE a == HowMany(inbox, Asks)
           b == HowMany(outbox, Tops)
<1> HIDE DEF a, b
<1>1. a \in Nat /\ b \in Nat /\ cur \in NodeFrame
  BY OwedTypes DEF a, b, OwedInv, SoundInv
<1>2. HowMany(inbox, Asks) = a /\ HowMany(outbox, Tops) = b
  BY DEF a, b
<1>3. /\ FrameTokens(cur) \in Seq(Written) /\ Len(FrameTokens(cur)) = 3
      /\ \A k \in 1..3 : FrameTokens(cur)[k] # Cmd("d")
      /\ Node!FrameTokens(cur) = FrameTokens(cur)
  <2>1. FrameTokens(cur) \in Seq(Written)
    BY <1>1, SpeechShape DEF Speech
  <2> QED BY <2>1 DEF FrameTokens, Size, Rest, Sum, Cmd, Node!FrameTokens, Node!Size,
                      Node!Rest, Node!Sum
<1>4. CASE Node!WriteFrame
  <2>1. inbox' = Deliver(inbox, FrameTokens(cur), InCap) /\ outbox' = outbox
    BY <1>3, <1>4 DEF Node!WriteFrame, Node!Write, Node!Deliver, Deliver
  <2>2. HowMany(inbox', Asks) = a
    BY <1>2, <1>3, <2>1, OwedWrite
  <2> QED BY <1>1, <1>2, <2>1, <2>2
<1>5. CASE Node!Shutdown
  <2>1. inbox' = Deliver(inbox, <<Cmd("w")>>, InCap) /\ outbox' = outbox
    BY <1>5 DEF Node!Shutdown, Node!Write, Node!Deliver, Deliver, Node!Cmd, Cmd
  <2>2. <<Cmd("w")>> \in Seq(Written) /\ \A k \in 1..1 : <<Cmd("w")>>[k] # Cmd("d")
    BY DEF Written, Asked, Cmd
  <2>3. Len(<<Cmd("w")>>) = 1
    OBVIOUS
  <2>4. HowMany(inbox', Asks) = a
    BY <1>2, <2>1, <2>2, <2>3, OwedWrite
  <2> QED BY <1>1, <1>2, <2>1, <2>4
<1>6. CASE Node!Crash /\ npc = "write"
  <2>1. PICK k \in 0..2 : inbox' = Deliver(inbox, SubSeq(FrameTokens(cur), 1, k), InCap)
    BY <1>3, <1>6 DEF Node!Crash, Node!Write, Node!Deliver, Deliver
  <2> DEFINE t == FrameTokens(cur)
             p == SubSeq(t, 1, k)
  <2>6. t \in Seq(Written) /\ Len(t) = 3
    BY <1>3
  <2> HIDE DEF t
  <2>2. p \in Seq(Written) /\ Len(p) = k /\ \A i \in 1..k : p[i] = t[i]
    BY <2>6
  <2>3. \A i \in 1..Len(p) : p[i] # Cmd("d")
    BY <1>3, <2>2 DEF t
  <2>4. inbox' = Deliver(inbox, p, InCap)
    BY <2>1 DEF t
  <2> HIDE DEF p
  <2>5. HowMany(inbox', Asks) = a
    BY <1>2, <2>2, <2>3, <2>4, OwedWrite
  <2> QED BY <1>1, <1>2, <1>6, <2>5 DEF Node!Crash
<1>7. CASE Node!Crash /\ npc # "write"
  BY <1>1, <1>2, <1>7 DEF Node!Crash
<1>8. CASE Node!ReadGood
  <2> DEFINE k == Node!Taken
  <2>1. Len(outbox) \in Nat
    BY OwedTypes
  <2>2. k \in 0..Len(outbox)
    BY <2>1 DEF Node!Taken
  <2>3. outbox' = SubSeq(outbox, k + 1, Len(outbox)) /\ inbox' = inbox
    BY <1>8 DEF Node!ReadGood
  <2> HIDE DEF k
  <2> QED BY <1>1, <1>2, <2>2, <2>3, OwedTypes, HowManySuffix
<1>9. CASE Node!ReadBad
  <2>1. outbox' = <<>> /\ inbox' = inbox
    BY <1>9 DEF Node!ReadBad
  <2> QED BY <1>1, <1>2, <2>1, HowManyEmpty
<1>10. CASE Node!ReadAnswer
  <2>1. /\ outbox # <<>> /\ inbox' = inbox
        /\ outbox' = Tail(outbox) \/ outbox' = <<Noise(1)>> \o Tail(outbox)
    <3>1. PICK x \in Node!AnswersIn(Head(outbox)) : outbox' = x[2] \o Tail(outbox)
      BY <1>10 DEF Node!ReadAnswer
    <3>2. x[2] = <<>> \/ x[2] = <<Noise(1)>>
      BY DEF Node!AnswersIn, Node!Noise, Noise
    <3>3. Tail(outbox) \in Seq(SketchToken)
      BY <1>10, TailType, OwedTypes DEF Node!ReadAnswer
    <3>4. <<>> \o Tail(outbox) = Tail(outbox)
      BY <3>3
    <3> QED BY <1>10, <3>1, <3>2, <3>4 DEF Node!ReadAnswer
  <2>2. HowMany(Tail(outbox), Tops) <= b /\ Tail(outbox) \in Seq(SketchToken)
    BY <1>2, <2>1, OwedTypes, HowManyTail, TailType
  <2>3. CASE outbox' = <<Noise(1)>> \o Tail(outbox)
    <3> DEFINE s == <<Noise(1)>> \o Tail(outbox)
    <3>1. Noise(1) \in SketchToken /\ Noise(1) \notin Tops
      BY RestBytesAssumption DEF Noise, SketchToken, Tops
    <3>2. s \in Seq(SketchToken) /\ s # <<>> /\ Tail(s) = Tail(outbox) /\ s[1] = Noise(1)
      BY <2>2, <3>1
    <3>3. Marks(s, Tops) \subseteq 2..Len(s)
      BY <3>1, <3>2 DEF Marks
    <3> DEFINE f == [k \in Marks(s, Tops) |-> k - 1]
    <3>4. f \in Injection(Marks(s, Tops), Marks(Tail(s), Tops))
      <4> SUFFICES ASSUME NEW k \in Marks(s, Tops)
                   PROVE  k \in Int /\ k - 1 \in Marks(Tail(s), Tops)
        BY <3>3 DEF Injection, IsInjective
      <4>1. k \in 2..Len(s) /\ s[k] \in Tops
        BY <3>3 DEF Marks
      <4>2. k - 1 \in 1..Len(Tail(s)) /\ Tail(s)[k - 1] = s[k]
        BY <3>2, <4>1
      <4> QED BY <4>1, <4>2 DEF Marks
    <3> HIDE DEF f, s
    <3>5. IsFiniteSet(Marks(Tail(s), Tops))
      BY <2>2, <3>2, HowManyType
    <3>6. HowMany(s, Tops) <= HowMany(Tail(outbox), Tops)
      BY <3>2, <3>4, <3>5, FS_Injection DEF HowMany
    <3>7. HowMany(s, Tops) \in Nat /\ HowMany(Tail(outbox), Tops) \in Nat
      BY <2>2, <3>2, HowManyType
    <3> QED BY <1>1, <1>2, <2>1, <2>2, <2>3, <3>6, <3>7 DEF s
  <2> QED BY <1>1, <1>2, <2>1, <2>2, <2>3
<1>11. CASE UNCHANGED <<inbox, outbox>>
  BY <1>1, <1>2, <1>11
<1>12. CASE Node!PollSketch
  BY <1>12 DEF Node!PollSketch
<1>13. CASE \/ Node!SkipPoll \/ Node!Timeout \/ Node!SendNew \/ Node!SendHeld
            \/ Node!SendRefused \/ Node!AnswerTimeout \/ Node!CallsDone \/ Node!Publish
  BY <1>11, <1>13 DEF Node!SkipPoll, Node!Timeout, Node!SendNew, Node!SendHeld,
     Node!SendRefused, Node!AnswerTimeout, Node!CallsDone, Node!Publish, Node!Begins,
     Node!lineVars
<1> QED BY <1>4, <1>5, <1>6, <1>7, <1>8, <1>9, <1>10, <1>12, <1>13
        DEF NodeTurn, NodeReads, NodeTimesOut, NodeBegins, NodeSends, Publish, NodeEnds

(* While a CANSend message waits for its callback, the number of received  *)
(* frames that may still be read before it never grows, whatever the CAN   *)
(* bus brings, until the line harms a token (node 328-343).                *)
OwedUntil == /\ faults \in Nat /\ NodeP!IndexInv /\ RingSound /\ Replies
             /\ (faults = 0 => SoundInv)

LEMMA FaultsCount ==
  ASSUME faults \in Nat, [Next]_vars
  PROVE  faults' \in Nat /\ (faults' = 0 => faults = 0 /\ ~LineFault)
BY DEF Next, LineFault, SketchTurn, NodeTurn, Publish, NodeEnds, NodeRestarts,
       budgets, vars

THEOREM OwedOnlyFallsCorrect == Spec => OwedOnlyFalls
<1>1. OwedInv /\ OwedInv' /\ [Next]_vars /\ ~LineFault
        => [queue # <<>> => FramesOwed' <= FramesOwed]_vars
  <2> SUFFICES ASSUME OwedInv, OwedInv', [Next]_vars, ~LineFault, queue # <<>>
               PROVE  FramesOwed' <= FramesOwed \/ UNCHANGED vars
    OBVIOUS
  <2>1. /\ FramesOwed = 2 * HowMany(inbox, Asks) + once + HowMany(outbox, Tops)
        /\ FramesOwed' = 2 * HowMany(inbox', Asks) + once' + HowMany(outbox', Tops)
    <3>1. (FramesOwed = 2 * HowMany(inbox, Asks) + once + HowMany(outbox, Tops))'
      BY FramesOwedIs, PTL DEF OwedInv
    <3>2. HowMany(inbox, Asks)' = HowMany(inbox', Asks) /\ HowMany(outbox, Tops)' = HowMany(outbox', Tops)
      BY DEF HowMany, Marks, Asks, Tops
    <3> QED BY <3>1, <3>2, FramesOwedIs DEF OwedInv
  <2>2. /\ HowMany(inbox, Asks) \in Nat /\ HowMany(outbox, Tops) \in Nat /\ once \in 0..2
        /\ HowMany(inbox', Asks) \in Nat /\ HowMany(outbox', Tops) \in Nat
    BY HowManyType, OwedTypes DEF OwedInv, SoundInv, LineSound, Replies
  <2>3. CASE SketchTurn
    BY <2>1, <2>3, OwedSketch
  <2>4. CASE NodeTurn \/ Publish \/ NodeEnds
    <3>1. once' = once
      BY <2>4 DEF NodeTurn, Publish, NodeEnds, sketchVars
    <3> QED BY <2>1, <2>2, <2>4, <3>1, OwedNode
  <2>5. CASE NodeRestarts
    <3>1. inbox' = <<>> /\ outbox' = <<>> /\ once' = 0
      BY <2>5 DEF NodeRestarts, Sketch!Reboot, Node!Restart
    <3>2. HowMany(inbox', Asks) = 0 /\ HowMany(outbox', Tops) = 0
      BY <3>1, HowManyEmpty
    <3>3. FramesOwed' = 0
      BY <2>1, <3>1, <3>2
    <3> QED BY <2>1, <2>2, <3>3
  <2> QED BY <2>3, <2>4, <2>5, SoundSteps
<1>2. Init => OwedUntil
  <2>1. Init => OwedInv /\ faults \in Nat
    BY OwedInit DEF Init
  <2> QED BY <2>1 DEF OwedUntil, OwedInv, SoundInv
<1>3. OwedUntil /\ [Next]_vars => OwedUntil'
  BY FaultsCount, NodeIndices, SoundNext, RingSoundNext, RepliesNext DEF OwedUntil
<1>4. OwedUntil /\ OwedUntil' /\ [Next]_vars
        => [queue # <<>> /\ faults' = 0 => FramesOwed' <= FramesOwed]_vars
  <2>1. ASSUME OwedUntil, OwedUntil', [Next]_vars, faults' = 0
        PROVE  OwedInv /\ OwedInv' /\ ~LineFault
    <3>1. faults = 0 /\ ~LineFault
      BY <2>1, FaultsCount DEF OwedUntil
    <3>2. OwedInv
      BY <2>1, <3>1 DEF OwedUntil, OwedInv
    <3> QED BY <2>1, <3>1, <3>2, OwedNext
  <2> QED BY <1>1, <2>1
<1> QED BY <1>2, <1>3, <1>4, PTL DEF Spec, OwedOnlyFalls

-----------------------------------------------------------------------------
(* Until something disturbs them, the frames received are published, in    *)
(* the host's buffer, or unread in the ring, in this order and once.  The  *)
(* buffer, with any answers in between, takes the count of frames from p   *)
(* to n, and f says how far it has come at each token.                     *)
Link(box, len, f, k) ==
  \/ box[k] \in {Ack, Nak} /\ f[k] = f[k - 1]
  \/ /\ box[k] = Top(f[k - 1] + 1) /\ f[k] = f[k - 1]
     /\ k < len /\ box[k + 1] = Body(f[k] + 1)
  \/ /\ box[k] = Body(f[k]) /\ f[k] = f[k - 1] + 1
     /\ k > 1 /\ box[k - 1] = Top(f[k])

Follows(box, len, f, p, n) ==
  /\ f \in [Nat -> Nat] /\ f[0] = p /\ f[len] = n
  /\ \A k \in 1..len : Link(box, len, f, k)

InOrder(box, p, n) == \E f : Follows(box, Len(box), f, p, n)

(* What is left when the first d tokens, which end no frame too early, are *)
(* taken away.                                                             *)
LEMMA FollowsRest ==
  ASSUME NEW box, NEW len \in Nat, NEW f, NEW p, NEW n, Follows(box, len, f, p, n),
         NEW d \in 1..len, box[d][1] # "top",
         NEW s, \A k \in 1..(len - d) : s[k] = box[k + d]
  PROVE  \E g : Follows(s, len - d, g, f[d], n)
<1> DEFINE g == [k \in Nat |-> f[k + d]]
<1>1. f \in [Nat -> Nat] /\ f[len] = n
  BY DEF Follows
<1>2. /\ g \in [Nat -> Nat] /\ \A k \in Nat : g[k] = f[k + d]
      /\ d \in Nat /\ len - d \in Nat
  BY <1>1
<1> HIDE DEF g
<1>3. g[0] = f[d] /\ g[len - d] = n
  <2>1. 0 + d = d /\ (len - d) + d = len
    BY <1>2
  <2> QED BY <1>1, <1>2, <2>1
<1>4. ASSUME NEW k \in 1..(len - d)
      PROVE  Link(s, len - d, g, k)
  <2>1. PICK j \in 1..len : j = k + d /\ j > 1 /\ (k - 1) + d = j - 1
    BY <1>2
  <2>2. s[k] = box[j] /\ g[k] = f[j]
    BY <1>2, <2>1
  <2>3. g[k - 1] = f[j - 1]
    BY <1>2, <2>1
  <2>4. j < len => k < len - d /\ s[k + 1] = box[j + 1]
    <3>1. j < len => k < len - d /\ k + 1 \in 1..(len - d) /\ (k + 1) + d = j + 1
      BY <1>2, <2>1
    <3> QED BY <3>1
  <2>5. k > 1 => s[k - 1] = box[j - 1]
    <3>1. k > 1 => k - 1 \in 1..(len - d)
      BY <1>2
    <3> QED BY <2>1, <3>1
  <2>6. k = 1 => box[j - 1][1] # "top"
    <3>1. k = 1 => j - 1 = d
      BY <1>2, <2>1
    <3> QED BY <3>1
  <2>7. CASE box[j] \in {Ack, Nak} /\ f[j] = f[j - 1]
    BY <2>2, <2>3, <2>7 DEF Link
  <2>8. CASE /\ box[j] = Top(f[j - 1] + 1) /\ f[j] = f[j - 1]
             /\ j < len /\ box[j + 1] = Body(f[j] + 1)
    BY <2>2, <2>3, <2>4, <2>8 DEF Link
  <2>9. CASE /\ box[j] = Body(f[j]) /\ f[j] = f[j - 1] + 1
             /\ j > 1 /\ box[j - 1] = Top(f[j])
    <3>1. box[j - 1][1] = "top"
      BY <2>9 DEF Top
    <3>2. k > 1
      BY <2>6, <3>1
    <3> QED BY <2>2, <2>3, <2>5, <2>9, <3>2 DEF Link
  <2> QED BY <2>7, <2>8, <2>9 DEF Follows, Link
<1> QED BY <1>2, <1>3, <1>4 DEF Follows

(* Tokens added at the end leave what stood before them as it was. *)
LEMMA FollowsMore ==
  ASSUME NEW box, NEW len \in Nat, NEW f, NEW p, NEW n, Follows(box, len, f, p, n),
         NEW s, \A k \in 1..len : s[k] = box[k],
         NEW g \in [Nat -> Nat], \A k \in 0..len : g[k] = f[k],
         NEW more \in Nat, more > len, NEW k \in 1..len
  PROVE  Link(s, more, g, k)
<1>1. s[k] = box[k] /\ g[k] = f[k] /\ g[k - 1] = f[k - 1]
  <2>1. k \in 0..len /\ k - 1 \in 0..len
    OBVIOUS
  <2> QED BY <2>1
<1>2. k < len => k < more /\ s[k + 1] = box[k + 1]
  <2>1. k < len => k + 1 \in 1..len
    OBVIOUS
  <2> QED BY <2>1
<1>3. k > 1 => s[k - 1] = box[k - 1]
  <2>1. k > 1 => k - 1 \in 1..len
    OBVIOUS
  <2> QED BY <2>1
<1>4. CASE box[k] \in {Ack, Nak} /\ f[k] = f[k - 1]
  BY <1>1, <1>4 DEF Link
<1>5. CASE /\ box[k] = Top(f[k - 1] + 1) /\ f[k] = f[k - 1]
           /\ k < len /\ box[k + 1] = Body(f[k] + 1)
  BY <1>1, <1>2, <1>5 DEF Link
<1>6. CASE /\ box[k] = Body(f[k]) /\ f[k] = f[k - 1] + 1
           /\ k > 1 /\ box[k - 1] = Top(f[k])
  BY <1>1, <1>3, <1>6 DEF Link
<1> QED BY <1>4, <1>5, <1>6 DEF Follows, Link

(* An answer, or the next frame, at the end. *)
LEMMA FollowsAnswer ==
  ASSUME NEW box, NEW len \in Nat, NEW f, NEW p, NEW n, Follows(box, len, f, p, n),
         NEW s, \A k \in 1..len : s[k] = box[k], s[len + 1] \in {Ack, Nak}
  PROVE  \E g : Follows(s, len + 1, g, p, n)
<1> DEFINE g == [k \in Nat |-> IF k <= len THEN f[k] ELSE n]
<1>1. f \in [Nat -> Nat] /\ f[len] = n /\ n \in Nat /\ f[0] = p
  BY DEF Follows
<1>2. g \in [Nat -> Nat] /\ g[len + 1] = n /\ \A k \in 0..len : g[k] = f[k]
  BY <1>1
<1> HIDE DEF g
<1>3. g[0] = p /\ g[len] = n /\ (len + 1) - 1 = len
  BY <1>1, <1>2
<1>4. ASSUME NEW k \in 1..(len + 1)
      PROVE  Link(s, len + 1, g, k)
  <2>1. CASE k = len + 1
    BY <1>2, <1>3, <2>1 DEF Link
  <2>2. CASE k # len + 1
    <3>1. k \in 1..len /\ len + 1 > len /\ len + 1 \in Nat
      BY <2>2
    <3> QED BY <1>2, <3>1, FollowsMore
  <2> QED BY <2>1, <2>2
<1> QED BY <1>2, <1>3, <1>4 DEF Follows

LEMMA FollowsFrame ==
  ASSUME NEW box, NEW len \in Nat, NEW f, NEW p, NEW n, Follows(box, len, f, p, n),
         NEW s, \A k \in 1..len : s[k] = box[k],
         s[len + 1] = Top(n + 1), s[len + 2] = Body(n + 1)
  PROVE  \E g : Follows(s, len + 2, g, p, n + 1)
<1> DEFINE g == [k \in Nat |-> IF k <= len THEN f[k] ELSE IF k = len + 1 THEN n ELSE n + 1]
<1>1. f \in [Nat -> Nat] /\ f[len] = n /\ n \in Nat /\ f[0] = p
  BY DEF Follows
<1>2. /\ g \in [Nat -> Nat] /\ g[len + 1] = n /\ g[len + 2] = n + 1
      /\ \A k \in 0..len : g[k] = f[k]
  BY <1>1
<1> HIDE DEF g
<1>3. g[0] = p /\ g[len] = n
  BY <1>1, <1>2
<1>4. ASSUME NEW k \in 1..(len + 2)
      PROVE  Link(s, len + 2, g, k)
  <2>1. CASE k = len + 1
    <3>1. k - 1 = len /\ k + 1 = len + 2 /\ k < len + 2
      BY <2>1
    <3> QED BY <1>2, <1>3, <2>1, <3>1 DEF Link
  <2>2. CASE k = len + 2
    <3>1. k - 1 = len + 1 /\ k > 1
      BY <2>2
    <3> QED BY <1>2, <1>3, <2>2, <3>1 DEF Link
  <2>3. CASE k # len + 1 /\ k # len + 2
    <3>1. k \in 1..len /\ len + 2 > len /\ len + 2 \in Nat
      BY <2>3
    <3> QED BY <1>2, <3>1, FollowsMore
  <2> QED BY <2>1, <2>2, <2>3
<1> QED BY <1>2, <1>3, <1>4 DEF Follows

(* The resend is never asked for, the count is that of the frame published *)
(* last, and so is what a late answer leaves of the frame read last.       *)
NeverResent == datagood /\ \A k \in 1..Len(inbox) : inbox[k] # Cmd("r")
CountKept   == published \in Nat /\ (counted => prev = published % CountMod)
RxKept      == rx.body = published /\ (published # 0 => rx.count = published % CountMod)

OrderKept == /\ NeverResent /\ CountKept /\ RxKept
             /\ InOrder(outbox, published, packetcount - RingP!Unread)
OrderInv  == /\ NodeP!IndexInv /\ RingSound /\ Replies
             /\ (~disturbed => SoundInv /\ OrderKept)

LEMMA UnreadIs ==
  /\ RingP!Unread = Sketch!Ring!Unread
  /\ RingSound => RingP!Unread \in 0..(RxSlots - 1)
BY SketchAssumption DEF RingP!Unread, Sketch!Ring!Unread, RingSound, RingP!RingTypeOK,
                        RingP!Slots

LEMMA OrderInit == Init => OrderInv
<1> SUFFICES ASSUME Init PROVE OrderInv
  OBVIOUS
<1>1. outbox = <<>> /\ inbox = <<>> /\ published = 0 /\ datagood /\ ~counted /\ rx.body = 0
  BY DEF Init, Node!Start, Node!NoRead
<1>2. packetcount - RingP!Unread = 0
  BY DEF Init, Sketch!Boot, Sketch!Ring!RingInit, RingP!Unread
<1>3. Follows(<<>>, 0, [k \in Nat |-> 0], 0, 0)
  BY DEF Follows
<1> QED BY <1>1, <1>2, <1>3, OwedInit
        DEF OrderInv, OwedInv, SoundInv, OrderKept, NeverResent, CountKept, RxKept, InOrder

LEMMA NextCount ==
  ASSUME NEW m \in Nat \ {0}, NEW p \in Nat
  PROVE  (p + 1) % m = (p % m) + 1 \/ (p + 1) % m = 0
<1> DEFINE q == p \div m
           r == p % m
           u == (p + 1) \div m
           x == (p + 1) % m
<1>1. p = m * q + r /\ r \in 0..(m - 1) /\ q \in Int
  BY SMT
<1>2. p + 1 = m * u + x /\ x \in 0..(m - 1) /\ u \in Int
  BY SMT
<1> HIDE DEF q, r, u, x
<1>3. m * (u - q) = r + 1 - x
  BY <1>1, <1>2, SMT
<1>4. u - q = 0 \/ u - q = 1
  BY <1>1, <1>2, <1>3, SMT
<1>5. x = r + 1 \/ x = 0
  <2>1. CASE u - q = 0
    BY <1>1, <1>2, <1>3, <2>1, SMT
  <2>2. CASE u - q = 1
    BY <1>1, <1>2, <1>3, <2>2, SMT
  <2> QED BY <1>4, <2>1, <2>2
<1> QED BY <1>5 DEF r, x

(* The next frame in order is no gap, even where the count wraps, and     *)
(* neither is the frame read last.                                         *)
LEMMA NoGap ==
  ASSUME CountKept
  PROVE  ~Node!Gap((published + 1) % CountMod) /\ ~Node!Gap(published % CountMod)
<1>1. published \in Nat
  BY DEF CountKept
<1>2. /\ (published + 1) % CountMod = (published % CountMod) + 1
          \/ (published + 1) % CountMod = 0
      /\ published % CountMod \in Nat
  <2>1. published % CountMod \in Nat
    BY <1>1, NodeAssumption
  <2> QED BY <1>1, <2>1, NodeAssumption, NextCount
<1> DEFINE c == (published + 1) % CountMod
           p == published % CountMod
<1>3. c = p + 1 \/ c = 0
  BY <1>2
<1>4. p \in Nat /\ (counted => prev = p)
  BY <1>2 DEF CountKept
<1>5. Node!Gap(c) => counted /\ c - 1 # prev /\ c - prev > 0
  BY DEF Node!Gap
<1>6. ~Node!Gap(p)
  BY <1>4 DEF Node!Gap
<1> HIDE DEF c, p
<1>7. ~Node!Gap(c)
  BY <1>3, <1>4, <1>5
<1> QED BY <1>6, <1>7 DEF c, p

(* The sketch hands over the oldest unread frame, which is the next one. *)
LEMMA OrderHands ==
  ASSUME OwedInv, Sketch!ToHost, Len(outbox) + 2 <= OutCap, published' = published,
         InOrder(outbox, published, packetcount - RingP!Unread)
  PROVE  InOrder(outbox', published', packetcount' - RingP!Unread')
<1> DEFINE n == packetcount - RingP!Unread
<1>1. PICK f : Follows(outbox, Len(outbox), f, published, n)
  BY DEF InOrder
<1>2. outbox \in Seq(SketchToken) /\ Len(outbox) \in Nat /\ n \in Nat
  BY <1>1 DEF OwedInv, Replies, Follows
<1>3. RingP!Take
  BY DEF Sketch!ToHost, Sketch!Ring!Take, RingP!Take, Sketch!Ring!Advance, RingP!Advance
<1>4. /\ RingP!Unread > 0 /\ RingP!Unread' = RingP!Unread - 1 /\ RingP!Unread \in Nat
      /\ packetcount \in Nat /\ packetcount' = packetcount /\ readIndex # writeIndex
  BY <1>3, RingP!UnreadAfterTake, UnreadIs, SketchAssumption
  DEF OwedInv, RingSound, RingP!Take, RingP!RingTypeOK
<1>5. buffer[readIndex] = n + 1
  <2>1. buffer[readIndex] = RingP!Window!Oldest(packetcount, RingP!Unread)
    BY <1>4, RingP!ReadSlotIsOldest, SketchAssumption DEF OwedInv, RingSound
  <2>2. RingP!Unread <= packetcount
    BY <1>2, <1>4
  <2> QED BY <1>4, <2>1, <2>2 DEF RingP!Window!Oldest, RingP!Window!Blank
<1>6. outbox' = outbox \o <<Top(n + 1), Body(n + 1)>>
  <2> DEFINE t == <<Top(n + 1), Body(n + 1)>>
  <2>1. outbox' = Deliver(outbox, t, OutCap)
    BY <1>5 DEF Sketch!ToHost, Sketch!Deliver, Deliver, Sketch!Top, Top, Sketch!Body, Body
  <2>2. t \in Seq(SketchToken) /\ Len(t) = 2
    <3>1. n + 1 \in Nat
      BY <1>2
    <3> QED BY <3>1, ReplyTokens
  <2> HIDE DEF t
  <2>3. Room(outbox, t, OutCap) = 2
    BY <1>2, <2>2 DEF Room
  <2>4. outbox' = outbox \o SubSeq(t, 1, Room(outbox, t, OutCap))
    BY <1>2, <2>1, <2>2, DeliverCuts, SketchAssumption
  <2>5. SubSeq(t, 1, 2) = t
    BY <2>2
  <2> QED BY <2>3, <2>4, <2>5 DEF t
<1>7. packetcount' - RingP!Unread' = n + 1
  BY <1>4
<1> HIDE DEF n
<1>8. InOrder(outbox', published, n + 1)
  <2> DEFINE t == <<Top(n + 1), Body(n + 1)>>
  <2>1. t \in Seq(SketchToken) /\ Len(t) = 2 /\ t[1] = Top(n + 1) /\ t[2] = Body(n + 1)
    BY <1>2, ReplyTokens
  <2>2. outbox' = outbox \o t
    BY <1>6
  <2> HIDE DEF t
  <2> DEFINE w == outbox \o t
  <2>4. /\ Len(w) = Len(outbox) + Len(t)
        /\ \A k \in 1..Len(outbox) : w[k] = outbox[k]
        /\ \A k \in 1..Len(t) : w[Len(outbox) + k] = t[k]
    <3>1. outbox \in Seq(SketchToken) /\ t \in Seq(SketchToken)
      BY <1>2, <2>1
    <3> QED BY <3>1, BothType
  <2> HIDE DEF w
  <2>5. 1 \in 1..Len(t) /\ 2 \in 1..Len(t) /\ outbox' = w
    BY <2>1, <2>2 DEF w
  <2>6. /\ Len(outbox') = Len(outbox) + 2
        /\ outbox'[Len(outbox) + 1] = Top(n + 1) /\ outbox'[Len(outbox) + 2] = Body(n + 1)
        /\ \A k \in 1..Len(outbox) : outbox'[k] = outbox[k]
    BY <2>1, <2>4, <2>5
  <2> QED BY <1>1, <1>2, <2>6, FollowsFrame DEF InOrder
<1> QED BY <1>7, <1>8

(* An answer of the sketch, if there is room for it. *)
LEMMA OrderAnswers ==
  ASSUME NEW t \in {Ack, Nak}, outbox \in Seq(SketchToken), NEW p, NEW n,
         outbox' = Deliver(outbox, <<t>>, OutCap), InOrder(outbox, p, n)
  PROVE  InOrder(outbox', p, n)
<1>1. PICK f : Follows(outbox, Len(outbox), f, p, n)
  BY DEF InOrder
<1> DEFINE r == Room(outbox, <<t>>, OutCap)
<1>2. r \in 0..1 /\ outbox' = outbox \o SubSeq(<<t>>, 1, r)
  <2>1. <<t>> \in Seq(SketchToken) /\ Len(<<t>>) = 1
    BY ReplyTokens
  <2> QED BY <2>1, DeliverCuts, SketchAssumption
<1> HIDE DEF r
<1>3. CASE r = 0
  <2>1. outbox' = outbox
    BY <1>2, <1>3
  <2> QED BY <2>1
<1>4. CASE r = 1
  <2> DEFINE m == SubSeq(<<t>>, 1, r)
             w == outbox \o m
  <2>1. <<t>> \in Seq(SketchToken) /\ Len(<<t>>) = 1 /\ r \in 0..1 /\ Len(outbox) \in Nat
    BY <1>2, ReplyTokens
  <2>2. m \in Seq(SketchToken) /\ Len(m) = 1 /\ m[1] = t
    BY <1>4, <2>1, PrefixType
  <2> HIDE DEF m
  <2>3. /\ Len(w) = Len(outbox) + Len(m)
        /\ \A k \in 1..Len(outbox) : w[k] = outbox[k]
        /\ \A k \in 1..Len(m) : w[Len(outbox) + k] = m[k]
    BY <2>2, BothType
  <2>4. outbox' = w
    BY <1>2 DEF m
  <2> HIDE DEF w
  <2>5. 1 \in 1..Len(m)
    BY <2>2
  <2>6. /\ Len(outbox') = Len(outbox) + 1 /\ outbox'[Len(outbox) + 1] = t
        /\ \A k \in 1..Len(outbox) : outbox'[k] = outbox[k]
    BY <2>2, <2>3, <2>4, <2>5
  <2> QED BY <1>1, <2>1, <2>6, FollowsAnswer DEF InOrder
<1> QED BY <1>2, <1>3, <1>4

(* What stands at the head of the host's buffer. *)
LEMMA OrderHead ==
  ASSUME outbox \in Seq(SketchToken), outbox # <<>>, NEW p \in Nat, NEW n,
         InOrder(outbox, p, n)
  PROVE  \/ /\ Head(outbox) \in {Ack, Nak} /\ InOrder(Tail(outbox), p, n)
            /\ (Len(outbox) = 1 \/ outbox[2][1] \in {"ack", "nak", "top"})
         \/ /\ Len(outbox) >= 2 /\ Head(outbox) = Top(p + 1) /\ outbox[2] = Body(p + 1)
            /\ InOrder(SubSeq(outbox, 3, Len(outbox)), p + 1, n)
<1>1. PICK f : Follows(outbox, Len(outbox), f, p, n)
  BY DEF InOrder
<1>2. /\ Len(outbox) \in Nat /\ Len(outbox) >= 1 /\ Head(outbox) = outbox[1]
      /\ 1 \in 1..Len(outbox)
  OBVIOUS
<1>7. Tail(outbox) = SubSeq(outbox, 2, Len(outbox))
  OBVIOUS
<1>3. \/ outbox[1] \in {Ack, Nak} /\ f[1] = p
      \/ /\ outbox[1] = Top(p + 1) /\ f[1] = p
         /\ 1 < Len(outbox) /\ outbox[2] = Body(p + 1)
  <2>1. f[0] = p /\ 1 - 1 = 0 /\ 1 + 1 = 2 /\ ~(1 > 1)
    BY <1>1 DEF Follows
  <2>2. \/ outbox[1] \in {Ack, Nak} /\ f[1] = f[1 - 1]
        \/ /\ outbox[1] = Top(f[1 - 1] + 1) /\ f[1] = f[1 - 1]
           /\ 1 < Len(outbox) /\ outbox[1 + 1] = Body(f[1] + 1)
        \/ /\ outbox[1] = Body(f[1]) /\ f[1] = f[1 - 1] + 1
           /\ 1 > 1 /\ outbox[1 - 1] = Top(f[1])
    BY <1>1, <1>2 DEF Follows, Link
  <2> QED BY <2>1, <2>2
<1>4. ASSUME NEW d \in 1..Len(outbox), outbox[d][1] # "top"
      PROVE  InOrder(SubSeq(outbox, d + 1, Len(outbox)), f[d], n)
  <2>1. d \in 0..Len(outbox)
    BY <1>2
  <2> DEFINE s == SubSeq(outbox, d + 1, Len(outbox))
  <2>2. /\ Len(s) = Len(outbox) - d
        /\ \A k \in 1..(Len(outbox) - d) : s[k] = outbox[k + d]
    BY <2>1, SuffixType
  <2> HIDE DEF s
  <2>3. \E g : Follows(s, Len(outbox) - d, g, f[d], n)
    BY <1>1, <1>2, <1>4, <2>2, FollowsRest
  <2> QED BY <2>2, <2>3 DEF InOrder, s
<1>5. CASE outbox[1] \in {Ack, Nak} /\ f[1] = p
  <2>1. outbox[1][1] # "top"
    BY <1>5 DEF Ack, Nak
  <2>2. InOrder(SubSeq(outbox, 1 + 1, Len(outbox)), f[1], n)
    BY <1>2, <1>4, <2>1
  <2>3. Len(outbox) # 1 => outbox[2][1] \in {"ack", "nak", "top"}
    <3> SUFFICES ASSUME Len(outbox) # 1 PROVE outbox[2][1] \in {"ack", "nak", "top"}
      OBVIOUS
    <3>1. 2 \in 1..Len(outbox) /\ 2 - 1 = 1
      <4>1. PICK x \in Nat : x = Len(outbox) /\ x >= 1 /\ x # 1
        BY <1>2
      <4>2. 2 \in 1..x /\ 2 - 1 = 1
        BY <4>1
      <4> QED BY <4>1, <4>2
    <3>2. \/ outbox[2] \in {Ack, Nak}
          \/ outbox[2] = Top(f[2 - 1] + 1)
          \/ outbox[2 - 1] = Top(f[2])
      BY <1>1, <3>1 DEF Follows, Link
    <3>3. outbox[2 - 1] # Top(f[2])
      BY <2>1, <3>1 DEF Top
    <3>4. Ack[1] = "ack" /\ Nak[1] = "nak" /\ Top(f[2 - 1] + 1)[1] = "top"
      BY DEF Ack, Nak, Top
    <3> QED BY <3>2, <3>3, <3>4
  <2>4. InOrder(Tail(outbox), p, n)
    <3>1. 1 + 1 = 2
      OBVIOUS
    <3> QED BY <1>5, <1>7, <2>2, <3>1
  <2> QED BY <1>2, <1>5, <2>3, <2>4
<1>6. CASE /\ outbox[1] = Top(p + 1) /\ f[1] = p
           /\ 1 < Len(outbox) /\ outbox[2] = Body(p + 1)
  <2>1. 2 \in 1..Len(outbox) /\ outbox[2][1] # "top" /\ Len(outbox) >= 2 /\ 2 - 1 = 1
    BY <1>2, <1>6 DEF Body
  <2>2. f[2] = p + 1
    <3>1. outbox[2] \notin {Ack, Nak} /\ \A x : outbox[2] # Top(x)
      <4>1. outbox[2][1] = "body" /\ Ack[1] # "body" /\ Nak[1] # "body"
        BY <1>6 DEF Body, Ack, Nak
      <4>2. \A x : Top(x)[1] # "body"
        BY DEF Top
      <4> QED BY <4>1, <4>2
    <3>2. f[2] = f[2 - 1] + 1
      BY <1>1, <2>1, <3>1 DEF Follows, Link
    <3> QED BY <1>6, <2>1, <3>2
  <2>3. InOrder(SubSeq(outbox, 2 + 1, Len(outbox)), f[2], n)
    BY <1>4, <2>1
  <2> QED BY <1>2, <1>6, <2>1, <2>2, <2>3
<1> QED BY <1>3, <1>5, <1>6

(* What the node makes of it: the next frame, or the last one once more.   *)
LEMMA OrderReads ==
  ASSUME OwedInv, OrderKept, Node!ReadGood, UNCHANGED <<packetcount, readIndex, writeIndex>>
  PROVE  \/ published' = published + 1 /\ OrderKept'
         \/ /\ published' = published /\ Head(outbox) = Ack
            /\ Len(outbox) = 1 => OrderKept'
<1> DEFINE p == published
           n == packetcount - RingP!Unread
<1>1. /\ outbox \in Seq(SketchToken) /\ outbox # <<>> /\ p \in Nat /\ InOrder(outbox, p, n)
      /\ Len(outbox) \in Nat /\ Len(outbox) >= 1 /\ Head(outbox) = outbox[1]
  BY DEF OwedInv, Replies, OrderKept, CountKept, Node!ReadGood
<1> DEFINE d == Node!Taken
           t == SubSeq(outbox, 1, d)
<1>2. PICK r \in Node!Overlay(t) :
        /\ Node!Checked(r) /\ rx' = r /\ published' = r.body
        /\ datagood' = ~Node!Gap(r.count) /\ prev' = r.count
  BY DEF Node!ReadGood
<1>3. /\ counted' = TRUE /\ inbox' = inbox /\ outbox' = SubSeq(outbox, d + 1, Len(outbox))
      /\ packetcount' - RingP!Unread' = n
  BY DEF Node!ReadGood, RingP!Unread
<1>4. NeverResent /\ CountKept /\ RxKept
  BY DEF OrderKept
<1> HIDE DEF n
<1>5. ASSUME r.body \in Nat, r.count = r.body % CountMod, ~Node!Gap(r.count),
             InOrder(outbox', r.body, n)
      PROVE  OrderKept'
  <2>1. NeverResent'
    BY <1>2, <1>3, <1>4, <1>5 DEF NeverResent
  <2>2. CountKept' /\ RxKept'
    BY <1>2, <1>5 DEF CountKept, RxKept
  <2>3. InOrder(outbox', published', packetcount' - RingP!Unread')
    BY <1>2, <1>3, <1>5
  <2> QED BY <2>1, <2>2, <2>3 DEF OrderKept
<1>6. CASE /\ Head(outbox) \in {Ack, Nak} /\ InOrder(Tail(outbox), p, n)
           /\ (Len(outbox) = 1 \/ outbox[2][1] \in {"ack", "nak", "top"})
  <2>1. d = Len(outbox)
    BY <1>1, <1>6 DEF Node!Taken
  <2>2. t \in Seq(SketchToken) /\ Len(t) = Len(outbox) /\ \A k \in 1..Len(t) : t[k] = outbox[k]
    <3>1. Len(outbox) \in 0..Len(outbox)
      BY <1>1
    <3> QED BY <1>1, <2>1, <3>1, PrefixType
  <2> HIDE DEF d, t
  <2>3. /\ t[1] \in {Ack, Nak} /\ t[1] = Head(outbox)
        /\ (Len(t) >= 2 => t[2][1] \in {"ack", "nak", "top"})
    BY <1>1, <1>6, <2>2
  <2>4. /\ t[1] = Ack /\ r.body = rx.body
        /\ (Len(t) = 1 => r.count = rx.count)
    <3> DEFINE Sizes == Node!AsSize(t[1])
    <3>1. t[1][1] \in {"ack", "nak"} /\ (t[1] = Nak => Sizes = {FALSE})
      <4>1. /\ Node!Ack = Ack /\ Node!Nak = Nak /\ Ack # Nak
            /\ Ack[1] = "ack" /\ Nak[1] = "nak"
        BY DEF Ack, Nak, Node!Ack, Node!Nak
      <4> QED BY <2>3, <4>1 DEF Node!AsSize
    <3> HIDE DEF Sizes
    <3>2. r.plausible = TRUE
      BY <1>2 DEF Node!Checked
    <3>3. CASE Len(t) = 1
      <4>1. r \in Node!RxData(Sizes, {rx.count}, {rx.body})
        BY <1>2, <3>1, <3>3 DEF Node!Overlay, Sizes
      <4>2. r.plausible \in Sizes /\ r.count = rx.count /\ r.body = rx.body
        BY <4>1 DEF Node!RxData
      <4> QED BY <2>3, <3>1, <3>2, <3>3, <4>2
    <3>4. CASE Len(t) = 2 /\ t[2][1] \in {"ack", "nak"}
      <4>1. r \in Node!RxData(Sizes, Node!AsCount(t[2]), {rx.body})
        BY <1>2, <3>1, <3>4 DEF Node!Overlay, Sizes
      <4>2. r.plausible \in Sizes /\ r.body = rx.body
        BY <4>1 DEF Node!RxData
      <4>3. t[1] = Ack
        BY <2>3, <3>1, <3>2, <4>2
      <4> QED BY <3>4, <4>2, <4>3
    <3>5. CASE ~(Len(t) = 1) /\ ~(Len(t) = 2 /\ t[2][1] \in {"ack", "nak"})
      <4>1. r \in Node!RxData({FALSE}, {rx.count}, {0})
        BY <1>1, <1>2, <2>2, <2>3, <3>1, <3>5 DEF Node!Overlay
      <4>2. r.plausible = FALSE
        BY <4>1 DEF Node!RxData
      <4> QED BY <3>2, <4>2
    <3> QED BY <3>3, <3>4, <3>5
  <2>5. published' = p /\ Head(outbox) = Ack /\ r.body = p /\ p # 0
    BY <1>2, <1>4, <2>3, <2>4 DEF RxKept, Node!Checked
  <2>6. ASSUME Len(outbox) = 1 PROVE OrderKept'
    <3>1. r.count = p % CountMod
      BY <1>4, <2>2, <2>4, <2>5, <2>6 DEF RxKept
    <3>2. ~Node!Gap(r.count)
      BY <1>4, <3>1, NoGap
    <3>3. outbox' = Tail(outbox)
      <4>1. Tail(outbox) = SubSeq(outbox, 2, Len(outbox))
        BY <1>1
      <4>2. d + 1 = 2
        BY <2>1, <2>6
      <4> QED BY <1>3, <4>1, <4>2
    <3> QED BY <1>1, <1>5, <1>6, <2>5, <3>1, <3>2, <3>3
  <2> QED BY <2>5, <2>6
<1>7. CASE /\ Len(outbox) >= 2 /\ Head(outbox) = Top(p + 1) /\ outbox[2] = Body(p + 1)
           /\ InOrder(SubSeq(outbox, 3, Len(outbox)), p + 1, n)
  <2>1. d = 2
    BY <1>1, <1>7 DEF Node!Taken, Body
  <2>2. Len(t) = 2 /\ t[1] = Top(p + 1) /\ t[2] = Body(p + 1)
    <3>1. 2 \in 0..Len(outbox)
      BY <1>1, <1>7
    <3>2. Len(t) = 2 /\ \A k \in 1..2 : t[k] = outbox[k]
      BY <1>1, <2>1, <3>1, PrefixType
    <3>3. t[1] = outbox[1] /\ t[2] = outbox[2]
      <4>1. 1 \in 1..2 /\ 2 \in 1..2
        OBVIOUS
      <4> QED BY <3>2, <4>1
    <3> QED BY <1>1, <1>7, <3>2, <3>3
  <2> HIDE DEF d, t
  <2>3. r \in Node!RxData({TRUE}, {(p + 1) % CountMod}, {p + 1})
    BY <1>2, <2>2 DEF Node!Overlay, Top, Body
  <2>4. r.count = (p + 1) % CountMod /\ r.body = p + 1
    BY <2>3 DEF Node!RxData
  <2>5. ~Node!Gap(r.count)
    BY <1>4, <2>4, NoGap
  <2>6. outbox' = SubSeq(outbox, 3, Len(outbox))
    BY <1>3, <2>1
  <2>7. OrderKept'
    BY <1>1, <1>5, <1>7, <2>4, <2>5, <2>6
  <2> QED BY <1>2, <2>4, <2>7
<1> QED BY <1>1, <1>6, <1>7, OrderHead

(* While the frames are good, no resend comes to stand on the line. *)
LEMMA NoResendWritten ==
  ASSUME SoundInv, NeverResent, NodeTurn \/ Publish \/ NodeEnds
  PROVE  \A k \in 1..Len(inbox') : inbox'[k] # Cmd("r")
<1>1. CASE UNCHANGED inbox
  BY <1>1 DEF NeverResent
<1>2. ASSUME NEW t \in Speech, Writes(t), t # Resends
      PROVE  \A k \in 1..Len(inbox') : inbox'[k] # Cmd("r")
  <2>1. PICK m \in 0..Len(t) : inbox' = inbox \o SubSeq(t, 1, m)
    BY <1>2 DEF Writes
  <2>2. inbox \in Seq(Written) /\ t \in Seq(Written)
    BY SpeechShape DEF SoundInv, LineSound
  <2>3. \A k \in 1..Len(t) : t[k] # Cmd("r")
    <3>1. CASE t = <<Cmd("d")>> \/ t = <<Cmd("w")>>
      BY <3>1 DEF Cmd
    <3>2. ASSUME NEW f \in NodeFrame, t = FrameTokens(f) PROVE \A k \in 1..Len(t) : t[k] # Cmd("r")
      BY <3>2 DEF FrameTokens, Size, Rest, Sum, Cmd
    <3> QED BY <1>2, <3>1, <3>2 DEF Speech, Resends
  <2> DEFINE s == SubSeq(t, 1, m)
             both == inbox \o s
  <2>4. s \in Seq(Written) /\ Len(s) = m /\ \A k \in 1..m : s[k] = t[k]
    BY <2>2, PrefixType
  <2> HIDE DEF s
  <2>5. /\ Len(both) = Len(inbox) + Len(s) /\ Len(inbox) \in Nat
        /\ \A k \in 1..Len(inbox) : both[k] = inbox[k]
        /\ \A k \in 1..Len(s) : both[Len(inbox) + k] = s[k]
    BY <2>2, <2>4, BothType
  <2> HIDE DEF both
  <2>6. ASSUME NEW k \in 1..Len(both) PROVE both[k] # Cmd("r")
    <3>1. CASE k <= Len(inbox)
      BY <2>5, <3>1 DEF NeverResent
    <3>2. CASE k > Len(inbox)
      <4>1. k - Len(inbox) \in 1..m /\ Len(inbox) + (k - Len(inbox)) = k
        BY <2>4, <2>5, <3>2
      <4>2. both[k] = t[k - Len(inbox)] /\ k - Len(inbox) \in 1..Len(t)
        BY <2>2, <2>4, <2>5, <4>1
      <4> QED BY <2>3, <4>2
    <3> QED BY <2>5, <3>1, <3>2
  <2> QED BY <2>1, <2>6 DEF both, s
<1> QED BY <1>1, <1>2, NodeSays DEF NeverResent

LEMMA OrderSketch ==
  ASSUME OwedInv, OrderKept, SketchTurn, ~disturbed'
  PROVE  OrderKept'
<1> DEFINE n == packetcount - RingP!Unread
<1>1. /\ UNCHANGED <<published, datagood, prev, counted, rx>>
      /\ outbox \in Seq(SketchToken) /\ LineSound /\ inbox \in Seq(Written)
      /\ \A k \in 1..Len(inbox) : inbox[k] # Cmd("r")
      /\ InOrder(outbox, published, n)
      /\ ~RingLaps /\ ~NoRoomAtHost /\ ~Sketch!Watchdog
  BY DEF SketchTurn, nodeVars, OwedInv, SoundInv, LineSound, Replies, OrderKept, NeverResent
<1>2. ASSUME InOrder(outbox', published, packetcount' - RingP!Unread'),
             \A k \in 1..Len(inbox') : inbox'[k] # Cmd("r")
      PROVE  OrderKept'
  BY <1>1, <1>2 DEF OrderKept, NeverResent, CountKept, RxKept
<1>3. ASSUME UNCHANGED <<packetcount, readIndex, writeIndex>>
      PROVE  packetcount' - RingP!Unread' = n
  BY <1>3 DEF RingP!Unread
<1> HIDE DEF n
<1>4. ASSUME NEW c, Sketch!Reads(c), UNCHANGED <<outbox, packetcount, readIndex, writeIndex>>
      PROVE  OrderKept'
  <2>1. inbox # <<>> /\ inbox' = Tail(inbox)
    BY <1>1, <1>4, SoundReads
  <2>2. \A k \in 1..Len(inbox') : inbox'[k] # Cmd("r")
    BY <1>1, <2>1
  <2> QED BY <1>1, <1>2, <1>3, <1>4, <2>2
<1>5. CASE Sketch!Resend
  <2>1. Head(inbox) = Cmd("r") /\ inbox # <<>>
    BY <1>1, <1>5, SoundReads DEF Sketch!Resend
  <2>2. 1 \in 1..Len(inbox) /\ Head(inbox) = inbox[1]
    BY <1>1, <2>1
  <2> QED BY <1>1, <2>1, <2>2
<1>6. CASE Sketch!Poll \/ Sketch!Stream("w", FALSE) \/ Sketch!BeginFrame
  <2>1. /\ \E c : Sketch!Reads(c)
        /\ UNCHANGED <<outbox, packetcount, readIndex, writeIndex>>
    BY <1>6 DEF Sketch!Poll, Sketch!Stream, Sketch!BeginFrame, Sketch!ringVars
  <2> QED BY <1>4, <2>1
<1>7. CASE Sketch!Stream("q", TRUE) \/ Sketch!DebugText \/ Sketch!Hang
  <2>1. Sketch!Reads("q") \/ Sketch!Reads("debug") \/ Sketch!Reads("other")
          \/ Sketch!Reads("hang")
    BY <1>7 DEF Sketch!Stream, Sketch!DebugText, Sketch!Hang
  <2>2. LineSound
    BY <1>1
  <2>3. ASSUME NEW c, Sketch!Reads(c) PROVE c \in {"size", "d", "r", "w"}
    BY <2>2, <2>3, SoundReads
  <2> QED BY <2>1, <2>3
<1>8. CASE Sketch!AcceptFrame \/ Sketch!RejectFrame
  <2>1. /\ UNCHANGED <<packetcount, readIndex, writeIndex>>
        /\ \E t \in {Ack, Nak} : outbox' = Deliver(outbox, <<t>>, OutCap)
    BY <1>8 DEF Sketch!AcceptFrame, Sketch!RejectFrame, Sketch!ringVars, Sketch!Deliver,
                Deliver, Sketch!Ack, Ack, Sketch!Nak, Nak
  <2>2. InOrder(outbox', published, n)
    BY <1>1, <2>1, OrderAnswers
  <2>3. \A k \in 1..Len(inbox') : inbox'[k] # Cmd("r")
    <3>1. CASE Sketch!AcceptFrame
      <4>1. inbox' = SubSeq(inbox, 3, Len(inbox)) /\ Len(inbox) >= 2
        BY <3>1 DEF Sketch!AcceptFrame, Sketch!Checked
      <4>2. 2 \in 0..Len(inbox) /\ 2 + 1 = 3 /\ Len(inbox) \in Nat
        BY <1>1, <4>1
      <4>3. /\ Len(inbox') = Len(inbox) - 2
            /\ \A k \in 1..(Len(inbox) - 2) : inbox'[k] = inbox[k + 2]
        BY <1>1, <4>1, <4>2, SuffixType
      <4>4. \A k \in 1..(Len(inbox) - 2) : k + 2 \in 1..Len(inbox)
        BY <4>2
      <4> QED BY <1>1, <4>3, <4>4
    <3>2. CASE Sketch!RejectFrame
      BY <3>2 DEF Sketch!RejectFrame
    <3> QED BY <1>8, <3>1, <3>2
  <2> QED BY <1>2, <1>3, <2>1, <2>2, <2>3
<1>9. CASE Sketch!ToHost
  <2>1. Len(outbox) + 2 <= OutCap
    <3>1. ~(Len(outbox) + 2 > OutCap)
      BY <1>1, <1>9 DEF NoRoomAtHost
    <3>2. Len(outbox) \in Nat
      BY <1>1
    <3> QED BY <3>1, <3>2, SketchAssumption
  <2>2. InOrder(outbox', published', packetcount' - RingP!Unread')
    BY <1>1, <1>9, <2>1, OrderHands DEF n
  <2>3. inbox' = inbox
    BY <1>9 DEF Sketch!ToHost
  <2> QED BY <1>1, <1>2, <2>2, <2>3
<1>10. CASE Sketch!Receive
  <2>1. UNCHANGED <<inbox, outbox>>
    BY <1>10 DEF Sketch!Receive, Sketch!lineVars
  <2>2. CASE UNCHANGED Sketch!ringVars
    BY <1>1, <1>2, <1>3, <2>1, <2>2 DEF Sketch!ringVars
  <2>3. CASE Sketch!Ring!Put
    <3>1. RingP!Put
      BY <2>3 DEF Sketch!Ring!Put, RingP!Put, Sketch!Ring!Advance, RingP!Advance,
                  Sketch!Ring!StepOver, RingP!StepOver
    <3>2. RingP!Unread' = IF RingP!Unread < RxSlots - 1 THEN RingP!Unread + 1
                                                       ELSE RingP!Unread
      BY <3>1, RingP!UnreadAfterPut, SketchAssumption DEF OwedInv, RingSound
    <3>3. packetcount' = packetcount + 1 /\ packetcount \in Nat
      BY <3>1, SketchAssumption DEF RingP!Put, OwedInv, RingSound, RingP!RingTypeOK
    <3>4. RingP!Unread # RxSlots - 1 /\ RingP!Unread \in 0..(RxSlots - 1)
      <4>1. packetcount' > packetcount
        BY <3>3
      <4> QED BY <1>1, <4>1, UnreadIs DEF OwedInv, RingLaps
    <3>5. packetcount' - RingP!Unread' = n
      BY <3>2, <3>3, <3>4, SketchAssumption DEF n
    <3> QED BY <1>1, <1>2, <2>1, <3>5
  <2> QED BY <1>10, <2>2, <2>3 DEF Sketch!Receive
<1>11. CASE Sketch!NoCommand \/ Sketch!Periodic \/ Sketch!NothingToHost
  <2>1. UNCHANGED <<inbox, outbox, packetcount, readIndex, writeIndex>>
    BY <1>11 DEF Sketch!NoCommand, Sketch!Periodic, Sketch!NothingToHost,
                 Sketch!ringVars, Sketch!lineVars
  <2> QED BY <1>1, <1>2, <1>3, <2>1
<1> QED BY <1>1, <1>5, <1>6, <1>7, <1>8, <1>9, <1>10, <1>11
        DEF SketchTurn, Sketch!SketchNext

LEMMA OrderNode ==
  ASSUME OwedInv, OrderKept, NodeTurn \/ Publish \/ NodeEnds, ~disturbed'
  PROVE  OrderKept'
<1>1. /\ UNCHANGED <<packetcount, readIndex, writeIndex>>
      /\ packetcount' - RingP!Unread' = packetcount - RingP!Unread
  BY DEF NodeTurn, Publish, NodeEnds, sketchVars, RingP!Unread
<1>2. \A k \in 1..Len(inbox') : inbox'[k] # Cmd("r")
  BY NoResendWritten DEF OwedInv, OrderKept
<1>3. ASSUME UNCHANGED <<published, datagood, prev, counted, rx>>,
             InOrder(outbox', published, packetcount - RingP!Unread)
      PROVE  OrderKept'
  BY <1>1, <1>2, <1>3 DEF OrderKept, NeverResent, CountKept, RxKept
<1>4. CASE UNCHANGED <<published, datagood, prev, counted, rx, outbox>>
  BY <1>3, <1>4 DEF OrderKept
<1>5. CASE NodeTurn /\ Node!ReadGood
  <2>1. ~(Head(outbox) = Ack /\ Len(outbox) > 1)
    BY <1>5 DEF NodeTurn, Misread
  <2>2. Len(outbox) \in Nat /\ Len(outbox) >= 1
    BY <1>5 DEF OwedInv, Replies, Node!ReadGood
  <2>3. CASE published' = published /\ Head(outbox) = Ack
    <3>1. Len(outbox) = 1
      BY <2>1, <2>2, <2>3
    <3> QED BY <1>1, <1>5, <3>1, OrderReads
  <2> QED BY <1>1, <1>5, <2>3, OrderReads
<1>6. CASE NodeTurn /\ Node!ReadBad
  BY <1>6 DEF NodeTurn, Misread
<1>7. CASE NodeTurn /\ Node!ReadAnswer
  <2>1. outbox # <<>> /\ outbox \in Seq(SketchToken) /\ Head(outbox) \in {Ack, Nak}
    BY <1>7 DEF NodeTurn, FrameEaten, Node!ReadAnswer, OwedInv, Replies
  <2>2. outbox' = Tail(outbox)
    <3>1. \A x \in Node!AnswersIn(Head(outbox)) : x[2] = <<>>
      BY <2>1 DEF Node!AnswersIn, Node!Ack, Node!Nak, Ack, Nak
    <3>2. <<>> \o Tail(outbox) = Tail(outbox)
      BY <2>1
    <3> QED BY <1>7, <3>1, <3>2 DEF Node!ReadAnswer
  <2>3. InOrder(Tail(outbox), published, packetcount - RingP!Unread)
    <3>1. published \in Nat /\ InOrder(outbox, published, packetcount - RingP!Unread)
      BY DEF OrderKept, CountKept
    <3>2. \A x : Head(outbox) # Top(x)
      BY <2>1 DEF Ack, Nak, Top
    <3> QED BY <2>1, <3>1, <3>2, OrderHead
  <2>4. UNCHANGED <<published, datagood, prev, counted, rx>>
    BY <1>7 DEF Node!ReadAnswer, Node!pollVars
  <2> QED BY <1>3, <2>2, <2>3, <2>4
<1>8. CASE \/ Node!PollSketch \/ Node!SkipPoll \/ Node!Timeout \/ Node!SendNew
           \/ Node!SendHeld \/ Node!SendRefused \/ Node!WriteFrame \/ Node!AnswerTimeout
           \/ Node!CallsDone \/ Node!Publish \/ Node!Crash \/ Node!Shutdown
  BY <1>4, <1>8 DEF Node!PollSketch, Node!SkipPoll, Node!Timeout, Node!SendNew,
     Node!SendHeld, Node!SendRefused, Node!WriteFrame, Node!AnswerTimeout, Node!CallsDone,
     Node!Publish, Node!Crash, Node!Shutdown, Node!Begins, Node!pollVars, Node!lineVars
<1> QED BY <1>5, <1>6, <1>7, <1>8
        DEF NodeTurn, NodeReads, NodeTimesOut, NodeBegins, NodeSends, Publish, NodeEnds

LEMMA OrderNext == OrderInv /\ [Next]_vars => OrderInv'
<1> SUFFICES ASSUME OrderInv, [Next]_vars, ~disturbed' PROVE SoundInv' /\ OrderKept'
  BY NodeIndices, RingSoundNext, RepliesNext DEF OrderInv
<1>1. CASE NodeRestarts
  <2>1. /\ inbox' = <<>> /\ outbox' = <<>> /\ published' = 0 /\ datagood' = TRUE
        /\ counted' = FALSE /\ packetcount' = 0 /\ readIndex' = 0 /\ writeIndex' = 0
        /\ rx'.body = 0
    BY <1>1 DEF NodeRestarts, Node!Restart, Node!NoRead, Sketch!Reboot, Sketch!Ring!Reset
  <2>2. packetcount' - RingP!Unread' = 0
    BY <2>1 DEF RingP!Unread
  <2>3. Follows(<<>>, 0, [k \in Nat |-> 0], 0, 0)
    BY DEF Follows
  <2>4. OrderKept'
    BY <2>1, <2>2, <2>3 DEF OrderKept, NeverResent, CountKept, RxKept, InOrder
  <2>5. SoundInv'
    BY <1>1, NodeIndices, SoundAfresh DEF OrderInv
  <2> QED BY <2>4, <2>5
<1>2. ASSUME ~NodeRestarts PROVE ~disturbed /\ ~LineFault
  <2>1. ~LineFault
    BY DEF LineFault
  <2>2. CASE SketchTurn \/ NodeTurn
    BY <2>1, <2>2 DEF SketchTurn, NodeTurn
  <2>3. CASE Publish \/ NodeEnds \/ UNCHANGED vars
    <3>1. disturbed' = disturbed
      BY <2>3 DEF Publish, NodeEnds, watched, vars
    <3> QED BY <2>1, <3>1
  <2> QED BY <1>2, <2>1, <2>2, <2>3 DEF Next
<1>3. CASE ~NodeRestarts
  <2>1. OwedInv /\ OrderKept /\ ~LineFault
    BY <1>2, <1>3 DEF OrderInv, OwedInv
  <2>5. SoundInv'
    BY <2>1, SoundNext DEF OwedInv
  <2>2. CASE SketchTurn
    BY <2>1, <2>5, <2>2, OrderSketch
  <2>3. CASE NodeTurn \/ Publish \/ NodeEnds
    BY <2>1, <2>5, <2>3, OrderNode
  <2>4. CASE UNCHANGED vars
    <3>1. UNCHANGED <<inbox, outbox, published, datagood, prev, counted, rx>>
      BY <2>4 DEF vars, nodeVars
    <3>2. packetcount' - RingP!Unread' = packetcount - RingP!Unread
      BY <2>4 DEF vars, sketchVars, RingP!Unread
    <3> QED BY <2>1, <2>5, <3>1, <3>2 DEF OrderKept, NeverResent, CountKept, RxKept
  <2> QED BY <1>3, <2>1, <2>2, <2>3, <2>4, SoundSteps
<1> QED BY <1>1, <1>3

(* With any CANSend traffic, late answers, polls, timeouts, line faults,   *)
(* deaths and restarts, every frame is published once and in the order of  *)
(* arrival until something disturbs them, and again after a restart; what  *)
(* is left is the repeat that a late acknowledgement read alone makes of   *)
(* the frame read last (node 345-369, CANBridge.ino 347-356).              *)
THEOREM PublishedInOrderCorrect == Spec => PublishedInOrder
<1> DEFINE InTurn == Node!ReadGood /\ ~disturbed
                       => \/ published' = published + 1
                          \/ published' = published /\ Head(outbox) = Ack
<1>1. OrderInv /\ [Next]_vars => [InTurn]_vars
  <2> SUFFICES ASSUME OrderInv, [Next]_vars, Node!ReadGood, ~disturbed, ~UNCHANGED vars
               PROVE  \/ published' = published + 1
                      \/ published' = published /\ Head(outbox) = Ack
    OBVIOUS
  <2>1. OwedInv /\ OrderKept
    BY DEF OrderInv, OwedInv
  <2>2. npc = "read" /\ npc' = "loop"
    BY DEF Node!ReadGood
  <2>3. NodeTurn
    BY <2>2 DEF Next, SketchTurn, nodeVars, Publish, Node!Publish, LineFault, NodeEnds,
                Node!Crash, Node!Shutdown, NodeRestarts, Node!Restart, vars
  <2>4. UNCHANGED <<packetcount, readIndex, writeIndex>>
    BY <2>3 DEF NodeTurn, sketchVars
  <2> QED BY <2>1, <2>4, OrderReads
<1> QED BY <1>1, OrderInit, OrderNext, PTL DEF Spec, PublishedInOrder

-----------------------------------------------------------------------------
(* The remainder of a frame, once it is there, is complete. *)
LEMMA WholeRemainder ==
  ASSUME NEW f
  PROVE  Sketch!Bytes(<<Rest(f), Sum(f)>>) = RestBytes + 1
<1> DEFINE box == <<Rest(f), Sum(f)>>
           Grows(g) == g = [k \in 0..Len(box) |->
                              IF k = 0 THEN 0 ELSE g[k - 1] + Sketch!Width(box[k])]
           upTo == CHOOSE g : Grows(g)
<1>1. Len(box) = 2 /\ box[1] = Rest(f) /\ box[2] = Sum(f)
  OBVIOUS
<1>2. Sketch!Width(Rest(f)) = RestBytes /\ Sketch!Width(Sum(f)) = 1
  BY DEF Sketch!Width, Rest, Sum
<1> HIDE DEF box
<1>3. \E g : Grows(g)
  <2> DEFINE h == [k \in 0..2 |-> IF k = 0 THEN 0 ELSE IF k = 1 THEN RestBytes
                                                           ELSE RestBytes + 1]
  <2>1. \A k \in 0..2 : k = 0 \/ k = 1 \/ k = 2
    OBVIOUS
  <2>2. h[0] = 0 /\ h[1] = RestBytes /\ h[2] = RestBytes + 1
    OBVIOUS
  <2>3. \A k \in 0..2 : h[k] = IF k = 0 THEN 0 ELSE h[k - 1] + Sketch!Width(box[k])
    BY <1>1, <1>2, <2>1, <2>2, RestBytesAssumption
  <2>4. h = [k \in 0..2 |-> h[k]]
    OBVIOUS
  <2> HIDE DEF h
  <2>5. Grows(h)
    BY <1>1, <2>3, <2>4
  <2> QED BY <2>5
<1>4. Grows(upTo)
  BY <1>3
<1>5. Sketch!Bytes(box) = upTo[Len(box)]
  BY DEF Sketch!Bytes
<1> HIDE DEF upTo
<1>6. \A k \in 0..2 : upTo[k] = IF k = 0 THEN 0 ELSE upTo[k - 1] + Sketch!Width(box[k])
  BY <1>1, <1>4
<1>7. upTo[0] = 0 /\ upTo[1] = upTo[0] + RestBytes /\ upTo[2] = upTo[1] + 1
  BY <1>1, <1>2, <1>6
<1> QED BY <1>1, <1>5, <1>7, RestBytesAssumption DEF box

LEMMA FitsIndices ==
  ASSUME IsFiniteSet(ArbId)
  PROVE  NodeP!Cardinality(ArbId) = Cardinality(ArbId) /\ Cardinality(ArbId) \in Nat
<1>1. NodeP!Cardinality(ArbId) = Cardinality(ArbId)
  BY DEF NodeP!Cardinality, Cardinality
<1> QED BY <1>1, FS_CardinalityType

-----------------------------------------------------------------------------
(* The node and the sketch in step: with frames registered and released    *)
(* but none received, the node writes only to an idle sketch, and waits    *)
(* until it has been answered.                                             *)
TableType == txarr \in [Sketch!TableIndex -> Sketch!Slot]
Agrees(j) == ~Sketch!EmptySlot(txarr[j]) => transmitting[txarr[j].id] = j
AllAgree  == \A j \in Sketch!TableIndex : Agrees(j)

(* The frame under way, and the slots it does not go to. *)
Filed ==
  /\ \A j \in Sketch!TableIndex \ {cur.index} : Agrees(j)
  /\ cur \in Frame /\ cur.period # OneShot
  /\ cur.period > 0 => transmitting[cur.id] = cur.index

NothingReceived == datagood /\ packetcount = 0 /\ readIndex = writeIndex

Idle     == /\ npc \in {"loop", "calls", "read"} /\ outbox = <<>>
            /\ pc \notin {"await", "hung"} /\ AllAgree
            /\ \/ inbox = <<>>
               \/ npc = "read" /\ repeatread > 0 /\ inbox = <<Cmd("d")>>
Composed == /\ npc = "write" /\ inbox = <<>> /\ outbox = <<>>
            /\ pc \notin {"await", "hung"} /\ Filed
Sent     == /\ npc = "ack" /\ inbox = FrameTokens(cur) /\ outbox = <<>>
            /\ pc \notin {"await", "hung"} /\ Filed
Awaited  == /\ npc = "ack" /\ inbox = <<Rest(cur), Sum(cur)>> /\ outbox = <<>>
            /\ pc = "await" /\ sizeRead /\ Filed
Answered == /\ npc = "ack" /\ inbox = <<>> /\ outbox = <<Ack>>
            /\ pc \notin {"await", "hung"} /\ AllAgree

Lockstep == NothingReceived /\ (Idle \/ Composed \/ Sent \/ Awaited \/ Answered)
TableInv == faults = 0 /\ SoundInv /\ TableType /\ (npc # "dead" => Lockstep)

(* What the table's agreement needs of the constants: no received frames,  *)
(* whose bytes could pass for an answer, no frame sent only once, room for *)
(* a whole frame and a whole answer, and a slot for every identifier.      *)
SilentBus == /\ MaxFaults = 0 /\ MaxFrames = 0 /\ Prompt
             /\ \A m \in Requests : m.period # OneShot
             /\ InCap >= 3 /\ OutCap >= 1
             /\ Indices = Sketch!TableIndex /\ Cardinality(ArbId) <= TxSlots

LEMMA BlankTable ==
  [j \in Sketch!TableIndex |-> Sketch!BlankSlot] \in [Sketch!TableIndex -> Sketch!Slot]
  /\ Sketch!EmptySlot(Sketch!BlankSlot)
BY NonemptyAssumption DEF Sketch!BlankSlot, Sketch!Slot, Sketch!Off, Sketch!EmptySlot

LEMMA TableInit == Init => TableInv
<1> SUFFICES ASSUME Init PROVE TableInv
  OBVIOUS
<1>1. txarr = [j \in Sketch!TableIndex |-> Sketch!BlankSlot]
  BY DEF Init, Sketch!Boot
<1>2. TableType /\ AllAgree
  BY <1>1, BlankTable DEF TableType, AllAgree, Agrees
<1>3. NothingReceived /\ Idle
  BY <1>2 DEF Init, Node!Start, Sketch!Boot, Sketch!Ring!RingInit, NothingReceived, Idle
<1>4. faults = 0
  BY DEF Init
<1> QED BY <1>2, <1>3, <1>4, SoundInit DEF TableInv, Lockstep

(* The type of the table. *)
LEMMA TableTypeNext == TableType /\ [Next]_vars => TableType'
<1> SUFFICES ASSUME TableType, [Next]_vars PROVE TableType'
  OBVIOUS
<1>1. CASE Sketch!AcceptFrame
  <2>1. PICK f \in Sketch!Frame :
          \/ UNCHANGED txarr
          \/ txarr' = [txarr EXCEPT ![f.index] = Sketch!Stored(f)]
    BY <1>1 DEF Sketch!AcceptFrame
  <2>2. Sketch!Stored(f) \in Sketch!Slot
    BY DEF Sketch!Stored, Sketch!Slot, Sketch!Frame
  <2> QED BY <2>1, <2>2 DEF TableType
<1>2. CASE Sketch!Periodic
  <2>1. \A s \in Sketch!Slot : /\ Sketch!AfterSending(s) \in Sketch!Slot
                               /\ [s EXCEPT !.period = Sketch!Off] \in Sketch!Slot
    BY DEF Sketch!Slot, Sketch!AfterSending
  <2> QED BY <1>2, <2>1 DEF Sketch!Periodic, TableType
<1>3. CASE Sketch!Watchdog \/ NodeRestarts
  BY <1>3, BlankTable DEF Sketch!Watchdog, NodeRestarts, Sketch!Reboot, TableType
<1>4. CASE txarr' = txarr
  BY <1>4 DEF TableType
<1>5. CASE SketchTurn /\ ~Sketch!AcceptFrame /\ ~Sketch!Periodic /\ ~Sketch!Watchdog
  BY <1>4, <1>5
  DEF SketchTurn, Sketch!SketchNext, Sketch!NoCommand, Sketch!Poll, Sketch!Resend,
      Sketch!Stream, Sketch!DebugText, Sketch!Hang, Sketch!BeginFrame,
      Sketch!RejectFrame, Sketch!Receive, Sketch!ToHost, Sketch!NothingToHost, Sketch!txVars
<1>6. CASE NodeTurn \/ Publish \/ LineFault \/ NodeEnds \/ UNCHANGED vars
  BY <1>4, <1>6 DEF NodeTurn, Publish, LineFault, NodeEnds, sketchVars, vars
<1> QED BY <1>1, <1>2, <1>3, <1>5, <1>6 DEF Next

(* Slots are only switched off between two frames. *)
LEMMA PeriodicAgrees ==
  ASSUME TableType, Sketch!Periodic, transmitting' = transmitting,
         NEW j \in Sketch!TableIndex, Agrees(j)
  PROVE  Agrees(j)'
<1>1. txarr[j] \in Sketch!Slot
  BY DEF TableType
<1>2. \/ txarr'[j] = Sketch!AfterSending(txarr[j])
      \/ txarr'[j] = [txarr[j] EXCEPT !.period = Sketch!Off]
  BY DEF Sketch!Periodic, TableType
<1>3. /\ txarr'[j].id = txarr[j].id
      /\ txarr'[j].period = txarr[j].period \/ txarr'[j].period = Sketch!Off
  BY <1>1, <1>2 DEF Sketch!AfterSending, Sketch!Slot
<1> QED BY <1>3 DEF Agrees, Sketch!EmptySlot, Sketch!Off

(* Every step of the sketch in one of these situations. *)
LEMMA LockstepSketch ==
  ASSUME SilentBus, TableInv, npc # "dead", SketchTurn
  PROVE  Lockstep'
<1>1. TableType /\ NothingReceived /\ (Idle \/ Composed \/ Sent \/ Awaited \/ Answered)
  BY DEF TableInv, Lockstep
<1>2. UNCHANGED <<npc, datagood, repeatread, cur, transmitting>>
  BY DEF SketchTurn, nodeVars
<1>3. ASSUME UNCHANGED txarr PROVE (Filed => Filed') /\ (AllAgree => AllAgree')
  BY <1>2, <1>3 DEF Filed, AllAgree, Agrees
<1>4. ASSUME NEW c, Sketch!Reads(c)
      PROVE  \/ Idle /\ c = "d" /\ inbox' = <<>>
             \/ Sent /\ c = "size" /\ inbox' = <<Rest(cur), Sum(cur)>>
  <2>1. /\ pc = "command" /\ inbox # <<>> /\ inbox' = Sketch!AfterByte(inbox)
        /\ c \in Sketch!Readings(Head(inbox))
    BY <1>4 DEF Sketch!Reads
  <2>2. CASE Idle
    <3>0. inbox = <<Cmd("d")>>
      BY <2>1, <2>2 DEF Idle
    <3>1. inbox = <<Cmd("d")>> /\ Head(inbox) = Cmd("d") /\ Tail(inbox) = <<>>
      BY <3>0
    <3> QED BY <2>1, <2>2, <3>1 DEF Sketch!AfterByte, Sketch!Readings, Sketch!Width, Cmd
  <2>3. CASE Sent
    <3>1. Head(inbox) = Size /\ Tail(inbox) = <<Rest(cur), Sum(cur)>>
      BY <2>3 DEF Sent, FrameTokens
    <3> QED BY <2>1, <2>3, <3>1 DEF Sketch!AfterByte, Sketch!Readings, Sketch!Width, Size
  <2> QED BY <1>1, <2>1, <2>2, <2>3 DEF Composed, Awaited, Answered
<1>5. CASE Sketch!Poll
  <2>1. /\ Sketch!Reads("d") /\ pc' = "receive" /\ outbox' = outbox
        /\ UNCHANGED <<packetcount, readIndex, writeIndex, txarr>>
    BY <1>5 DEF Sketch!Poll, Sketch!ringVars
  <2>2. Idle /\ inbox' = <<>>
    BY <1>4, <2>1
  <2>3. Idle' /\ NothingReceived'
    BY <1>1, <1>2, <1>3, <2>1, <2>2 DEF Idle, NothingReceived
  <2> QED BY <2>3 DEF Lockstep
<1>6. CASE Sketch!BeginFrame
  <2>1. /\ (Sketch!Reads("size") /\ sizeRead' = TRUE) \/ Sketch!Reads("badsize")
        /\ pc' = "await" /\ outbox' = outbox
        /\ UNCHANGED <<packetcount, readIndex, writeIndex, txarr>>
    BY <1>6 DEF Sketch!BeginFrame, Sketch!ringVars, Sketch!txVars
  <2>2. ~Sketch!Reads("badsize")
    BY <1>4
  <2>3. Sent /\ inbox' = <<Rest(cur), Sum(cur)>> /\ sizeRead' = TRUE
    BY <1>4, <2>1, <2>2
  <2>4. Awaited' /\ NothingReceived'
    BY <1>1, <1>2, <1>3, <2>1, <2>3 DEF Sent, Awaited, NothingReceived
  <2> QED BY <2>4 DEF Lockstep
<1>7. CASE \/ Sketch!Resend \/ Sketch!Stream("q", TRUE) \/ Sketch!Stream("w", FALSE)
           \/ Sketch!DebugText \/ Sketch!Hang
  <2>1. \E c \in {"r", "q", "w", "debug", "other", "hang"} : Sketch!Reads(c)
    BY <1>7 DEF Sketch!Resend, Sketch!Stream, Sketch!DebugText, Sketch!Hang
  <2>2. FALSE
    BY <1>4, <2>1
  <2> QED BY <2>2
<1>8. Awaited => Sketch!Complete /\ Sketch!Checked(cur) /\ cur \in Sketch!Frame
  <2> SUFFICES ASSUME Awaited PROVE Sketch!Complete /\ Sketch!Checked(cur) /\ cur \in Sketch!Frame
    OBVIOUS
  <2>1. inbox = <<Rest(cur), Sum(cur)>> /\ sizeRead /\ cur \in Frame
    BY DEF Awaited, Filed
  <2>2. Sketch!Bytes(inbox) = RestBytes + 1
    BY <2>1, WholeRemainder
  <2>3. Sketch!Complete
    BY <2>2, RestBytesAssumption DEF Sketch!Complete
  <2>4. cur \in Sketch!Frame
    BY <2>1 DEF Frame, Sketch!Frame
  <2>5. Sketch!Checked(cur)
    BY <2>1 DEF Sketch!Checked, Sketch!Rest, Rest, Sketch!Sum, Sum
  <2> QED BY <2>3, <2>4, <2>5
<1>9. pc = "await" => Awaited
  BY <1>1 DEF Idle, Composed, Sent, Answered
<1>10. CASE Sketch!AcceptFrame
  <2>1. Awaited
    BY <1>9, <1>10 DEF Sketch!AcceptFrame
  <2>2. inbox = <<Rest(cur), Sum(cur)>> /\ Len(inbox) = 2 /\ inbox[1] = Rest(cur)
    BY <2>1 DEF Awaited
  <2>3. PICK f \in Sketch!Frame :
          /\ Sketch!Checked(f)
          /\ f.period # OneShot => txarr' = [txarr EXCEPT ![f.index] = Sketch!Stored(f)]
    BY <1>10 DEF Sketch!AcceptFrame, Sketch!OneShot, OneShot
  <2>4. f = cur
    BY <2>2, <2>3 DEF Sketch!Checked, Sketch!Rest, Rest
  <2>5. Filed /\ cur.period \in Int /\ cur.index \in Sketch!TableIndex
    BY <2>1, PeriodsAssumption DEF Awaited, Filed, Frame, SilentBus
  <2>6. txarr' = [txarr EXCEPT ![cur.index] = Sketch!Stored(cur)]
    BY <2>3, <2>4, <2>5 DEF Filed
  <2>7. AllAgree'
    <3> SUFFICES ASSUME NEW j \in Sketch!TableIndex PROVE Agrees(j)'
      BY DEF AllAgree, Sketch!TableIndex
    <3>1. CASE j = cur.index
      <4>1. txarr'[j] = Sketch!Stored(cur)
        BY <2>5, <2>6, <3>1, <1>1 DEF TableType
      <4> QED BY <1>2, <2>5, <3>1, <4>1 DEF Filed, Agrees, OneShot, Sketch!EmptySlot, Sketch!Stored
    <3>2. CASE j # cur.index
      <4>1. txarr'[j] = txarr[j]
        BY <1>1, <2>6, <3>2 DEF TableType
      <4> QED BY <1>2, <2>5, <3>2, <4>1 DEF Filed, Agrees
    <3> QED BY <3>1, <3>2
  <2>8. outbox' = <<Ack>>
    <3>1. outbox' = Deliver(<<>>, <<Ack>>, OutCap)
      BY <1>10, <2>1 DEF Sketch!AcceptFrame, Sketch!Deliver, Deliver, Sketch!Ack, Ack, Awaited
    <3>2. <<Ack>> \in Seq(SketchToken)
      BY ReplyTokens
    <3>3. Len(<<Ack>>) = 1
      OBVIOUS
    <3> QED BY <3>1, <3>2, <3>3, DeliverAll, SketchAssumption DEF SilentBus
  <2>9. inbox' = <<>>
    <3>1. inbox' = SubSeq(inbox, 3, Len(inbox))
      BY <1>10 DEF Sketch!AcceptFrame
    <3>2. SubSeq(<<Rest(cur), Sum(cur)>>, 3, 2) = <<>>
      OBVIOUS
    <3> QED BY <2>2, <3>1, <3>2
  <2>10. pc' = "receive" /\ UNCHANGED <<packetcount, readIndex, writeIndex>>
    BY <1>10 DEF Sketch!AcceptFrame, Sketch!ringVars
  <2>11. Answered' /\ NothingReceived'
    BY <1>1, <1>2, <2>1, <2>7, <2>8, <2>9, <2>10 DEF Answered, Awaited, NothingReceived
  <2> QED BY <2>11 DEF Lockstep
<1>11. ~Sketch!RejectFrame /\ ~Sketch!Watchdog
  <2>1. pc # "hung"
    BY <1>1 DEF Idle, Composed, Sent, Awaited, Answered
  <2> QED BY <1>8, <1>9, <2>1 DEF Sketch!RejectFrame, Sketch!Watchdog
<1>12. CASE Sketch!NoCommand \/ Sketch!Receive \/ Sketch!Periodic \/ Sketch!NothingToHost
  <2>1. UNCHANGED <<inbox, outbox>> /\ pc \notin {"await", "hung"} /\ pc' \notin {"await", "hung"}
    BY <1>12 DEF Sketch!NoCommand, Sketch!Receive, Sketch!Periodic, Sketch!NothingToHost,
                 Sketch!lineVars
  <2>2. UNCHANGED <<packetcount, readIndex, writeIndex>>
    <3>1. ~Sketch!Ring!Put
      BY <1>1 DEF Sketch!Ring!Put, NothingReceived, SilentBus
    <3> QED BY <1>12, <3>1 DEF Sketch!NoCommand, Sketch!Receive, Sketch!Periodic,
                 Sketch!NothingToHost, Sketch!ringVars
  <2>3. (Filed => Filed') /\ (AllAgree => AllAgree')
    <3>1. CASE Sketch!Periodic
      BY <1>1, <1>2, <3>1, PeriodicAgrees DEF Filed, AllAgree
    <3>2. CASE Sketch!NoCommand \/ Sketch!Receive \/ Sketch!NothingToHost
      BY <1>3, <3>2 DEF Sketch!NoCommand, Sketch!Receive, Sketch!NothingToHost, Sketch!txVars
    <3> QED BY <1>12, <3>1, <3>2
  <2>4. NothingReceived' /\ ~Awaited
    BY <1>1, <1>2, <2>1, <2>2 DEF NothingReceived, Awaited
  <2>5. (Idle => Idle') /\ (Composed => Composed') /\ (Answered => Answered')
    BY <1>2, <2>1, <2>3 DEF Idle, Composed, Answered
  <2>6. Sent => Sent'
    BY <1>2, <2>1, <2>3 DEF Sent, FrameTokens, Rest, Sum, Size
  <2> QED BY <1>1, <2>4, <2>5, <2>6 DEF Lockstep
<1>13. ~Sketch!ToHost
  BY <1>1 DEF Sketch!ToHost, Sketch!Ring!Take, NothingReceived
<1> QED BY <1>5, <1>6, <1>7, <1>10, <1>11, <1>12, <1>13 DEF SketchTurn, Sketch!SketchNext

(* A callback starts on a frame that agrees with every other slot. *)
LEMMA FrameComposed ==
  ASSUME SilentBus, TableInv, NodeP!IndexInv', NodeBegins, NodeTurn
  PROVE  Composed'
<1> DEFINE m == Head(queue)
<1>1. /\ npc = "calls" /\ queue # <<>> /\ npc' = "write"
      /\ UNCHANGED <<inbox, outbox, pc, txarr>>
      /\ cur'.id = m.id /\ cur'.period = m.period /\ cur'.data = m.data
  BY DEF NodeBegins, Node!SendNew, Node!SendHeld, Node!Calls, Node!Begins, Node!lineVars,
         NodeTurn, sketchVars
<1>2. Idle
  BY <1>1 DEF TableInv, Lockstep, Composed, Sent, Awaited, Answered
<1>3. m \in [period : Periods, id : ArbId, data : Data] /\ m.period # OneShot
  <2>1. queue \in Seq(Requests)
    BY DEF TableInv, SoundInv, NodeP!IndexInv, NodeP!IndexTypeOK
  <2>2. m \in Requests
    BY <1>1, <2>1
  <2> QED BY <2>2, NodeAssumption DEF SilentBus
<1>4. cur' \in NodeFrame
  BY CurType DEF TableInv, Next
<1>5. cur' \in Frame
  <2>2. cur'.index < Cardinality(ArbId)
    BY <1>1, FitsIndices, NodeAssumption DEF NodeP!IndexInv, NodeP!IndexFits
  <2>3. cur'.index \in Node!HostIndex
    BY <1>4 DEF NodeFrame
  <2>4. cur'.index \in Indices
    BY <2>2, <2>3, FitsIndices, NodeAssumption, SketchAssumption
    DEF SilentBus, Sketch!TableIndex, Node!HostIndex
  <2> QED BY <1>1, <1>3, <1>4, <2>4 DEF Frame, NodeFrame
<1>6. transmitting \in [ArbId -> Node!HostIndex \union {Node!NoIndex}]
  BY DEF TableInv, SoundInv, NodeP!IndexInv, NodeP!IndexTypeOK, Node!HostIndex, Node!NoIndex,
         NodeP!HostIndex, NodeP!NoIndex
<1>7. \/ transmitting' = [transmitting EXCEPT ![m.id] = cur'.index]
         /\ transmitting[m.id] = Node!NoIndex
      \/ /\ transmitting[m.id] = cur'.index
         /\ \/ m.period > 0 /\ transmitting' = transmitting
            \/ ~(m.period > 0) /\ transmitting' = [transmitting EXCEPT ![m.id] = Node!NoIndex]
  BY DEF NodeBegins, Node!SendNew, Node!SendHeld, Node!Begins, Node!Held
<1>8. cur'.period > 0 => transmitting'[cur'.id] = cur'.index
  BY <1>1, <1>3, <1>6, <1>7
<1>9. ASSUME NEW j \in Sketch!TableIndex, j # cur'.index PROVE Agrees(j)'
  <2> SUFFICES ASSUME ~Sketch!EmptySlot(txarr[j]) PROVE transmitting'[txarr[j].id] = j
    BY <1>1 DEF Agrees, Sketch!EmptySlot
  <2>1. txarr[j].id \in ArbId /\ transmitting[txarr[j].id] = j /\ j # Node!NoIndex
    BY <1>2, SketchAssumption
    DEF Idle, AllAgree, Agrees, TableInv, TableType, Sketch!Slot, Sketch!TableIndex, Node!NoIndex
  <2>2. txarr[j].id # m.id
    BY <1>7, <1>9, <2>1
  <2> QED BY <1>3, <1>6, <1>7, <2>1, <2>2
<1>10. UNCHANGED txarr /\ (Sketch!TableIndex)' = Sketch!TableIndex
  BY <1>1 DEF Sketch!TableIndex
<1>11. Filed'
  BY <1>3, <1>5, <1>1, <1>8, <1>9 DEF Filed, Frame, Sketch!TableIndex, OneShot
<1> QED BY <1>1, <1>2, <1>11 DEF Composed, Idle

(* Every step of the node in one of these situations. *)
LEMMA LockstepNode ==
  ASSUME SilentBus, TableInv, npc # "dead", NodeP!IndexInv', NodeTurn \/ Publish
  PROVE  Lockstep'
<1>1. TableType /\ NothingReceived /\ (Idle \/ Composed \/ Sent \/ Awaited \/ Answered)
  BY DEF TableInv, Lockstep
<1>2. UNCHANGED <<pc, sizeRead, txarr, packetcount, readIndex, writeIndex>>
  BY DEF NodeTurn, Publish, sketchVars
<1>3. ASSUME UNCHANGED <<transmitting, datagood>>
      PROVE  /\ NothingReceived' /\ (AllAgree => AllAgree')
             /\ UNCHANGED cur => (Filed => Filed')
  BY <1>1, <1>2, <1>3 DEF NothingReceived, Filed, AllAgree, Agrees
<1>4. CASE Node!PollSketch
  <2>1. /\ npc = "loop" /\ npc' = "read" /\ repeatread' = 2
        /\ inbox' = Deliver(inbox, Node!Polls, InCap)
        /\ UNCHANGED <<transmitting, datagood, outbox>>
    BY <1>4 DEF Node!PollSketch, Node!Write, Node!Deliver, Deliver, Node!sendVars
  <2>2. Idle /\ inbox = <<>>
    BY <1>1, <2>1 DEF Idle, Composed, Sent, Awaited, Answered
  <2>3. Node!Polls = <<Cmd("d")>>
    BY <1>1 DEF Node!Polls, Node!Cmd, Cmd, NothingReceived
  <2>4. inbox' = <<Cmd("d")>>
    <3>1. <<Cmd("d")>> \in Seq(Written) /\ Len(<<Cmd("d")>>) = 1
      BY DEF Written, Asked
    <3>2. Deliver(<<>>, <<Cmd("d")>>, InCap) = <<Cmd("d")>>
      <4> DEFINE asks == <<Cmd("d")>>
      <4>1. asks \in Seq(Written) /\ Len(asks) <= InCap /\ InCap \in Nat
        BY <3>1, SketchAssumption DEF SilentBus
      <4> HIDE DEF asks
      <4>2. Deliver(<<>>, asks, InCap) = asks
        BY <4>1, DeliverAll
      <4> QED BY <4>2 DEF asks
    <3> QED BY <2>1, <2>2, <2>3, <3>2
  <2>5. Idle'
    BY <1>2, <1>3, <2>1, <2>2, <2>4 DEF Idle
  <2> QED BY <1>3, <2>1, <2>5 DEF Lockstep
<1>5. CASE \/ Node!SkipPoll \/ (Node!Timeout /\ (MayTimeOut \/ repeatread = 0))
           \/ Node!SendRefused \/ Node!CallsDone \/ Publish
  <2>1. UNCHANGED <<transmitting, datagood, inbox, outbox, cur>>
    BY <1>5 DEF Node!SkipPoll, Node!Timeout, Node!SendRefused, Node!CallsDone, Publish,
                Node!Publish, Node!pollVars, Node!sendVars, Node!lineVars
  <2>2. CASE Publish
    <3>1. UNCHANGED <<npc, repeatread>>
      BY <2>2 DEF Publish, Node!Publish, Node!pollVars
    <3>2. (Idle => Idle') /\ (Answered => Answered') /\ (Composed => Composed')
      BY <1>2, <1>3, <2>1, <3>1 DEF Idle, Answered, Composed
    <3>3. (Sent => Sent') /\ (Awaited => Awaited')
      BY <1>2, <1>3, <2>1, <3>1 DEF Sent, Awaited, FrameTokens, Rest, Sum, Size
    <3> QED BY <1>1, <1>3, <2>1, <3>2, <3>3 DEF Lockstep
  <2>3. CASE ~Publish
    <3>1. npc \in {"loop", "read", "calls"} /\ npc' \in {"loop", "read", "calls"}
      BY <1>5, <2>3 DEF Node!SkipPoll, Node!Timeout, Node!SendRefused, Node!CallsDone,
                        Node!Calls
    <3>2. Idle
      BY <1>1, <3>1 DEF Composed, Sent, Awaited, Answered
    <3>3. inbox = <<>>
      <4>1. CASE Node!Timeout
        <5>1. npc = "read" /\ (MayTimeOut \/ repeatread = 0) /\ ~(0 > 0)
          BY <1>5, <2>3, <4>1 DEF Node!Timeout, Node!SkipPoll, Node!SendRefused,
                                  Node!CallsDone, Node!Calls
        <5> QED BY <3>2, <5>1 DEF Idle, MayTimeOut, SketchIdle, SilentBus
      <4>2. CASE ~Node!Timeout
        BY <1>5, <2>3, <3>2, <4>2 DEF Idle, Node!SkipPoll, Node!SendRefused,
                                      Node!CallsDone, Node!Calls
      <4> QED BY <4>1, <4>2
    <3>4. Idle'
      BY <1>2, <1>3, <2>1, <3>1, <3>2, <3>3 DEF Idle
    <3> QED BY <1>3, <2>1, <3>4 DEF Lockstep
  <2> QED BY <2>2, <2>3
<1>6. CASE NodeBegins /\ NodeTurn
  <2>1. UNCHANGED datagood
    BY <1>6 DEF NodeBegins, Node!SendNew, Node!SendHeld, Node!Begins, Node!pollVars
  <2> QED BY <1>1, <1>2, <1>6, <2>1, FrameComposed DEF NothingReceived, Lockstep
<1>7. CASE Node!WriteFrame
  <2>1. /\ npc = "write" /\ npc' = "ack"
        /\ inbox' = Deliver(inbox, FrameTokens(cur), InCap)
        /\ UNCHANGED <<transmitting, datagood, outbox, cur>>
    BY <1>7 DEF Node!WriteFrame, Node!Write, Node!Deliver, Deliver, Node!sendVars,
                Node!pollVars, FrameTokens, Node!FrameTokens, Size, Node!Size, Rest,
                Node!Rest, Sum, Node!Sum
  <2>2. Composed
    BY <1>1, <2>1 DEF Idle, Sent, Awaited, Answered
  <2>3. inbox' = FrameTokens(cur)
    <3>1. FrameTokens(cur) \in Seq(Written)
      BY SpeechShape DEF Speech, TableInv, SoundInv
    <3>2. Len(FrameTokens(cur)) = 3
      BY DEF FrameTokens
    <3> QED BY <2>1, <2>2, <3>1, <3>2, DeliverAll, SketchAssumption DEF SilentBus, Composed
  <2>4. Sent'
    BY <1>2, <1>3, <2>1, <2>2, <2>3
    DEF Composed, Sent, FrameTokens, Rest, Sum, Size
  <2> QED BY <1>3, <2>1, <2>4 DEF Lockstep
<1>8. CASE Node!ReadAnswer
  <2>1. npc = "ack" /\ outbox # <<>> /\ UNCHANGED <<transmitting, datagood, inbox>>
    BY <1>8 DEF Node!ReadAnswer, Node!pollVars
  <2>2. Answered
    BY <1>1, <2>1 DEF Idle, Composed, Sent, Awaited
  <2>3. outbox = <<Ack>> /\ Head(outbox) = Node!Ack /\ Tail(outbox) = <<>>
    BY <2>2 DEF Answered, Ack, Node!Ack
  <2>4. outbox' = <<>> /\ npc' = "calls"
    <3>1. PICK a \in Node!AnswersIn(Node!Ack) :
            outbox' = a[2] \o <<>> /\ Node!Judge(a[1], outbox')
      BY <1>8, <2>3 DEF Node!ReadAnswer
    <3>2. a = <<6, <<>>>>
      BY <3>1 DEF Node!AnswersIn, Node!Ack, Node!Nak, Node!Text
    <3>3. a[1] = 6 /\ a[2] = <<>> /\ <<>> \o <<>> = <<>>
      BY <3>2
    <3> QED BY <3>1, <3>3 DEF Node!Judge, Node!Returns
  <2>5. Idle'
    BY <1>2, <1>3, <2>1, <2>2, <2>4 DEF Answered, Idle
  <2> QED BY <1>3, <2>1, <2>5 DEF Lockstep
<1>9. ~Node!ReadGood /\ ~Node!ReadBad
  BY <1>1 DEF Node!ReadGood, Node!ReadBad, Idle, Composed, Sent, Awaited, Answered
<1>10. ~(MayTimeOut /\ Node!AnswerTimeout)
  <2> SUFFICES ASSUME SketchIdle, npc = "ack", outbox = <<>> PROVE FALSE
    BY DEF MayTimeOut, Node!AnswerTimeout, SilentBus
  <2>1. CASE Sent
    BY <2>1 DEF Sent, SketchIdle, FrameTokens
  <2>2. CASE Awaited
    <3>1. Sketch!Complete
      BY <2>2, WholeRemainder, RestBytesAssumption DEF Awaited, Sketch!Complete
    <3> QED BY <2>2, <3>1 DEF Awaited, SketchIdle
  <2>3. outbox # <<>> \/ Sent \/ Awaited
    BY <1>1 DEF Idle, Composed, Answered
  <2> QED BY <2>1, <2>2, <2>3
<1>11. NodeTurn =>
         \/ Node!PollSketch \/ Node!SkipPoll \/ Node!ReadGood \/ Node!ReadBad
         \/ (Node!Timeout /\ (MayTimeOut \/ repeatread = 0))
         \/ NodeBegins \/ Node!SendRefused \/ Node!WriteFrame \/ Node!ReadAnswer
         \/ Node!CallsDone \/ (MayTimeOut /\ Node!AnswerTimeout)
  BY DEF NodeTurn, NodeReads, NodeTimesOut, NodeSends
<1> QED BY <1>4, <1>5, <1>6, <1>7, <1>8, <1>9, <1>10, <1>11

LEMMA TableNext ==
  ASSUME SilentBus, TableInv, [Next]_vars
  PROVE  TableInv'
<1>0. ~LineFault /\ faults' = 0
  BY FaultFree DEF TableInv, SilentBus
<1>1. SoundInv' /\ TableType' /\ NodeP!IndexInv'
  BY <1>0, SoundNext, TableTypeNext DEF TableInv, SoundInv
<1>2. npc' # "dead" => Lockstep'
  <2> SUFFICES ASSUME npc' # "dead" PROVE Lockstep'
    OBVIOUS
  <2>1. CASE NodeRestarts
    <3>1. /\ npc' = "loop" /\ inbox' = <<>> /\ outbox' = <<>> /\ pc' = "command"
          /\ txarr' = [j \in Sketch!TableIndex |-> Sketch!BlankSlot]
          /\ datagood' = TRUE
          /\ packetcount' = 0 /\ readIndex' = 0 /\ writeIndex' = 0
      BY <2>1 DEF NodeRestarts, Node!Restart, Sketch!Reboot, Sketch!Ring!Reset
    <3>2. AllAgree'
      <4> SUFFICES ASSUME NEW j \in Sketch!TableIndex PROVE Agrees(j)'
        BY DEF AllAgree, Sketch!TableIndex
      <4>1. Sketch!EmptySlot(txarr'[j])
        BY <3>1, BlankTable
      <4> QED BY <4>1 DEF Agrees, Sketch!EmptySlot
    <3> QED BY <3>1, <3>2 DEF Lockstep, NothingReceived, Idle
  <2>2. CASE npc = "dead" /\ ~NodeRestarts
    <3>1. UNCHANGED npc
      BY <1>0, <2>2, SoundSteps
      DEF SketchTurn, Publish, Node!Publish, nodeVars, vars, NodeEnds,
          Node!Crash, Node!Shutdown, NodeTurn, NodeReads, NodeTimesOut, NodeBegins,
          NodeSends, Node!PollSketch, Node!SkipPoll, Node!ReadGood, Node!ReadBad,
          Node!Timeout, Node!SendNew, Node!SendHeld, Node!SendRefused, Node!Calls,
          Node!WriteFrame, Node!ReadAnswer, Node!AnswerTimeout, Node!CallsDone
    <3> QED BY <2>2, <3>1
  <2>3. CASE npc # "dead" /\ (SketchTurn \/ NodeTurn \/ Publish)
    BY <1>1, <2>3, LockstepSketch, LockstepNode
  <2>4. ~NodeEnds
    BY DEF NodeEnds, Node!Crash, Node!Shutdown
  <2>5. CASE npc # "dead" /\ UNCHANGED vars
    <3>1. Lockstep
      BY <2>5 DEF TableInv
    <3>2. UNCHANGED <<npc, inbox, outbox, pc, sizeRead, txarr, datagood, repeatread, cur,
                      transmitting, packetcount, readIndex, writeIndex>>
      BY <2>5 DEF vars, sketchVars, nodeVars
    <3>3. (AllAgree => AllAgree') /\ (Filed => Filed') /\ (NothingReceived => NothingReceived')
      BY <3>2 DEF AllAgree, Filed, Agrees, NothingReceived
    <3>4. (Idle => Idle') /\ (Composed => Composed') /\ (Answered => Answered')
      BY <3>2, <3>3 DEF Idle, Composed, Answered
    <3>5. (Sent => Sent') /\ (Awaited => Awaited')
      BY <3>2, <3>3 DEF Sent, Awaited, FrameTokens, Rest, Sum, Size
    <3> QED BY <3>1, <3>3, <3>4, <3>5 DEF Lockstep
  <2> QED BY <1>0, <2>1, <2>2, <2>3, <2>4, <2>5, SoundSteps
<1> QED BY <1>0, <1>1, <1>2 DEF TableInv

(* On a sound line with a silent CAN bus the table of the sketch is the    *)
(* node's, as often as frames are registered, released and answered, with  *)
(* the node killed anywhere and started again.                             *)
THEOREM TableAgreesCorrect ==
  ASSUME SilentBus
  PROVE  Spec => []TableAgrees
<1>1. TableInv => TableAgrees
  <2> SUFFICES ASSUME TableInv, AtRest PROVE AllAgree
    BY DEF TableAgrees, AllAgree, Agrees
  <2> QED BY DEF AtRest, TableInv, Lockstep, Idle, Composed, Sent, Awaited, Answered
<1> QED BY <1>1, TableInit, TableNext, PTL DEF Spec

-----------------------------------------------------------------------------
(* The dead man's switch, proved of the sketch alone, in the system: with  *)
(* line faults, whatever the node does, and wherever it dies.              *)
SketchP == INSTANCE CANBridgeProofs WITH HostCommands <- {}, LineFaults <- FALSE

LEMMA SketchAssumes ==
  /\ KeepAlive \in Nat \ {0} /\ ByteMod \in Nat /\ ByteMod > 2
  /\ RxSlots \in Nat /\ RxSlots >= 2 /\ RxBack \in 1..RxSlots /\ MaxFrames \in Nat
  /\ InCap \in Nat /\ OutCap \in Nat
  /\ TxSlots \in Nat \ {0} /\ Indices \subseteq SketchP!TableIndex
  /\ {} \subseteq SketchP!Command
BY SketchAssumption DEF SketchP!TableIndex

LEMMA SwitchActs ==
  /\ Sketch!Poll => SketchP!Poll
  /\ Sketch!AcceptFrame => SketchP!AcceptFrame
  /\ Sketch!Periodic => SketchP!Periodic
  /\ Sketch!Watchdog => SketchP!Watchdog
<1> USE DEF Sketch!ringVars, SketchP!ringVars, Sketch!hostVars, SketchP!hostVars,
            Sketch!lineVars, SketchP!lineVars, Sketch!TableIndex, SketchP!TableIndex
<1>1. Sketch!Poll => SketchP!Poll
  BY DEF Sketch!Poll, SketchP!Poll, Sketch!Reads, SketchP!Reads, Sketch!Readings,
         SketchP!Readings, Sketch!AfterByte, SketchP!AfterByte, Sketch!Width, SketchP!Width,
         Sketch!Noise, SketchP!Noise, Sketch!Command, SketchP!Command
<1>2. Sketch!Complete = SketchP!Complete
  BY DEF Sketch!Complete, SketchP!Complete, Sketch!Bytes, SketchP!Bytes,
         Sketch!Width, SketchP!Width
<1>3. Sketch!AcceptFrame => SketchP!AcceptFrame
  BY <1>2
  DEF Sketch!AcceptFrame, SketchP!AcceptFrame, Sketch!Frame, SketchP!Frame,
      Sketch!Checked, SketchP!Checked, Sketch!Rest, SketchP!Rest, Sketch!Sum, SketchP!Sum,
      Sketch!Stored, SketchP!Stored, Sketch!OneShot, SketchP!OneShot,
      Sketch!Deliver, SketchP!Deliver, Sketch!Ack, SketchP!Ack
<1>4. Sketch!Periodic => SketchP!Periodic
  BY DEF Sketch!Periodic, SketchP!Periodic, Sketch!EmptySlot, SketchP!EmptySlot,
         Sketch!AfterSending, SketchP!AfterSending, Sketch!Ticked, SketchP!Ticked,
         Sketch!Off, SketchP!Off
<1>5. Sketch!Reboot => SketchP!Reboot
  BY DEF Sketch!Reboot, SketchP!Reboot, Sketch!Ring!Reset, SketchP!Ring!Reset,
         Sketch!Ring!Slots, SketchP!Ring!Slots, Sketch!BlankSlot, SketchP!BlankSlot,
         Sketch!Off, SketchP!Off
<1>6. Sketch!Watchdog => SketchP!Watchdog
  BY <1>2, <1>5 DEF Sketch!Watchdog, SketchP!Watchdog
<1> QED BY <1>1, <1>3, <1>4, <1>6

LEMMA SwitchQuiet ==
  ASSUME SketchTurn, ~Sketch!Poll, ~Sketch!AcceptFrame, ~Sketch!Periodic, ~Sketch!Watchdog
  PROVE  SketchP!QuietStep
BY DEF SketchTurn, Sketch!SketchNext, Sketch!NoCommand, Sketch!Resend, Sketch!Stream,
       Sketch!DebugText, Sketch!Hang, Sketch!BeginFrame, Sketch!RejectFrame,
       Sketch!Receive, Sketch!ToHost, Sketch!NothingToHost, Sketch!Reads, Sketch!txVars,
       SketchP!QuietStep, SketchP!txVars

LEMMA SwitchSystem == SketchP!SwitchInv /\ [Next]_vars => SketchP!SwitchInv'
<1> SUFFICES ASSUME SketchP!SwitchInv, [Next]_vars PROVE SketchP!SwitchInv'
  OBVIOUS
<1>1. CASE SketchP!SketchNext
  BY <1>1, SketchAssumes, SketchP!SwitchNext, IndicesAssumption, NonemptyAssumption,
     RestBytesAssumption, PeriodsAssumption
  DEF SketchP!Next
<1>2. CASE SketchP!QuietStep
  BY <1>2, SketchAssumption
  DEF SketchP!QuietStep, SketchP!txVars, SketchP!SwitchInv, SketchP!SwitchTypeOK,
      SketchP!KeepAliveCounts, SketchP!DeadMan, SketchP!TableIndex, SketchP!Slot,
      SketchP!EmptySlot
<1>3. CASE SketchTurn
  BY <1>1, <1>2, <1>3, SwitchActs, SwitchQuiet DEF SketchP!SketchNext
<1>4. CASE NodeTurn \/ Publish \/ LineFault \/ NodeEnds \/ UNCHANGED vars
  BY <1>2, <1>4 DEF NodeTurn, Publish, LineFault, NodeEnds, vars, sketchVars,
                    SketchP!QuietStep, SketchP!txVars
<1>5. CASE NodeRestarts
  <2>1. /\ txarr' = [j \in SketchP!TableIndex |-> SketchP!BlankSlot]
        /\ keepalive' = 0 /\ silent' = KeepAlive + 1 /\ bus' = {} /\ pc' = "command"
    BY <1>5 DEF NodeRestarts, Sketch!Reboot, Sketch!TableIndex, SketchP!TableIndex,
                Sketch!BlankSlot, SketchP!BlankSlot, Sketch!Off, SketchP!Off
  <2>2. SketchP!BlankSlot \in SketchP!Slot /\ SketchP!EmptySlot(SketchP!BlankSlot)
    BY NonemptyAssumption DEF SketchP!BlankSlot, SketchP!Slot, SketchP!Off, SketchP!EmptySlot
  <2> QED BY <2>1, <2>2, SketchAssumption
          DEF SketchP!SwitchInv, SketchP!SwitchTypeOK, SketchP!KeepAliveCounts,
              SketchP!DeadMan, SketchP!EmptySlot, SketchP!TableIndex, SketchP!Slot
<1> QED BY <1>3, <1>4, <1>5 DEF Next

LEMMA SwitchSystemInit == Init => SketchP!SwitchInv
<1> SUFFICES ASSUME Init PROVE SketchP!SwitchInv
  OBVIOUS
<1>1. SketchP!Init
  BY DEF Init, SketchP!Init, Sketch!Boot, SketchP!Boot, Sketch!Ring!RingInit,
         SketchP!Ring!RingInit, Sketch!Ring!Slots, SketchP!Ring!Slots,
         Sketch!TableIndex, SketchP!TableIndex, Sketch!BlankSlot, SketchP!BlankSlot,
         Sketch!Off, SketchP!Off
<1> QED BY <1>1, SketchP!SwitchInit, SketchAssumes, IndicesAssumption, NonemptyAssumption,
           RestBytesAssumption, PeriodsAssumption

(* No pass of the sketch sends a periodic frame once KeepAlive passes have *)
(* gone by since it last understood the node (CANBridge.ino 326-344): with *)
(* any number of line faults, deaths and restarts, and any timing.         *)
THEOREM SystemDeadManCorrect == Spec => []Sketch!DeadMan
<1>1. SketchP!SwitchInv => Sketch!DeadMan
  BY DEF SketchP!SwitchInv, SketchP!DeadMan, Sketch!DeadMan, SketchP!TableIndex,
         Sketch!TableIndex, SketchP!EmptySlot, Sketch!EmptySlot
<1> QED BY <1>1, SwitchSystemInit, SwitchSystem, PTL DEF Spec
=============================================================================
