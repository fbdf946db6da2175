---------------------------- MODULE RxRingProofs ----------------------------
(***************************************************************************)
(* The ring is correct for every size, every step back and every number of *)
(* frames: its type, its contents and that it implements FrameWindow.      *)
(***************************************************************************)
EXTENDS RxRing, TLAPS

USE SizeAssumption, BackAssumption, MaxFramesAssumption

(* Advancing, stepping over and stepping back stay on the ring. *)
LEMMA IndicesStay ==
  ASSUME NEW i \in Slots, readIndex \in Slots
  PROVE  /\ Advance(i) \in Slots
         /\ StepBack(i) \in Slots
         /\ StepOver(i) \in Slots
BY DEF Slots, Advance, StepBack, StepOver

LEMMA TypeInit == RingInit => RingTypeOK
BY DEF RingInit, RingTypeOK, Slots

LEMMA TypeNext == RingTypeOK /\ [RingNext]_ringVars => RingTypeOK'
<1> SUFFICES ASSUME RingTypeOK, [RingNext]_ringVars PROVE RingTypeOK'
  OBVIOUS
<1> USE DEF RingTypeOK
<1>1. CASE Put
  <2>1. writeIndex' \in Slots /\ readIndex' \in Slots
    BY <1>1, IndicesStay DEF Put
  <2>2. packetcount' \in 0..MaxFrames
    BY <1>1 DEF Put
  <2>3. buffer' \in [Slots -> 0..MaxFrames]
    BY <1>1, <2>2 DEF Put
  <2> QED BY <2>1, <2>2, <2>3
<1>2. CASE Take
  BY <1>2, IndicesStay DEF Take
<1>3. CASE Rewind
  BY <1>3, IndicesStay DEF Rewind
<1>4. CASE Reset
  BY <1>4 DEF Reset, Slots
<1>5. CASE UNCHANGED ringVars
  BY <1>5 DEF ringVars
<1> QED BY <1>1, <1>2, <1>3, <1>4, <1>5 DEF RingNext

(* Both indices of the ring buffer stay inside it (CANBridge.ino 163-172,  *)
(* 312-318, 351-352), however 'r' commands and overruns interleave.        *)
THEOREM RingTypeCorrect == RingSpec => []RingTypeOK
BY TypeInit, TypeNext, PTL DEF RingSpec

-----------------------------------------------------------------------------
LEMMA ContentsInit == RingInit => RingContents
BY DEF RingInit, RingContents, Slots, Age

(* What Put does to the age of a slot: the slot just written is the        *)
(* youngest, every other grows older by one.                               *)
LEMMA AgeAfterPut ==
  ASSUME RingTypeOK, Put, NEW i \in Slots
  PROVE  /\ i = writeIndex => Age(i)' = 0
         /\ i # writeIndex => Age(i)' = Age(i) + 1
         /\ Age(i) \in 0..(Size - 1)
         /\ (Age(i))' \in Int
BY DEF RingTypeOK, Put, Age, Advance, Slots

LEMMA ContentsNext ==
  RingTypeOK /\ RingContents /\ [RingNext]_ringVars => RingContents'
<1> SUFFICES ASSUME RingTypeOK, RingContents, [RingNext]_ringVars
             PROVE  RingContents'
  OBVIOUS
<1>1. CASE Put
  <2> SUFFICES ASSUME NEW i \in Slots
               PROVE  buffer'[i] = IF (Age(i))' < packetcount'
                                   THEN packetcount' - (Age(i))' ELSE 0
    BY DEF RingContents, Slots
  <2> USE AgeAfterPut
  <2>1. packetcount' = packetcount + 1 /\ packetcount \in Nat
    BY <1>1 DEF Put, RingTypeOK
  <2>2. CASE i = writeIndex
    <3>1. buffer'[i] = packetcount + 1
      BY <1>1, <2>2 DEF Put, RingTypeOK
    <3> QED BY <1>1, <2>1, <2>2, <3>1
  <2>3. CASE i # writeIndex
    <3>1. buffer'[i] = buffer[i]
      BY <1>1, <2>3 DEF Put, RingTypeOK
    <3>2. (Age(i))' = Age(i) + 1 /\ Age(i) \in Int
      BY <1>1, <2>3
    <3>3. buffer[i] = IF Age(i) < packetcount THEN packetcount - Age(i) ELSE 0
      BY DEF RingContents
    <3> QED BY <2>1, <3>1, <3>2, <3>3
  <2> QED BY <2>2, <2>3
<1>2. CASE Take \/ Rewind
  BY <1>2 DEF Take, Rewind, RingContents, Age, Slots
<1>3. CASE Reset
  BY <1>3 DEF Reset, RingContents, Age, Slots
<1>4. CASE UNCHANGED ringVars
  BY <1>4 DEF ringVars, RingContents, Age, Slots
<1> QED BY <1>1, <1>2, <1>3, <1>4 DEF RingNext

(* Slot i holds the frame received Age(i) frames ago, or nothing.          *)
THEOREM RingContentsCorrect == RingSpec => []RingContents
BY TypeInit, TypeNext, ContentsInit, ContentsNext, PTL DEF RingSpec

-----------------------------------------------------------------------------
(* The frame under the read index is the oldest of the unread ones. *)
LEMMA ReadSlotIsOldest ==
  ASSUME RingTypeOK, RingContents, readIndex # writeIndex
  PROVE  buffer[readIndex] = Window!Oldest(packetcount, Unread)
<1>1. /\ readIndex \in Slots
      /\ writeIndex \in Slots
      /\ packetcount \in Nat
  BY DEF RingTypeOK
<1>2. Age(readIndex) = Unread - 1 /\ Unread \in 1..(Size - 1)
  BY <1>1 DEF Age, Unread, Slots
<1>3. buffer[readIndex] = IF Age(readIndex) < packetcount
                          THEN packetcount - Age(readIndex) ELSE 0
  BY <1>1 DEF RingContents
<1> QED BY <1>1, <1>2, <1>3 DEF Window!Oldest, Window!Blank, Window!Nothing

Offer == IF readIndex = writeIndex THEN -1 ELSE buffer[readIndex]

LEMMA OfferIsOldest ==
  ASSUME RingTypeOK, RingContents
  PROVE  Offer = Window!Oldest(packetcount, Unread)
<1>1. Unread \in 0..(Size - 1) /\ (Unread = 0 <=> readIndex = writeIndex)
  BY DEF RingTypeOK, Unread, Slots
<1>2. CASE readIndex = writeIndex
  BY <1>1, <1>2 DEF Offer, Window!Oldest, Window!Nothing
<1>3. CASE readIndex # writeIndex
  BY <1>3, ReadSlotIsOldest DEF Offer
<1> QED BY <1>2, <1>3

(* What each operation does to the number of waiting frames. *)
LEMMA UnreadAfterPut ==
  ASSUME RingTypeOK, Put
  PROVE  Unread' = IF Unread < Size - 1 THEN Unread + 1 ELSE Unread
BY DEF RingTypeOK, Put, Unread, StepOver, Advance, Slots

LEMMA UnreadAfterTake ==
  ASSUME RingTypeOK, Take
  PROVE  Unread > 0 /\ Unread' = Unread - 1
BY DEF RingTypeOK, Take, Unread, Advance, Slots

LEMMA UnreadAfterRewind ==
  ASSUME RingTypeOK, Rewind
  PROVE  Unread' = IF Unread + Back < Size THEN Unread + Back
                                           ELSE Unread + Back - Size
BY DEF RingTypeOK, Rewind, Unread, StepBack, Slots

LEMMA StepRefines ==
  ASSUME RingTypeOK, RingContents, RingTypeOK', RingContents',
         [RingNext]_ringVars
  PROVE  [Window!Next]_(Window!vars)
<1>1. Offer' = Window!Oldest(packetcount', Unread')
  <2>1. (Offer = Window!Oldest(packetcount, Unread))'
    BY OfferIsOldest, PTL
  <2> QED BY <2>1 DEF Window!Oldest, Window!Nothing, Window!Blank
<1>2. CASE Put
  <2>1. Window!Put
    BY <1>1, <1>2, UnreadAfterPut DEF Put, Window!Put, Offer
  <2> QED BY <2>1 DEF Window!Next
<1>3. CASE Take
  <2>1. Window!Take
    BY <1>1, <1>3, UnreadAfterTake DEF Take, Window!Take, Offer
  <2> QED BY <2>1 DEF Window!Next
<1>4. CASE Rewind
  <2>1. Window!Rewind
    BY <1>1, <1>4, UnreadAfterRewind DEF Rewind, Window!Rewind, Offer
  <2> QED BY <2>1 DEF Window!Next
<1>5. CASE Reset
  <2>1. Window!Reset
    BY <1>5 DEF Reset, Window!Reset, Window!Nothing, Unread
  <2> QED BY <2>1 DEF Window!Next
<1>6. CASE UNCHANGED ringVars
  BY <1>6 DEF ringVars, Window!vars, Unread
<1> QED BY <1>2, <1>3, <1>4, <1>5, <1>6 DEF RingNext

LEMMA InitRefines == RingInit => Window!Init
BY DEF RingInit, Window!Init, Window!Nothing, Unread

(* The index arithmetic of the ring (CANBridge.ino 163-172, 305-318, 349-  *)
(* 352) is a window over the newest Size - 1 frames, for every size and    *)
(* step back.                                                              *)
THEOREM RingImplementsWindow == RingSpec => WindowSpec
BY TypeInit, TypeNext, ContentsInit, ContentsNext, InitRefines, StepRefines, PTL
   DEF RingSpec, WindowSpec, Window!Spec
=============================================================================
