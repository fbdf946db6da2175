-------------------------- MODULE BridgeNodeProofs --------------------------
(***************************************************************************)
(* The bookkeeping of table indices in ardu_can_bridge_node is right for   *)
(* any number of indices and identifiers, any traffic and any line: it     *)
(* says who holds what, and no frame carries an index as large as the      *)
(* number of identifiers in use.                                           *)
(***************************************************************************)
EXTENDS BridgeNode, SerialLinkProofs, FiniteSetTheorems, WellFoundedInduction

LEMMA HasSmallest ==
  ASSUME NEW S \in SUBSET Nat, S # {}
  PROVE  \E i \in S : \A j \in S : i <= j
<1>1. PICK i \in S : \A j \in S : ~(<<j, i>> \in OpToRel(<, Nat))
  BY WFMin, NatLessThanWellFounded
<1>2. \A j \in S : ~(j < i)
  BY <1>1 DEF OpToRel
<1> QED BY <1>2

(* lockIndex() finds an unused index with only used ones below it. *)
LEMMA LowestFreeIs ==
  ASSUME NEW u \in [HostIndex -> BOOLEAN], LowestFree(u) # NoIndex
  PROVE  /\ LowestFree(u) \in HostIndex
         /\ ~u[LowestFree(u)]
         /\ \A j \in HostIndex : j < LowestFree(u) => u[j]
<1> USE HostAssumption DEF HostIndex
<1> DEFINE Free == {i \in HostIndex : ~u[i]}
<1>1. \E i \in HostIndex : ~u[i]
  BY DEF LowestFree
<1>2. PICK i \in Free : \A j \in Free : i <= j
  <2>1. Free \in SUBSET Nat /\ Free # {}
    BY <1>1
  <2> HIDE DEF Free
  <2> QED BY <2>1, HasSmallest
<1>3. \E k \in HostIndex : ~u[k] /\ \A j \in HostIndex : ~u[j] => k <= j
  BY <1>2
<1>4. LowestFree(u) = CHOOSE k \in HostIndex :
                        ~u[k] /\ \A j \in HostIndex : ~u[j] => k <= j
  BY <1>1 DEF LowestFree
<1>5. /\ LowestFree(u) \in HostIndex
      /\ ~u[LowestFree(u)]
      /\ \A j \in HostIndex : ~u[j] => LowestFree(u) <= j
  BY <1>3, <1>4
<1> QED BY <1>5

-----------------------------------------------------------------------------
(* Who holds which index.                                                  *)

IndexTypeOK ==
  /\ queue \in Seq(Requests)
  /\ transmitting \in [ArbId -> HostIndex \union {NoIndex}]
  /\ usedIndex \in [HostIndex -> BOOLEAN]

IndexInv == IndexTypeOK /\ IndexOwned /\ IndexFits

(* The steps that leave the indices alone; none begins a callback. *)
IndexQuiet == /\ UNCHANGED <<transmitting, usedIndex>>
              /\ npc' \in {"write", "ack"} => UNCHANGED cur /\ npc \in {"write", "ack"}

LEMMA IndicesLeftAlone ==
  \/ PollSketch \/ SkipPoll \/ ReadGood \/ ReadBad \/ Timeout \/ SendRefused
  \/ WriteFrame \/ ReadAnswer \/ AnswerTimeout \/ CallsDone
  \/ Publish \/ Shutdown \/ Crash \/ LineBrings \/ UNCHANGED vars
  => IndexQuiet
<1>1. CASE PollSketch \/ SkipPoll \/ ReadGood \/ ReadBad \/ Timeout \/ SendRefused
           \/ CallsDone \/ Shutdown \/ Crash
  BY <1>1 DEF PollSketch, SkipPoll, ReadGood, ReadBad, Timeout, SendRefused, Calls,
              CallsDone, Shutdown, Crash, sendVars, IndexQuiet
<1>2. CASE ReadAnswer \/ AnswerTimeout
  <2>1. \E t, box : Judge(t, box)
    BY <1>2 DEF ReadAnswer, AnswerTimeout
  <2>2. npc' \in {"write", "ack"} => UNCHANGED cur
    BY <2>1 DEF Judge, Returns
  <2> QED BY <1>2, <2>2 DEF ReadAnswer, AnswerTimeout, IndexQuiet
<1>3. CASE WriteFrame \/ Publish \/ LineBrings \/ UNCHANGED vars
  BY <1>3 DEF WriteFrame, Publish, LineBrings, vars, nodeVars, sendVars,
              IndexQuiet
<1> QED BY <1>1, <1>2, <1>3

LEMMA RequestType ==
  ASSUME queue \in Seq(Requests), queue # <<>>
  PROVE  /\ Head(queue) \in Requests /\ Head(queue).id \in ArbId
         /\ Tail(queue) \in Seq(Requests)
<1>1. Head(queue) \in Requests /\ Tail(queue) \in Seq(Requests)
  BY TailType
<1> QED BY <1>1, RequestsAssumption

LEMMA QueueType ==
  ASSUME queue \in Seq(Requests), [Next]_vars
  PROVE  queue' \in Seq(Requests)
<1>1. CASE SendNew \/ SendHeld \/ SendRefused
  BY <1>1, RequestType DEF SendNew, SendHeld, SendRefused, Begins, Calls
<1>2. CASE Publish
  <2>1. PICK m \in Requests : queue' = IF Len(queue) < QueueCap THEN Append(queue, m)
                                       ELSE Append(Tail(queue), m)
    BY <1>2 DEF Publish
  <2>2. CASE Len(queue) < QueueCap
    BY <2>1, <2>2
  <2>3. CASE ~(Len(queue) < QueueCap)
    <3>1. queue # <<>>
      BY <2>3, HostAssumption
    <3>2. Tail(queue) \in Seq(Requests)
      BY <3>1, RequestType
    <3> QED BY <2>1, <2>3, <3>2
  <2> QED BY <2>2, <2>3
<1>3. CASE Reopen
  BY <1>3 DEF Reopen, Restart
<1>4. CASE UNCHANGED queue
  BY <1>4
<1>5. CASE PollSketch \/ SkipPoll \/ ReadGood \/ ReadBad \/ Timeout \/ WriteFrame
           \/ ReadAnswer \/ AnswerTimeout \/ CallsDone
  BY <1>4, <1>5 DEF PollSketch, SkipPoll, ReadGood, ReadBad, Timeout, WriteFrame,
                    ReadAnswer, AnswerTimeout, CallsDone
<1>6. CASE Shutdown \/ Crash \/ LineBrings \/ UNCHANGED vars
  BY <1>4, <1>6 DEF Shutdown, Crash, LineBrings, vars, nodeVars
<1> QED BY <1>1, <1>2, <1>3, <1>5, <1>6 DEF Next, NodeStep

(* The indices below the lowest free one are held by that many            *)
(* identifiers: the pigeons.                                               *)
LEMMA LowestFreeIsLow ==
  ASSUME IndexInv, LowestFree(usedIndex) # NoIndex
  PROVE  /\ IsFiniteSet(Holders)
         /\ LowestFree(usedIndex) <= Cardinality(Holders)
<1> DEFINE k == LowestFree(usedIndex)
           Below == 0..(k - 1)
           holder == [i \in Below |-> CHOOSE b \in Holders : transmitting[b] = i]
<1>1. k \in HostIndex /\ \A j \in HostIndex : j < k => usedIndex[j]
  BY LowestFreeIs DEF IndexInv, IndexTypeOK
<1>2. k \in Nat
  BY <1>1 DEF HostIndex
<1>3. IsFiniteSet(Holders) /\ Cardinality(Holders) \in Nat
  <2>1. Holders \in SUBSET ArbId
    BY DEF Holders
  <2> QED BY <2>1, ArbIdAssumption, FS_Subset, FS_CardinalityType
<1>4. IsFiniteSet(Below) /\ Cardinality(Below) = k
  BY <1>2, FS_Interval
<1>5. \A i \in Below : \E b \in Holders : transmitting[b] = i
  <2> SUFFICES ASSUME NEW i \in Below PROVE \E b \in Holders : transmitting[b] = i
    OBVIOUS
  <2>1. i \in HostIndex /\ i < k /\ i # NoIndex
    BY <1>1, <1>2, HostAssumption DEF HostIndex, NoIndex
  <2>2. PICK b \in ArbId : transmitting[b] = i
    BY <1>1, <2>1 DEF IndexInv, IndexOwned
  <2> QED BY <2>1, <2>2 DEF Holders
<1>6. /\ holder \in [Below -> Holders]
      /\ \A i \in Below : transmitting[holder[i]] = i
  BY <1>5
<1> HIDE DEF k, Below, holder
<1>7. ~(Cardinality(Holders) < Cardinality(Below))
  <2> SUFFICES ASSUME Cardinality(Holders) < Cardinality(Below) PROVE FALSE
    OBVIOUS
  <2>1. PICK x, y \in Below : x # y /\ holder[x] = holder[y]
    BY <1>3, <1>4, <1>6, FS_PigeonHole
  <2> QED BY <1>6, <2>1
<1>8. k <= Cardinality(Holders)
  BY <1>2, <1>3, <1>4, <1>7
<1> QED BY <1>3, <1>8 DEF k

(* An identifier that asks for an index is not among the holders. *)
LEMMA NewIndexFits ==
  ASSUME IndexInv, NEW a \in ArbId, transmitting[a] = NoIndex,
         LowestFree(usedIndex) # NoIndex
  PROVE  LowestFree(usedIndex) < Cardinality(ArbId)
<1>1. Holders \in SUBSET ArbId /\ Holders # ArbId
  BY DEF Holders
<1>2. /\ Cardinality(Holders) < Cardinality(ArbId)
      /\ Cardinality(Holders) \in Nat /\ Cardinality(ArbId) \in Nat
  BY <1>1, ArbIdAssumption, FS_Subset, FS_CardinalityType
<1>3. LowestFree(usedIndex) \in Nat
  BY LowestFreeIs DEF IndexInv, IndexTypeOK, HostIndex
<1> QED BY <1>2, <1>3, LowestFreeIsLow

(* Taking a free index k for identifier a, or giving k back, leaves the    *)
(* books in order.                                                         *)
LEMMA OwnedAfter ==
  ASSUME IndexInv, NEW a \in ArbId, NEW k \in HostIndex,
         \A b \in ArbId : b # a => transmitting[b] # k,
         \A b \in ArbId : b # a => transmitting'[b] = transmitting[b],
         \A i \in HostIndex : i # k => usedIndex'[i] = usedIndex[i],
         \/ usedIndex'[k] /\ transmitting'[a] = k /\ transmitting[a] = NoIndex
         \/ ~usedIndex'[k] /\ transmitting'[a] = NoIndex /\ transmitting[a] = k
  PROVE  IndexOwned'
<1>1. \A b, c \in ArbId : transmitting'[b] = transmitting'[c]
                          => b = c \/ transmitting'[b] = NoIndex
  <2> SUFFICES ASSUME NEW b \in ArbId, NEW c \in ArbId,
                      transmitting'[b] = transmitting'[c], b # c
               PROVE  transmitting'[b] = NoIndex
    OBVIOUS
  <2>1. CASE b # a /\ c # a
    BY <2>1 DEF IndexInv, IndexOwned
  <2>2. CASE b = a \/ c = a
    BY <2>2
  <2> QED BY <2>1, <2>2
<1>2. ASSUME NEW i \in HostIndex
      PROVE  usedIndex'[i] <=> \E b \in ArbId : transmitting'[b] = i
  <2>1. i # NoIndex /\ k # NoIndex
    BY DEF HostIndex, NoIndex
  <2>2. CASE i = k
    BY <2>1, <2>2
  <2>3. CASE i # k
    <3>1. usedIndex[i] <=> \E b \in ArbId : transmitting[b] = i
      BY DEF IndexInv, IndexOwned
    <3>2. \A b \in ArbId : transmitting'[b] = i <=> transmitting[b] = i
      BY <2>1, <2>3
    <3>3. usedIndex'[i] = usedIndex[i]
      BY <2>3
    <3> QED BY <3>1, <3>2, <3>3, Zenon
  <2> QED BY <2>2, <2>3
<1> QED BY <1>1, <1>2 DEF IndexOwned

LEMMA IndexInit == Init => IndexInv
<1> SUFFICES ASSUME Init PROVE IndexInv
  OBVIOUS
<1>1. /\ queue = <<>> /\ npc = "loop"
      /\ transmitting = [i \in ArbId |-> NoIndex]
      /\ usedIndex = [i \in HostIndex |-> FALSE]
  BY DEF Init, Start
<1>2. Cardinality(ArbId) \in Nat
  BY ArbIdAssumption, FS_CardinalityType
<1>3. \A i \in HostIndex : i # NoIndex
  BY DEF HostIndex, NoIndex
<1> QED BY <1>1, <1>2, <1>3 DEF IndexInv, IndexTypeOK, IndexOwned, IndexFits, NoIndex

LEMMA IndexNext == IndexInv /\ [Next]_vars => IndexInv'
<1> SUFFICES ASSUME IndexInv, [Next]_vars PROVE IndexInv'
  OBVIOUS
<1>1. queue' \in Seq(Requests)
  BY QueueType DEF IndexInv, IndexTypeOK
<1>2. CASE IndexQuiet
  BY <1>1, <1>2 DEF IndexQuiet, IndexInv, IndexTypeOK, IndexOwned, IndexFits
<1> DEFINE m == Head(queue)
<1>3. CASE SendNew
  <2> DEFINE k == LowestFree(usedIndex)
  <2>1. m.id \in ArbId /\ transmitting[m.id] = NoIndex
    BY <1>3, RequestType DEF SendNew, Calls, Held, IndexInv, IndexTypeOK
  <2>2. k \in HostIndex /\ ~usedIndex[k] /\ k # NoIndex
    BY <1>3, LowestFreeIs DEF SendNew, IndexInv, IndexTypeOK
  <2>3. k < Cardinality(ArbId)
    BY <1>3, <2>1, NewIndexFits DEF SendNew
  <2>4. /\ transmitting' = [transmitting EXCEPT ![m.id] = k]
        /\ usedIndex' = [usedIndex EXCEPT ![k] = TRUE]
        /\ cur'.index = k
    BY <1>3 DEF SendNew, Begins
  <2> HIDE DEF k, m
  <2>5. IndexTypeOK'
    BY <1>1, <2>1, <2>2, <2>4 DEF IndexInv, IndexTypeOK
  <2>6. \A b \in ArbId : transmitting[b] # k
    BY <2>2 DEF IndexInv, IndexOwned
  <2>7. IndexOwned'
    <3>1. /\ transmitting'[m.id] = k
          /\ \A b \in ArbId : b # m.id => transmitting'[b] = transmitting[b]
      BY <2>1, <2>4 DEF IndexInv, IndexTypeOK
    <3>2. /\ usedIndex'[k]
          /\ \A i \in HostIndex : i # k => usedIndex'[i] = usedIndex[i]
      BY <2>2, <2>4, Zenon DEF IndexInv, IndexTypeOK
    <3> QED BY <2>1, <2>2, <2>6, <3>1, <3>2, OwnedAfter
  <2>8. IndexFits'
    BY <2>1, <2>3, <2>4 DEF IndexInv, IndexTypeOK, IndexFits
  <2> QED BY <2>5, <2>7, <2>8 DEF IndexInv
<1>4. CASE SendHeld
  <2> DEFINE k == transmitting[m.id]
  <2>1. m.id \in ArbId /\ k # NoIndex /\ k \in HostIndex
    BY <1>4, RequestType DEF SendHeld, Calls, Held, IndexInv, IndexTypeOK
  <2>2. cur'.index = k /\ k < Cardinality(ArbId)
    BY <1>4, <2>1 DEF SendHeld, Begins, Held, IndexInv, IndexFits
  <2>3. CASE m.period > 0
    <3>1. UNCHANGED <<transmitting, usedIndex>>
      BY <1>4, <2>3 DEF SendHeld
    <3> QED BY <1>1, <2>2, <3>1 DEF IndexInv, IndexTypeOK, IndexOwned, IndexFits
  <2>4. CASE ~(m.period > 0)
    <3>1. /\ transmitting' = [transmitting EXCEPT ![m.id] = NoIndex]
          /\ usedIndex' = [usedIndex EXCEPT ![k] = FALSE]
      BY <1>4, <2>4 DEF SendHeld, Held
    <3> HIDE DEF m
    <3>2. IndexTypeOK'
      BY <1>1, <2>1, <3>1 DEF IndexInv, IndexTypeOK
    <3>3. \A b \in ArbId : b # m.id => transmitting[b] # k
      BY <2>1 DEF IndexInv, IndexOwned
    <3>4. IndexOwned'
      <4>1. /\ transmitting'[m.id] = NoIndex
            /\ \A b \in ArbId : b # m.id => transmitting'[b] = transmitting[b]
        BY <2>1, <3>1 DEF IndexInv, IndexTypeOK
      <4>2. /\ ~usedIndex'[k]
            /\ \A i \in HostIndex : i # k => usedIndex'[i] = usedIndex[i]
        BY <2>1, <3>1, Zenon DEF IndexInv, IndexTypeOK
      <4> QED BY <2>1, <3>3, <4>1, <4>2, OwnedAfter
    <3>5. Cardinality(ArbId) \in Nat
      BY ArbIdAssumption, FS_CardinalityType
    <3>6. IndexFits'
      BY <2>1, <2>2, <3>1, <3>5 DEF IndexInv, IndexTypeOK, IndexFits, NoIndex
    <3> QED BY <3>2, <3>4, <3>6 DEF IndexInv
  <2> QED BY <2>3, <2>4
<1>5. CASE Reopen
  <2>1. /\ npc' = "loop"
        /\ transmitting' = [i \in ArbId |-> NoIndex]
        /\ usedIndex' = [i \in HostIndex |-> FALSE]
    BY <1>5 DEF Reopen, Restart
  <2>2. Cardinality(ArbId) \in Nat
    BY ArbIdAssumption, FS_CardinalityType
  <2>3. \A i \in HostIndex : i # NoIndex
    BY DEF HostIndex, NoIndex
  <2> QED BY <1>1, <2>1, <2>2, <2>3
          DEF IndexInv, IndexTypeOK, IndexOwned, IndexFits, NoIndex
<1> QED BY <1>2, <1>3, <1>4, <1>5, IndicesLeftAlone DEF Next, NodeStep

(* transmittingCAN and usedIndex never disagree, and no index is held      *)
(* twice: ardu_can_bridge_node.cpp 148-162, 194-212.                       *)
THEOREM IndexOwnedCorrect == Spec => []IndexOwned
<1>1. IndexInv => IndexOwned
  BY DEF IndexInv
<1> QED BY <1>1, IndexInit, IndexNext, PTL DEF Spec

(* No frame the node writes carries an index as large as the number of     *)
(* identifiers: with at most ten of them the unchecked store of the sketch *)
(* (CANBridge.ino 251) stays in its table, though the node hands out 50.   *)
THEOREM IndexFitsCorrect == Spec => []IndexFits
<1>1. IndexInv => IndexFits
  BY DEF IndexInv
<1> QED BY <1>1, IndexInit, IndexNext, PTL DEF Spec

(* lockIndex() fills the gaps releases left before it goes higher, so that *)
(* a node that holds n indices takes none beyond n (node 148-158).         *)
THEOREM NewIndexIsLowCorrect == Spec => NewIndexIsLow
<1> DEFINE Low == \A a \in ArbId :
                    transmitting[a] = NoIndex /\ transmitting'[a] # NoIndex
                    => transmitting'[a] <= Cardinality(Holders)
<1>1. ASSUME IndexInv, [Next]_vars PROVE Low
  <2>1. CASE IndexQuiet
    BY <2>1 DEF IndexQuiet
  <2>2. CASE SendNew
    <3>1. LowestFree(usedIndex) <= Cardinality(Holders)
      BY <1>1, <2>2, LowestFreeIsLow DEF SendNew
    <3>2. transmitting' = [transmitting EXCEPT ![Head(queue).id] = LowestFree(usedIndex)]
      BY <2>2 DEF SendNew
    <3>3. transmitting \in [ArbId -> HostIndex \union {NoIndex}]
      BY <1>1 DEF IndexInv, IndexTypeOK
    <3> QED BY <3>1, <3>2, <3>3
  <2>3. CASE SendHeld
    <3>1. transmitting \in [ArbId -> HostIndex \union {NoIndex}]
      BY <1>1 DEF IndexInv, IndexTypeOK
    <3> QED BY <2>3, <3>1 DEF SendHeld
  <2>4. CASE Reopen
    BY <2>4 DEF Reopen, Restart
  <2> QED BY <1>1, <2>1, <2>2, <2>3, <2>4, IndicesLeftAlone DEF Next, NodeStep
<1> QED BY <1>1, IndexInit, IndexNext, PTL DEF Spec, NewIndexIsLow

-----------------------------------------------------------------------------
(* Types of the whole node.  What it reads is only of a type if the line   *)
(* brings nothing but what the sketch writes, and noise.                   *)
NodeInv == NodeTypeOK /\ outbox \in Seq(SketchToken)

LEMMA SketchTokens ==
  ASSUME NEW t \in SketchToken
  PROVE  /\ t[1] \in {"ack", "nak", "text", "top", "body", "noise"}
         /\ t[1] \in {"top", "body"} => t[2] \in Nat
<1>1. CASE t \in {Ack, Nak, Text}
  BY <1>1 DEF Ack, Nak, Text
<1>2. CASE t \in {"top", "body"} \X Nat
  BY <1>2
<1>3. CASE t \in {"noise"} \X (1..RestBytes)
  BY <1>3
<1> QED BY <1>1, <1>2, <1>3 DEF SketchToken

LEMMA NoiseIsToken == Noise(1) \in SketchToken /\ SubSeq(<<>>, 1, 0) = <<>>
BY RestBytesAssumption DEF Noise, SketchToken

(* Whatever bytes are read over it, rxData stays a frame. *)
LEMMA RxDataType ==
  ASSUME NEW P \in SUBSET BOOLEAN, NEW C \in SUBSET Count, NEW B \in SUBSET Nat
  PROVE  RxData(P, C, B) \subseteq [plausible : BOOLEAN, count : Count, body : Nat]
BY DEF RxData

LEMMA OverlayType ==
  ASSUME NodeTypeOK, NEW t \in Seq(SketchToken)
  PROVE  Overlay(t) \subseteq [plausible : BOOLEAN, count : Count, body : Nat]
<1> DEFINE Is(k, tag) == Len(t) >= k /\ t[k][1] = tag
           Fits == {TRUE}
           TooLong == {FALSE}
<1>1. \A k \in {1, 2} : Is(k, "top") \/ Is(k, "body") => t[k][2] \in Nat
  BY SketchTokens
<1>2. \A n \in Nat : n % CountMod \in Count
  BY HostAssumption DEF Count
<1>3. /\ {rx.count} \in SUBSET Count /\ {rx.body} \in SUBSET Nat
      /\ {rx.body, 0} \in SUBSET Nat /\ {0} \in SUBSET Nat
      /\ Fits \in SUBSET BOOLEAN /\ TooLong \in SUBSET BOOLEAN
  BY DEF NodeTypeOK
<1>4. CASE Is(1, "top") /\ Is(2, "body")
  <2>1. Overlay(t) = RxData(Fits, {t[1][2] % CountMod}, {t[2][2]})
    BY <1>1, <1>4, HostAssumption DEF Overlay
  <2>2. {t[1][2] % CountMod} \in SUBSET Count /\ {t[2][2]} \in SUBSET Nat
    BY <1>1, <1>2, <1>4
  <2> HIDE DEF Fits
  <2> QED BY <1>3, <2>1, <2>2, RxDataType
<1>5. CASE Is(1, "top") /\ ~Is(2, "body") /\ Len(t) = 1
  <2>1. Overlay(t) = RxData(Fits, {t[1][2] % CountMod}, {rx.body})
    BY <1>1, <1>5, HostAssumption DEF Overlay
  <2>2. {t[1][2] % CountMod} \in SUBSET Count
    BY <1>1, <1>2, <1>5
  <2> HIDE DEF Fits
  <2> QED BY <1>3, <2>1, <2>2, RxDataType
<1>6. CASE Is(1, "noise") /\ Is(2, "body")
  <2>1. Overlay(t) = RxData(BOOLEAN, Count, {t[2][2]})
    BY <1>6 DEF Overlay
  <2> QED BY <1>1, <1>6, <2>1, RxDataType
<1> DEFINE Single(k) == Is(k, "ack") \/ Is(k, "nak") \/ Is(k, "noise")
           Old(k) == IF Is(k, "noise") THEN {rx.body, 0} ELSE {rx.body}
<1>7. Old(1) \in SUBSET Nat /\ Old(2) \in SUBSET Nat
  BY <1>3
<1>8. /\ \A x : AsSize(x) \in SUBSET BOOLEAN
      /\ \A x : AsCount(x) \in SUBSET Count
  BY <1>2 DEF AsSize, AsCount
<1>9. CASE Single(1) /\ Len(t) = 1
  <2> DEFINE C == IF Is(1, "noise") THEN Count ELSE {rx.count}
  <2>1. Overlay(t) = RxData(AsSize(t[1]), C, Old(1))
    BY <1>9 DEF Overlay
  <2>2. C \in SUBSET Count
    BY <1>3
  <2> HIDE DEF C, Old
  <2> QED BY <1>7, <1>8, <2>1, <2>2, RxDataType
<1>10. CASE Single(1) /\ Single(2) /\ Len(t) = 2
  <2>1. Overlay(t) = RxData(AsSize(t[1]), AsCount(t[2]), Old(1) \union Old(2))
    BY <1>10 DEF Overlay
  <2> HIDE DEF Old
  <2>2. Old(1) \union Old(2) \in SUBSET Nat
    BY <1>7
  <2> QED BY <1>8, <2>1, <2>2, RxDataType
<1>11. CASE ~(\/ Is(1, "top") /\ (Is(2, "body") \/ Len(t) = 1)
              \/ Is(1, "noise") /\ Is(2, "body")
              \/ Single(1) /\ Len(t) = 1
              \/ Single(1) /\ Single(2) /\ Len(t) = 2)
  <2>1. Overlay(t) = RxData(TooLong, {rx.count}, {0})
    BY <1>11 DEF Overlay
  <2> HIDE DEF Fits, TooLong
  <2> QED BY <1>3, <2>1, RxDataType
<1> QED BY <1>4, <1>5, <1>6, <1>9, <1>10, <1>11

(* An answer is read whole, or leaves noise behind. *)
LEMMA AnswersType ==
  ASSUME NEW t, NEW a \in AnswersIn(t)
  PROVE  a[1] \in Answer /\ a[2] \in Seq(SketchToken)
<1>1. <<>> \in Seq(SketchToken) /\ <<Noise(1)>> \in Seq(SketchToken)
  BY NoiseIsToken
<1>2. \/ a \in {<<6, <<>>>>, <<21, <<>>>>, <<0, <<>>>>}
      \/ a \in {<<b, <<>>>> : b \in Answer}
      \/ a \in {<<b, <<Noise(1)>>>> : b \in {6, 21}}
  BY DEF AnswersIn
<1>3. CASE a \in {<<6, <<>>>>, <<21, <<>>>>, <<0, <<>>>>}
  <2>1. /\ a[1] = 6 \/ a[1] = 21 \/ a[1] = 0
        /\ a[2] = <<>>
    BY <1>3
  <2> QED BY <1>1, <2>1 DEF Answer
<1>4. CASE a \in {<<b, <<>>>> : b \in Answer}
  <2>1. PICK b \in Answer : a = <<b, <<>>>>
    BY <1>4
  <2> QED BY <1>1, <2>1
<1>5. CASE a \in {<<b, <<Noise(1)>>>> : b \in {6, 21}}
  BY <1>1, <1>5 DEF Answer
<1> QED BY <1>2, <1>3, <1>4, <1>5

(* The callback goes on with a legal try, or it has returned. *)
LEMMA JudgeType ==
  ASSUME NodeTypeOK, NEW t \in Answer, NEW box, Judge(t, box)
  PROVE  /\ npc' \in {"calls", "ack", "write"} /\ trycnt' \in 0..(MaxTries - 1)
         /\ tmp' \in Answer /\ cur' \in {cur, NoFrame}
<1>1. CASE Returns
  BY <1>1, HostAssumption DEF Returns, Answer
<1>2. CASE npc' = "ack" /\ tmp' = t /\ UNCHANGED <<cur, trycnt>>
  BY <1>2 DEF NodeTypeOK
<1>3. CASE ~GivesUp(trycnt) /\ npc' = "write" /\ tmp' = t
           /\ trycnt' = trycnt + 1 /\ UNCHANGED cur
  BY <1>3, HostAssumption DEF GivesUp, NodeTypeOK
<1> QED BY <1>1, <1>2, <1>3 DEF Judge

LEMMA NoFrameType ==
  NoFrame \in [index : HostIndex, period : Periods \union {Off}, id : ArbId, data : Data]
BY HostAssumption, NonemptyAssumption DEF NoFrame, HostIndex

LEMMA NodeInit == Init => NodeInv
<1> SUFFICES ASSUME Init PROVE NodeInv
  OBVIOUS
<1>1. NoRead \in [plausible : BOOLEAN, count : Count, body : Nat]
  BY HostAssumption DEF NoRead, Count
<1>2. 0 \in Count /\ 0 \in 0..(MaxTries - 1)
  BY HostAssumption DEF Count
<1>3. IndexTypeOK
  BY IndexInit DEF IndexInv
<1>4. outbox \in Seq(SketchToken)
  BY DEF Init
<1>5. /\ npc = "loop" /\ datagood = TRUE /\ repeatread = 0 /\ prev = 0
      /\ counted = FALSE /\ rx = NoRead /\ cur = NoFrame
      /\ trycnt = 0 /\ tmp = 0 /\ todo = 0 /\ published = 0
  BY DEF Init, Start
<1>6. datagood \in BOOLEAN /\ counted \in BOOLEAN
  BY <1>5
<1> QED BY <1>1, <1>2, <1>3, <1>4, <1>5, <1>6, NoFrameType
        DEF NodeInv, NodeTypeOK, IndexTypeOK, Answer

LEMMA NodeNext == NodeInv /\ [Next]_vars => NodeInv'
<1> SUFFICES ASSUME NodeInv, [Next]_vars PROVE NodeInv'
  OBVIOUS
<1> USE DEF NodeInv
<1>0. queue' \in Seq(Requests)
  BY QueueType DEF NodeTypeOK
<1>1. CASE PollSketch \/ SkipPoll
  BY <1>1 DEF PollSketch, SkipPoll, sendVars, lineVars, NodeTypeOK
<1>2. CASE ReadGood \/ ReadBad
  <2> DEFINE t == SubSeq(outbox, 1, Taken)
  <2>1. Len(outbox) \in Nat /\ Len(outbox) >= 1 /\ Taken \in 1..Len(outbox)
    <3>1. outbox # <<>>
      BY <1>2 DEF ReadGood, ReadBad
    <3> QED BY <3>1, TailType, SMTT(30) DEF Taken
  <2>2. t \in Seq(SketchToken)
    BY <2>1
  <2>3. PICK r \in Overlay(t) :
          /\ rx' = r
          /\ \/ published' = r.body /\ datagood' = ~Gap(r.count) /\ prev' = r.count
                /\ counted'
             \/ datagood' = FALSE /\ UNCHANGED <<prev, counted, published>>
    BY <1>2 DEF ReadGood, ReadBad
  <2> HIDE DEF t
  <2>4. r \in [plausible : BOOLEAN, count : Count, body : Nat]
    BY <2>2, OverlayType
  <2>5. counted' \in BOOLEAN /\ datagood' \in BOOLEAN
    BY <1>2 DEF ReadGood, ReadBad, NodeTypeOK
  <2>6. npc' = "loop" /\ repeatread' \in 0..2 /\ UNCHANGED <<queue, sendVars>>
    BY <1>2 DEF ReadGood, ReadBad, NodeTypeOK
  <2>7. outbox' \in Seq(SketchToken)
    <3>1. SubSeq(outbox, Taken + 1, Len(outbox)) \in Seq(SketchToken)
      BY <2>1, RestType
    <3>2. outbox' = SubSeq(outbox, Taken + 1, Len(outbox)) \/ outbox' = <<>>
      BY <1>2 DEF ReadGood, ReadBad
    <3>3. <<>> \in Seq(SketchToken)
      OBVIOUS
    <3> QED BY <3>1, <3>2, <3>3
  <2> QED BY <2>3, <2>4, <2>5, <2>6, <2>7 DEF NodeTypeOK, sendVars
<1>3. CASE Timeout
  BY <1>3 DEF Timeout, pollVars, lineVars, NodeTypeOK
<1>4. CASE SendNew \/ SendHeld
  <2> DEFINE m == Head(queue)
  <2>1. m \in Requests
    BY <1>4, RequestType DEF SendNew, SendHeld, Calls, NodeTypeOK
  <2>2. m.period \in Periods /\ m.id \in ArbId /\ m.data \in Data
    BY <2>1, RequestsAssumption
  <2>3. PICK k : k \in HostIndex /\ Begins(k)
    BY <1>4, <2>2, LowestFreeIs DEF SendNew, SendHeld, Held, NodeTypeOK
  <2>4. cur' \in [index : HostIndex, period : Periods \union {Off}, id : ArbId, data : Data]
    BY <2>2, <2>3 DEF Begins
  <2>5. /\ transmitting' \in [ArbId -> HostIndex \union {NoIndex}]
        /\ usedIndex' \in [HostIndex -> BOOLEAN]
    <3>1. CASE SendNew
      <4>1. LowestFree(usedIndex) \in HostIndex
        BY <3>1, LowestFreeIs DEF SendNew, NodeTypeOK
      <4> QED BY <2>2, <3>1, <4>1 DEF SendNew, NodeTypeOK
    <3>2. CASE SendHeld
      BY <2>2, <3>2 DEF SendHeld, NodeTypeOK
    <3> QED BY <1>4, <3>1, <3>2
  <2>6. todo' \in Nat
    BY <1>4, <2>3 DEF SendNew, SendHeld, Calls, Begins, NodeTypeOK
  <2>7. trycnt' = 0 /\ tmp' \in Answer /\ npc' = "write" /\ UNCHANGED <<pollVars, lineVars>>
    BY <2>3 DEF Begins
  <2> QED BY <1>0, <2>4, <2>5, <2>6, <2>7, HostAssumption
          DEF NodeTypeOK, pollVars, lineVars
<1>5. CASE SendRefused
  BY <1>0, <1>5 DEF SendRefused, Calls, pollVars, lineVars, NodeTypeOK
<1>6. CASE WriteFrame
  BY <1>6 DEF WriteFrame, pollVars, sendVars, NodeTypeOK
<1>7. CASE ReadAnswer \/ AnswerTimeout
  <2>1. \E t \in Answer : \E box : Judge(t, box)
    BY <1>7, AnswersType DEF ReadAnswer, AnswerTimeout, NodeTypeOK
  <2>2. outbox' \in Seq(SketchToken)
    <3>1. CASE ReadAnswer
      <4>1. Tail(outbox) \in Seq(SketchToken)
        BY <3>1, TailType DEF ReadAnswer
      <4>2. PICK a \in AnswersIn(Head(outbox)) : outbox' = a[2] \o Tail(outbox)
        BY <3>1 DEF ReadAnswer
      <4>3. a[2] \in Seq(SketchToken)
        BY AnswersType
      <4> QED BY <4>1, <4>2, <4>3
    <3>2. CASE AnswerTimeout
      BY <3>2 DEF AnswerTimeout, lineVars
    <3> QED BY <1>7, <3>1, <3>2
  <2>3. /\ npc' \in {"calls", "ack", "write"} /\ trycnt' \in 0..(MaxTries - 1)
        /\ tmp' \in Answer /\ cur' \in {cur, NoFrame}
    BY <2>1, JudgeType
  <2>4. UNCHANGED <<pollVars, transmitting, usedIndex, todo>>
    BY <1>7 DEF ReadAnswer, AnswerTimeout
  <2> QED BY <1>0, <2>2, <2>3, <2>4, NoFrameType DEF pollVars, NodeTypeOK
<1>8. CASE CallsDone
  BY <1>8 DEF CallsDone, pollVars, sendVars, lineVars, NodeTypeOK
<1>9. CASE Publish \/ Shutdown \/ Crash
  BY <1>0, <1>9 DEF Publish, Shutdown, Crash, pollVars, sendVars, lineVars, NodeTypeOK
<1>10. CASE Reopen
  <2>1. NoRead \in [plausible : BOOLEAN, count : Count, body : Nat]
    BY HostAssumption DEF NoRead, Count
  <2>2. 0 \in Count /\ 0 \in 0..(MaxTries - 1)
    BY HostAssumption DEF Count
  <2>3. /\ transmitting' \in [ArbId -> HostIndex \union {NoIndex}]
        /\ usedIndex' \in [HostIndex -> BOOLEAN]
    BY <1>10 DEF Reopen, Restart
  <2>4. /\ npc' = "loop" /\ datagood' = TRUE /\ repeatread' = 0 /\ prev' = 0
        /\ counted' = FALSE /\ rx' = NoRead /\ cur' = NoFrame
        /\ trycnt' = 0 /\ tmp' = 0 /\ todo' = 0 /\ published' = 0
        /\ outbox' = <<>>
    BY <1>10 DEF Reopen, Restart
  <2>5. datagood' \in BOOLEAN /\ counted' \in BOOLEAN
    BY <2>4
  <2>6. outbox' \in Seq(SketchToken)
    BY <1>10 DEF Reopen, Restart
  <2> QED BY <1>0, <2>1, <2>2, <2>3, <2>4, <2>5, <2>6, NoFrameType
          DEF NodeTypeOK, Answer
<1>11. CASE LineBrings
  <2>1. PICK t \in LineTokens : outbox' = Deliver(outbox, <<t>>, OutCap)
    BY <1>11 DEF LineBrings
  <2>2. <<t>> \in Seq(SketchToken)
    BY LineTokensAssumption
  <2>3. outbox' \in Seq(SketchToken)
    BY <2>1, <2>2, DeliverType, HostAssumption
  <2> QED BY <1>11, <2>3 DEF LineBrings, nodeVars, pollVars, sendVars, NodeTypeOK
<1>12. CASE UNCHANGED vars
  BY <1>12 DEF vars, nodeVars, pollVars, sendVars, lineVars, NodeTypeOK
<1> QED BY <1>1, <1>2, <1>3, <1>4, <1>5, <1>6, <1>7, <1>8, <1>9, <1>10, <1>11, <1>12
        DEF Next, NodeStep

(* Whatever the line brings, the state of the node stays of its types: the *)
(* tries stay below five, the size and the packet count, which no checksum *)
(* covers, are still a byte (ardu_can_bridge_node.cpp 219-419).            *)
THEOREM NodeTypeCorrect == Spec => []NodeTypeOK
<1>1. NodeInv => NodeTypeOK
  BY DEF NodeInv
<1> QED BY <1>1, NodeInit, NodeNext, PTL DEF Spec
=============================================================================
