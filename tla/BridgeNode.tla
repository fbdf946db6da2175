----------------------------- MODULE BridgeNode -----------------------------
(***************************************************************************)
(* ardu_can_bridge_node: one thread that polls the sketch for received     *)
(* frames and publishes them on the topic CANRecv, and that, whenever the  *)
(* line is silent, runs the callbacks of the topic CANSend, each of which  *)
(* writes one frame to the sketch and waits for its answer.  The ROS       *)
(* transport threads append to the queue of callbacks at any time.         *)
(***************************************************************************)
EXTENDS SerialLink, FiniteSets

CONSTANTS
  HostIndices,  \* entries of usedIndex: 50
  Requests,     \* the CANSend messages other nodes publish
  QueueCap,     \* length of the CANSend queue: 100
  MaxTries,     \* 5
  CountMod,     \* values of the packet count, an unsigned char: 256
  InCap, OutCap

HostIndex == 0..(HostIndices - 1)
NoIndex   == -1
Count     == 0..(CountMod - 1)

ASSUME HostAssumption == /\ HostIndices \in Nat \ {0}
                         /\ QueueCap \in Nat \ {0}
                         /\ MaxTries \in Nat \ {0}
                         /\ CountMod \in Nat \ {0}
                         /\ OutCap \in Nat
ASSUME ArbIdAssumption == IsFiniteSet(ArbId)
ASSUME RequestsAssumption ==
  Requests \subseteq [period : Periods, id : ArbId, data : Data]

VARIABLES
  npc,           \* where the thread is
  inbox, outbox, \* the line's receive buffers, as in CANBridge
  queue,         \* CANSend messages waiting for their callback
  transmitting,  \* transmittingCAN: the index held for each identifier
  usedIndex,
  datagood, repeatread,
  prev, counted, \* prevPacketCount; has goodPackets become positive?
  rx,            \* rxData: uninitialised, so what the last read left there
  cur,           \* txdata of the running callback
  trycnt,
  tmp,           \* the last answer byte: 6, 21 or anything else (0)
  todo,          \* callbacks callAvailable() has still to run
  published      \* the last frame published, by its ordinal

lineVars == <<inbox, outbox>>
pollVars == <<datagood, repeatread, prev, counted, rx, published>>
sendVars == <<transmitting, usedIndex, cur, trycnt, tmp, todo>>
nodeVars == <<npc, queue, pollVars, sendVars>>
vars == <<nodeVars, lineVars>>

Answer == {6, 21, 0}

NoRead  == [plausible |-> FALSE, count |-> 0, body |-> 0]
NoFrame == [index |-> 0, period |-> Off, id |-> CHOOSE i \in ArbId : TRUE,
                                         data |-> CHOOSE x \in Data : TRUE]

Start ==
  /\ npc = "loop" /\ queue = <<>>
  /\ transmitting = [i \in ArbId |-> NoIndex]
  /\ usedIndex = [i \in HostIndex |-> FALSE]
  /\ datagood = TRUE /\ repeatread = 0
  /\ prev = 0 /\ counted = FALSE
  /\ rx = NoRead /\ cur = NoFrame
  /\ trycnt = 0 /\ tmp = 0 /\ todo = 0
  /\ published = 0

Init == Start /\ inbox = <<>> /\ outbox = <<>>

Write(tokens) == inbox' = Deliver(inbox, tokens, InCap)

-----------------------------------------------------------------------------
(* Receiving.                                                              *)

(* Ask for frames, unless a callback waits: then read only what is there.  *)
Polls == IF datagood THEN <<Cmd("d")>> ELSE <<Cmd("r"), Cmd("d")>>

PollSketch ==
  /\ npc = "loop" /\ queue = <<>>
  /\ Write(Polls)
  /\ repeatread' = 2
  /\ npc' = "read"
  /\ UNCHANGED <<queue, datagood, prev, counted, rx, published, sendVars, outbox>>

(* A bug: frames are asked for though a callback waits. *)
SkipPollAsks ==
  /\ npc = "loop" /\ queue # <<>>
  /\ Write(Polls)
  /\ repeatread' = 2
  /\ npc' = "read"
  /\ UNCHANGED <<queue, datagood, prev, counted, rx, published, sendVars, outbox>>

SkipPoll ==
  /\ npc = "loop" /\ queue # <<>>
  /\ repeatread' = IF outbox # <<>> THEN 1 ELSE repeatread
  /\ npc' = "read"
  /\ UNCHANGED <<queue, datagood, prev, counted, rx, published, sendVars, lineVars>>

(* What is known of rxData: its size, its packet count, its checked bytes.  *)
RxData(P, C, B) == [plausible : P, count : C, body : B]

(* An answer byte, or one that means nothing, in the place of the size or  *)
(* of the packet count: 6 passes for a size, 21 does not.                  *)
AsSize(t)  == CASE t = Ack -> {TRUE} [] t = Nak -> {FALSE} [] OTHER -> BOOLEAN
AsCount(t) == CASE t = Ack -> {6 % CountMod} [] t = Nak -> {21 % CountMod} [] OTHER -> Count

(* What rxData may hold after the bytes t were read over it.  Only the     *)
(* first two bytes (size and packet count) lie outside the checksum, and a *)
(* read that got no further leaves the checked bytes as they were.         *)
Overlay(t) ==
  LET Is(k, tag) == Len(t) >= k /\ t[k][1] = tag
      Single(k) == Is(k, "ack") \/ Is(k, "nak") \/ Is(k, "noise")
      Old(k) == IF Is(k, "noise") THEN {rx.body, 0} ELSE {rx.body}
  IN CASE Is(1, "top") /\ Is(2, "body")
            -> RxData({TRUE}, {t[1][2] % CountMod}, {t[2][2]})
       [] Is(1, "noise") /\ Is(2, "body")
            -> RxData(BOOLEAN, Count, {t[2][2]})
       [] Is(1, "top") /\ Len(t) = 1
            -> RxData({TRUE}, {t[1][2] % CountMod}, {rx.body})
       [] Single(1) /\ Len(t) = 1
            -> RxData(AsSize(t[1]), IF Is(1, "noise") THEN Count ELSE {rx.count}, Old(1))
       [] Single(1) /\ Single(2) /\ Len(t) = 2
            -> RxData(AsSize(t[1]), AsCount(t[2]), Old(1) \union Old(2))
       [] OTHER
            -> RxData({FALSE}, {rx.count}, {0})

Checked(r) == r.plausible /\ r.body # 0

(* A bug: the difference taken the wrong way. *)
GapBackwards(c) == counted /\ c - 1 # prev /\ c # prev /\ prev - c > 0

(* A packet count that jumped forward; one that went back says nothing. *)
Gap(c) == counted /\ c - 1 # prev /\ c # prev /\ c - prev > 0

(* The tokens among the 15 bytes a read takes: one frame, or, when none    *)
(* begins there, whatever has come (what is left of it is then flushed).   *)
Taken == IF Len(outbox) >= 2 /\ outbox[2][1] = "body" THEN 2 ELSE Len(outbox)

ReadGood ==
  /\ npc = "read" /\ repeatread > 0 /\ outbox # <<>>
  /\ \E r \in Overlay(SubSeq(outbox, 1, Taken)) :
       /\ Checked(r)
       /\ rx' = r
       /\ published' = r.body
       /\ datagood' = ~Gap(r.count)
       /\ prev' = r.count
  /\ counted' = TRUE
  /\ repeatread' = repeatread - 1
  /\ outbox' = SubSeq(outbox, Taken + 1, Len(outbox))
  /\ npc' = "loop"
  /\ UNCHANGED <<queue, sendVars, inbox>>

(* Everything received so far is thrown away with the bad bytes. *)
ReadBad ==
  /\ npc = "read" /\ repeatread > 0 /\ outbox # <<>>
  /\ \E r \in Overlay(SubSeq(outbox, 1, Taken)) : ~Checked(r) /\ rx' = r
  /\ datagood' = FALSE
  /\ repeatread' = repeatread - 1
  /\ outbox' = <<>>
  /\ npc' = "loop"
  /\ UNCHANGED <<queue, prev, counted, published, sendVars, inbox>>

(* Nothing to read: the callbacks queued so far are run. *)
Timeout ==
  /\ npc = "read"
  /\ repeatread = 0 \/ outbox = <<>>
  /\ todo' = Len(queue)
  /\ npc' = "calls"
  /\ UNCHANGED <<queue, pollVars, transmitting, usedIndex, cur, trycnt, tmp, lineVars>>

-----------------------------------------------------------------------------
(* CANSendCallback.                                                        *)

(* A bug: the search from the wrong end.                                   *)
HighestFree(u) == IF \E i \in HostIndex : ~u[i]
                  THEN CHOOSE i \in HostIndex :
                         ~u[i] /\ \A j \in HostIndex : ~u[j] => j <= i
                  ELSE NoIndex

LowestFree(u) == IF \E i \in HostIndex : ~u[i]
                 THEN CHOOSE i \in HostIndex :
                        ~u[i] /\ \A j \in HostIndex : ~u[j] => i <= j
                 ELSE NoIndex

Calls == npc = "calls" /\ todo > 0 /\ queue # <<>>

(* The callback of the oldest message goes on to write its frame. *)
Begins(index) ==
  /\ cur' = [index |-> index, period |-> Head(queue).period,
             id |-> Head(queue).id, data |-> Head(queue).data]
  /\ queue' = Tail(queue)
  /\ trycnt' = 0
  /\ tmp' \in Answer          \* never initialised
  /\ todo' = todo - 1
  /\ npc' = "write"
  /\ UNCHANGED <<pollVars, lineVars>>

Held(m) == transmitting[m.id]

(* An identifier not held: lockIndex(), whatever the period. *)
SendNew ==
  /\ Calls /\ Held(Head(queue)) = NoIndex
  /\ LowestFree(usedIndex) # NoIndex
  /\ transmitting' = [transmitting EXCEPT ![Head(queue).id] = LowestFree(usedIndex)]
  /\ usedIndex' = [usedIndex EXCEPT ![LowestFree(usedIndex)] = TRUE]
  /\ Begins(LowestFree(usedIndex))

SendRefused ==
  /\ Calls /\ Held(Head(queue)) = NoIndex
  /\ LowestFree(usedIndex) = NoIndex
  /\ queue' = Tail(queue) /\ todo' = todo - 1
  /\ UNCHANGED <<npc, pollVars, transmitting, usedIndex, cur, trycnt, tmp, lineVars>>

(* A bug: the index is released but stays in transmittingCAN. *)
SendHeldWithoutErase ==
  /\ Calls /\ Held(Head(queue)) # NoIndex
  /\ usedIndex' = [usedIndex EXCEPT ![Held(Head(queue))] = Head(queue).period > 0]
  /\ UNCHANGED transmitting
  /\ Begins(Held(Head(queue)))

(* An identifier already held: a positive period keeps the index, any      *)
(* other gives it back before the frame is written.                        *)
SendHeld ==
  /\ Calls /\ Held(Head(queue)) # NoIndex
  /\ IF Head(queue).period > 0
       THEN UNCHANGED <<transmitting, usedIndex>>
       ELSE /\ transmitting' = [transmitting EXCEPT ![Head(queue).id] = NoIndex]
            /\ usedIndex' = [usedIndex EXCEPT ![Held(Head(queue))] = FALSE]
  /\ Begins(Held(Head(queue)))

WriteFrame ==
  /\ npc = "write"
  /\ Write(FrameTokens(cur))
  /\ npc' = "ack"
  /\ UNCHANGED <<queue, pollVars, sendVars, outbox>>

(* A bug: one try more. *)
GivesUpLate(n) == n >= MaxTries

GivesUp(n) == n + 1 >= MaxTries

(* The callback returns; its variables go out of scope. *)
Returns == npc' = "calls" /\ cur' = NoFrame /\ trycnt' = 0 /\ tmp' = 0

(* What follows when the answer byte is t and box is left to read: the     *)
(* frame counts as received, the next byte is read, or it is sent again.   *)
Judge(t, box) ==
  \/ t = 6 /\ Returns
  \/ /\ t \notin {6, 21} /\ box # <<>>
     /\ npc' = "ack" /\ tmp' = t /\ UNCHANGED <<cur, trycnt>>
  \/ /\ t = 21 \/ (t # 6 /\ box = <<>>)
     /\ IF GivesUp(trycnt)
          THEN Returns
          ELSE npc' = "write" /\ tmp' = t /\ trycnt' = trycnt + 1 /\ UNCHANGED cur

(* The bytes of a token may include a 6 or a 21: then the rest of it stays. *)
AnswersIn(t) ==
  CASE t = Ack -> {<<6, <<>>>>}
    [] t = Nak -> {<<21, <<>>>>}
    [] t = Text -> {<<0, <<>>>>}
    [] t[1] = "noise" -> {<<a, <<>>>> : a \in Answer}
    [] OTHER -> {<<a, <<>>>> : a \in Answer} \union
                {<<a, <<Noise(1)>>>> : a \in {6, 21}}

ReadAnswer ==
  /\ npc = "ack" /\ outbox # <<>>
  /\ \E a \in AnswersIn(Head(outbox)) :
       outbox' = a[2] \o Tail(outbox) /\ Judge(a[1], outbox')
  /\ UNCHANGED <<queue, pollVars, transmitting, usedIndex, todo, inbox>>

(* 10 ms without a byte: tmp is what it was. *)
AnswerTimeout ==
  /\ npc = "ack" /\ outbox = <<>>
  /\ Judge(tmp, outbox)
  /\ UNCHANGED <<queue, pollVars, transmitting, usedIndex, todo, lineVars>>

CallsDone ==
  /\ npc = "calls" /\ (todo = 0 \/ queue = <<>>)
  /\ npc' = "loop"
  /\ UNCHANGED <<queue, pollVars, sendVars, lineVars>>

-----------------------------------------------------------------------------
(* A CANSend message arrives; a full queue drops its oldest.               *)
Publish ==
  /\ npc # "dead"
  /\ \E m \in Requests :
       queue' = IF Len(queue) < QueueCap THEN Append(queue, m)
                                         ELSE Append(Tail(queue), m)
  /\ UNCHANGED <<npc, pollVars, sendVars, lineVars>>

(* ros::ok() turns false: the stream is stopped and the node ends. *)
Shutdown ==
  /\ npc = "loop"
  /\ Write(<<Cmd("w")>>)
  /\ npc' = "dead"
  /\ UNCHANGED <<queue, pollVars, sendVars, outbox>>

(* The process is killed, perhaps between the writes of one frame. *)
Crash ==
  /\ npc # "dead"
  /\ IF npc = "write"
       THEN \E k \in 0..2 : Write(SubSeq(FrameTokens(cur), 1, k))
       ELSE UNCHANGED inbox
  /\ npc' = "dead"
  /\ UNCHANGED <<queue, pollVars, sendVars, outbox>>

NodeStep ==
  \/ PollSketch \/ SkipPoll \/ ReadGood \/ ReadBad \/ Timeout
  \/ SendNew \/ SendRefused \/ SendHeld
  \/ WriteFrame \/ ReadAnswer \/ AnswerTimeout \/ CallsDone

(* The process is started again; opening the port resets the board. *)
Restart ==
  /\ npc = "dead"
  /\ npc' = "loop" /\ queue' = <<>>
  /\ transmitting' = [i \in ArbId |-> NoIndex]
  /\ usedIndex' = [i \in HostIndex |-> FALSE]
  /\ datagood' = TRUE /\ repeatread' = 0
  /\ prev' = 0 /\ counted' = FALSE
  /\ rx' = NoRead /\ cur' = NoFrame
  /\ trycnt' = 0 /\ tmp' = 0 /\ todo' = 0
  /\ published' = 0
  /\ outbox' = <<>>

-----------------------------------------------------------------------------
(* The node alone, with a sketch that answers anything at any time.  What   *)
(* the node writes stays in inbox, where the node never looks.             *)

CONSTANT LineTokens   \* what this sketch sends

ASSUME LineTokensAssumption == LineTokens \subseteq SketchToken

LineBrings ==
  /\ \E t \in LineTokens : outbox' = Deliver(outbox, <<t>>, OutCap)
  /\ UNCHANGED <<nodeVars, inbox>>

Reopen == Restart /\ inbox' = <<>>

Next == NodeStep \/ Publish \/ Shutdown \/ Crash \/ Reopen \/ LineBrings

Spec == Init /\ [][Next]_vars

-----------------------------------------------------------------------------
NodeTypeOK ==
  /\ npc \in {"loop", "read", "calls", "write", "ack", "dead"}
  /\ queue \in Seq(Requests)
  /\ transmitting \in [ArbId -> HostIndex \union {NoIndex}]
  /\ usedIndex \in [HostIndex -> BOOLEAN]
  /\ datagood \in BOOLEAN /\ counted \in BOOLEAN
  /\ repeatread \in 0..2
  /\ prev \in Count
  /\ rx \in [plausible : BOOLEAN, count : Count, body : Nat]
  /\ cur \in [index : HostIndex, period : Periods \union {Off}, id : ArbId, data : Data]
  /\ trycnt \in 0..(MaxTries - 1)
  /\ tmp \in Answer
  /\ todo \in Nat
  /\ published \in Nat

(* usedIndex and transmittingCAN tell the same story (node 148-162, 194-   *)
(* 212): no two identifiers hold one index, an index is marked used        *)
(* exactly while an identifier holds it, none leaks, none is freed twice,  *)
(* whatever one-shots, repeats and refusals follow one another.            *)
IndexOwned ==
  /\ \A a, b \in ArbId : transmitting[a] = transmitting[b] => a = b \/ transmitting[a] = NoIndex
  /\ \A i \in HostIndex : usedIndex[i] <=> \E a \in ArbId : transmitting[a] = i

(* The identifiers with an index. *)
Holders == {a \in ArbId : transmitting[a] # NoIndex}

(* A new index is no higher than the number of indices held: releases      *)
(* leave no gaps that stay, and nothing leaks (lockIndex, node 148-158).   *)
NewIndexIsLow ==
  [][\A a \in ArbId : transmitting[a] = NoIndex /\ transmitting'[a] # NoIndex
                       => transmitting'[a] <= Cardinality(Holders)]_vars

(* The sketch never checks the index of a frame (CANBridge.ino 251): the   *)
(* indices the node writes stay below the number of identifiers ever sent. *)
IndexFits ==
  /\ \A a \in ArbId : transmitting[a] < Cardinality(ArbId)
  /\ npc \in {"write", "ack"} => cur.index < Cardinality(ArbId)
=============================================================================
