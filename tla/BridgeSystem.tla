---------------------------- MODULE BridgeSystem ----------------------------
(***************************************************************************)
(* The bridge as it runs: ardu_can_bridge_node and the CANBridge sketch at *)
(* the two ends of one serial line, other ROS nodes that publish CANSend   *)
(* messages, a CAN bus that delivers frames, and a line that may lose or   *)
(* garble a few tokens.                                                    *)
(***************************************************************************)
EXTENDS SerialLink, FiniteSets

CONSTANTS
  TxSlots, RxSlots, RxBack, MaxFrames, KeepAlive, ByteMod,       \* CANBridge
  HostIndices, Requests, QueueCap, MaxTries, CountMod,           \* BridgeNode
  InCap, OutCap,                                                 \* the line
  MaxFaults,   \* bound: tokens the line loses or garbles
  MaxCrashes,  \* bound: times the node ends
  MayRestart,  \* is the node started again when it has ended?
  Prompt       \* does the sketch answer within the timeouts of the host?

ASSUME BoundsAssumption == /\ MaxFaults \in Nat /\ MaxCrashes \in Nat
                           /\ MayRestart \in BOOLEAN /\ Prompt \in BOOLEAN

(* What the sketch and the node assume of their constants. *)
ASSUME SketchAssumption ==
  /\ TxSlots \in Nat \ {0} /\ Indices \subseteq 0..(TxSlots - 1)
  /\ RxSlots \in Nat /\ RxSlots >= 2 /\ RxBack \in 1..RxSlots
  /\ MaxFrames \in Nat
  /\ KeepAlive \in Nat \ {0} /\ ByteMod \in Nat /\ ByteMod > 2
  /\ InCap \in Nat /\ OutCap \in Nat
ASSUME NodeAssumption ==
  /\ HostIndices \in Nat \ {0} /\ QueueCap \in Nat \ {0}
  /\ MaxTries \in Nat \ {0} /\ CountMod \in Nat \ {0}
  /\ IsFiniteSet(ArbId)
  /\ Requests \subseteq [period : Periods, id : ArbId, data : Data]

VARIABLES
  inbox, outbox,
  pc, sizeRead, txarr, keepalive, stream, once,
  buffer, writeIndex, readIndex, packetcount, bus, silent, polled,
  npc, queue, transmitting, usedIndex, datagood, repeatread, prev, counted,
  rx, cur, trycnt, tmp, todo, published,
  faults, crashes,
  accepted,    \* has the sketch accepted the frame of the running callback?
  disturbed    \* has anything kept the frames from being handed on one by one?

Sketch == INSTANCE CANBridge WITH HostCommands <- {}, LineFaults <- FALSE
Node   == INSTANCE BridgeNode WITH LineTokens <- {}

sketchVars == <<pc, sizeRead, txarr, keepalive, stream, once, buffer, writeIndex,
                readIndex, packetcount, bus, silent, polled>>
nodeVars   == <<npc, queue, transmitting, usedIndex, datagood, repeatread, prev,
                counted, rx, cur, trycnt, tmp, todo, published>>
budgets    == <<faults, crashes>>
watched    == <<accepted, disturbed>>
vars == <<inbox, outbox, sketchVars, nodeVars, budgets, watched>>

Init ==
  /\ Sketch!Boot /\ Node!Start
  /\ inbox = <<>> /\ outbox = <<>>
  /\ faults = 0 /\ crashes = 0 /\ accepted = FALSE /\ disturbed = FALSE

-----------------------------------------------------------------------------
(* Has the sketch dealt with everything it was sent?  A frame whose end is *)
(* missing is as dealt with as it will be until the watchdog acts.         *)
SketchIdle == \/ inbox = <<>> /\ (readIndex = writeIndex \/ ~(stream \/ once > 0))
              \/ pc = "hung"
              \/ pc = "await" /\ ~Sketch!Complete

(* Timeouts are slower than the sketch, if it is Prompt. *)
MayTimeOut == Prompt => SketchIdle

(* What keeps frames from being handed on one by one: the ring or the      *)
(* host's buffer overruns, the sketch starts again, bytes fail the check   *)
(* or answers stand where a packet count should, bytes of a frame are      *)
(* taken for an answer.                                                    *)
RingLaps     == packetcount' > packetcount /\ Sketch!Ring!Unread = RxSlots - 1
NoRoomAtHost == Sketch!ToHost /\ Len(outbox) + 2 > OutCap
Misread      == Node!ReadBad \/ (Node!ReadGood /\ Head(outbox) = Ack /\ Len(outbox) > 1)
FrameEaten   == Node!ReadAnswer /\ Head(outbox) \notin {Ack, Nak}

SketchTurn ==
  /\ Sketch!SketchNext
  /\ accepted' = (accepted \/ (Sketch!AcceptFrame /\ inbox[1] = Rest(cur)))
  /\ disturbed' = (disturbed \/ RingLaps \/ NoRoomAtHost \/ Sketch!Watchdog)
  /\ UNCHANGED <<nodeVars, budgets>>

NodeReads ==
  /\ Node!PollSketch \/ Node!SkipPoll \/ Node!ReadGood \/ Node!ReadBad
  /\ UNCHANGED accepted

NodeTimesOut ==
  /\ MayTimeOut \/ repeatread = 0
  /\ Node!Timeout
  /\ UNCHANGED accepted

NodeBegins ==
  /\ Node!SendNew \/ Node!SendHeld
  /\ accepted' = FALSE

NodeSends ==
  /\ \/ Node!SendRefused \/ Node!WriteFrame \/ Node!ReadAnswer \/ Node!CallsDone
     \/ MayTimeOut /\ Node!AnswerTimeout
  /\ UNCHANGED accepted

NodeTurn ==
  /\ NodeReads \/ NodeTimesOut \/ NodeBegins \/ NodeSends
  /\ disturbed' = (disturbed \/ Misread \/ FrameEaten)
  /\ UNCHANGED <<sketchVars, budgets>>

Publish ==
  /\ Node!Publish
  /\ UNCHANGED <<sketchVars, budgets, watched>>

LineFault ==
  /\ faults < MaxFaults
  /\ faults' = faults + 1
  /\ \/ /\ \E k \in 1..Len(inbox) : inbox' \in {Lost(inbox, k), Garbled(inbox, k)}
        /\ UNCHANGED outbox
     \/ /\ \E k \in 1..Len(outbox) : outbox' \in {Lost(outbox, k), Garbled(outbox, k)}
        /\ UNCHANGED inbox
  /\ disturbed' = TRUE
  /\ UNCHANGED <<sketchVars, nodeVars, crashes, accepted>>

NodeEnds ==
  /\ crashes < MaxCrashes
  /\ crashes' = crashes + 1
  /\ Node!Crash \/ Node!Shutdown
  /\ UNCHANGED <<sketchVars, faults, watched>>

(* A bug: opening the port does not reset the board. *)
NodeRestartsAlone ==
  /\ MayRestart
  /\ Node!Restart
  /\ UNCHANGED <<inbox, sketchVars, budgets, watched>>

NodeRestarts ==
  /\ MayRestart
  /\ Node!Restart /\ Sketch!Reboot
  /\ disturbed' = FALSE
  /\ UNCHANGED <<budgets, accepted>>

Next == \/ SketchTurn \/ NodeTurn \/ Publish
        \/ LineFault \/ NodeEnds \/ NodeRestarts

Spec == Init /\ [][Next]_vars

-----------------------------------------------------------------------------
(* Nothing is under way: no callback runs and the sketch is idle. *)
AtRest == npc = "loop" /\ inbox = <<>> /\ pc = "command"

(* The sketch transmits for nobody but the node's current holders: every   *)
(* periodic frame on is one the node has registered, at the index it holds *)
(* ("un-register the control frame so Talon is disabled", CanTalonSRX.cpp  *)
(* 302).  Registrations, releases, reused indices, late answers and the    *)
(* death and restart of both sides are all in between.                     *)
TableAgrees ==
  AtRest => \A j \in Sketch!TableIndex :
              ~Sketch!EmptySlot(txarr[j]) => transmitting[txarr[j].id] = j

(* What the node reports as "arduino tx received correct" (node 256) the   *)
(* sketch has accepted.                                                    *)
Confirms == npc = "ack" /\ npc' = "calls" /\ ~Node!GivesUp(trycnt)
ConfirmedIsAccepted == [][Confirms => accepted]_vars

(* "most control signals are sent periodically using the fire-and-forget   *)
(* CAN API" (CanTalonSRX.cpp 8): a frame registered with a period, on a    *)
(* line without faults, stays on while the node runs.                      *)
FireAndForget ==
  AtRest => \A a \in ArbId :
    transmitting[a] # Node!NoIndex => ~Sketch!EmptySlot(txarr[transmitting[a]])

(* With the node gone and not coming back the bus falls silent, whatever   *)
(* the node left on the line (CANBridge.ino 326).                          *)
SilenceAfterDeath == npc = "dead" ~> [](bus = {})

(* The received frames the node has asked for and not yet read. *)
FramesOwed ==
  2 * Cardinality({k \in 1..Len(inbox) : inbox[k] = Cmd("d")}) + once
    + Cardinality({k \in 1..Len(outbox) : outbox[k][1] = "top"})

(* While a CANSend message waits for its callback, the number of frames    *)
(* that may still be read before it never grows on a sound line, however   *)
(* fast the CAN bus brings new ones: node 328-343 stops asking.            *)
OwedOnlyFalls == [][queue # <<>> /\ faults' = 0 => FramesOwed' <= FramesOwed]_vars

(* A CANSend message does not wait for ever behind the frames asked for:   *)
(* the callbacks run again and again while messages wait (node 415-418).   *)
CallbacksRun == queue # <<>> ~> (npc \in {"calls", "dead"})

(* A frame the CAN controller delivered reaches the topic CANRecv, or a    *)
(* later one does.                                                         *)
FramesPublished ==
  \A n \in 1..MaxFrames : packetcount = n ~> (published >= n)

(* The packet count is there to notice missing frames (node 376-386): when *)
(* the frames published skip one, the node asks for a resend, unless the   *)
(* count, an unsigned char, has wrapped in between.                        *)
Lap(n) == n \div CountMod
GapNoticed ==
  [][published > 0 /\ published' > published + 1 /\ Lap(published') = Lap(published)
       => ~datagood']_vars

(* The topic CANRecv carries every frame once and in the order of arrival, *)
(* however polls, timeouts, arrivals, CANSend traffic and late answers     *)
(* interleave, until something disturbs them (node 345-369, CANBridge.ino  *)
(* 347-356).  One repeat remains: a late acknowledgement that is read      *)
(* alone passes for a size, and the frame read before is published again.  *)
PublishedInOrder ==
  [][Node!ReadGood /\ ~disturbed
       => \/ published' = published + 1
          \/ published' = published /\ Head(outbox) = Ack]_vars

(* The sketch sends the node only frames the node has asked for, two for a *)
(* 'd', though a 'd' may come while it still answers the last one          *)
(* (CANBridge.ino 157-160, 347-353).                                       *)
SolicitedOnly == [][Sketch!ToHost => polled > 0]_vars
=============================================================================
