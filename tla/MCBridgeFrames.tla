--------------------------- MODULE MCBridgeFrames ---------------------------
(* Received frames on their way to CANRecv, for TLC.  part says whether    *)
(* they are alone on the line, with overruns of the ring, or among CANSend *)
(* messages: then a behaviour is followed until something disturbs it, as  *)
(* PublishedInOrder says nothing of what comes after that.                 *)
EXTENDS MCBridgeSystem

VARIABLE part

Among == INSTANCE BridgeSystem WITH MaxFrames <- 4, OutCap <- 4

FramesInit == Init /\ part \in {"alone", "among"}

Alone == part = "alone" /\ (SketchTurn \/ NodeTurn)

Mixed == \/ /\ part = "among" /\ ~disturbed
            /\ Among!SketchTurn \/ Among!NodeTurn \/ Among!Publish
         \/ part = "among" /\ disturbed /\ UNCHANGED vars

FramesNext == UNCHANGED part /\ (Alone \/ Mixed)

(* Both programs run on: the sketch's loop and its watchdog, the node's    *)
(* thread and its timeouts.  Nothing else has to happen.                   *)
PartsSpec == /\ FramesInit /\ [][FramesNext]_<<vars, part>>
             /\ WF_<<vars, part>>(part = "alone" /\ SketchTurn /\ UNCHANGED part)
             /\ WF_<<vars, part>>(part = "alone" /\ NodeTurn /\ UNCHANGED part)

(* Alone on the line, a frame the CAN controller delivered reaches the     *)
(* topic CANRecv, or a later one does.                                     *)
AlonePublished == part = "alone" => FramesPublished
=============================================================================
