--------------------------- MODULE MCBridgeSystem ---------------------------
(* The bridge with few slots, frames and tokens, for TLC.                  *)
EXTENDS BridgeSystem

MCIndices == 0..(TxSlots - 1)

(* What other nodes publish, one set for each kind of traffic. *)
Traffic(P)   == [period : P, id : ArbId, data : Data]
Repeating    == Traffic({10})
Stopping     == Traffic({-1, 10})
OnceOrRepeat == Traffic({0, 10})

AllPeriods == {-1, 0, 10}

(* The system on a line that never fails.                                  *)
SoundNext == SketchTurn \/ NodeTurn \/ Publish \/ NodeEnds \/ NodeRestarts
SoundSpec == Init /\ [][SoundNext]_vars
=============================================================================
