----------------------------- MODULE MCCANBridge -----------------------------
(* The sketch at the end of a line, for TLC: a small table, ring and line. *)
EXTENDS CANBridge

MCIndices == {0, 1}
MCPeriods == {0, 10}
AliveHost == {"d"}
=============================================================================
