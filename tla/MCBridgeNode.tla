----------------------------- MODULE MCBridgeNode -----------------------------
(* The node with a sketch that answers anything at any time, for TLC.      *)
EXTENDS BridgeNode

MCIndices  == 0..1
MCPeriods  == {0, 10}
MCRequests == [period : MCPeriods, id : ArbId, data : Data]
MCAnswers  == {Top(1), Body(1)}
=============================================================================
