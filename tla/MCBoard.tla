------------------------------- MODULE MCBoard -------------------------------
(* What runs on the Arduino and can be looked at by itself, for TLC: the   *)
(* ring of received frames, the setup of the CAN controller, its driver in *)
(* use, and the echo sketch with the host's test program.  They share no   *)
(* state here, so one of them runs in a behaviour: part says which.        *)
EXTENDS RxRing, McpSetup, McpCan, EchoCheck

VARIABLE part

(* Every speed, and identifiers at the boundaries of the registers.        *)
SomeIds == {<<0, 0>>, <<0, 7>>, <<0, 2^11 - 1>>,
            <<1, 0>>, <<1, \h2040000>>, <<1, 2^16 - 1>>, <<1, 5 * 2^16>>,
            <<1, \h1F00FF>>, <<1, 2^29 - 1>>}

(* The driver with frames both ways, and sending more frames than there    *)
(* are transmit buffers; McpCan itself has the larger bounds of both.      *)
BothWays == INSTANCE McpCan WITH TIMEOUTVALUE <- 2, MaxSends <- 2
Sending  == INSTANCE McpCan WITH MaxArrivals <- 1, Remote <- {FALSE}

vars == <<part, ringVars, setupVars, driverVars, echoVars>>

(* begin() is given every speed, or init_Mask and init_Filt every pair of  *)
(* identifiers; the other parts do not use the arguments.                  *)
SetupCalls ==
  /\ speed # 16 => mask = <<1, 0>> /\ filter = <<1, 0>>
  /\ part # "setup" => <<speed, mask, filter, num>> = <<16, <<1, 0>>, <<1, 0>>, 0>>

Init ==
  /\ part \in {"ring", "setup", "both ways", "sending", "echo"}
  /\ RingInit /\ DriverInit /\ EchoInit
  /\ SetupInit /\ SetupCalls

ButRing   == <<part, setupVars, driverVars, echoVars>>
ButSetup  == <<part, ringVars, driverVars, echoVars>>
ButDriver == <<part, ringVars, setupVars, echoVars>>
ButEcho   == <<part, ringVars, setupVars, driverVars>>

Next ==
  \/ part = "ring" /\ RingNext /\ UNCHANGED ButRing
  \/ part = "setup" /\ SetupNext /\ UNCHANGED ButSetup
  \/ part = "both ways" /\ BothWays!DriverNext /\ UNCHANGED ButDriver
  \/ part = "sending" /\ Sending!DriverNext /\ UNCHANGED ButDriver
  \/ part = "echo" /\ EchoNext /\ UNCHANGED ButEcho

(* The driver is straight-line code between two calls of it.               *)
Proceeds ==
  \/ part = "both ways" /\ BothWays!Driver /\ UNCHANGED ButDriver
  \/ part = "sending" /\ Sending!Driver /\ UNCHANGED ButDriver

Spec == Init /\ [][Next]_vars /\ WF_vars(Proceeds)

-----------------------------------------------------------------------------
(* A call of the driver returns, whether or not the controller ever sends  *)
(* (sendMsg, mcp_can.cpp 757-779).  The properties of the parts are stated *)
(* with them.                                                              *)
CallReturns == part \in {"both ways", "sending"} => Returns
=============================================================================
