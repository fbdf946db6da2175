------------------------------ MODULE MCDevices ------------------------------
(* The classes the nodes reach their devices through, for TLC: setters,    *)
(* getters and parameters of CanTalonSRX, and PDP.  They share no state    *)
(* here, so one of them is used in a behaviour: part says which.           *)
EXTENDS TalonControl, TalonStatus, TalonParams, PdpNode

VARIABLE part

(* Arguments of the setters at the boundaries of the fields.               *)
MCValues == {-(2^23), -1, 1, 7, 197637, 2^23 - 1, 2147483647}
MCTenths == {-11, -10, -3, 0, 5, 12}

(* For every width of a signal the values at its boundaries, and one whose *)
(* bytes all differ.  For the getter that reads twice, two of each.        *)
MCSamples ==
  [w \in 1..24 |-> {0, 1, 2^w - 1, 2^(w - 1), 2^(w - 1) - 1, 197637 % 2^w}]
MCGetters == EveryGetter \ {"PulseWidthRiseToFallUs"}

Pulse == INSTANCE TalonStatus WITH
           Getters <- {"PulseWidthRiseToFallUs"},
           Samples <- [w \in 1..24 |-> {197637 % 2^w, 2^w - 1}]

(* Bytes of eight values: One is 8 and a word has 4096.  Two calls of a    *)
(* gain, a feed-forward gain, the ramp or the position, or one call of any *)
(* quantity with a tiny argument, a fraction, one of three bytes, the      *)
(* largest or one beyond.                                                  *)
FewUsed == {<<"Pgain", 0>>, <<"Fgain", 1>>, <<"VoltageCompensationRate", 0>>,
            <<"SensorPosition", 0>>}
TwoCalls == INSTANCE TalonParams WITH
              Used <- FewUsed, Arguments <- {-3, 7, 1048, 6001}, Periods <- {0, 300},
              MaxCalls <- 2

EveryQuantity == ((DOMAIN Slotted) \X {0, 1}) \cup ((DOMAIN Single) \X {0})
MCArguments   == {-3, 0, 1, 7, 1048, 4095, 4096, 6001, 8184}

(* Two panels, and two readings: one whose signals are all different, one  *)
(* of all ones, but for a time that keeps the joules within TLC's numbers. *)
SignalBits(sig) == Below(sig, 0)
Place(sig) == IF sig = TmeasMs THEN 0 ELSE CHOOSE k \in DOMAIN Loop : Loop[k] = sig

MCReadings == << [sig \in Field |-> (197 * Place(sig) + 300) % 2^SignalBits(sig)],
                 [sig \in Field |-> IF sig = TmeasMs THEN 7 ELSE 2^SignalBits(sig) - 1] >>

controlVars == <<frame, ordered, commands>>
deviceVars  == <<part, controlVars, statusVars, paramVars, pdpVars>>

DevicesInit ==
  /\ part \in {"setters", "getters", "pulse", "two calls", "one call", "panel"}
  /\ Init /\ PdpInit
  /\ IF part = "pulse" THEN Pulse!StatusInit ELSE StatusInit
  /\ part \notin {"getters", "pulse"} => getter = "Temp"
  /\ ParamsInit /\ (part \notin {"two calls", "one call"} => msgBuff = NoParam)

ButSetters == <<part, statusVars, paramVars, pdpVars>>
ButGetters == <<part, controlVars, paramVars, pdpVars>>
ButParams  == <<part, controlVars, statusVars, pdpVars>>
ButPanel   == <<part, controlVars, statusVars, paramVars>>

DevicesNext ==
  \/ part = "setters" /\ Next /\ UNCHANGED ButSetters
  \/ part = "getters" /\ StatusNext /\ UNCHANGED ButGetters
  \/ part = "pulse" /\ Pulse!StatusNext /\ UNCHANGED ButGetters
  \/ part = "two calls" /\ TwoCalls!ParamsNext /\ UNCHANGED ButParams
  \/ part = "one call" /\ ParamsNext /\ UNCHANGED ButParams
  \/ part = "panel" /\ SpinNext /\ UNCHANGED ButPanel

DevicesSpec == DevicesInit /\ [][DevicesNext]_deviceVars
=============================================================================
