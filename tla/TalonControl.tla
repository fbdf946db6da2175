----------------------------- MODULE TalonControl -----------------------------
(***************************************************************************)
(* The control frame of a Talon, CONTROL_1, and the setters of CanTalonSRX *)
(* that fill it in.  Every setter takes the frame as it was flushed last,  *)
(* changes its own bit fields, and flushes it; the Talon takes the fields  *)
(* of the frame it received last for its commands.                         *)
(***************************************************************************)
EXTENDS Integers, Sequences, FiniteSets

CONSTANTS
  Values,       \* int arguments in use
  Tenths,       \* arguments of Set() in use, in tenths
  MaxCommands   \* bound: setters called

ASSUME ValueAssumption == /\ Values \subseteq Int /\ Tenths \subseteq Int
                          /\ MaxCommands \in Nat

(* The bit fields, and how many values each has.                           *)
Control1 ==
  [TokenH |-> 256, TokenL |-> 256, DemandH |-> 256, DemandM |-> 256,
   DemandL |-> 256, ProfileSlotSelect |-> 2, FeedbackDeviceSelect |-> 16,
   OverrideLimitSwitchEn |-> 8, RevFeedbackSensor |-> 2,
   RevMotDuringCloseLoopEn |-> 2, OverrideBrakeType |-> 4, ModeSelect |-> 16,
   RampThrottle |-> 256]

Demand == "Demand"
Quantity == {Demand} \cup
            {"ProfileSlotSelect", "FeedbackDeviceSelect", "OverrideLimitSwitchEn",
             "RevFeedbackSensor", "RevMotDuringCloseLoopEn", "OverrideBrakeType",
             "ModeSelect", "RampThrottle"}

(* A bug: the whole number is written.                                     *)
AllBits(f, v) == v

(* An assignment to a bit field keeps the low bits of the number.          *)
Bits(f, v) == v % Control1[f]

DemandFields(v) == [DemandH |-> Bits("DemandH", v \div 65536),
                    DemandM |-> Bits("DemandM", v \div 256),
                    DemandL |-> Bits("DemandL", v)]

FieldsFor(q, v) ==
  IF q = Demand THEN DemandFields(v)
  ELSE [x \in {q} |-> IF q = "RevFeedbackSensor" THEN (IF v # 0 THEN 1 ELSE 0)
                                                ELSE Bits(q, v)]

Filled(frame, fields) ==
  [x \in DOMAIN frame |-> IF x \in DOMAIN fields THEN fields[x] ELSE frame[x]]

(* Set(): within [-1, 1], and 1023 of it, towards zero.                    *)
Clamped(x)  == IF x > 10 THEN 10 ELSE IF x < -10 THEN -10 ELSE x
Throttle(x) == LET t == 1023 * Clamped(x)
               IN IF t >= 0 THEN t \div 10 ELSE -((-t) \div 10)

-----------------------------------------------------------------------------
VARIABLES
  frame,       \* the frame of CONTROL_1 in _txJobs
  ordered,     \* ghost: what was ordered last of each quantity
  commands     \* setters called so far

vars == <<frame, ordered, commands>>

Blank == [x \in DOMAIN Control1 |-> 0]

UseDefaultsFromFlash == 1

(* The constructor sets the one default that is not zero.                  *)
Init ==
  /\ frame = Filled(Blank, FieldsFor("OverrideLimitSwitchEn", UseDefaultsFromFlash))
  /\ ordered = [[q \in Quantity |-> 0] EXCEPT
                  !["OverrideLimitSwitchEn"] = UseDefaultsFromFlash]
  /\ commands = 0

Order(q, v) ==
  /\ commands < MaxCommands /\ commands' = commands + 1
  /\ frame' = Filled(frame, FieldsFor(q, v))
  /\ ordered' = [ordered EXCEPT ![q] = v]

(* SetDemand, SetOverrideLimitSwitchEn, SetFeedbackDeviceSelect, ...       *)
Setter == \E q \in Quantity, v \in Values : Order(q, v)

Set == \E x \in Tenths : Order(Demand, Throttle(x))

(* A bug: the mode is flushed, the demand with it is not.                  *)
SetModeOnly ==
  \E mode, v \in Values :
    /\ commands < MaxCommands /\ commands' = commands + 1
    /\ frame' = Filled(frame, FieldsFor("ModeSelect", mode))
    /\ ordered' = [ordered EXCEPT !["ModeSelect"] = mode, ![Demand] = v]

(* SetModeSelect with two arguments: one frame for both.                   *)
SetModeSelect2 ==
  \E mode, v \in Values :
    /\ commands < MaxCommands /\ commands' = commands + 1
    /\ frame' = Filled(Filled(frame, FieldsFor("ModeSelect", mode)),
                       FieldsFor(Demand, v))
    /\ ordered' = [ordered EXCEPT !["ModeSelect"] = mode, ![Demand] = v]

Next == Setter \/ Set \/ SetModeSelect2

Spec == Init /\ [][Next]_vars

-----------------------------------------------------------------------------
(* Whatever int a caller passes, no field spills into the next.            *)
TypeOK == /\ frame \in [DOMAIN Control1 -> Nat]
          /\ \A x \in DOMAIN frame : frame[x] < Control1[x]
          /\ ordered \in [Quantity -> Int] /\ commands \in 0..MaxCommands

(* The Talon's reading of the frame: demand is a signed number of 24 bits. *)
Read(f, q) ==
  IF q = Demand
  THEN LET u == f.DemandH * 65536 + f.DemandM * 256 + f.DemandL
       IN IF u >= 8388608 THEN u - 16777216 ELSE u
  ELSE f[q]

Fits(q, v) == IF q = Demand THEN -(8388608) <= v /\ v < 8388608
                            ELSE 0 <= v /\ v < Control1[q]

(* The Talon acts on what was ordered last of every quantity, whatever was *)
(* set before or since of another, as long as the order fits its field.    *)
OrderInForce == \A q \in Quantity : Fits(q, ordered[q]) => Read(frame, q) = ordered[q]
=============================================================================
