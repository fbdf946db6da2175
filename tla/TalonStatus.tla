----------------------------- MODULE TalonStatus -----------------------------
(***************************************************************************)
(* The status frames of a Talon and the getters of CanTalonSRX that take   *)
(* them apart.  A frame is a function from its bit fields to their values; *)
(* where in the frame a field lies is between the compiler and the Talon.  *)
(*                                                                         *)
(* A quantity is what the Talon measures: it packs a value of it into the  *)
(* fields of a status frame.  main() reads the frame stored last with a    *)
(* getter, while the spinner may store another at any time.                *)
(***************************************************************************)
EXTENDS Integers, Sequences, FiniteSets

CONSTANTS
  Getters,         \* the getters in use
  Samples,         \* Samples[w]: the unsigned w-bit values in use
  MaxStatusFrames  \* bound: status frames the Talon sends

ASSUME SampleAssumption ==
  /\ Samples \in [1..24 -> SUBSET Nat] /\ \A w \in 1..24 : \A u \in Samples[w] : u < 2^w
  /\ MaxStatusFrames \in Nat

-----------------------------------------------------------------------------
(* The bit fields: their widths.                                           *)

Status1 ==
  [CloseLoopErrH |-> 8, CloseLoopErrM |-> 8, CloseLoopErrL |-> 8,
   AppliedThrottle_h3 |-> 3, Fault_RevSoftLim |-> 1, Fault_ForSoftLim |-> 1,
   TokLocked |-> 1, LimitSwitchClosedRev |-> 1, LimitSwitchClosedFor |-> 1,
   AppliedThrottle_l8 |-> 8, ModeSelect_h1 |-> 1, FeedbackDeviceSelect |-> 4,
   LimitSwitchEn |-> 3, Fault_HardwareFailure |-> 1, Fault_RevLim |-> 1,
   Fault_ForLim |-> 1, Fault_UnderVoltage |-> 1, Fault_OverTemp |-> 1,
   ModeSelect_b3 |-> 3, TokenSeed |-> 8]

Status2 ==
  [SensorPositionH |-> 8, SensorPositionM |-> 8, SensorPositionL |-> 8,
   SensorVelocityH |-> 8, SensorVelocityL |-> 8, Current_h8 |-> 8,
   StckyFault_RevSoftLim |-> 1, StckyFault_ForSoftLim |-> 1,
   StckyFault_RevLim |-> 1, StckyFault_ForLim |-> 1,
   StckyFault_UnderVoltage |-> 1, StckyFault_OverTemp |-> 1, Current_l2 |-> 2,
   reserved2 |-> 4, VelDiv4 |-> 1, PosDiv8 |-> 1, ProfileSlotSelect |-> 1,
   BrakeIsEnabled |-> 1]

Status3 ==
  [EncPositionH |-> 8, EncPositionM |-> 8, EncPositionL |-> 8, EncVelH |-> 8,
   EncVelL |-> 8, EncIndexRiseEventsH |-> 8, EncIndexRiseEventsL |-> 8,
   reserved |-> 3, VelDiv4 |-> 1, PosDiv8 |-> 1, QuadIdxpin |-> 1,
   QuadBpin |-> 1, QuadApin |-> 1]

Status4 ==
  [AnalogInWithOvH |-> 8, AnalogInWithOvM |-> 8, AnalogInWithOvL |-> 8,
   AnalogInVelH |-> 8, AnalogInVelL |-> 8, Temp |-> 8, BatteryV |-> 8,
   reserved |-> 6, VelDiv4 |-> 1, PosDiv8 |-> 1]

Status5 ==
  [ResetCountH |-> 8, ResetCountL |-> 8, ResetFlagsH |-> 8, ResetFlagsL |-> 8,
   FirmVersH |-> 8, FirmVersL |-> 8]

Status8 ==
  [PulseWidPositionH |-> 8, PulseWidPositionM |-> 8, PulseWidPositionL |-> 8,
   reserved |-> 6, VelDiv4 |-> 1, PosDiv8 |-> 1, PeriodUsM8 |-> 8,
   PeriodUsL8 |-> 8, PulseWidVelH |-> 8, PulseWidVelL |-> 8]

-----------------------------------------------------------------------------
(* The getters.  Each takes its parts from the highest to the lowest,      *)
(* shifting what it has before each by the number given with it; then it   *)
(* extends the sign of the low "sign" bits (none if 0), and multiplies by  *)
(* "by" if the field "scale" is set.                                       *)

NoScale == "none"
Unsigned(parts)  == [parts |-> parts, sign |-> 0, scale |-> NoScale, by |-> 1]
Flag(f)          == Unsigned(<< <<0, f>> >>)
TwoBytes(h, l)   == Unsigned(<< <<0, h>>, <<8, l>> >>)
Pos(h, mid, l)   == [parts |-> << <<0, h>>, <<8, mid>>, <<8, l>> >>,
                     sign |-> 24, scale |-> "PosDiv8", by |-> 8]
Vel(h, l)        == [parts |-> << <<0, h>>, <<8, l>> >>,
                     sign |-> 16, scale |-> "VelDiv4", by |-> 4]

Getters1 ==
  [Fault_OverTemp |-> Flag("Fault_OverTemp"),
   Fault_UnderVoltage |-> Flag("Fault_UnderVoltage"),
   Fault_ForLim |-> Flag("Fault_ForLim"),
   Fault_RevLim |-> Flag("Fault_RevLim"),
   Fault_HardwareFailure |-> Flag("Fault_HardwareFailure"),
   Fault_ForSoftLim |-> Flag("Fault_ForSoftLim"),
   Fault_RevSoftLim |-> Flag("Fault_RevSoftLim"),
   AppliedThrottle |->
     [parts |-> << <<0, "AppliedThrottle_h3">>, <<8, "AppliedThrottle_l8">> >>,
      sign |-> 11, scale |-> NoScale, by |-> 1],
   CloseLoopErr |->
     [Pos("CloseLoopErrH", "CloseLoopErrM", "CloseLoopErrL")
        EXCEPT !.scale = NoScale, !.by = 1],
   FeedbackDeviceSelect |-> Flag("FeedbackDeviceSelect"),
   ModeSelect |-> Unsigned(<< <<0, "ModeSelect_h1">>, <<3, "ModeSelect_b3">> >>),
   LimitSwitchEn |-> Flag("LimitSwitchEn"),
   LimitSwitchClosedFor |-> Flag("LimitSwitchClosedFor"),
   LimitSwitchClosedRev |-> Flag("LimitSwitchClosedRev")]

StickyGetters2 ==
  [StckyFault_OverTemp |-> Flag("StckyFault_OverTemp"),
   StckyFault_UnderVoltage |-> Flag("StckyFault_UnderVoltage"),
   StckyFault_ForLim |-> Flag("StckyFault_ForLim"),
   StckyFault_RevLim |-> Flag("StckyFault_RevLim"),
   StckyFault_ForSoftLim |-> Flag("StckyFault_ForSoftLim"),
   StckyFault_RevSoftLim |-> Flag("StckyFault_RevSoftLim")]

SensorGetters2 ==
  [SensorPosition |-> Pos("SensorPositionH", "SensorPositionM", "SensorPositionL"),
   SensorVelocity |-> Vel("SensorVelocityH", "SensorVelocityL"),
   Current |-> Unsigned(<< <<0, "Current_h8">>, <<2, "Current_l2">> >>),
   BrakeIsEnabled |-> Flag("BrakeIsEnabled")]

Getters3 ==
  [EncPosition |-> Pos("EncPositionH", "EncPositionM", "EncPositionL"),
   EncVel |-> Vel("EncVelH", "EncVelL"),
   EncIndexRiseEvents |-> TwoBytes("EncIndexRiseEventsH", "EncIndexRiseEventsL"),
   QuadApin |-> Flag("QuadApin"), QuadBpin |-> Flag("QuadBpin"),
   QuadIdxpin |-> Flag("QuadIdxpin")]

(* Temp and BatteryV: the raw byte, of which the degrees and the volts     *)
(* that are returned are a linear function.                                *)
Getters4 ==
  [AnalogInWithOv |-> Pos("AnalogInWithOvH", "AnalogInWithOvM", "AnalogInWithOvL"),
   AnalogInVel |-> Vel("AnalogInVelH", "AnalogInVelL"),
   Temp |-> Flag("Temp"), BatteryV |-> Flag("BatteryV")]

Getters5 ==
  [ResetCount |-> TwoBytes("ResetCountH", "ResetCountL"),
   ResetFlags |-> TwoBytes("ResetFlagsH", "ResetFlagsL"),
   FirmVers |-> TwoBytes("FirmVersH", "FirmVersL")]

Getters8 ==
  [PulseWidthPosition |->
     Pos("PulseWidPositionH", "PulseWidPositionM", "PulseWidPositionL"),
   PulseWidthVelocity |-> Vel("PulseWidVelH", "PulseWidVelL"),
   PulseWidthRiseToRiseUs |-> TwoBytes("PeriodUsM8", "PeriodUsL8")]

(* Two getters are made of others: the time from rise to fall is the       *)
(* position within a turn, scaled to the period, and a sensor is present   *)
(* if there is a period.  What each getter reads, in order:                *)
Reads(g) == CASE g = "PulseWidthRiseToFallUs" ->
                   <<"PulseWidthPosition", "PulseWidthRiseToRiseUs">>
              [] g = "IsPulseWidthSensorPresent" -> <<"PulseWidthRiseToRiseUs">>
              [] OTHER -> <<g>>

Combined(g, vals) ==
  CASE g = "PulseWidthRiseToFallUs" -> ((vals[1] % 2^12) * vals[2]) \div 2^12
    [] g = "IsPulseWidthSensorPresent" -> IF vals[1] # 0 THEN 1 ELSE 0
    [] OTHER -> vals[1]

Tables  == <<Getters1, StickyGetters2, SensorGetters2, Getters3, Getters4,
             Getters5, Getters8>>
Layouts == <<Status1, Status2, Status2, Status3, Status4, Status5, Status8>>

AllQuantities == UNION {DOMAIN Tables[k] : k \in DOMAIN Tables}
EveryGetter   == AllQuantities
                   \cup {"PulseWidthRiseToFallUs", "IsPulseWidthSensorPresent"}
ASSUME GetterAssumption == Getters \subseteq EveryGetter

TableOf(q) == CHOOSE k \in DOMAIN Tables : q \in DOMAIN Tables[k]
Getter(q)  == Tables[TableOf(q)][q]
Layout(q)  == Layouts[TableOf(q)]

(* A bug: the sign is not extended.                                        *)
ExtendNothing(raw, w) == raw

Extend(raw, w) ==
  LET low == raw % 2^w
  IN IF w = 0 THEN raw ELSE IF low < 2^(w - 1) THEN low ELSE low - 2^w

Shifted(raw, parts, k, f) ==
  IF k \in DOMAIN parts THEN raw * 2^parts[k][1] + f[parts[k][2]] ELSE raw
Assembled(parts, f) ==
  Shifted(Shifted(Shifted(0, parts, 1, f), parts, 2, f), parts, 3, f)

GetSignal(q, f) ==
  LET g   == Getter(q)
      raw == Assembled(g.parts, f)
  IN IF g.scale # NoScale /\ f[g.scale] = 1 THEN g.by * Extend(raw, g.sign)
                                            ELSE Extend(raw, g.sign)

-----------------------------------------------------------------------------
(* The Talon: how it spreads a quantity of several parts over fields, from *)
(* the highest to the lowest, which quantities it signs, and which it may  *)
(* send divided by 8 or by 4, saying so in a field.                        *)
Composed ==
  [CloseLoopErr |-> <<"CloseLoopErrH", "CloseLoopErrM", "CloseLoopErrL">>,
   AppliedThrottle |-> <<"AppliedThrottle_h3", "AppliedThrottle_l8">>,
   ModeSelect |-> <<"ModeSelect_h1", "ModeSelect_b3">>,
   SensorPosition |-> <<"SensorPositionH", "SensorPositionM", "SensorPositionL">>,
   SensorVelocity |-> <<"SensorVelocityH", "SensorVelocityL">>,
   Current |-> <<"Current_h8", "Current_l2">>,
   EncPosition |-> <<"EncPositionH", "EncPositionM", "EncPositionL">>,
   EncVel |-> <<"EncVelH", "EncVelL">>,
   EncIndexRiseEvents |-> <<"EncIndexRiseEventsH", "EncIndexRiseEventsL">>,
   AnalogInWithOv |-> <<"AnalogInWithOvH", "AnalogInWithOvM", "AnalogInWithOvL">>,
   AnalogInVel |-> <<"AnalogInVelH", "AnalogInVelL">>,
   ResetCount |-> <<"ResetCountH", "ResetCountL">>,
   ResetFlags |-> <<"ResetFlagsH", "ResetFlagsL">>,
   FirmVers |-> <<"FirmVersH", "FirmVersL">>,
   PulseWidthPosition |-> <<"PulseWidPositionH", "PulseWidPositionM", "PulseWidPositionL">>,
   PulseWidthVelocity |-> <<"PulseWidVelH", "PulseWidVelL">>,
   PulseWidthRiseToRiseUs |-> <<"PeriodUsM8", "PeriodUsL8">>]

Positions  == {"SensorPosition", "EncPosition", "AnalogInWithOv", "PulseWidthPosition"}
Velocities == {"SensorVelocity", "EncVel", "AnalogInVel", "PulseWidthVelocity"}
Signed     == Positions \cup Velocities \cup {"AppliedThrottle", "CloseLoopErr"}

Parts(q) == IF q \in DOMAIN Composed THEN Composed[q] ELSE <<q>>
WidthOf(q, k) == Layout(q)[Parts(q)[k]]
BitsBelow(q, k) ==
  LET bits(j) == IF j \in DOMAIN Parts(q) /\ j > k THEN WidthOf(q, j) ELSE 0
  IN bits(1) + bits(2) + bits(3)
Width(q)      == BitsBelow(q, 0)
Scale(q)      == IF q \in Positions THEN 8 ELSE IF q \in Velocities THEN 4 ELSE 1

(* A sample: the bits of some quantities of one frame, and whether those   *)
(* that can be are divided.                                                *)
Meant(q, s) ==
  LET u == s.bits[q]
      v == IF q \in Signed /\ u >= 2^(Width(q) - 1) THEN u - 2^Width(q) ELSE u
  IN IF s.divided = 1 THEN Scale(q) * v ELSE v

(* The frame that carries it; every other bit of it is equal to noise.     *)
Carries(q, x) == \E k \in DOMAIN Parts(q) : Parts(q)[k] = x
Slice(s, x) ==
  LET q == CHOOSE y \in DOMAIN s.bits : Carries(y, x)
      k == CHOOSE j \in DOMAIN Parts(q) : Parts(q)[j] = x
  IN (s.bits[q] \div 2^BitsBelow(q, k)) % 2^WidthOf(q, k)

Frame(s, noise) ==
  LET qs     == DOMAIN s.bits
      layout == Layout(CHOOSE q \in qs : TRUE)
  IN [x \in DOMAIN layout |->
        IF \E q \in qs : Carries(q, x) THEN Slice(s, x)
        ELSE IF \/ x = "PosDiv8" /\ qs \cap Positions # {}
                \/ x = "VelDiv4" /\ qs \cap Velocities # {}
             THEN s.divided
             ELSE noise * (2^layout[x] - 1)]

-----------------------------------------------------------------------------
VARIABLES
  getter,      \* the getter main() calls
  statusFrame, \* receivedCAN: the status frame stored last
  shown,       \* ghost: the samples of all frames stored so far
  vals,        \* what the getter under way has read
  result       \* what the last call returned, if any did

statusVars == <<getter, statusFrame, shown, vals, result>>

QuantitiesRead == {Reads(getter)[k] : k \in DOMAIN Reads(getter)}

SamplesOf(qs) ==
  {[bits |-> b, divided |-> d] :
     b \in {f \in [qs -> UNION {Samples[Width(q)] : q \in qs}] :
              \A q \in qs : f[q] \in Samples[Width(q)]},
     d \in IF qs \cap (Positions \cup Velocities) = {} THEN {0} ELSE {0, 1}}

StatusInit ==
  /\ getter \in Getters
  /\ statusFrame = <<>> /\ shown = {} /\ vals = <<>> /\ result = {}

(* The spinner: receivedCAN_callback stores the frame that has come.       *)
Store ==
  /\ Cardinality(shown) < MaxStatusFrames
  /\ \E s \in SamplesOf(QuantitiesRead), noise \in {0, 1} :
       /\ statusFrame' = Frame(s, noise)
       /\ shown' = shown \cup {s}
  /\ UNCHANGED <<getter, vals, result>>

(* One GetRx of the getter, and its return after the last.  Before the     *)
(* first frame it would read zeros.                                        *)
ReadStatus ==
  /\ shown # {}
  /\ LET all == Append(vals, GetSignal(Reads(getter)[Len(vals) + 1], statusFrame))
     IN IF Len(all) = Len(Reads(getter))
        THEN vals' = <<>> /\ result' = {Combined(getter, all)}
        ELSE vals' = all /\ UNCHANGED result
  /\ UNCHANGED <<getter, statusFrame, shown>>

StatusNext == Store \/ ReadStatus

StatusSpec == StatusInit /\ [][StatusNext]_statusVars

-----------------------------------------------------------------------------
Expected(s) ==
  Combined(getter, [k \in DOMAIN Reads(getter) |-> Meant(Reads(getter)[k], s[k])])

(* What a getter returns is made of the values its quantities had when the *)
(* Talon sent them: with their sign, in full width, scaled as their frame  *)
(* says, and whatever else that frame carries (the getters of              *)
(* CanTalonSRX).  A getter that reads twice may meet two frames: the time  *)
(* from rise to fall may be of the position of one pulse and the period of *)
(* the next (lines 1152-1164).                                             *)
SignalWasSent ==
  \A v \in result :
    \E s \in [DOMAIN Reads(getter) -> shown] : v = Expected(s)
=============================================================================
