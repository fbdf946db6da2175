----------------------------- MODULE DeviceProofs -----------------------------
(***************************************************************************)
(* The classes of the devices.  No field of the control frame spills over, *)
(* and the Talon acts on what was ordered last of every quantity.  What a  *)
(* getter returns is what the Talon measured.  A parameter that is set is  *)
(* in force when every frame has been taken, and is read back as it was    *)
(* set.  What a getter of PDP returns was measured by its own panel, for   *)
(* its own signal.  All of it for every sequence of calls.                 *)
(***************************************************************************)
EXTENDS TalonControl, TalonStatus, TalonParams, PdpNode, TLAPS

-----------------------------------------------------------------------------
(* The control frame.                                                      *)

USE ValueAssumption

Frames == {f \in [DOMAIN Control1 -> Nat] : \A x \in DOMAIN Control1 : f[x] < Control1[x]}

(* The quantities other than the demand are fields of their own name.      *)
LEMMA QuantityFields ==
  \A q \in Quantity \ {Demand} :
    q \in DOMAIN Control1 /\ q \notin {"DemandH", "DemandM", "DemandL"}
BY DEF Quantity, Demand, Control1

LEMMA FieldSizes == \A x \in DOMAIN Control1 : Control1[x] \in Nat \ {0}
BY DEF Control1

(* What an order writes fits its fields.                                   *)
LEMMA FieldsFit ==
  ASSUME NEW q \in Quantity, NEW v \in Int, NEW x \in DOMAIN FieldsFor(q, v)
  PROVE  x \in DOMAIN Control1 /\ FieldsFor(q, v)[x] \in Nat
           /\ FieldsFor(q, v)[x] < Control1[x]
<1>1. CASE q = Demand
  <2>1. FieldsFor(q, v) = DemandFields(v)
    BY <1>1 DEF FieldsFor, Demand
  <2>2. x \in {"DemandH", "DemandM", "DemandL"}
    BY <2>1 DEF DemandFields
  <2>3. \A w \in Int : w % 256 \in 0..255
    OBVIOUS
  <2>4. v \div 65536 \in Int /\ v \div 256 \in Int
    OBVIOUS
  <2>. QED BY <2>1, <2>2, <2>3, <2>4 DEF DemandFields, Bits, Control1
<1>2. CASE q = "RevFeedbackSensor"
  <2>1. FieldsFor(q, v) = [y \in {q} |-> IF v # 0 THEN 1 ELSE 0]
    BY <1>2 DEF FieldsFor, Demand
  <2>. QED BY <1>2, <2>1 DEF Control1
<1>3. CASE q # Demand /\ q # "RevFeedbackSensor"
  <2>1. FieldsFor(q, v) = [y \in {q} |-> Bits(q, v)]
    BY <1>3 DEF FieldsFor
  <2>2. q \in DOMAIN Control1 /\ Control1[q] \in Nat \ {0}
    BY <1>3, QuantityFields, FieldSizes
  <2>3. \A n \in Nat \ {0} : v % n \in Nat /\ v % n < n
    OBVIOUS
  <2>. QED BY <2>1, <2>2, <2>3 DEF Bits
<1>. QED BY <1>1, <1>2, <1>3

LEMMA FilledFits ==
  ASSUME NEW f \in Frames, NEW q \in Quantity, NEW v \in Int
  PROVE  Filled(f, FieldsFor(q, v)) \in Frames
BY FieldsFit DEF Filled, Frames

LEMMA ThrottleInt == \A x \in Int : Throttle(x) \in Int
BY DEF Throttle, Clamped

-----------------------------------------------------------------------------
LEMMA FilledHas ==
  ASSUME NEW f \in Frames, NEW q \in Quantity, NEW v \in Int,
         NEW x \in DOMAIN Control1
  PROVE  Filled(f, FieldsFor(q, v))[x]
           = IF x \in DOMAIN FieldsFor(q, v) THEN FieldsFor(q, v)[x] ELSE f[x]
BY DEF Filled, Frames

LEMMA FieldNames ==
  ASSUME NEW q \in Quantity, NEW v \in Int
  PROVE  DOMAIN FieldsFor(q, v)
           = IF q = Demand THEN {"DemandH", "DemandM", "DemandL"} ELSE {q}
BY DEF FieldsFor, DemandFields, Demand

(* The three bytes of a number of 24 bits give it back.                    *)
LEMMA DemandBytes ==
  ASSUME NEW v \in Int, -8388608 <= v, v < 8388608,
         NEW u \in Int,
         u = ((v \div 65536) % 256) * 65536 + ((v \div 256) % 256) * 256 + (v % 256)
  PROVE  (IF u >= 8388608 THEN u - 16777216 ELSE u) = v
<1>. DEFINE w == v \div 256   a == w \div 256   b == w % 256   c == v % 256
<1>1. v = 256 * w + c /\ c \in 0..255 /\ w \in Int
  BY SMT
<1>2. v \div 65536 = a
  BY SMT
<1>. HIDE DEF w, c
<1>3. w = 256 * a + b /\ b \in 0..255 /\ a \in Int
  BY <1>1, SMT
<1>4. u = (a % 256) * 65536 + b * 256 + c
  BY <1>2 DEF w, c
<1>. HIDE DEF a, b
<1>5. -128 <= a /\ a < 128
  BY <1>1, <1>3, SMT
<1>6. a % 256 = IF a < 0 THEN a + 256 ELSE a
  BY <1>3, <1>5, SMT
<1>. QED BY <1>1, <1>3, <1>4, <1>5, <1>6, SMT

(* What is read of a quantity after it was ordered, and after another was. *)
LEMMA ReadOrdered ==
  ASSUME NEW f \in Frames, NEW q \in Quantity, NEW v \in Int, Fits(q, v)
  PROVE  Read(Filled(f, FieldsFor(q, v)), q) = v
<1>. DEFINE g == Filled(f, FieldsFor(q, v))
<1>1. CASE q = Demand
  <2>1. FieldsFor(q, v) = DemandFields(v)
    BY <1>1 DEF FieldsFor, Demand
  <2>2. /\ g.DemandH = (v \div 65536) % 256
        /\ g.DemandM = (v \div 256) % 256
        /\ g.DemandL = v % 256
    BY <2>1, FilledHas DEF DemandFields, Bits, Control1
  <2>3. -8388608 <= v /\ v < 8388608
    BY <1>1 DEF Fits
  <2>4. \A w \in Int : w % 256 \in Int
    OBVIOUS
  <2>5. v \div 65536 \in Int /\ v \div 256 \in Int
    OBVIOUS
  <2>. DEFINE u == g.DemandH * 65536 + g.DemandM * 256 + g.DemandL
  <2>6. u \in Int
    BY <2>2, <2>4, <2>5
  <2>7. (IF u >= 8388608 THEN u - 16777216 ELSE u) = v
    <3>. HIDE DEF u
    <3>1. u = ((v \div 65536) % 256) * 65536 + ((v \div 256) % 256) * 256 + (v % 256)
      BY <2>2 DEF u
    <3>. QED BY <3>1, <2>3, <2>6, DemandBytes
  <2>. QED BY <1>1, <2>7 DEF Read
<1>2. CASE q # Demand
  <2>1. q \in DOMAIN Control1 /\ Control1[q] \in Nat \ {0}
    BY <1>2, QuantityFields, FieldSizes
  <2>2. g[q] = FieldsFor(q, v)[q]
    <3>1. q \in DOMAIN FieldsFor(q, v)
      BY <1>2, FieldNames
    <3>. QED BY <2>1, <3>1, FilledHas
  <2>3. 0 <= v /\ v < Control1[q]
    BY <1>2 DEF Fits
  <2>4. FieldsFor(q, v)[q] = v
    <3>1. CASE q = "RevFeedbackSensor"
      BY <3>1, <2>3 DEF FieldsFor, Demand, Control1
    <3>2. CASE q # "RevFeedbackSensor"
      <4>1. FieldsFor(q, v)[q] = v % Control1[q]
        BY <1>2, <3>2 DEF FieldsFor, Bits
      <4>2. \A n \in Nat \ {0} : 0 <= v /\ v < n => v % n = v
        OBVIOUS
      <4>. QED BY <4>1, <4>2, <2>1, <2>3
    <3>. QED BY <3>1, <3>2
  <2>. QED BY <1>2, <2>2, <2>4 DEF Read
<1>. QED BY <1>1, <1>2

LEMMA ReadOther ==
  ASSUME NEW f \in Frames, NEW q \in Quantity, NEW v \in Int,
         NEW p \in Quantity \ {q}
  PROVE  Read(Filled(f, FieldsFor(q, v)), p) = Read(f, p)
<1>1. CASE p = Demand
  <2>1. DOMAIN FieldsFor(q, v) = {q} /\ q \notin {"DemandH", "DemandM", "DemandL"}
    BY <1>1, FieldNames, QuantityFields
  <2>. QED BY <1>1, <2>1, FilledHas DEF Read, Control1
<1>2. CASE p # Demand
  <2>1. p \in DOMAIN Control1 /\ p \notin DOMAIN FieldsFor(q, v)
    BY <1>2, FieldNames, QuantityFields
  <2>. QED BY <1>2, <2>1, FilledHas DEF Read
<1>. QED BY <1>1, <1>2

-----------------------------------------------------------------------------
LEMMA TypedFrame == ASSUME TypeOK PROVE frame \in Frames
BY DEF TypeOK, Frames

(* One order: what both actions of the setters do.                         *)
LEMMA OrderKeeps ==
  ASSUME TypeOK, OrderInForce, NEW q \in Quantity, NEW v \in Int, Order(q, v)
  PROVE  TypeOK' /\ OrderInForce'
<1>1. frame \in Frames
  BY TypedFrame
<1>2. frame' = Filled(frame, FieldsFor(q, v)) /\ ordered' = [ordered EXCEPT ![q] = v]
  BY DEF Order
<1>3. TypeOK'
  <2>1. frame' \in Frames
    BY <1>1, <1>2, FilledFits
  <2>2. ordered' \in [Quantity -> Int] /\ commands' \in 0..MaxCommands
    BY <1>2 DEF TypeOK, Order
  <2>. QED BY <2>1, <2>2 DEF TypeOK, Frames
<1>4. ASSUME NEW p \in Quantity, Fits(p, ordered'[p])
      PROVE  Read(frame', p) = ordered'[p]
  <2>1. CASE p = q
    <3>1. ordered'[p] = v
      BY <2>1, <1>2 DEF TypeOK
    <3>. QED BY <3>1, <2>1, <1>1, <1>2, <1>4, ReadOrdered
  <2>2. CASE p # q
    <3>1. ordered'[p] = ordered[p]
      BY <2>2, <1>2 DEF TypeOK
    <3>2. Read(frame, p) = ordered[p]
      BY <3>1, <1>4 DEF OrderInForce
    <3>. QED BY <3>1, <3>2, <2>2, <1>1, <1>2, ReadOther
  <2>. QED BY <2>1, <2>2
<1>. QED BY <1>3, <1>4 DEF OrderInForce

LEMMA SetModeKeeps ==
  ASSUME TypeOK, OrderInForce, SetModeSelect2
  PROVE  TypeOK' /\ OrderInForce'
<1>1. PICK mode \in Values, v \in Values :
        /\ commands < MaxCommands /\ commands' = commands + 1
        /\ frame' = Filled(Filled(frame, FieldsFor("ModeSelect", mode)),
                           FieldsFor(Demand, v))
        /\ ordered' = [ordered EXCEPT !["ModeSelect"] = mode, ![Demand] = v]
  BY DEF SetModeSelect2
<1>. DEFINE half == Filled(frame, FieldsFor("ModeSelect", mode))
<1>2. mode \in Int /\ v \in Int /\ "ModeSelect" \in Quantity /\ Demand \in Quantity
  BY DEF Quantity
<1>3. frame \in Frames /\ half \in Frames
  BY <1>2, TypedFrame, FilledFits
<1>4. frame' = Filled(half, FieldsFor(Demand, v))
  BY <1>1
<1>. HIDE DEF half
<1>5. TypeOK'
  <2>1. frame' \in Frames
    BY <1>2, <1>3, <1>4, FilledFits
  <2>2. ordered' \in [Quantity -> Int] /\ commands' \in 0..MaxCommands
    BY <1>1, <1>2 DEF TypeOK
  <2>. QED BY <2>1, <2>2 DEF TypeOK, Frames
<1>6. ASSUME NEW p \in Quantity, Fits(p, ordered'[p])
      PROVE  Read(frame', p) = ordered'[p]
  <2>1. CASE p = Demand
    <3>1. ordered'[p] = v
      BY <2>1, <1>1 DEF TypeOK
    <3>. QED BY <3>1, <2>1, <1>2, <1>3, <1>4, <1>6, ReadOrdered
  <2>2. CASE p = "ModeSelect"
    <3>1. ordered'[p] = mode
      BY <2>2, <1>1, <1>2 DEF TypeOK, Demand
    <3>2. Read(frame', p) = Read(half, p)
      BY <2>2, <1>2, <1>3, <1>4, ReadOther DEF Demand
    <3>3. Read(half, p) = mode
      BY <3>1, <2>2, <1>2, <1>3, <1>6, ReadOrdered DEF half
    <3>. QED BY <3>1, <3>2, <3>3
  <2>3. CASE p # Demand /\ p # "ModeSelect"
    <3>1. ordered'[p] = ordered[p]
      BY <2>3, <1>1 DEF TypeOK
    <3>2. Read(frame', p) = Read(half, p)
      BY <2>3, <1>2, <1>3, <1>4, ReadOther
    <3>3. Read(half, p) = Read(frame, p)
      BY <2>3, <1>2, <1>3, ReadOther DEF half
    <3>4. Read(frame, p) = ordered[p]
      BY <3>1, <1>6 DEF OrderInForce
    <3>. QED BY <3>1, <3>2, <3>3, <3>4
  <2>. QED BY <2>1, <2>2, <2>3
<1>. QED BY <1>5, <1>6 DEF OrderInForce

LEMMA InitHolds == Init => TypeOK /\ OrderInForce
<1>. SUFFICES ASSUME Init PROVE TypeOK /\ OrderInForce
  OBVIOUS
<1>1. frame = [x \in DOMAIN Control1 |-> IF x = "OverrideLimitSwitchEn" THEN 1 ELSE 0]
  BY DEF Init, Filled, FieldsFor, Bits, Blank, UseDefaultsFromFlash, Control1, Demand
<1>2. TypeOK
  BY <1>1 DEF TypeOK, Init, Control1, UseDefaultsFromFlash, Quantity
<1>3. \A q \in Quantity : Read(frame, q) = ordered[q]
  BY <1>1 DEF Init, Read, Quantity, Demand, Control1, UseDefaultsFromFlash
<1>. QED BY <1>2, <1>3 DEF OrderInForce

LEMMA StepKeeps == TypeOK /\ OrderInForce /\ [Next]_vars => TypeOK' /\ OrderInForce'
<1>. SUFFICES ASSUME TypeOK, OrderInForce, [Next]_vars PROVE TypeOK' /\ OrderInForce'
  OBVIOUS
<1>1. CASE Setter
  BY <1>1, OrderKeeps DEF Setter
<1>2. CASE Set
  BY <1>2, OrderKeeps, ThrottleInt DEF Set, Quantity
<1>3. CASE SetModeSelect2
  BY <1>3, SetModeKeeps
<1>4. CASE UNCHANGED vars
  BY <1>4 DEF vars, TypeOK, OrderInForce
<1>. QED BY <1>1, <1>2, <1>3, <1>4 DEF Next

(* No field of the control frame spills into the next.                     *)
THEOREM ControlTyped == Spec => []TypeOK
BY InitHolds, StepKeeps, PTL DEF Spec

(* The Talon acts on what was ordered last of every quantity.              *)
THEOREM ControlInForce == Spec => []OrderInForce
BY InitHolds, StepKeeps, PTL DEF Spec

HIDE ValueAssumption

-----------------------------------------------------------------------------
(* The status frames.                                                       *)

(* The quantities of one field, of three tables.                           *)
Names1 == {"Fault_OverTemp", "Fault_UnderVoltage", "Fault_ForLim", "Fault_RevLim",
           "Fault_HardwareFailure", "Fault_ForSoftLim", "Fault_RevSoftLim",
           "FeedbackDeviceSelect", "LimitSwitchEn", "LimitSwitchClosedFor",
           "LimitSwitchClosedRev"}
Sticky2 == {"StckyFault_OverTemp", "StckyFault_UnderVoltage", "StckyFault_ForLim",
            "StckyFault_RevLim", "StckyFault_ForSoftLim", "StckyFault_RevSoftLim"}
Names3 == {"QuadApin", "QuadBpin", "QuadIdxpin"}

(* Every quantity is in one table.                                         *)
LEMMA TableNames ==
  /\ DOMAIN Getters1 = Names1 \cup {"AppliedThrottle", "CloseLoopErr", "ModeSelect"}
  /\ DOMAIN StickyGetters2 = Sticky2
  /\ DOMAIN SensorGetters2 = {"SensorPosition", "SensorVelocity", "Current", "BrakeIsEnabled"}
  /\ DOMAIN Getters3 = Names3 \cup {"EncPosition", "EncVel", "EncIndexRiseEvents"}
  /\ DOMAIN Getters4 = {"AnalogInWithOv", "AnalogInVel", "Temp", "BatteryV"}
  /\ DOMAIN Getters5 = {"ResetCount", "ResetFlags", "FirmVers"}
  /\ DOMAIN Getters8 = {"PulseWidthPosition", "PulseWidthVelocity", "PulseWidthRiseToRiseUs"}
BY DEF Getters1, StickyGetters2, SensorGetters2, Getters3, Getters4, Getters5, Getters8,
       Names1, Sticky2, Names3

LEMMA TablesDiffer ==
  /\ \A q \in DOMAIN Getters1 :
       q \notin DOMAIN StickyGetters2 /\ q \notin DOMAIN SensorGetters2
         /\ q \notin DOMAIN Getters3 /\ q \notin DOMAIN Getters4
         /\ q \notin DOMAIN Getters5 /\ q \notin DOMAIN Getters8
  /\ \A q \in DOMAIN StickyGetters2 :
       q \notin DOMAIN SensorGetters2 /\ q \notin DOMAIN Getters3
         /\ q \notin DOMAIN Getters4 /\ q \notin DOMAIN Getters5 /\ q \notin DOMAIN Getters8
  /\ \A q \in DOMAIN SensorGetters2 :
       q \notin DOMAIN Getters3 /\ q \notin DOMAIN Getters4
         /\ q \notin DOMAIN Getters5 /\ q \notin DOMAIN Getters8
  /\ \A q \in DOMAIN Getters3 :
       q \notin DOMAIN Getters4 /\ q \notin DOMAIN Getters5 /\ q \notin DOMAIN Getters8
  /\ \A q \in DOMAIN Getters4 : q \notin DOMAIN Getters5 /\ q \notin DOMAIN Getters8
  /\ \A q \in DOMAIN Getters5 : q \notin DOMAIN Getters8
BY TableNames DEF Names1, Sticky2, Names3

(* The table and the frame of every quantity.                              *)
LEMMA RowOf ==
  /\ \A q \in DOMAIN Getters1 : Getter(q) = Getters1[q] /\ Layout(q) = Status1
  /\ \A q \in DOMAIN StickyGetters2 : Getter(q) = StickyGetters2[q] /\ Layout(q) = Status2
  /\ \A q \in DOMAIN SensorGetters2 : Getter(q) = SensorGetters2[q] /\ Layout(q) = Status2
  /\ \A q \in DOMAIN Getters3 : Getter(q) = Getters3[q] /\ Layout(q) = Status3
  /\ \A q \in DOMAIN Getters4 : Getter(q) = Getters4[q] /\ Layout(q) = Status4
  /\ \A q \in DOMAIN Getters5 : Getter(q) = Getters5[q] /\ Layout(q) = Status5
  /\ \A q \in DOMAIN Getters8 : Getter(q) = Getters8[q] /\ Layout(q) = Status8
<1>1. /\ DOMAIN Tables = 1..7 /\ Tables[1] = Getters1 /\ Tables[2] = StickyGetters2
      /\ Tables[3] = SensorGetters2 /\ Tables[4] = Getters3 /\ Tables[5] = Getters4
      /\ Tables[6] = Getters5 /\ Tables[7] = Getters8
  BY DEF Tables
<1>2. /\ Layouts[1] = Status1 /\ Layouts[2] = Status2 /\ Layouts[3] = Status2
      /\ Layouts[4] = Status3 /\ Layouts[5] = Status4 /\ Layouts[6] = Status5
      /\ Layouts[7] = Status8
  BY DEF Layouts
<1>3. \A q : \A k \in 1..7 :
        q \in DOMAIN Tables[k] /\ (\A j \in 1..7 : q \in DOMAIN Tables[j] => j = k)
          => TableOf(q) = k
  BY <1>1 DEF TableOf
<1>4. \A j, k \in 1..7 : \A q \in DOMAIN Tables[k] : q \in DOMAIN Tables[j] => j = k
  BY <1>1, TablesDiffer
<1>5. \A k \in 1..7 : \A q \in DOMAIN Tables[k] : TableOf(q) = k
  BY <1>3, <1>4
<1>. QED BY <1>1, <1>2, <1>5 DEF Getter, Layout

(* Where a quantity lies in its frame, and how its getter takes it apart:  *)
(* it has the fields ps, which are ws bits wide.                           *)
Divisors == {"PosDiv8", "VelDiv4"}
Fields(q, ps, ws) ==
  /\ Parts(q) = ps /\ DOMAIN Getter(q).parts = DOMAIN ps
  /\ \A j, k \in DOMAIN ps : ps[j] = ps[k] => j = k
  /\ \A k \in DOMAIN ps : /\ Getter(q).parts[k][2] = ps[k]
                          /\ ps[k] \in DOMAIN Layout(q) /\ ps[k] \notin Divisors
                          /\ Layout(q)[ps[k]] = ws[k]
                          /\ Getter(q).parts[k][1] = IF k = 1 THEN 0 ELSE ws[k]

LEMMA OneField ==
  ASSUME NEW q, NEW w, Getter(q).parts =
    << <<0, q>> >>, q \notin DOMAIN Composed,
         q \in DOMAIN Layout(q), q \notin Divisors, Layout(q)[q] = w
  PROVE  Fields(q, <<q>>, <<w>>)
<1>1. Parts(q) = <<q>>
  BY DEF Parts
<1>2. DOMAIN Getter(q).parts = {1} /\ Getter(q).parts[1][1] = 0 /\ Getter(q).parts[1][2] = q
  OBVIOUS
<1>3. DOMAIN <<q>> = {1} /\ <<q>>[1] = q /\ <<w>>[1] = w
  OBVIOUS
<1>. QED BY <1>1, <1>2, <1>3 DEF Fields

LEMMA TwoFields ==
  ASSUME NEW q, NEW h, NEW l, NEW a, NEW b, Getter(q).parts =
    << <<0, h>>, <<b, l>> >>,
         q \in DOMAIN Composed, Composed[q] = <<h, l>>, h # l,
         {h, l} \subseteq DOMAIN Layout(q), h \notin Divisors, l \notin Divisors,
         Layout(q)[h] = a, Layout(q)[l] = b
  PROVE  Fields(q, <<h, l>>, <<a, b>>)
BY DEF Fields, Parts

LEMMA ThreeFields ==
  ASSUME NEW q, NEW h, NEW m, NEW l,
         Getter(q).parts = << <<0, h>>, <<8, m>>, <<8, l>> >>,
         q \in DOMAIN Composed, Composed[q] = <<h, m, l>>, h # m, h # l, m # l,
         {h, m, l} \subseteq DOMAIN Layout(q),
         h \notin Divisors, m \notin Divisors, l \notin Divisors,
         Layout(q)[h] = 8, Layout(q)[m] = 8, Layout(q)[l] = 8
  PROVE  Fields(q, <<h, m, l>>, <<8, 8, 8>>)
BY DEF Fields, Parts

Flags == Names1 \cup Sticky2 \cup Names3 \cup {"BrakeIsEnabled", "Temp", "BatteryV"}

LEMMA FlagRows ==
  \A q \in Flags : /\ Getter(q) = Flag(q) /\ q \notin DOMAIN Composed /\ q \notin Signed
                   /\ q \in DOMAIN Layout(q) /\ Layout(q)[q] \in {1, 3, 4, 8}
<1>1. \A q \in Flags : q \notin DOMAIN Composed /\ q \notin Signed
  BY DEF Composed, Signed, Positions, Velocities, Flags, Names1, Sticky2, Names3
<1>2. ASSUME NEW q \in Names1
      PROVE  Getter(q) = Flag(q) /\ q \in DOMAIN Layout(q) /\ Layout(q)[q] \in {1, 3, 4, 8}
  <2>1. Getter(q) = Getters1[q] /\ Layout(q) = Status1
    BY RowOf, TableNames
  <2>2. Getters1[q] = Flag(q)
    BY DEF Getters1, Names1
  <2>3. q \in DOMAIN Status1 /\ Status1[q] \in {1, 3, 4, 8}
    BY DEF Status1, Names1
  <2>. QED BY <2>1, <2>2, <2>3
<1>3. ASSUME NEW q \in Sticky2
      PROVE  Getter(q) = Flag(q) /\ q \in DOMAIN Layout(q) /\ Layout(q)[q] \in {1, 3, 4, 8}
  <2>1. Getter(q) = StickyGetters2[q] /\ Layout(q) = Status2
    BY RowOf, TableNames
  <2>2. StickyGetters2[q] = Flag(q)
    BY DEF StickyGetters2, Sticky2
  <2>3. q \in DOMAIN Status2 /\ Status2[q] \in {1, 3, 4, 8}
    BY DEF Status2, Sticky2
  <2>. QED BY <2>1, <2>2, <2>3
<1>4. ASSUME NEW q \in Names3
      PROVE  Getter(q) = Flag(q) /\ q \in DOMAIN Layout(q) /\ Layout(q)[q] \in {1, 3, 4, 8}
  <2>1. Getter(q) = Getters3[q] /\ Layout(q) = Status3
    BY RowOf, TableNames
  <2>2. Getters3[q] = Flag(q)
    BY DEF Getters3, Names3
  <2>3. q \in DOMAIN Status3 /\ Status3[q] \in {1, 3, 4, 8}
    BY DEF Status3, Names3
  <2>. QED BY <2>1, <2>2, <2>3
<1>5. ASSUME NEW q \in {"BrakeIsEnabled"}
      PROVE  Getter(q) = Flag(q) /\ q \in DOMAIN Layout(q) /\ Layout(q)[q] \in {1, 3, 4, 8}
  <2>1. Getter(q) = SensorGetters2[q] /\ Layout(q) = Status2
    BY RowOf, TableNames
  <2>2. SensorGetters2[q] = Flag(q)
    BY DEF SensorGetters2
  <2>3. q \in DOMAIN Status2 /\ Status2[q] \in {1, 3, 4, 8}
    BY DEF Status2
  <2>. QED BY <2>1, <2>2, <2>3
<1>6. ASSUME NEW q \in {"Temp", "BatteryV"}
      PROVE  Getter(q) = Flag(q) /\ q \in DOMAIN Layout(q) /\ Layout(q)[q] \in {1, 3, 4, 8}
  <2>1. Getter(q) = Getters4[q] /\ Layout(q) = Status4
    BY RowOf, TableNames
  <2>2. Getters4[q] = Flag(q)
    BY DEF Getters4
  <2>3. q \in DOMAIN Status4 /\ Status4[q] \in {1, 3, 4, 8}
    BY DEF Status4
  <2>. QED BY <2>1, <2>2, <2>3
<1>. QED BY <1>1, <1>2, <1>3, <1>4, <1>5, <1>6 DEF Flags

LEMMA FlagFields ==
  \A q \in Flags : Fields(q, <<q>>, <<Layout(q)[q]>>) /\ Layout(q)[q] \in {1, 3, 4, 8}
<1>1. \A q \in Flags : q \notin Divisors
  BY DEF Flags, Names1, Sticky2, Names3, Divisors
<1>2. \A q \in Flags : Getter(q).parts = << <<0, q>> >>
  BY FlagRows DEF Flag, Unsigned
<1>. QED BY <1>1, <1>2, FlagRows, OneField

(* The composed quantities, frame by frame.                                *)
LEMMA ComposedOf1 ==
  /\ Fields("CloseLoopErr",
            <<"CloseLoopErrH", "CloseLoopErrM", "CloseLoopErrL">>, <<8, 8, 8>>)
  /\ Fields("AppliedThrottle",
            <<"AppliedThrottle_h3", "AppliedThrottle_l8">>, <<3, 8>>)
  /\ Fields("ModeSelect", <<"ModeSelect_h1", "ModeSelect_b3">>, <<1, 3>>)
<1>1. /\ "CloseLoopErr" \in DOMAIN Composed /\ Layout("CloseLoopErr") = Status1
      /\ "AppliedThrottle" \in DOMAIN Composed /\ Layout("AppliedThrottle") = Status1
      /\ "ModeSelect" \in DOMAIN Composed /\ Layout("ModeSelect") = Status1
  <2>1. /\ "CloseLoopErr" \in DOMAIN Composed
        /\ "AppliedThrottle" \in DOMAIN Composed
        /\ "ModeSelect" \in DOMAIN Composed
    BY DEF Composed
  <2>. QED BY <2>1, RowOf, TableNames
<1>2. /\ Composed["CloseLoopErr"]
            = <<"CloseLoopErrH", "CloseLoopErrM", "CloseLoopErrL">>
      /\ Composed["AppliedThrottle"]
            = <<"AppliedThrottle_h3", "AppliedThrottle_l8">>
      /\ Composed["ModeSelect"] = <<"ModeSelect_h1", "ModeSelect_b3">>
  BY DEF Composed
<1>3. /\ Getter("CloseLoopErr").parts
            = << <<0, "CloseLoopErrH">>, <<8, "CloseLoopErrM">>, <<8, "CloseLoopErrL">> >>
      /\ Getter("AppliedThrottle").parts
            = << <<0, "AppliedThrottle_h3">>, <<8, "AppliedThrottle_l8">> >>
      /\ Getter("ModeSelect").parts
            = << <<0, "ModeSelect_h1">>, <<3, "ModeSelect_b3">> >>
  <2>1. /\ Getters1["CloseLoopErr"].parts
              = << <<0, "CloseLoopErrH">>, <<8, "CloseLoopErrM">>, <<8, "CloseLoopErrL">> >>
        /\ Getters1["AppliedThrottle"].parts
              = << <<0, "AppliedThrottle_h3">>, <<8, "AppliedThrottle_l8">> >>
        /\ Getters1["ModeSelect"].parts
              = << <<0, "ModeSelect_h1">>, <<3, "ModeSelect_b3">> >>
    BY DEF Getters1, Pos, Vel, TwoBytes, Unsigned
  <2>2. /\ Getter("CloseLoopErr") = Getters1["CloseLoopErr"]
        /\ Getter("AppliedThrottle") = Getters1["AppliedThrottle"]
        /\ Getter("ModeSelect") = Getters1["ModeSelect"]
    BY RowOf, TableNames
  <2>. QED BY <2>1, <2>2
<1>4. /\ "CloseLoopErrH" \in DOMAIN Status1 /\ Status1["CloseLoopErrH"] = 8
      /\ "CloseLoopErrM" \in DOMAIN Status1 /\ Status1["CloseLoopErrM"] = 8
      /\ "CloseLoopErrL" \in DOMAIN Status1 /\ Status1["CloseLoopErrL"] = 8
      /\ "AppliedThrottle_h3" \in DOMAIN Status1 /\ Status1["AppliedThrottle_h3"] = 3
      /\ "AppliedThrottle_l8" \in DOMAIN Status1 /\ Status1["AppliedThrottle_l8"] = 8
      /\ "ModeSelect_h1" \in DOMAIN Status1 /\ Status1["ModeSelect_h1"] = 1
      /\ "ModeSelect_b3" \in DOMAIN Status1 /\ Status1["ModeSelect_b3"] = 3
  BY DEF Status1
<1>5. /\ "CloseLoopErrH" \notin Divisors
      /\ "CloseLoopErrM" \notin Divisors
      /\ "CloseLoopErrL" \notin Divisors
      /\ "AppliedThrottle_h3" \notin Divisors
      /\ "AppliedThrottle_l8" \notin Divisors
      /\ "ModeSelect_h1" \notin Divisors
      /\ "ModeSelect_b3" \notin Divisors
  BY DEF Divisors
<1>6. Fields("CloseLoopErr",
             <<"CloseLoopErrH", "CloseLoopErrM", "CloseLoopErrL">>, <<8, 8, 8>>)
  BY <1>1, <1>2, <1>3, <1>4, <1>5, ThreeFields
<1>7. Fields("AppliedThrottle",
             <<"AppliedThrottle_h3", "AppliedThrottle_l8">>, <<3, 8>>)
  BY <1>1, <1>2, <1>3, <1>4, <1>5, TwoFields
<1>8. Fields("ModeSelect", <<"ModeSelect_h1", "ModeSelect_b3">>, <<1, 3>>)
  BY <1>1, <1>2, <1>3, <1>4, <1>5, TwoFields
<1>. QED BY <1>6, <1>7, <1>8

LEMMA ComposedOf2 ==
  /\ Fields("SensorPosition",
            <<"SensorPositionH", "SensorPositionM", "SensorPositionL">>, <<8, 8, 8>>)
  /\ Fields("SensorVelocity",
            <<"SensorVelocityH", "SensorVelocityL">>, <<8, 8>>)
  /\ Fields("Current", <<"Current_h8", "Current_l2">>, <<8, 2>>)
<1>1. /\ "SensorPosition" \in DOMAIN Composed /\ Layout("SensorPosition") = Status2
      /\ "SensorVelocity" \in DOMAIN Composed /\ Layout("SensorVelocity") = Status2
      /\ "Current" \in DOMAIN Composed /\ Layout("Current") = Status2
  <2>1. /\ "SensorPosition" \in DOMAIN Composed
        /\ "SensorVelocity" \in DOMAIN Composed
        /\ "Current" \in DOMAIN Composed
    BY DEF Composed
  <2>. QED BY <2>1, RowOf, TableNames
<1>2. /\ Composed["SensorPosition"]
            = <<"SensorPositionH", "SensorPositionM", "SensorPositionL">>
      /\ Composed["SensorVelocity"] = <<"SensorVelocityH", "SensorVelocityL">>
      /\ Composed["Current"] = <<"Current_h8", "Current_l2">>
  BY DEF Composed
<1>3. /\ Getter("SensorPosition").parts
            = << <<0, "SensorPositionH">>, <<8, "SensorPositionM">>, <<8, "SensorPositionL">> >>
      /\ Getter("SensorVelocity").parts
            = << <<0, "SensorVelocityH">>, <<8, "SensorVelocityL">> >>
      /\ Getter("Current").parts
            = << <<0, "Current_h8">>, <<2, "Current_l2">> >>
  <2>1. /\ SensorGetters2["SensorPosition"].parts
              = << <<0, "SensorPositionH">>, <<8, "SensorPositionM">>, <<8, "SensorPositionL">> >>
        /\ SensorGetters2["SensorVelocity"].parts
              = << <<0, "SensorVelocityH">>, <<8, "SensorVelocityL">> >>
        /\ SensorGetters2["Current"].parts
              = << <<0, "Current_h8">>, <<2, "Current_l2">> >>
    BY DEF SensorGetters2, Pos, Vel, TwoBytes, Unsigned
  <2>2. /\ Getter("SensorPosition") = SensorGetters2["SensorPosition"]
        /\ Getter("SensorVelocity") = SensorGetters2["SensorVelocity"]
        /\ Getter("Current") = SensorGetters2["Current"]
    BY RowOf, TableNames
  <2>. QED BY <2>1, <2>2
<1>4. /\ "SensorPositionH" \in DOMAIN Status2 /\ Status2["SensorPositionH"] = 8
      /\ "SensorPositionM" \in DOMAIN Status2 /\ Status2["SensorPositionM"] = 8
      /\ "SensorPositionL" \in DOMAIN Status2 /\ Status2["SensorPositionL"] = 8
      /\ "SensorVelocityH" \in DOMAIN Status2 /\ Status2["SensorVelocityH"] = 8
      /\ "SensorVelocityL" \in DOMAIN Status2 /\ Status2["SensorVelocityL"] = 8
      /\ "Current_h8" \in DOMAIN Status2 /\ Status2["Current_h8"] = 8
      /\ "Current_l2" \in DOMAIN Status2 /\ Status2["Current_l2"] = 2
  BY DEF Status2
<1>5. /\ "SensorPositionH" \notin Divisors
      /\ "SensorPositionM" \notin Divisors
      /\ "SensorPositionL" \notin Divisors
      /\ "SensorVelocityH" \notin Divisors
      /\ "SensorVelocityL" \notin Divisors
      /\ "Current_h8" \notin Divisors
      /\ "Current_l2" \notin Divisors
  BY DEF Divisors
<1>6. Fields("SensorPosition",
             <<"SensorPositionH", "SensorPositionM", "SensorPositionL">>, <<8, 8, 8>>)
  BY <1>1, <1>2, <1>3, <1>4, <1>5, ThreeFields
<1>7. Fields("SensorVelocity",
             <<"SensorVelocityH", "SensorVelocityL">>, <<8, 8>>)
  BY <1>1, <1>2, <1>3, <1>4, <1>5, TwoFields
<1>8. Fields("Current", <<"Current_h8", "Current_l2">>, <<8, 2>>)
  BY <1>1, <1>2, <1>3, <1>4, <1>5, TwoFields
<1>. QED BY <1>6, <1>7, <1>8

LEMMA ComposedOf3 ==
  /\ Fields("EncPosition",
            <<"EncPositionH", "EncPositionM", "EncPositionL">>, <<8, 8, 8>>)
  /\ Fields("EncVel", <<"EncVelH", "EncVelL">>, <<8, 8>>)
  /\ Fields("EncIndexRiseEvents",
            <<"EncIndexRiseEventsH", "EncIndexRiseEventsL">>, <<8, 8>>)
<1>1. /\ "EncPosition" \in DOMAIN Composed /\ Layout("EncPosition") = Status3
      /\ "EncVel" \in DOMAIN Composed /\ Layout("EncVel") = Status3
      /\ "EncIndexRiseEvents" \in DOMAIN Composed /\ Layout("EncIndexRiseEvents") = Status3
  <2>1. /\ "EncPosition" \in DOMAIN Composed
        /\ "EncVel" \in DOMAIN Composed
        /\ "EncIndexRiseEvents" \in DOMAIN Composed
    BY DEF Composed
  <2>. QED BY <2>1, RowOf, TableNames
<1>2. /\ Composed["EncPosition"]
            = <<"EncPositionH", "EncPositionM", "EncPositionL">>
      /\ Composed["EncVel"] = <<"EncVelH", "EncVelL">>
      /\ Composed["EncIndexRiseEvents"]
            = <<"EncIndexRiseEventsH", "EncIndexRiseEventsL">>
  BY DEF Composed
<1>3. /\ Getter("EncPosition").parts
            = << <<0, "EncPositionH">>, <<8, "EncPositionM">>, <<8, "EncPositionL">> >>
      /\ Getter("EncVel").parts = << <<0, "EncVelH">>, <<8, "EncVelL">> >>
      /\ Getter("EncIndexRiseEvents").parts
            = << <<0, "EncIndexRiseEventsH">>, <<8, "EncIndexRiseEventsL">> >>
  <2>1. /\ Getters3["EncPosition"].parts
              = << <<0, "EncPositionH">>, <<8, "EncPositionM">>, <<8, "EncPositionL">> >>
        /\ Getters3["EncVel"].parts = << <<0, "EncVelH">>, <<8, "EncVelL">> >>
        /\ Getters3["EncIndexRiseEvents"].parts
              = << <<0, "EncIndexRiseEventsH">>, <<8, "EncIndexRiseEventsL">> >>
    BY DEF Getters3, Pos, Vel, TwoBytes, Unsigned
  <2>2. /\ Getter("EncPosition") = Getters3["EncPosition"]
        /\ Getter("EncVel") = Getters3["EncVel"]
        /\ Getter("EncIndexRiseEvents") = Getters3["EncIndexRiseEvents"]
    BY RowOf, TableNames
  <2>. QED BY <2>1, <2>2
<1>4. /\ "EncPositionH" \in DOMAIN Status3 /\ Status3["EncPositionH"] = 8
      /\ "EncPositionM" \in DOMAIN Status3 /\ Status3["EncPositionM"] = 8
      /\ "EncPositionL" \in DOMAIN Status3 /\ Status3["EncPositionL"] = 8
      /\ "EncVelH" \in DOMAIN Status3 /\ Status3["EncVelH"] = 8
      /\ "EncVelL" \in DOMAIN Status3 /\ Status3["EncVelL"] = 8
      /\ "EncIndexRiseEventsH" \in DOMAIN Status3 /\ Status3["EncIndexRiseEventsH"] = 8
      /\ "EncIndexRiseEventsL" \in DOMAIN Status3 /\ Status3["EncIndexRiseEventsL"] = 8
  BY DEF Status3
<1>5. /\ "EncPositionH" \notin Divisors
      /\ "EncPositionM" \notin Divisors
      /\ "EncPositionL" \notin Divisors
      /\ "EncVelH" \notin Divisors
      /\ "EncVelL" \notin Divisors
      /\ "EncIndexRiseEventsH" \notin Divisors
      /\ "EncIndexRiseEventsL" \notin Divisors
  BY DEF Divisors
<1>6. Fields("EncPosition",
             <<"EncPositionH", "EncPositionM", "EncPositionL">>, <<8, 8, 8>>)
  BY <1>1, <1>2, <1>3, <1>4, <1>5, ThreeFields
<1>7. Fields("EncVel", <<"EncVelH", "EncVelL">>, <<8, 8>>)
  BY <1>1, <1>2, <1>3, <1>4, <1>5, TwoFields
<1>8. Fields("EncIndexRiseEvents",
             <<"EncIndexRiseEventsH", "EncIndexRiseEventsL">>, <<8, 8>>)
  BY <1>1, <1>2, <1>3, <1>4, <1>5, TwoFields
<1>. QED BY <1>6, <1>7, <1>8

LEMMA ComposedOf4 ==
  /\ Fields("AnalogInWithOv",
            <<"AnalogInWithOvH", "AnalogInWithOvM", "AnalogInWithOvL">>, <<8, 8, 8>>)
  /\ Fields("AnalogInVel", <<"AnalogInVelH", "AnalogInVelL">>, <<8, 8>>)
<1>1. /\ "AnalogInWithOv" \in DOMAIN Composed /\ Layout("AnalogInWithOv") = Status4
      /\ "AnalogInVel" \in DOMAIN Composed /\ Layout("AnalogInVel") = Status4
  <2>1. /\ "AnalogInWithOv" \in DOMAIN Composed
        /\ "AnalogInVel" \in DOMAIN Composed
    BY DEF Composed
  <2>. QED BY <2>1, RowOf, TableNames
<1>2. /\ Composed["AnalogInWithOv"]
            = <<"AnalogInWithOvH", "AnalogInWithOvM", "AnalogInWithOvL">>
      /\ Composed["AnalogInVel"] = <<"AnalogInVelH", "AnalogInVelL">>
  BY DEF Composed
<1>3. /\ Getter("AnalogInWithOv").parts
            = << <<0, "AnalogInWithOvH">>, <<8, "AnalogInWithOvM">>, <<8, "AnalogInWithOvL">> >>
      /\ Getter("AnalogInVel").parts
            = << <<0, "AnalogInVelH">>, <<8, "AnalogInVelL">> >>
  <2>1. /\ Getters4["AnalogInWithOv"].parts
              = << <<0, "AnalogInWithOvH">>, <<8, "AnalogInWithOvM">>, <<8, "AnalogInWithOvL">> >>
        /\ Getters4["AnalogInVel"].parts
              = << <<0, "AnalogInVelH">>, <<8, "AnalogInVelL">> >>
    BY DEF Getters4, Pos, Vel, TwoBytes, Unsigned
  <2>2. /\ Getter("AnalogInWithOv") = Getters4["AnalogInWithOv"]
        /\ Getter("AnalogInVel") = Getters4["AnalogInVel"]
    BY RowOf, TableNames
  <2>. QED BY <2>1, <2>2
<1>4. /\ "AnalogInWithOvH" \in DOMAIN Status4 /\ Status4["AnalogInWithOvH"] = 8
      /\ "AnalogInWithOvM" \in DOMAIN Status4 /\ Status4["AnalogInWithOvM"] = 8
      /\ "AnalogInWithOvL" \in DOMAIN Status4 /\ Status4["AnalogInWithOvL"] = 8
      /\ "AnalogInVelH" \in DOMAIN Status4 /\ Status4["AnalogInVelH"] = 8
      /\ "AnalogInVelL" \in DOMAIN Status4 /\ Status4["AnalogInVelL"] = 8
  BY DEF Status4
<1>5. /\ "AnalogInWithOvH" \notin Divisors
      /\ "AnalogInWithOvM" \notin Divisors
      /\ "AnalogInWithOvL" \notin Divisors
      /\ "AnalogInVelH" \notin Divisors
      /\ "AnalogInVelL" \notin Divisors
  BY DEF Divisors
<1>6. Fields("AnalogInWithOv",
             <<"AnalogInWithOvH", "AnalogInWithOvM", "AnalogInWithOvL">>, <<8, 8, 8>>)
  BY <1>1, <1>2, <1>3, <1>4, <1>5, ThreeFields
<1>7. Fields("AnalogInVel", <<"AnalogInVelH", "AnalogInVelL">>, <<8, 8>>)
  BY <1>1, <1>2, <1>3, <1>4, <1>5, TwoFields
<1>. QED BY <1>6, <1>7

LEMMA ComposedOf5 ==
  /\ Fields("ResetCount", <<"ResetCountH", "ResetCountL">>, <<8, 8>>)
  /\ Fields("ResetFlags", <<"ResetFlagsH", "ResetFlagsL">>, <<8, 8>>)
  /\ Fields("FirmVers", <<"FirmVersH", "FirmVersL">>, <<8, 8>>)
<1>1. /\ "ResetCount" \in DOMAIN Composed /\ Layout("ResetCount") = Status5
      /\ "ResetFlags" \in DOMAIN Composed /\ Layout("ResetFlags") = Status5
      /\ "FirmVers" \in DOMAIN Composed /\ Layout("FirmVers") = Status5
  <2>1. /\ "ResetCount" \in DOMAIN Composed
        /\ "ResetFlags" \in DOMAIN Composed
        /\ "FirmVers" \in DOMAIN Composed
    BY DEF Composed
  <2>. QED BY <2>1, RowOf, TableNames
<1>2. /\ Composed["ResetCount"] = <<"ResetCountH", "ResetCountL">>
      /\ Composed["ResetFlags"] = <<"ResetFlagsH", "ResetFlagsL">>
      /\ Composed["FirmVers"] = <<"FirmVersH", "FirmVersL">>
  BY DEF Composed
<1>3. /\ Getter("ResetCount").parts
            = << <<0, "ResetCountH">>, <<8, "ResetCountL">> >>
      /\ Getter("ResetFlags").parts
            = << <<0, "ResetFlagsH">>, <<8, "ResetFlagsL">> >>
      /\ Getter("FirmVers").parts
            = << <<0, "FirmVersH">>, <<8, "FirmVersL">> >>
  <2>1. /\ Getters5["ResetCount"].parts
              = << <<0, "ResetCountH">>, <<8, "ResetCountL">> >>
        /\ Getters5["ResetFlags"].parts
              = << <<0, "ResetFlagsH">>, <<8, "ResetFlagsL">> >>
        /\ Getters5["FirmVers"].parts
              = << <<0, "FirmVersH">>, <<8, "FirmVersL">> >>
    BY DEF Getters5, Pos, Vel, TwoBytes, Unsigned
  <2>2. /\ Getter("ResetCount") = Getters5["ResetCount"]
        /\ Getter("ResetFlags") = Getters5["ResetFlags"]
        /\ Getter("FirmVers") = Getters5["FirmVers"]
    BY RowOf, TableNames
  <2>. QED BY <2>1, <2>2
<1>4. /\ "ResetCountH" \in DOMAIN Status5 /\ Status5["ResetCountH"] = 8
      /\ "ResetCountL" \in DOMAIN Status5 /\ Status5["ResetCountL"] = 8
      /\ "ResetFlagsH" \in DOMAIN Status5 /\ Status5["ResetFlagsH"] = 8
      /\ "ResetFlagsL" \in DOMAIN Status5 /\ Status5["ResetFlagsL"] = 8
      /\ "FirmVersH" \in DOMAIN Status5 /\ Status5["FirmVersH"] = 8
      /\ "FirmVersL" \in DOMAIN Status5 /\ Status5["FirmVersL"] = 8
  BY DEF Status5
<1>5. /\ "ResetCountH" \notin Divisors
      /\ "ResetCountL" \notin Divisors
      /\ "ResetFlagsH" \notin Divisors
      /\ "ResetFlagsL" \notin Divisors
      /\ "FirmVersH" \notin Divisors
      /\ "FirmVersL" \notin Divisors
  BY DEF Divisors
<1>6. Fields("ResetCount", <<"ResetCountH", "ResetCountL">>, <<8, 8>>)
  BY <1>1, <1>2, <1>3, <1>4, <1>5, TwoFields
<1>7. Fields("ResetFlags", <<"ResetFlagsH", "ResetFlagsL">>, <<8, 8>>)
  BY <1>1, <1>2, <1>3, <1>4, <1>5, TwoFields
<1>8. Fields("FirmVers", <<"FirmVersH", "FirmVersL">>, <<8, 8>>)
  BY <1>1, <1>2, <1>3, <1>4, <1>5, TwoFields
<1>. QED BY <1>6, <1>7, <1>8

LEMMA ComposedOf8 ==
  /\ Fields("PulseWidthPosition",
            <<"PulseWidPositionH", "PulseWidPositionM", "PulseWidPositionL">>, <<8, 8, 8>>)
  /\ Fields("PulseWidthVelocity",
            <<"PulseWidVelH", "PulseWidVelL">>, <<8, 8>>)
  /\ Fields("PulseWidthRiseToRiseUs",
            <<"PeriodUsM8", "PeriodUsL8">>, <<8, 8>>)
<1>1. /\ "PulseWidthPosition" \in DOMAIN Composed /\ Layout("PulseWidthPosition") = Status8
      /\ "PulseWidthVelocity" \in DOMAIN Composed /\ Layout("PulseWidthVelocity") = Status8
      /\ "PulseWidthRiseToRiseUs" \in DOMAIN Composed /\ Layout("PulseWidthRiseToRiseUs") = Status8
  <2>1. /\ "PulseWidthPosition" \in DOMAIN Composed
        /\ "PulseWidthVelocity" \in DOMAIN Composed
        /\ "PulseWidthRiseToRiseUs" \in DOMAIN Composed
    BY DEF Composed
  <2>. QED BY <2>1, RowOf, TableNames
<1>2. /\ Composed["PulseWidthPosition"]
            = <<"PulseWidPositionH", "PulseWidPositionM", "PulseWidPositionL">>
      /\ Composed["PulseWidthVelocity"] = <<"PulseWidVelH", "PulseWidVelL">>
      /\ Composed["PulseWidthRiseToRiseUs"] = <<"PeriodUsM8", "PeriodUsL8">>
  BY DEF Composed
<1>3. /\ Getter("PulseWidthPosition").parts
            = << <<0, "PulseWidPositionH">>, <<8, "PulseWidPositionM">>, <<8, "PulseWidPositionL">> >>
      /\ Getter("PulseWidthVelocity").parts
            = << <<0, "PulseWidVelH">>, <<8, "PulseWidVelL">> >>
      /\ Getter("PulseWidthRiseToRiseUs").parts
            = << <<0, "PeriodUsM8">>, <<8, "PeriodUsL8">> >>
  <2>1. /\ Getters8["PulseWidthPosition"].parts
              = << <<0, "PulseWidPositionH">>, <<8, "PulseWidPositionM">>, <<8, "PulseWidPositionL">> >>
        /\ Getters8["PulseWidthVelocity"].parts
              = << <<0, "PulseWidVelH">>, <<8, "PulseWidVelL">> >>
        /\ Getters8["PulseWidthRiseToRiseUs"].parts
              = << <<0, "PeriodUsM8">>, <<8, "PeriodUsL8">> >>
    BY DEF Getters8, Pos, Vel, TwoBytes, Unsigned
  <2>2. /\ Getter("PulseWidthPosition") = Getters8["PulseWidthPosition"]
        /\ Getter("PulseWidthVelocity") = Getters8["PulseWidthVelocity"]
        /\ Getter("PulseWidthRiseToRiseUs") = Getters8["PulseWidthRiseToRiseUs"]
    BY RowOf, TableNames
  <2>. QED BY <2>1, <2>2
<1>4. /\ "PulseWidPositionH" \in DOMAIN Status8 /\ Status8["PulseWidPositionH"] = 8
      /\ "PulseWidPositionM" \in DOMAIN Status8 /\ Status8["PulseWidPositionM"] = 8
      /\ "PulseWidPositionL" \in DOMAIN Status8 /\ Status8["PulseWidPositionL"] = 8
      /\ "PulseWidVelH" \in DOMAIN Status8 /\ Status8["PulseWidVelH"] = 8
      /\ "PulseWidVelL" \in DOMAIN Status8 /\ Status8["PulseWidVelL"] = 8
      /\ "PeriodUsM8" \in DOMAIN Status8 /\ Status8["PeriodUsM8"] = 8
      /\ "PeriodUsL8" \in DOMAIN Status8 /\ Status8["PeriodUsL8"] = 8
  BY DEF Status8
<1>5. /\ "PulseWidPositionH" \notin Divisors
      /\ "PulseWidPositionM" \notin Divisors
      /\ "PulseWidPositionL" \notin Divisors
      /\ "PulseWidVelH" \notin Divisors
      /\ "PulseWidVelL" \notin Divisors
      /\ "PeriodUsM8" \notin Divisors
      /\ "PeriodUsL8" \notin Divisors
  BY DEF Divisors
<1>6. Fields("PulseWidthPosition",
             <<"PulseWidPositionH", "PulseWidPositionM", "PulseWidPositionL">>, <<8, 8, 8>>)
  BY <1>1, <1>2, <1>3, <1>4, <1>5, ThreeFields
<1>7. Fields("PulseWidthVelocity",
             <<"PulseWidVelH", "PulseWidVelL">>, <<8, 8>>)
  BY <1>1, <1>2, <1>3, <1>4, <1>5, TwoFields
<1>8. Fields("PulseWidthRiseToRiseUs",
             <<"PeriodUsM8", "PeriodUsL8">>, <<8, 8>>)
  BY <1>1, <1>2, <1>3, <1>4, <1>5, TwoFields
<1>. QED BY <1>6, <1>7, <1>8

LEMMA ComposedFields ==
  /\ Fields("CloseLoopErr",
            <<"CloseLoopErrH", "CloseLoopErrM", "CloseLoopErrL">>, <<8, 8, 8>>)
  /\ Fields("AppliedThrottle",
            <<"AppliedThrottle_h3", "AppliedThrottle_l8">>, <<3, 8>>)
  /\ Fields("ModeSelect", <<"ModeSelect_h1", "ModeSelect_b3">>, <<1, 3>>)
  /\ Fields("SensorPosition",
            <<"SensorPositionH", "SensorPositionM", "SensorPositionL">>, <<8, 8, 8>>)
  /\ Fields("SensorVelocity",
            <<"SensorVelocityH", "SensorVelocityL">>, <<8, 8>>)
  /\ Fields("Current", <<"Current_h8", "Current_l2">>, <<8, 2>>)
  /\ Fields("EncPosition",
            <<"EncPositionH", "EncPositionM", "EncPositionL">>, <<8, 8, 8>>)
  /\ Fields("EncVel", <<"EncVelH", "EncVelL">>, <<8, 8>>)
  /\ Fields("EncIndexRiseEvents",
            <<"EncIndexRiseEventsH", "EncIndexRiseEventsL">>, <<8, 8>>)
  /\ Fields("AnalogInWithOv",
            <<"AnalogInWithOvH", "AnalogInWithOvM", "AnalogInWithOvL">>, <<8, 8, 8>>)
  /\ Fields("AnalogInVel", <<"AnalogInVelH", "AnalogInVelL">>, <<8, 8>>)
  /\ Fields("ResetCount", <<"ResetCountH", "ResetCountL">>, <<8, 8>>)
  /\ Fields("ResetFlags", <<"ResetFlagsH", "ResetFlagsL">>, <<8, 8>>)
  /\ Fields("FirmVers", <<"FirmVersH", "FirmVersL">>, <<8, 8>>)
  /\ Fields("PulseWidthPosition",
            <<"PulseWidPositionH", "PulseWidPositionM", "PulseWidPositionL">>, <<8, 8, 8>>)
  /\ Fields("PulseWidthVelocity",
            <<"PulseWidVelH", "PulseWidVelL">>, <<8, 8>>)
  /\ Fields("PulseWidthRiseToRiseUs",
            <<"PeriodUsM8", "PeriodUsL8">>, <<8, 8>>)
BY ComposedOf1, ComposedOf2, ComposedOf3, ComposedOf4, ComposedOf5, ComposedOf8

(* The signs and the scales.                                               *)
Unscaled == {"ModeSelect", "Current", "EncIndexRiseEvents", "ResetCount", "ResetFlags",
             "FirmVers", "PulseWidthRiseToRiseUs"}

LEMMA PositionScales ==
  \A q \in Positions : /\ Getter(q).sign = 24 /\ Getter(q).scale = "PosDiv8"
                       /\ Getter(q).by = 8 /\ "PosDiv8" \in DOMAIN Layout(q)
<1>1. \A q \in Positions : \E h, m, l : Getter(q) = Pos(h, m, l)
  BY RowOf, TableNames
     DEF Positions, SensorGetters2, Getters3, Getters4, Getters8
<1>2. \A q \in Positions : Layout(q) \in {Status2, Status3, Status4, Status8}
  BY RowOf, TableNames DEF Positions
<1>3. \A x \in {Status2, Status3, Status4, Status8} : "PosDiv8" \in DOMAIN x
  BY DEF Status2, Status3, Status4, Status8
<1>4. \A h, m, l : /\ Pos(h, m, l).sign = 24 /\ Pos(h, m, l).scale = "PosDiv8"
                   /\ Pos(h, m, l).by = 8
  BY DEF Pos
<1>. QED BY <1>1, <1>2, <1>3, <1>4

LEMMA VelocityScales ==
  \A q \in Velocities : /\ Getter(q).sign = 16 /\ Getter(q).scale = "VelDiv4"
                        /\ Getter(q).by = 4 /\ "VelDiv4" \in DOMAIN Layout(q)
<1>1. \A q \in Velocities : \E h, l : Getter(q) = Vel(h, l)
  BY RowOf, TableNames
     DEF Velocities, SensorGetters2, Getters3, Getters4, Getters8
<1>2. \A q \in Velocities : Layout(q) \in {Status2, Status3, Status4, Status8}
  BY RowOf, TableNames DEF Velocities
<1>3. \A x \in {Status2, Status3, Status4, Status8} : "VelDiv4" \in DOMAIN x
  BY DEF Status2, Status3, Status4, Status8
<1>4. \A h, l : /\ Vel(h, l).sign = 16 /\ Vel(h, l).scale = "VelDiv4"
                /\ Vel(h, l).by = 4
  BY DEF Vel
<1>. QED BY <1>1, <1>2, <1>3, <1>4

LEMMA OtherScales ==
  /\ Getter("CloseLoopErr").sign = 24 /\ Getter("CloseLoopErr").scale = NoScale
  /\ Getter("AppliedThrottle").sign = 11 /\ Getter("AppliedThrottle").scale = NoScale
  /\ \A q \in Unscaled \cup Flags : Getter(q).sign = 0 /\ Getter(q).scale = NoScale
<1>1. Getter("CloseLoopErr").sign = 24 /\ Getter("CloseLoopErr").scale = NoScale
  <2>1. Getters1["CloseLoopErr"].sign = 24 /\ Getters1["CloseLoopErr"].scale = NoScale
    BY DEF Getters1, Pos
  <2>. QED BY <2>1, RowOf, TableNames
<1>2. Getter("AppliedThrottle").sign = 11 /\ Getter("AppliedThrottle").scale = NoScale
  <2>1. Getters1["AppliedThrottle"].sign = 11 /\ Getters1["AppliedThrottle"].scale = NoScale
    BY DEF Getters1
  <2>. QED BY <2>1, RowOf, TableNames
<1>3. ASSUME NEW q \in Unscaled PROVE \E parts : Getter(q) = Unsigned(parts)
  <2>1. \A h, l : TwoBytes(h, l) = Unsigned(<< <<0, h>>, <<8, l>> >>)
    BY DEF TwoBytes
  <2>2. /\ \E parts : Getters1["ModeSelect"] = Unsigned(parts)
        /\ \E parts : SensorGetters2["Current"] = Unsigned(parts)
    BY DEF Getters1, SensorGetters2
  <2>3. \E parts : Getters3["EncIndexRiseEvents"] = Unsigned(parts)
    BY <2>1 DEF Getters3
  <2>4. \A x \in {"ResetCount", "ResetFlags", "FirmVers"} :
          \E parts : Getters5[x] = Unsigned(parts)
    <3>1. /\ Getters5["ResetCount"] = TwoBytes("ResetCountH", "ResetCountL")
          /\ Getters5["ResetFlags"] = TwoBytes("ResetFlagsH", "ResetFlagsL")
          /\ Getters5["FirmVers"] = TwoBytes("FirmVersH", "FirmVersL")
      BY DEF Getters5
    <3>. QED BY <2>1, <3>1
  <2>5. \E parts : Getters8["PulseWidthRiseToRiseUs"] = Unsigned(parts)
    BY <2>1 DEF Getters8
  <2>. QED BY <2>2, <2>3, <2>4, <2>5, RowOf, TableNames DEF Unscaled
<1>4. ASSUME NEW q \in Flags PROVE \E parts : Getter(q) = Unsigned(parts)
  BY FlagRows DEF Flag
<1>5. \A parts : Unsigned(parts).sign = 0 /\ Unsigned(parts).scale = NoScale
  BY DEF Unsigned
<1>. QED BY <1>1, <1>2, <1>3, <1>4, <1>5

LEMMA StatusKinds ==
  /\ AllQuantities \subseteq Positions \cup Velocities \cup {"CloseLoopErr", "AppliedThrottle"}
                               \cup Unscaled \cup Flags
  /\ \A q \in Unscaled \cup Flags : q \notin Signed /\ q \notin Positions \cup Velocities
  /\ "CloseLoopErr" \notin Positions \cup Velocities
  /\ "AppliedThrottle" \notin Positions \cup Velocities
  /\ \A q \in Positions : q \notin Velocities
<1>1. AllQuantities = DOMAIN Getters1 \cup DOMAIN StickyGetters2 \cup DOMAIN SensorGetters2
                        \cup DOMAIN Getters3 \cup DOMAIN Getters4 \cup DOMAIN Getters5
                        \cup DOMAIN Getters8
  BY DEF AllQuantities, Tables
<1>2. \A q \in AllQuantities : q \in Positions \cup Velocities \cup {"CloseLoopErr", "AppliedThrottle"}
                                \cup Unscaled \cup Flags
  BY <1>1, TableNames DEF Positions, Velocities, Unscaled, Flags
<1>3. \A q \in Unscaled \cup Flags : q \notin Signed /\ q \notin Positions \cup Velocities
  BY DEF Positions, Velocities, Signed, Unscaled, Flags, Names1, Sticky2, Names3
<1>4. /\ "CloseLoopErr" \notin Positions \cup Velocities
      /\ "AppliedThrottle" \notin Positions \cup Velocities
      /\ \A q \in Positions : q \notin Velocities
  BY DEF Positions, Velocities
<1>. QED BY <1>2, <1>3, <1>4

(* The bits below a field.                                                 *)
LEMMA OneBelow ==
  ASSUME NEW q, NEW p, NEW w \in Nat, Fields(q, <<p>>, <<w>>)
  PROVE  WidthOf(q, 1) = w /\ Width(q) = w /\ BitsBelow(q, 1) = 0
<1>1. Parts(q) = <<p>> /\ WidthOf(q, 1) = w
  BY DEF Fields, WidthOf
<1>. QED BY <1>1 DEF Width, BitsBelow

LEMMA TwoBelow ==
  ASSUME NEW q, NEW h, NEW l, NEW a \in Nat, NEW b \in Nat, Fields(q, <<h, l>>, <<a, b>>)
  PROVE  /\ WidthOf(q, 1) = a /\ WidthOf(q, 2) = b /\ Width(q) = a + b
         /\ BitsBelow(q, 1) = b /\ BitsBelow(q, 2) = 0
<1>1. Parts(q) = <<h, l>> /\ WidthOf(q, 1) = a /\ WidthOf(q, 2) = b
  BY DEF Fields, WidthOf
<1>. QED BY <1>1 DEF Width, BitsBelow

LEMMA ThreeBelow ==
  ASSUME NEW q, NEW h, NEW m, NEW l, Fields(q, <<h, m, l>>, <<8, 8, 8>>)
  PROVE  /\ WidthOf(q, 1) = 8 /\ WidthOf(q, 2) = 8 /\ WidthOf(q, 3) = 8 /\ Width(q) = 24
         /\ BitsBelow(q, 1) = 16 /\ BitsBelow(q, 2) = 8 /\ BitsBelow(q, 3) = 0
<1>1. Parts(q) = <<h, m, l>> /\ WidthOf(q, 1) = 8 /\ WidthOf(q, 2) = 8 /\ WidthOf(q, 3) = 8
  BY DEF Fields, WidthOf
<1>. QED BY <1>1 DEF Width, BitsBelow

(* A frame carries of a number u the slice of every field.                 *)
Carried(q, u, f) == \A k \in DOMAIN Parts(q) :
                      f[Parts(q)[k]] = (u \div 2^BitsBelow(q, k)) % 2^WidthOf(q, k)

(* The powers that occur.                                                  *)
LEMMA Powers ==
  /\ 2^0 = 1 /\ 2^1 = 2 /\ 2^2 = 4 /\ 2^3 = 8 /\ 2^4 = 16 /\ 2^6 = 64
  /\ 2^8 = 256 /\ 2^10 = 1024 /\ 2^11 = 2048 /\ 2^12 = 4096
  /\ 2^15 = 32768 /\ 2^16 = 65536
BY SMT
LEMMA LargePowers ==
  /\ 2^20 = 1048576 /\ 2^23 = 8388608 /\ 2^24 = 16777216 /\ 2^28 = 268435456
BY SMT

LEMMA OneTaken ==
  ASSUME NEW q, NEW p, NEW w \in {1, 3, 4, 8}, Fields(q, <<p>>, <<w>>), NEW f,
         NEW u \in Nat, u < 2^Width(q), Carried(q, u, f)
  PROVE  Assembled(Getter(q).parts, f) = u
<1>1. WidthOf(q, 1) = w /\ Width(q) = w /\ BitsBelow(q, 1) = 0
  BY OneBelow
<1>2. Parts(q) = <<p>> /\ DOMAIN Getter(q).parts = {1} /\ Getter(q).parts[1][1] = 0
        /\ Getter(q).parts[1][2] = p
  BY DEF Fields
<1>3. f[p] = (u \div 2^0) % 2^w
  <2>1. 1 \in DOMAIN Parts(q) /\ Parts(q)[1] = p
    BY <1>2
  <2>. QED BY <1>1, <2>1 DEF Carried
<1>4. Assembled(Getter(q).parts, f) = (0 * 2^0) + f[p]
  BY <1>2 DEF Assembled, Shifted
<1>5. u < 2^w
  BY <1>1
<1>6. 2^w \in {2, 8, 16, 256}
  <2>1. CASE w = 1
    BY <2>1, Powers
  <2>2. CASE w = 3
    BY <2>2, Powers
  <2>3. CASE w = 4
    BY <2>3, Powers
  <2>4. CASE w = 8
    BY <2>4, Powers
  <2>. QED BY <2>1, <2>2, <2>3, <2>4
<1>7. \A v \in {2, 8, 16, 256} : u < v => (u \div 1) % v = u
  OBVIOUS
<1>8. (u \div 1) % 2^w = u
  BY <1>5, <1>6, <1>7
<1>. QED BY <1>3, <1>4, <1>8, Powers

LEMMA TwoTaken ==
  ASSUME NEW q, NEW h, NEW l, NEW a \in Nat, NEW b \in Nat, Fields(q, <<h, l>>, <<a, b>>),
         <<a, b>> \in {<<8, 8>>, <<3, 8>>, <<1, 3>>, <<8, 2>>}, NEW f,
         NEW u \in Nat, u < 2^Width(q), Carried(q, u, f)
  PROVE  Assembled(Getter(q).parts, f) = u
<1>1. /\ WidthOf(q, 1) = a /\ WidthOf(q, 2) = b /\ Width(q) = a + b
      /\ BitsBelow(q, 1) = b /\ BitsBelow(q, 2) = 0
  BY TwoBelow
<1>2. /\ Parts(q) = <<h, l>> /\ DOMAIN Getter(q).parts = {1, 2}
      /\ Getter(q).parts[1][1] = 0 /\ Getter(q).parts[1][2] = h
      /\ Getter(q).parts[2][1] = b /\ Getter(q).parts[2][2] = l
  BY DEF Fields
<1>3. f[h] = (u \div 2^b) % 2^a /\ f[l] = (u \div 2^0) % 2^b
  <2>1. {1, 2} \subseteq DOMAIN Parts(q) /\ Parts(q)[1] = h /\ Parts(q)[2] = l
    BY <1>2
  <2>. QED BY <1>1, <2>1 DEF Carried
<1>4. Assembled(Getter(q).parts, f) = (((0 * 2^0) + f[h]) * 2^b) + f[l]
  BY <1>2 DEF Assembled, Shifted
<1>5. u < 2^(a + b)
  BY <1>1, Zenon
<1>6. /\ (((u \div 2^b) % 2^a) * 2^b) + ((u \div 2^0) % 2^b) = u
      /\ (u \div 2^b) % 2^a \in Int
  <2>1. CASE a = 8 /\ b = 8
    <3>1. a + b = 16
      BY <2>1
    <3>2. u < 65536 => (((u \div 256) % 256) * 256) + ((u \div 1) % 256) = u
      OBVIOUS
    <3>. QED BY <1>5, <2>1, <3>1, <3>2, Powers, SMT
  <2>2. CASE a = 3 /\ b = 8
    <3>1. a + b = 11
      BY <2>2
    <3>2. u < 2048 => (((u \div 256) % 8) * 256) + ((u \div 1) % 256) = u
      OBVIOUS
    <3>. QED BY <1>5, <2>2, <3>1, <3>2, Powers, SMT
  <2>3. CASE a = 1 /\ b = 3
    <3>1. a + b = 4
      BY <2>3
    <3>2. u < 16 => (((u \div 8) % 2) * 8) + ((u \div 1) % 8) = u
      OBVIOUS
    <3>. QED BY <1>5, <2>3, <3>1, <3>2, Powers, SMT
  <2>4. CASE a = 8 /\ b = 2
    <3>1. a + b = 10
      BY <2>4
    <3>2. u < 1024 => (((u \div 4) % 256) * 4) + ((u \div 1) % 4) = u
      OBVIOUS
    <3>. QED BY <1>5, <2>4, <3>1, <3>2, Powers, SMT
  <2>5. (a = 8 /\ b = 8) \/ (a = 3 /\ b = 8) \/ (a = 1 /\ b = 3) \/ (a = 8 /\ b = 2)
    OBVIOUS
  <2>. QED BY <2>1, <2>2, <2>3, <2>4, <2>5
<1>. QED BY <1>3, <1>4, <1>6, Powers

LEMMA ThreeTaken ==
  ASSUME NEW q, NEW h, NEW m, NEW l, Fields(q, <<h, m, l>>, <<8, 8, 8>>), NEW f,
         NEW u \in Nat, u < 2^Width(q), Carried(q, u, f)
  PROVE  Assembled(Getter(q).parts, f) = u
<1>1. /\ WidthOf(q, 1) = 8 /\ WidthOf(q, 2) = 8 /\ WidthOf(q, 3) = 8 /\ Width(q) = 24
      /\ BitsBelow(q, 1) = 16 /\ BitsBelow(q, 2) = 8 /\ BitsBelow(q, 3) = 0
  BY ThreeBelow
<1>2. /\ Parts(q) = <<h, m, l>> /\ DOMAIN Getter(q).parts = {1, 2, 3}
      /\ Getter(q).parts[1][1] = 0 /\ Getter(q).parts[1][2] = h
      /\ Getter(q).parts[2][1] = 8 /\ Getter(q).parts[2][2] = m
      /\ Getter(q).parts[3][1] = 8 /\ Getter(q).parts[3][2] = l
  BY DEF Fields
<1>3. /\ f[h] = (u \div 2^16) % 2^8 /\ f[m] = (u \div 2^8) % 2^8
      /\ f[l] = (u \div 2^0) % 2^8
  <2>1. /\ {1, 2, 3} \subseteq DOMAIN Parts(q)
        /\ Parts(q)[1] = h /\ Parts(q)[2] = m /\ Parts(q)[3] = l
    BY <1>2
  <2>. QED BY <1>1, <2>1 DEF Carried
<1>4. Assembled(Getter(q).parts, f) = (((((0 * 2^0) + f[h]) * 2^8) + f[m]) * 2^8) + f[l]
  BY <1>2 DEF Assembled, Shifted
<1>5. u < 2^24
  BY <1>1, Zenon
<1>6. u < 16777216
  BY <1>5, LargePowers, SMT
<1>7. (((((u \div 65536) % 256) * 256) + ((u \div 256) % 256)) * 256) + ((u \div 1) % 256) = u
  BY <1>6, SMT
<1>. QED BY <1>3, <1>4, <1>7, Powers, SMT

(* What a getter assembles from a frame that carries a quantity.           *)
LEMMA Assembles ==
  ASSUME NEW q \in AllQuantities, NEW f, NEW u \in Nat, u < 2^Width(q), Carried(q, u, f)
  PROVE  Assembled(Getter(q).parts, f) = u
<1>1. CASE q \in Flags
  <2>1. Fields(q, <<q>>, <<Layout(q)[q]>>) /\ Layout(q)[q] \in {1, 3, 4, 8}
    BY <1>1, FlagFields
  <2>. QED BY <2>1, OneTaken
<1>2. CASE q \in Positions
  <2>1. PICK h, m, l : Fields(q, <<h, m, l>>, <<8, 8, 8>>)
    BY <1>2, ComposedFields DEF Positions
  <2>. QED BY <2>1, ThreeTaken
<1>3. CASE q = "CloseLoopErr"
  BY <1>3, ComposedFields, ThreeTaken
<1>4. CASE q = "AppliedThrottle"
  BY <1>4, ComposedFields, TwoTaken
<1>5. CASE q \in Velocities
  <2>1. PICK h, l : Fields(q, <<h, l>>, <<8, 8>>)
    BY <1>5, ComposedFields DEF Velocities
  <2>. QED BY <2>1, TwoTaken
<1>6. CASE q = "ModeSelect"
  BY <1>6, ComposedFields, TwoTaken
<1>7. CASE q = "Current"
  BY <1>7, ComposedFields, TwoTaken
<1>8. CASE q \in Unscaled \ {"ModeSelect", "Current"}
  <2>1. PICK h, l : Fields(q, <<h, l>>, <<8, 8>>)
    BY <1>8, ComposedFields DEF Unscaled
  <2>. QED BY <2>1, TwoTaken
<1>. QED BY <1>1, <1>2, <1>3, <1>4, <1>5, <1>6, <1>7, <1>8, StatusKinds

(* The widths of the quantities that are signed, and of all.               *)
LEMMA WidthsOf ==
  /\ \A q \in Positions : Width(q) = 24
  /\ \A q \in Velocities : Width(q) = 16
  /\ Width("CloseLoopErr") = 24 /\ Width("AppliedThrottle") = 11
  /\ \A q \in AllQuantities : Width(q) \in 1..24
<1>1. ASSUME NEW q \in Positions PROVE Width(q) = 24
  <2>1. PICK h, m, l : Fields(q, <<h, m, l>>, <<8, 8, 8>>)
    BY ComposedFields DEF Positions
  <2>. QED BY <2>1, ThreeBelow
<1>2. ASSUME NEW q \in Velocities PROVE Width(q) = 16
  <2>1. PICK h, l : Fields(q, <<h, l>>, <<8, 8>>)
    BY ComposedFields DEF Velocities
  <2>. QED BY <2>1, TwoBelow
<1>3. Width("CloseLoopErr") = 24
  BY ComposedFields, ThreeBelow
<1>4. Width("AppliedThrottle") = 11 /\ Width("ModeSelect") = 4 /\ Width("Current") = 10
  <2>1. Width("AppliedThrottle") = 3 + 8
    BY ComposedFields, TwoBelow
  <2>2. Width("ModeSelect") = 1 + 3
    BY ComposedFields, TwoBelow
  <2>3. Width("Current") = 8 + 2
    BY ComposedFields, TwoBelow
  <2>. QED BY <2>1, <2>2, <2>3
<1>5. ASSUME NEW q \in Unscaled \ {"ModeSelect", "Current"} PROVE Width(q) = 16
  <2>1. PICK h, l : Fields(q, <<h, l>>, <<8, 8>>)
    BY ComposedFields DEF Unscaled
  <2>. QED BY <2>1, TwoBelow
<1>6. ASSUME NEW q \in Flags PROVE Width(q) \in {1, 3, 4, 8}
  <2>1. PICK w \in {1, 3, 4, 8} : Fields(q, <<q>>, <<w>>)
    BY FlagFields
  <2>2. w \in Nat
    OBVIOUS
  <2>. QED BY <2>1, <2>2, OneBelow
<1>. QED BY <1>1, <1>2, <1>3, <1>4, <1>5, <1>6, StatusKinds

(* The parts of every quantity are different fields of its frame, and none *)
(* of them says whether the frame is divided.                              *)
LEMMA PartsOf ==
  ASSUME NEW q \in AllQuantities
  PROVE  /\ \A j, k \in DOMAIN Parts(q) : Parts(q)[j] = Parts(q)[k] => j = k
         /\ \A k \in DOMAIN Parts(q) : Parts(q)[k] \in DOMAIN Layout(q) /\ Parts(q)[k] \notin Divisors
<1>1. \E ps, ws : Fields(q, ps, ws)
  <2>1. q \in Flags => \E ps, ws : Fields(q, ps, ws)
    BY FlagFields
  <2>2. q \notin Flags => \E ps, ws : Fields(q, ps, ws)
    BY ComposedFields, StatusKinds DEF Positions, Velocities, Unscaled
  <2>. QED BY <2>1, <2>2
<1>. QED BY <1>1 DEF Fields

(* A sample of quantities of one frame that share no field.                *)
Sample(s, qs) ==
  /\ DOMAIN s.bits = qs /\ qs \subseteq AllQuantities
  /\ \A q \in qs : s.bits[q] \in Nat /\ s.bits[q] < 2^Width(q)
  /\ s.divided \in {0, 1}
Apart(qs) ==
  /\ \A q, y \in qs : Layout(y) = Layout(q)
  /\ \A q, y \in qs : \A j \in DOMAIN Parts(y), k \in DOMAIN Parts(q) :
       Parts(y)[j] = Parts(q)[k] => y = q

LEMMA FrameCarries ==
  ASSUME NEW qs, Apart(qs), NEW s, Sample(s, qs), NEW noise, NEW q \in qs
  PROVE  Carried(q, s.bits[q], Frame(s, noise))
<1>. SUFFICES ASSUME NEW k \in DOMAIN Parts(q)
              PROVE  Frame(s, noise)[Parts(q)[k]]
                       = (s.bits[q] \div 2^BitsBelow(q, k)) % 2^WidthOf(q, k)
  BY DEF Carried
<1>. DEFINE x == Parts(q)[k]
<1>1. DOMAIN s.bits = qs /\ q \in AllQuantities
  BY DEF Sample
<1>2. Layout(CHOOSE y \in qs : TRUE) = Layout(q)
  BY DEF Apart
<1>3. x \in DOMAIN Layout(q)
  BY <1>1, PartsOf
<1>4. Carries(q, x)
  BY DEF Carries
<1>5. Frame(s, noise)[x] = Slice(s, x)
  BY <1>1, <1>2, <1>3, <1>4 DEF Frame
<1>6. (CHOOSE y \in qs : Carries(y, x)) = q
  <2>1. \A y \in qs : Carries(y, x) => y = q
    BY DEF Carries, Apart
  <2>. QED BY <1>4, <2>1
<1>7. (CHOOSE j \in DOMAIN Parts(q) : Parts(q)[j] = x) = k
  BY <1>1, PartsOf
<1>. QED BY <1>1, <1>5, <1>6, <1>7 DEF Slice

LEMMA FrameDivided ==
  ASSUME NEW qs, Apart(qs), NEW s, Sample(s, qs), NEW noise, NEW q \in qs
  PROVE  /\ q \in Positions => Frame(s, noise)["PosDiv8"] = s.divided
         /\ q \in Velocities => Frame(s, noise)["VelDiv4"] = s.divided
<1>1. DOMAIN s.bits = qs /\ qs \subseteq AllQuantities
  BY DEF Sample
<1>2. Layout(CHOOSE y \in qs : TRUE) = Layout(q)
  BY DEF Apart
<1>3. \A y \in qs : \A x \in Divisors : ~Carries(y, x)
  BY <1>1, PartsOf DEF Carries
<1>4. ASSUME q \in Positions PROVE Frame(s, noise)["PosDiv8"] = s.divided
  <2>1. "PosDiv8" \in DOMAIN Layout(q)
    BY <1>4, PositionScales
  <2>2. ~ \E y \in qs : Carries(y, "PosDiv8")
    BY <1>3 DEF Divisors
  <2>3. qs \cap Positions # {}
    BY <1>4
  <2>. QED BY <1>1, <1>2, <2>1, <2>2, <2>3 DEF Frame
<1>5. ASSUME q \in Velocities PROVE Frame(s, noise)["VelDiv4"] = s.divided
  <2>1. "VelDiv4" \in DOMAIN Layout(q)
    BY <1>5, VelocityScales
  <2>2. ~ \E y \in qs : Carries(y, "VelDiv4")
    BY <1>3 DEF Divisors
  <2>3. qs \cap Velocities # {}
    BY <1>5
  <2>. QED BY <1>1, <1>2, <2>1, <2>2, <2>3 DEF Frame
<1>. QED BY <1>4, <1>5

(* The getter's sign extension is the sign the Talon gave.                 *)
SignedAs(w, u) == IF u >= 2^(w - 1) THEN u - 2^w ELSE u

LEMMA Extends ==
  ASSUME NEW w \in {11, 16, 24}, NEW u \in Nat, u < 2^w
  PROVE  Extend(u, w) = SignedAs(w, u) /\ SignedAs(w, u) \in Int
<1>1. CASE w = 11
  <2>1. w - 1 = 10 /\ w # 0
    BY <1>1
  <2>2. u < 2048 => u % 2048 = u
    OBVIOUS
  <2>. QED BY <1>1, <2>1, <2>2, Powers DEF Extend, SignedAs
<1>2. CASE w = 16
  <2>1. w - 1 = 15 /\ w # 0
    BY <1>2
  <2>2. u < 65536 => u % 65536 = u
    OBVIOUS
  <2>. QED BY <1>2, <2>1, <2>2, Powers DEF Extend, SignedAs
<1>3. CASE w = 24
  <2>1. w - 1 = 23 /\ w # 0
    BY <1>3
  <2>2. u < 16777216 => u % 16777216 = u
    BY SMT
  <2>. QED BY <1>3, <2>1, <2>2, LargePowers, SMT DEF Extend, SignedAs
<1>. QED BY <1>1, <1>2, <1>3

(* What a getter makes of a frame is what the Talon meant by it.           *)
LEMMA GetsMeant ==
  ASSUME NEW qs, Apart(qs), NEW s, Sample(s, qs), NEW noise, NEW q \in qs
  PROVE  GetSignal(q, Frame(s, noise)) = Meant(q, s)
<1>. DEFINE u == s.bits[q]
            f == Frame(s, noise)
<1>1. u \in Nat /\ u < 2^Width(q) /\ q \in AllQuantities /\ s.divided \in {0, 1}
  BY DEF Sample
<1>2. Assembled(Getter(q).parts, f) = u
  BY <1>1, FrameCarries, Assembles
<1>. HIDE DEF u, f
<1>3. CASE q \in Positions
  <2>1. /\ Getter(q).sign = 24 /\ Getter(q).scale = "PosDiv8" /\ Getter(q).by = 8
        /\ Width(q) = 24 /\ q \in Signed /\ Scale(q) = 8
    BY <1>3, PositionScales, WidthsOf DEF Signed, Scale
  <2>2. f["PosDiv8"] = s.divided
    BY <1>3, FrameDivided DEF f
  <2>3. Extend(u, 24) = SignedAs(24, u) /\ SignedAs(24, u) \in Int
    BY <1>1, <2>1, Extends
  <2>4. GetSignal(q, f) = IF s.divided = 1 THEN 8 * SignedAs(24, u) ELSE SignedAs(24, u)
    BY <1>2, <2>1, <2>2, <2>3 DEF GetSignal, NoScale
  <2>5. Meant(q, s) = IF s.divided = 1 THEN 8 * SignedAs(24, u) ELSE SignedAs(24, u)
    BY <2>1 DEF Meant, SignedAs, u
  <2>. QED BY <2>4, <2>5 DEF f
<1>4. CASE q \in Velocities
  <2>1. /\ Getter(q).sign = 16 /\ Getter(q).scale = "VelDiv4" /\ Getter(q).by = 4
        /\ Width(q) = 16 /\ q \in Signed /\ Scale(q) = 4
    BY <1>4, VelocityScales, WidthsOf, StatusKinds DEF Signed, Scale
  <2>2. f["VelDiv4"] = s.divided
    BY <1>4, FrameDivided DEF f
  <2>3. Extend(u, 16) = SignedAs(16, u) /\ SignedAs(16, u) \in Int
    BY <1>1, <2>1, Extends
  <2>4. GetSignal(q, f) = IF s.divided = 1 THEN 4 * SignedAs(16, u) ELSE SignedAs(16, u)
    BY <1>2, <2>1, <2>2, <2>3 DEF GetSignal, NoScale
  <2>5. Meant(q, s) = IF s.divided = 1 THEN 4 * SignedAs(16, u) ELSE SignedAs(16, u)
    BY <2>1 DEF Meant, SignedAs, u
  <2>. QED BY <2>4, <2>5 DEF f
<1>5. CASE q \in {"CloseLoopErr", "AppliedThrottle"}
  <2>. DEFINE w == Width(q)
  <2>1. /\ Getter(q).sign = w /\ Getter(q).scale = NoScale /\ w \in {11, 24}
        /\ q \in Signed /\ Scale(q) = 1
    BY <1>5, OtherScales, WidthsOf, StatusKinds DEF Signed, Scale
  <2>2. Extend(u, w) = SignedAs(w, u) /\ SignedAs(w, u) \in Int
    BY <1>1, <2>1, Extends
  <2>3. GetSignal(q, f) = SignedAs(w, u)
    BY <1>2, <2>1, <2>2 DEF GetSignal
  <2>4. Meant(q, s) = IF s.divided = 1 THEN 1 * SignedAs(w, u) ELSE SignedAs(w, u)
    BY <2>1 DEF Meant, SignedAs, u
  <2>. QED BY <2>2, <2>3, <2>4 DEF f
<1>6. CASE q \in Unscaled \cup Flags
  <2>1. /\ Getter(q).sign = 0 /\ Getter(q).scale = NoScale
        /\ q \notin Signed /\ Scale(q) = 1
    BY <1>6, OtherScales, StatusKinds DEF Scale
  <2>2. GetSignal(q, f) = u
    BY <1>2, <2>1 DEF GetSignal, Extend
  <2>3. Meant(q, s) = IF s.divided = 1 THEN 1 * u ELSE u
    BY <2>1 DEF Meant, u
  <2>. QED BY <1>1, <2>2, <2>3 DEF f
<1>. QED BY <1>1, <1>3, <1>4, <1>5, <1>6, StatusKinds

(* What a getter reads lies in one frame, in fields of its own.            *)
LEMMA ReadsOf ==
  /\ Reads("PulseWidthRiseToFallUs") = <<"PulseWidthPosition", "PulseWidthRiseToRiseUs">>
  /\ Reads("IsPulseWidthSensorPresent") = <<"PulseWidthRiseToRiseUs">>
  /\ \A g \in AllQuantities : Reads(g) = <<g>>
<1>1. "PulseWidthRiseToFallUs" \notin AllQuantities /\ "IsPulseWidthSensorPresent" \notin AllQuantities
  BY StatusKinds DEF Positions, Velocities, Unscaled, Flags, Names1, Sticky2, Names3
<1>2. Reads("PulseWidthRiseToFallUs") = <<"PulseWidthPosition", "PulseWidthRiseToRiseUs">>
  BY DEF Reads
<1>3. Reads("IsPulseWidthSensorPresent") = <<"PulseWidthRiseToRiseUs">>
  BY DEF Reads
<1>4. ASSUME NEW g \in AllQuantities PROVE Reads(g) = <<g>>
  BY <1>1 DEF Reads
<1>. QED BY <1>2, <1>3, <1>4

QuantitiesOf(g) == {Reads(g)[k] : k \in DOMAIN Reads(g)}

ReadsTogether(g) == /\ Apart(QuantitiesOf(g)) /\ QuantitiesOf(g) \subseteq AllQuantities
                    /\ Reads(g) \in Seq(AllQuantities) /\ Len(Reads(g)) > 0

LEMMA ReadsApart == \A g \in EveryGetter : ReadsTogether(g)
<1>1. ASSUME NEW q \in AllQuantities PROVE Apart({q})
  BY DEF Apart
<1>2. {"PulseWidthPosition", "PulseWidthRiseToRiseUs"} \subseteq AllQuantities
  <2>1. DOMAIN Getters8 \subseteq AllQuantities
    BY DEF AllQuantities, Tables
  <2>. QED BY <2>1, TableNames
<1>3. Apart({"PulseWidthPosition", "PulseWidthRiseToRiseUs"})
  <2>1. /\ Parts("PulseWidthPosition") = <<"PulseWidPositionH", "PulseWidPositionM", "PulseWidPositionL">>
        /\ Parts("PulseWidthRiseToRiseUs") = <<"PeriodUsM8", "PeriodUsL8">>
    BY ComposedFields DEF Fields
  <2>2. Layout("PulseWidthPosition") = Layout("PulseWidthRiseToRiseUs")
    BY RowOf, TableNames
  <2>3. \A j \in DOMAIN Parts("PulseWidthPosition"), k \in DOMAIN Parts("PulseWidthRiseToRiseUs") :
          Parts("PulseWidthPosition")[j] # Parts("PulseWidthRiseToRiseUs")[k]
    BY <2>1
  <2>. QED BY <2>2, <2>3 DEF Apart
<1>4. ASSUME NEW g \in AllQuantities PROVE ReadsTogether(g)
  <2>1. Reads(g) = <<g>>
    BY ReadsOf
  <2>2. QuantitiesOf(g) = {g}
    BY <2>1 DEF QuantitiesOf
  <2>. QED BY <1>1, <2>1, <2>2 DEF ReadsTogether
<1>5. ASSUME NEW g, g = "PulseWidthRiseToFallUs" PROVE ReadsTogether(g)
  <2>1. Reads(g) = <<"PulseWidthPosition", "PulseWidthRiseToRiseUs">>
    BY <1>5, ReadsOf
  <2>2. QuantitiesOf(g) = {"PulseWidthPosition", "PulseWidthRiseToRiseUs"}
    BY <2>1 DEF QuantitiesOf
  <2>. QED BY <1>2, <1>3, <2>1, <2>2 DEF ReadsTogether
<1>6. ASSUME NEW g, g = "IsPulseWidthSensorPresent" PROVE ReadsTogether(g)
  <2>1. Reads(g) = <<"PulseWidthRiseToRiseUs">>
    BY <1>6, ReadsOf
  <2>2. QuantitiesOf(g) = {"PulseWidthRiseToRiseUs"}
    BY <2>1 DEF QuantitiesOf
  <2>. QED BY <1>1, <1>2, <2>1, <2>2 DEF ReadsTogether
<1>. QED BY <1>4, <1>5, <1>6 DEF EveryGetter

(* The frame stored last is that of a sample the Talon sent, and what the  *)
(* getter under way has read so far was meant by samples it sent.          *)
StatusInv ==
  /\ getter \in EveryGetter
  /\ \A s \in shown : Sample(s, QuantitiesOf(getter))
  /\ shown # {} => \E s \in shown, noise \in {0, 1} : statusFrame = Frame(s, noise)
  /\ vals \in Seq(Int) /\ Len(vals) < Len(Reads(getter))
  /\ \A k \in DOMAIN vals : \E s \in shown : vals[k] = Meant(Reads(getter)[k], s)
  /\ SignalWasSent

LEMMA SamplesAre ==
  ASSUME NEW g \in EveryGetter, NEW s \in SamplesOf(QuantitiesOf(g))
  PROVE  Sample(s, QuantitiesOf(g))
<1>. DEFINE qs == QuantitiesOf(g)
<1>1. PICK b, d : /\ s = [bits |-> b, divided |-> d] /\ d \in {0, 1}
                  /\ DOMAIN b = qs /\ \A q \in qs : b[q] \in Samples[Width(q)]
  BY DEF SamplesOf
<1>2. qs \subseteq AllQuantities
  BY ReadsApart DEF ReadsTogether
<1>3. ASSUME NEW q \in qs PROVE b[q] \in Nat /\ b[q] < 2^Width(q)
  <2>1. Width(q) \in 1..24
    BY <1>2, WidthsOf
  <2>2. b[q] \in Samples[Width(q)]
    BY <1>1
  <2>. QED BY <2>1, <2>2, SampleAssumption
<1>. QED BY <1>1, <1>2, <1>3 DEF Sample

LEMMA MeantInt ==
  ASSUME NEW qs, NEW s, Sample(s, qs), NEW q \in qs
  PROVE  Meant(q, s) \in Int
<1>1. s.bits[q] \in Nat /\ q \in AllQuantities
  BY DEF Sample
<1>2. Width(q) \in 1..24
  BY <1>1, WidthsOf
<1>3. 2^Width(q) \in Int
  BY <1>2
<1>4. Scale(q) \in Int
  BY DEF Scale
<1>. QED BY <1>1, <1>3, <1>4 DEF Meant

LEMMA StatusInitHolds == StatusInit => StatusInv
<1>. SUFFICES ASSUME StatusInit PROVE StatusInv
  OBVIOUS
<1>1. getter \in EveryGetter
  BY GetterAssumption DEF StatusInit
<1>2. Len(Reads(getter)) > 0
  BY <1>1, ReadsApart DEF ReadsTogether
<1>. QED BY <1>1, <1>2 DEF StatusInit, StatusInv, SignalWasSent

LEMMA ShownGrows ==
  ASSUME StatusInv, UNCHANGED <<getter, result>>, shown \subseteq shown'
  PROVE  SignalWasSent'
<1>. SUFFICES ASSUME NEW v \in result'
              PROVE  \E s \in [DOMAIN Reads(getter') -> shown'] : v = Expected(s)'
  BY DEF SignalWasSent
<1>1. PICK s \in [DOMAIN Reads(getter) -> shown] : v = Expected(s)
  BY DEF StatusInv, SignalWasSent
<1>2. s \in [DOMAIN Reads(getter') -> shown']
  OBVIOUS
<1>3. Expected(s)' = Expected(s)
  BY DEF Expected
<1>. QED BY <1>1, <1>2, <1>3

LEMMA StoreKeeps ==
  ASSUME StatusInv, Store
  PROVE  StatusInv'
<1>1. PICK s \in SamplesOf(QuantitiesOf(getter)), noise \in {0, 1} :
        statusFrame' = Frame(s, noise) /\ shown' = shown \cup {s}
  BY DEF Store, QuantitiesRead, QuantitiesOf
<1>2. UNCHANGED <<getter, vals, result>>
  BY DEF Store
<1>3. Sample(s, QuantitiesOf(getter))
  BY SamplesAre DEF StatusInv
<1>4. SignalWasSent'
  BY <1>1, <1>2, ShownGrows
<1>. QED BY <1>1, <1>2, <1>3, <1>4 DEF StatusInv

LEMMA ReadKeeps ==
  ASSUME StatusInv, ReadStatus
  PROVE  StatusInv'
<1>. DEFINE rs   == Reads(getter)
            n    == Len(vals) + 1
            x    == GetSignal(rs[n], statusFrame)
            all  == Append(vals, x)
<1>1. /\ shown # {} /\ UNCHANGED <<getter, statusFrame, shown>>
      /\ IF Len(all) = Len(rs) THEN vals' = <<>> /\ result' = {Combined(getter, all)}
                               ELSE vals' = all /\ UNCHANGED result
  BY DEF ReadStatus
<1>2. /\ rs \in Seq(AllQuantities) /\ Len(rs) > 0 /\ Apart(QuantitiesOf(getter))
      /\ vals \in Seq(Int) /\ Len(vals) < Len(rs)
  BY ReadsApart DEF ReadsTogether, StatusInv
<1>3. n \in DOMAIN rs /\ rs[n] \in QuantitiesOf(getter)
  BY <1>2 DEF QuantitiesOf
<1>4. PICK s \in shown, noise \in {0, 1} : statusFrame = Frame(s, noise)
  BY <1>1 DEF StatusInv
<1>5. Sample(s, QuantitiesOf(getter))
  BY DEF StatusInv
<1>6. x = Meant(rs[n], s) /\ x \in Int
  BY <1>2, <1>3, <1>4, <1>5, GetsMeant, MeantInt
<1>. HIDE DEF x, rs
<1>7. /\ all \in Seq(Int) /\ Len(all) = n /\ DOMAIN all = 1..n
      /\ \A k \in DOMAIN vals : all[k] = vals[k]
      /\ all[n] = x
  BY <1>2, <1>6
<1>. HIDE DEF all
<1>8. \A k \in 1..n : \E t \in shown : all[k] = Meant(rs[k], t)
  <2>. SUFFICES ASSUME NEW k \in 1..n PROVE \E t \in shown : all[k] = Meant(rs[k], t)
    OBVIOUS
  <2>1. CASE k = n
    BY <1>6, <1>7, <2>1
  <2>2. CASE k # n
    <3>1. k \in DOMAIN vals
      BY <1>2, <2>2
    <3>. QED BY <1>7, <3>1 DEF StatusInv, rs
  <2>. QED BY <2>1, <2>2
<1>9. CASE Len(all) = Len(rs)
  <2>1. vals' = <<>> /\ result' = {Combined(getter, all)}
    BY <1>1, <1>9 DEF rs
  <2>2. DOMAIN rs = 1..n
    BY <1>2, <1>7, <1>9
  <2>3. PICK w \in [DOMAIN rs -> shown] : \A k \in DOMAIN rs : all[k] = Meant(rs[k], w[k])
    <3>. DEFINE c == [k \in DOMAIN rs |-> CHOOSE t \in shown : all[k] = Meant(rs[k], t)]
    <3>1. c \in [DOMAIN rs -> shown] /\ \A k \in DOMAIN rs : all[k] = Meant(rs[k], c[k])
      BY <1>8, <2>2
    <3>. QED BY <3>1
  <2>4. all = [k \in DOMAIN rs |-> Meant(rs[k], w[k])]
    <3>1. all = [k \in 1..n |-> all[k]]
      BY <1>7
    <3>. QED BY <2>2, <2>3, <3>1
  <2>5. Combined(getter, all) = Expected(w)
    BY <2>4 DEF Expected, rs
  <2>6. SignalWasSent'
    <3>1. Expected(w)' = Expected(w)
      BY <1>1 DEF Expected
    <3>2. w \in [DOMAIN Reads(getter') -> shown']
      BY <1>1, <2>3 DEF rs
    <3>. QED BY <2>1, <2>5, <3>1, <3>2 DEF SignalWasSent
  <2>. QED BY <1>1, <1>2, <2>1, <2>6 DEF StatusInv, rs
<1>10. CASE Len(all) # Len(rs)
  <2>1. vals' = all /\ result' = result
    BY <1>1, <1>10 DEF rs
  <2>2. SignalWasSent'
    BY <1>1, <2>1, ShownGrows
  <2>3. Len(vals') < Len(rs)
    BY <1>2, <1>7, <1>10, <2>1
  <2>4. \A k \in DOMAIN vals' : \E t \in shown' : vals'[k] = Meant(rs[k], t)
    BY <1>1, <1>7, <1>8, <2>1
  <2>. QED BY <1>1, <1>7, <2>1, <2>2, <2>3, <2>4 DEF StatusInv, rs
<1>. QED BY <1>9, <1>10

(* What a getter returns is what the Talon measured: for every getter, any *)
(* samples that fit the widths of their fields, frames that come between   *)
(* the two reads of a getter, and whatever else a frame carries.           *)
THEOREM SignalWasSentCorrect == StatusSpec => []SignalWasSent
<1>1. StatusInv => SignalWasSent
  BY DEF StatusInv
<1>2. StatusInv /\ [StatusNext]_statusVars => StatusInv'
  <2>. SUFFICES ASSUME StatusInv, [StatusNext]_statusVars PROVE StatusInv'
    OBVIOUS
  <2>1. CASE Store
    BY <2>1, StoreKeeps
  <2>2. CASE ReadStatus
    BY <2>2, ReadKeeps
  <2>3. CASE UNCHANGED statusVars
    <3>1. SignalWasSent'
      BY <2>3, ShownGrows DEF statusVars
    <3>. QED BY <2>3, <3>1 DEF statusVars, StatusInv
  <2>. QED BY <2>1, <2>2, <2>3 DEF StatusNext
<1>. QED BY <1>1, <1>2, StatusInitHolds, PTL DEF StatusSpec

-----------------------------------------------------------------------------
(* Parameters.                                                             *)

USE ParamAssumption

Byte    == 0..(Base - 1)
Message == [kind : {"set"}, param : Params, bytes : [1..4 -> Byte]]
             \cup [kind : {"request"}, param : Params] \cup [kind : {"clear"}, zero : {0}]

(* The parameter of a quantity, as the Talon numbers it.                   *)
NumberOf(x) == IF x[1] \in DOMAIN RateOf THEN TalonRate[x[1]] ELSE TalonParam(x[1], x[2])

Gains == {"Pgain", "Igain", "Dgain", "Fgain"}
Slot   == (DOMAIN Slotted) \X {0, 1}
Alones == (DOMAIN Single) \X {0}
Rates  == (DOMAIN RateOf) \X {0}

LEMMA Scales ==
  /\ Base = 8 => Word = 4096 /\ Unit = 4 /\ Volt = 8 /\ One = 8
  /\ Base = 256 => Word = 4294967296 /\ Unit = 4194304 /\ Volt = 256 /\ One = 8388608
  /\ {Base, Word, Unit, Volt, One} \subseteq Nat \ {0}
BY BaseAssumption, SMT DEF Word, Unit, Volt, One

LEMMA SignedAgain ==
  ASSUME NEW w \in Int, 0 <= w, w < Word
  PROVE  ToSigned(w) % Word = w /\ ToSigned(w) \in Int /\ ToSigned(w) < Word
<1>1. CASE Base = 8
  <2>1. Word = 4096
    BY <1>1, Scales
  <2>. QED BY <2>1, SMT DEF ToSigned
<1>2. CASE Base = 256
  <2>1. Word = 4294967296
    BY <1>2, Scales, SMT
  <2>. QED BY <2>1, SMT DEF ToSigned
<1>. QED BY <1>1, <1>2, BaseAssumption

(* The words of four bytes.                                                *)
LEMMA BytesRange == \A raw \in Int : Bytes(raw) \in [1..4 -> Byte]
<1>1. \A n \in Int : n % Base \in Byte
  BY BaseAssumption DEF Byte
<1>2. \A raw \in Int : raw % Word \in Int
  BY Scales
<1>3. \A w \in Int : {w, w \div Base, w \div (Base * Base), w \div (Base * Base * Base)} \subseteq Int
  BY BaseAssumption
<1>. QED BY <1>1, <1>2, <1>3 DEF Bytes

LEMMA JoinedBytes == \A raw \in Int : Joined(Bytes(raw)) % Word = raw % Word
<1>. SUFFICES ASSUME NEW raw \in Int PROVE Joined(Bytes(raw)) % Word = raw % Word
  OBVIOUS
<1>. DEFINE w == raw % Word
            b == Bytes(raw)
<1>1. w \in Int /\ 0 <= w /\ w < Word
  BY Scales, SMT
<1>2. /\ b[1] = w % Base /\ b[2] = (w \div Base) % Base
      /\ b[3] = (w \div (Base * Base)) % Base /\ b[4] = (w \div (Base * Base * Base)) % Base
  BY SMT DEF Bytes
<1>. HIDE DEF w, b
<1>3. ((b[4] * Base + b[3]) * Base + b[2]) * Base + b[1] = w
  <2>1. CASE Base = 8
    <3>1. w < 4096
      BY <1>1, <2>1, Scales, SMT
    <3>2. b[1] = w % 8 /\ b[2] = (w \div 8) % 8 /\ b[3] = (w \div 64) % 8 /\ b[4] = (w \div 512) % 8
      BY <1>1, <1>2, <2>1, <3>1, SMT
    <3>. QED BY <1>1, <2>1, <3>1, <3>2, SMT
  <2>2. CASE Base = 256
    <3>1. w < 4294967296
      BY <1>1, <2>2, Scales, SMT
    <3>2. /\ b[1] = w % 256 /\ b[2] = (w \div 256) % 256
          /\ b[3] = (w \div 65536) % 256 /\ b[4] = (w \div 16777216) % 256
      BY <1>1, <1>2, <2>2, <3>1, SMT
    <3>. QED BY <1>1, <2>2, <3>1, <3>2, SMT
  <2>. QED BY <2>1, <2>2, BaseAssumption
<1>4. Joined(b) = ToSigned(w)
  BY <1>3 DEF Joined
<1>5. ToSigned(w) % Word = w
  BY <1>1, SignedAgain
<1>. QED BY <1>4, <1>5 DEF w, b

(* What four bytes are joined to.                                          *)
LEMMA JoinedRange ==
  ASSUME NEW b \in [1..4 -> Byte]
  PROVE  /\ Joined(b) \in Int /\ Joined(b) < Word
         /\ Joined(b) % Word \in 0..(Word - 1)
         /\ ToSigned(Joined(b) % Word) = Joined(b)
<1>. DEFINE u == ((b[4] * Base + b[3]) * Base + b[2]) * Base + b[1]
<1>1. \A k \in 1..4 : b[k] \in Int /\ 0 <= b[k] /\ b[k] < Base
  BY BaseAssumption DEF Byte
<1>2. u \in Int /\ 0 <= u /\ u < Word
  <2>1. CASE Base = 8
    BY <1>1, <2>1, Scales, SMT
  <2>2. CASE Base = 256
    BY <1>1, <2>2, Scales, SMT
  <2>. QED BY <2>1, <2>2, BaseAssumption
<1>3. Joined(b) = ToSigned(u)
  BY DEF Joined
<1>. HIDE DEF u
<1>4. Joined(b) % Word = u
  BY <1>2, <1>3, SignedAgain
<1>5. Joined(b) \in Int /\ Joined(b) < Word
  BY <1>2, <1>3, SignedAgain
<1>. QED BY <1>2, <1>3, <1>4, <1>5, Scales

LEMMA SignedWord == \A w \in 0..(Word - 1) : Joined(Bytes(w)) = ToSigned(w)
<1>. SUFFICES ASSUME NEW w \in 0..(Word - 1) PROVE Joined(Bytes(w)) = ToSigned(w)
  OBVIOUS
<1>1. w \in Int
  BY Scales
<1>2. Bytes(w) \in [1..4 -> Byte] /\ Joined(Bytes(w)) % Word = w % Word
  BY <1>1, BytesRange, JoinedBytes
<1>3. w % Word = w
  BY Scales, SMT
<1>. QED BY <1>2, <1>3, JoinedRange

-----------------------------------------------------------------------------
(* The tables of parameters: the client's and the Talon's agree, and no    *)
(* two quantities share a parameter.                                       *)
Place == [Pgain |-> 1, Igain |-> 2, Dgain |-> 3, Fgain |-> 4, Izone |-> 5,
          CloseLoopRampRate |-> 6]

LEMMA SlottedNames ==
  DOMAIN Slotted = {"Pgain", "Igain", "Dgain", "Fgain", "Izone", "CloseLoopRampRate"}
BY DEF Slotted

LEMMA SingleNames ==
  DOMAIN Single = {"VoltageCompensationRate", "SensorPosition", "ForwardSoftLimit",
                   "ReverseSoftLimit", "ForwardSoftEnable", "ReverseSoftEnable"}
BY DEF Single

LEMMA RateNames ==
  DOMAIN RateOf = {"General", "Feedback", "Encoder", "AnalogTempVbat", "PulseWidthMeas"}
BY DEF RateOf

LEMMA PlaceOf ==
  ASSUME NEW q \in DOMAIN Slotted
  PROVE  (CHOOSE k \in DOMAIN TalonOrder : TalonOrder[k] = q) = Place[q]
<1>1. DOMAIN TalonOrder = 1..6
  BY DEF TalonOrder
<1>2. \A k \in 1..6 : TalonOrder[k] = q <=> k = Place[q]
  BY SlottedNames DEF TalonOrder, Place
<1>3. Place[q] \in 1..6
  BY SlottedNames DEF Place
<1>. QED BY <1>1, <1>2, <1>3

LEMMA SlotNumber ==
  ASSUME NEW q \in DOMAIN Slotted, NEW s \in {0, 1}
  PROVE  /\ NumberOf(<<q, s>>) = 10 * s + Place[q] /\ Place[q] \in 1..6
         /\ ParamOf(q, s) = 10 * s + Place[q] /\ ParamOf(q, s) \in Params
<1>1. q \notin DOMAIN RateOf /\ q \notin DOMAIN Alone /\ q \notin DOMAIN Single
  BY SlottedNames, RateNames, SingleNames DEF Alone
<1>2. NumberOf(<<q, s>>) = 10 * s + Place[q]
  BY <1>1, PlaceOf DEF NumberOf, TalonParam
<1>3. ParamOf(q, s) = ParamEnum[Slotted[q][IF s = 0 THEN 1 ELSE 2]]
  BY <1>1 DEF ParamOf
<1>4. ParamOf(q, s) = 10 * s + Place[q]
  <2>1. CASE s = 0
    BY <1>3, <2>1, SlottedNames DEF Slotted, ParamEnum, Place
  <2>2. CASE s = 1
    BY <1>3, <2>2, SlottedNames DEF Slotted, ParamEnum, Place
  <2>. QED BY <2>1, <2>2
<1>5. Slotted[q][IF s = 0 THEN 1 ELSE 2] \in DOMAIN ParamEnum
  BY SlottedNames DEF Slotted, ParamEnum
<1>6. Place[q] \in 1..6
  BY SlottedNames DEF Place
<1>. QED BY <1>2, <1>3, <1>4, <1>5, <1>6 DEF Params

LEMMA SingleNumber ==
  ASSUME NEW q \in DOMAIN Single
  PROVE  /\ NumberOf(<<q, 0>>) = Alone[q] /\ ParamOf(q, 0) = Alone[q]
         /\ Alone[q] \in Params /\ Alone[q] \in {21, 22, 23, 24, 73, 116}
<1>1. q \notin DOMAIN RateOf /\ q \in DOMAIN Alone
  BY RateNames, SingleNames DEF Alone
<1>2. NumberOf(<<q, 0>>) = Alone[q]
  BY <1>1 DEF NumberOf, TalonParam
<1>3. ParamOf(q, 0) = ParamEnum[Single[q]]
  BY DEF ParamOf
<1>4. ParamEnum[Single[q]] = Alone[q] /\ Single[q] \in DOMAIN ParamEnum
  BY SingleNames DEF Single, ParamEnum, Alone
<1>5. Alone[q] \in {21, 22, 23, 24, 73, 116}
  BY SingleNames DEF Alone
<1>. QED BY <1>2, <1>3, <1>4, <1>5 DEF Params

LEMMA RateNumber ==
  ASSUME NEW f \in DOMAIN RateOf
  PROVE  /\ NumberOf(<<f, 0>>) = TalonRate[f] /\ ParamEnum[RateOf[f]] = TalonRate[f]
         /\ TalonRate[f] \in Params /\ TalonRate[f] \in {94, 95, 96, 97, 109}
<1>1. NumberOf(<<f, 0>>) = TalonRate[f]
  BY DEF NumberOf
<1>2. ParamEnum[RateOf[f]] = TalonRate[f] /\ RateOf[f] \in DOMAIN ParamEnum
  BY RateNames DEF RateOf, ParamEnum, TalonRate
<1>3. TalonRate[f] \in {94, 95, 96, 97, 109}
  BY RateNames DEF TalonRate
<1>. QED BY <1>1, <1>2, <1>3 DEF Params

LEMMA QuantityKinds == Quantities \subseteq Slot \cup Alones \cup Rates
BY UsedAssumption DEF Quantities, Slot, Alones, Rates

LEMMA UsedNumber ==
  ASSUME NEW x \in Used
  PROVE  ParamOf(x[1], x[2]) = NumberOf(x) /\ x = <<x[1], x[2]>> /\ x \in Quantities
<1>1. CASE x \in (DOMAIN Slotted) \X {0, 1}
  <2>1. x[1] \in DOMAIN Slotted /\ x[2] \in {0, 1} /\ x = <<x[1], x[2]>>
    BY <1>1
  <2>2. NumberOf(<<x[1], x[2]>>) = ParamOf(x[1], x[2])
    BY <2>1, SlotNumber
  <2>. QED BY <2>1, <2>2 DEF Quantities
<1>2. CASE x \in (DOMAIN Single) \X {0}
  BY <1>2, SingleNumber DEF Quantities
<1>. QED BY <1>1, <1>2, UsedAssumption

LEMMA NumberOfParam == \A x \in Quantities : NumberOf(x) \in Params
<1>1. \A x \in Slot : NumberOf(x) \in Params
  <2>. SUFFICES ASSUME NEW x \in Slot PROVE NumberOf(x) \in Params
    OBVIOUS
  <2>1. x = <<x[1], x[2]>> /\ x[1] \in DOMAIN Slotted /\ x[2] \in {0, 1}
    BY DEF Slot
  <2>2. NumberOf(<<x[1], x[2]>>) = ParamOf(x[1], x[2]) /\ ParamOf(x[1], x[2]) \in Params
    BY <2>1, SlotNumber
  <2>. QED BY <2>1, <2>2
<1>2. \A x \in Alones : NumberOf(x) \in Params
  BY SingleNumber DEF Alones
<1>3. \A x \in Rates : NumberOf(x) \in Params
  BY RateNumber DEF Rates
<1>. QED BY <1>1, <1>2, <1>3, QuantityKinds

LEMMA NumbersDiffer ==
  ASSUME NEW x \in Quantities, NEW y \in Quantities, NumberOf(x) = NumberOf(y)
  PROVE  x = y
<1>1. \A z \in Slot : /\ z = <<z[1], z[2]>> /\ z[2] \in {0, 1} /\ z[1] \in DOMAIN Slotted
                      /\ NumberOf(z) = 10 * z[2] + Place[z[1]] /\ Place[z[1]] \in 1..6
  <2>. TAKE z \in Slot
  <2>1. z = <<z[1], z[2]>> /\ z[1] \in DOMAIN Slotted /\ z[2] \in {0, 1}
    BY DEF Slot
  <2>2. NumberOf(<<z[1], z[2]>>) = 10 * z[2] + Place[z[1]] /\ Place[z[1]] \in 1..6
    BY <2>1, SlotNumber
  <2>. QED BY <2>1, <2>2
<1>2. \A z \in Alones : /\ z = <<z[1], 0>> /\ z[1] \in DOMAIN Single
                        /\ NumberOf(z) = Alone[z[1]] /\ Alone[z[1]] \in {21, 22, 23, 24, 73, 116}
  BY SingleNumber DEF Alones
<1>3. \A z \in Rates : /\ z = <<z[1], 0>> /\ z[1] \in DOMAIN RateOf
                       /\ NumberOf(z) = TalonRate[z[1]] /\ TalonRate[z[1]] \in {94, 95, 96, 97, 109}
  BY RateNumber DEF Rates
<1>4. \A a, b \in DOMAIN Slotted : Place[a] = Place[b] => a = b
  BY SlottedNames DEF Place
<1>5. \A a, b \in DOMAIN Single : Alone[a] = Alone[b] => a = b
  BY SingleNames DEF Alone
<1>6. \A a, b \in DOMAIN RateOf : TalonRate[a] = TalonRate[b] => a = b
  BY RateNames DEF TalonRate
<1>7. CASE x \in Slot /\ y \in Slot
  <2>1. x[2] = y[2] /\ Place[x[1]] = Place[y[1]]
    BY <1>1, <1>7
  <2>. QED BY <1>1, <1>4, <1>7, <2>1
<1>8. CASE x \in Alones /\ y \in Alones
  BY <1>2, <1>5, <1>8
<1>9. CASE x \in Rates /\ y \in Rates
  BY <1>3, <1>6, <1>9
<1>10. /\ \A z \in Slot : NumberOf(z) \in 1..16
       /\ \A z \in Alones : NumberOf(z) \in {21, 22, 23, 24, 73, 116}
       /\ \A z \in Rates : NumberOf(z) \in {94, 95, 96, 97, 109}
  BY <1>1, <1>2, <1>3
<1>11. \/ x \in Slot /\ y \in Slot
       \/ x \in Alones /\ y \in Alones
       \/ x \in Rates /\ y \in Rates
  BY <1>10, QuantityKinds
<1>. QED BY <1>7, <1>8, <1>9, <1>11

(* Which quantities are gains, feed-forward gains and the ramp.            *)
LEMMA Kinds ==
  ASSUME NEW x \in Used
  PROVE  /\ Gain(NumberOf(x)) <=> x[1] \in {"Pgain", "Igain", "Dgain"}
         /\ FGain(NumberOf(x)) <=> x[1] = "Fgain"
         /\ Ramp(NumberOf(x)) <=> x[1] = "VoltageCompensationRate"
         /\ x[1] \notin DOMAIN RateOf
<1>1. CASE x \in (DOMAIN Slotted) \X {0, 1}
  <2>1. x[1] \in DOMAIN Slotted /\ x[2] \in {0, 1} /\ x = <<x[1], x[2]>>
    BY <1>1
  <2>2. NumberOf(x) = 10 * x[2] + Place[x[1]]
    BY <2>1, SlotNumber
  <2>. QED BY <2>1, <2>2, SlottedNames, RateNames DEF Place, Gain, FGain, Ramp, ParamEnum
<1>2. CASE x \in (DOMAIN Single) \X {0}
  <2>1. x[1] \in DOMAIN Single /\ x = <<x[1], 0>>
    BY <1>2
  <2>2. NumberOf(x) = Alone[x[1]]
    BY <2>1, SingleNumber
  <2>. QED BY <2>1, <2>2, SingleNames, RateNames DEF Alone, Gain, FGain, Ramp, ParamEnum
<1>. QED BY <1>1, <1>2, UsedAssumption

-----------------------------------------------------------------------------
(* The scales in proportion.                                               *)
LEMMA Proportions ==
  /\ 512 * One = Word /\ Word = 2 * (Word \div 2) /\ Word \div 2 \in Nat \ {0}
  /\ One = Volt * (One \div Volt) /\ One \div Volt \in Nat \ {0}
  /\ Base = Volt /\ Volt \in Nat /\ Volt > 2 /\ Volt < Word \div 2
  /\ One \in Nat \ {0} /\ Word \in Nat \ {0}
<1>1. CASE Base = 8
  <2>1. Word = 4096 /\ Volt = 8 /\ One = 8
    BY <1>1, Scales
  <2>. QED BY <1>1, <2>1
<1>2. CASE Base = 256
  <2>1. Word = 4294967296 /\ Volt = 256 /\ One = 8388608
    BY <1>2, Scales, SMT
  <2>. QED BY <1>2, <2>1, SMT
<1>. QED BY <1>1, <1>2, BaseAssumption

LEMMA SignedInt ==
  ASSUME NEW raw \in Int, -(Word \div 2) <= raw, raw < Word \div 2
  PROVE  ToSigned(raw % Word) = raw
<1>. DEFINE W == Word
            h == Word \div 2
<1>1. W \in Nat \ {0} /\ h \in Nat \ {0} /\ W = 2 * h /\ -h <= raw /\ raw < h
  BY Proportions
<1>2. ToSigned(raw % Word) = IF raw % W < h THEN raw % W ELSE (raw % W) - W
  BY DEF ToSigned
<1>. HIDE DEF W, h
<1>3. CASE raw >= 0
  <2>1. raw % W = raw
    BY <1>1, <1>3
  <2>. QED BY <1>1, <1>2, <1>3, <2>1
<1>4. CASE raw < 0
  <2>1. raw % W = raw + W
    BY <1>1, <1>4
  <2>. QED BY <1>1, <1>2, <1>4, <2>1
<1>. QED BY <1>3, <1>4

LEMMA Truncated ==
  ASSUME NEW n \in Int, NEW d \in Nat \ {0}
  PROVE  /\ Trunc(n, d) \in Int
         /\ Trunc(n, d) * d - n < d /\ n - Trunc(n, d) * d < d
         /\ n >= 0 => 0 <= Trunc(n, d) /\ Trunc(n, d) * d <= n
         /\ n <= 0 => n <= Trunc(n, d) * d
<1>1. \A m \in Int : m \div d \in Int /\ m = d * (m \div d) + (m % d) /\ m % d \in Int /\ 0 <= m % d /\ m % d < d
  OBVIOUS
<1>2. CASE n >= 0
  <2>1. Trunc(n, d) = n \div d
    BY <1>2 DEF Trunc
  <2>. QED BY <1>1, <1>2, <2>1
<1>3. CASE n < 0
  <2>1. Trunc(n, d) = -((-n) \div d)
    BY <1>3 DEF Trunc
  <2>. QED BY <1>1, <1>3, <2>1
<1>. QED BY <1>2, <1>3

LEMMA WholeTruncated ==
  ASSUME NEW n \in Int, n % One = 0
  PROVE  Trunc(n, One) = n \div One /\ (n \div One) * One = n
<1>1. CASE Base = 8
  <2>1. One = 8
    BY <1>1, Scales
  <2>. QED BY <2>1 DEF Trunc
<1>2. CASE Base = 256
  <2>1. One = 8388608
    BY <1>2, Scales, SMT
  <2>. QED BY <2>1, SMT DEF Trunc
<1>. QED BY <1>1, <1>2, BaseAssumption

(* The word w means the argument n to the Talon, to the precision of the   *)
(* format; an unsigned gain is cut off, never rounded up.                  *)
Understood(x, w) ==
  Means(x[1], IF x[1] \in PositiveGains \cup DOMAIN RateOf THEN w ELSE ToSigned(w))
Conveys(x, w, n) == /\ Near(x[1], Understood(x, w), n)
                    /\ x[1] \in PositiveGains => 2 * w <= n

(* SetParam: the word the Talon gets means the argument.                   *)
LEMMA Converted ==
  ASSUME NEW x \in Used, NEW n \in Int, NEW raw \in RawBits(NumberOf(x), n),
         Whole(NumberOf(x)) =>
           n % One = 0 /\ n \div One \in -(Word \div 2)..(Word \div 2 - 1)
  PROVE  raw \in Int /\ (Allowed(x[1], n) => Conveys(x, raw % Word, n))
<1>. DEFINE p == NumberOf(x)
            h == Word \div 2
<1>0. /\ h \in Nat \ {0} /\ Word = 2 * h /\ One \in Nat \ {0} /\ 512 * One = 2 * h
      /\ Volt \in Nat /\ Volt > 2 /\ Volt < h /\ One \div Volt \in Nat \ {0}
  BY Proportions
<1>. HIDE DEF p, h
<1>1. CASE Gain(p)
  <2>1. x[1] \in {"Pgain", "Igain", "Dgain"} /\ x[1] \notin DOMAIN RateOf
    BY <1>1, Kinds DEF p
  <2>2. raw = Trunc(Between(0, n, 1023 * One), 2)
    <3>1. ~FGain(p) /\ ~Ramp(p)
      BY <2>1, Kinds DEF p
    <3>2. RawBits(p, n) = {Trunc(Between(0, n, 1023 * One), 2)}
      BY <1>1, <3>1 DEF RawBits
    <3>. QED BY <3>2 DEF p
  <2>3. Between(0, n, 1023 * One) \in Int
    BY <1>0 DEF Between
  <2>4. raw \in Int
    BY <2>2, <2>3, Truncated
  <2>5. ASSUME 0 <= n, n <= 1023 * One
        PROVE  0 <= raw /\ raw < Word /\ raw * 2 <= n /\ n - raw * 2 < 2
    <3>1. Between(0, n, 1023 * One) = n
      BY <1>0, <2>5 DEF Between
    <3>2. raw = Trunc(n, 2)
      BY <2>2, <3>1
    <3>3. /\ Trunc(n, 2) * 2 - n < 2 /\ n - Trunc(n, 2) * 2 < 2
          /\ 0 <= Trunc(n, 2) /\ Trunc(n, 2) * 2 <= n
      <4>1. n >= 0
        BY <2>5
      <4>. QED BY <4>1, Truncated
    <3>. QED BY <1>0, <2>4, <2>5, <3>2, <3>3
  <2>6. Allowed(x[1], n) => 0 <= n /\ n <= 1023 * One
    BY <2>1 DEF Allowed, PositiveGains
  <2>7. ASSUME Allowed(x[1], n) PROVE Conveys(x, raw % Word, n)
    <3>1. raw % Word = raw
      BY <1>0, <2>4, <2>5, <2>6, <2>7
    <3>2. Understood(x, raw) = 2 * raw /\ Precision(x[1]) = 2
      BY <2>1 DEF Means, Precision, Understood, PositiveGains
    <3>. QED BY <2>4, <2>5, <2>6, <2>7, <3>1, <3>2 DEF Near, Conveys
  <2>. QED BY <2>4, <2>7
<1>2. CASE FGain(p) /\ ~Gain(p)
  <2>1. x[1] = "Fgain" /\ x[1] \notin DOMAIN RateOf /\ ~Ramp(p)
    BY <1>2, Kinds DEF p
  <2>. DEFINE r == Trunc(Between(-512 * One, n, 512 * One), 2)
  <2>2. raw \in IF r = h THEN {-h, h - 1} ELSE {r}
    BY <1>2, <2>1 DEF RawBits, p, h
  <2>3. Between(-512 * One, n, 512 * One) \in Int
    BY <1>0 DEF Between
  <2>4. r \in Int
    BY <2>3, Truncated
  <2>5. raw \in Int
    BY <1>0, <2>2, <2>4
  <2>6. ASSUME -512 * One <= n, n < 512 * One
        PROVE  -h <= raw /\ raw < h /\ raw * 2 - n < 2 /\ n - raw * 2 < 2
    <3>1. Between(-512 * One, n, 512 * One) = n
      BY <1>0, <2>6 DEF Between
    <3>2. r = Trunc(n, 2)
      BY <3>1
    <3>3. -h <= r /\ r < h /\ r * 2 - n < 2 /\ n - r * 2 < 2
      <4>1. /\ r * 2 - n < 2 /\ n - r * 2 < 2
            /\ n >= 0 => r * 2 <= n
            /\ n <= 0 => n <= r * 2
        BY <3>2, Truncated
      <4>. QED BY <1>0, <2>4, <2>6, <4>1
    <3>. QED BY <1>0, <2>2, <2>4, <3>3
  <2>7. Allowed(x[1], n) => -512 * One <= n /\ n < 512 * One
    BY <2>1 DEF Allowed
  <2>8. ASSUME Allowed(x[1], n) PROVE Conveys(x, raw % Word, n)
    <3>1. ToSigned(raw % Word) = raw
      BY <1>0, <2>5, <2>6, <2>7, <2>8, SignedInt DEF h
    <3>2. Means(x[1], raw) = 2 * raw /\ Precision(x[1]) = 2 /\ x[1] \notin PositiveGains
      BY <2>1 DEF Means, Precision, PositiveGains
    <3>3. Understood(x, raw % Word) = 2 * raw
      BY <2>1, <3>1, <3>2 DEF Understood
    <3>. QED BY <2>5, <2>6, <2>7, <2>8, <3>2, <3>3 DEF Near, Conveys
  <2>. QED BY <2>5, <2>8
<1>3. CASE Ramp(p) /\ ~Gain(p) /\ ~FGain(p)
  <2>1. x[1] = "VoltageCompensationRate" /\ x[1] \notin DOMAIN RateOf
    BY <1>3, Kinds DEF p
  <2>. DEFINE r == Trunc(n * Volt, One)
              u == One \div Volt
  <2>2. raw \in IF n <= 0 THEN {0}
                ELSE {Between(1, r, Volt - 1)} \cup (IF r < h THEN {} ELSE {-h})
    BY <1>3 DEF RawBits, p, h
  <2>3. n * Volt \in Int /\ r \in Int
    BY <1>0, Truncated
  <2>4. raw \in Int
    BY <1>0, <2>2, <2>3 DEF Between
  <2>5. ASSUME 0 <= n, n < One
        PROVE  -h <= raw /\ raw < h /\ raw * u - n < u /\ n - raw * u < u
    <3>1. CASE n = 0
      BY <1>0, <2>2, <3>1
    <3>2. CASE n > 0
      <4>1. r = (n * Volt) \div One
        BY <1>0, <2>3, <2>5 DEF Trunc
      <4>2. 0 <= r /\ r < Volt /\ r * u <= n /\ n - r * u < u
        <5>1. CASE Base = 8
          <6>1. Volt = 8 /\ One = 8 /\ u = 1
            BY <5>1, Scales
          <6>. QED BY <2>5, <4>1, <6>1
        <5>2. CASE Base = 256
          <6>1. Volt = 256 /\ One = 8388608 /\ u = 32768
            BY <5>2, Scales, SMT
          <6>. QED BY <2>5, <4>1, <6>1, SMT
        <5>. QED BY <5>1, <5>2, BaseAssumption
      <4>3. r < h
        BY <1>0, <2>3, <4>2
      <4>4. raw = Between(1, r, Volt - 1)
        BY <2>2, <3>2, <4>3
      <4>5. raw = IF r = 0 THEN 1 ELSE r
        BY <1>0, <2>3, <4>2, <4>4 DEF Between
      <4>6. CASE r = 0
        <5>1. raw = 1 /\ n - 0 * u < u
          BY <4>2, <4>5, <4>6
        <5>2. 1 * u = u /\ 0 * u = 0 /\ u \in Nat
          BY <1>0
        <5>. QED BY <1>0, <3>2, <5>1, <5>2
      <4>7. CASE r # 0
        BY <1>0, <2>3, <4>2, <4>3, <4>5, <4>7
      <4>. QED BY <4>6, <4>7
    <3>. QED BY <2>5, <3>1, <3>2
  <2>6. Allowed(x[1], n) => 0 <= n /\ n < One
    BY <2>1 DEF Allowed
  <2>7. ASSUME Allowed(x[1], n) PROVE Conveys(x, raw % Word, n)
    <3>1. ToSigned(raw % Word) = raw
      BY <1>0, <2>4, <2>5, <2>6, <2>7, SignedInt DEF h
    <3>2. Means(x[1], raw) = raw * u /\ Precision(x[1]) = u /\ x[1] \notin PositiveGains
      BY <2>1 DEF Means, Precision, PositiveGains
    <3>3. Understood(x, raw % Word) = raw * u
      BY <2>1, <3>1, <3>2 DEF Understood
    <3>. QED BY <2>5, <2>6, <2>7, <3>2, <3>3 DEF Near, Conveys
  <2>. QED BY <2>4, <2>7
<1>4. CASE Whole(p)
  <2>1. x[1] \notin {"Pgain", "Igain", "Dgain", "Fgain", "VoltageCompensationRate"}
          /\ x[1] \notin DOMAIN RateOf
    BY <1>4, Kinds DEF p, Whole
  <2>2. raw = Trunc(n, One)
    BY <1>4 DEF RawBits, p, Whole
  <2>3. n % One = 0 /\ -h <= n \div One /\ n \div One < h
    BY <1>0, <1>4 DEF p, h
  <2>4. raw = n \div One /\ raw * One = n /\ raw \in Int
    BY <1>0, <2>2, <2>3, WholeTruncated
  <2>5. ToSigned(raw % Word) = raw
    BY <1>0, <2>3, <2>4, SignedInt DEF h
  <2>6. Means(x[1], raw) = raw * One /\ Precision(x[1]) = 1 /\ x[1] \notin PositiveGains
    BY <2>1 DEF Means, Precision, PositiveGains
  <2>7. Understood(x, raw % Word) = raw * One
    BY <2>1, <2>5, <2>6 DEF Understood
  <2>. QED BY <2>4, <2>6, <2>7 DEF Near, Conveys
<1>. QED BY <1>1, <1>2, <1>3, <1>4 DEF Whole, p

(* SetStatusFrameRate: a period that fits a byte is the one that is sent.  *)
LEMMA RateConverted ==
  ASSUME NEW f \in DOMAIN RateOf, NEW ms \in Nat
  PROVE  LET raw == Between(1, ms, Base - 1)
         IN /\ raw \in Int /\ raw % Word = raw
            /\ Allowed(f, ms) => Conveys(<<f, 0>>, raw, ms)
<1>. DEFINE raw == Between(1, ms, Base - 1)
<1>1. f \notin {"Pgain", "Igain", "Dgain", "Fgain", "VoltageCompensationRate"}
  BY RateNames
<1>2. Base \in Nat /\ Base > 2 /\ Base < Word /\ Word \in Nat \ {0}
  <2>1. Base = Volt /\ Volt < Word \div 2 /\ Word = 2 * (Word \div 2) /\ Word \div 2 \in Nat
          /\ Volt \in Nat /\ Volt > 2
    BY Proportions
  <2>. QED BY <2>1, Proportions
<1>3. raw \in Int /\ 1 <= raw /\ raw < Base /\ (1 <= ms /\ ms < Base => raw = ms)
  BY <1>2 DEF Between
<1>4. raw % Word = raw
  BY <1>2, <1>3
<1>5. /\ Allowed(f, ms) => 1 <= ms /\ ms < Base
      /\ Means(f, raw) = raw /\ Precision(f) = 1 /\ f \notin PositiveGains
  BY <1>1 DEF Allowed, Means, Precision, PositiveGains
<1>6. Understood(<<f, 0>>, raw) = raw
  BY <1>5 DEF Understood
<1>. QED BY <1>3, <1>4, <1>5, <1>6 DEF Near, Conveys

(* GetParamResponse gives a signed word the scale the Talon gives it.      *)
LEMMA Valued ==
  ASSUME NEW x \in Used, NEW raw \in Int
  PROVE  Value(NumberOf(x), raw) = Means(x[1], raw)
<1>. DEFINE p == NumberOf(x)
<1>1. /\ Gain(p) <=> x[1] \in {"Pgain", "Igain", "Dgain"}
      /\ FGain(p) <=> x[1] = "Fgain"
      /\ Ramp(p) <=> x[1] = "VoltageCompensationRate"
      /\ x[1] \notin DOMAIN RateOf
  BY Kinds
<1>. HIDE DEF p
<1>2. CASE x[1] \in {"Pgain", "Igain", "Dgain", "Fgain"}
  BY <1>1, <1>2 DEF Value, Means, PositiveGains, p
<1>3. CASE x[1] = "VoltageCompensationRate"
  <2>1. Value(p, raw) = Trunc(raw * One, Volt)
    BY <1>1, <1>3 DEF Value
  <2>2. Means(x[1], raw) = raw * (One \div Volt)
    BY <1>1, <1>3 DEF Means, PositiveGains
  <2>3. Trunc(raw * One, Volt) = raw * (One \div Volt)
    <3>1. CASE Base = 8
      <4>1. One = 8 /\ Volt = 8
        BY <3>1, Scales
      <4>. QED BY <4>1 DEF Trunc
    <3>2. CASE Base = 256
      <4>1. One = 8388608 /\ Volt = 256
        BY <3>2, Scales, SMT
      <4>. QED BY <4>1, SMT DEF Trunc
    <3>. QED BY <3>1, <3>2, BaseAssumption
  <2>. QED BY <2>1, <2>2, <2>3 DEF p
<1>4. CASE x[1] \notin {"Pgain", "Igain", "Dgain", "Fgain", "VoltageCompensationRate"}
  BY <1>1, <1>4 DEF Value, Means, PositiveGains, p
<1>. QED BY <1>2, <1>3, <1>4

-----------------------------------------------------------------------------
(* The word w makes the Talon work with what was set last of quantity x.   *)
Serves(x, w) == \A n \in meant[x] : Allowed(x[1], n) => Conveys(x, w, n)

Sets(m, p) == m.kind = "set" /\ m.param = p

(* Frame i on the wire is the last to set quantity x; or none does.        *)
OnTheWay(x, i) == /\ Sets(wire[i], NumberOf(x)) /\ Serves(x, Joined(wire[i].bytes) % Word)
                  /\ \A j \in DOMAIN wire : j > i => ~Sets(wire[j], NumberOf(x))
Arrived(x) == /\ Serves(x, talon[NumberOf(x)])
              /\ \A j \in DOMAIN wire : ~Sets(wire[j], NumberOf(x))

(* The inductive invariant: what was set last is the last on its way, or   *)
(* in the Talon; and the answer at hand tells what the Talon has.          *)
LastSetServes == \A x \in Quantities : Arrived(x) \/ \E i \in DOMAIN wire : OnTheWay(x, i)
AnswerStands  == response # NoAnswer => Joined(response[2]) % Word = talon[response[1]]
ParamsTypeOK ==
  /\ wire \in Seq(Message) /\ talon \in [Params -> 0..(Word - 1)]
  /\ response \in {NoAnswer} \cup (Params \X [1..4 -> Byte])
  /\ sigs \in [Params -> Int]
  /\ DOMAIN meant = Quantities /\ \A x \in Quantities : meant[x] \subseteq Int

LEMMA SetSent ==
  ASSUME ParamsTypeOK, LastSetServes, NEW x \in Quantities, NEW n \in Int, NEW raw \in Int,
         wire' = Append(wire, [kind |-> "set", param |-> NumberOf(x), bytes |-> Bytes(raw)]),
         meant' = [meant EXCEPT ![x] = {n}], talon' = talon,
         Allowed(x[1], n) => Conveys(x, raw % Word, n)
  PROVE  LastSetServes'
<1>. DEFINE m == [kind |-> "set", param |-> NumberOf(x), bytes |-> Bytes(raw)]
<1>0. PICK L \in Nat : L = Len(wire)
  BY DEF ParamsTypeOK
<1>1. /\ DOMAIN wire = 1..L /\ DOMAIN wire' = 1..(L + 1)
      /\ \A i \in 1..L : wire'[i] = wire[i]
      /\ wire'[L + 1] = m
  BY <1>0 DEF ParamsTypeOK
<1>2. OnTheWay(x, L + 1)'
  <2>1. Sets(m, NumberOf(x)) /\ m.bytes = Bytes(raw)
    BY DEF Sets
  <2>2. Joined(Bytes(raw)) % Word = raw % Word
    BY JoinedBytes
  <2>3. meant'[x] = {n}
    BY DEF ParamsTypeOK
  <2>4. \A k \in meant'[x] : Allowed(x[1], k) => Conveys(x, raw % Word, k)
    BY <2>3
  <2>5. wire'[L + 1] = m /\ \A j \in DOMAIN wire' : ~(j > L + 1)
    BY <1>1
  <2>. HIDE DEF m
  <2>6. Serves(x, Joined(m.bytes) % Word)'
    BY <2>1, <2>2, <2>4 DEF Serves
  <2>. QED BY <2>1, <2>5, <2>6 DEF OnTheWay
<1>3. ASSUME NEW y \in Quantities, y # x
      PROVE  Arrived(y)' \/ \E i \in DOMAIN wire' : OnTheWay(y, i)'
  <2>1. ~Sets(m, NumberOf(y))
    BY <1>3, NumbersDiffer DEF Sets
  <2>2. meant'[y] = meant[y]
    BY <1>3 DEF ParamsTypeOK
  <2>. HIDE DEF m
  <2>3. CASE Arrived(y)
    BY <1>1, <2>1, <2>2, <2>3 DEF Arrived, Serves
  <2>4. CASE \E i \in DOMAIN wire : OnTheWay(y, i)
    <3>1. PICK i \in 1..L : OnTheWay(y, i)
      BY <1>1, <2>4
    <3>2. wire'[i] = wire[i]
      BY <1>1
    <3>3. Serves(y, Joined(wire[i].bytes) % Word)'
      BY <2>2, <3>1, <3>2 DEF OnTheWay, Serves
    <3>4. ASSUME NEW j \in 1..(L + 1), j > i  PROVE ~Sets(wire'[j], NumberOf(y))
      <4>1. CASE j = L + 1
        BY <1>1, <2>1, <4>1
      <4>2. CASE j # L + 1
        <5>1. j \in 1..L
          BY <4>2
        <5>. QED BY <1>1, <3>1, <3>4, <5>1 DEF OnTheWay
      <4>. QED BY <4>1, <4>2
    <3>5. Sets(wire'[i], NumberOf(y)) /\ Joined(wire'[i].bytes) = Joined(wire[i].bytes)
      BY <3>1, <3>2 DEF OnTheWay
    <3>6. OnTheWay(y, i)'
      BY <1>1, <3>2, <3>3, <3>4, <3>5 DEF OnTheWay
    <3>. QED BY <1>1, <3>6
  <2>. QED BY <2>3, <2>4 DEF LastSetServes
<1>4. L + 1 \in DOMAIN wire'
  BY <1>1
<1>. QED BY <1>2, <1>3, <1>4 DEF LastSetServes

LEMMA OtherSent ==
  ASSUME ParamsTypeOK, LastSetServes, NEW m, m.kind # "set",
         wire' = Append(wire, m), meant' = meant, talon' = talon
  PROVE  LastSetServes'
<1>. DEFINE L == Len(wire)
<1>1. /\ DOMAIN wire = 1..L /\ L \in Nat /\ DOMAIN wire' = 1..(L + 1)
      /\ \A i \in 1..L : wire'[i] = wire[i]
      /\ wire'[L + 1] = m
  BY DEF ParamsTypeOK
<1>2. ASSUME NEW y \in Quantities
      PROVE  Arrived(y)' \/ \E i \in DOMAIN wire' : OnTheWay(y, i)'
  <2>1. ~Sets(m, NumberOf(y))
    BY DEF Sets
  <2>2. CASE Arrived(y)
    BY <1>1, <2>1, <2>2 DEF Arrived, Serves
  <2>3. CASE \E i \in DOMAIN wire : OnTheWay(y, i)
    <3>1. PICK i \in 1..L : OnTheWay(y, i)
      BY <1>1, <2>3
    <3>2. OnTheWay(y, i)'
      BY <1>1, <2>1, <3>1 DEF OnTheWay, Serves
    <3>. QED BY <1>1, <3>2
  <2>. QED BY <2>2, <2>3 DEF LastSetServes
<1>. QED BY <1>2 DEF LastSetServes

(* The Talon takes the frame at the head.                                  *)
LEMMA HeadTaken ==
  ASSUME ParamsTypeOK, TalonTakes
  PROVE  /\ wire # <<>> /\ Head(wire) \in Message /\ wire' = Tail(wire)
         /\ CASE Head(wire).kind = "set" ->
                    /\ talon' = [talon EXCEPT ![Head(wire).param] = Joined(Head(wire).bytes) % Word]
                    /\ response' = <<Head(wire).param, Head(wire).bytes>>
              [] Head(wire).kind = "request" ->
                    /\ response' = <<Head(wire).param, Bytes(talon[Head(wire).param])>>
                    /\ talon' = talon
              [] Head(wire).kind = "clear" -> UNCHANGED <<talon, response>>
         /\ UNCHANGED <<sigs, meant>>
<1>1. wire # <<>> /\ Head(wire) \in Message /\ wire' = Tail(wire) /\ UNCHANGED <<sigs, meant>>
  BY DEF TalonTakes, ParamsTypeOK
<1>2. CASE Head(wire).kind = "set"
  BY <1>1, <1>2 DEF TalonTakes
<1>3. CASE Head(wire).kind = "request"
  BY <1>1, <1>3 DEF TalonTakes
<1>4. CASE Head(wire).kind = "clear"
  <2>1. Head(wire).zero = 0
    BY <1>1, <1>4 DEF Message
  <2>2. talon' = (IF Head(wire).zero = 1 THEN [talon EXCEPT ![73] = 0] ELSE talon)
          /\ UNCHANGED response
    BY <1>4 DEF TalonTakes
  <2>3. UNCHANGED <<talon, response>>
    BY <2>1, <2>2
  <2>. QED BY <1>1, <1>4, <2>3
<1>5. Head(wire).kind \in {"set", "request", "clear"}
  BY <1>1 DEF Message
<1>. QED BY <1>1, <1>2, <1>3, <1>4, <1>5

LEMMA TakingServes ==
  ASSUME ParamsTypeOK, LastSetServes, TalonTakes
  PROVE  LastSetServes'
<1>. DEFINE L == Len(wire)
            h == Head(wire)
<1>1. /\ DOMAIN wire = 1..L /\ L \in Nat /\ L > 0 /\ wire[1] = h
      /\ DOMAIN wire' = 1..(L - 1) /\ \A i \in 1..(L - 1) : wire'[i] = wire[i + 1]
  <2>1. wire # <<>> /\ wire' = Tail(wire)
    BY DEF TalonTakes
  <2>. QED BY <2>1 DEF ParamsTypeOK
<1>2. h \in Message /\ h.kind \in {"set", "request", "clear"} /\ meant' = meant
  BY HeadTaken DEF Message
<1>3. h.kind = "set" => h.param \in Params /\ talon' = [talon EXCEPT ![h.param] = Joined(h.bytes) % Word]
  BY <1>2, HeadTaken DEF Message
<1>4. h.kind # "set" => talon' = talon
  BY <1>2, HeadTaken
<1>. HIDE DEF h
<1>5. ASSUME NEW y \in Quantities
      PROVE  Arrived(y)' \/ \E i \in DOMAIN wire' : OnTheWay(y, i)'
  <2>1. NumberOf(y) \in Params
    BY NumberOfParam
  <2>2. ~Sets(h, NumberOf(y)) => talon'[NumberOf(y)] = talon[NumberOf(y)]
    BY <1>3, <1>4, <2>1 DEF Sets, ParamsTypeOK
  <2>3. CASE Arrived(y)
    <3>1. ~Sets(h, NumberOf(y))
      BY <1>1, <2>3 DEF Arrived
    <3>2. \A j \in 1..(L - 1) : j + 1 \in 1..L
      BY <1>1
    <3>. QED BY <1>1, <1>2, <2>2, <2>3, <3>1, <3>2 DEF Arrived, Serves
  <2>4. CASE \E i \in DOMAIN wire : OnTheWay(y, i)
    <3>1. PICK i \in 1..L : OnTheWay(y, i)
      BY <1>1, <2>4
    <3>2. CASE i = 1
      <4>1. Sets(h, NumberOf(y)) /\ Serves(y, Joined(h.bytes) % Word)
        BY <1>1, <3>1, <3>2 DEF OnTheWay
      <4>2. talon'[NumberOf(y)] = Joined(h.bytes) % Word
        BY <1>3, <2>1, <4>1 DEF Sets, ParamsTypeOK
      <4>3. \A j \in 1..(L - 1) : j + 1 \in 1..L /\ j + 1 > 1
        BY <1>1
      <4>4. \A j \in DOMAIN wire' : ~Sets(wire'[j], NumberOf(y))
        BY <1>1, <3>1, <3>2, <4>3 DEF OnTheWay
      <4>. QED BY <1>2, <4>1, <4>2, <4>4 DEF Arrived, Serves
    <3>3. CASE i # 1
      <4>1. i - 1 \in 1..(L - 1) /\ wire'[i - 1] = wire[i]
        BY <1>1, <3>3
      <4>2. \A j \in 1..(L - 1) : j > i - 1 => j + 1 \in 1..L /\ j + 1 > i
        BY <1>1
      <4>3. \A j \in DOMAIN wire' : j > i - 1 => ~Sets(wire'[j], NumberOf(y))
        BY <1>1, <3>1, <4>2 DEF OnTheWay
      <4>4. OnTheWay(y, i - 1)'
        BY <1>2, <3>1, <4>1, <4>3 DEF OnTheWay, Serves
      <4>. QED BY <1>1, <4>1, <4>4
    <3>. QED BY <3>2, <3>3
  <2>. QED BY <2>3, <2>4 DEF LastSetServes
<1>. QED BY <1>5 DEF LastSetServes

-----------------------------------------------------------------------------
(* What the actions put on the wire.                                       *)
LEMMA SetQuantityFacts ==
  ASSUME NEW x \in Used, NEW n \in Arguments, SetQuantity(x[1], x[2], n)
  PROVE  /\ \E raw \in Int :
              /\ wire' = Append(wire, [kind |-> "set", param |-> NumberOf(x), bytes |-> Bytes(raw)])
              /\ Allowed(x[1], n) => Conveys(x, raw % Word, n)
         /\ meant' = [meant EXCEPT ![x] = {n}]
         /\ UNCHANGED <<talon, response, sigs>>
<1>1. ParamOf(x[1], x[2]) = NumberOf(x) /\ x = <<x[1], x[2]>> /\ x[1] \notin DOMAIN RateOf
  BY UsedNumber, Kinds
<1>2. PICK raw \in RawBits(NumberOf(x), n) : SetParamRaw(NumberOf(x), raw)
  BY <1>1 DEF SetQuantity
<1>3. Whole(NumberOf(x)) =>
        n % One = 0 /\ n \div One \in -(Word \div 2)..(Word \div 2 - 1)
  BY <1>1 DEF SetQuantity
<1>4. raw \in Int /\ (Allowed(x[1], n) => Conveys(x, raw % Word, n))
  BY <1>2, <1>3, Converted
<1>5. wire' = Append(wire, [kind |-> "set", param |-> NumberOf(x), bytes |-> Bytes(raw)])
  BY <1>2 DEF SetParamRaw, Send
<1>. QED BY <1>1, <1>4, <1>5 DEF SetQuantity

LEMMA SetRateFacts ==
  ASSUME NEW f \in DOMAIN RateOf, NEW ms \in Periods, SetStatusFrameRate(f, ms)
  PROVE  /\ \E raw \in Int :
              /\ wire' = Append(wire, [kind |-> "set", param |-> NumberOf(<<f, 0>>),
                                      bytes |-> Bytes(raw)])
              /\ Allowed(f, ms) => Conveys(<<f, 0>>, raw % Word, ms)
         /\ meant' = [meant EXCEPT ![<<f, 0>>] = {ms}]
         /\ UNCHANGED <<talon, response, sigs>>
<1>. DEFINE raw == Between(1, ms, Base - 1)
<1>1. ParamEnum[RateOf[f]] = NumberOf(<<f, 0>>)
  BY RateNumber
<1>2. raw \in Int /\ raw % Word = raw /\ (Allowed(f, ms) => Conveys(<<f, 0>>, raw, ms))
  BY RateConverted
<1>3. wire' = Append(wire, [kind |-> "set", param |-> NumberOf(<<f, 0>>), bytes |-> Bytes(raw)])
  BY <1>1 DEF SetStatusFrameRate, SetParamRaw, Send
<1>. HIDE DEF raw
<1>. QED BY <1>2, <1>3 DEF SetStatusFrameRate

LEMMA RatesAreQuantities == \A f \in DOMAIN RateOf : <<f, 0>> \in Quantities
BY DEF Quantities

LEMMA SetTyped ==
  ASSUME ParamsTypeOK, NEW x \in Quantities, NEW n \in Int, NEW raw \in Int,
         wire' = Append(wire, [kind |-> "set", param |-> NumberOf(x), bytes |-> Bytes(raw)]),
         meant' = [meant EXCEPT ![x] = {n}], UNCHANGED <<talon, response, sigs>>
  PROVE  ParamsTypeOK'
<1>1. [kind |-> "set", param |-> NumberOf(x), bytes |-> Bytes(raw)] \in Message
  BY BytesRange, NumberOfParam DEF Message
<1>2. wire' \in Seq(Message)
  BY <1>1 DEF ParamsTypeOK
<1>3. DOMAIN meant' = Quantities /\ \A y \in Quantities : meant'[y] \subseteq Int
  BY DEF ParamsTypeOK
<1>. QED BY <1>2, <1>3 DEF ParamsTypeOK

LEMMA ProcessTyped ==
  ASSUME ParamsTypeOK, Process
  PROVE  /\ sigs' \in [Params -> Int]
         /\ response # NoAnswer => sigs'[response[1]] = Joined(response[2])
<1>1. CASE response # NoAnswer
  <2>1. response[1] \in Params /\ response[2] \in [1..4 -> Byte]
    BY <1>1 DEF ParamsTypeOK
  <2>2. Joined(response[2]) \in Int
    BY <2>1, JoinedRange
  <2>3. sigs' = [sigs EXCEPT ![response[1]] = Joined(response[2])]
    BY <1>1 DEF Process
  <2>. QED BY <2>1, <2>2, <2>3 DEF ParamsTypeOK
<1>2. CASE response = NoAnswer /\ msgBuff # NoParam
  <2>1. sigs' = [sigs EXCEPT ![msgBuff] = Junk]
    BY <1>2 DEF Process
  <2>2. Junk \in Int
    BY Scales DEF Junk
  <2>. QED BY <1>2, <2>1, <2>2 DEF ParamsTypeOK
<1>3. CASE response = NoAnswer /\ msgBuff = NoParam
  BY <1>3 DEF Process, ParamsTypeOK
<1>. QED BY <1>1, <1>2, <1>3

LEMMA TakingTyped ==
  ASSUME ParamsTypeOK, AnswerStands, TalonTakes
  PROVE  ParamsTypeOK' /\ AnswerStands'
<1>. DEFINE h == Head(wire)
<1>0. wire # <<>> /\ wire' = Tail(wire) /\ UNCHANGED <<sigs, meant>>
  BY DEF TalonTakes
<1>1. h \in Message /\ wire' \in Seq(Message) /\ UNCHANGED <<sigs, meant>>
  BY <1>0 DEF ParamsTypeOK
<1>2. CASE h.kind = "set"
  <2>1. h.param \in Params /\ h.bytes \in [1..4 -> Byte]
    BY <1>1, <1>2 DEF Message
  <2>2. /\ talon' = [talon EXCEPT ![h.param] = Joined(h.bytes) % Word]
        /\ response' = <<h.param, h.bytes>>
    BY <1>2, HeadTaken
  <2>3. Joined(h.bytes) % Word \in 0..(Word - 1)
    BY <2>1, JoinedRange
  <2>. HIDE DEF h
  <2>. QED BY <1>1, <2>1, <2>2, <2>3 DEF ParamsTypeOK, AnswerStands
<1>3. CASE h.kind = "request"
  <2>1. h.param \in Params
    BY <1>1, <1>3 DEF Message
  <2>2. response' = <<h.param, Bytes(talon[h.param])>> /\ talon' = talon
    BY <1>3, HeadTaken
  <2>3. talon[h.param] \in 0..(Word - 1) /\ talon[h.param] \in Int
    BY <2>1, Scales DEF ParamsTypeOK
  <2>4. Bytes(talon[h.param]) \in [1..4 -> Byte]
    BY <2>3, BytesRange
  <2>5. Joined(Bytes(talon[h.param])) % Word = talon[h.param]
    <3>1. talon[h.param] % Word = talon[h.param]
      BY <2>3, Scales
    <3>. QED BY <2>3, <3>1, JoinedBytes
  <2>. HIDE DEF h
  <2>. QED BY <1>1, <2>1, <2>2, <2>4, <2>5 DEF ParamsTypeOK, AnswerStands
<1>4. CASE h.kind = "clear"
  <2>1. UNCHANGED <<talon, response>>
    BY <1>4, HeadTaken
  <2>. QED BY <1>1, <2>1 DEF ParamsTypeOK, AnswerStands
<1>5. h.kind \in {"set", "request", "clear"}
  BY <1>1 DEF Message
<1>. QED BY <1>2, <1>3, <1>4, <1>5

ParamsInv == ParamsTypeOK /\ LastSetServes /\ AnswerStands

LEMMA ParamsInitHolds == ParamsInit => ParamsInv
<1>. SUFFICES ASSUME ParamsInit PROVE ParamsInv
  OBVIOUS
<1>1. Word \in Nat \ {0} /\ Unknown \in Int
  BY Scales DEF Unknown
<1>2. ParamsTypeOK
  BY <1>1 DEF ParamsInit, ParamsTypeOK, NotSet
<1>3. LastSetServes
  BY DEF ParamsInit, LastSetServes, Arrived, Serves, NotSet
<1>4. AnswerStands
  BY DEF ParamsInit, AnswerStands
<1>. QED BY <1>2, <1>3, <1>4 DEF ParamsInv

LEMMA ParamsStep == ParamsInv /\ [ParamsNext]_paramVars => ParamsInv'
<1>. SUFFICES ASSUME ParamsTypeOK, LastSetServes, AnswerStands, [ParamsNext]_paramVars
              PROVE  ParamsTypeOK' /\ LastSetServes' /\ AnswerStands'
  BY DEF ParamsInv
<1>1. ASSUME NEW x \in Used, NEW n \in Arguments, SetQuantity(x[1], x[2], n)
      PROVE  ParamsTypeOK' /\ LastSetServes' /\ AnswerStands'
  <2>1. x \in Quantities /\ n \in Int
    BY UsedNumber
  <2>2. PICK raw \in Int :
          /\ wire' = Append(wire, [kind |-> "set", param |-> NumberOf(x), bytes |-> Bytes(raw)])
          /\ Allowed(x[1], n) => Conveys(x, raw % Word, n)
    BY <1>1, SetQuantityFacts
  <2>3. meant' = [meant EXCEPT ![x] = {n}] /\ UNCHANGED <<talon, response, sigs>>
    BY <1>1, SetQuantityFacts
  <2>. QED BY <2>1, <2>2, <2>3, SetSent, SetTyped DEF AnswerStands
<1>2. ASSUME NEW f \in DOMAIN RateOf, NEW ms \in Periods, SetStatusFrameRate(f, ms)
      PROVE  ParamsTypeOK' /\ LastSetServes' /\ AnswerStands'
  <2>. DEFINE x == <<f, 0>>
  <2>1. x \in Quantities /\ ms \in Int /\ x[1] = f
    BY RatesAreQuantities
  <2>2. PICK raw \in Int :
          /\ wire' = Append(wire, [kind |-> "set", param |-> NumberOf(x), bytes |-> Bytes(raw)])
          /\ Allowed(f, ms) => Conveys(x, raw % Word, ms)
    BY <1>2, SetRateFacts
  <2>3. meant' = [meant EXCEPT ![x] = {ms}] /\ UNCHANGED <<talon, response, sigs>>
    BY <1>2, SetRateFacts
  <2>. HIDE DEF x
  <2>. QED BY <2>1, <2>2, <2>3, SetSent, SetTyped DEF AnswerStands
<1>3. CASE RefuseFrameRate
  BY <1>3 DEF RefuseFrameRate, ParamsTypeOK, LastSetServes, AnswerStands, Arrived, OnTheWay, Serves
<1>4. CASE ClearStickyFaults
  <2>. DEFINE m == [kind |-> "clear", zero |-> 0]
  <2>1. wire' = Append(wire, m) /\ UNCHANGED <<talon, response, sigs, meant>>
    BY <1>4 DEF ClearStickyFaults, Send
  <2>2. m \in Message /\ m.kind # "set"
    BY DEF Message
  <2>. HIDE DEF m
  <2>3. ParamsTypeOK' /\ AnswerStands'
    BY <2>1, <2>2 DEF ParamsTypeOK, AnswerStands
  <2>. QED BY <2>1, <2>2, <2>3, OtherSent
<1>5. ASSUME NEW x \in Used, GetQuantity(x[1], x[2])
      PROVE  ParamsTypeOK' /\ LastSetServes' /\ AnswerStands'
  <2>1. UNCHANGED <<wire, talon, response, meant>> /\ sigs' \in [Params -> Int]
    BY <1>5, ProcessTyped DEF GetQuantity
  <2>. QED BY <2>1 DEF ParamsTypeOK, LastSetServes, AnswerStands, Arrived, OnTheWay, Serves
<1>6. ASSUME NEW x \in Used, RequestParam(ParamOf(x[1], x[2]))
      PROVE  ParamsTypeOK' /\ LastSetServes' /\ AnswerStands'
  <2>. DEFINE m == [kind |-> "request", param |-> NumberOf(x)]
  <2>1. wire' = Append(wire, m) /\ UNCHANGED <<talon, response, meant>>
    BY <1>6, UsedNumber DEF RequestParam, Send
  <2>2. sigs' \in [Params -> Int]
    BY <1>6, ProcessTyped DEF RequestParam
  <2>3. m \in Message /\ m.kind # "set"
    BY UsedNumber, NumberOfParam DEF Message
  <2>. HIDE DEF m
  <2>4. ParamsTypeOK' /\ AnswerStands'
    BY <2>1, <2>2, <2>3 DEF ParamsTypeOK, AnswerStands
  <2>. QED BY <2>1, <2>3, <2>4, OtherSent
<1>7. CASE TalonTakes
  BY <1>7, TakingServes, TakingTyped
<1>8. CASE UNCHANGED paramVars
  BY <1>8 DEF paramVars, ParamsTypeOK, LastSetServes, AnswerStands, Arrived, OnTheWay, Serves
<1>. QED BY <1>1, <1>2, <1>3, <1>4, <1>5, <1>6, <1>7, <1>8 DEF ParamsNext

LEMMA ParamsInvHolds == ParamsSpec => []ParamsInv
BY ParamsInitHolds, ParamsStep, PTL DEF ParamsSpec

LEMMA TalonHasWord ==
  \A x \in Quantities : Means(x[1], TalonHas(x)) = Understood(x, talon[NumberOf(x)])
BY DEF TalonHas, Understood, NumberOf

(* A word that is an unsigned gain of 512 or more reads as 1024 less.      *)
LEMMA Misread ==
  ASSUME NEW x, x[1] \in PositiveGains, NEW n \in Int, NEW w \in 0..(Word - 1), Conveys(x, w, n)
  PROVE  Near(x[1], Means(x[1], ToSigned(w)), Returned(x[1], n))
<1>. DEFINE h == Word \div 2
<1>0. h \in Nat \ {0} /\ Word = 2 * h /\ 512 * One = 2 * h /\ One \in Nat \ {0}
  BY Proportions
<1>1. Precision(x[1]) = 2 /\ \A v \in Int : Means(x[1], v) = 2 * v
  <2>1. x[1] \in PositiveGains \cup {"Fgain"} /\ x[1] # "VoltageCompensationRate"
          /\ x[1] \notin DOMAIN RateOf
    BY RateNames DEF PositiveGains
  <2>2. Precision(x[1]) = 2
    BY <2>1 DEF Precision
  <2>3. ASSUME NEW v \in Int PROVE Means(x[1], v) = 2 * v
    BY <2>1 DEF Means
  <2> QED BY <2>2, <2>3
<1>2. Understood(x, w) = 2 * w
  BY <1>1 DEF Understood
<1>3. 2 * w <= n /\ n - 2 * w < 2
  BY <1>1, <1>2 DEF Conveys, Near
<1>4. ToSigned(w) = IF w < h THEN w ELSE w - Word
  BY DEF ToSigned
<1>5. Returned(x[1], n) = IF n >= 512 * One THEN n - 1024 * One ELSE n
  BY DEF Returned
<1>. HIDE DEF h
<1>6. CASE w < h
  <2>1. n < 2 * h
    BY <1>0, <1>3, <1>6
  <2>. QED BY <1>0, <1>1, <1>3, <1>4, <1>5, <1>6, <2>1 DEF Near
<1>7. CASE w >= h
  <2>1. n >= 2 * h
    BY <1>0, <1>3, <1>7
  <2>2. 1024 * One = 2 * Word
    BY <1>0
  <2>. QED BY <1>0, <1>1, <1>3, <1>4, <1>5, <1>7, <2>1, <2>2 DEF Near
<1>. QED BY <1>0, <1>6, <1>7

(* When every frame has been taken, the Talon works with what was set last *)
(* of every gain, limit and rate, to the precision of its format: for any  *)
(* sequence of sets, requests, gets and clearings, and any arguments       *)
(* (SetParam, SetParamRaw, SetStatusFrameRate, ClearStickyFaults).         *)
THEOREM SetIsInForceCorrect == ParamsSpec => []SetIsInForce
<1>1. ParamsInv => SetIsInForce
  <2>. SUFFICES ASSUME ParamsInv, wire = <<>>, NEW x \in Quantities, NEW n \in meant[x],
                       Allowed(x[1], n)
                PROVE  Near(x[1], Means(x[1], TalonHas(x)), n)
    BY DEF SetIsInForce
  <2>1. Arrived(x)
    BY DEF ParamsInv, LastSetServes
  <2>. QED BY <2>1, TalonHasWord DEF Arrived, Serves, Conveys
<1>. QED BY <1>1, ParamsInvHolds, PTL

(* A getter whose answer is that to the last set returns the number that   *)
(* was set, to the precision of the format, for every argument the         *)
(* documentation allows, except that a gain of 512 or more is returned     *)
(* 1024 less (SetParam, GetParamResponse, ProcessStreamMessages).          *)
THEOREM ReadsBackCorrect == ParamsSpec => ReadsBack
<1>1. ParamsInv => ReadsRight
  <2>. SUFFICES ASSUME ParamsInv, NEW x \in Used, NEW n \in meant[x], wire = <<>>,
                       Allowed(x[1], n), response # NoAnswer,
                       response[1] = TalonParam(x[1], x[2]), GetQuantity(x[1], x[2])
                PROVE  /\ paramGot'.err = "CTR_OKAY"
                       /\ Near(x[1], Value(ParamOf(x[1], x[2]), paramGot'.raw), Returned(x[1], n))
    BY DEF ReadsRight
  <2>. DEFINE p == NumberOf(x)
  <2>1. ParamOf(x[1], x[2]) = p /\ x \in Quantities /\ x[1] \notin DOMAIN RateOf
    BY UsedNumber, Kinds
  <2>2. response[1] = p
    BY <2>1 DEF NumberOf
  <2>3. response[2] \in [1..4 -> Byte]
    BY DEF ParamsInv, ParamsTypeOK
  <2>4. Joined(response[2]) = ToSigned(talon[p]) /\ Joined(response[2]) \in Int
          /\ Joined(response[2]) # Unknown
    <3>1. Joined(response[2]) % Word = talon[p]
      BY <2>2 DEF ParamsInv, AnswerStands
    <3>2. Joined(response[2]) < Word
      BY <2>3, JoinedRange
    <3>. QED BY <2>3, <3>1, <3>2, JoinedRange, Scales DEF Unknown
  <2>5. sigs'[p] = Joined(response[2])
    BY <2>2, ProcessTyped DEF GetQuantity, ParamsInv
  <2>6. paramGot' = [q |-> x[1], slot |-> x[2], raw |-> Joined(response[2]), err |-> "CTR_OKAY"]
    BY <2>1, <2>4, <2>5 DEF GetQuantity
  <2>7. Arrived(x)
    BY <2>1 DEF ParamsInv, LastSetServes
  <2>8. Conveys(x, talon[p], n) /\ talon[p] \in 0..(Word - 1)
    BY <2>1, <2>7, NumberOfParam DEF Arrived, Serves, ParamsInv, ParamsTypeOK
  <2>9. Near(x[1], Means(x[1], ToSigned(talon[p])), Returned(x[1], n))
    <3>1. CASE x[1] \notin PositiveGains
      BY <2>1, <2>8, <3>1 DEF Conveys, Understood, Returned
    <3>2. CASE x[1] \in PositiveGains
      <4>1. n \in Int
        BY <2>1 DEF ParamsInv, ParamsTypeOK
      <4>. QED BY <2>8, <3>2, <4>1, Misread
    <3>. QED BY <3>1, <3>2
  <2>. QED BY <2>1, <2>4, <2>6, <2>9, Valued
<1>. QED BY <1>1, ParamsInvHolds, PTL DEF ReadsBack

HIDE ParamAssumption

-----------------------------------------------------------------------------
(* The power distribution panel.                                           *)

Others == {<<"Voltage", 0>>, <<"Temperature", 0>>, <<"TotalCurrent", 0>>,
           <<"TotalPower", 0>>, <<"TotalEnergy", 0>>}

(* The loop asks for sixteen channels and five more signals.               *)
LEMMA LoopSignals == Loop \in Seq(Currents \cup Others) /\ Len(Loop) = 21
<1>. DEFINE channels == [k \in 1..16 |-> <<"Current", k - 1>>]
            others   == << <<"Voltage", 0>>, <<"Temperature", 0>>, <<"TotalCurrent", 0>>,
                           <<"TotalPower", 0>>, <<"TotalEnergy", 0>> >>
<1>1. channels \in Seq(Currents \cup Others) /\ Len(channels) = 16
  <2>1. \A k \in 1..16 : channels[k] \in Currents
    BY DEF Currents
  <2>. QED BY <2>1
<1>2. others \in Seq(Currents \cup Others) /\ Len(others) = 5
  BY DEF Others
<1>3. Loop = channels \o others
  BY DEF Loop
<1>4. \A S : \A x, y \in Seq(S) : x \o y \in Seq(S) /\ Len(x \o y) = Len(x) + Len(y)
  OBVIOUS
<1>. HIDE DEF channels, others
<1>5. Loop \in Seq(Currents \cup Others) /\ Len(Loop) = Len(channels) + Len(others)
  BY <1>1, <1>2, <1>3, <1>4
<1>. QED BY <1>1, <1>2, <1>5

LEMMA SignalKinds == Signal \subseteq Currents \cup Others
<1>. SUFFICES ASSUME NEW k \in DOMAIN Loop PROVE Loop[k] \in Currents \cup Others
  BY DEF Signal
<1>1. \A S : \A s \in Seq(S) : \A j \in DOMAIN s : s[j] \in S
  OBVIOUS
<1>. QED BY LoopSignals, <1>1

(* A channel: its two fields, and the number they make.                    *)
LEMMA ChannelFields ==
  ASSUME NEW sig \in Currents, NEW n \in Nat
  PROVE  LET b == 10 - HighWidth(sig[2])
         IN  /\ b \in {2, 4, 6, 8}
             /\ Widths(sig) = <<10 - b, b>> /\ Shifts(sig) = <<0, b>>
             /\ Below(sig, 0) = 10 /\ Below(sig, 1) = b /\ Below(sig, 2) = 0
<1>1. PICK c \in 0..15 : sig = <<"Current", c>>
  BY DEF Currents
<1>2. c % 6 \in {0, 1, 2, 3, 4, 5}
  BY <1>1
<1>3. \/ HighWidth(c) = 8 /\ <<2, 4, 6, 8, 2, 4>>[(c % 6) + 1] = 2
      \/ HighWidth(c) = 6 /\ <<2, 4, 6, 8, 2, 4>>[(c % 6) + 1] = 4
      \/ HighWidth(c) = 4 /\ <<2, 4, 6, 8, 2, 4>>[(c % 6) + 1] = 6
      \/ HighWidth(c) = 2 /\ <<2, 4, 6, 8, 2, 4>>[(c % 6) + 1] = 8
  BY <1>2 DEF HighWidth
<1>4. PICK b \in {2, 4, 6, 8} : /\ HighWidth(sig[2]) = 10 - b
                                /\ <<2, 4, 6, 8, 2, 4>>[(sig[2] % 6) + 1] = b
  BY <1>1, <1>3
<1>5. Widths(sig) = <<10 - b, b>> /\ Shifts(sig) = <<0, b>>
  <2>1. 10 - HighWidth(sig[2]) = b
    BY <1>4
  <2>2. sig[1] = "Current"
    BY <1>1
  <2>. QED BY <1>4, <2>1, <2>2 DEF Widths, Shifts
<1>6. Below(sig, 0) = 10 /\ Below(sig, 1) = b /\ Below(sig, 2) = 0
  BY <1>5 DEF Below
<1>. QED BY <1>4, <1>5, <1>6

LEMMA ChannelPacked ==
  ASSUME NEW sig \in Currents, NEW n \in Nat, n < 2^Below(sig, 0)
  PROVE  Raw(sig, Packed(sig, n)) = n
<1>. DEFINE b == 10 - HighWidth(sig[2])
<1>1. /\ b \in {2, 4, 6, 8}
      /\ Widths(sig) = <<10 - b, b>> /\ Shifts(sig) = <<0, b>>
      /\ Below(sig, 0) = 10 /\ Below(sig, 1) = b /\ Below(sig, 2) = 0
  BY ChannelFields
<1>. HIDE DEF b
<1>2. /\ DOMAIN Packed(sig, n) = {1, 2}
      /\ Packed(sig, n)[1] = (n \div 2^b) % 2^(10 - b)
      /\ Packed(sig, n)[2] = (n \div 2^0) % 2^b
  <2>1. DOMAIN Widths(sig) = {1, 2}
    BY <1>1
  <2>2. Widths(sig)[1] = 10 - b /\ Widths(sig)[2] = b
    BY <1>1
  <2>. QED BY <1>1, <2>1, <2>2 DEF Packed
<1>3. Raw(sig, Packed(sig, n)) = ((n \div 2^b) % 2^(10 - b)) * 2^b + ((n \div 2^0) % 2^b)
  BY <1>1, <1>2 DEF Raw, Taking
<1>4. n < 2^10
  BY <1>1
<1>5. ((n \div 2^b) % 2^(10 - b)) * 2^b + ((n \div 2^0) % 2^b) = n
  <2>1. CASE b = 2
    <3>1. 10 - b = 8
      BY <2>1
    <3>2. (((n \div 4) % 256) * 4) + (n % 4) = n
      BY <1>4, Powers
    <3>. QED BY <2>1, <3>1, <3>2, Powers
  <2>2. CASE b = 4
    <3>1. 10 - b = 6
      BY <2>2
    <3>2. (((n \div 16) % 64) * 16) + (n % 16) = n
      BY <1>4, Powers
    <3>. QED BY <2>2, <3>1, <3>2, Powers
  <2>3. CASE b = 6
    <3>1. 10 - b = 4
      BY <2>3
    <3>2. (((n \div 64) % 16) * 64) + (n % 64) = n
      BY <1>4, Powers
    <3>. QED BY <2>3, <3>1, <3>2, Powers
  <2>4. CASE b = 8
    <3>1. 10 - b = 2
      BY <2>4
    <3>2. (((n \div 256) % 4) * 256) + (n % 256) = n
      BY <1>4, Powers
    <3>. QED BY <2>4, <3>1, <3>2, Powers
  <2>. QED BY <1>1, <2>1, <2>2, <2>3, <2>4
<1>. QED BY <1>3, <1>5

(* The other signals are not channels, so the CASEs go by their names.     *)
LEMMA OtherFields ==
  /\ \A v \in {"Voltage", "Temperature", "TmeasMs"} :
       Widths(<<v, 0>>) = << 8 >> /\ Shifts(<<v, 0>>) = << 0 >>
  /\ Widths(<<"TotalCurrent", 0>>) = <<8, 4>> /\ Shifts(<<"TotalCurrent", 0>>) = <<0, 4>>
  /\ Widths(<<"TotalPower", 0>>) = <<4, 8, 4>> /\ Shifts(<<"TotalPower", 0>>) = <<0, 8, 4>>
  /\ Widths(<<"TotalEnergy", 0>>) = <<4, 8, 8, 8>>
  /\ Shifts(<<"TotalEnergy", 0>>) = <<0, 8, 8, 8>>
<1>1. \A v, c : <<v, c>> \in Currents => v = "Current"
  BY DEF Currents
<1>2. \A v, c : <<v, c>>[1] = v
  OBVIOUS
<1>3. ASSUME NEW v \in {"Voltage", "Temperature", "TmeasMs"}
      PROVE  Widths(<<v, 0>>) = << 8 >> /\ Shifts(<<v, 0>>) = << 0 >>
  <2>1. <<v, 0>> \notin Currents /\ <<v, 0>>[1] \in {"Voltage", "Temperature", "TmeasMs"}
    BY <1>1
  <2>. DEFINE sig == <<v, 0>>
  <2>. HIDE DEF sig
  <2>2. sig \notin Currents /\ sig[1] \in {"Voltage", "Temperature", "TmeasMs"}
    BY <2>1 DEF sig
  <2>3. Widths(sig) = << 8 >>
    BY <2>2 DEF Widths
  <2>4. Shifts(sig) = << 0 >>
    BY <2>2 DEF Shifts
  <2>. QED BY <2>3, <2>4 DEF sig
<1>4. ASSUME NEW sig, sig \notin Currents, sig[1] = "TotalCurrent"
      PROVE  Widths(sig) = <<8, 4>> /\ Shifts(sig) = <<0, 4>>
  BY <1>4 DEF Widths, Shifts
<1>5. ASSUME NEW sig, sig \notin Currents, sig[1] = "TotalPower"
      PROVE  Widths(sig) = <<4, 8, 4>> /\ Shifts(sig) = <<0, 8, 4>>
  BY <1>5 DEF Widths, Shifts
<1>6. ASSUME NEW sig, sig \notin Currents, sig[1] = "TotalEnergy"
      PROVE  Widths(sig) = <<4, 8, 8, 8>> /\ Shifts(sig) = <<0, 8, 8, 8>>
  BY <1>6 DEF Widths, Shifts
<1>7. \A v \in {"TotalCurrent", "TotalPower", "TotalEnergy"} :
        <<v, 0>> \notin Currents /\ <<v, 0>>[1] = v
  BY <1>1
<1>8. /\ Widths(<<"TotalCurrent", 0>>) = <<8, 4>>
      /\ Shifts(<<"TotalCurrent", 0>>) = <<0, 4>>
  BY <1>4, <1>7
<1>9. /\ Widths(<<"TotalPower", 0>>) = <<4, 8, 4>>
      /\ Shifts(<<"TotalPower", 0>>) = <<0, 8, 4>>
  BY <1>5, <1>7
<1>10. /\ Widths(<<"TotalEnergy", 0>>) = <<4, 8, 8, 8>>
       /\ Shifts(<<"TotalEnergy", 0>>) = <<0, 8, 8, 8>>
  BY <1>6, <1>7
<1>. QED BY <1>3, <1>8, <1>9, <1>10

(* A signal of one field, of two, of three and of four.                    *)
LEMMA OneFieldPacked ==
  ASSUME NEW sig, Widths(sig) = << 8 >>, Shifts(sig) = << 0 >>,
         NEW n \in Nat, n < 2^Below(sig, 0)
  PROVE  Raw(sig, Packed(sig, n)) = n
<1>1. Below(sig, 0) = 8 /\ Below(sig, 1) = 0
  BY DEF Below
<1>2. DOMAIN Packed(sig, n) = {1} /\ Packed(sig, n)[1] = (n \div 2^0) % 2^8
  <2>1. /\ DOMAIN Widths(sig) = {1}
        /\ Widths(sig)[1] = 8
    OBVIOUS
  <2>. QED BY <1>1, <2>1 DEF Packed
<1>3. Raw(sig, Packed(sig, n)) = (n \div 2^0) % 2^8
  BY <1>2 DEF Raw, Taking
<1>4. n < 256 => (n \div 1) % 256 = n
  OBVIOUS
<1>5. n < 2^8 /\ n \div 1 = n
  <2>1. n < 2^8
    BY <1>1, Zenon
  <2>2. n \div 1 = n
    OBVIOUS
  <2>. QED BY <2>1, <2>2, Zenon
<1>6. n < 256
  BY <1>5, Powers, SMT
<1>. QED BY <1>3, <1>4, <1>5, <1>6, Powers, SMT

LEMMA TwoFieldsPacked ==
  ASSUME NEW sig, Widths(sig) = <<8, 4>>, Shifts(sig) = <<0, 4>>,
         NEW n \in Nat, n < 2^Below(sig, 0)
  PROVE  Raw(sig, Packed(sig, n)) = n
<1>1. Below(sig, 0) = 12 /\ Below(sig, 1) = 4 /\ Below(sig, 2) = 0
  BY DEF Below
<1>2. /\ DOMAIN Packed(sig, n) = {1, 2}
      /\ Packed(sig, n)[1] = (n \div 2^4) % 2^8
      /\ Packed(sig, n)[2] = (n \div 2^0) % 2^4
  <2>1. /\ DOMAIN Widths(sig) = {1, 2}
        /\ Widths(sig)[1] = 8
        /\ Widths(sig)[2] = 4
    OBVIOUS
  <2>. QED BY <1>1, <2>1 DEF Packed
<1>3. Raw(sig, Packed(sig, n)) = (((n \div 2^4) % 2^8) * 2^4) + ((n \div 2^0) % 2^4)
  BY <1>2 DEF Raw, Taking
<1>4. n < 4096 => (((n \div 16) % 256) * 16) + (n % 16) = n
  OBVIOUS
<1>5. n < 2^12 /\ n \div 1 = n
  <2>1. n < 2^12
    BY <1>1, Zenon
  <2>2. n \div 1 = n
    OBVIOUS
  <2>. QED BY <2>1, <2>2, Zenon
<1>6. n < 4096
  BY <1>5, Powers, SMT
<1>. QED BY <1>3, <1>4, <1>5, <1>6, Powers, SMT

LEMMA ThreeFieldsPacked ==
  ASSUME NEW sig, Widths(sig) = <<4, 8, 4>>, Shifts(sig) = <<0, 8, 4>>,
         NEW n \in Nat, n < 2^Below(sig, 0)
  PROVE  Raw(sig, Packed(sig, n)) = n
<1>1. Below(sig, 0) = 16 /\ Below(sig, 1) = 12 /\ Below(sig, 2) = 4 /\ Below(sig, 3) = 0
  BY DEF Below
<1>2. /\ DOMAIN Packed(sig, n) = {1, 2, 3}
      /\ Packed(sig, n)[1] = (n \div 2^12) % 2^4
      /\ Packed(sig, n)[2] = (n \div 2^4) % 2^8
      /\ Packed(sig, n)[3] = (n \div 2^0) % 2^4
  <2>1. /\ DOMAIN Widths(sig) = {1, 2, 3}
        /\ Widths(sig)[1] = 4
        /\ Widths(sig)[2] = 8
        /\ Widths(sig)[3] = 4
    OBVIOUS
  <2>. QED BY <1>1, <2>1 DEF Packed
<1>3. Raw(sig, Packed(sig, n))
        = (((((n \div 2^12) % 2^4) * 2^8) + ((n \div 2^4) % 2^8)) * 2^4) + ((n \div 2^0) % 2^4)
  BY <1>2 DEF Raw, Taking
<1>4. n < 65536 =>
        (((((n \div 4096) % 16) * 256) + ((n \div 16) % 256)) * 16) + (n % 16) = n
  OBVIOUS
<1>5. n < 2^16 /\ n \div 1 = n
  <2>1. n < 2^16
    BY <1>1, Zenon
  <2>2. n \div 1 = n
    OBVIOUS
  <2>. QED BY <2>1, <2>2, Zenon
<1>6. n < 65536
  BY <1>5, Powers, SMT
<1>. QED BY <1>3, <1>4, <1>5, <1>6, Powers, SMT

LEMMA FourFieldsPacked ==
  ASSUME NEW sig, Widths(sig) = <<4, 8, 8, 8>>, Shifts(sig) = <<0, 8, 8, 8>>,
         NEW n \in Nat, n < 2^Below(sig, 0)
  PROVE  Raw(sig, Packed(sig, n)) = n
<1>1. Below(sig, 0) = 28 /\ Below(sig, 1) = 24 /\ Below(sig, 2) = 16
      /\ Below(sig, 3) = 8 /\ Below(sig, 4) = 0
  BY DEF Below
<1>2. /\ DOMAIN Packed(sig, n) = {1, 2, 3, 4}
      /\ Packed(sig, n)[1] = (n \div 2^24) % 2^4
      /\ Packed(sig, n)[2] = (n \div 2^16) % 2^8
      /\ Packed(sig, n)[3] = (n \div 2^8) % 2^8
      /\ Packed(sig, n)[4] = (n \div 2^0) % 2^8
  <2>1. /\ DOMAIN Widths(sig) = {1, 2, 3, 4}
        /\ Widths(sig)[1] = 4
        /\ Widths(sig)[2] = 8
        /\ Widths(sig)[3] = 8
        /\ Widths(sig)[4] = 8
    OBVIOUS
  <2>. QED BY <1>1, <2>1 DEF Packed
<1>3. Raw(sig, Packed(sig, n))
        = ((((((((n \div 2^24) % 2^4) * 2^8) + ((n \div 2^16) % 2^8)) * 2^8)
             + ((n \div 2^8) % 2^8)) * 2^8) + ((n \div 2^0) % 2^8))
  BY <1>2 DEF Raw, Taking
<1>4. n < 268435456 =>
        ((((((((n \div 16777216) % 16) * 256) + ((n \div 65536) % 256)) * 256)
             + ((n \div 256) % 256)) * 256) + (n % 256)) = n
  BY SMT
<1>5. n < 2^28 /\ n \div 1 = n
  <2>1. n < 2^28
    BY <1>1, Zenon
  <2>2. n \div 1 = n
    OBVIOUS
  <2>. QED BY <2>1, <2>2, Zenon
<1>6. n < 268435456
  BY <1>5, Powers, LargePowers, SMT
<1>. QED BY <1>3, <1>4, <1>5, <1>6, Powers, LargePowers, SMT

(* What a getter makes of the fields of a number is the number.            *)
LEMMA RawPacked ==
  ASSUME NEW sig \in Field, NEW n \in Nat, n < 2^Below(sig, 0)
  PROVE  Raw(sig, Packed(sig, n)) = n
<1>1. CASE sig \in Currents
  BY <1>1, ChannelPacked
<1>2. CASE sig \in {<<"Voltage", 0>>, <<"Temperature", 0>>, TmeasMs}
  BY <1>2, OtherFields, OneFieldPacked DEF TmeasMs
<1>3. CASE sig = <<"TotalCurrent", 0>>
  BY <1>3, OtherFields, TwoFieldsPacked
<1>4. CASE sig = <<"TotalPower", 0>>
  BY <1>4, OtherFields, ThreeFieldsPacked
<1>5. CASE sig = <<"TotalEnergy", 0>>
  BY <1>5, OtherFields, FourFieldsPacked
<1>. QED BY <1>1, <1>2, <1>3, <1>4, <1>5, SignalKinds DEF Others, Field

(* A frame on its way, a frame stored and a frame found before are frames  *)
(* that the panel has sent.                                                *)
PdpTypeOK ==
  /\ queue \in Seq(Ids \X DOMAIN Readings)
  /\ received \in [Ids -> Nat] /\ events \in [Ids -> Nat]
  /\ sent \in [Ids -> SUBSET DOMAIN Readings]
  /\ step \in DOMAIN Loop
QueueSent  == \A k \in DOMAIN queue : queue[k][2] \in sent[queue[k][1]]
StoredSent == \A i \in Ids : {received[i], events[i]} \subseteq sent[i] \cup {None}
PdpInv     == PdpTypeOK /\ QueueSent /\ StoredSent /\ SignalIsOwn

LEMMA ReadingsFacts ==
  /\ DOMAIN Readings \subseteq Nat \ {0}
  /\ \A r \in DOMAIN Readings : \A sig \in Field :
       Readings[r][sig] \in Nat /\ Readings[r][sig] < 2^Below(sig, 0)
<1>1. ASSUME NEW r \in DOMAIN Readings PROVE r \in Nat \ {0} /\ Readings[r] \in [Field -> Nat]
  BY ReadingAssumption
<1>. QED BY <1>1, ReadingAssumption

LEMMA IdsRead == \A sig \in Signal : FrameOf(sig) \in StatusFrame
<1>1. \A c \in 0..15 : ChannelFrame(c) \in StatusFrame
  BY DEF ChannelFrame, StatusFrame
<1>2. ASSUME NEW sig \in Currents PROVE FrameOf(sig) \in StatusFrame
  <2>1. PICK c \in 0..15 : sig = <<"Current", c>>
    BY DEF Currents
  <2>2. sig[1] = "Current" /\ sig[2] = c
    BY <2>1
  <2>3. FrameOf(sig) = ChannelFrame(c)
    BY <2>2 DEF FrameOf
  <2>. QED BY <1>1, <2>3
<1>3. ASSUME NEW sig, sig \notin Currents PROVE FrameOf(sig) \in StatusFrame
  BY <1>3 DEF FrameOf, StatusFrame
<1>. QED BY <1>2, <1>3

LEMMA PdpInitHolds == PdpInit => PdpInv
<1>. SUFFICES ASSUME PdpInit PROVE PdpInv
  OBVIOUS
<1>1. PdpTypeOK
  BY LoopSignals DEF PdpInit, PdpTypeOK, None
<1>2. QueueSent /\ StoredSent
  BY DEF PdpInit, QueueSent, StoredSent
<1>3. SignalIsOwn
  BY DEF PdpInit, SignalIsOwn
<1>. QED BY <1>1, <1>2, <1>3 DEF PdpInv

(* Items of a queue, when one is added at the end or taken from the front. *)
LEMMA QueueItems ==
  ASSUME NEW S, NEW q \in Seq(S)
  PROVE  /\ \A k \in DOMAIN q : q[k] \in S
         /\ q # <<>> => /\ Tail(q) \in Seq(S) /\ Head(q) \in S
                        /\ 1 \in DOMAIN q /\ Head(q) = q[1]
                        /\ \A k \in DOMAIN Tail(q) : k + 1 \in DOMAIN q /\ Tail(q)[k] = q[k + 1]
         /\ \A x \in S : /\ Append(q, x) \in Seq(S)
                         /\ \A k \in DOMAIN Append(q, x) :
                              \/ k \in DOMAIN q /\ Append(q, x)[k] = q[k]
                              \/ Append(q, x)[k] = x
<1>1. \A k \in DOMAIN q : q[k] \in S
  OBVIOUS
<1>2. q # <<>> => /\ Tail(q) \in Seq(S) /\ Head(q) \in S
                  /\ 1 \in DOMAIN q /\ Head(q) = q[1]
                  /\ \A k \in DOMAIN Tail(q) : k + 1 \in DOMAIN q /\ Tail(q)[k] = q[k + 1]
  OBVIOUS
<1>3. \A x \in S : /\ Append(q, x) \in Seq(S)
                   /\ \A k \in DOMAIN Append(q, x) :
                        \/ k \in DOMAIN q /\ Append(q, x)[k] = q[k]
                        \/ Append(q, x)[k] = x
  OBVIOUS
<1>. QED BY <1>1, <1>2, <1>3

LEMMA PanelSendsKeeps ==
  ASSUME PdpInv, NEW i \in Ids, NEW r \in DOMAIN Readings, PanelSends(i, r)
  PROVE  PdpInv'
<1>. DEFINE S    == Ids \X DOMAIN Readings
            rest == IF Len(queue) = Length THEN Tail(queue) ELSE queue
<1>1. /\ queue \in Seq(S) /\ queue' = Append(rest, <<i, r>>)
      /\ sent' = [sent EXCEPT ![i] = @ \cup {r}]
      /\ UNCHANGED <<received, events, step, got>>
  BY DEF PdpInv, PdpTypeOK, PanelSends
<1>2. \A j \in Ids : sent[j] \subseteq sent'[j]
  BY <1>1 DEF PdpInv, PdpTypeOK
<1>3. rest \in Seq(S) /\ \A k \in DOMAIN rest : rest[k][1] \in Ids /\ rest[k][2] \in sent[rest[k][1]]
  <2>1. Len(queue) = Length => queue # <<>>
    BY <1>1, PanelAssumption
  <2>2. \A k \in DOMAIN queue : queue[k][1] \in Ids /\ queue[k][2] \in sent[queue[k][1]]
    BY <1>1, QueueItems DEF PdpInv, QueueSent
  <2>3. CASE Len(queue) = Length
    BY <1>1, <2>1, <2>2, <2>3, QueueItems
  <2>4. CASE Len(queue) # Length
    BY <1>1, <2>2, <2>4
  <2>. QED BY <2>3, <2>4
<1>4. <<i, r>> \in S /\ r \in sent'[i]
  BY <1>1 DEF PdpInv, PdpTypeOK
<1>5. PdpTypeOK'
  <2>1. queue' \in Seq(S)
    <3>. HIDE DEF rest, S
    <3>. QED BY <1>1, <1>3, <1>4, QueueItems
  <2>. QED BY <1>1, <2>1 DEF PdpInv, PdpTypeOK
<1>6. QueueSent'
  <2>. SUFFICES ASSUME NEW k \in DOMAIN queue' PROVE queue'[k][2] \in sent'[queue'[k][1]]
    BY DEF QueueSent
  <2>1. (k \in DOMAIN rest /\ queue'[k] = rest[k]) \/ queue'[k] = <<i, r>>
    <3>. HIDE DEF rest, S
    <3>. QED BY <1>1, <1>3, <1>4, QueueItems
  <2>2. CASE k \in DOMAIN rest /\ queue'[k] = rest[k]
    <3>. HIDE DEF rest
    <3>. QED BY <1>2, <1>3, <2>2
  <2>3. CASE queue'[k] = <<i, r>>
    BY <1>4, <2>3
  <2>. QED BY <2>1, <2>2, <2>3
<1>7. StoredSent'
  BY <1>1, <1>2 DEF PdpInv, StoredSent
<1>8. SignalIsOwn'
  <2>1. got' = got
    BY <1>1
  <2>2. \A j : sent[j] \subseteq sent'[j]
    BY <1>1 DEF PdpInv, PdpTypeOK
  <2>. QED BY <2>1, <2>2 DEF PdpInv, SignalIsOwn, Measured, Own
<1>. QED BY <1>5, <1>6, <1>7, <1>8 DEF PdpInv

LEMMA CallbackKeeps ==
  ASSUME PdpInv, CANRecvCallback
  PROVE  PdpInv'
<1>. DEFINE S == Ids \X DOMAIN Readings
            h == Head(queue)
<1>1. /\ queue \in Seq(S) /\ queue # <<>> /\ queue' = Tail(queue)
      /\ received' = [received EXCEPT ![h[1]] = h[2]]
      /\ UNCHANGED <<events, step, got, sent>>
  BY DEF PdpInv, PdpTypeOK, CANRecvCallback
<1>2. h \in S /\ h[2] \in sent[h[1]]
  BY <1>1, QueueItems DEF PdpInv, QueueSent
<1>3. h[1] \in Ids /\ h[2] \in Nat
  BY <1>2, ReadingsFacts
<1>. HIDE DEF h
<1>4. PdpTypeOK'
  BY <1>1, <1>3, QueueItems DEF PdpInv, PdpTypeOK
<1>5. QueueSent'
  <2>1. \A k \in DOMAIN queue' : k + 1 \in DOMAIN queue /\ queue'[k] = queue[k + 1]
    BY <1>1, QueueItems
  <2>. QED BY <1>1, <2>1 DEF PdpInv, QueueSent
<1>6. StoredSent'
  BY <1>1, <1>2, <1>3 DEF PdpInv, PdpTypeOK, StoredSent
<1>7. SignalIsOwn'
  BY <1>1 DEF PdpInv, SignalIsOwn, Measured, Own
<1>. QED BY <1>4, <1>5, <1>6, <1>7 DEF PdpInv

(* The getters ask for the frames of panel 0, which is the object's own.   *)
LEMMA GetKeeps ==
  ASSUME PdpInv, Get, Device = 0
  PROVE  PdpInv'
<1>. DEFINE sig == Loop[step]
            i   == ReadId(FrameOf(sig))
<1>1. PICK err \in Errors(i) : got' = [sig |-> sig, value |-> Result(sig, i), err |-> err]
  BY DEF Get
<1>2. /\ events' = [events EXCEPT ![i] = IF received[i] # None THEN received[i] ELSE @]
      /\ step' = (step % Len(Loop)) + 1
      /\ UNCHANGED <<queue, received, sent>>
  BY DEF Get
<1>3. sig \in Signal /\ i \in Ids /\ i = Own(sig)
  <2>1. sig \in Signal
    BY DEF PdpInv, PdpTypeOK, Signal
  <2>2. FrameOf(sig) \in StatusFrame
    BY <2>1, IdsRead
  <2>. QED BY <2>1, <2>2, PanelAssumption DEF Ids, ReadId, Own
<1>4. \A j \in Ids : received[j] \in sent[j] \cup {None} /\ events[j] \in sent[j] \cup {None}
  BY DEF PdpInv, StoredSent
<1>. HIDE DEF sig, i
<1>5. PdpTypeOK'
  <2>1. step' \in DOMAIN Loop
    <3>1. DOMAIN Loop = 1..21 /\ Len(Loop) = 21
      BY LoopSignals
    <3>2. step \in 1..21
      BY <3>1 DEF PdpInv, PdpTypeOK
    <3>. QED BY <1>2, <3>1, <3>2
  <2>2. events' \in [Ids -> Nat]
    BY <1>2, <1>3 DEF PdpInv, PdpTypeOK
  <2>. QED BY <1>2, <2>1, <2>2 DEF PdpInv, PdpTypeOK
<1>6. QueueSent'
  BY <1>2 DEF PdpInv, QueueSent
<1>7. StoredSent'
  <2>1. \A j \in Ids : events'[j] \in {received[j], events[j]}
    BY <1>2, <1>3 DEF PdpInv, PdpTypeOK
  <2>. QED BY <1>2, <1>4, <2>1 DEF StoredSent
<1>8. SignalIsOwn'
  <2>. SUFFICES ASSUME got'.err = "CTR_OKAY"
                PROVE  \E r \in sent'[Own(got'.sig)] : got'.value = Measured(got'.sig, r)
    BY DEF SignalIsOwn, Measured, Own
  <2>1. got'.sig = sig /\ got'.value = Result(sig, i) /\ "CTR_OKAY" \in Errors(i)
    BY <1>1
  <2>2. received[i] # None \/ events[i] # None
    BY <2>1 DEF Errors
  <2>. DEFINE r == Found(i)
  <2>3. r \in sent[i] /\ r # None
    BY <1>3, <1>4, <2>2 DEF Found
  <2>4. r \in DOMAIN Readings
    BY <1>3, <2>3 DEF PdpInv, PdpTypeOK
  <2>5. \A f \in Field : Number(f, i) = Raw(f, Packed(f, Readings[r][f]))
    BY <1>3, <2>3, <2>4 DEF Number, Sends
  <2>. HIDE DEF r
  <2>6. \A f \in Field : Raw(f, Packed(f, Readings[r][f])) = Readings[r][f]
    BY <2>4, ReadingsFacts, RawPacked
  <2>7. sig \in Field /\ TmeasMs \in Field
    BY <1>3 DEF Field
  <2>8. Result(sig, i) = Measured(sig, r)
    BY <2>5, <2>6, <2>7 DEF Result, Measured
  <2>. QED BY <1>2, <1>3, <2>1, <2>3, <2>8
<1>. QED BY <1>5, <1>6, <1>7, <1>8 DEF PdpInv

LEMMA AskKeeps ==
  ASSUME PdpInv, UNCHANGED <<queue, received, events, step, got, sent>>
  PROVE  PdpInv'
<1>1. PdpTypeOK' /\ QueueSent' /\ StoredSent'
  BY DEF PdpInv, PdpTypeOK, QueueSent, StoredSent
<1>2. SignalIsOwn'
  BY DEF PdpInv, SignalIsOwn, Measured, Own
<1>. QED BY <1>1, <1>2 DEF PdpInv

LEMMA PdpStep ==
  ASSUME Device = 0
  PROVE  PdpInv /\ [SpinNext]_pdpVars => PdpInv'
<1>. SUFFICES ASSUME PdpInv, [SpinNext]_pdpVars PROVE PdpInv'
  OBVIOUS
<1>1. CASE Panel
  BY <1>1, PanelSendsKeeps DEF Panel
<1>2. CASE Get
  BY <1>2, GetKeeps
<1>3. CASE CANRecvCallback
  BY <1>3, CallbackKeeps
<1>4. CASE \E op \in {"clear", "reset"} : Ask(op)
  BY <1>4, AskKeeps DEF Ask
<1>5. CASE UNCHANGED pdpVars
  BY <1>5, AskKeeps DEF pdpVars
<1>. QED BY <1>1, <1>2, <1>3, <1>4, <1>5 DEF SpinNext, NodeNext

(* The object of panel 0, as the node makes it, never takes the reading of *)
(* another panel, of another signal or of no frame for its own, whatever   *)
(* the panels measure and however many frames CANRecv holds.               *)
THEOREM SignalIsOwnCorrect ==
  ASSUME Device = 0
  PROVE  PdpSpec => []SignalIsOwn
<1>1. PdpInv => SignalIsOwn
  BY DEF PdpInv
<1>2. PdpInit => PdpInv
  BY PdpInitHolds
<1>3. PdpInv /\ [SpinNext]_pdpVars => PdpInv'
  BY PdpStep
<1>. QED BY <1>1, <1>2, <1>3, PTL DEF PdpSpec
=============================================================================
