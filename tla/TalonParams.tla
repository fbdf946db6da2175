----------------------------- MODULE TalonParams -----------------------------
(***************************************************************************)
(* The parameters of a Talon: CanTalonSRX's SetParam and GetParamResponse, *)
(* and the calls built on them.  A parameter travels as a word of four     *)
(* bytes, set by the client and answered by the Talon; the client keeps    *)
(* only the answer that came last, until a getter looks at it.             *)
(*                                                                         *)
(* A byte has Base values, 256 in the code.  The scales follow from it: of *)
(* a word, a quarter and two bits are fraction in 10.22 fixed point, and   *)
(* the voltage ramp has one byte of fraction.  An argument, a double in    *)
(* the code, is a whole number of halves of the smallest step of 10.22.    *)
(***************************************************************************)
EXTENDS Integers, Sequences, FiniteSets

CONSTANTS
  Base,        \* values of a byte: 256, or 8 to have small numbers
  Used,        \* the quantities in use: {<<name, slot>>, ...}
  Stray,       \* parameters that memory never initialised may seem to answer
  Arguments,   \* arguments in use
  Periods,     \* arguments of SetStatusFrameRate in use, in ms
  MaxCalls     \* bound: calls that send something

ASSUME BaseAssumption == Base \in {8, 256}
ASSUME ParamAssumption == /\ Arguments \subseteq Int /\ Periods \subseteq Nat
                          /\ MaxCalls \in Nat

Word   == Base * Base * Base * Base
Unit   == Word \div 1024    \* FLOAT_TO_FXP_10_22
Volt   == Base              \* FLOAT_TO_FXP_0_8
One    == 2 * Unit          \* the argument 1.0

ToSigned(w) == IF w < Word \div 2 THEN w ELSE w - Word

-----------------------------------------------------------------------------
(* param_t: the parameters that have calls of their own.                   *)
ParamEnum ==
  [eProfileParamSlot0_P |-> 1, eProfileParamSlot0_I |-> 2,
   eProfileParamSlot0_D |-> 3, eProfileParamSlot0_F |-> 4,
   eProfileParamSlot0_IZone |-> 5, eProfileParamSlot0_CloseLoopRampRate |-> 6,
   eProfileParamSlot1_P |-> 11, eProfileParamSlot1_I |-> 12,
   eProfileParamSlot1_D |-> 13, eProfileParamSlot1_F |-> 14,
   eProfileParamSlot1_IZone |-> 15, eProfileParamSlot1_CloseLoopRampRate |-> 16,
   eProfileParamSoftLimitForThreshold |-> 21,
   eProfileParamSoftLimitRevThreshold |-> 22,
   eProfileParamSoftLimitForEnable |-> 23, eProfileParamSoftLimitRevEnable |-> 24,
   eSensorPosition |-> 73, eStatus1FrameRate |-> 94, eStatus2FrameRate |-> 95,
   eStatus3FrameRate |-> 96, eStatus4FrameRate |-> 97, eStatus8FrameRate |-> 109,
   eProfileParamVcompRate |-> 116]

(* SetPgain, GetPgain, ...: for slot 0 the first, for any other the second.*)
Slotted ==
  [Pgain |-> <<"eProfileParamSlot0_P", "eProfileParamSlot1_P">>,
   Igain |-> <<"eProfileParamSlot0_I", "eProfileParamSlot1_I">>,
   Dgain |-> <<"eProfileParamSlot0_D", "eProfileParamSlot1_D">>,
   Fgain |-> <<"eProfileParamSlot0_F", "eProfileParamSlot1_F">>,
   Izone |-> <<"eProfileParamSlot0_IZone", "eProfileParamSlot1_IZone">>,
   CloseLoopRampRate |-> <<"eProfileParamSlot0_CloseLoopRampRate",
                           "eProfileParamSlot1_CloseLoopRampRate">>]

Single ==
  [VoltageCompensationRate |-> "eProfileParamVcompRate",
   SensorPosition |-> "eSensorPosition",
   ForwardSoftLimit |-> "eProfileParamSoftLimitForThreshold",
   ReverseSoftLimit |-> "eProfileParamSoftLimitRevThreshold",
   ForwardSoftEnable |-> "eProfileParamSoftLimitForEnable",
   ReverseSoftEnable |-> "eProfileParamSoftLimitRevEnable"]

(* A Talon has two slots for the gains. *)
ASSUME UsedAssumption ==
  Used \subseteq ((DOMAIN Slotted) \X {0, 1}) \cup ((DOMAIN Single) \X {0})

ParamOf(q, slot) ==
  ParamEnum[IF q \in DOMAIN Single THEN Single[q]
            ELSE Slotted[q][IF slot = 0 THEN 1 ELSE 2]]

(* kStatusFrame_...: which rate SetStatusFrameRate changes.                *)
RateOf == [General |-> "eStatus1FrameRate", Feedback |-> "eStatus2FrameRate",
           Encoder |-> "eStatus3FrameRate", AnalogTempVbat |-> "eStatus4FrameRate",
           PulseWidthMeas |-> "eStatus8FrameRate"]
NoFrame == "no frame"

-----------------------------------------------------------------------------
(* SetParam and GetParamResponse: numbers to words, and back.              *)

Gain(p)  == p \in {1, 2, 3, 11, 12, 13}
FGain(p) == p \in {4, 14}
Ramp(p)  == p = ParamEnum.eProfileParamVcompRate

Between(lo, n, hi) == IF n > hi THEN hi ELSE IF n < lo THEN lo ELSE n
Trunc(n, d) == IF n >= 0 THEN n \div d ELSE -((-n) \div d)

(* The words an argument may become.  512.0 is more than the largest       *)
(* signed 10.22, and so are volts beyond measure: converting them to int   *)
(* is undefined.  The machine's instruction gives the smallest int, a      *)
(* constant folded the largest.                                            *)
RawBits(p, n) ==
  CASE Gain(p)  -> {Trunc(Between(0, n, 1023 * One), 2)}
    [] FGain(p) -> LET r == Trunc(Between(-512 * One, n, 512 * One), 2)
                   IN IF r = Word \div 2 THEN {-(Word \div 2), Word \div 2 - 1} ELSE {r}
    [] Ramp(p)  -> IF n <= 0 THEN {0}
                   ELSE LET r == Trunc(n * Volt, One)
                        IN {Between(1, r, Volt - 1)}
                             \cup (IF r < Word \div 2 THEN {} ELSE {-(Word \div 2)})
    [] OTHER    -> {Trunc(n, One)}

(* A bug: the volts are taken for 10.22 like the gains.                    *)
ValueSame(p, raw) == IF Gain(p) \/ FGain(p) \/ Ramp(p) THEN 2 * raw ELSE raw * One

Value(p, raw) ==
  CASE Gain(p) \/ FGain(p) -> 2 * raw
    [] Ramp(p)             -> Trunc(raw * One, Volt)
    [] OTHER               -> raw * One

(* SetParamRaw: the bytes of a word, lowest first; ProcessStreamMessages   *)
(* puts them together again.  A bug: the bytes in the other order.         *)
BytesHighFirst(raw) == LET w == raw % Word
                       IN [k \in 1..4 |-> (w \div Base^(4 - k)) % Base]

Bytes(raw) ==
  LET w == raw % Word
  IN <<w % Base, (w \div Base) % Base, (w \div (Base * Base)) % Base,
       (w \div (Base * Base * Base)) % Base>>
Joined(b)  == ToSigned(((b[4] * Base + b[3]) * Base + b[2]) * Base + b[1])

-----------------------------------------------------------------------------
(* The Talon keeps words, signed or not as it needs them; its gains are    *)
(* numbered alike in both slots, ten apart.                                *)
TalonOrder == <<"Pgain", "Igain", "Dgain", "Fgain", "Izone", "CloseLoopRampRate">>
Alone == [ForwardSoftLimit |-> 21, ReverseSoftLimit |-> 22,
          ForwardSoftEnable |-> 23, ReverseSoftEnable |-> 24,
          SensorPosition |-> 73, VoltageCompensationRate |-> 116]
TalonParam(q, slot) ==
  IF q \in DOMAIN Alone THEN Alone[q]
  ELSE 10 * slot + CHOOSE k \in DOMAIN TalonOrder : TalonOrder[k] = q
TalonRate == [General |-> 94, Feedback |-> 95, Encoder |-> 96,
              AnalogTempVbat |-> 97, PulseWidthMeas |-> 109]

Params == {ParamEnum[e] : e \in DOMAIN ParamEnum}

VARIABLES
  wire,        \* frames under way to the Talon
  talon,       \* the Talon: the word of each parameter
  response,    \* receivedCAN[PARAM_RESPONSE]
  sigs,        \* _sigs
  msgBuff,     \* the parameter that _msgBuff, never initialised, seems to answer
  meant,       \* ghost: the argument given last for each quantity and rate
  paramGot,    \* what the last getter returned
  calls        \* calls that have sent something

paramVars == <<wire, talon, response, sigs, msgBuff, meant, paramGot, calls>>

Unknown == Word        \* no entry in _sigs
Junk    == Word + 1    \* an entry made of indeterminate memory
NoParam  == 0
NoAnswer == <<>>
NotSet   == {}
Nothing  == [q |-> NoFrame, slot |-> 0, raw |-> Unknown, err |-> "none"]

Quantities == Used \cup ((DOMAIN RateOf) \X {0})

ParamsInit ==
  /\ wire = <<>> /\ talon = [p \in Params |-> 0]
  /\ response = NoAnswer /\ sigs = [p \in Params |-> Unknown]
  /\ msgBuff \in {NoParam} \cup Stray
  /\ meant = [x \in Quantities |-> NotSet] /\ paramGot = Nothing /\ calls = 0

Send(msg) == /\ calls < MaxCalls /\ calls' = calls + 1
             /\ wire' = Append(wire, msg)

SetParamRaw(p, raw) == Send([kind |-> "set", param |-> p, bytes |-> Bytes(raw)])

(* SetPgain, SetSensorPosition, ...: those of an int are given ints.       *)
Whole(p) == ~(Gain(p) \/ FGain(p) \/ Ramp(p))

SetQuantity(q, slot, n) ==
  LET p == ParamOf(q, slot)
  IN /\ Whole(p) => n % One = 0 /\ n \div One \in -(Word \div 2)..(Word \div 2 - 1)
     /\ \E raw \in RawBits(p, n) : SetParamRaw(p, raw)
     /\ meant' = [meant EXCEPT ![<<q, slot>>] = {n}]
     /\ UNCHANGED <<talon, response, sigs, msgBuff, paramGot>>

(* A period is brought into one byte; a frame that has no rate is refused. *)
SetStatusFrameRate(f, ms) ==
  /\ f \in DOMAIN RateOf
  /\ SetParamRaw(ParamEnum[RateOf[f]], Between(1, ms, Base - 1))
  /\ meant' = [meant EXCEPT ![<<f, 0>>] = {ms}]
  /\ UNCHANGED <<talon, response, sigs, msgBuff, paramGot>>

RefuseFrameRate ==
  /\ paramGot' = [Nothing EXCEPT !.err = "CTR_InvalidParamValue"]
  /\ UNCHANGED <<wire, talon, response, sigs, msgBuff, meant, calls>>

ClearStickyFaults == /\ Send([kind |-> "clear", zero |-> 0])
                     /\ UNCHANGED <<talon, response, sigs, msgBuff, meant, paramGot>>

(* ProcessStreamMessages: the answer received last goes into _sigs.  If    *)
(* there was none, so does what the buffer happens to hold.                *)
Process ==
  sigs' = CASE response # NoAnswer -> [sigs EXCEPT ![response[1]] = Joined(response[2])]
            [] response = NoAnswer /\ msgBuff # NoParam -> [sigs EXCEPT ![msgBuff] = Junk]
            [] OTHER -> sigs

RequestParam(p) == /\ Process
                   /\ Send([kind |-> "request", param |-> p])
                   /\ UNCHANGED <<talon, response, msgBuff, meant, paramGot>>

(* GetPgain, ...: GetParamResponse.                                        *)
GetQuantity(q, slot) ==
  /\ Process
  /\ LET raw == sigs'[ParamOf(q, slot)]
     IN paramGot' = [q |-> q, slot |-> slot, raw |-> raw,
                err |-> IF raw = Unknown THEN "CTR_SigNotUpdated" ELSE "CTR_OKAY"]
  /\ UNCHANGED <<wire, talon, response, msgBuff, meant, calls>>

(* The Talon takes a frame, and answers one about a parameter; a zeroing   *)
(* flag would zero its sensor.                                             *)
TalonTakes ==
  /\ wire # <<>> /\ wire' = Tail(wire)
  /\ LET m == Head(wire)
     IN CASE m.kind = "set" ->
               /\ talon' = [talon EXCEPT ![m.param] = Joined(m.bytes) % Word]
               /\ response' = <<m.param, m.bytes>>
          [] m.kind = "request" ->
               /\ response' = <<m.param, Bytes(talon[m.param])>>
               /\ UNCHANGED talon
          [] m.kind = "clear" ->
               /\ talon' = IF m.zero = 1 THEN [talon EXCEPT ![73] = 0] ELSE talon
               /\ UNCHANGED response
  /\ UNCHANGED <<sigs, msgBuff, meant, paramGot, calls>>

ParamsNext ==
  \/ \E x \in Used, n \in Arguments : SetQuantity(x[1], x[2], n)
  \/ \E f \in DOMAIN RateOf, ms \in Periods : SetStatusFrameRate(f, ms)
  \/ RefuseFrameRate \/ ClearStickyFaults
  \/ \E x \in Used : GetQuantity(x[1], x[2]) \/ RequestParam(ParamOf(x[1], x[2]))
  \/ TalonTakes

ParamsSpec == ParamsInit /\ [][ParamsNext]_paramVars

-----------------------------------------------------------------------------
(* The gains that are unsigned ("always positive", CanTalonSRX.cpp 53).    *)
PositiveGains == {"Pgain", "Igain", "Dgain"}

(* The arguments the documentation allows for a quantity: unsigned and     *)
(* signed 10.22, volts of 0.8, a period of one byte.                       *)
Allowed(q, n) ==
  CASE q \in PositiveGains             -> 0 <= n /\ n <= 1023 * One
    [] q = "Fgain"                     -> -512 * One <= n /\ n < 512 * One
    [] q = "VoltageCompensationRate"   -> 0 <= n /\ n < One
    [] q \in DOMAIN RateOf             -> 1 <= n /\ n < Base
    [] OTHER                           -> TRUE

(* The largest error of a quantity is less than its smallest step.         *)
Precision(q) == CASE q \in PositiveGains \cup {"Fgain"} -> 2
                  [] q = "VoltageCompensationRate"      -> One \div Volt
                  [] OTHER                              -> 1
Near(q, v, n) == v - n < Precision(q) /\ n - v < Precision(q)

(* What a word means to the Talon.                                         *)
Means(q, raw) == CASE q \in PositiveGains \cup {"Fgain"} -> 2 * raw
                   [] q = "VoltageCompensationRate"      -> raw * (One \div Volt)
                   [] q \in DOMAIN RateOf                -> raw
                   [] OTHER                              -> raw * One
TalonHas(x) ==
  LET word == talon[IF x[1] \in DOMAIN RateOf THEN TalonRate[x[1]] ELSE TalonParam(x[1], x[2])]
  IN IF x[1] \in PositiveGains \cup DOMAIN RateOf THEN word ELSE ToSigned(word)

(* When all frames have been taken, the Talon works with what was set last *)
(* of each gain, limit and rate, to the precision of the format, whichever *)
(* others were set or flags cleared in between (SetParam, SetParamRaw,     *)
(* SetStatusFrameRate, ClearStickyFaults).                                 *)
SetIsInForce ==
  wire = <<>> => \A x \in Quantities : \A n \in meant[x] :
                   Allowed(x[1], n) => Near(x[1], Means(x[1], TalonHas(x)), n)

(* The number a getter returns for one that was set: GetParamResponse      *)
(* takes every word for a signed one, so that an unsigned gain of 512 or   *)
(* more comes back 1024 less, negative.                                    *)
Returned(q, n) == IF q \in PositiveGains /\ n >= 512 * One THEN n - 1024 * One ELSE n

(* Of every argument allowed, a getter returns the number that was set, to *)
(* the precision of the format, but for the gains it misreads, if the      *)
(* answer to that set is the last the client received (SetParam,           *)
(* ProcessStreamMessages, GetParamResponse).                               *)
ReadsRight ==
  \A x \in Used : \A n \in meant[x] :
    /\ wire = <<>> /\ Allowed(x[1], n)
    /\ response # NoAnswer /\ response[1] = TalonParam(x[1], x[2])
    /\ GetQuantity(x[1], x[2])
    => /\ paramGot'.err = "CTR_OKAY"
       /\ Near(x[1], Value(ParamOf(x[1], x[2]), paramGot'.raw), Returned(x[1], n))
ReadsBack == [][ReadsRight]_paramVars
=============================================================================
