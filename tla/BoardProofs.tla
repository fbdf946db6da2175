------------------------------ MODULE BoardProofs ------------------------------
(***************************************************************************)
(* What runs on the board beside the bridge's sketch: the setup of the CAN *)
(* controller, for every caller's arguments and any number of mode changes *)
(* that do not happen; the echo test, for every width of a byte and any    *)
(* delay; and the driver with the controller, for every number of frames,  *)
(* calls and restarts: they are a CanPort, and what sendMsg reports is     *)
(* true.                                                                   *)
(***************************************************************************)
EXTENDS McpCan, McpSetup, EchoCheck, SequenceTheorems, FiniteSetTheorems, TLAPS

-----------------------------------------------------------------------------
(* Registers.                                                              *)

(* Every row of the table is a timing the controller accepts, at the rate  *)
(* the row is named after.                                                 *)
LEMMA TimingRows ==
  \A s \in Speed : LegalTiming(Timing[s]) /\ Near(BitRate(Timing[s]), Named[s])
<1> SUFFICES ASSUME NEW s \in Speed
             PROVE  LegalTiming(Timing[s]) /\ Near(BitRate(Timing[s]), Named[s])
  OBVIOUS
<1> USE DEF LegalTiming, Near, BitRate, Oscillator, Prescaler, Jump, Propagation, Phase1,
        Phase2, Quanta, Timing, Named
<1>1. CASE s = 1
  BY <1>1, SMT
<1>2. CASE s = 2
  BY <1>2, SMT
<1>3. CASE s = 3
  BY <1>3, SMT
<1>4. CASE s = 4
  BY <1>4, SMT
<1>5. CASE s = 5
  BY <1>5, SMT
<1>6. CASE s = 6
  BY <1>6, SMT
<1>7. CASE s = 7
  BY <1>7, SMT
<1>8. CASE s = 8
  BY <1>8, SMT
<1>9. CASE s = 9
  BY <1>9, SMT
<1>10. CASE s = 10
  BY <1>10, SMT
<1>11. CASE s = 11
  BY <1>11, SMT
<1>12. CASE s = 12
  BY <1>12, SMT
<1>13. CASE s = 13
  BY <1>13, SMT
<1>14. CASE s = 14
  BY <1>14, SMT
<1>15. CASE s = 15
  BY <1>15, SMT
<1>16. CASE s = 16
  BY <1>16, SMT
<1> HIDE DEF LegalTiming, Near, BitRate, Timing, Named
<1> QED
  BY <1>1, <1>2, <1>3, <1>4, <1>5, <1>6, <1>7, <1>8, <1>9, <1>10, <1>11, <1>12,
     <1>13, <1>14, <1>15, <1>16, SMT DEF Speed

(* What mcp2515_read_id reads is what mcp2515_write_id wrote. *)
LEMMA StdRoundTrip == \A id \in StdId : IdOf(IdRegisters(0, id)) = <<0, id>>
BY SMT DEF StdId, IdOf, IdRegisters, HasExide, EXIDE

LEMMA ExtRoundTrip == \A id \in ExtId : IdOf(IdRegisters(1, id)) = <<1, id>>
<1> SUFFICES ASSUME NEW id \in ExtId PROVE IdOf(IdRegisters(1, id)) = <<1, id>>
  OBVIOUS
<1> DEFINE a == id % 256
           b == (id \div 2^8) % 256
           c == (id \div 2^16) % 4
           d == (id \div 2^18) % 8
           e == id \div 2^21
<1>1. id = (((e * 8 + d) * 4 + c) * 256 + b) * 256 + a
  <2>1. id = 256 * (id \div 2^8) + a
    BY SMT DEF ExtId
  <2>2. id \div 2^8 = 256 * (id \div 2^16) + b
    BY SMT DEF ExtId
  <2>3. id \div 2^16 = 4 * (id \div 2^18) + c
    BY SMT DEF ExtId
  <2>4. id \div 2^18 = 8 * e + d
    BY SMT DEF ExtId
  <2>5. /\ id \div 2^8 \in Int /\ id \div 2^16 \in Int /\ id \div 2^18 \in Int
        /\ a \in Int /\ b \in Int /\ c \in Int /\ d \in Int /\ e \in Int
    BY SMT DEF ExtId
  <2> HIDE DEF a, b, c, d, e
  <2> QED BY <2>1, <2>2, <2>3, <2>4, <2>5, SMT
<1>2. /\ a \in 0..255 /\ b \in 0..255 /\ c \in 0..3 /\ d \in 0..7 /\ e \in 0..255
      /\ e % 256 = e
  BY SMT DEF ExtId
<1> HIDE DEF a, b, c, d, e
<1>3. LET sidl == d * 32 + 8 + c
      IN  (sidl \div 8) % 2 = 1 /\ sidl \div 32 = d /\ sidl % 4 = c
  BY <1>2, SMT
<1>4. IdRegisters(1, id) = [sidh |-> e % 256, sidl |-> d * 32 + 8 + c, eid8 |-> b, eid0 |-> a]
  BY DEF IdRegisters, EXIDE, a, b, c, d, e
<1>5. HasExide(d * 32 + 8 + c)
  BY <1>2, <1>3, SMT DEF HasExide, EXIDE
<1> DEFINE r == IdRegisters(1, id)
<1>6. r.sidh = e /\ r.sidl = d * 32 + 8 + c /\ r.eid8 = b /\ r.eid0 = a
  BY <1>2, <1>4, SMT
<1> HIDE DEF r
<1>7. IdOf(r) = <<1, (((e * 8 + d) * 4 + c) * 256 + b) * 256 + a>>
  BY <1>2, <1>3, <1>5, <1>6, SMT DEF IdOf
<1> QED BY <1>1, <1>7, SMT DEF r

LEMMA ModShift ==
  ASSUME NEW n \in Nat \ {0}, NEW a \in Int
  PROVE  (a + n) % n = a % n
<1> DEFINE q == a \div n
           r == a % n
           u == (a + n) \div n
           v == (a + n) % n
<1>1. a = n * q + r /\ r \in 0..(n - 1) /\ q \in Int
  BY SMT
<1>2. a + n = n * u + v /\ v \in 0..(n - 1) /\ u \in Int
  BY SMT
<1> HIDE DEF q, r, u, v
<1>3. n * (u - q - 1) = r - v
  BY <1>1, <1>2, SMT
<1>4. u - q - 1 = 0
  BY <1>1, <1>2, <1>3, SMT
<1>5. r = v
  BY <1>1, <1>2, <1>3, <1>4
<1> QED BY <1>5 DEF r, v

-----------------------------------------------------------------------------
(* Setup.                                                                  *)

LEMMA RoundTrip ==
  ASSUME NEW id \in Ids
  PROVE  IdOf(IdRegisters(id[1], id[2])) = id
<1>1. id \in ({0} \X StdId) \cup ({1} \X ExtId)
  BY SetupAssumption
<1>2. CASE id \in {0} \X StdId
  BY <1>2, StdRoundTrip
<1>3. CASE id \in {1} \X ExtId
  BY <1>3, ExtRoundTrip
<1> QED BY <1>1, <1>2, <1>3

LEMMA WrittenIsSet == \A e, id : IdRegisters(e, id) # Unset
BY DEF IdRegisters, Unset

(* Where setup() is: before mcp2515_configRate, after it, after begin(),   *)
(* past writing the mask, past writing the filter.                         *)
BeforeRate == {"reset", "config", "rate"}
AfterRate  == {"buffers", "normal"}
PastMask   == {"closeMask", "filter", "writeFilter", "closeFilter", "loop"}
PastFilter == {"closeFilter", "loop"}
AfterBegin == {"mask", "writeMask"} \cup PastMask

ArgsTypeOK ==
  /\ speed \in Speeds /\ mask \in Ids /\ filter \in Ids /\ num \in Filters
  /\ setupPc \in BeforeRate \cup AfterRate \cup AfterBegin
  /\ DOMAIN rxf = 0..5

(* begin() reports CAN_OK once, and leaves the timing of the speed behind. *)
RateInv ==
  /\ begun = "CAN_OK" => setupPc \in AfterBegin
  /\ setupPc \in AfterRate => speed \in Speed
  /\ setupPc \in AfterRate \cup AfterBegin /\ speed \in Speed => cnf = Timing[speed]

RegistersInv ==
  /\ rxm # Unset => rxm = IdRegisters(mask[1], mask[2])
  /\ \A n \in DOMAIN rxf :
       rxf[n] # Unset => n = num /\ rxf[n] = IdRegisters(filter[1], filter[2])

(* What has been done so far, unless a refused change of mode skipped it.  *)
ThroughInv ==
  /\ setupPc \in {"normal"} \cup AfterBegin /\ speed \in Speed => txCleared /\ rollover
  /\ setupPc \in PastMask /\ ~deaf => rxm # Unset
  /\ setupPc \in PastFilter /\ ~deaf => (num \in DOMAIN rxf => rxf[num] # Unset)
  /\ setupPc = "loop" /\ ~deaf => setupMode = "normal"

SetupInv == deaf \in BOOLEAN /\ ArgsTypeOK /\ RateInv /\ RegistersInv /\ ThroughInv

LEMMA SetupInvInit == SetupInit => SetupInv
BY DEF SetupInit, SetupInv, ArgsTypeOK, RateInv, RegistersInv, ThroughInv, Unset,
       BeforeRate, AfterRate, AfterBegin, PastMask, PastFilter

LEMMA SetupInvNext == SetupInv /\ [SetupNext]_setupVars => SetupInv'
<1> SUFFICES ASSUME SetupInv, [SetupNext]_setupVars PROVE SetupInv'
  OBVIOUS
<1> USE DEF SetupInv, ArgsTypeOK, RateInv, RegistersInv, ThroughInv,
        BeforeRate, AfterRate, AfterBegin, PastMask, PastFilter, args, rest, tallies
<1>1. CASE ResetController
  BY <1>1 DEF ResetController
<1>2. CASE EnterConfig
  BY <1>2 DEF EnterConfig
<1>3. CASE ConfigRate
  BY <1>3 DEF ConfigRate
<1>4. CASE InitBuffers
  BY <1>4 DEF InitBuffers
<1>5. CASE EnterNormal
  BY <1>5 DEF EnterNormal
<1>6. CASE OpenMask
  BY <1>6 DEF OpenMask, OpenFor
<1>7. CASE WriteMask
  BY <1>7, WrittenIsSet DEF WriteMask
<1>8. CASE CloseMask
  BY <1>8 DEF CloseMask, Close
<1>9. CASE OpenFilter
  BY <1>9 DEF OpenFilter, OpenFor
<1>10. CASE WriteFilter
  BY <1>10, WrittenIsSet DEF WriteFilter
<1>11. CASE CloseFilter
  BY <1>11 DEF CloseFilter, Close, SetMode
<1>12. CASE UNCHANGED setupVars
  BY <1>12 DEF setupVars, chip
<1> QED
  BY <1>1, <1>2, <1>3, <1>4, <1>5, <1>6, <1>7, <1>8, <1>9, <1>10, <1>11, <1>12
  DEF SetupNext, Begin, Masks

LEMMA SetupInvCorrect == SetupSpec => []SetupInv
BY SetupInvInit, SetupInvNext, PTL DEF SetupSpec

(* Once begin() has reported CAN_OK for a speed it knows, the controller   *)
(* runs at the rate the speed is named after: configRate, mcp_can.cpp      *)
(* 160-276, and the table of mcp_can_dfs.h, 250-319.                       *)
THEOREM RateAsNamedCorrect == SetupSpec => []RateAsNamed
<1>1. SetupInv => RateAsNamed
  <2> SUFFICES ASSUME SetupInv, begun = "CAN_OK", speed \in Speed
               PROVE  LegalTiming(cnf) /\ Near(BitRate(cnf), Named[speed])
    BY DEF RateAsNamed
  <2>1. cnf = Timing[speed]
    BY DEF SetupInv, RateInv
  <2> QED BY <2>1, TimingRows
<1> QED BY <1>1, SetupInvCorrect, PTL

(* Masks and filters read back as the identifiers that were given: for     *)
(* every identifier of 11 or of 29 bits, mcp_can.cpp 420-470.              *)
THEOREM IdsAsGivenCorrect == SetupSpec => []IdsAsGiven
<1>1. SetupInv => IdsAsGiven
  BY RoundTrip DEF SetupInv, ArgsTypeOK, RegistersInv, IdsAsGiven
<1> QED BY <1>1, SetupInvCorrect, PTL

(* When setup() is over frames get through, unless a change of mode in     *)
(* init_Mask or init_Filt was refused: mcp_can.cpp 579-693.                *)
THEOREM LetsThroughCorrect == SetupSpec => []LetsThrough
<1>1. SetupInv => LetsThrough
  BY DEF SetupInv, ThroughInv, AfterBegin, PastMask, PastFilter, LetsThrough
<1> QED BY <1>1, SetupInvCorrect, PTL

-----------------------------------------------------------------------------
(* The echo test.                                                          *)

EchoTypeOK ==
  /\ echoPc \in {"write", "wait"} /\ count \in EchoByte /\ faults \in 0..MaxFaults
  /\ toSketch \in Seq(EchoByte) /\ toHost \in Seq(EchoByte)

(* The bytes under way were written one after the other: k counts ago, the *)
(* newest of them none ago while the host waits, and one once it goes on.  *)
Newest == IF echoPc = "wait" THEN 0 ELSE 1
Ago(k) == (count - k) % ByteValues
EchoInv ==
  faults = 0 =>
    /\ \A i \in 1..Len(toSketch) : toSketch[i] = Ago(Newest + Len(toSketch) - i)
    /\ \A i \in 1..Len(toHost) :
         toHost[i] = Ago(Newest + Len(toSketch) + Len(toHost) - i)

LEMMA CountType == \A c \in EchoByte : c % ByteValues = c /\ (c + 1) % ByteValues \in EchoByte
BY EchoAssumption, SMT DEF EchoByte

(* One count further everything was written one count earlier. *)
LEMMA CountedOn ==
  ASSUME count \in EchoByte, count' = NextCount
  PROVE  \A k \in Int : Ago(k + 1)' = Ago(k)
<1> SUFFICES ASSUME NEW k \in Int PROVE (NextCount - (k + 1)) % ByteValues = (count - k) % ByteValues
  BY DEF Ago
<1>1. count \in Int /\ ByteValues \in Nat \ {0}
  BY EchoAssumption DEF EchoByte
<1>2. NextCount = IF count + 1 < ByteValues THEN count + 1 ELSE 0
  BY EchoAssumption, SMT DEF NextCount, EchoByte
<1>3. CASE count + 1 < ByteValues
  BY <1>1, <1>2, <1>3
<1>4. CASE count + 1 = ByteValues
  <2> DEFINE d == 0 - (k + 1)
  <2>1. count - k = d + ByteValues /\ NextCount - (k + 1) = d /\ d \in Int
    BY <1>1, <1>2, <1>4
  <2> HIDE DEF d
  <2>2. (d + ByteValues) % ByteValues = d % ByteValues
    BY <1>1, <2>1, ModShift
  <2> QED BY <2>1, <2>2
<1> QED BY <1>1, <1>3, <1>4 DEF EchoByte

LEMMA EchoTypeNext == EchoTypeOK /\ [EchoNext]_echoVars => EchoTypeOK'
<1> SUFFICES ASSUME EchoTypeOK, [EchoNext]_echoVars PROVE EchoTypeOK'
  OBVIOUS
<1> USE EchoAssumption DEF EchoTypeOK
<1>1. CASE WriteByte
  BY <1>1 DEF WriteByte
<1>2. CASE Compare
  BY <1>2, CountType DEF Compare, NextCount
<1>3. CASE Timeout
  BY <1>3, CountType DEF Timeout, NextCount
<1>4. CASE Echo
  BY <1>4 DEF Echo
<1>5. CASE Lose
  <2>1. /\ toSketch # <<>> => Tail(toSketch) \in Seq(EchoByte)
        /\ toHost # <<>> => Tail(toHost) \in Seq(EchoByte)
    OBVIOUS
  <2>2. toSketch' \in Seq(EchoByte) /\ toHost' \in Seq(EchoByte)
    BY <1>5, <2>1 DEF Lose
  <2> QED BY <1>5, <2>2 DEF Lose
<1>6. CASE Damage
  <2>1. ASSUME NEW b \in EchoByte, NEW q \in Seq(EchoByte), q # <<>>
        PROVE  <<b>> \o Tail(q) \in Seq(EchoByte)
    BY <2>1
  <2>2. toSketch' \in Seq(EchoByte) /\ toHost' \in Seq(EchoByte)
    BY <1>6, <2>1 DEF Damage
  <2> QED BY <1>6, <2>2 DEF Damage
<1>7. CASE UNCHANGED echoVars
  BY <1>7 DEF echoVars
<1> QED BY <1>1, <1>2, <1>3, <1>4, <1>5, <1>6, <1>7 DEF EchoNext, Host

LEMMA EchoInvNext == EchoTypeOK /\ EchoInv /\ [EchoNext]_echoVars => EchoInv'
<1> SUFFICES ASSUME EchoTypeOK, EchoInv, [EchoNext]_echoVars, faults' = 0 PROVE EchoInv'
  BY DEF EchoInv
<1>1. faults = 0 /\ (Lose \/ Damage => FALSE)
  BY DEF EchoTypeOK, EchoNext, Host, WriteByte, Compare, Timeout, Echo, Lose, Damage, echoVars
<1>2. CASE WriteByte
  <2>1. /\ echoPc = "write" /\ echoPc' = "wait" /\ UNCHANGED <<count, toHost>>
        /\ Len(toSketch') = Len(toSketch) + 1 /\ toSketch'[Len(toSketch) + 1] = count
        /\ \A i \in 1..Len(toSketch) : toSketch'[i] = toSketch[i]
    BY <1>2 DEF WriteByte, EchoTypeOK
  <2>2. \A k : Ago(k)' = Ago(k)
    BY <2>1 DEF Ago
  <2>3. Ago(0) = count
    BY CountType DEF Ago, EchoTypeOK, EchoByte
  <2>4. Len(toSketch) \in Nat /\ Len(toHost) \in Nat
    BY DEF EchoTypeOK
  <2>5. ASSUME NEW i \in 1..Len(toSketch')
        PROVE  toSketch'[i] = Ago(Newest + Len(toSketch) - i)'
    BY <1>1, <2>1, <2>2, <2>3, <2>4 DEF EchoInv, Newest
  <2>6. ASSUME NEW i \in 1..Len(toHost')
        PROVE  toHost'[i] = Ago(Newest + Len(toSketch) + Len(toHost) - i)'
    BY <1>1, <2>1, <2>2, <2>4 DEF EchoInv, Newest
  <2> QED BY <2>5, <2>6 DEF EchoInv
<1>3. CASE Compare \/ Timeout
  <2>1. /\ echoPc = "wait" /\ echoPc' = "write" /\ count' = NextCount /\ UNCHANGED toSketch
        /\ \/ UNCHANGED toHost
           \/ /\ Len(toHost) = Len(toHost') + 1
              /\ \A i \in 1..Len(toHost') : toHost'[i] = toHost[i + 1]
    BY <1>3 DEF Compare, Timeout, EchoTypeOK
  <2>2. \A k \in Int : Ago(k + 1)' = Ago(k)
    BY <2>1, CountedOn DEF EchoTypeOK
  <2>3. Len(toSketch) \in Nat /\ Len(toHost) \in Nat /\ Len(toHost') \in Nat
    BY EchoTypeNext DEF EchoTypeOK
  <2>4. Newest = 0 /\ Newest' = 1
    BY <2>1 DEF Newest
  <2>5. \A n \in Int : (count' - (n + 1)) % ByteValues = (count - n) % ByteValues
    BY <2>2 DEF Ago
  <2>6. ASSUME NEW i \in 1..Len(toSketch')
        PROVE  toSketch'[i] = Ago(Newest + Len(toSketch) - i)'
    <3> DEFINE k == Len(toSketch) - i
    <3>1. k \in Int /\ toSketch'[i] = Ago(k)
      BY <1>1, <2>1, <2>3, <2>4 DEF EchoInv
    <3>2. (count' - (k + 1)) % ByteValues = (count - k) % ByteValues
      BY <2>5, <3>1
    <3>3. (Newest + Len(toSketch) - i)' = k + 1
      BY <2>1, <2>3, <2>4
    <3> QED BY <3>1, <3>2, <3>3 DEF Ago
  <2>7. ASSUME NEW i \in 1..Len(toHost')
        PROVE  toHost'[i] = Ago(Newest + Len(toSketch) + Len(toHost) - i)'
    <3>1. PICK j \in 1..Len(toHost) :
            toHost'[i] = toHost[j] /\ Len(toHost') - i = Len(toHost) - j
      <4>1. CASE UNCHANGED toHost
        BY <2>3, <4>1
      <4>2. CASE /\ Len(toHost) = Len(toHost') + 1
                 /\ \A n \in 1..Len(toHost') : toHost'[n] = toHost[n + 1]
        <5>1. i + 1 \in 1..Len(toHost) /\ toHost'[i] = toHost[i + 1]
              /\ Len(toHost') - i = Len(toHost) - (i + 1)
          BY <2>3, <4>2
        <5> QED BY <5>1
      <4> QED BY <2>1, <4>1, <4>2
    <3> DEFINE k == Len(toSketch) + Len(toHost) - j
    <3>2. k \in Int /\ toHost'[i] = Ago(k)
      BY <1>1, <2>3, <2>4, <3>1 DEF EchoInv
    <3>4. (count' - (k + 1)) % ByteValues = (count - k) % ByteValues
      BY <2>5, <3>2
    <3>5. (Newest + Len(toSketch) + Len(toHost) - i)' = k + 1
      BY <2>1, <2>3, <2>4, <3>1
    <3> QED BY <3>2, <3>4, <3>5 DEF Ago
  <2> QED BY <2>6, <2>7 DEF EchoInv
<1>4. CASE Echo
  <2>1. /\ UNCHANGED <<echoPc, count>>
        /\ Len(toSketch) = Len(toSketch') + 1 /\ Len(toHost') = Len(toHost) + 1
        /\ toHost'[Len(toHost) + 1] = toSketch[1]
        /\ \A i \in 1..Len(toSketch') : toSketch'[i] = toSketch[i + 1]
        /\ \A i \in 1..Len(toHost) : toHost'[i] = toHost[i]
    BY <1>4 DEF Echo, EchoTypeOK
  <2>2. \A k : Ago(k)' = Ago(k)
    BY <2>1 DEF Ago
  <2>3. Len(toSketch) \in Nat /\ Len(toHost) \in Nat /\ Len(toSketch') \in Nat
    BY EchoTypeNext DEF EchoTypeOK
  <2>4. Newest \in {0, 1} /\ Newest' = Newest
    BY <2>1 DEF Newest
  <2>5. ASSUME NEW i \in 1..Len(toSketch')
        PROVE  toSketch'[i] = Ago(Newest + Len(toSketch) - i)'
    <3>1. i + 1 \in 1..Len(toSketch) /\ toSketch'[i] = toSketch[i + 1]
      BY <2>1, <2>3
    <3>2. toSketch'[i] = Ago(Newest + Len(toSketch) - (i + 1))
      BY <1>1, <3>1 DEF EchoInv
    <3>3. (Newest + Len(toSketch) - i)' = Newest + Len(toSketch) - (i + 1)
      BY <2>1, <2>3, <2>4
    <3> QED BY <2>1, <3>2, <3>3 DEF Ago
  <2>6. ASSUME NEW i \in 1..Len(toHost')
        PROVE  toHost'[i] = Ago(Newest + Len(toSketch) + Len(toHost) - i)'
    <3>1. CASE i \in 1..Len(toHost)
      <4>1. toHost'[i] = Ago(Newest + Len(toSketch) + Len(toHost) - i)
        BY <1>1, <2>1, <3>1 DEF EchoInv
      <4>2. (Newest + Len(toSketch) + Len(toHost) - i)'
              = Newest + Len(toSketch) + Len(toHost) - i
        BY <2>1, <2>3, <2>4
      <4> QED BY <2>1, <4>1, <4>2 DEF Ago
    <3>2. CASE i = Len(toHost) + 1
      <4>1. toHost'[i] = Ago(Newest + Len(toSketch) - 1)
        BY <1>1, <2>1, <2>3, <3>2 DEF EchoInv
      <4>2. (Newest + Len(toSketch) + Len(toHost) - i)' = Newest + Len(toSketch) - 1
        BY <2>1, <2>3, <2>4, <3>2
      <4> QED BY <2>1, <4>1, <4>2 DEF Ago
    <3> QED BY <2>1, <2>3, <3>1, <3>2
  <2> QED BY <2>5, <2>6 DEF EchoInv
<1>5. CASE UNCHANGED echoVars
  BY <1>5 DEF echoVars, EchoInv, Newest, Ago
<1> QED BY <1>1, <1>2, <1>3, <1>4, <1>5 DEF EchoNext, Host

LEMMA EchoInvCorrect == EchoSpec => [](EchoTypeOK /\ EchoInv)
<1>1. EchoInit => EchoTypeOK /\ EchoInv
  BY EchoAssumption DEF EchoInit, EchoTypeOK, EchoInv, EchoByte
<1> QED BY <1>1, EchoTypeNext, EchoInvNext, PTL DEF EchoSpec

(* On a line that does no harm each byte the host compares is one it wrote,*)
(* as many counts ago as there are bytes behind: checkSerialGoodness.cpp   *)
(* 99-108.                                                                 *)
THEOREM EchoIsEarlierCorrect == EchoSpec => []EchoIsEarlier
<1>1. EchoTypeOK /\ EchoInv => EchoIsEarlier
  <2> SUFFICES ASSUME EchoTypeOK, EchoInv, faults = 0, echoPc = "wait", toHost # <<>>
               PROVE  Head(toHost) = (count - Behind) % ByteValues
    BY DEF EchoIsEarlier
  <2>1. Len(toHost) \in Nat /\ Len(toHost) >= 1 /\ Head(toHost) = toHost[1]
        /\ Len(toSketch) \in Nat
    BY DEF EchoTypeOK
  <2>2. toHost[1] = Ago(Len(toSketch) + Len(toHost) - 1)
    BY <2>1 DEF EchoInv, Newest
  <2> QED BY <2>1, <2>2 DEF Ago, Behind, UnderWay
<1> QED BY <1>1, EchoInvCorrect, PTL

(* A byte that came late is never caught up with: only a lost byte makes   *)
(* the number behind smaller (checkSerialGoodness.cpp 65-108).             *)
THEOREM BehindForEverCorrect == EchoSpec => BehindForEver
<1>1. ASSUME EchoTypeOK, [EchoNext]_echoVars, Behind' < Behind
      PROVE  faults' > faults
  <2> USE DEF EchoTypeOK, Behind, UnderWay
  <2>1. CASE WriteByte
    BY <1>1, <2>1 DEF WriteByte
  <2>2. CASE Compare \/ Timeout
    BY <1>1, <2>2 DEF Compare, Timeout
  <2>3. CASE Echo
    BY <1>1, <2>3 DEF Echo
  <2>4. CASE Lose
    BY <1>1, <2>4 DEF Lose
  <2>5. CASE Damage
    BY <1>1, <2>5 DEF Damage
  <2>6. CASE UNCHANGED echoVars
    BY <1>1, <2>6 DEF echoVars
  <2> QED BY <1>1, <2>1, <2>2, <2>3, <2>4, <2>5, <2>6 DEF EchoNext, Host
<1>2. EchoTypeOK /\ [EchoNext]_echoVars => [Behind' < Behind => faults' > faults]_echoVars
  BY <1>1
<1> QED BY <1>2, EchoInvCorrect, PTL DEF EchoSpec, BehindForEver

-----------------------------------------------------------------------------
(* The driver and the controller.                                          *)

(* The transactions of readMsg, by what m holds already, and of sendMsg,   *)
(* by what the transmit buffer holds already.                              *)
Reading  == {"id", "rtr", "dlc", "data", "clear"}
HasId    == {"rtr", "dlc", "data", "clear"}
HasRtr   == {"dlc", "data", "clear"}
HasDlc   == {"data", "clear"}
InSend   == {"free", "wdata", "wdlc", "wid", "start", "poll"}
Unposted == {"free", "wdata", "wdlc", "wid", "start"}
Filling  == {"wdata", "wdlc", "wid", "start"}
DataIn   == {"wdlc", "wid", "start"}
DlcIn    == {"wid", "start"}

PcValue == {"setup", "begin", "idle", "status"} \cup Reading \cup InSend
Outcome == {CAN_OK, CAN_GETTXBFTIMEOUT, CAN_SENDMSGTIMEOUT, Running, Dropped}
Content == [id : Nat, rtr : BOOLEAN, dlc : Nat, dta : Nat]
RxSlot  == [full : BOOLEAN, id : Nat, rtr : BOOLEAN, dlc : Nat, dta : Nat]
TxSlot  == [req : BOOLEAN, id : Nat, rtr : BOOLEAN, dlc : Nat, dta : Nat]

(* Types.  The polls are counted up to TIMEOUTVALUE and tested for         *)
(* equality with it, so it matters that the count never gets past.         *)
DriverTypeOK ==
  /\ mode \in {"config", "normal"} /\ pc \in PcValue
  /\ rx \in [RxBuf -> RxSlot] /\ tx \in [TxBuf -> TxSlot] /\ m \in Content
  /\ buf \in TxBuf /\ (pc \in Reading => buf \in RxBuf)
  /\ tries \in 0..TIMEOUTVALUE /\ (pc \in {"free", "poll"} => tries < TIMEOUTVALUE)
  /\ arrived \in 0..MaxArrivals /\ given \in 0..MaxSends /\ resets \in 0..MaxResets
  /\ taken \in Seq(Content) /\ sent \in Seq(Content)
  /\ result \in Seq(Outcome) /\ Len(result) = given /\ (pc \in InSend => given >= 1)
  /\ posted \subseteq Nat

(* A receive buffer holds a whole frame, and m as much of it as has been   *)
(* read.  While buffer 1 is read, what comes into buffer 0 is newer.       *)
WholeIn(b) == rx[b].full =>
                rx[b].id \in 1..arrived /\ rx[b].dlc = rx[b].id /\ rx[b].dta = rx[b].id
RxInv ==
  /\ \A b \in RxBuf : WholeIn(b) /\ (rx[b].full => rx[b].rtr \in Remote)
  /\ rx[0].full /\ rx[1].full => rx[0].id # rx[1].id
  /\ pc = "status" => \E b \in RxBuf : rx[b].full
  /\ pc \in Reading => /\ rx[buf].full
                       /\ buf = 1 /\ rx[0].full => rx[0].id > rx[1].id
  /\ pc \in HasId => m.id = rx[buf].id
  /\ pc \in HasRtr => m.rtr = rx[buf].rtr
  /\ pc \in HasDlc => m.dlc = rx[buf].dlc
  /\ pc = "clear" => m.dta = rx[buf].dta

(* A transmit was started for every frame that waits in a transmit buffer  *)
(* or has left; no frame is in two places.                                 *)
TxInv ==
  /\ posted \subseteq 1..given
  /\ \A b \in TxBuf : tx[b].req =>
       tx[b].id \in posted /\ tx[b].dlc = tx[b].id /\ tx[b].dta = tx[b].id
  /\ \A a, b \in TxBuf : tx[a].req /\ tx[b].req /\ tx[a].id = tx[b].id => a = b
  /\ \A i \in DOMAIN sent :
       sent[i].id \in posted /\ \A b \in TxBuf : tx[b].req => tx[b].id # sent[i].id
  /\ pc \in Unposted => /\ given \notin posted
                        /\ m.id = given /\ m.dlc = given /\ m.dta = given
  /\ pc \in Filling => ~tx[buf].req
  /\ pc \in DataIn => tx[buf].dta = given
  /\ pc \in DlcIn => tx[buf].dlc = given
  /\ pc = "start" => tx[buf].id = given
  /\ pc = "poll" => given \in posted /\ (tx[buf].req => tx[buf].id = given)

(* What is known of call number k.                                         *)
CallInv(k) ==
  /\ result[k] = Running => k = given /\ pc \in InSend
  /\ result[k] = CAN_OK => HasLeft(k)
  /\ result[k] = CAN_GETTXBFTIMEOUT => k \notin posted
  /\ result[k] = CAN_SENDMSGTIMEOUT => HasLeft(k) \/ Waits(k) \/ resets > 0
  /\ Waits(k) => result[k] = CAN_SENDMSGTIMEOUT \/ (k = given /\ pc \in {"poll", "setup"})
ResultInv ==
  /\ \A k \in 1..given : CallInv(k)
  /\ pc \in InSend => result[given] = Running
  /\ pc = "poll" => HasLeft(given) \/ tx[buf].req
  /\ pc = "setup" => given = 0 \/ resets > 0

(* Where a remote request bit can be seen, a remote request was read.      *)
RemoteSeen == \E j \in DOMAIN taken : taken[j].rtr
RemoteInv ==
  /\ m.rtr => RemoteSeen \/ pc \in HasRtr
  /\ \A b \in TxBuf : tx[b].rtr => RemoteSeen
  /\ \A i \in DOMAIN sent : sent[i].rtr => RemoteSeen

DriverInv == DriverTypeOK /\ RxInv /\ TxInv /\ ResultInv /\ LateOnlyAfterTimeout /\ RemoteInv

-----------------------------------------------------------------------------
(* The operators.                                                          *)

LEMMA CutType ==
  ASSUME NEW res \in Seq(Outcome)
  PROVE  /\ Cut(res) \in Seq(Outcome) /\ Len(Cut(res)) = Len(res)
         /\ \A k \in 1..Len(res) :
              Cut(res)[k] = IF res[k] = Running THEN Dropped ELSE res[k]
BY DEF Cut, Outcome

LEMMA ReturnType ==
  ASSUME DriverTypeOK, pc \in InSend, NEW r \in Outcome
  PROVE  LET new == [result EXCEPT ![given] = r]
         IN  /\ new \in Seq(Outcome) /\ Len(new) = given
             /\ \A k \in 1..given : new[k] = IF k = given THEN r ELSE result[k]
BY ExceptSeq DEF DriverTypeOK

LEMMA TypeInit == DriverInit => DriverTypeOK
BY DriverAssumption
DEF DriverInit, DriverTypeOK, RxSlot, TxSlot, Content, Blank, EmptyRx, EmptyTx, PcValue,
    Reading, InSend, RxBuf, TxBuf

LEMMA TypeNext == DriverTypeOK /\ [DriverNext]_driverVars => DriverTypeOK'
<1> SUFFICES ASSUME DriverTypeOK, [DriverNext]_driverVars PROVE DriverTypeOK'
  OBVIOUS
<1> USE DriverAssumption DEF DriverTypeOK, Reading, InSend, PcValue, RxBuf, TxBuf,
        rxVars, txVars, Go
<1>1. CASE Arrive
  <2> DEFINE new(r) == [full |-> TRUE, id |-> arrived + 1, rtr |-> r,
                        dlc |-> arrived + 1, dta |-> arrived + 1]
  <2>1. PICK r \in Remote :
          rx' \in {rx, [rx EXCEPT ![0] = new(r)], [rx EXCEPT ![1] = new(r)]}
    BY <1>1 DEF Arrive
  <2>2. rx' \in [RxBuf -> RxSlot]
    <3>1. new(r) \in RxSlot
      BY DEF RxSlot
    <3> QED BY <2>1, <3>1
  <2> QED BY <1>1, <2>2 DEF Arrive
<1>2. ASSUME NEW b \in TxBuf, Transmit(b) PROVE DriverTypeOK'
  <2>1. OnBus(tx[b]) \in Content
    BY DEF OnBus, Content, TxSlot
  <2>2. sent' \in Seq(Content)
    BY <1>2, <2>1 DEF Transmit
  <2>3. tx' \in [TxBuf -> TxSlot]
    BY <1>2 DEF Transmit, TxSlot
  <2> QED BY <1>2, <2>2, <2>3 DEF Transmit
<1>3. CASE CheckReceive
  BY <1>3 DEF CheckReceive
<1>4. CASE SetMsg
  BY <1>4 DEF SetMsg, Content, Outcome
<1>5. CASE ResetChip
  BY <1>5 DEF ResetChip, EmptyRx, EmptyTx, RxSlot, TxSlot
<1>6. CASE EnterNormalMode
  BY <1>6 DEF EnterNormalMode
<1>7. CASE Restart
  <2>1. result' \in Seq(Outcome) /\ Len(result') = given'
    BY <1>7, CutType DEF Restart
  <2> QED BY <1>7, <2>1 DEF Restart, Blank, Content
<1>8. CASE ReadStatus
  BY <1>8 DEF ReadStatus, Chosen
<1>9. CASE CopyId
  BY <1>9 DEF CopyId, Copy, Content, RxSlot
<1>10. CASE CopyRtr
  BY <1>10 DEF CopyRtr, Copy, Content, RxSlot
<1>11. CASE CopyDlc
  BY <1>11 DEF CopyDlc, Copy, Content, RxSlot
<1>12. CASE CopyData
  BY <1>12 DEF CopyData, Copy, Content, RxSlot
<1>13. CASE ClearFlag
  <2>1. rx' \in [RxBuf -> RxSlot]
    BY <1>13, ZenonT(60) DEF ClearFlag, RxSlot
  <2> QED BY <1>13, <2>1 DEF ClearFlag
<1>14. CASE NextFreeTXBuf
  <2>1. CASE result' = [result EXCEPT ![given] = CAN_GETTXBFTIMEOUT]
    BY <1>14, <2>1, ReturnType DEF NextFreeTXBuf, Poll, UsedUp, Return, Outcome
  <2>2. CASE UNCHANGED result
    BY <1>14, <2>2 DEF NextFreeTXBuf, Poll, UsedUp, Return
  <2> QED BY <1>14, <2>1, <2>2 DEF NextFreeTXBuf, Return
<1>15. CASE WriteData
  BY <1>15, ZenonT(60) DEF WriteData, Write, TxSlot, Content
<1>16. CASE WriteDlc
  BY <1>16, ZenonT(60) DEF WriteDlc, Write, TxSlot, Content
<1>17. CASE WriteId
  BY <1>17, ZenonT(60) DEF WriteId, Write, TxSlot, Content
<1>18. CASE StartTransmit
  <2>1. tx' \in [TxBuf -> TxSlot]
    BY <1>18, ZenonT(60) DEF StartTransmit, TxSlot
  <2>2. posted' \subseteq Nat
    BY <1>18 DEF StartTransmit, Content
  <2> QED BY <1>18, <2>1, <2>2 DEF StartTransmit
<1>19. CASE WaitSent
  <2>1. CASE \E r \in Outcome : result' = [result EXCEPT ![given] = r]
    BY <1>19, <2>1, ReturnType DEF WaitSent, Poll, UsedUp, Return, Outcome
  <2>2. CASE UNCHANGED result
    BY <1>19, <2>2 DEF WaitSent, Poll, UsedUp, Return
  <2> QED BY <1>19, <2>1, <2>2 DEF WaitSent, Return, Outcome
<1>20. CASE UNCHANGED driverVars
  BY <1>20 DEF driverVars
<1> QED
  BY <1>1, <1>2, <1>3, <1>4, <1>5, <1>6, <1>7, <1>8, <1>9, <1>10, <1>11, <1>12,
     <1>13, <1>14, <1>15, <1>16, <1>17, <1>18, <1>19, <1>20
  DEF DriverNext, Chip, Sketch, Driver, ReadStep, SendStep

-----------------------------------------------------------------------------
(* Receiving.                                                              *)

(* Outside readMsg only the contents of the buffers count. *)
LEMMA RxQuiet ==
  RxInv /\ UNCHANGED <<rx, arrived>> /\ pc' \notin Reading \cup {"status"} => RxInv'
BY DEF RxInv, WholeIn, Reading, HasId, HasRtr, HasDlc

LEMMA SendStepsQuiet ==
  \/ SetMsg \/ EnterNormalMode \/ Restart \/ SendStep
  => UNCHANGED <<rx, arrived>> /\ pc' \notin Reading \cup {"status"}
BY DEF SetMsg, EnterNormalMode, Restart, SendStep, NextFreeTXBuf, WriteData, WriteDlc,
       WriteId, Write, StartTransmit, WaitSent, Return, Go, rxVars, Reading

LEMMA RxNext == DriverTypeOK /\ RxInv /\ [DriverNext]_driverVars => RxInv'
<1> SUFFICES ASSUME DriverTypeOK, RxInv, [DriverNext]_driverVars PROVE RxInv'
  OBVIOUS
<1> USE DEF RxInv, WholeIn, Reading, HasId, HasRtr, HasDlc, RxBuf, rxVars, txVars, Go
<1>1. CASE Arrive
  <2> DEFINE new(r) == [full |-> TRUE, id |-> arrived + 1, rtr |-> r,
                        dlc |-> arrived + 1, dta |-> arrived + 1]
  <2>1. arrived \in Nat /\ arrived' = arrived + 1 /\ UNCHANGED <<pc, m, buf>>
    BY <1>1 DEF Arrive, DriverTypeOK
  <2>2. PICK r \in Remote :
          \/ ~rx[0].full /\ rx' = [rx EXCEPT ![0] = new(r)]
          \/ rx[0].full /\ ~rx[1].full /\ rx' = [rx EXCEPT ![1] = new(r)]
          \/ rx[0].full /\ rx[1].full /\ rx' = rx
    BY <1>1 DEF Arrive
  <2>3. CASE ~rx[0].full /\ rx' = [rx EXCEPT ![0] = new(r)]
    <3>1. rx'[0] = new(r) /\ rx'[1] = rx[1]
      BY <2>3 DEF DriverTypeOK
    <3>2. pc \in Reading => buf = 1
      BY <2>3 DEF DriverTypeOK
    <3> QED BY <2>1, <2>3, <3>1, <3>2
  <2>4. CASE rx[0].full /\ ~rx[1].full /\ rx' = [rx EXCEPT ![1] = new(r)]
    <3>1. rx'[1] = new(r) /\ rx'[0] = rx[0]
      BY <2>4 DEF DriverTypeOK
    <3>2. pc \in Reading => buf = 0
      BY <2>4 DEF DriverTypeOK
    <3> QED BY <2>1, <2>4, <3>1, <3>2
  <2>5. CASE rx[0].full /\ rx[1].full /\ rx' = rx
    BY <2>1, <2>5
  <2> QED BY <2>2, <2>3, <2>4, <2>5
<1>2. ASSUME NEW b \in TxBuf, Transmit(b) PROVE RxInv'
  BY <1>2 DEF Transmit
<1>3. CASE CheckReceive
  BY <1>3 DEF CheckReceive
<1>4. CASE SetMsg \/ EnterNormalMode \/ Restart \/ SendStep
  BY <1>4, RxQuiet, SendStepsQuiet
<1>5. CASE ResetChip
  BY <1>5 DEF ResetChip, EmptyRx
<1>6. CASE ReadStatus
  BY <1>6 DEF ReadStatus, Chosen
<1>7. CASE CopyId \/ CopyRtr \/ CopyDlc \/ CopyData
  <2>1. UNCHANGED <<rx, arrived, buf>>
    BY <1>7 DEF CopyId, CopyRtr, CopyDlc, CopyData, Copy
  <2>2. CASE CopyId
    BY <2>1, <2>2 DEF CopyId, Copy, DriverTypeOK, Content
  <2>3. CASE CopyRtr
    BY <2>1, <2>3 DEF CopyRtr, Copy, DriverTypeOK, Content
  <2>4. CASE CopyDlc
    BY <2>1, <2>4 DEF CopyDlc, Copy, DriverTypeOK, Content
  <2>5. CASE CopyData
    BY <2>1, <2>5 DEF CopyData, Copy, DriverTypeOK, Content
  <2> QED BY <1>7, <2>2, <2>3, <2>4, <2>5
<1>8. CASE ClearFlag
  BY <1>8 DEF ClearFlag, DriverTypeOK, RxSlot
<1>9. CASE UNCHANGED driverVars
  BY <1>9 DEF driverVars
<1> QED
  BY <1>1, <1>2, <1>3, <1>4, <1>5, <1>6, <1>7, <1>8, <1>9
  DEF DriverNext, Chip, Sketch, Driver, ReadStep

-----------------------------------------------------------------------------
(* Sending.                                                                *)

(* Steps outside sendMsg, and steps that do not concern sending at all. *)
SendRest == <<tx, sent, posted, given>>
TxQuietStep == UNCHANGED SendRest /\ (pc' \notin InSend \/ UNCHANGED <<pc, m, buf>>)

LEMMA QuietForSending ==
  \/ Arrive \/ CheckReceive \/ EnterNormalMode \/ Restart \/ ReadStep
  \/ UNCHANGED driverVars
  => TxQuietStep
BY DEF Arrive, CheckReceive, EnterNormalMode, Restart, ReadStep, ReadStatus, CopyId,
       CopyRtr, CopyDlc, CopyData, Copy, ClearFlag, Go, txVars, driverVars,
       TxQuietStep, SendRest, InSend

LEMMA TxQuiet == TxInv /\ TxQuietStep => TxInv'
BY DEF TxInv, TxQuietStep, SendRest, InSend, Unposted, Filling, DataIn, DlcIn

LEMMA SentAppend ==
  ASSUME DriverTypeOK, NEW f \in Content
  PROVE  LET new == Append(sent, f)
         IN  /\ new \in Seq(Content) /\ DOMAIN new = 1..(Len(sent) + 1)
             /\ DOMAIN sent = 1..Len(sent) /\ Len(sent) \in Nat
             /\ new[Len(sent) + 1] = f
             /\ \A i \in DOMAIN sent : new[i] = sent[i]
BY DEF DriverTypeOK

LEMMA SlotEffect ==
  ASSUME DriverTypeOK, NEW b \in TxBuf, NEW change, tx' = [tx EXCEPT ![b] = change]
  PROVE  tx'[b] = change /\ \A a \in TxBuf \ {b} : tx'[a] = tx[a]
BY DEF DriverTypeOK

LEMMA TransmitEffect ==
  ASSUME DriverTypeOK, NEW b \in TxBuf, Transmit(b)
  PROVE  /\ tx[b].req /\ ~tx'[b].req
         /\ tx'[b].id = tx[b].id /\ tx'[b].rtr = tx[b].rtr
         /\ tx'[b].dlc = tx[b].dlc /\ tx'[b].dta = tx[b].dta
         /\ \A a \in TxBuf \ {b} : tx'[a] = tx[a]
         /\ OnBus(tx[b]) \in Content /\ sent' = Append(sent, OnBus(tx[b]))
<1>1. tx[b] \in TxSlot
  BY DEF DriverTypeOK
<1>2. /\ tx'[b] = [tx[b] EXCEPT !.req = FALSE]
      /\ \A a \in TxBuf \ {b} : tx'[a] = tx[a]
  BY SlotEffect DEF Transmit
<1>3. OnBus(tx[b]) \in Content
  BY <1>1 DEF OnBus, Content, TxSlot
<1> QED BY <1>1, <1>2, <1>3 DEF Transmit, TxSlot

(* What the steps of sendMsg do to the buffer it works on. *)
LEMMA FillEffect ==
  ASSUME DriverTypeOK, WriteData \/ WriteDlc \/ WriteId \/ StartTransmit
  PROVE  /\ buf \in TxBuf /\ \A b \in TxBuf \ {buf} : tx'[b] = tx[b]
         /\ StartTransmit => tx'[buf].req
         /\ ~StartTransmit => tx'[buf].req = tx[buf].req
         /\ tx'[buf].dta = IF WriteData THEN m.dta ELSE tx[buf].dta
         /\ tx'[buf].dlc = IF WriteDlc THEN m.dlc ELSE tx[buf].dlc
         /\ tx'[buf].rtr = IF WriteDlc THEN m.rtr ELSE tx[buf].rtr
         /\ tx'[buf].id = IF WriteId THEN m.id ELSE tx[buf].id
<1>1. buf \in TxBuf /\ tx[buf] \in TxSlot
  BY DEF DriverTypeOK
<1>2. \/ pc = "wdata" /\ WriteData /\ ~WriteDlc /\ ~WriteId /\ ~StartTransmit
      \/ pc = "wdlc" /\ ~WriteData /\ WriteDlc /\ ~WriteId /\ ~StartTransmit
      \/ pc = "wid" /\ ~WriteData /\ ~WriteDlc /\ WriteId /\ ~StartTransmit
      \/ pc = "start" /\ ~WriteData /\ ~WriteDlc /\ ~WriteId /\ StartTransmit
  BY DEF WriteData, WriteDlc, WriteId, Write, StartTransmit, Go
<1>3. CASE WriteData
  <2>1. tx'[buf] = [tx[buf] EXCEPT !.dta = m.dta] /\ \A b \in TxBuf \ {buf} : tx'[b] = tx[b]
    BY <1>1, <1>3, SlotEffect DEF WriteData, Write
  <2> QED BY <1>1, <1>2, <1>3, <2>1 DEF TxSlot
<1>4. CASE WriteDlc
  <2>1. /\ tx'[buf] = [tx[buf] EXCEPT !.dlc = m.dlc, !.rtr = m.rtr]
        /\ \A b \in TxBuf \ {buf} : tx'[b] = tx[b]
    BY <1>1, <1>4, SlotEffect DEF WriteDlc, Write
  <2> QED BY <1>1, <1>2, <1>4, <2>1 DEF TxSlot
<1>5. CASE WriteId
  <2>1. tx'[buf] = [tx[buf] EXCEPT !.id = m.id] /\ \A b \in TxBuf \ {buf} : tx'[b] = tx[b]
    BY <1>1, <1>5, SlotEffect DEF WriteId, Write
  <2> QED BY <1>1, <1>2, <1>5, <2>1 DEF TxSlot
<1>6. CASE StartTransmit
  <2>1. tx'[buf] = [tx[buf] EXCEPT !.req = TRUE] /\ \A b \in TxBuf \ {buf} : tx'[b] = tx[b]
    BY <1>1, <1>6, SlotEffect DEF StartTransmit
  <2> QED BY <1>1, <1>2, <1>6, <2>1 DEF TxSlot
<1> QED BY <1>3, <1>4, <1>5, <1>6

LEMMA TxNext == DriverTypeOK /\ TxInv /\ [DriverNext]_driverVars => TxInv'
<1> SUFFICES ASSUME DriverTypeOK, TxInv, [DriverNext]_driverVars PROVE TxInv'
  OBVIOUS
<1> USE DEF InSend, Unposted, Filling, DataIn, DlcIn, Go
<1>1. CASE TxQuietStep
  BY <1>1, TxQuiet
<1>2. ASSUME NEW b \in TxBuf, Transmit(b) PROVE TxInv'
  <2>1. UNCHANGED <<pc, m, buf, posted, given>>
    BY <1>2 DEF Transmit
  <2>2. \A i \in DOMAIN sent' : \/ i \in DOMAIN sent /\ sent'[i] = sent[i]
                                \/ sent'[i].id = tx[b].id
    <3>1. OnBus(tx[b]).id = tx[b].id
      BY DEF OnBus
    <3> QED BY <1>2, <3>1, TransmitEffect, SentAppend
  <2>3. \A a \in TxBuf : tx'[a].req => a # b /\ tx'[a] = tx[a]
    BY <1>2, TransmitEffect
  <2>4. \A i \in DOMAIN sent' :
          sent'[i].id \in posted /\ \A a \in TxBuf : tx'[a].req => tx'[a].id # sent'[i].id
    BY <1>2, <2>2, <2>3, TransmitEffect DEF TxInv
  <2>5. /\ tx'[buf].req => tx[buf].req
        /\ tx'[buf].id = tx[buf].id /\ tx'[buf].dlc = tx[buf].dlc /\ tx'[buf].dta = tx[buf].dta
    BY <1>2, TransmitEffect DEF DriverTypeOK
  <2> QED BY <2>1, <2>3, <2>4, <2>5 DEF TxInv
<1>3. CASE SetMsg
  BY <1>3 DEF SetMsg, TxInv, DriverTypeOK
<1>4. CASE ResetChip
  BY <1>4 DEF ResetChip, EmptyTx, TxInv
<1>5. CASE NextFreeTXBuf
  BY <1>5 DEF NextFreeTXBuf, Return, rxVars, TxInv
<1>6. CASE WaitSent
  BY <1>6 DEF WaitSent, Return, rxVars, TxInv
<1>7. CASE WriteData \/ WriteDlc \/ WriteId
  <2>1. UNCHANGED <<m, buf, sent, posted, given>> /\ ~StartTransmit /\ pc \in Filling
    BY <1>7 DEF WriteData, WriteDlc, WriteId, Write, StartTransmit
  <2>2. \A b \in TxBuf : tx'[b].req => b # buf /\ tx'[b] = tx[b]
    BY <1>7, <2>1, FillEffect DEF TxInv
  <2>3. CASE WriteData
    BY <2>1, <2>2, <2>3, FillEffect DEF WriteData, Write, TxInv
  <2>4. CASE WriteDlc
    BY <2>1, <2>2, <2>4, FillEffect DEF WriteDlc, WriteData, Write, TxInv
  <2>5. CASE WriteId
    BY <2>1, <2>2, <2>5, FillEffect DEF WriteId, WriteData, WriteDlc, Write, TxInv
  <2> QED BY <1>7, <2>3, <2>4, <2>5
<1>8. CASE StartTransmit
  <2>1. /\ UNCHANGED <<m, buf, sent, given>> /\ pc = "start" /\ pc' = "poll"
        /\ ~WriteData /\ ~WriteDlc /\ ~WriteId
    BY <1>8 DEF StartTransmit, WriteData, WriteDlc, WriteId, Write
  <2>2. posted' = posted \cup {given} /\ given \notin posted /\ given \in 1..given
    BY <1>8 DEF StartTransmit, TxInv, DriverTypeOK
  <2>3. tx'[buf].id = given /\ tx'[buf].dlc = given /\ tx'[buf].dta = given
    BY <1>8, <2>1, FillEffect DEF TxInv
  <2>4. buf \in TxBuf /\ \A b \in TxBuf \ {buf} : tx'[b] = tx[b]
    BY <1>8, FillEffect
  <2>5. \A b \in TxBuf : tx'[b].req =>
          \/ b = buf
          \/ /\ b # buf /\ tx'[b] = tx[b] /\ tx[b].req
             /\ tx[b].id \in posted /\ tx[b].id # given
    BY <2>2, <2>4 DEF TxInv
  <2>6. \A i \in DOMAIN sent : sent[i].id \in posted' /\ sent[i].id # given
    BY <2>2 DEF TxInv
  <2>7. posted' \subseteq 1..given'
    BY <2>1, <2>2 DEF TxInv
  <2>8. \A b \in TxBuf : tx'[b].req =>
          /\ tx'[b].id \in posted' /\ tx'[b].dlc = tx'[b].id /\ tx'[b].dta = tx'[b].id
    BY <2>2, <2>3, <2>5 DEF TxInv
  <2>9. \A a, b \in TxBuf : tx'[a].req /\ tx'[b].req /\ tx'[a].id = tx'[b].id => a = b
    BY <2>3, <2>5 DEF TxInv
  <2>10. \A i \in DOMAIN sent' : sent'[i].id \in posted'
           /\ \A b \in TxBuf : tx'[b].req => tx'[b].id # sent'[i].id
    BY <2>1, <2>3, <2>5, <2>6 DEF TxInv
  <2> QED BY <2>1, <2>2, <2>3, <2>7, <2>8, <2>9, <2>10 DEF TxInv
<1> QED
  BY <1>1, <1>2, <1>3, <1>4, <1>5, <1>6, <1>7, <1>8, QuietForSending
  DEF DriverNext, Chip, Sketch, Driver, SendStep

-----------------------------------------------------------------------------
(* What sendMsg reports.                                                   *)

LEMMA WhereFramesAre ==
  ASSUME TxInv, NEW k
  PROVE  /\ HasLeft(k) \/ Waits(k) => k \in posted /\ k \in 1..given
         /\ HasLeft(k) => ~Waits(k)
BY DEF TxInv, HasLeft, Waits

LEMMA FramesStay ==
  UNCHANGED <<tx, sent>> => \A k : (HasLeft(k)' <=> HasLeft(k)) /\ (Waits(k)' <=> Waits(k))
BY DEF HasLeft, Waits

LEMMA TransmitMoves ==
  ASSUME DriverTypeOK, TxInv, NEW b \in TxBuf, Transmit(b)
  PROVE  /\ Waits(tx[b].id)
         /\ \A k : /\ HasLeft(k)' <=> HasLeft(k) \/ k = tx[b].id
                   /\ Waits(k)' <=> Waits(k) /\ k # tx[b].id
<1>1. tx[b].req /\ \A a \in TxBuf : tx'[a].req <=> a # b /\ tx[a].req
  BY TransmitEffect
<1>2. \A a \in TxBuf : tx'[a].id = tx[a].id
  BY TransmitEffect
<1>3. \A k : Waits(k)' <=> Waits(k) /\ k # tx[b].id
  BY <1>1, <1>2 DEF Waits, TxInv
<1>4. /\ DOMAIN sent' = DOMAIN sent \cup {Len(sent) + 1}
      /\ \A i \in DOMAIN sent : sent'[i] = sent[i]
      /\ sent'[Len(sent) + 1].id = tx[b].id
  <2>1. DOMAIN sent' = 1..(Len(sent) + 1) /\ DOMAIN sent = 1..Len(sent) /\ Len(sent) \in Nat
    BY TransmitEffect, SentAppend
  <2>2. OnBus(tx[b]).id = tx[b].id
    BY DEF OnBus
  <2> QED BY <2>1, <2>2, TransmitEffect, SentAppend
<1>5. \A k : HasLeft(k)' <=> HasLeft(k) \/ k = tx[b].id
  <2> SUFFICES ASSUME NEW k PROVE HasLeft(k)' <=> HasLeft(k) \/ k = tx[b].id
    OBVIOUS
  <2>1. HasLeft(k) => HasLeft(k)'
    BY <1>4 DEF HasLeft
  <2>2. HasLeft(tx[b].id)'
    BY <1>2, <1>4 DEF HasLeft
  <2>3. HasLeft(k)' => HasLeft(k) \/ k = tx[b].id
    BY <1>4 DEF HasLeft
  <2> QED BY <1>2, <1>4, <2>1, <2>2, <2>3 DEF HasLeft
<1> QED BY <1>1, <1>3, <1>5 DEF Waits

LEMMA FillMoves ==
  ASSUME DriverTypeOK, TxInv, WriteData \/ WriteDlc \/ WriteId \/ StartTransmit
  PROVE  \A k : /\ HasLeft(k)' <=> HasLeft(k)
                /\ Waits(k)' <=> Waits(k) \/ (StartTransmit /\ k = given)
<1>1. UNCHANGED sent /\ ~tx[buf].req
  BY DEF WriteData, WriteDlc, WriteId, Write, StartTransmit, Go, TxInv, Filling
<1>2. CASE StartTransmit
  <2>1. ~WriteData /\ ~WriteDlc /\ ~WriteId /\ tx[buf].id = given
    BY <1>2 DEF StartTransmit, WriteData, WriteDlc, WriteId, Write, Go, TxInv
  <2>2. \A b \in TxBuf : tx'[b].req <=> b = buf \/ tx[b].req
    BY <1>2, FillEffect
  <2>3. \A b \in TxBuf : tx'[b].id = tx[b].id
    BY <1>2, <2>1, FillEffect
  <2> QED BY <1>1, <1>2, <2>1, <2>2, <2>3, FillEffect DEF HasLeft, Waits
<1>3. CASE ~StartTransmit
  <2>1. \A b \in TxBuf : tx'[b].req <=> b # buf /\ tx[b].req
    BY <1>1, <1>3, FillEffect
  <2>2. \A b \in TxBuf \ {buf} : tx'[b].id = tx[b].id
    BY FillEffect
  <2> QED BY <1>1, <1>3, <2>1, <2>2 DEF HasLeft, Waits
<1> QED BY <1>2, <1>3

(* Steps that leave what was sent and reported alone. *)
ResultQuietStep ==
  /\ UNCHANGED <<tx, sent, posted, given, result, resets>>
  /\ \/ pc \notin InSend \cup {"setup"} /\ pc' \notin InSend \cup {"setup"}
     \/ UNCHANGED <<pc, buf>>

LEMMA QuietForResult ==
  \/ Arrive \/ CheckReceive \/ EnterNormalMode \/ ReadStep \/ UNCHANGED driverVars
  => ResultQuietStep
BY DEF Arrive, CheckReceive, EnterNormalMode, ReadStep, ReadStatus, CopyId, CopyRtr,
       CopyDlc, CopyData, Copy, ClearFlag, Go, txVars, driverVars, ResultQuietStep, InSend

(* The call under way comes back with r, which is true of its frame. *)
LEMMA Returns1 ==
  ASSUME DriverTypeOK, TxInv, ResultInv, pc \in InSend, NEW r \in Outcome, Return(r),
         UNCHANGED <<tx, sent, posted, given, resets>>,
         \/ r = CAN_OK /\ HasLeft(given)
         \/ r = CAN_GETTXBFTIMEOUT /\ given \notin posted
         \/ r = CAN_SENDMSGTIMEOUT /\ (HasLeft(given) \/ Waits(given))
  PROVE  ResultInv'
<1> USE DEF InSend, Outcome, CAN_OK, CAN_GETTXBFTIMEOUT, CAN_SENDMSGTIMEOUT, Running, Dropped
<1>1. /\ pc' = "idle" /\ given \in Nat /\ given >= 1
      /\ \A k \in 1..given : result'[k] = IF k = given THEN r ELSE result[k]
  BY ReturnType DEF Return, DriverTypeOK
<1>2. \A k : (HasLeft(k)' <=> HasLeft(k)) /\ (Waits(k)' <=> Waits(k))
  BY FramesStay
<1>3. ASSUME NEW k \in 1..given, k # given PROVE CallInv(k)'
  BY <1>1, <1>2, <1>3 DEF ResultInv, CallInv
<1>4. CallInv(given)'
  BY <1>1, <1>2, WhereFramesAre DEF CallInv
<1> QED BY <1>1, <1>3, <1>4 DEF ResultInv

LEMMA ResultNext ==
  DriverTypeOK /\ TxInv /\ ResultInv /\ [DriverNext]_driverVars => ResultInv'
<1> SUFFICES ASSUME DriverTypeOK, TxInv, ResultInv, [DriverNext]_driverVars
             PROVE  ResultInv'
  OBVIOUS
<1> USE DEF InSend
<1>a. given \in Nat
  BY DEF DriverTypeOK
<1>1. CASE ResultQuietStep
  <2>1. \A k : (HasLeft(k)' <=> HasLeft(k)) /\ (Waits(k)' <=> Waits(k))
    BY <1>1, FramesStay DEF ResultQuietStep
  <2>2. ASSUME NEW k \in 1..given PROVE CallInv(k)'
    BY <1>1, <2>1 DEF ResultInv, CallInv, ResultQuietStep
  <2> QED BY <1>1, <2>1, <2>2 DEF ResultInv, ResultQuietStep
<1>2. ASSUME NEW b \in TxBuf, Transmit(b) PROVE ResultInv'
  <2>1. UNCHANGED <<pc, buf, posted, given, result, resets>>
    BY <1>2 DEF Transmit
  <2>2. ASSUME NEW k \in 1..given PROVE CallInv(k)'
    BY <1>2, <2>1, TransmitMoves DEF ResultInv, CallInv
  <2>3. pc = "poll" => HasLeft(given)' \/ tx'[buf].req
    <3>1. CASE pc = "poll" /\ buf = b
      BY <1>2, <2>1, <3>1, TransmitMoves, TransmitEffect DEF TxInv
    <3>2. CASE pc = "poll" /\ buf # b
      BY <1>2, <2>1, <3>2, TransmitMoves, TransmitEffect DEF ResultInv, DriverTypeOK
    <3> QED BY <2>1, <3>1, <3>2
  <2> QED BY <2>1, <2>2, <2>3 DEF ResultInv
<1>3. CASE SetMsg
  <2>1. /\ UNCHANGED <<tx, sent, posted, resets>> /\ pc = "idle" /\ pc' = "free"
        /\ given' = given + 1 /\ given + 1 \notin posted
        /\ result'[given + 1] = Running /\ \A k \in 1..given : result'[k] = result[k]
    BY <1>3 DEF SetMsg, Go, DriverTypeOK, TxInv
  <2>2. \A k : (HasLeft(k)' <=> HasLeft(k)) /\ (Waits(k)' <=> Waits(k))
    BY <2>1, FramesStay
  <2>3. ASSUME NEW k \in 1..given PROVE CallInv(k)'
    BY <1>a, <2>1, <2>2, <2>3 DEF ResultInv, CallInv
  <2>4. ASSUME NEW k, k = given + 1 PROVE CallInv(k)'
    BY <1>a, <2>1, <2>2, <2>4, WhereFramesAre
    DEF CallInv, CAN_OK, CAN_GETTXBFTIMEOUT, CAN_SENDMSGTIMEOUT, Running
  <2>5. 1..given' = 1..given \cup {given + 1}
    BY <1>a, <2>1
  <2> QED BY <2>1, <2>3, <2>4, <2>5 DEF ResultInv
<1>4. CASE ResetChip
  <2>1. /\ UNCHANGED <<sent, posted, given, result, resets>> /\ pc = "setup" /\ pc' = "begin"
        /\ given = 0 \/ resets > 0
    BY <1>4 DEF ResetChip, Go, ResultInv
  <2>2. \A k : (HasLeft(k)' <=> HasLeft(k)) /\ ~Waits(k)'
    BY <1>4 DEF ResetChip, EmptyTx, HasLeft, Waits
  <2>3. ASSUME NEW k \in 1..given PROVE CallInv(k)'
    BY <2>1, <2>2 DEF ResultInv, CallInv
  <2> QED BY <2>1, <2>3 DEF ResultInv
<1>5. CASE Restart
  <2>1. /\ UNCHANGED <<tx, sent, posted, given>> /\ pc' = "setup"
        /\ resets' > 0
        /\ \A k \in 1..given : result'[k] = IF result[k] = Running THEN Dropped ELSE result[k]
    <3>1. UNCHANGED <<tx, sent, posted, given>> /\ pc' = "setup"
      BY <1>5 DEF Restart
    <3>2. resets' > 0
      BY <1>5 DEF Restart, DriverTypeOK
    <3>3. result' = Cut(result)
      BY <1>5 DEF Restart
    <3>4. result \in Seq(Outcome) /\ Len(result) = given
      BY DEF DriverTypeOK
    <3>5. \A k \in 1..given : result'[k] = IF result[k] = Running THEN Dropped ELSE result[k]
      BY <3>3, <3>4, CutType
    <3> QED BY <3>1, <3>2, <3>5
  <2>2. \A k : (HasLeft(k)' <=> HasLeft(k)) /\ (Waits(k)' <=> Waits(k))
    BY <2>1, FramesStay
  <2>3. ASSUME NEW k \in 1..given PROVE CallInv(k)'
    BY <2>1, <2>2
    DEF ResultInv, CallInv, CAN_OK, CAN_GETTXBFTIMEOUT, CAN_SENDMSGTIMEOUT, Running, Dropped
  <2> QED BY <2>1, <2>3 DEF ResultInv
<1>6. CASE NextFreeTXBuf
  <2>1. UNCHANGED <<tx, sent, posted, given, resets>> /\ given \notin posted /\ pc = "free"
    BY <1>6 DEF NextFreeTXBuf, rxVars, TxInv, Unposted
  <2>2. CASE Return(CAN_GETTXBFTIMEOUT)
    BY <2>1, <2>2, Returns1 DEF Outcome
  <2>3. CASE ~Return(CAN_GETTXBFTIMEOUT)
    <3>1. UNCHANGED result /\ pc' \in {"free", "wdata"}
      BY <1>6, <2>1, <2>3 DEF NextFreeTXBuf
    <3>2. \A k : (HasLeft(k)' <=> HasLeft(k)) /\ (Waits(k)' <=> Waits(k))
      BY <2>1, FramesStay
    <3>3. ASSUME NEW k \in 1..given PROVE CallInv(k)'
      BY <2>1, <3>1, <3>2 DEF ResultInv, CallInv
    <3> QED BY <2>1, <3>1, <3>3 DEF ResultInv
  <2> QED BY <2>2, <2>3
<1>7. CASE WriteData \/ WriteDlc \/ WriteId \/ StartTransmit
  <2>1. /\ UNCHANGED <<given, result, resets>> /\ pc \in InSend \ {"poll"}
        /\ IF StartTransmit THEN pc' = "poll" /\ posted' = posted \cup {given}
                            ELSE pc' \in InSend \ {"poll"} /\ UNCHANGED posted
    BY <1>7 DEF WriteData, WriteDlc, WriteId, Write, StartTransmit, Go, TxInv, Unposted
  <2>2. result[given] = Running
    BY <2>1 DEF ResultInv
  <2>3. ASSUME NEW k \in 1..given PROVE CallInv(k)'
    BY <1>7, <2>1, <2>2, FillMoves
    DEF ResultInv, CallInv, CAN_GETTXBFTIMEOUT, Running
  <2>4. pc' = "poll" => tx'[buf'].req
    BY <1>7, <2>1, FillEffect DEF StartTransmit
  <2> QED BY <2>1, <2>2, <2>3, <2>4 DEF ResultInv
<1>8. CASE WaitSent
  <2>1. /\ UNCHANGED <<tx, buf, sent, posted, given, resets>> /\ pc = "poll"
        /\ ~tx[buf].req => HasLeft(given)
        /\ tx[buf].req => tx[buf].id = given
    BY <1>8 DEF WaitSent, rxVars, ResultInv, TxInv, Unposted
  <2>2. CASE Return(CAN_SENDMSGTIMEOUT)
    <3>1. HasLeft(given) \/ Waits(given)
      BY <2>1 DEF Waits, DriverTypeOK
    <3> QED BY <2>1, <2>2, <3>1, Returns1 DEF Outcome
  <2>3. CASE ~tx[buf].req /\ Return(CAN_OK)
    BY <2>1, <2>3, Returns1 DEF Outcome
  <2>4. CASE tx[buf].req /\ UNCHANGED <<pc, result>>
    <3>1. \A k : (HasLeft(k)' <=> HasLeft(k)) /\ (Waits(k)' <=> Waits(k))
      BY <2>1, FramesStay
    <3>2. ASSUME NEW k \in 1..given PROVE CallInv(k)'
      BY <2>1, <2>4, <3>1 DEF ResultInv, CallInv
    <3> QED BY <2>1, <2>4, <3>2 DEF ResultInv
  <2> QED BY <1>8, <2>2, <2>3, <2>4 DEF WaitSent
<1> QED
  BY <1>1, <1>2, <1>3, <1>4, <1>5, <1>6, <1>7, <1>8, QuietForResult
  DEF DriverNext, Chip, Sketch, Driver, SendStep

-----------------------------------------------------------------------------
(* The order in which frames leave.                                        *)

(* Only the controller sends, and CAN_SENDMSGTIMEOUT is not taken back.    *)
LEMMA TimeoutsStay ==
  ASSUME DriverTypeOK, TxInv, ResultInv, [DriverNext]_driverVars
  PROVE  \/ \E b \in TxBuf : Transmit(b)
         \/ /\ UNCHANGED sent
            /\ \A k \in 1..given :
                 result[k] = CAN_SENDMSGTIMEOUT => result'[k] = CAN_SENDMSGTIMEOUT
<1> USE DEF CAN_SENDMSGTIMEOUT, InSend
<1>1. CASE ResultQuietStep
  BY <1>1 DEF ResultQuietStep
<1>2. CASE SetMsg
  BY <1>2 DEF SetMsg, DriverTypeOK
<1>3. CASE ResetChip
  BY <1>3 DEF ResetChip
<1>4. CASE Restart
  BY <1>4, CutType DEF Restart, DriverTypeOK, Running
<1>5. CASE WriteData \/ WriteDlc \/ WriteId \/ StartTransmit
  BY <1>5 DEF WriteData, WriteDlc, WriteId, Write, StartTransmit
<1>6. CASE NextFreeTXBuf \/ WaitSent
  <2>1. UNCHANGED sent /\ pc \in InSend /\ result[given] = Running
    BY <1>6 DEF NextFreeTXBuf, WaitSent, ResultInv
  <2>2. UNCHANGED result \/ \E r \in Outcome : result' = [result EXCEPT ![given] = r]
    BY <1>6 DEF NextFreeTXBuf, WaitSent, Return, Outcome
  <2>3. \A k \in 1..given : k # given => result'[k] = result[k]
    BY <2>1, <2>2, ReturnType
  <2> QED BY <2>1, <2>3 DEF Running
<1> QED
  BY <1>1, <1>2, <1>3, <1>4, <1>5, <1>6, QuietForResult
  DEF DriverNext, Chip, Sketch, Driver, SendStep

LEMMA LateNext ==
  DriverTypeOK /\ TxInv /\ ResultInv /\ LateOnlyAfterTimeout /\ [DriverNext]_driverVars
  => LateOnlyAfterTimeout'
<1> SUFFICES ASSUME DriverTypeOK, TxInv, ResultInv, LateOnlyAfterTimeout,
                    [DriverNext]_driverVars
             PROVE  LateOnlyAfterTimeout'
  OBVIOUS
<1>1. \A i \in DOMAIN sent : sent[i].id \in 1..given
  BY DEF TxInv
<1>2. ASSUME NEW b \in TxBuf, Transmit(b) PROVE LateOnlyAfterTimeout'
  <2>1. /\ UNCHANGED result
        /\ DOMAIN sent = 1..Len(sent) /\ DOMAIN sent' = 1..(Len(sent) + 1) /\ Len(sent) \in Nat
        /\ \A i \in DOMAIN sent : sent'[i] = sent[i]
        /\ sent'[Len(sent) + 1].id = tx[b].id
    BY <1>2, TransmitEffect, SentAppend DEF Transmit, OnBus
  <2>2. tx[b].id \in 1..given /\ CallInv(tx[b].id) /\ Waits(tx[b].id)
    BY <1>2, TransmitMoves, WhereFramesAre DEF ResultInv
  <2>3. tx[b].id < given => result[tx[b].id] = CAN_SENDMSGTIMEOUT
    BY <2>2 DEF CallInv
  <2>4. ASSUME NEW i \in DOMAIN sent', NEW j \in DOMAIN sent',
               i < j, sent'[j].id < sent'[i].id
        PROVE  result'[sent'[j].id] = CAN_SENDMSGTIMEOUT
    <3>1. i \in DOMAIN sent
      BY <2>1, <2>4
    <3>2. CASE j \in DOMAIN sent
      BY <2>1, <2>4, <3>1, <3>2 DEF LateOnlyAfterTimeout
    <3>3. CASE j = Len(sent) + 1
      BY <1>1, <2>1, <2>2, <2>3, <2>4, <3>1, <3>3 DEF DriverTypeOK
    <3> QED BY <2>1, <3>2, <3>3
  <2> QED BY <2>4 DEF LateOnlyAfterTimeout
<1>3. CASE /\ UNCHANGED sent
           /\ \A k \in 1..given :
                result[k] = CAN_SENDMSGTIMEOUT => result'[k] = CAN_SENDMSGTIMEOUT
  BY <1>1, <1>3 DEF LateOnlyAfterTimeout
<1> QED BY <1>2, <1>3, TimeoutsStay

-----------------------------------------------------------------------------
(* Remote requests.                                                        *)

LEMMA TakenAppend ==
  ASSUME DriverTypeOK, UNCHANGED taken \/ taken' = Append(taken, m)
  PROVE  /\ RemoteSeen => RemoteSeen'
         /\ taken' = Append(taken, m) /\ m.rtr => RemoteSeen'
<1>1. CASE UNCHANGED taken
  BY <1>1 DEF RemoteSeen, DriverTypeOK
<1>2. CASE taken' = Append(taken, m)
  <2>1. /\ \A i \in DOMAIN taken : i \in DOMAIN taken' /\ taken'[i] = taken[i]
        /\ Len(taken) + 1 \in DOMAIN taken' /\ taken'[Len(taken) + 1] = m
    BY <1>2 DEF DriverTypeOK
  <2> QED BY <2>1 DEF RemoteSeen
<1> QED BY <1>1, <1>2

LEMMA RemoteNext == DriverTypeOK /\ RemoteInv /\ [DriverNext]_driverVars => RemoteInv'
<1> SUFFICES ASSUME DriverTypeOK, RemoteInv, [DriverNext]_driverVars PROVE RemoteInv'
  OBVIOUS
<1> USE DEF HasRtr, Go
<1>1. CASE \/ Arrive \/ CheckReceive \/ ReadStatus \/ CopyId \/ EnterNormalMode
           \/ NextFreeTXBuf \/ WaitSent \/ UNCHANGED driverVars
  BY <1>1 DEF Arrive, CheckReceive, ReadStatus, CopyId, Copy, EnterNormalMode,
       NextFreeTXBuf, WaitSent, Return, driverVars, rxVars, txVars, RemoteInv, RemoteSeen,
       DriverTypeOK, Content
<1>2. CASE CopyRtr \/ CopyDlc \/ CopyData
  BY <1>2 DEF CopyRtr, CopyDlc, CopyData, Copy, rxVars, txVars, RemoteInv, RemoteSeen,
              DriverTypeOK, Content
<1>3. CASE ClearFlag
  <2>1. UNCHANGED <<m, tx, sent>> /\ taken' = Append(taken, m) /\ pc = "clear"
    BY <1>3 DEF ClearFlag, txVars
  <2> QED BY <2>1, TakenAppend DEF RemoteInv
<1>4. CASE SetMsg
  BY <1>4 DEF SetMsg, rxVars, RemoteInv, RemoteSeen
<1>5. CASE Restart \/ ResetChip
  BY <1>5 DEF Restart, ResetChip, rxVars, RemoteInv, RemoteSeen, Blank, EmptyTx
<1>6. ASSUME NEW b \in TxBuf, Transmit(b) PROVE RemoteInv'
  <2>1. UNCHANGED <<m, pc, taken>>
    BY <1>6 DEF Transmit, rxVars
  <2>2. \A a \in TxBuf : tx'[a].rtr = tx[a].rtr
    BY <1>6, TransmitEffect
  <2>3. \A i \in DOMAIN sent' : \/ i \in DOMAIN sent /\ sent'[i] = sent[i]
                                \/ sent'[i].rtr = tx[b].rtr
    <3>1. OnBus(tx[b]).rtr = tx[b].rtr
      BY DEF OnBus
    <3> QED BY <1>6, <3>1, TransmitEffect, SentAppend
  <2> QED BY <2>1, <2>2, <2>3 DEF RemoteInv, RemoteSeen
<1>7. CASE WriteData \/ WriteDlc \/ WriteId \/ StartTransmit
  <2>1. UNCHANGED <<m, sent, taken>> /\ pc \notin HasRtr
    BY <1>7 DEF WriteData, WriteDlc, WriteId, Write, StartTransmit, rxVars
  <2>2. \A a \in TxBuf : tx'[a].rtr \in {tx[a].rtr, m.rtr}
    BY <1>7, FillEffect
  <2> QED BY <2>1, <2>2 DEF RemoteInv, RemoteSeen
<1> QED
  BY <1>1, <1>2, <1>3, <1>4, <1>5, <1>6, <1>7
  DEF DriverNext, Chip, Sketch, Driver, ReadStep, SendStep

-----------------------------------------------------------------------------
(* The invariant, and what follows from it.                                *)

LEMMA DriverInvInit == DriverInit => DriverInv
<1> SUFFICES ASSUME DriverInit PROVE DriverInv
  OBVIOUS
<1>1. RxInv
  BY DEF DriverInit, RxInv, WholeIn, RxBuf, EmptyRx, Reading, HasId, HasRtr, HasDlc
<1>2. TxInv
  BY DEF DriverInit, TxInv, TxBuf, EmptyTx, Unposted, Filling, DataIn, DlcIn
<1>3. ResultInv
  BY DEF DriverInit, ResultInv, InSend
<1>4. LateOnlyAfterTimeout /\ RemoteInv
  BY DEF DriverInit, LateOnlyAfterTimeout, RemoteInv, Blank, TxBuf, EmptyTx
<1> QED BY <1>1, <1>2, <1>3, <1>4, TypeInit DEF DriverInv

LEMMA DriverInvNext == DriverInv /\ [DriverNext]_driverVars => DriverInv'
BY TypeNext, RxNext, TxNext, ResultNext, LateNext, RemoteNext DEF DriverInv

LEMMA DriverInvCorrect == DriverSpec => []DriverInv
BY DriverInvInit, DriverInvNext, PTL DEF DriverSpec

(* The variables keep their types, and the count of polls, which the code  *)
(* tests for equality with TIMEOUTVALUE, never gets past it: sendMsg,      *)
(* mcp_can.cpp 757-779.                                                    *)
THEOREM DriverTypeCorrect == DriverSpec => []DriverTypeOK
<1>1. DriverInv => DriverTypeOK
  BY DEF DriverInv
<1> QED BY <1>1, DriverInvCorrect, PTL

(* What sendMsg reports of a frame is true, whatever the controller and    *)
(* the bus do and however often the processor restarts: mcp_can.cpp        *)
(* 757-781.                                                                *)
THEOREM SendResultTrueCorrect == DriverSpec => []SendResultTrue
<1>1. DriverInv => SendResultTrue
  <2> SUFFICES ASSUME DriverInv, NEW k \in DOMAIN result
               PROVE  /\ result[k] = CAN_OK => HasLeft(k)
                      /\ result[k] = CAN_GETTXBFTIMEOUT => ~HasLeft(k) /\ ~Waits(k)
                      /\ result[k] = CAN_SENDMSGTIMEOUT => HasLeft(k) \/ Waits(k) \/ resets > 0
    BY DEF SendResultTrue
  <2>1. k \in 1..given
    BY DEF DriverInv, DriverTypeOK
  <2> QED BY <2>1, WhereFramesAre DEF DriverInv, ResultInv, CallInv
<1> QED BY <1>1, DriverInvCorrect, PTL

(* A frame leaves after a newer one only if its call ended in              *)
(* CAN_SENDMSGTIMEOUT: mcp_can.cpp 766-779.                                *)
THEOREM LateOnlyAfterTimeoutCorrect == DriverSpec => []LateOnlyAfterTimeout
<1>1. DriverInv => LateOnlyAfterTimeout
  BY DEF DriverInv
<1> QED BY <1>1, DriverInvCorrect, PTL

(* Frames leave as they were given until a remote request has been read:   *)
(* the m_nRtr that the four-argument setMsg leaves (mcp_can.cpp 718-729)   *)
(* comes from readMsg.                                                     *)
THEOREM RemoteOnlyAfterRemoteCorrect == DriverSpec => []RemoteOnlyAfterRemote
<1>1. DriverInv => RemoteOnlyAfterRemote
  BY DEF DriverInv, RemoteInv, RemoteSeen, RemoteOnlyAfterRemote
<1> QED BY <1>1, DriverInvCorrect, PTL

(* Only ClearFlag hands a frame over. *)
LEMMA TakenChanges ==
  [DriverNext]_driverVars /\ taken' # taken => ClearFlag
BY DEF DriverNext, Chip, Sketch, Driver, ReadStep, SendStep, Arrive, Transmit, ResetChip,
       EnterNormalMode, Restart, CheckReceive, ReadStatus, CopyId, CopyRtr, CopyDlc,
       CopyData, Copy, SetMsg, NextFreeTXBuf, WriteData, WriteDlc, WriteId, Write,
       StartTransmit, WaitSent, rxVars, driverVars

(* A frame is overtaken only in buffer 1, by one that comes into buffer 0  *)
(* after it: readMsg, mcp_can.cpp 808-831.                                 *)
THEOREM OvertakenCorrect == DriverSpec => OvertakenOnlyInBufferOne
<1>1. ASSUME DriverInv, [DriverNext]_driverVars, taken' # taken, Older(m.id) # {}
      PROVE  rx[0].full /\ rx[0].id = m.id /\ rx[1].full /\ rx[1].id < m.id
  <2>1. buf \in {0, 1} /\ rx[buf].full /\ m.id = rx[buf].id
        /\ (buf = 1 /\ rx[0].full => rx[0].id > rx[1].id)
    BY <1>1, TakenChanges DEF ClearFlag, Go, DriverInv, RxInv, DriverTypeOK, RxBuf,
                              Reading, HasId
  <2>2. PICK b \in {0, 1} : rx[b].full /\ rx[b].id < m.id
    BY <1>1 DEF Older, Waiting, RxBuf
  <2>3. rx[0].id \in Nat /\ rx[1].id \in Nat
    BY <1>1 DEF DriverInv, DriverTypeOK, RxBuf, RxSlot
  <2> QED BY <2>1, <2>2, <2>3
<1>2. DriverInv /\ [DriverNext]_driverVars =>
        [taken' # taken /\ Older(m.id) # {} =>
           rx[0].full /\ rx[0].id = m.id /\ rx[1].full /\ rx[1].id < m.id]_driverVars
  BY <1>1
<1> QED BY <1>2, DriverInvCorrect, PTL DEF DriverSpec, OvertakenOnlyInBufferOne

-----------------------------------------------------------------------------
(* The driver and the controller implement CanPort.                        *)

Held(b)  == [id |-> rx[b].id, rtr |-> rx[b].rtr, dlc |-> rx[b].dlc, dta |-> rx[b].dta]
OutFrame == [id : Nat, dlc : Nat, dta : Nat]
SentPort == [i \in DOMAIN sent |-> Sendable(sent[i])]

LEMMA PortCardinality == \A S : Port!Cardinality(S) = Cardinality(S)
BY DEF Port!Cardinality, Cardinality

LEMMA PortInitRefines == DriverInit => Port!PortInit
<1> SUFFICES ASSUME DriverInit PROVE Port!PortInit
  OBVIOUS
<1>1. Waiting = {} /\ Pending = {}
  BY DEF DriverInit, Waiting, Pending, RxBuf, TxBuf, EmptyRx, EmptyTx
<1>2. [i \in DOMAIN sent |-> Sendable(sent[i])] = <<>>
  BY DEF DriverInit
<1> QED BY <1>1, <1>2 DEF DriverInit, Port!PortInit

LEMMA WaitingElements ==
  ASSUME DriverTypeOK, RxInv
  PROVE  /\ \A f : f \in Waiting <=> \E b \in RxBuf : rx[b].full /\ f = Held(b)
         /\ \A a, b \in RxBuf : rx[a].full /\ rx[b].full /\ a # b => Held(a) # Held(b)
BY DEF Waiting, Held, RxInv, RxBuf

(* There is room in the mailbox unless both buffers are full. *)
LEMMA WaitingRoom ==
  ASSUME DriverTypeOK, RxInv
  PROVE  Cardinality(Waiting) < 2 <=> ~(rx[0].full /\ rx[1].full)
<1> USE DEF RxBuf
<1>1. CASE rx[0].full /\ rx[1].full
  <2>1. Waiting = {Held(0)} \cup {Held(1)} /\ Held(1) \notin {Held(0)}
    BY <1>1, WaitingElements
  <2>2. IsFiniteSet({Held(0)}) /\ Cardinality({Held(0)}) = 1
    BY FS_Singleton
  <2>3. Cardinality(Waiting) = 2
    BY <2>1, <2>2, FS_AddElement
  <2> QED BY <1>1, <2>3
<1>2. CASE \E b \in RxBuf : rx[b].full /\ ~rx[1 - b].full
  <2>1. PICK b \in RxBuf : rx[b].full /\ ~rx[1 - b].full
    BY <1>2
  <2>2. Waiting = {Held(b)}
    BY <2>1, WaitingElements
  <2>3. Cardinality(Waiting) = 1
    BY <2>2, FS_Singleton
  <2> QED BY <2>1, <2>3
<1>3. CASE ~rx[0].full /\ ~rx[1].full
  <2>1. Waiting = {}
    BY <1>3, WaitingElements
  <2> QED BY <1>3, <2>1, FS_EmptySet
<1> QED BY <1>1, <1>2, <1>3

LEMMA ArriveRefines ==
  ASSUME DriverTypeOK, RxInv, Arrive, DriverTypeOK', RxInv'
  PROVE  Port!Arrive
<1> DEFINE new(r) == [full |-> TRUE, id |-> arrived + 1, rtr |-> r,
                      dlc |-> arrived + 1, dta |-> arrived + 1]
           msg(r) == Port!Received(arrived + 1, r)
<1>1. /\ arrived < MaxArrivals /\ arrived' = arrived + 1
      /\ UNCHANGED <<taken, posted, tx, sent>>
  BY DEF Arrive, txVars
<1>a. UNCHANGED Pending /\ UNCHANGED SentPort
  BY <1>1 DEF Pending, SentPort, Sendable
<1>2. PICK r \in Remote :
        \/ ~rx[0].full /\ rx' = [rx EXCEPT ![0] = new(r)]
        \/ rx[0].full /\ ~rx[1].full /\ rx' = [rx EXCEPT ![1] = new(r)]
        \/ rx[0].full /\ rx[1].full /\ rx' = rx
  BY DEF Arrive
<1>3. CASE \E b \in RxBuf : ~rx[b].full /\ rx' = [rx EXCEPT ![b] = new(r)]
  <2>1. PICK b \in RxBuf : ~rx[b].full /\ rx' = [rx EXCEPT ![b] = new(r)]
    BY <1>3
  <2>2. /\ rx'[b].full /\ Held(b)' = msg(r)
        /\ \A a \in RxBuf \ {b} : rx'[a] = rx[a] /\ Held(a)' = Held(a)
    BY <2>1 DEF DriverTypeOK, Held, Port!Received
  <2>3. Waiting' = Waiting \cup {msg(r)}
    <3>1. \A f : f \in Waiting' <=> \E a \in RxBuf : rx'[a].full /\ f = Held(a)'
      BY WaitingElements, DriverTypeOK', RxInv' DEF Waiting, Held
    <3> QED BY <2>1, <2>2, <3>1, WaitingElements
  <2>4. Cardinality(Waiting) < 2
    BY <2>1, WaitingRoom DEF RxBuf
  <2> QED BY <1>1, <1>a, <2>3, <2>4, PortCardinality DEF Port!Arrive, SentPort
<1>4. CASE rx[0].full /\ rx[1].full /\ rx' = rx
  <2>1. UNCHANGED Waiting /\ ~(Cardinality(Waiting) < 2)
    BY <1>4, WaitingRoom DEF Waiting
  <2> QED BY <1>1, <1>a, <2>1, PortCardinality DEF Port!Arrive, SentPort
<1> QED BY <1>2, <1>3, <1>4 DEF RxBuf

LEMMA TakeRefines ==
  ASSUME DriverTypeOK, RxInv, ClearFlag
  PROVE  Port!Take
<1>1. /\ UNCHANGED <<arrived, posted, tx, sent>> /\ taken' = Append(taken, m)
      /\ rx' = [rx EXCEPT ![buf].full = FALSE] /\ pc = "clear"
  BY DEF ClearFlag, txVars, Go
<1>2. buf \in RxBuf /\ rx[buf].full /\ m = Held(buf)
  BY <1>1 DEF DriverTypeOK, RxInv, Reading, HasId, HasRtr, HasDlc, Held, Content
<1>3. /\ ~rx'[buf].full
      /\ \A b \in RxBuf \ {buf} : rx'[b] = rx[b]
  BY <1>1, <1>2 DEF DriverTypeOK, RxSlot
<1>4. Waiting' = Waiting \ {m}
  BY <1>2, <1>3, WaitingElements DEF Waiting, Held
<1>5. m \in Waiting
  BY <1>2, WaitingElements
<1> QED BY <1>1, <1>4, <1>5 DEF Port!Take, Pending

LEMMA PendingElements ==
  ASSUME DriverTypeOK, TxInv
  PROVE  /\ \A f : f \in Pending <=> \E b \in TxBuf : tx[b].req /\ f = Sendable(tx[b])
         /\ \A a, b \in TxBuf :
              tx[a].req /\ tx[b].req /\ a # b => Sendable(tx[a]) # Sendable(tx[b])
<1>1. \A f : f \in Pending <=> \E b \in TxBuf : tx[b].req /\ f = Sendable(tx[b])
  BY DEF Pending
<1>2. \A a, b \in TxBuf :
        tx[a].req /\ tx[b].req /\ a # b => Sendable(tx[a]) # Sendable(tx[b])
  BY DEF TxInv, Sendable
<1> QED BY <1>1, <1>2

(* There is room in the pool while the driver fills a buffer. *)
LEMMA PendingRoom ==
  ASSUME DriverTypeOK, TxInv, ~tx[buf].req
  PROVE  Cardinality(Pending) < 3
<1>1. PICK a \in TxBuf, b \in TxBuf : TxBuf = {buf, a, b}
  BY DEF DriverTypeOK, TxBuf
<1> DEFINE Two == {Sendable(tx[a])} \cup {Sendable(tx[b])}
<1>2. IsFiniteSet(Two) /\ Cardinality(Two) <= 2
  <2>1. IsFiniteSet({Sendable(tx[a])}) /\ Cardinality({Sendable(tx[a])}) = 1
    BY FS_Singleton
  <2> QED BY <2>1, FS_AddElement
<1>3. Pending \subseteq Two
  BY <1>1, PendingElements
<1>4. Cardinality(Two) \in Nat
  BY <1>2, FS_CardinalityType
<1>5. IsFiniteSet(Pending) /\ Cardinality(Pending) <= Cardinality(Two)
  BY <1>2, <1>3, FS_Subset
<1>6. Cardinality(Pending) \in Nat
  BY <1>5, FS_CardinalityType
<1> HIDE DEF Two
<1> QED BY <1>2, <1>4, <1>5, <1>6

LEMMA SentPortAppend ==
  ASSUME DriverTypeOK, NEW f \in Content, sent' = Append(sent, f)
  PROVE  SentPort' = Append(SentPort, Sendable(f))
<1>1. /\ Len(sent) \in Nat /\ DOMAIN sent = 1..Len(sent)
      /\ DOMAIN sent' = 1..(Len(sent) + 1)
      /\ sent'[Len(sent) + 1] = f /\ \A i \in DOMAIN sent : sent'[i] = sent[i]
  BY SentAppend
<1>2. \A i \in 1..Len(sent) : Sendable(sent[i]) \in OutFrame
  <2>1. \A i \in 1..Len(sent) : sent[i] \in Content
    BY DEF DriverTypeOK
  <2> QED BY <2>1 DEF Content, Sendable, OutFrame
<1>3. Sendable(f) \in OutFrame
  BY DEF Content, Sendable, OutFrame
<1>4. SentPort \in Seq(OutFrame) /\ Len(SentPort) = Len(sent)
  BY <1>1, <1>2 DEF SentPort
<1>5. SentPort' \in Seq(OutFrame) /\ Len(SentPort') = Len(sent) + 1
  <2>1. \A i \in 1..(Len(sent) + 1) : Sendable(sent'[i]) \in OutFrame
    BY <1>1, <1>2, <1>3
  <2> QED BY <1>1, <2>1 DEF SentPort
<1>6. Append(SentPort, Sendable(f)) \in Seq(OutFrame)
      /\ Len(Append(SentPort, Sendable(f))) = Len(sent) + 1
  BY <1>3, <1>4
<1>7. \A i \in 1..(Len(sent) + 1) : SentPort'[i] = Append(SentPort, Sendable(f))[i]
  BY <1>1, <1>3, <1>4 DEF SentPort
<1> QED BY <1>5, <1>6, <1>7, SeqEqual

LEMMA EmitRefines ==
  ASSUME DriverTypeOK, TxInv, NEW b \in TxBuf, Transmit(b)
  PROVE  Port!Emit
<1>1. UNCHANGED <<arrived, rx, taken, posted>>
  BY DEF Transmit, rxVars
<1>2. SentPort' = Append(SentPort, Sendable(tx[b]))
  <2>1. Sendable(OnBus(tx[b])) = Sendable(tx[b])
    BY DEF Sendable, OnBus
  <2> QED BY <2>1, TransmitEffect, SentPortAppend
<1>3. Pending' = Pending \ {Sendable(tx[b])}
  <2>1. \A a \in TxBuf : (tx'[a].req <=> a # b /\ tx[a].req)
                         /\ Sendable(tx'[a]) = Sendable(tx[a])
    BY TransmitEffect DEF Sendable
  <2>2. \A f : f \in Pending' <=> \E a \in TxBuf : tx'[a].req /\ f = Sendable(tx'[a])
    BY DEF Pending, Sendable
  <2>3. tx[b].req
    BY TransmitEffect
  <2> QED BY <2>1, <2>2, <2>3, PendingElements
<1>4. Sendable(tx[b]) \in Pending
  BY TransmitEffect, PendingElements
<1>5. UNCHANGED Waiting
  BY <1>1 DEF Waiting
<1> QED BY <1>1, <1>2, <1>3, <1>4, <1>5 DEF Port!Emit, SentPort

LEMMA PostRefines ==
  ASSUME DriverTypeOK, TxInv, StartTransmit
  PROVE  Port!Post
<1>1. /\ UNCHANGED <<arrived, rx, taken, sent>> /\ pc = "start"
      /\ ~WriteData /\ ~WriteDlc /\ ~WriteId
  BY DEF StartTransmit, rxVars, WriteData, WriteDlc, WriteId, Write, Go
<1>2. /\ ~tx[buf].req /\ given \notin posted /\ posted' = posted \cup {given}
      /\ given \in 1..MaxSends
  BY <1>1 DEF StartTransmit, TxInv, Unposted, Filling, DriverTypeOK, InSend
<1>3. /\ tx'[buf].req /\ Sendable(tx'[buf]) = Port!ToSend(given)
      /\ \A b \in TxBuf \ {buf} : tx'[b] = tx[b]
  BY <1>1, FillEffect DEF TxInv, DataIn, DlcIn, Sendable, Port!ToSend
<1>4. Pending' = Pending \cup {Port!ToSend(given)}
  <2>1. \A f : f \in Pending' <=> \E a \in TxBuf : tx'[a].req /\ f = Sendable(tx'[a])
    BY DEF Pending, Sendable
  <2> QED BY <1>2, <1>3, <2>1, PendingElements, FillEffect
<1>5. UNCHANGED Waiting /\ UNCHANGED SentPort
  BY <1>1 DEF Waiting, SentPort, Sendable
<1> QED BY <1>1, <1>2, <1>4, <1>5, PendingRoom, PortCardinality DEF Port!Post, SentPort

LEMMA WipeRefines == ResetChip => Port!Wipe
<1> SUFFICES ASSUME ResetChip PROVE Port!Wipe
  OBVIOUS
<1>1. Waiting' = {} /\ Pending' = {}
  BY DEF ResetChip, Waiting, Pending, EmptyRx, EmptyTx
<1>2. UNCHANGED <<arrived, taken, posted, sent>>
  BY DEF ResetChip
<1>3. UNCHANGED SentPort
  BY <1>2 DEF SentPort, Sendable
<1> QED BY <1>1, <1>2, <1>3 DEF Port!Wipe, SentPort

(* The other steps change nothing a CanPort shows. *)
LEMMA StutterRefines ==
  ASSUME DriverTypeOK, TxInv,
         \/ CheckReceive \/ SetMsg \/ EnterNormalMode \/ Restart \/ ReadStatus
         \/ CopyId \/ CopyRtr \/ CopyDlc \/ CopyData
         \/ NextFreeTXBuf \/ WriteData \/ WriteDlc \/ WriteId \/ WaitSent
         \/ UNCHANGED driverVars
  PROVE  UNCHANGED Port!vars
<1>1. UNCHANGED <<arrived, rx, taken, posted, sent>>
  BY DEF CheckReceive, SetMsg, EnterNormalMode, Restart, ReadStatus, CopyId, CopyRtr,
         CopyDlc, CopyData, Copy, NextFreeTXBuf, WriteData, WriteDlc, WriteId, Write,
         WaitSent, rxVars, txVars, driverVars
<1>2. ASSUME UNCHANGED tx PROVE UNCHANGED Pending
  BY <1>2 DEF Pending, Sendable
<1>3. ASSUME WriteData \/ WriteDlc \/ WriteId PROVE UNCHANGED Pending
  <2>1. ~tx[buf].req /\ ~tx'[buf].req /\ \A b \in TxBuf \ {buf} : tx'[b] = tx[b]
    BY <1>3, FillEffect DEF TxInv, Filling, WriteData, WriteDlc, WriteId, Write, Go,
                            StartTransmit
  <2>2. \A f : f \in Pending' <=> \E a \in TxBuf : tx'[a].req /\ f = Sendable(tx'[a])
    BY DEF Pending, Sendable
  <2>3. \A f : f \in Pending' <=> f \in Pending
    BY <1>3, <2>1, <2>2, PendingElements
  <2> QED BY <2>3
<1>4. UNCHANGED Pending
  BY <1>2, <1>3 DEF CheckReceive, SetMsg, EnterNormalMode, Restart, ReadStatus, CopyId,
       CopyRtr, CopyDlc, CopyData, Copy, NextFreeTXBuf, WaitSent, rxVars, txVars, driverVars
<1>5. UNCHANGED Waiting /\ UNCHANGED SentPort
  BY <1>1 DEF Waiting, SentPort, Sendable
<1> QED BY <1>1, <1>4, <1>5 DEF Port!vars, SentPort

LEMMA StepRefines ==
  ASSUME DriverInv, DriverInv', [DriverNext]_driverVars
  PROVE  [Port!PortNext]_(Port!vars)
<1> USE DEF DriverInv
<1>1. CASE Arrive
  BY <1>1, ArriveRefines DEF Port!PortNext
<1>2. CASE \E b \in TxBuf : Transmit(b)
  BY <1>2, EmitRefines DEF Port!PortNext
<1>3. CASE ClearFlag
  BY <1>3, TakeRefines DEF Port!PortNext
<1>4. CASE StartTransmit
  BY <1>4, PostRefines DEF Port!PortNext
<1>5. CASE ResetChip
  BY <1>5, WipeRefines DEF Port!PortNext
<1> QED
  BY <1>1, <1>2, <1>3, <1>4, <1>5, StutterRefines
  DEF DriverNext, Chip, Sketch, Driver, ReadStep, SendStep

(* readMsgBuf and sendMsgBuf are what CanPort promises: frames come in and *)
(* go out whole and at most once, and are lost only for want of a buffer   *)
(* or to a reset (mcp_can.cpp 752-873), for every number of frames, calls  *)
(* and restarts, however the driver's transactions and the controller      *)
(* interleave.                                                             *)
THEOREM DriverImplementsPort == DriverSpec => PortSpec
BY PortInitRefines, StepRefines, DriverInvCorrect, PTL
   DEF DriverSpec, PortSpec, Port!PortSpec
=============================================================================
