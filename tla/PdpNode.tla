------------------------------- MODULE PdpNode -------------------------------
(***************************************************************************)
(* can_pdp: the class PDP, which reads a power distribution panel, and the *)
(* node that publishes what it reads.                                      *)
(*                                                                         *)
(* A panel sends four status frames.  Each carries readings, packed into   *)
(* bit fields, and comes through the bridge into the subscription CANRecv. *)
(* The class looks for the frame in receivedCAN, which the callback of     *)
(* that subscription fills.  The node as it stands never calls spin(), and *)
(* so never the callback: it publishes zeros (NodeNext).  SpinNext is any  *)
(* node that uses the class and spins now and then.                        *)
(***************************************************************************)
EXTENDS Integers, Sequences, FiniteSets, SequencesExt

CONSTANTS
  Device,      \* the number the object is made with: 0 in the node
  Panels,      \* the numbers of the panels on the bus
  Readings,    \* what a panel may measure: a sequence of functions of signals
  Length,      \* queue_size of CANRecv: 100
  MaxFrames,   \* bound: frames the panels send
  MaxControls  \* bound: control frames sent

ASSUME PanelAssumption ==
  Device \in Panels /\ {Length, MaxFrames, MaxControls} \subseteq Nat /\ Length > 0

-----------------------------------------------------------------------------
(* The frames and their fields.  A channel has ten bits, in two fields.    *)
StatusFrame == {"STATUS_1", "STATUS_2", "STATUS_3", "STATUS_ENERGY"}

Currents == {<<"Current", c>> : c \in 0..15}
HighWidth(c) == <<8, 6, 4, 2, 8, 6>>[(c % 6) + 1]
ChannelFrame(c) == IF c <= 5 THEN "STATUS_1" ELSE IF c <= 11 THEN "STATUS_2"
                                                          ELSE "STATUS_3"

(* The widths of the fields of every signal, from the highest to the       *)
(* lowest: chan1_h8 and chan1_l2, ...                                      *)
Widths(sig) ==
  CASE sig \in Currents         -> <<HighWidth(sig[2]), 10 - HighWidth(sig[2])>>
    [] sig[1] = "TotalCurrent" -> <<8, 4>>
    [] sig[1] = "TotalPower"   -> <<4, 8, 4>>
    [] sig[1] = "TotalEnergy"  -> <<4, 8, 8, 8>>
    [] OTHER                   -> <<8>>

(* What the loop of main() asks for, in order.                             *)
Loop == [k \in 1..16 |-> <<"Current", k - 1>>] \o
        << <<"Voltage", 0>>, <<"Temperature", 0>>, <<"TotalCurrent", 0>>,
           <<"TotalPower", 0>>, <<"TotalEnergy", 0>> >>
Signal == {Loop[k] : k \in DOMAIN Loop}

(* The energy is a sum over steps of so many milliseconds.                 *)
TmeasMs == <<"TmeasMs", 0>>
Field   == Signal \cup {TmeasMs}

FrameOf(sig) ==
  CASE sig \in Currents                      -> ChannelFrame(sig[2])
    [] sig[1] \in {"Voltage", "Temperature"} -> "STATUS_3"
    [] OTHER                                 -> "STATUS_ENERGY"

-----------------------------------------------------------------------------
(* GetChannelCurrent, GetVoltage, ...: how far each shifts what it has     *)
(* before it takes the next field.  Amps, volts, degrees and watts are     *)
(* linear functions of the number, joules of its product with TmeasMs,     *)
(* which is what is kept here.                                             *)

(* A bug: every channel is shifted like the first.                         *)
ShiftsSame(sig) == IF sig \in Currents THEN <<0, 2>>
                   ELSE <<0, 4, 4, 8>>

Shifts(sig) ==
  CASE sig \in Currents -> <<0, <<2, 4, 6, 8, 2, 4>>[(sig[2] % 6) + 1]>>
    [] sig[1] = "TotalCurrent" -> <<0, 4>>
    [] sig[1] = "TotalPower"   -> <<0, 8, 4>>
    [] sig[1] = "TotalEnergy"  -> <<0, 8, 8, 8>>
    [] OTHER                   -> <<0>>

Taking(raw, sig, fields, k) ==
  IF k \in DOMAIN fields THEN raw * 2^Shifts(sig)[k] + fields[k] ELSE raw
Raw(sig, fields) ==
  Taking(Taking(Taking(fields[1], sig, fields, 2), sig, fields, 3), sig, fields, 4)

(* The panel: the fields of a signal from what it measures.                *)
Below(sig, k) ==
  LET bits(j) == IF j \in DOMAIN Widths(sig) /\ j > k THEN Widths(sig)[j] ELSE 0
  IN bits(1) + bits(2) + bits(3) + bits(4)
Packed(sig, n) ==
  [k \in DOMAIN Widths(sig) |-> (n \div 2^Below(sig, k)) % 2^Widths(sig)[k]]
ASSUME ReadingAssumption ==
  Readings \in Seq([Field -> Nat])
    /\ \A r \in DOMAIN Readings : \A sig \in Field : Readings[r][sig] < 2^Below(sig, 0)

Sends == [r \in DOMAIN Readings |-> [sig \in Field |-> Packed(sig, Readings[r][sig])]]

(* The identifiers of the macros GET_STATUS...: without the device number, *)
(* which is that of panel 0.                                               *)
ReadId(frame) == <<frame, 0>>

-----------------------------------------------------------------------------
VARIABLES
  queue,       \* CANRecv: frames that wait for the callback
  received,    \* receivedCAN: the reading last stored of each frame, 0 if none
  events,      \* _rxRxEvents: the reading last found
  step,        \* where the loop of main() is
  got,         \* what the last getter returned
  control,     \* control frames sent to the panels
  sent         \* ghost: the readings sent in each frame

pdpVars == <<queue, received, events, step, got, control, sent>>

Ids  == StatusFrame \X Panels
None == 0
ClearBit == "0x80"
ResetBit == "0x40"

PdpInit ==
  /\ queue = <<>> /\ received = [i \in Ids |-> None] /\ events = [i \in Ids |-> None]
  /\ step = 1
  /\ got = [sig |-> Loop[1], value |-> 0, err |-> "CTR_RxTimeout"]
  /\ control = <<>>
  /\ sent = [i \in Ids |-> {}]

Traffic == FoldFunction(LAMBDA s, n : Cardinality(s) + n, 0, sent)

(* A panel sends a frame; a full subscription drops its oldest.            *)
PanelSends(i, r) ==
  /\ Traffic < MaxFrames /\ r \notin sent[i]
  /\ queue' = Append(IF Len(queue) = Length THEN Tail(queue) ELSE queue, <<i, r>>)
  /\ sent' = [sent EXCEPT ![i] = @ \cup {r}]
  /\ UNCHANGED <<received, events, step, got, control>>

(* CANRecvCallback, if anybody spins.                                      *)
CANRecvCallback ==
  /\ queue # <<>> /\ queue' = Tail(queue)
  /\ received' = [received EXCEPT ![Head(queue)[1]] = Head(queue)[2]]
  /\ UNCHANGED <<events, step, got, control, sent>>

(* GetRx: the frame in receivedCAN; failing that the one found before, of  *)
(* any age; and failing that zeros.                                        *)
Found(i) == IF received[i] # None THEN received[i] ELSE events[i]

Number(sig, i) ==
  Raw(sig, IF Found(i) = None THEN [k \in DOMAIN Widths(sig) |-> 0]
                              ELSE Sends[Found(i)][sig])
Result(sig, i) == IF sig[1] = "TotalEnergy" THEN Number(sig, i) * Number(TmeasMs, i)
                                            ELSE Number(sig, i)

Errors(i) == CASE received[i] # None -> {"CTR_OKAY"}
               [] received[i] = None /\ events[i] # None -> {"CTR_OKAY", "CTR_RxTimeout"}
               [] OTHER -> {"CTR_RxTimeout"}

(* One getter of the loop.  What it returns goes into the message, which   *)
(* has no place for the error.                                             *)
Get ==
  LET sig == Loop[step]
      i   == ReadId(FrameOf(sig))
  IN /\ \E err \in Errors(i) : got' = [sig |-> sig, value |-> Result(sig, i), err |-> err]
     /\ events' = [events EXCEPT ![i] = IF received[i] # None THEN received[i] ELSE @]
     /\ step' = (step % Len(Loop)) + 1
     /\ UNCHANGED <<queue, received, control, sent>>

(* ClearStickyFaults and ResetEnergy.  The node calls neither: the         *)
(* callbacks of its topics are empty.                                      *)
Ask(op) ==
  /\ Len(control) < MaxControls
  /\ control' = Append(control, [to |-> Device,
                                 bit |-> IF op = "clear" THEN ClearBit ELSE ResetBit])
  /\ UNCHANGED <<queue, received, events, step, got, sent>>

Panel    == \E i \in Ids, r \in DOMAIN Readings : PanelSends(i, r)
NodeNext == Panel \/ Get
SpinNext == NodeNext \/ CANRecvCallback \/ \E op \in {"clear", "reset"} : Ask(op)

PdpSpec == PdpInit /\ [][SpinNext]_pdpVars

-----------------------------------------------------------------------------
Measured(sig, r) == IF sig[1] = "TotalEnergy" THEN Readings[r][sig] * Readings[r][TmeasMs]
                                              ELSE Readings[r][sig]
Own(sig)         == <<FrameOf(sig), Device>>

(* A number that a getter returns without an error was measured by the     *)
(* panel whose number the object was given (PDP.h:10 "deviceNumber         *)
(* Device ID for PDP"), for that signal: not for another that shares the   *)
(* frame, nor by another panel, nor at two times (PDP.cpp 182).            *)
SignalIsOwn ==
  got.err = "CTR_OKAY" =>
    \E r \in sent[Own(got.sig)] : got.value = Measured(got.sig, r)
=============================================================================
