------------------------------ MODULE EchoCheck ------------------------------
(***************************************************************************)
(* checkSerialGoodness on the host against the echoserial sketch: the host *)
(* writes a byte that counts up, waits a second for one byte, and compares.*)
(* Bytes may take longer than that, and the line may lose or damage them.  *)
(***************************************************************************)
EXTENDS Integers, Sequences

CONSTANTS
  ByteValues,   \* values of unsigned char: 256 in the code
  InFlight,     \* bound: bytes under way in each direction
  MaxFaults     \* bound: bytes lost or damaged

ASSUME EchoAssumption ==
  ByteValues \in Nat \ {0} /\ InFlight \in Nat /\ MaxFaults \in Nat

EchoByte == 0..(ByteValues - 1)

VARIABLES
  echoPc,       \* the host: about to write, or waiting
  count,        \* the byte it writes
  toSketch, toHost,   \* bytes under way
  oops,         \* did the last comparison fail?
  faults        \* ghost: bytes lost or damaged

echoVars == <<echoPc, count, toSketch, toHost, oops, faults>>

EchoInit == /\ echoPc = "write" /\ count = 0 /\ toSketch = <<>> /\ toHost = <<>>
            /\ oops = FALSE /\ faults = 0

WriteByte == /\ echoPc = "write" /\ echoPc' = "wait"
             /\ Len(toSketch) < InFlight
             /\ toSketch' = Append(toSketch, count)
             /\ UNCHANGED <<count, toHost, oops, faults>>

NextCount == (count + 1) % ByteValues

(* A bug: all bytes that wait are read, and the first is compared.         *)
CompareReadsAll ==
  /\ echoPc = "wait" /\ toHost # <<>> /\ echoPc' = "write"
  /\ oops' = (Head(toHost) # count)
  /\ toHost' = <<>> /\ count' = NextCount
  /\ UNCHANGED <<toSketch, faults>>

(* serialread returns a byte, the oldest that waits.                       *)
Compare ==
  /\ echoPc = "wait" /\ toHost # <<>> /\ echoPc' = "write"
  /\ oops' = (Head(toHost) # count)
  /\ toHost' = Tail(toHost) /\ count' = NextCount
  /\ UNCHANGED <<toSketch, faults>>

(* A bug: the same byte is written again.                                  *)
TimeoutRetries ==
  /\ echoPc = "wait" /\ toHost = <<>> /\ echoPc' = "write" /\ UNCHANGED count
  /\ UNCHANGED <<toSketch, toHost, oops, faults>>

(* serialread times out: nothing is compared, the count goes on.           *)
Timeout ==
  /\ echoPc = "wait" /\ toHost = <<>> /\ echoPc' = "write" /\ count' = NextCount
  /\ UNCHANGED <<toSketch, toHost, oops, faults>>

(* The loop of the sketch.                                                 *)
Echo == /\ toSketch # <<>> /\ Len(toHost) < InFlight
        /\ toHost' = Append(toHost, Head(toSketch))
        /\ toSketch' = Tail(toSketch)
        /\ UNCHANGED <<echoPc, count, oops, faults>>

(* The line, on either way.                                                *)
Lose == /\ faults < MaxFaults /\ faults' = faults + 1
        /\ \/ toSketch # <<>> /\ toSketch' = Tail(toSketch) /\ UNCHANGED toHost
           \/ toHost # <<>> /\ toHost' = Tail(toHost) /\ UNCHANGED toSketch
        /\ UNCHANGED <<echoPc, count, oops>>

Damage == /\ faults < MaxFaults /\ faults' = faults + 1
          /\ \E b \in EchoByte :
               \/ toSketch # <<>> /\ toSketch' = <<b>> \o Tail(toSketch) /\ UNCHANGED toHost
               \/ toHost # <<>> /\ toHost' = <<b>> \o Tail(toHost) /\ UNCHANGED toSketch
          /\ UNCHANGED <<echoPc, count, oops>>

Host     == WriteByte \/ Compare \/ Timeout
EchoNext == Host \/ Echo \/ Lose \/ Damage

EchoSpec == EchoInit /\ [][EchoNext]_echoVars

-----------------------------------------------------------------------------
UnderWay == Len(toSketch) + Len(toHost)

(* A byte that comes late is never caught up with: the program reads one   *)
(* byte for each it writes, so that from then on it compares every byte    *)
(* with the echo of an earlier one.  Only a lost byte, or another wait in  *)
(* vain, changes how many are behind.                                      *)
Behind == UnderWay - (IF echoPc = "wait" THEN 1 ELSE 0)

BehindForEver ==
  [][Behind' < Behind => faults' > faults]_echoVars

(* On a line that does no harm every byte that comes is one that was       *)
(* written, as many counts ago as there are bytes behind.                  *)
EchoIsEarlier ==
  faults = 0 /\ echoPc = "wait" /\ toHost # <<>> =>
    Head(toHost) = (count - Behind) % ByteValues
=============================================================================
