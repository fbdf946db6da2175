----------------------------- MODULE FrameWindow -----------------------------
(***************************************************************************)
(* What the receive buffer of the CANBridge sketch does, seen from the     *)
(* host: frames are numbered from 1 in the order the CAN controller        *)
(* delivered them, and `unread' of the newest are waiting.  Nothing here   *)
(* knows about slots or indices.                                           *)
(***************************************************************************)
EXTENDS Integers

CONSTANTS
  Size,   \* slots of the buffer: RXBUFFERSIZE
  Back    \* how far the 'r' command steps back

VARIABLES
  packetcount,  \* frames received so far
  unread,       \* how many of the newest frames are waiting
  offer         \* the frame the next Take hands to the host

vars == <<packetcount, unread, offer>>

Nothing == -1   \* no frame waiting
Blank   == 0    \* a slot no frame was ever written to

(* The oldest of the u newest of c frames. *)
Oldest(c, u) == IF u = 0 THEN Nothing
                ELSE IF u <= c THEN c - u + 1 ELSE Blank

Init == packetcount = 0 /\ unread = 0 /\ offer = Nothing

(* A frame arrives; when Size - 1 are waiting the oldest of them is lost. *)
Put ==
  /\ packetcount' = packetcount + 1
  /\ unread' = IF unread < Size - 1 THEN unread + 1 ELSE unread
  /\ offer' = Oldest(packetcount', unread')

(* The oldest waiting frame goes to the host. *)
Take ==
  /\ unread > 0
  /\ unread' = unread - 1
  /\ offer' = Oldest(packetcount, unread')
  /\ UNCHANGED packetcount

(* Step back.  Counted modulo Size: beyond Size the step goes forward. *)
Rewind ==
  /\ unread' = IF unread + Back < Size THEN unread + Back
                                       ELSE unread + Back - Size
  /\ offer' = Oldest(packetcount, unread')
  /\ UNCHANGED packetcount

(* The controller restarts. *)
Reset == packetcount' = 0 /\ unread' = 0 /\ offer' = Nothing

Next == Put \/ Take \/ Rewind \/ Reset

Spec == Init /\ [][Next]_vars
=============================================================================
