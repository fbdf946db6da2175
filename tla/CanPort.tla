------------------------------- MODULE CanPort -------------------------------
(***************************************************************************)
(* What a CAN controller and its driver promise together: a mailbox for    *)
(* received frames, which are handed over whole, at most once and in no    *)
(* particular order, and a pool of frames to send, which leave whole, at   *)
(* most once and in no particular order.  A frame is lost only when it     *)
(* finds the mailbox full, or when the controller is reset.                *)
(***************************************************************************)
EXTENDS Naturals, Sequences, FiniteSets

CONSTANTS
  RxSize,      \* frames the mailbox holds
  TxSize,      \* frames the pool holds
  MaxFrames,   \* bound: frames on the bus
  MaxSends,    \* bound: frames given to send
  Remote       \* is a frame a remote request: the values in use

VARIABLES
  arrived,     \* frames that were on the bus so far: the number of the last
  inbox,       \* the mailbox
  taken,       \* the frames handed over, in order
  posted,      \* numbers of the frames ever accepted for sending
  outbox,      \* the pool
  sent         \* the frames that left, in order

vars == <<arrived, inbox, taken, posted, outbox, sent>>

(* Identifier, length and data of frame number n all read n, so that parts *)
(* of two frames are told apart.                                           *)
Received(n, r) == [id |-> n, rtr |-> r, dlc |-> n, dta |-> n]
ToSend(n)      == [id |-> n, dlc |-> n, dta |-> n]

PortInit ==
  /\ arrived = 0 /\ inbox = {} /\ taken = <<>>
  /\ posted = {} /\ outbox = {} /\ sent = <<>>

Arrive ==
  /\ arrived < MaxFrames
  /\ arrived' = arrived + 1
  /\ IF Cardinality(inbox) < RxSize
     THEN \E r \in Remote : inbox' = inbox \cup {Received(arrived + 1, r)}
     ELSE UNCHANGED inbox
  /\ UNCHANGED <<taken, posted, outbox, sent>>

Take ==
  /\ \E f \in inbox : /\ inbox' = inbox \ {f}
                      /\ taken' = Append(taken, f)
  /\ UNCHANGED <<arrived, posted, outbox, sent>>

Post ==
  /\ Cardinality(outbox) < TxSize
  /\ \E n \in (1..MaxSends) \ posted : /\ outbox' = outbox \cup {ToSend(n)}
                                       /\ posted' = posted \cup {n}
  /\ UNCHANGED <<arrived, inbox, taken, sent>>

Emit ==
  /\ \E f \in outbox : /\ outbox' = outbox \ {f}
                       /\ sent' = Append(sent, f)
  /\ UNCHANGED <<arrived, inbox, taken, posted>>

Wipe ==
  /\ inbox' = {} /\ outbox' = {}
  /\ UNCHANGED <<arrived, taken, posted, sent>>

PortNext == Arrive \/ Take \/ Post \/ Emit \/ Wipe

PortSpec == PortInit /\ [][PortNext]_vars
=============================================================================
