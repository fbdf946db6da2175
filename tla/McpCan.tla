-------------------------------- MODULE McpCan --------------------------------
(***************************************************************************)
(* The MCP2515 controller and the driver the sketches reach it through     *)
(* (mcp_can.cpp).  Every access of the driver is one SPI transaction, and  *)
(* the controller goes on receiving and sending between two of them: pc is *)
(* the transaction that comes next, in readMsgBuf or in sendMsgBuf.        *)
(*                                                                         *)
(* Frames are numbers: identifier, length and data of frame n all read n.  *)
(* The DLC is at most 8.  How begin() sets the controller up is McpSetup's *)
(* subject; here it is the reset and the return to normal mode.            *)
(***************************************************************************)
EXTENDS Integers, Sequences, FiniteSets

CONSTANTS
  TIMEOUTVALUE, \* polls in each loop of sendMsg: 50; at least 2
  MaxArrivals,  \* bound: frames other nodes put on the bus
  MaxSends,     \* bound: frames the sketch sends
  MaxResets,    \* bound: restarts of the processor
  Remote        \* is a frame of another node a remote request: values in use

ASSUME DriverAssumption ==
  /\ TIMEOUTVALUE \in Nat /\ TIMEOUTVALUE >= 2
  /\ MaxArrivals \in Nat /\ MaxSends \in Nat /\ MaxResets \in Nat
  /\ Remote \subseteq BOOLEAN

RxBuf == 0..1
TxBuf == 0..2        \* MCP_N_TXBUFFERS
Send  == 1..MaxSends

CAN_OK             == "CAN_OK"
CAN_GETTXBFTIMEOUT == "CAN_GETTXBFTIMEOUT"
CAN_SENDMSGTIMEOUT == "CAN_SENDMSGTIMEOUT"
Running            == "running"     \* sendMsgBuf has not returned
Dropped            == "dropped"     \* a restart cut the call short

VARIABLES
  mode,         \* of the controller
  rx,           \* receive buffers, with RXnIF as "full"
  tx,           \* transmit buffers, with TXREQ as "req"
  m,            \* m_nID, m_nRtr, m_nDlc, m_nDta of the MCP_CAN object
  pc,           \* the next transaction of the driver
  buf,          \* the buffer readMsg or sendMsg works on
  tries,        \* uiTimeOut
  arrived,      \* frames that came from the bus so far
  taken,        \* ghost: frames readMsgBuf handed over, in order
  given,        \* ghost: frames given to sendMsgBuf so far
  result,       \* ghost: what became of the call for each of them
  posted,       \* ghost: those of them a transmit was started for
  sent,         \* ghost: frames the controller sent, in order
  resets        \* restarts of the processor so far

rxVars   == <<rx, arrived, taken>>
txVars   == <<tx, given, result, posted, sent>>
driverVars == <<mode, rx, tx, m, pc, buf, tries, arrived, taken, given, result,
                posted, sent, resets>>

Blank   == [id |-> 0, rtr |-> FALSE, dlc |-> 0, dta |-> 0]
EmptyRx == [full |-> FALSE, id |-> 0, rtr |-> FALSE, dlc |-> 0, dta |-> 0]
EmptyTx == [req |-> FALSE, id |-> 0, rtr |-> FALSE, dlc |-> 0, dta |-> 0]

DriverInit ==
  /\ mode = "config" /\ pc = "setup" /\ m = Blank /\ buf = 0 /\ tries = 0
  /\ rx = [b \in RxBuf |-> EmptyRx] /\ tx = [b \in TxBuf |-> EmptyTx]
  /\ arrived = 0 /\ taken = <<>>
  /\ given = 0 /\ result = <<>> /\ posted = {} /\ sent = <<>> /\ resets = 0

-----------------------------------------------------------------------------
(* The controller.  A frame goes to buffer 0, or to buffer 1 when that one *)
(* is full (rollover), or is lost.  Of several frames to send any may be   *)
(* the next: the driver gives them no priorities of its own.               *)

Arrive ==
  /\ mode = "normal" /\ arrived < MaxArrivals
  /\ arrived' = arrived + 1
  /\ \E r \in Remote :
       LET n == arrived + 1
           f == [full |-> TRUE, id |-> n, rtr |-> r, dlc |-> n, dta |-> n]
       IN rx' = CASE ~rx[0].full -> [rx EXCEPT ![0] = f]
                  [] rx[0].full /\ ~rx[1].full -> [rx EXCEPT ![1] = f]
                  [] OTHER -> rx
  /\ UNCHANGED <<mode, m, pc, buf, tries, taken, txVars, resets>>

OnBus(t) == [id |-> t.id, rtr |-> t.rtr, dlc |-> t.dlc, dta |-> t.dta]

Transmit(b) ==
  /\ mode = "normal" /\ tx[b].req
  /\ tx' = [tx EXCEPT ![b].req = FALSE]
  /\ sent' = Append(sent, OnBus(tx[b]))
  /\ UNCHANGED <<mode, m, pc, buf, tries, rxVars, given, result, posted, resets>>

-----------------------------------------------------------------------------
(* begin(): the controller is reset, then brought into normal mode.        *)

(* A bug: the controller is only taken out of normal mode, and keeps what  *)
(* it had to send.                                                         *)
ResetMode ==
  /\ pc = "setup" /\ pc' = "begin"
  /\ mode' = "config"
  /\ UNCHANGED <<rxVars, txVars, m, buf, tries, resets>>

ResetChip ==
  /\ pc = "setup" /\ pc' = "begin"
  /\ mode' = "config"
  /\ rx' = [b \in RxBuf |-> EmptyRx] /\ tx' = [b \in TxBuf |-> EmptyTx]
  /\ UNCHANGED <<m, buf, tries, arrived, taken, given, result, posted, sent, resets>>

EnterNormalMode ==
  /\ pc = "begin" /\ pc' = "idle"
  /\ mode' = "normal"
  /\ UNCHANGED <<rxVars, txVars, m, buf, tries, resets>>

(* The processor starts again (the watchdog, its reset line), its memory   *)
(* cleared; the controller goes on until begin() resets it.                *)
Cut(res) == [k \in DOMAIN res |-> IF res[k] = Running THEN Dropped ELSE res[k]]

Restart ==
  /\ pc \notin {"setup", "begin"} /\ resets < MaxResets
  /\ pc' = "setup" /\ m' = Blank /\ buf' = 0 /\ tries' = 0
  /\ result' = Cut(result) /\ resets' = resets + 1
  /\ UNCHANGED <<mode, rxVars, tx, given, posted, sent>>

-----------------------------------------------------------------------------
(* readMsgBuf, called once checkReceive has seen a flag.  Buffer 0 is      *)
(* served first.  The flag of a buffer is cleared after it has been read:  *)
(* until then the controller leaves the buffer alone.                      *)

Go(from, to) == pc = from /\ pc' = to

CheckReceive ==
  /\ Go("idle", "status")
  /\ \E b \in RxBuf : rx[b].full
  /\ UNCHANGED <<mode, rxVars, txVars, m, buf, tries, resets>>

(* A bug: the status bits of the two buffers are tested the other way      *)
(* round.                                                                  *)
OneFirst == IF rx[1].full THEN 1 ELSE 0

Chosen == IF rx[0].full THEN 0 ELSE 1

ReadStatus ==
  /\ Go("status", "id")
  /\ buf' = Chosen
  /\ UNCHANGED <<mode, rxVars, txVars, m, tries, resets>>

Copy(from, to, field) ==
  /\ Go(from, to)
  /\ m' = [m EXCEPT ![field] = rx[buf][field]]
  /\ UNCHANGED <<mode, rxVars, txVars, buf, tries, resets>>

(* A bug: the flag is cleared before the data have been read.              *)
CopyDataLate ==
  /\ Go("data", "clear")
  /\ m' = [m EXCEPT !.dta = rx[buf].dta]
  /\ rx' = [rx EXCEPT ![buf].full = FALSE]
  /\ UNCHANGED <<mode, arrived, taken, txVars, buf, tries, resets>>

CopyId   == Copy("id", "rtr", "id")
CopyRtr  == Copy("rtr", "dlc", "rtr")
CopyDlc  == Copy("dlc", "data", "dlc")
CopyData == Copy("data", "clear", "dta")

ClearFlag ==
  /\ Go("clear", "idle")
  /\ rx' = [rx EXCEPT ![buf].full = FALSE]
  /\ taken' = Append(taken, m)
  /\ UNCHANGED <<mode, arrived, txVars, m, buf, tries, resets>>

ReadStep == \/ ReadStatus \/ CopyId \/ CopyRtr \/ CopyDlc \/ CopyData
            \/ ClearFlag

-----------------------------------------------------------------------------
(* sendMsgBuf with four arguments, the only one the sketches call.  It     *)
(* sets everything of m but m_nRtr.  sendMsg then looks for a free buffer, *)
(* fills and starts it, and waits for it to be sent.                       *)

(* A bug: the arguments of the two forms of sendMsgBuf are mixed up, and   *)
(* the kind of identifier is taken for the remote request bit.             *)
SetMsgMixedUp ==
  /\ Go("idle", "free")
  /\ given < MaxSends
  /\ given' = given + 1
  /\ result' = Append(result, Running)
  /\ \E ext \in BOOLEAN :
       m' = [id |-> given + 1, rtr |-> ext, dlc |-> given + 1, dta |-> given + 1]
  /\ buf' = 0 /\ tries' = 0
  /\ UNCHANGED <<mode, rxVars, tx, posted, sent, resets>>

SetMsg ==
  /\ Go("idle", "free")
  /\ given < MaxSends
  /\ given' = given + 1
  /\ result' = Append(result, Running)
  /\ m' = [id |-> given + 1, rtr |-> m.rtr, dlc |-> given + 1, dta |-> given + 1]
  /\ buf' = 0 /\ tries' = 0
  /\ UNCHANGED <<mode, rxVars, tx, posted, sent, resets>>

Return(r) == /\ pc' = "idle"
             /\ result' = [result EXCEPT ![given] = r]

(* One poll more.  The loop ends when the buffer is free or the polls are  *)
(* used up; in both cases the count alone decides what is reported.        *)
Poll      == tries' = tries + 1
UsedUp    == tries + 1 = TIMEOUTVALUE

(* getNextFreeTXBuf reads the control registers one by one.                *)
NextFreeTXBuf ==
  /\ pc = "free"
  /\ IF tx[buf].req /\ buf < 2
     THEN /\ buf' = buf + 1
          /\ UNCHANGED <<pc, tries, result>>
     ELSE /\ Poll
          /\ \/ UsedUp /\ Return(CAN_GETTXBFTIMEOUT) /\ UNCHANGED buf
             \/ /\ ~UsedUp
                /\ IF tx[buf].req THEN buf' = 0 /\ UNCHANGED pc
                                  ELSE pc' = "wdata" /\ UNCHANGED buf
                /\ UNCHANGED result
  /\ UNCHANGED <<mode, rxVars, tx, m, given, posted, sent, resets>>

Write(from, to, change) ==
  /\ Go(from, to)
  /\ tx' = [tx EXCEPT ![buf] = change]
  /\ UNCHANGED <<mode, rxVars, m, buf, tries, given, result, posted, sent, resets>>

WriteData == Write("wdata", "wdlc", [tx[buf] EXCEPT !.dta = m.dta])
WriteDlc  == Write("wdlc", "wid", [tx[buf] EXCEPT !.dlc = m.dlc, !.rtr = m.rtr])
WriteId   == Write("wid", "start", [tx[buf] EXCEPT !.id = m.id])

StartTransmit ==
  /\ Go("start", "poll")
  /\ tx' = [tx EXCEPT ![buf].req = TRUE]
  /\ posted' = posted \cup {m.id}
  /\ tries' = 0
  /\ UNCHANGED <<mode, rxVars, m, buf, given, result, sent, resets>>

(* A bug: the control register of the next buffer is polled (the address   *)
(* of the buffer in place of the one before it).                           *)
WaitElsewhere ==
  /\ pc = "poll"
  /\ Poll
  /\ \/ UsedUp /\ Return(CAN_SENDMSGTIMEOUT)
     \/ /\ ~UsedUp
        /\ IF tx[(buf + 1) % 3].req THEN UNCHANGED <<pc, result>>
                                    ELSE Return(CAN_OK)
  /\ UNCHANGED <<mode, rxVars, tx, m, buf, given, posted, sent, resets>>

(* A bug: the loop that waits counts nothing.                              *)
WaitForever ==
  /\ pc = "poll" /\ ~tx[buf].req
  /\ Return(CAN_OK)
  /\ UNCHANGED <<mode, rxVars, tx, m, buf, tries, given, posted, sent, resets>>

WaitSent ==
  /\ pc = "poll"
  /\ Poll
  /\ \/ UsedUp /\ Return(CAN_SENDMSGTIMEOUT)
     \/ /\ ~UsedUp
        /\ IF tx[buf].req THEN UNCHANGED <<pc, result>> ELSE Return(CAN_OK)
  /\ UNCHANGED <<mode, rxVars, tx, m, buf, given, posted, sent, resets>>

SendStep == \/ NextFreeTXBuf \/ WriteData \/ WriteDlc \/ WriteId
            \/ StartTransmit \/ WaitSent

-----------------------------------------------------------------------------
Chip       == Arrive \/ \E b \in TxBuf : Transmit(b)
Driver     == ResetChip \/ EnterNormalMode \/ ReadStep \/ SendStep
Sketch     == CheckReceive \/ SetMsg
DriverNext == Chip \/ Sketch \/ Driver \/ Restart

DriverSpec == DriverInit /\ [][DriverNext]_driverVars

(* The processor goes on executing; that the controller ever sends         *)
(* anything is not assumed: a bus without a listener acknowledges nothing. *)
DriverFairSpec == DriverSpec /\ WF_driverVars(Driver)

-----------------------------------------------------------------------------
(* The controller and the driver are a CanPort: frames come in and go out  *)
(* whole and at most once, and none is lost but for want of a buffer or to *)
(* a reset (readMsg, sendMsg).  The remote request bit of a frame sent is  *)
(* left out: see RemoteOnlyAfterRemote.                                    *)
Waiting == {[id |-> rx[b].id, rtr |-> rx[b].rtr, dlc |-> rx[b].dlc, dta |-> rx[b].dta]
              : b \in {c \in RxBuf : rx[c].full}}
Sendable(t) == [id |-> t.id, dlc |-> t.dlc, dta |-> t.dta]
Pending == {Sendable(tx[b]) : b \in {c \in TxBuf : tx[c].req}}

Port == INSTANCE CanPort WITH
          RxSize <- 2, TxSize <- 3, MaxFrames <- MaxArrivals,
          inbox <- Waiting, outbox <- Pending,
          sent <- [i \in DOMAIN sent |-> Sendable(sent[i])]

PortSpec == Port!PortSpec

(* A frame is handed over before an older one only while the older one is  *)
(* held in buffer 1 and the newer in buffer 0 (readMsg serves buffer 0     *)
(* first, line 814): never because of how the driver empties the buffers.  *)
Older(n) == {f \in Waiting : f.id < n}
OvertakenOnlyInBufferOne ==
  [][taken' # taken /\ Older(m.id) # {} =>
       rx[0].full /\ rx[0].id = m.id /\ rx[1].full /\ rx[1].id < m.id]_driverVars

(* What sendMsg reports is true: CAN_OK only of a frame that has left,     *)
(* CAN_GETTXBFTIMEOUT only of one that never will, and one reported as     *)
(* CAN_SENDMSGTIMEOUT has left or still waits in a transmit buffer, unless *)
(* the controller was reset since.                                         *)
HasLeft(k) == \E i \in DOMAIN sent : sent[i].id = k
Waits(k)   == \E b \in TxBuf : tx[b].req /\ tx[b].id = k
SendResultTrue ==
  \A k \in DOMAIN result :
    /\ result[k] = CAN_OK => HasLeft(k)
    /\ result[k] = CAN_GETTXBFTIMEOUT => ~HasLeft(k) /\ ~Waits(k)
    /\ result[k] = CAN_SENDMSGTIMEOUT => HasLeft(k) \/ Waits(k) \/ resets > 0

(* Frames leave in the order they were given, but for those whose call     *)
(* ended in CAN_SENDMSGTIMEOUT: such a frame waits on in its buffer and    *)
(* may leave after newer ones.                                             *)
LateOnlyAfterTimeout ==
  \A i, j \in DOMAIN sent :
    i < j /\ sent[j].id < sent[i].id => result[sent[j].id] = CAN_SENDMSGTIMEOUT

(* A call of the driver returns, whether or not the controller ever sends: *)
(* both loops of sendMsg count their polls.                                *)
Returns == (pc # "idle") ~> (pc = "idle")

(* A frame leaves as a remote request, without its data, only when a       *)
(* remote request has been received: the four-argument setMsg leaves       *)
(* m_nRtr as readMsg set it.  Without one, every frame leaves as given.    *)
RemoteOnlyAfterRemote ==
  (\E i \in DOMAIN sent : sent[i].rtr) => \E j \in DOMAIN taken : taken[j].rtr
=============================================================================
