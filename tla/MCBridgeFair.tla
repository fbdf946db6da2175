---------------------------- MODULE MCBridgeFair ----------------------------
(* What must happen in the bridge in the end, for TLC.  part says in which *)
(* surroundings: with a CAN bus that never falls silent, or with a line    *)
(* fault and a node that dies.                                             *)
EXTENDS MCBridgeSystem

CONSTANTS
  MaxMessages,   \* bound: CANSend messages published, but for
  BusyMessages,  \*   those while the bus is never silent
  BusyFrames     \* bound: received frames before they are numbered anew

VARIABLES
  part,
  messages             \* CANSend messages so far

Bus == INSTANCE BridgeSystem WITH
  MaxFrames <- BusyFrames, InCap <- 4, OutCap <- 4, MaxFaults <- 0, MaxCrashes <- 0

allVars == <<vars, part, messages>>

FairInit == Init /\ part \in {"busy", "dies"} /\ messages = 0

(* The bus goes on: once as many frames as the bound allows have come, and *)
(* the node has got far enough, all are numbered anew, CountMod lower.     *)
(* The packet counts do not change, so neither program can tell.           *)
Lower(n) == IF n > CountMod THEN n - CountMod ELSE n

LowerToken(t) == IF t[1] \in {"top", "body"} THEN <<t[1], Lower(t[2])>> ELSE t

BusGoesOn ==
  /\ packetcount = BusyFrames /\ published > CountMod
  /\ packetcount' = Lower(packetcount) /\ published' = Lower(published)
  /\ buffer' = [i \in DOMAIN buffer |-> Lower(buffer[i])]
  /\ outbox' = [k \in DOMAIN outbox |-> LowerToken(outbox[k])]
  /\ rx' = [rx EXCEPT !.body = Lower(rx.body)]
  /\ UNCHANGED <<inbox, pc, sizeRead, txarr, keepalive, stream, once, writeIndex,
                 readIndex, bus, silent, polled, npc, queue, transmitting, usedIndex,
                 datagood, repeatread, prev, counted, cur, trycnt, tmp, todo, budgets,
                 watched>>

SketchRuns == \/ part = "busy" /\ Bus!SketchTurn
              \/ part = "dies" /\ SketchTurn

NodeRuns == \/ part = "busy" /\ Bus!NodeTurn
            \/ part = "dies" /\ NodeTurn

Elsewhere == UNCHANGED <<part, messages>>
BusRuns   == part = "busy" /\ BusGoesOn /\ Elsewhere
LineFails == part = "dies" /\ LineFault /\ Elsewhere
NodeDies  == part = "dies" /\ NodeEnds /\ Elsewhere

Asked == /\ messages < (IF part = "busy" THEN BusyMessages ELSE MaxMessages)
         /\ Publish /\ messages' = messages + 1 /\ UNCHANGED part

FairNext == \/ (SketchRuns \/ NodeRuns) /\ Elsewhere
            \/ BusRuns \/ LineFails \/ NodeDies \/ Asked

(* Both programs run on: the sketch's loop and its watchdog, the node's    *)
(* thread and its timeouts.  Nothing else has to happen.                   *)
PartsSpec == /\ FairInit /\ [][FairNext]_allVars
             /\ WF_allVars(SketchRuns /\ Elsewhere)
             /\ WF_allVars(NodeRuns /\ Elsewhere)
=============================================================================
