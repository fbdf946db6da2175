------------------------------- MODULE McpSetup -------------------------------
(***************************************************************************)
(* How a sketch sets the CAN controller up: begin() until it reports       *)
(* CAN_OK, then init_Mask and init_Filt, whose results it ignores.  Every  *)
(* change of mode is read back, and may turn out not to have happened.     *)
(*                                                                         *)
(* The arguments are the caller's choice.  CNF1 to CNF3, the masks and the *)
(* filters are written to effect only in configuration mode.               *)
(***************************************************************************)
EXTENDS McpRegs

CONSTANTS
  Speeds,       \* values of begin's canSpeed in use, bytes
  Ids,          \* <<ext, id>> given to init_Mask and init_Filt
  Filters,      \* numbers given to init_Filt, bytes
  MaxRefusals   \* bound: mode changes that do not happen

ASSUME SetupAssumption ==
  /\ Speeds \subseteq Byte /\ Filters \subseteq Byte
  /\ Ids \subseteq ({0} \X StdId) \cup ({1} \X ExtId)
  /\ MaxRefusals \in Nat

VARIABLES
  speed, mask, filter, num,  \* the arguments: canSpeed, <<ext, id>> twice, num
  setupPc,      \* what comes next
  begun,        \* what begin() reported last
  setupMode,    \* the mode the controller is in
  cnf,          \* CNF1, CNF2, CNF3
  rxm, rxf,     \* the registers of masks and filters
  txCleared,    \* TXBnCTRL to TXBnD7 are zero
  rollover,     \* BUKT of RXB0CTRL
  refusals,     \* mode changes that did not happen
  deaf          \* ghost: one of them in init_Mask or init_Filt

args == <<speed, mask, filter, num>>
chip == <<setupMode, cnf, rxm, rxf, txCleared, rollover>>
setupVars == <<args, setupPc, begun, chip, refusals, deaf>>

NoCnf == <<0, 0, 0>>
Unset == <<>>        \* a mask or filter nothing was written to

SetupInit ==
  /\ speed \in Speeds /\ mask \in Ids /\ filter \in Ids /\ num \in Filters
  /\ setupPc = "reset" /\ begun = "not yet"
  /\ setupMode = "config" /\ cnf = NoCnf /\ rxm = Unset /\ rxf = [n \in 0..5 |-> Unset]
  /\ txCleared = FALSE /\ rollover = FALSE /\ refusals = 0
  /\ deaf = FALSE

(* mcp2515_setCANCTRL_Mode: ok is whether the mode read back is the new one. *)
SetMode(new, ok) ==
  IF ok THEN setupMode' = new /\ UNCHANGED refusals
  ELSE /\ refusals < MaxRefusals /\ refusals' = refusals + 1
       /\ UNCHANGED setupMode

rest == <<args, cnf, rxm, rxf, txCleared, rollover>>
tallies == <<refusals, deaf>>

ResetController ==
  /\ setupPc = "reset" /\ setupPc' = "config"
  /\ setupMode' = "config" /\ cnf' = NoCnf /\ rollover' = FALSE
  /\ UNCHANGED <<args, begun, rxm, rxf, txCleared, tallies>>

(* begin() that fails is called again after a pause.                       *)
EnterConfig ==
  /\ setupPc = "config"
  /\ \E ok \in BOOLEAN :
       /\ SetMode("config", ok)
       /\ IF ok THEN setupPc' = "rate" /\ UNCHANGED begun
                ELSE setupPc' = "reset" /\ begun' = "CAN_FAILINIT"
  /\ UNCHANGED <<rest, deaf>>

(* A bug: the rows of the table are one off.                               *)
ConfigRateOff ==
  /\ setupPc = "rate"
  /\ IF speed \in Speed
     THEN setupPc' = "buffers" /\ cnf' = Timing[(speed % 16) + 1] /\ UNCHANGED begun
     ELSE setupPc' = "mask" /\ begun' = "CAN_OK" /\ UNCHANGED cnf
  /\ UNCHANGED <<args, setupMode, rxm, rxf, txCleared, rollover, tallies>>

(* mcp2515_configRate.  For a speed it does not know, mcp2515_init returns *)
(* the result of the step before, which was MCP2515_OK.                    *)
ConfigRate ==
  /\ setupPc = "rate"
  /\ IF speed \in Speed
     THEN setupPc' = "buffers" /\ cnf' = Timing[speed] /\ UNCHANGED begun
     ELSE setupPc' = "mask" /\ begun' = "CAN_OK" /\ UNCHANGED cnf
  /\ UNCHANGED <<args, setupMode, rxm, rxf, txCleared, rollover, tallies>>

(* mcp2515_initCANBuffers, then the interrupts and RXBnCTRL.               *)
InitBuffers ==
  /\ setupPc = "buffers" /\ setupPc' = "normal"
  /\ txCleared' = TRUE /\ rollover' = TRUE
  /\ UNCHANGED <<args, begun, setupMode, cnf, rxm, rxf, tallies>>

EnterNormal ==
  /\ setupPc = "normal"
  /\ \E ok \in BOOLEAN :
       /\ SetMode("normal", ok)
       /\ IF ok THEN setupPc' = "mask" /\ begun' = "CAN_OK"
                ELSE setupPc' = "reset" /\ begun' = "CAN_FAILINIT"
  /\ UNCHANGED <<rest, deaf>>

-----------------------------------------------------------------------------
(* init_Mask and init_Filt: into configuration mode, which may fail, the   *)
(* registers, and back into normal mode, which may fail as well.           *)

OpenFor(from, to, after) ==
  /\ setupPc = from
  /\ \E ok \in BOOLEAN : /\ SetMode("config", ok)
                         /\ setupPc' = IF ok THEN to ELSE after
                         /\ deaf' = (deaf \/ ~ok)
  /\ UNCHANGED <<rest, begun>>

Close(from, to) ==
  /\ setupPc = from /\ setupPc' = to
  /\ \E ok \in BOOLEAN : SetMode("normal", ok) /\ deaf' = (deaf \/ ~ok)
  /\ UNCHANGED <<rest, begun>>

OpenMask == OpenFor("mask", "writeMask", "filter")

WriteMask ==
  /\ setupPc = "writeMask" /\ setupPc' = "closeMask"
  /\ rxm' = IdRegisters(mask[1], mask[2])
  /\ UNCHANGED <<args, begun, setupMode, cnf, rxf, txCleared, rollover, tallies>>

CloseMask == Close("closeMask", "filter")

OpenFilter == OpenFor("filter", "writeFilter", "loop")

(* A number above 5 writes nothing; the failure noted for it is then       *)
(* overwritten by the result of the change of mode.                        *)
WriteFilter ==
  /\ setupPc = "writeFilter" /\ setupPc' = "closeFilter"
  /\ rxf' = IF num \in DOMAIN rxf
            THEN [rxf EXCEPT ![num] = IdRegisters(filter[1], filter[2])] ELSE rxf
  /\ UNCHANGED <<args, begun, setupMode, cnf, rxm, txCleared, rollover, tallies>>

(* A bug: the controller stays in configuration mode.                      *)
CloseFilterNot == /\ setupPc = "closeFilter" /\ setupPc' = "loop"
                  /\ UNCHANGED <<rest, begun, setupMode, tallies>>

CloseFilter == Close("closeFilter", "loop")

Begin     == ResetController \/ EnterConfig \/ ConfigRate \/ InitBuffers \/ EnterNormal
Masks     == OpenMask \/ WriteMask \/ CloseMask \/ OpenFilter \/ WriteFilter \/ CloseFilter
SetupNext == Begin \/ Masks

SetupSpec == SetupInit /\ [][SetupNext]_setupVars

-----------------------------------------------------------------------------
(* Once begin() has reported CAN_OK for a speed it knows, the controller   *)
(* runs at the bit rate the speed is named after, with a timing it accepts *)
(* (the table of mcp_can_dfs.h, configRate).                               *)
RateAsNamed ==
  begun = "CAN_OK" /\ speed \in Speed =>
    LegalTiming(cnf) /\ Near(BitRate(cnf), Named[speed])

(* A mask or filter that was written reads back, through mcp2515_read_id,  *)
(* as the identifier that was given, of its kind.                          *)
IdsAsGiven ==
  /\ rxm # Unset => IdOf(rxm) = mask
  /\ \A n \in DOMAIN rxf : rxf[n] # Unset => n = num /\ IdOf(rxf[n]) = filter

(* Once setup() is over, frames get through (ino 88-90), however often     *)
(* begin() had to be called: the mask and the filter are set, the          *)
(* controller is in normal mode and, for a speed begin() knows, has        *)
(* nothing left to send and takes a second frame in while the first has    *)
(* not been read.  The exception is a mode change within init_Mask or      *)
(* init_Filt that did not happen, whose results the sketch ignores.        *)
LetsThrough ==
  setupPc = "loop" /\ ~deaf =>
    /\ setupMode = "normal" /\ rxm # Unset
    /\ num \in DOMAIN rxf => rxf[num] # Unset
    /\ speed \in Speed => txCleared /\ rollover
=============================================================================
