------------------------------- MODULE McpRegs -------------------------------
(***************************************************************************)
(* How the driver of the MCP2515 lays values out in registers: identifiers *)
(* (mcp2515_write_id, mcp2515_read_id) and bit rates (mcp2515_configRate   *)
(* and the table of mcp_can_dfs.h).  Registers are bytes; a shift or a     *)
(* mask of the code is a quotient or a remainder here.                     *)
(***************************************************************************)
EXTENDS Integers

Byte  == 0..255
StdId == 0..(2^11 - 1)
ExtId == 0..(2^29 - 1)

EXIDE == 8            \* MCP_TXB_EXIDE_M, bit 3 of SIDL
HasExide(sidl) == (sidl \div EXIDE) % 2 = 1

(* A bug: the two identifier bits that SIDL holds are left out.            *)
IdRegistersShort(ext, id) ==
  IF ext = 1
  THEN [sidh |-> (id \div 2^21) % 256, sidl |-> (((id \div 2^18) % 8) * 32) + EXIDE,
        eid8 |-> (id \div 2^8) % 256, eid0 |-> id % 256]
  ELSE [sidh |-> (id \div 2^3) % 256, sidl |-> (id % 8) * 32, eid8 |-> 0, eid0 |-> 0]

IdRegisters(ext, id) ==
  IF ext = 1
  THEN [sidh |-> (id \div 2^21) % 256,
        sidl |-> (((id \div 2^18) % 8) * 32) + EXIDE + ((id \div 2^16) % 4),
        eid8 |-> (id \div 2^8) % 256,
        eid0 |-> id % 256]
  ELSE [sidh |-> (id \div 2^3) % 256, sidl |-> (id % 8) * 32, eid8 |-> 0, eid0 |-> 0]

IdOf(r) ==
  LET std == r.sidh * 8 + (r.sidl \div 32)
  IN IF HasExide(r.sidl)
     THEN <<1, ((std * 4 + (r.sidl % 4)) * 256 + r.eid8) * 256 + r.eid0>>
     ELSE <<0, std>>

-----------------------------------------------------------------------------
(* CAN_5KBPS .. CAN_1000KBPS are 1..16.  CNF1, CNF2 and CNF3 for each.     *)
Speed == 1..16

Timing ==
  << <<\h3F, \hFF, \h87>>, <<\h1F, \hFF, \h87>>, <<\h0F, \hFF, \h87>>,
     <<\h0F, \hF1, \h85>>, <<\h09, \hBE, \h07>>, <<\h07, \hFF, \h87>>,
     <<\h07, \hFA, \h87>>, <<\h03, \hFF, \h87>>, <<\h03, \hBE, \h07>>,
     <<\h03, \hAD, \h07>>, <<\h03, \hFA, \h87>>, <<\h03, \hF0, \h86>>,
     <<\h01, \hFA, \h87>>, <<\h41, \hF1, \h85>>, <<\h00, \hF0, \h86>>,
     <<\h00, \hD0, \h82>> >>

(* The bit rate each of them is named after, in bit/s.                     *)
Named == <<5000, 10000, 20000, 31250, 33000, 40000, 50000, 80000, 83300, 95000,
           100000, 125000, 200000, 250000, 500000, 1000000>>

(* What the controller makes of the three registers: time quanta of two    *)
(* oscillator periods times the prescaler, and the lengths of the segments *)
(* of a bit in them.                                                       *)
Oscillator   == 16000000
Prescaler(c) == (c[1] % 64) + 1
Jump(c)      == (c[1] \div 64) + 1
Propagation(c) == (c[2] % 8) + 1
Phase1(c)    == ((c[2] \div 8) % 8) + 1
Phase2(c)    == (c[3] % 8) + 1
Quanta(c)    == 1 + Propagation(c) + Phase1(c) + Phase2(c)

BitRate(c) == Oscillator \div (2 * Prescaler(c) * Quanta(c))

(* The controller takes phase 2 from CNF3 only with BTLMODE, bit 7 of CNF2. *)
LegalTiming(c) == /\ c[2] >= 128
                  /\ Phase2(c) >= 2 /\ Phase2(c) > Jump(c)
                  /\ Propagation(c) + Phase1(c) >= Phase2(c)

(* Within one part in 80, what the nodes of a bus have to tolerate.        *)
Near(rate, name) == /\ 80 * (rate - name) <= name
                    /\ 80 * (name - rate) <= name
=============================================================================
