---------------------------- MODULE MCProcSched ----------------------------
(* Scaled-down kernel: 3 terminals (the rotation is over exactly three),  *)
(* 4 PCBs, at most 2 processes per terminal and 4 in all, so both limits  *)
(* of execute and the lowest-free-slot reuse are reached.                  *)
EXTENDS ProcSched

MCNumPcb == 4
MCTerm == 0 .. 2
MCMaxProgPerTerm == 2
MCMaxProgramCount == 4
MCHaltArgs == {0}
(* halt(0), halt(255), and halt(256), which uint8_t truncates to 0.        *)
MCHaltArgsWide == {0, 255, 256}
(* Boot race: 3 PCBs, 3 in all, 2 per terminal.  Before the PIT has       *)
(* reached every terminal, terminal 0 can fill its own stack (the          *)
(* per-terminal limit binds alone) and the third shell spawn can find the  *)
(* table full (the global limit binds at a spawn).                         *)
MCNumPcbRace == 3
MCMaxProgramCountRace == 3
=============================================================================
