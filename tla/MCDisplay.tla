----------------------------- MODULE MCDisplay -----------------------------
(* The kernel's three terminals, and at most two bytes written by each     *)
(* terminal's processes: enough for output before and after an Alt+F.     *)
EXTENDS Display

MCTerm == 0 .. 2
MCMaxWrites == 2
=============================================================================
