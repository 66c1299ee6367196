-------------------------------- MODULE I8259 --------------------------------
(***************************************************************************)
(* The two cascaded 8259 PICs as the kernel drives them (i8259.c), as     *)
(* operators on a record                                                   *)
(*   [master, slave : masked lines, mirr, sirr : lines requesting,         *)
(*    misr, sisr : lines in service]                                       *)
(* The masks are master_mask and slave_mask, with a set bit being a line   *)
(* in the set.  The request and in-service registers are the chips' own    *)
(* state: a rising edge on a line latches a request (edge-triggered mode), *)
(* acknowledging it moves it in service, and a specific EOI clears it.     *)
(* The slave's output goes to master line 2.  Both chips run in fully      *)
(* nested mode: a line is acknowledged only while no line of equal or      *)
(* higher priority (a lower number) is in service on that chip.           *)
(***************************************************************************)
EXTENDS Naturals

Line == 0 .. 7
CascadeLine == 2    \* master pin the slave is wired to

(* master_mask = slave_mask = 0xFF: i8259_init leaves every line masked,   *)
(* and nothing is in service.                                              *)
i8259_init == [master |-> Line, slave |-> Line, mirr |-> {}, sirr |-> {},
               misr |-> {}, sisr |-> {}]

(* enable_irq: clear the line's mask bit; a slave line also unmasks the   *)
(* cascade line on the master.  Numbers above 15 change nothing.           *)
enable_irq(pic, irq) ==
    CASE irq <= 7 -> [pic EXCEPT !.master = @ \ {irq}]
      [] irq <= 15 -> [pic EXCEPT !.master = @ \ {CascadeLine},
                                  !.slave = @ \ {irq - 8}]
      [] OTHER -> pic

(* A chip acknowledges line l when it is unmasked and nothing of equal or *)
(* higher priority is in service.                                          *)
Serviceable(mask, isr, l) == l \notin mask /\ \A b \in isr : l < b

(* A device's line rises: the chip latches a request, masked or not.      *)
Request(pic, irq) ==
    IF irq <= 7 THEN [pic EXCEPT !.mirr = @ \cup {irq}]
    ELSE [pic EXCEPT !.sirr = @ \cup {irq - 8}]

(* A requested irq reaches the CPU: through the master alone, or through  *)
(* the slave and then the master's cascade line.                          *)
CanDeliver(pic, irq) ==
    IF irq <= 7 THEN irq \in pic.mirr /\ Serviceable(pic.master, pic.misr, irq)
    ELSE /\ irq - 8 \in pic.sirr
         /\ Serviceable(pic.slave, pic.sisr, irq - 8)
         /\ Serviceable(pic.master, pic.misr, CascadeLine)

(* The INTA cycle: the acknowledging chips move the request in service.   *)
Acknowledge(pic, irq) ==
    IF irq <= 7 THEN [pic EXCEPT !.mirr = @ \ {irq}, !.misr = @ \cup {irq}]
    ELSE [pic EXCEPT !.sirr = @ \ {irq - 8}, !.misr = @ \cup {CascadeLine},
                     !.sisr = @ \cup {irq - 8}]

(* Bug variant: a slave EOI that is not also sent to the master.          *)
send_eoiSlaveOnly(pic, irq) ==
    IF irq <= 7 THEN [pic EXCEPT !.misr = @ \ {irq}]
    ELSE [pic EXCEPT !.sisr = @ \ {irq - 8}]

(* send_eoi: specific EOI (EOI | line) to the master for irq 0-7; for     *)
(* 8-15, EOI | 2 to the master and EOI | (irq - 8) to the slave.           *)
send_eoi(pic, irq) ==
    CASE irq <= 7 -> [pic EXCEPT !.misr = @ \ {irq}]
      [] irq <= 15 -> [pic EXCEPT !.misr = @ \ {CascadeLine},
                                  !.sisr = @ \ {irq - 8}]
      [] OTHER -> pic
=============================================================================
