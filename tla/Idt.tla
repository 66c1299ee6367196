-------------------------------- MODULE Idt ---------------------------------
(***************************************************************************)
(* The interrupt descriptor table as idt_init leaves it (idt.c): a        *)
(* function from vector to gate.  A gate keeps the fields the processor   *)
(* acts on: present, whether it is an interrupt gate (reserved3 = 0: the   *)
(* processor clears IF on entry) or a trap gate (reserved3 = 1: IF stays   *)
(* as it was), the privilege level allowed to raise it with int, and the   *)
(* handler.  The selector (KERNEL_CS), size and other reserved bits are    *)
(* the same in every gate the kernel writes and are left out.  Handlers   *)
(* of the exceptions are <<"exception", vector>>; the linkage stubs that  *)
(* these names stand for are assembly outside the model.                  *)
(***************************************************************************)
EXTENDS Naturals, TLC

Vector == 0 .. 255          \* NUM_VEC entries of idt[] (x86_desc)
KERNEL_LEVEL == 0
USER_LEVEL == 3

(* The zeroed idt[] before idt_init: no gate is present.                   *)
NotPresent == [present |-> FALSE, gate |-> "trap", dpl |-> KERNEL_LEVEL,
               handler |-> "none"]

Gate(g, dpl, addr) == [present |-> TRUE, gate |-> g, dpl |-> dpl,
                       handler |-> addr]

(* set_intr_gate: reserved3 = 0, dpl = KERNEL_LEVEL, present = 1.         *)
set_intr_gate(addr) == Gate("interrupt", KERNEL_LEVEL, addr)

(* set_system_gate: reserved3 = 1, dpl = USER_LEVEL, present = 1.         *)
set_system_gate(addr) == Gate("trap", USER_LEVEL, addr)

(* Bug variant: the system interrupt gate written with reserved3 = 1.     *)
set_system_intr_gateTrap(addr) == Gate("trap", USER_LEVEL, addr)

(* set_system_intr_gate: reserved3 = 0, dpl = USER_LEVEL, present = 1.    *)
set_system_intr_gate(addr) == Gate("interrupt", USER_LEVEL, addr)

(* The 32 exception entries: breakpoint (3) a system interrupt gate,     *)
(* overflow (4) and bound range (5) system (trap) gates, the rest          *)
(* interrupt gates.                                                        *)
ExceptionGate(v) ==
    CASE v = 3 -> set_system_intr_gate(<<"exception", v>>)
      [] v \in {4, 5} -> set_system_gate(<<"exception", v>>)
      [] OTHER -> set_intr_gate(<<"exception", v>>)

(* idt_init: the exceptions, the PIT (0x20), keyboard (0x21) and RTC      *)
(* (0x28) interrupts, and the system call at 0x80.  Every other entry     *)
(* stays as it was.                                                        *)
idt_init ==
    [v \in 0 .. 31 |-> ExceptionGate(v)]
      @@ (\h20 :> set_intr_gate("PIT_int"))
      @@ (\h21 :> set_intr_gate("Keyboard_int"))
      @@ (\h28 :> set_intr_gate("RTC_int"))
      @@ (\h80 :> set_system_intr_gate("System_Call"))
      @@ [v \in Vector |-> NotPresent]

(* The vector a PIC line raises: the master's base 0x20 plus the line,    *)
(* the slave's base 0x28 plus the line on the slave (ICW2 of i8259_init).  *)
IrqVector(irq) == IF irq <= 7 THEN \h20 + irq ELSE \h28 + (irq - 8)

SyscallVector == \h80
=============================================================================
