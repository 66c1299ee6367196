-------------------------------- MODULE Rtc --------------------------------
(***************************************************************************)
(* The virtual RTC (rtc.c): one physical interrupt source counting into    *)
(* rtc_counter_global and raising rtc_exe_flag, and processes on different *)
(* terminals, each with an RTC descriptor whose file_position holds the   *)
(* ratio MAX_RTC_FREQ / freq.  rtc_read enables interrupts in two busy     *)
(* waits, so it is three steps: enter, pass the rtc_exe_flag wait          *)
(* (computing div), pass the counter wait (clearing rtc_exe_flag).  The    *)
(* scheduler may run other processes, and the RTC may tick, between them.  *)
(* The counter is a signed int of Word values; ++ past INT_MAX wraps, as   *)
(* the build's incl does.  The chip's interrupt reaches rtc_handler through *)
(* the slave PIC and the master's cascade line (I8259): the chip holds     *)
(* IRQ 8 until register C is read, and the PICs hold the line in service   *)
(* until send_eoi.                                                         *)
(***************************************************************************)
EXTENDS Integers, FiniteSets, I8259, Idt

CONSTANTS
    Proc,           \* processes holding an RTC descriptor
    MAX_RTC_FREQ,   \* rtc.h
    Freqs,          \* values a program passes to rtc_write
    Word,           \* 2^width of int
    ElapsedCap      \* bound on the ticks counted between two reads

ASSUME /\ MAX_RTC_FREQ \in Nat \ {0}
       /\ Freqs \subseteq Nat
       /\ Word \in Nat /\ Word % 2 = 0
       /\ ElapsedCap \in Nat

RTC_PIC == 8

(* The PIC after boot: i8259_init, then enable_irq for the PIT (0), the    *)
(* keyboard (1) and the RTC (8).                                           *)
BootPic == enable_irq(enable_irq(enable_irq(i8259_init, 0), 1), RTC_PIC)

IntMin == -(Word \div 2)
IntMax == Word \div 2 - 1

(* ++ on a signed int, wrapping at INT_MAX.                                *)
Incr(x) == IF x = IntMax THEN IntMin ELSE x + 1

(* C's %: the remainder takes the sign of the dividend.                    *)
CRem(a, d) == IF a >= 0 THEN a % d ELSE -((-a) % d)

(* freq & (freq - 1), in uint32_t: zero iff freq is 0 or a power of two.  *)
RECURSIVE IsPow2OrZero(_)
IsPow2OrZero(f) == IF f <= 1 THEN TRUE ELSE f % 2 = 0 /\ IsPow2OrZero(f \div 2)

(* Bug variant: a 0 ratio used as the divisor unchanged.                  *)
DivOfNoClamp(ratio) == ratio \div 3

(* div = ratio / 3, and 1 if that is 0 (3 terminals share the CPU).       *)
DivOf(ratio) == IF ratio \div 3 = 0 THEN 1 ELSE ratio \div 3

(* Bug variant: rtc_read_done leaves the tick unconsumed.                  *)
ConsumedFlagKept(f) == f

(* rtc_exe_flag = 0 at the end of rtc_read.                                *)
ConsumedFlag(f) == 0

(* Bug variant: rtc_handler does not mark the tick.                       *)
RaisedFlagKept(f) == f

(* rtc_exe_flag = 1 in rtc_handler.                                        *)
RaisedFlag(f) == 1

(* Bug variant: rtc_handler without the read of register C.               *)
RegCNotRead(irq) == irq

(* outb(REG_C, RTC_STATUS); inb(RTC_DATA): the chip drops IRQ 8.           *)
ReadRegC(irq) == FALSE

VARIABLES
    rtc_counter_global,
    rtc_exe_flag,
    ratio,        \* file_array[fd].ratio of each process's RTC descriptor
    opened,       \* the descriptor is open
    pc,           \* where each process is in rtc_read
    div,          \* the div a waiting reader computed
    elapsed,      \* history: ticks since the process's last completed read
                  \* at this rate (NoGap: none since the last open/write)
    last_gap,     \* history: ticks between the last two completed reads
    write_ret,    \* history: result of the last rtc_write of each process
    pic,          \* the PICs' masks and in-service lines (I8259)
    rtc_irq       \* the chip is holding IRQ 8 (register C not yet read)

vars == <<rtc_counter_global, rtc_exe_flag, ratio, opened, pc, div, elapsed,
          last_gap, write_ret, pic, rtc_irq>>

NoGap == -1
(* rtc_write's outcomes: 0, -1, or the divide-error exception.           *)
WriteOk == "0"
WriteInval == "-1"
Fault == "divide_error"

Init ==
    /\ rtc_counter_global = 0
    /\ rtc_exe_flag = 1
    /\ ratio = [p \in Proc |-> 0]
    /\ opened = [p \in Proc |-> FALSE]
    /\ pc = [p \in Proc |-> "idle"]
    /\ div = [p \in Proc |-> 1]
    /\ elapsed = [p \in Proc |-> NoGap]
    /\ last_gap = [p \in Proc |-> NoGap]
    /\ write_ret = [p \in Proc |-> WriteOk]
    /\ pic = BootPic
    /\ rtc_irq = FALSE

(* The chip's periodic interrupt: it raises IRQ 8 unless still holding it, *)
(* and the rising edge latches a request in the slave PIC.                 *)
rtc_tick ==
    /\ ~rtc_irq
    /\ rtc_irq' = TRUE
    /\ pic' = Request(pic, RTC_PIC)
    /\ UNCHANGED <<rtc_counter_global, rtc_exe_flag, ratio, opened, pc, div,
                   elapsed, last_gap, write_ret>>

(* A PIT tick on IRQ 0 (about 100 Hz), with the EOI pit_handler sends on  *)
(* both of its paths.  Its scheduling effect is abstracted into the        *)
(* fairness of the reader steps.                                           *)
pit_handler ==
    LET p == Request(pic, 0) IN
    /\ CanDeliver(p, 0)
    /\ pic' = send_eoi(Acknowledge(p, 0), 0)
    /\ UNCHANGED <<rtc_counter_global, rtc_exe_flag, ratio, opened, pc, div,
                   elapsed, last_gap, write_ret, rtc_irq>>

(* The PICs deliver IRQ 8 and rtc_handler runs with interrupts off: count *)
(* the physical tick, mark it unconsumed, read register C, send_eoi(8).    *)
rtc_handler ==
    /\ CanDeliver(pic, RTC_PIC)
    /\ rtc_irq' = ReadRegC(rtc_irq)
    /\ pic' = send_eoi(Acknowledge(pic, RTC_PIC), RTC_PIC)
    /\ rtc_counter_global' = Incr(rtc_counter_global)
    /\ rtc_exe_flag' = RaisedFlag(rtc_exe_flag)
    /\ elapsed' = [p \in Proc |->
                     IF elapsed[p] \in 0 .. (ElapsedCap - 1)
                     THEN elapsed[p] + 1 ELSE elapsed[p]]
    /\ UNCHANGED <<ratio, opened, pc, div, last_gap, write_ret>>

(* open("rtc") then rtc_open: ratio = MAX_RTC_FREQ / 2.                    *)
rtc_open(p) ==
    /\ ~opened[p] /\ pc[p] = "idle"
    /\ opened' = [opened EXCEPT ![p] = TRUE]
    /\ ratio' = [ratio EXCEPT ![p] = MAX_RTC_FREQ \div 2]
    /\ elapsed' = [elapsed EXCEPT ![p] = NoGap]
    /\ last_gap' = [last_gap EXCEPT ![p] = NoGap]
    /\ UNCHANGED <<rtc_counter_global, rtc_exe_flag, pc, div, write_ret, pic,
                   rtc_irq>>

(* close: flags = 0; rtc_close does nothing.                               *)
rtc_close(p) ==
    /\ opened[p] /\ pc[p] = "idle"
    /\ opened' = [opened EXCEPT ![p] = FALSE]
    /\ UNCHANGED <<rtc_counter_global, rtc_exe_flag, ratio, pc, div, elapsed,
                   last_gap, write_ret, pic, rtc_irq>>

(* rtc_write with a 4-byte buffer holding f.  f = 0 passes the power-of-  *)
(* two test and MAX_RTC_FREQ / 0 raises the divide error.                  *)
rtc_write(p, f) ==
    /\ opened[p] /\ pc[p] = "idle"
    /\ IF ~IsPow2OrZero(f) \/ f > MAX_RTC_FREQ
       THEN /\ write_ret' = [write_ret EXCEPT ![p] = WriteInval]
            /\ UNCHANGED <<ratio, elapsed, last_gap>>
       ELSE IF f = 0
       THEN /\ write_ret' = [write_ret EXCEPT ![p] = Fault]
            /\ UNCHANGED <<ratio, elapsed, last_gap>>
       ELSE /\ write_ret' = [write_ret EXCEPT ![p] = WriteOk]
            /\ ratio' = [ratio EXCEPT ![p] = MAX_RTC_FREQ \div f]
            /\ elapsed' = [elapsed EXCEPT ![p] = NoGap]
            /\ last_gap' = [last_gap EXCEPT ![p] = NoGap]
    /\ UNCHANGED <<rtc_counter_global, rtc_exe_flag, opened, pc, div, pic,
                   rtc_irq>>

(* rtc_read entered: sti, start waiting on rtc_exe_flag.                  *)
rtc_read_start(p) ==
    /\ opened[p] /\ pc[p] = "idle"
    /\ pc' = [pc EXCEPT ![p] = "wait_flag"]
    /\ UNCHANGED <<rtc_counter_global, rtc_exe_flag, ratio, opened, div,
                   elapsed, last_gap, write_ret, pic, rtc_irq>>

(* while(!rtc_exe_flag) exits; cli; div from the ratio; sti.               *)
rtc_read_flag(p) ==
    /\ pc[p] = "wait_flag"
    /\ rtc_exe_flag = 1
    /\ pc' = [pc EXCEPT ![p] = "wait_count"]
    /\ div' = [div EXCEPT ![p] = DivOf(ratio[p])]
    /\ UNCHANGED <<rtc_counter_global, rtc_exe_flag, ratio, opened, elapsed,
                   last_gap, write_ret, pic, rtc_irq>>

(* while(rtc_counter_global % div) exits; cli; rtc_exe_flag = 0; return 0. *)
rtc_read_done(p) ==
    /\ pc[p] = "wait_count"
    /\ CRem(rtc_counter_global, div[p]) = 0
    /\ rtc_exe_flag' = ConsumedFlag(rtc_exe_flag)
    /\ pc' = [pc EXCEPT ![p] = "idle"]
    /\ last_gap' = [last_gap EXCEPT ![p] = elapsed[p]]
    /\ elapsed' = [elapsed EXCEPT ![p] = 0]
    /\ UNCHANGED <<rtc_counter_global, ratio, opened, div, write_ret, pic,
                   rtc_irq>>

Next ==
    \/ rtc_tick
    \/ pit_handler
    \/ rtc_handler
    \/ \E p \in Proc :
         \/ rtc_open(p)
         \/ rtc_close(p)
         \/ \E f \in Freqs : rtc_write(p, f)
         \/ rtc_read_start(p)
         \/ rtc_read_flag(p)
         \/ rtc_read_done(p)

(* The chip keeps ticking at 1024 Hz, and a deliverable IRQ 8 is never    *)
(* held off for long: user code and both busy waits run with IF set.  A    *)
(* spinning reader is scheduled every third PIT slice, so a wait          *)
(* condition that keeps recurring is eventually seen.                      *)
Fairness ==
    /\ WF_vars(rtc_tick)
    /\ WF_vars(rtc_handler)
    /\ \A p \in Proc : SF_vars(rtc_read_flag(p)) /\ SF_vars(rtc_read_done(p))

Spec == Init /\ [][Next]_vars /\ Fairness

-----------------------------------------------------------------------------
TypeOK ==
    /\ rtc_counter_global \in IntMin .. IntMax
    /\ rtc_exe_flag \in {0, 1}
    /\ ratio \in [Proc -> 0 .. MAX_RTC_FREQ]
    /\ opened \in [Proc -> BOOLEAN]
    /\ pc \in [Proc -> {"idle", "wait_flag", "wait_count"}]
    /\ div \in [Proc -> 1 .. MAX_RTC_FREQ]
    /\ elapsed \in [Proc -> {NoGap} \cup (0 .. ElapsedCap)]
    /\ last_gap \in [Proc -> {NoGap} \cup (0 .. ElapsedCap)]
    /\ write_ret \in [Proc -> {WriteOk, WriteInval, Fault}]
    /\ pic \in [master : SUBSET Line, slave : SUBSET Line, mirr : SUBSET Line,
                sirr : SUBSET Line, misr : SUBSET Line, sisr : SUBSET Line]
    /\ rtc_irq \in BOOLEAN

(* Spec 4.3: a virtual tick is div physical ticks.  Two reads of the same *)
(* process at one rate complete at least div ticks apart, whatever other  *)
(* readers consume the shared rtc_exe_flag in between.                     *)
ReadPacing ==
    \A p \in Proc : last_gap[p] # NoGap => last_gap[p] >= div[p]

(* Spec 4.3: rtc_read blocks only until the next virtual tick: every read *)
(* that starts eventually returns.                                          *)
ReadCompletes ==
    \A p \in Proc : pc[p] = "wait_flag" ~> pc[p] = "idle"

(* Spec 7 and 8: rtc_write rejects an invalid frequency (0, 7, 513) with  *)
(* -1 and never faults.                                                    *)
WriteRejectsInvalid ==
    \A p \in Proc : write_ret[p] # Fault

(* Spec 4.1 and 4.6: drivers and system calls run with interrupts masked, *)
(* which the kernel gets from the gates idt_init writes, not from a cli.  *)
(* Every line the PICs leave unmasked (enable_irq on the boot masks of    *)
(* i8259_init) raises, at its ICW2 vector, a present interrupt gate of    *)
(* kernel privilege to its own driver, and int 0x80 enters System_Call    *)
(* through an interrupt gate user code may raise.                         *)
InterruptEntries ==
    LET driver == (0 :> "PIT_int") @@ (1 :> "Keyboard_int") @@ (8 :> "RTC_int")
        unmasked(irq) ==
            IF irq <= 7 THEN irq \notin pic.master /\ irq # CascadeLine
            ELSE CascadeLine \notin pic.master /\ irq - 8 \notin pic.slave
        idt == idt_init
    IN  /\ \A irq \in 0 .. 15 :
             unmasked(irq) =>
                /\ irq \in DOMAIN driver
                /\ idt[IrqVector(irq)] = set_intr_gate(driver[irq])
        /\ idt[SyscallVector].gate = "interrupt"
        /\ idt[SyscallVector].dpl = USER_LEVEL
        /\ idt[SyscallVector].handler = "System_Call"
=============================================================================
