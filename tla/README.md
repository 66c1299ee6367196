# TLA+ models of the ECE391 teaching kernel (`src/student-distrib`)

These modules model the kernel's process and scheduling core, the file
system and the file-descriptor layer, the terminals' line discipline with the
keyboard's scancode translation, the virtual RTC with the PICs and the
interrupt descriptor table, for the TLC model
checker. Every definition is
translated from the C source. `PROJECT.json` maps each definition to the lines
it stands for, and lists the runs, the mutants that show each property can
fail, the findings, and the hazards of the code.

## 1. The system

The kernel runs on one CPU. Hardware interrupt handlers and system calls enter
through interrupt gates, so they run with interrupts masked. User code can be
preempted by the PIT at any instruction. Inside the kernel, interrupts are
re-enabled only in the busy-wait loops of `terminal_read` and `rtc_read`.
Every handler and system call is therefore one atomic step of the model. The
two busy-waits are split into an arming step and a completing step.

| Part | Source | State it owns | Operations |
|---|---|---|---|
| Process table | `process.c`, `process.h` | 6 PCBs (`status`, `parent_pcb_pointer`, `term_idx`, `video_mem_flag`, `file_array[8]`, `ebp`, `term_ebp`, `params`), `prog_counter`, global `file_array` pointer | `init_prog`, `get_active_pcb` (lowest free slot), `create_pcb`, `context_switch` (sets `tss.esp0`) |
| System calls | `system_call.c` | `program_exception_flag` | `halt`, `execute`/`_execute`, `read`, `write`, `open`, `close`, `getargs`, `vidmap` |
| Scheduler | `scheduling.c` | `cur_term_id` (scheduled terminal), per-terminal `prog_pids[4]` stack and `term_prog_counter` | `start_terminal0`, `pit_handler`, `switch_process`, `switch_terminal` |
| Paging | `paging.c` | PD entry 32 (program window to `8 MiB + pid*4 MiB`), PD entry 33 with `page_table_video[0]` (user video page, present bit and target) | `setup_paging`, `enable/disable_prog_vid_page`, `change_prog_vid_mapping`, backup-page copies |
| Keyboard and terminal | `keyboard.c`, `keyboard.h` | `active_term_idx` (displayed terminal), per-terminal 128-byte line buffer, `buf_index`, `TERMINAL_READ_FLAG` | `keyboard_handler` (Alt+F switching, line editing, Enter), `terminal_read`, `terminal_write` |
| Virtual RTC | `rtc.c` | `rtc_counter_global`, `rtc_exe_flag`, per-descriptor ratio (in `file_position`) | `rtc_handler`, `rtc_open`, `rtc_read`, `rtc_write` |
| File system | `file_system.c` | read-only image, per-descriptor `file_position` | `read_dentry_by_name/index`, `read_data`, `program_loader`, `file_read`, `directory_read` |
| Exceptions | `exceptions.c` | (sets `program_exception_flag`) | `exception_handler`, which forces `halt(0)` |
| Keyboard translation | `keyboard.c` `scancode_handler` | `CAPS_FLAG`, `L_SHIFT_FLAG`, `R_SHIFT_FLAG`, `SHIFT_FLAG`, `CTRL_FLAG`, `ALT_FLAG` | scancode to ASCII through three tables, Backspace, Ctrl+L, Enter, TAB, F-keys |
| 8259 PIC driver | `i8259.c` | `master_mask`, `slave_mask` (and the chips' request and in-service registers) | `i8259_init`, `enable_irq`, `send_eoi` (called at the end of every interrupt handler) |
| IDT | `idt.c` | `idt[]` | `idt_init`, `set_intr_gate`, `set_system_gate`, `set_system_intr_gate` (boot only) |
| Tests | `tests.c` | none | not modelled (section 6) |

How the parts interact:

- The running process is `terminals[cur_term_id].prog_pids[term_prog_counter-1]`.
  Every system call finds its caller this way.
- `execute` pushes onto the scheduled terminal's stack, and `halt` pops it.
- Halting a root shell resets the terminal's stack and tail-calls
  `_execute("shell")` in place.
- Each PIT tick advances `cur_term_id`. `switch_process` then does one of two
  things:
  - it spawns a shell on an empty terminal;
  - or it re-installs the next top process's program page, `tss.esp0`, user
    video page and `file_array`.
- Alt+F changes the displayed terminal: `switch_terminal` copies the
  framebuffer to the old terminal's backup page and the new one's backup page
  to the framebuffer.
- The user video page (`vidmap`) and the kernel's print target `video_mem`
  must follow both the scheduled and the displayed terminal.

## 2. Modules and how they correspond to the code

### `ProcSched` (process table, scheduler, paging state)

Constants: `NumPcb` (MAX_PID+1), `Term`, `MaxProgPerTerm`, `MaxProgramCount`,
`HaltArgs`, the model value `NoPid` (NULL pointer / not present), and
`UserWaitsForBoot` (below).

Variables are the code's own:

- PCB fields as functions of the pid;
- `prog_pids` and `term_prog_counter` per terminal;
- `prog_counter`, `cur_term_id`, `active_term_idx`;
- `prog_page`: the pid whose frame PD entry 32 maps;
- `vid_page_present` and `vid_page_base`: the user video page, with 0 for the
  screen and `1+t` for terminal t's backup page;
- `video_mem`, `file_array` (the pid whose table it points at), `esp0`,
  `program_exception_flag`.

There are three auxiliary variables:

- `booted`: `start_terminal0` has run;
- `scheduled`: the terminals the PIT has visited;
- `last_exec_ret`: the value halt delivered, and whether an exception caused
  it.

Actions, one per handler or system call:

| Action | Code |
|---|---|
| `start_terminal0` | `scheduling.c` start_terminal0 |
| `execute` | `_execute`'s success path, ending in `context_switch`, which reads `tss.esp0` back from the scheduled terminal's new top of stack. Its failures (bad name, bad ELF, limits) change nothing. It leaves the user video page as the parent had it. |
| `halt(a)` / `HaltBody` | the whole of `halt`: both the root-respawn and the return-to-parent paths, the uint8_t truncation, the flag test, and `jump_to_exec_ret`'s `tss.esp0` |
| `exception_handler` | sets the flag and halts, when `prog_counter > 0` |
| `vidmap` | with a valid pointer |
| `pit_handler` | the rotation and the whole of `switch_process`, including the ignored failure of the shell spawn |
| `switch_terminal(k)` | Alt+F(k+1) |

`ExecuteFrom` is `_execute`'s limit checks plus `create_pcb`, `setup_paging`
and `context_switch`. It is shared by boot, `execute`, the root respawn and the
scheduler's spawn, as in the code.

`halt`, `vidmap`, `jump_to_exec_ret` and `switch_process` (for the previous
terminal) read `prog_pids[count - 1]` or `prog_pids[count - 2]` with no test
of the count, which is a `uint32_t`. On a terminal with no process the index
wraps to -1 or -2. Those are the `int32_t` fields `cursor_y` and `cursor_x`
just before `prog_pids` in `terminal_t`, and both are 0 at boot. `PidsAt`
models such a read as any pid of the pool. A cursor row past the pool
addresses kernel memory outside the PCBs, which the model does not
represent. The ebp that `switch_process` saves through that lookup is not
kept, so there the read changes nothing.

`UserWaitsForBoot` is an environment assumption. The PIT reaches all three
terminals in its first 20 ms, before anyone can type a command. With it TRUE,
user steps wait until every terminal has been scheduled once. With it FALSE,
the model explores users that act immediately. The real timing makes that
unreachable in practice. `sched_race` uses it to show what the code does
when that timing does not hold: the defect is latent, and no guard in the
code stops it.

### `AbstractTerminals` (what the process layer and the scheduler promise)

The abstract specification has three variables: `stacks` (each terminal's
processes, bottom to top), `running` and `displayed`. Its actions are:

- `Execute`: a pid no terminal holds is pushed onto the running terminal,
  within both limits;
- `Exit`: the top of the running terminal is popped, when a parent is below
  it;
- `Restart`: a lone shell is replaced by a new one, which may reuse its pid;
- `Schedule`: the CPU moves round-robin, and may push a first shell onto the
  terminal it reaches when that terminal is empty;
- `Display(k)`: the display changes and nothing else does.

`ProcSched` maps `prog_pids[t][0 .. term_prog_counter[t] - 1]` to
`stacks[t]`, `cur_term_id` to `running` and `active_term_idx` to
`displayed` (`AT == INSTANCE AbstractTerminals WITH ...`). PCB status,
parent links, paging and `file_array` are hidden. `sched_main` checks
`ImplementsAbstractTerminals == AT!Spec` as a PROPERTY. Each concrete step is
then one abstract step or a stutter:

- `start_terminal0` and `execute` are `Execute`;
- both `halt` paths and `exception_handler` are `Exit` or `Restart`;
- `pit_handler` is `Schedule`;
- `switch_terminal` is `Display`;
- `vidmap` is a stutter.

### `FsReadData` (`file_system.c` `read_data`): a library of operators

A byte is abstracted to its index in the file, so a copy is the sequence of
indices written. The block size is scaled to `DATA_LENGTH = 2`, and uint32_t
to `Word = 16`. `ReadLoop` is a RECURSIVE operator that follows the loop of
`read_data` step by step:

- the loop bound `(offset + length) % Word`;
- the `block_idx[i / DATA_LENGTH] >= block_num` test returning `i - offset - 1`;
- the copy of byte `i` before the `i == length` test;
- the int32_t reading of the result (`ToInt32`).

`Inodes` enumerates every inode of the image up to the bounds. The entries a
file uses are valid. Entries past the end hold whatever `TrailingBlocks`
allows. `RefCount` is the reference definition: the bytes `[offset, offset+n)`
clipped to the file. The module has no variables. `FdLayer` extends it.

### `FdLayer` (`system_call.c` descriptor calls, `file_system.c`)

One terminal's stack of processes. `procs` is a sequence, bottom to top, and
each process holds its own `file_array` and the `params` that `execute`
stored. The running process is the top one. The global `file_array` pointer
always names it, which is what `ProcSched`'s `ContextMatchesScheduled`
checks. A slot is a record:

- `kind`: its `op_ptr` (terminal, RTC, directory, file or none);
- `inode` and `pos`: `inode_idx` and `file_position`;
- `flags`;
- two histories, `got` (the bytes or entries its reads have delivered since
  open) and `eof` (the last read asked for data and got 0).

Names are sequences of characters. `read_dentry_by_name` uses the code's
`strncmp` to 32 bytes, and `parse_command` splits the first word off and keeps
32 bytes of it.

Actions are the system calls, each with all its early returns:

- `open(name)`: first free fd, the lookup, the type's open handler;
- `close(fd)`: refuses 0 and 1, then the close handler;
- `read(fd, n, buf)` and `write(fd, n, buf, f)`: the argument checks, then
  dispatch on the slot's kind. `file_read` runs `read_data` from the position
  and adds its signed count to the uint32_t position. `directory_read` steps
  through the boot block's entries. `rtc_write` uses `rtc.c`'s power-of-two
  test from `Rtc`. The terminal and RTC reads block, which `Terminal` and
  `Rtc` model; here they leave the descriptors unchanged.
- `execute(cmd)`: the per-terminal limit, `parse_command`, the lookup,
  `check_validity`, and a new process with `create_pcb`'s fresh table.
- `halt`: the close loop over the halting process's table, then the root
  respawn or the return to the parent.
- `getargs(n, buf)`: the `nbytes < strlen(params) + 1` and empty-arguments
  tests on the top PCB, then the `strcpy`. `buf` is not checked, so a NULL
  buffer faults and the exception halts the caller. Each process keeps, in
  `args`, what its last `getargs` returned and wrote.

### `Terminal` (`keyboard.c`: the line discipline and `terminal_read`)

Three terminals. The variables are:

- the code's `active_term_idx` (displayed), `cur_term_id` (scheduled) and
  per-terminal `TERMINAL_READ_FLAG`;
- `keyboard_buf`: each terminal's first `buf_index` bytes, as ASCII codes;
- `reader` and `nbytes`: whether the terminal's top process runs user code
  or spins in `terminal_read`, and the size it asked for;
- `line`, a history: the line the reference editing of spec 4.3 builds from
  the same keys while a read is pending.

The key actions are `keyboard_handler`'s branches on the displayed terminal:
`key_char`, `key_tab`, `key_enter`, `key_backspace`, `key_ctrl_l` and
`key_switch` (Alt+F). Each edits `keyboard_buf` as the code does. In `Next`
each is paired with the reference edit of `line` (`RefKey`), so the two are
compared key by key. `terminal_read` arms the flag and empties the buffer on
the scheduled terminal. `terminal_read_done` is the spin seeing the flag
cleared while its process runs, followed by the copy of `min(nbytes,
buf_index)` bytes with a newline last. `pit_handler` rotates `cur_term_id`.

### `Keyboard` (`keyboard.c`: `scancode_handler` in front of `Terminal`)

`Keyboard` instantiates `Terminal` on the same variables and adds the six
modifier flags. `keyboard_handler(sc)` is one interrupt with scancode `sc`:

- the flag updates (`Held`, `Toggled`);
- `ScancodeChar`: the early returns of `scancode_handler`, in the code's
  order, and the table lookup (`TableChar`: Shift selects set 3, Caps Lock
  alone set 2);
- `KeyBranch`: `keyboard_handler`'s tests on that value. A value equal to an
  F-key scancode takes the Alt+F branch whatever key produced it.

The reference edit `RefLine` works from the scancode, as spec 4.6 describes
the keys. The tables are kept only at the scancodes a model presses.

### `Rtc` (`rtc.c`)

Two processes each hold an RTC descriptor. The variables are:

- the code's `rtc_counter_global` and `rtc_exe_flag`;
- `ratio` (the descriptor's `file_position`) and `opened` (its `flags`);
- `pc` and `div`: where a reader is inside `rtc_read`, and the `div` it
  computed;
- three histories: `elapsed` (ticks since the last completed read at this
  rate), `last_gap` (ticks between the last two reads) and `write_ret`.

`rtc_read` enables interrupts in two busy-waits, so it is three actions:

- `rtc_read_start`;
- `rtc_read_flag`: the flag wait exits, then `div = ratio / 3` clamped to 1;
- `rtc_read_done`: the counter wait exits, then the flag is consumed.

The other actions are `rtc_handler`, `rtc_open`, `rtc_close` (with `close`'s
flag reset) and `rtc_write(f)`, with its power-of-two test done as the
uint32_t expression does it. The counter is a signed int of `Word` values.
`++` at INT_MAX wraps, which is what the build does with this undefined
behaviour, and `%` is C's remainder (`CRem`).

The ticks reach `rtc_handler` through the PICs (`I8259`, below). Two more
variables, `pic` and `rtc_irq`, carry this:

- `rtc_tick` is the chip's periodic interrupt. It raises IRQ 8 unless it is
  still holding it, and the rising edge latches a request in the slave.
- `rtc_handler` runs only when the PICs can deliver that request. It
  acknowledges the request, reads register C (so the chip drops IRQ 8), and
  calls `send_eoi(8)`.
- `pit_handler` is the PIT's IRQ 0 with its EOI. IRQ 0 has priority over the
  cascade line. Its scheduling effect is in the fairness of the reader steps.
- `BootPic` is the state after boot: `i8259_init`, then `enable_irq` for IRQs
  0, 1 and 8. The boot code is not in the repository, and spec 6 names
  these three IRQs.

### `I8259` (`i8259.c`): a library of operators

`I8259` is a library of operators on a record. The record holds the two masks
and the chips' request and in-service registers. Lines are sets of pins.

- `i8259_init` masks everything.
- `enable_irq` unmasks a line, and for a slave line also the master's cascade
  pin 2.
- `send_eoi` sends a specific EOI: to the master for IRQ 0 to 7, and for IRQ
  8 to 15 to both the master (cascade pin) and the slave.
- `Request`, `CanDeliver` and `Acknowledge` are the chips' behaviour:
  edge-triggered requests and fully nested priority.

`disable_irq` is never called and is left out.

### `Idt` (`idt.c`): a library of operators

`Idt` gives the interrupt descriptor table that `idt_init` builds, as a
function from vector to gate.

- A gate holds the fields the processor acts on:
  - present;
  - interrupt gate (`reserved3 = 0`, so IF is cleared on entry) or trap gate
    (`reserved3 = 1`);
  - the privilege level that may raise it with `int`;
  - the handler.
- `set_intr_gate`, `set_system_gate` and `set_system_intr_gate` are the gates
  they write.
- `idt_init` is the table: 32 exception entries, the PIT at 0x20, the
  keyboard at 0x21, the RTC at 0x28 and the system call at 0x80. Every other
  entry is not present.
- `IrqVector` is the vector a PIC line raises. The bases 0x20 and 0x28 are
  `i8259_init`'s ICW2 values, taken from spec 6 because `i8259.h` is not in
  the repository.

`Rtc` extends `Idt` and checks `InterruptEntries` against its PIC state:

- every line the boot masks leave open raises a present, kernel-privilege
  interrupt gate to that line's own driver;
- `int 0x80` is an interrupt gate that user code may raise.

This is what lets every model treat interrupt handlers and system calls as
single steps. The code never runs `cli` on entry; the gate type masks IF.

### `Display` (where `terminal_write`'s bytes land)

The variables are the code's `cur_term_id`, `active_term_idx` and
`video_mem`, the content of the framebuffer and the three backup pages
(`pages`), and `written`, the bytes each terminal's processes have written. A
page's content is the sequence of characters written to it, each labelled
with the terminal whose process wrote it. A 4 KB `memcpy` copies the whole
sequence. The actions are:

- `pit_handler`: the rotation, then `switch_process`'s choice of `video_mem`
  (the framebuffer if the scheduled terminal is displayed, else its backup
  page);
- `switch_terminal(k)`: Alt+F, that is `save_video_to_backup(prev)`, then
  `restore_backup_to_video(k)`, then `active_term_idx = k`;
- `terminal_write`: one byte through `putc`, which writes at `video_mem`.

`putc` is in `lib.c`, which is not in the repository. Its effect is taken
from spec 4.4. Scrolling, the cursor and the keyboard echo are left out.
`ScreensHoldOwnOutput` says each terminal's screen (the framebuffer while it
is displayed, its backup page otherwise) holds exactly what its processes
wrote.

## 3. Runs

Each module is checked through its MC module (`MCProcSched`, `MCFdLayer`,
`MCTerminal`, `MCKeyboard`, `MCRtc`, `MCDisplay`), which gives the constants
of section 4.

| Run | Module, cfg | Expect | Checks | What it shows |
|---|---|---|---|---|
| `sched_main` | `MCProcSched`, `ProcSched.cfg` | pass | `StackDiscipline`, `ContextMatchesScheduled`, `AllTerminalsGetShell`, `ImplementsAbstractTerminals` | Under the real boot timing, the per-terminal stacks and the counters stay consistent. The program page, `tss.esp0` and `file_array` always belong to the scheduled process. Every terminal eventually has a shell forever. `ProcSched` implements `AbstractTerminals`. |
| `sched_race` | `MCProcSched`, `ProcSched_race.cfg` | violation | `StackDiscipline` | Users act from the first prompt, so the lazy shell spawn can fail at the global limit, and `switch_process` ignores the failure. The interrupted process of the previous terminal runs on with `cur_term_id` on the empty terminal. Its `halt` reads `prog_pids[-1]` (`cursor_y`, 0), kills PCB 0 (terminal 0's root shell) and respawns a shell in it on the empty terminal. Terminal 0's stack still lists PCB 0, and the halting process stays alive (6 states). |
| `exit_status` | `MCProcSched`, `ProcSched_exit.cfg` | violation | `ExitStatusFaithful` | An exception in a root shell leaves `program_exception_flag` set, so the next normal `halt` on any terminal returns 256. |
| `vid_only` | `MCProcSched`, `ProcSched_vidonly.cfg` | violation | `VidPageMatchesVidmap` | The user video page is present exactly when the running process called `vidmap` (spec 8). The property fails three ways. `switch_process` never disables the page, so the next process inherits it. `execute` leaves it mapped for the child. `halt` disables it under a parent that mapped it (`system_call.c:62`). TLC reports the shortest path, through `switch_process`. With that path and the `execute` path closed in a copy of the model, it still fails through `halt` in 8 states. |
| `vid_target` | `MCProcSched`, `ProcSched_vidtarget.cfg` | violation | `VidPageTargetsOwnScreen` | `vidmap` and Alt+F leave the page aimed at the wrong screen. |
| `fd` | `MCFdLayer`, `FdLayer.cfg` | pass | `TypeOK`, `FileReadsAreFilePrefix`, `DirectoryListsEachEntryOnce`, `ReadDataAgreesWithReference`, `GetargsFitsBuffer`, `ParentTableSurvivesChild` | On an image whose unused block entries are valid, every interleaving of open, close, read, write, execute and halt keeps a file descriptor delivering exactly the file from offset 0, with end of file only at its end, even in a slot that was a directory or an RTC before. A directory lists each entry once. `read_data` agrees with the reference for every offset and size. `getargs` writes each process's own arguments within the buffer it passed, or returns -1 only when they are empty or do not fit. `halt` leaves the parent's table as it was. |
| `fd_eof` | `MCFdLayer`, `FdLayer_eof.cfg` | violation | `FileReadsAreFilePrefix` | A file ending on a block boundary, followed by an invalid `block_idx` entry, makes `read_data` return one less than it copied. The last byte is never delivered, and for an empty file the position wraps. |
| `term` | `MCTerminal`, `Terminal.cfg` | pass | `TypeOK`, `ReadDeliversTypedLine`, `ReadReturnsAfterEnter` | Keys go to the displayed terminal and readers run on the scheduled one. Across Alt+F switches and PIT rotations, every read returns exactly the line typed on its own terminal while it was pending. A read whose line is complete returns. |
| `kbd_semi` | `MCKeyboard`, `Keyboard_semi.cfg` | violation | `ReadDeliversTypedLine` | The `;` key translates to 0x3B, which `keyboard_handler` takes for F1, so `;` never reaches the line. |
| `rtc` | `MCRtc`, `Rtc.cfg` | pass | `TypeOK`, `ReadPacing`, `InterruptEntries`, `ReadCompletes` | Two readers share `rtc_exe_flag`, through opens, closes, valid and invalid writes, and counter wraps. Each read still completes at least `div` ticks after the same reader's previous one. Under fair ticks and fair scheduling of spinning readers, every `rtc_read` returns. This needs the ticks to keep coming through the PICs, so it also checks `rtc_handler`'s register-C read and `send_eoi(8)`. Every IRQ line left open at boot, and `int 0x80`, enter through an interrupt gate of `idt_init` to their own handler. |
| `rtc_zero` | `MCRtc`, `Rtc_zero.cfg` | violation | `WriteRejectsInvalid` | `rtc_write(0)` passes the power-of-two test and divides by zero. |
| `display` | `MCDisplay`, `Display.cfg` | violation | `ScreensHoldOwnOutput` | Alt+F during the switching terminal's own slice leaves `video_mem` on the framebuffer. Until the next PIT tick that terminal's output lands on the newly displayed terminal's screen, and its own backup page misses it. |

The findings behind the violation runs are in `PROJECT.json`, each with its
source line.

Each property of a passing run has a mutant in `PROJECT.json`: a plausible
bug in the mapped code, which TLC finds.

| Mutant | Property that catches it |
|---|---|
| the parent link read one slot too high | `StackDiscipline` |
| `switch_process` forgetting `file_array` | `ContextMatchesScheduled` |
| a rotation modulus of 2 | `AllTerminalsGetShell` |
| `get_active_pcb` without its status test, so it always takes slot 0 | `ImplementsAbstractTerminals` |
| `execute`'s per-terminal test with `>` for `>=` | `TypeOK` (`fd`) |
| `file_open` keeping the slot's old position | `FileReadsAreFilePrefix` |
| `directory_open` keeping the old position | `DirectoryListsEachEntryOnce` |
| no `i == length` test in `read_data` | `ReadDataAgreesWithReference` |
| `halt`'s close loop run on the parent's table | `ParentTableSurvivesChild` |
| `getargs`'s room test without the NUL (`nbytes < strlen`) | `GetargsFitsBuffer` |
| the printable branch without its room test | `TypeOK` (`term`), since `buf_index` passes 128 |
| keys applied to the scheduled terminal, not the displayed one | `ReadDeliversTypedLine` |
| the PIT rotation wrapping to terminal 1 | `ReadReturnsAfterEnter` |
| `rtc_read` without the clamp of `div` to 1 | `TypeOK` (`rtc`), since `div` 0 is a kernel divide error |
| `rtc_read` not clearing `rtc_exe_flag` | `ReadPacing` |
| `rtc_handler` not raising `rtc_exe_flag` | `ReadCompletes` |
| `send_eoi(8)` sent to the slave only, leaving the master's cascade line in service | `ReadCompletes` |
| `rtc_handler` without the read of register C | `ReadCompletes` |
| `set_system_intr_gate` writing a trap gate (`reserved3 = 1`) | `InterruptEntries` |

## 4. Bounds

The real kernel has 6 PCBs, 4 processes per terminal and 6 in all. At those
sizes TLC passes 3 million distinct states without finishing. The models keep
3 terminals, because the rotation `(t+1) % 3` and the per-terminal backup
pages depend on the number.

- **`sched_main`: 4 PCBs, 2 per terminal, 4 in all.** This is the real shape:
  the global limit is reached as soon as every terminal holds more than its
  shell.
  - A terminal can hold a child while the others hold shells.
  - Slots are reused in lowest-free order after halts on other terminals.
  - Both paths of `halt` and the respawn are reached on every terminal.
  - TLC finishes in about 45 s with 144,148 distinct states, most of it on
    the two temporal properties.
- **`sched_race`: 3 PCBs, 3 in all, 2 per terminal.** Terminal 0 can fill its
  stack before boot completes, so the per-terminal limit binds alone. The
  third terminal's spawn then finds the table full. The failed spawn
  needs only this. With the real 6 PCBs it needs 6 processes before the
  PIT's first visit to a terminal. The boot timing makes that unlikely,
  but nothing in the code prevents it.
- **No type invariant for `ProcSched` in a passing run.** Under
  `UserWaitsForBoot` the limits of `_execute` never bind, so no plausible
  bug of the code breaks a type invariant in `sched_main`.
- **`HaltArgs = {0}`.** The exit value never affects control, except through
  the uint8_t truncation. `exit_status` widens it to `{0, 255, 256}`, where
  256 becomes 0.
- **`FdLayer`: two processes, `FILE_LIMIT` 3 (one slot for `open`), names of
  at most 2 characters, four dentries (".", the RTC "r", the shell "sh", a
  file "f"), blocks of 2 bytes, files of 0 to 4 bytes, reads of 0, 1 and 5
  bytes, a 4-bit word.**
  - One free slot is enough for reuse: a slot opened as a directory, closed
    and reopened as a file must start from 0.
  - Lengths 0 to 4 give the empty file, a file ending inside a block and one
    ending on a block boundary. A 5-byte read passes the end of every file.
  - The commands give a plain shell, a shell with an argument, a data file
    (not executable) and a 3-byte word whose 2-byte prefix is the shell.
  - `getargs` is called with 1 and 2 bytes, on either side of the fit of
    "f" and its NUL. The shell's empty arguments give the other -1.
  - `fd` keeps the unused block entries valid. `fd_eof` also allows an
    invalid one.
  - TLC finishes in about 2.5 minutes with 300,600 distinct states. The
    `getargs` outcome kept per process multiplies the 33,750 states without
    it by about nine.
- **`Terminal`: a 3-byte buffer, TAB of 2 spaces, one character ('a'), reads
  of 2 bytes.** The line fills up (room for 2 bytes before the newline), TAB
  is cut short at the end, and Backspace and Ctrl+L reach an empty line. A
  2-byte read cuts a full line short and takes a shorter one whole, so one
  size gives both cases. TLC finishes in about 40 s with 95,832 distinct
  states.
- **`Keyboard`: the `term` bounds, with the scancodes of 'a', ';' and ',',
  Enter, left Shift, Alt and F1 and F2.** This is enough to type ';' during a
  read. A passing run with every modifier does not finish in the run time, so
  the module has its violation run only.
- **`Rtc`: two readers, `MAX_RTC_FREQ` 16, frequencies {3, 16} ({0, 3, 16}
  in `rtc_zero`), a 2-bit counter, gaps counted up to 2.**
  - The open rate gives ratio 8 and div 2. Frequency 16 gives ratio 1, whose
    div 0 the clamp turns into 1. 3 is rejected. 0 faults, which
    `rtc_zero` checks; the passing run leaves it out to stay within the run
    time, since a fault changes nothing but the write's outcome.
  - TLC finds 150,472 distinct states in about a minute.
  - The 2-bit counter wraps every 4 ticks.
  - Counting gaps up to 2 is exact for `ReadPacing`, because no `div` exceeds
    2. A saturated gap of 2 still means at least 2.

- **`Display`: 3 terminals, at most 2 bytes per terminal.** The violation
  takes two steps: Alt+F to another terminal, then one byte from the
  terminal still scheduled. With `switch_terminal` also re-pointing
  `video_mem`, the same bounds pass (486 distinct states): every order of
  ticks, switches and writes keeps each screen equal to its terminal's
  output. The defect is therefore the stale pointer and nothing else.

## 5. Fairness

`WF_vars(pit_handler)`: the PIT interrupt is unmasked whenever user code runs,
and a handler never spins, so a tick is always eventually taken while a
process exists. `WF_vars(start_terminal0)`: boot runs. No fairness is assumed
for user actions (`execute`, `halt`, `vidmap`, Alt+F), because users may stop.

`AllTerminalsGetShell` holds under this fairness alone. `AbstractTerminals`
assumes only `WF_avars(Schedule)`, the timer that keeps firing, which
`pit_handler`'s fairness implies once boot has run.

`Terminal` assumes `WF_vars(pit_handler)` and
`SF_vars(terminal_read_done(t))`. A spinning reader runs only in its
terminal's slice, so the cleared flag is seen only when the rotation comes
back to it: the step is enabled and disabled again by each tick, and weak
fairness would not be enough. Keys and starting a read are user choices and
get no fairness.

`Rtc` assumes three kinds of fairness:

- `WF_vars(rtc_tick)` and `WF_vars(rtc_handler)`: the chip keeps ticking at
  1024 Hz, and a deliverable IRQ 8 is never held off for long, because user
  code and both busy waits run with IF set. The PIT gets no fairness: the
  property does not need it.
- `SF_vars(rtc_read_flag(p))` and `SF_vars(rtc_read_done(p))`: a reader spins
  in user-visible time with interrupts on. The PIT gives it every third slice,
  so a wait condition that recurs is eventually seen while it runs. Weak
  fairness would not be enough: the other reader can clear the flag, and each
  tick moves the counter off a multiple of `div`, so the conditions come and
  go.
- None for `open`, `write`, `close` or starting a read, which are user
  choices.

`FdLayer` checks safety only and has no fairness. `CHECK_DEADLOCK` stays on
in every run: the PIT (or the RTC, or a system call that fails) is always
enabled.

## 6. Not modelled, and why

- **GDT and TSS encoding, the gates' selector and reserved bits, and the
  PICs' ICW sequence.** They are hardware initialisation. `Idt` keeps the
  gate fields the processor acts on. `I8259` keeps only the state
  `i8259_init` leaves.
- **The assembly linkage stubs.** The `*_linkage.S` files are not in the
  repository. `PROJECT.json` lists one hazard that depends on them:
  - vectors 4 and 5 are trap gates (`idt.c:24`), so the exception handler and
    its `halt` run with interrupts on unless the stub clears IF. Its comment
    "disable interrupt" is followed by `clear()`, which clears the screen.
  - `ProcSched` models `exception_handler` as one step.
- **The keyboard's IRQ 1 in `Rtc`.** Every return path of `keyboard_handler`
  sends its EOI, so IRQ 1 never holds a line the RTC needs.
- **The order of `pit_handler`'s EOI and `switch_process`.** The EOI comes
  first, so the line is free before the kernel moves to another stack.
  Modelling the other order needs kernel stacks as state.
- **`tests.c`.** It is the kernel's test harness, not kernel code.
- **The saved `ebp`/`term_ebp` values.** A process's kernel frame is
  identified with its position in its terminal's stack. The frame saved by
  `switch_process` belongs to the top of the previous terminal. After a
  failed lazy spawn, it is written into the PCB that `cursor_y` names
  instead. `sched_race` shows that `halt` has already broken the stacks by
  then.
- **Echo, scrolling and the cursor.** Echo goes through `printf_direct`,
  and scrolling and the cursor through `putc`. Both are in `lib.c`, which is
  not in the repository. `Display` models where bytes land, not their layout.
- **`program_loader`.** It copies the file into the program page, and
  `_execute` ignores its result. It always reports -1 for a non-empty file,
  because it treats `read_data`'s byte count as an error; `PROJECT.json`
  lists this as a hazard.
- **Observations not given a run.** `PROJECT.json` lists them as hazards with
  notes:
  - the counter wrap shortens one virtual tick when `div` does not divide
    2^32 (`rtc.c:27`);
  - `div = ratio / 3` runs virtual ticks three times as fast as the frequency
    written (`rtc.c:120`; spec 4.3 divides by the divisor alone);
  - `parse_command` truncates the program name to 32 bytes before
    `read_dentry_by_name` checks its length, so `execute` with a 33-byte
    name runs the program named by its first 32 bytes
    (`file_system.c:213`). Spec 8 says the call fails. One call shows it,
    and `FdLayer` models the truncation in every `execute`.
- **`rtc_init` and `set_rtc_freq`.** They only program the chip's registers. Rate 3 is 8192 Hz by `set_rtc_freq`'s own formula, while `rtc_read` assumes 512 and the spec says 1024. The models are untimed (a tick is a step), so `PROJECT.json` lists this as a hazard without a property.
