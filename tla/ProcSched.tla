----------------------------- MODULE ProcSched -----------------------------
(***************************************************************************)
(* The process table, the round-robin scheduler and the paging state they  *)
(* rewrite on every switch (process.c, scheduling.c, system_call.c,        *)
(* paging.c).  One CPU: every handler and system call below runs with      *)
(* interrupts masked, so each is one atomic step.  The running process is  *)
(* the top of the scheduled terminal's stack, which is how the code finds  *)
(* it (terminals[cur_term_id].prog_pids[term_prog_counter - 1]).           *)
(*                                                                         *)
(* Data abstracted: a PCB is its status, parent, terminal and video flag;  *)
(* a saved ebp is not kept (the parent frame is the stack below); a page   *)
(* directory entry is the pid whose frame it maps; the user video page     *)
(* table entry is the page (screen or a backup) it maps.                          *)
(***************************************************************************)
EXTENDS Integers, FiniteSets, FiniteSetsExt

CONSTANTS
    NumPcb,            \* PCB slots: MAX_PID + 1 (process.c)
    Term,              \* terminal indices 0 .. MAX_TERMINAL_NUM - 1
    MaxProgPerTerm,    \* MAX_PROG_NUM_PER_TERM (keyboard.h)
    MaxProgramCount,   \* MAX_PROGRAM_COUNT (system_call.c)
    HaltArgs,          \* 32-bit values a program may pass to halt
    NoPid,             \* NULL pcb pointer / not-present page entry
    UserWaitsForBoot   \* see UserReady

ASSUME /\ NumPcb \in Nat \ {0}
       /\ Term = 0 .. (Cardinality(Term) - 1)
       /\ MaxProgPerTerm \in Nat \ {0}
       /\ MaxProgramCount \in Nat \ {0}
       /\ HaltArgs \subseteq Nat
       /\ UserWaitsForBoot \in BOOLEAN

Pid == 0 .. (NumPcb - 1)
Slot == 0 .. (MaxProgPerTerm - 1)
(* Video pages as 4 KiB page offsets from VIDEO: 0 is the screen itself,  *)
(* 1 + t the backup page of terminal t (VIDEO + ((1 + t) << SHIFT_4K)).   *)
VIDEO == 0
BackupPage(t) == 1 + t
Page == 0 .. Cardinality(Term)
EXP_ERROR == 256

VARIABLES
    status,                 \* pcb->status (0 dead, 1 running)
    parent_pcb,             \* pcb->parent_pcb_pointer
    term_idx,               \* pcb->term_idx
    video_mem_flag,         \* pcb->video_mem_flag
    prog_pids,              \* terminals[t].prog_pids
    term_prog_counter,      \* terminals[t].term_prog_counter
    prog_counter,           \* global process count
    cur_term_id,            \* scheduled terminal
    active_term_idx,        \* displayed terminal
    prog_page,              \* page_directory[32]: pid whose 4 MiB frame is mapped
    vid_page_present,       \* page_directory[33] / page_table_video[0] present
    vid_page_base,          \* page_table_video[0].page_base_addr
    video_mem,              \* kernel print target (lib.c video_mem)
    file_array,             \* global file_array: pid whose table it points at
    esp0,                   \* tss.esp0: pid whose kernel stack it is
    program_exception_flag,
    booted,                 \* start_terminal0 has run
    scheduled,              \* terminals the PIT has scheduled at least once
    last_exec_ret           \* value the last halt delivered to execute

vars == <<status, parent_pcb, term_idx, video_mem_flag, prog_pids,
          term_prog_counter, prog_counter, cur_term_id, active_term_idx,
          prog_page, vid_page_present, vid_page_base, video_mem, file_array,
          esp0, program_exception_flag, booted, scheduled, last_exec_ret>>

NoRet == [by_exception |-> FALSE, value |-> -1]

(* The process the CPU runs: top of the scheduled terminal's stack.        *)
Top(t) == prog_pids[t][term_prog_counter[t] - 1]

(* terminals[t].prog_pids[i] as the build reads it.  halt, vidmap and     *)
(* jump_to_exec_ret index it with a uint32_t count minus 1 or 2 and no    *)
(* test, so on an empty terminal the index wraps to -1 or -2: the int32_t *)
(* fields cursor_y and cursor_x before prog_pids in terminal_t.  Whatever *)
(* they hold is taken as a pid; the model lets it be any PCB of the pool. *)
PidsAt(t, i) == IF i \in Slot THEN {prog_pids[t][i]} ELSE Pid

(* Boot scheduling: the PIT visits every terminal within its first two     *)
(* ticks (20 ms), long before anyone can type a command.  The user-driven  *)
(* steps are held back until then when UserWaitsForBoot is TRUE.           *)
UserReady == booted /\ (UserWaitsForBoot => scheduled = Term)

-----------------------------------------------------------------------------
(* Bug variant: the search loop without its status test takes slot 0.   *)
get_active_pcbAnySlot(st) == Min(Pid)

(* get_active_pcb: the lowest slot whose status is 0 in st.                *)
get_active_pcb(st) == Min({p \in Pid : st[p] = 0})

(* Bug variant: the parent read one slot too high (prog_pids[counter]).    *)
NewParentOffByOne(t, cnt) == IF cnt = 0 THEN NoPid ELSE prog_pids[t][cnt]

(* create_pcb's parent link: the previous top of terminal t.               *)
NewParent(t, cnt) == IF cnt = 0 THEN NoPid ELSE prog_pids[t][cnt - 1]

(* Bug variant: only the global limit is checked.                          *)
ExecLimitReachedGlobalOnly(pcnt, cnt) == pcnt >= MaxProgramCount

(* _execute's two limit checks (per terminal, then global).                *)
ExecLimitReached(pcnt, cnt) ==
    \/ cnt >= MaxProgPerTerm
    \/ pcnt >= MaxProgramCount

(* enable_program_page(pid): page directory entry 32 maps the 4 MiB frame *)
(* at 8 MiB + 4 MiB * pid, which is named here by pid.                     *)
enable_program_page(pid) == pid

(* setup_paging: enable_program_page, then flush the TLB.                  *)
setup_paging(pid) == prog_page' = enable_program_page(pid)

(* enable_prog_vid_page / disable_prog_vid_page: page directory entry 33  *)
(* and page_table_video[0] present or not present together.               *)
enable_prog_vid_page == vid_page_present' = TRUE
disable_prog_vid_page == vid_page_present' = FALSE

(* create_pcb on terminal t from PCB status st, parent table pp and        *)
(* counters pcnt (global) and cnt (terminal t): its bound on prog_counter, *)
(* the lowest dead PCB, the parent link, the status and terminal, the     *)
(* global file_array switched to the new table, and the new top of t.     *)
create_pcb(t, st, pp, pcnt, cnt) ==
    LET pid == get_active_pcb(st) IN
    /\ pcnt <= NumPcb - 1
    /\ \E p \in Pid : st[p] = 0
    /\ status' = [st EXCEPT ![pid] = 1]
    /\ parent_pcb' = [pp EXCEPT ![pid] = NewParent(t, cnt)]
    /\ term_idx' = [term_idx EXCEPT ![pid] = t]
    /\ prog_counter' = pcnt + 1
    /\ file_array' = pid
    /\ prog_pids' = [prog_pids EXCEPT ![t][cnt] = pid]
    /\ term_prog_counter' = [term_prog_counter EXCEPT ![t] = cnt + 1]

(* context_switch: tss.esp0 becomes the kernel stack of the top process  *)
(* of cur_term_id, read from prog_pids after create_pcb has pushed it; t  *)
(* is cur_term_id at every call of _execute.  A slot past the array is   *)
(* an out-of-bounds read, any pid.                                         *)
context_switch(t) ==
    LET s == term_prog_counter'[t] - 1 IN
    esp0' \in IF s \in Slot THEN {prog_pids'[t][s]} ELSE Pid

(* _execute on terminal t when it creates a process: the two limit checks, *)
(* create_pcb, setup_paging(pid) and context_switch's tss.esp0.  Its       *)
(* failure paths change nothing.                                           *)
ExecuteFrom(t, st, pp, pcnt, cnt) ==
    LET pid == get_active_pcb(st) IN
    /\ ~ExecLimitReached(pcnt, cnt)
    /\ create_pcb(t, st, pp, pcnt, cnt)
    /\ setup_paging(pid)
    /\ context_switch(t)

-----------------------------------------------------------------------------
(* init_prog: every PCB dead without the video flag; no process, no      *)
(* exception pending.                                                      *)
init_prog ==
    /\ status = [p \in Pid |-> 0]
    /\ parent_pcb = [p \in Pid |-> NoPid]
    /\ term_idx = [p \in Pid |-> 0]
    /\ video_mem_flag = [p \in Pid |-> 0]
    /\ prog_counter = 0
    /\ program_exception_flag = 0

(* init_terminals: no program on any terminal; terminal 0 scheduled.      *)
init_terminals ==
    /\ prog_pids = [t \in Term |-> [s \in Slot |-> 0]]
    /\ term_prog_counter = [t \in Term |-> 0]
    /\ cur_term_id = 0

(* init_directory: every page directory entry but the kernel's is not    *)
(* present, so no program frame is mapped.                                 *)
init_directory == prog_page = NoPid

(* init_prog_vid: page directory entry 33 and page_table_video[0] not      *)
(* present, page_table_video[0] on the real screen.                        *)
init_prog_vid == vid_page_present = FALSE /\ vid_page_base = VIDEO

Init ==
    /\ init_prog
    /\ init_terminals
    /\ init_directory
    /\ init_prog_vid
    /\ active_term_idx = 0
    /\ video_mem = VIDEO
    /\ file_array = NoPid
    /\ esp0 = NoPid
    /\ booted = FALSE
    /\ scheduled = {}
    /\ last_exec_ret = NoRet

(* start_terminal0: display and schedule terminal 0, execute("shell").     *)
start_terminal0 ==
    /\ ~booted
    /\ booted' = TRUE
    /\ active_term_idx' = 0
    /\ cur_term_id' = 0
    /\ ExecuteFrom(0, status, parent_pcb, prog_counter, term_prog_counter[0])
    /\ UNCHANGED <<video_mem_flag, vid_page_present, vid_page_base, video_mem,
                   program_exception_flag, scheduled, last_exec_ret>>

(* execute system call by the running process, when it creates a child.   *)
execute ==
    /\ UserReady
    /\ ExecuteFrom(cur_term_id, status, parent_pcb, prog_counter,
                   term_prog_counter[cur_term_id])
    /\ UNCHANGED <<video_mem_flag, cur_term_id, active_term_idx,
                   vid_page_present, vid_page_base, video_mem,
                   program_exception_flag, booted, scheduled, last_exec_ret>>

(* jump_to_exec_ret: tss.esp0 becomes the kernel stack of terminal t's   *)
(* new top, read after halt has decremented term_prog_counter.            *)
jump_to_exec_ret(t) == esp0' \in PidsAt(t, term_prog_counter[t] - 2)

(* halt body: tear down the top of the scheduled terminal.  flag is        *)
(* program_exception_flag when halt runs, arg the 8-bit status, byExc      *)
(* records whether an exception caused it (history only).                  *)
HaltBody(flag, arg, byExc) ==
    LET t == cur_term_id IN
    \E child \in PidsAt(t, term_prog_counter[t] - 1) :
    LET par   == parent_pcb[child]
        st    == [status EXCEPT ![child] = 0]
        pp    == [parent_pcb EXCEPT ![child] = NoPid]
    IN
    /\ IF par = NoPid
       THEN \* root shell: counters reset, _execute("shell") never returns
            /\ ExecuteFrom(t, st, pp, prog_counter - 1, 0)
            /\ program_exception_flag' = flag
            /\ UNCHANGED <<video_mem_flag, vid_page_present, last_exec_ret>>
       ELSE /\ disable_prog_vid_page
            /\ video_mem_flag' = [video_mem_flag EXCEPT ![child] = 0]
            /\ file_array' = par
            /\ prog_counter' = prog_counter - 1
            /\ term_prog_counter' = [term_prog_counter EXCEPT ![t] = @ - 1]
            /\ setup_paging(par)
            /\ status' = st
            /\ parent_pcb' = pp
            /\ program_exception_flag' = 0
            /\ last_exec_ret' =
                 [by_exception |-> byExc,
                  value |-> IF flag = 1 THEN EXP_ERROR ELSE arg]
            /\ jump_to_exec_ret(t)
            /\ UNCHANGED <<term_idx, prog_pids>>
    /\ UNCHANGED <<cur_term_id, active_term_idx, vid_page_base, video_mem,
                   booted, scheduled>>

(* halt system call: the status register is truncated to uint8_t.          *)
halt(a) ==
    /\ UserReady
    /\ HaltBody(program_exception_flag, a % 256, FALSE)

(* exception_handler: a fault in the running process sets the flag and     *)
(* halts it.                                                               *)
exception_handler ==
    /\ UserReady
    /\ prog_counter > 0
    /\ HaltBody(1, 0, TRUE)

(* vidmap with a pointer inside the program window.                        *)
vidmap ==
    /\ UserReady
    /\ enable_prog_vid_page
    /\ \E p \in PidsAt(cur_term_id, term_prog_counter[cur_term_id] - 1) :
         video_mem_flag' = [video_mem_flag EXCEPT ![p] = 1]
    /\ UNCHANGED <<status, parent_pcb, term_idx, prog_pids, term_prog_counter,
                   prog_counter, cur_term_id, active_term_idx, prog_page,
                   vid_page_base, video_mem, file_array, esp0,
                   program_exception_flag, booted, scheduled, last_exec_ret>>

(* change_prog_vid_mapping(t)                                              *)
VidBaseFor(t) == IF t = active_term_idx THEN VIDEO ELSE BackupPage(t)

(* Bug variant: switch_process forgets to switch file_array.              *)
ResumeTopKeepFileArray(t) ==
    LET p == Top(t) IN
    /\ setup_paging(p)
    /\ esp0' = p
    /\ UNCHANGED file_array
    /\ IF video_mem_flag[p] = 1
       THEN /\ enable_prog_vid_page
            /\ vid_page_base' = VidBaseFor(t)
       ELSE UNCHANGED <<vid_page_present, vid_page_base>>
    /\ UNCHANGED <<status, parent_pcb, term_idx, prog_pids, term_prog_counter,
                   prog_counter>>

(* switch_process, else-branch: resume the top process of t.               *)
ResumeTop(t) ==
    LET p == Top(t) IN
    /\ setup_paging(p)
    /\ esp0' = p
    /\ file_array' = p
    /\ IF video_mem_flag[p] = 1
       THEN /\ enable_prog_vid_page
            /\ vid_page_base' = VidBaseFor(t)
       ELSE UNCHANGED <<vid_page_present, vid_page_base>>
    /\ UNCHANGED <<status, parent_pcb, term_idx, prog_pids, term_prog_counter,
                   prog_counter>>

(* Bug variant: the rotation modulus one too small.                        *)
NextTermShort(t) == (t + 1) % (Cardinality(Term) - 1)

(* Round-robin order: (cur_term_id + 1) % MAX_TERMINAL_NUM.                *)
NextTerm(t) == (t + 1) % Cardinality(Term)

(* switch_process(prev, t): save ebp in prev's top PCB (ebp is not kept, *)
(* so that lookup, unguarded like halt's, changes nothing here), schedule *)
(* t, point the kernel's print target at its screen, then launch a shell  *)
(* if t has no process (a failure at the global limit is ignored) or      *)
(* resume t's top process.                                                 *)
switch_process(prev, t) ==
    /\ cur_term_id' = t
    /\ scheduled' = scheduled \cup {t}
    /\ video_mem' = VidBaseFor(t)
    /\ IF term_prog_counter[t] = 0
       THEN \/ /\ ExecuteFrom(t, status, parent_pcb, prog_counter, 0)
               /\ UNCHANGED <<vid_page_present, vid_page_base>>
            \/ /\ ExecLimitReached(prog_counter, 0)  \* execute returns 1
               /\ UNCHANGED <<status, parent_pcb, term_idx, prog_pids,
                              term_prog_counter, prog_counter, prog_page,
                              file_array, esp0, vid_page_present,
                              vid_page_base>>
       ELSE ResumeTop(t)

(* pit_handler with at least one process: rotate and switch_process.       *)
pit_handler ==
    /\ prog_counter > 0
    /\ switch_process(cur_term_id, NextTerm(cur_term_id))
    /\ UNCHANGED <<video_mem_flag, active_term_idx, program_exception_flag,
                   booted, last_exec_ret>>

(* keyboard_handler on Alt+F(k+1): switch_terminal(prev, k).               *)
switch_terminal(k) ==
    /\ UserReady
    /\ active_term_idx' = k
    /\ UNCHANGED <<status, parent_pcb, term_idx, video_mem_flag, prog_pids,
                   term_prog_counter, prog_counter, cur_term_id, prog_page,
                   vid_page_present, vid_page_base, video_mem, file_array,
                   esp0, program_exception_flag, booted, scheduled,
                   last_exec_ret>>

Next ==
    \/ start_terminal0
    \/ execute
    \/ \E a \in HaltArgs : halt(a)
    \/ exception_handler
    \/ vidmap
    \/ pit_handler
    \/ \E k \in Term : switch_terminal(k)

(* The PIT interrupt is never masked while user code runs.                 *)
Fairness == WF_vars(pit_handler) /\ WF_vars(start_terminal0)

Spec == Init /\ [][Next]_vars /\ Fairness

-----------------------------------------------------------------------------
TypeOK ==
    /\ status \in [Pid -> {0, 1}]
    /\ parent_pcb \in [Pid -> Pid \cup {NoPid}]
    /\ term_idx \in [Pid -> Term]
    /\ video_mem_flag \in [Pid -> {0, 1}]
    /\ prog_pids \in [Term -> [Slot -> Pid]]
    /\ term_prog_counter \in [Term -> 0 .. MaxProgPerTerm]
    /\ prog_counter \in 0 .. MaxProgramCount
    /\ cur_term_id \in Term /\ active_term_idx \in Term
    /\ prog_page \in Pid \cup {NoPid}
    /\ vid_page_present \in BOOLEAN
    /\ vid_page_base \in Page
    /\ video_mem \in Page
    /\ file_array \in Pid \cup {NoPid}
    /\ esp0 \in Pid \cup {NoPid}
    /\ program_exception_flag \in {0, 1}
    /\ booted \in BOOLEAN
    /\ scheduled \in SUBSET Term
    /\ last_exec_ret \in [by_exception : BOOLEAN, value : Int]

(* Spec 8: each terminal's prog_pids[0 .. term_prog_counter - 1] is a      *)
(* chain of distinct live PCBs of that terminal, each the parent of the    *)
(* next, the first with no parent; the per-terminal counters count the     *)
(* live PCBs of the terminal and prog_counter counts all of them.  Broken  *)
(* by any execute/halt/respawn/spawn order that loses or misplaces a pid.  *)
StackDiscipline ==
    /\ prog_counter = Cardinality({p \in Pid : status[p] = 1})
    /\ \A t \in Term :
         /\ term_prog_counter[t] =
              Cardinality({p \in Pid : status[p] = 1 /\ term_idx[p] = t})
         /\ \A i \in 0 .. (term_prog_counter[t] - 1) :
              LET p == prog_pids[t][i] IN
              /\ status[p] = 1
              /\ term_idx[p] = t
              /\ parent_pcb[p] = IF i = 0 THEN NoPid ELSE prog_pids[t][i - 1]
              /\ \A j \in 0 .. (i - 1) : prog_pids[t][j] # p

(* Spec 3 and 4.1: the program window, the TSS kernel stack and the global *)
(* file_array all belong to the process on top of the scheduled terminal,  *)
(* after every execute, halt, respawn and scheduler switch.                *)
ContextMatchesScheduled ==
    booted =>
      /\ term_prog_counter[cur_term_id] >= 1
      /\ prog_page = Top(cur_term_id)
      /\ esp0 = Top(cur_term_id)
      /\ file_array = Top(cur_term_id)

(* Spec 4.4: the value halt delivers to the parent's execute is 256 iff   *)
(* the child died by an exception (program_exception_flag in halt).        *)
ExitStatusFaithful ==
    last_exec_ret # NoRet =>
      (last_exec_ret.value = EXP_ERROR <=> last_exec_ret.by_exception)

(* Spec 8 and 4.4: the user video page is present exactly when the       *)
(* running process has called vidmap.  switch_process only ever enables   *)
(* it, halt disables it under a parent that may have mapped it, and the   *)
(* root-shell path of halt leaves it to the next shell.                    *)
VidPageMatchesVidmap ==
    booted /\ term_prog_counter[cur_term_id] >= 1
      => (vid_page_present <=> video_mem_flag[Top(cur_term_id)] = 1)

(* Spec 3 and 4.1: the user video page maps the real screen iff the       *)
(* scheduled terminal is displayed, else that terminal's backup page,     *)
(* for a scheduled process that has mapped it.                             *)
VidPageTargetsOwnScreen ==
    booted /\ term_prog_counter[cur_term_id] >= 1 /\ vid_page_present
      /\ video_mem_flag[Top(cur_term_id)] = 1
      => vid_page_base = VidBaseFor(cur_term_id)

(* Boot and the scheduler's lazy shell spawn eventually give every        *)
(* terminal a process, and none is ever left empty again.                  *)
AllTerminalsGetShell ==
    <>[](\A t \in Term : term_prog_counter[t] >= 1)

-----------------------------------------------------------------------------
(* Refinement mapping: terminal t's stack is prog_pids[0 ..                *)
(* term_prog_counter - 1], the running terminal is cur_term_id and the     *)
(* displayed one active_term_idx.  PCB status, parent links, paging and    *)
(* the global file_array are hidden.                                        *)
AbsStack(t) == [i \in 1 .. term_prog_counter[t] |-> prog_pids[t][i - 1]]

AT == INSTANCE AbstractTerminals
        WITH stacks <- [t \in Term |-> AbsStack(t)],
             running <- cur_term_id,
             displayed <- active_term_idx

(* Spec 4.1, 4.4 and 8, as AbstractTerminals states them: execute, halt,  *)
(* the exception halt and the root-shell respawn change only the          *)
(* scheduled terminal's stack, at its top, with a pid no terminal holds    *)
(* and within both limits; the PIT moves round-robin and spawns only on an *)
(* empty terminal; Alt+F changes only the display; and the PIT keeps       *)
(* firing.                                                                  *)
ImplementsAbstractTerminals == AT!Spec

=============================================================================
