------------------------------- MODULE Display -------------------------------
(***************************************************************************)
(* Where terminal output lands: the text-mode framebuffer, one backup page *)
(* per terminal, and the kernel's rendering pointer video_mem.             *)
(*                                                                         *)
(*  - switch_process (scheduling.c) points video_mem at the framebuffer    *)
(*    when the terminal it schedules is displayed, else at that            *)
(*    terminal's backup page.                                              *)
(*  - Alt+F (keyboard.c) calls switch_terminal (scheduling.c), which       *)
(*    copies the framebuffer to the old terminal's backup page, copies     *)
(*    the new terminal's backup page to the framebuffer, and sets          *)
(*    active_term_idx.  It does not touch video_mem.                       *)
(*  - terminal_write (keyboard.c) puts each byte through putc, which       *)
(*    writes at video_mem (lib.c is not in the repository; its behaviour   *)
(*    is taken from spec section 4.4).                                     *)
(*                                                                         *)
(* A page's content is abstracted to the sequence of characters written   *)
(* to it, each one labelled with the terminal whose process wrote it; a    *)
(* 4 KB memcpy copies the whole sequence.  Scrolling, the cursor and the   *)
(* keyboard echo are left out.                                             *)
(***************************************************************************)
EXTENDS Integers, Sequences, FiniteSets

CONSTANTS
    Term,        \* terminals 0 .. N - 1
    MaxWrites    \* bound on the bytes each terminal's processes write

VARIABLES
    cur_term_id,      \* terminal whose process the CPU runs
    active_term_idx,  \* terminal on the screen
    video_mem,        \* page putc writes to
    pages,            \* content of the framebuffer and the backup pages
    written           \* bytes each terminal's processes have written

vars == <<cur_term_id, active_term_idx, video_mem, pages, written>>

(* VIDEO is the framebuffer; VIDEO + ((1 + t) << 12) is t's backup page.   *)
VIDEO == 0
BackupPage(t) == 1 + t
Page == {VIDEO} \cup {BackupPage(t) : t \in Term}

NextTerm(t) == (t + 1) % Cardinality(Term)

(* The page switch_process gives video_mem for terminal t.                 *)
VidBaseFor(t) == IF t = active_term_idx THEN VIDEO ELSE BackupPage(t)

(* After boot: init_terminals has blanked the backup pages and scheduled  *)
(* terminal 0, whose first shell runs displayed.  The framebuffer's boot   *)
(* text is abstracted as blank.                                            *)
Init ==
    /\ cur_term_id = 0
    /\ active_term_idx = 0
    /\ video_mem = VIDEO
    /\ pages = [p \in Page |-> <<>>]
    /\ written = [t \in Term |-> 0]

(* PIT tick (processes exist): round-robin, then switch_process re-points  *)
(* video_mem for the terminal it schedules.                                *)
pit_handler ==
    LET n == NextTerm(cur_term_id) IN
    /\ cur_term_id' = n
    /\ video_mem' = VidBaseFor(n)
    /\ UNCHANGED <<active_term_idx, pages, written>>

(* save_video_to_backup(prev_id) and restore_backup_to_video(next_id).     *)
save_video_to_backup(mem, prev) == [mem EXCEPT ![BackupPage(prev)] = mem[VIDEO]]
restore_backup_to_video(mem, next) == [mem EXCEPT ![VIDEO] = mem[BackupPage(next)]]

(* Alt+F(k+1): the handler sets active_term_idx to k (it already is k when *)
(* k is displayed) and calls switch_terminal(prev, k); the restore reads   *)
(* the backup page after the save, which matters when k = prev.            *)
switch_terminal(k) ==
    /\ pages' = restore_backup_to_video(save_video_to_backup(pages, active_term_idx), k)
    /\ active_term_idx' = k
    /\ UNCHANGED <<cur_term_id, video_mem, written>>

(* The scheduled process writes a byte: putc stores it at video_mem.       *)
terminal_write ==
    /\ written[cur_term_id] < MaxWrites
    /\ pages' = [pages EXCEPT ![video_mem] = Append(@, cur_term_id)]
    /\ written' = [written EXCEPT ![cur_term_id] = @ + 1]
    /\ UNCHANGED <<cur_term_id, active_term_idx, video_mem>>

Next ==
    \/ pit_handler
    \/ \E k \in Term : switch_terminal(k)
    \/ terminal_write

Spec == Init /\ [][Next]_vars

(* Where terminal t's screen is kept: the framebuffer while t is           *)
(* displayed, its backup page otherwise.                                   *)
ScreenOf(t) == IF t = active_term_idx THEN VIDEO ELSE BackupPage(t)

(* Spec 4.4 and scenario 5: every terminal's screen holds exactly what     *)
(* its own processes wrote, in order, whichever terminal is displayed and  *)
(* whichever is scheduled, across any Alt+F (switch_terminal with          *)
(* switch_process's video_mem).                                            *)
ScreensHoldOwnOutput ==
    \A t \in Term : pages[ScreenOf(t)] = [i \in 1 .. written[t] |-> t]
=============================================================================
