------------------------------ MODULE Terminal ------------------------------
(***************************************************************************)
(* The terminals' line discipline (keyboard.c): keyboard_handler edits the *)
(* line buffer of the DISPLAYED terminal (terminal0 is                     *)
(* terminals[active_term_idx]) while that terminal's TERMINAL_READ_FLAG is *)
(* set, and terminal_read, run by the top process of the SCHEDULED         *)
(* terminal (cur_term_id), arms the flag, spins with interrupts enabled    *)
(* until Enter clears it, and copies the line out.  Each terminal's top    *)
(* process either runs user code or spins in terminal_read; the PIT        *)
(* rotates cur_term_id, and Alt+F1..F3 change active_term_idx.             *)
(*                                                                         *)
(* The key actions are keyboard_handler's branches after scancode_handler *)
(* has translated the scancode and the F-key test has been passed; the    *)
(* Keyboard module puts scancode_handler in front of them.  A character   *)
(* is its ASCII code.  keyboard_buf is the sequence of its first buf_index *)
(* bytes: every byte below buf_index was written since the read armed,     *)
(* and terminal_read never reads past buf_index.  Screen output (echo,     *)
(* clear, backspace) is left out.                                          *)
(***************************************************************************)
EXTENDS Integers, Sequences, TLC

CONSTANTS
    Term,          \* the terminals, 0 .. MAX_TERMINAL_NUM - 1
    KB_BUF_SIZE,   \* keyboard_buf size (128)
    TAB_SPACE,     \* spaces a TAB inserts (4)
    Chars,         \* ASCII codes of the printable characters typed
    ReadSizes      \* nbytes values a process passes to read(0, buf, nbytes)

ASSUME /\ Term = 0 .. 2
       /\ KB_BUF_SIZE \in Nat \ {0}
       /\ TAB_SPACE \in Nat \ {0}
       /\ Chars \subseteq 32 .. 126
       /\ ReadSizes \subseteq Nat

NL == 10      \* NEW_LINE
SPACE == 32

TermMin(a, b) == IF a < b THEN a ELSE b

-----------------------------------------------------------------------------
(* Reference line editing (spec 4.3, terminal read): printable characters *)
(* are buffered while one byte is left for the newline, TAB inserts up to  *)
(* TAB_SPACE spaces, Backspace erases the last byte, Ctrl+L clears the     *)
(* line and Enter completes it.                                            *)
RefRoom(line) == Len(line) < KB_BUF_SIZE - 1
RefChar(line, c) == IF RefRoom(line) THEN Append(line, c) ELSE line
RefTab(line) ==
    LET k == TermMin(TAB_SPACE, (KB_BUF_SIZE - 1) - Len(line))
    IN  IF k <= 0 THEN line ELSE line \o [i \in 1 .. k |-> SPACE]
RefBackspace(line) == IF line = <<>> THEN line ELSE SubSeq(line, 1, Len(line) - 1)

(* What read(0, buf, n) puts in buf for the completed line: its first     *)
(* min(n, length) bytes, the last of them a newline (spec 4.3).            *)
ExpectedBytes(line, n) ==
    LET k == TermMin(n, Len(line))
    IN  [i \in 0 .. (k - 1) |-> IF i = k - 1 THEN NL ELSE line[i + 1]]

-----------------------------------------------------------------------------
VARIABLES
    active_term_idx,     \* displayed terminal
    cur_term_id,         \* scheduled terminal
    TERMINAL_READ_FLAG,  \* per terminal
    keyboard_buf,        \* per terminal: bytes 0 .. buf_index - 1
    reader,              \* per terminal: its top process is in "user" code
                         \* or spinning in terminal_read ("wait")
    nbytes,              \* per terminal: the pending read's nbytes argument
    line                 \* history: the reference line of the pending read,
                         \* from the keys its terminal received

vars == <<active_term_idx, cur_term_id, TERMINAL_READ_FLAG, keyboard_buf,
          reader, nbytes, line>>

buf_index(t) == Len(keyboard_buf[t])

Init ==
    /\ active_term_idx = 0
    /\ cur_term_id = 0
    /\ TERMINAL_READ_FLAG = [t \in Term |-> 0]
    /\ keyboard_buf = [t \in Term |-> <<>>]
    /\ reader = [t \in Term |-> "user"]
    /\ nbytes = [t \in Term |-> 0]
    /\ line = [t \in Term |-> <<>>]

(* The reference: a key typed goes to the displayed terminal's line if   *)
(* that terminal's process is in a read that has not yet seen Enter.        *)
RefArmed(t) ==
    reader[t] = "wait" /\ (line[t] = <<>> \/ line[t][Len(line[t])] # NL)

RefKey(Edit(_)) ==
    line' = [t \in Term |->
               IF t = active_term_idx /\ RefArmed(t) THEN Edit(line[t])
               ELSE line[t]]

(* Bug variant: the handler edits the scheduled terminal's buffer.        *)
KbTermScheduled == cur_term_id

(* terminal0 (keyboard.h): the terminal keyboard_handler works on.         *)
KbTerm == active_term_idx

Reading == TERMINAL_READ_FLAG[KbTerm] = 1

SetBuf(newBuf) == keyboard_buf' = [keyboard_buf EXCEPT ![KbTerm] = newBuf]

UNCHANGED_Keyboard ==
    UNCHANGED <<cur_term_id, reader, nbytes>>

(* Alt+F(k+1): the displayed terminal becomes k; switch_terminal only       *)
(* copies the screen.                                                      *)
key_switch(k) ==
    /\ active_term_idx' = k
    /\ UNCHANGED <<TERMINAL_READ_FLAG, keyboard_buf>>
    /\ UNCHANGED_Keyboard

(* Bug variant: the printable-character branch without its room test.     *)
CharRoomUnbounded(buf) == TRUE

(* if (terminal0.buf_index < KB_BUF_SIZE-1 && ascii_char != TAB)           *)
CharRoom(buf) == Len(buf) < KB_BUF_SIZE - 1

(* A printable character, stored while reading if there is room.          *)
key_char(c) ==
    /\ IF Reading /\ CharRoom(keyboard_buf[KbTerm])
       THEN SetBuf(Append(keyboard_buf[KbTerm], c))
       ELSE UNCHANGED keyboard_buf
    /\ UNCHANGED <<active_term_idx, TERMINAL_READ_FLAG>>
    /\ UNCHANGED_Keyboard

(* TAB while reading: the while loop appends spaces until TAB_SPACE of    *)
(* them or buf_index = KB_BUF_SIZE-1; the printable branch skips TAB.      *)
TabSpaces(buf) ==
    LET k == TermMin(TAB_SPACE, (KB_BUF_SIZE - 1) - Len(buf))
    IN  IF k > 0 THEN buf \o [i \in 1 .. k |-> SPACE] ELSE buf

key_tab ==
    /\ IF Reading THEN SetBuf(TabSpaces(keyboard_buf[KbTerm]))
                  ELSE UNCHANGED keyboard_buf
    /\ UNCHANGED <<active_term_idx, TERMINAL_READ_FLAG>>
    /\ UNCHANGED_Keyboard

(* ENTER while reading: clear the flag, store '\n' at buf_index, buf_index++.*)
key_enter ==
    /\ IF Reading
       THEN /\ TERMINAL_READ_FLAG' = [TERMINAL_READ_FLAG EXCEPT ![KbTerm] = 0]
            /\ SetBuf(Append(keyboard_buf[KbTerm], NL))
       ELSE UNCHANGED <<TERMINAL_READ_FLAG, keyboard_buf>>
    /\ UNCHANGED active_term_idx
    /\ UNCHANGED_Keyboard

(* BACKSPACE, in scancode_handler: while reading, buf_index-- unless it   *)
(* is 0; the scancode then maps to -1 and the handler returns.             *)
key_backspace ==
    /\ IF Reading /\ buf_index(KbTerm) # 0
       THEN SetBuf(SubSeq(keyboard_buf[KbTerm], 1, buf_index(KbTerm) - 1))
       ELSE UNCHANGED keyboard_buf
    /\ UNCHANGED <<active_term_idx, TERMINAL_READ_FLAG>>
    /\ UNCHANGED_Keyboard

(* Ctrl+L: scancode_handler clears the screen and returns CTRL_L; while   *)
(* reading, keyboard_handler sets buf_index = 0.                           *)
key_ctrl_l ==
    /\ IF Reading THEN SetBuf(<<>>) ELSE UNCHANGED keyboard_buf
    /\ UNCHANGED <<active_term_idx, TERMINAL_READ_FLAG>>
    /\ UNCHANGED_Keyboard

(* Bug variant: terminal_read keeps the old buffer contents.               *)
ArmedBufferKept(buf) == buf

(* terminals[cur_term_id].buf_index = 0                                    *)
ArmedBuffer(buf) == <<>>

(* read(0, buf, n) by the scheduled terminal's process: terminal_read     *)
(* sets TERMINAL_READ_FLAG and buf_index = 0, then spins with sti.         *)
terminal_read(n) ==
    LET t == cur_term_id IN
    /\ reader[t] = "user"
    /\ TERMINAL_READ_FLAG' = [TERMINAL_READ_FLAG EXCEPT ![t] = 1]
    /\ keyboard_buf' = [keyboard_buf EXCEPT ![t] = ArmedBuffer(@)]
    /\ reader' = [reader EXCEPT ![t] = "wait"]
    /\ nbytes' = [nbytes EXCEPT ![t] = n]
    /\ line' = [line EXCEPT ![t] = <<>>]
    /\ UNCHANGED <<active_term_idx, cur_term_id>>

(* The bytes terminal_read writes: buf[i] for i < loop_end - 1 from the   *)
(* keyboard buffer, then buf[loop_end - 1] = '\n'.                         *)
CopyOut(kb, loop_end) ==
    (loop_end - 1) :> NL @@ [i \in 0 .. (loop_end - 2) |-> kb[i + 1]]

(* loop_end = min(nbytes, buf_index): terminal_read's return value.        *)
LoopEnd(t) == TermMin(nbytes[t], buf_index(t))

(* What the completing read returns and writes into the caller's buffer.  *)
ReadOut(t) ==
    [ret |-> LoopEnd(t), written |-> CopyOut(keyboard_buf[t], LoopEnd(t))]

(* The spin sees the flag cleared while its process runs; the copy;       *)
(* return loop_end.  The arguments die with the call.                      *)
terminal_read_done(t) ==
    /\ cur_term_id = t
    /\ reader[t] = "wait"
    /\ TERMINAL_READ_FLAG[t] = 0
    /\ reader' = [reader EXCEPT ![t] = "user"]
    /\ nbytes' = [nbytes EXCEPT ![t] = 0]
    /\ line' = [line EXCEPT ![t] = <<>>]
    /\ UNCHANGED <<active_term_idx, cur_term_id, TERMINAL_READ_FLAG,
                   keyboard_buf>>

(* Bug variant: the rotation wraps to 1 instead of 0.                      *)
NextTermWrapToOne(t) == (t % 2) + 1

(* cur_term_id = (cur_term_id + 1) % MAX_TERMINAL_NUM                     *)
NextTerm(t) == (t + 1) % 3

(* pit_handler: the next terminal's top process runs.                      *)
pit_handler ==
    /\ cur_term_id' = NextTerm(cur_term_id)
    /\ UNCHANGED <<active_term_idx, TERMINAL_READ_FLAG, keyboard_buf, reader,
                   nbytes, line>>

(* The user's side of the reader's steps: terminal_read and the copy out. *)
ReaderNext ==
    \/ \E n \in ReadSizes : terminal_read(n)
    \/ \E t \in Term : terminal_read_done(t)

(* Each key step is the code's branch with the reference's edit of the    *)
(* line; Alt+F edits no line.                                              *)
Next ==
    \/ pit_handler
    \/ ReaderNext
    \/ \E k \in Term : key_switch(k) /\ UNCHANGED line
    \/ \E c \in Chars : key_char(c) /\ RefKey(LAMBDA l : RefChar(l, c))
    \/ key_tab /\ RefKey(RefTab)
    \/ key_enter /\ RefKey(LAMBDA l : Append(l, NL))
    \/ key_backspace /\ RefKey(RefBackspace)
    \/ key_ctrl_l /\ RefKey(LAMBDA l : <<>>)

(* The PIT is never masked while a process runs or spins; a spinning      *)
(* reader runs every third slice, so a cleared flag is eventually seen.    *)
(* The user owes nothing: no fairness for keys or for starting a read.    *)
Fairness ==
    /\ WF_vars(pit_handler)
    /\ \A t \in Term : SF_vars(terminal_read_done(t))

Spec == Init /\ [][Next]_vars /\ Fairness

-----------------------------------------------------------------------------
TypeOK ==
    /\ active_term_idx \in Term
    /\ cur_term_id \in Term
    /\ TERMINAL_READ_FLAG \in [Term -> {0, 1}]
    /\ \A t \in Term : buf_index(t) \in 0 .. KB_BUF_SIZE
    /\ reader \in [Term -> {"user", "wait"}]
    /\ nbytes \in [Term -> ReadSizes \cup {0}]

(* Spec 4.3: a read returns the line typed on its own terminal while it   *)
(* was pending: keys go to the displayed terminal (terminal0), the reader *)
(* runs on the scheduled one, and Alt+F, the PIT, Ctrl+L, Backspace and    *)
(* TAB interleave freely.  Its buffer gets the first min(n, length) bytes, *)
(* ending in a newline, and nothing else; it returns their number.         *)
ReadDeliversTypedLine ==
    [][\A t \in Term :
         reader[t] = "wait" /\ reader'[t] = "user" =>
           /\ ReadOut(t).written = ExpectedBytes(line[t], nbytes[t])
           /\ ReadOut(t).ret = TermMin(nbytes[t], Len(line[t]))]_vars

(* Spec 4.3: a read whose line has been completed by Enter returns.       *)
ReadReturnsAfterEnter ==
    \A t \in Term :
      (reader[t] = "wait" /\ TERMINAL_READ_FLAG[t] = 0) ~> reader[t] = "user"
=============================================================================
