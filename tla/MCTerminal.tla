----------------------------- MODULE MCTerminal -----------------------------
(* Three terminals.  The 128-byte buffer is scaled to 3 and TAB to 2       *)
(* spaces, so a line fills up (room for 2 bytes before the newline), TAB   *)
(* is cut short at the end, and Backspace and Ctrl+L reach an empty line.  *)
(* A read of 2 bytes cuts a full line (2 bytes and the newline) short and *)
(* takes a shorter line whole.                                            *)
EXTENDS Terminal

MCTerm == 0 .. 2
MCBufSize == 3
MCTabSpace == 2
MCChars == {97}   \* 'a'
MCReadSizes == {2}
=============================================================================
