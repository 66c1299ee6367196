----------------------------- MODULE MCFdLayer -----------------------------
(* One terminal with room for two processes, three descriptor slots (one  *)
(* for open), 2-character names, and an image of four entries: the        *)
(* directory ".", the RTC "r", the executable shell "sh" and a data file *)
(* "f".  Files have 2-byte blocks and 0 to 4 bytes, so a file can end on  *)
(* a block boundary; a 4-bit word keeps offsets far from the wrap.        *)
EXTENDS FdLayer

MCDataLength == 2
MCBlockNum == 2
MCTableSize == 3
MCLengths == 0 .. 4
MCWord == 16
(* Image whose unused block_idx entries are zero, a valid block.           *)
MCTrailingZero == {0}
(* Image whose unused entries may also hold an invalid block number.       *)
MCTrailingAny == {0, MCBlockNum}

MCFileLimit == 3
MCNameMax == 2
MCProgPerTerm == 2
MCMaxRtcFreq == 16
MCDentries ==
    << [name |-> <<".">>,      file_type |-> 1, inode_idx |-> 0],
       [name |-> <<"r">>,      file_type |-> 0, inode_idx |-> 0],
       [name |-> <<"s", "h">>, file_type |-> 2, inode_idx |-> 0],
       [name |-> <<"f">>,      file_type |-> 2, inode_idx |-> 1] >>
MCInodeIdx == {0, 1}
MCExecInodes == {0}
MCShell == <<"s", "h">>
(* The shell; the shell with argument "f"; a data file; a 3-byte word     *)
(* whose first 2 bytes name the shell.                                     *)
MCCommands ==
    { <<"s", "h">>, <<" ", "s", "h", " ", "f">>, <<"f">>, <<"s", "h", "x">> }
(* Each kind, a name not in the image and a name over the limit.          *)
MCOpenNames == { <<".">>, <<"r">>, <<"f">>, <<"x">>, <<"s", "h", "x">> }
MCReadSizes == {0, 1, 5}
(* getargs sizes on both sides of the fit of "f" and its NUL.           *)
MCArgSizes == {1, 2}
MCFreqs == {3, 4}
=============================================================================
