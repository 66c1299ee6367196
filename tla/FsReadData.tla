----------------------------- MODULE FsReadData -----------------------------
(***************************************************************************)
(* The read-only file system's byte reader, file_system.c read_data, as   *)
(* an operator, with the reference count it should return.  FdLayer uses *)
(* it for regular-file reads.                                              *)
(*                                                                         *)
(* Data abstracted: a byte is its index in the file, so a copy is the      *)
(* sequence of indices read; an index >= length is a byte past the end of  *)
(* the file.  A data block's contents do not matter, only whether its      *)
(* index is below block_num.  DATA_LENGTH (4096) and the 32-bit word are   *)
(* scaled down; arithmetic on offsets stays modular in Word as uint32_t    *)
(* is, and the int32_t result is the two's-complement reading.             *)
(***************************************************************************)
EXTENDS Integers, Sequences, FiniteSets

CONSTANTS
    DATA_LENGTH,     \* bytes per data block
    BlockNum,        \* block_num from the boot block
    TableSize,       \* block_idx entries per inode (VALID_BLOCK)
    Lengths,         \* file lengths to consider
    TrailingBlocks,  \* values the block_idx entries past the file may hold
    Word             \* 2^width of uint32_t

ASSUME /\ DATA_LENGTH \in Nat \ {0}
       /\ BlockNum \in Nat \ {0}
       /\ \A L \in Lengths : L < TableSize * DATA_LENGTH
       /\ TrailingBlocks \subseteq 0 .. BlockNum
       /\ Word \in Nat /\ Word % 2 = 0

(* Blocks the file's bytes occupy; their entries are valid block numbers. *)
UsedBlocks(L) == (L + DATA_LENGTH - 1) \div DATA_LENGTH

(* An inode of the image: length, then block_idx[]; the entries past the  *)
(* file are whatever the image holds there.                                *)
Inodes ==
    UNION { { [length |-> L, block_idx |-> b] :
              b \in { f \in [0 .. (TableSize - 1) -> {0} \cup TrailingBlocks] :
                        \A k \in 0 .. (UsedBlocks(L) - 1) : f[k] = 0 } } :
            L \in Lengths }

(* int32_t reading of a uint32_t value.                                    *)
ToInt32(x) == IF x >= Word \div 2 THEN x - Word ELSE x

-----------------------------------------------------------------------------
(* Bug variant: the loop bound compared with <=.                           *)
LoopContinuesInclusive(i, offset, length) == i <= (offset + length) % Word

(* for (i = offset; i < (offset + length); i++), in uint32_t.              *)
LoopContinues(i, offset, length) == i < (offset + length) % Word

(* Bug variant: no end-of-file test.                                       *)
AtEndOfFileNever(i, ino) == FALSE

(* if (i == (inode_struct->length))                                        *)
AtEndOfFile(i, ino) == i = ino.length

(* Bug variant: the end-of-file return one short.                          *)
EofCountShort(i, offset) == ToInt32((i - offset - 1) % Word)

(* return i - offset; at the end of the inode.                             *)
EofCount(i, offset) == ToInt32((i - offset) % Word)

(* The loop of read_data from byte i, with the indices copied so far.     *)
RECURSIVE ReadLoop(_, _, _, _, _)
ReadLoop(ino, offset, length, i, copied) ==
    IF ~LoopContinues(i, offset, length)
    THEN [ret |-> ToInt32((i - offset) % Word), copied |-> copied]
    ELSE IF ino.block_idx[i \div DATA_LENGTH] >= BlockNum
    THEN [ret |-> ToInt32((i - offset - 1) % Word), copied |-> copied]
    ELSE IF AtEndOfFile(i, ino)
    THEN [ret |-> EofCount(i, offset), copied |-> Append(copied, i)]
    ELSE ReadLoop(ino, offset, length, (i + 1) % Word, Append(copied, i))

(* read_data(inode, offset, buf, length) for a valid inode, a non-NULL    *)
(* buf and length >= 0: the value returned and the indices written to buf. *)
read_data(ino, offset, length) == ReadLoop(ino, offset, length, offset, <<>>)

(* Reference: the bytes [offset, offset + n) clipped to the file.          *)
RefCount(ino, offset, n) ==
    IF offset >= ino.length THEN 0
    ELSE IF n < ino.length - offset THEN n ELSE ino.length - offset

=============================================================================
