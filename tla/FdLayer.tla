------------------------------ MODULE FdLayer ------------------------------
(***************************************************************************)
(* The file-descriptor layer of one terminal (system_call.c read, write,  *)
(* open, close, getargs; the descriptor part of execute and halt) over the *)
(* read-only file system (file_system.c) and the per-device handlers it   *)
(* dispatches to.                                                          *)
(*                                                                         *)
(* procs is the terminal's stack of processes, the running one on top;    *)
(* each has its own file_array (pcb->file_array) and params.  The global  *)
(* file_array pointer always names the top one here: ProcSched checks     *)
(* that the scheduler keeps it so (ContextMatchesScheduled).  A slot's    *)
(* kind stands for its op_ptr.  Names are sequences of characters; a byte  *)
(* of a file is its index (FsReadData); a directory entry read is its      *)
(* dentry index.  Each system call is one atomic step: interrupts are off  *)
(* in the kernel, and the blocking reads (terminal, RTC) are modelled in   *)
(* Terminal and Rtc; here they return the values those modules produce.    *)
(***************************************************************************)
EXTENDS FsReadData, SequencesExt

CONSTANTS
    FILE_LIMIT,             \* slots per file_array (8)
    NAME_LENGTH_MAX,        \* file name bytes in a dentry (32)
    MAX_PROG_NUM_PER_TERM,  \* processes per terminal (4)
    MAX_RTC_FREQ,           \* rtc.h
    Dentries,               \* the boot block's entries, 0 .. dentry_num - 1
    InodeIdx,               \* inode numbers of the image
    ExecInodes,             \* inodes that start with the ELF magic
    SHELL,                  \* the name "shell"
    Commands,               \* command strings passed to execute
    OpenNames,              \* names passed to open
    ReadSizes,              \* nbytes passed to read
    ArgSizes,               \* nbytes passed to getargs
    Freqs                   \* frequencies passed to write on an RTC

SP == " "
NL == "\n"
dentry_num == Len(Dentries)
Fd == 0 .. (FILE_LIMIT - 1)

ASSUME /\ FILE_LIMIT \in Nat /\ FILE_LIMIT > 2
       /\ \A k \in DOMAIN Dentries :
            /\ Dentries[k].file_type \in {0, 1, 2}
            /\ Dentries[k].inode_idx \in InodeIdx
       /\ 0 \notin Freqs
       /\ ReadSizes \subseteq Nat
       /\ ArgSizes \subseteq Nat

(* Only rtc.c's power-of-two test is used from the Rtc module.            *)
RtcDev == INSTANCE Rtc WITH Proc <- {}, ElapsedCap <- 0,
            rtc_counter_global <- 0, rtc_exe_flag <- 0, ratio <- 0,
            opened <- 0, pc <- 0, div <- 0, elapsed <- 0, last_gap <- 0,
            write_ret <- 0, pic <- 0, rtc_irq <- 0

-----------------------------------------------------------------------------
(* strncmp(a, b, n) = 0: the strings agree up to n bytes or their ends.   *)
StrnEq(a, b, n) ==
    SubSeq(a, 1, IF Len(a) < n THEN Len(a) ELSE n) =
    SubSeq(b, 1, IF Len(b) < n THEN Len(b) ELSE n)

NoDentry == -1

(* read_dentry_by_name: the first entry whose name matches, or -1; names  *)
(* longer than 32 bytes are refused.  The loop advances dentry_addr past  *)
(* the boot block's 64 bytes before its first compare, so entry k is at   *)
(* 64 * (k + 1), the same place read_dentry_by_index uses.                 *)
read_dentry_by_name(fname) ==
    LET hits == {k \in DOMAIN Dentries :
                   StrnEq(fname, Dentries[k].name, NAME_LENGTH_MAX)}
    IN  IF Len(fname) > NAME_LENGTH_MAX \/ hits = {} THEN NoDentry
        ELSE Min(hits) - 1

(* The prefix of s before the first character of Stop.                    *)
UpTo(s, Stop) ==
    LET k == SelectInSeq(s, LAMBDA c : c \in Stop)
    IN  IF k = 0 THEN s ELSE SubSeq(s, 1, k - 1)

(* s without its leading spaces.                                          *)
SkipSpaces(s) ==
    LET k == SelectInSeq(s, LAMBDA c : c # SP)
    IN  IF k = 0 THEN <<>> ELSE SubSeq(s, k, Len(s))

(* parse_command: the first word, of which at most NAME_LENGTH_MAX bytes  *)
(* go to filename, then the rest after the spaces up to a newline.  word  *)
(* is the whole first word, kept for the property on names.               *)
parse_command(cmd) ==
    LET s    == SkipSpaces(cmd)
        word == UpTo(s, {SP, NL})
        rest == SkipSpaces(SubSeq(s, Len(word) + 1, Len(s)))
    IN  [filename |-> SubSeq(word, 1, IF Len(word) < NAME_LENGTH_MAX
                                      THEN Len(word) ELSE NAME_LENGTH_MAX),
         params   |-> UpTo(rest, {NL}),
         word     |-> word]

(* check_validity: a regular file whose first four bytes are the magic.   *)
check_validity(d) == d.file_type = 2 /\ d.inode_idx \in ExecInodes

(* Entry k of the directory (0-based), at 64 * (k + 1) in the boot block. *)
DentryAt(k) == Dentries[k + 1]

-----------------------------------------------------------------------------
(* A file_array slot.  kind stands for op_ptr; got and eof are history:   *)
(* what the slot's reads have delivered since open (byte or entry indices) *)
(* and whether the last one asked for data and got 0.                      *)
Kinds == {"terminal", "rtc", "dir", "file", "none"}
TypeKind == (0 :> "rtc") @@ (1 :> "dir") @@ (2 :> "file")

FreeSlot == [kind |-> "none", inode |-> 0, pos |-> 0, flags |-> 0,
             got |-> <<>>, eof |-> FALSE]

(* create_pcb's loop: fds 0 and 1 in use on the terminal table, the rest  *)
(* free, every file_position 0.  A reused PCB keeps the old op_ptr and    *)
(* inode_idx of a free slot; open overwrites both before any use.          *)
NewFileArray ==
    [fd \in Fd |-> IF fd < 2 THEN [FreeSlot EXCEPT !.kind = "terminal",
                                                   !.flags = 1]
                   ELSE FreeSlot]

(* A new process: its file_array, the params execute copied into its PCB *)
(* (memcpy of the parsed tail), and args, what its last getargs call     *)
(* returned and wrote (empty before its first).                            *)
NewProcess(pc) ==
    [fa |-> NewFileArray, params |-> pc.params, word |-> pc.word, args |-> {}]

VARIABLES
    inode,   \* the image's inodes
    procs    \* the terminal's processes, bottom to top

vars == <<inode, procs>>

Top == procs[Len(procs)]
fa == Top.fa

(* The running process's file_array becomes t.                             *)
SetFa(t) == procs' = [procs EXCEPT ![Len(procs)].fa = t]

(* An early return that changes nothing, as every -1 here is.            *)
Fail == UNCHANGED <<inode, procs>>

Init ==
    /\ inode \in [InodeIdx -> Inodes]
    /\ procs = <<NewProcess(parse_command(SHELL))>>

-----------------------------------------------------------------------------
(* Device open handlers, after open has set inode_idx, flags and op_ptr.  *)
(* Bug variant: file_open leaves the slot's old position.                  *)
FileOpenKeepPosition(s) == s

(* file_open: file_position = 0.                                           *)
FileOpen(s) == [s EXCEPT !.pos = 0]

(* Bug variant: directory_open leaves the slot's old position.             *)
DirectoryOpenKeepPosition(s) == [s EXCEPT !.inode = 0]

(* directory_open: file_position = 0, inode_idx = 0.                       *)
DirectoryOpen(s) == [s EXCEPT !.pos = 0, !.inode = 0]

(* rtc_open: inode_idx = 0, ratio = MAX_RTC_FREQ / 2.                      *)
RtcOpen(s) == [s EXCEPT !.inode = 0, !.pos = MAX_RTC_FREQ \div 2]

OpenHandler(s) ==
    CASE s.kind = "file" -> FileOpen(s)
      [] s.kind = "dir"  -> DirectoryOpen(s)
      [] s.kind = "rtc"  -> RtcOpen(s)

(* The first free fd from 2, or FILE_LIMIT when all are in use.            *)
FirstFreeFd(t) ==
    LET free == {fd \in 2 .. (FILE_LIMIT - 1) : t[fd].flags = 0}
    IN  IF free = {} THEN FILE_LIMIT ELSE Min(free)

(* open(filename).                                                         *)
open(name) ==
    LET fd == FirstFreeFd(fa)
        k  == read_dentry_by_name(name)
    IN  IF fd = FILE_LIMIT \/ k = NoDentry THEN Fail
        ELSE LET d == DentryAt(k)
                 s == [fa[fd] EXCEPT !.inode = d.inode_idx, !.flags = 1,
                                     !.kind = TypeKind[d.file_type],
                                     !.got = <<>>, !.eof = FALSE]
             IN  /\ SetFa([fa EXCEPT ![fd] = OpenHandler(s)])
                 /\ UNCHANGED inode

(* Device close handlers, after close has cleared flags.  file_close      *)
(* clears the position; directory_close and rtc_close do nothing.         *)
CloseHandler(s) == IF s.kind = "file" THEN [s EXCEPT !.pos = 0] ELSE s

(* close's flags = 0; the slot's read history ends with it.               *)
Closed(s) == [s EXCEPT !.flags = 0, !.got = <<>>, !.eof = FALSE]

(* close(fd): refuses stdin and stdout.                                    *)
close(fd) ==
    IF fd < 2 \/ fd >= FILE_LIMIT \/ fa[fd].flags = 0 THEN Fail
    ELSE /\ SetFa([fa EXCEPT ![fd] = CloseHandler(Closed(@))])
         /\ UNCHANGED inode

-----------------------------------------------------------------------------
(* read's and write's checks: fd in range, buf non-NULL, nbytes >= 0, and *)
(* the slot in use.                                                        *)
ArgsOk(fd, n, buf) == fd \in Fd /\ buf /\ n >= 0 /\ fa[fd].flags = 1

(* terminal_read: -1 unless fd is 0; else it blocks for a line and       *)
(* copies it out (Terminal), changing no descriptor.                       *)
terminal_read(fd, n) == UNCHANGED <<inode, procs>>

(* rtc_read: blocks until the next virtual tick and returns 0 (Rtc).      *)
rtc_read(fd) == UNCHANGED <<inode, procs>>

(* Bug variant: the position advanced by the bytes requested.            *)
NewPositionByNbytes(pos, ret, n) == (pos + n) % Word

(* file_position += ret_val when ret_val is nonzero (uint32_t += int32_t). *)
NewPosition(pos, ret, n) == IF ret # 0 THEN (pos + ret) % Word ELSE pos

(* file_read: read_data from the slot's position, which then advances by  *)
(* the signed count.                                                       *)
file_read(fd, n) ==
    LET s == fa[fd]
        r == read_data(inode[s.inode], s.pos, n)
    IN  /\ SetFa([fa EXCEPT
                  ![fd].pos = NewPosition(s.pos, r.ret, n),
                  ![fd].got = IF r.ret > 0 THEN @ \o SubSeq(r.copied, 1, r.ret)
                              ELSE @,
                  ![fd].eof = (n > 0 /\ r.ret = 0)])
        /\ UNCHANGED inode

(* strlen of entry k's name, at most 32: the name need not end in NUL.    *)
NameLen(k) ==
    IF Len(DentryAt(k).name) < NAME_LENGTH_MAX THEN Len(DentryAt(k).name)
    ELSE NAME_LENGTH_MAX

(* directory_read: 0 at the end; else copy the name at the position, step *)
(* the position, and return the name's length.  nbytes is not used.       *)
directory_read(fd) ==
    LET s == fa[fd] IN
    /\ IF s.pos = dentry_num
       THEN /\ SetFa([fa EXCEPT ![fd].eof = TRUE])
       ELSE /\ SetFa([fa EXCEPT ![fd].pos = @ + 1,
                                ![fd].got = Append(@, s.pos),
                                ![fd].eof = (NameLen(s.pos) = 0)])
    /\ UNCHANGED inode

(* read(fd, buf, nbytes): the checks, then the slot's read handler.       *)
read(fd, n, buf) ==
    IF ~ArgsOk(fd, n, buf) THEN Fail
    ELSE CASE fa[fd].kind = "terminal" -> terminal_read(fd, n)
           [] fa[fd].kind = "rtc"      -> rtc_read(fd)
           [] fa[fd].kind = "dir"      -> directory_read(fd)
           [] fa[fd].kind = "file"     -> file_read(fd, n)

(* terminal_write: -1 unless fd is 1; else it prints the non-NUL bytes.  *)
terminal_write(fd, n) == UNCHANGED <<inode, procs>>

(* rtc_write with nbytes and a buffer holding f: the ratio becomes        *)
(* MAX_RTC_FREQ / f for a power of two up to the maximum.                 *)
rtc_write(fd, n, f) ==
    IF n <= 1 \/ ~RtcDev!IsPow2OrZero(f) \/ f > MAX_RTC_FREQ
    THEN Fail
    ELSE /\ SetFa([fa EXCEPT ![fd].pos = MAX_RTC_FREQ \div f])
         /\ UNCHANGED inode

(* write(fd, buf, nbytes); file_write and directory_write return -1.      *)
write(fd, n, buf, f) ==
    IF ~ArgsOk(fd, n, buf) THEN Fail
    ELSE CASE fa[fd].kind = "terminal" -> terminal_write(fd, n)
           [] fa[fd].kind = "rtc"      -> rtc_write(fd, n, f)
           [] fa[fd].kind \in {"dir", "file"} -> Fail

-----------------------------------------------------------------------------
PROG_LIMIT_REACHED == 1

(* Bug variant: the per-terminal limit tested with >.                      *)
ExecLimitReachedLate(depth) == depth > MAX_PROG_NUM_PER_TERM

(* term_prog_counter >= MAX_PROG_NUM_PER_TERM.                             *)
ExecLimitReached(depth) == depth >= MAX_PROG_NUM_PER_TERM

(* _execute up to the context switch: the limit, parse_command, the       *)
(* lookup, check_validity, then create_pcb's fresh file_array and the     *)
(* params copied into the new PCB.  The new process runs; execute returns *)
(* to the caller only when it halts.  The global limit and the PCB slots  *)
(* are ProcSched's.                                                        *)
execute(cmd) ==
    LET pc == parse_command(cmd)
        k  == read_dentry_by_name(pc.filename)
    IN  IF ExecLimitReached(Len(procs))
        THEN UNCHANGED <<inode, procs>>
        ELSE IF k = NoDentry \/ ~check_validity(DentryAt(k))
        THEN Fail
        ELSE /\ procs' = Append(procs, NewProcess(pc))
             /\ UNCHANGED inode

(* halt's loop: close(fd) for every slot in use; close refuses 0 and 1.   *)
CloseAll(t) ==
    [fd \in Fd |-> IF fd >= 2 /\ t[fd].flags = 1
                   THEN CloseHandler(Closed(t[fd]))
                   ELSE t[fd]]

(* Bug variant: the loop runs after file_array is switched to the parent. *)
HaltLoopTableParent(depth) == IF depth > 1 THEN depth - 1 ELSE depth

(* The loop runs on file_array, still the halting process's.              *)
HaltLoopTable(depth) == depth

(* halt(0) for the file_array: close every open file, then either respawn *)
(* the shell in place (a root shell) or switch file_array to the parent's *)
(* and deliver the status to its execute.                                  *)
halt ==
    LET i      == HaltLoopTable(Len(procs))
        closed == [procs EXCEPT ![i].fa = CloseAll(@)]
    IN  /\ IF Len(procs) = 1
           THEN /\ procs' = <<NewProcess(parse_command(SHELL))>>
           ELSE /\ procs' = SubSeq(closed, 1, Len(procs) - 1)
        /\ UNCHANGED inode

-----------------------------------------------------------------------------
NUL == "\\0"   \* the byte strcpy writes after the string

(* Bug variant: the room test without the terminating NUL.                 *)
GetargsNoRoomNoNul(n, p) == n < Len(p)

(* nbytes < strlen(params) + 1: the arguments and their NUL do not fit.   *)
GetargsNoRoom(n, p) == n < Len(p) + 1

(* The running process records what its getargs returned and wrote.       *)
Returned(n, r, out) ==
    /\ procs' = [procs EXCEPT ![Len(procs)].args =
                               {[n |-> n, ret |-> r, out |-> out]}]
    /\ UNCHANGED inode

(* getargs(buf, nbytes) on the top PCB: -1 when the params do not fit or  *)
(* are empty, else strcpy into buf and 0.  buf is not checked: strcpy to  *)
(* NULL faults, and the exception handler halts the caller.               *)
getargs(n, buf) ==
    LET p == Top.params IN
    IF GetargsNoRoom(n, p) \/ p = <<>> THEN Returned(n, -1, <<>>)
    ELSE IF ~buf THEN halt
    ELSE Returned(n, 0, p \o <<NUL>>)

Next ==
    \/ \E name \in OpenNames : open(name)
    \/ \E fd \in -1 .. FILE_LIMIT :
         \/ close(fd)
         \/ \E n \in ReadSizes, buf \in BOOLEAN : read(fd, n, buf)
         \/ \E n \in {0, 4}, buf \in BOOLEAN, f \in Freqs : write(fd, n, buf, f)
    \/ \E cmd \in Commands : execute(cmd)
    \/ \E n \in ArgSizes, buf \in BOOLEAN : getargs(n, buf)
    \/ halt

Spec == Init /\ [][Next]_vars

-----------------------------------------------------------------------------
Slot == [kind : Kinds, inode : InodeIdx \cup {0}, pos : 0 .. (Word - 1),
         flags : {0, 1}, got : Seq(Int), eof : BOOLEAN]

TypeOK ==
    /\ inode \in [InodeIdx -> Inodes]
    /\ Len(procs) \in 1 .. MAX_PROG_NUM_PER_TERM
    /\ \A i \in DOMAIN procs : procs[i].fa \in [Fd -> Slot]

(* Spec 4.3 and 8 (close then open reads from offset 0): on an open       *)
(* regular-file descriptor of any process, the bytes delivered since its  *)
(* open are the file's bytes 0 .. position - 1 in order, the position    *)
(* stays within the file, and a read that asks for data and gets 0 is at  *)
(* the end.  The slot may have been an RTC or a directory before.         *)
FileReadsAreFilePrefix ==
    \A i \in DOMAIN procs, fd \in Fd :
      LET s == procs[i].fa[fd] IN
      (s.flags = 1 /\ s.kind = "file") =>
        /\ s.pos <= inode[s.inode].length
        /\ s.got = [k \in 1 .. s.pos |-> k - 1]
        /\ s.eof => s.pos = inode[s.inode].length

(* Spec 4.3 and scenario 2: reading an open directory returns each entry  *)
(* once, in order, and 0 only after the last.                              *)
DirectoryListsEachEntryOnce ==
    \A i \in DOMAIN procs, fd \in Fd :
      LET s == procs[i].fa[fd] IN
      (s.flags = 1 /\ s.kind = "dir") =>
        /\ s.pos <= dentry_num
        /\ s.got = [k \in 1 .. s.pos |-> k - 1]
        /\ s.eof => s.pos = dentry_num

(* file_system.c's header of read_data: the count is the bytes read,      *)
(* clipped at the end of the file, 0 at the end; for every file of the    *)
(* image, offset up to its end, and read size.                             *)
ReadDataAgreesWithReference ==
    \A i \in InodeIdx, n \in ReadSizes : \A off \in 0 .. inode[i].length :
      read_data(inode[i], off, n).ret = RefCount(inode[i], off, n)

(* Spec 8 (getargs): the last getargs of every live process, made before *)
(* or after its children came and went, either returned 0 having written *)
(* its own argument string from its execute command and the NUL, within  *)
(* the nbytes it passed, or returned -1 having written nothing, and -1   *)
(* only when the arguments were empty or did not fit.                     *)
GetargsFitsBuffer ==
    \A i \in DOMAIN procs : \A a \in procs[i].args :
      LET p == procs[i].params IN
      /\ Len(a.out) <= a.n
      /\ a.ret = 0 => a.out = p \o <<NUL>>
      /\ (a.ret = -1) <=> (p = <<>> \/ Len(p) + 1 > a.n)

(* Spec 4.4: halt restores the parent's descriptor table; its open files  *)
(* and positions are as the parent left them when it called execute.      *)
ParentTableSurvivesChild ==
    [][Len(procs') = Len(procs) - 1 =>
         procs'[Len(procs')].fa = procs[Len(procs) - 1].fa]_vars
====
