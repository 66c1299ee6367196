-------------------------- MODULE AbstractTerminals --------------------------
(***************************************************************************)
(* What the process layer and the scheduler promise (spec 4.1, 4.4 and 8), *)
(* with no PCBs, counters or paging: each terminal holds a stack of        *)
(* processes, the CPU runs the top of the running terminal's stack, and    *)
(* the display shows one terminal.                                         *)
(*                                                                         *)
(*  - Only the running terminal's stack changes under a system call: a    *)
(*    program executes a child on top (a process no terminal holds,       *)
(*    within both limits), the top exits back to its parent, or a lone    *)
(*    shell exits and a shell takes its place.                            *)
(*  - The timer moves the CPU to the next terminal in round-robin order,  *)
(*    and may start a first shell there when that terminal has none.     *)
(*  - Changing the displayed terminal changes nothing else.               *)
(***************************************************************************)
EXTENDS Integers, Sequences, FiniteSets, Functions

CONSTANTS
    Pid,               \* process identifiers
    Term,              \* terminals 0 .. N - 1
    MaxProgPerTerm,    \* processes a terminal may hold
    MaxProgramCount    \* processes all terminals may hold together

VARIABLES
    stacks,      \* each terminal's processes, bottom (its shell) to top
    running,     \* terminal whose top process the CPU runs
    displayed    \* terminal on the screen

avars == <<stacks, running, displayed>>

(* Processes some terminal holds, and how many there are.                  *)
Held == UNION {Range(stacks[t]) : t \in Term}
Count == SumFunction([t \in Term |-> Len(stacks[t])])

(* A process no terminal holds is pushed onto terminal t.                  *)
Push(t) ==
    /\ Len(stacks[t]) < MaxProgPerTerm
    /\ Count < MaxProgramCount
    /\ \E p \in Pid \ Held : stacks' = [stacks EXCEPT ![t] = Append(@, p)]

Init ==
    /\ stacks = [t \in Term |-> <<>>]
    /\ running = 0
    /\ displayed = 0

(* The running program executes a child (or the first shell boots).       *)
Execute ==
    /\ Push(running)
    /\ UNCHANGED <<running, displayed>>

(* The running program exits, and its parent continues.                   *)
Exit ==
    /\ Len(stacks[running]) > 1
    /\ stacks' = [stacks EXCEPT ![running] = SubSeq(@, 1, Len(@) - 1)]
    /\ UNCHANGED <<running, displayed>>

(* The running terminal's only program exits, and a new shell replaces it *)
(* (it may reuse the process identifier just released).                   *)
Restart ==
    /\ Len(stacks[running]) = 1
    /\ \E p \in Pid \ (Held \ {stacks[running][1]}) :
         stacks' = [stacks EXCEPT ![running] = <<p>>]
    /\ UNCHANGED <<running, displayed>>

(* The timer moves the CPU on; a terminal reached with no program may get *)
(* its first shell.                                                        *)
Schedule ==
    LET n == (running + 1) % Cardinality(Term) IN
    /\ running' = n
    /\ \/ UNCHANGED stacks
       \/ stacks[n] = <<>> /\ Push(n)
    /\ UNCHANGED displayed

Display(k) ==
    /\ displayed' = k
    /\ UNCHANGED <<stacks, running>>

Next ==
    \/ Execute
    \/ Exit
    \/ Restart
    \/ Schedule
    \/ \E k \in Term : Display(k)

(* The timer keeps firing.                                                 *)
Spec == Init /\ [][Next]_avars /\ WF_avars(Schedule)
=============================================================================
