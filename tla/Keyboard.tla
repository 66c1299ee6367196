------------------------------ MODULE Keyboard ------------------------------
(***************************************************************************)
(* The keyboard interrupt from the scancode on (keyboard.c): scancode_     *)
(* handler updates the modifier flags, applies Backspace to terminal0's    *)
(* buffer, and translates the scancode through one of three tables; then   *)
(* keyboard_handler drops -1, takes the F-key branch for a value equal to  *)
(* F1_PRESS .. F3_PRESS, and otherwise runs the line-editing branch that   *)
(* Terminal models.  The readers, the PIT and the line buffers are         *)
(* Terminal's, instantiated with the same variables.                       *)
(*                                                                         *)
(* Scancodes are those of scancode set 1; a character is its ASCII code.   *)
(* The tables are kept only at the scancodes a model can press.            *)
(***************************************************************************)
EXTENDS Integers, Sequences, TLC

CONSTANTS
    Term, KB_BUF_SIZE, TAB_SPACE, ReadSizes,
    Scancodes      \* scancodes the keyboard sends

VARIABLES
    active_term_idx, cur_term_id, TERMINAL_READ_FLAG, keyboard_buf, reader,
    nbytes, line,
    CAPS_FLAG, L_SHIFT_FLAG, R_SHIFT_FLAG, SHIFT_FLAG, CTRL_FLAG, ALT_FLAG

termVars == <<active_term_idx, cur_term_id, TERMINAL_READ_FLAG, keyboard_buf,
              reader, nbytes, line>>
flagVars == <<CAPS_FLAG, L_SHIFT_FLAG, R_SHIFT_FLAG, SHIFT_FLAG, CTRL_FLAG,
              ALT_FLAG>>
vars == <<termVars, flagVars>>

T == INSTANCE Terminal WITH Chars <- {}

-----------------------------------------------------------------------------
CAPS_PRESS == \h3A
L_SHIFT_PRESS == \h2A
L_SHIFT_RELEASE == \hAA
CTRL_PRESS == \h1D
CTRL_RELEASE == \h9D
R_SHIFT_PRESS == \h36
R_SHIFT_RELEASE == \hB6
ENTER_PRESS == \h1C
BACKSPACE == \h0E
TAB == \h0F
ALT_PRESS == \h38
ALT_RELEASE == \hB8
F1_PRESS == \h3B
F2_PRESS == \h3C
F3_PRESS == \h3D
L_KEY == \h26          \* the L key, for Ctrl+L
NUM_SCANCODE == \h3A
NEW_LINE == \h0A
CTRL_L == -2
NoChar == -1           \* scancode_handler's "invalid keycode"

FKeys == {F1_PRESS, F2_PRESS, F3_PRESS}

(* scancode_set_1, _2 and _3 (no modifier, Caps Lock only, Shift) at the *)
(* scancodes modelled; 0 is "no character".                                *)
ScancodeSets ==
    (\h0D :> <<61, 61, 43>>)        \* =  =  +
 @@ (\h1E :> <<97, 65, 65>>)        \* a  A  A
 @@ (\h26 :> <<108, 76, 76>>)       \* l  L  L
 @@ (\h27 :> <<59, 59, 58>>)        \* ;  ;  :
 @@ (\h33 :> <<44, 44, 60>>)        \* ,  ,  <
 @@ [sc \in {BACKSPACE, CTRL_PRESS, L_SHIFT_PRESS, R_SHIFT_PRESS, ALT_PRESS}
       |-> <<0, 0, 0>>]

ASSUME /\ Term = 0 .. 2
       /\ \A sc \in Scancodes \ {ENTER_PRESS, TAB} :
            sc < NUM_SCANCODE => sc \in DOMAIN ScancodeSets

(* A modifier flag after a scancode: set on its make code, cleared on its *)
(* break code.                                                             *)
Held(flag, press, release, sc) ==
    IF sc = press THEN 1 ELSE IF sc = release THEN 0 ELSE flag

(* Caps Lock toggles on every make code.                                   *)
Toggled(flag, sc) == IF sc = CAPS_PRESS THEN 1 - flag ELSE flag

(* The table lookup: Shift selects set 3 whatever Caps Lock is; Caps Lock  *)
(* alone selects set 2.                                                    *)
TableChar(sc, caps, shift) ==
    ScancodeSets[sc][IF shift = 1 THEN 3 ELSE IF caps = 1 THEN 2 ELSE 1]

(* scancode_handler's return value, from the flags it has just updated,   *)
(* in the order of its early returns.  Backspace falls through to the     *)
(* table, whose entry for it is 0.                                          *)
ScancodeChar(sc, caps, shift, ctrl) ==
    IF sc \in FKeys THEN sc
    ELSE IF ctrl = 1 /\ sc = L_KEY THEN CTRL_L
    ELSE IF sc = ENTER_PRESS THEN NEW_LINE
    ELSE IF sc = TAB THEN TAB
    ELSE IF sc < NUM_SCANCODE /\ TableChar(sc, caps, shift) # 0
         THEN TableChar(sc, caps, shift)
    ELSE NoChar

(* What spec 4.6 does with the key on the line being read: Backspace,      *)
(* Ctrl+L, Enter and TAB edit it, a printable scancode appends its         *)
(* character from the table the modifiers select, and every other key      *)
(* (modifiers, F-keys, releases) leaves it alone.                          *)
RefLine(l, sc, caps, shift, ctrl) ==
    IF sc = BACKSPACE THEN T!RefBackspace(l)
    ELSE IF ctrl = 1 /\ sc = L_KEY THEN <<>>
    ELSE IF sc = ENTER_PRESS THEN Append(l, NEW_LINE)
    ELSE IF sc = TAB THEN T!RefTab(l)
    ELSE IF sc < NUM_SCANCODE /\ TableChar(sc, caps, shift) # 0
         THEN T!RefChar(l, TableChar(sc, caps, shift))
    ELSE l

(* keyboard_handler's branch for scancode_handler's value a, after the    *)
(* Backspace already applied inside scancode_handler.  A value equal to an *)
(* F-key scancode switches to terminal a - F1_PRESS when Alt is held and  *)
(* is dropped otherwise, whichever key produced it.                        *)
KeyBranch(sc, a, alt) ==
    IF sc = BACKSPACE THEN T!key_backspace
    ELSE IF a = NoChar THEN UNCHANGED <<active_term_idx, TERMINAL_READ_FLAG,
                                        keyboard_buf>>
    ELSE IF a \in FKeys
         THEN IF alt = 1 THEN T!key_switch(a - F1_PRESS)
              ELSE UNCHANGED <<active_term_idx, TERMINAL_READ_FLAG,
                               keyboard_buf>>
    ELSE IF a = CTRL_L THEN T!key_ctrl_l
    ELSE IF a = NEW_LINE THEN T!key_enter
    ELSE IF a = TAB THEN T!key_tab
    ELSE T!key_char(a)

(* One keyboard interrupt with scancode sc.                                *)
keyboard_handler(sc) ==
    LET caps  == Toggled(CAPS_FLAG, sc)
        lsh   == Held(L_SHIFT_FLAG, L_SHIFT_PRESS, L_SHIFT_RELEASE, sc)
        rsh   == Held(R_SHIFT_FLAG, R_SHIFT_PRESS, R_SHIFT_RELEASE, sc)
        shift == IF lsh = 1 \/ rsh = 1 THEN 1 ELSE 0
        ctrl  == Held(CTRL_FLAG, CTRL_PRESS, CTRL_RELEASE, sc)
        alt   == Held(ALT_FLAG, ALT_PRESS, ALT_RELEASE, sc)
    IN
    /\ CAPS_FLAG' = caps
    /\ L_SHIFT_FLAG' = lsh
    /\ R_SHIFT_FLAG' = rsh
    /\ SHIFT_FLAG' = shift
    /\ CTRL_FLAG' = ctrl
    /\ ALT_FLAG' = alt
    /\ KeyBranch(sc, ScancodeChar(sc, caps, shift, ctrl), alt)
    /\ T!RefKey(LAMBDA l : RefLine(l, sc, caps, shift, ctrl))
    /\ UNCHANGED <<cur_term_id, reader, nbytes>>

Init ==
    /\ T!Init
    /\ CAPS_FLAG = 0 /\ L_SHIFT_FLAG = 0 /\ R_SHIFT_FLAG = 0
    /\ SHIFT_FLAG = 0 /\ CTRL_FLAG = 0 /\ ALT_FLAG = 0

Next ==
    \/ \E sc \in Scancodes : keyboard_handler(sc)
    \/ (T!pit_handler \/ T!ReaderNext) /\ UNCHANGED flagVars

Spec == Init /\ [][Next]_vars /\ T!Fairness

-----------------------------------------------------------------------------
(* Spec 4.6, through the scancodes: a read returns the line typed on its   *)
(* own terminal, each printable key appended as the character its table    *)
(* gives, whatever that character's code is.                               *)
ReadDeliversTypedLine == T!ReadDeliversTypedLine
=============================================================================
