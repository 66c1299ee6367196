----------------------------- MODULE MCKeyboard -----------------------------
(* MCTerminal's bounds, with scancodes.  MCKeys: the keys of the line     *)
(* discipline and every modifier.  MCKeysSemicolon adds the ';' key      *)
(* (0x27), whose character is 0x3B = F1_PRESS, and Shift+',' (0x33),      *)
(* whose '<' is 0x3C = F2_PRESS.                                            *)
EXTENDS Keyboard

MCTerm == 0 .. 2
MCBufSize == 3
MCTabSpace == 2
MCReadSizes == {1, 3}

MCKeys ==
    {\h1E, L_KEY, ENTER_PRESS, TAB, BACKSPACE, F1_PRESS, F2_PRESS, F3_PRESS,
     CAPS_PRESS, L_SHIFT_PRESS, L_SHIFT_RELEASE, R_SHIFT_PRESS,
     R_SHIFT_RELEASE, CTRL_PRESS, CTRL_RELEASE, ALT_PRESS, ALT_RELEASE}
MCKeysSemicolon ==
    {\h1E, \h27, \h33, ENTER_PRESS, L_SHIFT_PRESS, L_SHIFT_RELEASE,
     ALT_PRESS, ALT_RELEASE, F1_PRESS, F2_PRESS}
=============================================================================
