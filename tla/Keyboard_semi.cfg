CONSTANTS
    Term <- MCTerm
    KB_BUF_SIZE <- MCBufSize
    TAB_SPACE <- MCTabSpace
    ReadSizes <- MCReadSizes
    Scancodes <- MCKeysSemicolon
SPECIFICATION Spec
PROPERTY ReadDeliversTypedLine
