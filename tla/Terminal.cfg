CONSTANTS
    Term <- MCTerm
    KB_BUF_SIZE <- MCBufSize
    TAB_SPACE <- MCTabSpace
    Chars <- MCChars
    ReadSizes <- MCReadSizes
SPECIFICATION Spec
INVARIANT TypeOK
PROPERTY ReadDeliversTypedLine
PROPERTY ReadReturnsAfterEnter
