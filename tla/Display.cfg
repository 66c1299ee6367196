CONSTANTS
    Term <- MCTerm
    MaxWrites <- MCMaxWrites
SPECIFICATION Spec
INVARIANT ScreensHoldOwnOutput
