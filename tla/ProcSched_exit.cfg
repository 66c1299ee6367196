CONSTANTS
    NumPcb <- MCNumPcb
    Term <- MCTerm
    MaxProgPerTerm <- MCMaxProgPerTerm
    MaxProgramCount <- MCMaxProgramCount
    HaltArgs <- MCHaltArgsWide
    NoPid = NoPid
    UserWaitsForBoot = TRUE
SPECIFICATION Spec
INVARIANT ExitStatusFaithful
