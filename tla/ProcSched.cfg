CONSTANTS
    NumPcb <- MCNumPcb
    Term <- MCTerm
    MaxProgPerTerm <- MCMaxProgPerTerm
    MaxProgramCount <- MCMaxProgramCount
    HaltArgs <- MCHaltArgs
    NoPid = NoPid
    UserWaitsForBoot = TRUE
SPECIFICATION Spec
INVARIANT StackDiscipline
INVARIANT ContextMatchesScheduled
PROPERTY AllTerminalsGetShell
PROPERTY ImplementsAbstractTerminals
