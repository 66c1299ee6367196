CONSTANTS
    NumPcb <- MCNumPcbRace
    Term <- MCTerm
    MaxProgPerTerm <- MCMaxProgPerTerm
    MaxProgramCount <- MCMaxProgramCountRace
    HaltArgs <- MCHaltArgs
    NoPid = NoPid
    UserWaitsForBoot = FALSE
SPECIFICATION Spec
INVARIANT StackDiscipline
