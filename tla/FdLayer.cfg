CONSTANTS
    DATA_LENGTH <- MCDataLength
    BlockNum <- MCBlockNum
    TableSize <- MCTableSize
    Lengths <- MCLengths
    TrailingBlocks <- MCTrailingZero
    Word <- MCWord
    FILE_LIMIT <- MCFileLimit
    NAME_LENGTH_MAX <- MCNameMax
    MAX_PROG_NUM_PER_TERM <- MCProgPerTerm
    MAX_RTC_FREQ <- MCMaxRtcFreq
    Dentries <- MCDentries
    InodeIdx <- MCInodeIdx
    ExecInodes <- MCExecInodes
    SHELL <- MCShell
    Commands <- MCCommands
    OpenNames <- MCOpenNames
    ReadSizes <- MCReadSizes
    ArgSizes <- MCArgSizes
    Freqs <- MCFreqs
SPECIFICATION Spec
INVARIANT TypeOK
INVARIANT FileReadsAreFilePrefix
INVARIANT DirectoryListsEachEntryOnce
INVARIANT ReadDataAgreesWithReference
INVARIANT GetargsFitsBuffer
PROPERTY ParentTableSurvivesChild
