CONSTANTS
    p1 = p1
    p2 = p2
    Proc <- MCProc
    MAX_RTC_FREQ <- MCMaxFreq
    Freqs <- MCFreqsNoZero
    Word <- MCWord
    ElapsedCap <- MCElapsedCap
SPECIFICATION Spec
INVARIANT TypeOK
INVARIANT ReadPacing
INVARIANT InterruptEntries
PROPERTY ReadCompletes
