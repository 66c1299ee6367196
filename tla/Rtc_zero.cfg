CONSTANTS
    p1 = p1
    p2 = p2
    Proc <- MCProc
    MAX_RTC_FREQ <- MCMaxFreq
    Freqs <- MCFreqs
    Word <- MCWord
    ElapsedCap <- MCElapsedCap
SPECIFICATION Spec
INVARIANT WriteRejectsInvalid
