-------------------------------- MODULE MCRtc --------------------------------
(* Two readers on different terminals.  MAX_RTC_FREQ is scaled from 512   *)
(* to 16, so rtc_open's 2 Hz gives ratio 8 and div 2.  The frequencies    *)
(* written are 16 (ratio 1, div 0 clamped to 1), a rejected odd value,     *)
(* and 0.  The counter is a 2-bit int, so the wrap from INT_MAX to INT_MIN *)
(* is reached; gaps are counted up to 2, the largest div.                  *)
EXTENDS Rtc

CONSTANTS p1, p2
MCProc == {p1, p2}
MCMaxFreq == 16
MCFreqs == {0, 3, 16}
(* The passing run leaves out 0, whose divide error Rtc_zero.cfg checks.  *)
MCFreqsNoZero == {3, 16}
MCWord == 4
MCElapsedCap == 2
=============================================================================
