-------------------------- MODULE MCClockCorrection --------------------------
(***************************************************************************)
(* Compares the clock words of ClockCorrection with the spec's formula     *)
(* over a sweep of corrections for a few frequencies: the state is the     *)
(* pair (f, ppm); ppm steps through PpmLow..PpmHigh, wrapping around, and  *)
(* f is any of Frequencies at each step.                                   *)
(***************************************************************************)
EXTENDS ClockCorrection

CONSTANTS Frequencies, PpmLow, PpmHigh

\* The default tuner frequency, a round 1 MHz and a 28.8 MHz reference.
MCFrequencies == {999000, 1000000, 28800000}
MCPpmLow  == -30
MCPpmHigh == 30

VARIABLES f, ppm

Init == f \in Frequencies /\ ppm = PpmLow
Next == /\ f' \in Frequencies
        /\ ppm' = IF ppm < PpmHigh THEN ppm + 1 ELSE PpmLow
Spec == Init /\ [][Next]_<<f, ppm>>

\* round(f + 1e-6 * ppm * f) for a positive result: floor(x + 1/2).
RoundedWord(freq, p) == freq + (2 * freq * p + PPM) \div (2 * PPM)

(***************************************************************************)
(* The word sddc_set_clock_source writes for a frequency is the corrected *)
(* frequency rounded to the nearest integer, as the spec's formula         *)
(* round(f * (1 + ppm * 1e-6)) says.                                       *)
(***************************************************************************)
CorrectedIsRounded == Corrected(f, ppm) = RoundedWord(f, ppm)
=============================================================================
