-------------------------- MODULE ClockCorrection --------------------------
(***************************************************************************)
(* The frequency correction of sddc_set_clock_source: the two 32-bit words *)
(* the SI5351A command carries.  Frequencies are integers in Hz and the    *)
(* correction an integer in ppm.  For f + 1e-6 * ppm * f >= 0 the C cast   *)
(* (uint32_t) truncates toward zero, which is the floor, and since f is an *)
(* integer floor(f + x) = f + floor(x).  The floating-point rounding of    *)
(* 1e-6 * ppm * f is abstracted away.                                      *)
(***************************************************************************)
EXTENDS Integers

PPM == 1000000

\* (uint32_t) (f + 1e-6 * ppm * f)
Corrected(f, ppm) == f + (f * ppm) \div PPM

\* data[0], data[1]: ADC sampling frequency and tuner reference frequency.
ClockWords(adc_frequency, tuner_frequency, ppm) ==
  << Corrected(adc_frequency, ppm), Corrected(tuner_frequency, ppm) >>

\* The words that switch the clock outputs off: sddc_set_clock_source(0, 0).
ClockOff == << 0, 0 >>
=============================================================================
