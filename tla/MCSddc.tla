------------------------------- MODULE MCSddc -------------------------------
(***************************************************************************)
(* Small instances of Sddc for TLC.  The models cover the three rows of   *)
(* the capability switch; the arguments include an LED pattern with a bit *)
(* outside the colours, HF attenuations valid for one attenuator style    *)
(* and not the other, and a tuner attenuation between two table entries.  *)
(***************************************************************************)
EXTENDS Sddc

MCModels            == {HW_BBRF103, HW_HF103, "RX666"}
MCSampleRates       == {32000000}
MCTunerFrequencies  == {100000000}
MCCorrections       == {0, 20}
MCHfAttenuations    == {-100, 0, 1000}
MCTunerAttenuations == {0, 500}
MCLedPatterns       == {{LED_YELLOW}, {3}}

\* The lifecycle run leaves the four single-bit setters out: their bits are
\* independent of everything else and multiply the states by 16.
MCNoFlagValues      == {}

\* The GPIO run: every setter, on a receiver with the GPIO attenuator.
MCGpioModels        == {HW_BBRF103}
MCGpioLedPatterns   == {{LED_YELLOW, LED_BLUE}, {LED_RED}, {3}, {5}}
MCFlagValues        == {TRUE, FALSE}
=============================================================================
