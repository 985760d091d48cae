----------------------------- MODULE GpioProofs -----------------------------
(***************************************************************************)
(* The LED calls of libsddc write the GPIO register under the led_pattern *)
(* check: for every pattern set and every reachable register, an LED      *)
(* call changes the three LED bits and no other.                           *)
(***************************************************************************)
EXTENDS Sddc, TLAPS

\* The register bits the three LED colours land on.
AllLedBits == LedBits({LED_YELLOW, LED_RED, LED_BLUE})

\* A pattern that passes the check of sddc_led_*, shifted by GPIO_LED_SHIFT,
\* lands on the LED bits only.
LEMMA LedBitsOfValidPattern ==
  ASSUME NEW p \in LedPatternValues, ValidLedPattern(p)
  PROVE  LedBits(p) \subseteq AllLedBits
  BY DEF ValidLedPattern, LedBits, AllLedBits, LED_YELLOW, LED_RED, LED_BLUE,
         RegisterBits, GPIO_LED_SHIFT

\* One LED call, whatever the state it starts from.
LEMMA LedStepKeepsOtherBits ==
  ASSUME NEW p \in LedPatterns,
         sddc_led_on(p) \/ sddc_led_off(p) \/ sddc_led_toggle(p)
  PROVE  gpio' \ AllLedBits = gpio \ AllLedBits
<1>1. ValidLedPattern(p)
  BY DEF sddc_led_on, sddc_led_off, sddc_led_toggle
<1>2. LedBits(p) \subseteq AllLedBits
  BY <1>1, ArgumentsAssumption, LedBitsOfValidPattern
<1>3. CASE sddc_led_on(p)
  <2>1. gpio' = GpioOn(gpio, LedBits(p))
    BY <1>3, Zenon DEF sddc_led_on, GpioStep
  <2>2. QED
    BY <1>2, <2>1 DEF GpioOn
<1>4. CASE sddc_led_off(p)
  <2>1. gpio' = GpioOff(gpio, LedBits(p))
    BY <1>4, Zenon DEF sddc_led_off, GpioStep
  <2>2. QED
    BY <1>2, <2>1 DEF GpioOff
<1>5. CASE sddc_led_toggle(p)
  <2>1. gpio' = GpioToggle(gpio, LedBits(p))
    BY <1>5, Zenon DEF sddc_led_toggle, GpioStep
  <2>2. QED
    BY <1>2, <2>1 DEF GpioToggle
<1>6. QED
  BY <1>3, <1>4, <1>5

(***************************************************************************)
(* LedCallsKeepOtherBits for every value of the constants: no LED on, off  *)
(* or toggle call changes an ADC, bias, attenuator-select or VHF-enable    *)
(* bit.  It rests on the led_pattern check: without it bit 3 of a pattern  *)
(* would land on GPIO_ATT_SEL0.                                            *)
(***************************************************************************)
THEOREM LedCallsTheorem == Spec => LedCallsKeepOtherBits
<1>1. [Next]_vars =>
        [\A p \in LedPatterns :
           sddc_led_on(p) \/ sddc_led_off(p) \/ sddc_led_toggle(p)
             => gpio' \ AllLedBits = gpio \ AllLedBits]_vars
  BY LedStepKeepsOtherBits
<1>2. QED
  BY <1>1, PTL DEF Spec, LedCallsKeepOtherBits, AllLedBits
=============================================================================
