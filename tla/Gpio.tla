-------------------------------- MODULE Gpio --------------------------------
(***************************************************************************)
(* The GPIO protocol of libsddc: the 16-bit GPIO register of the FX3 and   *)
(* the bit operations the driver applies to it.  A register value is the   *)
(* set of the positions of its bits that are 1, so that a mask, a pattern  *)
(* and a register are all subsets of 0..15, and the C bit operators become *)
(* set operators.                                                          *)
(***************************************************************************)
EXTENDS Integers

\* Bit positions of the register (uint16_t).
RegisterBits == 0 .. 15

\* enum GPIOBits (libsddc.c): the position of each single-bit function.
GPIO_ADC_SHDN   == 5
GPIO_ADC_DITH   == 6
GPIO_ADC_RAND   == 7
GPIO_BIAS_HF    == 8
GPIO_BIAS_VHF   == 9
GPIO_LED_YELLOW == 10
GPIO_LED_RED    == 11
GPIO_LED_BLUE   == 12
GPIO_ATT_SEL0   == 13
GPIO_ATT_SEL1   == 14
GPIO_VHF_EN     == 15
GPIO_LED_SHIFT  == 10

\* The two HF attenuator select bits, written together under one mask.
AttSelMask == {GPIO_ATT_SEL0, GPIO_ATT_SEL1}

(***************************************************************************)
(* The LED colours of the public API (libsddc.h): bit positions inside the *)
(* uint8_t led_pattern.  GPIO_LED_SHIFT moves them onto GPIO_LED_*.        *)
(***************************************************************************)
LED_YELLOW == 0
LED_RED    == 1
LED_BLUE   == 2

\* The values a uint8_t led_pattern argument can take.
LedPatternValues == SUBSET (0 .. 7)

\* The check of sddc_led_on/off/toggle: no bit outside the three colours.
ValidLedPattern(p) == p \subseteq {LED_YELLOW, LED_RED, LED_BLUE}

\* (uint16_t) led_pattern << GPIO_LED_SHIFT, passed on as a uint16_t:
\* bits shifted past position 15 are lost.
LedBits(p) == {b + GPIO_LED_SHIFT : b \in p} \cap RegisterBits

(***************************************************************************)
(* The register updates of the transport's GPIO primitives.               *)
(***************************************************************************)
GpioOn(reg, bits)     == reg \cup bits
GpioOff(reg, bits)    == reg \ bits
GpioToggle(reg, bits) == (reg \ bits) \cup (bits \ reg)
\* usb_device_gpio_set: pattern applied inside mask, other bits untouched.
GpioSet(reg, pattern, mask) == (reg \ mask) \cup (pattern \cap mask)

\* The setters of one single-bit function (dither, randomizer, biases):
\* a non-zero int argument sets the bit, zero clears it.
GpioFlag(reg, bit, on) == IF on THEN GpioOn(reg, {bit}) ELSE GpioOff(reg, {bit})
=============================================================================
