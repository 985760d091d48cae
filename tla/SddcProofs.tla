----------------------------- MODULE SddcProofs -----------------------------
(***************************************************************************)
(* Proofs about Sddc for every value of its constants: the type            *)
(* invariant, and that samples never flow without a sampling clock.        *)
(***************************************************************************)
EXTENDS Sddc, AttenuationLemmas

(***************************************************************************)
(* Lemmas about the operators the model is built from.                     *)
(***************************************************************************)

\* Every row of the capability switch is a well-typed capability record.
LEMMA CapabilitiesType ==
  ASSUME NEW m
  PROVE  /\ Capabilities(m).clock \in BOOLEAN
         /\ Capabilities(m).vhf \in BOOLEAN
         /\ Capabilities(m).levels \in {0, 3, 32}
  BY DEF Capabilities

\* An HF attenuation command that is not rejected writes an attenuator
\* byte in 0..62, or GPIO bits, or nothing.
LEMMA HfAttCommandType ==
  ASSUME NEW levels \in {0, 3, 32}, NEW a \in Int
  PROVE  LET cmd == HfAttCommand(levels, a)
         IN  /\ cmd.op \in {"none", "gpio", "dat31", "reject"}
             /\ cmd.op = "dat31" => cmd.byte \in 0 .. 62
  <1>1. CASE levels = 0
    BY <1>1 DEF HfAttCommand, HfCmd
  <1>2. CASE levels = 3
    BY <1>2 DEF HfAttCommand, HfCmd
  <1>3. CASE levels = 32
    <2>1. CASE ~(a < 0 \/ a > 3100)
      <3>1. CInt(a) \in 0 .. 31
        BY <2>1 DEF CInt
      <3>2. (31 - CInt(a)) * 2 \in 0 .. 62
        BY <3>1
      <3>3. QED
        BY <1>3, <2>1, <3>2 DEF HfAttCommand, HfCmd
    <2>2. CASE a < 0 \/ a > 3100
      BY <1>3, <2>2 DEF HfAttCommand, HfCmd
    <2>3. QED
      BY <2>1, <2>2
  <1>4. QED
    BY <1>1, <1>2, <1>3

\* The effect of a successful HF attenuation command keeps the types of
\* the GPIO register and of the attenuator byte.
LEMMA ApplyHfAttType ==
  ASSUME NEW levels \in {0, 3, 32}, NEW a \in Int,
         gpio \subseteq RegisterBits,
         dat31 \in {NoByte} \cup 0 .. 62,
         ApplyHfAtt(HfAttCommand(levels, a))
  PROVE  /\ gpio' \subseteq RegisterBits
         /\ dat31' \in {NoByte} \cup 0 .. 62
  <1> DEFINE cmd == HfAttCommand(levels, a)
  <1>1. cmd.op = "dat31" => cmd.byte \in 0 .. 62
    BY HfAttCommandType
  <1>2. GpioSet(gpio, cmd.pattern, AttSelMask) \subseteq RegisterBits
    <2>1. AttSelMask \subseteq RegisterBits
      BY DEF AttSelMask, RegisterBits, GPIO_ATT_SEL0, GPIO_ATT_SEL1
    <2>2. QED
      BY <2>1, Zenon DEF GpioSet
  <1>3. QED
    BY <1>1, <1>2 DEF ApplyHfAtt

\* The LED and single-bit setters write registers of 16 bits.
LEMMA GpioRegisterType ==
  ASSUME NEW reg \in SUBSET RegisterBits, NEW p, NEW v \in BOOLEAN,
         NEW bit \in {GPIO_ADC_DITH, GPIO_ADC_RAND, GPIO_BIAS_HF, GPIO_BIAS_VHF}
  PROVE  /\ GpioOn(reg, LedBits(p)) \subseteq RegisterBits
         /\ GpioOff(reg, LedBits(p)) \subseteq RegisterBits
         /\ GpioToggle(reg, LedBits(p)) \subseteq RegisterBits
         /\ GpioFlag(reg, bit, v) \subseteq RegisterBits
  <1>1. LedBits(p) \subseteq RegisterBits
    BY DEF LedBits
  <1>2. {bit} \subseteq RegisterBits
    BY DEF RegisterBits, GPIO_ADC_DITH, GPIO_ADC_RAND, GPIO_BIAS_HF, GPIO_BIAS_VHF
  <1>3. QED
    BY <1>1, <1>2 DEF GpioOn, GpioOff, GpioToggle, GpioFlag

-----------------------------------------------------------------------------
(***************************************************************************)
(* Type correctness.                                                       *)
(***************************************************************************)

\* A GPIO call keeps the type when the register it writes is well typed.
LEMMA GpioStepTypeOK ==
  ASSUME TypeOK, NEW reg \in SUBSET RegisterBits, GpioStep(reg)
  PROVE  TypeOK'
  BY DEF GpioStep, TypeOK, hw_vars, engine_vars, handle_vars

\* Every step of the specification keeps the type.
LEMMA TypeOKStep == TypeOK /\ [Next]_vars => TypeOK'
<1> SUFFICES ASSUME TypeOK, [Next]_vars PROVE TypeOK'
  OBVIOUS
<1>1. CASE sddc_open
  BY <1>1, CapabilitiesType
  DEF sddc_open, SetHandleDefaults, TypeOK, engine_vars
<1>2. CASE sddc_close
  BY <1>2, CapabilitiesType
  DEF sddc_close, SetHandleDefaults, TypeOK, EngineStates
<1>3. ASSUME NEW m \in {HF_MODE, VHF_MODE}, sddc_set_rf_mode(m)
      PROVE  TypeOK'
  BY <1>3 DEF sddc_set_rf_mode, TypeOK, hw_vars, engine_vars
<1>4. ASSUME NEW p \in LedPatterns,
             sddc_led_on(p) \/ sddc_led_off(p) \/ sddc_led_toggle(p)
      PROVE  TypeOK'
  BY <1>4, GpioRegisterType, GpioStepTypeOK
  DEF sddc_led_on, sddc_led_off, sddc_led_toggle, TypeOK
<1>5. ASSUME NEW v \in FlagValues,
             \/ sddc_set_adc_dither(v) \/ sddc_set_adc_random(v)
             \/ sddc_set_hf_bias(v) \/ sddc_set_vhf_bias(v)
      PROVE  TypeOK'
  <2>1. v \in BOOLEAN
    BY ArgumentsAssumption
  <2>2. QED
    BY <1>5, <2>1, GpioRegisterType, GpioStepTypeOK
    DEF sddc_set_adc_dither, sddc_set_adc_random, sddc_set_hf_bias,
        sddc_set_vhf_bias, TypeOK
<1>6. ASSUME NEW a \in HfAttenuations, sddc_set_hf_attenuation(a)
      PROVE  TypeOK'
  <2>1. a \in Int
    BY ArgumentsAssumption
  <2>2. gpio' \subseteq RegisterBits /\ dat31' \in {NoByte} \cup 0 .. 62
    BY <1>6, <2>1, ApplyHfAttType DEF sddc_set_hf_attenuation, TypeOK
  <2>3. QED
    BY <1>6, <2>2 DEF sddc_set_hf_attenuation, TypeOK, engine_vars, handle_vars
<1>7. ASSUME NEW a \in TunerAttenuations, sddc_set_tuner_attenuation(a)
      PROVE  TypeOK'
  <2>1. NearestIndex(a) \in TableIndices
    BY ArgumentsAssumption, NearestIndexLowestArgmin
  <2>2. QED
    BY <1>7, <2>1 DEF sddc_set_tuner_attenuation, TypeOK, engine_vars,
       handle_vars
<1>8. ASSUME NEW sr \in SampleRates, sddc_set_sample_rate(sr)
      PROVE  TypeOK'
  BY <1>8 DEF sddc_set_sample_rate, TypeOK, hw_vars, engine_vars
<1>9. ASSUME NEW f \in TunerFrequencies, sddc_set_tuner_frequency(f)
      PROVE  TypeOK'
  BY <1>9 DEF sddc_set_tuner_frequency, TypeOK, hw_vars, engine_vars
<1>10. ASSUME NEW c \in Corrections, sddc_set_frequency_correction(c)
       PROVE  TypeOK'
  <2>1. ClockWords(sample_rate, tuner_frequency, freq_corr_ppm) \in Int \X Int
    BY ArgumentsAssumption DEF TypeOK, ClockWords, Corrected, PPM,
       DEFAULT_SAMPLE_RATE, DEFAULT_TUNER_FREQUENCY, DEFAULT_FREQ_CORR_PPM
  <2>2. QED
    BY <1>10, <2>1 DEF sddc_set_frequency_correction, TypeOK, engine_vars
<1>11. CASE sddc_set_async_params
  BY <1>11 DEF sddc_set_async_params, TypeOK, hw_vars, handle_vars, EngineStates
<1>12. CASE sddc_start_streaming
  <2>1. PICK fail \in StartFailPoints :
          /\ clock' = IF has_clock_source /\ 1 < fail
                        THEN ClockWords(sample_rate, tuner_frequency, freq_corr_ppm)
                        ELSE clock
          /\ IF 3 < fail THEN ApplyHfAtt(HfAttCommand(hf_attenuator_levels, 0))
                         ELSE UNCHANGED <<gpio, dat31>>
          /\ tuner_att' = IF has_vhf_tuner /\ 4 < fail THEN NearestIndex(0)
                                                     ELSE tuner_att
          /\ engine' = IF engine # "none" /\ 5 < fail THEN "started" ELSE engine
          /\ producer' = (producer \/ 6 < fail)
          /\ status' = IF fail = 7 THEN SDDC_STATUS_STREAMING ELSE status
    BY <1>12 DEF sddc_start_streaming
  <2>2. fail \in 1 .. 7
    BY DEF StartFailPoints
  <2>3. ClockWords(sample_rate, tuner_frequency, freq_corr_ppm) \in Int \X Int
    BY ArgumentsAssumption DEF TypeOK, ClockWords, Corrected, PPM,
       DEFAULT_SAMPLE_RATE, DEFAULT_TUNER_FREQUENCY, DEFAULT_FREQ_CORR_PPM
  <2>4. gpio' \subseteq RegisterBits /\ dat31' \in {NoByte} \cup 0 .. 62
    <3>1. CASE 3 < fail
      BY <2>1, <3>1, ApplyHfAttType DEF TypeOK
    <3>2. CASE ~(3 < fail)
      BY <2>1, <3>2 DEF TypeOK
    <3>3. QED
      BY <3>1, <3>2
  <2>5. NearestIndex(0) \in TableIndices
    BY NearestIndexLowestArgmin
  <2>6. QED
    BY <1>12, <2>1, <2>2, <2>3, <2>4, <2>5
    DEF sddc_start_streaming, TypeOK, EngineStates
<1>13. CASE sddc_stop_streaming
  <2>1. PICK fail \in StopFailPoints :
          /\ producer' = (producer /\ ~(1 < fail))
          /\ engine' = IF engine # "none" /\ 2 < fail THEN "stopped" ELSE engine
          /\ clock' = IF 3 < fail THEN ClockOff ELSE clock
          /\ status' = IF fail = 4 THEN SDDC_STATUS_READY ELSE status
    BY <1>13 DEF sddc_stop_streaming
  <2>2. QED
    BY <1>13, <2>1 DEF sddc_stop_streaming, TypeOK, EngineStates, ClockOff
<1>14. CASE UNCHANGED vars
  BY <1>14 DEF vars, hw_vars, engine_vars, handle_vars, TypeOK
<1>15. QED
  BY <1>1, <1>2, <1>3, <1>4, <1>5, <1>6, <1>7, <1>8, <1>9, <1>10, <1>11,
     <1>12, <1>13, <1>14 DEF Next

\* Every initial state is well typed.
LEMMA InitTypeOK == Init => TypeOK
<1> SUFFICES ASSUME Init PROVE TypeOK
  OBVIOUS
<1>1. /\ has_clock_source \in BOOLEAN
      /\ has_vhf_tuner \in BOOLEAN
      /\ hf_attenuator_levels \in {0, 3, 32}
  BY CapabilitiesType DEF Init, HandleDefaults
<1>2. clock \in Int \X Int /\ dat31 \in {NoByte} \cup 0 .. 62
  BY DEF Init, ClockOff, NoByte
<1>3. QED
  BY <1>1, <1>2 DEF Init, TypeOK, HandleDefaults, EngineStates

(***************************************************************************)
(* The receiver's state, the engine and the handle keep their types under *)
(* every call (TypeOKStep), so they do in every reachable state.           *)
(***************************************************************************)
THEOREM TypeCorrect == Spec => []TypeOK
<1>1. Init => TypeOK
  BY InitTypeOK
<1>2. QED
  BY <1>1, TypeOKStep, PTL DEF Spec

-----------------------------------------------------------------------------
(***************************************************************************)
(* Samples never flow without a sampling clock.  ClocksRunWhileDataFlows  *)
(* is not inductive by itself: sddc_start_streaming programs the clocks   *)
(* only if the handle's has_clock_source says so, and the property speaks *)
(* of the receiver's model.  The handle's flag agrees with the receiver's *)
(* capabilities in every state (sddc_open copies them, and a closed       *)
(* handle keeps the defaults of the receiver's model).                    *)
(***************************************************************************)
CapsMatchHardware == has_clock_source = Capabilities(hw_model).clock

IInv == TypeOK /\ CapsMatchHardware /\ ClocksRunWhileDataFlows

\* The clock words programmed from the handle's state start the ADC clock.
LEMMA ClockWordsStartAdc ==
  ASSUME TypeOK
  PROVE  ClockWords(sample_rate, tuner_frequency, freq_corr_ppm)[1] # 0
  BY ClockableAssumption DEF TypeOK, ClockWords

\* The steps that leave the receiver's model, the producer, the clocks,
\* the engine and the handle's clock flag alone.
LEMMA QuietStep ==
  ASSUME CapsMatchHardware, ClocksRunWhileDataFlows,
         UNCHANGED <<hw_model, producer, clock, engine, has_clock_source>>
  PROVE  CapsMatchHardware' /\ ClocksRunWhileDataFlows'
  BY DEF CapsMatchHardware, ClocksRunWhileDataFlows

LEMMA ClockStep ==
  IInv /\ [Next]_vars => (CapsMatchHardware /\ ClocksRunWhileDataFlows)'
<1> SUFFICES ASSUME TypeOK, CapsMatchHardware, ClocksRunWhileDataFlows,
                    [Next]_vars
             PROVE  CapsMatchHardware' /\ ClocksRunWhileDataFlows'
  BY DEF IInv
<1>0. producer \in BOOLEAN /\ producer' \in BOOLEAN
  BY TypeOKStep DEF TypeOK
<1>1. CASE sddc_open
  BY <1>1 DEF sddc_open, SetHandleDefaults, engine_vars,
     CapsMatchHardware, ClocksRunWhileDataFlows
<1>2. CASE sddc_close
  BY <1>2 DEF sddc_close, SetHandleDefaults,
     CapsMatchHardware, ClocksRunWhileDataFlows
<1>3. ASSUME NEW m \in {HF_MODE, VHF_MODE}, sddc_set_rf_mode(m)
      PROVE  CapsMatchHardware' /\ ClocksRunWhileDataFlows'
  BY <1>3, QuietStep DEF sddc_set_rf_mode, hw_vars, engine_vars
<1>4. ASSUME NEW p \in LedPatterns,
             sddc_led_on(p) \/ sddc_led_off(p) \/ sddc_led_toggle(p)
      PROVE  CapsMatchHardware' /\ ClocksRunWhileDataFlows'
  BY <1>4, QuietStep DEF sddc_led_on, sddc_led_off, sddc_led_toggle,
     GpioStep, engine_vars, handle_vars
<1>5. ASSUME NEW v \in FlagValues,
             \/ sddc_set_adc_dither(v) \/ sddc_set_adc_random(v)
             \/ sddc_set_hf_bias(v) \/ sddc_set_vhf_bias(v)
      PROVE  CapsMatchHardware' /\ ClocksRunWhileDataFlows'
  BY <1>5, QuietStep DEF sddc_set_adc_dither, sddc_set_adc_random,
     sddc_set_hf_bias, sddc_set_vhf_bias, GpioStep, engine_vars, handle_vars
<1>6. ASSUME NEW a \in HfAttenuations, sddc_set_hf_attenuation(a)
      PROVE  CapsMatchHardware' /\ ClocksRunWhileDataFlows'
  BY <1>6, QuietStep DEF sddc_set_hf_attenuation, engine_vars, handle_vars
<1>7. ASSUME NEW a \in TunerAttenuations, sddc_set_tuner_attenuation(a)
      PROVE  CapsMatchHardware' /\ ClocksRunWhileDataFlows'
  BY <1>7, QuietStep DEF sddc_set_tuner_attenuation, engine_vars, handle_vars
<1>8. ASSUME NEW sr \in SampleRates, sddc_set_sample_rate(sr)
      PROVE  CapsMatchHardware' /\ ClocksRunWhileDataFlows'
  BY <1>8, QuietStep DEF sddc_set_sample_rate, hw_vars, engine_vars
<1>9. ASSUME NEW f \in TunerFrequencies, sddc_set_tuner_frequency(f)
      PROVE  CapsMatchHardware' /\ ClocksRunWhileDataFlows'
  BY <1>9, QuietStep DEF sddc_set_tuner_frequency, hw_vars, engine_vars
<1>10. ASSUME NEW c \in Corrections, sddc_set_frequency_correction(c)
       PROVE  CapsMatchHardware' /\ ClocksRunWhileDataFlows'
  BY <1>10, ClockWordsStartAdc DEF sddc_set_frequency_correction, engine_vars,
     CapsMatchHardware, ClocksRunWhileDataFlows
<1>11. CASE sddc_set_async_params
  BY <1>11 DEF sddc_set_async_params, hw_vars, handle_vars,
     CapsMatchHardware, ClocksRunWhileDataFlows
<1>12. CASE sddc_start_streaming
  <2>1. PICK fail \in StartFailPoints :
          /\ clock' = IF has_clock_source /\ 1 < fail
                        THEN ClockWords(sample_rate, tuner_frequency, freq_corr_ppm)
                        ELSE clock
          /\ engine' = IF engine # "none" /\ 5 < fail THEN "started" ELSE engine
          /\ producer' = (producer \/ 6 < fail)
    BY <1>12 DEF sddc_start_streaming
  <2>2. CapsMatchHardware'
    BY <1>12 DEF sddc_start_streaming, CapsMatchHardware
  <2>3. CASE fail = 1
    <3>1. clock' = clock /\ engine' = engine /\ producer' = producer
      BY <1>0, <2>1, <2>3
    <3>2. QED
      BY <1>12, <2>2, <3>1 DEF sddc_start_streaming, ClocksRunWhileDataFlows
  <2>4. CASE fail # 1 /\ has_clock_source
    <3>1. fail \in 2 .. 7
      BY <2>4 DEF StartFailPoints
    <3>2. clock'[1] # 0
      BY <2>1, <2>4, <3>1, ClockWordsStartAdc
    <3>3. QED
      BY <2>2, <3>2 DEF ClocksRunWhileDataFlows
  <2>5. CASE ~has_clock_source
    BY <1>12, <2>5 DEF sddc_start_streaming, CapsMatchHardware,
       ClocksRunWhileDataFlows
  <2>6. QED
    BY <2>3, <2>4, <2>5
<1>13. CASE sddc_stop_streaming
  <2>1. PICK fail \in StopFailPoints :
          /\ producer' = (producer /\ ~(1 < fail))
          /\ engine' = IF engine # "none" /\ 2 < fail THEN "stopped" ELSE engine
          /\ clock' = IF 3 < fail THEN ClockOff ELSE clock
    BY <1>13 DEF sddc_stop_streaming
  <2>2. CapsMatchHardware' /\ hw_model' = hw_model
    BY <1>13 DEF sddc_stop_streaming, CapsMatchHardware
  <2>3. fail \in 1 .. 4
    BY DEF StopFailPoints
  <2>4. CASE fail = 1
    <3>1. producer' = producer /\ engine' = engine /\ clock' = clock
      BY <1>0, <2>1, <2>4
    <3>2. QED
      BY <2>2, <3>1 DEF ClocksRunWhileDataFlows
  <2>5. CASE fail \in {2, 3}
    <3>1. 1 < fail /\ ~(3 < fail)
      BY <2>5
    <3>2. ~producer'
      BY <1>0, <2>1, <3>1
    <3>3. clock' = clock /\ (engine' = "started" => engine = "started")
      BY <2>1, <3>1
    <3>4. QED
      BY <2>2, <3>2, <3>3 DEF ClocksRunWhileDataFlows
  <2>6. CASE fail = 4
    <3>1. 1 < fail /\ 2 < fail
      BY <2>6
    <3>2. ~producer'
      BY <1>0, <2>1, <3>1
    <3>3. engine' \in {"stopped", "none"}
      BY <2>1, <3>1
    <3>4. QED
      BY <2>2, <3>2, <3>3 DEF ClocksRunWhileDataFlows
  <2>7. QED
    BY <2>3, <2>4, <2>5, <2>6
<1>14. CASE UNCHANGED vars
  BY <1>14, QuietStep DEF vars, hw_vars, engine_vars, handle_vars
<1>15. QED
  BY <1>1, <1>2, <1>3, <1>4, <1>5, <1>6, <1>7, <1>8, <1>9, <1>10, <1>11,
     <1>12, <1>13, <1>14 DEF Next

(***************************************************************************)
(* On a receiver with a clock generator, the FX3 producer never runs and   *)
(* the streaming engine is never started while the ADC clock word is 0:   *)
(* the ordering of sddc_start_streaming and sddc_stop_streaming, with any *)
(* command of either failing, for every value of the constants.           *)
(***************************************************************************)
THEOREM ClocksRunTheorem == Spec => []ClocksRunWhileDataFlows
<1>1. Init => IInv
  <2> SUFFICES ASSUME Init PROVE IInv
    OBVIOUS
  <2>1. TypeOK
    BY InitTypeOK
  <2>2. CapsMatchHardware /\ ClocksRunWhileDataFlows
    BY DEF Init, HandleDefaults, CapsMatchHardware, ClocksRunWhileDataFlows
  <2>3. QED
    BY <2>1, <2>2 DEF IInv
<1>2. IInv /\ [Next]_vars => IInv'
  BY TypeOKStep, ClockStep DEF IInv
<1>3. QED
  BY <1>1, <1>2, PTL DEF Spec, IInv
=============================================================================
