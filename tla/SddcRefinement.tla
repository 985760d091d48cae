--------------------------- MODULE SddcRefinement ---------------------------
(***************************************************************************)
(* Sddc implements SddcHandle under the mapping Handle of Sddc: every      *)
(* initial state maps to an initial state of the abstract handle, and     *)
(* every call, failing at any of its commands or not, maps to a step of   *)
(* the abstract handle or leaves the mapped state unchanged.  The only    *)
(* invariant the steps need is the type invariant (sddc_close keeps the   *)
(* producer a Boolean).                                                    *)
(***************************************************************************)
EXTENDS SddcProofs

\* Each row of the capability switch is a record of exactly three fields.
LEMMA CapabilitiesRecord ==
  ASSUME NEW m
  PROVE  Capabilities(m) = [clock |-> Capabilities(m).clock,
                            vhf |-> Capabilities(m).vhf,
                            levels |-> Capabilities(m).levels]
  BY DEF Capabilities

\* The fields sddc_open gives the handle are the row of its model.
LEMMA DefaultCaps ==
  ASSUME SetHandleDefaults(hw_model), hw_model' = hw_model
  PROVE  HandleCaps' = Capabilities(hw_model)'
  <1>1. HandleCaps' = [clock |-> Capabilities(hw_model).clock,
                       vhf |-> Capabilities(hw_model).vhf,
                       levels |-> Capabilities(hw_model).levels]
    BY DEF SetHandleDefaults, HandleCaps
  <1>2. QED
    BY <1>1, CapabilitiesRecord

\* The calls that leave every mapped variable unchanged are stuttering
\* steps of the abstract handle.
LEMMA MappedStutter ==
  ASSUME UNCHANGED <<hw_model, dev, status, has_clock_source, has_vhf_tuner,
                     hf_attenuator_levels, rf_mode, engine, producer>>
  PROVE  [Handle!Next]_Handle!vars
  BY DEF Handle!vars, HandleState, HandleCaps

LEMMA InitRefines == Init => Handle!Init
<1> SUFFICES ASSUME Init PROVE Handle!Init
  OBVIOUS
<1>1. HandleCaps = Capabilities(hw_model)
  <2>1. HandleCaps = [clock |-> Capabilities(hw_model).clock,
                      vhf |-> Capabilities(hw_model).vhf,
                      levels |-> Capabilities(hw_model).levels]
    BY DEF Init, HandleDefaults, HandleCaps
  <2>2. QED
    BY <2>1, CapabilitiesRecord
<1>2. QED
  BY <1>1 DEF Init, HandleDefaults, Handle!Init, HandleState, HF_MODE

LEMMA StepRefines == TypeOK /\ [Next]_vars => [Handle!Next]_Handle!vars
<1> SUFFICES ASSUME TypeOK, [Next]_vars PROVE [Handle!Next]_Handle!vars
  OBVIOUS
<1>1. CASE sddc_open
  <2>1. HandleCaps' = Capabilities(hw_model)'
    BY <1>1, DefaultCaps DEF sddc_open
  <2>2. Handle!Open
    BY <1>1, <2>1 DEF sddc_open, SetHandleDefaults, engine_vars,
       Handle!Open, HandleState, HF_MODE, SDDC_STATUS_READY,
       SDDC_STATUS_STREAMING
  <2>3. QED
    BY <2>2 DEF Handle!Next
<1>2. CASE sddc_close
  <2>1. HandleCaps' = Capabilities(hw_model)'
    BY <1>2, DefaultCaps DEF sddc_close
  <2>2. producer' \in {producer, FALSE}
    BY <1>2 DEF sddc_close, TypeOK
  <2>3. Handle!Close
    BY <1>2, <2>1, <2>2 DEF sddc_close, SetHandleDefaults,
       Handle!Close, HandleState, HF_MODE
  <2>4. QED
    BY <2>3 DEF Handle!Next
<1>3. ASSUME NEW m \in {HF_MODE, VHF_MODE}, sddc_set_rf_mode(m)
      PROVE  [Handle!Next]_Handle!vars
  <2>1. Handle!SetRfMode(m)
    BY <1>3 DEF sddc_set_rf_mode, hw_vars, engine_vars, Handle!SetRfMode,
       HandleState, HandleCaps, HF_MODE, VHF_MODE
  <2>2. QED
    BY <2>1 DEF Handle!Next, HF_MODE, VHF_MODE
<1>4. ASSUME NEW p \in LedPatterns,
             sddc_led_on(p) \/ sddc_led_off(p) \/ sddc_led_toggle(p)
      PROVE  [Handle!Next]_Handle!vars
  BY <1>4, MappedStutter DEF sddc_led_on, sddc_led_off, sddc_led_toggle,
     GpioStep, engine_vars, handle_vars
<1>5. ASSUME NEW v \in FlagValues,
             \/ sddc_set_adc_dither(v) \/ sddc_set_adc_random(v)
             \/ sddc_set_hf_bias(v) \/ sddc_set_vhf_bias(v)
      PROVE  [Handle!Next]_Handle!vars
  BY <1>5, MappedStutter DEF sddc_set_adc_dither, sddc_set_adc_random,
     sddc_set_hf_bias, sddc_set_vhf_bias, GpioStep, engine_vars, handle_vars
<1>6. ASSUME NEW a \in HfAttenuations, sddc_set_hf_attenuation(a)
      PROVE  [Handle!Next]_Handle!vars
  BY <1>6, MappedStutter DEF sddc_set_hf_attenuation, engine_vars, handle_vars
<1>7. ASSUME NEW a \in TunerAttenuations, sddc_set_tuner_attenuation(a)
      PROVE  [Handle!Next]_Handle!vars
  BY <1>7, MappedStutter DEF sddc_set_tuner_attenuation, engine_vars,
     handle_vars
<1>8. ASSUME NEW sr \in SampleRates, sddc_set_sample_rate(sr)
      PROVE  [Handle!Next]_Handle!vars
  BY <1>8, MappedStutter DEF sddc_set_sample_rate, hw_vars, engine_vars
<1>9. ASSUME NEW f \in TunerFrequencies, sddc_set_tuner_frequency(f)
      PROVE  [Handle!Next]_Handle!vars
  BY <1>9, MappedStutter DEF sddc_set_tuner_frequency, hw_vars, engine_vars
<1>10. ASSUME NEW c \in Corrections, sddc_set_frequency_correction(c)
       PROVE  [Handle!Next]_Handle!vars
  BY <1>10, MappedStutter DEF sddc_set_frequency_correction, engine_vars
<1>11. CASE sddc_set_async_params
  <2>1. Handle!Configure
    BY <1>11 DEF sddc_set_async_params, hw_vars, handle_vars,
       Handle!Configure, HandleState, HandleCaps
  <2>2. QED
    BY <2>1 DEF Handle!Next
<1>12. CASE sddc_start_streaming
  <2>1. PICK fail \in StartFailPoints :
          /\ engine' = IF engine # "none" /\ 5 < fail THEN "started" ELSE engine
          /\ producer' = (producer \/ 6 < fail)
          /\ status' = IF fail = 7 THEN SDDC_STATUS_STREAMING ELSE status
    BY <1>12 DEF sddc_start_streaming
  <2>2. /\ dev = "open" /\ status = SDDC_STATUS_READY
        /\ UNCHANGED <<hw_model, dev, has_clock_source, has_vhf_tuner,
                       hf_attenuator_levels, rf_mode>>
    BY <1>12 DEF sddc_start_streaming
  <2>3. fail \in 1 .. 7
    BY DEF StartFailPoints
  <2>8. producer \in BOOLEAN /\ producer' \in BOOLEAN
    BY <1>12, TypeOKStep DEF TypeOK
  <2>4. (IF engine' = "none" THEN "none" ELSE "configured")
          = (IF engine = "none" THEN "none" ELSE "configured")
    BY <2>1
  <2>5. CASE fail = 7
    <3>0. 6 < fail
      BY <2>5
    <3>1. producer' = TRUE /\ status' = SDDC_STATUS_STREAMING
      BY <2>1, <2>5, <2>8, <3>0
    <3>2. Handle!Start
      BY <2>2, <2>4, <3>1 DEF Handle!Start, HandleState, HandleCaps,
         SDDC_STATUS_READY, SDDC_STATUS_STREAMING
    <3>3. QED
      BY <3>2 DEF Handle!Next
  <2>6. CASE fail # 7
    <3>0. ~(6 < fail)
      BY <2>3, <2>6
    <3>1. producer' = producer /\ status' = status
      BY <2>1, <2>6, <2>8, <3>0
    <3>2. QED
      BY <2>2, <2>4, <3>1 DEF Handle!vars, HandleState, HandleCaps
  <2>7. QED
    BY <2>5, <2>6
<1>13. CASE sddc_stop_streaming
  <2>1. PICK fail \in StopFailPoints :
          /\ producer' = (producer /\ ~(1 < fail))
          /\ engine' = IF engine # "none" /\ 2 < fail THEN "stopped" ELSE engine
          /\ status' = IF fail = 4 THEN SDDC_STATUS_READY ELSE status
    BY <1>13 DEF sddc_stop_streaming
  <2>2. /\ dev = "open" /\ status = SDDC_STATUS_STREAMING
        /\ UNCHANGED <<hw_model, dev, has_clock_source, has_vhf_tuner,
                       hf_attenuator_levels, rf_mode>>
    BY <1>13 DEF sddc_stop_streaming
  <2>3. fail \in 1 .. 4
    BY DEF StopFailPoints
  <2>8. producer \in BOOLEAN /\ producer' \in BOOLEAN
    BY <1>13, TypeOKStep DEF TypeOK
  <2>4. (IF engine' = "none" THEN "none" ELSE "configured")
          = (IF engine = "none" THEN "none" ELSE "configured")
    BY <2>1
  <2>5. CASE fail = 1
    <3>0. ~(1 < fail)
      BY <2>5
    <3>1. producer' = producer /\ status' = status
      BY <2>1, <2>5, <2>8, <3>0
    <3>2. QED
      BY <2>2, <2>4, <3>1 DEF Handle!vars, HandleState, HandleCaps
  <2>6. CASE fail # 1
    <3>0. 1 < fail
      BY <2>3, <2>6
    <3>1. producer' = FALSE
      BY <2>1, <2>8, <3>0
    <3>2. status' \in {SDDC_STATUS_STREAMING, SDDC_STATUS_READY}
      BY <2>1, <2>2
    <3>3. Handle!Stop
      BY <2>2, <2>4, <3>1, <3>2 DEF Handle!Stop, HandleState, HandleCaps,
         SDDC_STATUS_READY, SDDC_STATUS_STREAMING
    <3>4. QED
      BY <3>3 DEF Handle!Next
  <2>7. QED
    BY <2>5, <2>6
<1>14. CASE UNCHANGED vars
  BY <1>14, MappedStutter DEF vars, hw_vars, engine_vars, handle_vars
<1>15. QED
  BY <1>1, <1>2, <1>3, <1>4, <1>5, <1>6, <1>7, <1>8, <1>9, <1>10, <1>11,
     <1>12, <1>13, <1>14 DEF Next

(***************************************************************************)
(* The library keeps the handle's promises (ImplementsHandle) for every   *)
(* value of the constants: status moves only by a complete start or stop, *)
(* the producer starts only with the step into STREAMING and is off after *)
(* a stop that got past STOPFX3, capabilities are fixed while the handle  *)
(* is open, VHF needs a tuner, and an engine is configured at most once.  *)
(***************************************************************************)
THEOREM Refinement == Spec => ImplementsHandle
<1>1. Spec => []TypeOK
  BY TypeCorrect
<1>2. QED
  BY <1>1, InitRefines, StepRefines, PTL DEF Spec, ImplementsHandle, Handle!Spec
=============================================================================
