-------------------------------- MODULE Sddc --------------------------------
(***************************************************************************)
(* The device lifecycle and orchestrator of libsddc.c: one receiver on the *)
(* bus, the sddc_t handle the caller opens and closes on it, and every     *)
(* public operation that changes the handle, the receiver or the           *)
(* streaming engine.  Every call is one atomic step: the layer is          *)
(* single-threaded and synchronous.  A failed USB control transfer or a    *)
(* failed streaming call changes nothing and makes its caller return -1,   *)
(* so a call that fails at its first command is a stuttering step; the     *)
(* multi-command calls (start, stop, close) choose the command at which    *)
(* they fail, and keep the effect of the commands before it.               *)
(***************************************************************************)
EXTENDS Integers, Attenuation, ClockCorrection

CONSTANTS
  Models,             \* model ids the attached receiver may report to TESTFX3
  SampleRates,        \* arguments of sddc_set_sample_rate, in Hz
  TunerFrequencies,   \* arguments of sddc_set_tuner_frequency, in Hz
  Corrections,        \* arguments of sddc_set_frequency_correction, in ppm
  HfAttenuations,     \* arguments of sddc_set_hf_attenuation, in 1/100 dB
  TunerAttenuations,  \* arguments of sddc_set_tuner_attenuation, in 1/100 dB
  LedPatterns,        \* led_pattern arguments of the LED calls
  FlagValues          \* int arguments of the dither/random/bias setters

\* enum SDDCHWModel: the models the capability switch names.
HW_BBRF103 == "BBRF103"
HW_RX888   == "RX888"
HW_HF103   == "HF103"

DEFAULT_SAMPLE_RATE     == 64000000
DEFAULT_TUNER_FREQUENCY == 999000
DEFAULT_FREQ_CORR_PPM   == 0

SDDC_STATUS_READY     == "READY"
SDDC_STATUS_STREAMING == "STREAMING"
HF_MODE  == "HF"
VHF_MODE == "VHF"

\* Nothing written yet to the Fine32 attenuator / to the tuner attenuation.
NoByte  == -1
NoIndex == -1

ASSUME ModelsAssumption == Models \subseteq STRING
ASSUME ArgumentsAssumption ==
  /\ SampleRates \subseteq Nat
  /\ TunerFrequencies \subseteq Nat
  /\ Corrections \subseteq Int
  /\ HfAttenuations \subseteq Int
  /\ TunerAttenuations \subseteq Int
  /\ LedPatterns \subseteq LedPatternValues
  /\ FlagValues \subseteq BOOLEAN
\* Every sample rate the handle can hold gives a non-zero ADC clock word.
\* The code does not check it (sddc_set_sample_rate: "no checks yet").
ASSUME ClockableAssumption ==
  \A f \in SampleRates \cup {DEFAULT_SAMPLE_RATE},
     p \in Corrections \cup {DEFAULT_FREQ_CORR_PPM} : Corrected(f, p) > 0

(***************************************************************************)
(* The capability switch of sddc_open: model -> (has_clock_source,         *)
(* has_vhf_tuner, hf_attenuator_levels).                                   *)
(***************************************************************************)
Capabilities(m) ==
  CASE m \in {HW_BBRF103, HW_RX888} -> [clock |-> TRUE,  vhf |-> TRUE,  levels |-> 3]
    [] m = HW_HF103                 -> [clock |-> FALSE, vhf |-> FALSE, levels |-> 32]
    [] OTHER                        -> [clock |-> FALSE, vhf |-> FALSE, levels |-> 0]

VARIABLES
  \* The receiver, which outlives the handles opened on it.
  hw_model,     \* model id it reports to TESTFX3
  producer,     \* the FX3 producer runs (STARTFX3 / STOPFX3 / RESETFX3)
  clock,        \* words of the last SI5351A command: <<ADC, tuner reference>>
  gpio,         \* GPIO register of the usb_device (set bit positions)
  dat31,        \* last byte sent with DAT31FX3, or NoByte
  tuner_att,    \* last index sent with R820T2SETATT, or NoIndex
  \* The streaming engine.
  engine,       \* this->streaming: "none" (NULL), "stopped" or "started"
  orphan,       \* state of an engine left allocated by sddc_close, or "none"
  \* The sddc_t handle.
  dev,          \* "open" while a handle exists, "closed" otherwise
  status, model, rf_mode,
  has_clock_source, has_vhf_tuner, hf_attenuator_levels,
  sample_rate, tuner_frequency, freq_corr_ppm

hw_vars     == <<hw_model, producer, clock, gpio, dat31, tuner_att>>
engine_vars == <<engine, orphan>>
handle_vars == <<dev, status, model, rf_mode, has_clock_source, has_vhf_tuner,
                 hf_attenuator_levels, sample_rate, tuner_frequency, freq_corr_ppm>>
vars == <<hw_vars, engine_vars, handle_vars>>

\* The fields of the handle: those sddc_open gives it when closed (a freed
\* handle is not observable, so it is kept at these values).
HandleDefaults(m) ==
  /\ status = SDDC_STATUS_READY
  /\ model = m
  /\ rf_mode = HF_MODE
  /\ has_clock_source = Capabilities(m).clock
  /\ has_vhf_tuner = Capabilities(m).vhf
  /\ hf_attenuator_levels = Capabilities(m).levels
  /\ sample_rate = DEFAULT_SAMPLE_RATE
  /\ tuner_frequency = DEFAULT_TUNER_FREQUENCY
  /\ freq_corr_ppm = DEFAULT_FREQ_CORR_PPM

\* The same fields given to the next state: sddc_open's assignments.
SetHandleDefaults(m) ==
  /\ status' = SDDC_STATUS_READY
  /\ model' = m
  /\ rf_mode' = HF_MODE
  /\ has_clock_source' = Capabilities(m).clock
  /\ has_vhf_tuner' = Capabilities(m).vhf
  /\ hf_attenuator_levels' = Capabilities(m).levels
  /\ sample_rate' = DEFAULT_SAMPLE_RATE
  /\ tuner_frequency' = DEFAULT_TUNER_FREQUENCY
  /\ freq_corr_ppm' = DEFAULT_FREQ_CORR_PPM

\* Power-up: producer stopped, clocks off, nothing written, no handle.
Init ==
  /\ hw_model \in Models
  /\ producer = FALSE
  /\ clock = ClockOff
  /\ gpio = {}
  /\ dat31 = NoByte
  /\ tuner_att = NoIndex
  /\ engine = "none"
  /\ orphan = "none"
  /\ dev = "closed"
  /\ HandleDefaults(hw_model)

-----------------------------------------------------------------------------
(* Lifecycle. *)

\* sddc_open succeeds: usb_device_open(index, imagefile, 0) gives a GPIO
\* register of 0, TESTFX3 reports the model, the switch sets the
\* capabilities.  When usb_device_open or TESTFX3 fails nothing is left
\* allocated (FAIL1 closes the usb_device): a stuttering step.
sddc_open ==
  /\ dev = "closed"
  /\ UNCHANGED <<hw_model, producer, clock, dat31, tuner_att, engine_vars>>
  /\ dev' = "open"
  /\ SetHandleDefaults(hw_model)
  /\ gpio' = {}

\* sddc_close: RESETFX3 (a failure is only logged), usb_device_close,
\* free(this).  this->streaming is never closed: the engine outlives the
\* handle.
sddc_close ==
  /\ dev = "open"
  /\ UNCHANGED <<hw_model, clock, gpio, dat31, tuner_att>>
  /\ \E reset_ok \in BOOLEAN : producer' = (producer /\ ~reset_ok)
  /\ orphan' = IF engine # "none" THEN engine ELSE orphan
  /\ engine' = "none"
  /\ dev' = "closed"
  /\ SetHandleDefaults(hw_model)

\* The same call without the has_vhf_tuner check: a mutant.
sddc_set_rf_mode_unchecked(m) ==
  /\ dev = "open"
  /\ rf_mode' = m
  /\ UNCHANGED <<hw_vars, engine_vars, dev, status, model, has_clock_source,
                 has_vhf_tuner, hf_attenuator_levels, sample_rate,
                 tuner_frequency, freq_corr_ppm>>

\* sddc_set_rf_mode: VHF only with a VHF tuner; otherwise -1, unchanged.
sddc_set_rf_mode(m) ==
  /\ dev = "open"
  /\ m = VHF_MODE => has_vhf_tuner
  /\ rf_mode' = m
  /\ UNCHANGED <<hw_vars, engine_vars, dev, status, model, has_clock_source,
                 has_vhf_tuner, hf_attenuator_levels, sample_rate,
                 tuner_frequency, freq_corr_ppm>>

-----------------------------------------------------------------------------
(* GPIO.  Each call is one GPIOFX3 write of the whole register. *)

GpioStep(reg) ==
  /\ dev = "open"
  /\ gpio' = reg
  /\ UNCHANGED <<hw_model, producer, clock, dat31, tuner_att, engine_vars,
                 handle_vars>>

\* The same call without its pattern check: a mutant of sddc_led_on.
sddc_led_on_unchecked(p) == GpioStep(GpioOn(gpio, LedBits(p)))

sddc_led_on(p)     == ValidLedPattern(p) /\ GpioStep(GpioOn(gpio, LedBits(p)))
sddc_led_off(p)    == ValidLedPattern(p) /\ GpioStep(GpioOff(gpio, LedBits(p)))
sddc_led_toggle(p) == ValidLedPattern(p) /\ GpioStep(GpioToggle(gpio, LedBits(p)))

sddc_set_adc_dither(v) == GpioStep(GpioFlag(gpio, GPIO_ADC_DITH, v))
sddc_set_adc_random(v) == GpioStep(GpioFlag(gpio, GPIO_ADC_RAND, v))
sddc_set_hf_bias(v)    == GpioStep(GpioFlag(gpio, GPIO_BIAS_HF, v))
sddc_set_vhf_bias(v)   == GpioStep(GpioFlag(gpio, GPIO_BIAS_VHF, v))

-----------------------------------------------------------------------------
(* Attenuation. *)

\* The hardware effect of a successful HF attenuation command.
ApplyHfAtt(cmd) ==
  /\ gpio' = IF cmd.op = "gpio" THEN GpioSet(gpio, cmd.pattern, AttSelMask)
                                ELSE gpio
  /\ dat31' = IF cmd.op = "dat31" THEN cmd.byte ELSE dat31

sddc_set_hf_attenuation(a) ==
  /\ dev = "open"
  /\ HfAttCommand(hf_attenuator_levels, a).op # "reject"
  /\ ApplyHfAtt(HfAttCommand(hf_attenuator_levels, a))
  /\ UNCHANGED <<hw_model, producer, clock, tuner_att, engine_vars, handle_vars>>

\* sddc_set_tuner_attenuation: R820T2SETATT with the nearest table index.
\* The call does not check has_vhf_tuner.
sddc_set_tuner_attenuation(a) ==
  /\ dev = "open"
  /\ tuner_att' = NearestIndex(a)
  /\ UNCHANGED <<hw_model, producer, clock, gpio, dat31, engine_vars, handle_vars>>

-----------------------------------------------------------------------------
(* Tuning and clocks. *)

sddc_set_sample_rate(sr) ==
  /\ dev = "open"
  /\ sample_rate' = sr
  /\ UNCHANGED <<hw_vars, engine_vars, dev, status, model, rf_mode,
                 has_clock_source, has_vhf_tuner, hf_attenuator_levels,
                 tuner_frequency, freq_corr_ppm>>

\* R820T2TUNE succeeded: the handle remembers the frequency.
sddc_set_tuner_frequency(f) ==
  /\ dev = "open"
  /\ tuner_frequency' = f
  /\ UNCHANGED <<hw_vars, engine_vars, dev, status, model, rf_mode,
                 has_clock_source, has_vhf_tuner, hf_attenuator_levels,
                 sample_rate, freq_corr_ppm>>

\* While streaming the clocks are reprogrammed first, from this->freq_corr_ppm
\* as it is before the assignment; then the new correction is stored.
sddc_set_frequency_correction(c) ==
  /\ dev = "open"
  /\ clock' = IF status = SDDC_STATUS_STREAMING
                THEN ClockWords(sample_rate, tuner_frequency, freq_corr_ppm)
                ELSE clock
  /\ freq_corr_ppm' = c
  /\ UNCHANGED <<hw_model, producer, gpio, dat31, tuner_att, engine_vars,
                 dev, status, model, rf_mode, has_clock_source, has_vhf_tuner,
                 hf_attenuator_levels, sample_rate, tuner_frequency>>

-----------------------------------------------------------------------------
(* Streaming. *)

sddc_set_async_params ==
  /\ dev = "open"
  /\ engine = "none"
  /\ engine' = "stopped"
  /\ UNCHANGED <<hw_vars, orphan, handle_vars>>

(***************************************************************************)
(* sddc_start_streaming.  Its commands, in order: 1 SI5351A (if            *)
(* has_clock_source), 2 R820T2STDBY (if has_vhf_tuner), 3 HF attenuation   *)
(* 0 dB (can fail only with an attenuator), 4 tuner attenuation 0 dB (if   *)
(* has_vhf_tuner), 5 streaming_set_sample_rate and streaming_start (if an  *)
(* engine exists), 6 STARTFX3.  The step fails at one of the commands that *)
(* is issued, or at none (7); the commands before it keep their effect and *)
(* only full success sets STREAMING.                                       *)
(***************************************************************************)
StartFailPoints ==
  {k \in 1 .. 6 : \/ k = 1 /\ has_clock_source
                  \/ k \in {2, 4} /\ has_vhf_tuner
                  \/ k = 3 /\ hf_attenuator_levels # 0
                  \/ k = 5 /\ engine # "none"
                  \/ k = 6} \cup {7}

sddc_start_streaming ==
  /\ dev = "open"
  /\ status = SDDC_STATUS_READY
  /\ \E fail \in StartFailPoints :
       /\ clock' = IF has_clock_source /\ 1 < fail
                     THEN ClockWords(sample_rate, tuner_frequency, freq_corr_ppm)
                     ELSE clock
       /\ IF 3 < fail THEN ApplyHfAtt(HfAttCommand(hf_attenuator_levels, 0))
                      ELSE UNCHANGED <<gpio, dat31>>
       /\ tuner_att' = IF has_vhf_tuner /\ 4 < fail THEN NearestIndex(0)
                                                  ELSE tuner_att
       /\ engine' = IF engine # "none" /\ 5 < fail THEN "started" ELSE engine
       /\ producer' = (producer \/ 6 < fail)
       /\ status' = IF fail = 7 THEN SDDC_STATUS_STREAMING ELSE status
  /\ UNCHANGED <<hw_model, orphan, dev, model, rf_mode, has_clock_source,
                 has_vhf_tuner, hf_attenuator_levels, sample_rate,
                 tuner_frequency, freq_corr_ppm>>

(***************************************************************************)
(* sddc_stop_streaming: 1 STOPFX3, 2 streaming_stop (if an engine exists), *)
(* 3 SI5351A with (0, 0) whatever has_clock_source is; 4 is no failure.   *)
(***************************************************************************)
StopFailPoints == {k \in 1 .. 3 : k # 2 \/ engine # "none"} \cup {4}

\* The same call with the clocks stopped before the producer: a mutant.
sddc_stop_streaming_clock_first ==
  /\ dev = "open"
  /\ status = SDDC_STATUS_STREAMING
  /\ \E fail \in StopFailPoints :
       /\ clock' = IF 1 < fail THEN ClockOff ELSE clock
       /\ producer' = (producer /\ ~(2 < fail))
       /\ engine' = IF engine # "none" /\ 3 < fail THEN "stopped" ELSE engine
       /\ status' = IF fail = 4 THEN SDDC_STATUS_READY ELSE status
  /\ UNCHANGED <<hw_model, gpio, dat31, tuner_att, orphan, dev, model, rf_mode,
                 has_clock_source, has_vhf_tuner, hf_attenuator_levels,
                 sample_rate, tuner_frequency, freq_corr_ppm>>

sddc_stop_streaming ==
  /\ dev = "open"
  /\ status = SDDC_STATUS_STREAMING
  /\ \E fail \in StopFailPoints :
       /\ producer' = (producer /\ ~(1 < fail))
       /\ engine' = IF engine # "none" /\ 2 < fail THEN "stopped" ELSE engine
       /\ clock' = IF 3 < fail THEN ClockOff ELSE clock
       /\ status' = IF fail = 4 THEN SDDC_STATUS_READY ELSE status
  /\ UNCHANGED <<hw_model, gpio, dat31, tuner_att, orphan, dev, model, rf_mode,
                 has_clock_source, has_vhf_tuner, hf_attenuator_levels,
                 sample_rate, tuner_frequency, freq_corr_ppm>>

-----------------------------------------------------------------------------
Next ==
  \/ sddc_open
  \/ sddc_close
  \/ \E m \in {HF_MODE, VHF_MODE} : sddc_set_rf_mode(m)
  \/ \E p \in LedPatterns :
       sddc_led_on(p) \/ sddc_led_off(p) \/ sddc_led_toggle(p)
  \/ \E v \in FlagValues :
       \/ sddc_set_adc_dither(v) \/ sddc_set_adc_random(v)
       \/ sddc_set_hf_bias(v) \/ sddc_set_vhf_bias(v)
  \/ \E a \in HfAttenuations : sddc_set_hf_attenuation(a)
  \/ \E a \in TunerAttenuations : sddc_set_tuner_attenuation(a)
  \/ \E sr \in SampleRates : sddc_set_sample_rate(sr)
  \/ \E f \in TunerFrequencies : sddc_set_tuner_frequency(f)
  \/ \E c \in Corrections : sddc_set_frequency_correction(c)
  \/ sddc_set_async_params
  \/ sddc_start_streaming
  \/ sddc_stop_streaming

Spec == Init /\ [][Next]_vars

-----------------------------------------------------------------------------
(* Properties. *)

EngineStates == {"none", "stopped", "started"}

\* The type of every variable.  A tuner attenuation index is one that
\* NearestIndex returns (MCAttenuation checks that these lie in the table).
TypeOK ==
  /\ hw_model \in Models
  /\ producer \in BOOLEAN
  /\ clock \in Int \X Int
  /\ gpio \subseteq RegisterBits
  /\ dat31 \in {NoByte} \cup 0 .. 62
  /\ tuner_att \in {NoIndex} \cup TableIndices
  /\ engine \in EngineStates
  /\ orphan \in EngineStates
  /\ dev \in {"open", "closed"}
  /\ status \in {SDDC_STATUS_READY, SDDC_STATUS_STREAMING}
  /\ model \in Models
  /\ rf_mode \in {HF_MODE, VHF_MODE}
  /\ has_clock_source \in BOOLEAN
  /\ has_vhf_tuner \in BOOLEAN
  /\ hf_attenuator_levels \in {0, 3, 32}
  /\ sample_rate \in SampleRates \cup {DEFAULT_SAMPLE_RATE}
  /\ tuner_frequency \in TunerFrequencies \cup {DEFAULT_TUNER_FREQUENCY}
  /\ freq_corr_ppm \in Corrections \cup {DEFAULT_FREQ_CORR_PPM}

(***************************************************************************)
(* Samples never flow without a sampling clock: on a receiver with a clock *)
(* generator, whenever the FX3 producer runs or the streaming engine is    *)
(* started, the ADC clock word last written is non-zero.  It rests on the  *)
(* order of the commands in sddc_start_streaming (clock first, producer    *)
(* last) and sddc_stop_streaming (producer first, clocks last), and on     *)
(* what each failure in the middle of them leaves behind, across close,    *)
(* reopen and frequency-correction calls.                                  *)
(***************************************************************************)
ClocksRunWhileDataFlows ==
  Capabilities(hw_model).clock /\ (producer \/ engine = "started")
    => clock[1] # 0

(***************************************************************************)
(* The LED calls drive the three LED bits and nothing else: no LED on,     *)
(* off or toggle call changes the ADC, bias, attenuator-select or VHF     *)
(* enable bits.  It rests on the led_pattern check of sddc_led_*: a bit    *)
(* above the colours, shifted by GPIO_LED_SHIFT, lands on GPIO_ATT_SEL0/1  *)
(* or GPIO_VHF_EN.                                                         *)
(***************************************************************************)
LedCallsKeepOtherBits ==
  [][\A p \in LedPatterns :
       sddc_led_on(p) \/ sddc_led_off(p) \/ sddc_led_toggle(p)
         => gpio' \ LedBits({LED_YELLOW, LED_RED, LED_BLUE})
              = gpio \ LedBits({LED_YELLOW, LED_RED, LED_BLUE})]_vars

(***************************************************************************)
(* While streaming, the clock generator runs on the stored correction: on *)
(* a receiver with a clock generator, in STREAMING the SI5351A words are   *)
(* those of (sample_rate, tuner_frequency, freq_corr_ppm).  The spec says  *)
(* sddc_set_frequency_correction reprograms the clocks "with the new       *)
(* correction applied" when it is called while streaming.                  *)
(***************************************************************************)
ClockFollowsCorrection ==
  dev = "open" /\ status = SDDC_STATUS_STREAMING /\ has_clock_source
    => clock = ClockWords(sample_rate, tuner_frequency, freq_corr_ppm)

(***************************************************************************)
(* The refinement mapping to SddcHandle: the handle's state is closed, or  *)
(* its status; its capability flags are the three fields sddc_open sets;  *)
(* an engine exists or not; samples flow while the FX3 producer runs.     *)
(***************************************************************************)
HandleState ==
  IF dev = "closed" THEN "closed"
  ELSE IF status = SDDC_STATUS_STREAMING THEN "streaming" ELSE "ready"

HandleCaps ==
  [clock |-> has_clock_source, vhf |-> has_vhf_tuner, levels |-> hf_attenuator_levels]

Handle == INSTANCE SddcHandle
            WITH CapTable <- Capabilities, hw <- hw_model,
                 handle <- HandleState, caps <- HandleCaps,
                 engine <- IF engine = "none" THEN "none" ELSE "configured",
                 flowing <- producer

(***************************************************************************)
(* The library keeps the handle's promises: every behaviour of the calls,  *)
(* with any command of start, stop or close failing, is a behaviour of     *)
(* SddcHandle.  It fails if a call moves the status other than by a       *)
(* complete start or stop, starts the producer without entering STREAMING, *)
(* leaves it running after a stop got past STOPFX3, changes the           *)
(* capabilities of an open handle, or accepts VHF mode without a tuner.   *)
(***************************************************************************)
ImplementsHandle == Handle!Spec

(***************************************************************************)
(* No streaming engine outlives the handle that owns it: sddc_close leaves *)
(* no engine allocated, let alone one still started on the closed USB      *)
(* device.                                                                 *)
(***************************************************************************)
NoEngineOutlivesHandle == orphan = "none"
=============================================================================
