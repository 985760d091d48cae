# Formal models of libsddc

This directory holds TLA+ models of `src/src/libsddc.c`. That file is the
user-space driver for the BBRF103, RX888 and HF103 SDR receivers. The directory
also holds TLC configurations that model-check the models on small instances,
and TLAPS proofs of the main safety properties for every value of the
constants.

## 1. The system

`libsddc.c` sits between an application and two layers whose source is not in
this repository: the USB transport (`usb_device.h`) and the streaming engine
(`streaming.h`). The driver is single-threaded and synchronous. Every public
call runs to completion, issuing USB control transfers one after another, and
any transfer can fail. The parts it is made of:

| Part | Code | State it changes |
|---|---|---|
| Device lifecycle and orchestrator | `sddc_open`, `sddc_close`, `sddc_start_streaming`, `sddc_stop_streaming`, `sddc_set_async_params`, the setters | the `sddc_t` handle (status, model, rf_mode, capabilities, sample_rate, tuner_frequency, freq_corr_ppm, streaming); the FX3 producer; the engine |
| Capability table | the switch in `sddc_open` (138–155) | has_clock_source, has_vhf_tuner, hf_attenuator_levels |
| GPIO protocol | `enum GPIOBits`, `sddc_led_*`, `sddc_set_adc_dither/random`, `sddc_set_hf/vhf_bias` | the 16-bit GPIO register (cached by the transport) |
| Attenuation calibrators | `sddc_set_hf_attenuation` (3-level GPIO or 32-level DAT31), `sddc_set_tuner_attenuation` (nearest entry of a 29-entry table) | ATT_SEL bits, DAT31 byte, R820T2 attenuation index |
| Clock corrector | `sddc_set_clock_source`, `sddc_set_frequency_correction` | the two SI5351A words |
| Device enumerator | `sddc_get_device_count/info`, `sddc_free_device_info` | a malloc'ed block per batch, holding the transport's raw list in its hidden first entry |
| Transport, streaming engine | external | — |

How the parts interact:
- `sddc_start_streaming` programs the clocks, puts the tuner in standby, sets
  both attenuators to 0 dB, starts the engine, and then starts the FX3
  producer (STARTFX3). Only if all of that succeeds is the status STREAMING.
- `sddc_stop_streaming` undoes this in reverse order: STOPFX3, then
  `streaming_stop`, then clocks (0, 0).
- A failure at any command returns -1. The effect of the commands before it
  is kept.

## 2. Modules

| Module | Models | State / actions |
|---|---|---|
| `Gpio` | GPIO bit positions, LED colours, the pattern check and shift of `sddc_led_*`, the register updates of `usb_device_gpio_*` (from the spec: `usb_device.c` is not in the repository) | operators only; a register is the set of its 1-bits, so `&`, `\|`, `~` become set operations and the `(uint16_t)` truncation of `led_pattern << 10` drops positions above 15 |
| `Attenuation` | the tuner table, the scan of `sddc_set_tuner_attenuation` (`NearestIndex`: the loop ends at the last index that was strictly closer than every earlier one, `MovesIdx`), the command `sddc_set_hf_attenuation` chooses (`HfAttCommand`), C's `(int)` truncation (`CInt`) | operators only; dB are integers in hundredths, which is exact for every table entry |
| `ClockCorrection` | the two corrected words of `sddc_set_clock_source` | operators only |
| `Sddc` | the lifecycle and orchestrator: one receiver, one handle, the engine | variables for the receiver (`hw_model, producer, clock, gpio, dat31, tuner_att`), the engine (`engine`, plus `orphan` for an engine left by `sddc_close`), and the handle's fields; one action per public call that changes state |
| `SddcHandle` | what the handle promises (spec 3, 4.1), with no commands: closed / ready / streaming, capabilities fixed at open, VHF needs a tuner, the engine configured at most once, samples flow only after a successful start | `hw, handle, caps, rf_mode, engine, flowing`; `Open, Close, SetRfMode, Configure, Start, Stop` |
| `Enumerator` | `sddc_get_device_info`, `sddc_free_device_info` | `raw` (raw lists the transport handed out), `blocks` (live malloc'ed blocks), `hdr` (the list stored in entry 0 of each block), `held` (the pointers, block and offset, the caller holds), `crashed` |
| `MCSddc`, `MCAttenuation`, `MCClockCorrection`, `MCEnumerator` | TLC instances | small constant sets; `MCAttenuation` and `MCClockCorrection` sweep inputs as a state machine |
| `SddcProofs`, `SddcRefinement`, `EnumeratorProofs`, `GpioProofs`, `AttenuationLemmas`, `AttenuationProofs` | TLAPS proofs | `AttenuationLemmas` holds the lemmas about the attenuation operators that `SddcProofs` and `AttenuationProofs` both use |

How the model corresponds to the code:
- **Failures.** A call whose first transfer fails changes nothing, so it is a
  stuttering step. `sddc_start_streaming` and `sddc_stop_streaming` pick a
  failure point `fail` among the commands they actually issue
  (`StartFailPoints`, `StopFailPoints`). Commands before `fail` take effect.
  `fail = 7` (start) and `fail = 4` (stop) mean success.
- **`sddc_close`.** RESETFX3 may fail, and that failure is only logged, so
  the producer may keep running after close.
- **`sddc_open`.** It gives the GPIO cache the value 0 (`usb_device_open(...,
  0)`).
- **A closed handle** is kept at `sddc_open`'s default values. This is so
  that the handle's fields always have a value.
- **The refinement mapping** (`Handle` in `Sddc`). `HandleState` is "closed"
  when the handle is closed, else "streaming" or "ready" by `status`.
  `HandleCaps` is the record of the three capability fields. The engine
  maps to "none" or "configured", whether stopped or started. `flowing` is
  the FX3 producer. The GPIO register, the attenuators, the clock words and
  the numeric setters are below the abstract level and are not mapped.
- **The enumerator.** Memory is abstracted to allocation ids, which are
  reused once freed, as an allocator reuses addresses. A failing
  `usb_device_get_device_list` returns -1 with no effect, so it is a
  stuttering step. A NULL from `malloc` is a step to `crashed`, after which
  the process takes no step. The device strings and the count are left
  out, because no step of either call depends on them. The caller keeps
  the contract of spec 4.6: it frees each pointer it holds exactly once.
  `sddc_get_device_count` changes no state and is not an action.

## 3. Runs

| Run | Cfg | Expect | Shows |
|---|---|---|---|
| lifecycle | `MCSddc.cfg` | pass | `TypeOK`, `ClocksRunWhileDataFlows` and `ImplementsHandle` (every behaviour is one of `SddcHandle`) over open/close, every failure point of start/stop, engine creation, all setters except the GPIO flags; models BBRF103, HF103 and an unknown id |
| gpio | `MCSddcGpio.cfg` | pass | `LedCallsKeepOtherBits`: LED calls with valid and invalid patterns (`{3}` → ATT_SEL0, `{5}` → VHF_EN) among the flag setters and the 3-level attenuator |
| attenuation | `MCAttenuation.cfg` | pass | `NearestIsLowestArgmin` for every request from −3.00 to 53.00 dB in 0.01 dB steps |
| correction_while_streaming | `MCSddcCorrection.cfg` | violation | `ClockFollowsCorrection` fails: see findings |
| engine_leak | `MCSddcLeak.cfg` | violation | `NoEngineOutlivesHandle` fails |
| coarse_attenuation | `MCAttenuationCoarse.cfg` | violation | `CoarseAcceptsExactly` fails at −0.99 dB |
| clock_rounding | `MCClockCorrection.cfg` | violation | `CorrectedIsRounded` fails at 28.8 MHz, −29 ppm |
| enumerator | `MCEnumerator.cfg` | pass | `CoupledLifetime`: over every interleaving of enumerate and free calls, the live raw lists are exactly those stored in the live batches, one per batch |
| enumerator_null_malloc | `MCEnumeratorNull.cfg` | violation | `EnumerateReturnsBatchOrError` fails when `malloc` returns NULL |

Why these bounds are enough:
- The lifecycle run uses one sample rate, one tuner frequency, two
  corrections, three HF requests (−1, 0, 10 dB) and two tuner requests.
  Every branch of every action is reached with these. Each capability class
  has one model. Depth 18 covers open → configure → start (failing at each
  point) → stop (failing at each point) → close → reopen.
- The flag setters multiply the state space without touching the lifecycle,
  so they are checked in the separate gpio run on one model.
- The attenuation sweep is exhaustive at the 0.01 dB resolution of the table.
- The enumerator run uses three blocks and four raw lists, so both kinds of
  id are reused while other batches are live. There are more lists than
  blocks, so a leaked list is not hidden by reuse. The run has no deadlock
  check: after a NULL from `malloc` the process has died and really stops.

**Fairness.** None is assumed, and no liveness property is checked. The
library makes no progress on its own: every step is a call by the
application.

## 4. Findings

- **Stale correction while streaming.** `sddc_set_frequency_correction`
  called while streaming reprograms the clocks before it stores the new ppm
  (625 vs 632). So the running clocks use the old correction.
- **Engine leak.** `sddc_close` never closes `this->streaming` (170–179). An
  engine is leaked, possibly still started on a closed device.
- **Coarse attenuator truncation.** The 3-level attenuator switches on
  `(int) attenuation` (319). So 10.5 dB, −0.99 dB, etc. are accepted, where
  the spec accepts exactly {0, 10, 20}.
- **Clock words truncated.** The clock words are truncated by `(uint32_t)`
  (644, 647), where the spec says rounded.
- **Unchecked malloc in the enumerator.** `sddc_get_device_info` writes the
  raw list pointer through the result of `malloc` (82–85) without checking
  it. A NULL crashes the process instead of returning an error, and the raw
  list already handed over is never freed.

The remaining hazards, with the properties that cover them or the reason none
does, are listed in `PROJECT.json`.

## 5. Proofs

Everything is proved from `ModelsAssumption`, `ArgumentsAssumption` and
`ClockableAssumption`. The last says that every sample rate the handle can
hold gives a positive corrected ADC word. The code does not check this
("no checks yet").

- **`TypeCorrect`: `Spec => []TypeOK`.**
  - Proved from `InitTypeOK` and `TypeOKStep`, with one case per action.
  - It rests on lemmas about `Capabilities`, `HfAttCommand` (the DAT31 byte
    lies in 0..62) and the GPIO operators (they stay inside 0..15).
  - `TypeOK` says `tuner_att` is `NoIndex` or an index of the 29-entry
    table. So every R820T2SETATT the driver sends carries an index that
    `sddc_get_tuner_attenuation` could look up. The step cases of
    `sddc_set_tuner_attenuation` and `sddc_start_streaming` use
    `NearestIndexLowestArgmin` below.
- **`ClocksRunTheorem`: `Spec => []ClocksRunWhileDataFlows`.**
  - The invariant is not inductive alone. Start programs the clocks only when
    the handle's `has_clock_source` is set, while the property speaks of the
    receiver's model.
  - The inductive invariant is
    `IInv == TypeOK /\ CapsMatchHardware /\ ClocksRunWhileDataFlows`, where
    `CapsMatchHardware` says the handle's flag equals the capability of the
    receiver.
  - The step proof `ClockStep` splits start and stop on their failure
    points:
    - start writes a non-zero clock (`ClockWordsStartAdc`) before it can
      start the engine or the producer;
    - stop turns the producer off first, and it sets the clock to (0, 0) only
      after both the producer and the engine are off.

- **`Refinement`: `Spec => ImplementsHandle`** (`SddcRefinement`).
  - `InitRefines`: an initial state maps to an initial state of
    `SddcHandle`. The lemma `CapabilitiesRecord` turns the capability row
    into the record `HandleCaps` is.
  - `StepRefines`: under `TypeOK`, every step of `Next` maps to a step of
    `SddcHandle!Next` or to a stutter, with one case per action.
    - The setters of the GPIO flags, the LEDs, the attenuators, the sample
      rate, the tuner frequency and the correction leave every mapped
      variable unchanged (`MappedStutter`).
    - Start and stop split on the failure point. Start maps to `Start` only
      at `fail = 7`. Before that the producer is untouched and the status
      stays READY. Stop maps to `Stop` once STOPFX3 went out (`fail > 1`);
      at `fail = 1` nothing mapped changes.
  - The only invariant the step needs is `TypeOK` (the producer is a
    Boolean). The theorem combines the two with `TypeCorrect` by PTL.
- **`CoupledLifetimeTheorem`: `Spec => []CoupledLifetime`**
  (`EnumeratorProofs`). This holds for every set of addresses and whatever
  `malloc` may return.
  - The inductive invariant is `TypeOK /\ CoupledLifetime`. The type is
    needed because a held pointer is a record of `Ptr`: two held pointers
    with the same block are equal, so a free removes the only pointer to
    its block.
  - `GetStep`: a new batch takes a block and a list that are not live.
  - `FreeStep`: a free removes one block and the one list stored in it.
    This list is stored in no other live block, by the invariant's
    injectivity conjunct.

- **`LedCallsTheorem`: `Spec => LedCallsKeepOtherBits`** (`GpioProofs`).
  This is an action property. It is proved as `[Next]_vars => [A]_vars`
  and lifted by PTL, with no invariant, because it holds for every LED
  step from any state.
  - `LedBitsOfValidPattern`: a pattern that passes the check, shifted by
    `GPIO_LED_SHIFT`, lands on bits 10..12 only.
  - The on, off and toggle updates leave every bit outside those three as
    it was.
- **`NearestTheorem`** (`AttenuationProofs`). It proves
  `NearestIsLowestArgmin` for every integer request, where the attenuation
  run checks only −3 to 53 dB. Its lemmas are in `AttenuationLemmas`:
  - `NatLeast`: a non-empty set of naturals has a least element. It comes
    from `WFMin` and `NatLessThanWellFounded` of `WellFoundedInduction`,
    neither of which takes an operator parameter.
  - `LowestArgminExists`: let `m` be the least distance and `i0` the least
    index at distance `m`. Then `i0` is strictly closer than every earlier
    index.
  - `NearestIndexLowestArgmin`: `i0` satisfies the CHOOSE of
    `NearestIndex`, because the loop moves `idx` there and at no later
    index. Every index that satisfies the CHOOSE equals `i0`. An earlier
    one would be moved past by `i0`. A later one would be closer than the
    minimum.
  - No induction over the loop is needed, because `NearestIndex` states
    the loop's outcome directly (see `Attenuation`).

Only model-checked:
- `CoarseAcceptsExactly` and `CorrectedIsRounded`, which are violated;
- the violated properties of the lifecycle and enumerator instances.

Liveness is not stated (see Fairness).
TLAPS cannot prove liveness or ENABLED, nor what a recursive definition
computes for every input.

## 6. Not modelled

- **The contents of the device list** (strings, count). The enumerator
  copies them without looking at them.
- **The streaming engine's threads and callbacks, `sddc_read_sync`,
  `sddc_reset_status`, `sddc_handle_events`.** They only forward to code
  outside the repository.
- **The hardware GPIO value across a reopen.** The cache is reset by
  `sddc_open`.
- **Floating-point rounding.** Every value is exact in hundredths of a dB or
  in Hz and ppm.
- **Overflow of the `(uint32_t)` casts.**
- **Which entry `sddc_free_device_info` reads.** `Base(p)` keeps the block
  of `p` and `hdr` is keyed by block, so a free that stepped back by the
  wrong amount is not expressible; `CoupledLifetime` catches a free that
  skips or mixes up the raw list.
- **The Fine32 range check as a property.** The 32-level branch of
  `HfAttCommand` is checked through `TypeOK` (a byte in 0..62, which a
  missing lower bound breaks); a separate property restating the check
  would only repeat line 337.

## 7. Plan for further work

1. A zero sample rate as a violation run of `ClocksRunWhileDataFlows`
   without `ClockableAssumption`.

A re-start of an engine left started by a failed STARTFX3, and a stop of
an engine configured while streaming, are reached by the lifecycle run but
not stated as properties: spec 4.1 and 7 accept a failed step that does not
roll back, and the engine's contract (spec 6) says nothing of either call.
