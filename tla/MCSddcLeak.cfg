CONSTANTS
  Models            <- MCGpioModels
  SampleRates       = {}
  TunerFrequencies  = {}
  Corrections       = {0}
  HfAttenuations    = {0}
  TunerAttenuations = {}
  LedPatterns       = {}
  FlagValues        = {}
SPECIFICATION Spec
INVARIANT NoEngineOutlivesHandle
