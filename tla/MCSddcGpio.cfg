CONSTANTS
  Models            <- MCGpioModels
  SampleRates       = {}
  TunerFrequencies  = {}
  Corrections       = {0}
  HfAttenuations    = {0, 1000}
  TunerAttenuations = {}
  LedPatterns       <- MCGpioLedPatterns
  FlagValues        <- MCFlagValues
SPECIFICATION Spec
PROPERTY LedCallsKeepOtherBits
