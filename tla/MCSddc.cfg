CONSTANTS
  Models            <- MCModels
  SampleRates       <- MCSampleRates
  TunerFrequencies  <- MCTunerFrequencies
  Corrections       <- MCCorrections
  HfAttenuations    <- MCHfAttenuations
  TunerAttenuations <- MCTunerAttenuations
  LedPatterns       <- MCLedPatterns
  FlagValues        <- MCNoFlagValues
SPECIFICATION Spec
INVARIANT TypeOK
INVARIANT ClocksRunWhileDataFlows
PROPERTY ImplementsHandle
