CONSTANTS
  Frequencies <- MCFrequencies
  PpmLow      <- MCPpmLow
  PpmHigh     <- MCPpmHigh
SPECIFICATION Spec
INVARIANT CorrectedIsRounded
