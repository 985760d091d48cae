CONSTANTS
  RequestLow  <- MCRequestLow
  RequestHigh <- MCRequestHigh
SPECIFICATION Spec
INVARIANT NearestIsLowestArgmin
