SPECIFICATION DriverFairSpec
CONSTANTS
  s1 = s1
  s2 = s2
  Skbs <- MCSkbs
  RadioOf <- MCRadioOf
INVARIANTS NoUseAfterFree WorkFindsDriver NobodyWaitsInDriver
PROPERTIES LostOnlyComingOrGoing EveryFrameLeaves ImplementsFrameLife
CHECK_DEADLOCK FALSE
