SPECIFICATION DriverSpec
CONSTANTS
  s1 = s1
  s2 = s2
  Skbs <- MCSkbs
  RadioOf <- MCRadioOf
INVARIANT UnloadedIsQuiet
CHECK_DEADLOCK FALSE
