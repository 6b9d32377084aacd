SPECIFICATION DriverSpec
CONSTANTS
  s1 = s1
  s2 = s2
  Skbs <- MCSkbs
  RadioOf <- MCRadioOf
INVARIANT ConfirmedIsFreed
CHECK_DEADLOCK FALSE
