SPECIFICATION RadioSpec
CONSTANTS
  Freqs = {5860, 5890}
  Powers = {5, 20}
  Antennas = {0, 3}
  DefaultFreq = 5860
  OBU_POWER_TX_DEFAULT = 999
INVARIANTS RadioTypeOK AntennasAsReported OnWhileStarted RadioFollowsShadow
  PowerChosen
PROPERTY ConfigReturnsApplied
