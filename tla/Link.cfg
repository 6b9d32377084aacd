SPECIFICATION LinkSpec
CONSTANTS
  rA = rA
  rB = rB
  Radios <- MCRadios
  Frames = {f1, f2}
  Receptions = {b1, b2}
  Freqs = {5860, 5890}
  Lens = {24, 60}
  Bytes = {242}
  Rates = {0, 6}
  Spare = {0, 5}
  sizeofTxPacket = 30
  sizeofRxPacket = 40
  OBUMCS <- MCOBUMCS
  adaptBSSID <- MCadaptBSSID
INVARIANTS LinkTypeOK BuffersFit DeliveredAsSent FreqAsHeard
