SPECIFICATION TxFairSpec
CONSTANT Skbs = {s1, s2, s3}
INVARIANTS TypeOK NoDoubleFree NoUseAfterFree NoLeak
PROPERTIES EveryFrameFreed ImplementsFrameLife
CHECK_DEADLOCK FALSE
