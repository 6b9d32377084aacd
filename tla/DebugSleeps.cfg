SPECIFICATION DebugSpec
INVARIANT TxNeverSleeps
