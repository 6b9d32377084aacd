SPECIFICATION DebugSpec
INVARIANTS DebugTypeOK TextFits StringsLive OnlyStationLeaks
