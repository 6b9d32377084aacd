SPECIFICATION LifeSpec
INVARIANTS CallbackHasPriv
CHECK_DEADLOCK FALSE
