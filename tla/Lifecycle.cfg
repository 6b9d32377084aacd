SPECIFICATION LifeSpec
INVARIANTS LifeTypeOK ReleasedInOrder AllOrNothing RxFindsRadio RadioOffWhenReleased
PROPERTY OnlyDisableSilences
CHECK_DEADLOCK FALSE
