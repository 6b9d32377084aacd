SPECIFICATION LifeSpec
INVARIANTS UpMeansOn
CHECK_DEADLOCK FALSE
