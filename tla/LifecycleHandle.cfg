SPECIFICATION LifeSpec
INVARIANTS LoadedHasMKx
CHECK_DEADLOCK FALSE
