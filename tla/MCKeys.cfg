\* A checkout, and two starts of a match in it.
SPECIFICATION Spec
CONSTANT MaxRuns = 2
INVARIANT ShippedHalvesStand
CHECK_DEADLOCK FALSE
