SPECIFICATION Spec
INVARIANTS ArmExecutesManual Hazard3ExecutesManual CalculatorsExact
