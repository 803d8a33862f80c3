SPECIFICATION Spec
CONSTANTS
  WORD = 16
  Families <- MCFamilies
  None = None
  Never = Never
INVARIANTS TypeOK CounterCovered UseCovered LatchBounds
CHECK_DEADLOCK FALSE
