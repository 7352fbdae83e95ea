SPECIFICATION EvaluationSpec
CONSTANTS
  MaxCalls = 7
  SlotLag = 1
  MaxSlot = 2
  Amounts = {1, 2}
INVARIANT SignedCanBeResumed
CHECK_DEADLOCK FALSE
