\* One handler at a time: a membership is cancelled while a renewal's event waits.
CONSTANTS
  Workers = {w1}
  MaxCycles = 2
  Foreign = {}
  MaxUpsets = 1

SPECIFICATION Spec
INVARIANTS RenewalMoneyKept
CHECK_DEADLOCK FALSE
