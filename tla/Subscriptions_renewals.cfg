\* A plan's subscription over two cycles: two handlers, the office, the member.
CONSTANTS
  Workers = {w1, w2}
  MaxCycles = 2
  Foreign = {}
  MaxUpsets = 2

SPECIFICATION FairSpec
INVARIANTS TypeOK MoneyKept MoneyUsedOnce
PROPERTIES RefusedEnds KeepsBooks
CHECK_DEADLOCK FALSE
