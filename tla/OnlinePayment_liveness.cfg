SPECIFICATION FairSpec
CONSTANTS
  Charges = {c1}
  Checkouts = {k1}
  Tabs = {t1}
  Workers = {w1}
  Price = 1
  MinOnline = 1
  Invoiced = {}
  Mismatched = {}
PROPERTIES
  MoneySettles
  LapsedHoldEnds
CHECK_DEADLOCK FALSE
