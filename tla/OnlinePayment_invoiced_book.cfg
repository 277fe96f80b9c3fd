SPECIFICATION Spec
CONSTANTS
  Charges = {c1}
  Checkouts = {k1, k2}
  Tabs = {t1}
  Workers = {w1}
  Price = 2
  MinOnline = 1
  Invoiced = {c1}
  Mismatched = {}
SYMMETRY Symmetry
PROPERTY GoneSlotNotBooked
CHECK_DEADLOCK FALSE
