SPECIFICATION Spec
CONSTANTS
  Charges = {c1}
  Checkouts = {k1, k2}
  Tabs = {t1, t2}
  Workers = {w1}
  Price = 2
  MinOnline = 1
  Invoiced = {}
  Mismatched = {}
SYMMETRY Symmetry
INVARIANT OnePayablePage
CHECK_DEADLOCK FALSE
