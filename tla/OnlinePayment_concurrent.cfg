SPECIFICATION Spec
CONSTANTS
  Charges = {c1}
  Checkouts = {k1}
  Tabs = {t1, t2}
  Workers = {w1, w2}
  Price = 2
  MinOnline = 1
  Invoiced = {c1}
  Mismatched = {}
SYMMETRY Symmetry
INVARIANT IInv
PROPERTIES
  FinalStays
  KeepsIntake
CHECK_DEADLOCK FALSE
