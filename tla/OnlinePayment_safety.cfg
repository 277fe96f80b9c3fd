SPECIFICATION Spec
CONSTANTS
  Charges = {c1}
  Checkouts = {k1, k2}
  Tabs = {t1}
  Workers = {w1}
  Price = 1
  MinOnline = 1
  Invoiced = {}
  Mismatched = {k2}
INVARIANTS
  TypeOK
  MoneyAccounted
  BooksTrue
  WithinCharge
  PaidSlotKept
  ReleasedTakesNoMoney
PROPERTY GoneSlotNotBooked
CHECK_DEADLOCK FALSE
