SPECIFICATION LineSpec
CONSTANTS
  m1 = m1 m2 = m2 m3 = m3
  Members = {m1, m2, m3}
  Family = {m1, m2}
  Reachable = {m1, m2, m3}
  Tickets = {paid, open}
  Priced = {paid}
  Capacities = {1, 2}
  Payments = {"online_required"}
  MaxPlaces = 3
  MaxEdits = 1
INVARIANTS TypeOK SeatsFit NoIdleSeat LoopServes PaidPlaceKept
PROPERTIES NobodyOvertakes
SYMMETRY Symmetry
CHECK_DEADLOCK FALSE
