\* Three members, or two and a return; two transactions open at a time,
\* withdrawals that promote one member together, two workers.
SPECIFICATION NoticeSpec
CONSTANTS
  m1 = m1
  Members = {m1, m2, m3}
  Capacities = {1, 2}
  Clocks = {1}
  RetryLimit = 1
  MaxOpen = 2
  MaxTickets = 3
  MaxUpsets = 0
  Workers = {w1, w2}
SYMMETRY Symmetry
INVARIANTS TypeOK TicketsUnique GoingAreNamed MailMatchesLedger
PROPERTIES PlaceIsKept QueueKeepsOrder
CHECK_DEADLOCK FALSE
