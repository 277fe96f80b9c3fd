\* Two upsets: a cancellation whose run is held, or fails, half way.
SPECIFICATION DayBeforeSpec
CONSTANTS
  m1 = m1
  Members = {m1, m2}
  Capacities = {1, 2}
  Clocks = {1, 2, 4}
  RetryLimit = 1
  MaxOpen = 1
  MaxTickets = 2
  MaxUpsets = 2
  Workers = {w1}
INVARIANTS NoticeTypeOK MailMatchesLedger
PROPERTIES NoticeArrives CancellationArrives
CHECK_DEADLOCK FALSE
