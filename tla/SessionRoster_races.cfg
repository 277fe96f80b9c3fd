\* Whether a place survives another member's join.
SPECIFICATION Spec
CONSTANTS
  Members = {m1, m2}
  Capacities = {1}
  Clocks = {1}
  RetryLimit = 1
  MaxOpen = 2
  MaxTickets = 2
  MaxUpsets = 0
PROPERTY PlaceSurvivesRaces
CHECK_DEADLOCK FALSE
