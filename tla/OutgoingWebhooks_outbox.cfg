SPECIFICATION MixedSpec
CONSTANTS
  d1 = d1 d2 = d2
  Endpoints = {e1}
  Deliveries = {d1, d2}
  Workers = {w1, w2}
  MaxAttempts = 2
  Batch = 1
  PerEndpoint = 1
  MaxUpsets = 2
INVARIANTS TypeOK GivenUpHonestly AcceptedOnce NoStaleBacklog
PROPERTIES EventSettles KeepsOutbox
CHECK_DEADLOCK FALSE
