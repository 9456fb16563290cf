SPECIFICATION Spec
CONSTANTS
  p1 = p1
  p2 = p2
  s1 = s1
  s2 = s2
  h1 = h1
  h2 = h2
  Procs = {p1, p2}
  Sockets = {s1, s2}
  Home <- AllOnFirst
  Requests = {h1, h2}
  At <- OneEach
  MaxMessages <- TwoAndOne
  Breaks = TRUE
  MaxFaults = 1
INVARIANT DeliveredInOrder
INVARIANT GaugeCountsListed
INVARIANT MissedOnlyByDepartures
SYMMETRY Symmetry
CHECK_DEADLOCK FALSE
