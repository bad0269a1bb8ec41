CONSTANTS
  d1 = d1
  d2 = d2
  r1 = r1
  r2 = r2
  Drivers = {d1, d2}
  Requests = {r1, r2}
  Settings <- MCParks
  LoadTick <- MCLoad
  ShiftEnd <- MCShift
  Period = 1
  MaxArrivals = 2
  EndTick = 10
SPECIFICATION Spec
INVARIANTS TripIsDriven
CHECK_DEADLOCK FALSE
