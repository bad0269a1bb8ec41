SPECIFICATION FairSpec
CONSTANTS
  hub = hub
  a = a
  b = b
  c = c
  NumWorkers = 2
  Entities = {hub, a, b, c}
  Controller = hub
  Initial = {hub, a}
  Children = {c}
  Mortal = {a, b, c}
  Addressees = {a, b, c}
  StartTime <- Starts
  BaseGranMS = 2
  Step = 1
  Strategy = "roundrobin"
  EndTick = 4
INVARIANTS TypeOK OnePlace Migrations NoDanglingMail StartsInTime
PROPERTIES Reclaimed
