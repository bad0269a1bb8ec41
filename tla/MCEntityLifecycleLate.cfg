SPECIFICATION Spec
CONSTANTS
  hub = hub
  a = a
  b = b
  c = c
  NumWorkers = 2
  Entities = {hub, a, b, c}
  Controller = hub
  Initial = {hub, a}
  Children = {c}
  Mortal = {a, b, c}
  Addressees = {a, c}
  StartTime <- Starts
  BaseGranMS = 2
  Step = 2
  Strategy = "smallest"
  EndTick = 4
INVARIANTS NeverLate
