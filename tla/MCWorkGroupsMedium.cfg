SPECIFICATION FairSpec
CONSTANTS
  Main = Main
  w1 = w1
  w2 = w2
  w3 = w3
  w4 = w4
  Workers = {w1, w2, w3}
  NumGroups = 1
  GroupOf <- OneGroup
  TickStep <- Steps1
  StartTick = 0
  EndTick = 3
  Mode = "medium"
INVARIANTS MainExclusive ZeroBarrier IInv
PROPERTIES ClockSpec Terminates
