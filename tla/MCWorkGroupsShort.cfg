SPECIFICATION FairSpec
CONSTANTS
  Main = Main
  w1 = w1
  w2 = w2
  w3 = w3
  w4 = w4
  Workers = {w1, w2, w3, w4}
  NumGroups = 3
  GroupOf <- ThreeGroups
  TickStep <- Steps123
  StartTick = 0
  EndTick = 4
  Mode = "short"
INVARIANTS TypeOK ContributionFits MainExclusive FlipIsolated SameTick ClockAgreement IInv
PROPERTIES ClockSpec Terminates
