CONSTANTS
  h1 = h1
  h2 = h2
  f = f
  d = d
  u1 = u1
  u2 = u2
  u3 = u3
  u4 = u4
  Households = {h1, h2}
  Freelance = {f}
  Developers = {d}
  Crews <- MCCrews
  Units = {u1, u2, u3, u4}
  Initial <- MCInitial
  Bto = {u3}
  Eligible = {h1}
  Values = {1, 2}
  Target <- MCTarget
  EntryDay <- MCEntryDay
  LaunchDay <- MCLaunchDay
  InitialWindow <- MCWindow
  TimeOnMarket = 2
  TimeOffMarket = 1
  Interval = 1
  Window = 3
  BTOWindow = 3
  MoveInDays = 2
  BuySellOffset = 1
  AdvanceOffset = 1
  OffSuccessful = 9
  OffUnsuccessful = 2
  EndDay = 9
  MaxAwakenings = 1
SPECIFICATION Spec
INVARIANTS TypeOK OneClaim OneBidInPlay NeverStranded
PROPERTIES TitleSpec
CHECK_DEADLOCK FALSE
