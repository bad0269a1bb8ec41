SPECIFICATION FairSpec
CONSTANTS
  Main = Main
  w1 = w1
  w2 = w2
  w3 = w3
  w4 = w4
  Workers = {w1, w2, w3}
  NumGroups = 1
  GroupOf <- OneGroup
  TickStep <- Steps2
  StartTick = 0
  EndTick = 3
  Mode = "medium"
PROPERTIES Terminates
CHECK_DEADLOCK FALSE
