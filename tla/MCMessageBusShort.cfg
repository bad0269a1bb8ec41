SPECIFICATION Spec
CONSTANTS
  Main = Main
  w1 = w1
  w2 = w2
  hub = hub
  a1 = a1
  a2 = a2
  Workers = {w1, w2}
  Step <- Steps12
  Handlers = {hub, a1, a2}
  Home <- MCHome
  Mode = "short"
  Shapes <- ShortShapes
  Topics = {a2}
  MaxPosts = 3
  EndTick = 3
INVARIANTS TypeOK Accounting OnTime InputsHome AtMostOnce
