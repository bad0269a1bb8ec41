SPECIFICATION Spec
CONSTANTS
  Main = Main
  w1 = w1
  w2 = w2
  hub = hub
  a1 = a1
  a2 = a2
  Workers = {w1, w2}
  Step <- Steps11
  Handlers = {a1, a2}
  Home <- MediumHome
  Mode = "medium"
  Shapes <- MediumShapes
  Topics = {a1}
  MaxPosts = 2
  EndTick = 3
INVARIANTS Accounting OnTime
