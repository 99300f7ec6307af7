SPECIFICATION Spec
CONSTANTS
  e1 = e1
  e2 = e2
  w1 = w1
  w2 = w2
  p1 = p1
  p2 = p2
  Reader = {r1, r2}
  Click = {c1}
  Element = {e1, e2}
  Window = {w1}
  Process = {p1}
  Origin = {o1}
  WindowOf <- OneWindow
  ProcessOf <- OneProcess
  OnBus = {p1}
  Named = {p1}
  MaxTracked = 1
  LastIndex = 3
  None = None
  Nowhere = Nowhere
PROPERTIES
  IndexUntilGone
