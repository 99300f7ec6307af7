SPECIFICATION Spec
CONSTANTS
  e1 = e1
  e2 = e2
  w1 = w1
  w2 = w2
  p1 = p1
  p2 = p2
  Reader = {r1, r2}
  Click = {c1}
  Element = {e1, e2}
  Window = {w1, w2}
  Process = {p1, p2}
  Origin = {o1, o2}
  WindowOf <- TwoWindows
  ProcessOf <- Apart
  OnBus = {p1, p2}
  Named = {p1, p2}
  MaxTracked = 1
  LastIndex = 3
  None = None
  Nowhere = Nowhere
SYMMETRY Alike
CONSTRAINT BeforeWrap
INVARIANTS
  Consistent
  IndexForLife
  UndisturbedAim
