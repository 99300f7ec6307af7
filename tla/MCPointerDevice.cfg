SPECIFICATION Spec
CONSTANTS
  Call = {c1, c2}
  Kinds = {"modClick", "modDrag", "chord", "scroll"}
  Aims <- OneAim
  Desktops <- TwoSizes
  Modifiers <- OneModifier
  ClickCount = 1
  StepPixels = 1
  MaxSteps = 2
  Cancels = TRUE
  Nobody = Nobody
SYMMETRY Calls
CONSTRAINT OneFault
INVARIANTS
  Consistent
  LeftDownByFailure
  ClicksAsAsked
PROPERTIES
  LandsWhereAimed
