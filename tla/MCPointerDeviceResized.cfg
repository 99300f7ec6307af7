SPECIFICATION Spec
CONSTANTS
  Call = {c1}
  Kinds = {"click"}
  Aims <- FarAim
  Desktops <- TwoSizes
  Modifiers <- OneModifier
  ClickCount = 1
  StepPixels = 1
  MaxSteps = 2
  Cancels = FALSE
  Nobody = Nobody
PROPERTY AbsLandsAtPixel
