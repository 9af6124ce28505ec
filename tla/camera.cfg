SPECIFICATION Spec
CONSTANTS
  Cameras = {"A", "B"}
  HandlesOf <- ThreeAndOne
  Fallback <- OneByUsb
  RowWidth = 2
  MaxMod = 2
  MaxChances = 3
INVARIANTS  ShownIsOwn PromptIsForConnected 
CHECK_DEADLOCK FALSE
