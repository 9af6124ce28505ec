SPECIFICATION Spec
CONSTANTS
  p1 = p1
  p2 = p2
  u1 = u1
  u2 = u2
  Photos = {p1, p2}
  NameOf <- TwoNames
  SizeOf <- Sizes
  Batches <- Both
  Downloads = {"d1"}
  Validations = {"v1"}
  Items = {u1, u2}
SYMMETRY Symmetry
INVARIANTS  FileCurrent
PROPERTIES  CancelStops
