\* Two admins move two groups at once.
CONSTANTS
  MaxId = 3
  Names = {"app", "ecole"}
  FoldedNames = {"app", "ecole"}
  Servers = {}
  Workers = {w1, w2}
SPECIFICATION Spec
INVARIANTS Acyclic
