CONSTANTS
  Key = {k1, k2}
  Writer = {w1, w2}
  Search = {1, 2}
  MaxVersion = 2
  Edits = {"update"}
  Past = {}
SYMMETRY Symmetry
SPECIFICATION Spec
INVARIANTS
  NoStalePrices
