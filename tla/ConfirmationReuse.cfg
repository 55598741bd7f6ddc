CONSTANTS
  Tokens = {k1}
  Actions = {a1}
  Callers = {c1, c2}
SPECIFICATION Spec
INVARIANTS
  SingleUse
SYMMETRY Symmetry
