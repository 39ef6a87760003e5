CONSTANTS
  o1 = o1
  o2 = o2
  v1 = v1
  h1 = h1
  r1 = r1
  r2 = r2
  Objs = {o1, o2}
  Variants = {v1}
  Handles = {}
  Roots = {r1, r2}
  Width = 2
  Nil = Nil
SPECIFICATION Spec
INVARIANTS ReachableIsKept
CHECK_DEADLOCK FALSE
SYMMETRY Alike
