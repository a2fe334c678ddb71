SPECIFICATION Spec
CONSTANTS
  c1 = c1
  c2 = c2
  Carts <- MCCarts
  Lines <- MCLines
  Numbers = {n1, n2}
  Workers = {w1, w2}
  Nothing = Nothing
  MaxForms = 3
  MaxEvents = 2
SYMMETRY Alike
CHECK_DEADLOCK FALSE
INVARIANTS OrderIsWhole NoStepAhead OneUserPerPhone PinKept
