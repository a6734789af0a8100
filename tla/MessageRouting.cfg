CONSTANTS
  n1 = n1 n2 = n2 n3 = n3 r1 = r1 r2 = r2 w1 = w1 w2 = w2 w3 = w3
  a = a b = b c = c
  None = None
  Card <- ThreeCards
  Router <- TwoRouters
  AccessPoint <- NoHop
  Circuit <- ThreeCircuits
  Network <- Routed
  Port = {1}
  MaxMessages = 1
  MaxChanges = 1
SPECIFICATION Spec
SYMMETRY Symmetry
INVARIANTS AtMostOnce NoMessageLoop ExactlyReached
CHECK_DEADLOCK FALSE
