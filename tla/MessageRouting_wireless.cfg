CONSTANTS
  n1 = n1 n2 = n2 n3 = n3 r1 = r1 r2 = r2 w1 = w1 w2 = w2 w3 = w3
  a = a b = b c = c
  None = None
  Card <- TwoCards
  Router <- OneRouter
  AccessPoint <- ThreePoints
  Circuit <- ThreeCircuits
  Network <- Wireless
  Port = {1}
  MaxMessages = 1
  MaxChanges = 0
SPECIFICATION FairSpec
INVARIANT ExactlyReached
PROPERTIES SendReturns SendsEnd
CHECK_DEADLOCK FALSE
