CONSTANTS
  conA = conA conB = conB pole1 = pole1 card1 = card1
  wire1 = wire1 wire2 = wire2 wire3 = wire3
  k1 = k1 k2 = k2 k3 = k3 k4 = k4 k5 = k5
  ann = ann bob = bob
  None = None
  Connector <- ConstConnector
  Pole <- ConstPole
  Card <- ConstCard
  CaseOf <- ConstCaseOf
  Cable <- ConstCable
  MaxCables <- ConstMax
  Circuit <- ConstCircuit
  Player <- OnePlayer
SPECIFICATION Spec
SYMMETRY Symmetry
PROPERTY LossAnnounced
