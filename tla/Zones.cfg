CONSTANTS
  Nodes = {n1, n2}
  Zones = {"east-1", "east-2"}
  Pods = {p1, p2}
  Movable = {}
SPECIFICATION Spec
INVARIANTS
  TypeOK
  
PROPERTY
  CountBecomesTrue
