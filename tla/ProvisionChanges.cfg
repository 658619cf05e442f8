CONSTANTS
  Provider = ""
  IstioAtStart = FALSE
  Specs <- Growing
  Labels = {"team"}
  ZoneCounts = {2, 3}
  Disruptions = {"edit", "pods"}
SPECIFICATION Spec
INVARIANTS
  StatusIsCoherent
  
  SettledObjectsExist
  SettledGauges
