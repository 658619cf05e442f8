CONSTANTS
  Provider = ""
  IstioAtStart = FALSE
  Specs <- ThreeNodes
  Labels = {}
  ZoneCounts = {2, 3}
  Disruptions = {"fault", "shootinfo"}
SPECIFICATION TrackedSpec
INVARIANTS
  TypeOK
  StatusIsCoherent
PROPERTY
  EndsInVerdict
