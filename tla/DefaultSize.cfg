CONSTANTS
  Provider = "alicloud"
  IstioAtStart = FALSE
  Specs <- OneNode
  Labels = {}
  ZoneCounts = {1}
  Disruptions = {"shootinfo"}
SPECIFICATION Spec
INVARIANT
  StorageIsSized
