CONSTANTS
  Provider = "alicloud"
  IstioAtStart = TRUE
  Specs <- Storages
  Labels = {}
  ZoneCounts = {1}
  Disruptions = {"objects", "labels", "crash"}
SPECIFICATION Spec
INVARIANTS
  SettledObjectsExist
  StorageIsSized
