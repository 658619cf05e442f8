CONSTANTS
  Provider = ""
  IstioAtStart = FALSE
  Specs <- OneNode
  Labels = {}
  ZoneCounts = {}
  Disruptions = {"crash", "istio"}
SPECIFICATION Spec
PROPERTIES
  PasswordSettles
  ProvisioningConverges
