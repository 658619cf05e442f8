CONSTANTS
  Provider = ""
  IstioAtStart = FALSE
  Specs <- OneNode
  Labels = {}
  ZoneCounts = {1}
  Disruptions = {}
SPECIFICATION Spec
PROPERTY
  PasswordIsKept
