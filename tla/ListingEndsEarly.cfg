CONSTANTS
  CustomerStreams = {"orders"}
  ListingCanEndEarly = TRUE
  OwnPVCs = {}
  MaxIncarnations = 1
  Disruptions = {"server"}
SPECIFICATION Spec
INVARIANT DataInUseIsKept
