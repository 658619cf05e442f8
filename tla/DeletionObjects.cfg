CONSTANTS
  CustomerStreams = {}
  ListingCanEndEarly = FALSE
  OwnPVCs = {p1}
  MaxIncarnations = 2
  Disruptions = {"fault", "touch", "crash", "resources"}
SPECIFICATION Spec
INVARIANTS
  DeployedIsFinalized
  SettledIsDeployed
  SettledGauges
PROPERTIES
  KeepsLifecycle
  ImplementsDispatch
  DeletionCompletes
