CONSTANTS
  CustomerStreams = {"orders"}
  ListingCanEndEarly = FALSE
  OwnPVCs = {}
  MaxIncarnations = 1
  Disruptions = {"server", "query", "crash"}
SPECIFICATION Spec
INVARIANTS
  TypeOK
  DataInUseIsKept
PROPERTIES
  KeepsLifecycle
  ImplementsDispatch
  
  BlockedIsReported
  DeletionCompletes
