CONSTANTS
  CustomerStreams = {}
  ListingCanEndEarly = FALSE
  OwnPVCs = {p1}
  MaxIncarnations = 1
  Disruptions = {"resources"}
SPECIFICATION Spec
INVARIANT DeletionNotAbandoned
