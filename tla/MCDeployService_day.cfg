\* Requests, a queue that redelivers, a sweep, prunes and stops over one id.
SPECIFICATION ServiceSpec
CONSTANTS
  Unset = Unset
  Ids = {"a"}
  Clients = {"c"}
  Pruners = {"p"}
  Posts <- McPosts
  Backlog <- McBacklog
  Regions <- McRegions
  Notes <- McNotes
  MaxAttempts = 2
  Capacity = 1
  Bounds <- McBounds
INVARIANTS
  DeployedOncePerLife
  IncidentTellsTheFirstFailure
PROPERTY
  PruneTakesOnlyFinished
