CONSTANTS
  Events = {"e", "f"}
  Windows = {1, 2}
  CalWorkers = {"a", "b"}
  MaxCalChanges = 3
  MaxCalReclaims = 1
  MaxCalFaults = 1
  MaxObjects = 3
  FirstObjects = 1
  MaxChanges = 4
  Orders = {"Fixed", "Server"}
  WalkLimit = 1
  ListingPage = 1
  IdlePages = 1
  Listings = 2
  Restarts = 1
  MaxJmapFaults = 1
  Keywords = {"k"}
  MaxEdits = 2
  MaxMishaps = 1
  MaxSeconds = 2
  CardCount = 3
  Owner <- TwoOfOne
  Emails = {"x", "y"}
  Rebuilders = {"p", "q"}
  MaxRebuilds = 1
  MaxCardChanges = 3
  Keys = {"k", "l"}
  Hashes = {"g", "h"}
  Sweepers = {"s", "t"}
  MaxPuts = 3
  MaxSweeps = 2
SPECIFICATION FeedSpec
CONSTRAINTS Roles LastUndisturbed
CHECK_DEADLOCK FALSE
INVARIANTS CursorMeansRead TagSkipsNothing OccurrencesFollowEvents JmapCurrent EditsStayShown PeopleCurrent FreshBlobsKept
