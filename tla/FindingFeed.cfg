SPECIFICATION FairFeedSpec
CONSTANTS
  Workers = {w1, w2}
  FindingIds = {f1, f2}
  Severities = {"Low", "High"}
  MaxRaises = 2
  NoFinding = NoFinding
  Subscribers = {s1}
  Capacity = 2
  Off = Off
  OtherEvents <- SomeEvents
  MaxLog = 3
INVARIANTS
  StoredAsAnnounced
  FeedTruthful
  GapsOnlyFromLag
PROPERTIES
  CatchesUp
