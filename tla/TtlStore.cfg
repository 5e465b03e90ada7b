\* The store as config.Run drives it, at a size limit of 2.
SPECIFICATION FairSpec
CONSTANTS
  k1 = k1
  k2 = k2
  v1 = v1
  v2 = v2
  Key = {k1, k2}
  Value = {v1, v2}
  Ttl = {1, 2}
  MaxSize = 2
  Width = 16
  MaxTime = 2
  MaxAdds = 3
INVARIANTS TypeOK LimitIsKept CleanMeansSaved
PROPERTIES ImplementsMap ChoresAreDone
