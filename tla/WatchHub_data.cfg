\* One connection, a channel of two messages, a list of four entries
\* read two at a time, a store that fails now and then.
SPECIFICATION FeedSpec
CONSTANTS
  c1 = c1
  c2 = c2
  i1 = i1
  i2 = i2
  None = None
  Conn = {c1}
  Id = {i1}
  Limits = {1}
  BufLen = 2
  MaxPerPoll = 2
  MaxObs = 4
INVARIANT FeedIsExact
PROPERTY NothingIsMissed
CHECK_DEADLOCK FALSE
