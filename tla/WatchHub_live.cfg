\* Two connections that ask for one id or two, without a limit and at a
\* limit of one watcher.
SPECIFICATION FairSpec
CONSTANTS
  c1 = c1
  c2 = c2
  i1 = i1
  i2 = i2
  None = None
  Conn = {c1, c2}
  Id = {i1, i2}
  Limits = {0, 1}
  BufLen = 1
  MaxPerPoll = 1
  MaxObs = 0
INVARIANTS TypeOK Isolation StopChannelsAreSound PromptStop
PROPERTY WatchesEnd
CHECK_DEADLOCK FALSE
