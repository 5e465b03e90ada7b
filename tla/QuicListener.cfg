\* Two connections, one with two streams and one with one, and two users.
SPECIFICATION FairSpec
CONSTANTS
  c1 = c1
  c2 = c2
  a1 = a1
  a2 = a2
  None = None
  ErrClosed = ErrClosed
  Failed = Failed
  Conn = {c1, c2}
  Caller = {a1, a2}
  MaxStreams <- Streams
INVARIANTS TypeOK EveryStreamAccountedFor
PROPERTIES Implements EverythingEnds
CHECK_DEADLOCK FALSE
