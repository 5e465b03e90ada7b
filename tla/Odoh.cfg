\* Two clients, two queries, two responses, two keys; sealed texts that just
\* fit a length prefix, that do not, and padding that checkField refuses.
SPECIFICATION Spec
CONSTANTS
  c1 = c1
  c2 = c2
  None = None
  Base = 6
  Client = {c1, c2}
  Name = {1, 2}
  Padding = {28, 30, 36}
  Foreign <- Before
  MaxKeys = 2
  MaxQueries = 2
  MaxResponses = 2
INVARIANTS TypeOK FramingIsExact StaleIsToldSo ResponseForItsQuery
CHECK_DEADLOCK FALSE
