\* Three queries over a list of two, polled again and again.
SPECIFICATION Spec
CONSTANTS
  None = None
  Cap = 2
  MaxQueries = 3
INVARIANTS TypeOK ReportIsRight ObservedIsTrue
