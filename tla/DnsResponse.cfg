\* Every query to every zone, over every transport.
SPECIFICATION Spec
CONSTANTS
  Nobody = Nobody
  ApexRecords <- MCApexRecords
  WwwRecords <- MCWwwRecords
  UdpSize = {0, 1000, 4096}
  MsgSize = {464, 1300, 1800}
INVARIANTS TypeOK NegativeIsProved SignedOnce BrokenAsAsked AnswersAgree FailureIsBare SizeFits
CHECK_DEADLOCK FALSE
