SPECIFICATION ClientSpec
CONSTANTS
  c1 = c1
  c2 = c2
  c3 = c3
  c4 = c4
  c5 = c5
  good = good
  bad = bad
  Calls <- MCFour
  NoSession = NoSession
  Versions <- MCVersions
  AptpVersion = 1
  HiddenSizes <- MCOneHidden
  LocalHidden = 1
  Passthrough = FALSE
  Payloads <- MCPayloads
  Admissible <- MCGood
  Capacity = 1
  KeepReceiver = TRUE
SYMMETRY MCSymmetry
INVARIANTS
  ClientTypeOK
  SessionIsLive
  AdmissibleIsAcked
  TotalAccounts
  SentInOrder
PROPERTIES
  NothingAfterFinalize
CHECK_DEADLOCK FALSE
