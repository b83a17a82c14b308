SPECIFICATION ClientSpec
CONSTANTS
  c1 = c1
  c2 = c2
  c3 = c3
  c4 = c4
  c5 = c5
  good = good
  bad = bad
  Calls <- MCThree
  NoSession = NoSession
  Versions <- MCVersions
  AptpVersion = 1
  HiddenSizes <- MCOneHidden
  LocalHidden = 1
  Passthrough = FALSE
  Payloads <- MCPayloads
  Admissible <- MCGood
  Capacity = 1
  KeepReceiver = FALSE
INVARIANTS
  DemoSendsAcked
CHECK_DEADLOCK FALSE
