SPECIFICATION FairSpec
CONSTANTS
  Conns = {c1, c2, c3}
  MaxFiles = 2
  MaxEdits = 2
INVARIANTS
  TypeOK
  ProbeIsCurrent
PROPERTIES
  Contained
  EveryPeerTaken
  SocketsReturn
CHECK_DEADLOCK FALSE
