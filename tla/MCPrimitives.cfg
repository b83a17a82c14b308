SPECIFICATION Spec
CONSTANTS
  Byte <- MCByte
  Texts <- MCTexts
  Packets <- MCSent
  Messages <- MCMessages
  Config <- MCConfig
  FreshId <- MCFreshId
  FloatsHashed = 2
  KeysHashed = 1
INVARIANTS
  Intact
  OwnIsRead
  
  TagStands
  ChangeNoticed
CHECK_DEADLOCK FALSE
