SPECIFICATION FairSpec
CONSTANTS
  Roles = {"viewer", "share"}
  MaxAttempts = 1
  MaxTries = 2
  MaxEpoch = 2
  MaxFaults = 1
  MaxInbox = 2
INVARIANTS
  TypeOK
  OneConnectAtATime
  ArmedTimerIsCurrent
  InvalidatedIsClosed
  OpenIsServed
  DisconnectEndsSession
  LinkIsReal
PROPERTIES
  ConnectEnds
  LinkRecovers
CHECK_DEADLOCK FALSE
