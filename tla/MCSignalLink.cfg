SPECIFICATION FairSpec
CONSTANTS
  MaxBreaks = 2
  MaxInbox = 2
INVARIANTS
  TypeOK
  BadLinkBeats
  WatcherProbes
PROPERTIES
  SharerLearns
  SharerForgets
CHECK_DEADLOCK FALSE
