SPECIFICATION AppsSpec
CONSTANTS
  Link = {"tick"}
  Stale = 0
  Tries = 1
  PostBound = 2
  SenderStarts = 1
  ReceiverStarts = 2
  SourceBound = 3
  BadSource <- SecondLineIsBad
  InboxBound = 2
  SenderMax = 2
  ReceiverMax = 2
  FromStart = FALSE
  InboxWindow = 1
  RunBound = 2
CHECK_DEADLOCK FALSE
INVARIANTS
  LinesAreCounted
  TickIsJournaled
  DroppedIsBounded
PROPERTIES
  OutageIsShown
