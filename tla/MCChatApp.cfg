\* A friend from the start and one that may be added by a link; a queue of one command,
\* so that automatic queries and the user's commands compete for its place.
CONSTANTS
  a = a
  b = b
  Friends = {a, b}
  StartFriends = {a}
  MaxSeq = 1
  MaxMessages = 2
  QueueCap = 1
  MaxEvents = 2
  AutoAddr = TRUE
SPECIFICATION FairSpec
INVARIANT TypeOK
INVARIANT UiCatchesUp
INVARIANT CheckMarkTrue
PROPERTY CheckMarkStays
PROPERTY VerdictShown
\* A panic ends the process.
CHECK_DEADLOCK FALSE
