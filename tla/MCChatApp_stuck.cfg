\* A friend from the start and one that may be added by a link, a message or two, a queue
\* with room for all their commands.
CONSTANTS
  a = a
  b = b
  Friends = {a, b}
  StartFriends = {a}
  MaxSeq = 0
  MaxMessages = 2
  QueueCap = 3
  MaxEvents = 1
  AutoAddr = TRUE
SPECIFICATION FairSpec
PROPERTY SentGetsVerdict
CHECK_DEADLOCK FALSE
