\* One friend, two messages, a window of one: every duplicate and late packet can occur,
\* and the second message makes the window slide.
CONSTANTS
  a = a
  Peers = {a}
  MaxSeq = 1
  MaxMessages = 2
  MaxRetries = 2
  MaxRun = 0
  AttachSeqBase = 9
  MaxChunks = 1
  MaxSeen = 1
SPECIFICATION FairSpec
INVARIANT TypeOK
INVARIANT NothingForgotten
INVARIANT AckedImpliesShown
INVARIANT SeenImpliesShown
INVARIANT DuplicateNeedsOverflow
PROPERTY ImplementsReliableMessage
PROPERTY EventuallyAcked
PROPERTY VerdictReached
