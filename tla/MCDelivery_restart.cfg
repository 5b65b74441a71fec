\* One friend that keeps running while this node is restarted once.
CONSTANTS
  a = a
  Peers = {a}
  MaxSeq = 1
  MaxMessages = 2
  MaxRetries = 1
  MaxRun = 1
  AttachSeqBase = 9
  MaxChunks = 1
  MaxSeen = 2
SPECIFICATION RestartSpec
INVARIANT SeenImpliesShown
