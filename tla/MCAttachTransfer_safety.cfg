\* Two chunks of one transfer and one of another, to one
\* friend whose window holds two numbers; the single chunk's transfer is too large for it.
CONSTANTS
  a = a
  t1 = t1
  t2 = t2
  Peers <- MCPeers
  Transfers <- MCTransfers
  To <- MCTo
  Count <- MCCount
  Oversize <- MCOversize
  MaxRetries = 1
  AttachSeqBase = 4
  MaxSeq = 0
  MaxSeen = 2
SPECIFICATION Spec
INVARIANT TypeOK
INVARIANT ChunksAccounted
INVARIANT OneVerdict
INVARIANT AckedImpliesReceived
INVARIANT ReceivedTwiceNeedsOverflow
