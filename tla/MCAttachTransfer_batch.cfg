\* One transfer of two chunks that can run out of retries in the same pass.
CONSTANTS
  a = a
  t1 = t1
  t2 = t2
  Peers <- MCPeers
  Transfers <- MCSingle
  To <- MCSingleTo
  Count <- MCSingleCount
  Oversize = {}
  MaxRetries = 1
  AttachSeqBase = 4
  MaxSeq = 0
  MaxSeen = 2
SPECIFICATION Spec
INVARIANT FailureEndsTransfer
