\* Attachments to one friend that keeps running or not, and a sender that restarts.
CONSTANTS
  a = a
  t1 = t1
  t2 = t2
  Peers <- MCPeers
  Transfers <- MCTransfers
  To <- MCTo
  Count <- MCCount
  Oversize = {}
  MaxRetries = 1
  AttachSeqBase = 4
  MaxSeq = 0
  MaxSeen = 2
SPECIFICATION RestartSpec
INVARIANT DeliveredMeansReceived
