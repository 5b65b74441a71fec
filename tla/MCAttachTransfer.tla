-------------------------- MODULE MCAttachTransfer --------------------------
(* AttachTransfer with a transfer of two chunks and one of a single chunk, both to  *)
(* the same friend.                                                                  *)
EXTENDS AttachTransfer

CONSTANTS a, t1, t2

MCPeers == {a}
MCTransfers == {t1, t2}
MCTo == [t \in MCTransfers |-> a]
MCOversize == {t2}
MCCount == [t \in MCTransfers |-> IF t = t1 THEN 2 ELSE 1]

\* One transfer alone, for the run that looks at what a failure leaves behind.
MCSingle == {t1}
MCSingleTo == [t \in MCSingle |-> a]
MCSingleCount == [t \in MCSingle |-> 2]
=============================================================================
