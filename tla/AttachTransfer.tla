--------------------------- MODULE AttachTransfer ---------------------------
(***************************************************************************)
(* Attachments (net/mod.rs): handle_send_attach cuts a file into chunks,   *)
(* each a Msg packet with a number of its own, retransmitted and           *)
(* acknowledged like a text message; the friend assembles them.  The       *)
(* sender keeps three maps that must agree: chunk_seqs (number -> chunk),  *)
(* attach_sends (transfer -> acknowledged indexes) and the retransmitter.  *)
(* A chunk that has left chunk_seqs is handled as a text message by the    *)
(* retry pass and by handle_ack, and can enter failed_sends.               *)
(*                                                                         *)
(* The maps and the friend's PeerSession go by numbers: attach_seq counts   *)
(* the chunks of a run of the sender, from ATTACH_SEQ_BASE on, and the     *)
(* friend has one PeerSession for chunks and texts, so texts pass through  *)
(* it here too (what becomes of them is in Delivery).                      *)
(***************************************************************************)
EXTENDS Naturals, FiniteSets, DedupWindow

CONSTANTS
  Peers,
  Transfers,   \* transfer ids
  To,          \* [Transfers -> Peers]: the recipient
  Count,       \* [Transfers -> Nat \ {0}]: total_chunks
  Oversize,    \* transfers above MAX_ATTACH_TOTAL, which the friend drops
  MaxRetries,  \* MAX_RETRIES of net/retransmit.rs
  AttachSeqBase, \* ATTACH_SEQ_BASE: the chunks' numbers are above it
  MaxSeq       \* bound: last number of a text to a friend

ASSUME AttachAssumption ==
  /\ To \in [Transfers -> Peers]
  /\ Count \in [Transfers -> Nat \ {0}]
  /\ Oversize \subseteq Transfers
  /\ MaxRetries \in Nat
  /\ MaxSeq \in Nat
  /\ AttachSeqBase \in Nat /\ AttachSeqBase > MaxSeq

Seqs == 0 .. MaxSeq

Chunks == UNION {[transfer : {t}, index : 0 .. Count[t] - 1] : t \in Transfers}
ChunksOf(t) == {c \in Chunks : c.transfer = t}
Recipient(c) == To[c.transfer]

VARIABLES
  attachSeq,    \* Network.attach_seq: the last number given to a chunk
  seqOf,        \* the number of a chunk that was sent; 0 before
  chunkSeqs,    \* chunks in Network.chunk_seqs
  attachSends,  \* transfers in Network.attach_sends
  acked,        \* AttachSend.acked, as chunks
  pending,      \* chunks in Retransmitter.pending
  attempts,     \* PendingPacket.attempts; 0 for a chunk that is not pending
  failedSends,  \* chunks whose packet is in Network.failed_sends
  verdict,      \* the last AttachAcked or AttachFailed event of a transfer
  verdicts,     \* number of such events
  wire,         \* chunks on the wire
  acks,         \* MsgAck packets on the wire
  sessions,     \* each friend's PeerSession for this node
  taken,        \* numbers each friend has taken as new
  buffers,      \* AttachRecv.got of each transfer at its recipient; {}: no entry
  received,     \* transfers a friend emitted AttachReceived for
  twice,        \* transfers it emitted AttachReceived for again
  halved,       \* transfers of which a friend lost a part in a restart
  rebooted      \* friends that have restarted

senderVars == <<attachSeq, seqOf, chunkSeqs, attachSends, acked, pending, attempts,
                failedSends, verdict, verdicts>>
friendVars == <<sessions, taken, buffers, received, twice, halved, rebooted>>
vars == <<senderVars, wire, acks, friendVars>>

TypeOK ==
  /\ attachSeq \in Nat
  /\ seqOf \in [Chunks -> Nat]
  /\ chunkSeqs \in SUBSET Chunks
  /\ attachSends \in SUBSET Transfers
  /\ acked \in SUBSET Chunks
  /\ pending \in SUBSET Chunks
  /\ attempts \in [Chunks -> 0 .. MaxRetries]
  /\ failedSends \in SUBSET Chunks
  /\ verdict \in [Transfers -> {"none", "sending", "acked", "failed", "forgotten"}]
  /\ verdicts \in [Transfers -> Nat]
  /\ wire \in SUBSET Chunks
  /\ acks \in SUBSET [from : Peers, seq : Nat]
  /\ sessions \in [Peers -> Windows(Nat)]
  /\ taken \in [Peers -> SUBSET Nat]
  /\ buffers \in [Transfers -> SUBSET Chunks]
  /\ received \in SUBSET Transfers
  /\ twice \in SUBSET received
  /\ halved \in SUBSET Transfers
  /\ rebooted \in SUBSET Peers

Init ==
  /\ attachSeq = AttachSeqBase
  /\ seqOf = [c \in Chunks |-> 0]
  /\ chunkSeqs = {}
  /\ attachSends = {}
  /\ acked = {}
  /\ pending = {}
  /\ attempts = [c \in Chunks |-> 0]
  /\ failedSends = {}
  /\ verdict = [t \in Transfers |-> "none"]
  /\ verdicts = [t \in Transfers |-> 0]
  /\ wire = {}
  /\ acks = {}
  /\ sessions = [p \in Peers |-> EmptyWindow]
  /\ taken = [p \in Peers |-> {}]
  /\ buffers = [t \in Transfers |-> {}]
  /\ received = {}
  /\ twice = {}
  /\ halved = {}
  /\ rebooted = {}

ResetOn(K) == [c \in Chunks |-> IF c \in K THEN 0 ELSE attempts[c]]

\* An AttachAcked or AttachFailed event for each of the transfers T.
Conclude(T, v) ==
  /\ verdict' = [t \in Transfers |-> IF t \in T THEN v ELSE verdict[t]]
  /\ verdicts' = [t \in Transfers |-> IF t \in T THEN verdicts[t] + 1 ELSE verdicts[t]]

-----------------------------------------------------------------------------
(* Sending.                                                                *)

\* The numbers a transfer takes: attach_seq is counted up before each chunk.  (It
\* wraps at 2^32, after 2^31 chunks of one run.)
NumbersReused(c) == AttachSeqBase + 1 + c.index
NumberGiven(c) == attachSeq + 1 + c.index

\* handle_send_attach: every chunk leaves once and is registered, then the transfer.
SendAttach(t) ==
  /\ verdict[t] = "none"
  /\ attachSeq' = attachSeq + Count[t]
  /\ seqOf' = [c \in Chunks |-> IF c.transfer = t THEN NumberGiven(c) ELSE seqOf[c]]
  /\ wire' = wire \cup ChunksOf(t)
  /\ chunkSeqs' = chunkSeqs \cup ChunksOf(t)
  /\ pending' = pending \cup ChunksOf(t)
  /\ attempts' = ResetOn(ChunksOf(t))
  /\ attachSends' = attachSends \cup {t}
  /\ verdict' = [verdict EXCEPT ![t] = "sending"]
  /\ UNCHANGED <<acked, failedSends, verdicts, acks, friendVars>>

\* Not a friend, no key or no address: no number is taken.  A chunk that cannot be
\* sealed: the chunks before it have taken theirs.
SendAttachRejected(t) ==
  /\ verdict[t] = "none"
  /\ \E n \in 0 .. Count[t] - 1 : attachSeq' = attachSeq + n
  /\ Conclude({t}, "failed")
  /\ UNCHANGED <<seqOf, chunkSeqs, attachSends, acked, pending, attempts, failedSends,
                 wire, acks, friendVars>>

-----------------------------------------------------------------------------
(* The retry pass.                                                         *)

ExhaustedNever(D) == {}
Exhausted(D) == {c \in D : attempts[c] >= MaxRetries}

\* cancel_transfer: the chunks of the transfers T that chunk_seqs still names.
CancelledNone(T) == {}
Cancelled(T) == {c \in chunkSeqs : c.transfer \in T}

\* The first exhausted chunk of each transfer the batch `out` hits, in the order the
\* loop meets them: a hash map's, so any.
FirstFailures(out) ==
  {F \in SUBSET (out \cap chunkSeqs) :
     \A t \in {c.transfer : c \in out \cap chunkSeqs} : Cardinality({c \in F : c.transfer = t}) = 1}

\* poll_retries over the due packets D and run_loop's handling of the failed ones.
\* The first failed chunk of a transfer ends it and cancels the chunks still
\* registered; the other failed chunks of the same batch are no longer registered
\* when the loop reaches them, and are kept like failed text messages.
PollRetries(D) ==
  LET out   == Exhausted(D)
      again == D \ out
  IN
  /\ D \subseteq pending
  /\ \E first \in FirstFailures(out) :
       LET lost == {c.transfer : c \in first}
           gone == out \cup Cancelled(lost)
       IN
       /\ chunkSeqs' = (chunkSeqs \ first) \ Cancelled(lost)
       /\ attachSends' = attachSends \ lost
       /\ acked' = {c \in acked : c.transfer \notin lost}
       /\ pending' = pending \ gone
       /\ attempts' = [c \in Chunks |-> IF c \in gone THEN 0
                                        ELSE IF c \in again THEN attempts[c] + 1
                                        ELSE attempts[c]]
       /\ failedSends' = failedSends \cup (out \ first)
       /\ Conclude(lost, "failed")
  /\ wire' = wire \cup again
  /\ UNCHANGED <<attachSeq, seqOf, acks, friendVars>>

-----------------------------------------------------------------------------
(* Packets from the friend.                                                *)

\* note_friend_seen then retry_failed_for.
Revived(p, changed) == IF changed THEN {c \in failedSends : Recipient(c) = p} ELSE {}

\* The packets an acknowledgement names in the maps that go by recipient and number;
\* chunk_seqs goes by the number alone.
Named(a, S) == {c \in S : Recipient(c) = a.from /\ seqOf[c] = a.seq}
Registered(a) == {c \in chunkSeqs : seqOf[c] = a.seq}

\* The part of handle_ack for a registered chunk: if the acknowledgement comes from its
\* recipient AttachSend.acked grows, and the transfer is complete when it holds
\* total_chunks indexes.
CompleteEarly(t, A) == \E c \in A : c.transfer = t
Complete(t, A) == Cardinality({c \in A : c.transfer = t}) = Count[t]

AckRegistered(c, a) ==
  LET t    == c.transfer
      own  == Recipient(c) = a.from /\ t \in attachSends
      done == own /\ Complete(t, acked \cup {c})
  IN
  /\ chunkSeqs' = chunkSeqs \ Registered(a)
  /\ acked' = IF done THEN {x \in acked : x.transfer # t}
              ELSE IF own THEN acked \cup {c} ELSE acked
  /\ attachSends' = IF done THEN attachSends \ {t} ELSE attachSends
  /\ Conclude(IF done THEN {t} ELSE {}, "acked")

\* A chunk that is no longer registered is acknowledged like a text message.
AckUnregistered(a) ==
  /\ Registered(a) = {}
  /\ UNCHANGED <<chunkSeqs, acked, attachSends, verdict, verdicts>>

HandleAck(a, changed) ==
  LET back == Revived(a.from, changed)
      done == Named(a, pending \cup back)
  IN
  /\ a \in acks
  /\ (\E c \in Registered(a) : AckRegistered(c, a)) \/ AckUnregistered(a)
  /\ pending' = (pending \cup back) \ done
  /\ failedSends' = failedSends \ (back \cup done)
  /\ wire' = wire \cup back
  /\ attempts' = ResetOn(back \cup done)
  /\ UNCHANGED <<attachSeq, seqOf, acks, friendVars>>

\* Any other packet of the friend p that changes the store; one that does not changes
\* nothing here.
HearFrom(p) ==
  LET back == Revived(p, TRUE) IN
  /\ wire' = wire \cup back
  /\ pending' = pending \cup back
  /\ attempts' = ResetOn(back)
  /\ failedSends' = failedSends \ back
  /\ UNCHANGED <<attachSeq, seqOf, chunkSeqs, attachSends, acked, verdict, verdicts,
                 acks, friendVars>>

-----------------------------------------------------------------------------
(* The friend.  UDP loses, duplicates and delays packets: a packet that is  *)
(* received stays on the wire, and one that is lost is one that is never   *)
(* received again.                                                         *)

\* The window part of handle_msg, for any packet of this node with the number n.
Take(p, n) ==
  /\ sessions' = [sessions EXCEPT ![p] = MarkSeen(@, n)]
  /\ taken' = IF IsSeen(sessions[p], n) THEN taken ELSE [taken EXCEPT ![p] = @ \cup {n}]

\* assemble_attach: AttachReceived when the entry holds total_chunks indexes.
AssembledEarly(t, got) == Cardinality(got) + 1 >= Count[t]
Assembled(t, got) == Cardinality(got) = Count[t]

Assemble(c) ==
  LET t    == c.transfer
      got  == buffers[t] \cup {c}
      full == Assembled(t, got)
  IN
  IF t \in Oversize
  THEN UNCHANGED <<buffers, received, twice>>
  ELSE /\ buffers' = [buffers EXCEPT ![t] = IF full THEN {} ELSE got]
       /\ received' = IF full THEN received \cup {t} ELSE received
       /\ twice' = IF full THEN twice \cup ({t} \cap received) ELSE twice

\* handle_msg at the friend: acknowledged, and assembled if its number is new.
HandleMsg(c) ==
  LET p == Recipient(c) IN
  /\ c \in wire
  /\ acks' = acks \cup {[from |-> p, seq |-> seqOf[c]]}
  /\ Take(p, seqOf[c])
  /\ IF IsSeen(sessions[p], seqOf[c])
     THEN UNCHANGED <<buffers, received, twice>>
     ELSE Assemble(c)
  /\ UNCHANGED <<senderVars, wire, halved, rebooted>>

\* The same handler for a text of ours, at any time: its number takes a place in the
\* window.  Its acknowledgement names no chunk.
HandleText(p, s) ==
  /\ Take(p, s)
  /\ UNCHANGED <<senderVars, wire, acks, buffers, received, twice, halved, rebooted>>

\* prune_attach_recvs drops an entry 120 s after its last chunk.  A transfer whose
\* chunks can still be acknowledged ends within the retransmission time of 8 s, so
\* only entries of transfers that have ended at the sender get that old.
PruneRecv(t) ==
  /\ t \notin attachSends
  /\ buffers' = [buffers EXCEPT ![t] = {}]
  /\ UNCHANGED <<senderVars, wire, acks, sessions, taken, received, twice, halved, rebooted>>

\* The friend restarts: sessions and assembly buffers were only in memory.
PeerRestart(p) ==
  /\ sessions' = [sessions EXCEPT ![p] = EmptyWindow]
  /\ buffers' = [t \in Transfers |-> IF To[t] = p THEN {} ELSE buffers[t]]
  /\ halved' = halved \cup {t \in Transfers : To[t] = p /\ buffers[t] # {}}
  /\ rebooted' = rebooted \cup {p}
  /\ UNCHANGED <<senderVars, wire, acks, taken, received, twice>>

\* This node restarts: its maps and attach_seq were only in memory.  What is on the
\* wire and what its friends remember stays.
Restart ==
  /\ attachSeq' = AttachSeqBase
  /\ chunkSeqs' = {}
  /\ attachSends' = {}
  /\ acked' = {}
  /\ pending' = {}
  /\ attempts' = [c \in Chunks |-> 0]
  /\ failedSends' = {}
  /\ verdict' = [t \in Transfers |-> IF verdict[t] = "sending" THEN "forgotten"
                                     ELSE verdict[t]]
  /\ UNCHANGED <<seqOf, verdicts, wire, acks, friendVars>>

Next ==
  \/ \E t \in Transfers : SendAttach(t) \/ SendAttachRejected(t)
  \/ \E D \in SUBSET pending : PollRetries(D)
  \/ \E a \in acks, changed \in BOOLEAN : HandleAck(a, changed)
  \/ \E p \in Peers : HearFrom(p)
  \/ \E c \in wire : HandleMsg(c)
  \/ \E p \in Peers, s \in Seqs : HandleText(p, s)
  \/ \E t \in Transfers : PruneRecv(t)
  \/ \E p \in Peers : PeerRestart(p)

\* One run of this node; its friends may restart.
Spec == Init /\ [][Next]_vars

\* This node restarts too.
RestartSpec == Init /\ [][Next \/ Restart]_vars

-----------------------------------------------------------------------------
(* Properties.                                                             *)

\* The three maps agree.  While a transfer is under way, each of its chunks is either
\* acknowledged, or registered and pending, never both; once it is over, none of its
\* chunks is registered, so no later acknowledgement or failure can touch it.
ChunksAccounted ==
  \A t \in Transfers :
    IF t \in attachSends
    THEN /\ verdict[t] = "sending"
         /\ ChunksOf(t) \cap chunkSeqs = ChunksOf(t) \ acked
         /\ ChunksOf(t) \cap pending = ChunksOf(t) \ acked
    ELSE ChunksOf(t) \cap (chunkSeqs \cup acked) = {}

\* Exactly one of AttachAcked and AttachFailed is emitted for a transfer, once,
\* whatever mixture of failing chunks and late acknowledgements ends it.
OneVerdict ==
  \A t \in Transfers :
    verdicts[t] = IF verdict[t] \in {"acked", "failed"} THEN 1 ELSE 0

\* An attachment reported as delivered in one run of this node has been handed to the
\* friend's user.  Two exceptions, each named by its cause and no wider: the friend
\* drops attachments of this size, or it restarted while it held a part of this one.
AckedImpliesReceived ==
  \A t \in Transfers :
    verdict[t] = "acked" => t \in received \cup Oversize \cup halved

\* What the check mark says, with no exception.
DeliveredMeansReceived ==
  \A t \in Transfers : verdict[t] = "acked" => t \in received

\* A friend delivers an attachment again only after a restart, or if its one window has
\* slid past the chunks because it has taken more than MaxSeen chunks and texts.
ReceivedTwiceNeedsOverflow ==
  \A t \in twice : To[t] \in rebooted \/ Cardinality(taken[To[t]]) > MaxSeen

\* A failed transfer is over: none of its chunks is sent again.
FailureEndsTransfer ==
  \A t \in Transfers :
    verdict[t] = "failed" => ChunksOf(t) \cap (pending \cup failedSends) = {}
=============================================================================
