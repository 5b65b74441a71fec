------------------------------ MODULE Delivery ------------------------------
(***************************************************************************)
(* Text messages from this node to its friends: the retransmitter          *)
(* (net/retransmit.rs), the store of failed sends and the handlers of the  *)
(* network task that touch them (net/mod.rs), the receiving side of a      *)
(* friend (handle_msg with its PeerSession), and the UDP wire between.     *)
(* The PeerSession is one per friend for texts and attachment chunks: a    *)
(* chunk that reaches the friend takes a place in it too.                  *)
(*                                                                         *)
(* The network task is one thread: a handler runs to its end before the    *)
(* next one starts, so each handler is one action.  Time is abstract: any  *)
(* set of pending packets may be due when poll_retries runs.  Packets are  *)
(* signed and encrypted; the model keeps of them what the handlers branch  *)
(* on: who sent them, the sequence number, and (for the properties only)   *)
(* which run of the sender they come from.                                 *)
(***************************************************************************)
EXTENDS Naturals, FiniteSets, DedupWindow

CONSTANTS
  Peers,       \* the friends we write to
  MaxSeq,      \* bound: last sequence number the application uses for a friend
  MaxMessages, \* bound: messages the application sends in one run, all friends together
  MaxRetries,  \* MAX_RETRIES of net/retransmit.rs
  MaxRun,      \* bound: restarts of this node
  AttachSeqBase, \* ATTACH_SEQ_BASE of net/mod.rs: the chunks' numbers are above it
  MaxChunks    \* bound: numbers of attachment chunks

ASSUME DeliveryAssumption ==
  /\ MaxSeq \in Nat
  /\ MaxMessages \in Nat
  /\ MaxRetries \in Nat
  /\ MaxRun \in Nat
  /\ AttachSeqBase \in Nat /\ AttachSeqBase > MaxSeq
  /\ MaxChunks \in Nat

Seqs == 0 .. MaxSeq

ChunkSeqs == AttachSeqBase + 1 .. AttachSeqBase + MaxChunks

\* The key of the retransmitter's and of failed_sends' maps: (recipient, seq).
Keys == [to : Peers, seq : Seqs]
Key(p, s) == [to |-> p, seq |-> s]

\* A message packet on the wire.  `run` is not in the packet: it tells a message
\* of one run of the sender from that of another run with the same number.
Packets == [key : Keys, run : 0 .. MaxRun]

VARIABLES
  nextSeq,      \* App.next_seq: the next number for each friend
  pending,      \* keys of Retransmitter.pending
  attempts,     \* PendingPacket.attempts; 0 for a key that is not pending
  failedSends,  \* keys of Network.failed_sends
  hasAddr,      \* the friend store knows an address of the friend
  told,         \* what the event channel last said of the message
  refused,      \* messages handle_send returned an error for
  run,          \* number of restarts of this node
  msgs,         \* Msg packets on the wire
  acks,         \* MsgAck packets on the wire: (friend, acknowledged seq)
  sessions,     \* each friend's PeerSession for this node
  chunks,       \* numbers of the attachment chunks each friend has taken as new
  shown,        \* messages a friend emitted MessageReceived for
  repeated,     \* messages a friend emitted MessageReceived for twice
  rebooted      \* friends that have restarted

sendVars == <<nextSeq, pending, attempts, failedSends, told, refused>>
peerVars == <<sessions, chunks, shown, repeated, rebooted>>
vars == <<sendVars, hasAddr, run, msgs, acks, peerVars>>

TypeOK ==
  /\ nextSeq \in [Peers -> 0 .. MaxSeq + 1]
  /\ pending \in SUBSET Keys
  /\ attempts \in [Keys -> 0 .. MaxRetries]
  /\ failedSends \in SUBSET Keys
  /\ hasAddr \in [Peers -> BOOLEAN]
  /\ told \in [Keys -> {"none", "sending", "failed", "acked"}]
  /\ refused \in SUBSET Keys
  /\ run \in 0 .. MaxRun
  /\ msgs \in SUBSET Packets
  /\ acks \in SUBSET Keys
  /\ sessions \in [Peers -> Windows(Seqs \cup ChunkSeqs)]
  /\ chunks \in [Peers -> SUBSET ChunkSeqs]
  /\ shown \in SUBSET Packets
  /\ repeated \in SUBSET shown
  /\ rebooted \in SUBSET Peers

Init ==
  /\ nextSeq = [p \in Peers |-> 0]
  /\ pending = {}
  /\ attempts = [k \in Keys |-> 0]
  /\ failedSends = {}
  /\ hasAddr \in [Peers -> BOOLEAN]
  /\ told = [k \in Keys |-> "none"]
  /\ refused = {}
  /\ run = 0
  /\ msgs = {}
  /\ acks = {}
  /\ sessions = [p \in Peers |-> EmptyWindow]
  /\ chunks = [p \in Peers |-> {}]
  /\ shown = {}
  /\ repeated = {}
  /\ rebooted = {}

\* The packets that carry the messages K of this run.
Copies(K) == {[key |-> k, run |-> run] : k \in K}

\* Functions over the keys, changed on a set of them.
SetOn(f, K, v) == [k \in Keys |-> IF k \in K THEN v ELSE f[k]]

-----------------------------------------------------------------------------
(* The application hands the network task a message with the next number.  *)

TakeSeq(p) ==
  /\ nextSeq[p] <= MaxSeq
  /\ Cardinality({k \in Keys : told[k] # "none"}) < MaxMessages
  /\ nextSeq' = [nextSeq EXCEPT ![p] = @ + 1]

\* handle_send with an address: one copy leaves, the packet is pending.
SendNow(p) ==
  LET k == Key(p, nextSeq[p]) IN
  /\ hasAddr[p]
  /\ msgs' = msgs \cup Copies({k})
  /\ pending' = pending \cup {k}
  /\ attempts' = SetOn(attempts, {k}, 0)
  /\ told' = SetOn(told, {k}, "sending")
  /\ UNCHANGED <<failedSends, refused>>

\* handle_send without one: kept as a failed send, reported failed.
SendUnaddressed(p) ==
  LET k == Key(p, nextSeq[p]) IN
  /\ ~hasAddr[p]
  /\ failedSends' = failedSends \cup {k}
  /\ told' = SetOn(told, {k}, "failed")
  /\ UNCHANGED <<msgs, pending, attempts, refused>>

SendRefusedTooLate(p) ==
  LET k == Key(p, nextSeq[p]) IN
  /\ refused' = refused \cup {k}
  /\ told' = SetOn(told, {k}, "failed")
  /\ msgs' = msgs \cup Copies({k})
  /\ UNCHANGED <<pending, attempts, failedSends>>

\* handle_send bails out (too long, no key, not a friend): run_loop reports the
\* failure and nothing is kept.
SendRefused(p) ==
  LET k == Key(p, nextSeq[p]) IN
  /\ refused' = refused \cup {k}
  /\ told' = SetOn(told, {k}, "failed")
  /\ UNCHANGED <<msgs, pending, attempts, failedSends>>

HandleSend(p) ==
  /\ TakeSeq(p)
  /\ SendNow(p) \/ SendUnaddressed(p) \/ SendRefused(p)
  /\ UNCHANGED <<hasAddr, run, acks, peerVars>>

-----------------------------------------------------------------------------
(* The retry pass of run_loop.                                             *)

\* Mutants are named after the mistake they make; the definition follows them.
ExhaustedNever(D) == {}
Exhausted(D) == {k \in D : attempts[k] >= MaxRetries}

\* poll_retries counts the retransmission.
AttemptsNotCounted(n) == n
AttemptsAfter(n) == n + 1

\* What the failure branch of run_loop keeps of the packets that ran out.
KeptNone(K) == {}
KeptAsFailed(K) == K

\* poll_retries over the due packets D, then run_loop's handling of its result.
PollRetries(D) ==
  LET out   == Exhausted(D)
      again == D \ out
  IN
  /\ D \subseteq pending
  /\ msgs' = msgs \cup Copies(again)
  /\ pending' = pending \ out
  /\ attempts' = [k \in Keys |-> IF k \in again THEN AttemptsAfter(attempts[k])
                                 ELSE IF k \in out THEN 0 ELSE attempts[k]]
  /\ failedSends' = failedSends \cup KeptAsFailed(out)
  /\ told' = SetOn(told, out, "failed")
  /\ UNCHANGED <<nextSeq, refused, hasAddr, run, acks, peerVars>>

-----------------------------------------------------------------------------
(* Packets from a friend, and addresses learnt from others.                *)

FailedFor(p) == {k \in failedSends : k.to = p}

\* note_friend_seen then retry_failed_for: the failed sends that go back to the
\* retransmitter when a packet of p arrives.  The store reports a change unless the
\* packet comes from the address already in front within the same millisecond.
RevivedNever(p, changed, addressed) == {}
Revived(p, changed, addressed) ==
  IF changed /\ addressed THEN FailedFor(p) ELSE {}

\* A packet from an address the store accepts makes the friend addressed; an
\* unreachable source address is filtered out.
NoteFriendSeen(p, changed, learned) ==
  /\ learned => changed
  /\ hasAddr' = [hasAddr EXCEPT ![p] = @ \/ learned]

\* The failed sends K are sent again and are pending anew, unreported.
Requeue(K) ==
  /\ msgs' = msgs \cup Copies(K)
  /\ pending' = pending \cup K
  /\ attempts' = SetOn(attempts, K, 0)
  /\ failedSends' = failedSends \ K

\* Which pending packets an acknowledgement of seq s from p settles.
SettledUpTo(k, P) == {j \in P : j.to = k.to /\ j.seq <= k.seq}
Settled(k, P) == {k} \cap P

\* handle_ack: a late acknowledgement, of a packet that is not pending, is ignored.
HandleAck(k, changed, learned) ==
  LET back == Revived(k.to, changed, hasAddr[k.to] \/ learned)
      done == Settled(k, pending \cup back)
  IN
  /\ k \in acks
  /\ NoteFriendSeen(k.to, changed, learned)
  /\ msgs' = msgs \cup Copies(back)
  /\ pending' = (pending \cup back) \ done
  /\ attempts' = SetOn(attempts, back \cup done, 0)
  /\ failedSends' = (failedSends \ back) \ done
  /\ told' = SetOn(told, done, "acked")
  /\ UNCHANGED <<nextSeq, refused, run, acks, peerVars>>

\* Any other packet from p (ping, pong, its own messages, queries, gossip).
HearFrom(p, changed, learned) ==
  /\ NoteFriendSeen(p, changed, learned)
  /\ Requeue(Revived(p, changed, hasAddr[p] \/ learned))
  /\ UNCHANGED <<nextSeq, told, refused, run, acks, peerVars>>

\* merge_ips changed p's addresses (answer to a query, IP_CHANGED, PUSH_IP).
LearnAddress(p) ==
  /\ hasAddr' = [hasAddr EXCEPT ![p] = TRUE]
  /\ Requeue(FailedFor(p))
  /\ UNCHANGED <<nextSeq, told, refused, run, acks, peerVars>>

\* handle_addr_answer brings nothing new: those of the failed sends that had
\* failed when the query started are sent again.
AddrAnswerHit(p, S) ==
  /\ S \subseteq FailedFor(p)
  /\ hasAddr[p]
  /\ Requeue(S)
  /\ UNCHANGED <<nextSeq, told, refused, hasAddr, run, acks, peerVars>>

-----------------------------------------------------------------------------
(* The friend's side, the wire and restarts.                               *)

\* handle_msg at the friend: a number already in its window is acknowledged again
\* and not shown.
HandleMsg(m) ==
  LET p   == m.key.to
      new == ~IsSeen(sessions[p], m.key.seq)
  IN
  /\ m \in msgs
  /\ acks' = acks \cup {m.key}
  /\ sessions' = [sessions EXCEPT ![p] = MarkSeen(@, m.key.seq)]
  /\ shown' = IF new THEN shown \cup {m} ELSE shown
  /\ repeated' = IF new THEN repeated \cup ({m} \cap shown) ELSE repeated
  /\ UNCHANGED <<sendVars, hasAddr, run, msgs, chunks, rebooted>>

\* The same handler for an attachment chunk of ours, which passes through the same
\* window before its type is looked at.  A chunk may come at any time and in any
\* order; what becomes of it and of its acknowledgement is in AttachTransfer.
HandleChunk(p, c) ==
  /\ sessions' = [sessions EXCEPT ![p] = MarkSeen(@, c)]
  /\ chunks' = IF IsSeen(sessions[p], c) THEN chunks
                ELSE [chunks EXCEPT ![p] = @ \cup {c}]
  /\ UNCHANGED <<sendVars, hasAddr, run, msgs, acks, shown, repeated, rebooted>>

\* UDP loses packets.  It also duplicates and delays them: receiving one leaves it
\* on the wire.
Lose ==
  \/ \E m \in msgs : msgs' = msgs \ {m} /\ UNCHANGED acks
  \/ \E k \in acks : acks' = acks \ {k} /\ UNCHANGED msgs

DropPacket == Lose /\ UNCHANGED <<sendVars, hasAddr, run, peerVars>>

\* The friend's process ends and starts again: its sessions were only in memory.
PeerRestart(p) ==
  /\ sessions' = [sessions EXCEPT ![p] = EmptyWindow]
  /\ rebooted' = rebooted \cup {p}
  /\ UNCHANGED <<sendVars, hasAddr, run, msgs, acks, chunks, shown, repeated>>

\* This process ends and starts again: messages, numbers, pending packets and
\* failed sends were only in memory; the friend store is on disk.
Restart ==
  /\ run < MaxRun
  /\ run' = run + 1
  /\ nextSeq' = [p \in Peers |-> 0]
  /\ pending' = {}
  /\ attempts' = [k \in Keys |-> 0]
  /\ failedSends' = {}
  /\ told' = [k \in Keys |-> "none"]
  /\ refused' = {}
  /\ UNCHANGED <<hasAddr, msgs, acks, peerVars>>

Next ==
  \/ \E p \in Peers : HandleSend(p)
  \/ \E D \in SUBSET pending : PollRetries(D)
  \/ \E k \in acks, changed, learned \in BOOLEAN : HandleAck(k, changed, learned)
  \/ \E p \in Peers, changed, learned \in BOOLEAN : HearFrom(p, changed, learned)
  \/ \E p \in Peers : LearnAddress(p)
  \/ \E p \in Peers : \E S \in SUBSET FailedFor(p) : AddrAnswerHit(p, S)
  \/ \E m \in msgs : HandleMsg(m)
  \/ \E p \in Peers, c \in ChunkSeqs : HandleChunk(p, c)
  \/ DropPacket
  \/ \E p \in Peers : PeerRestart(p)

\* One run of this node; its friends may restart.
Spec == Init /\ [][Next]_vars

\* This node restarts too.
RestartSpec == Init /\ [][Next \/ Restart]_vars

-----------------------------------------------------------------------------
(* Fairness.  run_loop sleeps until the next deadline, so a pending packet  *)
(* is polled.  The link assumption is of the environment: a friend that is  *)
(* heard from again and again, on a link that does not lose every copy of a *)
(* message or of its acknowledgement, nor only in the millisecond of an     *)
(* earlier packet.                                                          *)

PollFairness ==
  \A k \in Keys : WF_vars(\E D \in SUBSET pending : k \in D /\ PollRetries(D))

LinkFairness ==
  /\ \A k \in Keys : /\ SF_vars(\E m \in msgs : m.key = k /\ HandleMsg(m))
                     /\ SF_vars(HandleAck(k, TRUE, TRUE))
  /\ \A p \in Peers : WF_vars(HearFrom(p, TRUE, TRUE))

FairSpec == Spec /\ PollFairness

-----------------------------------------------------------------------------
(* Properties.                                                             *)

\* Whatever order retries, late acknowledgements and address updates come in, the
\* program keeps exactly one record of each message it has accepted and not seen
\* acknowledged: a message said to be "sending" is pending, one said to be "failed"
\* is pending again or kept for a later resend, and one acknowledged is in neither
\* place, so it is never sent again.
NothingForgotten ==
  /\ pending \cap failedSends = {}
  /\ \A k \in Keys :
       /\ told[k] = "sending" => k \in pending
       /\ told[k] = "failed" /\ k \notin refused => k \in pending \cup failedSends
       /\ told[k] \in {"none", "acked"} \/ k \in refused
            => k \notin pending \cup failedSends

\* The check mark tells the truth: a message reported as delivered has been shown by
\* the friend it was for, even if that friend restarts and packets are late.
AckedImpliesShown ==
  \A k \in Keys : told[k] = "acked" => [key |-> k, run |-> run] \in shown

\* What handle_msg takes for a retransmission is one: a copy on the wire whose number
\* the friend remembers carries a message the friend has shown.
SeenImpliesShown ==
  \A m \in msgs : IsSeen(sessions[m.key.to], m.key.seq) => m \in shown

\* What a friend has passed on as new: the numbers of the texts it has shown and of
\* the chunks it has taken.
Taken(p) == {x.key.seq : x \in {y \in shown : y.key.to = p}} \cup chunks[p]

\* A friend shows a message twice only if it has restarted, or if its one window has
\* slid past the number because more than MaxSeen texts and chunks came after it.
DuplicateNeedsOverflow ==
  \A m \in repeated :
     m.key.to \in rebooted \/ Cardinality(Taken(m.key.to)) > MaxSeen

\* Every message that is said to be on its way gets a verdict.
VerdictReached ==
  \A k \in Keys : told[k] = "sending" ~> told[k] \in {"acked", "failed"}

\* A failed message is not a dead end: if its friend is heard from again and again,
\* over a link that is fair, each message that was not refused is acknowledged in the
\* end, with no help from the user.
EventuallyAcked ==
  LinkFairness =>
    \A k \in Keys : told[k] # "none" /\ k \notin refused ~> told[k] = "acked"

\* Delivery implements ReliableMessage: the verdict is the last event, a refused
\* message being told apart from one that is kept.
RM == INSTANCE ReliableMessage WITH
        Messages <- Keys,
        status   <- [k \in Keys |-> IF k \in refused THEN "refused" ELSE told[k]],
        arrived  <- {m.key : m \in shown}

ImplementsReliableMessage == RM!Spec
=============================================================================
