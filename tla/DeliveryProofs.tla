--------------------------- MODULE DeliveryProofs ---------------------------
(***************************************************************************)
(* Proofs about Delivery, for any set of friends, any number of messages   *)
(* and retries, and any window length.  The specification is Spec: this    *)
(* node runs without a restart, its friends may restart, the wire loses,   *)
(* duplicates, delays and reorders.                                        *)
(***************************************************************************)
EXTENDS Delivery, ListLemmas

-----------------------------------------------------------------------------
(* Type correctness.                                                       *)

\* What a window may hold: numbers of texts and numbers of chunks, which differ.
AllSeqs == Seqs \cup ChunkSeqs

LEMMA SeqFacts ==
  /\ Seqs \cap ChunkSeqs = {} /\ Seqs \subseteq AllSeqs /\ ChunkSeqs \subseteq AllSeqs
  /\ IsFiniteSet(AllSeqs)
  /\ EmptyWindow \in Windows(AllSeqs)
<1>1. Seqs \cap ChunkSeqs = {}
  BY DeliveryAssumption DEF Seqs, ChunkSeqs
<1>2. IsFiniteSet(Seqs) /\ IsFiniteSet(ChunkSeqs)
  <2>1. 0 \in Int /\ MaxSeq \in Int /\ AttachSeqBase + 1 \in Int
        /\ AttachSeqBase + MaxChunks \in Int
    BY DeliveryAssumption
  <2>2. QED
    BY <2>1, FS_Interval DEF Seqs, ChunkSeqs
<1>3. IsFiniteSet(AllSeqs)
  BY <1>2, FS_Union DEF AllSeqs
<1>4. EmptyWindow \in Windows(AllSeqs)
  BY DEF EmptyWindow, Windows
<1>5. QED
  BY <1>1, <1>3, <1>4 DEF AllSeqs

\* A key of the two maps is the record of its friend and its number, and Key makes one.
LEMMA KeyFacts ==
  /\ \A k \in Keys : k.to \in Peers /\ k.seq \in Seqs /\ Key(k.to, k.seq) = k
  /\ \A p \in Peers, s \in Seqs : /\ Key(p, s) \in Keys
                                  /\ Key(p, s).to = p
                                  /\ Key(p, s).seq = s
BY DEF Keys, Key

\* The helpers of the actions stay within the types.
LEMMA HelperTypes ==
  ASSUME TypeOK
  PROVE  /\ \A K \in SUBSET Keys : Copies(K) \in SUBSET Packets
         /\ \A p : FailedFor(p) \in SUBSET failedSends
         /\ \A p, c, h : Revived(p, c, h) \in SUBSET failedSends
         /\ \A D \in SUBSET pending : Exhausted(D) \in SUBSET D
         /\ \A k, P : Settled(k, P) \in SUBSET P
BY DeliveryAssumption DEF TypeOK, Copies, Packets, FailedFor, Revived, Exhausted, Settled

Verdicts == {"none", "sending", "failed", "acked"}

\* Setting the attempts or the verdict of a set of keys keeps the function's type.
LEMMA SetOnType ==
  ASSUME TypeOK, NEW K
  PROVE  /\ SetOn(attempts, K, 0) \in [Keys -> 0 .. MaxRetries]
         /\ \A v \in Verdicts : SetOn(told, K, v) \in [Keys -> Verdicts]
<1>1. SetOn(attempts, K, 0) \in [Keys -> 0 .. MaxRetries]
  BY DeliveryAssumption DEF SetOn, TypeOK
<1>2. \A v \in Verdicts : SetOn(told, K, v) \in [Keys -> Verdicts]
  BY DEF SetOn, TypeOK, Verdicts
<1>3. QED
  BY <1>1, <1>2

\* Every state the program reaches is well typed; in particular no packet counts more
\* than MaxRetries retransmissions and no number is used past the bound.
THEOREM TypeCorrect == Spec => []TypeOK
<1>1. Init => TypeOK
  <2> SUFFICES ASSUME Init PROVE TypeOK
    OBVIOUS
  <2>1. QED
    BY SeqFacts, DeliveryAssumption DEF Init, TypeOK, AllSeqs
<1>2. TypeOK /\ [Next]_vars => TypeOK'
  <2> SUFFICES ASSUME TypeOK, [Next]_vars PROVE TypeOK'
    OBVIOUS
  <2> USE DeliveryAssumption
  <2>1. ASSUME NEW p \in Peers, HandleSend(p) PROVE TypeOK'
    <3> DEFINE k == Key(p, nextSeq[p])
    <3>1. nextSeq[p] \in Seqs /\ nextSeq' \in [Peers -> 0 .. MaxSeq + 1]
      BY <2>1 DEF HandleSend, TakeSeq, TypeOK, Seqs
    <3>2. k \in Keys
      BY <3>1, KeyFacts
    <3>3. Copies({k}) \in SUBSET Packets
      BY <3>2, HelperTypes
    <3>4. /\ SetOn(attempts, {k}, 0) \in [Keys -> 0 .. MaxRetries]
          /\ \A v \in {"sending", "failed"} :
               SetOn(told, {k}, v) \in [Keys -> {"none", "sending", "failed", "acked"}]
      BY SetOnType DEF Verdicts
    <3>5. UNCHANGED <<hasAddr, run, acks, peerVars>>
      BY <2>1 DEF HandleSend
    <3> HIDE DEF k
    <3>6. CASE SendNow(p)
      BY <3>1, <3>2, <3>3, <3>4, <3>5, <3>6 DEF SendNow, TypeOK, peerVars, k
    <3>7. CASE SendUnaddressed(p)
      BY <3>1, <3>2, <3>4, <3>5, <3>7 DEF SendUnaddressed, TypeOK, peerVars, k
    <3>8. CASE SendRefused(p)
      BY <3>1, <3>2, <3>4, <3>5, <3>8 DEF SendRefused, TypeOK, peerVars, k
    <3>9. QED
      BY <2>1, <3>6, <3>7, <3>8 DEF HandleSend
  <2>2. ASSUME NEW D \in SUBSET pending, PollRetries(D) PROVE TypeOK'
    <3>1. /\ Exhausted(D) \in SUBSET Keys /\ D \in SUBSET Keys
          /\ Copies(D \ Exhausted(D)) \in SUBSET Packets
      BY HelperTypes DEF TypeOK
    <3>2. attempts' \in [Keys -> 0 .. MaxRetries]
      BY <2>2 DEF PollRetries, TypeOK, Exhausted, AttemptsAfter
    <3>3. told' \in [Keys -> {"none", "sending", "failed", "acked"}]
      BY <2>2, SetOnType DEF PollRetries, Verdicts
    <3>4. QED
      BY <2>2, <3>1, <3>2, <3>3 DEF PollRetries, KeptAsFailed, TypeOK, peerVars
  <2>3. ASSUME NEW K \in SUBSET failedSends, Requeue(K)
        PROVE  /\ msgs' \in SUBSET Packets
               /\ pending' \in SUBSET Keys
               /\ attempts' \in [Keys -> 0 .. MaxRetries]
               /\ failedSends' \in SUBSET Keys
    <3>1. K \in SUBSET Keys
      BY DEF TypeOK
    <3>2. Copies(K) \in SUBSET Packets
      BY <3>1, HelperTypes
    <3>3. QED
      BY <2>3, <3>1, <3>2, SetOnType DEF Requeue, TypeOK
  <2>4. ASSUME NEW p \in Peers, NEW changed \in BOOLEAN, NEW learned \in BOOLEAN,
               NoteFriendSeen(p, changed, learned)
        PROVE  hasAddr' \in [Peers -> BOOLEAN]
    BY <2>4 DEF NoteFriendSeen, TypeOK
  <2>5. ASSUME NEW k \in acks, NEW changed \in BOOLEAN, NEW learned \in BOOLEAN,
               HandleAck(k, changed, learned)
        PROVE  TypeOK'
    <3> DEFINE back == Revived(k.to, changed, hasAddr[k.to] \/ learned)
               done == Settled(k, pending \cup back)
    <3>1. k.to \in Peers
      BY KeyFacts DEF TypeOK
    <3>2. back \in SUBSET Keys /\ done \in SUBSET Keys
      BY HelperTypes DEF TypeOK
    <3>3. Copies(back) \in SUBSET Packets
      BY <3>2, HelperTypes
    <3>4. hasAddr' \in [Peers -> BOOLEAN]
      BY <2>4, <2>5, <3>1 DEF HandleAck
    <3>5. /\ attempts' \in [Keys -> 0 .. MaxRetries]
          /\ told' \in [Keys -> {"none", "sending", "failed", "acked"}]
      BY <2>5, SetOnType DEF HandleAck, Verdicts
    <3> HIDE DEF back, done
    <3>6. QED
      BY <2>5, <3>2, <3>3, <3>4, <3>5 DEF HandleAck, TypeOK, peerVars, back, done
  <2>6. ASSUME NEW p \in Peers, NEW changed \in BOOLEAN, NEW learned \in BOOLEAN,
               HearFrom(p, changed, learned)
        PROVE  TypeOK'
    <3>1. Revived(p, changed, hasAddr[p] \/ learned) \in SUBSET failedSends
      BY HelperTypes
    <3>2. QED
      BY <2>3, <2>4, <2>6, <3>1 DEF HearFrom, TypeOK, peerVars
  <2>7. ASSUME NEW p \in Peers, LearnAddress(p) PROVE TypeOK'
    <3>1. FailedFor(p) \in SUBSET failedSends
      BY HelperTypes
    <3>2. QED
      BY <2>3, <2>7, <3>1 DEF LearnAddress, TypeOK, peerVars
  <2>8. ASSUME NEW p \in Peers, NEW S \in SUBSET FailedFor(p), AddrAnswerHit(p, S)
        PROVE  TypeOK'
    <3>1. S \in SUBSET failedSends
      BY HelperTypes
    <3>2. QED
      BY <2>3, <2>8, <3>1 DEF AddrAnswerHit, TypeOK, peerVars
  <2>9. ASSUME NEW m \in msgs, HandleMsg(m) PROVE TypeOK'
    <3>1. m \in Packets /\ m.key \in Keys
      BY DEF TypeOK, Packets
    <3>2. sessions' \in [Peers -> Windows(AllSeqs)]
      BY <2>9, <3>1, KeyFacts, SeqFacts, MarkSeenType DEF HandleMsg, TypeOK, AllSeqs
    <3>3. QED
      BY <2>9, <3>1, <3>2 DEF HandleMsg, TypeOK, sendVars, AllSeqs
  <2>10. ASSUME DropPacket PROVE TypeOK'
    BY <2>10 DEF DropPacket, Lose, TypeOK, sendVars, peerVars
  <2>11. ASSUME NEW p \in Peers, PeerRestart(p) PROVE TypeOK'
    <3>1. QED
      BY <2>11, SeqFacts DEF PeerRestart, TypeOK, sendVars, AllSeqs
  <2>12. CASE UNCHANGED vars
    BY <2>12 DEF TypeOK, vars, sendVars, peerVars
  <2>13. ASSUME NEW p \in Peers, NEW c \in ChunkSeqs, HandleChunk(p, c) PROVE TypeOK'
    <3>1. sessions' \in [Peers -> Windows(AllSeqs)]
      BY <2>13, SeqFacts, MarkSeenType DEF HandleChunk, TypeOK, AllSeqs
    <3>2. chunks' \in [Peers -> SUBSET ChunkSeqs]
      BY <2>13 DEF HandleChunk, TypeOK
    <3>3. QED
      BY <2>13, <3>1, <3>2 DEF HandleChunk, TypeOK, sendVars, AllSeqs
  <2>14. QED
    BY <2>1, <2>2, <2>5, <2>6, <2>7, <2>8, <2>9, <2>10, <2>11, <2>12, <2>13 DEF Next
<1>3. QED
  BY <1>1, <1>2, PTL DEF Spec

-----------------------------------------------------------------------------
(* The inductive invariant.                                                *)

Copy(k) == [key |-> k, run |-> run]

\* The numbers the application has not used yet belong to no message.
FreshNumbers ==
  \A p \in Peers, s \in Seqs : s >= nextSeq[p] => told[Key(p, s)] = "none"

\* A refused message was reported failed, and nothing else happened to it.
RefusedFailed == \A k \in refused : told[k] = "failed"

\* Only messages of this run that were accepted are on the wire.
WireAccepted ==
  \A m \in msgs : m.run = run /\ told[m.key] # "none" /\ m.key \notin refused

\* A friend remembers, and acknowledges, only texts it has shown and chunks it has
\* taken.
WindowShown ==
  \A p \in Peers, s \in Seqs : IsSeen(sessions[p], s) => Copy(Key(p, s)) \in shown
WindowChunks ==
  \A p \in Peers, c \in ChunkSeqs : IsSeen(sessions[p], c) => c \in chunks[p]
AcksShown == \A k \in acks : Copy(k) \in shown

WindowBounded == \A p \in Peers : WellFormed(sessions[p])

IInv ==
  /\ TypeOK
  /\ NothingForgotten
  /\ FreshNumbers
  /\ RefusedFailed
  /\ WireAccepted
  /\ WindowShown
  /\ WindowChunks
  /\ AcksShown
  /\ AckedImpliesShown
  /\ WindowBounded

\* The invariant holds before anything is sent.
LEMMA InitIInv == Init => IInv
<1> SUFFICES ASSUME Init PROVE IInv
  OBVIOUS
<1>1. TypeOK
  <2>1. QED
    BY SeqFacts, DeliveryAssumption DEF Init, TypeOK, AllSeqs
<1>2. NothingForgotten /\ FreshNumbers /\ RefusedFailed
  BY KeyFacts DEF Init, NothingForgotten, FreshNumbers, RefusedFailed
<1>3. WireAccepted /\ WindowShown /\ WindowChunks /\ AcksShown /\ AckedImpliesShown
  BY DEF Init, WireAccepted, WindowShown, WindowChunks, AcksShown, AckedImpliesShown, IsSeen, EmptyWindow
<1>4. WindowBounded
  <2>1. WellFormed(EmptyWindow)
    BY MaxSeenAssumption DEF WellFormed, EmptyWindow
  <2>2. QED
    BY <2>1 DEF Init, WindowBounded
<1>5. QED
  BY <1>1, <1>2, <1>3, <1>4 DEF IInv

\* Handing over a message: its number is fresh, so no record of it exists.
LEMMA HandleSendIInv ==
  ASSUME IInv, TypeOK', NEW p \in Peers, HandleSend(p)
  PROVE  IInv'
<1> DEFINE k == Key(p, nextSeq[p])
<1>1. nextSeq[p] \in Seqs /\ nextSeq' = [nextSeq EXCEPT ![p] = @ + 1]
  BY DEF HandleSend, TakeSeq, IInv, TypeOK, Seqs
<1>2. k \in Keys /\ k.to = p /\ k.seq = nextSeq[p]
  BY <1>1, KeyFacts
<1>3. told[k] = "none"
  BY <1>1 DEF IInv, FreshNumbers, Seqs
<1>4. k \notin pending /\ k \notin failedSends /\ k \notin refused
  BY <1>2, <1>3 DEF IInv, NothingForgotten, RefusedFailed
<1>5. /\ UNCHANGED <<hasAddr, run, acks, sessions, chunks, shown, repeated, rebooted>>
      /\ \E v \in {"sending", "failed"} : told' = SetOn(told, {k}, v)
  BY DEF HandleSend, SendNow, SendUnaddressed, SendRefused, peerVars
<1> HIDE DEF k
<1>6. NothingForgotten'
  <2>1. CASE SendNow(p)
    BY <2>1, <1>2, <1>4 DEF SendNow, IInv, NothingForgotten, SetOn, k
  <2>2. CASE SendUnaddressed(p)
    BY <2>2, <1>2, <1>4 DEF SendUnaddressed, IInv, NothingForgotten, SetOn, k
  <2>3. CASE SendRefused(p)
    BY <2>3, <1>2, <1>4 DEF SendRefused, IInv, NothingForgotten, SetOn, k
  <2>4. QED
    BY <2>1, <2>2, <2>3 DEF HandleSend
<1>7. FreshNumbers'
  <2> SUFFICES ASSUME NEW q \in Peers, NEW s \in Seqs, s >= nextSeq'[q]
               PROVE  told'[Key(q, s)] = "none"
    BY DEF FreshNumbers
  <2>1. s >= nextSeq[q] /\ Key(q, s) # k
    BY <1>1, <1>2, KeyFacts DEF IInv, TypeOK, Seqs
  <2>2. QED
    BY <2>1, <1>5, KeyFacts DEF IInv, FreshNumbers, SetOn
<1>8. RefusedFailed'
  <2>1. CASE SendNow(p)
    BY <2>1, <1>4 DEF SendNow, IInv, RefusedFailed, SetOn, k, TypeOK
  <2>2. CASE SendUnaddressed(p)
    BY <2>2, <1>4 DEF SendUnaddressed, IInv, RefusedFailed, SetOn, k, TypeOK
  <2>3. CASE SendRefused(p)
    BY <2>3, <1>2, <1>4 DEF SendRefused, IInv, RefusedFailed, SetOn, k, TypeOK
  <2>4. QED
    BY <2>1, <2>2, <2>3 DEF HandleSend
<1>9. WireAccepted'
  <2>0. \A m \in msgs : m.key \in Keys /\ m.key # k
    BY <1>3 DEF IInv, TypeOK, Packets, WireAccepted
  <2>1. CASE SendNow(p)
    BY <2>0, <2>1, <1>2, <1>4, <1>5 DEF SendNow, IInv, WireAccepted, SetOn, Copies, k
  <2>2. CASE SendUnaddressed(p)
    BY <2>0, <2>2, <1>5 DEF SendUnaddressed, IInv, WireAccepted, SetOn, k
  <2>3. CASE SendRefused(p)
    BY <2>0, <2>3, <1>5 DEF SendRefused, IInv, WireAccepted, SetOn, k
  <2>4. QED
    BY <2>1, <2>2, <2>3 DEF HandleSend
<1>10. WindowShown' /\ WindowChunks' /\ AcksShown' /\ WindowBounded'
  BY <1>5 DEF IInv, WindowShown, WindowChunks, AcksShown, WindowBounded, Copy, WellFormed
<1>11. AckedImpliesShown'
  BY <1>5 DEF IInv, AckedImpliesShown, SetOn
<1>12. QED
  BY <1>6, <1>7, <1>8, <1>9, <1>10, <1>11 DEF IInv

\* The retry pass.
LEMMA PollRetriesIInv ==
  ASSUME IInv, TypeOK', NEW D \in SUBSET pending, PollRetries(D)
  PROVE  IInv'
<1> DEFINE out == Exhausted(D)
           again == D \ out
<1>1. out \in SUBSET pending /\ again \in SUBSET pending /\ pending \in SUBSET Keys
  BY HelperTypes DEF IInv, TypeOK
<1>2. \A k \in pending : told[k] \in {"sending", "failed"} /\ k \notin refused
  BY <1>1 DEF IInv, NothingForgotten, TypeOK
<1>3. /\ pending' = pending \ out
      /\ failedSends' = failedSends \cup out
      /\ told' = SetOn(told, out, "failed")
      /\ msgs' = msgs \cup Copies(again)
      /\ UNCHANGED <<nextSeq, refused, hasAddr, run, acks, sessions, chunks, shown, repeated, rebooted>>
  BY DEF PollRetries, KeptAsFailed, peerVars
<1> HIDE DEF out, again
<1>4. NothingForgotten'
  BY <1>1, <1>2, <1>3 DEF IInv, NothingForgotten, SetOn
<1>5. FreshNumbers'
  BY <1>1, <1>2, <1>3, KeyFacts DEF IInv, FreshNumbers, SetOn
<1>6. RefusedFailed'
  BY <1>3 DEF IInv, RefusedFailed, SetOn, TypeOK
<1>7. WireAccepted'
  <2>1. \A m \in msgs : m.key \in Keys
    BY DEF IInv, TypeOK, Packets
  <2>2. \A m \in Copies(again) : m.run = run /\ m.key \in pending
    BY <1>1 DEF Copies
  <2>3. QED
    BY <1>1, <1>2, <1>3, <2>1, <2>2 DEF IInv, WireAccepted, SetOn
<1>8. WindowShown' /\ WindowChunks' /\ AcksShown' /\ WindowBounded'
  BY <1>3 DEF IInv, WindowShown, WindowChunks, AcksShown, WindowBounded, Copy, WellFormed
<1>9. AckedImpliesShown'
  BY <1>3 DEF IInv, AckedImpliesShown, SetOn
<1>10. QED
  BY <1>4, <1>5, <1>6, <1>7, <1>8, <1>9 DEF IInv

\* The failed sends K go back to the retransmitter.
LEMMA RequeueIInv ==
  ASSUME IInv, TypeOK', NEW K \in SUBSET failedSends, Requeue(K),
         UNCHANGED <<nextSeq, told, refused, run, acks, peerVars>>
  PROVE  IInv'
<1>1. failedSends \in SUBSET Keys
  BY DEF IInv, TypeOK
<1>2. \A k \in failedSends : told[k] = "failed" /\ k \notin refused /\ k \notin pending
  BY <1>1 DEF IInv, NothingForgotten, TypeOK
<1>3. NothingForgotten'
  BY <1>1, <1>2 DEF IInv, NothingForgotten, Requeue
<1>4. WireAccepted'
  BY <1>1, <1>2 DEF IInv, WireAccepted, Requeue, Copies
<1>5. FreshNumbers' /\ RefusedFailed' /\ AckedImpliesShown'
  BY DEF IInv, FreshNumbers, RefusedFailed, AckedImpliesShown, peerVars
<1>6. WindowShown' /\ WindowChunks' /\ AcksShown' /\ WindowBounded'
  BY DEF IInv, WindowShown, WindowChunks, AcksShown, WindowBounded, Copy, WellFormed, peerVars
<1>7. QED
  BY <1>3, <1>4, <1>5, <1>6 DEF IInv

\* An acknowledgement, after the resend its arrival causes: it settles only the packet
\* it names, which its sender has shown.
LEMMA HandleAckIInv ==
  ASSUME IInv, TypeOK', NEW k \in acks, NEW changed, NEW learned,
         HandleAck(k, changed, learned)
  PROVE  IInv'
<1> DEFINE back == Revived(k.to, changed, hasAddr[k.to] \/ learned)
           done == Settled(k, pending \cup back)
<1>1. /\ back \in SUBSET failedSends /\ failedSends \in SUBSET Keys
      /\ pending \in SUBSET Keys /\ k \in Keys
      /\ done \subseteq {k} /\ done \subseteq pending \cup back
  BY HelperTypes DEF IInv, TypeOK, Settled
<1>2. /\ \A j \in failedSends : told[j] = "failed" /\ j \notin refused /\ j \notin pending
      /\ \A j \in pending : told[j] \in {"sending", "failed"} /\ j \notin refused
  BY <1>1 DEF IInv, NothingForgotten, TypeOK
<1>3. Copy(k) \in shown
  BY DEF IInv, AcksShown
<1>4. /\ pending' = (pending \cup back) \ done
      /\ failedSends' = (failedSends \ back) \ done
      /\ told' = SetOn(told, done, "acked")
      /\ msgs' = msgs \cup Copies(back)
      /\ UNCHANGED <<nextSeq, refused, run, acks, sessions, chunks, shown, repeated, rebooted>>
  BY DEF HandleAck, peerVars
<1> HIDE DEF back, done
<1>5. NothingForgotten'
  BY <1>1, <1>2, <1>4 DEF IInv, NothingForgotten, SetOn
<1>6. FreshNumbers'
  BY <1>1, <1>2, <1>4, KeyFacts DEF IInv, FreshNumbers, SetOn
<1>7. RefusedFailed'
  BY <1>1, <1>2, <1>4 DEF IInv, RefusedFailed, SetOn, TypeOK
<1>8. WireAccepted'
  <2>1. \A m \in msgs : m.key \in Keys
    BY DEF IInv, TypeOK, Packets
  <2>2. \A m \in Copies(back) : m.run = run /\ m.key \in failedSends
    BY <1>1 DEF Copies
  <2>3. \A j \in Keys : told'[j] = "none" => told[j] = "none"
    BY <1>4 DEF SetOn
  <2>4. QED
    BY <1>1, <1>2, <1>4, <2>1, <2>2, <2>3 DEF IInv, WireAccepted
<1>9. WindowShown' /\ WindowChunks' /\ AcksShown' /\ WindowBounded'
  BY <1>4 DEF IInv, WindowShown, WindowChunks, AcksShown, WindowBounded, Copy, WellFormed
<1>10. AckedImpliesShown'
  BY <1>1, <1>3, <1>4 DEF IInv, AckedImpliesShown, SetOn, Copy
<1>11. QED
  BY <1>5, <1>6, <1>7, <1>8, <1>9, <1>10 DEF IInv

\* A copy arrives at the friend: the window remembers nothing but numbers of messages
\* it shows now or has shown.
LEMMA HandleMsgIInv ==
  ASSUME IInv, TypeOK', NEW m \in msgs, HandleMsg(m)
  PROVE  IInv'
<1> DEFINE p == m.key.to
           s == m.key.seq
           w == sessions[p]
<1>1. /\ m \in Packets /\ m.key \in Keys /\ m = Copy(m.key)
      /\ p \in Peers /\ s \in Seqs /\ m.key = Key(p, s)
  BY KeyFacts DEF IInv, TypeOK, Packets, WireAccepted, Copy
<1>2. UNCHANGED <<nextSeq, pending, attempts, failedSends, told, refused, hasAddr, run, msgs>>
  BY DEF HandleMsg, sendVars
<1>3. /\ acks' = acks \cup {m.key}
      /\ sessions' = [sessions EXCEPT ![p] = MarkSeen(w, s)]
      /\ shown \subseteq shown' /\ (~IsSeen(w, s) => m \in shown')
  BY DEF HandleMsg
<1>4. w \in Windows(AllSeqs) /\ WellFormed(w) /\ s \in AllSeqs
  BY <1>1, SeqFacts DEF IInv, TypeOK, WindowBounded, AllSeqs
<1>5. m \in shown'
  BY <1>1, <1>3 DEF IInv, WindowShown
<1>6. NothingForgotten' /\ FreshNumbers' /\ RefusedFailed' /\ WireAccepted'
  BY <1>2 DEF IInv, NothingForgotten, FreshNumbers, RefusedFailed, WireAccepted
<1>7. AcksShown' /\ AckedImpliesShown'
  BY <1>1, <1>2, <1>3, <1>5 DEF IInv, AcksShown, AckedImpliesShown, Copy
<1>8. WindowShown'
  <2> SUFFICES ASSUME NEW q \in Peers, NEW r \in Seqs, IsSeen(sessions'[q], r)
               PROVE  Copy(Key(q, r))' \in shown'
    BY DEF WindowShown
  <2>1. CASE q # p
    BY <1>2, <1>3, <2>1 DEF IInv, TypeOK, WindowShown, Copy
  <2>2. CASE q = p
    <3>1. sessions'[q] = MarkSeen(w, s)
      BY <1>1, <1>3, <2>2 DEF IInv, TypeOK
    <3>2. r \in w.seenSet \/ r = s
      BY <3>1, MarkSeenAddsOnly DEF IsSeen
    <3>3. CASE r \in w.seenSet
      BY <1>2, <1>3, <2>2, <3>3 DEF IInv, WindowShown, IsSeen, Copy
    <3>4. CASE r = s
      BY <1>1, <1>2, <1>5, <2>2, <3>4 DEF Copy
    <3>5. QED
      BY <3>2, <3>3, <3>4
  <2>3. QED
    BY <2>1, <2>2
<1>9. WindowBounded'
  <2>1. WellFormed(MarkSeen(w, s))
    BY <1>1, <1>4, MarkSeenWellFormed
  <2> SUFFICES ASSUME NEW q \in Peers PROVE WellFormed(sessions'[q])
    BY DEF WindowBounded, WellFormed
  <2>2. QED
    BY <1>1, <1>3, <2>1 DEF IInv, TypeOK, WindowBounded
<1>10. WindowChunks'
  <2>1. \A q \in Peers, c \in ChunkSeqs : IsSeen(sessions'[q], c) => IsSeen(sessions[q], c)
    BY <1>1, <1>3, SeqFacts, MarkSeenAddsOnly DEF IInv, TypeOK, IsSeen
  <2>2. QED
    BY <2>1 DEF IInv, WindowChunks, HandleMsg
<1>11. QED
  BY <1>6, <1>7, <1>8, <1>9, <1>10 DEF IInv

\* A chunk arrives at the friend: it takes its place in the window, and no text does.
LEMMA HandleChunkIInv ==
  ASSUME IInv, TypeOK', NEW p \in Peers, NEW c \in ChunkSeqs, HandleChunk(p, c)
  PROVE  IInv'
<1> DEFINE w == sessions[p]
<1>1. /\ UNCHANGED <<nextSeq, pending, attempts, failedSends, told, refused, hasAddr, run,
                     msgs, acks, shown>>
      /\ sessions' = [sessions EXCEPT ![p] = MarkSeen(w, c)]
      /\ chunks' = IF IsSeen(w, c) THEN chunks ELSE [chunks EXCEPT ![p] = @ \cup {c}]
  BY DEF HandleChunk, sendVars
<1>2. w \in Windows(AllSeqs) /\ WellFormed(w) /\ c \in AllSeqs
  BY SeqFacts DEF IInv, TypeOK, WindowBounded, AllSeqs
<1>3. \A q \in Peers : sessions'[q] = IF q = p THEN MarkSeen(w, c) ELSE sessions[q]
  BY <1>1 DEF IInv, TypeOK
<1>4. \A r : IsSeen(MarkSeen(w, c), r) => IsSeen(w, r) \/ r = c
  BY MarkSeenAddsOnly DEF IsSeen
<1>5. /\ \A q \in Peers : chunks[q] \subseteq chunks'[q]
      /\ c \in chunks'[p]
  BY <1>1 DEF IInv, TypeOK, WindowChunks
<1> HIDE DEF w
<1>6. WindowShown'
  <2> SUFFICES ASSUME NEW q \in Peers, NEW r \in Seqs, IsSeen(sessions'[q], r)
               PROVE  Copy(Key(q, r))' \in shown'
    BY DEF WindowShown
  <2>1. IsSeen(sessions[q], r)
    BY <1>3, <1>4, SeqFacts DEF w
  <2>2. QED
    BY <1>1, <2>1 DEF IInv, WindowShown, Copy
<1>7. WindowChunks'
  <2> SUFFICES ASSUME NEW q \in Peers, NEW r \in ChunkSeqs, IsSeen(sessions'[q], r)
               PROVE  r \in chunks'[q]
    BY DEF WindowChunks
  <2>1. IsSeen(sessions[q], r) \/ (q = p /\ r = c)
    BY <1>3, <1>4 DEF w
  <2>2. QED
    BY <1>5, <2>1 DEF IInv, WindowChunks
<1>8. WindowBounded'
  <2>1. WellFormed(MarkSeen(w, c))
    BY <1>2, MarkSeenWellFormed
  <2> SUFFICES ASSUME NEW q \in Peers PROVE WellFormed(sessions'[q])
    BY DEF WindowBounded, WellFormed
  <2>2. QED
    BY <1>3, <2>1 DEF IInv, WindowBounded
<1>9. NothingForgotten' /\ FreshNumbers' /\ RefusedFailed' /\ WireAccepted'
  BY <1>1 DEF IInv, NothingForgotten, FreshNumbers, RefusedFailed, WireAccepted
<1>10. AcksShown' /\ AckedImpliesShown'
  BY <1>1 DEF IInv, AcksShown, AckedImpliesShown, Copy
<1>11. QED
  BY <1>6, <1>7, <1>8, <1>9, <1>10 DEF IInv

\* Losing packets only removes what the invariant speaks of; a friend that restarts
\* forgets, which makes its window remember nothing it has not shown.
LEMMA EnvironmentIInv ==
  ASSUME IInv, TypeOK', DropPacket \/ \E p \in Peers : PeerRestart(p)
  PROVE  IInv'
<1>1. CASE DropPacket
  <2>1. /\ UNCHANGED <<nextSeq, pending, attempts, failedSends, told, refused, run,
                       sessions, chunks, shown>>
        /\ msgs' \subseteq msgs /\ acks' \subseteq acks
    BY <1>1 DEF DropPacket, Lose, sendVars, peerVars
  <2>2. QED
    BY <2>1 DEF IInv, NothingForgotten, FreshNumbers, RefusedFailed, WireAccepted,
                WindowShown, WindowChunks, AcksShown, AckedImpliesShown, WindowBounded, WellFormed, Copy
<1>2. ASSUME NEW p \in Peers, PeerRestart(p) PROVE IInv'
  <2>1. /\ UNCHANGED <<nextSeq, pending, attempts, failedSends, told, refused, run,
                       msgs, acks, chunks, shown>>
        /\ sessions' = [sessions EXCEPT ![p] = EmptyWindow]
    BY <1>2 DEF PeerRestart, sendVars
  <2>2. /\ \A s : ~IsSeen(EmptyWindow, s)
        /\ WellFormed(EmptyWindow)
    BY MaxSeenAssumption DEF WellFormed, EmptyWindow, IsSeen
  <2>3. \A q \in Peers : sessions'[q] = EmptyWindow \/ sessions'[q] = sessions[q]
    BY <2>1 DEF IInv, TypeOK
  <2>4. WindowShown' /\ WindowChunks'
    BY <2>1, <2>2, <2>3 DEF IInv, WindowShown, WindowChunks, IsSeen, Copy
  <2>5. WindowBounded'
    <3> SUFFICES ASSUME NEW q \in Peers PROVE WellFormed(sessions'[q])
      BY DEF WindowBounded, WellFormed
    <3>1. QED
      BY <2>2, <2>3 DEF IInv, WindowBounded
  <2>6. QED
    BY <2>1, <2>4, <2>5 DEF IInv, NothingForgotten, FreshNumbers, RefusedFailed,
                            WireAccepted, AcksShown, AckedImpliesShown, Copy
<1>3. QED
  BY <1>1, <1>2

\* Each action keeps the invariant.
LEMMA NextIInv == IInv /\ TypeOK' /\ [Next]_vars => IInv'
<1> SUFFICES ASSUME IInv, TypeOK', [Next]_vars PROVE IInv'
  OBVIOUS
<1>1. ASSUME NEW p \in Peers, NEW changed \in BOOLEAN, NEW learned \in BOOLEAN,
             HearFrom(p, changed, learned)
      PROVE  IInv'
  BY <1>1, HelperTypes, RequeueIInv DEF HearFrom, IInv
<1>2. ASSUME NEW p \in Peers, LearnAddress(p) PROVE IInv'
  BY <1>2, HelperTypes, RequeueIInv DEF LearnAddress, IInv
<1>3. ASSUME NEW p \in Peers, NEW S \in SUBSET FailedFor(p), AddrAnswerHit(p, S)
      PROVE  IInv'
  <2>1. S \in SUBSET failedSends
    BY HelperTypes DEF IInv
  <2>2. QED
    BY <1>3, <2>1, RequeueIInv DEF AddrAnswerHit
<1>4. CASE UNCHANGED vars
  BY <1>4 DEF vars, sendVars, peerVars, IInv, NothingForgotten, FreshNumbers, RefusedFailed,
              WireAccepted, WindowShown, WindowChunks, AcksShown, AckedImpliesShown,
              WindowBounded, WellFormed, Copy
<1>5. QED
  BY <1>1, <1>2, <1>3, <1>4, HandleSendIInv, PollRetriesIInv, HandleAckIInv,
     HandleMsgIInv, HandleChunkIInv, EnvironmentIInv DEF Next

THEOREM InductiveInvariant == Spec => []IInv
<1>1. Spec => []TypeOK
  BY TypeCorrect
<1>2. QED
  BY <1>1, InitIInv, NextIInv, PTL DEF Spec

-----------------------------------------------------------------------------
(* What follows.                                                           *)

\* A message shown as delivered has been shown by its friend, for any number of
\* friends, messages, retries, losses, late packets and restarts of friends.
THEOREM AckedIsShown == Spec => []AckedImpliesShown
<1>1. IInv => AckedImpliesShown
  BY DEF IInv
<1>2. QED
  BY <1>1, InductiveInvariant, PTL

\* The retransmitter and the failed sends partition the accepted messages that are not
\* acknowledged: none is lost track of, none is sent after its acknowledgement.
THEOREM NoMessageForgotten == Spec => []NothingForgotten
<1>1. IInv => NothingForgotten
  BY DEF IInv
<1>2. QED
  BY <1>1, InductiveInvariant, PTL

\* A copy the friend drops as a duplicate is one of a message it has shown.
THEOREM DuplicatesWereShown == Spec => []SeenImpliesShown
<1>1. IInv => SeenImpliesShown
  <2> SUFFICES ASSUME IInv, NEW m \in msgs, IsSeen(sessions[m.key.to], m.key.seq)
               PROVE  m \in shown
    BY DEF SeenImpliesShown
  <2>1. /\ m.key.to \in Peers /\ m.key.seq \in Seqs
        /\ m = Copy(Key(m.key.to, m.key.seq))
    BY KeyFacts DEF IInv, TypeOK, Packets, WireAccepted, Copy
  <2>2. QED
    BY <2>1 DEF IInv, WindowShown
<1>2. QED
  BY <1>1, InductiveInvariant, PTL

\* A PeerSession never holds more than MaxSeen numbers, and its set and its deque agree.
THEOREM WindowStaysBounded == Spec => []WindowBounded
<1>1. IInv => WindowBounded
  BY DEF IInv
<1>2. QED
  BY <1>1, InductiveInvariant, PTL

-----------------------------------------------------------------------------
(* Copies shown twice.                                                     *)

\* What a friend has shown in its present run is in its window, unless the window has
\* been full.
Remembered ==
  \A m \in shown : m.key.to \notin rebooted =>
    m.key.seq \in sessions[m.key.to].seenSet \/ Len(sessions[m.key.to].seen) = MaxSeen

\* What has been taken is a finite set; as it grows it stays above a count it has passed.
LEMMA TakenGrows ==
  ASSUME NEW S, NEW T \in SUBSET AllSeqs, S \subseteq T
  PROVE  IsFiniteSet(T) /\ (Cardinality(S) > MaxSeen => Cardinality(T) > MaxSeen)
<1>1. IsFiniteSet(T)
  BY SeqFacts, FS_Subset
<1>2. Cardinality(S) <= Cardinality(T) /\ Cardinality(S) \in Nat /\ Cardinality(T) \in Nat
  BY <1>1, FS_Subset, FS_CardinalityType
<1>3. QED
  BY <1>1, <1>2, MaxSeenAssumption

\* A number shown again was evicted: its window was full, of other numbers.
LEMMA HandleMsgCounts ==
  ASSUME IInv, Remembered, DuplicateNeedsOverflow, NEW m \in msgs, HandleMsg(m)
  PROVE  Remembered' /\ DuplicateNeedsOverflow'
<1> DEFINE p == m.key.to
           s == m.key.seq
           w == sessions[p]
<1>1. m \in Packets /\ p \in Peers /\ s \in Seqs
  BY KeyFacts DEF IInv, TypeOK, Packets
<1>2. /\ sessions' = [sessions EXCEPT ![p] = MarkSeen(w, s)]
      /\ shown' = IF ~IsSeen(w, s) THEN shown \cup {m} ELSE shown
      /\ repeated' = IF ~IsSeen(w, s) THEN repeated \cup ({m} \cap shown) ELSE repeated
      /\ rebooted' = rebooted /\ chunks' = chunks
  BY DEF HandleMsg
<1>3. w \in Windows(AllSeqs) /\ WellFormed(w) /\ s \in AllSeqs
  BY <1>1, SeqFacts DEF IInv, TypeOK, WindowBounded, AllSeqs
<1>4. \A x \in shown : x.key.to \in Peers /\ x.key.seq \in Seqs
  BY KeyFacts DEF IInv, TypeOK, Packets
<1>5. \A q \in Peers : sessions'[q] = IF q = p THEN MarkSeen(w, s) ELSE sessions[q]
  BY <1>1, <1>2 DEF IInv, TypeOK
<1>6. /\ \A x \in w.seenSet : x \in MarkSeen(w, s).seenSet \/ Len(MarkSeen(w, s).seen) = MaxSeen
      /\ Len(w.seen) = MaxSeen => Len(MarkSeen(w, s).seen) = MaxSeen
      /\ s \in MarkSeen(w, s).seenSet
  BY <1>1, <1>3, MarkSeenForgets, MarkSeenWellFormed DEF IsSeen
<1>7. Remembered'
  <2>1. ASSUME NEW x \in shown', x.key.to \notin rebooted
        PROVE  \/ x.key.seq \in sessions'[x.key.to].seenSet
               \/ Len(sessions'[x.key.to].seen) = MaxSeen
    <3>1. CASE x = m
      BY <1>1, <1>5, <1>6, <3>1
    <3>2. CASE x # m
      <4>1. x \in shown /\ x.key.to \in Peers
        BY <1>2, <1>4, <2>1, <3>2
      <4>2. \/ x.key.seq \in sessions[x.key.to].seenSet
            \/ Len(sessions[x.key.to].seen) = MaxSeen
        BY <2>1, <4>1 DEF Remembered
      <4>3. QED
        BY <1>5, <1>6, <4>1, <4>2
    <3>3. QED
      BY <3>1, <3>2
  <2>2. QED
    BY <1>2, <2>1 DEF Remembered
<1>8. \A q \in Peers : /\ Taken(q) \subseteq Taken(q)' /\ IsFiniteSet(Taken(q)')
                       /\ Cardinality(Taken(q)) > MaxSeen => Cardinality(Taken(q)') > MaxSeen
  <2> SUFFICES ASSUME NEW q \in Peers
               PROVE  /\ Taken(q) \subseteq Taken(q)' /\ IsFiniteSet(Taken(q)')
                      /\ Cardinality(Taken(q)) > MaxSeen => Cardinality(Taken(q)') > MaxSeen
    OBVIOUS
  <2>1. \A x \in shown' : x.key.seq \in Seqs
    BY <1>1, <1>2, <1>4
  <2>2. chunks'[q] \in SUBSET ChunkSeqs /\ chunks'[q] = chunks[q]
    BY <1>2 DEF IInv, TypeOK
  <2>3. Taken(q)' \in SUBSET AllSeqs
    BY <2>1, <2>2, SeqFacts DEF Taken, AllSeqs
  <2>4. Taken(q) \subseteq Taken(q)'
    BY <1>2, <2>2 DEF Taken
  <2>5. QED
    BY <2>3, <2>4, TakenGrows
<1>9. ASSUME ~IsSeen(w, s), m \in shown, p \notin rebooted
      PROVE  Cardinality(Taken(p)') > MaxSeen
  <2>1. Len(w.seen) = MaxSeen /\ s \notin w.seenSet
    BY <1>9 DEF Remembered, IsSeen
  <2>2. w.seenSet \subseteq Taken(p)
    <3>1. SUFFICES ASSUME NEW r \in w.seenSet PROVE r \in Taken(p)
      OBVIOUS
    <3>2. r \in Seqs \/ r \in ChunkSeqs
      BY <1>3, <3>1 DEF Windows, AllSeqs
    <3>3. CASE r \in Seqs
      <4>1. Copy(Key(p, r)) \in shown
        BY <1>1, <3>1, <3>3 DEF IInv, WindowShown, IsSeen
      <4>2. Copy(Key(p, r)).key = Key(p, r) /\ Key(p, r).to = p /\ Key(p, r).seq = r
        BY <1>1, <3>3, KeyFacts DEF Copy
      <4>3. QED
        BY <4>1, <4>2 DEF Taken
    <3>4. CASE r \in ChunkSeqs
      BY <1>1, <3>1, <3>4 DEF IInv, WindowChunks, IsSeen, Taken
    <3>5. QED
      BY <3>2, <3>3, <3>4
  <2>3. s \in Taken(p)
    BY <1>9 DEF Taken
  <2>4. w.seenSet \cup {s} \subseteq Taken(p)' /\ IsFiniteSet(Taken(p)')
    BY <1>1, <1>8, <2>2, <2>3
  <2>5. QED
    BY <1>3, <2>1, <2>4, OverflowCount
<1>10. DuplicateNeedsOverflow'
  <2>1. ASSUME NEW x \in repeated'
        PROVE  x.key.to \in rebooted \/ Cardinality(Taken(x.key.to)') > MaxSeen
    <3>1. CASE x \in repeated
      <4>1. x.key.to \in Peers
        BY <1>4, <3>1 DEF IInv, TypeOK
      <4>2. QED
        BY <1>8, <3>1, <4>1 DEF DuplicateNeedsOverflow
    <3>2. CASE x \notin repeated
      BY <1>2, <1>9, <2>1, <3>2
    <3>3. QED
      BY <3>1, <3>2
  <2>2. QED
    BY <1>2, <2>1 DEF DuplicateNeedsOverflow
<1>11. QED
  BY <1>7, <1>10

\* A chunk the friend takes shows nothing, and pushes out a number only when the window
\* is full.
LEMMA HandleChunkCounts ==
  ASSUME IInv, Remembered, DuplicateNeedsOverflow,
         NEW p \in Peers, NEW c \in ChunkSeqs, HandleChunk(p, c)
  PROVE  Remembered' /\ DuplicateNeedsOverflow'
<1> DEFINE w == sessions[p]
<1>1. /\ sessions' = [sessions EXCEPT ![p] = MarkSeen(w, c)]
      /\ chunks' = IF IsSeen(w, c) THEN chunks ELSE [chunks EXCEPT ![p] = @ \cup {c}]
      /\ UNCHANGED <<shown, repeated, rebooted>>
  BY DEF HandleChunk
<1>2. w \in Windows(AllSeqs) /\ WellFormed(w) /\ c \in AllSeqs
  BY SeqFacts DEF IInv, TypeOK, WindowBounded, AllSeqs
<1>3. \A q \in Peers : sessions'[q] = IF q = p THEN MarkSeen(w, c) ELSE sessions[q]
  BY <1>1 DEF IInv, TypeOK
<1>4. /\ \A x \in w.seenSet : x \in MarkSeen(w, c).seenSet \/ Len(MarkSeen(w, c).seen) = MaxSeen
      /\ Len(w.seen) = MaxSeen => Len(MarkSeen(w, c).seen) = MaxSeen
  BY <1>2, MarkSeenForgets
<1>5. \A x \in shown : x.key.to \in Peers /\ x.key.seq \in Seqs
  BY KeyFacts DEF IInv, TypeOK, Packets
<1> HIDE DEF w
<1>6. Remembered'
  <2> SUFFICES ASSUME NEW x \in shown, x.key.to \notin rebooted
               PROVE  \/ x.key.seq \in sessions'[x.key.to].seenSet
                      \/ Len(sessions'[x.key.to].seen) = MaxSeen
    BY <1>1 DEF Remembered
  <2>1. \/ x.key.seq \in sessions[x.key.to].seenSet
        \/ Len(sessions[x.key.to].seen) = MaxSeen
    BY DEF Remembered
  <2>2. QED
    BY <1>3, <1>4, <1>5, <2>1 DEF w
<1>7. DuplicateNeedsOverflow'
  <2> SUFFICES ASSUME NEW x \in repeated, x.key.to \notin rebooted
               PROVE  Cardinality(Taken(x.key.to)') > MaxSeen
    BY <1>1 DEF DuplicateNeedsOverflow
  <2>1. x.key.to \in Peers
    BY <1>5 DEF IInv, TypeOK
  <2>2. /\ chunks[x.key.to] \subseteq chunks'[x.key.to]
        /\ chunks'[x.key.to] \in SUBSET ChunkSeqs
    BY <1>1, <2>1 DEF IInv, TypeOK
  <2>3. Taken(x.key.to)' \in SUBSET AllSeqs /\ Taken(x.key.to) \subseteq Taken(x.key.to)'
    BY <1>1, <1>5, <2>2, SeqFacts DEF Taken, AllSeqs
  <2>4. Cardinality(Taken(x.key.to)) > MaxSeen
    BY DEF DuplicateNeedsOverflow
  <2>5. QED
    BY <2>3, <2>4, TakenGrows
<1>8. QED
  BY <1>6, <1>7

\* The other steps show nothing; a friend that restarts is excused.
LEMMA NextCounts ==
  ASSUME IInv, Remembered, DuplicateNeedsOverflow, [Next]_vars
  PROVE  Remembered' /\ DuplicateNeedsOverflow'
<1>1. ASSUME UNCHANGED peerVars
      PROVE  Remembered' /\ DuplicateNeedsOverflow'
  BY <1>1 DEF peerVars, Remembered, DuplicateNeedsOverflow, Taken
<1>2. ASSUME NEW p \in Peers, PeerRestart(p)
      PROVE  Remembered' /\ DuplicateNeedsOverflow'
  <2>1. /\ sessions' = [sessions EXCEPT ![p] = EmptyWindow]
        /\ rebooted' = rebooted \cup {p} /\ shown' = shown /\ repeated' = repeated
        /\ chunks' = chunks
    BY <1>2 DEF PeerRestart
  <2>2. \A q \in Peers : q \notin rebooted' => sessions'[q] = sessions[q] /\ q \notin rebooted
    BY <2>1 DEF IInv, TypeOK
  <2>3. \A x \in shown : x.key.to \in Peers
    BY KeyFacts DEF IInv, TypeOK, Packets
  <2>4. Remembered'
    BY <2>1, <2>2, <2>3 DEF Remembered
  <2>5. DuplicateNeedsOverflow'
    BY <2>1 DEF DuplicateNeedsOverflow, Taken
  <2>6. QED
    BY <2>4, <2>5
<1>3. ASSUME NEW m \in msgs, HandleMsg(m)
      PROVE  Remembered' /\ DuplicateNeedsOverflow'
  BY <1>3, HandleMsgCounts
<1>4. CASE \/ \E p \in Peers : HandleSend(p)
           \/ \E D \in SUBSET pending : PollRetries(D)
           \/ \E k \in acks, changed, learned \in BOOLEAN : HandleAck(k, changed, learned)
           \/ \E p \in Peers, changed, learned \in BOOLEAN : HearFrom(p, changed, learned)
           \/ \E p \in Peers : LearnAddress(p)
           \/ \E p \in Peers : \E S \in SUBSET FailedFor(p) : AddrAnswerHit(p, S)
           \/ DropPacket
           \/ UNCHANGED vars
  <2>1. UNCHANGED peerVars
    BY <1>4 DEF HandleSend, PollRetries, HandleAck, HearFrom, LearnAddress, AddrAnswerHit,
                DropPacket, vars, peerVars
  <2>2. QED
    BY <1>1, <2>1
<1>5. ASSUME NEW p \in Peers, NEW c \in ChunkSeqs, HandleChunk(p, c)
      PROVE  Remembered' /\ DuplicateNeedsOverflow'
  BY <1>5, HandleChunkCounts
<1>6. QED
  BY <1>2, <1>3, <1>4, <1>5 DEF Next

\* A friend shows a message twice only if it has restarted or has taken more than MaxSeen
\* texts and chunks of this node: no late copy gets through a window that has not slid.
THEOREM RepeatsNeedOverflow == Spec => []DuplicateNeedsOverflow
<1>1. Init => Remembered /\ DuplicateNeedsOverflow
  BY DEF Init, Remembered, DuplicateNeedsOverflow
<1>2. IInv /\ Remembered /\ DuplicateNeedsOverflow /\ [Next]_vars
      => Remembered' /\ DuplicateNeedsOverflow'
  BY NextCounts
<1>3. QED
  BY <1>1, <1>2, InductiveInvariant, PTL DEF Spec

-----------------------------------------------------------------------------
(* Delivery implements ReliableMessage: every step of Spec maps to a step  *)
(* of the abstract specification or leaves it unchanged.                   *)

\* The abstract status of a message and the abstract arrivals, as RM substitutes them.
StatusOf(k) == IF k \in refused THEN "refused" ELSE told[k]
Arrived == {m.key : m \in shown}

\* Delivery starts where ReliableMessage does.
LEMMA InitRefines == Init => RM!Init
BY DEF Init, RM!Init

\* Handing over a message submits it, with the verdict handle_send gives.
LEMMA SendRefines ==
  ASSUME IInv, NEW p \in Peers, HandleSend(p)
  PROVE  RM!Next
<1>1. nextSeq[p] \in Seqs
  BY DEF HandleSend, TakeSeq, IInv, TypeOK, Seqs
<1>2. PICK k \in Keys : k = Key(p, nextSeq[p])
  BY <1>1, KeyFacts
<1>3. told[k] = "none" /\ k \notin refused
  BY <1>1, <1>2 DEF IInv, FreshNumbers, RefusedFailed, Seqs
<1>4. UNCHANGED shown
  BY DEF HandleSend, peerVars
<1>5. /\ \E v \in {"sending", "failed"} : told' = SetOn(told, {k}, v)
      /\ refused' = refused \/ refused' = refused \cup {k}
  BY <1>2 DEF HandleSend, SendNow, SendUnaddressed, SendRefused
<1>6. PICK v \in {"sending", "failed"} : told' = SetOn(told, {k}, v)
  BY <1>5
<1>7. CASE refused' = refused
  <2>1. RM!Submit(k)
    BY <1>2, <1>3, <1>4, <1>6, <1>7 DEF RM!Submit, SetOn
  <2>2. QED
    BY <1>2, <2>1 DEF RM!Next
<1>8. CASE refused' = refused \cup {k}
  <2>1. RM!Submit(k)
    BY <1>2, <1>3, <1>4, <1>6, <1>8 DEF RM!Submit, SetOn
  <2>2. QED
    BY <1>2, <2>1 DEF RM!Next
<1>9. QED
  BY <1>5, <1>7, <1>8

\* The retry pass gives up on the messages that ran out.
LEMMA PollRefines ==
  ASSUME IInv, NEW D \in SUBSET pending, PollRetries(D)
  PROVE  RM!Next
<1>1. PICK out \in SUBSET Keys : out = Exhausted(D) /\ out \subseteq pending
  BY HelperTypes DEF IInv, TypeOK
<1>2. \A k \in out : told[k] \in {"sending", "failed"} /\ k \notin refused
  BY <1>1 DEF IInv, NothingForgotten, TypeOK
<1>3. /\ told' = SetOn(told, out, "failed")
      /\ UNCHANGED <<refused, shown>>
  BY <1>1 DEF PollRetries, peerVars
<1>4. RM!GiveUp(out)
  BY <1>1, <1>2, <1>3 DEF RM!GiveUp, SetOn
<1>5. QED
  BY <1>1, <1>4 DEF RM!Next

\* An acknowledgement confirms the message it names, or no message at all.
LEMMA AckRefines ==
  ASSUME IInv, NEW k \in acks, NEW changed, NEW learned, HandleAck(k, changed, learned)
  PROVE  RM!Next \/ UNCHANGED RM!avars
<1> DEFINE back == Revived(k.to, changed, hasAddr[k.to] \/ learned)
           done == Settled(k, pending \cup back)
<1>1. /\ back \in SUBSET failedSends /\ failedSends \in SUBSET Keys
      /\ pending \in SUBSET Keys /\ k \in Keys
  BY HelperTypes DEF IInv, TypeOK
<1>1a. done = {} \/ (done = {k} /\ k \in pending \cup back)
  BY DEF Settled
<1>2. \A j \in failedSends \cup pending : told[j] \in {"sending", "failed"} /\ j \notin refused
  BY <1>1 DEF IInv, NothingForgotten, TypeOK
<1>3. k \in Arrived
  <2>1. Copy(k) \in shown /\ Copy(k).key = k
    BY DEF IInv, AcksShown, Copy
  <2>2. QED
    BY <2>1 DEF Arrived
<1>4. told' = SetOn(told, done, "acked") /\ UNCHANGED <<refused, shown>>
  BY DEF HandleAck, peerVars
<1> HIDE DEF back, done
<1>5. CASE done = {}
  <2>1. told' = told
    BY <1>4, <1>5 DEF SetOn, IInv, TypeOK
  <2>2. QED
    BY <1>4, <2>1 DEF RM!avars
<1>6. CASE done = {k} /\ k \in pending \cup back
  <2>1. told[k] \in {"sending", "failed"} /\ k \notin refused
    BY <1>1, <1>2, <1>6
  <2>2. RM!Confirm(k)
    BY <1>1, <1>3, <1>4, <1>6, <2>1 DEF RM!Confirm, SetOn, Arrived
  <2>3. QED
    BY <1>1, <2>2 DEF RM!Next
<1>7. QED
  BY <1>1a, <1>5, <1>6

\* A copy that reaches the friend is an arrival of an accepted message.
LEMMA MsgRefines ==
  ASSUME IInv, NEW m \in msgs, HandleMsg(m)
  PROVE  RM!Next
<1>1. /\ m.key \in Keys /\ m.key.to \in Peers /\ m.key.seq \in Seqs
      /\ m = Copy(Key(m.key.to, m.key.seq))
  BY KeyFacts DEF IInv, TypeOK, Packets, WireAccepted, Copy
<1>2. told[m.key] \in {"sending", "failed", "acked"} /\ m.key \notin refused
  BY <1>1 DEF IInv, WireAccepted, TypeOK
<1>3. UNCHANGED <<told, refused>>
  BY DEF HandleMsg, sendVars
<1>4. shown' = shown \cup {m}
  BY <1>1 DEF HandleMsg, IInv, WindowShown
<1>5. Arrived' = Arrived \cup {m.key}
  BY <1>4 DEF Arrived
<1>6. RM!Arrive(m.key)
  BY <1>1, <1>2, <1>3, <1>5 DEF RM!Arrive, Arrived
<1>7. QED
  BY <1>1, <1>6 DEF RM!Next

\* The other actions change neither a verdict nor what has arrived.
LEMMA OtherStutter ==
  ASSUME UNCHANGED <<told, refused, shown>>
  PROVE  UNCHANGED RM!avars
BY DEF RM!avars

\* What the user is promised about a message holds of the program, for any number of
\* friends and messages: no check mark before the message is shown, and none taken back.
THEOREM Refinement == Spec => ImplementsReliableMessage
<1>1. IInv /\ [Next]_vars => [RM!Next]_(RM!avars)
  <2> SUFFICES ASSUME IInv, [Next]_vars PROVE [RM!Next]_(RM!avars)
    OBVIOUS
  <2>1. ASSUME NEW p \in Peers, NEW changed \in BOOLEAN, NEW learned \in BOOLEAN,
               HearFrom(p, changed, learned)
        PROVE  UNCHANGED <<told, refused, shown>>
    BY <2>1 DEF HearFrom, peerVars
  <2>2. ASSUME NEW p \in Peers, LearnAddress(p)
        PROVE  UNCHANGED <<told, refused, shown>>
    BY <2>2 DEF LearnAddress, peerVars
  <2>3. ASSUME NEW p \in Peers, NEW S \in SUBSET FailedFor(p), AddrAnswerHit(p, S)
        PROVE  UNCHANGED <<told, refused, shown>>
    BY <2>3 DEF AddrAnswerHit, peerVars
  <2>4. DropPacket => UNCHANGED <<told, refused, shown>>
    BY DEF DropPacket, sendVars, peerVars
  <2>5. ASSUME NEW p \in Peers, PeerRestart(p)
        PROVE  UNCHANGED <<told, refused, shown>>
    BY <2>5 DEF PeerRestart, sendVars
  <2>6. UNCHANGED vars => UNCHANGED <<told, refused, shown>>
    BY DEF vars, sendVars, peerVars
  <2>7. ASSUME NEW p \in Peers, NEW c \in ChunkSeqs, HandleChunk(p, c)
        PROVE  UNCHANGED <<told, refused, shown>>
    BY <2>7 DEF HandleChunk, sendVars
  <2>8. QED
    BY <2>1, <2>2, <2>3, <2>4, <2>5, <2>6, <2>7, OtherStutter, SendRefines, PollRefines,
       AckRefines, MsgRefines DEF Next
<1>2. QED
  BY <1>1, InitRefines, InductiveInvariant, PTL DEF Spec, ImplementsReliableMessage, RM!Spec
=============================================================================
