------------------------ MODULE AttachTransferProofs ------------------------
(***************************************************************************)
(* Proofs about AttachTransfer, for any transfers, chunk counts, friends,  *)
(* retries and window length.  The specification is Spec: one run of this  *)
(* node, in which no number is given twice.  The argument about numbers    *)
(* (Numbering, OnlySent, AcksSent) brings an acknowledgement, and a place  *)
(* in the window, back to the one chunk they can be about.                 *)
(***************************************************************************)
EXTENDS AttachTransfer, ListLemmas, FiniteSetTheorems

-----------------------------------------------------------------------------
(* Chunks.                                                                 *)

\* The chunks of a transfer are one for each index, none of another transfer's.
LEMMA ChunkFacts ==
  /\ \A t \in Transfers :
       ChunksOf(t) = {[transfer |-> t, index |-> i] : i \in 0 .. Count[t] - 1}
  /\ \A c \in Chunks : /\ c.transfer \in Transfers /\ Recipient(c) \in Peers
                       /\ c \in ChunksOf(c.transfer)
  /\ \A t \in Transfers : \A c \in ChunksOf(t) :
       c \in Chunks /\ c.transfer = t /\ Recipient(c) = To[t]
<1>1. \A t \in Transfers : \A c \in [transfer : {t}, index : 0 .. Count[t] - 1] : c.transfer = t
  OBVIOUS
<1>2. \A c \in Chunks : c.transfer \in Transfers
                        /\ c \in [transfer : {c.transfer}, index : 0 .. Count[c.transfer] - 1]
  BY <1>1 DEF Chunks
<1>3. \A t \in Transfers : ChunksOf(t) = [transfer : {t}, index : 0 .. Count[t] - 1]
  BY <1>1, <1>2 DEF ChunksOf, Chunks
<1>4. \A t \in Transfers : [transfer : {t}, index : 0 .. Count[t] - 1]
                           = {[transfer |-> t, index |-> i] : i \in 0 .. Count[t] - 1}
  <2> SUFFICES ASSUME NEW t \in Transfers, NEW c
               PROVE  c \in [transfer : {t}, index : 0 .. Count[t] - 1]
                      <=> \E i \in 0 .. Count[t] - 1 : c = [transfer |-> t, index |-> i]
    OBVIOUS
  <2>1. ASSUME c \in [transfer : {t}, index : 0 .. Count[t] - 1]
        PROVE  c = [transfer |-> t, index |-> c.index] /\ c.index \in 0 .. Count[t] - 1
    BY <2>1
  <2>2. QED
    BY <2>1
<1>5. QED
  BY <1>2, <1>3, <1>4, AttachAssumption DEF ChunksOf, Recipient

\* A transfer has as many chunks as its count says: total_chunks indexes are all of
\* them, and nothing less is.
LEMMA AllIndexes ==
  ASSUME NEW t \in Transfers
  PROVE  /\ IsFiniteSet(ChunksOf(t)) /\ Cardinality(ChunksOf(t)) = Count[t]
         /\ ChunksOf(t) # {}
         /\ \A A \in SUBSET ChunksOf(t) : Cardinality(A) = Count[t] <=> A = ChunksOf(t)
<1> DEFINE I == 0 .. Count[t] - 1
           f == [i \in I |-> [transfer |-> t, index |-> i]]
<1>1. Count[t] \in Nat /\ Count[t] >= 1
  BY AttachAssumption
<1>2. IsFiniteSet(I) /\ Cardinality(I) = Count[t]
  BY <1>1, FS_Interval
<1>3. f \in Bijection(I, ChunksOf(t))
  <2>1. f \in [I -> ChunksOf(t)]
    BY ChunkFacts
  <2>2. \A i, j \in I : f[i] = f[j] => i = j
    <3> SUFFICES ASSUME NEW i \in I, NEW j \in I, f[i] = f[j] PROVE i = j
      OBVIOUS
    <3>1. f[i].index = i /\ f[j].index = j
      OBVIOUS
    <3>2. QED
      BY <3>1
  <2>3. \A c \in ChunksOf(t) : \E i \in I : f[i] = c
    BY ChunkFacts
  <2>4. QED
    BY <2>1, <2>2, <2>3 DEF Bijection, Injection, Surjection, IsInjective
<1>4. IsFiniteSet(ChunksOf(t)) /\ Cardinality(ChunksOf(t)) = Count[t]
  BY <1>2, <1>3, FS_Bijection DEF ExistsBijection
<1>5. ChunksOf(t) # {}
  BY <1>1, <1>4, FS_EmptySet
<1>6. \A A \in SUBSET ChunksOf(t) : Cardinality(A) = Count[t] <=> A = ChunksOf(t)
  BY <1>4, FS_Subset
<1>7. QED
  BY <1>4, <1>5, <1>6

-----------------------------------------------------------------------------
(* The inductive invariant.                                                *)

\* A transfer is under way until its verdict, and none of its chunks is among the
\* failed packets meanwhile: these are of transfers that are over.
UnderWay ==
  \A t \in Transfers :
    /\ t \in attachSends <=> verdict[t] = "sending"
    /\ t \in attachSends => ChunksOf(t) \cap failedSends = {}

\* A transfer that has not started has left no trace.
FreshTransfers ==
  \A t \in Transfers : verdict[t] = "none" =>
    /\ \A c \in ChunksOf(t) : seqOf[c] = 0
    /\ buffers[t] = {} /\ t \notin received

\* Each chunk sent in this run has a number of its own, above the texts' numbers.
Numbering ==
  /\ attachSeq >= AttachSeqBase
  /\ \A c \in Chunks : seqOf[c] # 0 => AttachSeqBase < seqOf[c] /\ seqOf[c] <= attachSeq
  /\ \A c, d \in Chunks : seqOf[c] = seqOf[d] /\ seqOf[c] # 0 => c = d

\* The maps, the wire and the acknowledgements are about chunks that were sent.
OnlySent == \A c \in wire \cup chunkSeqs \cup pending \cup failedSends \cup acked : seqOf[c] # 0

AckOf(c) == [from |-> Recipient(c), seq |-> seqOf[c]]
AcksSent == \A a \in acks : \E c \in Chunks : seqOf[c] # 0 /\ a = AckOf(c)

\* A friend remembers what it has taken: texts, and numbers given out already.
WindowTaken == \A p \in Peers : sessions[p].seenSet \subseteq taken[p]
TakenNumbers ==
  \A p \in Peers : \A n \in taken[p] : n <= MaxSeq \/ (AttachSeqBase < n /\ n <= attachSeq)

\* While a transfer is under way the friend holds what it has acknowledged, which is not
\* the whole, until the day it hands the whole to its user.
HasTaken(c) == \/ c \in acked
               \/ AckOf(c) \in acks
               \/ seqOf[c] \in sessions[Recipient(c)].seenSet

HoldsAcked ==
  \A t \in attachSends :
    t \notin Oversize \cup received \cup halved =>
      /\ \A c \in ChunksOf(t) : HasTaken(c) => c \in buffers[t]
      /\ buffers[t] # ChunksOf(t)

\* The entry of a transfer holds its chunks only.
OwnChunks == \A t \in Transfers : buffers[t] \subseteq ChunksOf(t)

IInv ==
  /\ TypeOK /\ ChunksAccounted /\ OneVerdict /\ AckedImpliesReceived
  /\ UnderWay /\ FreshTransfers /\ HoldsAcked /\ OwnChunks
  /\ Numbering /\ OnlySent /\ AcksSent /\ WindowTaken /\ TakenNumbers

Verdicts == {"none", "sending", "acked", "failed", "forgotten"}

\* Nothing has been sent at first.
LEMMA InitIInv == Init => IInv
<1> SUFFICES ASSUME Init PROVE IInv
  OBVIOUS
<1>1. TypeOK
  <2>1. EmptyWindow \in Windows(Nat)
    BY DEF EmptyWindow, Windows
  <2>2. [c \in Chunks |-> 0] \in [Chunks -> 0 .. MaxRetries]
    BY AttachAssumption
  <2>3. QED
    BY <2>1, <2>2, AttachAssumption DEF Init, TypeOK
<1>2. ChunksAccounted /\ OneVerdict /\ AckedImpliesReceived
  BY DEF Init, ChunksAccounted, OneVerdict, AckedImpliesReceived
<1>3. UnderWay /\ FreshTransfers /\ HoldsAcked /\ OwnChunks
  BY ChunkFacts DEF Init, UnderWay, FreshTransfers, HoldsAcked, OwnChunks
<1>4. Numbering /\ OnlySent /\ AcksSent
  BY AttachAssumption DEF Init, Numbering, OnlySent, AcksSent
<1>5. WindowTaken /\ TakenNumbers
  BY DEF Init, WindowTaken, TakenNumbers, EmptyWindow
<1>6. QED
  BY <1>1, <1>2, <1>3, <1>4, <1>5 DEF IInv

\* The helpers' results are chunks, and counters reset are counters.
LEMMA HelperFacts ==
  ASSUME TypeOK
  PROVE  /\ \A p, changed : Revived(p, changed) \in SUBSET failedSends
         /\ \A K : ResetOn(K) \in [Chunks -> 0 .. MaxRetries]
         /\ \A T \in SUBSET Transfers : \A v : Conclude(T, v) =>
              \A t \in Transfers :
                 /\ verdict'[t] = IF t \in T THEN v ELSE verdict[t]
                 /\ verdicts'[t] = IF t \in T THEN verdicts[t] + 1 ELSE verdicts[t]
         /\ \A T, v : Conclude(T, v) /\ v \in {"acked", "failed"} =>
              /\ verdict' \in [Transfers -> Verdicts]
              /\ verdicts' \in [Transfers -> Nat]
<1>1. \A p, changed : Revived(p, changed) \in SUBSET failedSends
  BY DEF Revived
<1>2. \A K : ResetOn(K) \in [Chunks -> 0 .. MaxRetries]
  BY AttachAssumption DEF ResetOn, TypeOK
<1>3. \A T \in SUBSET Transfers : \A v : Conclude(T, v) =>
              \A t \in Transfers :
                 /\ verdict'[t] = IF t \in T THEN v ELSE verdict[t]
                 /\ verdicts'[t] = IF t \in T THEN verdicts[t] + 1 ELSE verdicts[t]
  BY DEF Conclude
<1>4. \A T, v : Conclude(T, v) /\ v \in {"acked", "failed"} =>
              /\ verdict' \in [Transfers -> Verdicts]
              /\ verdicts' \in [Transfers -> Nat]
  BY DEF Conclude, TypeOK, Verdicts
<1>5. QED
  BY <1>1, <1>2, <1>3, <1>4

\* Chunks of different transfers are different.
LEMMA ChunksDisjoint ==
  ASSUME NEW t \in Transfers, NEW u \in Transfers, t # u
  PROVE  ChunksOf(t) \cap ChunksOf(u) = {}
BY ChunkFacts

\* An acknowledgement names one chunk, which was sent to the friend it comes from.
LEMMA AckNames ==
  ASSUME IInv, NEW a \in acks
  PROVE  \E c \in Chunks :
           /\ seqOf[c] # 0 /\ a = AckOf(c) /\ Recipient(c) = a.from
           /\ Registered(a) = {c} \cap chunkSeqs
           /\ \A S \in SUBSET Chunks : Named(a, S) = {c} \cap S
<1>1. PICK c \in Chunks : seqOf[c] # 0 /\ a = AckOf(c)
  BY DEF IInv, AcksSent
<1>2. Recipient(c) = a.from /\ seqOf[c] = a.seq
  BY <1>1 DEF AckOf
<1>3. \A d \in Chunks : seqOf[d] = seqOf[c] => d = c
  BY <1>1 DEF IInv, Numbering
<1>4. Registered(a) = {c} \cap chunkSeqs
  BY <1>2, <1>3 DEF Registered, IInv, TypeOK
<1>5. \A S \in SUBSET Chunks : Named(a, S) = {c} \cap S
  BY <1>2, <1>3 DEF Named
<1>6. QED
  BY <1>1, <1>2, <1>4, <1>5

\* A step that gives no number, and takes nothing at the friend's, keeps the numbers right
\* as long as only chunks that were sent go about.
LEMMA NumbersKept ==
  ASSUME IInv, UNCHANGED <<attachSeq, seqOf, acks, sessions, taken, buffers, received>>,
         wire' \cup chunkSeqs' \cup pending' \cup failedSends' \cup acked'
           \subseteq wire \cup chunkSeqs \cup pending \cup failedSends \cup acked,
         \A t \in Transfers : verdict'[t] = "none" => verdict[t] = "none"
  PROVE  /\ Numbering' /\ OnlySent' /\ AcksSent' /\ WindowTaken' /\ TakenNumbers'
         /\ FreshTransfers'
<1>1. Numbering' /\ OnlySent'
  BY DEF IInv, Numbering, OnlySent
<1>2. AcksSent'
  BY DEF IInv, AcksSent, AckOf, Recipient
<1>3. WindowTaken' /\ TakenNumbers'
  BY DEF IInv, WindowTaken, TakenNumbers
<1>4. FreshTransfers'
  BY DEF IInv, FreshTransfers
<1>5. QED
  BY <1>1, <1>2, <1>3, <1>4

-----------------------------------------------------------------------------
(* Sending.                                                                *)

\* A transfer that starts has no acknowledged chunk and no failed one: all of its chunks
\* are registered and pending.
LEMMA SendAttachKeeps ==
  ASSUME IInv, NEW u \in Transfers, SendAttach(u)
  PROVE  IInv'
<1> USE DEF IInv
<1> DEFINE K == ChunksOf(u)
<1>1. /\ verdict[u] = "none"
      /\ wire' = wire \cup K /\ chunkSeqs' = chunkSeqs \cup K /\ pending' = pending \cup K
      /\ attempts' = ResetOn(K) /\ attachSends' = attachSends \cup {u}
      /\ verdict' = [verdict EXCEPT ![u] = "sending"]
      /\ UNCHANGED <<acked, failedSends, verdicts, acks,
                     sessions, taken, buffers, received, twice, halved, rebooted>>
  BY DEF SendAttach, friendVars
<1>2. /\ K \subseteq Chunks
      /\ \A t \in Transfers \ {u} : ChunksOf(t) \cap K = {}
  BY ChunkFacts, ChunksDisjoint
<1>2a. /\ attachSeq' = attachSeq + Count[u] /\ attachSeq \in Nat /\ Count[u] \in Nat
       /\ \A c \in Chunks : seqOf'[c] = IF c \in K THEN attachSeq + 1 + c.index ELSE seqOf[c]
       /\ \A c \in K : c.index \in 0 .. Count[u] - 1 /\ c = [transfer |-> u, index |-> c.index]
       /\ seqOf' \in [Chunks -> Nat]
  <2>1. \A c \in Chunks : c \in K <=> c.transfer = u
    BY ChunkFacts DEF ChunksOf
  <2>2. \A c \in K : c.index \in 0 .. Count[u] - 1 /\ c = [transfer |-> u, index |-> c.index]
    BY ChunkFacts
  <2>3. attachSeq \in Nat /\ Count[u] \in Nat /\ seqOf \in [Chunks -> Nat]
    BY AttachAssumption DEF TypeOK
  <2>4. /\ attachSeq' = attachSeq + Count[u]
        /\ seqOf' = [c \in Chunks |-> IF c.transfer = u THEN attachSeq + 1 + c.index ELSE seqOf[c]]
    BY DEF SendAttach, NumberGiven
  <2>5. \A c \in Chunks : seqOf'[c] = IF c \in K THEN attachSeq + 1 + c.index ELSE seqOf[c]
    BY <2>1, <2>4
  <2> HIDE DEF K
  <2>6. seqOf' \in [Chunks -> Nat]
    BY <2>2, <2>3, <2>4, <2>5
  <2>7. QED
    BY <2>2, <2>3, <2>4, <2>5, <2>6
<1>3. /\ u \notin attachSends
      /\ K \cap (chunkSeqs \cup acked) = {}
      /\ K \cap (pending \cup failedSends) = {}
      /\ buffers[u] = {} /\ K # {} /\ u \notin received
  <2>1. u \notin attachSends
    BY <1>1 DEF UnderWay
  <2>2. \A c \in K : seqOf[c] = 0
    BY <1>1 DEF FreshTransfers
  <2>3. QED
    BY <1>1, <2>1, <2>2, AllIndexes DEF FreshTransfers, OnlySent
<1>4. \A t \in Transfers : verdict'[t] = IF t = u THEN "sending" ELSE verdict[t]
  BY <1>1 DEF TypeOK
<1>5. TypeOK'
  <2>1. attempts' \in [Chunks -> 0 .. MaxRetries]
    BY <1>1, HelperFacts
  <2>2. verdict' \in [Transfers -> Verdicts]
    BY <1>1 DEF TypeOK, Verdicts
  <2>3. attachSeq' \in Nat
    BY <1>2a
  <2>4. QED
    BY <1>1, <1>2, <1>2a, <2>1, <2>2, <2>3 DEF TypeOK
<1> HIDE DEF K
<1>6. ChunksAccounted'
  <2>1. ASSUME NEW t \in Transfers, t # u
        PROVE  IF t \in attachSends'
               THEN /\ verdict'[t] = "sending"
                    /\ ChunksOf(t) \cap chunkSeqs' = ChunksOf(t) \ acked'
                    /\ ChunksOf(t) \cap pending' = ChunksOf(t) \ acked'
               ELSE ChunksOf(t) \cap (chunkSeqs' \cup acked') = {}
    <3>1. /\ ChunksOf(t) \cap chunkSeqs' = ChunksOf(t) \cap chunkSeqs
          /\ ChunksOf(t) \cap pending' = ChunksOf(t) \cap pending
          /\ t \in attachSends' <=> t \in attachSends
      BY <1>1, <1>2, <2>1
    <3>2. QED
      BY <1>1, <1>4, <2>1, <3>1 DEF ChunksAccounted
  <2>2. /\ u \in attachSends' /\ verdict'[u] = "sending"
        /\ K \cap chunkSeqs' = K \ acked'
        /\ K \cap pending' = K \ acked'
    BY <1>1, <1>3, <1>4
  <2>3. QED
    BY <2>1, <2>2 DEF ChunksAccounted, K
<1>7. OneVerdict' /\ AckedImpliesReceived'
  BY <1>1, <1>4 DEF OneVerdict, AckedImpliesReceived
<1>8. UnderWay' /\ OwnChunks'
  BY <1>1, <1>3, <1>4 DEF UnderWay, OwnChunks, K
<1>9. FreshTransfers'
  <2>1. ASSUME NEW t \in Transfers, verdict'[t] = "none"
        PROVE  \A c \in ChunksOf(t) : seqOf'[c] = 0
    <3>1. t # u /\ verdict[t] = "none"
      BY <1>4, <2>1
    <3>2. QED
      BY <1>2, <1>2a, <3>1, ChunkFacts DEF FreshTransfers
  <2>2. QED
    BY <1>1, <1>4, <2>1 DEF FreshTransfers
<1>10. Numbering'
  <2>1. attachSeq' >= attachSeq /\ attachSeq >= AttachSeqBase /\ attachSeq' >= AttachSeqBase
    BY <1>2a, AttachAssumption DEF Numbering
  <2>2. ASSUME NEW c \in K
        PROVE  attachSeq < seqOf'[c] /\ seqOf'[c] <= attachSeq'
    BY <1>2, <1>2a
  <2>3. ASSUME NEW c \in Chunks, c \notin K
        PROVE  seqOf'[c] = seqOf[c] /\ seqOf[c] \in Nat
    BY <1>2a, <2>3 DEF TypeOK
  <2>4. ASSUME NEW c \in Chunks, seqOf'[c] # 0
        PROVE  AttachSeqBase < seqOf'[c] /\ seqOf'[c] <= attachSeq'
    <3>1. CASE c \in K
      BY <1>2a, <2>1, <2>2, <3>1, AttachAssumption
    <3>2. CASE c \notin K
      BY <1>2a, <2>1, <2>3, <2>4, <3>2, AttachAssumption DEF Numbering
    <3>3. QED
      BY <3>1, <3>2
  <2>5. ASSUME NEW c \in Chunks, NEW d \in Chunks, seqOf'[c] = seqOf'[d], seqOf'[c] # 0
        PROVE  c = d
    <3>1. CASE c \in K /\ d \in K
      <4>1. attachSeq + 1 + c.index = attachSeq + 1 + d.index
        BY <1>2a, <2>5, <3>1
      <4>2. c.index = d.index
        BY <1>2a, <3>1, <4>1
      <4>3. QED
        BY <1>2a, <3>1, <4>2
    <3>2. CASE c \notin K /\ d \notin K
      BY <2>3, <2>5, <3>2 DEF Numbering
    <3>3. CASE c \in K /\ d \notin K
      BY <1>2a, <2>2, <2>3, <2>5, <3>3 DEF Numbering
    <3>4. CASE c \notin K /\ d \in K
      BY <1>2a, <2>2, <2>3, <2>5, <3>4 DEF Numbering
    <3>5. QED
      BY <3>1, <3>2, <3>3, <3>4
  <2>6. QED
    BY <2>1, <2>4, <2>5 DEF Numbering
<1>11. /\ \A c \in Chunks \ K : seqOf'[c] = seqOf[c]
       /\ \A c \in K : seqOf[c] = 0 /\ seqOf'[c] > attachSeq
  BY <1>1, <1>2, <1>2a DEF FreshTransfers, K
<1>12. OnlySent' /\ AcksSent'
  <2>1. OnlySent'
    BY <1>1, <1>2, <1>2a, <1>11 DEF OnlySent, TypeOK
  <2>2. ASSUME NEW a \in acks
        PROVE  \E c \in Chunks : seqOf'[c] # 0 /\ a = AckOf(c)'
    <3>1. PICK c \in Chunks : seqOf[c] # 0 /\ a = AckOf(c)
      BY DEF AcksSent
    <3>2. QED
      BY <1>11, <3>1 DEF AckOf, Recipient
  <2>3. QED
    BY <1>1, <2>1, <2>2 DEF AcksSent
<1>13. WindowTaken' /\ TakenNumbers'
  <2>1. TakenNumbers'
    <3>1. ASSUME NEW q \in Peers, NEW n \in taken[q]
          PROVE  n <= MaxSeq \/ (AttachSeqBase < n /\ n <= attachSeq')
      <4>1. n \in Nat
        BY <3>1 DEF TypeOK
      <4>2. QED
        BY <1>2a, <4>1 DEF TakenNumbers
    <3>2. QED
      BY <1>1, <3>1 DEF TakenNumbers
  <2>2. QED
    BY <1>1, <2>1 DEF WindowTaken
<1>14. HoldsAcked'
  <2>1. ASSUME NEW c \in K
        PROVE  ~HasTaken(c)'
    <3>1. c \notin acked
      BY <1>3
    <3>2. AckOf(c)' \notin acks
      <4>1. SUFFICES ASSUME AckOf(c)' \in acks PROVE FALSE
        OBVIOUS
      <4>2. PICK d \in Chunks : seqOf[d] # 0 /\ AckOf(c)' = AckOf(d)
        BY <4>1 DEF AcksSent
      <4>3. seqOf'[c] = seqOf[d]
        BY <4>2 DEF AckOf
      <4>4. seqOf[d] <= attachSeq /\ seqOf[d] \in Nat
        BY <4>2 DEF Numbering, TypeOK
      <4>5. QED
        BY <1>2a, <1>11, <4>3, <4>4
    <3>3. c \in Chunks /\ Recipient(c) \in Peers
      BY <1>2, ChunkFacts
    <3>4. seqOf'[c] \notin sessions[Recipient(c)].seenSet
      <4>1. SUFFICES ASSUME seqOf'[c] \in taken[Recipient(c)] PROVE FALSE
        BY <3>3 DEF WindowTaken
      <4>2. seqOf'[c] <= MaxSeq \/ seqOf'[c] <= attachSeq
        BY <3>3, <4>1 DEF TakenNumbers
      <4>3. seqOf'[c] \in Nat /\ seqOf'[c] > attachSeq /\ attachSeq >= AttachSeqBase
        BY <1>2a, <1>11, <3>3 DEF Numbering
      <4>4. QED
        BY <1>2a, <4>2, <4>3, AttachAssumption
    <3>5. QED
      BY <1>1, <3>1, <3>2, <3>4 DEF HasTaken, Recipient
  <2>2. ASSUME NEW t \in attachSends', t \notin Oversize \cup received \cup halved
        PROVE  /\ \A c \in ChunksOf(t) : HasTaken(c)' => c \in buffers[t]
               /\ buffers[t] # ChunksOf(t)
    <3>1. CASE t = u
      BY <1>3, <2>1, <3>1 DEF K
    <3>2. CASE t # u
      <4>1. t \in attachSends /\ t \in Transfers
        BY <1>1, <2>2, <3>2 DEF TypeOK
      <4>2. \A c \in ChunksOf(t) : seqOf'[c] = seqOf[c]
        BY <1>2, <1>11, <3>2, <4>1, ChunkFacts
      <4>3. \A c \in ChunksOf(t) : HasTaken(c)' => HasTaken(c)
        BY <1>1, <4>2 DEF HasTaken, AckOf, Recipient
      <4>4. QED
        BY <2>2, <4>1, <4>3 DEF HoldsAcked
    <3>3. QED
      BY <3>1, <3>2
  <2>3. QED
    BY <1>1, <2>2 DEF HoldsAcked
<1>15. QED
  BY <1>5, <1>6, <1>7, <1>8, <1>9, <1>10, <1>12, <1>13, <1>14

\* A transfer that cannot start fails at once.
LEMMA SendAttachRejectedKeeps ==
  ASSUME IInv, NEW u \in Transfers, SendAttachRejected(u)
  PROVE  IInv'
<1> USE DEF IInv
<1>1. /\ verdict[u] = "none"
      /\ UNCHANGED <<seqOf, chunkSeqs, attachSends, acked, pending, attempts, failedSends, wire, acks,
                     sessions, taken, buffers, received, twice, halved, rebooted>>
  BY DEF SendAttachRejected, friendVars
<1>2. \A t \in Transfers :
        /\ verdict'[t] = IF t = u THEN "failed" ELSE verdict[t]
        /\ verdicts'[t] = IF t = u THEN verdicts[t] + 1 ELSE verdicts[t]
  BY HelperFacts DEF SendAttachRejected
<1>3. u \notin attachSends
  BY <1>1 DEF UnderWay
<1>3a. attachSeq \in Nat /\ attachSeq' \in Nat /\ attachSeq' >= attachSeq
  <2>1. PICK n \in 0 .. Count[u] - 1 : attachSeq' = attachSeq + n
    BY DEF SendAttachRejected
  <2>2. attachSeq \in Nat /\ n \in Nat
    BY AttachAssumption DEF TypeOK
  <2>3. QED
    BY <2>1, <2>2
<1>4. TypeOK'
  <2>1. /\ verdict' \in [Transfers -> Verdicts]
        /\ verdicts' \in [Transfers -> Nat]
    BY HelperFacts DEF SendAttachRejected
  <2>2. QED
    BY <1>1, <1>3a, <2>1 DEF TypeOK, Verdicts
<1>5. ChunksAccounted'
  BY <1>1, <1>2, <1>3 DEF ChunksAccounted
<1>6. OneVerdict'
  BY <1>1, <1>2 DEF OneVerdict
<1>7. AckedImpliesReceived'
  BY <1>1, <1>2 DEF AckedImpliesReceived
<1>8. UnderWay' /\ OwnChunks'
  BY <1>1, <1>2 DEF UnderWay, OwnChunks
<1>9. FreshTransfers'
  BY <1>1, <1>2 DEF FreshTransfers
<1>10. HoldsAcked'
  BY <1>1 DEF HoldsAcked, HasTaken, AckOf, Recipient
<1>11. Numbering' /\ TakenNumbers'
  <2>1. \A n \in Nat : n <= attachSeq => n <= attachSeq'
    BY <1>3a
  <2>2. Numbering'
    <3>1. attachSeq' >= AttachSeqBase
      BY <1>3a, AttachAssumption DEF Numbering
    <3>2. \A c \in Chunks : seqOf[c] \in Nat
      BY DEF TypeOK
    <3>3. QED
      BY <1>1, <2>1, <3>1, <3>2 DEF Numbering
  <2>3. \A q \in Peers : \A n \in taken[q] : n \in Nat
    BY DEF TypeOK
  <2>4. TakenNumbers'
    BY <1>1, <2>1, <2>3 DEF TakenNumbers
  <2>5. QED
    BY <2>2, <2>4
<1>12. OnlySent' /\ AcksSent' /\ WindowTaken'
  BY <1>1 DEF OnlySent, AcksSent, WindowTaken, AckOf, Recipient
<1>13. QED
  BY <1>4, <1>5, <1>6, <1>7, <1>8, <1>9, <1>10, <1>11, <1>12

-----------------------------------------------------------------------------
(* The retry pass.                                                         *)

\* The failed chunks of a transfer under way are registered, so the first of them ends
\* it; only the chunks of a transfer that this pass ends, or that is over already, are
\* kept as failed packets.
LEMMA PollRetriesKeeps ==
  ASSUME IInv, NEW D \in SUBSET pending, PollRetries(D)
  PROVE  IInv'
<1> USE DEF IInv
<1> DEFINE out == Exhausted(D)
           again == D \ out
<1>1. PICK first \in FirstFailures(out) :
        LET lost == {c.transfer : c \in first}
            gone == out \cup Cancelled(lost)
        IN
        /\ chunkSeqs' = (chunkSeqs \ first) \ Cancelled(lost)
        /\ attachSends' = attachSends \ lost
        /\ acked' = {c \in acked : c.transfer \notin lost}
        /\ pending' = pending \ gone
        /\ attempts' = [c \in Chunks |-> IF c \in gone THEN 0
                                         ELSE IF c \in again THEN attempts[c] + 1
                                         ELSE attempts[c]]
        /\ failedSends' = failedSends \cup (out \ first)
        /\ Conclude(lost, "failed")
  BY DEF PollRetries
<1> DEFINE lost == {c.transfer : c \in first}
           cut == Cancelled(lost)
<1>2. /\ wire' = wire \cup again
      /\ UNCHANGED <<attachSeq, seqOf, acks, sessions, taken, buffers, received, twice, halved, rebooted>>
  BY DEF PollRetries, friendVars
<1>3. /\ out \subseteq pending /\ again \subseteq pending /\ pending \subseteq Chunks
      /\ first \subseteq out \cap chunkSeqs
      /\ \A c \in again : attempts[c] < MaxRetries
      /\ \A c \in cut : c \in chunkSeqs /\ c.transfer \in lost
      /\ \A c \in chunkSeqs : c.transfer \in lost => c \in cut
  <2>1. \A c \in again : attempts[c] < MaxRetries
    BY AttachAssumption DEF Exhausted, TypeOK
  <2>2. out \subseteq pending /\ again \subseteq pending /\ pending \subseteq Chunks
    BY DEF Exhausted, TypeOK
  <2>3. first \subseteq out \cap chunkSeqs
    BY DEF FirstFailures
  <2>4. QED
    BY <2>1, <2>2, <2>3 DEF Cancelled
<1>4. \A t \in Transfers, c \in chunkSeqs : c \in ChunksOf(t) => t \in attachSends
  BY DEF ChunksAccounted
<1>5. lost \subseteq attachSends /\ lost \subseteq Transfers
  <2>1. ASSUME NEW c \in first
        PROVE  c.transfer \in attachSends
    <3>1. c \in Chunks /\ c \in chunkSeqs
      BY <1>3
    <3>2. c.transfer \in Transfers /\ c \in ChunksOf(c.transfer)
      BY <3>1, ChunkFacts
    <3>3. QED
      BY <1>4, <3>1, <3>2
  <2>2. QED
    BY <2>1 DEF TypeOK
<1>6. \A t \in attachSends \ lost : ChunksOf(t) \cap out = {}
  <2>1. SUFFICES ASSUME NEW t \in attachSends, NEW c \in ChunksOf(t), c \in out
                 PROVE  t \in lost
    OBVIOUS
  <2>2. t \in Transfers /\ c.transfer = t
    BY ChunkFacts DEF TypeOK
  <2>3. c \in out \cap chunkSeqs
    <3>1. ChunksOf(t) \cap chunkSeqs = ChunksOf(t) \cap pending
      BY <2>2 DEF ChunksAccounted
    <3>2. QED
      BY <1>3, <2>1, <3>1
  <2>4. Cardinality({x \in first : x.transfer = t}) = 1
    BY <2>2, <2>3 DEF FirstFailures
  <2>5. {x \in first : x.transfer = t} # {}
    BY <2>4, FS_EmptySet
  <2>6. QED
    BY <2>5
<1>7. \A t \in Transfers :
        /\ verdict'[t] = IF t \in lost THEN "failed" ELSE verdict[t]
        /\ verdicts'[t] = IF t \in lost THEN verdicts[t] + 1 ELSE verdicts[t]
  BY <1>1, <1>5, HelperFacts
<1>8. \A t \in Transfers \ lost : ChunksOf(t) \cap cut = {}
  BY <1>3, ChunkFacts
<1>9. /\ chunkSeqs' = (chunkSeqs \ first) \ cut
      /\ attachSends' = attachSends \ lost
      /\ acked' = {c \in acked : c.transfer \notin lost}
      /\ pending' = pending \ (out \cup cut)
      /\ failedSends' = failedSends \cup (out \ first)
  BY <1>1
<1>10. TypeOK'
  <2>1. /\ verdict' \in [Transfers -> Verdicts]
        /\ verdicts' \in [Transfers -> Nat]
    BY <1>1, HelperFacts
  <2>2. attempts' \in [Chunks -> 0 .. MaxRetries]
    <3>1. attempts' = [c \in Chunks |-> IF c \in out \cup cut THEN 0
                                         ELSE IF c \in again THEN attempts[c] + 1
                                         ELSE attempts[c]]
      BY <1>1
    <3>2. QED
      BY <1>3, <3>1, AttachAssumption DEF TypeOK
  <2>3. QED
    BY <1>2, <1>3, <1>9, <2>1, <2>2 DEF TypeOK, Verdicts
<1> HIDE DEF out, again, lost, cut
<1>11. ChunksAccounted'
  <2>1. ASSUME NEW t \in attachSends, t \notin lost
        PROVE  /\ verdict'[t] = "sending"
               /\ ChunksOf(t) \cap chunkSeqs' = ChunksOf(t) \ acked'
               /\ ChunksOf(t) \cap pending' = ChunksOf(t) \ acked'
    <3>1. t \in Transfers /\ \A c \in ChunksOf(t) : c.transfer = t
      BY ChunkFacts DEF TypeOK
    <3>2. /\ ChunksOf(t) \cap chunkSeqs' = ChunksOf(t) \cap chunkSeqs
          /\ ChunksOf(t) \cap pending' = ChunksOf(t) \cap pending
      BY <1>3, <1>6, <1>8, <1>9, <2>1, <3>1
    <3>3. ChunksOf(t) \cap acked' = ChunksOf(t) \cap acked
      BY <1>9, <2>1, <3>1
    <3>4. QED
      BY <1>7, <2>1, <3>1, <3>2, <3>3 DEF ChunksAccounted
  <2>2. ASSUME NEW t \in Transfers, t \in lost
        PROVE  ChunksOf(t) \cap (chunkSeqs' \cup acked') = {}
    BY <1>3, <1>9, <2>2, ChunkFacts
  <2>3. ASSUME NEW t \in Transfers, t \notin attachSends
        PROVE  ChunksOf(t) \cap (chunkSeqs' \cup acked') = {}
    BY <1>9, <2>3 DEF ChunksAccounted
  <2>4. QED
    BY <1>9, <2>1, <2>2, <2>3 DEF ChunksAccounted
<1>12. OneVerdict' /\ AckedImpliesReceived'
  <2>1. OneVerdict'
    BY <1>5, <1>7 DEF OneVerdict, UnderWay
  <2>2. AckedImpliesReceived'
    BY <1>2, <1>7 DEF AckedImpliesReceived
  <2>3. QED
    BY <2>1, <2>2
<1>13. UnderWay'
  <2>1. \A t \in Transfers : t \in attachSends' <=> verdict'[t] = "sending"
    BY <1>7, <1>9 DEF UnderWay
  <2>2. \A t \in Transfers : t \in attachSends' => ChunksOf(t) \cap failedSends' = {}
    BY <1>6, <1>9 DEF UnderWay
  <2>3. QED
    BY <2>1, <2>2 DEF UnderWay
<1>14. Numbering' /\ OnlySent' /\ AcksSent' /\ WindowTaken' /\ TakenNumbers' /\ FreshTransfers'
  <2>1. wire' \cup chunkSeqs' \cup pending' \cup failedSends' \cup acked'
          \subseteq wire \cup chunkSeqs \cup pending \cup failedSends \cup acked
    BY <1>2, <1>3, <1>9
  <2>2. \A t \in Transfers : verdict'[t] = "none" => verdict[t] = "none"
    BY <1>7
  <2>3. QED
    BY <1>2, <2>1, <2>2, NumbersKept
<1>15. HoldsAcked' /\ OwnChunks'
  <2>1. \A c : HasTaken(c)' => HasTaken(c)
    BY <1>2, <1>9 DEF HasTaken, AckOf, Recipient
  <2>2. QED
    BY <1>2, <1>9, <2>1 DEF HoldsAcked, OwnChunks
<1>16. QED
  BY <1>10, <1>11, <1>12, <1>13, <1>14, <1>15

-----------------------------------------------------------------------------
(* Packets from the friend.                                                *)

\* What a failed packet that is sent again can disturb: nothing of a transfer under way,
\* for it is of a transfer that is over.
LEMMA RevivedAreOver ==
  ASSUME IInv, NEW p, NEW changed
  PROVE  /\ Revived(p, changed) \subseteq failedSends
         /\ Revived(p, changed) \subseteq Chunks
         /\ \A t \in attachSends : ChunksOf(t) \cap Revived(p, changed) = {}
<1>1. Revived(p, changed) \subseteq failedSends
  BY HelperFacts DEF IInv
<1>2. QED
  BY <1>1 DEF IInv, TypeOK, UnderWay

\* Any packet of a friend but an acknowledgement only sends failed packets again.
LEMMA HearFromKeeps ==
  ASSUME IInv, NEW p \in Peers, HearFrom(p)
  PROVE  IInv'
<1> USE DEF IInv
<1> DEFINE back == Revived(p, TRUE)
<1>1. /\ wire' = wire \cup back /\ pending' = pending \cup back
      /\ attempts' = ResetOn(back) /\ failedSends' = failedSends \ back
      /\ UNCHANGED <<attachSeq, seqOf, chunkSeqs, attachSends, acked, verdict, verdicts, acks,
                     sessions, taken, buffers, received, twice, halved, rebooted>>
  BY DEF HearFrom, friendVars
<1>2. /\ back \subseteq failedSends /\ back \subseteq Chunks
      /\ \A t \in attachSends : ChunksOf(t) \cap back = {}
  BY RevivedAreOver
<1>3. TypeOK'
  BY <1>1, <1>2, HelperFacts DEF TypeOK
<1> HIDE DEF back
<1>4. ChunksAccounted'
  <2>1. ASSUME NEW t \in Transfers, t \in attachSends
        PROVE  ChunksOf(t) \cap pending' = ChunksOf(t) \cap pending
    BY <1>1, <1>2, <2>1
  <2>2. QED
    BY <1>1, <2>1 DEF ChunksAccounted
<1>5. OneVerdict' /\ AckedImpliesReceived'
  BY <1>1 DEF OneVerdict, AckedImpliesReceived
<1>6. UnderWay' /\ OwnChunks'
  BY <1>1 DEF UnderWay, OwnChunks
<1>7. Numbering' /\ OnlySent' /\ AcksSent' /\ WindowTaken' /\ TakenNumbers' /\ FreshTransfers'
  <2>1. wire' \cup chunkSeqs' \cup pending' \cup failedSends' \cup acked'
          \subseteq wire \cup chunkSeqs \cup pending \cup failedSends \cup acked
    BY <1>1, <1>2
  <2>2. QED
    BY <1>1, <2>1, NumbersKept
<1>8. HoldsAcked'
  BY <1>1 DEF HoldsAcked, HasTaken, AckOf, Recipient
<1>9. QED
  BY <1>3, <1>4, <1>5, <1>6, <1>7, <1>8

\* The acknowledgement of a chunk that is no longer registered settles a packet that is
\* of no transfer under way, or acknowledged already.
LEMMA AckUnregisteredKeeps ==
  ASSUME IInv, NEW a \in acks, NEW changed \in BOOLEAN, HandleAck(a, changed),
         AckUnregistered(a)
  PROVE  IInv'
<1> USE DEF IInv
<1> DEFINE back == Revived(a.from, changed)
           done == Named(a, pending \cup back)
<1>0. PICK c \in Chunks : /\ Registered(a) = {c} \cap chunkSeqs
                         /\ \A S \in SUBSET Chunks : Named(a, S) = {c} \cap S
  BY AckNames
<1>1. /\ Registered(a) = {}
      /\ wire' = wire \cup back /\ pending' = (pending \cup back) \ done
      /\ attempts' = ResetOn(back \cup done) /\ failedSends' = failedSends \ (back \cup done)
      /\ UNCHANGED <<attachSeq, seqOf, chunkSeqs, attachSends, acked, verdict, verdicts, acks,
                     sessions, taken, buffers, received, twice, halved, rebooted>>
  BY DEF HandleAck, AckUnregistered, friendVars
<1>2. /\ back \subseteq failedSends /\ back \subseteq Chunks
      /\ \A t \in attachSends : ChunksOf(t) \cap back = {}
  BY RevivedAreOver
<1>2a. done \subseteq {c} /\ c \notin chunkSeqs
  <2>1. pending \cup back \in SUBSET Chunks
    BY <1>2 DEF TypeOK
  <2>2. QED
    BY <1>0, <1>1, <2>1
<1>3. TypeOK'
  BY <1>1, <1>2, HelperFacts DEF TypeOK
<1> HIDE DEF back, done
<1>4. ChunksAccounted'
  <2>1. ASSUME NEW t \in Transfers, t \in attachSends
        PROVE  ChunksOf(t) \cap pending' = ChunksOf(t) \cap pending
    <3>1. ChunksOf(t) \cap chunkSeqs = ChunksOf(t) \cap pending
      BY <2>1 DEF ChunksAccounted
    <3>2. QED
      BY <1>1, <1>2, <1>2a, <2>1, <3>1
  <2>2. QED
    BY <1>1, <2>1 DEF ChunksAccounted
<1>5. OneVerdict' /\ AckedImpliesReceived'
  BY <1>1 DEF OneVerdict, AckedImpliesReceived
<1>6. UnderWay' /\ OwnChunks'
  BY <1>1 DEF UnderWay, OwnChunks
<1>7. Numbering' /\ OnlySent' /\ AcksSent' /\ WindowTaken' /\ TakenNumbers' /\ FreshTransfers'
  <2>1. wire' \cup chunkSeqs' \cup pending' \cup failedSends' \cup acked'
          \subseteq wire \cup chunkSeqs \cup pending \cup failedSends \cup acked
    BY <1>1, <1>2
  <2>2. QED
    BY <1>1, <2>1, NumbersKept
<1>8. HoldsAcked'
  BY <1>1 DEF HoldsAcked, HasTaken, AckOf, Recipient
<1>9. QED
  BY <1>3, <1>4, <1>5, <1>6, <1>7, <1>8

\* The acknowledgement of a registered chunk: its transfer is under way, and complete
\* exactly when every chunk is acknowledged; then the friend, who holds what it has
\* acknowledged, has handed the whole to its user.
LEMMA AckRegisteredKeeps ==
  ASSUME IInv, NEW a \in acks, NEW changed \in BOOLEAN, HandleAck(a, changed),
         NEW c \in Registered(a), AckRegistered(c, a)
  PROVE  IInv'
<1> USE DEF IInv
<1> DEFINE back == Revived(a.from, changed)
           settled == Named(a, pending \cup back)
           u == c.transfer
           done == Complete(u, acked \cup {c})
<1>0. /\ c \in chunkSeqs /\ c \in Chunks /\ u \in Transfers /\ c \in ChunksOf(u)
      /\ a = AckOf(c) /\ Recipient(c) = a.from
      /\ Registered(a) = {c}
      /\ \A S \in SUBSET Chunks : Named(a, S) = {c} \cap S
      /\ u \in attachSends
  <2>1. PICK d \in Chunks : /\ a = AckOf(d) /\ Recipient(d) = a.from
                           /\ Registered(a) = {d} \cap chunkSeqs
                           /\ \A S \in SUBSET Chunks : Named(a, S) = {d} \cap S
    BY AckNames
  <2>2. c = d
    BY <2>1
  <2>3. c \in chunkSeqs /\ c \in Chunks /\ u \in Transfers /\ c \in ChunksOf(u)
    BY <2>1, <2>2, ChunkFacts
  <2>4. u \in attachSends
    BY <2>3 DEF ChunksAccounted
  <2>5. QED
    BY <2>1, <2>2, <2>3, <2>4
<1>1. /\ chunkSeqs' = chunkSeqs \ {c}
      /\ wire' = wire \cup back /\ pending' = (pending \cup back) \ settled
      /\ attempts' = ResetOn(back \cup settled)
      /\ failedSends' = failedSends \ (back \cup settled)
      /\ acked' = IF done THEN {x \in acked : x.transfer # u} ELSE acked \cup {c}
      /\ attachSends' = IF done THEN attachSends \ {u} ELSE attachSends
      /\ Conclude(IF done THEN {u} ELSE {}, "acked")
      /\ UNCHANGED <<attachSeq, seqOf, acks, sessions, taken, buffers, received, twice, halved,
                     rebooted>>
  BY <1>0 DEF HandleAck, AckRegistered, friendVars
<1>2. /\ back \subseteq failedSends /\ back \subseteq Chunks
      /\ \A t \in attachSends : ChunksOf(t) \cap back = {}
  BY RevivedAreOver
<1>3. /\ c \in Chunks /\ u \in Transfers /\ c \in ChunksOf(u)
      /\ u \in attachSends
      /\ \A t \in Transfers : t # u => c \notin ChunksOf(t)
  BY <1>0, ChunksDisjoint
<1>3a. settled \subseteq {c} /\ c \notin pending'
  <2>1. pending \cup back \in SUBSET Chunks
    BY <1>2 DEF TypeOK
  <2>2. QED
    BY <1>0, <1>1, <2>1
<1>4. done <=> ChunksOf(u) \subseteq acked \cup {c}
  <2>1. {x \in acked \cup {c} : x.transfer = u} = ChunksOf(u) \cap (acked \cup {c})
    BY <1>3, ChunkFacts DEF TypeOK
  <2>2. {x \in acked \cup {c} : x.transfer = u} \in SUBSET ChunksOf(u)
    BY <2>1
  <2>3. Complete(u, acked \cup {c})
        <=> {x \in acked \cup {c} : x.transfer = u} = ChunksOf(u)
    BY <1>3, <2>2, AllIndexes DEF Complete
  <2>4. QED
    BY <1>3, <2>1, <2>3
<1>5. \A t \in Transfers :
        /\ verdict'[t] = IF done /\ t = u THEN "acked" ELSE verdict[t]
        /\ verdicts'[t] = IF done /\ t = u THEN verdicts[t] + 1 ELSE verdicts[t]
  <2> DEFINE T == IF done THEN {u} ELSE {}
  <2>1. T \in SUBSET Transfers /\ Conclude(T, "acked")
    BY <1>1, <1>3
  <2>2. \A t \in Transfers : t \in T <=> done /\ t = u
    BY <1>3
  <2> HIDE DEF T
  <2>3. \A t \in Transfers :
          /\ verdict'[t] = IF t \in T THEN "acked" ELSE verdict[t]
          /\ verdicts'[t] = IF t \in T THEN verdicts[t] + 1 ELSE verdicts[t]
    BY <2>1, HelperFacts
  <2>4. QED
    BY <2>2, <2>3
<1>6. TypeOK'
  <2>1. /\ verdict' \in [Transfers -> Verdicts]
        /\ verdicts' \in [Transfers -> Nat]
    BY <1>1, HelperFacts
  <2>2. acked' \in SUBSET Chunks /\ attachSends' \in SUBSET Transfers
    BY <1>1, <1>3 DEF TypeOK
  <2>3. attempts' \in [Chunks -> 0 .. MaxRetries]
    BY <1>1, HelperFacts
  <2>4. QED
    BY <1>1, <1>2, <2>1, <2>2, <2>3 DEF TypeOK, Verdicts
<1> HIDE DEF back, done, settled
<1>7. ChunksAccounted'
  <2>1. ASSUME NEW t \in Transfers, t # u
        PROVE  IF t \in attachSends'
               THEN /\ verdict'[t] = "sending"
                    /\ ChunksOf(t) \cap chunkSeqs' = ChunksOf(t) \ acked'
                    /\ ChunksOf(t) \cap pending' = ChunksOf(t) \ acked'
               ELSE ChunksOf(t) \cap (chunkSeqs' \cup acked') = {}
    <3>1. /\ c \notin ChunksOf(t) /\ (t \in attachSends' <=> t \in attachSends)
          /\ \A x \in ChunksOf(t) : x.transfer = t
          /\ verdict'[t] = verdict[t]
      BY <1>1, <1>3, <1>5, <2>1, ChunkFacts
    <3>2. /\ ChunksOf(t) \cap chunkSeqs' = ChunksOf(t) \cap chunkSeqs
          /\ ChunksOf(t) \cap acked' = ChunksOf(t) \cap acked
      BY <1>1, <2>1, <3>1
    <3>3. t \in attachSends => ChunksOf(t) \cap pending' = ChunksOf(t) \cap pending
      BY <1>1, <1>2, <1>3a, <2>1, <3>1
    <3>4. QED
      BY <3>1, <3>2, <3>3 DEF ChunksAccounted
  <2>2. CASE done
    <3>1. ChunksOf(u) \cap acked' = {}
      BY <1>1, <1>3, <2>2, ChunkFacts
    <3>2. ChunksOf(u) \cap chunkSeqs' = {}
      <4>1. ChunksOf(u) \cap chunkSeqs = ChunksOf(u) \ acked
        BY <1>3 DEF ChunksAccounted
      <4>2. QED
        BY <1>1, <1>4, <2>2, <4>1
    <3>3. u \notin attachSends'
      BY <1>1, <2>2
    <3>4. QED
      BY <2>1, <3>1, <3>2, <3>3 DEF ChunksAccounted
  <2>3. CASE ~done
    <3>1. /\ verdict[u] = "sending"
          /\ ChunksOf(u) \cap chunkSeqs = ChunksOf(u) \ acked
          /\ ChunksOf(u) \cap pending = ChunksOf(u) \ acked
      BY <1>3 DEF ChunksAccounted
    <3>2. /\ acked' = acked \cup {c} /\ attachSends' = attachSends /\ verdict'[u] = verdict[u]
      BY <1>1, <1>3, <1>5, <2>3
    <3>3. ChunksOf(u) \cap back = {}
      BY <1>2, <1>3
    <3>4. /\ ChunksOf(u) \cap chunkSeqs' = ChunksOf(u) \ acked'
          /\ ChunksOf(u) \cap pending' = ChunksOf(u) \ acked'
      BY <1>1, <1>3a, <3>1, <3>2, <3>3
    <3>5. QED
      BY <1>3, <2>1, <3>1, <3>2, <3>4 DEF ChunksAccounted
  <2>4. QED
    BY <2>2, <2>3
<1>8. verdict[u] = "sending"
  BY <1>3 DEF UnderWay
<1>9. OneVerdict'
  BY <1>5, <1>8 DEF OneVerdict
<1>10. AckedImpliesReceived'
  <2>1. ASSUME done, u \notin Oversize \cup received \cup halved
        PROVE  FALSE
    <3>1. /\ \A x \in ChunksOf(u) : HasTaken(x) => x \in buffers[u]
          /\ buffers[u] # ChunksOf(u)
      BY <1>3, <2>1 DEF HoldsAcked
    <3>2. \A x \in ChunksOf(u) : HasTaken(x)
      <4>1. HasTaken(c)
        BY <1>0 DEF HasTaken
      <4>2. \A x \in acked : HasTaken(x)
        BY DEF HasTaken
      <4>3. QED
        BY <1>4, <2>1, <4>1, <4>2
    <3>3. buffers[u] \subseteq ChunksOf(u)
      BY <1>3 DEF OwnChunks
    <3>4. QED
      BY <3>1, <3>2, <3>3
  <2>2. QED
    BY <1>1, <1>5, <2>1 DEF AckedImpliesReceived
<1>11. UnderWay' /\ OwnChunks'
  BY <1>1, <1>5, <1>8 DEF UnderWay, OwnChunks
<1>12. Numbering' /\ OnlySent' /\ AcksSent' /\ WindowTaken' /\ TakenNumbers' /\ FreshTransfers'
  <2>1. wire' \cup chunkSeqs' \cup pending' \cup failedSends' \cup acked'
          \subseteq wire \cup chunkSeqs \cup pending \cup failedSends \cup acked
    BY <1>0, <1>1, <1>2
  <2>2. \A t \in Transfers : verdict'[t] = "none" => verdict[t] = "none"
    BY <1>5
  <2>3. QED
    BY <1>1, <2>1, <2>2, NumbersKept
<1>13. HoldsAcked'
  <2>1. HasTaken(c)
    BY <1>0 DEF HasTaken
  <2>2. acked' \subseteq acked \cup {c}
    BY <1>1
  <2>3. \A x : HasTaken(x)' => HasTaken(x)
    BY <1>1, <2>1, <2>2 DEF HasTaken, AckOf, Recipient
  <2>4. attachSends' \subseteq attachSends
    BY <1>1
  <2>5. QED
    BY <1>1, <2>3, <2>4 DEF HoldsAcked
<1>14. QED
  BY <1>6, <1>7, <1>9, <1>10, <1>11, <1>12, <1>13

-----------------------------------------------------------------------------
(* The friend, the wire.                                                   *)

\* A packet of this node only adds its number to what the friend has taken, and to what
\* the friend remembers.
LEMMA TakeFacts ==
  ASSUME IInv, NEW p \in Peers, NEW n \in Nat, Take(p, n)
  PROVE  /\ sessions' \in [Peers -> Windows(Nat)] /\ taken' \in [Peers -> SUBSET Nat]
         /\ \A q \in Peers : sessions'[q] = IF q = p THEN MarkSeen(sessions[p], n) ELSE sessions[q]
         /\ \A q \in Peers :
              /\ sessions'[q].seenSet \subseteq sessions[q].seenSet \cup {n}
              /\ q # p => sessions'[q].seenSet = sessions[q].seenSet
              /\ taken[q] \subseteq taken'[q] /\ taken'[q] \subseteq taken[q] \cup {n}
         /\ ~IsSeen(sessions[p], n) => n \in taken'[p]
         /\ WindowTaken'
<1> USE DEF IInv
<1>1. sessions \in [Peers -> Windows(Nat)] /\ taken \in [Peers -> SUBSET Nat]
  BY DEF TypeOK
<1>2. /\ sessions' = [sessions EXCEPT ![p] = MarkSeen(@, n)]
      /\ taken' = IF IsSeen(sessions[p], n) THEN taken ELSE [taken EXCEPT ![p] = @ \cup {n}]
  BY DEF Take
<1>3. MarkSeen(sessions[p], n) \in Windows(Nat)
  BY <1>1, MarkSeenType
<1>4. /\ MarkSeen(sessions[p], n).seenSet \subseteq sessions[p].seenSet \cup {n}
      /\ IsSeen(sessions[p], n) => MarkSeen(sessions[p], n) = sessions[p]
  BY MarkSeenAddsOnly DEF MarkSeen
<1>5. \A q \in Peers : sessions'[q] = IF q = p THEN MarkSeen(sessions[p], n) ELSE sessions[q]
  BY <1>1, <1>2
<1>6. /\ \A q \in Peers : taken[q] \subseteq taken'[q] /\ taken'[q] \subseteq taken[q] \cup {n}
      /\ ~IsSeen(sessions[p], n) => n \in taken'[p]
  BY <1>1, <1>2
<1>7. WindowTaken'
  <2>1. ASSUME NEW q \in Peers
        PROVE  sessions'[q].seenSet \subseteq taken'[q]
    <3>1. CASE q = p /\ ~IsSeen(sessions[p], n)
      BY <1>4, <1>5, <1>6, <3>1 DEF WindowTaken
    <3>2. CASE q # p \/ IsSeen(sessions[p], n)
      BY <1>4, <1>5, <1>6, <3>2 DEF WindowTaken
    <3>3. QED
      BY <3>1, <3>2
  <2>2. QED
    BY <2>1 DEF WindowTaken
<1>8. sessions' \in [Peers -> Windows(Nat)] /\ taken' \in [Peers -> SUBSET Nat]
  BY <1>1, <1>2, <1>3
<1>9. QED
  BY <1>4, <1>5, <1>6, <1>7, <1>8

\* The friend acknowledges a chunk and holds it, unless that was the last one: then the
\* whole is with its user.
LEMMA HandleMsgKeeps ==
  ASSUME IInv, NEW c \in wire, HandleMsg(c)
  PROVE  IInv'
<1> USE DEF IInv
<1> DEFINE p == Recipient(c)
           u == c.transfer
           got == buffers[u] \cup {c}
<1>1. /\ acks' = acks \cup {AckOf(c)}
      /\ Take(p, seqOf[c])
      /\ UNCHANGED <<attachSeq, seqOf, chunkSeqs, attachSends, acked, pending, attempts,
                     failedSends, verdict, verdicts, wire, halved, rebooted>>
  BY DEF HandleMsg, senderVars, AckOf
<1>2. /\ c \in Chunks /\ u \in Transfers /\ c \in ChunksOf(u) /\ p \in Peers /\ p = To[u]
      /\ \A t \in Transfers : t # u => c \notin ChunksOf(t)
      /\ \A t \in Transfers : To[t] \in Peers
      /\ seqOf[c] # 0 /\ seqOf[c] \in Nat
  <2>1. c \in Chunks /\ seqOf[c] # 0 /\ seqOf[c] \in Nat
    BY DEF TypeOK, OnlySent
  <2>2. c.transfer \in Transfers /\ c \in ChunksOf(c.transfer) /\ Recipient(c) \in Peers
    BY <2>1, ChunkFacts
  <2>3. QED
    BY <2>1, <2>2, ChunksDisjoint, AttachAssumption DEF Recipient
<1>3. verdict[u] # "none"
  BY <1>2 DEF FreshTransfers
<1>4. /\ sessions' \in [Peers -> Windows(Nat)] /\ taken' \in [Peers -> SUBSET Nat]
      /\ \A q \in Peers : sessions'[q].seenSet \subseteq sessions[q].seenSet \cup {seqOf[c]}
      /\ \A q \in Peers : taken'[q] \subseteq taken[q] \cup {seqOf[c]}
      /\ WindowTaken'
  BY <1>1, <1>2, TakeFacts
<1>5. \/ /\ UNCHANGED <<buffers, received, twice>>
         /\ IsSeen(sessions[p], seqOf[c]) \/ u \in Oversize
      \/ /\ Assembled(u, got) /\ u \notin Oversize
         /\ buffers' = [buffers EXCEPT ![u] = {}] /\ received' = received \cup {u}
         /\ twice' = twice \cup ({u} \cap received)
      \/ /\ ~Assembled(u, got) /\ u \notin Oversize
         /\ buffers' = [buffers EXCEPT ![u] = got] /\ UNCHANGED <<received, twice>>
  BY DEF HandleMsg, Assemble
<1>6. got \subseteq ChunksOf(u) /\ (Assembled(u, got) <=> got = ChunksOf(u))
  <2>1. got \in SUBSET ChunksOf(u)
    BY <1>2 DEF OwnChunks
  <2>2. QED
    BY <1>2, <2>1, AllIndexes DEF Assembled
<1>7. \A t \in Transfers : t # u => buffers'[t] = buffers[t] /\ (t \in received' <=> t \in received)
  BY <1>5 DEF TypeOK
<1>8. buffers \in [Transfers -> SUBSET Chunks]
  BY DEF TypeOK
<1> HIDE DEF got
<1>9. TypeOK'
  <2>2. buffers' \in [Transfers -> SUBSET Chunks]
    <3>1. got \in SUBSET Chunks
      BY <1>2, <1>8 DEF got
    <3>2. QED
      BY <1>2, <1>5, <1>8, <3>1
  <2>3. received' \in SUBSET Transfers /\ twice' \in SUBSET received'
    BY <1>2, <1>5 DEF TypeOK
  <2>4. acks' \in SUBSET [from : Peers, seq : Nat]
    BY <1>1, <1>2 DEF TypeOK, AckOf
  <2>5. QED
    BY <1>1, <1>4, <2>2, <2>3, <2>4 DEF TypeOK
<1>10. ChunksAccounted' /\ OneVerdict' /\ UnderWay'
  BY <1>1 DEF ChunksAccounted, OneVerdict, UnderWay
<1>11. AckedImpliesReceived'
  <2>1. received \subseteq received'
    BY <1>5
  <2>2. QED
    BY <1>1, <2>1 DEF AckedImpliesReceived
<1>12. FreshTransfers'
  <2>1. \A t \in Transfers : verdict'[t] = "none" => t # u /\ verdict[t] = "none"
    BY <1>1, <1>3
  <2>2. QED
    BY <1>1, <1>7, <2>1 DEF FreshTransfers
<1>12a. Numbering' /\ OnlySent' /\ AcksSent' /\ TakenNumbers'
  <2>1. Numbering' /\ OnlySent'
    BY <1>1 DEF Numbering, OnlySent
  <2>2. AcksSent'
    BY <1>1, <1>2 DEF AcksSent, AckOf, Recipient
  <2>3. AttachSeqBase < seqOf[c] /\ seqOf[c] <= attachSeq
    BY <1>2 DEF Numbering
  <2>4. TakenNumbers'
    BY <1>1, <1>4, <2>3 DEF TakenNumbers
  <2>5. QED
    BY <2>1, <2>2, <2>4
<1>13. OwnChunks'
  <2>1. buffers'[u] \subseteq ChunksOf(u)
    BY <1>2, <1>5, <1>6, <1>8 DEF OwnChunks
  <2>2. QED
    BY <1>7, <2>1 DEF OwnChunks
<1>13a. \A x \in Chunks : x # c /\ HasTaken(x)' => HasTaken(x)
  <2>1. SUFFICES ASSUME NEW x \in Chunks, x # c, HasTaken(x)'
                 PROVE  HasTaken(x)
    OBVIOUS
  <2>2. seqOf[x] # seqOf[c]
    BY <1>2, <2>1 DEF Numbering
  <2>3. Recipient(x) \in Peers
    BY ChunkFacts
  <2>4. AckOf(x) # AckOf(c)
    BY <2>2 DEF AckOf
  <2>5. /\ x \in acked' => x \in acked
        /\ AckOf(x)' \in acks' => AckOf(x) \in acks
        /\ seqOf'[x] \in sessions'[Recipient(x)].seenSet
             => seqOf[x] \in sessions[Recipient(x)].seenSet
    BY <1>1, <1>4, <2>2, <2>3, <2>4 DEF AckOf, Recipient
  <2>6. QED
    BY <2>1, <2>5 DEF HasTaken, Recipient
<1>14. HoldsAcked'
  <2>1. ASSUME NEW t \in attachSends, t \notin Oversize \cup received' \cup halved
        PROVE  /\ \A x \in ChunksOf(t) : HasTaken(x)' => x \in buffers'[t]
               /\ buffers'[t] # ChunksOf(t)
    <3>1. t \in Transfers /\ t \notin received
      BY <1>5, <2>1 DEF TypeOK
    <3>2. /\ \A x \in ChunksOf(t) : HasTaken(x) => x \in buffers[t]
          /\ buffers[t] # ChunksOf(t)
          /\ ChunksOf(t) \subseteq Chunks
      BY <2>1, <3>1, ChunkFacts DEF HoldsAcked
    <3>3. CASE t # u
      BY <1>2, <1>7, <1>13a, <3>1, <3>2, <3>3
    <3>4. CASE t = u
      <4>1. c \in buffers'[u] /\ buffers[u] \subseteq buffers'[u] /\ buffers'[u] # ChunksOf(u)
        <5>1. CASE UNCHANGED <<buffers, received, twice>> /\ IsSeen(sessions[p], seqOf[c])
          BY <1>2, <3>2, <3>4, <5>1 DEF IsSeen, HasTaken
        <5>2. CASE /\ ~Assembled(u, got)
                   /\ buffers' = [buffers EXCEPT ![u] = got]
          BY <1>2, <1>6, <1>8, <5>2 DEF got
        <5>3. u \notin received' /\ u \notin Oversize
          BY <2>1, <3>4
        <5>4. QED
          BY <1>5, <5>1, <5>2, <5>3
      <4>2. \A x \in ChunksOf(u) : HasTaken(x)' => x \in buffers'[u]
        BY <1>13a, <3>2, <3>4, <4>1
      <4>3. QED
        BY <3>4, <4>1, <4>2
    <3>5. QED
      BY <3>3, <3>4
  <2>2. QED
    BY <1>1, <2>1 DEF HoldsAcked
<1>15. QED
  BY <1>4, <1>9, <1>10, <1>11, <1>12, <1>12a, <1>13, <1>14

\* A text takes a place in the friend's window and touches no chunk: its number is below
\* the chunks' numbers.
LEMMA HandleTextKeeps ==
  ASSUME IInv, NEW p \in Peers, NEW n \in Seqs, HandleText(p, n)
  PROVE  IInv'
<1> USE DEF IInv
<1>1. /\ Take(p, n)
      /\ UNCHANGED <<attachSeq, seqOf, chunkSeqs, attachSends, acked, pending, attempts,
                     failedSends, verdict, verdicts, wire, acks, buffers, received, twice,
                     halved, rebooted>>
  BY DEF HandleText, senderVars
<1>2. n \in Nat /\ n <= MaxSeq
  BY AttachAssumption DEF Seqs
<1>3. /\ sessions' \in [Peers -> Windows(Nat)] /\ taken' \in [Peers -> SUBSET Nat]
      /\ \A q \in Peers : sessions'[q].seenSet \subseteq sessions[q].seenSet \cup {n}
      /\ \A q \in Peers : taken'[q] \subseteq taken[q] \cup {n}
      /\ WindowTaken'
  BY <1>1, <1>2, TakeFacts
<1>4. TypeOK'
  BY <1>1, <1>3 DEF TypeOK
<1>5. ChunksAccounted' /\ OneVerdict' /\ AckedImpliesReceived' /\ UnderWay' /\ OwnChunks'
  BY <1>1 DEF ChunksAccounted, OneVerdict, AckedImpliesReceived, UnderWay, OwnChunks
<1>6. Numbering' /\ OnlySent' /\ AcksSent' /\ FreshTransfers'
  BY <1>1 DEF Numbering, OnlySent, AcksSent, AckOf, Recipient, FreshTransfers
<1>7. TakenNumbers'
  BY <1>1, <1>2, <1>3 DEF TakenNumbers
<1>8. HoldsAcked'
  <2>1. ASSUME NEW x \in Chunks, HasTaken(x)', seqOf[x] # 0
        PROVE  HasTaken(x)
    <3>1. seqOf[x] # n
      <4>1. seqOf[x] > AttachSeqBase /\ seqOf[x] \in Nat
        BY <2>1 DEF Numbering, TypeOK
      <4>2. QED
        BY <1>2, <4>1, AttachAssumption
    <3>2. Recipient(x) \in Peers
      BY ChunkFacts
    <3>3. QED
      BY <1>1, <1>3, <2>1, <3>1, <3>2 DEF HasTaken, AckOf, Recipient
  <2>2. ASSUME NEW t \in attachSends, NEW x \in ChunksOf(t)
        PROVE  x \in Chunks /\ seqOf[x] # 0
    <3>1. t \in Transfers /\ x \in Chunks
      BY ChunkFacts DEF TypeOK
    <3>2. x \in chunkSeqs \/ x \in acked
      BY <3>1 DEF ChunksAccounted
    <3>3. QED
      BY <3>1, <3>2 DEF OnlySent
  <2>3. QED
    BY <1>1, <2>1, <2>2 DEF HoldsAcked
<1>9. QED
  BY <1>3, <1>4, <1>5, <1>6, <1>7, <1>8

\* Pruned entries are of transfers that are over.
LEMMA PruneRecvKeeps ==
  ASSUME IInv, NEW u \in Transfers, PruneRecv(u)
  PROVE  IInv'
<1> USE DEF IInv
<1>1. /\ u \notin attachSends /\ buffers' = [buffers EXCEPT ![u] = {}]
      /\ UNCHANGED <<attachSeq, seqOf, chunkSeqs, attachSends, acked, pending, attempts,
                     failedSends, verdict, verdicts, wire, acks, sessions, taken, received,
                     twice, halved, rebooted>>
  BY DEF PruneRecv, senderVars
<1>2. \A t \in Transfers : buffers'[t] = IF t = u THEN {} ELSE buffers[t]
  BY <1>1 DEF TypeOK
<1>3. TypeOK'
  BY <1>1 DEF TypeOK
<1>4. ChunksAccounted' /\ OneVerdict' /\ AckedImpliesReceived' /\ UnderWay'
  BY <1>1 DEF ChunksAccounted, OneVerdict, AckedImpliesReceived, UnderWay
<1>5. FreshTransfers' /\ OwnChunks'
  BY <1>1, <1>2 DEF FreshTransfers, OwnChunks
<1>6. HoldsAcked'
  <2>1. attachSends \subseteq Transfers
    BY DEF TypeOK
  <2>2. QED
    BY <1>1, <1>2, <2>1 DEF HoldsAcked, HasTaken, AckOf, Recipient
<1>7. Numbering' /\ OnlySent' /\ AcksSent' /\ WindowTaken' /\ TakenNumbers'
  BY <1>1 DEF Numbering, OnlySent, AcksSent, AckOf, Recipient, WindowTaken, TakenNumbers
<1>8. QED
  BY <1>3, <1>4, <1>5, <1>6, <1>7

\* A friend that restarts loses what it held: of the transfers it held a part of nothing
\* is claimed from then on, and of the others it has taken nothing.
LEMMA PeerRestartKeeps ==
  ASSUME IInv, NEW p \in Peers, PeerRestart(p)
  PROVE  IInv'
<1> USE DEF IInv
<1>1. /\ sessions' = [sessions EXCEPT ![p] = EmptyWindow]
      /\ buffers' = [t \in Transfers |-> IF To[t] = p THEN {} ELSE buffers[t]]
      /\ halved' = halved \cup {t \in Transfers : To[t] = p /\ buffers[t] # {}}
      /\ rebooted' = rebooted \cup {p}
      /\ UNCHANGED <<attachSeq, seqOf, chunkSeqs, attachSends, acked, pending, attempts,
                     failedSends, verdict, verdicts, wire, acks, taken, received, twice>>
  BY DEF PeerRestart, senderVars
<1>2. /\ \A q \in Peers : sessions'[q].seenSet \subseteq sessions[q].seenSet
      /\ \A t \in Transfers : /\ buffers'[t] \subseteq buffers[t]
                              /\ t \notin halved' => buffers'[t] = buffers[t] /\ t \notin halved
  <2>1. EmptyWindow.seenSet = {}
    BY DEF EmptyWindow
  <2>2. QED
    BY <1>1, <2>1, AttachAssumption DEF TypeOK
<1>3. TypeOK'
  <2>1. EmptyWindow \in Windows(Nat)
    BY DEF EmptyWindow, Windows
  <2>2. buffers' \in [Transfers -> SUBSET Chunks]
    BY <1>1 DEF TypeOK
  <2>3. halved' \in SUBSET Transfers /\ rebooted' \in SUBSET Peers
    BY <1>1 DEF TypeOK
  <2>4. QED
    BY <1>1, <2>1, <2>2, <2>3 DEF TypeOK
<1>4. ChunksAccounted' /\ OneVerdict' /\ AckedImpliesReceived' /\ UnderWay'
  BY <1>1 DEF ChunksAccounted, OneVerdict, AckedImpliesReceived, UnderWay
<1>5. FreshTransfers' /\ OwnChunks'
  BY <1>1, <1>2 DEF FreshTransfers, OwnChunks
<1>6. Numbering' /\ OnlySent' /\ AcksSent' /\ TakenNumbers'
  BY <1>1 DEF Numbering, OnlySent, AcksSent, AckOf, Recipient, TakenNumbers
<1>7. WindowTaken'
  BY <1>1, <1>2 DEF WindowTaken
<1>8. HoldsAcked'
  <2>1. \A x \in Chunks : HasTaken(x)' => HasTaken(x)
    <3>1. \A x \in Chunks : Recipient(x) \in Peers
      BY ChunkFacts
    <3>2. QED
      BY <1>1, <1>2, <3>1 DEF HasTaken, AckOf, Recipient
  <2>2. \A t \in attachSends : t \in Transfers /\ ChunksOf(t) \subseteq Chunks
    BY ChunkFacts DEF TypeOK
  <2>3. QED
    BY <1>1, <1>2, <2>1, <2>2 DEF HoldsAcked
<1>9. QED
  BY <1>3, <1>4, <1>5, <1>6, <1>7, <1>8

\* A step that changes nothing keeps the invariant.
LEMMA StutterKeeps ==
  ASSUME IInv, UNCHANGED vars
  PROVE  IInv'
<1> USE DEF IInv, vars, senderVars, friendVars
<1>1. TypeOK' /\ ChunksAccounted' /\ OneVerdict' /\ AckedImpliesReceived'
  BY DEF TypeOK, ChunksAccounted, OneVerdict, AckedImpliesReceived
<1>2. UnderWay' /\ FreshTransfers' /\ OwnChunks' /\ HoldsAcked'
  BY DEF UnderWay, FreshTransfers, OwnChunks, HoldsAcked, HasTaken, AckOf, Recipient
<1>3. Numbering' /\ OnlySent' /\ AcksSent' /\ WindowTaken' /\ TakenNumbers'
  BY DEF Numbering, OnlySent, AcksSent, AckOf, Recipient, WindowTaken, TakenNumbers
<1>4. QED
  BY <1>1, <1>2, <1>3

\* Every step keeps the invariant.
LEMMA NextKeeps ==
  ASSUME IInv, [Next]_vars
  PROVE  IInv'
<1>1. ASSUME NEW a \in acks, NEW changed \in BOOLEAN, HandleAck(a, changed)
      PROVE  IInv'
  BY <1>1, AckRegisteredKeeps, AckUnregisteredKeeps DEF HandleAck
<1>2. QED
  BY <1>1, SendAttachKeeps, SendAttachRejectedKeeps, PollRetriesKeeps, HearFromKeeps,
     HandleMsgKeeps, HandleTextKeeps, PruneRecvKeeps, PeerRestartKeeps, StutterKeeps DEF Next

-----------------------------------------------------------------------------
(* What follows.                                                           *)

\* IInv is invariant: the conjuncts above hold of every state, for any constants.
THEOREM InductiveInvariant == Spec => []IInv
BY InitIInv, NextKeeps, PTL DEF Spec

\* The variables keep their types: counters of attempts stay within the limit.
THEOREM TypeCorrect == Spec => []TypeOK
<1>1. IInv => TypeOK
  BY DEF IInv
<1>2. QED
  BY <1>1, InductiveInvariant, PTL

\* chunk_seqs, attach_sends and the retransmitter agree.
THEOREM MapsAgree == Spec => []ChunksAccounted
<1>1. IInv => ChunksAccounted
  BY DEF IInv
<1>2. QED
  BY <1>1, InductiveInvariant, PTL

\* A transfer ends once.
THEOREM SingleVerdict == Spec => []OneVerdict
<1>1. IInv => OneVerdict
  BY DEF IInv
<1>2. QED
  BY <1>1, InductiveInvariant, PTL

\* Within one run of this node "delivered" is true of the friend's user, unless the
\* friend drops attachments of this size or lost a part of this one in a restart.
THEOREM AckedIsReceived == Spec => []AckedImpliesReceived
<1>1. IInv => AckedImpliesReceived
  BY DEF IInv
<1>2. QED
  BY <1>1, InductiveInvariant, PTL

-----------------------------------------------------------------------------
(* Attachments delivered twice.                                            *)

\* Each window is well formed, and what each friend has taken can be counted.
WindowsOwn == \A p \in Peers : WellFormed(sessions[p]) /\ IsFiniteSet(taken[p])

\* A chunk the friend has assembled in its present run is in its window, unless the
\* window has been full.
Remembered ==
  \A t \in Transfers : To[t] \notin rebooted =>
    \A c \in ChunksOf(t) : c \in buffers[t] \/ t \in received =>
      seqOf[c] \in sessions[To[t]].seenSet \/ Len(sessions[To[t]].seen) = MaxSeen

WInv == WindowsOwn /\ Remembered /\ ReceivedTwiceNeedsOverflow

\* What a packet of this node does to the counting: the friend forgets numbers only when
\* its window is full, and then it has taken more than MaxSeen.
LEMMA TakeCounts ==
  ASSUME IInv, WInv, NEW p \in Peers, NEW n \in Nat, Take(p, n)
  PROVE  /\ WindowsOwn'
         /\ n \in sessions'[p].seenSet
         /\ \A q \in Peers :
              /\ \A x \in sessions[q].seenSet :
                   x \in sessions'[q].seenSet \/ Len(sessions'[q].seen) = MaxSeen
              /\ Len(sessions[q].seen) = MaxSeen => Len(sessions'[q].seen) = MaxSeen
              /\ Cardinality(taken[q]) > MaxSeen => Cardinality(taken'[q]) > MaxSeen
         /\ ~IsSeen(sessions[p], n) /\ Len(sessions[p].seen) = MaxSeen
              => Cardinality(taken'[p]) > MaxSeen
<1> USE DEF IInv, WInv
<1> DEFINE w == sessions[p]
           v == MarkSeen(w, n)
<1>1. /\ \A q \in Peers : sessions'[q] = IF q = p THEN v ELSE sessions[q]
      /\ \A q \in Peers : taken[q] \subseteq taken'[q] /\ taken'[q] \subseteq taken[q] \cup {n}
      /\ ~IsSeen(w, n) => n \in taken'[p]
      /\ WindowTaken'
  BY TakeFacts
<1>2. w \in Windows(Nat) /\ WellFormed(w)
  BY DEF TypeOK, WindowsOwn
<1>3. /\ WellFormed(v) /\ n \in v.seenSet
      /\ \A x \in w.seenSet : x \in v.seenSet \/ Len(v.seen) = MaxSeen
      /\ Len(w.seen) = MaxSeen => Len(v.seen) = MaxSeen
  BY <1>2, MarkSeenWellFormed, MarkSeenForgets DEF IsSeen
<1>4. ASSUME NEW q \in Peers
      PROVE  /\ IsFiniteSet(taken[q]) /\ IsFiniteSet(taken'[q])
             /\ Cardinality(taken[q]) > MaxSeen => Cardinality(taken'[q]) > MaxSeen
  <2>1. IsFiniteSet(taken[q])
    BY DEF WindowsOwn
  <2>2. IsFiniteSet(taken[q] \cup {n})
    BY <2>1, FS_AddElement
  <2>3. IsFiniteSet(taken'[q])
    BY <1>1, <2>2, FS_Subset
  <2>4. /\ Cardinality(taken[q]) <= Cardinality(taken'[q])
        /\ Cardinality(taken[q]) \in Nat /\ Cardinality(taken'[q]) \in Nat
    BY <1>1, <2>3, FS_Subset, FS_CardinalityType
  <2>5. QED
    BY <2>1, <2>3, <2>4, MaxSeenAssumption
<1> HIDE DEF v
<1>5. WindowsOwn'
  <2>1. ASSUME NEW q \in Peers
        PROVE  WellFormed(sessions'[q]) /\ IsFiniteSet(taken'[q])
    BY <1>1, <1>3, <1>4 DEF WindowsOwn
  <2>2. QED
    BY <2>1 DEF WindowsOwn, WellFormed
<1>6. ASSUME ~IsSeen(w, n), Len(w.seen) = MaxSeen
      PROVE  Cardinality(taken'[p]) > MaxSeen
  <2>1. w.seenSet \cup {n} \subseteq taken'[p] /\ n \notin w.seenSet
    BY <1>1, <1>6 DEF WindowTaken, IsSeen
  <2>2. IsFiniteSet(taken'[p])
    BY <1>4
  <2> HIDE DEF w
  <2>3. QED
    BY <1>2, <1>6, <2>1, <2>2, OverflowCount
<1>7. QED
  BY <1>1, <1>3, <1>4, <1>5, <1>6

\* A chunk of an attachment that has been delivered gets through again only when its
\* window is full of other numbers.
LEMMA HandleMsgCounts ==
  ASSUME IInv, WInv, NEW c \in wire, HandleMsg(c)
  PROVE  WInv'
<1> USE DEF IInv, WInv
<1> DEFINE p == Recipient(c)
           u == c.transfer
           n == seqOf[c]
           got == buffers[u] \cup {c}
<1>1. /\ Take(p, n) /\ rebooted' = rebooted /\ seqOf' = seqOf
      /\ IF IsSeen(sessions[p], n) THEN UNCHANGED <<buffers, received, twice>> ELSE Assemble(c)
  BY DEF HandleMsg, senderVars
<1>2. /\ c \in Chunks /\ u \in Transfers /\ c \in ChunksOf(u) /\ p \in Peers /\ p = To[u]
      /\ n \in Nat
      /\ \A t \in Transfers : To[t] \in Peers
  <2>1. c \in Chunks /\ n \in Nat
    BY DEF TypeOK
  <2>2. c.transfer \in Transfers /\ c \in ChunksOf(c.transfer) /\ Recipient(c) \in Peers
    BY <2>1, ChunkFacts
  <2>3. QED
    BY <2>1, <2>2, AttachAssumption DEF Recipient
<1>3. /\ WindowsOwn'
      /\ n \in sessions'[p].seenSet
      /\ \A q \in Peers :
           /\ \A x \in sessions[q].seenSet :
                x \in sessions'[q].seenSet \/ Len(sessions'[q].seen) = MaxSeen
           /\ Len(sessions[q].seen) = MaxSeen => Len(sessions'[q].seen) = MaxSeen
           /\ Cardinality(taken[q]) > MaxSeen => Cardinality(taken'[q]) > MaxSeen
      /\ ~IsSeen(sessions[p], n) /\ Len(sessions[p].seen) = MaxSeen
           => Cardinality(taken'[p]) > MaxSeen
  BY <1>1, <1>2, TakeCounts
<1>4. /\ \A t \in Transfers : \A x \in ChunksOf(t) :
            x \in buffers'[t] \/ t \in received' =>
              x \in buffers[t] \/ t \in received \/ x = c
      /\ twice' \subseteq twice \cup (IF IsSeen(sessions[p], n) THEN {} ELSE {u} \cap received)
  <2>1. CASE UNCHANGED <<buffers, received, twice>>
    BY <2>1
  <2>2. CASE /\ Assembled(u, got) /\ ~IsSeen(sessions[p], n)
             /\ buffers' = [buffers EXCEPT ![u] = {}] /\ received' = received \cup {u}
             /\ twice' = twice \cup ({u} \cap received)
    <3>1. got = ChunksOf(u)
      <4>1. got \in SUBSET ChunksOf(u)
        BY <1>2 DEF OwnChunks
      <4>2. QED
        BY <1>2, <2>2, <4>1, AllIndexes DEF Assembled
    <3>2. \A t \in Transfers : buffers'[t] \subseteq buffers[t]
      BY <2>2 DEF TypeOK
    <3>3. ASSUME NEW t \in Transfers, NEW x \in ChunksOf(t), x \in buffers'[t] \/ t \in received'
          PROVE  x \in buffers[t] \/ t \in received \/ x = c
      BY <2>2, <3>1, <3>2, <3>3
    <3>4. QED
      BY <2>2, <3>3
  <2>3. CASE buffers' = [buffers EXCEPT ![u] = got] /\ UNCHANGED <<received, twice>>
    <3>1. \A t \in Transfers : buffers'[t] \subseteq buffers[t] \cup {c}
      BY <1>2, <2>3 DEF TypeOK
    <3>2. QED
      BY <2>3, <3>1
  <2>4. QED
    BY <1>1, <2>1, <2>2, <2>3 DEF Assemble
<1> HIDE DEF got
<1>5. Remembered'
  <2>1. ASSUME NEW t \in Transfers, To[t] \notin rebooted, NEW x \in ChunksOf(t),
               x \in buffers'[t] \/ t \in received'
        PROVE  seqOf[x] \in sessions'[To[t]].seenSet \/ Len(sessions'[To[t]].seen) = MaxSeen
    <3>1. CASE x = c
      <4>1. To[t] = p
        BY <1>2, <2>1, <3>1, ChunkFacts
      <4>2. QED
        BY <1>3, <3>1, <4>1
    <3>2. CASE x # c
      <4>1. x \in buffers[t] \/ t \in received
        BY <1>4, <2>1, <3>2
      <4>2. seqOf[x] \in sessions[To[t]].seenSet \/ Len(sessions[To[t]].seen) = MaxSeen
        BY <2>1, <4>1 DEF Remembered
      <4>3. To[t] \in Peers
        BY <1>2
      <4>4. QED
        BY <1>3, <4>2, <4>3
    <3>3. QED
      BY <3>1, <3>2
  <2>2. QED
    BY <1>1, <2>1 DEF Remembered
<1>6. ReceivedTwiceNeedsOverflow'
  <2>1. ASSUME NEW t \in twice', To[t] \notin rebooted
        PROVE  Cardinality(taken'[To[t]]) > MaxSeen
    <3>1. CASE t \in twice
      <4>1. t \in Transfers /\ To[t] \in Peers
        BY <1>2, <3>1 DEF TypeOK
      <4>2. Cardinality(taken[To[t]]) > MaxSeen
        BY <2>1, <3>1 DEF ReceivedTwiceNeedsOverflow
      <4>3. QED
        BY <1>3, <4>1, <4>2
    <3>2. CASE t \notin twice
      <4>1. ~IsSeen(sessions[p], n) /\ t = u /\ u \in received
        BY <1>4, <2>1, <3>2
      <4>2. Len(sessions[p].seen) = MaxSeen
        BY <1>2, <2>1, <4>1 DEF Remembered, IsSeen
      <4>3. QED
        BY <1>2, <1>3, <4>1, <4>2
    <3>3. QED
      BY <3>1, <3>2
  <2>2. QED
    BY <1>1, <2>1 DEF ReceivedTwiceNeedsOverflow
<1>7. QED
  BY <1>3, <1>5, <1>6

\* A text can push chunks out of the window, and nothing more.
LEMMA HandleTextCounts ==
  ASSUME IInv, WInv, NEW p \in Peers, NEW n \in Seqs, HandleText(p, n)
  PROVE  WInv'
<1> USE DEF IInv, WInv
<1>1. Take(p, n) /\ UNCHANGED <<seqOf, buffers, received, twice, rebooted>>
  BY DEF HandleText, senderVars
<1>2. n \in Nat
  BY AttachAssumption DEF Seqs
<1>3. /\ WindowsOwn'
      /\ \A q \in Peers :
           /\ \A x \in sessions[q].seenSet :
                x \in sessions'[q].seenSet \/ Len(sessions'[q].seen) = MaxSeen
           /\ Len(sessions[q].seen) = MaxSeen => Len(sessions'[q].seen) = MaxSeen
           /\ Cardinality(taken[q]) > MaxSeen => Cardinality(taken'[q]) > MaxSeen
  BY <1>1, <1>2, TakeCounts
<1>4. \A t \in Transfers : To[t] \in Peers
  BY AttachAssumption
<1>5. Remembered'
  BY <1>1, <1>3, <1>4 DEF Remembered
<1>6. ReceivedTwiceNeedsOverflow'
  <2>1. \A t \in twice : To[t] \in Peers
    BY <1>4 DEF TypeOK
  <2>2. QED
    BY <1>1, <1>3, <2>1 DEF ReceivedTwiceNeedsOverflow
<1>7. QED
  BY <1>3, <1>5, <1>6

\* The other steps let nothing through.
LEMMA NextCounts ==
  ASSUME IInv, WInv, [Next]_vars
  PROVE  WInv'
<1> USE DEF IInv, WInv
<1>1. ASSUME NEW c \in wire, HandleMsg(c)
      PROVE  WInv'
  BY <1>1, HandleMsgCounts
<1>2. ASSUME UNCHANGED <<sessions, taken, received, twice, rebooted>>,
             \A t \in Transfers : buffers'[t] \subseteq buffers[t],
             \A t \in Transfers : buffers[t] # {} \/ t \in received =>
               \A c \in ChunksOf(t) : seqOf'[c] = seqOf[c]
      PROVE  WInv'
  <2>1. WindowsOwn'
    BY <1>2 DEF WindowsOwn, WellFormed
  <2>2. Remembered'
    BY <1>2 DEF Remembered
  <2>3. ReceivedTwiceNeedsOverflow'
    BY <1>2 DEF ReceivedTwiceNeedsOverflow
  <2>4. QED
    BY <2>1, <2>2, <2>3
<1>3. ASSUME NEW p \in Peers, PeerRestart(p)
      PROVE  WInv'
  <2>1. /\ sessions' = [sessions EXCEPT ![p] = EmptyWindow]
        /\ buffers' = [t \in Transfers |-> IF To[t] = p THEN {} ELSE buffers[t]]
        /\ rebooted' = rebooted \cup {p}
        /\ UNCHANGED <<seqOf, taken, received, twice>>
    BY <1>3 DEF PeerRestart, senderVars
  <2>2. WellFormed(EmptyWindow)
    BY MaxSeenAssumption DEF WellFormed, EmptyWindow
  <2>3. \A q \in Peers : sessions'[q] = IF q = p THEN EmptyWindow ELSE sessions[q]
    BY <2>1 DEF TypeOK
  <2>4. WindowsOwn'
    <3>1. ASSUME NEW q \in Peers
          PROVE  WellFormed(sessions'[q]) /\ IsFiniteSet(taken'[q])
      BY <2>1, <2>2, <2>3 DEF WindowsOwn
    <3>2. QED
      BY <3>1 DEF WindowsOwn, WellFormed
  <2>5. Remembered'
    <3>1. \A t \in Transfers : To[t] \notin rebooted' =>
            /\ To[t] \notin rebooted /\ buffers'[t] = buffers[t]
            /\ sessions'[To[t]] = sessions[To[t]]
      BY <2>1, <2>3, AttachAssumption
    <3>2. QED
      BY <2>1, <3>1 DEF Remembered
  <2>6. ReceivedTwiceNeedsOverflow'
    BY <2>1 DEF ReceivedTwiceNeedsOverflow
  <2>7. QED
    BY <2>4, <2>5, <2>6
<1>4. ASSUME NEW u \in Transfers, PruneRecv(u)
      PROVE  WInv'
  <2>1. \A t \in Transfers : buffers'[t] \subseteq buffers[t]
    BY <1>4 DEF PruneRecv, TypeOK
  <2>2. UNCHANGED <<seqOf, sessions, taken, received, twice, rebooted>>
    BY <1>4 DEF PruneRecv, senderVars
  <2>3. QED
    BY <1>2, <2>1, <2>2
<1>5. ASSUME NEW u \in Transfers, SendAttach(u)
      PROVE  WInv'
  <2>1. UNCHANGED friendVars /\ buffers[u] = {} /\ u \notin received
    BY <1>5 DEF SendAttach, FreshTransfers
  <2>2. \A t \in Transfers : t # u => \A c \in ChunksOf(t) : seqOf'[c] = seqOf[c]
    BY <1>5, ChunkFacts DEF SendAttach
  <2>3. QED
    BY <1>2, <2>1, <2>2 DEF friendVars
<1>6. CASE \/ \E t \in Transfers : SendAttachRejected(t)
           \/ \E D \in SUBSET pending : PollRetries(D)
           \/ \E a \in acks, changed \in BOOLEAN : HandleAck(a, changed)
           \/ \E p \in Peers : HearFrom(p)
           \/ UNCHANGED vars
  <2>1. UNCHANGED friendVars /\ seqOf' = seqOf
    BY <1>6 DEF SendAttachRejected, PollRetries, HandleAck, HearFrom, vars, friendVars, senderVars
  <2>2. QED
    BY <1>2, <2>1 DEF friendVars
<1>7. QED
  BY <1>1, <1>3, <1>4, <1>5, <1>6, HandleTextCounts DEF Next

\* A friend hands an attachment to its user twice only if it has restarted, or its window
\* has slid: it has taken more than MaxSeen chunks and texts.
THEOREM RepeatsNeedOverflow == Spec => []ReceivedTwiceNeedsOverflow
<1>1. Init => WInv
  <2> SUFFICES ASSUME Init PROVE WInv
    OBVIOUS
  <2>1. WellFormed(EmptyWindow)
    BY MaxSeenAssumption DEF WellFormed, EmptyWindow
  <2>2. WindowsOwn
    BY <2>1, FS_EmptySet DEF Init, WindowsOwn
  <2>3. QED
    BY <2>2 DEF Init, WInv, Remembered, ReceivedTwiceNeedsOverflow
<1>2. IInv /\ WInv /\ [Next]_vars => WInv'
  BY NextCounts
<1>3. WInv => ReceivedTwiceNeedsOverflow
  BY DEF WInv
<1>4. QED
  BY <1>1, <1>2, <1>3, InductiveInvariant, PTL DEF Spec
=============================================================================
