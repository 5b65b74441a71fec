---------------------------- MODULE DedupWindow ----------------------------
(***************************************************************************)
(* PeerSession of net/session.rs: the receiver's memory of the sequence    *)
(* numbers it has accepted from one peer.  A FIFO of at most MaxSeen       *)
(* numbers (`seen`, a VecDeque) and the same numbers as a set (`seen_set`, *)
(* a HashSet), which answers is_seen.  Marking a number that is already    *)
(* remembered does not refresh its place in the FIFO.                      *)
(***************************************************************************)
LOCAL INSTANCE Naturals
LOCAL INSTANCE Sequences

CONSTANT MaxSeen

ASSUME MaxSeenAssumption == MaxSeen \in Nat \ {0}

\* The shape of a window over the sequence numbers S.
Windows(S) == [seen : Seq(S), seenSet : SUBSET S]

EmptyWindow == [seen |-> << >>, seenSet |-> {}]

IsSeenByHighest(w, s) == \E x \in w.seenSet : s <= x
IsSeen(w, s) == s \in w.seenSet

RememberOneLess(w, s) ==
  IF Len(w.seen) + 1 < MaxSeen
  THEN [seen |-> Append(w.seen, s), seenSet |-> w.seenSet \cup {s}]
  ELSE LET q == Append(w.seen, s)
       IN  [seen |-> Tail(q), seenSet |-> (w.seenSet \cup {s}) \ {Head(q)}]

\* push_back after the `while len > MAX_SEEN { pop_front }` loop.  The loop runs
\* at most once, for the deque never exceeds MaxSeen between two calls
\* (WindowBounded in DeliveryProofs).
Remember(w, s) ==
  IF Len(w.seen) < MaxSeen
  THEN [seen |-> Append(w.seen, s), seenSet |-> w.seenSet \cup {s}]
  ELSE LET q == Append(w.seen, s)
       IN  [seen |-> Tail(q), seenSet |-> (w.seenSet \cup {s}) \ {Head(q)}]

MarkSeen(w, s) == IF IsSeen(w, s) THEN w ELSE Remember(w, s)
=============================================================================
