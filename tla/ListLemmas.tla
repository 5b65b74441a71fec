----------------------------- MODULE ListLemmas -----------------------------
(***************************************************************************)
(* Lemmas about lists: induction and recursion along a list, lists without *)
(* repetition, parts of a list, and the window of accepted numbers         *)
(* (DedupWindow), for any length of it.                                    *)
(*                                                                         *)
(* The provers cannot instantiate an induction theorem, whose parameter is *)
(* a predicate; but a set of naturals has a least element (WFMin), and the *)
(* set of the indexes at which a predicate holds is a set like any other.  *)
(***************************************************************************)
EXTENDS Lists, DedupWindow, Integers, FiniteSets, FiniteSetTheorems, WellFoundedInduction, TLAPS

-----------------------------------------------------------------------------
(* Induction and recursion along a sequence.                               *)

\* A set of naturals has a least element.
LEMMA LeastNatural ==
  ASSUME NEW T \in SUBSET Nat, T # {}
  PROVE  \E m \in T : \A n \in T : m <= n
<1> DEFINE R == {ss \in Nat \X Nat : ss[1] < ss[2]}
<1>1. IsWellFoundedOn(R, Nat)
  BY NatLessThanWellFounded DEF OpToRel
<1> HIDE DEF R
<1>2. PICK m \in T : \A n \in T : <<n, m>> \notin R
  BY <1>1, WFMin
<1>3. \A n \in T : ~ (n < m)
  BY <1>2 DEF R
<1>4. QED
  BY <1>3

\* A set that has 0, and each next index up to n, has all of them.
LEMMA IndexInduction ==
  ASSUME NEW n \in Nat, NEW T, 0 \in T, \A i \in 1 .. n : i - 1 \in T => i \in T
  PROVE  \A i \in 0 .. n : i \in T
<1> DEFINE Out == {i \in 0 .. n : i \notin T}
<1>1. SUFFICES ASSUME Out # {} PROVE FALSE
  OBVIOUS
<1>2. Out \in SUBSET Nat
  OBVIOUS
<1> HIDE DEF Out
<1>3. PICK m \in Out : \A i \in Out : m <= i
  BY <1>1, <1>2, LeastNatural
<1> USE DEF Out
<1>4. m \in 1 .. n /\ m - 1 \in 0 .. n /\ m - 1 \notin Out
  BY <1>3
<1>5. QED
  BY <1>3, <1>4

\* f is what is computed from `first` by the steps G[1], ..., G[n].
Computed(f, first, n, S, G) ==
  /\ f \in [0 .. n -> S]
  /\ f[0] = first
  /\ \A i \in 1 .. n : f[i] = G[i][f[i - 1]]

\* There is such a function.
LEMMA RecursionExists ==
  ASSUME NEW S, NEW first \in S, NEW n \in Nat, NEW G \in [1 .. n -> [S -> S]]
  PROVE  \E f : Computed(f, first, n, S, G)
<1> DEFINE T == {m \in 0 .. n : \E f : Computed(f, first, m, S, G)}
<1>1. Computed([i \in 0 .. 0 |-> first], first, 0, S, G)
  BY DEF Computed
<1>2. 0 \in T
  BY <1>1
<1>3. ASSUME NEW m \in 1 .. n, m - 1 \in T PROVE m \in T
  <2>1. PICK f : Computed(f, first, m - 1, S, G)
    BY <1>3
  <2> DEFINE h == [i \in 0 .. m |-> IF i = m THEN G[m][f[m - 1]] ELSE f[i]]
  <2>2. /\ f \in [0 .. m - 1 -> S]
        /\ f[0] = first
        /\ \A i \in 1 .. m - 1 : f[i] = G[i][f[i - 1]]
    BY <2>1 DEF Computed
  <2>3. G[m][f[m - 1]] \in S
    BY <2>2
  <2>4. h \in [0 .. m -> S]
    BY <2>2, <2>3
  <2>5. h[0] = first
    BY <2>2
  <2>6. ASSUME NEW i \in 1 .. m PROVE h[i] = G[i][h[i - 1]]
    BY <2>2
  <2> HIDE DEF h
  <2>7. Computed(h, first, m, S, G)
    BY <2>4, <2>5, <2>6 DEF Computed
  <2>8. QED
    BY <2>7
<1> HIDE DEF T
<1>4. \A m \in 0 .. n : m \in T
  BY <1>2, <1>3, IndexInduction
<1>5. n \in T
  BY <1>4
<1>6. QED
  BY <1>5 DEF T
-----------------------------------------------------------------------------
(* Lists.                                                                  *)

Elems(s) == {s[i] : i \in 1 .. Len(s)}

\* No element twice.
Distinct(s) == \A i, j \in 1 .. Len(s) : s[i] = s[j] => i = j

\* A list without repetition has as many elements as it is long.
LEMMA DistinctSize ==
  ASSUME NEW S, NEW s \in Seq(S), Distinct(s)
  PROVE  IsFiniteSet(Elems(s)) /\ Cardinality(Elems(s)) = Len(s)
<1> DEFINE n == Len(s)
           f == [i \in 1 .. n |-> s[i]]
<1>1. IsFiniteSet(1 .. n) /\ Cardinality(1 .. n) = n
  <2>1. n \in Nat
    OBVIOUS
  <2>2. QED
    BY <2>1, FS_Interval
<1>2. f \in Bijection(1 .. n, Elems(s))
  <2>1. f \in [1 .. n -> Elems(s)]
    BY DEF Elems
  <2>2. \A i, j \in 1 .. n : f[i] = f[j] => i = j
    BY DEF Distinct
  <2>3. \A x \in Elems(s) : \E i \in 1 .. n : f[i] = x
    BY DEF Elems
  <2>4. QED
    BY <2>1, <2>2, <2>3 DEF Bijection, Injection, Surjection, IsInjective
<1>3. QED
  BY <1>1, <1>2, FS_Bijection DEF ExistsBijection

\* f[i] is what is kept of the first i elements.
KeptUpto(f, s, A, S) ==
  /\ f \in [0 .. Len(s) -> Seq(S)]
  /\ f[0] = << >>
  /\ \A i \in 1 .. Len(s) :
       f[i] = IF s[i] \in A THEN Append(f[i - 1], s[i]) ELSE f[i - 1]

\* Only is what the loop makes of the list, index by index.
LEMMA OnlyLoop ==
  ASSUME NEW S, NEW s \in Seq(S), NEW A
  PROVE  \E f : KeptUpto(f, s, A, S) /\ Only(s, A) = f[Len(s)]
<1> DEFINE n == Len(s)
           Next1(acc, i) == IF s[i] \in A THEN Append(acc, s[i]) ELSE acc
           G == [i \in 1 .. n |-> [acc \in Seq(S) |-> Next1(acc, i)]]
           Body(g) == [i \in 0 .. n |-> IF i = 0 THEN << >> ELSE Next1(g[i - 1], i)]
<1>1. n \in Nat /\ \A i \in 1 .. n : s[i] \in S
  OBVIOUS
<1>2. G \in [1 .. n -> [Seq(S) -> Seq(S)]]
  BY <1>1
<1>3. << >> \in Seq(S)
  OBVIOUS
<1> HIDE DEF G
<1>4. PICK h : Computed(h, << >>, n, Seq(S), G)
  BY <1>1, <1>2, <1>3, RecursionExists
<1>5. /\ h \in [0 .. n -> Seq(S)]
      /\ h[0] = << >>
      /\ \A i \in 1 .. n : h[i] = G[i][h[i - 1]]
  BY <1>4 DEF Computed
<1>6. \A i \in 1 .. n : h[i - 1] \in Seq(S)
  BY <1>1, <1>5
<1>7. \A i \in 1 .. n : h[i] = Next1(h[i - 1], i)
  BY <1>5, <1>6 DEF G
<1> HIDE DEF Next1
<1>8. h = Body(h)
  BY <1>1, <1>5, <1>7
<1> DEFINE f == CHOOSE g : g = Body(g)
<1>9. f = Body(f)
  BY <1>8
<1>10. f[0] = << >> /\ \A i \in 1 .. n : f[i] = Next1(f[i - 1], i)
  <2> HIDE DEF f
  <2>1. QED
    BY <1>1, <1>9
<1>11. Only(s, A) = f[n]
  BY DEF Only, Next1
<1> HIDE DEF f
<1> DEFINE T == {i \in 0 .. n : f[i] = h[i]}
<1>12. 0 \in T /\ \A i \in 1 .. n : i - 1 \in T => i \in T
  BY <1>1, <1>5, <1>7, <1>10
<1> HIDE DEF T
<1>13. \A i \in 0 .. n : i \in T
  BY <1>1, <1>12, IndexInduction
<1>14. f[n] = h[n]
  BY <1>1, <1>13 DEF T
<1>15. QED
  BY <1>1, <1>5, <1>7, <1>11, <1>14 DEF Next1, KeptUpto

\* Only keeps just the elements that are in A, without repeating one.
LEMMA OnlyFacts ==
  ASSUME NEW S, NEW s \in Seq(S), NEW A
  PROVE  /\ Only(s, A) \in Seq(S)
         /\ Elems(Only(s, A)) = Elems(s) \cap A
         /\ Len(Only(s, A)) <= Len(s)
         /\ Distinct(s) => Distinct(Only(s, A))
         /\ Elems(s) \subseteq A => Only(s, A) = s
<1>0. PICK f : KeptUpto(f, s, A, S) /\ Only(s, A) = f[Len(s)]
  BY OnlyLoop
<1>1. /\ f \in [0 .. Len(s) -> Seq(S)]
      /\ f[0] = << >>
      /\ \A i \in 1 .. Len(s) :
           f[i] = IF s[i] \in A THEN Append(f[i - 1], s[i]) ELSE f[i - 1]
      /\ Only(s, A) = f[Len(s)]
  BY <1>0 DEF KeptUpto
<1> DEFINE n == Len(s)
           Upto(i) == {s[j] : j \in 1 .. i}
           Good(i) == /\ Elems(f[i]) = Upto(i) \cap A
                      /\ Len(f[i]) <= i
                      /\ Distinct(s) => Distinct(f[i])
                      /\ Elems(s) \subseteq A => f[i] = SubSeq(s, 1, i)
<1>2. n \in Nat
  OBVIOUS
<1>3. Good(0)
  <2>1. f[0] = << >>
    BY <1>1
  <2>2. SubSeq(s, 1, 0) = << >>
    OBVIOUS
  <2>3. Len(f[0]) = 0
    BY <2>1
  <2>4. Elems(f[0]) = Upto(0) \cap A /\ Distinct(f[0])
    BY <2>3 DEF Elems, Distinct
  <2>5. QED
    BY <2>1, <2>2, <2>3, <2>4
<1>4. ASSUME NEW i \in 1 .. n, Good(i - 1) PROVE Good(i)
  <2> DEFINE e == s[i]
             old == f[i - 1]
  <2>1. /\ old \in Seq(S) /\ e \in S /\ i - 1 \in 0 .. n
        /\ f[i] = IF e \in A THEN Append(old, e) ELSE old
    BY <1>1
  <2>2. Good(i - 1)
    BY <1>4
  <2>3. Upto(i) = Upto(i - 1) \cup {e}
    OBVIOUS
  <2>4. SubSeq(s, 1, i) = Append(SubSeq(s, 1, i - 1), e)
    OBVIOUS
  <2>5. CASE e \in A
    <3>1. f[i] = Append(old, e)
      BY <2>1, <2>5
    <3>2. Len(f[i]) = Len(old) + 1 /\ Elems(f[i]) = Elems(old) \cup {e}
      BY <2>1, <3>1 DEF Elems
    <3>3. ASSUME Distinct(s) PROVE Distinct(f[i])
      <4>1. e \notin Upto(i - 1)
        BY <3>3 DEF Distinct
      <4>2. e \notin Elems(old) /\ Distinct(old)
        BY <2>2, <3>3, <4>1
      <4>3. QED
        BY <2>1, <3>1, <4>2 DEF Distinct, Elems
    <3>4. Elems(s) \subseteq A => f[i] = SubSeq(s, 1, i)
      BY <2>2, <2>4, <3>1
    <3>5. Elems(f[i]) = Upto(i) \cap A
      BY <2>2, <2>3, <2>5, <3>2
    <3>6. Len(f[i]) <= i
      BY <2>1, <2>2, <3>2
    <3>7. QED
      BY <3>3, <3>4, <3>5, <3>6
  <2>6. CASE e \notin A
    <3>1. f[i] = old
      BY <2>1, <2>6
    <3>2. ~ (Elems(s) \subseteq A)
      BY <2>6 DEF Elems
    <3>3. Elems(f[i]) = Upto(i) \cap A
      BY <2>2, <2>3, <2>6, <3>1
    <3>4. Len(f[i]) <= i
      BY <2>1, <2>2, <3>1
    <3>5. QED
      BY <2>2, <3>1, <3>2, <3>3, <3>4
  <2>7. QED
    BY <2>5, <2>6
<1> HIDE DEF Good
<1> DEFINE T == {i \in 0 .. n : Good(i)}
<1>5. 0 \in T /\ \A i \in 1 .. n : i - 1 \in T => i \in T
  BY <1>2, <1>3, <1>4
<1> HIDE DEF T
<1>6. \A i \in 0 .. n : i \in T
  BY <1>2, <1>5, IndexInduction
<1>7. Good(n)
  BY <1>2, <1>6 DEF T
<1>8. Upto(n) = Elems(s) /\ SubSeq(s, 1, n) = s /\ f[n] \in Seq(S)
  BY <1>1, <1>2 DEF Elems
<1>9. QED
  BY <1>1, <1>7, <1>8 DEF Good

\* Two lists with nothing in common, one after the other.
LEMMA ConcatFacts ==
  ASSUME NEW S, NEW s \in Seq(S), NEW t \in Seq(S)
  PROVE  /\ s \o t \in Seq(S)
         /\ Len(s \o t) = Len(s) + Len(t)
         /\ Elems(s \o t) = Elems(s) \cup Elems(t)
         /\ Distinct(s) /\ Distinct(t) /\ Elems(s) \cap Elems(t) = {} => Distinct(s \o t)
<1>1. /\ s \o t \in Seq(S)
      /\ Len(s \o t) = Len(s) + Len(t)
      /\ \A i \in 1 .. Len(s) + Len(t) :
           (s \o t)[i] = IF i <= Len(s) THEN s[i] ELSE t[i - Len(s)]
  OBVIOUS
<1>2. Elems(s \o t) = Elems(s) \cup Elems(t)
  <2>1. ASSUME NEW i \in 1 .. Len(s) PROVE s[i] \in Elems(s \o t)
    BY <1>1, <2>1 DEF Elems
  <2>2. ASSUME NEW i \in 1 .. Len(t) PROVE t[i] \in Elems(s \o t)
    <3>1. (s \o t)[Len(s) + i] = t[i] /\ Len(s) + i \in 1 .. Len(s \o t)
      BY <1>1
    <3>2. QED
      BY <3>1 DEF Elems
  <2>3. Elems(s \o t) \subseteq Elems(s) \cup Elems(t)
    BY <1>1 DEF Elems
  <2>4. QED
    BY <2>1, <2>2, <2>3 DEF Elems
<1>3. ASSUME Distinct(s), Distinct(t), Elems(s) \cap Elems(t) = {}
      PROVE  Distinct(s \o t)
  <2>1. SUFFICES ASSUME NEW i \in 1 .. Len(s) + Len(t), NEW j \in 1 .. Len(s) + Len(t),
                        (s \o t)[i] = (s \o t)[j]
                 PROVE  i = j
    BY <1>1 DEF Distinct
  <2>2. \A x \in 1 .. Len(s), y \in 1 .. Len(t) : s[x] # t[y]
    BY <1>3 DEF Elems
  <2>3. CASE i <= Len(s) /\ j <= Len(s)
    BY <1>1, <1>3, <2>1, <2>3 DEF Distinct
  <2>4. CASE i > Len(s) /\ j > Len(s)
    <3>1. t[i - Len(s)] = t[j - Len(s)]
      BY <1>1, <2>1, <2>4
    <3>2. i - Len(s) = j - Len(s)
      BY <1>3, <2>4, <3>1 DEF Distinct
    <3>3. QED
      BY <3>2
  <2>5. CASE i <= Len(s) /\ j > Len(s)
    <3>1. s[i] = t[j - Len(s)]
      BY <1>1, <2>1, <2>5
    <3>2. QED
      BY <2>2, <2>5, <3>1
  <2>6. CASE i > Len(s) /\ j <= Len(s)
    <3>1. s[j] = t[i - Len(s)]
      BY <1>1, <2>1, <2>6
    <3>2. QED
      BY <2>2, <2>6, <3>1
  <2>7. QED
    BY <2>3, <2>4, <2>5, <2>6
<1>4. QED
  BY <1>1, <1>2, <1>3

-----------------------------------------------------------------------------
(* The window of accepted numbers.                                         *)

\* The deque and the set of a PeerSession hold the same numbers, each once, and
\* never more than MaxSeen of them.
WellFormed(w) ==
  /\ Len(w.seen) <= MaxSeen
  /\ w.seenSet = {w.seen[i] : i \in 1 .. Len(w.seen)}
  /\ \A i, j \in 1 .. Len(w.seen) : w.seen[i] = w.seen[j] => i = j

\* mark_seen keeps the shape of a window.
LEMMA MarkSeenType ==
  ASSUME NEW S, NEW w \in Windows(S), NEW s \in S
  PROVE  MarkSeen(w, s) \in Windows(S)
<1>1. Append(w.seen, s) \in Seq(S) /\ Append(w.seen, s) # << >>
  BY DEF Windows
<1>2. Tail(Append(w.seen, s)) \in Seq(S)
  BY <1>1
<1>3. QED
  BY <1>1, <1>2 DEF MarkSeen, Remember, IsSeen, Windows

\* mark_seen adds no number but the one it marks.
LEMMA MarkSeenAddsOnly ==
  ASSUME NEW w, NEW s
  PROVE  /\ MarkSeen(w, s).seenSet \subseteq w.seenSet \cup {s}
         /\ EmptyWindow.seenSet = {}
BY DEF MarkSeen, Remember, IsSeen, EmptyWindow

\* mark_seen keeps a window well formed and remembers the number it marks: the
\* deque is never longer than MaxSeen, so one pop_front is enough, and the number
\* evicted is never the one just marked.
LEMMA MarkSeenWellFormed ==
  ASSUME NEW S, NEW w \in Windows(S), NEW s \in S, WellFormed(w)
  PROVE  WellFormed(MarkSeen(w, s)) /\ IsSeen(MarkSeen(w, s), s)
<1>1. CASE IsSeen(w, s)
  BY <1>1 DEF MarkSeen
<1>2. CASE ~IsSeen(w, s) /\ Len(w.seen) < MaxSeen
  <2> DEFINE v == MarkSeen(w, s)
             n == Len(w.seen)
  <2>1. /\ w.seen \in Seq(S) /\ n \in Nat
        /\ v.seen = Append(w.seen, s) /\ v.seenSet = w.seenSet \cup {s}
    BY <1>2 DEF MarkSeen, Remember, Windows
  <2>2. /\ Len(v.seen) = n + 1
        /\ \A i \in 1 .. n : v.seen[i] = w.seen[i]
        /\ v.seen[n + 1] = s
    BY <2>1
  <2>3. s \notin {w.seen[i] : i \in 1 .. n}
    BY <1>2 DEF IsSeen, WellFormed
  <2>4. v.seenSet = {v.seen[i] : i \in 1 .. Len(v.seen)}
    BY <2>1, <2>2 DEF WellFormed
  <2>5. \A i, j \in 1 .. Len(v.seen) : v.seen[i] = v.seen[j] => i = j
    BY <2>1, <2>2, <2>3 DEF WellFormed
  <2>6. Len(v.seen) <= MaxSeen
    BY <1>2, <2>1, <2>2, MaxSeenAssumption
  <2>7. QED
    BY <2>1, <2>4, <2>5, <2>6 DEF WellFormed, IsSeen
<1>3. CASE ~IsSeen(w, s) /\ ~(Len(w.seen) < MaxSeen)
  <2> DEFINE v == MarkSeen(w, s)
             n == Len(w.seen)
             q == Append(w.seen, s)
  <2>1. /\ w.seen \in Seq(S) /\ n \in Nat /\ n = MaxSeen /\ n >= 1
        /\ v.seen = Tail(q) /\ v.seenSet = (w.seenSet \cup {s}) \ {Head(q)}
    BY <1>3, MaxSeenAssumption DEF MarkSeen, Remember, Windows, WellFormed
  <2>2. /\ q \in Seq(S) /\ Len(q) = n + 1
        /\ \A i \in 1 .. n : q[i] = w.seen[i]
        /\ q[n + 1] = s
    BY <2>1
  <2>3. /\ Len(v.seen) = n
        /\ \A i \in 1 .. n : v.seen[i] = q[i + 1]
    BY <2>1, <2>2
  <2>0. Head(q) = q[1]
    BY <2>2
  <2> HIDE DEF v, n, q
  <2>4. s \notin {w.seen[i] : i \in 1 .. n}
    BY <1>3 DEF IsSeen, WellFormed, n
  <2>5. \A i, j \in 1 .. n + 1 : q[i] = q[j] => i = j
    BY <2>1, <2>2, <2>4 DEF WellFormed, n
  <2>6. \A i, j \in 1 .. Len(v.seen) : v.seen[i] = v.seen[j] => i = j
    <3> SUFFICES ASSUME NEW i \in 1 .. n, NEW j \in 1 .. n, v.seen[i] = v.seen[j]
                 PROVE  i = j
      BY <2>3
    <3>1. i + 1 \in 1 .. n + 1 /\ j + 1 \in 1 .. n + 1 /\ q[i + 1] = q[j + 1]
      BY <2>1, <2>3
    <3>2. QED
      BY <2>1, <2>5, <3>1
  <2>7. v.seenSet = {v.seen[i] : i \in 1 .. Len(v.seen)}
    <3>1. w.seenSet \cup {s} = {q[i] : i \in 1 .. n + 1}
      <4>1. w.seenSet = {w.seen[i] : i \in 1 .. n}
        BY DEF WellFormed, n
      <4>2. {q[i] : i \in 1 .. n + 1} = {q[i] : i \in 1 .. n} \cup {q[n + 1]}
        BY <2>1
      <4>3. QED
        BY <2>2, <4>1, <4>2
    <3>2. {q[i] : i \in 1 .. n + 1} \ {q[1]} = {q[i] : i \in 2 .. n + 1}
      BY <2>1, <2>5
    <3>3. {q[i] : i \in 2 .. n + 1} = {q[i + 1] : i \in 1 .. n}
      <4>1. ASSUME NEW i \in 2 .. n + 1
            PROVE  i - 1 \in 1 .. n /\ q[i] = q[(i - 1) + 1]
        BY <2>1
      <4>2. \A i \in 1 .. n : i + 1 \in 2 .. n + 1
        BY <2>1
      <4>3. QED
        BY <4>1, <4>2
    <3>4. v.seenSet = {q[i + 1] : i \in 1 .. n}
      BY <2>0, <2>1, <3>1, <3>2, <3>3
    <3>5. QED
      BY <2>3, <3>4
  <2>8. s # Head(q)
    BY <2>0, <2>1, <2>2, <2>4
  <2>9. Len(v.seen) <= MaxSeen
    BY <2>1, <2>3, MaxSeenAssumption
  <2>10. WellFormed(v)
    BY <2>6, <2>7, <2>9 DEF WellFormed
  <2>11. IsSeen(v, s)
    BY <2>1, <2>8 DEF IsSeen
  <2>12. QED
    BY <2>10, <2>11 DEF v
<1>4. QED
  BY <1>1, <1>2, <1>3

\* A number leaves a window only when the window is full, and a full window stays full.
LEMMA MarkSeenForgets ==
  ASSUME NEW S, NEW w \in Windows(S), NEW s \in S, WellFormed(w)
  PROVE  /\ \A x \in w.seenSet :
              x \in MarkSeen(w, s).seenSet \/ Len(MarkSeen(w, s).seen) = MaxSeen
         /\ Len(w.seen) = MaxSeen => Len(MarkSeen(w, s).seen) = MaxSeen
<1>1. CASE IsSeen(w, s)
  BY <1>1 DEF MarkSeen
<1>2. CASE ~IsSeen(w, s) /\ Len(w.seen) < MaxSeen
  <2>1. MarkSeen(w, s).seenSet = w.seenSet \cup {s}
    BY <1>2 DEF MarkSeen, Remember
  <2>2. Len(w.seen) # MaxSeen
    BY <1>2, MaxSeenAssumption
  <2>3. QED
    BY <2>1, <2>2
<1>3. CASE ~IsSeen(w, s) /\ ~(Len(w.seen) < MaxSeen)
  <2>1. w.seen \in Seq(S) /\ Len(w.seen) = MaxSeen
    BY <1>3, MaxSeenAssumption DEF Windows, WellFormed
  <2>2. MarkSeen(w, s).seen = Tail(Append(w.seen, s))
    BY <1>3 DEF MarkSeen, Remember
  <2>3. Len(MarkSeen(w, s).seen) = MaxSeen
    BY <2>1, <2>2, MaxSeenAssumption
  <2>4. QED
    BY <2>3
<1>4. QED
  BY <1>1, <1>2, <1>3

\* A window holds as many numbers as its deque is long.
LEMMA WindowSize ==
  ASSUME NEW S, NEW w \in Windows(S), WellFormed(w)
  PROVE  IsFiniteSet(w.seenSet) /\ Cardinality(w.seenSet) = Len(w.seen)
<1> DEFINE n == Len(w.seen)
           f == [i \in 1 .. n |-> w.seen[i]]
<1>1. n \in Nat
  BY DEF Windows
<1>2. IsFiniteSet(1 .. n) /\ Cardinality(1 .. n) = n
  BY <1>1, FS_Interval
<1>3. w.seenSet = {f[i] : i \in 1 .. n}
  BY DEF WellFormed
<1>4. f \in Bijection(1 .. n, w.seenSet)
  <2>1. f \in [1 .. n -> w.seenSet]
    BY <1>3
  <2>2. \A i, j \in 1 .. n : f[i] = f[j] => i = j
    BY DEF WellFormed
  <2>3. \A x \in w.seenSet : \E i \in 1 .. n : f[i] = x
    BY <1>3
  <2>4. QED
    BY <2>1, <2>2, <2>3 DEF Bijection, Injection, Surjection, IsInjective
<1>5. QED
  BY <1>2, <1>4, FS_Bijection DEF ExistsBijection

\* A full window and a number it does not hold are more than MaxSeen numbers.
LEMMA OverflowCount ==
  ASSUME NEW S, NEW w \in Windows(S), WellFormed(w), Len(w.seen) = MaxSeen,
         NEW s, s \notin w.seenSet,
         NEW T, IsFiniteSet(T), w.seenSet \cup {s} \subseteq T
  PROVE  Cardinality(T) > MaxSeen
<1>1. IsFiniteSet(w.seenSet) /\ Cardinality(w.seenSet) = MaxSeen
  BY WindowSize
<1>2. Cardinality(w.seenSet \cup {s}) = MaxSeen + 1
  BY <1>1, FS_AddElement
<1>3. Cardinality(w.seenSet \cup {s}) <= Cardinality(T) /\ Cardinality(T) \in Nat
  BY FS_Subset, FS_CardinalityType
<1>4. QED
  BY <1>2, <1>3, MaxSeenAssumption
=============================================================================
