------------------------- MODULE AddressPathProofs -------------------------
(***************************************************************************)
(* What AddressPath promises, for any addresses, networks, friends, texts  *)
(* and files, and any number of packets on the wire: a friend's list is    *)
(* bounded, without repetition and of the owner's addresses only, nothing  *)
(* is forgotten that has room, and every packet fits in the receiver's     *)
(* buffer.                                                                 *)
(***************************************************************************)
EXTENDS AddressPath, ListLemmas

-----------------------------------------------------------------------------
(* The lists of the friend store.                                          *)

LEMMA ToSetElems ==
  ASSUME NEW S, NEW s \in Seq(S)
  PROVE  ToSet(s) = Elems(s)
BY DEF ToSet, Elems

\* Cut loses something only from a list that is then full.
LEMMA CutFacts ==
  ASSUME NEW S, NEW s \in Seq(S)
  PROVE  /\ Cut(s) \in Seq(S)
         /\ Len(Cut(s)) <= MaxIps
         /\ Elems(Cut(s)) \subseteq Elems(s)
         /\ Distinct(s) => Distinct(Cut(s))
         /\ Elems(s) \subseteq Elems(Cut(s)) \/ Len(Cut(s)) = MaxIps
<1>1. MaxIps \in Nat /\ Len(s) \in Nat
  BY FriendBookAssumption
<1>2. CASE Len(s) <= MaxIps
  BY <1>1, <1>2 DEF Cut
<1>3. CASE ~(Len(s) <= MaxIps)
  <2> DEFINE t == SubSeq(s, 1, MaxIps)
  <2>1. /\ t \in Seq(S) /\ Len(t) = MaxIps
        /\ \A i \in 1 .. MaxIps : t[i] = s[i] /\ i \in 1 .. Len(s)
    BY <1>1, <1>3
  <2>2. Cut(s) = t
    BY <1>3 DEF Cut
  <2> HIDE DEF t
  <2>3. Elems(t) \subseteq Elems(s)
    BY <2>1 DEF Elems
  <2>4. Distinct(s) => Distinct(t)
    BY <2>1 DEF Distinct
  <2>5. QED
    BY <1>1, <2>1, <2>2, <2>3, <2>4
<1>4. QED
  BY <1>2, <1>3

\* f[i] is the list after the first i of `more`.
MergedUpto(f, list, more, S) ==
  /\ f \in [0 .. Len(more) -> Seq(S)]
  /\ f[0] = list
  /\ \A i \in 1 .. Len(more) :
       f[i] = IF more[i] \in ToSet(f[i - 1]) THEN f[i - 1] ELSE Append(f[i - 1], more[i])

\* AppendedNew is what the loop makes of the list.
LEMMA AppendedLoop ==
  ASSUME NEW S, NEW list \in Seq(S), NEW more \in Seq(S)
  PROVE  \E f : MergedUpto(f, list, more, S) /\ AppendedNew(list, more) = f[Len(more)]
<1> DEFINE n == Len(more)
           Step(acc, i) == IF more[i] \in ToSet(acc) THEN acc ELSE Append(acc, more[i])
           G == [i \in 1 .. n |-> [acc \in Seq(S) |-> Step(acc, i)]]
           Body(g) == [i \in 0 .. n |-> IF i = 0 THEN list ELSE Step(g[i - 1], i)]
<1>1. n \in Nat /\ \A i \in 1 .. n : more[i] \in S
  OBVIOUS
<1>2. G \in [1 .. n -> [Seq(S) -> Seq(S)]]
  BY <1>1
<1> HIDE DEF G
<1>3. PICK h : Computed(h, list, n, Seq(S), G)
  BY <1>1, <1>2, RecursionExists
<1>4. /\ h \in [0 .. n -> Seq(S)]
      /\ h[0] = list
      /\ \A i \in 1 .. n : h[i] = G[i][h[i - 1]]
  BY <1>3 DEF Computed
<1>5. \A i \in 1 .. n : h[i - 1] \in Seq(S)
  BY <1>1, <1>4
<1>6. \A i \in 1 .. n : h[i] = Step(h[i - 1], i)
  BY <1>4, <1>5 DEF G
<1> HIDE DEF Step
<1>7. h = Body(h)
  BY <1>1, <1>4, <1>6
<1> DEFINE f == CHOOSE g : g = Body(g)
<1>8. f = Body(f)
  BY <1>7
<1>9. AppendedNew(list, more) = f[n]
  BY DEF AppendedNew, Step
<1> HIDE DEF f
<1>10. f[0] = list /\ \A i \in 1 .. n : f[i] = Step(f[i - 1], i)
  BY <1>1, <1>8
<1> DEFINE T == {i \in 0 .. n : f[i] = h[i]}
<1>11. 0 \in T /\ \A i \in 1 .. n : i - 1 \in T => i \in T
  BY <1>1, <1>4, <1>6, <1>10
<1> HIDE DEF T
<1>12. \A i \in 0 .. n : i \in T
  BY <1>1, <1>11, IndexInduction
<1>13. f[n] = h[n]
  BY <1>1, <1>12 DEF T
<1>14. QED
  BY <1>1, <1>4, <1>6, <1>9, <1>13 DEF Step, MergedUpto

\* Both lists are in it, and a list without repetition stays one.
LEMMA AppendedFacts ==
  ASSUME NEW S, NEW list \in Seq(S), NEW more \in Seq(S)
  PROVE  /\ AppendedNew(list, more) \in Seq(S)
         /\ Elems(AppendedNew(list, more)) = Elems(list) \cup Elems(more)
         /\ Distinct(list) => Distinct(AppendedNew(list, more))
<1> DEFINE n == Len(more)
           Upto(i) == {more[j] : j \in 1 .. i}
<1>1. n \in Nat /\ \A i \in 1 .. n : more[i] \in S
  OBVIOUS
<1>2. PICK f : MergedUpto(f, list, more, S) /\ AppendedNew(list, more) = f[n]
  BY AppendedLoop
<1>3. /\ f \in [0 .. n -> Seq(S)]
      /\ f[0] = list
      /\ \A i \in 1 .. n :
           f[i] = IF more[i] \in ToSet(f[i - 1]) THEN f[i - 1] ELSE Append(f[i - 1], more[i])
  BY <1>2 DEF MergedUpto
<1> DEFINE Good(i) == /\ Elems(f[i]) = Elems(list) \cup Upto(i)
                      /\ Distinct(list) => Distinct(f[i])
<1>4. Good(0)
  BY <1>3
<1>5. ASSUME NEW i \in 1 .. n, Good(i - 1) PROVE Good(i)
  <2> DEFINE e == more[i]
             old == f[i - 1]
  <2>1. /\ old \in Seq(S) /\ e \in S /\ ToSet(old) = Elems(old)
        /\ f[i] = IF e \in Elems(old) THEN old ELSE Append(old, e)
    <3>1. i - 1 \in 0 .. n /\ old \in Seq(S) /\ e \in S
      BY <1>1, <1>3
    <3>2. ToSet(old) = Elems(old)
      BY <3>1, ToSetElems
    <3>3. QED
      BY <1>3, <3>1, <3>2
  <2>2. Upto(i) = Upto(i - 1) \cup {e}
    BY <1>1
  <2>3. Elems(old) = Elems(list) \cup Upto(i - 1) /\ (Distinct(list) => Distinct(old))
    BY <1>5
  <2> HIDE DEF e, old, Upto
  <2>4. CASE e \in Elems(old)
    BY <2>1, <2>2, <2>3, <2>4
  <2>5. CASE e \notin Elems(old)
    <3>1. f[i] = Append(old, e) /\ Len(old) \in Nat /\ Len(f[i]) = Len(old) + 1
          /\ \A j \in 1 .. Len(old) + 1 : f[i][j] = IF j = Len(old) + 1 THEN e ELSE old[j]
      BY <2>1, <2>5
    <3>2. Elems(f[i]) = Elems(old) \cup {e}
      BY <3>1 DEF Elems
    <3>3. Distinct(old) => Distinct(f[i])
      BY <2>5, <3>1 DEF Distinct, Elems
    <3>4. QED
      BY <2>2, <2>3, <3>2, <3>3
  <2>6. QED
    BY <2>4, <2>5
<1> HIDE DEF Good
<1> DEFINE T == {i \in 0 .. n : Good(i)}
<1>6. 0 \in T /\ \A i \in 1 .. n : i - 1 \in T => i \in T
  BY <1>1, <1>4, <1>5
<1> HIDE DEF T
<1>7. \A i \in 0 .. n : i \in T
  BY <1>1, <1>6, IndexInduction
<1>8. Good(n) /\ f[n] \in Seq(S) /\ Upto(n) = Elems(more)
  BY <1>1, <1>3, <1>7 DEF T, Elems
<1>9. QED
  BY <1>2, <1>8 DEF Good

\* Sorting changes the order only.
LEMMA SortedFacts ==
  ASSUME NEW S, NEW s \in Seq(S)
  PROVE  /\ SortedV6First(s) \in Seq(S)
         /\ Elems(SortedV6First(s)) = Elems(s)
         /\ Distinct(s) => Distinct(SortedV6First(s))
<1> DEFINE v6 == {a \in ToSet(s) : IsV6(a)}
           rest == ToSet(s) \ v6
<1>1. ToSet(s) = Elems(s)
  BY ToSetElems
<1>2. v6 \cup rest = Elems(s) /\ v6 \cap rest = {}
  BY <1>1
<1> DEFINE p == Only(s, v6)
           q == Only(s, rest)
<1>3. SortedV6First(s) = p \o q
  BY DEF SortedV6First
<1> HIDE DEF v6, rest
<1>4. /\ p \in Seq(S) /\ Elems(p) = Elems(s) \cap v6 /\ (Distinct(s) => Distinct(p))
      /\ q \in Seq(S) /\ Elems(q) = Elems(s) \cap rest /\ (Distinct(s) => Distinct(q))
  BY OnlyFacts
<1> HIDE DEF p, q
<1>5. Elems(p) \cap Elems(q) = {} /\ Elems(p) \cup Elems(q) = Elems(s)
  BY <1>2, <1>4
<1>6. /\ p \o q \in Seq(S)
      /\ Elems(p \o q) = Elems(p) \cup Elems(q)
      /\ Distinct(p) /\ Distinct(q) => Distinct(p \o q)
  BY <1>4, <1>5, ConcatFacts
<1>7. QED
  BY <1>3, <1>4, <1>5, <1>6

\* What becomes of a list: bounded, still without repetition, nothing lost unless it is full,
\* and nothing new but what is in `new` and reachable.
Kept(old, list, new) ==
  /\ list \in Seq(Addresses)
  /\ Len(list) <= MaxIps
  /\ Distinct(list)
  /\ Elems(old) \subseteq Elems(list) \/ Len(list) = MaxIps
  /\ Elems(list) \subseteq Elems(old) \cup {a \in new : Reachable(a)}

LEMMA HeardFacts ==
  ASSUME NEW list \in Seq(Addresses), Distinct(list), Len(list) <= MaxIps, NEW a \in Addresses
  PROVE  Kept(list, Heard(list, a), {a})
<1> DEFINE others == ToSet(list) \ {a}
           rest == Only(list, others)
<1>1. others = Elems(list) \ {a}
  BY ToSetElems
<1>2. CASE Reachable(a)
  <2> DEFINE front == <<a>>
             both == front \o rest
  <2>1. Heard(list, a) = Cut(both)
    BY <1>2 DEF Heard
  <2>2. /\ front \in Seq(Addresses) /\ Len(front) = 1 /\ front[1] = a
    OBVIOUS
  <2> HIDE DEF front, others
  <2>3. Elems(front) = {a} /\ Distinct(front)
    BY <2>2 DEF Elems, Distinct
  <2>4. rest \in Seq(Addresses) /\ Elems(rest) = Elems(list) \ {a} /\ Distinct(rest)
    BY <1>1, OnlyFacts
  <2> HIDE DEF rest
  <2>5. both \in Seq(Addresses) /\ Elems(both) = Elems(list) \cup {a} /\ Distinct(both)
    BY <2>2, <2>3, <2>4, ConcatFacts
  <2> HIDE DEF both
  <2>6. /\ Cut(both) \in Seq(Addresses) /\ Len(Cut(both)) <= MaxIps
        /\ Elems(Cut(both)) \subseteq Elems(both) /\ Distinct(Cut(both))
        /\ Elems(both) \subseteq Elems(Cut(both)) \/ Len(Cut(both)) = MaxIps
    BY <2>5, CutFacts
  <2>7. QED
    BY <1>2, <2>1, <2>5, <2>6 DEF Kept
<1>3. CASE ~Reachable(a)
  <2>1. Heard(list, a) = list
    BY <1>3 DEF Heard, Cut
  <2>2. QED
    BY <2>1 DEF Kept
<1>4. QED
  BY <1>2, <1>3

LEMMA MergedFacts ==
  ASSUME NEW list \in Seq(Addresses), NEW new \in Seq(Addresses), Distinct(new)
  PROVE  Kept(list, Merged(list, new), Elems(new))
<1> DEFINE taken == Taken(new)
           all == AppendedNew(taken, list)
           sorted == SortedV6First(all)
<1>1. /\ taken \in Seq(Addresses) /\ Distinct(taken)
      /\ Elems(taken) = {a \in Elems(new) : Reachable(a)}
  <2> DEFINE A == {a \in ToSet(new) : Reachable(a)}
  <2>1. A = {a \in Elems(new) : Reachable(a)}
    BY ToSetElems
  <2>2. taken = Only(new, A)
    BY DEF Taken
  <2> HIDE DEF A, taken
  <2>3. Only(new, A) \in Seq(Addresses) /\ Elems(Only(new, A)) = Elems(new) \cap A
        /\ Distinct(Only(new, A))
    BY OnlyFacts
  <2>4. QED
    BY <2>1, <2>2, <2>3
<1>2. Merged(list, new) = Cut(sorted)
  BY DEF Merged
<1> HIDE DEF taken
<1>3. all \in Seq(Addresses) /\ Elems(all) = Elems(taken) \cup Elems(list) /\ Distinct(all)
  BY <1>1, AppendedFacts
<1> HIDE DEF all
<1>4. sorted \in Seq(Addresses) /\ Elems(sorted) = Elems(all) /\ Distinct(sorted)
  BY <1>3, SortedFacts
<1> HIDE DEF sorted
<1>5. /\ Cut(sorted) \in Seq(Addresses) /\ Len(Cut(sorted)) <= MaxIps
      /\ Elems(Cut(sorted)) \subseteq Elems(sorted) /\ Distinct(Cut(sorted))
      /\ Elems(sorted) \subseteq Elems(Cut(sorted)) \/ Len(Cut(sorted)) = MaxIps
  BY <1>4, CutFacts
<1>6. QED
  BY <1>1, <1>2, <1>3, <1>4, <1>5 DEF Kept


-----------------------------------------------------------------------------
(* The wire.                                                               *)

TextLens == 1 .. 47

\* A length is not changed by the 8 bits it is sent in, and adds 49 bytes at most.
LEMMA TextLenFacts ==
  ASSUME NEW x \in TextLens
  PROVE  /\ x \in Nat /\ x % 256 = x
         /\ \A i \in Nat \ {0} : \A y \in 0 .. 2 + 49 * (i - 1) : y + 2 + x \in 0 .. 2 + 49 * i
BY DEF TextLens

\* A list of n entries, of at most 47 bytes of text each, takes 2 + 49 n bytes at most.
LEMMA ListLenBound ==
  ASSUME NEW lens \in Seq(TextLens)
  PROVE  ListLen(lens) \in 0 .. 2 + 49 * Len(lens)
<1> DEFINE n == Len(lens)
           Step(acc, i) == acc + 2 + lens[i]
           G == [i \in 1 .. n |-> [acc \in Nat |-> Step(acc, i)]]
           Body(g) == [i \in 0 .. n |-> IF i = 0 THEN 2 ELSE Step(g[i - 1], i)]
<1>1. n \in Nat /\ \A i \in 1 .. n : lens[i] \in TextLens
  OBVIOUS
<1>2. G \in [1 .. n -> [Nat -> Nat]]
  BY <1>1, TextLenFacts
<1> HIDE DEF G, n
<1>3. PICK h : Computed(h, 2, n, Nat, G)
  BY <1>1, <1>2, RecursionExists
<1>4. /\ h \in [0 .. n -> Nat]
      /\ h[0] = 2
      /\ \A i \in 1 .. n : h[i] = G[i][h[i - 1]]
  BY <1>3 DEF Computed
<1>5. \A i \in 1 .. n : h[i - 1] \in Nat
  BY <1>1, <1>4
<1>6. \A i \in 1 .. n : h[i] = Step(h[i - 1], i)
  BY <1>4, <1>5 DEF G
<1> HIDE DEF Step
<1>7. h = Body(h)
  BY <1>1, <1>4, <1>6
<1> DEFINE f == CHOOSE g : g = Body(g)
<1>8. f = Body(f)
  BY <1>7
<1>9. ListLen(lens) = f[n]
  BY DEF ListLen, Step, n
<1> HIDE DEF f
<1>10. f[0] = 2 /\ \A i \in 1 .. n : f[i] = Step(f[i - 1], i)
  BY <1>1, <1>8
<1> DEFINE T == {i \in 0 .. n : f[i] \in 0 .. 2 + 49 * i}
<1>11. 0 \in T /\ \A i \in 1 .. n : i - 1 \in T => i \in T
  <2>1. 0 \in T
    BY <1>1, <1>10
  <2>2. ASSUME NEW i \in 1 .. n, i - 1 \in T PROVE i \in T
    <3>1. f[i] = f[i - 1] + 2 + lens[i] /\ lens[i] \in TextLens /\ i \in Nat \ {0}
      BY <1>1, <1>10 DEF Step
    <3>2. f[i - 1] \in 0 .. 2 + 49 * (i - 1)
      BY <2>2
    <3> DEFINE x == lens[i]
               y == f[i - 1]
    <3> HIDE DEF x, y
    <3>3. y + 2 + x \in 0 .. 2 + 49 * i
      BY <3>1, <3>2, TextLenFacts DEF x, y
    <3>4. QED
      BY <1>1, <3>1, <3>3 DEF x, y
  <2>3. QED
    BY <2>1, <2>2
<1> HIDE DEF T
<1>12. \A i \in 0 .. n : i \in T
  BY <1>1, <1>11, IndexInduction
<1>13. f[n] \in 0 .. 2 + 49 * n
  BY <1>1, <1>12 DEF T
<1>14. QED
  BY <1>9, <1>13 DEF n

\* So does a list of n addresses.
LEMMA IpsLenBound ==
  ASSUME NEW l \in Seq(Addresses)
  PROVE  LenOfIps(l) \in 0 .. 2 + 49 * Len(l)
<1> DEFINE lens == [i \in DOMAIN l |-> TextLen[l[i].ip]]
<1>1. lens \in Seq(TextLens) /\ Len(lens) = Len(l)
  <2>1. \A i \in 1 .. Len(l) : l[i] \in Addresses
    OBVIOUS
  <2>2. \A i \in 1 .. Len(l) : l[i].ip \in Ips
    BY <2>1 DEF Addresses
  <2>3. \A i \in 1 .. Len(l) : TextLen[l[i].ip] \in TextLens
    BY <2>2, AddressPathAssumption DEF TextLens
  <2>4. QED
    BY <2>3
<1>2. LenOfIps(l) = ListLen(lens)
  BY DEF LenOfIps
<1> HIDE DEF lens
<1>3. QED
  BY <1>1, <1>2, ListLenBound

\* The smaller of two numbers.
LEMMA MinFacts ==
  ASSUME NEW a \in Nat, NEW b \in Nat
  PROVE  Min({a, b}) \in Nat /\ Min({a, b}) <= b /\ (a <= b => Min({a, b}) = a)
<1> DEFINE m == CHOOSE x \in {a, b} : \A y \in {a, b} : x <= y
<1>1. \E x \in {a, b} : \A y \in {a, b} : x <= y
  OBVIOUS
<1>2. m \in {a, b} /\ \A y \in {a, b} : m <= y
  BY <1>1
<1>3. Min({a, b}) = m
  BY DEF Min
<1> HIDE DEF m
<1>4. QED
  BY <1>2, <1>3

\* A list that is not too long is decoded to itself: no address is lost or changed between
\* encode_ips and decode_ips.
LEMMA RoundTrip ==
  ASSUME NEW l \in Seq(Addresses), Len(l) <= 65535
  PROVE  DecodedIps(EncodedIps(l)) = l
<1> DEFINE buf == EncodedIps(l)
           n == Len(l)
           Entry(a) == [af |-> IF IsV6(a) THEN 6 ELSE 4, len |-> TextLen[a.ip] % 256, ip |-> a]
           all == [i \in DOMAIN l |-> Entry(l[i])]
           E == {Entry(a) : a \in Addresses}
           entries == SubSeq(buf.entries, 1, buf.count)
           good == {e \in ToSet(entries) : Parses(e)}
           kept == Only(entries, good)
<1>1. n \in Nat /\ DOMAIN l = 1 .. n /\ \A i \in 1 .. n : l[i] \in Addresses
  OBVIOUS
<1>2. buf.count = n /\ buf.entries = all
  <2>1. Min({n, 65535}) = n
    BY <1>1, MinFacts
  <2>2. QED
    BY <2>1 DEF EncodedIps
<1>3. \A a \in Addresses : Parses(Entry(a)) /\ Entry(a).ip = a
  <2>1. SUFFICES ASSUME NEW a \in Addresses PROVE Parses(Entry(a)) /\ Entry(a).ip = a
    OBVIOUS
  <2>2. TextLen[a.ip] \in TextLens
    BY AddressPathAssumption DEF Addresses, TextLens
  <2>3. TextLen[a.ip] % 256 = TextLen[a.ip]
    BY <2>2, TextLenFacts
  <2>4. QED
    BY <2>3 DEF Parses
<1> HIDE DEF Entry, buf
<1>4. all \in Seq(E) /\ Len(all) = n /\ \A i \in 1 .. n : all[i] = Entry(l[i])
  BY <1>1
<1> HIDE DEF all, E
<1>5. entries = all
  BY <1>1, <1>2, <1>4
<1> HIDE DEF entries
<1>6. Elems(entries) \subseteq good
  <2>1. ToSet(entries) = Elems(entries)
    BY <1>4, <1>5, ToSetElems
  <2>2. \A e \in E : Parses(e)
    BY <1>3 DEF E
  <2>3. Elems(entries) \subseteq E
    BY <1>4, <1>5 DEF Elems
  <2>4. QED
    BY <2>1, <2>2, <2>3
<1> HIDE DEF good
<1>7. kept = all
  BY <1>4, <1>5, <1>6, OnlyFacts
<1>8. DecodedIps(buf) = [i \in DOMAIN kept |-> kept[i].ip]
  BY DEF DecodedIps, good, entries
<1> HIDE DEF kept
<1>9. DOMAIN all = 1 .. n
  BY <1>4
<1>10. [i \in DOMAIN kept |-> kept[i].ip] = [i \in 1 .. n |-> l[i]]
  BY <1>1, <1>3, <1>4, <1>7, <1>9
<1>11. [i \in 1 .. n |-> l[i]] = l
  BY <1>1
<1>12. QED
  BY <1>8, <1>10, <1>11 DEF buf


-----------------------------------------------------------------------------
(* Messages and their sizes.                                               *)

ListKinds == {"answer", "ipChanged", "gossip", "pushIp"}

\* A list of at most as many addresses as a store keeps is sent whole, and fits.
LEMMA ListingFacts ==
  ASSUME NEW kind \in ListKinds, NEW l \in Seq(Addresses), Len(l) <= 8
  PROVE  /\ Listing(kind, l).kind = kind
         /\ DecodedIps(Listing(kind, l).ips) = l
         /\ PacketLen(Listing(kind, l)) <= RecvBuf
<1> DEFINE m == Listing(kind, l)
<1>1. Len(l) \in Nat /\ Len(l) <= 65535
  OBVIOUS
<1>2. m.kind = kind /\ m.ips = EncodedIps(l) /\ m.data = 0 /\ m.name = 0
  BY DEF Listing, Ping
<1> HIDE DEF m
<1>3. DecodedIps(m.ips) = l
  BY <1>1, <1>2, RoundTrip
<1>4. [i \in DOMAIN m.ips.entries |-> m.ips.entries[i].ip] = l
  <2>1. m.ips.entries = [i \in DOMAIN l |-> [af  |-> IF IsV6(l[i]) THEN 6 ELSE 4,
                                             len |-> TextLen[l[i].ip] % 256,
                                             ip  |-> l[i]]]
    BY <1>2 DEF EncodedIps
  <2>2. [i \in DOMAIN m.ips.entries |-> m.ips.entries[i].ip] = [i \in DOMAIN l |-> l[i]]
    BY <2>1
  <2>3. [i \in DOMAIN l |-> l[i]] = l
    OBVIOUS
  <2>4. QED
    BY <2>2, <2>3
<1> DEFINE n == Len(l)
           fixed == FixedLen(kind)
           listed == LenOfIps(l)
<1>5. fixed \in 0 .. 53
  BY DEF FixedLen, ListKinds
<1>6. listed \in 0 .. 2 + 49 * n
  BY IpsLenBound
<1>7. InnerLen(m) = fixed + 0 + 0 + listed
  <2>1. ListsIps(m.kind)
    BY <1>2 DEF ListsIps, ListKinds
  <2>2. QED
    BY <1>2, <1>4, <2>1 DEF InnerLen
<1>8. kind # "ping"
  BY DEF ListKinds
<1>9. n \in Nat /\ n <= 8
  BY <1>1
<1> HIDE DEF n, fixed, listed
<1>10. listed \in 0 .. 394
  BY <1>6, <1>9
<1>11. InnerLen(m) \in 0 .. 447
  BY <1>5, <1>7, <1>10
<1>12. PacketLen(m) <= RecvBuf
  <2> DEFINE inner == InnerLen(m)
  <2>1. PacketLen(m) = 82 + (32 + 12 + inner + 16) + 64
    BY <1>2, <1>8 DEF PacketLen, PayloadLen, SealedLen, HeaderLen, SigLen
  <2>2. inner \in 0 .. 447
    BY <1>11
  <2> HIDE DEF inner
  <2>3. QED
    BY <2>1, <2>2 DEF RecvBuf
<1>13. QED
  BY <1>2, <1>3, <1>12 DEF m

\* So do the greatest text, the greatest chunk with the longest name, a ping and a query.
LEMMA OthersFit ==
  /\ Ping.kind = "ping" /\ PacketLen(Ping) <= RecvBuf
  /\ Query.kind = "query" /\ PacketLen(Query) <= RecvBuf
  /\ \A n \in Texts : n <= MaxMsgContentBytes =>
       Text(n).kind = "text" /\ PacketLen(Text(n)) <= RecvBuf
  /\ \A n \in Chunks, name \in Names :
       Chunk(n, name).kind = "chunk" /\ PacketLen(Chunk(n, name)) <= RecvBuf
<1>1. Ping.kind = "ping" /\ PacketLen(Ping) <= RecvBuf
  BY DEF Ping, PacketLen, PayloadLen, HeaderLen, SigLen, RecvBuf
<1>2. Query.kind = "query" /\ PacketLen(Query) <= RecvBuf
  <2>1. Query.kind = "query" /\ Query.data = 0 /\ Query.name = 0
    BY DEF Query, Ping
  <2>2. InnerLen(Query) = 53
    BY <2>1 DEF InnerLen, FixedLen, ListsIps
  <2>3. QED
    BY <2>1, <2>2 DEF PacketLen, PayloadLen, SealedLen, HeaderLen, SigLen, RecvBuf
<1>3. ASSUME NEW n \in Texts, n <= MaxMsgContentBytes
      PROVE  Text(n).kind = "text" /\ PacketLen(Text(n)) <= RecvBuf
  <2> DEFINE m == Text(n)
  <2>1. m.kind = "text" /\ m.data = n /\ m.name = 0
    BY DEF Text, Ping
  <2>2. n \in Nat /\ n <= 3000
    BY <1>3, AddressPathAssumption DEF MaxMsgContentBytes
  <2> HIDE DEF m
  <2>3. InnerLen(m) = 13 + n
    BY <2>1, <2>2 DEF InnerLen, FixedLen, ListsIps
  <2>4. PacketLen(m) <= RecvBuf
    BY <2>1, <2>2, <2>3 DEF PacketLen, PayloadLen, SealedLen, HeaderLen, SigLen, RecvBuf
  <2>5. QED
    BY <2>1, <2>4 DEF m
<1>4. ASSUME NEW n \in Chunks, NEW name \in Names
      PROVE  Chunk(n, name).kind = "chunk" /\ PacketLen(Chunk(n, name)) <= RecvBuf
  <2> DEFINE m == Chunk(n, name)
             cut == Min({name, 255})
  <2>1. m.kind = "chunk" /\ m.data = n /\ m.name = cut
    BY DEF Chunk, Ping
  <2>2. n \in Nat /\ n <= 2400
    BY AddressPathAssumption DEF AttachChunkData
  <2>3. cut \in Nat /\ cut <= 255
    BY MinFacts, AddressPathAssumption
  <2> HIDE DEF m, cut
  <2>4. InnerLen(m) = 51 + n + cut
    BY <2>1, <2>2, <2>3 DEF InnerLen, FixedLen, ListsIps
  <2>5. PacketLen(m) <= RecvBuf
    BY <2>1, <2>2, <2>3, <2>4 DEF PacketLen, PayloadLen, SealedLen, HeaderLen, SigLen, RecvBuf
  <2>6. QED
    BY <2>1, <2>5 DEF m
<1>5. QED
  BY <1>1, <1>2, <1>3, <1>4

-----------------------------------------------------------------------------
(* The inductive invariant.                                                *)

\* An address that is the owner's, with the owner's port unless a record was begun from
\* another.
OfOwner(a) ==
  /\ ~a.mapped
  /\ a.ip # FriendIp
  /\ a.ip \in Private \cup V6 => a.port = Port \/ typed # {}

ListOfOwner(l) ==
  /\ l \in Seq(Addresses)
  /\ Len(l) <= 8
  /\ Distinct(l)
  /\ \A a \in Elems(l) : OfOwner(a)

\* What may be in a packet: the lists it carries are of the owner's addresses, too.
GoodMessage(m) ==
  \/ m = Ping
  \/ m = Query
  \/ \E n \in Texts : n <= MaxMsgContentBytes /\ m = Text(n)
  \/ \E n \in Chunks, name \in Names : m = Chunk(n, name)
  \/ \E kind \in ListKinds :
       ListOfOwner(DecodedIps(m.ips)) /\ m = Listing(kind, DecodedIps(m.ips))

OwnersMachine == FriendIp \notin {public, owner.stable, owner.shown}

PacketsSound ==
  \A p \in wire : GoodMessage(p.m) /\ (p.from = "owner" => OfOwner(NormalizeRecv(p.src)))

ListsSound == \A h \in Friends : Knows(h) => ListOfOwner(book[h]) /\ Len(book[h]) <= MaxIps

IInv == TypeOK /\ OwnersMachine /\ PacketsSound /\ ListsSound

\* The kinds of lists, one by one.
LEMMA KindFacts ==
  /\ "answer" \in ListKinds /\ "ipChanged" \in ListKinds
  /\ "gossip" \in ListKinds /\ "pushIp" \in ListKinds
BY DEF ListKinds

\* What is listed in a message is of the owner, and a list of the owner's can be sent.
LEMMA MessageFacts ==
  /\ \A m : GoodMessage(m) => PacketLen(m) <= RecvBuf
  /\ \A m : GoodMessage(m) /\ m.kind \in ListKinds => ListOfOwner(DecodedIps(m.ips))
  /\ \A kind \in ListKinds : \A l : ListOfOwner(l) => GoodMessage(Listing(kind, l))
<1>1. ASSUME NEW m, GoodMessage(m)
      PROVE  /\ PacketLen(m) <= RecvBuf
             /\ m.kind \in ListKinds => ListOfOwner(DecodedIps(m.ips))
  <2>1. CASE m = Ping \/ m = Query
    BY <2>1, OthersFit DEF ListKinds
  <2>2. CASE \E n \in Texts : n <= MaxMsgContentBytes /\ m = Text(n)
    BY <2>2, OthersFit DEF ListKinds
  <2>3. CASE \E n \in Chunks, name \in Names : m = Chunk(n, name)
    BY <2>3, OthersFit DEF ListKinds
  <2>4. CASE \E kind \in ListKinds :
               ListOfOwner(DecodedIps(m.ips)) /\ m = Listing(kind, DecodedIps(m.ips))
    BY <2>4, ListingFacts DEF ListOfOwner
  <2>5. QED
    BY <1>1, <2>1, <2>2, <2>3, <2>4 DEF GoodMessage
<1>2. ASSUME NEW l, NEW kind \in ListKinds, ListOfOwner(l) PROVE GoodMessage(Listing(kind, l))
  <2>1. DecodedIps(Listing(kind, l).ips) = l
    BY <1>2, ListingFacts DEF ListOfOwner
  <2>2. QED
    BY <1>2, <2>1 DEF GoodMessage
<1>3. QED
  BY <1>1, <1>2

\* What depends on `typed` only stays true when it grows.
LEMMA OwnerMonotone ==
  ASSUME typed \subseteq typed'
  PROVE  /\ \A a : OfOwner(a) => OfOwner(a)'
         /\ \A l : ListOfOwner(l) => ListOfOwner(l)'
         /\ \A m : GoodMessage(m) => GoodMessage(m)'
<1>1. \A a : OfOwner(a) => OfOwner(a)'
  BY DEF OfOwner
<1>2. \A l : ListOfOwner(l) => ListOfOwner(l)'
  BY <1>1 DEF ListOfOwner
<1>3. QED
  BY <1>1, <1>2 DEF GoodMessage


-----------------------------------------------------------------------------
(* Each action keeps it.                                                   *)

\* A packet's source is an address; the receiver undoes what its socket makes of it.
LEMMA SourceFacts ==
  ASSUME NEW a \in Addresses
  PROVE  /\ SeenAs(a) \in Addresses
         /\ NormalizeRecv(SeenAs(a)) = [a EXCEPT !.mapped = FALSE]
         /\ ~a.mapped => NormalizeRecv(SeenAs(a)) = a
         /\ NormalizeRecv(a) \in Addresses
<1>1. SeenAs(a) \in Addresses /\ NormalizeRecv(a) \in Addresses
  <2>1. ASSUME NEW b \in BOOLEAN PROVE [a EXCEPT !.mapped = b] \in Addresses
    BY DEF Addresses
  <2>2. (a.ip \in V4) \in BOOLEAN
    OBVIOUS
  <2>3. QED
    BY <2>1, <2>2 DEF SeenAs, NormalizeRecv
<1>2. NormalizeRecv(SeenAs(a)) = [a EXCEPT !.mapped = FALSE]
  BY DEF SeenAs, NormalizeRecv, Addresses
<1>3. ~a.mapped => [a EXCEPT !.mapped = FALSE] = a
  BY DEF Addresses
<1>4. QED
  BY <1>1, <1>2, <1>3

LEMMA AtFacts ==
  ASSUME NEW ip \in Ips, NEW port \in {Port, NatPort, DefaultPort}
  PROVE  /\ At(ip, port) \in Addresses
         /\ At(ip, port).ip = ip /\ At(ip, port).port = port /\ ~At(ip, port).mapped
BY DEF At, Addresses

\* The owner's packets come from addresses of the owner.
LEMMA SourcesOfOwner ==
  ASSUME TypeOK, NEW a \in Sources
  PROVE  a \in Addresses /\ OfOwner(a)
<1>1. owner.at \in Networks
  BY DEF TypeOK
<1>2. /\ owner.at.v4 \in V4 \cup {None} /\ owner.at.v6 \in V6 \cup {None}
      /\ FriendIp \notin {owner.at.v4, owner.at.v6}
  BY <1>1, AddressPathAssumption
<1>3. CASE \E ip \in {owner.at.v4, owner.at.v6} \ {None} : a = At(ip, Port)
  <2>1. PICK ip \in {owner.at.v4, owner.at.v6} \ {None} : a = At(ip, Port)
    BY <1>3
  <2>2. ip \in Ips /\ ip # FriendIp
    BY <1>2 DEF Ips
  <2>3. QED
    BY <2>1, <2>2, AtFacts DEF OfOwner
<1>4. CASE \E ip \in OwnersIps : IsPublicV4(ip) /\ a = At(ip, NatPort)
  <2>1. PICK ip \in OwnersIps : IsPublicV4(ip) /\ a = At(ip, NatPort)
    BY <1>4
  <2>2. ip \in Ips /\ ip # FriendIp /\ ip \notin Private \cup V6
    BY <2>1, FriendBookAssumption DEF OwnersIps, IsPublicV4
  <2>3. QED
    BY <2>1, <2>2, AtFacts DEF OfOwner
<1>5. QED
  BY <1>3, <1>4 DEF Sources

\* What the owner announces is a list of its addresses.
LEMMA AnnouncedOfOwner ==
  ASSUME TypeOK, NEW stable \in V4 \cup {None}, stable # FriendIp
  PROVE  ListOfOwner(Announced(stable)) /\ Len(Announced(stable)) \in 0 .. 2
<1>1. owner.at \in Networks
  BY DEF TypeOK
<1>2. /\ owner.at.v4 \in V4 \cup {None} /\ owner.at.v6 \in V6 \cup {None}
      /\ FriendIp \notin {owner.at.v4, owner.at.v6}
  BY <1>1, AddressPathAssumption
<1>3. CASE stable # None
  <2> DEFINE a == At(stable, Port)
             l == <<a>>
  <2>1. a \in Addresses /\ OfOwner(a)
    BY <1>3, AtFacts DEF OfOwner, Ips
  <2> HIDE DEF a
  <2>2. l \in Seq(Addresses) /\ Len(l) = 1 /\ l[1] = a
    BY <2>1
  <2>3. Announced(stable) = l
    BY <1>3 DEF Announced, a
  <2> HIDE DEF l
  <2>4. Elems(l) = {a} /\ Distinct(l)
    BY <2>2 DEF Elems, Distinct
  <2>5. QED
    BY <2>1, <2>2, <2>3, <2>4 DEF ListOfOwner
<1>4. CASE stable = None
  <2> DEFINE S == Ips \cup {None}
             have == <<owner.at.v4, owner.at.v6>>
             A == {ip \in Ips : Reachable(At(ip, Port))}
             l == [i \in DOMAIN Local |-> At(Local[i], Port)]
  <2>1. have \in Seq(S) /\ Len(have) = 2
        /\ have[1] = owner.at.v4 /\ have[2] = owner.at.v6
    BY <1>2 DEF Ips
  <2>2. Local = Only(have, A)
    BY DEF Local
  <2> HIDE DEF S, have, A
  <2>3. /\ Local \in Seq(S) /\ Len(Local) <= 2
        /\ Elems(Local) = Elems(have) \cap A
        /\ Distinct(have) => Distinct(Local)
    <3>1. /\ Only(have, A) \in Seq(S) /\ Len(Only(have, A)) <= Len(have)
          /\ Elems(Only(have, A)) = Elems(have) \cap A
          /\ Distinct(have) => Distinct(Only(have, A))
      BY <2>1, OnlyFacts
    <3>2. QED
      BY <2>1, <2>2, <3>1
  <2>4. \A i \in 1 .. Len(Local) : Local[i] \in Ips /\ Local[i] # FriendIp
    <3>1. Elems(have) = {owner.at.v4, owner.at.v6}
      BY <2>1 DEF Elems
    <3>2. \A ip \in Elems(Local) : ip \in Ips /\ ip # FriendIp
      BY <1>2, <2>3, <3>1 DEF A
    <3>3. QED
      BY <3>2 DEF Elems
  <2>5. Distinct(Local)
    <3>1. CASE owner.at.v4 # owner.at.v6
      BY <2>1, <2>3, <3>1 DEF Distinct
    <3>2. CASE owner.at.v4 = owner.at.v6
      <4>1. owner.at.v4 = None /\ owner.at.v6 = None
        BY <1>2, <3>2, FriendBookAssumption
      <4>2. Elems(have) = {None}
        BY <2>1, <4>1 DEF Elems
      <4>3. Elems(Local) = {}
        BY <2>3, <4>2, AddressPathAssumption DEF A
      <4>4. \A i \in 1 .. Len(Local) : FALSE
        BY <4>3 DEF Elems
      <4>5. QED
        BY <4>4 DEF Distinct
    <3>3. QED
      BY <3>1, <3>2
  <2>6. Announced(stable) = l
    BY <1>4 DEF Announced
  <2>7. \A i \in 1 .. Len(Local) :
          l[i] = At(Local[i], Port) /\ l[i] \in Addresses /\ l[i].ip = Local[i] /\ OfOwner(l[i])
    <3>1. \A i \in 1 .. Len(Local) : i \in DOMAIN Local /\ l[i] = At(Local[i], Port)
      BY <2>3
    <3>2. QED
      BY <2>4, <3>1, AtFacts DEF OfOwner
  <2>8. l \in Seq(Addresses) /\ Len(l) = Len(Local) /\ Len(Local) \in Nat
    <3>1. DOMAIN Local = 1 .. Len(Local) /\ Len(Local) \in Nat
      BY <2>3
    <3>2. l = [i \in 1 .. Len(Local) |-> l[i]]
      BY <3>1
    <3>3. \A i \in 1 .. Len(Local) : l[i] \in Addresses
      BY <2>7
    <3> HIDE DEF l
    <3>4. QED
      BY <3>1, <3>2, <3>3
  <2> HIDE DEF l
  <2>9. Distinct(l) /\ \A a \in Elems(l) : OfOwner(a)
    BY <2>5, <2>7, <2>8 DEF Distinct, Elems
  <2>10. QED
    BY <2>3, <2>6, <2>8, <2>9 DEF ListOfOwner
<1>5. QED
  BY <1>3, <1>4


\* A step may change the list of a friend that knows the owner in this way only.
ListsKept ==
  \A h \in Friends : Knows(h) =>
    book'[h] = book[h] \/ Kept(book[h], book'[h], {a \in Addresses : OfOwner(a)})

\* A packet more on the wire.
LEMMA SendKeeps ==
  ASSUME IInv, NEW from \in Friends \cup {"owner"}, NEW h \in Friends, NEW a \in Addresses, NEW m,
         from = "owner" => OfOwner(a), GoodMessage(m), Send(from, h, a, m),
         UNCHANGED <<public, owner, book, typed>>
  PROVE  IInv' /\ ListsKept
<1> DEFINE new == [from |-> from, to |-> h, src |-> SeenAs(a), m |-> m]
<1>1. wire' = wire \cup {new}
  BY DEF Send
<1>2. /\ new.from = from /\ new.to = h /\ new.m = m
      /\ new.src \in Addresses /\ (from = "owner" => OfOwner(NormalizeRecv(new.src)))
  BY SourceFacts DEF OfOwner
<1> HIDE DEF new
<1>3. TypeOK'
  BY <1>1, <1>2 DEF IInv, TypeOK
<1>4. OwnersMachine'
  BY DEF IInv, OwnersMachine
<1>5. /\ \A x : OfOwner(x) => OfOwner(x)'
      /\ \A l : ListOfOwner(l) => ListOfOwner(l)'
      /\ \A x : GoodMessage(x) => GoodMessage(x)'
  BY OwnerMonotone
<1>6. PacketsSound'
  BY <1>1, <1>2, <1>5 DEF IInv, PacketsSound
<1>7. ListsSound'
  BY <1>5 DEF IInv, ListsSound, Knows
<1>8. QED
  BY <1>3, <1>4, <1>6, <1>7 DEF IInv, ListsKept

LEMMA OwnerSendsKeeps ==
  ASSUME IInv, NEW h \in Friends, NEW m, GoodMessage(m), OwnerSends(h, m)
  PROVE  IInv' /\ ListsKept
<1>1. PICK a \in Sources : Send("owner", h, a, m)
  BY DEF OwnerSends
<1>2. UNCHANGED <<public, owner, book, typed>>
  BY DEF OwnerSends
<1>3. a \in Addresses /\ OfOwner(a)
  BY SourcesOfOwner DEF IInv
<1>4. QED
  BY <1>1, <1>2, <1>3, SendKeeps

\* A friend more knows the owner, by a list of the owner's.
LEMMA AddKeeps ==
  ASSUME IInv, NEW h \in Friends, NEW ips, Add(h, ips),
         typed \subseteq typed', typed' \in SUBSET Friends,
         ListOfOwner(ips)', Len(ips) <= MaxIps
  PROVE  IInv' /\ ListsKept
<1>1. /\ ~Knows(h) /\ book' = [book EXCEPT ![h] = ips]
      /\ UNCHANGED <<public, owner, wire>>
  BY DEF Add
<1>2. book \in [Friends -> {None} \cup Seq(Addresses)]
  BY DEF IInv, TypeOK
<1>3. ips \in Seq(Addresses)
  BY DEF ListOfOwner
<1>4. /\ \A x : OfOwner(x) => OfOwner(x)'
      /\ \A l : ListOfOwner(l) => ListOfOwner(l)'
      /\ \A m : GoodMessage(m) => GoodMessage(m)'
  BY OwnerMonotone
<1>5. \A f \in Friends : book'[f] = IF f = h THEN ips ELSE book[f]
  BY <1>1, <1>2
<1>6. book' \in [Friends -> {None} \cup Seq(Addresses)]
  BY <1>1, <1>2, <1>3
<1>7. TypeOK'
  BY <1>1, <1>6 DEF IInv, TypeOK
<1>8. OwnersMachine' /\ PacketsSound'
  BY <1>1, <1>4 DEF IInv, OwnersMachine, PacketsSound
<1>9. ListsSound'
  BY <1>4, <1>5 DEF IInv, ListsSound, Knows
<1>10. ListsKept
  BY <1>1, <1>5 DEF ListsKept
<1>11. QED
  BY <1>7, <1>8, <1>9, <1>10 DEF IInv

\* A list of one address.
LEMMA OneAddress ==
  ASSUME NEW a \in Addresses
  PROVE  /\ <<a>> \in Seq(Addresses) /\ Len(<<a>>) = 1 /\ Len(<<a>>) <= MaxIps
         /\ Distinct(<<a>>) /\ Elems(<<a>>) = {a}
<1> DEFINE l == <<a>>
<1>1. l \in Seq(Addresses) /\ Len(l) = 1 /\ l[1] = a
  OBVIOUS
<1> HIDE DEF l
<1>2. Distinct(l) /\ Elems(l) = {a}
  BY <1>1 DEF Distinct, Elems
<1>3. QED
  BY <1>1, <1>2, FriendBookAssumption DEF l

LEMMA OpenLinkKeeps ==
  ASSUME IInv, NEW h \in Friends, OpenLink(h)
  PROVE  IInv' /\ ListsKept
<1> DEFINE told == Announced(public)
<1>1. ListOfOwner(told)
  BY AnnouncedOfOwner DEF IInv, TypeOK, OwnersMachine
<1>2. /\ Add(h, IF told = <<>> THEN <<>> ELSE <<told[1]>>)
      /\ UNCHANGED typed
  BY DEF OpenLink
<1> HIDE DEF told
<1>3. typed' \in SUBSET Friends /\ typed \subseteq typed'
  BY <1>2 DEF IInv, TypeOK
<1>4. CASE told = <<>>
  <2> DEFINE l == <<>>
  <2>1. l \in Seq(Addresses) /\ Len(l) = 0
    OBVIOUS
  <2>2. Add(h, l)
    BY <1>2, <1>4
  <2> HIDE DEF l
  <2>3. ListOfOwner(l)' /\ Len(l) <= MaxIps
    BY <2>1, FriendBookAssumption DEF ListOfOwner, Distinct, Elems
  <2>4. QED
    BY <1>3, <2>2, <2>3, AddKeeps
<1>5. CASE told # <<>>
  <2>1. told \in Seq(Addresses) /\ Len(told) > 0
    BY <1>1, <1>5 DEF ListOfOwner
  <2>2. PICK a \in Addresses : a = told[1] /\ a \in Elems(told)
    BY <2>1 DEF Elems
  <2>3. OfOwner(a)
    BY <1>1, <2>2 DEF ListOfOwner
  <2> DEFINE l == <<a>>
  <2>4. Add(h, l)
    BY <1>2, <1>5, <2>2
  <2>5. l \in Seq(Addresses) /\ Len(l) = 1 /\ Len(l) <= MaxIps /\ Distinct(l) /\ Elems(l) = {a}
    BY OneAddress
  <2> HIDE DEF l
  <2>6. ListOfOwner(l)
    BY <2>3, <2>5 DEF ListOfOwner
  <2>7. ListOfOwner(l)'
    BY <1>3, <2>6, OwnerMonotone
  <2>8. QED
    BY <1>3, <2>4, <2>5, <2>7, AddKeeps
<1>6. QED
  BY <1>4, <1>5

\* An invitation and `friend add`: the address may be wrong but for its IP, and `typed` says so.
LEMMA TypedKeeps ==
  ASSUME IInv, NEW h \in Friends, ScanInvite(h) \/ \E a \in Told : FriendAdd(h, a)
  PROVE  IInv' /\ ListsKept
<1>1. PICK a \in Addresses : ~a.mapped /\ a.ip # FriendIp /\ Add(h, <<a>>)
  <2>1. CASE ScanInvite(h)
    <3>1. owner.shown \in Ips /\ owner.shown # FriendIp
      BY <2>1 DEF ScanInvite, IInv, TypeOK, OwnersMachine
    <3>2. Add(h, <<At(owner.shown, DefaultPort)>>)
      BY <2>1 DEF ScanInvite
    <3>3. QED
      BY <3>1, <3>2, AtFacts
  <2>2. CASE \E a \in Told : FriendAdd(h, a)
    BY <2>2, AddressPathAssumption DEF FriendAdd
  <2>3. QED
    BY <2>1, <2>2
<1>2. typed' = typed \cup {h}
  BY DEF ScanInvite, FriendAdd
<1>3. typed' \in SUBSET Friends /\ typed \subseteq typed' /\ typed' # {}
  BY <1>2 DEF IInv, TypeOK
<1> DEFINE l == <<a>>
<1>4. l \in Seq(Addresses) /\ Len(l) = 1 /\ Len(l) <= MaxIps /\ Distinct(l) /\ Elems(l) = {a}
  BY OneAddress
<1>5. Add(h, l)
  BY <1>1
<1> HIDE DEF l
<1>6. ListOfOwner(l)'
  BY <1>1, <1>3, <1>4 DEF ListOfOwner, OfOwner
<1>7. QED
  BY <1>3, <1>4, <1>5, <1>6, AddKeeps


\* A list that changes twice is kept as if it had changed once.  If the first change lost an
\* address, the list was full, and a full list that loses nothing is full afterwards.
LEMMA KeptTwice ==
  ASSUME NEW l1 \in Seq(Addresses), NEW l2, NEW l3, NEW N,
         Kept(l1, l2, N), Kept(l2, l3, N)
  PROVE  Kept(l1, l3, N)
<1>1. /\ l2 \in Seq(Addresses) /\ Distinct(l2)
      /\ Elems(l1) \subseteq Elems(l2) \/ Len(l2) = MaxIps
      /\ Elems(l2) \subseteq Elems(l1) \cup {a \in N : Reachable(a)}
  BY DEF Kept
<1>2. /\ l3 \in Seq(Addresses) /\ Len(l3) <= MaxIps /\ Distinct(l3)
      /\ Elems(l2) \subseteq Elems(l3) \/ Len(l3) = MaxIps
      /\ Elems(l3) \subseteq Elems(l2) \cup {a \in N : Reachable(a)}
  BY DEF Kept
<1>3. ASSUME Elems(l2) \subseteq Elems(l3), Len(l2) = MaxIps PROVE Len(l3) = MaxIps
  <2>1. /\ Cardinality(Elems(l2)) = Len(l2) /\ IsFiniteSet(Elems(l3))
        /\ Cardinality(Elems(l3)) = Len(l3)
    BY <1>1, <1>2, DistinctSize
  <2>2. Cardinality(Elems(l2)) <= Cardinality(Elems(l3))
    BY <1>3, <2>1, FS_Subset
  <2>3. Len(l3) \in Nat /\ MaxIps \in Nat
    BY <1>2, FriendBookAssumption
  <2>4. QED
    BY <1>2, <1>3, <2>1, <2>2, <2>3
<1>4. Elems(l1) \subseteq Elems(l3) \/ Len(l3) = MaxIps
  BY <1>1, <1>2, <1>3
<1>5. QED
  BY <1>1, <1>2, <1>4 DEF Kept

\* What a friend that knows the owner makes of a packet.
LEMMA LearntKeeps ==
  ASSUME IInv, NEW p \in wire, NEW h \in Friends, Knows(h)
  PROVE  Kept(book[h], Learnt(h, p), {a \in Addresses : OfOwner(a)})
<1> DEFINE N == {a \in Addresses : OfOwner(a)}
           l1 == book[h]
           l2 == Seen(h, p)
           new == DecodedIps(p.m.ips)
<1>1. l1 \in Seq(Addresses) /\ Distinct(l1) /\ Len(l1) <= MaxIps
  BY DEF IInv, ListsSound, ListOfOwner
<1>2. /\ p.src \in Addresses /\ GoodMessage(p.m)
      /\ p.from = "owner" => OfOwner(NormalizeRecv(p.src))
  BY DEF IInv, TypeOK, PacketsSound
<1>3. Kept(l1, l2, N)
  <2>1. CASE p.from = "owner"
    <3> DEFINE a == NormalizeRecv(p.src)
    <3>1. a \in N
      BY <1>2, <2>1, SourceFacts
    <3>2. Kept(l1, Heard(l1, a), {a})
      BY <1>1, <3>1, HeardFacts
    <3>3. l2 = Heard(l1, a)
      BY <2>1 DEF Seen
    <3> HIDE DEF a, l1, l2, N
    <3>4. QED
      BY <3>1, <3>2, <3>3 DEF Kept
  <2>2. CASE p.from # "owner"
    <3>1. l2 = l1
      BY <2>2 DEF Seen
    <3>2. QED
      BY <1>1, <3>1 DEF Kept
  <2>3. QED
    BY <2>1, <2>2
<1>4. CASE p.m.kind \in {"ipChanged", "pushIp", "answer"} /\ p.m.ips.count > 0
  <2>1. Learnt(h, p) = Merged(l2, new)
    BY <1>4 DEF Learnt
  <2>2. ListOfOwner(new)
    BY <1>2, <1>4, MessageFacts DEF ListKinds
  <2>3. l2 \in Seq(Addresses)
    BY <1>3 DEF Kept
  <2> HIDE DEF new, l1, l2
  <2>4. new \in Seq(Addresses) /\ Distinct(new) /\ Elems(new) \subseteq N
    <3>1. new \in Seq(Addresses) /\ Distinct(new) /\ \A a \in Elems(new) : OfOwner(a)
      BY <2>2 DEF ListOfOwner
    <3>2. \A a \in Elems(new) : a \in Addresses
      BY <3>1 DEF Elems
    <3>3. QED
      BY <3>1, <3>2
  <2> HIDE DEF N
  <2>5. Kept(l2, Merged(l2, new), Elems(new))
    BY <2>3, <2>4, MergedFacts
  <2>6. Kept(l2, Merged(l2, new), N)
    BY <2>4, <2>5 DEF Kept
  <2>7. Kept(l1, Merged(l2, new), N)
    BY <1>1, <1>3, <2>6, KeptTwice
  <2>8. QED
    BY <2>1, <2>7 DEF N, l1
<1>5. CASE ~(p.m.kind \in {"ipChanged", "pushIp", "answer"} /\ p.m.ips.count > 0)
  <2>1. Learnt(h, p) = l2
    BY <1>5 DEF Learnt
  <2>2. QED
    BY <1>3, <2>1
<1>6. QED
  BY <1>4, <1>5

\* What a friend sends on is what it was sent, or its own list.
LEMMA PassedGood ==
  ASSUME IInv, NEW p \in wire, NEW h \in Friends, NEW m \in Passed(h, p)
  PROVE  GoodMessage(m)
<1>1. GoodMessage(p.m)
  BY DEF IInv, PacketsSound
<1>2. CASE p.m.kind = "gossip"
  <2>1. m = Listing("pushIp", DecodedIps(p.m.ips))
    BY <1>2 DEF Passed
  <2>2. ListOfOwner(DecodedIps(p.m.ips))
    BY <1>1, <1>2, MessageFacts DEF ListKinds
  <2>3. QED
    BY <2>1, <2>2, MessageFacts, KindFacts
<1>3. CASE p.m.kind = "query"
  <2> DEFINE l == IF Knows(h) THEN book[h] ELSE <<>>
  <2>1. m = Listing("answer", l)
    BY <1>3 DEF Passed
  <2>2. ListOfOwner(l)
    <3>1. CASE Knows(h)
      BY <3>1 DEF IInv, ListsSound
    <3>2. CASE ~Knows(h)
      BY <3>2 DEF ListOfOwner, Distinct, Elems
    <3>3. QED
      BY <3>1, <3>2
  <2> HIDE DEF l
  <2>3. QED
    BY <2>1, <2>2, MessageFacts, KindFacts
<1>4. CASE p.m.kind \notin {"gossip", "query"}
  BY <1>4 DEF Passed
<1>5. QED
  BY <1>2, <1>3, <1>4

LEMMA HandlePacketKeeps ==
  ASSUME IInv, NEW p \in wire, HandlePacket(p)
  PROVE  IInv' /\ ListsKept
<1> DEFINE h == p.to
           out == {[from |-> h, to |-> o, src |-> SeenAs(FriendAddress), m |-> m] :
                     o \in Others(h), m \in Passed(h, p)}
           list == Learnt(h, p)
           N == {a \in Addresses : OfOwner(a)}
<1>1. /\ book' = IF Knows(h) THEN [book EXCEPT ![h] = list] ELSE book
      /\ wire' = (wire \ {p}) \cup out
      /\ UNCHANGED <<public, owner, typed>>
  BY DEF HandlePacket
<1>2. h \in Friends /\ h # "owner" /\ book \in [Friends -> {None} \cup Seq(Addresses)]
  BY AddressPathAssumption DEF IInv, TypeOK
<1>3. Knows(h) => Kept(book[h], list, N)
  BY <1>2, LearntKeeps
<1>4. FriendAddress \in Addresses /\ SeenAs(FriendAddress) \in Addresses
  BY AddressPathAssumption, AtFacts, SourceFacts DEF FriendAddress
<1>5. \A x \in out : /\ x.from \in Friends /\ x.from # "owner" /\ x.to \in Friends
                     /\ x.src \in Addresses /\ GoodMessage(x.m)
  BY <1>2, <1>4, PassedGood DEF Others
<1> HIDE DEF h, out, list
<1>6. \A f \in Friends : book'[f] = IF f = h /\ Knows(h) THEN list ELSE book[f]
  BY <1>1, <1>2
<1>7. Knows(h) => /\ list \in Seq(Addresses) /\ Len(list) <= MaxIps /\ Distinct(list)
                  /\ Elems(list) \subseteq Elems(book[h]) \cup {a \in N : Reachable(a)}
  BY <1>3 DEF Kept
<1>8. book' \in [Friends -> {None} \cup Seq(Addresses)]
  BY <1>1, <1>2, <1>7
<1>9. TypeOK'
  BY <1>1, <1>5, <1>8 DEF IInv, TypeOK
<1>10. OwnersMachine'
  BY <1>1 DEF IInv, OwnersMachine
<1>11. /\ \A x : OfOwner(x) => OfOwner(x)'
       /\ \A l : ListOfOwner(l) => ListOfOwner(l)'
       /\ \A m : GoodMessage(m) => GoodMessage(m)'
  BY <1>1, OwnerMonotone
<1>12. PacketsSound'
  BY <1>1, <1>5, <1>11 DEF IInv, PacketsSound
<1>13. ListsSound'
  <2>1. SUFFICES ASSUME NEW f \in Friends, Knows(f)'
                 PROVE  ListOfOwner(book[f])' /\ Len(book'[f]) <= MaxIps
    BY DEF ListsSound
  <2>2. CASE f = h /\ Knows(h)
    <3>1. ListOfOwner(book[h])
      BY <1>2, <2>2 DEF IInv, ListsSound
    <3>2. \A a \in Elems(list) : OfOwner(a)
      BY <1>7, <2>2, <3>1 DEF ListOfOwner
    <3>3. book'[f] = list /\ Len(list) <= 8
      BY <1>6, <1>7, <2>2, FriendBookAssumption
    <3>4. \A a \in Elems(book'[f]) : OfOwner(a)'
      BY <1>11, <3>2, <3>3
    <3>5. QED
      BY <1>7, <2>2, <3>3, <3>4 DEF ListOfOwner
  <2>3. CASE ~(f = h /\ Knows(h))
    <3>1. book'[f] = book[f] /\ Knows(f)
      BY <1>6, <2>1, <2>3 DEF Knows
    <3>2. ListOfOwner(book[f]) /\ Len(book[f]) <= MaxIps
      BY <3>1 DEF IInv, ListsSound
    <3>3. ListOfOwner(book[f])'
      BY <1>11, <3>1, <3>2 DEF ListOfOwner
    <3>4. QED
      BY <3>1, <3>2, <3>3
  <2>4. QED
    BY <2>2, <2>3
<1>14. ListsKept
  BY <1>3, <1>6 DEF ListsKept
<1>15. QED
  BY <1>9, <1>10, <1>12, <1>13, <1>14 DEF IInv


\* The owner's machine and settings; and a packet that is lost.
LEMMA OthersKeep ==
  ASSUME IInv,
         \/ \E ip \in OwnersIps \cup {None} : SetPublic(ip)
         \/ \E network \in Networks : MoveTo(network)
         \/ StartRun \/ EndRun
         \/ \E p \in wire : Drop(p)
  PROVE  IInv' /\ ListsKept
<1>1. /\ owner \in [up : BOOLEAN, stable : V4 \cup {None}, shown : Ips \cup {None}, at : Networks]
      /\ public \in V4 \cup {None}
      /\ FriendIp \notin {public, owner.stable, owner.shown} /\ FriendIp # None
  BY AddressPathAssumption DEF IInv, TypeOK, OwnersMachine
<1>2. UNCHANGED <<book, typed>> /\ wire' \subseteq wire
  BY DEF SetPublic, MoveTo, StartRun, EndRun, Drop
<1>3. /\ public' \in V4 \cup {None} /\ FriendIp # public'
      /\ owner' \in [up : BOOLEAN, stable : V4 \cup {None}, shown : Ips \cup {None}, at : Networks]
      /\ FriendIp \notin {owner'.stable, owner'.shown}
  <2>1. CASE \E ip \in OwnersIps \cup {None} : SetPublic(ip)
    BY <1>1, <2>1, FriendBookAssumption DEF SetPublic, OwnersIps, IsPublicV4
  <2>2. CASE \E network \in Networks : MoveTo(network)
    BY <1>1, <2>2 DEF MoveTo
  <2>3. CASE StartRun
    <3> DEFINE have == {owner.at.v4, owner.at.v6} \ {None}
    <3>1. owner.at \in Networks
      BY <1>1
    <3>2. have \subseteq Ips \ {FriendIp}
      BY <3>1, AddressPathAssumption DEF Ips
    <3>3. Shown = IF Cardinality(have) = 1 THEN CHOOSE ip \in have : TRUE ELSE None
      BY DEF Shown
    <3> HIDE DEF have
    <3>4. Cardinality(have) = 1 => have # {}
      BY FS_EmptySet
    <3>5. Shown \in Ips \cup {None} /\ Shown # FriendIp
      BY <1>1, <3>2, <3>3, <3>4
    <3>6. /\ owner' = [owner EXCEPT !.up = TRUE, !.stable = public, !.shown = Shown]
          /\ UNCHANGED public
      BY <2>3 DEF StartRun
    <3>7. QED
      BY <1>1, <3>5, <3>6
  <2>4. CASE EndRun
    BY <1>1, <2>4 DEF EndRun
  <2>5. CASE \E p \in wire : Drop(p)
    BY <1>1, <2>5 DEF Drop
  <2>6. QED
    BY <2>1, <2>2, <2>3, <2>4, <2>5
<1>4. TypeOK' /\ OwnersMachine'
  BY <1>2, <1>3 DEF IInv, TypeOK, OwnersMachine
<1>5. PacketsSound' /\ ListsSound'
  <2>1. /\ \A x : OfOwner(x) => OfOwner(x)'
        /\ \A l : ListOfOwner(l) => ListOfOwner(l)'
        /\ \A m : GoodMessage(m) => GoodMessage(m)'
    BY <1>2, OwnerMonotone
  <2>2. QED
    BY <1>2, <2>1 DEF IInv, PacketsSound, ListsSound, Knows
<1>6. QED
  BY <1>2, <1>4, <1>5 DEF IInv, ListsKept

-----------------------------------------------------------------------------
(* The theorems.                                                           *)

LEMMA InitInvariant == Init => IInv
<1>1. SUFFICES ASSUME Init PROVE IInv
  OBVIOUS
<1>2. /\ public = None /\ book = [h \in Friends |-> None] /\ wire = {} /\ typed = {}
      /\ owner \in [up : {FALSE}, stable : {None}, shown : {None}, at : Networks]
  BY <1>1 DEF Init
<1>3. TypeOK /\ OwnersMachine
  BY <1>2, AddressPathAssumption DEF TypeOK, OwnersMachine
<1>4. PacketsSound /\ ListsSound
  BY <1>2 DEF PacketsSound, ListsSound, Knows
<1>5. QED
  BY <1>3, <1>4 DEF IInv

\* The actions of the owner that send a packet.
LEMMA OwnersPackets ==
  ASSUME IInv, NEW h \in Friends,
         \/ AnnounceIps(h) \/ GossipUnconfirmed(h) \/ SendPing(h)
         \/ \E n \in Texts : HandleSend(h, n)
         \/ \E n \in Chunks, name \in Names : HandleSendAttach(h, n, name)
  PROVE  IInv' /\ ListsKept
<1>1. ListOfOwner(Announced(owner.stable))
  <2>1. owner.stable \in V4 \cup {None} /\ owner.stable # FriendIp
    BY DEF IInv, TypeOK, OwnersMachine
  <2>2. QED
    BY <2>1, AnnouncedOfOwner DEF IInv
<1>2. GoodMessage(Listing("ipChanged", Announced(owner.stable)))
      /\ GoodMessage(Listing("gossip", Announced(owner.stable)))
  BY <1>1, MessageFacts, KindFacts
<1>3. CASE AnnounceIps(h)
  BY <1>2, <1>3, OwnerSendsKeeps DEF AnnounceIps
<1>4. CASE GossipUnconfirmed(h)
  BY <1>2, <1>4, OwnerSendsKeeps DEF GossipUnconfirmed
<1>5. CASE SendPing(h)
  BY <1>5, OwnerSendsKeeps DEF SendPing, GoodMessage
<1>6. CASE \E n \in Texts : HandleSend(h, n)
  BY <1>6, OwnerSendsKeeps DEF HandleSend, GoodMessage
<1>7. CASE \E n \in Chunks, name \in Names : HandleSendAttach(h, n, name)
  BY <1>7, OwnerSendsKeeps DEF HandleSendAttach, GoodMessage
<1>8. QED
  BY <1>3, <1>4, <1>5, <1>6, <1>7

\* A friend asks another for the owner's addresses.
LEMMA AskKeeps ==
  ASSUME IInv, NEW h \in Friends, NEW o \in Others(h), AskOther(h, o)
  PROVE  IInv' /\ ListsKept
<1>1. /\ Send(h, o, FriendAddress, Query) /\ UNCHANGED <<public, owner, book, typed>>
      /\ h # "owner" /\ o \in Friends
  BY AddressPathAssumption DEF AskOther, Others
<1>2. FriendAddress \in Addresses
  BY AddressPathAssumption, AtFacts DEF FriendAddress
<1>3. GoodMessage(Query)
  BY DEF GoodMessage
<1>4. QED
  BY <1>1, <1>2, <1>3, SendKeeps

\* The action properties are proved with the invariant: both say what a step may do.
LEMMA StepInvariant == IInv /\ [Next]_vars => IInv' /\ ListsKept
<1>1. SUFFICES ASSUME IInv, [Next]_vars PROVE IInv' /\ ListsKept
  OBVIOUS
<1>2. CASE \/ \E ip \in OwnersIps \cup {None} : SetPublic(ip)
           \/ \E network \in Networks : MoveTo(network)
           \/ StartRun \/ EndRun
           \/ \E p \in wire : Drop(p)
  BY <1>1, <1>2, OthersKeep
<1>3. CASE \E h \in Friends :
             \/ AnnounceIps(h) \/ GossipUnconfirmed(h) \/ SendPing(h)
             \/ \E n \in Texts : HandleSend(h, n)
             \/ \E n \in Chunks, name \in Names : HandleSendAttach(h, n, name)
  BY <1>1, <1>3, OwnersPackets
<1>4. CASE \E h \in Friends : OpenLink(h)
  BY <1>1, <1>4, OpenLinkKeeps
<1>5. CASE \E h \in Friends : ScanInvite(h) \/ \E a \in Told : FriendAdd(h, a)
  BY <1>1, <1>5, TypedKeeps
<1>6. CASE \E h \in Friends : \E o \in Others(h) : AskOther(h, o)
  BY <1>1, <1>6, AskKeeps
<1>7. CASE \E p \in wire : HandlePacket(p)
  BY <1>1, <1>7, HandlePacketKeeps
<1>8. CASE UNCHANGED vars
  <2>1. UNCHANGED <<public, owner, book, wire, typed>>
    BY <1>8 DEF vars
  <2>2. TypeOK' /\ OwnersMachine'
    BY <1>1, <2>1 DEF IInv, TypeOK, OwnersMachine
  <2>3. /\ \A x : OfOwner(x) => OfOwner(x)'
        /\ \A l : ListOfOwner(l) => ListOfOwner(l)'
        /\ \A m : GoodMessage(m) => GoodMessage(m)'
    BY <2>1, OwnerMonotone
  <2>4. PacketsSound' /\ ListsSound' /\ ListsKept
    BY <1>1, <2>1, <2>3 DEF IInv, PacketsSound, ListsSound, ListsKept, Knows
  <2>5. QED
    BY <2>2, <2>4 DEF IInv
<1>9. QED
  BY <1>1, <1>2, <1>3, <1>4, <1>5, <1>6, <1>7, <1>8 DEF Next

\* What a list, and a packet on its way to one, can hold, whoever announces, asks, answers,
\* passes on, moves and restarts.
THEOREM InductiveInvariant == Spec => []IInv
BY InitInvariant, StepInvariant, PTL DEF Spec

\* The variables keep their types; the owner's public address is never an IPv6 one.
THEOREM TypeCorrect == Spec => []TypeOK
<1>1. IInv => TypeOK
  BY DEF IInv
<1>2. QED
  BY <1>1, InductiveInvariant, PTL

\* A friend's list is bounded by MAX_IPS and holds each address once, in its plain form.
THEOREM BooksAreSound == Spec => []BookSound
<1>1. IInv => BookSound
  <2>1. SUFFICES ASSUME IInv, NEW h \in Friends, Knows(h)
                 PROVE  /\ Len(book[h]) <= MaxIps
                        /\ \A i, j \in DOMAIN book[h] : i # j => book[h][i] # book[h][j]
                        /\ \A a \in ToSet(book[h]) : ~a.mapped
    BY DEF BookSound
  <2>2. /\ Len(book[h]) <= MaxIps /\ book[h] \in Seq(Addresses)
        /\ Distinct(book[h]) /\ \A a \in Elems(book[h]) : OfOwner(a)
    BY <2>1 DEF IInv, ListsSound, ListOfOwner
  <2>3. DOMAIN book[h] = 1 .. Len(book[h]) /\ ToSet(book[h]) = Elems(book[h])
    BY <2>2, ToSetElems
  <2>4. QED
    BY <2>2, <2>3 DEF Distinct, OfOwner
<1>2. QED
  BY <1>1, InductiveInvariant, PTL

\* It holds addresses of its owner only, through any chain of announcements, answers and
\* pushes.
THEOREM OnlyTheOwners == Spec => []OwnersOnly
<1>1. IInv => OwnersOnly
  <2>1. SUFFICES ASSUME IInv, NEW h \in Friends, Knows(h), NEW a \in ToSet(book[h])
                 PROVE  /\ a.ip # FriendIp
                        /\ a.ip \in Private \cup V6 => a.port = Port \/ typed # {}
    BY DEF OwnersOnly
  <2>2. book[h] \in Seq(Addresses) /\ \A x \in Elems(book[h]) : OfOwner(x)
    BY <2>1 DEF IInv, ListsSound, ListOfOwner
  <2>3. OfOwner(a)
    BY <2>1, <2>2, ToSetElems
  <2>4. QED
    BY <2>3 DEF OfOwner
<1>2. QED
  BY <1>1, InductiveInvariant, PTL

\* Every packet fits in the receiver's buffer.
THEOREM DatagramsFit == Spec => []DatagramFits
<1>1. IInv => DatagramFits
  BY MessageFacts DEF IInv, PacketsSound, DatagramFits
<1>2. QED
  BY <1>1, InductiveInvariant, PTL

\* The two action properties follow from what a step does to a list.
LEMMA StepOfList ==
  ASSUME IInv, ListsKept, NEW h \in Friends, Knows(h)
  PROVE  /\ ToSet(book[h]) \subseteq ToSet(book'[h]) \/ Len(book'[h]) = MaxIps
         /\ \A a \in ToSet(book'[h]) \ ToSet(book[h]) : a.ip \notin Unroutable
<1> DEFINE N == {a \in Addresses : OfOwner(a)}
<1>1. CASE book'[h] = book[h]
  BY <1>1
<1>2. CASE Kept(book[h], book'[h], N)
  <2>1. book[h] \in Seq(Addresses)
    BY DEF IInv, ListsSound, ListOfOwner
  <2>2. /\ book'[h] \in Seq(Addresses)
        /\ Elems(book[h]) \subseteq Elems(book'[h]) \/ Len(book'[h]) = MaxIps
        /\ Elems(book'[h]) \subseteq Elems(book[h]) \cup {a \in N : Reachable(a)}
    BY <1>2 DEF Kept
  <2>3. ToSet(book[h]) = Elems(book[h]) /\ ToSet(book'[h]) = Elems(book'[h])
    BY <2>1, <2>2, ToSetElems
  <2>4. \A a \in N : Reachable(a) => a.ip \notin Unroutable
    BY DEF OfOwner, Reachable
  <2> HIDE DEF N
  <2>5. QED
    BY <2>2, <2>3, <2>4
<1>3. QED
  BY <1>1, <1>2 DEF ListsKept

\* An address is forgotten only for want of room: the step that loses one leaves a full list.
THEOREM NothingLostWithRoom == Spec => KeptUnlessFull
<1> DEFINE A == \A h \in Friends : Knows(h) =>
                  ToSet(book[h]) \subseteq ToSet(book'[h]) \/ Len(book'[h]) = MaxIps
<1>1. IInv /\ [Next]_vars => [A]_vars
  BY StepInvariant, StepOfList
<1>2. QED
  BY <1>1, InductiveInvariant, PTL DEF Spec, KeptUnlessFull

\* No address that filter_reachable refuses comes into a list that is there.
THEOREM NothingUnroutable == Spec => RoutableOnly
<1> DEFINE A == \A h \in Friends : Knows(h) =>
                  \A a \in ToSet(book'[h]) \ ToSet(book[h]) : a.ip \notin Unroutable
<1>1. IInv /\ [Next]_vars => [A]_vars
  BY StepInvariant, StepOfList
<1>2. QED
  BY <1>1, InductiveInvariant, PTL DEF Spec, RoutableOnly

=============================================================================
