------------------------ MODULE AddressAnnounceProofs ------------------------
(***************************************************************************)
(* Proofs about AddressAnnounce, for any number of address changes, any    *)
(* relays, any limits on retries and any size of the friend's record,      *)
(* restarts of the announcer and of the relays included.                   *)
(***************************************************************************)
EXTENDS AddressAnnounce, ListLemmas

\* Only announcements that were made are on the wire or in the announcer's maps, and
\* what was made is not newer than the addresses last sampled.
OnlyMade ==
  /\ sampled <= cur
  /\ announced <= sampled
  /\ probe \in {None, announced}
  /\ pending <= sampled
  /\ \A c \in changes : c[1] <= sampled
  /\ \A a \in acks : a[1] <= sampled
  /\ \A v \in confirmed : v <= sampled

\* Address v is on the list, or the list has no room.
ListedOrFull(list, v) == v \in Elems(list) \/ Len(list) = MaxIps

\* The friend acknowledges what it has recorded, if there was room, and records nothing
\* twice: a record that is full stays full.
AcksAreTold ==
  /\ Distinct(book)
  /\ \A a \in acks : ListedOrFull(book, a[1])
  /\ \A v \in confirmed : ListedOrFull(book, v)

\* An announcement that is being retried is not confirmed.
ProbeUnconfirmed == probe \notin confirmed

IInv == /\ TypeOK
        /\ OnlyMade
        /\ AcksAreTold
        /\ TrackedUntilConfirmed
        /\ ProbeUnconfirmed

-----------------------------------------------------------------------------
(* The friend's record.                                                    *)

\* A record is a list of at most MaxIps addresses.
LEMMA BookLists ==
  ASSUME NEW list
  PROVE  list \in Books <=> list \in Seq(Versions) /\ Len(list) <= MaxIps
<1>1. ASSUME NEW n \in 0 .. MaxIps, list \in [1 .. n -> Versions]
      PROVE  list \in Seq(Versions) /\ Len(list) <= MaxIps
  <2>1. n \in Nat /\ n <= MaxIps
    BY AnnounceAssumption
  <2>2. list \in Seq(Versions)
    BY <1>1, <2>1
  <2>3. Len(list) = n
    BY <1>1, <2>1, <2>2
  <2>4. QED
    BY <2>1, <2>2, <2>3
<1>2. ASSUME list \in Seq(Versions), Len(list) <= MaxIps
      PROVE  \E n \in 0 .. MaxIps : list \in [1 .. n -> Versions]
  <2>1. Len(list) \in 0 .. MaxIps /\ list \in [1 .. Len(list) -> Versions]
    BY <1>2, AnnounceAssumption
  <2>2. QED
    BY <2>1
<1>3. QED
  BY <1>1, <1>2 DEF Books

\* What is made to fit is a record, and so is what the two ways of adding an address make.
LEMMA RecordType ==
  ASSUME NEW list \in Books, NEW v \in Versions
  PROVE  Heard[list][v] \in Books /\ Merged[list][v] \in Books
<1>1. ASSUME NEW all \in Seq(Versions) PROVE Fitting(all) \in Books
  <2>1. CASE Len(all) <= MaxIps
    BY <2>1, BookLists DEF Fitting
  <2>2. CASE ~(Len(all) <= MaxIps)
    <3> DEFINE fit == SubSeq(all, 1, MaxIps)
    <3>1. MaxIps \in Nat /\ Len(all) \in Nat
      BY AnnounceAssumption
    <3>2. fit \in Seq(Versions) /\ Len(fit) = MaxIps
      BY <2>2, <3>1
    <3>3. Fitting(all) = fit
      BY <2>2 DEF Fitting
    <3> HIDE DEF fit
    <3>4. fit \in Books
      BY <3>1, <3>2, BookLists
    <3>5. QED
      BY <3>3, <3>4
  <2>3. QED
    BY <2>1, <2>2
<1> DEFINE all == ToFront(list, v)
<1>2. all \in Seq(Versions)
  <2>1. Only(list, Versions \ {v}) \in Seq(Versions)
    BY BookLists, OnlyFacts
  <2>2. QED
    BY <2>1, ConcatFacts DEF ToFront
<1>3. Heard[list][v] = Fitting(all)
      /\ Merged[list][v] = Fitting(Only(all, IPv6) \o Only(all, Versions \ IPv6))
  BY DEF Heard, Merged
<1> HIDE DEF all
<1>4. Only(all, IPv6) \in Seq(Versions) /\ Only(all, Versions \ IPv6) \in Seq(Versions)
  BY <1>2, OnlyFacts
<1>5. Only(all, IPv6) \o Only(all, Versions \ IPv6) \in Seq(Versions)
  BY <1>4, ConcatFacts
<1>6. QED
  BY <1>1, <1>2, <1>3, <1>5

\* Putting an address first keeps the others.
LEMMA ToFrontFacts ==
  ASSUME NEW list \in Seq(Versions), Distinct(list), NEW v \in Versions
  PROVE  /\ ToFront(list, v) \in Seq(Versions)
         /\ Distinct(ToFront(list, v))
         /\ Elems(ToFront(list, v)) = Elems(list) \cup {v}
<1> DEFINE rest == Only(list, Versions \ {v})
           first == <<v>>
<1>1. /\ rest \in Seq(Versions) /\ Distinct(rest)
      /\ Elems(rest) = Elems(list) \cap (Versions \ {v})
  BY OnlyFacts
<1>2. first \in Seq(Versions) /\ Distinct(first) /\ Elems(first) = {v}
  BY DEF Distinct, Elems
<1>3. Elems(list) \subseteq Versions
  BY DEF Elems
<1> HIDE DEF rest, first
<1>4. /\ first \o rest \in Seq(Versions)
      /\ Distinct(first \o rest)
      /\ Elems(first \o rest) = {v} \cup Elems(rest)
  <2>1. Elems(first) \cap Elems(rest) = {}
    BY <1>1, <1>2
  <2>2. QED
    BY <1>1, <1>2, <2>1, ConcatFacts
<1>5. Elems(list) \cup {v} = {v} \cup Elems(rest)
  BY <1>1, <1>3
<1>6. QED
  BY <1>4, <1>5 DEF ToFront, rest, first

\* What is made to fit keeps everything, or is full; and it is full if it holds all of a
\* list that was.
LEMMA FittingFacts ==
  ASSUME NEW list \in Books, Distinct(list),
         NEW all \in Seq(Versions), Distinct(all), Elems(list) \subseteq Elems(all)
  PROVE  /\ Fitting(all) \in Books /\ Distinct(Fitting(all))
         /\ \A v \in Elems(all) : ListedOrFull(Fitting(all), v)
         /\ Len(list) = MaxIps => Len(Fitting(all)) = MaxIps
<1>1. MaxIps \in Nat /\ Len(all) \in Nat /\ list \in Seq(Versions) /\ Len(list) \in Nat
  BY AnnounceAssumption, BookLists
<1>2. Len(list) <= Len(all)
  <2>1. /\ IsFiniteSet(Elems(all)) /\ Cardinality(Elems(all)) = Len(all)
        /\ IsFiniteSet(Elems(list)) /\ Cardinality(Elems(list)) = Len(list)
    BY <1>1, DistinctSize
  <2>2. QED
    BY <2>1, FS_Subset
<1>3. CASE Len(all) <= MaxIps
  <2>1. Fitting(all) = all /\ all \in Books
    BY <1>3, BookLists DEF Fitting
  <2>2. Len(list) = MaxIps => Len(all) = MaxIps
    BY <1>1, <1>2, <1>3
  <2>3. QED
    BY <2>1, <2>2 DEF ListedOrFull
<1>4. CASE ~(Len(all) <= MaxIps)
  <2> DEFINE fit == SubSeq(all, 1, MaxIps)
  <2>1. /\ fit \in Seq(Versions) /\ Len(fit) = MaxIps
        /\ \A i \in 1 .. MaxIps : fit[i] = all[i] /\ i \in 1 .. Len(all)
    BY <1>1, <1>4
  <2>2. Fitting(all) = fit
    BY <1>4 DEF Fitting
  <2> HIDE DEF fit
  <2>3. Distinct(fit)
    BY <2>1 DEF Distinct
  <2>4. fit \in Books
    BY <1>1, <2>1, BookLists
  <2>5. QED
    BY <2>1, <2>2, <2>3, <2>4 DEF ListedOrFull
<1>5. QED
  BY <1>3, <1>4

\* The record after an address was added to it.
Grows(list, new, v) ==
  /\ new \in Books /\ Distinct(new)
  /\ \A x \in Elems(list) \cup {v} : ListedOrFull(new, x)
  /\ Len(list) = MaxIps => Len(new) = MaxIps

\* Both ways of adding an address lose one only when the record is full.
LEMMA RecordGrows ==
  ASSUME NEW list \in Books, Distinct(list), NEW v \in Versions
  PROVE  Grows(list, Heard[list][v], v) /\ Grows(list, Merged[list][v], v)
<1> DEFINE all == ToFront(list, v)
           v6 == Only(all, IPv6)
           v4 == Only(all, Versions \ IPv6)
           sorted == v6 \o v4
<1>1. all \in Seq(Versions) /\ Distinct(all) /\ Elems(all) = Elems(list) \cup {v}
  BY BookLists, ToFrontFacts
<1>2. Heard[list][v] = Fitting(all) /\ Merged[list][v] = Fitting(sorted)
  BY DEF Heard, Merged
<1> HIDE DEF all
<1>3. /\ v6 \in Seq(Versions) /\ Distinct(v6) /\ Elems(v6) = Elems(all) \cap IPv6
      /\ v4 \in Seq(Versions) /\ Distinct(v4)
      /\ Elems(v4) = Elems(all) \cap (Versions \ IPv6)
  BY <1>1, OnlyFacts
<1> HIDE DEF v6, v4
<1>4. sorted \in Seq(Versions) /\ Distinct(sorted) /\ Elems(sorted) = Elems(all)
  <2>1. Elems(all) \subseteq Versions
    BY <1>1 DEF Elems
  <2>2. Elems(v6) \cap Elems(v4) = {}
    BY <1>3
  <2>3. /\ sorted \in Seq(Versions) /\ Distinct(sorted)
        /\ Elems(sorted) = Elems(v6) \cup Elems(v4)
    BY <1>3, <2>2, ConcatFacts
  <2>4. QED
    BY <1>3, <2>1, <2>3
<1> HIDE DEF sorted
<1>5. QED
  BY <1>1, <1>2, <1>4, FittingFacts DEF Grows

\* What handle_ip_changed records: the announced address is listed, or the record is full.
LEMMA LearntGrows ==
  ASSUME NEW list \in Books, Distinct(list), NEW c \in Versions \X Versions
  PROVE  Grows(list, Learnt(list, c), c[1])
<1> DEFINE heard == Heard[list][c[2]]
           new == Learnt(list, c)
<1>1. Grows(list, heard, c[2])
  BY RecordGrows
<1>2. heard \in Books /\ Distinct(heard)
  BY <1>1 DEF Grows
<1>3. Grows(heard, Merged[heard][c[1]], c[1]) /\ new = Merged[heard][c[1]]
  BY <1>2, RecordGrows DEF Learnt
<1> HIDE DEF heard, new
<1>4. /\ \A x \in Elems(list) : ListedOrFull(heard, x)
      /\ Len(list) = MaxIps => Len(heard) = MaxIps
  BY <1>1 DEF Grows
<1>5. /\ \A x \in Elems(heard) \cup {c[1]} : ListedOrFull(new, x)
      /\ Len(heard) = MaxIps => Len(new) = MaxIps
      /\ new \in Books /\ Distinct(new)
  BY <1>3 DEF Grows
<1>6. \A x \in Elems(list) \cup {c[1]} : ListedOrFull(new, x)
  BY <1>4, <1>5 DEF ListedOrFull
<1>7. QED
  BY <1>4, <1>5, <1>6 DEF Grows, new

\* What was listed, or had no room, is listed or has none afterwards.
LEMMA GrowsKeeps ==
  ASSUME NEW list, NEW new, NEW v, Grows(list, new, v), NEW x, ListedOrFull(list, x)
  PROVE  ListedOrFull(new, x)
BY DEF Grows, ListedOrFull

-----------------------------------------------------------------------------
(* Types.                                                                  *)

\* The records and packets the actions build are of their types.
LEMMA HelperTypes ==
  /\ 0 \in 0 .. MaxTries /\ 0 \in 0 .. MaxPushes
  /\ Start \in Versions /\ Versions \subseteq Nat /\ None \notin Versions
  /\ \A v \in Versions :
       /\ AtStart(v).announced \in Versions \cup {None}
       /\ AtStart(v).probe \in {None, AtStart(v).announced}
       /\ AtStart(v).changes \in SUBSET (Versions \X Versions)
       /\ \A c \in AtStart(v).changes : c[1] = v
       /\ AtStart(v).announced \in {None, v} /\ AtStart(v).announced = AtStart(v).probe
BY AnnounceAssumption DEF Versions, None, AtStart

\* An entry that was sent once more is an entry, or none.
LEMMA SentType ==
  ASSUME NEW e \in Entries, e # NoEntry
  PROVE  e.version \in Versions /\ Sent(e) \in Entries
BY HelperTypes, AnnounceAssumption DEF Sent, Entries

\* At first nothing has been announced: the types hold.
LEMMA InitType == Init => TypeOK
BY HelperTypes DEF Init, TypeOK, Entries, KnownBefore

\* The actions of the announcer keep the types.
LEMMA AnnouncerType ==
  ASSUME TypeOK,
         \/ \E L \in SUBSET live : ChangeAddress(L)
         \/ Announce \/ RetryProbe \/ GiveUpProbe \/ HearFromFriend \/ Restart
         \/ \E a \in acks : HandleIpChangedAck(a)
  PROVE  TypeOK'
<1> USE HelperTypes, AnnounceAssumption
<1>1. ASSUME NEW L \in SUBSET live, ChangeAddress(L)
      PROVE  TypeOK'
  BY <1>1 DEF ChangeAddress, announcerVars, relayVars, TypeOK, Versions
<1>2. CASE Announce
  BY <1>2 DEF Announce, relayVars, TypeOK
<1>3. CASE RetryProbe
  BY <1>3 DEF RetryProbe, Retriable, relayVars, TypeOK
<1>4. CASE GiveUpProbe
  BY <1>4 DEF GiveUpProbe, Kept, relayVars, TypeOK
<1>5. CASE HearFromFriend
  BY <1>5 DEF HearFromFriend, Delivered, announcerVars, relayVars, TypeOK
<1>6. CASE Restart
  BY <1>6 DEF Restart, relayVars, TypeOK
<1>7. ASSUME NEW a \in acks, HandleIpChangedAck(a)
      PROVE  TypeOK'
  <2>1. a[1] \in Versions
    BY DEF TypeOK
  <2>2. pending' \in {None, pending}
    BY <1>7 DEF HandleIpChangedAck
  <2>3. changes' \in SUBSET (Versions \X Versions)
    BY <1>7, <2>2 DEF HandleIpChangedAck, Delivered, TypeOK
  <2>4. QED
    BY <1>7, <2>1, <2>2, <2>3 DEF HandleIpChangedAck, ProbeAfterAck, relayVars, TypeOK
<1>8. QED
  BY <1>1, <1>2, <1>3, <1>4, <1>5, <1>6, <1>7

\* The actions of the others keep the types.
LEMMA OthersType ==
  ASSUME TypeOK,
         \/ \E c \in changes : HandleIpChanged(c)
         \/ \E v \in Start .. cur : HearFromAnnouncer(v)
         \/ \E v \in pushes : HandlePushIp(v)
         \/ \E g \in gossips, seen \in BOOLEAN : HandleGossip(g, seen)
         \/ \E m \in Relays : PushIp(m) \/ RelayRestart(m)
         \/ Lose
  PROVE  TypeOK'
<1>1. ASSUME NEW c \in changes, HandleIpChanged(c)
      PROVE  TypeOK'
  <2>1. book \in Books /\ c[1] \in Versions /\ c[2] \in Versions
    BY DEF TypeOK
  <2>2. Learnt(book, c) \in Books
    BY <2>1, RecordType DEF Learnt
  <2>3. QED
    BY <1>1, <2>2 DEF HandleIpChanged, announcerVars, relayVars, TypeOK
<1>2. ASSUME NEW v \in Start .. cur, HearFromAnnouncer(v)
      PROVE  TypeOK'
  <2>1. v \in Versions
    BY HelperTypes, AnnounceAssumption DEF TypeOK, Versions
  <2>2. Heard[book][v] \in Books
    BY <2>1, RecordType DEF TypeOK
  <2>3. QED
    BY <1>2, <2>2 DEF HearFromAnnouncer, announcerVars, relayVars, TypeOK
<1>3. ASSUME NEW v \in pushes, HandlePushIp(v)
      PROVE  TypeOK'
  <2>1. Merged[book][v] \in Books
    BY RecordType DEF TypeOK
  <2>2. QED
    BY <1>3, <2>1 DEF HandlePushIp, announcerVars, relayVars, TypeOK
<1>4. ASSUME NEW g \in gossips, NEW seen \in BOOLEAN, HandleGossip(g, seen)
      PROVE  TypeOK'
  <2> DEFINE m == g[1]
             e == IF entries[m] = NoEntry THEN [version |-> g[2], attempts |-> 0]
                  ELSE entries[m]
  <2>1. m \in Relays /\ g[2] \in Versions
    BY DEF TypeOK
  <2>2. e \in Entries /\ e # NoEntry
    BY <2>1, HelperTypes DEF TypeOK, Entries, NoEntry
  <2>3. e.version \in Versions /\ Sent(e) \in Entries
    BY <2>2, SentType
  <2> HIDE DEF e
  <2>4. QED
    BY <1>4, <2>1, <2>2, <2>3 DEF HandleGossip, announcerVars, TypeOK, m, e
<1>5. ASSUME NEW m \in Relays, PushIp(m)
      PROVE  TypeOK'
  BY <1>5, SentType DEF PushIp, announcerVars, TypeOK
<1>6. ASSUME NEW m \in Relays, RelayRestart(m)
      PROVE  TypeOK'
  BY <1>6 DEF RelayRestart, announcerVars, Entries, TypeOK
<1>7. CASE Lose
  BY <1>7 DEF Lose, announcerVars, relayVars, TypeOK
<1>8. QED
  BY <1>1, <1>2, <1>3, <1>4, <1>5, <1>6, <1>7

\* Every variable keeps its type.
THEOREM TypeCorrect == Spec => []TypeOK
<1>1. TypeOK /\ [Next]_vars => TypeOK'
  <2> SUFFICES ASSUME TypeOK, [Next]_vars
               PROVE  TypeOK'
    OBVIOUS
  <2>1. CASE UNCHANGED vars
    BY <2>1 DEF vars, announcerVars, relayVars, TypeOK
  <2>2. QED
    BY <2>1, AnnouncerType, OthersType DEF Next
<1>2. QED
  BY InitType, <1>1, PTL DEF Spec

-----------------------------------------------------------------------------
(* The inductive invariant.                                                *)

\* The numbers the invariant compares are natural numbers.
LEMMA NumberFacts ==
  ASSUME TypeOK
  PROVE  /\ cur \in Nat /\ sampled \in Nat /\ announced \in Nat /\ probe \in Nat
         /\ pending \in Nat
         /\ \A v \in confirmed : v \in Nat
         /\ \A c \in changes : c[1] \in Nat
         /\ \A a \in acks : a[1] \in Nat
<1>1. Versions \cup {None} \subseteq Nat
  BY HelperTypes DEF None
<1>2. \A x \in changes \cup acks : x[1] \in Versions
  BY DEF TypeOK
<1>3. QED
  BY <1>1, <1>2 DEF TypeOK

\* At first nothing is on the wire, retried or kept for later.
LEMMA InitIInv == Init => IInv
<1> SUFFICES ASSUME Init
             PROVE  IInv
  OBVIOUS
<1>1. TypeOK
  BY InitType
<1>2. OnlyMade
  BY HelperTypes DEF Init, OnlyMade, None
<1>3. AcksAreTold
  <2>1. book \in Seq(Versions) /\ \A i, j \in DOMAIN book : book[i] = book[j] => i = j
    BY BookLists DEF Init, KnownBefore
  <2>2. QED
    BY <2>1 DEF Init, AcksAreTold, Distinct
<1>4. QED
  BY <1>1, <1>2, <1>3, HelperTypes DEF Init, IInv, TrackedUntilConfirmed, ProbeUnconfirmed

\* New addresses are announced: nothing that is on the wire or confirmed has their
\* number yet.
LEMMA AnnounceIInv ==
  ASSUME IInv, TypeOK', Announce
  PROVE  IInv'
<1>1. /\ cur \in Nat /\ sampled \in Nat /\ sampled < cur /\ cur # None
  BY NumberFacts, HelperTypes DEF IInv, OnlyMade, Announce, TypeOK
<1>2. /\ pending' \in Nat /\ pending' <= sampled
      /\ \A v \in confirmed' : v \in Nat /\ v <= sampled
      /\ \A a \in acks' : a[1] \in Nat /\ a[1] <= sampled
      /\ \A c \in changes : c[1] \in Nat /\ c[1] <= sampled
  BY NumberFacts DEF IInv, OnlyMade, Announce
<1>3. /\ sampled' = cur /\ cur' = cur
      /\ announced' \in Nat /\ announced' <= cur
      /\ probe' \in {None, announced'}
      /\ \A c \in changes' : c[1] <= cur
  <2>1. CASE cur \in Offline
    BY <1>1, <1>2, <2>1, NumberFacts DEF IInv, OnlyMade, Announce
  <2>2. CASE cur \notin Offline
    BY <1>1, <1>2, <2>2 DEF Announce
  <2>3. QED
    BY <2>1, <2>2
<1>4. OnlyMade'
  BY <1>1, <1>2, <1>3 DEF OnlyMade
<1>5. ProbeUnconfirmed'
  <2>1. CASE cur \in Offline
    BY <2>1 DEF IInv, ProbeUnconfirmed, Announce
  <2>2. CASE cur \notin Offline
    BY <1>1, <1>2, <2>2 DEF ProbeUnconfirmed, Announce
  <2>3. QED
    BY <2>1, <2>2
<1>6. TrackedUntilConfirmed'
  BY DEF IInv, TrackedUntilConfirmed, Announce
<1>7. QED
  BY <1>4, <1>5, <1>6 DEF IInv, AcksAreTold, Announce

\* An acknowledgement ends the probe, whichever it was, and is remembered.
LEMMA HandleIpChangedAckIInv ==
  ASSUME IInv, TypeOK', NEW a \in acks, HandleIpChangedAck(a)
  PROVE  IInv'
<1>1. /\ a[1] \in Nat /\ a[1] <= sampled /\ ListedOrFull(book, a[1]) /\ a[1] # None
  BY NumberFacts, HelperTypes DEF IInv, OnlyMade, AcksAreTold, TypeOK
<1>2. /\ pending' \in {None, pending} /\ pending' <= sampled
      /\ \A c \in changes' : c[1] <= sampled
  BY NumberFacts DEF HandleIpChangedAck, Delivered, IInv, OnlyMade, None
<1>3. OnlyMade'
  BY <1>1, <1>2 DEF HandleIpChangedAck, ProbeAfterAck, IInv, OnlyMade
<1>4. ProbeUnconfirmed'
  BY HelperTypes DEF HandleIpChangedAck, ProbeAfterAck, ProbeUnconfirmed, IInv, TypeOK
<1>5. QED
  BY <1>1, <1>3, <1>4 DEF IInv, HandleIpChangedAck, AcksAreTold, TrackedUntilConfirmed

\* A restarted announcer knows of no confirmation and announces its addresses, or has
\* none to announce.
LEMMA RestartIInv ==
  ASSUME IInv, TypeOK', Restart
  PROVE  IInv'
<1>1. /\ announced' = probe' /\ announced' \in {None, cur} /\ cur \in Nat /\ sampled \in Nat
      /\ sampled <= cur
  BY NumberFacts, HelperTypes DEF IInv, OnlyMade, TypeOK, Restart
<1>2. \A c \in changes' : c[1] <= cur
  <2>1. \A c \in changes : c[1] <= cur
    BY <1>1, NumberFacts DEF IInv, OnlyMade
  <2>2. \A c \in AtStart(cur).changes : c[1] <= cur
    BY <1>1, HelperTypes DEF IInv, TypeOK
  <2>3. QED
    BY <2>1, <2>2 DEF Restart
<1>3. \A x \in acks : x[1] <= cur
  BY <1>1, NumberFacts DEF IInv, OnlyMade
<1>4. OnlyMade'
  BY <1>1, <1>2, <1>3 DEF OnlyMade, Restart, None
<1>5. QED
  BY <1>1, <1>4 DEF IInv, Restart, AcksAreTold, TrackedUntilConfirmed, ProbeUnconfirmed

\* The retries, the end of the retries and the packets of the friend send again what was
\* announced, and keep it.
LEMMA RetriesIInv ==
  ASSUME IInv, TypeOK', RetryProbe \/ GiveUpProbe \/ HearFromFriend
  PROVE  IInv'
<1> USE DEF IInv, AcksAreTold, TrackedUntilConfirmed, ProbeUnconfirmed
<1>1. CASE RetryProbe
  <2>1. OnlyMade'
    BY <1>1, NumberFacts DEF RetryProbe, OnlyMade
  <2>2. QED
    BY <1>1, <2>1 DEF RetryProbe
<1>2. CASE GiveUpProbe
  <2>1. OnlyMade'
    BY <1>2, NumberFacts DEF GiveUpProbe, Kept, OnlyMade
  <2>2. None \notin confirmed
    BY HelperTypes DEF TypeOK
  <2>3. announced \in {None, pending'} \/ confirmed # {}
    BY <1>2 DEF GiveUpProbe, Kept, OnlyMade
  <2>4. QED
    BY <1>2, <2>1, <2>2, <2>3 DEF GiveUpProbe
<1>3. CASE HearFromFriend
  <2>1. OnlyMade'
    BY <1>3, NumberFacts DEF HearFromFriend, Delivered, announcerVars, OnlyMade
  <2>2. QED
    BY <1>3, <2>1 DEF HearFromFriend, announcerVars
<1>4. QED
  BY <1>1, <1>2, <1>3

\* The machine, the friend, the relays and the network.
LEMMA EnvironmentIInv ==
  ASSUME IInv, TypeOK',
         \/ \E L \in SUBSET live : ChangeAddress(L)
         \/ \E c \in changes : HandleIpChanged(c)
         \/ \E v \in Start .. cur : HearFromAnnouncer(v)
         \/ \E v \in pushes : HandlePushIp(v)
         \/ \E g \in gossips, seen \in BOOLEAN : HandleGossip(g, seen)
         \/ \E m \in Relays : PushIp(m) \/ RelayRestart(m)
         \/ Lose
         \/ UNCHANGED vars
  PROVE  IInv'
<1> USE DEF IInv, AcksAreTold, TrackedUntilConfirmed, ProbeUnconfirmed,
            announcerVars
<1>1. ASSUME NEW L \in SUBSET live, ChangeAddress(L)
      PROVE  IInv'
  <2>1. OnlyMade'
    BY <1>1, NumberFacts DEF ChangeAddress, OnlyMade
  <2>2. QED
    BY <1>1, <2>1 DEF ChangeAddress
<1>2. ASSUME NEW c \in changes, HandleIpChanged(c)
      PROVE  IInv'
  <2>1. Grows(book, Learnt(book, c), c[1])
    BY LearntGrows DEF TypeOK
  <2>2. /\ Distinct(book')
        /\ \A x : ListedOrFull(book, x) => ListedOrFull(book', x)
        /\ ListedOrFull(book', c[1])
    BY <1>2, <2>1, GrowsKeeps DEF HandleIpChanged, Grows
  <2>3. AcksAreTold'
    BY <1>2, <2>2 DEF HandleIpChanged
  <2>4. QED
    BY <1>2, <2>3 DEF HandleIpChanged, OnlyMade
<1>3. ASSUME NEW v \in Start .. cur, HearFromAnnouncer(v)
      PROVE  IInv'
  <2>1. v \in Versions
    BY HelperTypes, AnnounceAssumption DEF TypeOK, Versions
  <2>2. Grows(book, Heard[book][v], v)
    BY <2>1, RecordGrows DEF TypeOK
  <2>3. AcksAreTold'
    BY <1>3, <2>2, GrowsKeeps DEF HearFromAnnouncer, Grows
  <2>4. QED
    BY <1>3, <2>3 DEF HearFromAnnouncer, OnlyMade
<1>4. ASSUME NEW v \in pushes, HandlePushIp(v)
      PROVE  IInv'
  <2>1. Grows(book, Merged[book][v], v)
    BY RecordGrows DEF TypeOK
  <2>2. AcksAreTold'
    BY <1>4, <2>1, GrowsKeeps DEF HandlePushIp, Grows
  <2>3. QED
    BY <1>4, <2>2 DEF HandlePushIp, OnlyMade
<1>5. ASSUME NEW g \in gossips, NEW seen \in BOOLEAN, HandleGossip(g, seen)
      PROVE  IInv'
  BY <1>5 DEF HandleGossip, OnlyMade
<1>6. ASSUME NEW m \in Relays, PushIp(m) \/ RelayRestart(m)
      PROVE  IInv'
  BY <1>6 DEF PushIp, RelayRestart, OnlyMade
<1>7. CASE Lose
  BY <1>7 DEF Lose, OnlyMade
<1>8. CASE UNCHANGED vars
  BY <1>8 DEF vars, OnlyMade
<1>9. QED
  BY <1>1, <1>2, <1>3, <1>4, <1>5, <1>6, <1>7, <1>8

\* Every step keeps IInv.
LEMMA NextIInv == IInv /\ TypeOK' /\ [Next]_vars => IInv'
BY AnnounceIInv, HandleIpChangedAckIInv, RestartIInv, RetriesIInv, EnvironmentIInv DEF Next

\* The invariant of announcing: what is on the wire was announced, what is acknowledged is
\* on the friend's bounded record or that record is full, and stays full, and the newest
\* announcement is tracked while nothing is confirmed.
THEOREM InductiveInvariant == Spec => []IInv
<1>1. Spec => []TypeOK
  BY TypeCorrect
<1>2. QED
  BY <1>1, InitIInv, NextIInv, PTL DEF Spec

-----------------------------------------------------------------------------
(* What follows.                                                           *)

\* A friend that confirmed an announcement has its address on record, or has a full record.
THEOREM ConfirmedWasTold == Spec => []ConfirmedIsTold
<1>1. IInv => ConfirmedIsTold
  <2> SUFFICES ASSUME IInv, NEW v \in confirmed
               PROVE  Len(book) = MaxIps \/ \E i \in DOMAIN book : book[i] = v
    BY DEF ConfirmedIsTold
  <2>1. ListedOrFull(book, v) /\ book \in Seq(Versions)
    BY BookLists DEF IInv, AcksAreTold, TypeOK
  <2>2. QED
    BY <2>1 DEF ListedOrFull, Elems
<1>2. QED
  BY <1>1, InductiveInvariant, PTL

\* The newest announcement is not lost track of while the friend has confirmed nothing.
THEOREM NewestIsTracked == Spec => []TrackedUntilConfirmed
<1>1. IInv => TrackedUntilConfirmed
  BY DEF IInv
<1>2. QED
  BY <1>1, InductiveInvariant, PTL

\* The relays are told only of announcements that are not confirmed: only GiveUpProbe
\* adds a packet for them, and what it gives up is not confirmed.
THEOREM GossipIsHonest == Spec => GossipsUnconfirmed
<1> DEFINE Adds == gossips \subseteq gossips' /\ gossips' # gossips
<1>1. IInv /\ [Next]_vars => [Adds => probe \notin confirmed]_vars
  BY DEF IInv, ProbeUnconfirmed
<1>2. QED
  BY <1>1, InductiveInvariant, PTL DEF Spec, GossipsUnconfirmed
=============================================================================
