--------------------------- MODULE AddressAnnounce ---------------------------
(***************************************************************************)
(* Announcing one's addresses (net/mod.rs): this node, the announcer,      *)
(* tells a friend that its addresses have changed (IP_CHANGED, the probe), *)
(* retries until the friend confirms, and then asks its other friends, the *)
(* relays, to pass them on (GOSSIP), keeping the announcement for the day  *)
(* the friend is heard from.  A relay that knows the friend sends it the   *)
(* addresses a few times (PUSH_IP).                                        *)
(*                                                                         *)
(* All the announcer keeps is per friend: the module follows one friend.   *)
(* The addresses of the announcer are numbered by their changes, and a     *)
(* probe id is the number of the addresses it announces.  The friend's     *)
(* record is the bounded list of store/friends.rs (FriendBook says it of   *)
(* any addresses): an announced address may find no room there, or be      *)
(* pushed out by later ones, and is acknowledged all the same.             *)
(*                                                                         *)
(* Packets are not consumed: one may be received twice, late or never.     *)
(***************************************************************************)
EXTENDS Lists

CONSTANTS
  MaxVersion,  \* bound: number of address changes, the first included
  Start,       \* the version in which the program starts; the friend may still know
               \* those before it
  IPv6,        \* versions whose address is an IPv6 address
  Offline,     \* versions in which the node sees no address of its own worth
               \* announcing (its packets leave, a NAT's address as their source)
  Relays,      \* the announcer's other friends
  Mutual,      \* those of them that are the friend's friends too
  MaxIps,      \* MAX_IPS, which is 8
  MaxTries,    \* PROBE_MAX_RETRIES
  MaxPushes    \* PUSH_MAX_RETRIES

Versions == 1 .. MaxVersion

ASSUME AnnounceAssumption ==
  /\ MaxVersion \in Nat \ {0}
  /\ Start \in Versions
  /\ IPv6 \subseteq Versions
  /\ Offline \subseteq Versions
  /\ Mutual \subseteq Relays
  /\ MaxIps \in Nat \ {0}
  /\ MaxTries \in Nat
  /\ MaxPushes \in Nat

None == 0
Books == UNION {[1 .. n -> Versions] : n \in 0 .. MaxIps}
NoEntry == [version |-> None, attempts |-> 0]
Entries == [version : Versions, attempts : 0 .. MaxPushes] \cup {NoEntry}

VARIABLES
  cur,        \* the announcer's addresses now
  live,       \* its addresses, old and new, at which packets still reach it
  sampled,    \* last_local_ipv6
  announced,  \* the newest announcement
  probe,      \* ip_probes of the friend: probe_id, or None
  tries,      \* PendingProbe.attempts
  pending,    \* pending_announce of the friend: probe_id, or None
  confirmed,  \* probe ids the friend has confirmed since the start (history)
  book,       \* the friend's record of the announcer's addresses, Friend.ips
  changes,    \* IP_CHANGED packets on the wire: (probe_id, source address)
  acks,       \* IP_CHANGED_ACK packets: (probe_id, address they are sent to)
  gossips,    \* GOSSIP packets: (relay, addresses)
  entries,    \* pending_pushes of each relay, for the friend
  pushes      \* PUSH_IP packets: addresses

announcerVars == <<sampled, announced, probe, tries, pending, confirmed>>
relayVars == <<entries, pushes>>
vars == <<cur, live, announcerVars, book, changes, acks, gossips, relayVars>>

TypeOK ==
  /\ cur \in Versions
  /\ live \in SUBSET Versions /\ cur \in live
  /\ sampled \in Versions
  /\ announced \in Versions \cup {None}
  /\ probe \in Versions \cup {None}
  /\ tries \in 0 .. MaxTries
  /\ pending \in Versions \cup {None}
  /\ confirmed \in SUBSET Versions
  /\ book \in Books
  /\ changes \in SUBSET (Versions \X Versions)
  /\ acks \in SUBSET (Versions \X Versions)
  /\ gossips \in SUBSET (Relays \X Versions)
  /\ entries \in [Relays -> Entries]
  /\ pushes \in SUBSET Versions

\* What the friend may have on record before the program starts.
KnownBefore ==
  {list \in Books : \A i, j \in DOMAIN list : list[i] <= Start /\ (list[i] = list[j] => i = j)}

\* The announcement as the program starts, with addresses v.
AtStart(v) ==
  IF v \in Offline
  THEN [announced |-> None, probe |-> None, changes |-> {}]
  ELSE [announced |-> v, probe |-> v, changes |-> {<<v, v>>}]

Init ==
  /\ cur = Start
  /\ live = {Start}
  /\ sampled = Start
  /\ announced = AtStart(Start).announced
  /\ probe = AtStart(Start).probe
  /\ tries = 0
  /\ pending = None
  /\ confirmed = {}
  /\ book \in KnownBefore
  /\ changes = AtStart(Start).changes
  /\ acks = {}
  /\ gossips = {}
  /\ entries = [m \in Relays |-> NoEntry]
  /\ pushes = {}

-----------------------------------------------------------------------------
(* The announcer.                                                          *)

\* The machine gets new addresses; of the old ones, those in L go on working for a
\* while (the second stack, a deprecated IPv6 address).
ChangeAddress(L) ==
  /\ cur < MaxVersion
  /\ cur' = cur + 1
  /\ L \subseteq live
  /\ live' = L \cup {cur + 1}
  /\ UNCHANGED <<announcerVars, book, changes, acks, gossips, relayVars>>

\* detect_local_ip_change, then announce_ips if there is something to announce.
Announce ==
  /\ sampled # cur
  /\ sampled' = cur
  /\ IF cur \in Offline
     THEN UNCHANGED <<announced, probe, tries, changes>>
     ELSE /\ announced' = cur
          /\ probe' = cur
          /\ tries' = 0
          /\ changes' = changes \cup {<<cur, cur>>}
  /\ UNCHANGED <<cur, live, pending, confirmed, book, acks, gossips, relayVars>>

\* poll_probes, a retry that is due.
Retriable == tries < MaxTries

RetryProbe ==
  /\ probe # None
  /\ Retriable
  /\ tries' = tries + 1
  /\ changes' = changes \cup {<<probe, cur>>}
  /\ UNCHANGED <<cur, live, sampled, announced, probe, pending, confirmed, book, acks,
                 gossips, relayVars>>

\* What is kept of a probe that was not confirmed.
KeptNone == None
Kept == probe

\* poll_probes, the last retry unconfirmed: gossip_unconfirmed tells every relay the
\* addresses of now.
GiveUpProbe ==
  /\ probe # None
  /\ ~Retriable
  /\ probe' = None
  /\ tries' = 0
  /\ pending' = Kept
  /\ gossips' = gossips \cup (Relays \X {cur})
  /\ UNCHANGED <<cur, live, sampled, announced, confirmed, book, changes, acks, relayVars>>

\* deliver_pending_announce, at the end of handle_packet: p is what pending_announce
\* holds by then.
DeliveredNever(p) == {}
Delivered(p) == IF p = None THEN {} ELSE {<<p, cur>>}

\* The packets of the friend reach the announcer at the addresses the friend knows.
Reachable == \E i \in DOMAIN book : book[i] \in live

\* Any packet of the friend but an acknowledgement.
HearFromFriend ==
  /\ Reachable
  /\ changes' = changes \cup Delivered(pending)
  /\ UNCHANGED <<cur, live, announcerVars, book, acks, gossips, relayVars>>

\* The probe goes, whichever announcement is confirmed.
ProbeKept == probe
ProbeAfterAck == None

\* handle_ip_changed_ack, and the end of handle_packet.
HandleIpChangedAck(a) ==
  /\ a \in acks
  /\ a[2] \in live
  /\ probe' = ProbeAfterAck
  /\ tries' = 0
  /\ pending' = IF pending = a[1] THEN None ELSE pending
  /\ confirmed' = confirmed \cup {a[1]}
  /\ changes' = changes \cup Delivered(pending')
  /\ UNCHANGED <<cur, live, sampled, announced, book, acks, gossips, relayVars>>

\* A new process: the maps are empty, and it announces its addresses.
Restart ==
  /\ sampled' = cur
  /\ announced' = AtStart(cur).announced
  /\ probe' = AtStart(cur).probe
  /\ tries' = 0
  /\ pending' = None
  /\ confirmed' = {}
  /\ changes' = changes \cup AtStart(cur).changes
  /\ UNCHANGED <<cur, live, book, acks, gossips, relayVars>>

-----------------------------------------------------------------------------
(* The friend.                                                             *)

\* The record has room for MaxIps addresses; the last ones go.
Fitting(list) == IF Len(list) <= MaxIps THEN list ELSE SubSeq(list, 1, MaxIps)
ToFront(list, v) == <<v>> \o Only(list, Versions \ {v})

\* update_last_seen_and_ip, of the address a packet comes from.
Heard == [list \in Books |-> [v \in Versions |-> Fitting(ToFront(list, v))]]

\* merge_ips, of an address that was announced or passed on: IPv6 comes first.
Merged == [list \in Books |-> [v \in Versions |->
  Fitting(Only(ToFront(list, v), IPv6) \o Only(ToFront(list, v), Versions \ IPv6))]]

\* What handle_ip_changed records: the address the packet comes from and those announced.
LearntSource(list, c) == Heard[list][c[2]]
Learnt(list, c) == Merged[Heard[list][c[2]]][c[1]]

HandleIpChanged(c) ==
  /\ c \in changes
  /\ book' = Learnt(book, c)
  /\ acks' = acks \cup {c}
  /\ UNCHANGED <<cur, live, announcerVars, changes, gossips, relayVars>>

\* note_friend_seen for any other packet of the announcer, which may have left when the
\* addresses were others.
HearFromAnnouncer(v) ==
  /\ book' = Heard[book][v]
  /\ UNCHANGED <<cur, live, announcerVars, changes, acks, gossips, relayVars>>

\* handle_push_ip; an empty list of addresses is ignored.
HandlePushIp(v) ==
  /\ v \in pushes \ Offline
  /\ book' = Merged[book][v]
  /\ UNCHANGED <<cur, live, announcerVars, changes, acks, gossips, relayVars>>

-----------------------------------------------------------------------------
(* The relays.                                                             *)

\* An entry after it has been sent once more: poll_pushes drops it when that was the
\* last time, before the relay does anything else.
SentLate(e) == [e EXCEPT !.attempts = @ + 1]
Sent(e) == IF e.attempts < MaxPushes THEN [e EXCEPT !.attempts = @ + 1] ELSE NoEntry

\* handle_gossip: an entry for the friend, if the relay knows it and holds none yet;
\* the friend was recently seen or not.
HandleGossip(g, seen) ==
  LET m == g[1]
      e == IF entries[m] = NoEntry THEN [version |-> g[2], attempts |-> 0] ELSE entries[m]
  IN
  /\ g \in gossips
  /\ m \in Mutual
  /\ entries' = [entries EXCEPT ![m] = IF seen THEN Sent(e) ELSE e]
  /\ pushes' = IF seen THEN pushes \cup {e.version} ELSE pushes
  /\ UNCHANGED <<cur, live, announcerVars, book, changes, acks, gossips>>

\* An entry that is due is sent, by poll_pushes or by deliver_pending_pushes after a
\* packet or a question of the friend.
PushIp(m) ==
  /\ entries[m] # NoEntry
  /\ entries' = [entries EXCEPT ![m] = Sent(@)]
  /\ pushes' = pushes \cup {entries[m].version}
  /\ UNCHANGED <<cur, live, announcerVars, book, changes, acks, gossips>>

RelayRestart(m) ==
  /\ entries' = [entries EXCEPT ![m] = NoEntry]
  /\ UNCHANGED <<cur, live, announcerVars, book, changes, acks, gossips, pushes>>

-----------------------------------------------------------------------------
\* The network loses a packet that is needed in the end, or one that is sent again.
Lose ==
  \/ /\ \E c \in changes : changes' = changes \ {c}
     /\ UNCHANGED <<cur, live, announcerVars, book, acks, gossips, relayVars>>
  \/ /\ \E a \in acks : acks' = acks \ {a}
     /\ UNCHANGED <<cur, live, announcerVars, book, changes, gossips, relayVars>>
  \/ /\ \E g \in gossips : gossips' = gossips \ {g}
     /\ UNCHANGED <<cur, live, announcerVars, book, changes, acks, relayVars>>

Next ==
  \/ \E L \in SUBSET live : ChangeAddress(L)
  \/ Announce \/ RetryProbe \/ GiveUpProbe \/ HearFromFriend \/ Restart
  \/ \E a \in acks : HandleIpChangedAck(a)
  \/ \E c \in changes : HandleIpChanged(c)
  \/ \E v \in Start .. cur : HearFromAnnouncer(v)
  \/ \E v \in pushes : HandlePushIp(v)
  \/ \E g \in gossips, seen \in BOOLEAN : HandleGossip(g, seen)
  \/ \E m \in Relays : PushIp(m) \/ RelayRestart(m)
  \/ Lose

Spec == Init /\ [][Next]_vars

\* The loop of the announcer runs; the newest announcement arrives at last if it is sent
\* again and again, and so do its acknowledgements; and the friend goes on sending packets
\* to the addresses it knows.
FairSpec ==
  /\ Spec
  /\ WF_vars(RetryProbe \/ GiveUpProbe)
  /\ SF_vars(HearFromFriend)
  /\ SF_vars(\E c \in changes : c[1] = announced /\ c[2] \in live /\ HandleIpChanged(c))
  /\ SF_vars(\E a \in acks : a[1] = announced /\ HandleIpChangedAck(a))

-----------------------------------------------------------------------------
(* Properties.                                                             *)

\* What the friend has confirmed is in its record, whichever packet carried it and from
\* wherever the packet came, unless the record is full: an address that was confirmed is
\* missing only when it found no room or was pushed out of a full list.
ConfirmedIsTold ==
  \A v \in confirmed : Len(book) = MaxIps \/ \E i \in DOMAIN book : book[i] = v

\* While the friend has confirmed nothing, the newest announcement is being retried or
\* kept for later, through address changes, failures and restarts.
TrackedUntilConfirmed == confirmed = {} => announced \in {None, probe, pending}

\* The relays are asked, and the user told that the friend did not confirm, only about
\* an announcement that the friend has not confirmed.
GossipsUnconfirmed == [][gossips \subseteq gossips' /\ gossips' # gossips => probe \notin confirmed]_vars

\* A friend whose packets can reach the announcer confirms the newest announcement in
\* the end, unless the announcer has stopped tracking it.
EventuallyConfirmed ==
  []<>(announced \in confirmed \/ announced \notin {probe, pending} \/ ~Reachable)

\* The comment on PendingAnnounce: the newest announcement that the friend has not
\* confirmed is delivered when it comes online, so it must be in one of the two maps.
UnconfirmedTracked == announced \in confirmed \cup {None, probe, pending}
=============================================================================
