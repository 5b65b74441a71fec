----------------------------- MODULE AddressPath -----------------------------
(***************************************************************************)
(* The way of one user's addresses, the owner's, into the stores of two    *)
(* friends: from its interfaces and its stable public IPv4 (config.rs),    *)
(* through announcements, invitations (deeplink.rs, main.rs) and packets   *)
(* it is heard by, and from one friend to the other by answers and pushes  *)
(* (net/mod.rs).  When these packets are sent, repeated and given up is    *)
(* the matter of AddressAnnounce and AddressQuery.                         *)
(***************************************************************************)
EXTENDS Wire

CONSTANTS
  Friends,      \* the owner's friends, friends of each other
  FriendIp,     \* the IP a friend's packets come from
  Port,         \* the owner's port
  NatPort,      \* the port a NAT gives the owner's packets
  DefaultPort,  \* DEFAULT_PORT
  Told,         \* addresses, right or wrong, that the owner tells its friends
  MaxWire,      \* bound: packets on the wire
  Texts,        \* lengths of texts the user may type
  Chunks,       \* lengths of chunks of an attachment
  Names,        \* lengths of file names
  Networks,     \* bound: the interface addresses, v4 and v6, of the networks the owner visits
  None

Ips == V4 \cup V6

\* The addresses that may be the owner's: it shares none with a friend.
OwnersIps == Ips \ {FriendIp}

Addresses == [ip : Ips, port : {Port, NatPort, DefaultPort}, mapped : BOOLEAN]

ASSUME AddressPathAssumption ==
  /\ None \notin Ips
  /\ "owner" \notin Friends
  /\ FriendIp \in Ips
  /\ TextLen \in [Ips -> 1 .. 47]
  /\ \A a \in Told : a \in Addresses /\ ~a.mapped /\ a.ip # FriendIp
  /\ Networks \subseteq [v4 : V4 \cup {None}, v6 : V6 \cup {None}]
  /\ \A n \in Networks : FriendIp \notin {n.v4, n.v6}
  /\ MaxWire \in Nat
  /\ Texts \subseteq Nat
  /\ Names \subseteq Nat
  /\ Chunks \subseteq 1 .. AttachChunkData

VARIABLES
  public,  \* public_ipv4 of config.toml
  owner,   \* the owner's machine and its program
  book,    \* each friend's list of the owner's addresses, None for a stranger
  wire,    \* packets: sender, receiver, source address, message
  typed    \* friends whose record was begun from an address that may be wrong

vars == <<public, owner, book, wire, typed>>

TypeOK ==
  /\ public \in V4 \cup {None}
  /\ owner \in [up : BOOLEAN, stable : V4 \cup {None}, shown : Ips \cup {None}, at : Networks]
  /\ book \in [Friends -> {None} \cup Seq(Addresses)]
  /\ \A p \in wire : /\ p.to \in Friends
                     /\ p.from \in Friends \cup {"owner"}
                     /\ p.src \in Addresses
  /\ typed \in SUBSET Friends

Init ==
  /\ public = None
  /\ owner \in [up : {FALSE}, stable : {None}, shown : {None}, at : Networks]
  /\ book = [h \in Friends |-> None]
  /\ wire = {}
  /\ typed = {}

Knows(h) == book[h] # None

-----------------------------------------------------------------------------
(* The owner.                                                              *)

\* `config set-public-ipv4` (normalize_public_ipv4, is_public_v4) and clear-public-ipv4.
SetPublic(ip) ==
  /\ ip = None \/ IsPublicV4(ip)
  /\ public' = ip
  /\ UNCHANGED <<owner, book, wire, typed>>

\* The machine gets other addresses.
MoveTo(network) ==
  /\ owner' = [owner EXCEPT !.at = network]
  /\ UNCHANGED <<public, book, wire, typed>>

\* The text of detect_local_ip is an address if the machine has just one.
Shown ==
  LET have == {owner.at.v4, owner.at.v6} \ {None}
  IN  IF Cardinality(have) = 1 THEN CHOOSE ip \in have : TRUE ELSE None

\* run_chat: what net::run and App::new are given.
StartRun ==
  /\ ~owner.up
  /\ owner' = [owner EXCEPT !.up = TRUE, !.stable = public, !.shown = Shown]
  /\ UNCHANGED <<public, book, wire, typed>>

EndRun ==
  /\ owner.up
  /\ owner' = [owner EXCEPT !.up = FALSE, !.stable = None, !.shown = None]
  /\ UNCHANGED <<public, book, wire, typed>>

\* The interfaces' addresses worth announcing.
Local == Only(<<owner.at.v4, owner.at.v6>>, {ip \in Ips : Reachable(At(ip, Port))})

\* local_announce of the program, own_ips of `link`: the stable address alone, or the local
\* ones.
Announced(stable) ==
  IF stable # None THEN <<At(stable, Port)>>
  ELSE [i \in DOMAIN Local |-> At(Local[i], Port)]

\* Where the owner's packets come from: an interface, or a NAT with a public address.
Sources ==
  {At(ip, Port) : ip \in {owner.at.v4, owner.at.v6} \ {None}}
    \cup {At(ip, NatPort) : ip \in IF owner.at.v4 = None THEN {} ELSE {pub \in OwnersIps : IsPublicV4(pub)}}

Send(from, h, a, m) ==
  /\ Cardinality(wire) < MaxWire
  /\ wire' = wire \cup {[from |-> from, to |-> h, src |-> SeenAs(a), m |-> m]}

OwnerSends(h, m) ==
  /\ owner.up
  /\ \E a \in Sources : Send("owner", h, a, m)
  /\ UNCHANGED <<public, owner, book, typed>>

\* announce_ips
AnnounceIps(h) ==
  /\ Announced(owner.stable) # <<>>
  /\ OwnerSends(h, Listing("ipChanged", Announced(owner.stable)))

\* gossip_unconfirmed
GossipUnconfirmed(h) == OwnerSends(h, Listing("gossip", Announced(owner.stable)))

\* startup_ping, and handle_ping's answer.
SendPing(h) == OwnerSends(h, Ping)

\* handle_send refuses a long text; handle_send_attach cuts a file.
HandleSend(h, n) == n <= MaxMsgContentBytes /\ OwnerSends(h, Text(n))
HandleSendAttach(h, n, name) == OwnerSends(h, Chunk(n, name))

-----------------------------------------------------------------------------
(* Invitations.                                                            *)

\* FriendStore::add
Add(h, ips) ==
  /\ ~Knows(h)
  /\ book' = [book EXCEPT ![h] = ips]
  /\ UNCHANGED <<public, owner, wire>>

\* cmd_link, opened by a friend: the first address, if there is one.
OpenLink(h) ==
  /\ Add(h, IF Announced(public) = <<>> THEN <<>> ELSE <<Announced(public)[1]>>)
  /\ UNCHANGED typed

\* App.invite_link, scanned by a friend (add_friend_from_link): the address shown since the
\* start, without a port.
ScanInvite(h) ==
  /\ owner.shown # None
  /\ Add(h, <<At(owner.shown, DefaultPort)>>)
  /\ typed' = typed \cup {h}

\* `friend add` with the address the owner has told the friend.
FriendAdd(h, a) ==
  /\ Add(h, <<a>>)
  /\ typed' = typed \cup {h}

-----------------------------------------------------------------------------
(* A friend.                                                               *)

\* note_friend_seen, for a packet of the owner.
SeenFromAnyone(h, p) == IF Knows(h) THEN Heard(book[h], NormalizeRecv(p.src)) ELSE book[h]
Seen(h, p) ==
  IF p.from = "owner" THEN Heard(book[h], NormalizeRecv(p.src)) ELSE book[h]

\* handle_ip_changed, handle_push_ip and handle_addr_answer merge what is listed.
Learnt(h, p) ==
  IF p.m.kind \in {"ipChanged", "pushIp", "answer"} /\ p.m.ips.count > 0
  THEN Merged(Seen(h, p), DecodedIps(p.m.ips))
  ELSE Seen(h, p)

\* handle_gossip and deliver_pending_pushes; handle_addr_query.
Passed(h, p) ==
  CASE p.m.kind = "gossip" ->
         {Listing("pushIp", DecodedIps(p.m.ips))}
    [] p.m.kind = "query"  ->
         {Listing("answer", IF Knows(h) THEN book[h] ELSE <<>>)}
    [] OTHER -> {}

FriendAddress == At(FriendIp, DefaultPort)
Others(h) == Friends \ {h}

HandlePacket(p) ==
  LET h == p.to IN
  /\ p \in wire
  /\ Knows(h) \/ p.from # "owner"
  /\ Decodes(p.m)
  /\ book' = IF Knows(h) THEN [book EXCEPT ![h] = Learnt(h, p)] ELSE book
  /\ wire' = (wire \ {p}) \cup
       {[from |-> h, to |-> o, src |-> SeenAs(FriendAddress), m |-> m] :
          o \in Others(h), m \in Passed(h, p)}
  /\ UNCHANGED <<public, owner, typed>>

\* send_addr_query_pkt
AskOther(h, o) ==
  /\ Knows(h)
  /\ Send(h, o, FriendAddress, Query)
  /\ UNCHANGED <<public, owner, book, typed>>

\* The packet is lost, or dropped by handle_packet.
Drop(p) ==
  /\ wire' = wire \ {p}
  /\ UNCHANGED <<public, owner, book, typed>>

Next ==
  \/ \E ip \in OwnersIps \cup {None} : SetPublic(ip)
  \/ \E network \in Networks : MoveTo(network)
  \/ StartRun
  \/ EndRun
  \/ \E h \in Friends :
       \/ AnnounceIps(h) \/ GossipUnconfirmed(h) \/ SendPing(h) \/ OpenLink(h) \/ ScanInvite(h)
       \/ \E n \in Texts : HandleSend(h, n)
       \/ \E n \in Chunks, name \in Names : HandleSendAttach(h, n, name)
       \/ \E a \in Told : FriendAdd(h, a)
       \/ \E o \in Others(h) : AskOther(h, o)
  \/ \E p \in wire : HandlePacket(p) \/ Drop(p)

Spec == Init /\ [][Next]_vars

-----------------------------------------------------------------------------
(* Properties.                                                             *)

\* A friend's list stays within MAX_IPS and holds no address twice, in its plain form or in
\* the mapped one of a dual-stack socket: every packet to the friend costs one datagram per
\* address, and a second copy would push out an address that works.
BookSound ==
  \A h \in Friends : Knows(h) =>
    /\ Len(book[h]) <= MaxIps
    /\ \A i, j \in DOMAIN book[h] : i # j => book[h][i] # book[h][j]
    /\ \A a \in ToSet(book[h]) : ~a.mapped

\* An address is forgotten only for want of room: whatever is announced, answered, pushed
\* or heard (update_last_seen_and_ip, merge_ips), one leaves a list only when the list is
\* full afterwards.
KeptUnlessFull ==
  [][\A h \in Friends : Knows(h) =>
       ToSet(book[h]) \subseteq ToSet(book'[h]) \/ Len(book'[h]) = MaxIps]_vars

\* What cannot be reached from elsewhere is neither announced nor taken over from others:
\* an address filter_reachable refuses comes into a list only with the friend, typed or
\* scanned, neither of which filters it.
RoutableOnly ==
  [][\A h \in Friends : Knows(h) =>
       \A a \in ToSet(book'[h]) \ ToSet(book[h]) : a.ip \notin Unroutable]_vars

\* Through any chain of announcements, answers and pushes a list holds addresses of its
\* owner only, never that of the friend that passed them on, though handle_packet records
\* the source of every packet; and an address of the owner's interfaces keeps the port the
\* program listens on, unless a friend began its record with another.
OwnersOnly ==
  \A h \in Friends : Knows(h) =>
    \A a \in ToSet(book[h]) :
      /\ a.ip # FriendIp
      /\ a.ip \in Private \cup V6 => a.port = Port \/ typed # {}

\* Every packet that is sent, a text and a chunk of the greatest length and the longest
\* answer included, fits in the receiver's buffer of run_loop: one that does not is cut,
\* refused by Packet::decode each time it is sent again, and reported as a failure.
DatagramFits == \A p \in wire : PacketLen(p.m) <= RecvBuf
=============================================================================
