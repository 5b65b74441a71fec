----------------------------- MODULE FriendBook -----------------------------
(***************************************************************************)
(* The addresses of one friend in the friend store (store/friends.rs) and  *)
(* what net/socket.rs says of an address.  An address is an IP with the    *)
(* UDP port of the program behind it; `mapped` marks the form ::ffff:a.b.  *)
(* c.d that a dual-stack socket gives an IPv4 address.                     *)
(***************************************************************************)
EXTENDS Lists, SequencesExt

CONSTANTS
  V4,          \* IPv4 addresses
  V6,          \* IPv6 addresses
  Private,     \* IPv4 addresses is_public_v4 refuses
  Unroutable,  \* addresses filter_reachable refuses
  MaxIps       \* MAX_IPS, which is 8

ASSUME FriendBookAssumption ==
  /\ V4 \cap V6 = {}
  /\ Private \subseteq V4
  /\ Unroutable \subseteq V6 \cup Private
  /\ MaxIps \in 1 .. 8

At(ip, port) == [ip |-> ip, port |-> port, mapped |-> FALSE]

\* A dual-stack socket's name for the sender of a packet.
SeenAs(a) == [a EXCEPT !.mapped = a.ip \in V4]

\* normalize_recv
NotNormalized(a) == a
NormalizeRecv(a) == [a EXCEPT !.mapped = FALSE]

\* is_public_v4
AnyPublic(ip) == ip \in (V4 \cup V6) \ Private
IsPublicV4(ip) == ip \in V4 \ Private

\* filter_reachable, reachable_addr; the mapped form is judged as an IPv6 address.
ReachableAny(a) == TRUE
Reachable(a) == a.mapped \/ a.ip \notin Unroutable

\* is_v6_addr
IsV6(a) == a.ip \in V6 \/ a.mapped

\* sort_by_key is stable.
SortedV6First(list) ==
  LET v6 == {a \in ToSet(list) : IsV6(a)}
  IN  Only(list, v6) \o Only(list, ToSet(list) \ v6)

\* The last addresses go when there are too many.
CutAtLimit(list) == IF Len(list) < MaxIps THEN list ELSE SubSeq(list, 1, MaxIps - 1)
Cut(list) == IF Len(list) <= MaxIps THEN list ELSE SubSeq(list, 1, MaxIps)

\* update_last_seen_and_ip: the source of a packet comes to the front.
Heard(list, a) == Cut(IF Reachable(a) THEN <<a>> \o Only(list, ToSet(list) \ {a}) ELSE list)

\* The addresses of `more` that `list` does not have yet are appended.
AppendedNew(list, more) ==
  LET merged[i \in 0 .. Len(more)] ==
        IF i = 0 THEN list
        ELSE IF more[i] \in ToSet(merged[i - 1]) THEN merged[i - 1]
        ELSE Append(merged[i - 1], more[i])
  IN  merged[Len(more)]

\* merge_ips: what others report comes first, IPv6 before IPv4.
Taken(new) == Only(new, {a \in ToSet(new) : Reachable(a)})
Merged(list, new) == Cut(SortedV6First(AppendedNew(Taken(new), list)))
=============================================================================
