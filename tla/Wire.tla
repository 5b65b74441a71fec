-------------------------------- MODULE Wire --------------------------------
(***************************************************************************)
(* Packets and their sizes: the payloads of proto/mod.rs and proto/        *)
(* addressing.rs, the envelope and the packet of net/packet.rs, the limits *)
(* of net/mod.rs.  A packet is too large for the receiver's buffer or      *)
(* arrives whole: no prefix of one passes Packet::decode.  Keys, nonces,   *)
(* signatures and texts are their lengths; the address lists keep their    *)
(* entries, which the decoders walk by the lengths written in them.        *)
(***************************************************************************)
EXTENDS FriendBook, FiniteSetsExt

CONSTANT TextLen  \* the length of an address as text

RecvBuf == 4096
HeaderLen == 82
SigLen == 64

MaxMsgContentAny == RecvBuf
MaxMsgContentBytes == 3000
AttachChunkData == 2400

-----------------------------------------------------------------------------
(* Lists of addresses.                                                     *)

\* encode_ips, and the end of encode_addr_answer: a count of 16 bits, and for each
\* address its family, its length in 8 bits and its text.
EncodedIps(ips) ==
  [count   |-> Min({Len(ips), 65535}),
   entries |-> [i \in DOMAIN ips |-> [af  |-> IF IsV6(ips[i]) THEN 6 ELSE 4,
                                      len |-> TextLen[ips[i].ip] % 256,
                                      ip  |-> ips[i]]]]

NoIps == EncodedIps(<<>>)

\* The bytes of a list whose entries' texts are lens[1], lens[2], ... bytes long.
ListLen(lens) ==
  LET end[i \in 0 .. Len(lens)] == IF i = 0 THEN 2 ELSE end[i - 1] + 2 + lens[i]
  IN  end[Len(lens)]

LenOfIps(ips) == ListLen([i \in DOMAIN ips |-> TextLen[ips[i].ip]])

\* decode_ips, and the end of decode_addr_answer, in n bytes: the entries are taken if
\* each of them ends within the n bytes, and those that parse as an address are kept.
EntriesEnd(buf) == ListLen([i \in 1 .. buf.count |-> buf.entries[i].len])
Parses(e) == e.af \in {4, 6} /\ e.len = TextLen[e.ip.ip]

DecodesIps(buf, n) == EntriesEnd(buf) <= n
DecodedIps(buf) ==
  LET entries == SubSeq(buf.entries, 1, buf.count)
      kept    == Only(entries, {e \in ToSet(entries) : Parses(e)})
  IN  [i \in DOMAIN kept |-> kept[i].ip]

-----------------------------------------------------------------------------
(* Messages: `data` is the length of a text or of a chunk's data, `name`   *)
(* that of a file name.                                                    *)

Ping == [kind |-> "ping", ips |-> NoIps, data |-> 0, name |-> 0]
Text(n) == [Ping EXCEPT !.kind = "text", !.data = n]
Chunk(n, name) == [Ping EXCEPT !.kind = "chunk", !.data = n, !.name = Min({name, 255})]
Listing(kind, ips) == [Ping EXCEPT !.kind = kind, !.ips = EncodedIps(ips)]
Query == [Ping EXCEPT !.kind = "query"]

\* The plain text's fields of a fixed size; a gossip names one friend.
FixedLen(kind) ==
  CASE kind = "ping"      -> 0
    [] kind = "text"      -> 1 + 8 + 4
    [] kind = "chunk"     -> 1 + 8 + 4 + 16 + 1 + 4 + 4 + 8 + 1 + 4
    [] kind = "query"     -> 1 + 32 + 16 + 4
    [] kind = "answer"    -> 1 + 32 + 16
    [] kind = "ipChanged" -> 1 + 8
    [] kind = "gossip"    -> 1 + 2 + 32
    [] kind = "pushIp"    -> 32

ListsIps(kind) == kind \in {"answer", "ipChanged", "gossip", "pushIp"}

InnerLen(m) ==
  FixedLen(m.kind) + m.data + m.name
    + (IF ListsIps(m.kind) THEN LenOfIps([i \in DOMAIN m.ips.entries |-> m.ips.entries[i].ip]) ELSE 0)

\* seal and envelope_close: key, nonce and tag.  A ping has no envelope.
SealedLen(n) == 32 + 12 + n + 16
PayloadLen(m) == IF m.kind = "ping" THEN 0 ELSE SealedLen(InnerLen(m))

\* encode: header, payload, signature.
PacketLen(m) == HeaderLen + PayloadLen(m) + SigLen

\* recv_from keeps what fits in the buffer; Packet::decode wants the length the header
\* states.
Received(m) == Min({PacketLen(m), RecvBuf})
Decodes(m) ==
  /\ Received(m) >= HeaderLen + SigLen
  /\ Received(m) = PacketLen(m)
  /\ ListsIps(m.kind) => DecodesIps(m.ips, InnerLen(m) - FixedLen(m.kind))
=============================================================================
